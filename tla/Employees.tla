------------------------------ MODULE Employees ------------------------------
(***************************************************************************)
(* The employees of one department, from invitation to archive             *)
(* (controllers/invitations.controller.js, employee.controller.js,         *)
(* department.controller.js and their services).  A handler reads and      *)
(* checks first, and writes in later calls; a transaction is one step.     *)
(*                                                                         *)
(* There is at most one account for an address, archived ones included (a  *)
(* unique key): accounts are named by their address, which is not edited.  *)
(* What a handler reads and checks before its first write is one step.     *)
(***************************************************************************)
EXTENDS Naturals, FiniteSetsExt

CONSTANTS
    Addresses,
    None,           \* no address, or a field that was not given
    Statuses,       \* the employment statuses that are ever given (a bound)
    NumInvitations, \* bound on the invitations ever sent
    Clients,        \* requests that may be in flight at once
    MaxRequests     \* bound on the requests

ASSUME EmployeesAssumption ==
    /\ {NumInvitations, MaxRequests} \subseteq Nat /\ None \notin Addresses
    /\ Statuses \subseteq {"ACTIVE", "PROBATION", "ON_LEAVE", "INACTIVE"} /\ None \notin Statuses

Invitations == 1..NumInvitations
Roles == {"STAFF", "DEPARTMENT_ADMIN"}
ActiveForWork == {"ACTIVE", "PROBATION"}

VARIABLES
    user,       \* the account of each address
    invitation,
    manager,    \* whom the department has as its manager
    request,    \* what each handler in flight has read, and its next call
    requests,   \* how many there have been
    loose,      \* history: accounts named manager without the role for it, or
                \* demoted by a handler that had read another role or could not go on
    unpaid      \* history: accounts a call for which failed, or that had credentials
                \* when an invitation was accepted that had not made them

vars == <<user, invitation, manager, request, requests, loose, unpaid>>

NoUser == [state |-> "none", role |-> "STAFF", status |-> "ACTIVE", secret |-> FALSE,
           salary |-> FALSE, leave |-> FALSE, made |-> 0]
NoInvitation == [state |-> "none", lapsed |-> FALSE, to |-> None, role |-> "STAFF",
                 status |-> "ACTIVE", salary |-> FALSE]
Idle == [op |-> "none", pc |-> "idle", e |-> None, i |-> 0, role |-> None,
         status |-> None, was |-> None, salary |-> FALSE]

Init ==
    /\ user = [e \in Addresses |-> NoUser]
    /\ invitation = [i \in Invitations |-> NoInvitation]
    /\ manager = None
    /\ request = [c \in Clients |-> Idle]
    /\ requests = 0
    /\ loose = {} /\ unpaid = {}

-----------------------------------------------------------------------------

At(c, pc) == request[c].pc = pc

\* Live accounts; archived ones are not found.
Live == {e \in Addresses : user[e].state = "live"}

\* Nobody manages the department, or nobody who works.
Vacant == ~(manager \in Live /\ user[manager].status \in ActiveForWork)

\* Invitations that could be accepted.
Usable(e) ==
    {i \in Invitations : /\ invitation[i].state = "PENDING" /\ ~invitation[i].lapsed
                         /\ invitation[i].to = e}

\* A handler has read what it needs, and its checks allow it to go on.
Begins(c, r) ==
    /\ At(c, "idle") /\ requests < MaxRequests
    /\ requests' = requests + 1
    /\ request' = [request EXCEPT ![c] = r]
    /\ UNCHANGED <<user, invitation, manager, loose, unpaid>>

Goes(c, r) == request' = [request EXCEPT ![c] = r] /\ UNCHANGED requests

Step(c, pc) == Goes(c, [request[c] EXCEPT !.pc = pc])

Ends(c) == Goes(c, Idle)

Sets(e, new) == user' = [user EXCEPT ![e] = new]

-----------------------------------------------------------------------------
(* Invitations                                                             *)

Room ==
    Cardinality({i \in Invitations : invitation[i].state = "none"})
       > Cardinality({c \in Clients : At(c, "invite")})

Invites(c, e, role, status, salary) ==
    Room /\ Begins(c, [Idle EXCEPT !.op = "invite", !.pc = "invite", !.e = e,
                                   !.role = role, !.status = status, !.salary = salary])

\* For somebody who has no account; only a manager who is ACTIVE is in the way.
SendInvitation(c) ==
    \E e \in Addresses \ Live, role \in Roles, status \in Statuses, salary \in BOOLEAN :
       /\ role = "DEPARTMENT_ADMIN" => ~(manager \in Live /\ user[manager].status = "ACTIVE")
       /\ Usable(e) = {}
       /\ Invites(c, e, role, status, salary)

\* For an employee who has no credentials yet.
SendSetupInvitation(c) ==
    \E e \in Live :
       /\ user[e].status # "INACTIVE" /\ ~user[e].secret /\ Usable(e) = {}
       /\ Invites(c, e, user[e].role, user[e].status, FALSE)

CreateInvitation(c) ==
    /\ At(c, "invite")
    /\ \E i \in Invitations :
          /\ invitation[i].state = "none"
          /\ \A j \in Invitations : invitation[j].state = "none" => i <= j
          /\ LET q == request[c]
             IN  invitation' = [invitation EXCEPT ![i] = [state |-> "PENDING", lapsed |-> FALSE,
                                   to |-> q.e, role |-> q.role, status |-> q.status,
                                   salary |-> q.salary]]
    /\ Ends(c)
    /\ UNCHANGED <<user, manager, loose, unpaid>>

\* 48 hours have passed.
Lapse(i) ==
    /\ invitation[i].state = "PENDING" /\ ~invitation[i].lapsed
    /\ invitation' = [invitation EXCEPT ![i].lapsed = TRUE]
    /\ UNCHANGED <<user, manager, request, requests, loose, unpaid>>

\* One that lapsed is marked, unless it was; one that was accepted is refused.
AcceptInvitation(c) ==
    \E i \in Invitations :
       /\ invitation[i].state \in {"PENDING", "EXPIRED"}
       /\ invitation[i].lapsed => invitation[i].state = "PENDING"
       /\ Begins(c, [Idle EXCEPT !.op = "accept", !.e = invitation[i].to, !.i = i,
                       !.pc = IF invitation[i].lapsed THEN "expire" ELSE "find",
                       !.role = invitation[i].role, !.status = invitation[i].status,
                       !.salary = invitation[i].salary])

ExpireInvitation(c) ==
    /\ At(c, "expire")
    /\ invitation' = [invitation EXCEPT ![request[c].i].state = "EXPIRED"]
    /\ Ends(c)
    /\ UNCHANGED <<user, manager, loose, unpaid>>

FindAccount(c) ==
    /\ At(c, "find")
    /\ Step(c, IF request[c].e \in Live THEN "join" ELSE "make")
    /\ UNCHANGED <<user, invitation, manager, loose, unpaid>>

\* e becomes the manager, whatever its role is by now.
Names(e) ==
    /\ manager' = e
    /\ loose' = IF e # None /\ user[e].role # "DEPARTMENT_ADMIN" THEN loose \cup {e} ELSE loose

\* Mutant: the department gets the id of the invitation.
AcceptsById(c) ==
    LET q == request[c]
    IN  /\ invitation' = [invitation EXCEPT ![q.i].state = "ACCEPTED"]
        /\ manager' = IF q.role = "DEPARTMENT_ADMIN" /\ Vacant THEN q.i ELSE manager
        /\ UNCHANGED loose

\* The last write of both paths: the invitation, and a department without manager.
Accepts(c) ==
    LET q == request[c]
    IN  /\ invitation' = [invitation EXCEPT ![q.i].state = "ACCEPTED"]
        /\ IF q.role = "DEPARTMENT_ADMIN" /\ Vacant THEN Names(q.e) ELSE UNCHANGED <<manager, loose>>

\* An account that existed gets the password, and keeps its role.
JoinAccount(c) ==
    /\ At(c, "join")
    /\ LET q == request[c]
       IN  /\ Sets(q.e, [user[q.e] EXCEPT !.secret = TRUE])
           /\ unpaid' = IF user[q.e].secret /\ user[q.e].made # q.i THEN unpaid \cup {q.e}
                        ELSE unpaid
    /\ Accepts(c) /\ Ends(c)

\* The unique key refuses a second account, also beside an archived one.
MakeAccount(c) ==
    /\ At(c, "make")
    /\ LET q == request[c]
       IN  IF user[q.e].state = "none"
           THEN /\ Sets(q.e, [NoUser EXCEPT !.state = "live", !.role = q.role,
                                 !.status = q.status, !.secret = TRUE, !.made = q.i])
                /\ Step(c, "accept")
           ELSE Ends(c) /\ UNCHANGED user
    /\ UNCHANGED <<invitation, manager, loose, unpaid>>

\* Mutant: the salary is left to the entitlement.
AfterMakingLeave(q) == "entitle"

AfterMaking(q) == IF q.salary THEN "pay" ELSE "entitle"

MarkAccepted(c) ==
    /\ At(c, "accept") /\ Accepts(c)
    /\ Step(c, AfterMaking(request[c]))
    /\ UNCHANGED <<user, unpaid>>

\* The salary structure; createEmployee makes one likewise.
CreateSalary(c) ==
    /\ At(c, "pay")
    /\ Sets(request[c].e, [user[request[c].e] EXCEPT !.salary = TRUE])
    /\ IF request[c].op = "accept" THEN Step(c, "entitle") ELSE Ends(c)
    /\ UNCHANGED <<invitation, manager, loose, unpaid>>

\* The failure is logged, no more.
SalaryFails(c) ==
    /\ At(c, "pay") /\ request[c].op = "accept"
    /\ unpaid' = unpaid \cup {request[c].e}
    /\ Step(c, "entitle")
    /\ UNCHANGED <<user, invitation, manager, loose>>

\* The leave entitlement; one for each employee and year (a unique key).
CreateEntitlement(c) ==
    /\ At(c, "entitle")
    /\ Sets(request[c].e, [user[request[c].e] EXCEPT !.leave = TRUE])
    /\ Ends(c)
    /\ UNCHANGED <<invitation, manager, loose, unpaid>>

\* The home page makes the entitlement that is missing.
GetHomeStats(c) ==
    \E e \in Live :
       /\ user[e].secret /\ ~user[e].leave
       /\ Begins(c, [Idle EXCEPT !.op = "home", !.pc = "entitle", !.e = e])

-----------------------------------------------------------------------------
(* Employees                                                               *)

CreateEmployee(c) ==
    \E e \in Addresses \ Live, role \in Roles, status \in Statuses :
       Begins(c, [Idle EXCEPT !.op = "hire", !.pc = "hire", !.e = e, !.role = role,
                              !.status = status])

CreateUser(c) ==
    /\ At(c, "hire")
    /\ LET q == request[c]
       IN  IF user[q.e].state = "none"
           THEN /\ Sets(q.e, [NoUser EXCEPT !.state = "live", !.role = q.role,
                                            !.status = q.status])
                /\ Step(c, "pay")
           ELSE Ends(c) /\ UNCHANGED user
    /\ UNCHANGED <<invitation, manager, loose, unpaid>>

\* A role, a status or both are given.
UpdateEmployee(c) ==
    \E e \in Live, role \in Roles \cup {None}, status \in Statuses \cup {None} :
       /\ role # None \/ status # None
       /\ Begins(c, [Idle EXCEPT !.op = "update", !.pc = "update", !.e = e, !.role = role,
                                 !.status = status, !.was = user[e].role])

\* Mutant: a demoted manager is left in place.
AfterPromotion(q) ==
    IF q.role = "DEPARTMENT_ADMIN" /\ q.was # "DEPARTMENT_ADMIN" THEN "assign" ELSE "done"

\* What follows the role that was read and the one that was written.
AfterUpdate(q) ==
    IF q.role = None \/ q.role = q.was THEN "done"
    ELSE IF q.role = "DEPARTMENT_ADMIN" THEN "assign" ELSE "clear"

\* An account archived since is not found.
UpdateUser(c) ==
    /\ At(c, "update")
    /\ LET q == request[c]
       IN  IF q.e \in Live
           THEN /\ Sets(q.e, [user[q.e] EXCEPT !.role = IF q.role = None THEN @ ELSE q.role,
                                               !.status = IF q.status = None THEN @ ELSE q.status])
                /\ IF AfterUpdate(q) = "done" THEN Ends(c) ELSE Step(c, AfterUpdate(q))
                /\ loose' = IF q.role # None /\ q.was # user[q.e].role THEN loose \cup {q.e}
                            ELSE loose
           ELSE Ends(c) /\ UNCHANGED <<user, loose>>
    /\ UNCHANGED <<invitation, manager, unpaid>>

ClearManager(c) ==
    /\ At(c, "clear")
    /\ manager' = IF manager = request[c].e THEN None ELSE manager
    /\ Ends(c)
    /\ UNCHANGED <<user, invitation, loose, unpaid>>

AssignManager(c) ==
    /\ At(c, "assign")
    /\ IF Vacant THEN Names(request[c].e) ELSE UNCHANGED <<manager, loose>>
    /\ Ends(c)
    /\ UNCHANGED <<user, invitation, unpaid>>

\* HR names a manager, or none.
UpdateDepartment(c) ==
    \E e \in Live \cup {None} :
       /\ e # manager
       /\ e # None => user[e].role = "DEPARTMENT_ADMIN" /\ user[e].status \in ActiveForWork
       /\ Begins(c, [Idle EXCEPT !.op = "name", !.pc = "name", !.e = e])

NameManager(c) ==
    /\ At(c, "name")
    /\ Names(request[c].e)
    /\ Ends(c)
    /\ UNCHANGED <<user, invitation, unpaid>>

\* Handlers that change one thing of an account.
Changes(c, pc, E) ==
    \E e \in E : Begins(c, [Idle EXCEPT !.op = "change", !.pc = pc, !.e = e])

TerminateEmployee(c) ==
    Changes(c, "terminate", {e \in Live : user[e].status # "INACTIVE"})
ReactivateEmployee(c) ==
    Changes(c, "reactivate", {e \in Live : user[e].status \notin ActiveForWork})
ArchiveEmployee(c) == Changes(c, "archive", Live)
RestoreEmployee(c) == Changes(c, "restore", {e \in Addresses : user[e].state = "archived"})

ChangeUser(c) ==
    /\ request[c].op = "change"
    /\ LET u == user[request[c].e]
       IN  Sets(request[c].e,
                CASE At(c, "terminate") -> [u EXCEPT !.status = "INACTIVE"]
                  [] At(c, "reactivate") -> [u EXCEPT !.status = "ACTIVE"]
                  [] At(c, "archive") -> [u EXCEPT !.state = "archived"]
                  [] At(c, "restore") -> [u EXCEPT !.state = "live"])
    /\ Ends(c)
    /\ UNCHANGED <<invitation, manager, loose, unpaid>>

-----------------------------------------------------------------------------

\* A call fails, or the server dies: what was written stays.
Fault(c) ==
    /\ ~At(c, "idle") /\ Ends(c)
    /\ loose' = IF At(c, "clear") THEN loose \cup {request[c].e} ELSE loose
    /\ unpaid' = IF request[c].pc \in {"accept", "pay", "entitle"}
                 THEN unpaid \cup {request[c].e} ELSE unpaid
    /\ UNCHANGED <<user, invitation, manager>>

Handler(c) ==
    \/ SendInvitation(c) \/ SendSetupInvitation(c) \/ AcceptInvitation(c)
    \/ GetHomeStats(c) \/ CreateEmployee(c) \/ UpdateEmployee(c) \/ UpdateDepartment(c)
    \/ TerminateEmployee(c) \/ ReactivateEmployee(c)
    \/ ArchiveEmployee(c) \/ RestoreEmployee(c)

Call(c) ==
    \/ CreateInvitation(c) \/ ExpireInvitation(c) \/ FindAccount(c) \/ JoinAccount(c)
    \/ MakeAccount(c) \/ MarkAccepted(c) \/ CreateSalary(c) \/ SalaryFails(c)
    \/ CreateEntitlement(c) \/ CreateUser(c) \/ UpdateUser(c) \/ ClearManager(c)
    \/ AssignManager(c) \/ NameManager(c) \/ ChangeUser(c) \/ Fault(c)

Next ==
    \/ \E c \in Clients : Handler(c) \/ Call(c)
    \/ \E i \in Invitations : Lapse(i)

Spec == Init /\ [][Next]_vars

-----------------------------------------------------------------------------

\* The state stays in its types.
TypeOK ==
    /\ user \in [Addresses -> [state : {"none", "live", "archived"}, role : Roles,
                   status : ActiveForWork \cup {"ON_LEAVE", "INACTIVE"}, secret : BOOLEAN,
                   salary : BOOLEAN, leave : BOOLEAN, made : 0..NumInvitations]]
    /\ \A i \in Invitations : invitation[i].state \in {"none", "PENDING", "ACCEPTED", "EXPIRED"}
    /\ manager \in Addresses \cup {None} /\ loose \cup unpaid \subseteq Addresses

Busy(e) == \E c \in Clients : request[c].e = e

\* Once its handlers are done, the department's manager has the role for it, working
\* or not, however many handlers promote, demote, invite or name at once; unless one
\* named an account whose role had changed since it was read, or was another than its
\* invitation's, or demoted one from a role it had not read, or failed before clearing.
ManagerHasRole ==
    manager # None /\ ~Busy(manager) /\ manager \notin loose
       => user[manager].role = "DEPARTMENT_ADMIN"

\* Once its handlers are done, an accepted invitation that promised a salary has left
\* its address with credentials and a salary, and with leave where it made the
\* account, however many accepted, hired or archived at once, unless a call for the
\* address failed or the account had its credentials from elsewhere.
PromisesKept ==
    \A i \in Invitations :
       LET e == invitation[i].to
       IN  invitation[i].state = "ACCEPTED" /\ ~Busy(e) /\ e \notin unpaid
              => /\ user[e].secret
                 /\ invitation[i].salary => user[e].salary
                 /\ user[e].made = i => user[e].leave
=============================================================================
