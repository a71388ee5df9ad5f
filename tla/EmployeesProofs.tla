--------------------------- MODULE EmployeesProofs ---------------------------
(***************************************************************************)
(* Employees, for any number of addresses, invitations, clients and        *)
(* requests.  An account that exists goes on to exist, and never loses     *)
(* what it has got; a handler that waits between two calls relies on that, *)
(* and on what it has read of an invitation, which nobody edits.           *)
(***************************************************************************)
EXTENDS Employees, TLAPS

Employment == ActiveForWork \cup {"ON_LEAVE", "INACTIVE"}

Users == [state : {"none", "live", "archived"}, role : Roles, status : Employment,
          secret : BOOLEAN, salary : BOOLEAN, leave : BOOLEAN, made : 0..NumInvitations]

Invited == [state : {"none", "PENDING", "ACCEPTED", "EXPIRED"}, lapsed : BOOLEAN,
            to : Addresses \cup {None}, role : Roles, status : Employment, salary : BOOLEAN]

\* The calls that a handler may be about to make.
Calls(op) ==
    CASE op = "none" -> {"idle"}
      [] op = "invite" -> {"invite"}
      [] op = "accept" -> {"expire", "find", "join", "make", "accept", "pay", "entitle"}
      [] op = "home" -> {"entitle"}
      [] op = "hire" -> {"hire", "pay"}
      [] op = "update" -> {"update", "assign", "clear"}
      [] op = "name" -> {"name"}
      [] op = "change" -> {"terminate", "reactivate", "archive", "restore"}

Ops == {"none", "invite", "accept", "home", "hire", "update", "name", "change"}

Pcs == {"idle", "invite", "expire", "find", "join", "make", "accept", "pay", "entitle", "hire",
        "update", "assign", "clear", "name", "terminate", "reactivate", "archive", "restore"}

Requests == [op : Ops, pc : Pcs, e : Addresses \cup {None},
             i : 0..NumInvitations, role : Roles \cup {None}, status : Employment \cup {None},
             was : Roles \cup {None}, salary : BOOLEAN]

-----------------------------------------------------------------------------
(* The inductive invariant                                                 *)

Types ==
    /\ user \in [Addresses -> Users]
    /\ invitation \in [Invitations -> Invited]
    /\ \A i \in Invitations : invitation[i].state # "none" => invitation[i].to \in Addresses
    /\ request \in [Clients -> Requests]
    /\ manager \in Addresses \cup {None}
    /\ loose \subseteq Addresses /\ unpaid \subseteq Addresses

Exists(e) == user[e].state # "none"

\* What a handler about to make a call knows of accounts and invitations.
Fits(q) ==
    /\ q.pc \in Calls(q.op)
    /\ q.op = "none" => q = Idle
    /\ q.op \notin {"none", "name"} => q.e \in Addresses
    /\ q.op \in {"invite", "hire"} => q.role \in Roles /\ q.status \in Employment
    /\ q.op \in {"home", "update", "change"} => Exists(q.e)
    /\ q.op = "name" /\ q.e # None => Exists(q.e)
    /\ q.pc \in {"join", "accept", "pay"} => Exists(q.e)
    /\ q.op = "hire" /\ q.pc = "pay" => user[q.e].made = 0
    /\ q.op = "accept" =>
          /\ q.i \in Invitations /\ invitation[q.i].state # "none"
          /\ q.e = invitation[q.i].to /\ q.role = invitation[q.i].role
          /\ q.status = invitation[q.i].status /\ q.salary = invitation[q.i].salary
          /\ q.pc \in {"accept", "pay", "entitle"} => Exists(q.e) /\ user[q.e].made = q.i

ManagerExists == manager # None => Exists(manager)

\* Of an account that no handler named, or demoted, by a role it no longer had.
RoleFits(e) ==
    manager = e /\ user[e].role # "DEPARTMENT_ADMIN" =>
       \E c \in Clients : At(c, "clear") /\ request[c].e = e

\* A handler that is still to make the salary, or the leave, of its account.
OwesSalary(q, e) == q.e = e /\ q.pc \in {"accept", "pay"}
OwesLeave(q, e) ==
    q.e = e /\ (q.pc \in {"accept", "entitle"} \/ (q.pc = "pay" /\ q.op = "accept"))

\* Of an account no call for which failed.
PromiseFits(e) ==
    /\ \A i \in Invitations : invitation[i].state = "ACCEPTED" /\ invitation[i].to = e =>
          Exists(e) /\ user[e].secret /\ user[e].made \in {0, i}
    /\ Exists(e) /\ (user[e].made # 0 => invitation[user[e].made].salary) =>
          user[e].salary \/ \E c \in Clients : OwesSalary(request[c], e)
    /\ Exists(e) /\ user[e].made # 0 =>
          user[e].leave \/ \E c \in Clients : OwesLeave(request[c], e)

MadeByInvitation ==
    \A e \in Addresses : user[e].made # 0 =>
       user[e].secret /\ invitation[user[e].made].state # "none"

EmployeesInv ==
    /\ Types
    /\ \A c \in Clients : Fits(request[c])
    /\ ManagerExists
    /\ MadeByInvitation
    /\ \A e \in Addresses \ loose : RoleFits(e)
    /\ \A e \in Addresses \ unpaid : PromiseFits(e)

-----------------------------------------------------------------------------
(* What steps leave as it is                                               *)

LEMMA StatusesFit == Statuses \subseteq Employment
  BY EmployeesAssumption DEF Employment, ActiveForWork

LEMMA IdleFits ==
    /\ Idle \in Requests /\ Idle.op = "none" /\ Idle.pc = "idle" /\ Idle.e = None
    /\ Idle.i = 0 /\ Idle.role = None /\ Idle.status = None /\ Idle.salary = FALSE
  BY EmployeesAssumption DEF Idle, Requests, Ops, Pcs

\* Accounts stay, with what they have got; what an invitation says is not edited.
Grown ==
    /\ user' \in [Addresses -> Users] /\ invitation' \in [Invitations -> Invited]
    /\ \A e \in Addresses : Exists(e) =>
          /\ user'[e].state # "none" /\ user'[e].made = user[e].made
          /\ user[e].secret => user'[e].secret
          /\ user[e].salary => user'[e].salary
          /\ user[e].leave => user'[e].leave
    /\ \A i \in Invitations : invitation[i].state # "none" =>
          /\ invitation'[i].state # "none" /\ invitation'[i].to = invitation[i].to
          /\ invitation'[i].role = invitation[i].role
          /\ invitation'[i].status = invitation[i].status
          /\ invitation'[i].salary = invitation[i].salary
    /\ \A i \in Invitations : invitation'[i].state # "none" => invitation'[i].to \in Addresses

LEMMA FitsStays ==
    ASSUME Types, Grown, NEW q \in Requests, Fits(q)
    PROVE  Fits(q)'
<1>1. Exists(q.e) /\ q.e \in Addresses => Exists(q.e)' /\ user'[q.e].made = user[q.e].made
  BY DEF Grown, Exists
<1>2. q.e # None => q.e \in Addresses
  BY DEF Requests
<1>3. ASSUME q.op = "accept"
      PROVE  /\ q.i \in Invitations /\ invitation'[q.i].state # "none"
             /\ q.e = invitation'[q.i].to /\ q.role = invitation'[q.i].role
             /\ q.status = invitation'[q.i].status /\ q.salary = invitation'[q.i].salary
  BY <1>3 DEF Grown, Fits
<1>4. q.op = "hire" /\ q.pc = "pay" => q.e \in Addresses /\ Exists(q.e)
  BY DEF Fits
<1>5. q.pc \in {"join", "accept", "pay"} => q.e \in Addresses
  BY DEF Fits, Calls, Requests, Ops
<1> HIDE DEF Exists
<1> QED
  BY <1>1, <1>2, <1>3, <1>4, <1>5 DEF Fits

\* What the call of one handler may do to the role of an account, and to its manager.
RoleMove(q, r, e) ==
    manager' = e /\ user'[e].role # "DEPARTMENT_ADMIN" =>
       \/ manager = e /\ user[e].role # "DEPARTMENT_ADMIN" /\ ~(q.pc = "clear" /\ q.e = e)
       \/ r.pc = "clear" /\ r.e = e

LEMMA RoleStays ==
    ASSUME EmployeesInv, NEW c \in Clients, NEW q \in Requests, q = request[c],
           NEW r \in Requests, request' = [request EXCEPT ![c] = r],
           NEW e \in Addresses, RoleFits(e), RoleMove(q, r, e)
    PROVE  RoleFits(e)'
<1>1. request'[c] = r /\ \A d \in Clients \ {c} : request'[d] = request[d]
  BY DEF EmployeesInv, Types
<1>2. ASSUME manager' = e, user'[e].role # "DEPARTMENT_ADMIN"
      PROVE  \E d \in Clients : request'[d].pc = "clear" /\ request'[d].e = e
  <2>1. CASE r.pc = "clear" /\ r.e = e
    BY <1>1, <2>1
  <2>2. CASE manager = e /\ user[e].role # "DEPARTMENT_ADMIN" /\ ~(q.pc = "clear" /\ q.e = e)
    <3> PICK d \in Clients : request[d].pc = "clear" /\ request[d].e = e
      BY <2>2 DEF RoleFits, At
    <3>1. d # c
      BY <2>2
    <3> QED
      BY <1>1, <3>1
  <2> QED
    BY <1>2, <2>1, <2>2 DEF RoleMove
<1> QED
  BY <1>2 DEF RoleFits, At

\* What the call of one handler may do to what was promised to an account.
PromiseMove(q, r, e) ==
    /\ \A i \in Invitations :
          invitation'[i].state = "ACCEPTED" /\ invitation'[i].to = e
             /\ invitation[i].state # "ACCEPTED"
          => user'[e].state # "none" /\ user'[e].secret /\ user'[e].made \in {0, i}
    /\ OwesSalary(q, e) =>
          \/ OwesSalary(r, e) \/ user'[e].salary
          \/ user[e].made # 0 /\ ~invitation[user[e].made].salary
    /\ OwesLeave(q, e) => OwesLeave(r, e) \/ user'[e].leave
    /\ ~Exists(e) /\ user'[e].state # "none" =>
          OwesSalary(r, e) /\ (user'[e].made # 0 => OwesLeave(r, e))

LEMMA PromiseStays ==
    ASSUME EmployeesInv, Grown, NEW c \in Clients, NEW q \in Requests, q = request[c],
           NEW r \in Requests, request' = [request EXCEPT ![c] = r],
           NEW e \in Addresses, PromiseFits(e), PromiseMove(q, r, e)
    PROVE  PromiseFits(e)'
<1>1. request'[c] = r /\ \A d \in Clients \ {c} : request'[d] = request[d]
  BY DEF EmployeesInv, Types
<1>2. ASSUME NEW i \in Invitations, invitation'[i].state = "ACCEPTED", invitation'[i].to = e
      PROVE  user'[e].state # "none" /\ user'[e].secret /\ user'[e].made \in {0, i}
  <2>1. CASE invitation[i].state = "ACCEPTED"
    <3>1. invitation[i].to = e
      BY <1>2, <2>1 DEF Grown
    <3>2. Exists(e) /\ user[e].secret /\ user[e].made \in {0, i}
      BY <2>1, <3>1 DEF PromiseFits
    <3> QED
      BY <3>2 DEF Grown
  <2>2. CASE invitation[i].state # "ACCEPTED"
    BY <1>2, <2>2 DEF PromiseMove
  <2> QED
    BY <2>1, <2>2
<1>3. ASSUME user'[e].state # "none",
             user'[e].made # 0 => invitation'[user'[e].made].salary, ~user'[e].salary
      PROVE  \E d \in Clients : OwesSalary(request'[d], e)
  <2>1. CASE ~Exists(e)
    BY <1>1, <1>3, <2>1 DEF PromiseMove
  <2>2. CASE Exists(e)
    <3>1. user'[e].made = user[e].made /\ ~user[e].salary
      BY <1>3, <2>2 DEF Grown
    <3>2. user[e].made # 0 => invitation[user[e].made].salary
      <4>1. user[e].made # 0 =>
               user[e].made \in Invitations /\ invitation[user[e].made].state # "none"
        BY EmployeesAssumption DEF EmployeesInv, MadeByInvitation, Types, Users, Invitations
      <4> QED
        BY <1>3, <3>1, <4>1 DEF Grown
    <3> PICK d \in Clients : OwesSalary(request[d], e)
      BY <2>2, <3>1, <3>2 DEF PromiseFits
    <3>3. CASE d # c
      BY <1>1, <3>3
    <3>4. CASE d = c
      BY <1>1, <1>3, <3>2, <3>4 DEF PromiseMove
    <3> QED
      BY <3>3, <3>4
  <2> QED
    BY <2>1, <2>2
<1>4. ASSUME user'[e].state # "none", user'[e].made # 0, ~user'[e].leave
      PROVE  \E d \in Clients : OwesLeave(request'[d], e)
  <2>1. CASE ~Exists(e)
    BY <1>1, <1>4, <2>1 DEF PromiseMove
  <2>2. CASE Exists(e)
    <3>1. user'[e].made = user[e].made /\ ~user[e].leave
      BY <1>4, <2>2 DEF Grown
    <3> PICK d \in Clients : OwesLeave(request[d], e)
      BY <1>4, <2>2, <3>1 DEF PromiseFits
    <3>3. CASE d # c
      BY <1>1, <3>3
    <3>4. CASE d = c
      BY <1>1, <1>4, <3>4 DEF PromiseMove
    <3> QED
      BY <3>3, <3>4
  <2> QED
    BY <2>1, <2>2
<1> QED
  BY <1>2, <1>3, <1>4 DEF PromiseFits, Exists, OwesSalary, OwesLeave

\* A call of one handler keeps the invariant.
LEMMA CallFits ==
    ASSUME EmployeesInv, NEW c \in Clients, NEW q \in Requests, q = request[c],
           NEW r \in Requests, request' = [request EXCEPT ![c] = r], Grown, Fits(r)',
           manager' \in Addresses \cup {None},
           manager' = manager \/ ManagerExists', MadeByInvitation',
           loose \subseteq loose', loose' \subseteq Addresses,
           unpaid \subseteq unpaid', unpaid' \subseteq Addresses,
           \A e \in Addresses \ loose' : RoleMove(q, r, e),
           \A e \in Addresses \ unpaid' : PromiseMove(q, r, e)
    PROVE  EmployeesInv'
<1>1. request'[c] = r /\ \A d \in Clients \ {c} : request'[d] = request[d]
  BY DEF EmployeesInv, Types
<1>2. Types'
  <2>1. request' \in [Clients -> Requests]
    BY DEF EmployeesInv, Types
  <2> QED
    BY <2>1 DEF Types, Grown
<1>3. ASSUME NEW d \in Clients
      PROVE  Fits(request[d])'
  <2>1. CASE d = c
    BY <1>1, <2>1 DEF Fits, Exists
  <2>2. CASE d # c
    <3> PICK p \in Requests : p = request[d]
      BY DEF EmployeesInv, Types
    <3>1. Fits(p)'
      BY FitsStays DEF EmployeesInv
    <3> QED
      BY <1>1, <2>2, <3>1 DEF Fits, Exists
  <2> QED
    BY <2>1, <2>2
<1>4. ManagerExists'
  BY DEF ManagerExists, Exists, Grown, EmployeesInv
<1>5. ASSUME NEW e \in Addresses \ loose'
      PROVE  RoleFits(e)'
  BY <1>5, RoleStays DEF EmployeesInv
<1>6. ASSUME NEW e \in Addresses \ unpaid'
      PROVE  PromiseFits(e)'
  BY <1>6, PromiseStays DEF EmployeesInv
<1> QED
  BY <1>2, <1>3, <1>4, <1>5, <1>6 DEF EmployeesInv

-----------------------------------------------------------------------------
(* Handlers that begin                                                     *)

\* A handler that has read what it relies on keeps the invariant.
LEMMA BeginFits ==
    ASSUME EmployeesInv, NEW c \in Clients, NEW r \in Requests, Begins(c, r), Fits(r)
    PROVE  EmployeesInv'
<1>1. /\ At(c, "idle") /\ request' = [request EXCEPT ![c] = r]
      /\ UNCHANGED <<user, invitation, manager, loose, unpaid>>
  BY DEF Begins
<1>2. request'[c] = r /\ \A d \in Clients \ {c} : request'[d] = request[d]
  BY <1>1 DEF EmployeesInv, Types
<1>3. request[c].pc = "idle" /\ request[c].op = "none"
  <2>1. Fits(request[c]) /\ request[c] \in Requests
    BY DEF EmployeesInv, Types
  <2> QED
    BY <1>1, <2>1 DEF At, Fits, Calls, Requests, Ops
<1>5. Types'
  <2>1. request' \in [Clients -> Requests]
    BY <1>1 DEF EmployeesInv, Types
  <2> QED
    BY <1>1, <2>1 DEF EmployeesInv, Types
<1>6. ASSUME NEW d \in Clients
      PROVE  Fits(request[d])'
  <2>1. Fits(request'[d])
    BY <1>2 DEF EmployeesInv
  <2> QED
    BY <1>1, <2>1 DEF Fits, Exists
<1>7. ASSUME NEW e \in Addresses \ loose'
      PROVE  RoleFits(e)'
  <2>1. RoleFits(e)
    BY <1>1, <1>7 DEF EmployeesInv
  <2>2. ASSUME manager = e, user[e].role # "DEPARTMENT_ADMIN"
        PROVE  \E d \in Clients : request'[d].pc = "clear" /\ request'[d].e = e
    <3> PICK d \in Clients : request[d].pc = "clear" /\ request[d].e = e
      BY <2>1, <2>2 DEF RoleFits, At
    <3>1. d # c
      BY <1>3
    <3> QED
      BY <1>2, <3>1
  <2> QED
    BY <1>1, <2>2 DEF RoleFits, At
<1>8. ASSUME NEW e \in Addresses \ unpaid'
      PROVE  PromiseFits(e)'
  <2>1. PromiseFits(e)
    BY <1>1, <1>8 DEF EmployeesInv
  <2>2. ~OwesSalary(request[c], e) /\ ~OwesLeave(request[c], e)
    BY <1>3 DEF OwesSalary, OwesLeave
  <2>3. /\ (\E d \in Clients : OwesSalary(request[d], e)) =>
              \E d \in Clients : OwesSalary(request'[d], e)
        /\ (\E d \in Clients : OwesLeave(request[d], e)) =>
              \E d \in Clients : OwesLeave(request'[d], e)
    BY <1>2, <2>2
  <2> QED
    BY <1>1, <2>1, <2>3 DEF PromiseFits, Exists, OwesSalary, OwesLeave
<1> QED
  BY <1>1, <1>5, <1>6, <1>7, <1>8 DEF EmployeesInv, ManagerExists, MadeByInvitation, Exists

LEMMA InvitesFit ==
    ASSUME EmployeesInv, NEW c \in Clients, NEW e \in Addresses, NEW role \in Roles,
           NEW status \in Employment, NEW salary \in BOOLEAN, Invites(c, e, role, status, salary)
    PROVE  EmployeesInv'
<1> DEFINE r == [Idle EXCEPT !.op = "invite", !.pc = "invite", !.e = e, !.role = role,
                             !.status = status, !.salary = salary]
<1>1. /\ r \in Requests /\ r.op = "invite" /\ r.pc = "invite" /\ r.e = e /\ r.role = role
      /\ r.status = status
  BY IdleFits DEF Requests, Ops, Pcs
<1>2. Begins(c, r)
  BY DEF Invites
<1> HIDE DEF r
<1> QED
  BY <1>1, <1>2, BeginFits DEF Fits, Calls

LEMMA AcceptsBegin ==
    ASSUME EmployeesInv, NEW c \in Clients, AcceptInvitation(c)
    PROVE  EmployeesInv'
<1> PICK i \in Invitations :
       /\ invitation[i].state \in {"PENDING", "EXPIRED"}
       /\ Begins(c, [Idle EXCEPT !.op = "accept", !.e = invitation[i].to, !.i = i,
                       !.pc = IF invitation[i].lapsed THEN "expire" ELSE "find",
                       !.role = invitation[i].role, !.status = invitation[i].status,
                       !.salary = invitation[i].salary])
  BY DEF AcceptInvitation
<1> DEFINE pc == IF invitation[i].lapsed THEN "expire" ELSE "find"
           r == [Idle EXCEPT !.op = "accept", !.e = invitation[i].to, !.i = i, !.pc = pc,
                             !.role = invitation[i].role, !.status = invitation[i].status,
                             !.salary = invitation[i].salary]
<1>1. /\ invitation[i] \in Invited /\ invitation[i].to \in Addresses
      /\ invitation[i].state # "none" /\ i \in 0..NumInvitations
  BY EmployeesAssumption DEF EmployeesInv, Types, Invitations
<1>2. pc \in {"expire", "find"}
  OBVIOUS
<1>3. Begins(c, r)
  OBVIOUS
<1> HIDE DEF pc
<1>4. /\ r \in Requests /\ r.op = "accept" /\ r.pc = pc /\ r.e = invitation[i].to /\ r.i = i
      /\ r.role = invitation[i].role /\ r.status = invitation[i].status
      /\ r.salary = invitation[i].salary
  BY <1>1, <1>2, IdleFits DEF Requests, Ops, Pcs, Invited
<1> HIDE DEF r
<1> QED
  BY <1>1, <1>2, <1>3, <1>4, BeginFits DEF Fits, Calls

LEMMA UpdatesBegin ==
    ASSUME EmployeesInv, NEW c \in Clients, UpdateEmployee(c)
    PROVE  EmployeesInv'
<1> PICK e \in Live, role \in Roles \cup {None}, status \in Statuses \cup {None} :
       Begins(c, [Idle EXCEPT !.op = "update", !.pc = "update", !.e = e, !.role = role,
                              !.status = status, !.was = user[e].role])
  BY DEF UpdateEmployee
<1> DEFINE r == [Idle EXCEPT !.op = "update", !.pc = "update", !.e = e, !.role = role,
                             !.status = status, !.was = user[e].role]
<1>1. e \in Addresses /\ Exists(e) /\ user[e].role \in Roles /\ status \in Employment \cup {None}
  BY StatusesFit DEF Live, Exists, EmployeesInv, Types, Users
<1>2. Begins(c, r)
  OBVIOUS
<1>3. r \in Requests /\ r.op = "update" /\ r.pc = "update" /\ r.e = e /\ r.was = user[e].role
  BY <1>1, IdleFits DEF Requests, Ops, Pcs
<1> HIDE DEF r
<1> QED
  BY <1>1, <1>2, <1>3, BeginFits DEF Fits, Calls

LEMMA NamesBegin ==
    ASSUME EmployeesInv, NEW c \in Clients, UpdateDepartment(c)
    PROVE  EmployeesInv'
<1> PICK e \in Live \cup {None} :
       Begins(c, [Idle EXCEPT !.op = "name", !.pc = "name", !.e = e])
  BY DEF UpdateDepartment
<1> DEFINE r == [Idle EXCEPT !.op = "name", !.pc = "name", !.e = e]
<1>1. e # None => e \in Addresses /\ Exists(e)
  BY DEF Live, Exists
<1>2. Begins(c, r)
  OBVIOUS
<1>3. r \in Requests /\ r.op = "name" /\ r.pc = "name" /\ r.e = e
  BY <1>1, IdleFits DEF Requests, Ops, Pcs
<1> HIDE DEF r
<1> QED
  BY <1>1, <1>2, <1>3, BeginFits DEF Fits, Calls

LEMMA HiresBegin ==
    ASSUME EmployeesInv, NEW c \in Clients, CreateEmployee(c)
    PROVE  EmployeesInv'
<1> PICK e \in Addresses \ Live, role \in Roles, status \in Statuses :
       Begins(c, [Idle EXCEPT !.op = "hire", !.pc = "hire", !.e = e, !.role = role,
                              !.status = status])
  BY DEF CreateEmployee
<1> DEFINE r == [Idle EXCEPT !.op = "hire", !.pc = "hire", !.e = e, !.role = role,
                             !.status = status]
<1>1. Begins(c, r)
  OBVIOUS
<1>2. /\ r \in Requests /\ r.op = "hire" /\ r.pc = "hire" /\ r.e = e /\ r.role = role
      /\ r.status = status /\ status \in Employment
  BY IdleFits, StatusesFit DEF Requests, Ops, Pcs
<1> HIDE DEF r
<1> QED
  BY <1>1, <1>2, BeginFits DEF Fits, Calls

LEMMA HomeBegins ==
    ASSUME EmployeesInv, NEW c \in Clients, GetHomeStats(c)
    PROVE  EmployeesInv'
<1> PICK e \in Live : Begins(c, [Idle EXCEPT !.op = "home", !.pc = "entitle", !.e = e])
  BY DEF GetHomeStats
<1> DEFINE r == [Idle EXCEPT !.op = "home", !.pc = "entitle", !.e = e]
<1>1. e \in Addresses /\ Exists(e)
  BY DEF Live, Exists
<1>2. Begins(c, r)
  OBVIOUS
<1>3. r \in Requests /\ r.op = "home" /\ r.pc = "entitle" /\ r.e = e
  BY <1>1, IdleFits DEF Requests, Ops, Pcs
<1> HIDE DEF r
<1> QED
  BY <1>1, <1>2, <1>3, BeginFits DEF Fits, Calls

LEMMA ChangesBegin ==
    ASSUME EmployeesInv, NEW c \in Clients,
           NEW pc \in {"terminate", "reactivate", "archive", "restore"},
           NEW E \in SUBSET Addresses, \A e \in E : Exists(e), Changes(c, pc, E)
    PROVE  EmployeesInv'
<1> PICK e \in E : Begins(c, [Idle EXCEPT !.op = "change", !.pc = pc, !.e = e])
  BY DEF Changes
<1> DEFINE r == [Idle EXCEPT !.op = "change", !.pc = pc, !.e = e]
<1>1. e \in Addresses /\ Exists(e)
  OBVIOUS
<1>2. Begins(c, r)
  OBVIOUS
<1>3. r \in Requests /\ r.op = "change" /\ r.pc = pc /\ r.e = e
  BY <1>1, IdleFits DEF Requests, Ops, Pcs
<1> HIDE DEF r
<1> QED
  BY <1>1, <1>2, <1>3, BeginFits DEF Fits, Calls

LEMMA HandlersFit ==
    ASSUME EmployeesInv, NEW c \in Clients, Handler(c)
    PROVE  EmployeesInv'
<1>1. CASE SendInvitation(c)
  BY <1>1, InvitesFit, StatusesFit DEF SendInvitation
<1>2. CASE SendSetupInvitation(c)
  <2> PICK e \in Live : Invites(c, e, user[e].role, user[e].status, FALSE)
    BY <1>2 DEF SendSetupInvitation
  <2>1. e \in Addresses /\ user[e].role \in Roles /\ user[e].status \in Employment
    BY DEF Live, EmployeesInv, Types, Users
  <2> QED
    BY <2>1, InvitesFit
<1>3. CASE TerminateEmployee(c) \/ ReactivateEmployee(c) \/ ArchiveEmployee(c) \/ RestoreEmployee(c)
  <2>1. /\ \A e \in Live : Exists(e)
        /\ \A e \in {e \in Addresses : user[e].state = "archived"} : Exists(e)
        /\ Live \subseteq Addresses
    BY DEF Live, Exists
  <2>2. /\ {e \in Live : user[e].status # "INACTIVE"} \in SUBSET Addresses
        /\ {e \in Live : user[e].status \notin ActiveForWork} \in SUBSET Addresses
        /\ {e \in Addresses : user[e].state = "archived"} \in SUBSET Addresses
    BY <2>1
  <2>3. CASE TerminateEmployee(c)
    BY <2>1, <2>2, <2>3, ChangesBegin DEF TerminateEmployee
  <2>4. CASE ReactivateEmployee(c)
    BY <2>1, <2>2, <2>4, ChangesBegin DEF ReactivateEmployee
  <2>5. CASE ArchiveEmployee(c)
    BY <2>1, <2>2, <2>5, ChangesBegin DEF ArchiveEmployee
  <2>6. CASE RestoreEmployee(c)
    BY <2>1, <2>2, <2>6, ChangesBegin DEF RestoreEmployee
  <2> QED
    BY <1>3, <2>3, <2>4, <2>5, <2>6
<1> QED
  BY <1>1, <1>2, <1>3, AcceptsBegin, UpdatesBegin, NamesBegin, HiresBegin, HomeBegins DEF Handler

-----------------------------------------------------------------------------
(* Calls                                                                   *)

LEMMA SameFits == Types /\ UNCHANGED <<user, invitation>> => Grown
  BY DEF Types, Grown, Exists

LEMMA MadeStays ==
    ASSUME EmployeesInv, Grown, \A e \in Addresses : user'[e].made = user[e].made,
           \A e \in Addresses : user[e].secret => user'[e].secret
    PROVE  MadeByInvitation'
<1>1. \A e \in Addresses : user[e].made # 0 => user[e].made \in Invitations
  BY EmployeesAssumption DEF EmployeesInv, Types, Users, Invitations
<1> QED
  BY <1>1 DEF EmployeesInv, MadeByInvitation, Grown

LEMMA StepFields ==
    ASSUME NEW q \in Requests, NEW pc \in Pcs, NEW r, r = [q EXCEPT !.pc = pc]
    PROVE  /\ r \in Requests /\ r.pc = pc /\ r.op = q.op /\ r.e = q.e /\ r.i = q.i
           /\ r.role = q.role /\ r.status = q.status /\ r.was = q.was /\ r.salary = q.salary
  BY DEF Requests

LEMMA IdleHolds ==
    /\ Fits(Idle)'
    /\ \A e \in Addresses : ~OwesSalary(Idle, e) /\ ~OwesLeave(Idle, e)
  BY IdleFits DEF Fits, Calls, OwesSalary, OwesLeave

\* A call that leaves the accounts and the manager alone: the handler goes on,
\* or it ends with nothing owed, or its account is marked.
LEMMA QuietFits ==
    ASSUME EmployeesInv, NEW c \in Clients, NEW q \in Requests, q = request[c],
           NEW r \in Requests, request' = [request EXCEPT ![c] = r], Grown, Fits(r)',
           UNCHANGED <<user, manager>>,
           loose \subseteq loose', loose' \subseteq Addresses,
           unpaid \subseteq unpaid', unpaid' \subseteq Addresses,
           \A i \in Invitations : invitation'[i].state = "ACCEPTED" => invitation[i].state = "ACCEPTED",
           q.pc = "clear" => q.e \in loose',
           q.pc \in {"accept", "pay", "entitle"} => q.e \in unpaid'
    PROVE  EmployeesInv'
<1>1. \A e \in Addresses \ loose' : RoleMove(q, r, e)
  BY DEF RoleMove
<1>2. \A e \in Addresses \ unpaid' : PromiseMove(q, r, e)
  BY DEF PromiseMove, OwesSalary, OwesLeave, Exists
<1>3. MadeByInvitation'
  BY MadeStays
<1>4. manager' \in Addresses \cup {None}
  BY DEF EmployeesInv, Types
<1> QED
  BY <1>1, <1>2, <1>3, <1>4, CallFits

LEMMA RequestsHere ==
    ASSUME EmployeesInv, NEW c \in Clients
    PROVE  request[c] \in Requests /\ Fits(request[c])
  BY DEF EmployeesInv, Types

\* The calls of a handler, by the call it is about to make.
LEMMA OpsAt ==
    ASSUME NEW q \in Requests, Fits(q)
    PROVE  /\ q.pc = "invite" => q.op = "invite"
           /\ q.pc \in {"expire", "find", "join", "make", "accept"} => q.op = "accept"
           /\ q.pc = "pay" => q.op \in {"accept", "hire"}
           /\ q.pc = "entitle" => q.op \in {"accept", "home"}
           /\ q.pc = "hire" => q.op = "hire"
           /\ q.pc \in {"update", "assign", "clear"} => q.op = "update"
           /\ q.pc = "name" => q.op = "name"
           /\ q.pc \in {"terminate", "reactivate", "archive", "restore"} => q.op = "change"
           /\ q.op = "change" => q.pc \in {"terminate", "reactivate", "archive", "restore"}
  BY DEF Fits, Calls, Requests, Ops

LEMMA CreateInvitationFits ==
    ASSUME EmployeesInv, NEW c \in Clients, CreateInvitation(c)
    PROVE  EmployeesInv'
<1> PICK q \in Requests : q = request[c] /\ Fits(q)
  BY RequestsHere
<1> PICK i \in Invitations :
       /\ invitation[i].state = "none"
       /\ invitation' = [invitation EXCEPT ![i] = [state |-> "PENDING", lapsed |-> FALSE,
                             to |-> q.e, role |-> q.role, status |-> q.status,
                             salary |-> q.salary]]
  BY DEF CreateInvitation
<1> DEFINE new == [state |-> "PENDING", lapsed |-> FALSE, to |-> q.e, role |-> q.role,
                   status |-> q.status, salary |-> q.salary]
<1>1. /\ q.pc = "invite" /\ q.op = "invite" /\ q.e \in Addresses /\ q.role \in Roles
      /\ q.status \in Employment
  BY OpsAt DEF CreateInvitation, At, Fits
<1>2. new \in Invited /\ new.state = "PENDING" /\ new.to = q.e
  BY <1>1 DEF Invited, Requests
<1>3. invitation' = [invitation EXCEPT ![i] = new]
  OBVIOUS
<1> HIDE DEF new
<1>4. /\ request' = [request EXCEPT ![c] = Idle]
      /\ UNCHANGED <<user, manager, loose, unpaid>>
  BY DEF CreateInvitation, Ends, Goes
<1>5. /\ invitation'[i] = new
      /\ \A j \in Invitations \ {i} : invitation'[j] = invitation[j]
  BY <1>3 DEF EmployeesInv, Types
<1>6. Grown
  <2>1. invitation' \in [Invitations -> Invited]
    BY <1>2, <1>3 DEF EmployeesInv, Types
  <2>2. \A j \in Invitations : invitation'[j].state # "none" => invitation'[j].to \in Addresses
    BY <1>1, <1>2, <1>5 DEF EmployeesInv, Types
  <2> QED
    BY <1>4, <1>5, <2>1, <2>2 DEF Grown, Exists, EmployeesInv, Types
<1>7. \A j \in Invitations : invitation'[j].state = "ACCEPTED" => invitation[j].state = "ACCEPTED"
  BY <1>2, <1>5
<1>8. loose \subseteq Addresses /\ unpaid \subseteq Addresses
  BY DEF EmployeesInv, Types
<1> QED
  BY <1>1, <1>4, <1>6, <1>7, <1>8, IdleFits, IdleHolds, QuietFits

LEMMA ExpireInvitationFits ==
    ASSUME EmployeesInv, NEW c \in Clients, ExpireInvitation(c)
    PROVE  EmployeesInv'
<1> PICK q \in Requests : q = request[c] /\ Fits(q)
  BY RequestsHere
<1>1. q.pc = "expire" /\ q.i \in Invitations /\ invitation[q.i].state # "none"
  BY OpsAt DEF ExpireInvitation, At, Fits
<1>2. /\ invitation' = [invitation EXCEPT ![q.i].state = "EXPIRED"]
      /\ request' = [request EXCEPT ![c] = Idle]
      /\ UNCHANGED <<user, manager, loose, unpaid>>
  BY DEF ExpireInvitation, Ends, Goes
<1> PICK old \in Invited : old = invitation[q.i]
  BY <1>1 DEF EmployeesInv, Types
<1>3. /\ [old EXCEPT !.state = "EXPIRED"] \in Invited
      /\ [old EXCEPT !.state = "EXPIRED"].to = old.to
      /\ [old EXCEPT !.state = "EXPIRED"].role = old.role
      /\ [old EXCEPT !.state = "EXPIRED"].status = old.status
      /\ [old EXCEPT !.state = "EXPIRED"].salary = old.salary
      /\ [old EXCEPT !.state = "EXPIRED"].state = "EXPIRED"
  BY DEF Invited
<1>4. /\ invitation'[q.i] = [old EXCEPT !.state = "EXPIRED"]
      /\ \A j \in Invitations \ {q.i} : invitation'[j] = invitation[j]
      /\ invitation' \in [Invitations -> Invited]
  BY <1>1, <1>2, <1>3 DEF EmployeesInv, Types
<1>5. Grown
  BY <1>1, <1>2, <1>3, <1>4 DEF Grown, Exists, EmployeesInv, Types
<1>6. \A j \in Invitations : invitation'[j].state = "ACCEPTED" => invitation[j].state = "ACCEPTED"
  BY <1>3, <1>4
<1>7. loose \subseteq Addresses /\ unpaid \subseteq Addresses
  BY DEF EmployeesInv, Types
<1> QED
  BY <1>1, <1>2, <1>5, <1>6, <1>7, IdleFits, IdleHolds, QuietFits

LEMMA FindAccountFits ==
    ASSUME EmployeesInv, NEW c \in Clients, FindAccount(c)
    PROVE  EmployeesInv'
<1> PICK q \in Requests : q = request[c] /\ Fits(q)
  BY RequestsHere
<1> PICK pc \in Pcs : pc = IF q.e \in Live THEN "join" ELSE "make"
  BY DEF Pcs
<1> DEFINE r == [q EXCEPT !.pc = pc]
<1>1. q.pc = "find" /\ q.op = "accept"
  BY OpsAt DEF FindAccount, At
<1>2. /\ request' = [request EXCEPT ![c] = r]
      /\ UNCHANGED <<user, invitation, manager, loose, unpaid>>
  BY DEF FindAccount, Step, Goes
<1>3. pc \in {"join", "make"} /\ (pc = "join" => Exists(q.e))
  BY DEF Live, Exists
<1>4. /\ r \in Requests /\ r.pc = pc /\ r.op = q.op /\ r.e = q.e /\ r.i = q.i
      /\ r.role = q.role /\ r.status = q.status /\ r.salary = q.salary
  BY <1>3, StepFields DEF Pcs
<1> HIDE DEF r
<1>5. Fits(r)
  BY <1>1, <1>3, <1>4 DEF Fits, Calls
<1>6. Grown /\ loose \subseteq Addresses /\ unpaid \subseteq Addresses
  BY <1>2, SameFits DEF EmployeesInv, Types
<1>7. Fits(r)'
  BY <1>4, <1>5, <1>6, FitsStays DEF EmployeesInv
<1> QED
  BY <1>1, <1>2, <1>4, <1>6, <1>7, QuietFits

LEMMA SalaryFailsFits ==
    ASSUME EmployeesInv, NEW c \in Clients, SalaryFails(c)
    PROVE  EmployeesInv'
<1> PICK q \in Requests : q = request[c] /\ Fits(q)
  BY RequestsHere
<1> DEFINE r == [q EXCEPT !.pc = "entitle"]
<1>1. q.pc = "pay" /\ q.op = "accept" /\ q.e \in Addresses
  BY DEF SalaryFails, At, Fits
<1>2. /\ request' = [request EXCEPT ![c] = r] /\ unpaid' = unpaid \cup {q.e}
      /\ UNCHANGED <<user, invitation, manager, loose>>
  BY DEF SalaryFails, Step, Goes
<1>4. /\ r \in Requests /\ r.pc = "entitle" /\ r.op = q.op /\ r.e = q.e /\ r.i = q.i
      /\ r.role = q.role /\ r.status = q.status /\ r.salary = q.salary
  BY StepFields DEF Pcs
<1> HIDE DEF r
<1>5. Fits(r)
  BY <1>1, <1>4 DEF Fits, Calls
<1>6. Grown /\ loose \subseteq Addresses /\ unpaid \subseteq Addresses
  BY <1>2, SameFits DEF EmployeesInv, Types
<1>7. Fits(r)'
  BY <1>4, <1>5, <1>6, FitsStays DEF EmployeesInv
<1>9. q.e \in unpaid' /\ unpaid \subseteq unpaid' /\ unpaid' \subseteq Addresses
  BY <1>1, <1>2, <1>6
<1> QED
  BY <1>1, <1>2, <1>4, <1>6, <1>7, <1>9, QuietFits

LEMMA FaultFits ==
    ASSUME EmployeesInv, NEW c \in Clients, Fault(c)
    PROVE  EmployeesInv'
<1> PICK q \in Requests : q = request[c] /\ Fits(q)
  BY RequestsHere
<1>1. /\ request' = [request EXCEPT ![c] = Idle]
      /\ loose' = IF q.pc = "clear" THEN loose \cup {q.e} ELSE loose
      /\ unpaid' = IF q.pc \in {"accept", "pay", "entitle"} THEN unpaid \cup {q.e} ELSE unpaid
      /\ UNCHANGED <<user, invitation, manager>>
  BY DEF Fault, Ends, Goes, At
<1>2. q.pc \in {"clear", "accept", "pay", "entitle"} => q.e \in Addresses
  BY OpsAt DEF Fits
<1>3. Grown /\ loose \subseteq Addresses /\ unpaid \subseteq Addresses
  BY <1>1, SameFits DEF EmployeesInv, Types
<1>4. /\ loose \subseteq loose' /\ loose' \subseteq Addresses
      /\ unpaid \subseteq unpaid' /\ unpaid' \subseteq Addresses
      /\ q.pc = "clear" => q.e \in loose'
      /\ q.pc \in {"accept", "pay", "entitle"} => q.e \in unpaid'
  BY <1>1, <1>2, <1>3
<1> QED
  BY <1>1, <1>3, <1>4, IdleFits, IdleHolds, QuietFits

LEMMA SetsFit ==
    ASSUME Types, NEW e \in Addresses, NEW u \in Users, Sets(e, u), UNCHANGED invitation,
           Exists(e) => /\ u.state # "none" /\ u.made = user[e].made
                        /\ user[e].secret => u.secret
                        /\ user[e].salary => u.salary
                        /\ user[e].leave => u.leave
    PROVE  /\ Grown /\ user'[e] = u
           /\ \A d \in Addresses \ {e} : user'[d] = user[d]
<1>1. /\ user' \in [Addresses -> Users] /\ user'[e] = u
      /\ \A d \in Addresses \ {e} : user'[d] = user[d]
  BY DEF Types, Sets
<1> QED
  BY <1>1 DEF Grown, Types, Exists

LEMMA AcceptedFit ==
    ASSUME Types, NEW i \in Invitations, invitation[i].state # "none",
           invitation' = [invitation EXCEPT ![i].state = "ACCEPTED"]
    PROVE  /\ invitation' \in [Invitations -> Invited]
           /\ invitation'[i].state = "ACCEPTED" /\ invitation'[i].to = invitation[i].to
           /\ invitation'[i].role = invitation[i].role
           /\ invitation'[i].status = invitation[i].status
           /\ invitation'[i].salary = invitation[i].salary
           /\ \A j \in Invitations \ {i} : invitation'[j] = invitation[j]
<1> PICK old \in Invited : old = invitation[i]
  BY DEF Types
<1>1. /\ [old EXCEPT !.state = "ACCEPTED"] \in Invited
      /\ [old EXCEPT !.state = "ACCEPTED"].to = old.to
      /\ [old EXCEPT !.state = "ACCEPTED"].role = old.role
      /\ [old EXCEPT !.state = "ACCEPTED"].status = old.status
      /\ [old EXCEPT !.state = "ACCEPTED"].salary = old.salary
      /\ [old EXCEPT !.state = "ACCEPTED"].state = "ACCEPTED"
  BY DEF Invited
<1> QED
  BY <1>1 DEF Types

LEMMA CreateEntitlementFits ==
    ASSUME EmployeesInv, NEW c \in Clients, CreateEntitlement(c)
    PROVE  EmployeesInv'
<1> PICK q \in Requests : q = request[c] /\ Fits(q)
  BY RequestsHere
<1>1. q.pc = "entitle" /\ q.op \in {"accept", "home"} /\ q.e \in Addresses /\ Exists(q.e)
  BY OpsAt DEF CreateEntitlement, At, Fits
<1> PICK u \in Users : u = user[q.e]
  BY <1>1 DEF EmployeesInv, Types
<1> DEFINE new == [u EXCEPT !.leave = TRUE]
<1>2. /\ new \in Users /\ new.leave /\ new.state = u.state /\ new.made = u.made
      /\ new.role = u.role /\ new.secret = u.secret /\ new.salary = u.salary
  BY DEF Users
<1>3. /\ request' = [request EXCEPT ![c] = Idle] /\ Sets(q.e, new)
      /\ UNCHANGED <<invitation, manager, loose, unpaid>>
  BY DEF CreateEntitlement, Ends, Goes
<1> HIDE DEF new
<1>4. Grown /\ user'[q.e] = new /\ \A d \in Addresses \ {q.e} : user'[d] = user[d]
  BY <1>1, <1>2, <1>3, SetsFit DEF EmployeesInv, Exists
<1>5. \A e \in Addresses : RoleMove(q, Idle, e)
  BY <1>1, <1>2, <1>3, <1>4, IdleHolds DEF RoleMove
<1>6. \A e \in Addresses : PromiseMove(q, Idle, e)
  BY <1>1, <1>2, <1>3, <1>4, IdleHolds DEF PromiseMove, OwesSalary, OwesLeave, Exists
<1>7. MadeByInvitation'
  BY <1>2, <1>4, MadeStays
<1>8. manager' \in Addresses \cup {None} /\ loose' \subseteq Addresses /\ unpaid' \subseteq Addresses
  BY <1>3 DEF EmployeesInv, Types
<1> QED
  BY <1>3, <1>4, <1>5, <1>6, <1>7, <1>8, IdleFits, IdleHolds, CallFits

LEMMA CreateSalaryFits ==
    ASSUME EmployeesInv, NEW c \in Clients, CreateSalary(c)
    PROVE  EmployeesInv'
<1> PICK q \in Requests : q = request[c] /\ Fits(q)
  BY RequestsHere
<1>1. q.pc = "pay" /\ q.op \in {"accept", "hire"} /\ q.e \in Addresses /\ Exists(q.e)
  BY OpsAt DEF CreateSalary, At, Fits
<1> PICK u \in Users : u = user[q.e]
  BY <1>1 DEF EmployeesInv, Types
<1> DEFINE new == [u EXCEPT !.salary = TRUE]
<1>2. /\ new \in Users /\ new.salary /\ new.state = u.state /\ new.made = u.made
      /\ new.role = u.role /\ new.secret = u.secret /\ new.leave = u.leave
  BY DEF Users
<1> PICK r \in Requests :
       r = IF q.op = "accept" THEN [q EXCEPT !.pc = "entitle"] ELSE Idle
  <2>1. [q EXCEPT !.pc = "entitle"] \in Requests
    BY StepFields DEF Pcs
  <2> QED
    BY <2>1, IdleFits
<1>3. /\ request' = [request EXCEPT ![c] = r] /\ Sets(q.e, new)
      /\ UNCHANGED <<invitation, manager, loose, unpaid>>
  BY DEF CreateSalary, Ends, Goes, Step
<1> HIDE DEF new
<1>4. Grown /\ user'[q.e] = new /\ \A d \in Addresses \ {q.e} : user'[d] = user[d]
  BY <1>1, <1>2, <1>3, SetsFit DEF EmployeesInv, Exists
<1>5. \/ q.op = "hire" /\ r = Idle
      \/ /\ q.op = "accept" /\ r.pc = "entitle" /\ r.op = q.op /\ r.e = q.e /\ r.i = q.i
         /\ r.role = q.role /\ r.status = q.status /\ r.salary = q.salary
  BY <1>1, StepFields DEF Pcs
<1>6. Fits(r)'
  <2>1. q.op = "accept" => Fits(r)
    BY <1>1, <1>5 DEF Fits, Calls
  <2>2. q.op = "accept" => Fits(r)'
    BY <1>4, <2>1, FitsStays DEF EmployeesInv
  <2>3. r = Idle => Fits(r)'
    BY IdleHolds DEF Fits, Exists
  <2> QED
    BY <1>5, <2>2, <2>3
<1>7. \A e \in Addresses : RoleMove(q, r, e)
  BY <1>1, <1>2, <1>3, <1>4 DEF RoleMove
<1>8. \A e \in Addresses : PromiseMove(q, r, e)
  BY <1>1, <1>2, <1>3, <1>4, <1>5 DEF PromiseMove, OwesSalary, OwesLeave, Exists
<1>9. MadeByInvitation'
  BY <1>2, <1>4, MadeStays
<1>10. manager' \in Addresses \cup {None} /\ loose' \subseteq Addresses /\ unpaid' \subseteq Addresses
  BY <1>3 DEF EmployeesInv, Types
<1> QED
  BY <1>3, <1>4, <1>6, <1>7, <1>8, <1>9, <1>10, CallFits

\* A new account: by an invitation, with credentials and the salary and the leave
\* to come; or by HR, with the salary to come.
LEMMA NewAccountFits ==
    ASSUME EmployeesInv, NEW c \in Clients, NEW q \in Requests, q = request[c], Fits(q),
           q.e \in Addresses, ~Exists(q.e), NEW u \in Users, Sets(q.e, u),
           u.state = "live",
           NEW r \in Requests, r.op = q.op, r.e = q.e, r.i = q.i, r.role = q.role,
           r.status = q.status, r.salary = q.salary, u.role = q.role, request' = [request EXCEPT ![c] = r],
           \/ q.op = "accept" /\ r.pc = "accept" /\ u.secret /\ u.made = q.i
           \/ q.op = "hire" /\ r.pc = "pay" /\ u.made = 0,
           UNCHANGED <<invitation, manager, loose, unpaid>>
    PROVE  EmployeesInv'
<1>1. Grown /\ user'[q.e] = u /\ \A d \in Addresses \ {q.e} : user'[d] = user[d]
  BY SetsFit DEF EmployeesInv
<1>2. Fits(r)'
  BY <1>1 DEF Fits, Calls, Exists
<1>3. ASSUME NEW e \in Addresses
      PROVE  RoleMove(q, r, e)
  <2>1. manager # q.e
    BY EmployeesAssumption DEF EmployeesInv, ManagerExists, Exists
  <2> QED
    BY <1>1, <2>1, OpsAt DEF RoleMove
<1>4. \A e \in Addresses : PromiseMove(q, r, e)
  BY <1>1, OpsAt DEF PromiseMove, OwesSalary, OwesLeave, Exists
<1>5. MadeByInvitation'
  BY <1>1 DEF EmployeesInv, MadeByInvitation, Fits
<1>6. manager' \in Addresses \cup {None} /\ loose' \subseteq Addresses /\ unpaid' \subseteq Addresses
  BY DEF EmployeesInv, Types
<1> QED
  BY <1>1, <1>2, <1>3, <1>4, <1>5, <1>6, CallFits

LEMMA NoUserFits == NoUser \in Users /\ NoUser.made = 0 /\ NoUser.state = "none"
  BY EmployeesAssumption DEF NoUser, Users, Roles, Employment, ActiveForWork

\* The unique key refused the account: the handler ends with nothing written.
LEMMA RefusedFits ==
    ASSUME EmployeesInv, NEW c \in Clients, NEW q \in Requests, q = request[c], Fits(q),
           q.pc \in {"make", "hire", "update"}, request' = [request EXCEPT ![c] = Idle],
           UNCHANGED <<user, invitation, manager, loose, unpaid>>
    PROVE  EmployeesInv'
<1>1. Grown /\ loose' \subseteq Addresses /\ unpaid' \subseteq Addresses
  BY SameFits DEF EmployeesInv, Types
<1> QED
  BY <1>1, IdleFits, IdleHolds, QuietFits

LEMMA MakeAccountFits ==
    ASSUME EmployeesInv, NEW c \in Clients, MakeAccount(c)
    PROVE  EmployeesInv'
<1> PICK q \in Requests : q = request[c] /\ Fits(q)
  BY RequestsHere
<1>1. /\ q.pc = "make" /\ q.op = "accept" /\ q.e \in Addresses /\ q.i \in Invitations
      /\ q.role \in Roles /\ q.status \in Employment
      /\ UNCHANGED <<invitation, manager, loose, unpaid>>
  BY OpsAt DEF MakeAccount, At, Fits, EmployeesInv, Types, Invited
<1>2. CASE user[q.e].state = "none"
  <2> DEFINE u == [NoUser EXCEPT !.state = "live", !.role = q.role, !.status = q.status,
                                 !.secret = TRUE, !.made = q.i]
             r == [q EXCEPT !.pc = "accept"]
  <2>1. /\ u \in Users /\ u.state = "live" /\ u.role = q.role /\ u.secret /\ u.made = q.i
    BY <1>1, NoUserFits, EmployeesAssumption DEF Users, Requests
  <2>2. Sets(q.e, u) /\ request' = [request EXCEPT ![c] = r]
    BY <1>2 DEF MakeAccount, Step, Goes
  <2>3. /\ r \in Requests /\ r.pc = "accept" /\ r.op = q.op /\ r.e = q.e /\ r.i = q.i
        /\ r.role = q.role /\ r.status = q.status /\ r.salary = q.salary
    BY StepFields DEF Pcs
  <2> HIDE DEF u, r
  <2> QED
    BY <1>1, <1>2, <2>1, <2>2, <2>3, NewAccountFits DEF Exists
<1>3. CASE user[q.e].state # "none"
  BY <1>1, <1>3, RefusedFits DEF MakeAccount, Ends, Goes
<1> QED
  BY <1>2, <1>3

LEMMA CreateUserFits ==
    ASSUME EmployeesInv, NEW c \in Clients, CreateUser(c)
    PROVE  EmployeesInv'
<1> PICK q \in Requests : q = request[c] /\ Fits(q)
  BY RequestsHere
<1>1. /\ q.pc = "hire" /\ q.op = "hire" /\ q.e \in Addresses /\ q.role \in Roles
      /\ q.status \in Employment /\ UNCHANGED <<invitation, manager, loose, unpaid>>
  BY OpsAt DEF CreateUser, At, Fits
<1>2. CASE user[q.e].state = "none"
  <2> DEFINE u == [NoUser EXCEPT !.state = "live", !.role = q.role, !.status = q.status]
             r == [q EXCEPT !.pc = "pay"]
  <2>1. /\ u \in Users /\ u.state = "live" /\ u.role = q.role /\ u.made = 0
    BY <1>1, NoUserFits DEF Users
  <2>2. Sets(q.e, u) /\ request' = [request EXCEPT ![c] = r]
    BY <1>2 DEF CreateUser, Step, Goes
  <2>3. /\ r \in Requests /\ r.pc = "pay" /\ r.op = q.op /\ r.e = q.e /\ r.i = q.i
        /\ r.role = q.role /\ r.status = q.status /\ r.salary = q.salary
    BY StepFields DEF Pcs
  <2> HIDE DEF u, r
  <2> QED
    BY <1>1, <1>2, <2>1, <2>2, <2>3, NewAccountFits DEF Exists
<1>3. CASE user[q.e].state # "none"
  BY <1>1, <1>3, RefusedFits DEF CreateUser, Ends, Goes
<1> QED
  BY <1>2, <1>3

\* An account becomes the manager with the role for it, or is marked.
LEMMA NamesRole ==
    ASSUME Types, NEW e \in Addresses \cup {None}, Names(e)
    PROVE  /\ manager' = e /\ loose \subseteq loose' /\ loose' \subseteq Addresses
           /\ e \in Addresses => user[e].role = "DEPARTMENT_ADMIN" \/ e \in loose'
  BY EmployeesAssumption DEF Types, Names

\* The last writes of an acceptance: the invitation and, where the department has
\* no manager who works, its manager; the account has its credentials.
LEMMA AcceptedGrown ==
    ASSUME EmployeesInv, NEW q \in Requests, Fits(q), q.op = "accept", NEW u \in Users,
           u.state # "none", u.secret, u.role = user[q.e].role,
           u.made = user[q.e].made, u.salary = user[q.e].salary, u.leave = user[q.e].leave,
           Exists(q.e),
           user' \in [Addresses -> Users], user'[q.e] = u,
           \A e \in Addresses \ {q.e} : user'[e] = user[e],
           invitation' = [invitation EXCEPT ![q.i].state = "ACCEPTED"],
           Names(q.e) \/ UNCHANGED <<manager, loose>>
    PROVE  /\ Grown /\ manager' \in {manager, q.e}
           /\ loose \subseteq loose' /\ loose' \subseteq Addresses
           /\ manager' # manager => user[q.e].role = "DEPARTMENT_ADMIN" \/ q.e \in loose'
           /\ manager' \in Addresses \cup {None} /\ ManagerExists' /\ MadeByInvitation'
           /\ \A i \in Invitations :
                 invitation'[i].state = "ACCEPTED" /\ invitation[i].state # "ACCEPTED" =>
                    i = q.i /\ invitation'[i].to = q.e
<1>1. q.e \in Addresses /\ q.i \in Invitations /\ invitation[q.i].state # "none"
      /\ invitation[q.i].to = q.e
  BY DEF Fits
<1>2. /\ invitation' \in [Invitations -> Invited]
      /\ invitation'[q.i].state = "ACCEPTED" /\ invitation'[q.i].to = invitation[q.i].to
      /\ invitation'[q.i].role = invitation[q.i].role
      /\ invitation'[q.i].status = invitation[q.i].status
      /\ invitation'[q.i].salary = invitation[q.i].salary
      /\ \A j \in Invitations \ {q.i} : invitation'[j] = invitation[j]
  BY <1>1, AcceptedFit DEF EmployeesInv
<1>3. \A i \in Invitations : invitation'[i].state # "none" => invitation'[i].to \in Addresses
  BY <1>1, <1>2 DEF EmployeesInv, Types
<1>4. Grown
  BY <1>1, <1>2, <1>3 DEF Grown, Exists
<1>5. MadeByInvitation'
  BY <1>4, MadeStays
<1>6. /\ manager' \in {manager, q.e} /\ loose \subseteq loose' /\ loose' \subseteq Addresses
      /\ manager' # manager => user[q.e].role = "DEPARTMENT_ADMIN" \/ q.e \in loose'
  <2>1. CASE Names(q.e)
    BY <1>1, <2>1, NamesRole DEF EmployeesInv
  <2>2. CASE UNCHANGED <<manager, loose>>
    BY <2>2 DEF EmployeesInv, Types
  <2> QED
    BY <2>1, <2>2
<1>7. manager' \in Addresses \cup {None} /\ ManagerExists'
  BY <1>1, <1>4, <1>6 DEF EmployeesInv, Types, ManagerExists, Exists, Grown
<1> QED
  BY <1>1, <1>2, <1>4, <1>5, <1>6, <1>7

LEMMA MarkAcceptedFits ==
    ASSUME EmployeesInv, NEW c \in Clients, MarkAccepted(c)
    PROVE  EmployeesInv'
<1> PICK q \in Requests : q = request[c] /\ Fits(q)
  BY RequestsHere
<1>1. /\ q.pc = "accept" /\ q.op = "accept" /\ q.e \in Addresses /\ q.i \in Invitations
      /\ Exists(q.e) /\ user[q.e].made = q.i /\ q.salary = invitation[q.i].salary
  BY OpsAt DEF MarkAccepted, At, Fits
<1> DEFINE r == [q EXCEPT !.pc = AfterMaking(q)]
<1>2. AfterMaking(q) \in {"pay", "entitle"} /\ (AfterMaking(q) = "entitle" => ~q.salary)
  BY DEF AfterMaking
<1>3. /\ request' = [request EXCEPT ![c] = r]
      /\ invitation' = [invitation EXCEPT ![q.i].state = "ACCEPTED"]
      /\ Names(q.e) \/ UNCHANGED <<manager, loose>>
      /\ UNCHANGED <<user, unpaid>>
  BY DEF MarkAccepted, Accepts, Step, Goes
<1>4. /\ r \in Requests /\ r.pc = AfterMaking(q) /\ r.op = q.op /\ r.e = q.e /\ r.i = q.i
      /\ r.role = q.role /\ r.status = q.status /\ r.salary = q.salary
  BY <1>2, StepFields DEF Pcs
<1> HIDE DEF r
<1> PICK u \in Users : u = user[q.e]
  BY <1>1 DEF EmployeesInv, Types
<1>5. u.secret /\ u.made = q.i /\ u.state # "none" /\ q.i # 0
  BY <1>1 DEF EmployeesInv, MadeByInvitation, Exists, Invitations
<1>6. /\ Grown /\ manager' \in {manager, q.e}
      /\ loose \subseteq loose' /\ loose' \subseteq Addresses
      /\ manager' # manager => user[q.e].role = "DEPARTMENT_ADMIN" \/ q.e \in loose'
      /\ manager' \in Addresses \cup {None} /\ ManagerExists' /\ MadeByInvitation'
      /\ \A i \in Invitations :
            invitation'[i].state = "ACCEPTED" /\ invitation[i].state # "ACCEPTED" =>
               i = q.i /\ invitation'[i].to = q.e
  <2>1. user' \in [Addresses -> Users]
    BY <1>3 DEF EmployeesInv, Types
  <2> QED
    BY <1>1, <1>3, <1>5, <2>1, AcceptedGrown
<1>7. Fits(r)'
  <2>1. Fits(r)
    BY <1>1, <1>2, <1>4 DEF Fits, Calls
  <2> QED
    BY <1>4, <1>6, <2>1, FitsStays DEF EmployeesInv
<1>8. \A e \in Addresses \ loose' : RoleMove(q, r, e)
  BY <1>1, <1>3, <1>6 DEF RoleMove
<1>9. \A e \in Addresses : PromiseMove(q, r, e)
  BY <1>1, <1>2, <1>3, <1>4, <1>5, <1>6 DEF PromiseMove, OwesSalary, OwesLeave, Exists
<1>10. unpaid' \subseteq Addresses
  BY <1>3 DEF EmployeesInv, Types
<1> QED
  BY <1>3, <1>4, <1>6, <1>7, <1>8, <1>9, <1>10, CallFits

LEMMA JoinAccountFits ==
    ASSUME EmployeesInv, NEW c \in Clients, JoinAccount(c)
    PROVE  EmployeesInv'
<1> PICK q \in Requests : q = request[c] /\ Fits(q)
  BY RequestsHere
<1>1. /\ q.pc = "join" /\ q.op = "accept" /\ q.e \in Addresses /\ q.i \in Invitations
      /\ Exists(q.e)
  BY OpsAt DEF JoinAccount, At, Fits
<1> PICK u \in Users : u = user[q.e]
  BY <1>1 DEF EmployeesInv, Types
<1> DEFINE new == [u EXCEPT !.secret = TRUE]
<1>2. /\ new \in Users /\ new.salary = u.salary /\ new.state = u.state /\ new.made = u.made
      /\ new.role = u.role /\ new.secret /\ new.leave = u.leave
  BY DEF Users
<1>3. /\ request' = [request EXCEPT ![c] = Idle] /\ user' = [user EXCEPT ![q.e] = new]
      /\ unpaid' = IF u.secret /\ u.made # q.i THEN unpaid \cup {q.e} ELSE unpaid
      /\ invitation' = [invitation EXCEPT ![q.i].state = "ACCEPTED"]
      /\ Names(q.e) \/ UNCHANGED <<manager, loose>>
  BY DEF JoinAccount, Accepts, Ends, Goes, Sets
<1> HIDE DEF new
<1>4. /\ user' \in [Addresses -> Users] /\ user'[q.e] = new
      /\ \A e \in Addresses \ {q.e} : user'[e] = user[e]
  BY <1>1, <1>2, <1>3 DEF EmployeesInv, Types
<1>5. /\ Grown /\ manager' \in {manager, q.e}
      /\ loose \subseteq loose' /\ loose' \subseteq Addresses
      /\ manager' # manager => user[q.e].role = "DEPARTMENT_ADMIN" \/ q.e \in loose'
      /\ manager' \in Addresses \cup {None} /\ ManagerExists' /\ MadeByInvitation'
      /\ \A i \in Invitations :
            invitation'[i].state = "ACCEPTED" /\ invitation[i].state # "ACCEPTED" =>
               i = q.i /\ invitation'[i].to = q.e
  <2>1. u.state # "none"
    BY <1>1 DEF Exists
  <2> QED
    BY <1>1, <1>2, <1>3, <1>4, <2>1, AcceptedGrown
<1>6. \A e \in Addresses \ loose' : RoleMove(q, Idle, e)
  BY <1>1, <1>2, <1>4, <1>5 DEF RoleMove
<1>7. ASSUME NEW e \in Addresses \ unpaid'
      PROVE  PromiseMove(q, Idle, e)
  <2>1. ~OwesSalary(q, e) /\ ~OwesLeave(q, e) /\ (Exists(e) <=> user'[e].state # "none")
    BY <1>1, <1>2, <1>4 DEF OwesSalary, OwesLeave, Exists
  <2>2. e = q.e => u.made \in {0, q.i}
    <3>1. ~u.secret => u.made = 0
      BY <1>1 DEF EmployeesInv, MadeByInvitation
    <3> QED
      BY <1>3, <1>7, <3>1
  <2> QED
    BY <1>1, <1>2, <1>4, <1>5, <2>1, <2>2 DEF PromiseMove, Exists
<1>8. unpaid \subseteq unpaid' /\ unpaid' \subseteq Addresses
  BY <1>1, <1>3 DEF EmployeesInv, Types
<1> QED
  BY <1>3, <1>5, <1>6, <1>7, <1>8, IdleFits, IdleHolds, CallFits

\* A role that is taken from an account that had it as read is followed by the
\* call that clears the manager; an account with another role by now is marked.
LEMMA UpdateUserFits ==
    ASSUME EmployeesInv, NEW c \in Clients, UpdateUser(c)
    PROVE  EmployeesInv'
<1> PICK q \in Requests : q = request[c] /\ Fits(q)
  BY RequestsHere
<1>1. /\ q.pc = "update" /\ q.op = "update" /\ q.e \in Addresses /\ Exists(q.e)
      /\ UNCHANGED <<invitation, manager, unpaid>>
  BY OpsAt DEF UpdateUser, At, Fits
<1>2. CASE q.e \notin Live
  BY <1>1, <1>2, RefusedFits DEF UpdateUser, Ends, Goes
<1>3. CASE q.e \in Live
  <2> PICK u \in Users : u = user[q.e]
    BY <1>1 DEF EmployeesInv, Types
  <2> DEFINE new == [u EXCEPT !.role = IF q.role = None THEN @ ELSE q.role,
                              !.status = IF q.status = None THEN @ ELSE q.status]
  <2>1. /\ new \in Users /\ new.salary = u.salary /\ new.state = u.state /\ new.made = u.made
        /\ new.role = IF q.role = None THEN u.role ELSE q.role
        /\ new.secret = u.secret /\ new.leave = u.leave
    <3>1. /\ (IF q.role = None THEN u.role ELSE q.role) \in Roles
          /\ (IF q.status = None THEN u.status ELSE q.status) \in Employment
      BY DEF Requests, Users
    <3>2. new = [u EXCEPT !.role = IF q.role = None THEN u.role ELSE q.role,
                          !.status = IF q.status = None THEN u.status ELSE q.status]
      BY DEF Users
    <3> HIDE DEF new
    <3> QED
      BY <3>1, <3>2 DEF Users
  <2> PICK r \in Requests :
         r = IF AfterUpdate(q) = "done" THEN Idle ELSE [q EXCEPT !.pc = AfterUpdate(q)]
    <3>1. AfterUpdate(q) \in {"done", "assign", "clear"}
      BY DEF AfterUpdate
    <3>2. AfterUpdate(q) # "done" => [q EXCEPT !.pc = AfterUpdate(q)] \in Requests
      BY <3>1, StepFields DEF Pcs
    <3> QED
      BY <3>2, IdleFits
  <2>2. /\ request' = [request EXCEPT ![c] = r] /\ Sets(q.e, new)
        /\ loose' = IF q.role # None /\ q.was # u.role THEN loose \cup {q.e} ELSE loose
    BY <1>3 DEF UpdateUser, Step, Ends, Goes
  <2> HIDE DEF new
  <2>3. Grown /\ user'[q.e] = new /\ \A d \in Addresses \ {q.e} : user'[d] = user[d]
    BY <1>1, <2>1, <2>2, SetsFit DEF EmployeesInv, Exists
  <2>4. \/ r = Idle /\ (q.role = None \/ q.role = q.was)
        \/ /\ r.op = q.op /\ r.e = q.e /\ r.i = q.i /\ r.role = q.role
           /\ r.status = q.status /\ r.salary = q.salary /\ q.role # None /\ q.role # q.was
           /\ \/ r.pc = "assign" /\ q.role = "DEPARTMENT_ADMIN"
              \/ r.pc = "clear" /\ q.role # "DEPARTMENT_ADMIN"
    BY StepFields DEF AfterUpdate, Pcs
  <2>5. Fits(r)'
    <3>1. r # Idle => Fits(r)
      BY <1>1, <2>4 DEF Fits, Calls
    <3>2. r # Idle => Fits(r)'
      BY <2>3, <3>1, FitsStays DEF EmployeesInv
    <3>3. r = Idle => Fits(r)'
      BY IdleHolds DEF Fits, Exists
    <3> QED
      BY <3>2, <3>3
  <2>6. ASSUME NEW e \in Addresses \ loose'
        PROVE  RoleMove(q, r, e)
    <3>1. q.e = e => q.role = None \/ q.was = u.role
      BY <2>2, <2>6
    <3> QED
      BY <1>1, <2>1, <2>3, <2>4, <3>1 DEF RoleMove
  <2>7. \A e \in Addresses : PromiseMove(q, r, e)
    BY <1>1, <2>1, <2>3 DEF PromiseMove, OwesSalary, OwesLeave, Exists
  <2>8. MadeByInvitation'
    BY <2>1, <2>3, MadeStays
  <2>9. /\ manager' \in Addresses \cup {None} /\ unpaid' \subseteq Addresses
        /\ loose \subseteq loose' /\ loose' \subseteq Addresses
    BY <1>1, <2>2 DEF EmployeesInv, Types
  <2> QED
    BY <1>1, <2>2, <2>3, <2>5, <2>6, <2>7, <2>8, <2>9, CallFits
<1> QED
  BY <1>2, <1>3

\* A call that writes the manager alone: none, or an account with the role for it,
\* or one that is marked.
LEMMA ManagerFits ==
    ASSUME EmployeesInv, NEW c \in Clients, NEW q \in Requests, q = request[c], Fits(q),
           q.pc \in {"clear", "assign", "name"},
           request' = [request EXCEPT ![c] = Idle], UNCHANGED <<user, invitation, unpaid>>,
           manager' \in {manager, None, q.e}, q.pc = "clear" => manager' # q.e,
           loose \subseteq loose', loose' \subseteq Addresses,
           manager' # manager /\ manager' # None =>
              user[manager'].role = "DEPARTMENT_ADMIN" \/ manager' \in loose'
    PROVE  EmployeesInv'
<1>1. Grown /\ unpaid' \subseteq Addresses
  BY SameFits DEF EmployeesInv, Types
<1>2. /\ q.op \in {"update", "name"} /\ q.e \in Addresses \cup {None}
      /\ q.e # None => Exists(q.e)
  BY OpsAt DEF Fits, Requests
<1>3. manager' \in Addresses \cup {None} /\ ManagerExists'
  BY <1>2 DEF EmployeesInv, Types, ManagerExists, Exists
<1>4. ASSUME NEW e \in Addresses \ loose'
      PROVE  RoleMove(q, Idle, e)
  <2>1. ASSUME manager' = e, user'[e].role # "DEPARTMENT_ADMIN"
        PROVE  manager = e /\ user[e].role # "DEPARTMENT_ADMIN" /\ ~(q.pc = "clear" /\ q.e = e)
    BY <1>4, <2>1, EmployeesAssumption
  <2> QED
    BY <2>1, IdleHolds DEF RoleMove
<1>5. \A e \in Addresses : PromiseMove(q, Idle, e)
  BY IdleHolds DEF PromiseMove, OwesSalary, OwesLeave, Exists
<1>6. MadeByInvitation'
  BY <1>1, MadeStays
<1> QED
  BY <1>1, <1>3, <1>4, <1>5, <1>6, IdleFits, IdleHolds, CallFits

LEMMA ManagersFit ==
    ASSUME EmployeesInv, NEW c \in Clients,
           ClearManager(c) \/ AssignManager(c) \/ NameManager(c)
    PROVE  EmployeesInv'
<1> PICK q \in Requests : q = request[c] /\ Fits(q)
  BY RequestsHere
<1>1. /\ request' = [request EXCEPT ![c] = Idle]
      /\ UNCHANGED <<user, invitation, unpaid>>
  BY DEF ClearManager, AssignManager, NameManager, Ends, Goes
<1>2. loose \subseteq Addresses /\ q.e \in Addresses \cup {None}
  BY DEF EmployeesInv, Types, Requests
<1>3. ASSUME q.pc \in {"assign", "name"}, Names(q.e)
      PROVE  EmployeesInv'
  <2>1. /\ manager' = q.e /\ loose \subseteq loose' /\ loose' \subseteq Addresses
        /\ q.e \in Addresses => user[q.e].role = "DEPARTMENT_ADMIN" \/ q.e \in loose'
    BY <1>2, <1>3, NamesRole DEF EmployeesInv
  <2> QED
    BY <1>1, <1>2, <1>3, <2>1, ManagerFits
<1>4. CASE ClearManager(c)
  <2>1. /\ q.pc = "clear" /\ manager' = IF manager = q.e THEN None ELSE manager
        /\ UNCHANGED loose
    BY <1>4 DEF ClearManager, At
  <2>2. q.e # None
    BY <2>1, OpsAt, EmployeesAssumption DEF Fits
  <2> QED
    BY <1>1, <1>2, <2>1, <2>2, ManagerFits
<1>5. CASE AssignManager(c)
  <2>1. q.pc = "assign" /\ (Names(q.e) \/ UNCHANGED <<manager, loose>>)
    BY <1>5 DEF AssignManager, At
  <2>2. CASE UNCHANGED <<manager, loose>>
    BY <1>1, <1>2, <2>1, <2>2, ManagerFits
  <2> QED
    BY <1>3, <2>1, <2>2
<1>6. CASE NameManager(c)
  BY <1>3, <1>6 DEF NameManager, At
<1> QED
  BY <1>4, <1>5, <1>6

LEMMA ChangeUserFits ==
    ASSUME EmployeesInv, NEW c \in Clients, ChangeUser(c)
    PROVE  EmployeesInv'
<1> PICK q \in Requests : q = request[c] /\ Fits(q)
  BY RequestsHere
<1>1. /\ q.op = "change" /\ q.pc \in {"terminate", "reactivate", "archive", "restore"}
      /\ q.e \in Addresses /\ Exists(q.e)
      /\ request' = [request EXCEPT ![c] = Idle]
      /\ UNCHANGED <<invitation, manager, loose, unpaid>>
  BY OpsAt DEF ChangeUser, Fits, Ends, Goes
<1> PICK u \in Users : u = user[q.e]
  BY <1>1 DEF EmployeesInv, Types
<1>2. PICK new \in Users : 
         /\ Sets(q.e, new) /\ new.state # "none" /\ new.made = u.made /\ new.role = u.role
         /\ new.secret = u.secret /\ new.salary = u.salary /\ new.leave = u.leave
  <2>1. \A x \in Employment :
           /\ [u EXCEPT !.status = x] \in Users
           /\ [u EXCEPT !.status = x].state = u.state /\ [u EXCEPT !.status = x].made = u.made
           /\ [u EXCEPT !.status = x].role = u.role
           /\ [u EXCEPT !.status = x].secret = u.secret
           /\ [u EXCEPT !.status = x].salary = u.salary
           /\ [u EXCEPT !.status = x].leave = u.leave
    BY DEF Users
  <2>2. \A x \in {"live", "archived"} :
           /\ [u EXCEPT !.state = x] \in Users
           /\ [u EXCEPT !.state = x].state = x /\ [u EXCEPT !.state = x].made = u.made
           /\ [u EXCEPT !.state = x].role = u.role
           /\ [u EXCEPT !.state = x].secret = u.secret
           /\ [u EXCEPT !.state = x].salary = u.salary
           /\ [u EXCEPT !.state = x].leave = u.leave
    BY DEF Users
  <2>3. \/ \E x \in Employment : Sets(q.e, [u EXCEPT !.status = x])
        \/ \E x \in {"live", "archived"} : Sets(q.e, [u EXCEPT !.state = x])
    <3>1. {"INACTIVE", "ACTIVE"} \subseteq Employment
      BY DEF Employment, ActiveForWork
    <3> QED
      BY <1>1, <3>1 DEF ChangeUser, At
  <2>4. u.state # "none"
    BY <1>1 DEF Exists
  <2>5. CASE \E x \in Employment : Sets(q.e, [u EXCEPT !.status = x])
    BY <2>1, <2>4, <2>5
  <2>6. CASE \E x \in {"live", "archived"} : Sets(q.e, [u EXCEPT !.state = x])
    BY <2>2, <2>6
  <2> QED
    BY <2>3, <2>5, <2>6
<1>3. Grown /\ user'[q.e] = new /\ \A d \in Addresses \ {q.e} : user'[d] = user[d]
  BY <1>1, <1>2, SetsFit DEF EmployeesInv
<1>4. \A e \in Addresses : RoleMove(q, Idle, e)
  BY <1>1, <1>2, <1>3, IdleHolds DEF RoleMove
<1>5. \A e \in Addresses : PromiseMove(q, Idle, e)
  BY <1>1, <1>2, <1>3, IdleHolds DEF PromiseMove, OwesSalary, OwesLeave, Exists
<1>6. MadeByInvitation'
  BY <1>2, <1>3, MadeStays
<1>7. manager' \in Addresses \cup {None} /\ loose' \subseteq Addresses /\ unpaid' \subseteq Addresses
  BY <1>1 DEF EmployeesInv, Types
<1> QED
  BY <1>1, <1>3, <1>4, <1>5, <1>6, <1>7, IdleFits, IdleHolds, CallFits

\* 48 hours pass: nobody reads more of the invitation than its words.
LEMMA LapseFits ==
    ASSUME EmployeesInv, NEW i \in Invitations, Lapse(i)
    PROVE  EmployeesInv'
<1> PICK old \in Invited : old = invitation[i]
  BY DEF EmployeesInv, Types
<1>1. /\ [old EXCEPT !.lapsed = TRUE] \in Invited
      /\ [old EXCEPT !.lapsed = TRUE].to = old.to
      /\ [old EXCEPT !.lapsed = TRUE].role = old.role
      /\ [old EXCEPT !.lapsed = TRUE].status = old.status
      /\ [old EXCEPT !.lapsed = TRUE].salary = old.salary
      /\ [old EXCEPT !.lapsed = TRUE].state = old.state
  BY DEF Invited
<1>2. UNCHANGED <<user, manager, request, requests, loose, unpaid>>
  BY DEF Lapse
<1>3. /\ invitation' \in [Invitations -> Invited]
      /\ \A j \in Invitations :
            /\ invitation'[j].state = invitation[j].state /\ invitation'[j].to = invitation[j].to
            /\ invitation'[j].role = invitation[j].role
            /\ invitation'[j].status = invitation[j].status
            /\ invitation'[j].salary = invitation[j].salary
  BY <1>1 DEF Lapse, EmployeesInv, Types
<1>4. Grown
  BY <1>2, <1>3 DEF Grown, Exists, EmployeesInv, Types
<1>5. Types'
  BY <1>2, <1>3 DEF EmployeesInv, Types
<1>6. ASSUME NEW c \in Clients
      PROVE  Fits(request[c])'
  <2> PICK q \in Requests : q = request[c] /\ Fits(q)
    BY RequestsHere
  <2>1. Fits(q)'
    BY <1>4, FitsStays DEF EmployeesInv
  <2> QED
    BY <1>2, <2>1 DEF Fits, Exists
<1>7. \A e \in Addresses \ loose' : RoleFits(e)'
  BY <1>2 DEF EmployeesInv, RoleFits, At
<1>8. ASSUME NEW e \in Addresses \ unpaid'
      PROVE  PromiseFits(e)'
  <2>1. PromiseFits(e)
    BY <1>2, <1>8 DEF EmployeesInv
  <2>2. user[e].made # 0 => user[e].made \in Invitations
    BY EmployeesAssumption DEF EmployeesInv, Types, Users, Invitations
  <2> QED
    BY <1>2, <1>3, <2>1, <2>2 DEF PromiseFits, Exists, OwesSalary, OwesLeave
<1>9. MadeByInvitation'
  BY <1>2, <1>4, MadeStays
<1> QED
  BY <1>2, <1>5, <1>6, <1>7, <1>8, <1>9 DEF EmployeesInv, ManagerExists, Exists

-----------------------------------------------------------------------------
(* Theorems                                                                *)

LEMMA InitFits == Init => EmployeesInv
<1> SUFFICES ASSUME Init PROVE EmployeesInv
  OBVIOUS
<1>1. NoInvitation \in Invited /\ NoInvitation.state = "none"
  BY DEF NoInvitation, Invited, Roles, Employment, ActiveForWork
<1>2. Types
  BY <1>1, NoUserFits, IdleFits DEF Init, Types
<1>3. \A e \in Addresses : ~Exists(e) /\ user[e].made = 0
  BY NoUserFits DEF Init, Exists
<1>4. \A c \in Clients : request[c] = Idle
  BY DEF Init
<1>5. Fits(Idle)
  BY IdleFits DEF Fits, Calls
<1>6. \A e \in Addresses : RoleFits(e)
  BY <1>4, IdleHolds, EmployeesAssumption DEF RoleFits, Init
<1>7. \A e \in Addresses : PromiseFits(e)
  BY <1>1, <1>3 DEF PromiseFits, Init
<1> QED
  BY <1>2, <1>3, <1>4, <1>5, <1>6, <1>7 DEF EmployeesInv, ManagerExists, MadeByInvitation, Init

LEMMA StepFits == EmployeesInv /\ [Next]_vars => EmployeesInv'
<1> SUFFICES ASSUME EmployeesInv, [Next]_vars PROVE EmployeesInv'
  OBVIOUS
<1>1. CASE \E c \in Clients : Handler(c)
  BY <1>1, HandlersFit
<1>2. CASE \E c \in Clients : Call(c)
  <2> PICK c \in Clients : Call(c)
    BY <1>2
  <2> QED
    BY CreateInvitationFits, ExpireInvitationFits, FindAccountFits, JoinAccountFits,
       MakeAccountFits, MarkAcceptedFits, CreateSalaryFits, SalaryFailsFits,
       CreateEntitlementFits, CreateUserFits, UpdateUserFits, ManagersFit,
       ChangeUserFits, FaultFits DEF Call
<1>3. CASE \E i \in Invitations : Lapse(i)
  BY <1>3, LapseFits
<1>4. CASE UNCHANGED vars
  BY <1>4 DEF vars, EmployeesInv, Types, Fits, ManagerExists, MadeByInvitation, RoleFits,
              PromiseFits, Exists, OwesSalary, OwesLeave, At
<1> QED
  BY <1>1, <1>2, <1>3, <1>4 DEF Next

\* In every reachable state a handler in flight knows its account and invitation, a
\* manager without the role for it is about to be cleared or marked, and what is still
\* missing of a promise is owed by a handler in flight or its account is marked.
THEOREM EmployeesInvariant == Spec => []EmployeesInv
  BY InitFits, StepFits, PTL DEF Spec

\* Accounts and invitations stay in their types.
THEOREM EmployeesTypes == Spec => []TypeOK
<1>1. EmployeesInv => TypeOK
  BY DEF EmployeesInv, Types, Users, Invited, Employment, TypeOK
<1> QED
  BY <1>1, EmployeesInvariant, PTL

\* However requests interleave, the department's manager has the role DEPARTMENT_ADMIN,
\* whether it still works or not, once the handlers of the account are done, unless it
\* is marked in loose (updateEmployee, acceptInvitation, updateDepartment).
THEOREM ManagersHaveRole == Spec => []ManagerHasRole
<1>1. EmployeesInv => ManagerHasRole
  BY DEF EmployeesInv, Types, RoleFits, At, ManagerHasRole, Busy
<1> QED
  BY <1>1, EmployeesInvariant, PTL

\* However acceptances, hires and archives interleave, what an accepted invitation
\* promised is there once the handlers of its address are done.
THEOREM PromisesAreKept == Spec => []PromisesKept
<1>1. EmployeesInv => PromisesKept
  <2> SUFFICES ASSUME EmployeesInv, NEW i \in Invitations, invitation[i].state = "ACCEPTED",
                      ~Busy(invitation[i].to), invitation[i].to \notin unpaid
               PROVE  LET e == invitation[i].to
                      IN  /\ user[e].secret
                          /\ invitation[i].salary => user[e].salary
                          /\ user[e].made = i => user[e].leave
    BY DEF PromisesKept
  <2> DEFINE e == invitation[i].to
  <2>1. e \in Addresses /\ PromiseFits(e) /\ i # 0
    BY DEF EmployeesInv, Types, Invitations
  <2>2. \A c \in Clients : ~OwesSalary(request[c], e) /\ ~OwesLeave(request[c], e)
    BY DEF Busy, OwesSalary, OwesLeave
  <2>3. Exists(e) /\ user[e].secret /\ user[e].made \in {0, i}
    BY <2>1 DEF PromiseFits
  <2> HIDE DEF e
  <2>4. user[e].made = i /\ invitation[i].salary => user[e].salary
    BY <2>1, <2>2, <2>3 DEF PromiseFits
  <2>5. user[e].made = 0 => user[e].salary
    BY <2>1, <2>2, <2>3 DEF PromiseFits
  <2>6. user[e].made = i => user[e].leave
    BY <2>1, <2>2, <2>3 DEF PromiseFits
  <2> QED
    BY <2>3, <2>4, <2>5, <2>6 DEF e
<1> QED
  BY <1>1, EmployeesInvariant, PTL
=============================================================================
