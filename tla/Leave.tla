------------------------------- MODULE Leave -------------------------------
(***************************************************************************)
(* One employee's leave: requests, the decisions on them, and the yearly   *)
(* entitlement rows the days are booked on (controllers/leave.controller.js*)
(* services/leave-allocation.service.js, automations/leave-accrual.job.js).*)
(*                                                                         *)
(* A decision checks the status it read, and then writes by id: whatever   *)
(* happened to the request in between is overwritten.  Days are booked on  *)
(* the row of the year in which the request is made and released from the  *)
(* row of the year in which it is decided.                                 *)
(*                                                                         *)
(* The pool is the annual one; the sick pool is kept by the same code in   *)
(* columns of its own.  Requests in Unpooled use a leave type that draws   *)
(* from neither.                                                           *)
(***************************************************************************)
EXTENDS Integers, FiniteSets

CONSTANTS
    Requests,       \* leave requests the employee may make
    NoRequest,      \* stands for no request
    Unpooled,       \* those of a leave type without a pool
    Clients,        \* calls of the employee that may be in flight at once
    Staff,          \* calls of managers and HR that may be in flight at once
    LastDay,        \* bound on the calendar: days are 1..LastDay
    LastYear,       \* bound on the years: 1..LastYear
    Tier,           \* the allocation the employee's service gives in a year
    Policies,       \* what HR may change the policy to
    CarryoverType,  \* policy.carryoverType
    MaxCarryover,   \* policy.maxCarryoverDays, for LIMITED
    MaxAccrued,     \* policy.defaultDaysPerYear, the cap of the accrual job
    PerPeriod,      \* policy.accrualDaysPerPeriod
    Adjustments,    \* manual adjustments HR may make
    MaxAdjusted,    \* bound on their sum
    MaxCalls        \* bound on the handlers started

Years == 1..LastYear
Method == {"FRONT_LOADED", "ACCRUAL"}
Callers == Clients \cup Staff

ASSUME LeaveAssumption ==
    /\ Unpooled \subseteq Requests /\ NoRequest \notin Requests
    /\ Clients \cap Staff = {}
    /\ LastDay \in Nat /\ LastYear \in Nat \ {0}
    /\ Tier \in [Years -> Nat]
    /\ Policies \subseteq [method : Method, twoTier : BOOLEAN]
    /\ CarryoverType \in {"NONE", "FULL", "LIMITED", "ENCASHMENT"}
    /\ {MaxCarryover, MaxAccrued, PerPeriod, MaxAdjusted, MaxCalls} \subseteq Nat
    /\ Adjustments \subseteq Int

VARIABLES
    year,       \* the calendar year
    policy,     \* the AnnualLeavePolicy row
    row,        \* the YearlyEntitlement rows
    request,    \* the LeaveRequest rows; booked: the year that holds the days
    call,       \* what each caller's handler in flight read, and does next
    calls,      \* handlers started so far
    yearEnd,    \* the year-end job
    overruled,  \* history: settled requests that were written again
    doubled,    \* history: requests made by calls that ran side by side
    unbooked,   \* history: requests whose call ended before it booked their days
    drifted     \* history: years whose rows an untimely decision touched

history == <<overruled, doubled, unbooked, drifted>>
vars == <<year, policy, row, request, call, calls, yearEnd, history>>

-----------------------------------------------------------------------------
(* Rows                                                                    *)

Spans == {a..b : a, b \in 1..LastDay} \ {{}}

Open == {"PENDING", "MANAGER_APPROVED"}
Settled == {"APPROVED", "REJECTED", "CANCELLED"}
LiveUntilManager == {"PENDING", "APPROVED"}

Live == Open \cup {"APPROVED"}

\* computeInitialAllocation: nothing is front-loaded under ACCRUAL.
Allocation(method, y) == IF method = "ACCRUAL" THEN 0 ELSE Tier[y]

NoRow == [allocated |-> -1, accrued |-> 0, carried |-> 0, adjusted |-> 0,
          used |-> 0, pending |-> 0, encashed |-> 0]

NewRow(method, y) == [NoRow EXCEPT !.allocated = Allocation(method, y)]

AvailablePendingIncluded(e) == e.allocated + e.accrued + e.carried + e.adjusted - e.used

\* computeAvailableBalance
Available(e) == e.allocated + e.accrued + e.carried + e.adjusted - e.used - e.pending

\* calculateWorkingDays; every day of the model is a working day.
TotalDays(dates) == Cardinality(dates)

Days(r) == TotalDays(request[r].dates)

NothingSeen == [y \in Years |-> NoRow]

\* A handler not in flight; req is then no request.
Idle == [pc |-> "idle", op |-> "lookup", req |-> NoRequest, status |-> "NONE", dates |-> {},
         year |-> 1, method |-> "FRONT_LOADED", seen |-> NothingSeen]

NoJob(pc) == [pc |-> pc, method |-> "FRONT_LOADED", previous |-> NoRow]

Init ==
    /\ year = 1
    /\ policy = [method |-> "FRONT_LOADED", twoTier |-> TRUE]
    /\ row = NothingSeen
    /\ request = [r \in Requests |-> [status |-> "NONE", dates |-> {}, booked |-> 0]]
    /\ call = [c \in Callers |-> Idle]
    /\ calls = 0
    /\ yearEnd = NoJob("idle")
    /\ overruled = {}
    /\ doubled = {}
    /\ unbooked = {}
    /\ drifted = {}

Goto(c, k) == call' = [call EXCEPT ![c] = k] /\ UNCHANGED calls
Ends(c) == Goto(c, Idle)

At(c, pc) == call[c].pc = pc

Starts(c, k) ==
    /\ At(c, "idle") /\ calls < MaxCalls
    /\ call' = [call EXCEPT ![c] = k]
    /\ calls' = calls + 1

-----------------------------------------------------------------------------
(* The entitlement row of the year, made when it is first asked for        *)

\* With the row at hand: a request is checked against the balance.
Proceed(c, y, e) ==
    LET k == [call[c] EXCEPT !.year = y, !.seen[y] = e]
    IN  Goto(c, CASE k.op = "create" ->
                       IF k.req \in Unpooled \/ TotalDays(k.dates) <= Available(e)
                       THEN [k EXCEPT !.pc = "insert"] ELSE Idle
                  [] k.op = "adjust" -> [k EXCEPT !.pc = "adjust"]
                  [] OTHER -> Idle)

FindRow(c) ==
    /\ At(c, "find")
    /\ IF row[year] # NoRow
       THEN Proceed(c, year, row[year])
       ELSE Goto(c, [call[c] EXCEPT !.pc = "make", !.year = year,
                        !.method = IF @ # "unread" THEN @ ELSE policy.method])
    /\ UNCHANGED <<year, policy, row, request, yearEnd, history>>

\* The row is unique: the second of two calls that found none fails.
MakeRow(c) ==
    LET y == call[c].year
        e == NewRow(call[c].method, y)
    IN  /\ At(c, "make")
        /\ IF row[y] = NoRow
           THEN row' = [row EXCEPT ![y] = e] /\ Proceed(c, y, e)
           ELSE Ends(c) /\ UNCHANGED row
        /\ UNCHANGED <<year, policy, request, yearEnd, history>>

\* getMyLeaveBalance and the other reads that make the row.
Lookup(c) ==
    /\ Starts(c, [Idle EXCEPT !.pc = "find", !.method = "unread"])
    /\ UNCHANGED <<year, policy, row, request, yearEnd, history>>

\* initializeLeaveEntitlement: for any year.
Initialize(c) ==
    /\ c \in Staff
    /\ \E y \in Years :
          /\ row[y] = NoRow
          /\ Starts(c, [Idle EXCEPT !.pc = "make", !.year = y, !.method = policy.method])
    /\ UNCHANGED <<year, policy, row, request, yearEnd, history>>

\* adjustLeaveBalance adds to the sum it read.
Adjust(c) ==
    /\ c \in Staff
    /\ Starts(c, [Idle EXCEPT !.pc = "find", !.op = "adjust", !.method = "unread"])
    /\ UNCHANGED <<year, policy, row, request, yearEnd, history>>

WriteAdjustment(c) ==
    LET y == call[c].year
    IN  /\ At(c, "adjust")
        /\ \E days \in Adjustments :
              LET sum == call[c].seen[y].adjusted + days
              IN  /\ sum \in -MaxAdjusted..MaxAdjusted
                  /\ row' = [row EXCEPT ![y].adjusted = sum]
        /\ Ends(c)
        /\ UNCHANGED <<year, policy, request, yearEnd, history>>

-----------------------------------------------------------------------------
(* createLeaveRequest                                                      *)

Overlapping(dates) == {r \in Requests : request[r].status \in Live /\ request[r].dates \cap dates # {}}

\* The calls that have yet to insert their request.
Creating == {c \in Clients : call[c].op = "create" /\ call[c].pc # "book"}

RequestLeave(c) ==
    /\ c \in Clients
    /\ \E r \in Requests \ {call[d].req : d \in Creating}, dates \in Spans :
          /\ request[r].status = "NONE"
          /\ Overlapping(dates) = {}
          /\ Starts(c, [Idle EXCEPT !.pc = "find", !.op = "create", !.req = r,
                                    !.dates = dates, !.method = policy.method])
          /\ doubled' = IF Creating = {} THEN doubled
                        ELSE doubled \cup {r} \cup {call[d].req : d \in Creating}
    /\ UNCHANGED <<year, policy, row, request, yearEnd, overruled, unbooked, drifted>>

InsertRequest(c) ==
    LET k == call[c]
    IN  /\ At(c, "insert")
        /\ request' = [request EXCEPT ![k.req] =
                          [status |-> "PENDING", dates |-> k.dates, booked |-> 0]]
        /\ Goto(c, IF k.req \in Unpooled THEN Idle ELSE [k EXCEPT !.pc = "book"])
        /\ UNCHANGED <<year, policy, row, yearEnd, history>>

\* The requests whose days are still to be booked.
Booking == {call[c].req : c \in {d \in Callers : At(d, "book")}}

\* In a call of its own: the request can be decided before, or stay unbooked.
BookDays(c) ==
    LET k == call[c]
    IN  /\ At(c, "book")
        /\ row' = [row EXCEPT ![k.year].pending = @ + TotalDays(k.dates)]
        /\ request' = [request EXCEPT ![k.req].booked = k.year]
        /\ drifted' = IF request[k.req].status \in Open THEN drifted ELSE drifted \cup {k.year}
        /\ Ends(c)
        /\ UNCHANGED <<year, policy, yearEnd, overruled, doubled, unbooked>>

-----------------------------------------------------------------------------
(* Decisions                                                               *)

CancellableWhenApproved(status, verdict) ==
    IF verdict = "CANCELLED" THEN status \notin {"REJECTED", "CANCELLED"} ELSE status \in Open

\* What a handler must read to go on; a manager may reject in less cases.
Decidable(status, verdict) ==
    CASE verdict = "CANCELLED" -> status \notin Settled
      [] OTHER -> status \in Open

\* The write, by id alone.
WriteStatus(r, status) ==
    /\ request' = [request EXCEPT ![r].status = status]
    /\ overruled' = IF request[r].status \in Settled THEN overruled \cup {r} ELSE overruled

StartManagerApproval(c) ==
    /\ c \in Staff
    /\ \E r \in Requests :
          /\ request[r].status = "PENDING"
          /\ Starts(c, [Idle EXCEPT !.pc = "tier", !.req = r, !.status = "PENDING"])
    /\ UNCHANGED <<year, policy, row, request, yearEnd, history>>

CheckTier(c) ==
    /\ At(c, "tier")
    /\ Goto(c, IF policy.twoTier THEN [call[c] EXCEPT !.pc = "managerApprove"] ELSE Idle)
    /\ UNCHANGED <<year, policy, row, request, yearEnd, history>>

ManagerApprove(c) ==
    /\ At(c, "managerApprove")
    /\ LET r == call[c].req
       IN  /\ WriteStatus(r, "MANAGER_APPROVED")
           /\ drifted' = IF request[r].status \in Open THEN drifted ELSE drifted \cup {request[r].booked}
    /\ Ends(c)
    /\ UNCHANGED <<year, policy, row, yearEnd, doubled, unbooked>>

\* hrApproveLeaveRequest, rejectLeaveRequest and cancelLeaveRequest
StartDecision(c) ==
    /\ \E r \in Requests, verdict \in Settled :
          /\ c \in Clients <=> verdict = "CANCELLED"
          /\ request[r].status # "NONE" /\ Decidable(request[r].status, verdict)
          /\ Starts(c, [Idle EXCEPT !.pc = "decide", !.op = verdict, !.req = r,
                                    !.status = request[r].status])
    /\ UNCHANGED <<year, policy, row, request, yearEnd, history>>

PostedWithoutRelease(e, verdict, days) ==
    [e EXCEPT !.used = IF verdict = "APPROVED" THEN @ + days ELSE @]

\* The transaction: the days leave the pending days of this year's row, if any.
Posted(e, verdict, days) ==
    [e EXCEPT !.pending = @ - days,
              !.used = IF verdict = "APPROVED" THEN @ + days ELSE @]

Decide(c) ==
    LET r == call[c].req
        verdict == call[c].op
    IN  /\ At(c, "decide")
        /\ WriteStatus(r, verdict)
        /\ row' = IF r \in Unpooled \/ row[year] = NoRow THEN row
                  ELSE [row EXCEPT ![year] = Posted(@, verdict, Days(r))]
        /\ drifted' = IF \/ r \in Unpooled
                         \/ request[r].status \in Open /\ request[r].booked = year
                      THEN drifted ELSE drifted \cup {year, request[r].booked}
        /\ Ends(c)
        /\ UNCHANGED <<year, policy, yearEnd, doubled, unbooked>>

-----------------------------------------------------------------------------
(* The policy, and what it does to rows that exist                         *)

ReallocatedAtUsed(e, method, y) ==
    IF Allocation(method, y) < e.used THEN e.used ELSE Allocation(method, y)

\* No allocation below the days used and pending.
Refloored(e, method, y) ==
    LET floor == e.used + e.pending
    IN  IF Allocation(method, y) < floor THEN floor ELSE Allocation(method, y)

\* Rows are written from what was read, and only where the allocation changes.
Reallocate(y, seen, method) ==
    row' = IF Refloored(seen, method, y) = seen.allocated THEN row
           ELSE [row EXCEPT ![y].allocated = Refloored(seen, method, y)]

UpdatePolicy(c) ==
    /\ c \in Staff
    /\ \E p \in Policies, apply \in BOOLEAN :
          /\ policy' = p
          /\ Starts(c, IF apply THEN [Idle EXCEPT !.pc = "collect", !.method = p.method] ELSE Idle)
    /\ UNCHANGED <<year, row, request, yearEnd, history>>

\* propagateAllocationToEntitlements reads the rows of this year and later ones
CollectRows(c) ==
    LET seen == [y \in Years |-> IF y >= year THEN row[y] ELSE NoRow]
    IN  /\ At(c, "collect")
        /\ Goto(c, IF seen = NothingSeen THEN Idle
                   ELSE [call[c] EXCEPT !.pc = "propagate", !.seen = seen])
        /\ UNCHANGED <<year, policy, row, request, yearEnd, history>>

\* and updates them one by one.
PropagateTo(c, y) ==
    LET rest == [call[c].seen EXCEPT ![y] = NoRow]
    IN  /\ At(c, "propagate")
        /\ call[c].seen[y] # NoRow
        /\ Reallocate(y, call[c].seen[y], call[c].method)
        /\ Goto(c, IF rest = NothingSeen THEN Idle ELSE [call[c] EXCEPT !.seen = rest])
        /\ UNCHANGED <<year, policy, request, yearEnd, history>>

\* recomputeEntitlements: one year, of those with an allocation.
StartRecompute(c) ==
    /\ c \in Staff
    /\ \E y \in Years :
          /\ Tier[y] > 0
          /\ Starts(c, [Idle EXCEPT !.pc = "recompute", !.year = y,
                                    !.method = policy.method, !.seen[y] = row[y]])
    /\ UNCHANGED <<year, policy, row, request, yearEnd, history>>

Recompute(c) ==
    LET k == call[c]
        seen == k.seen[k.year]
    IN  /\ At(c, "recompute")
        /\ CASE seen # NoRow -> Reallocate(k.year, seen, k.method)
             [] seen = NoRow /\ row[k.year] = NoRow ->
                    row' = [row EXCEPT ![k.year] = NewRow(k.method, k.year)]
             [] OTHER -> UNCHANGED row
        /\ Ends(c)
        /\ UNCHANGED <<year, policy, request, yearEnd, history>>

-----------------------------------------------------------------------------
(* The calendar and the scheduled jobs                                     *)

NewYear ==
    /\ year < LastYear
    /\ yearEnd.pc \in {"idle", "done"}
    /\ year' = year + 1
    /\ yearEnd' = [yearEnd EXCEPT !.pc = "due"]
    /\ UNCHANGED <<policy, row, request, call, calls, history>>

UnusedOrOverdrawn(e) == IF e = NoRow THEN 0 ELSE Available(e) - e.encashed

UnusedWithPending(e) ==
    LET left == Available(e) + e.pending - e.encashed
    IN  IF e = NoRow \/ left < 0 THEN 0 ELSE left

\* calculateCarryover
Unused(e) == IF e = NoRow \/ Available(e) < e.encashed THEN 0 ELSE Available(e) - e.encashed

CarriedOver(e) ==
    CASE CarryoverType = "FULL" -> Unused(e)
      [] CarryoverType = "LIMITED" -> IF Unused(e) < MaxCarryover THEN Unused(e) ELSE MaxCarryover
      [] OTHER -> 0

Encashed(e) == IF CarryoverType = "ENCASHMENT" THEN Unused(e) ELSE 0

\* startYearEndJob, on January 1st: nothing to do where the row exists by now.
ReadRows ==
    /\ yearEnd.pc = "due"
    /\ yearEnd' = IF row[year] # NoRow THEN NoJob("done")
                  ELSE [pc |-> "create", method |-> policy.method, previous |-> row[year - 1]]
    /\ UNCHANGED <<year, policy, row, request, call, calls, history>>

OpenNewYear ==
    /\ yearEnd.pc = "create"
    /\ row' = IF row[year] # NoRow THEN row
              ELSE [row EXCEPT ![year] = [NewRow(yearEnd.method, year) EXCEPT
                                            !.carried = CarriedOver(yearEnd.previous),
                                            !.encashed = Encashed(yearEnd.previous)]]
    /\ yearEnd' = NoJob("done")
    /\ UNCHANGED <<year, policy, request, call, calls, history>>

\* startLeaveAccrualJob, monthly
Accrue ==
    /\ policy.method = "ACCRUAL"
    /\ row[year] # NoRow /\ row[year].accrued < MaxAccrued
    /\ row' = [row EXCEPT ![year].accrued =
                  IF @ + PerPeriod < MaxAccrued THEN @ + PerPeriod ELSE MaxAccrued]
    /\ UNCHANGED <<year, policy, request, call, calls, yearEnd, history>>

\* startCarryoverExpiryJob, monthly: all carried days, the used ones included.
ExpireCarryover ==
    /\ \E y \in Years :
          /\ row[y].carried > 0
          /\ row' = [row EXCEPT ![y].carried = 0,
                                ![y].encashed = IF CarryoverType = "ENCASHMENT"
                                                THEN @ + row[y].carried ELSE @]
    /\ UNCHANGED <<year, policy, request, call, calls, yearEnd, history>>

-----------------------------------------------------------------------------
(* Failures                                                                *)

\* A call to the database or the object store fails: the handler answers 500.
Fail(c) ==
    /\ call[c].pc # "idle"
    /\ Ends(c)
    /\ unbooked' = IF At(c, "book") THEN unbooked \cup {call[c].req} ELSE unbooked
    /\ UNCHANGED <<year, policy, row, request, yearEnd, overruled, doubled, drifted>>

\* The process stops; a cron job it misses is not made up for.
Crash ==
    /\ call' = [c \in Callers |-> Idle]
    /\ yearEnd' = IF yearEnd.pc = "idle" THEN yearEnd ELSE NoJob("done")
    /\ unbooked' = unbooked \cup Booking
    /\ UNCHANGED <<year, policy, row, request, calls, overruled, doubled, drifted>>

-----------------------------------------------------------------------------
Handler(c) ==
    \/ Lookup(c) \/ Initialize(c) \/ Adjust(c) \/ WriteAdjustment(c)
    \/ FindRow(c) \/ MakeRow(c)
    \/ RequestLeave(c) \/ InsertRequest(c) \/ BookDays(c)
    \/ StartManagerApproval(c) \/ CheckTier(c) \/ ManagerApprove(c)
    \/ StartDecision(c) \/ Decide(c)
    \/ UpdatePolicy(c) \/ CollectRows(c) \/ (\E y \in Years : PropagateTo(c, y))
    \/ StartRecompute(c) \/ Recompute(c)
    \/ Fail(c)

Next ==
    \/ \E c \in Callers : Handler(c)
    \/ NewYear \/ ReadRows \/ OpenNewYear
    \/ Accrue \/ ExpireCarryover \/ Crash

Spec == Init /\ [][Next]_vars

-----------------------------------------------------------------------------
(* Properties                                                              *)

Status == {"NONE"} \cup Open \cup Settled
\* Only adjustments and pending days can become negative.
Row == [allocated : Nat \cup {-1}, accrued : Nat, carried : Nat, adjusted : Int,
        used : Nat, pending : Int, encashed : Nat]

Pc == {"idle", "find", "make", "adjust", "insert", "book", "tier", "managerApprove",
       "decide", "collect", "propagate", "recompute"}

Call == [pc : Pc, op : {"lookup", "adjust", "create"} \cup Settled,
         req : Requests \cup {NoRequest}, status : Status, dates : Spans \cup {{}},
         year : Years, method : Method \cup {"unread"}, seen : [Years -> Row]]

\* Every variable has its type.
TypeOK ==
    /\ year \in Years
    /\ policy \in [method : Method, twoTier : BOOLEAN]
    /\ row \in [Years -> Row]
    /\ request \in [Requests -> [status : Status, dates : Spans \cup {{}}, booked : 0..LastYear]]
    /\ call \in [Callers -> Call]
    /\ calls \in Nat
    /\ yearEnd \in [pc : {"idle", "due", "create", "done"}, method : Method, previous : Row]
    /\ overruled \subseteq Requests
    /\ doubled \subseteq Requests
    /\ unbooked \subseteq Requests
    /\ drifted \subseteq 0..LastYear

\* The days that the requests of some statuses have booked in the row of y.
Bookings(statuses, y) ==
    {b \in Requests \X (1..LastDay) : /\ request[b[1]].status \in statuses
                                     /\ request[b[1]].booked = y
                                     /\ b[2] \in request[b[1]].dates}

DaysOf(statuses, y) == Cardinality(Bookings(statuses, y))

\* "usedDays: Approved leaves", "pendingDays: Pending requests"
\* (schema.prisma:1570).  No interleaving of creates, decisions, recomputations,
\* accruals and year ends, no failing call and no crash makes a year's row differ
\* from the requests, but in the two ways that the code leaves open and that the
\* property names.  A request's days are missing from every row only while its
\* call is about to book them, and for good if that call fails or the process
\* dies there.  And a year's row drifts only when a decision was untimely: it met
\* a request already settled, not yet booked, or booked on another year's row.
LedgerBalanced ==
    /\ \A r \in Requests \ Unpooled :
          request[r].status # "NONE" /\ request[r].booked = 0 => r \in Booking \cup unbooked
    /\ \A y \in Years \ drifted : row[y] # NoRow =>
          /\ row[y].pending = DaysOf(Open, y)
          /\ row[y].used = DaysOf({"APPROVED"}, y)

\* The employee is never away twice on one day: two live requests overlap only
\* if the calls that made them ran side by side, or after a stale decision
\* revived a settled one.
AwayOnce ==
    overruled = {} =>
        \A r, s \in Requests :
            /\ r # s /\ ~({r, s} \subseteq doubled)
            /\ {request[r].status, request[s].status} \subseteq Open \cup {"APPROVED"}
            => request[r].dates \cap request[s].dates = {}

\* A handler that will decide on r, having read it open.
DecidingOn(r) ==
    \E c \in Callers : /\ call[c].pc \in {"tier", "managerApprove", "decide"}
                       /\ call[c].req = r /\ call[c].status \in Open

\* A settled request keeps its status, but for the handlers that read it while
\* it was open and are still in flight.
SettledStaysSettled ==
    [][\A r \in Requests :
          request[r].status \in Settled /\ ~DecidingOn(r) => request'[r].status = request[r].status]_vars

Covered(e) == e.used + e.pending <= e.allocated + e.accrued + e.carried + e.adjusted

\* Days are never booked beyond the balance, if the row is what the request was
\* checked against.
BookingWithinBalance ==
    [][\A c \in Callers :
          LET y == call[c].year
          IN  BookDays(c) /\ row[y] = call[c].seen[y] => Covered(row'[y])]_vars

\* A reallocation never takes away days that are used or pending, if the row is
\* what it was computed from (leave.controller.js:517).
ReallocationKeepsFloor ==
    [][\A c \in Callers, y \in Years :
          /\ PropagateTo(c, y) \/ (Recompute(c) /\ call[c].year = y)
          /\ row[y] # NoRow /\ row[y] = call[c].seen[y]
          => row'[y].used + row'[y].pending <= row'[y].allocated]_vars

\* What the year-end job carries over or encashes was neither used nor is it
\* still pending in the year before, if that row has not changed meanwhile.
NothingCarriedTwice ==
    [][OpenNewYear /\ row[year] = NoRow /\ yearEnd.previous = row[year - 1] =>
          LET e == row[year - 1]
              n == row'[year]
          IN  n.carried + n.encashed > 0 =>
                Covered([e EXCEPT !.used = @ + e.encashed + n.carried + n.encashed])]_vars
=============================================================================
