---------------------------- MODULE LeaveProofs ----------------------------
(***************************************************************************)
(* Leave, for any number of requests, callers, days and years.  The        *)
(* argument is about what a handler in flight has read: a decision read    *)
(* its request open, and a create call holds a request that does not exist *)
(* yet, with dates that are still free but for requests made at its side.  *)
(***************************************************************************)
EXTENDS Leave, TLAPS, FiniteSetTheorems

CreatePc == {"find", "make", "insert", "book"}
DecisionPc == {"tier", "managerApprove", "decide"}

\* What a handler that goes on as k relies on.
Fits(c, k) ==
    /\ k.op = "create" => /\ c \in Clients /\ k.req \in Requests
                          /\ k.dates \in Spans /\ k.pc \in CreatePc
                          /\ k.pc # "book" => request[k.req].status = "NONE"
    /\ k.pc \in {"insert", "book"} =>
          /\ k.op = "create"
          /\ k.req \in Unpooled \/ TotalDays(k.dates) <= Available(k.seen[k.year])
    /\ k.pc = "book" => k.req \notin Unpooled
    /\ k.pc \in DecisionPc => /\ k.req \in Requests /\ k.status \in Open
                              /\ request[k.req].status # "NONE"
    /\ k.pc = "decide" => k.op \in Settled
    /\ k.op = "create" /\ k.pc # "book" /\ overruled = {} =>
          \A q \in Overlapping(k.dates) : {k.req, q} \subseteq doubled

\* Create calls in flight at once are of different requests, and known to be.
SideBySide ==
    \A c, d \in Creating :
        c # d => call[c].req # call[d].req /\ {call[c].req, call[d].req} \subseteq doubled

CallsFit == (\A c \in Callers : Fits(c, call[c])) /\ SideBySide

\* A call that goes on as k creates only what it was creating.
GoesOn(c, k) == k.op = "create" /\ k.pc # "book" => c \in Creating /\ k.req = call[c].req

\* The inductive invariant.
LeaveInv ==
    /\ TypeOK
    /\ CallsFit
    /\ AwayOnce
    /\ yearEnd.pc = "due" => year > 1

-----------------------------------------------------------------------------
(* Values                                                                  *)

LEMMA SpansAreFinite ==
    ASSUME NEW dates \in Spans \cup {{}} PROVE TotalDays(dates) \in Nat
<1>1. IsFiniteSet(dates)
  <2>1. CASE dates = {}
    BY <2>1, FS_EmptySet
  <2>2. CASE dates \in Spans
    <3>1. PICK a \in 1..LastDay, b \in 1..LastDay : dates = a..b
        BY <2>2 DEF Spans
    <3> QED
        BY <3>1, FS_Interval, LeaveAssumption
  <2> QED
    BY <2>1, <2>2
<1> QED
    BY <1>1, FS_CardinalityType DEF TotalDays

LEMMA YearsAreNumbers == Years \subseteq Nat \ {0} /\ 1 \in Years
BY LeaveAssumption DEF Years

LEMMA NoRowIsRow == NoRow \in Row /\ NothingSeen \in [Years -> Row]
BY DEF NoRow, Row, NothingSeen

LEMMA NewRowIsRow ==
    ASSUME NEW method, NEW y \in Years PROVE NewRow(method, y) \in Row
<1>1. Allocation(method, y) \in Nat
    BY LeaveAssumption DEF Allocation
<1> QED
    BY <1>1, NoRowIsRow DEF NewRow, NoRow, Row

LEMMA IdleIsCall == Idle \in Call /\ Idle.op # "create" /\ \A c : Fits(c, Idle)
<1>1. Idle \in Call
    BY YearsAreNumbers, NoRowIsRow DEF Idle, Call, Pc, Status, Open, Settled, Method
<1> QED
    BY <1>1 DEF Idle, Fits, DecisionPc

LEMMA RefloorsToNat ==
    ASSUME NEW e \in Row, NEW method, NEW y \in Years
    PROVE  Refloored(e, method, y) \in Nat /\ e.used + e.pending <= Refloored(e, method, y)
<1>1. Allocation(method, y) \in Nat
    BY LeaveAssumption DEF Allocation
<1>2. e.used \in Nat /\ e.pending \in Int
    BY DEF Row
<1> QED
    BY <1>1, <1>2 DEF Refloored

LEMMA ReallocateKeepsRows ==
    ASSUME row \in [Years -> Row], NEW e \in Row, NEW method, NEW y \in Years, Reallocate(y, e, method)
    PROVE  row' \in [Years -> Row]
<1>1. Refloored(e, method, y) \in Nat
    BY RefloorsToNat
<1>2. CASE row' = row
    BY <1>2
<1>3. CASE row' = [row EXCEPT ![y].allocated = Refloored(e, method, y)]
    BY <1>1, <1>3 DEF Row
<1> QED
    BY <1>2, <1>3 DEF Reallocate

\* A call that ends leaves the others side by side as they were.
LEMMA EndedCreatesNothing ==
    ASSUME LeaveInv, NEW c \in Callers, Ends(c), doubled' = doubled
    PROVE  SideBySide'
<1>1. call' = [call EXCEPT ![c] = Idle] /\ call \in [Callers -> Call]
    BY DEF Ends, Goto, LeaveInv, TypeOK
<1>2. \A d \in Creating' : d \in Creating /\ call'[d] = call[d]
    BY <1>1, IdleIsCall DEF Creating, Callers
<1> QED
    BY <1>2 DEF LeaveInv, CallsFit, SideBySide

-----------------------------------------------------------------------------
(* Steps of a handler that leave the requests alone                        *)

LEMMA Moves ==
    ASSUME LeaveInv, NEW c \in Callers, NEW k \in Call, Fits(c, k), GoesOn(c, k),
           call' = [call EXCEPT ![c] = k], UNCHANGED <<request, overruled, doubled>>
    PROVE  call' \in [Callers -> Call] /\ CallsFit' /\ AwayOnce'
<1>1. call \in [Callers -> Call]
    BY DEF LeaveInv, TypeOK
<1>2. call' \in [Callers -> Call]
    BY <1>1
<1>3. \A d \in Callers : Fits(d, call'[d])
    BY <1>1 DEF LeaveInv, CallsFit
<1>4. SideBySide'
  <2>1. \A d \in Creating' : d \in Creating /\ call'[d].req = call[d].req
    BY <1>1 DEF Creating, GoesOn, Callers
  <2> QED
    BY <2>1 DEF LeaveInv, CallsFit, SideBySide
<1>5. CallsFit'
    BY <1>3, <1>4 DEF CallsFit, Fits, Overlapping
<1>6. AwayOnce'
    BY DEF LeaveInv, AwayOnce
<1> QED
    BY <1>2, <1>5, <1>6

LEMMA EndsKeeps ==
    ASSUME LeaveInv, NEW c \in Callers, Ends(c), UNCHANGED <<request, overruled, doubled>>
    PROVE  call' \in [Callers -> Call] /\ CallsFit' /\ AwayOnce'
BY Moves, IdleIsCall DEF Ends, Goto, GoesOn, Idle

\* The row found or made is what the call goes on with.
LEMMA ProceedKeeps ==
    ASSUME LeaveInv, NEW c \in Callers, NEW y \in Years, NEW e \in Row,
           call[c].pc \in {"find", "make"}, Proceed(c, y, e), UNCHANGED <<request, overruled, doubled>>
    PROVE  call' \in [Callers -> Call] /\ CallsFit' /\ AwayOnce'
<1> DEFINE k == [call[c] EXCEPT !.year = y, !.seen[y] = e]
           next == CASE k.op = "create" ->
                            IF k.req \in Unpooled \/ TotalDays(k.dates) <= Available(e)
                            THEN [k EXCEPT !.pc = "insert"] ELSE Idle
                     [] k.op = "adjust" -> [k EXCEPT !.pc = "adjust"]
                     [] OTHER -> Idle
<1>1. call[c] \in Call /\ Fits(c, call[c])
    BY DEF LeaveInv, TypeOK, CallsFit
<1>2. k \in Call /\ k.seen[y] = e /\ k.year = y /\ k.op = call[c].op /\ k.req = call[c].req
      /\ k.dates = call[c].dates
    BY <1>1 DEF Call
<1>3. CASE k.op = "create" /\ (k.req \in Unpooled \/ TotalDays(k.dates) <= Available(e))
  <2> DEFINE n == [k EXCEPT !.pc = "insert"]
  <2>1. n \in Call /\ n.pc = "insert" /\ n.op = "create" /\ n.req = k.req /\ n.dates = k.dates
        /\ n.seen = k.seen /\ n.year = k.year
    BY <1>2, <1>3 DEF Call, Pc
  <2>2. Fits(c, n)
    BY <1>1, <1>2, <1>3, <2>1 DEF Fits, CreatePc, DecisionPc
  <2>3. next = n
    BY <1>3
  <2>4. call' = [call EXCEPT ![c] = n]
    BY <2>3 DEF Proceed, Goto
  <2>5. GoesOn(c, n)
    BY <1>1, <1>2, <1>3, <2>1 DEF GoesOn, Creating, Fits
  <2> QED
    BY <2>1, <2>2, <2>4, <2>5, Moves
<1>4. CASE k.op = "adjust"
  <2> DEFINE n == [k EXCEPT !.pc = "adjust"]
  <2>1. n \in Call /\ n.pc = "adjust" /\ n.op = "adjust"
    BY <1>2, <1>4 DEF Call, Pc
  <2>2. Fits(c, n) /\ GoesOn(c, n)
    BY <2>1 DEF Fits, DecisionPc, GoesOn
  <2>3. call' = [call EXCEPT ![c] = n]
    BY <1>4 DEF Proceed, Goto
  <2> QED
    BY <2>1, <2>2, <2>3, Moves
<1>5. CASE next = Idle
    BY <1>5, Moves, IdleIsCall DEF Proceed, Goto, GoesOn, Idle
<1> QED
    BY <1>3, <1>4, <1>5

LEMMA FindRowKeeps ==
    ASSUME LeaveInv, NEW c \in Callers, FindRow(c)
    PROVE  LeaveInv'
<1>1. year \in Years /\ row[year] \in Row /\ call[c] \in Call /\ Fits(c, call[c])
    BY DEF LeaveInv, TypeOK, CallsFit
<1>2. CASE row[year] # NoRow
  <2>1. call' \in [Callers -> Call] /\ CallsFit' /\ AwayOnce'
    BY <1>1, <1>2, ProceedKeeps DEF FindRow, At, history
  <2>2. calls' = calls
    BY <1>2 DEF FindRow, Proceed, Goto
  <2> QED
    BY <2>1, <2>2 DEF FindRow, LeaveInv, TypeOK, history
<1>3. CASE row[year] = NoRow
  <2> DEFINE n == [call[c] EXCEPT !.pc = "make", !.year = year,
                        !.method = IF @ # "unread" THEN @ ELSE policy.method]
  <2>1. policy.method \in Method
    BY DEF LeaveInv, TypeOK
  <2>2. n \in Call /\ n.pc = "make" /\ n.op = call[c].op /\ n.req = call[c].req
        /\ n.dates = call[c].dates
    BY <1>1, <2>1 DEF Call, Pc
  <2>3. Fits(c, n) /\ GoesOn(c, n)
    BY <1>1, <2>2 DEF Fits, CreatePc, DecisionPc, FindRow, At, GoesOn, Creating
  <2>4. call' = [call EXCEPT ![c] = n]
    BY <1>3 DEF FindRow, Goto
  <2>5. call' \in [Callers -> Call] /\ CallsFit' /\ AwayOnce'
    BY <2>2, <2>3, <2>4, Moves DEF FindRow, history
  <2>6. calls' = calls
    BY <1>3 DEF FindRow, Goto
  <2> QED
    BY <2>5, <2>6 DEF FindRow, LeaveInv, TypeOK, history
<1> QED
    BY <1>2, <1>3

LEMMA MakeRowKeeps ==
    ASSUME LeaveInv, NEW c \in Callers, MakeRow(c)
    PROVE  LeaveInv'
<1> DEFINE y == call[c].year
           e == NewRow(call[c].method, y)
<1>1. y \in Years
    BY DEF LeaveInv, TypeOK, Call
<1>2. e \in Row
    BY <1>1, NewRowIsRow
<1>3. row' \in [Years -> Row]
    BY <1>1, <1>2 DEF MakeRow, LeaveInv, TypeOK
<1>4. call' \in [Callers -> Call] /\ CallsFit' /\ AwayOnce'
    BY <1>1, <1>2, ProceedKeeps, EndsKeeps DEF MakeRow, At, history
<1>5. calls' = calls
    BY DEF MakeRow, Proceed, Ends, Goto
<1> QED
    BY <1>3, <1>4, <1>5 DEF MakeRow, LeaveInv, TypeOK, history

\* A handler starts as k.
LEMMA StartsKeeps ==
    ASSUME LeaveInv, NEW c \in Callers, NEW k \in Call, Starts(c, k), Fits(c, k), k.op # "create",
           UNCHANGED <<year, row, request, yearEnd, history>>,
           policy' \in [method : Method, twoTier : BOOLEAN]
    PROVE  LeaveInv'
<1>1. call' \in [Callers -> Call] /\ CallsFit' /\ AwayOnce'
    BY Moves DEF Starts, history, GoesOn
<1>2. calls' \in Nat
    BY DEF Starts, LeaveInv, TypeOK
<1> QED
    BY <1>1, <1>2 DEF LeaveInv, TypeOK, history

\* A handler that is neither creating nor deciding relies on nothing.
LEMMA OthersFit ==
    ASSUME NEW c, NEW k, k.op # "create", k.pc \notin {"insert", "book"} \cup DecisionPc
    PROVE  Fits(c, k) /\ GoesOn(c, k)
BY DEF Fits, DecisionPc, GoesOn

LEMMA StartManagerApprovalKeeps ==
    ASSUME LeaveInv, NEW c \in Callers, StartManagerApproval(c)
    PROVE  LeaveInv'
<1>1. PICK r \in Requests :
          /\ request[r].status = "PENDING"
          /\ Starts(c, [Idle EXCEPT !.pc = "tier", !.req = r, !.status = "PENDING"])
    BY DEF StartManagerApproval
<1> DEFINE k == [Idle EXCEPT !.pc = "tier", !.req = r, !.status = "PENDING"]
<1>2. k \in Call /\ k.pc = "tier" /\ k.op = "lookup" /\ k.req = r /\ k.status = "PENDING"
    BY IdleIsCall DEF Call, Pc, Idle, Status, Open
<1>3. Fits(c, k)
    BY <1>1, <1>2 DEF Fits, Open
<1> QED
    BY <1>1, <1>2, <1>3, StartsKeeps DEF StartManagerApproval, LeaveInv, TypeOK

LEMMA CheckTierKeeps ==
    ASSUME LeaveInv, NEW c \in Callers, CheckTier(c)
    PROVE  LeaveInv'
<1> DEFINE k == [call[c] EXCEPT !.pc = "managerApprove"]
<1>1. call[c] \in Call /\ Fits(c, call[c]) /\ call[c].pc = "tier"
    BY DEF LeaveInv, TypeOK, CallsFit, CheckTier, At
<1>2. k \in Call /\ k.pc = "managerApprove" /\ k.op = call[c].op /\ k.req = call[c].req
      /\ k.status = call[c].status
    BY <1>1 DEF Call, Pc
<1>3. call[c].op # "create"
    BY <1>1 DEF Fits, CreatePc
<1>4. Fits(c, k) /\ GoesOn(c, k)
    BY <1>1, <1>2, <1>3 DEF Fits, DecisionPc, GoesOn
<1>5. call' \in [Callers -> Call] /\ CallsFit' /\ AwayOnce'
    BY <1>2, <1>4, Moves, EndsKeeps DEF CheckTier, Ends, Goto, history
<1> QED
    BY <1>5 DEF CheckTier, Goto, LeaveInv, TypeOK, history

LEMMA StartDecisionKeeps ==
    ASSUME LeaveInv, NEW c \in Callers, StartDecision(c)
    PROVE  LeaveInv'
<1>1. PICK r \in Requests, verdict \in Settled :
          /\ request[r].status # "NONE" /\ Decidable(request[r].status, verdict)
          /\ Starts(c, [Idle EXCEPT !.pc = "decide", !.op = verdict, !.req = r,
                                    !.status = request[r].status])
    BY DEF StartDecision
<1> DEFINE k == [Idle EXCEPT !.pc = "decide", !.op = verdict, !.req = r,
                             !.status = request[r].status]
<1>2. request[r].status \in Status
    BY DEF LeaveInv, TypeOK
<1>3. request[r].status \in Open
    BY <1>1, <1>2 DEF Decidable, Status, Settled, Open
<1>4. k \in Call /\ k.pc = "decide" /\ k.op = verdict /\ k.req = r /\ k.status \in Open
    BY <1>2, <1>3, IdleIsCall DEF Call, Pc, Idle
<1>5. Fits(c, k) /\ k.op # "create"
    BY <1>1, <1>4 DEF Fits, Settled
<1> QED
    BY <1>1, <1>4, <1>5, StartsKeeps DEF StartDecision, LeaveInv, TypeOK

LEMMA PlainStartsKeep ==
    ASSUME LeaveInv, NEW c \in Callers,
           Lookup(c) \/ Initialize(c) \/ Adjust(c) \/ StartRecompute(c) \/ UpdatePolicy(c)
    PROVE  LeaveInv'
<1>1. policy \in [method : Method, twoTier : BOOLEAN] /\ row \in [Years -> Row]
    BY DEF LeaveInv, TypeOK
<1>2. CASE Lookup(c)
  <2> DEFINE k == [Idle EXCEPT !.pc = "find", !.method = "unread"]
  <2>1. k \in Call /\ Fits(c, k) /\ k.op # "create"
    <3>1. k \in Call /\ k.op # "create" /\ k.pc \notin {"insert", "book"} \cup DecisionPc
        BY IdleIsCall DEF Call, Pc, Idle, DecisionPc
    <3> QED
        BY <3>1, OthersFit
  <2> QED
    BY <1>1, <1>2, <2>1, StartsKeeps DEF Lookup
<1>3. CASE Initialize(c)
  <2>1. PICK y \in Years :
            Starts(c, [Idle EXCEPT !.pc = "make", !.year = y, !.method = policy.method])
    BY <1>3 DEF Initialize
  <2> DEFINE k == [Idle EXCEPT !.pc = "make", !.year = y, !.method = policy.method]
  <2>2. k \in Call /\ Fits(c, k) /\ k.op # "create"
    <3>1. k \in Call /\ k.op # "create" /\ k.pc \notin {"insert", "book"} \cup DecisionPc
        BY <1>1, IdleIsCall DEF Call, Pc, Idle, DecisionPc
    <3> QED
        BY <3>1, OthersFit
  <2> QED
    BY <1>1, <1>3, <2>1, <2>2, StartsKeeps DEF Initialize
<1>4. CASE Adjust(c)
  <2> DEFINE k == [Idle EXCEPT !.pc = "find", !.op = "adjust", !.method = "unread"]
  <2>1. k \in Call /\ Fits(c, k) /\ k.op # "create"
    <3>1. k \in Call /\ k.op # "create" /\ k.pc \notin {"insert", "book"} \cup DecisionPc
        BY IdleIsCall DEF Call, Pc, Idle, DecisionPc
    <3> QED
        BY <3>1, OthersFit
  <2> QED
    BY <1>1, <1>4, <2>1, StartsKeeps DEF Adjust
<1>5. CASE StartRecompute(c)
  <2>1. PICK y \in Years :
            Starts(c, [Idle EXCEPT !.pc = "recompute", !.year = y,
                                   !.method = policy.method, !.seen[y] = row[y]])
    BY <1>5 DEF StartRecompute
  <2> DEFINE k == [Idle EXCEPT !.pc = "recompute", !.year = y,
                               !.method = policy.method, !.seen[y] = row[y]]
  <2>2. k \in Call /\ Fits(c, k) /\ k.op # "create"
    <3>1. k \in Call /\ k.op # "create" /\ k.pc \notin {"insert", "book"} \cup DecisionPc
        BY <1>1, IdleIsCall DEF Call, Pc, Idle, DecisionPc
    <3> QED
        BY <3>1, OthersFit
  <2> QED
    BY <1>1, <1>5, <2>1, <2>2, StartsKeeps DEF StartRecompute
<1>6. CASE UpdatePolicy(c)
  <2>1. PICK p \in Policies, apply \in BOOLEAN :
            /\ policy' = p
            /\ Starts(c, IF apply THEN [Idle EXCEPT !.pc = "collect", !.method = p.method] ELSE Idle)
    BY <1>6 DEF UpdatePolicy
  <2> DEFINE k == [Idle EXCEPT !.pc = "collect", !.method = p.method]
  <2>2. p \in [method : Method, twoTier : BOOLEAN]
    BY LeaveAssumption
  <2>3. k \in Call /\ Fits(c, k) /\ k.op # "create"
    <3>1. k \in Call /\ k.op # "create" /\ k.pc \notin {"insert", "book"} \cup DecisionPc
        BY <2>2, IdleIsCall DEF Call, Pc, Idle, DecisionPc
    <3> QED
        BY <3>1, OthersFit
  <2>4. policy' \in [method : Method, twoTier : BOOLEAN]
    BY <2>1, <2>2
  <2>5. UNCHANGED <<year, row, request, yearEnd, history>>
    BY <1>6 DEF UpdatePolicy
  <2>6. CASE apply
    BY <2>1, <2>3, <2>4, <2>5, <2>6, StartsKeeps
  <2>7. CASE ~apply
    BY <2>1, <2>4, <2>5, <2>7, IdleIsCall, StartsKeeps
  <2> QED
    BY <2>6, <2>7
<1> QED
    BY <1>2, <1>3, <1>4, <1>5, <1>6

-----------------------------------------------------------------------------
(* Steps that write a row                                                  *)

LEMMA WriteAdjustmentKeeps ==
    ASSUME LeaveInv, NEW c \in Callers, WriteAdjustment(c)
    PROVE  LeaveInv'
<1> DEFINE y == call[c].year
<1>1. y \in Years /\ row \in [Years -> Row]
    BY DEF LeaveInv, TypeOK, Call
<1>2. PICK sum \in -MaxAdjusted..MaxAdjusted : row' = [row EXCEPT ![y].adjusted = sum]
    BY DEF WriteAdjustment
<1>3. sum \in Int
    BY LeaveAssumption
<1>4. row' \in [Years -> Row]
    BY <1>1, <1>2, <1>3 DEF Row
<1>5. call' \in [Callers -> Call] /\ CallsFit' /\ AwayOnce'
    BY EndsKeeps DEF WriteAdjustment, history
<1> QED
    BY <1>4, <1>5 DEF WriteAdjustment, Ends, Goto, LeaveInv, TypeOK, history

LEMMA CollectRowsKeeps ==
    ASSUME LeaveInv, NEW c \in Callers, CollectRows(c)
    PROVE  LeaveInv'
<1> DEFINE seen == [y \in Years |-> IF y >= year THEN row[y] ELSE NoRow]
           k == [call[c] EXCEPT !.pc = "propagate", !.seen = seen]
<1>1. call[c] \in Call /\ Fits(c, call[c]) /\ call[c].pc = "collect"
    BY DEF LeaveInv, TypeOK, CallsFit, CollectRows, At
<1>2. seen \in [Years -> Row]
    BY NoRowIsRow DEF LeaveInv, TypeOK
<1>3. k \in Call /\ k.pc = "propagate" /\ k.op = call[c].op
    BY <1>1, <1>2 DEF Call, Pc
<1>4. Fits(c, k) /\ GoesOn(c, k)
    BY <1>1, <1>3 DEF Fits, CreatePc, DecisionPc, GoesOn
<1>5. CASE seen = NothingSeen
    BY <1>5, EndsKeeps DEF CollectRows, Ends, Goto, LeaveInv, TypeOK, history
<1>6. CASE call' = [call EXCEPT ![c] = k]
    BY <1>3, <1>4, <1>6, Moves DEF CollectRows, Goto, LeaveInv, TypeOK, history
<1> QED
    BY <1>5, <1>6 DEF CollectRows, Goto

LEMMA PropagateToKeeps ==
    ASSUME LeaveInv, NEW c \in Callers, NEW y \in Years, PropagateTo(c, y)
    PROVE  LeaveInv'
<1> DEFINE rest == [call[c].seen EXCEPT ![y] = NoRow]
           k == [call[c] EXCEPT !.seen = rest]
<1>1. call[c] \in Call /\ Fits(c, call[c]) /\ call[c].pc = "propagate"
    BY DEF LeaveInv, TypeOK, CallsFit, PropagateTo, At
<1>2. rest \in [Years -> Row] /\ call[c].seen[y] \in Row
    BY <1>1, NoRowIsRow DEF Call
<1>3. k \in Call /\ k.pc = "propagate" /\ k.op = call[c].op
    BY <1>1, <1>2 DEF Call
<1>4. Fits(c, k) /\ GoesOn(c, k)
    BY <1>1, <1>3 DEF Fits, CreatePc, DecisionPc, GoesOn
<1>5. row' \in [Years -> Row]
    BY <1>2, ReallocateKeepsRows DEF PropagateTo, LeaveInv, TypeOK
<1>6. CASE rest = NothingSeen
  <2>1. Ends(c)
    BY <1>6 DEF PropagateTo, Ends
  <2> QED
    BY <1>5, <2>1, EndsKeeps DEF PropagateTo, Ends, Goto, LeaveInv, TypeOK, history
<1>7. CASE Goto(c, k)
    BY <1>3, <1>4, <1>5, <1>7, Moves DEF PropagateTo, Goto, LeaveInv, TypeOK, history
<1> QED
    BY <1>6, <1>7 DEF PropagateTo

LEMMA RecomputeKeeps ==
    ASSUME LeaveInv, NEW c \in Callers, Recompute(c)
    PROVE  LeaveInv'
<1> DEFINE k == call[c]
           seen == k.seen[k.year]
<1>1. k \in Call /\ k.year \in Years /\ seen \in Row /\ row \in [Years -> Row]
    BY DEF LeaveInv, TypeOK, Call
<1>2. NewRow(k.method, k.year) \in Row
    BY <1>1, NewRowIsRow
<1>3. row' \in [Years -> Row]
  <2>1. CASE seen # NoRow
    BY <1>1, <2>1, ReallocateKeepsRows DEF Recompute
  <2>2. CASE seen = NoRow /\ row[k.year] = NoRow
    BY <1>1, <1>2, <2>2 DEF Recompute
  <2>3. CASE seen = NoRow /\ row[k.year] # NoRow
    BY <1>1, <2>3 DEF Recompute
  <2> QED
    BY <2>1, <2>2, <2>3
<1>4. call' \in [Callers -> Call] /\ CallsFit' /\ AwayOnce'
    BY EndsKeeps DEF Recompute, history
<1> QED
    BY <1>3, <1>4 DEF Recompute, Ends, Goto, LeaveInv, TypeOK, history

-----------------------------------------------------------------------------
(* Steps that write a request                                              *)

LEMMA RequestLeaveKeeps ==
    ASSUME LeaveInv, NEW c \in Callers, RequestLeave(c)
    PROVE  LeaveInv'
<1>1. PICK r \in Requests \ {call[d].req : d \in Creating}, dates \in Spans :
          /\ request[r].status = "NONE"
          /\ Overlapping(dates) = {}
          /\ Starts(c, [Idle EXCEPT !.pc = "find", !.op = "create", !.req = r,
                                    !.dates = dates, !.method = policy.method])
          /\ doubled' = IF Creating = {} THEN doubled
                        ELSE doubled \cup {r} \cup {call[d].req : d \in Creating}
    BY DEF RequestLeave
<1> DEFINE k == [Idle EXCEPT !.pc = "find", !.op = "create", !.req = r,
                             !.dates = dates, !.method = policy.method]
<1>2. /\ policy \in [method : Method, twoTier : BOOLEAN] /\ call \in [Callers -> Call]
      /\ doubled \subseteq Requests /\ calls \in Nat
    BY DEF LeaveInv, TypeOK
<1>3. k \in Call /\ k.pc = "find" /\ k.op = "create" /\ k.req = r /\ k.dates = dates
    BY <1>2, IdleIsCall DEF Call, Pc, Idle
<1>4. /\ call' = [call EXCEPT ![c] = k] /\ c \in Clients /\ call[c].pc = "idle"
      /\ UNCHANGED <<request, overruled>>
    BY <1>1 DEF RequestLeave, Starts, At
<1>5. \A d \in Callers : call'[d] = IF d = c THEN k ELSE call[d]
    BY <1>2, <1>4
<1>6. \A d \in Creating : call[d].req \in Requests /\ d # c
    BY <1>4 DEF LeaveInv, CallsFit, Fits, CreatePc, Creating, Callers
<1>7. doubled \subseteq doubled' /\ doubled' \subseteq Requests
    BY <1>1, <1>2, <1>6
<1>8. ASSUME NEW d \in Callers PROVE Fits(d, call[d])'
  <2>1. CASE d = c
    BY <1>1, <1>3, <1>4, <1>5, <2>1 DEF Fits, CreatePc, DecisionPc, Overlapping
  <2>2. CASE d # c
    BY <1>4, <1>5, <1>7, <2>2 DEF LeaveInv, CallsFit, Fits, Overlapping
  <2> QED
    BY <2>1, <2>2
<1>9. SideBySide'
  <2> HIDE DEF k
  <2>1. SUFFICES ASSUME NEW d \in Creating', NEW e \in Creating', d # e
                 PROVE  call'[d].req # call'[e].req /\ {call'[d].req, call'[e].req} \subseteq doubled'
    BY DEF SideBySide
  <2>2. \A q \in Creating' : q = c \/ (q \in Creating /\ call'[q] = call[q])
    BY <1>5 DEF Creating, Callers
  <2>3. call'[c].req = r
    BY <1>3, <1>4, <1>5 DEF Callers
  <2>4. \A q \in Creating : call[q].req # r /\ {r, call[q].req} \subseteq doubled'
    BY <1>1
  <2> QED
    BY <1>7, <2>1, <2>2, <2>3, <2>4 DEF LeaveInv, CallsFit, SideBySide
<1>10. AwayOnce'
    BY <1>4, <1>7 DEF LeaveInv, AwayOnce
<1>11. call' \in [Callers -> Call] /\ calls' \in Nat
    BY <1>1, <1>2, <1>3, <1>4 DEF Starts
<1> QED
    BY <1>7, <1>8, <1>9, <1>10, <1>11 DEF CallsFit, RequestLeave, LeaveInv, TypeOK

LEMMA InsertRequestKeeps ==
    ASSUME LeaveInv, NEW c \in Callers, InsertRequest(c)
    PROVE  LeaveInv'
<1> DEFINE k == call[c]
           n == IF k.req \in Unpooled THEN Idle ELSE [k EXCEPT !.pc = "book"]
<1>1. k \in Call /\ Fits(c, k) /\ k.pc = "insert" /\ k.op = "create" /\ k.req \in Requests
      /\ k.dates \in Spans /\ request[k.req].status = "NONE" /\ c \in Creating
    BY DEF LeaveInv, TypeOK, CallsFit, Fits, InsertRequest, At, Creating
<1>2. request \in [Requests -> [status : Status, dates : Spans \cup {{}}, booked : 0..LastYear]]
      /\ call \in [Callers -> Call]
    BY DEF LeaveInv, TypeOK
<1>3. request' = [request EXCEPT ![k.req] = [status |-> "PENDING", dates |-> k.dates, booked |-> 0]]
      /\ call' = [call EXCEPT ![c] = n] /\ UNCHANGED <<overruled, doubled>>
    BY DEF InsertRequest, Goto, history
<1>4. request' \in [Requests -> [status : Status, dates : Spans \cup {{}}, booked : 0..LastYear]]
  <2>1. 0 \in 0..LastYear
    BY LeaveAssumption
  <2> QED
    BY <1>1, <1>2, <1>3, <2>1 DEF Status, Open
<1>5. n \in Call /\ (n = Idle \/ (n.pc = "book" /\ n.op = "create" /\ n.req = k.req
                     /\ n.dates = k.dates /\ n.seen = k.seen /\ n.year = k.year /\ k.req \notin Unpooled))
    BY <1>1, IdleIsCall DEF Call, Pc
<1>6. Fits(c, call[c])'
  <2>1. call'[c] = n
    BY <1>2, <1>3
  <2>2. CASE n = Idle
    BY <2>1, <2>2 DEF Fits, Idle, DecisionPc
  <2>3. CASE n # Idle
    BY <1>1, <1>5, <2>1, <2>3 DEF Fits, CreatePc, DecisionPc
  <2> QED
    BY <2>2, <2>3
<1>7. \A d \in Callers : d # c => call'[d] = call[d] /\ Fits(d, call[d])
    BY <1>2, <1>3 DEF LeaveInv, CallsFit
<1>8. \A q \in Requests : q # k.req => request'[q] = request[q]
    BY <1>2, <1>3
<1>9. ASSUME NEW d \in Callers, d # c PROVE Fits(d, call[d])'
  <2>1. call[d].pc \in DecisionPc => request'[call[d].req].status # "NONE"
    BY <1>1, <1>2, <1>3, <1>7, <1>9 DEF Fits
  <2>2. ASSUME call[d].op = "create", call[d].pc # "book"
        PROVE  call[d].req \in Requests /\ call[d].req # k.req /\ {call[d].req, k.req} \subseteq doubled
    <3>1. d \in Creating /\ call[d].req \in Requests
        BY <1>7, <1>9, <2>2 DEF Fits, Creating
    <3> QED
        BY <1>1, <1>9, <3>1 DEF LeaveInv, CallsFit, SideBySide
  <2>3. Overlapping(call[d].dates)' \subseteq Overlapping(call[d].dates) \cup {k.req}
    BY <1>7, <1>8, <1>9 DEF Overlapping
  <2>4. call[d].op = "create" /\ call[d].pc # "book" => request'[call[d].req].status = "NONE"
    BY <1>7, <1>8, <1>9, <2>2 DEF Fits
  <2>5. call[d].op = "create" /\ call[d].pc # "book" /\ overruled = {} =>
            \A q \in Overlapping(call[d].dates)' : {call[d].req, q} \subseteq doubled
    BY <1>7, <1>9, <2>2, <2>3 DEF Fits
  <2> QED
    BY <1>3, <1>7, <1>9, <2>1, <2>4, <2>5 DEF Fits
<1>10. SideBySide'
  <2>1. n.op = "create" => n.pc = "book"
    BY <1>5, IdleIsCall
  <2>2. \A d \in Creating' : d \in Creating /\ d # c /\ call'[d] = call[d]
    BY <1>1, <1>2, <1>3, <1>7, <2>1 DEF Creating, Callers
  <2> QED
    BY <1>3, <2>2 DEF LeaveInv, CallsFit, SideBySide
<1>11. CallsFit'
    BY <1>6, <1>9, <1>10 DEF CallsFit
<1>12. AwayOnce'
  <2> SUFFICES ASSUME overruled = {}, NEW r \in Requests, NEW s \in Requests, r # s,
                      ~({r, s} \subseteq doubled),
                      request'[r].status \in Live, request'[s].status \in Live
               PROVE  request'[r].dates \cap request'[s].dates = {}
    BY <1>3 DEF AwayOnce, Live
  <2>1. ASSUME NEW q \in Requests, request[q].status \in Live, ~({k.req, q} \subseteq doubled)
        PROVE  request[q].dates \cap k.dates = {}
    BY <1>1, <2>1 DEF Fits, Overlapping
  <2>2. request'[k.req].dates = k.dates
    BY <1>1, <1>2, <1>3
  <2>3. CASE r = k.req
    BY <1>8, <2>1, <2>2, <2>3
  <2>4. CASE s = k.req
    BY <1>8, <2>1, <2>2, <2>4
  <2>5. CASE r # k.req /\ s # k.req
    BY <1>8, <2>5 DEF LeaveInv, AwayOnce, Live
  <2> QED
    BY <2>3, <2>4, <2>5
<1> QED
    BY <1>2, <1>3, <1>4, <1>5, <1>11, <1>12 DEF InsertRequest, Goto, LeaveInv, TypeOK, history

LEMMA BookDaysKeeps ==
    ASSUME LeaveInv, NEW c \in Callers, BookDays(c)
    PROVE  LeaveInv'
<1> DEFINE k == call[c]
<1>1. k \in Call /\ k.op = "create" /\ k.req \in Requests /\ k.dates \in Spans /\ k.year \in Years
    BY DEF LeaveInv, TypeOK, CallsFit, Fits, BookDays, At, Call
<1>2. request \in [Requests -> [status : Status, dates : Spans \cup {{}}, booked : 0..LastYear]]
      /\ call \in [Callers -> Call] /\ row \in [Years -> Row]
    BY DEF LeaveInv, TypeOK
<1>3. request' = [request EXCEPT ![k.req].booked = k.year] /\ call' = [call EXCEPT ![c] = Idle]
      /\ row' = [row EXCEPT ![k.year].pending = @ + TotalDays(k.dates)] /\ UNCHANGED <<overruled, doubled>>
    BY DEF BookDays, Ends, Goto, history
<1>4. k.year \in 0..LastYear
    BY <1>1, LeaveAssumption DEF Years
<1>5. request' \in [Requests -> [status : Status, dates : Spans \cup {{}}, booked : 0..LastYear]]
    BY <1>1, <1>2, <1>3, <1>4
<1>6. \A r \in Requests : request'[r].status = request[r].status /\ request'[r].dates = request[r].dates
    BY <1>1, <1>2, <1>3
<1>7. row' \in [Years -> Row]
  <2> DEFINE pending == row[k.year].pending + TotalDays(k.dates)
  <2>1. row[k.year] \in Row /\ TotalDays(k.dates) \in Nat
    BY <1>1, <1>2, SpansAreFinite
  <2>2. pending \in Int
    BY <2>1 DEF Row
  <2>3. [row[k.year] EXCEPT !.pending = pending] \in Row
    BY <2>1, <2>2 DEF Row
  <2>4. row' = [row EXCEPT ![k.year] = [row[k.year] EXCEPT !.pending = pending]]
    BY <1>3
  <2> HIDE DEF pending
  <2> QED
    BY <1>1, <1>2, <2>3, <2>4
<1>8. CallsFit'
  <2>1. Fits(c, Idle)'
    BY DEF Fits, Idle, DecisionPc
  <2>2. ASSUME NEW d \in Callers, d # c PROVE Fits(d, call[d])'
    <3>1. call'[d] = call[d] /\ Fits(d, call[d])
        BY <1>2, <1>3, <2>2 DEF LeaveInv, CallsFit
    <3> QED
        BY <1>3, <1>6, <3>1 DEF Fits, Overlapping
  <2>3. SideBySide'
    BY <1>3, EndedCreatesNothing DEF BookDays
  <2> QED
    BY <1>2, <1>3, <2>1, <2>2, <2>3 DEF CallsFit
<1>9. AwayOnce'
    BY <1>3, <1>6 DEF LeaveInv, AwayOnce
<1> QED
    BY <1>2, <1>3, <1>5, <1>7, <1>8, <1>9, IdleIsCall DEF BookDays, Ends, Goto, LeaveInv, TypeOK, history

\* A handler ends with a status written over an existing request.
LEMMA WriteStatusKeeps ==
    ASSUME LeaveInv, NEW c \in Callers, NEW r \in Requests, NEW status \in Open \cup Settled,
           request[r].status # "NONE", WriteStatus(r, status), Ends(c), doubled' = doubled,
           call[c].op # "create"
    PROVE  /\ request' \in [Requests -> [status : Status, dates : Spans \cup {{}}, booked : 0..LastYear]]
           /\ call' \in [Callers -> Call]
           /\ overruled' \subseteq Requests
           /\ CallsFit' /\ AwayOnce'
<1>1. request \in [Requests -> [status : Status, dates : Spans \cup {{}}, booked : 0..LastYear]]
      /\ call \in [Callers -> Call] /\ overruled \subseteq Requests
    BY DEF LeaveInv, TypeOK
<1>2. request' = [request EXCEPT ![r].status = status] /\ call' = [call EXCEPT ![c] = Idle]
    BY DEF WriteStatus, Ends, Goto
<1>3. request' \in [Requests -> [status : Status, dates : Spans \cup {{}}, booked : 0..LastYear]]
    BY <1>1, <1>2 DEF Status
<1>4. \A q \in Requests : /\ request'[q].dates = request[q].dates
                          /\ request'[q].status = IF q = r THEN status ELSE request[q].status
    BY <1>1, <1>2
<1>5. overruled' \subseteq Requests
    BY <1>1 DEF WriteStatus
<1>6. overruled' = {} => overruled = {} /\ request[r].status \in Open
    BY <1>1 DEF WriteStatus, Status
<1>7. overruled' = {} => \A q \in Requests : request'[q].status \in Live => request[q].status \in Live
    BY <1>4, <1>6 DEF Live
<1>8. CallsFit'
  <2>1. Fits(c, Idle)'
    BY DEF Fits, Idle, DecisionPc
  <2>2. ASSUME NEW d \in Callers, d # c PROVE Fits(d, call[d])'
    <3>1. call'[d] = call[d] /\ Fits(d, call[d])
        BY <1>1, <1>2, <2>2 DEF LeaveInv, CallsFit
    <3>2. call[d].pc \in DecisionPc => request'[call[d].req].status # "NONE"
        BY <1>4, <3>1 DEF Fits, Open, Settled
    <3>3. call[d].op = "create" /\ call[d].pc # "book" => request'[call[d].req].status = "NONE"
        BY <1>4, <3>1 DEF Fits
    <3>4. overruled' = {} => Overlapping(call[d].dates)' \subseteq Overlapping(call[d].dates)
        BY <1>4, <1>7, <3>1 DEF Overlapping
    <3> QED
        BY <1>6, <3>1, <3>2, <3>3, <3>4 DEF Fits
  <2>3. SideBySide'
    BY EndedCreatesNothing
  <2> QED
    BY <1>1, <1>2, <2>1, <2>2, <2>3 DEF CallsFit
<1>9. AwayOnce'
  <2> SUFFICES ASSUME overruled' = {}, NEW p \in Requests, NEW q \in Requests, p # q,
                      ~({p, q} \subseteq doubled),
                      request'[p].status \in Live, request'[q].status \in Live
               PROVE  request'[p].dates \cap request'[q].dates = {}
    BY DEF AwayOnce, Live
  <2>1. overruled = {} /\ request[p].status \in Live /\ request[q].status \in Live
    BY <1>6, <1>7
  <2> QED
    BY <1>4, <2>1 DEF LeaveInv, AwayOnce, Live
<1> QED
    BY <1>1, <1>2, <1>3, <1>5, <1>8, <1>9, IdleIsCall

LEMMA ManagerApproveKeeps ==
    ASSUME LeaveInv, NEW c \in Callers, ManagerApprove(c)
    PROVE  LeaveInv'
<1>1. /\ call[c].req \in Requests /\ request[call[c].req].status # "NONE"
      /\ call[c].op # "create"
    BY DEF LeaveInv, CallsFit, Fits, ManagerApprove, At, DecisionPc, CreatePc
<1>2. "MANAGER_APPROVED" \in Open \cup Settled
    BY DEF Open
<1>3. WriteStatus(call[c].req, "MANAGER_APPROVED") /\ Ends(c)
    BY DEF ManagerApprove
<1>4. drifted' \subseteq 0..LastYear
  <2>1. request[call[c].req].booked \in 0..LastYear
    BY <1>1 DEF LeaveInv, TypeOK
  <2> QED
    BY <2>1 DEF ManagerApprove, LeaveInv, TypeOK
<1> QED
    BY <1>1, <1>2, <1>3, <1>4, WriteStatusKeeps DEF ManagerApprove, Ends, Goto, LeaveInv, TypeOK

LEMMA DecideKeeps ==
    ASSUME LeaveInv, NEW c \in Callers, Decide(c)
    PROVE  LeaveInv'
<1> DEFINE r == call[c].req
           verdict == call[c].op
           posted == Posted(row[year], verdict, Days(r))
<1>1. /\ r \in Requests /\ request[r].status # "NONE" /\ verdict \in Settled
      /\ call[c].op # "create"
    BY DEF LeaveInv, CallsFit, Fits, Decide, At, DecisionPc, CreatePc
<1>2. WriteStatus(r, verdict) /\ Ends(c) /\ doubled' = doubled
    BY DEF Decide
<1>3. year \in Years /\ row \in [Years -> Row] /\ row[year] \in Row
    BY DEF LeaveInv, TypeOK
<1>4. Days(r) \in Nat
  <2>1. request[r].dates \in Spans \cup {{}}
    BY <1>1 DEF LeaveInv, TypeOK
  <2> QED
    BY <2>1, SpansAreFinite DEF Days
<1>5. posted \in Row
  <2> DEFINE p == row[year].pending - Days(r)
             u == IF verdict = "APPROVED" THEN row[year].used + Days(r) ELSE row[year].used
  <2>1. p \in Int /\ u \in Nat
    BY <1>3, <1>4 DEF Row
  <2>2. posted = [row[year] EXCEPT !.pending = p, !.used = u]
    BY <1>3 DEF Posted, Row
  <2> HIDE DEF p, u
  <2>3. [row[year] EXCEPT !.pending = p, !.used = u] \in Row
    BY <1>3, <2>1 DEF Row
  <2> QED
    BY <2>2, <2>3
<1>6. row' \in [Years -> Row]
  <2>1. row' = row \/ row' = [row EXCEPT ![year] = posted]
    BY DEF Decide
  <2> HIDE DEF posted
  <2> QED
    BY <1>3, <1>5, <2>1
<1>7. drifted' \subseteq 0..LastYear
  <2>1. request[r].booked \in 0..LastYear /\ year \in 0..LastYear
    BY <1>1, <1>3, LeaveAssumption DEF LeaveInv, TypeOK, Years
  <2> QED
    BY <2>1 DEF Decide, LeaveInv, TypeOK
<1>8. /\ request' \in [Requests -> [status : Status, dates : Spans \cup {{}}, booked : 0..LastYear]]
      /\ call' \in [Callers -> Call]
      /\ overruled' \subseteq Requests
      /\ CallsFit' /\ AwayOnce'
    BY <1>1, <1>2, WriteStatusKeeps
<1> QED
    BY <1>6, <1>7, <1>8 DEF Decide, Ends, Goto, LeaveInv, TypeOK

-----------------------------------------------------------------------------
(* Jobs and failures                                                       *)

\* A step of the calendar or a job disturbs only the years and the rows.
LEMMA JobKeeps ==
    ASSUME LeaveInv, UNCHANGED <<policy, request, call, calls, history>>,
           year' \in Years, row' \in [Years -> Row],
           yearEnd' \in [pc : {"idle", "due", "create", "done"}, method : Method, previous : Row],
           yearEnd'.pc = "due" => year' > 1
    PROVE  LeaveInv'
<1>1. CallsFit'
    BY DEF LeaveInv, CallsFit, Fits, Overlapping, SideBySide, Creating, history
<1>2. AwayOnce'
    BY DEF LeaveInv, AwayOnce, history
<1> QED
    BY <1>1, <1>2 DEF LeaveInv, TypeOK, history

LEMMA NoJobIsJob ==
    ASSUME NEW pc \in {"idle", "due", "create", "done"}
    PROVE  NoJob(pc) \in [pc : {"idle", "due", "create", "done"}, method : Method, previous : Row]
BY NoRowIsRow DEF NoJob, Method

LEMMA NewYearKeeps ==
    ASSUME LeaveInv, NewYear
    PROVE  LeaveInv'
<1>1. year' \in Years /\ year' > 1
    BY LeaveAssumption DEF NewYear, LeaveInv, TypeOK, Years
<1> QED
    BY <1>1, JobKeeps DEF NewYear, LeaveInv, TypeOK

LEMMA ReadRowsKeeps ==
    ASSUME LeaveInv, ReadRows
    PROVE  LeaveInv'
<1>1. year - 1 \in Years
    BY LeaveAssumption DEF ReadRows, LeaveInv, TypeOK, Years
<1>2. /\ yearEnd' \in [pc : {"idle", "due", "create", "done"}, method : Method, previous : Row]
      /\ yearEnd'.pc # "due"
  <2>1. CASE row[year] # NoRow
    BY <2>1, NoJobIsJob DEF ReadRows, NoJob
  <2>2. CASE row[year] = NoRow
    BY <1>1, <2>2 DEF ReadRows, LeaveInv, TypeOK
  <2> QED
    BY <2>1, <2>2
<1> QED
    BY <1>2, JobKeeps DEF ReadRows, LeaveInv, TypeOK

LEMMA UnusedIsNat ==
    ASSUME NEW e \in Row
    PROVE  Unused(e) \in Nat /\ CarriedOver(e) \in Nat /\ Encashed(e) \in Nat
<1>1. Unused(e) \in Nat
    BY DEF Unused, Available, Row
<1> QED
    BY <1>1, LeaveAssumption DEF CarriedOver, Encashed

LEMMA OpenNewYearKeeps ==
    ASSUME LeaveInv, OpenNewYear
    PROVE  LeaveInv'
<1> DEFINE e == [NewRow(yearEnd.method, year) EXCEPT !.carried = CarriedOver(yearEnd.previous),
                                                    !.encashed = Encashed(yearEnd.previous)]
<1>1. year \in Years /\ row \in [Years -> Row] /\ yearEnd.previous \in Row
    BY DEF LeaveInv, TypeOK
<1>2. e \in Row
    BY <1>1, NewRowIsRow, UnusedIsNat DEF Row
<1>3. row' = row \/ row' = [row EXCEPT ![year] = e]
    BY DEF OpenNewYear
<1> HIDE DEF e
<1>4. row' \in [Years -> Row]
    BY <1>1, <1>2, <1>3
<1> QED
    BY <1>4, JobKeeps, NoJobIsJob DEF OpenNewYear, NoJob, LeaveInv, TypeOK

LEMMA AccrueKeeps ==
    ASSUME LeaveInv, Accrue
    PROVE  LeaveInv'
<1> DEFINE n == IF row[year].accrued + PerPeriod < MaxAccrued
                THEN row[year].accrued + PerPeriod ELSE MaxAccrued
<1>1. year \in Years /\ row \in [Years -> Row] /\ row[year] \in Row
    BY DEF LeaveInv, TypeOK
<1>2. n \in Nat
    BY <1>1, LeaveAssumption DEF Row
<1>3. row' = [row EXCEPT ![year].accrued = n]
    BY DEF Accrue
<1> HIDE DEF n
<1>4. row' \in [Years -> Row]
    BY <1>1, <1>2, <1>3 DEF Row
<1> QED
    BY <1>4, JobKeeps DEF Accrue, LeaveInv, TypeOK

LEMMA ExpireCarryoverKeeps ==
    ASSUME LeaveInv, ExpireCarryover
    PROVE  LeaveInv'
<1>1. PICK y \in Years :
          row' = [row EXCEPT ![y].carried = 0,
                             ![y].encashed = IF CarryoverType = "ENCASHMENT"
                                             THEN @ + row[y].carried ELSE @]
    BY DEF ExpireCarryover
<1> DEFINE e == [row[y] EXCEPT !.carried = 0,
                               !.encashed = IF CarryoverType = "ENCASHMENT"
                                            THEN @ + row[y].carried ELSE @]
<1>2. row \in [Years -> Row] /\ row[y] \in Row
    BY DEF LeaveInv, TypeOK
<1>3. e \in Row
  <2> DEFINE n == IF CarryoverType = "ENCASHMENT" THEN row[y].encashed + row[y].carried
                  ELSE row[y].encashed
  <2>1. n \in Nat
    BY <1>2 DEF Row
  <2>2. e = [row[y] EXCEPT !.carried = 0, !.encashed = n]
    BY <1>2 DEF Row
  <2> HIDE DEF n
  <2>3. [row[y] EXCEPT !.carried = 0, !.encashed = n] \in Row
    BY <1>2, <2>1 DEF Row
  <2> QED
    BY <2>2, <2>3
<1>4. row' = [row EXCEPT ![y] = e]
    BY <1>1, <1>2
<1> HIDE DEF e
<1>5. row' \in [Years -> Row]
    BY <1>2, <1>3, <1>4
<1> QED
    BY <1>5, JobKeeps DEF ExpireCarryover, LeaveInv, TypeOK

LEMMA FailKeeps ==
    ASSUME LeaveInv, NEW c \in Callers, Fail(c)
    PROVE  LeaveInv'
<1>1. call' \in [Callers -> Call] /\ CallsFit' /\ AwayOnce'
    BY EndsKeeps DEF Fail
<1>2. At(c, "book") => call[c].req \in Requests
    BY DEF At, LeaveInv, CallsFit, Fits
<1>3. unbooked' \subseteq Requests
    BY <1>2 DEF Fail, LeaveInv, TypeOK
<1> QED
    BY <1>1, <1>3 DEF Fail, Ends, Goto, LeaveInv, TypeOK

LEMMA CrashKeeps ==
    ASSUME LeaveInv, Crash
    PROVE  LeaveInv'
<1>1. call' \in [Callers -> Call]
    BY IdleIsCall DEF Crash
<1>2. CallsFit'
  <2>1. ASSUME NEW c \in Callers PROVE Fits(c, Idle)'
    BY DEF Fits, Idle, DecisionPc
  <2>2. SideBySide'
    BY IdleIsCall DEF Crash, SideBySide, Creating, Callers
  <2> QED
    BY <2>1, <2>2 DEF Crash, CallsFit
<1>3. AwayOnce'
    BY DEF Crash, LeaveInv, AwayOnce, history
<1>4. yearEnd' \in [pc : {"idle", "due", "create", "done"}, method : Method, previous : Row]
    BY NoJobIsJob DEF Crash, LeaveInv, TypeOK
<1>5. yearEnd'.pc # "due"
    BY DEF Crash, NoJob
<1>6. unbooked' \subseteq Requests
  <2>1. Booking \subseteq Requests
    BY DEF Booking, At, LeaveInv, CallsFit, Fits
  <2> QED
    BY <2>1 DEF Crash, LeaveInv, TypeOK
<1> QED
    BY <1>1, <1>2, <1>3, <1>4, <1>5, <1>6 DEF Crash, LeaveInv, TypeOK

-----------------------------------------------------------------------------
(* The theorems                                                            *)

LEMMA LeaveInvInit == Init => LeaveInv
<1> SUFFICES ASSUME Init PROVE LeaveInv
    OBVIOUS
<1>1. TypeOK
  <2>1. 0 \in 0..LastYear
    BY LeaveAssumption
  <2> QED
    BY <2>1, YearsAreNumbers, NoRowIsRow, NoJobIsJob, IdleIsCall DEF Init, TypeOK, Method, Status
<1>2. CallsFit
    BY IdleIsCall DEF Init, CallsFit, SideBySide, Creating, Callers
<1>3. AwayOnce
    BY DEF Init, AwayOnce, Live, Open
<1> QED
    BY <1>1, <1>2, <1>3 DEF Init, LeaveInv, NoJob

LEMMA LeaveInvStep == LeaveInv /\ [Next]_vars => LeaveInv'
<1> SUFFICES ASSUME LeaveInv, [Next]_vars PROVE LeaveInv'
    OBVIOUS
<1>1. ASSUME NEW c \in Callers, Handler(c) PROVE LeaveInv'
    BY <1>1, FindRowKeeps, MakeRowKeeps, PlainStartsKeep, WriteAdjustmentKeeps,
       RequestLeaveKeeps, InsertRequestKeeps, BookDaysKeeps,
       StartManagerApprovalKeeps, CheckTierKeeps, ManagerApproveKeeps,
       StartDecisionKeeps, DecideKeeps, CollectRowsKeeps, PropagateToKeeps,
       RecomputeKeeps, FailKeeps DEF Handler
<1>2. CASE NewYear \/ ReadRows \/ OpenNewYear \/ Accrue \/ ExpireCarryover \/ Crash
    BY <1>2, NewYearKeeps, ReadRowsKeeps, OpenNewYearKeeps, AccrueKeeps,
       ExpireCarryoverKeeps, CrashKeeps
<1>3. CASE UNCHANGED vars
    BY <1>3 DEF vars, history, LeaveInv, TypeOK, CallsFit, Fits, Overlapping,
                SideBySide, Creating, AwayOnce
<1> QED
    BY <1>1, <1>2, <1>3 DEF Next

\* Every reachable state satisfies the inductive invariant.
THEOREM LeaveInvariant == Spec => []LeaveInv
BY LeaveInvInit, LeaveInvStep, PTL DEF Spec

\* Every variable keeps its type: in particular used, accrued and carried days
\* never become negative.
THEOREM LeaveTypeCorrect == Spec => []TypeOK
<1>1. LeaveInv => TypeOK
    BY DEF LeaveInv
<1> QED
    BY <1>1, LeaveInvariant, PTL

\* Live requests overlap only if the calls that made them ran side by side, or a
\* stale decision revived one.
THEOREM NeverAwayTwice == Spec => []AwayOnce
<1>1. LeaveInv => AwayOnce
    BY DEF LeaveInv
<1> QED
    BY <1>1, LeaveInvariant, PTL

-----------------------------------------------------------------------------
(* The days on the ledger                                                  *)

\* A row that was made is never unmade; who adjusts it or books on it knows it.
RowsMade ==
    /\ \A y \in Years : row[y] # NoRow => row[y].allocated # -1
    /\ \A c \in Callers : call[c].pc \in {"adjust", "insert", "book"} => row[call[c].year].allocated # -1

\* A booked request exists and is booked on a row that was made.
BookedFits ==
    \A r \in Requests : request[r].booked # 0 =>
        /\ request[r].status # "NONE" /\ r \notin Unpooled
        /\ row[request[r].booked].allocated # -1

\* A call about to book finds its request as it inserted it, but for decisions.
BookersFit ==
    /\ \A c \in Callers : At(c, "book") =>
          LET r == call[c].req
          IN  /\ request[r].status # "NONE" /\ request[r].booked = 0
              /\ request[r].dates = call[c].dates
    /\ \A c, d \in Callers : c # d /\ At(c, "book") /\ At(d, "book") => call[c].req # call[d].req

Balanced(y) ==
    /\ IsFiniteSet(Bookings(Open, y)) /\ row[y].pending = DaysOf(Open, y)
    /\ IsFiniteSet(Bookings({"APPROVED"}, y)) /\ row[y].used = DaysOf({"APPROVED"}, y)

\* Whatever draws on a pool and is not booked has its booking before it, or lost.
NoneForgotten ==
    \A r \in Requests \ Unpooled :
        request[r].status # "NONE" /\ request[r].booked = 0 => r \in Booking \cup unbooked

LedgerInv ==
    /\ RowsMade
    /\ BookedFits
    /\ BookersFit
    /\ NoneForgotten
    /\ \A y \in Years \ drifted : Balanced(y)

-----------------------------------------------------------------------------
(* Bookings as sets                                                        *)

\* The days of one request, as bookings.
BookingsOf(r) == {r} \X request[r].dates

LEMMA BookingsOfCount ==
    ASSUME LeaveInv, NEW r \in Requests
    PROVE  /\ IsFiniteSet(BookingsOf(r)) /\ Cardinality(BookingsOf(r)) = Days(r) /\ Days(r) \in Nat
           /\ BookingsOf(r) \subseteq Requests \X (1..LastDay)
<1> DEFINE dates == request[r].dates
<1>1. dates \in Spans \cup {{}}
    BY DEF LeaveInv, TypeOK
<1>2. IsFiniteSet(dates) /\ dates \subseteq 1..LastDay
  <2>1. CASE dates = {}
    BY <2>1, FS_EmptySet
  <2>2. CASE dates \in Spans
    <3>1. PICK a \in 1..LastDay, b \in 1..LastDay : dates = a..b
        BY <2>2 DEF Spans
    <3>2. dates \subseteq 1..LastDay
        BY <3>1, LeaveAssumption
    <3> QED
        BY <3>1, <3>2, FS_Interval, LeaveAssumption
  <2> QED
    BY <1>1, <2>1, <2>2
<1>3. Days(r) = Cardinality(dates) /\ Days(r) \in Nat
    BY <1>2, FS_CardinalityType DEF Days, TotalDays
<1>4. /\ IsFiniteSet({r} \X dates)
      /\ Cardinality({r} \X dates) = Cardinality({r}) * Cardinality(dates)
      /\ Cardinality({r}) = 1
    BY <1>2, FS_Singleton, FS_Product
<1> HIDE DEF dates
<1>5. Cardinality({r} \X dates) = Days(r)
    BY <1>3, <1>4
<1>6. BookingsOf(r) = {r} \X dates
    BY DEF BookingsOf, dates
<1> QED
    BY <1>2, <1>3, <1>4, <1>5, <1>6

\* Adding to a set what it does not hold, and taking out what it does.
LEMMA AddedCount ==
    ASSUME NEW S, NEW T, IsFiniteSet(S), IsFiniteSet(T), S \cap T = {}
    PROVE  IsFiniteSet(S \cup T) /\ Cardinality(S \cup T) = Cardinality(S) + Cardinality(T)
<1>1. Cardinality(S) \in Nat /\ Cardinality(T) \in Nat /\ Cardinality(S \cap T) = 0
    BY FS_EmptySet, FS_CardinalityType
<1>2. /\ IsFiniteSet(S \cup T)
      /\ Cardinality(S \cup T) = Cardinality(S) + Cardinality(T) - Cardinality(S \cap T)
    BY FS_Union
<1> QED
    BY <1>1, <1>2

LEMMA RemovedCount ==
    ASSUME NEW S, NEW T, IsFiniteSet(S), T \subseteq S
    PROVE  IsFiniteSet(S \ T) /\ Cardinality(S \ T) = Cardinality(S) - Cardinality(T)
<1>1. S \cap T = T
    OBVIOUS
<1> QED
    BY <1>1, FS_Difference

\* Bookings of a year depend on each request's status, year and dates alone.
LEMMA SameBookings ==
    ASSUME NEW statuses, NEW y,
           \A r \in Requests :
              /\ request'[r].status \in statuses /\ request'[r].booked = y
                    <=> request[r].status \in statuses /\ request[r].booked = y
              /\ request'[r].status \in statuses /\ request'[r].booked = y
                    => request'[r].dates = request[r].dates
    PROVE  Bookings(statuses, y)' = Bookings(statuses, y) /\ DaysOf(statuses, y)' = DaysOf(statuses, y)
<1>1. Bookings(statuses, y)' = Bookings(statuses, y)
    BY DEF Bookings
<1> QED
    BY <1>1 DEF DaysOf

\* A request enters, or leaves, the requests counted.
LEMMA EnteringBookings ==
    ASSUME LeaveInv', NEW statuses, NEW y, NEW r \in Requests,
           \A q \in Requests : q # r => request'[q] = request[q],
           ~(request[r].status \in statuses /\ request[r].booked = y),
           request'[r].status \in statuses, request'[r].booked = y,
           request'[r].dates = request[r].dates, LeaveInv,
           IsFiniteSet(Bookings(statuses, y))
    PROVE  IsFiniteSet(Bookings(statuses, y)') /\ DaysOf(statuses, y)' = DaysOf(statuses, y) + Days(r)
<1>1. /\ IsFiniteSet(BookingsOf(r)) /\ Cardinality(BookingsOf(r)) = Days(r)
      /\ BookingsOf(r) \subseteq Requests \X (1..LastDay)
    BY BookingsOfCount
<1>2. Bookings(statuses, y)' = Bookings(statuses, y) \cup BookingsOf(r)
    BY <1>1 DEF Bookings, BookingsOf
<1>3. Bookings(statuses, y) \cap BookingsOf(r) = {}
    BY DEF Bookings, BookingsOf
<1>4. /\ IsFiniteSet(Bookings(statuses, y) \cup BookingsOf(r))
      /\ Cardinality(Bookings(statuses, y) \cup BookingsOf(r))
            = Cardinality(Bookings(statuses, y)) + Cardinality(BookingsOf(r))
    BY <1>1, <1>3, AddedCount
<1> QED
    BY <1>1, <1>2, <1>4 DEF DaysOf

LEMMA LeavingBookings ==
    ASSUME LeaveInv, NEW statuses, NEW y, NEW r \in Requests,
           \A q \in Requests : q # r => request'[q] = request[q],
           request[r].status \in statuses, request[r].booked = y,
           ~(request'[r].status \in statuses /\ request'[r].booked = y),
           IsFiniteSet(Bookings(statuses, y))
    PROVE  IsFiniteSet(Bookings(statuses, y)') /\ DaysOf(statuses, y)' = DaysOf(statuses, y) - Days(r)
<1>1. Cardinality(BookingsOf(r)) = Days(r) /\ BookingsOf(r) \subseteq Requests \X (1..LastDay)
    BY BookingsOfCount
<1>2. Bookings(statuses, y)' = Bookings(statuses, y) \ BookingsOf(r)
    BY DEF Bookings, BookingsOf
<1>3. BookingsOf(r) \subseteq Bookings(statuses, y)
    BY <1>1 DEF Bookings, BookingsOf
<1>4. /\ IsFiniteSet(Bookings(statuses, y) \ BookingsOf(r))
      /\ Cardinality(Bookings(statuses, y) \ BookingsOf(r))
            = Cardinality(Bookings(statuses, y)) - Cardinality(BookingsOf(r))
    BY <1>3, RemovedCount
<1> QED
    BY <1>1, <1>2, <1>4 DEF DaysOf

-----------------------------------------------------------------------------
(* Steps that leave the requests and the days on the rows alone            *)

LEMMA LedgerKept ==
    ASSUME LeaveInv, LeaveInv', LedgerInv, request' = request, drifted' = drifted,
           unbooked \subseteq unbooked',
           \A c \in Callers : call[c].pc = "book" => call'[c] = call[c] \/ call[c].req \in unbooked',
           \A y \in Years : /\ row'[y].pending = row[y].pending /\ row'[y].used = row[y].used
                            /\ row'[y] = row[y] \/ row'[y].allocated # -1,
           \A c \in Callers : call'[c].pc \in {"adjust", "insert"} => row'[call'[c].year].allocated # -1,
           \A c \in Callers : call'[c].pc = "book" => call'[c] = call[c]
    PROVE  LedgerInv'
<1>1. RowsMade'
  <2>1. ASSUME NEW y \in Years, row'[y] # NoRow PROVE row'[y].allocated # -1
    BY <2>1 DEF LedgerInv, RowsMade
  <2>2. ASSUME NEW c \in Callers, call'[c].pc = "book" PROVE row'[call'[c].year].allocated # -1
    <3>1. call'[c].year \in Years
        BY DEF LeaveInv, TypeOK, Call
    <3> QED
        BY <2>2, <3>1 DEF LedgerInv, RowsMade
  <2> QED
    BY <2>1, <2>2 DEF RowsMade
<1>2. BookedFits'
  <2> SUFFICES ASSUME NEW r \in Requests, request[r].booked # 0
               PROVE  request[r].status # "NONE" /\ r \notin Unpooled
                      /\ row'[request[r].booked].allocated # -1
    BY DEF BookedFits
  <2>1. request[r].booked \in Years
    BY LeaveAssumption DEF LeaveInv, TypeOK, Years
  <2> QED
    BY <2>1 DEF LedgerInv, BookedFits
<1>3. BookersFit'
    BY DEF LedgerInv, BookersFit, At
<1>4. ASSUME NEW y \in Years \ drifted' PROVE Balanced(y)'
  <2>1. Balanced(y)
    BY <1>4 DEF LedgerInv
  <2>2. /\ Bookings(Open, y)' = Bookings(Open, y) /\ DaysOf(Open, y)' = DaysOf(Open, y)
        /\ Bookings({"APPROVED"}, y)' = Bookings({"APPROVED"}, y)
        /\ DaysOf({"APPROVED"}, y)' = DaysOf({"APPROVED"}, y)
    BY SameBookings
  <2> QED
    BY <2>1, <2>2 DEF Balanced
<1>5. NoneForgotten'
  <2>1. \A r \in Booking \cup unbooked : r \in Booking' \cup unbooked'
    BY DEF Booking, At
  <2> QED
    BY <2>1 DEF LedgerInv, NoneForgotten
<1> QED
    BY <1>1, <1>2, <1>3, <1>4, <1>5 DEF LedgerInv

\* The same, for a handler c that goes on as k.
LEMMA LedgerGoesOn ==
    ASSUME LeaveInv, LeaveInv', LedgerInv, NEW c \in Callers, NEW k,
           call' = [call EXCEPT ![c] = k], k.pc # "book", call[c].pc # "book",
           k.pc \in {"adjust", "insert"} => k.year \in Years /\ row'[k.year].allocated # -1,
           UNCHANGED <<request, history>>,
           \A y \in Years : /\ row'[y].pending = row[y].pending /\ row'[y].used = row[y].used
                            /\ row'[y] = row[y] \/ row'[y].allocated # -1
    PROVE  LedgerInv'
<1>1. /\ drifted' = drifted /\ unbooked' = unbooked
      /\ \A d \in Callers : call[d].pc = "book" => call'[d] = call[d]
    BY DEF history, LeaveInv, TypeOK
<1>2. \A d \in Callers : call'[d] = IF d = c THEN k ELSE call[d]
    BY DEF LeaveInv, TypeOK
<1>3. ASSUME NEW d \in Callers, call'[d].pc \in {"adjust", "insert"}
      PROVE  row'[call'[d].year].allocated # -1
  <2>1. CASE d = c
    BY <1>2, <1>3, <2>1
  <2>2. CASE d # c
    <3>1. call'[d] = call[d] /\ call[d].year \in Years
        BY <1>2, <2>2 DEF LeaveInv, TypeOK, Call
    <3> QED
        BY <1>3, <3>1 DEF LedgerInv, RowsMade
  <2> QED
    BY <2>1, <2>2
<1>4. \A d \in Callers : call'[d].pc = "book" => call'[d] = call[d]
    BY <1>2
<1> QED
    BY <1>1, <1>3, <1>4, LedgerKept DEF history

LEMMA LedgerEnds ==
    ASSUME LeaveInv, LeaveInv', LedgerInv, NEW c \in Callers, call[c].pc # "book",
           Ends(c), UNCHANGED <<request, history>>,
           \A y \in Years : /\ row'[y].pending = row[y].pending /\ row'[y].used = row[y].used
                            /\ row'[y] = row[y] \/ row'[y].allocated # -1
    PROVE  LedgerInv'
<1>1. call' = [call EXCEPT ![c] = Idle] /\ Idle.pc = "idle"
    BY DEF Ends, Goto, Idle
<1> QED
    BY <1>1, LedgerGoesOn

\* A row that is made holds no days yet, and is not the absent row.
LEMMA NewRowHoldsNothing ==
    ASSUME NEW method, NEW y \in Years
    PROVE  LET e == NewRow(method, y)
           IN  e.pending = 0 /\ e.used = 0 /\ e.allocated \in Nat /\ e # NoRow
<1>1. Allocation(method, y) \in Nat
    BY LeaveAssumption DEF Allocation
<1>2. NewRow(method, y).pending = 0 /\ NewRow(method, y).used = 0
      /\ NewRow(method, y).allocated = Allocation(method, y)
    BY DEF NewRow, NoRow
<1> QED
    BY <1>1, <1>2 DEF NoRow

LEMMA TouchedRow ==
    ASSUME LeaveInv, NEW y \in Years, NEW e, row' = [row EXCEPT ![y] = e],
           e.pending = row[y].pending, e.used = row[y].used, e.allocated # -1
    PROVE  \A z \in Years : /\ row'[z].pending = row[z].pending /\ row'[z].used = row[z].used
                            /\ row'[z] = row[z] \/ row'[z].allocated # -1
<1>1. \A z \in Years : row'[z] = IF z = y THEN e ELSE row[z]
    BY DEF LeaveInv, TypeOK
<1> QED
    BY <1>1

\* With the row at hand, a call goes on to a step that relies on the row.
LEMMA ProceedLedger ==
    ASSUME LeaveInv, LeaveInv', LedgerInv, NEW c \in Callers, NEW y \in Years, NEW e,
           Proceed(c, y, e), call[c].pc # "book",
           UNCHANGED <<request, history>>, row'[y].allocated # -1,
           \A z \in Years : /\ row'[z].pending = row[z].pending /\ row'[z].used = row[z].used
                            /\ row'[z] = row[z] \/ row'[z].allocated # -1
    PROVE  LedgerInv'
<1>1. call[c] \in Call
    BY DEF LeaveInv, TypeOK
<1>2. PICK k : k = [call[c] EXCEPT !.year = y, !.seen[y] = e]
    OBVIOUS
<1>3. PICK n : n = CASE k.op = "create" ->
                            IF k.req \in Unpooled \/ TotalDays(k.dates) <= Available(e)
                            THEN [k EXCEPT !.pc = "insert"] ELSE Idle
                     [] k.op = "adjust" -> [k EXCEPT !.pc = "adjust"]
                     [] OTHER -> Idle
    OBVIOUS
<1>4. call' = [call EXCEPT ![c] = n]
    BY <1>2, <1>3 DEF Proceed, Goto
<1>5. n = Idle \/ n = [k EXCEPT !.pc = "insert"] \/ n = [k EXCEPT !.pc = "adjust"]
    BY <1>3
<1>6. n.pc # "book" /\ (n.pc \in {"adjust", "insert"} => n.year = y)
  <2>1. CASE n = Idle
    BY <2>1 DEF Idle
  <2>2. CASE n = [k EXCEPT !.pc = "insert"]
    BY <1>1, <1>2, <2>2 DEF Call
  <2>3. CASE n = [k EXCEPT !.pc = "adjust"]
    BY <1>1, <1>2, <2>3 DEF Call
  <2> QED
    BY <1>5, <2>1, <2>2, <2>3
<1> QED
    BY <1>4, <1>6, LedgerGoesOn

LEMMA FindRowLedger ==
    ASSUME LeaveInv, LeaveInv', LedgerInv, NEW c \in Callers, FindRow(c) PROVE LedgerInv'
<1>1. year \in Years /\ call[c] \in Call /\ row' = row /\ UNCHANGED <<request, history>>
      /\ call[c].pc # "book"
    BY DEF FindRow, At, LeaveInv, TypeOK
<1>2. CASE row[year] # NoRow
  <2>1. Proceed(c, year, row[year]) /\ row'[year].allocated # -1
    BY <1>1, <1>2 DEF FindRow, LedgerInv, RowsMade
  <2> QED
    BY <1>1, <2>1, ProceedLedger
<1>3. CASE row[year] = NoRow
  <2>1. PICK k : k = [call[c] EXCEPT !.pc = "make", !.year = year,
                                     !.method = IF @ # "unread" THEN @ ELSE policy.method]
    OBVIOUS
  <2>2. k.pc = "make" /\ call' = [call EXCEPT ![c] = k]
    BY <1>1, <1>3, <2>1 DEF FindRow, Goto, Call
  <2> QED
    BY <1>1, <2>2, LedgerGoesOn
<1> QED
    BY <1>2, <1>3

LEMMA MakeRowLedger ==
    ASSUME LeaveInv, LeaveInv', LedgerInv, NEW c \in Callers, MakeRow(c) PROVE LedgerInv'
<1> DEFINE y == call[c].year
           e == NewRow(call[c].method, y)
<1>1. y \in Years /\ UNCHANGED <<request, history>> /\ row \in [Years -> Row]
      /\ call[c].pc # "book"
    BY DEF MakeRow, At, LeaveInv, TypeOK, Call
<1>2. e.pending = 0 /\ e.used = 0 /\ e.allocated \in Nat
    BY <1>1, NewRowHoldsNothing
<1>3. CASE row[y] = NoRow
  <2>1. row' = [row EXCEPT ![y] = e] /\ Proceed(c, y, e)
    BY <1>3 DEF MakeRow
  <2>2. row'[y].allocated # -1
    BY <1>1, <1>2, <2>1
  <2>3. \A z \in Years : /\ row'[z].pending = row[z].pending /\ row'[z].used = row[z].used
                         /\ row'[z] = row[z] \/ row'[z].allocated # -1
    <3>1. row[y].pending = 0 /\ row[y].used = 0
        BY <1>3 DEF NoRow
    <3> HIDE DEF e
    <3> QED
        BY <1>1, <1>2, <2>1, <3>1, TouchedRow
  <2> HIDE DEF e
  <2> QED
    BY <1>1, <2>1, <2>2, <2>3, ProceedLedger
<1>4. CASE row[y] # NoRow
    BY <1>1, <1>4, LedgerEnds DEF MakeRow
<1> QED
    BY <1>3, <1>4

\* A handler that starts writes nothing.
LEMMA StartsLedger ==
    ASSUME LeaveInv, LeaveInv', LedgerInv, NEW c \in Callers,
           \/ Lookup(c) \/ Initialize(c) \/ Adjust(c) \/ RequestLeave(c) \/ StartManagerApproval(c)
           \/ CheckTier(c) \/ StartDecision(c) \/ UpdatePolicy(c) \/ CollectRows(c) \/ StartRecompute(c)
    PROVE  LedgerInv'
<1>1. /\ row' = row /\ request' = request /\ unbooked' = unbooked /\ drifted' = drifted
      /\ call[c].pc # "book"
    BY DEF Lookup, Initialize, Adjust, RequestLeave, StartManagerApproval, CheckTier, StartDecision,
           UpdatePolicy, CollectRows, StartRecompute, history, Starts, At
<1>2. PICK k : call' = [call EXCEPT ![c] = k] /\ k.pc \notin {"book", "adjust", "insert"}
  <2>1. CASE Lookup(c)
    <3>1. Starts(c, [Idle EXCEPT !.pc = "find", !.method = "unread"])
        BY <2>1 DEF Lookup
    <3>2. PICK k : k = [Idle EXCEPT !.pc = "find", !.method = "unread"]
        OBVIOUS
    <3>3. k.pc = "find"
        BY <3>2 DEF Idle
    <3> QED
        BY <3>1, <3>2, <3>3 DEF Starts
  <2>2. CASE Adjust(c)
    <3>1. Starts(c, [Idle EXCEPT !.pc = "find", !.op = "adjust", !.method = "unread"])
        BY <2>2 DEF Adjust
    <3>2. PICK k : k = [Idle EXCEPT !.pc = "find", !.op = "adjust", !.method = "unread"]
        OBVIOUS
    <3>3. k.pc = "find"
        BY <3>2 DEF Idle
    <3> QED
        BY <3>1, <3>2, <3>3 DEF Starts
  <2>3. CASE Initialize(c)
    <3>1. PICK y \in Years : Starts(c, [Idle EXCEPT !.pc = "make", !.year = y, !.method = policy.method])
        BY <2>3 DEF Initialize
    <3>2. PICK k : k = [Idle EXCEPT !.pc = "make", !.year = y, !.method = policy.method]
        OBVIOUS
    <3>3. k.pc = "make"
        BY <3>2 DEF Idle
    <3> QED
        BY <3>1, <3>2, <3>3 DEF Starts
  <2>4. CASE RequestLeave(c)
    <3>1. PICK r \in Requests, dates \in Spans : Starts(c, [Idle EXCEPT !.pc = "find", !.op = "create", !.req = r,
                                    !.dates = dates, !.method = policy.method])
        BY <2>4 DEF RequestLeave
    <3>2. PICK k : k = [Idle EXCEPT !.pc = "find", !.op = "create", !.req = r,
                                    !.dates = dates, !.method = policy.method]
        OBVIOUS
    <3>3. k.pc = "find"
        BY <3>2 DEF Idle
    <3> QED
        BY <3>1, <3>2, <3>3 DEF Starts
  <2>5. CASE StartManagerApproval(c)
    <3>1. PICK r \in Requests : Starts(c, [Idle EXCEPT !.pc = "tier", !.req = r, !.status = "PENDING"])
        BY <2>5 DEF StartManagerApproval
    <3>2. PICK k : k = [Idle EXCEPT !.pc = "tier", !.req = r, !.status = "PENDING"]
        OBVIOUS
    <3>3. k.pc = "tier"
        BY <3>2 DEF Idle
    <3> QED
        BY <3>1, <3>2, <3>3 DEF Starts
  <2>6. CASE StartDecision(c)
    <3>1. PICK r \in Requests, verdict \in Settled : Starts(c, [Idle EXCEPT !.pc = "decide", !.op = verdict, !.req = r,
                                    !.status = request[r].status])
        BY <2>6 DEF StartDecision
    <3>2. PICK k : k = [Idle EXCEPT !.pc = "decide", !.op = verdict, !.req = r,
                                    !.status = request[r].status]
        OBVIOUS
    <3>3. k.pc = "decide"
        BY <3>2 DEF Idle
    <3> QED
        BY <3>1, <3>2, <3>3 DEF Starts
  <2>7. CASE StartRecompute(c)
    <3>1. PICK y \in Years : Starts(c, [Idle EXCEPT !.pc = "recompute", !.year = y,
                                    !.method = policy.method, !.seen[y] = row[y]])
        BY <2>7 DEF StartRecompute
    <3>2. PICK k : k = [Idle EXCEPT !.pc = "recompute", !.year = y,
                                    !.method = policy.method, !.seen[y] = row[y]]
        OBVIOUS
    <3>3. k.pc = "recompute"
        BY <3>2 DEF Idle
    <3> QED
        BY <3>1, <3>2, <3>3 DEF Starts
  <2>8. CASE UpdatePolicy(c)
    <3>1. PICK p \in Policies, apply \in BOOLEAN :
              Starts(c, IF apply THEN [Idle EXCEPT !.pc = "collect", !.method = p.method] ELSE Idle)
        BY <2>8 DEF UpdatePolicy
    <3>2. PICK k : k = IF apply THEN [Idle EXCEPT !.pc = "collect", !.method = p.method] ELSE Idle
        OBVIOUS
    <3>3. k.pc \in {"collect", "idle"}
        BY <3>2 DEF Idle
    <3> QED
        BY <3>1, <3>2, <3>3 DEF Starts
  <2>9. CASE CheckTier(c)
    <3>1. call[c] \in Call
        BY DEF LeaveInv, TypeOK
    <3>2. [call[c] EXCEPT !.pc = "managerApprove"].pc = "managerApprove" /\ Idle.pc = "idle"
        BY <3>1 DEF Call, Idle
    <3> QED
        BY <2>9, <3>2 DEF CheckTier, Goto
  <2>10. CASE CollectRows(c)
    <3>1. call[c] \in Call
        BY DEF LeaveInv, TypeOK
    <3>2. PICK seen : call' = [call EXCEPT ![c] = IF seen = NothingSeen THEN Idle
                                     ELSE [call[c] EXCEPT !.pc = "propagate", !.seen = seen]]
        BY <2>10 DEF CollectRows, Goto
    <3>3. [call[c] EXCEPT !.pc = "propagate", !.seen = seen].pc = "propagate" /\ Idle.pc = "idle"
        BY <3>1 DEF Call, Idle
    <3> QED
        BY <3>2, <3>3
  <2> QED
    BY <2>1, <2>2, <2>3, <2>4, <2>5, <2>6, <2>7, <2>8, <2>9, <2>10
<1>3. \A d \in Callers : call'[d] = IF d = c THEN k ELSE call[d]
    BY <1>2 DEF LeaveInv, TypeOK
<1>4. \A d \in Callers : call'[d].pc \in {"adjust", "insert"} => row'[call'[d].year].allocated # -1
    BY <1>1, <1>2, <1>3 DEF LedgerInv, RowsMade
<1>5. \A d \in Callers : call'[d].pc = "book" \/ call[d].pc = "book" => call'[d] = call[d]
    BY <1>1, <1>2, <1>3
<1> QED
    BY <1>1, <1>4, <1>5, LedgerKept

-----------------------------------------------------------------------------
(* Steps that write a row, but none of its booked days                     *)

LEMMA WriteAdjustmentLedger ==
    ASSUME LeaveInv, LeaveInv', LedgerInv, NEW c \in Callers, WriteAdjustment(c) PROVE LedgerInv'
<1>1. call[c].year \in Years /\ row[call[c].year] \in Row
      /\ row[call[c].year].allocated # -1 /\ call[c].pc # "book"
    BY DEF WriteAdjustment, At, LeaveInv, TypeOK, Call, LedgerInv, RowsMade
<1>2. PICK sum : row' = [row EXCEPT ![call[c].year].adjusted = sum]
    BY DEF WriteAdjustment
<1>3. PICK e : e = [row[call[c].year] EXCEPT !.adjusted = sum]
    OBVIOUS
<1>4. /\ e.pending = row[call[c].year].pending /\ e.used = row[call[c].year].used
      /\ e.allocated # -1
    BY <1>1, <1>3 DEF Row
<1>5. row' = [row EXCEPT ![call[c].year] = e]
    BY <1>2, <1>3
<1> QED
    BY <1>1, <1>4, <1>5, TouchedRow, LedgerEnds DEF WriteAdjustment

LEMMA ReallocateLedger ==
    ASSUME LeaveInv, LedgerInv, NEW y \in Years, NEW seen \in Row, NEW method,
           Reallocate(y, seen, method)
    PROVE  \A z \in Years : /\ row'[z].pending = row[z].pending /\ row'[z].used = row[z].used
                            /\ row'[z] = row[z] \/ row'[z].allocated # -1
<1>1. CASE row' = row
    BY <1>1
<1>2. CASE row' # row
  <2>1. PICK days \in Nat : row' = [row EXCEPT ![y].allocated = days]
    BY <1>2, RefloorsToNat DEF Reallocate
  <2>2. PICK e : e = [row[y] EXCEPT !.allocated = days]
    OBVIOUS
  <2>3. row[y] \in Row
    BY DEF LeaveInv, TypeOK
  <2>4. e.pending = row[y].pending /\ e.used = row[y].used /\ e.allocated # -1
    BY <2>1, <2>2, <2>3 DEF Row
  <2>5. row' = [row EXCEPT ![y] = e]
    BY <2>1, <2>2
  <2> QED
    BY <2>4, <2>5, TouchedRow
<1> QED
    BY <1>1, <1>2

LEMMA PropagateToLedger ==
    ASSUME LeaveInv, LeaveInv', LedgerInv, NEW c \in Callers, NEW y \in Years, PropagateTo(c, y)
    PROVE  LedgerInv'
<1>1. call[c] \in Call /\ call[c].pc = "propagate" /\ call[c].seen[y] \in Row
    BY DEF PropagateTo, At, LeaveInv, TypeOK, Call
<1>2. \A z \in Years : /\ row'[z].pending = row[z].pending /\ row'[z].used = row[z].used
                       /\ row'[z] = row[z] \/ row'[z].allocated # -1
    BY <1>1, ReallocateLedger DEF PropagateTo
<1>3. PICK k : k = IF [call[c].seen EXCEPT ![y] = NoRow] = NothingSeen THEN Idle
                   ELSE [call[c] EXCEPT !.seen = [call[c].seen EXCEPT ![y] = NoRow]]
    OBVIOUS
<1>4. call' = [call EXCEPT ![c] = k]
    BY <1>3 DEF PropagateTo, Goto
<1>5. k.pc \in {"propagate", "idle"}
  <2>1. CASE k = Idle
    BY <2>1 DEF Idle
  <2>2. CASE k = [call[c] EXCEPT !.seen = [call[c].seen EXCEPT ![y] = NoRow]]
    BY <1>1, <2>2 DEF Call
  <2> QED
    BY <1>3, <2>1, <2>2
<1> QED
    BY <1>1, <1>2, <1>4, <1>5, LedgerGoesOn DEF PropagateTo

LEMMA RecomputeLedger ==
    ASSUME LeaveInv, LeaveInv', LedgerInv, NEW c \in Callers, Recompute(c) PROVE LedgerInv'
<1> DEFINE k == call[c]
           seen == k.seen[k.year]
           e == NewRow(k.method, k.year)
<1>1. k.year \in Years /\ seen \in Row /\ k.pc # "book"
    BY DEF LeaveInv, TypeOK, Call, Recompute, At
<1>2. \A z \in Years : /\ row'[z].pending = row[z].pending /\ row'[z].used = row[z].used
                       /\ row'[z] = row[z] \/ row'[z].allocated # -1
  <2>1. CASE seen # NoRow
    BY <1>1, <2>1, ReallocateLedger DEF Recompute
  <2>2. CASE seen = NoRow /\ row[k.year] = NoRow
    <3>1. row' = [row EXCEPT ![k.year] = e]
        BY <2>2 DEF Recompute
    <3>2. e.pending = 0 /\ e.used = 0 /\ e.allocated \in Nat
        BY <1>1, NewRowHoldsNothing
    <3>3. row[k.year].pending = 0 /\ row[k.year].used = 0
        BY <2>2 DEF NoRow
    <3> HIDE DEF e
    <3> QED
        BY <1>1, <3>1, <3>2, <3>3, TouchedRow
  <2>3. CASE seen = NoRow /\ row[k.year] # NoRow
    BY <2>3 DEF Recompute
  <2> QED
    BY <2>1, <2>2, <2>3
<1> QED
    BY <1>1, <1>2, LedgerEnds DEF Recompute

\* A job or the calendar leaves the calls and the requests alone.
LEMMA JobLedger ==
    ASSUME LeaveInv, LeaveInv', LedgerInv, UNCHANGED <<request, call, history>>,
           \A y \in Years : /\ row'[y].pending = row[y].pending /\ row'[y].used = row[y].used
                            /\ row'[y] = row[y] \/ row'[y].allocated # -1
    PROVE  LedgerInv'
<1>1. \A c \in Callers : call[c].pc \in {"adjust", "insert"} => row'[call[c].year].allocated # -1
  <2>1. \A c \in Callers : call[c].year \in Years
    BY DEF LeaveInv, TypeOK, Call
  <2> QED
    BY <2>1 DEF LedgerInv, RowsMade
<1> QED
    BY <1>1, LedgerKept DEF history

LEMMA OpenNewYearLedger ==
    ASSUME LeaveInv, LeaveInv', LedgerInv, OpenNewYear PROVE LedgerInv'
<1> DEFINE n == NewRow(yearEnd.method, year)
<1>1. year \in Years /\ n \in Row
    BY NewRowIsRow DEF LeaveInv, TypeOK
<1>2. n.pending = 0 /\ n.used = 0 /\ n.allocated \in Nat
    BY <1>1, NewRowHoldsNothing
<1>3. PICK e : e = [n EXCEPT !.carried = CarriedOver(yearEnd.previous),
                             !.encashed = Encashed(yearEnd.previous)]
    OBVIOUS
<1>4. row' = row \/ (row[year] = NoRow /\ row' = [row EXCEPT ![year] = e])
    BY <1>3 DEF OpenNewYear
<1> HIDE DEF n
<1>5. e.pending = 0 /\ e.used = 0 /\ e.allocated # -1
    BY <1>1, <1>2, <1>3 DEF Row
<1>6. CASE row' = row
    BY <1>6, JobLedger DEF OpenNewYear
<1>7. CASE row[year] = NoRow /\ row' = [row EXCEPT ![year] = e]
  <2>1. row[year].pending = 0 /\ row[year].used = 0
    BY <1>7 DEF NoRow
  <2> QED
    BY <1>1, <1>5, <1>7, <2>1, TouchedRow, JobLedger DEF OpenNewYear
<1> QED
    BY <1>4, <1>6, <1>7

LEMMA AccrueLedger ==
    ASSUME LeaveInv, LeaveInv', LedgerInv, Accrue PROVE LedgerInv'
<1>1. year \in Years /\ row[year] \in Row /\ row[year].allocated # -1
    BY DEF Accrue, LeaveInv, TypeOK, LedgerInv, RowsMade
<1>2. PICK days : row' = [row EXCEPT ![year].accrued = days]
    BY DEF Accrue
<1>3. PICK e : e = [row[year] EXCEPT !.accrued = days]
    OBVIOUS
<1>4. e.pending = row[year].pending /\ e.used = row[year].used /\ e.allocated # -1
    BY <1>1, <1>3 DEF Row
<1>5. row' = [row EXCEPT ![year] = e]
    BY <1>2, <1>3
<1> QED
    BY <1>1, <1>4, <1>5, TouchedRow, JobLedger DEF Accrue

LEMMA ExpireCarryoverLedger ==
    ASSUME LeaveInv, LeaveInv', LedgerInv, ExpireCarryover PROVE LedgerInv'
<1>1. PICK y \in Years :
          /\ row[y].carried > 0
          /\ row' = [row EXCEPT ![y].carried = 0,
                                ![y].encashed = IF CarryoverType = "ENCASHMENT"
                                                THEN @ + row[y].carried ELSE @]
    BY DEF ExpireCarryover
<1>2. row[y] \in Row /\ row[y].allocated # -1
  <2>1. row[y] # NoRow
    BY <1>1 DEF NoRow
  <2> QED
    BY <2>1 DEF LeaveInv, TypeOK, LedgerInv, RowsMade
<1>3. PICK e : e = [row[y] EXCEPT !.carried = 0,
                                  !.encashed = IF CarryoverType = "ENCASHMENT"
                                               THEN @ + row[y].carried ELSE @]
    OBVIOUS
<1>4. e.pending = row[y].pending /\ e.used = row[y].used /\ e.allocated # -1
    BY <1>2, <1>3 DEF Row
<1>5. row' = [row EXCEPT ![y] = e]
    BY <1>1, <1>3 DEF LeaveInv, TypeOK
<1> QED
    BY <1>4, <1>5, TouchedRow, JobLedger DEF ExpireCarryover

LEMMA FailuresLedger ==
    ASSUME LeaveInv, LeaveInv', LedgerInv, NewYear \/ ReadRows \/ Crash \/ \E c \in Callers : Fail(c)
    PROVE  LedgerInv'
<1>1. CASE NewYear \/ ReadRows
    BY <1>1, JobLedger DEF NewYear, ReadRows
<1>2. CASE Crash
  <2>1. \A c \in Callers : call'[c].pc = "idle"
    BY <1>2 DEF Crash, Idle
  <2>2. row' = row /\ request' = request /\ drifted' = drifted /\ unbooked' = unbooked \cup Booking
    BY <1>2 DEF Crash
  <2>3. \A c \in Callers : call[c].pc = "book" => call[c].req \in unbooked'
    BY <2>2 DEF Booking, At
  <2> QED
    BY <2>1, <2>2, <2>3, LedgerKept
<1>3. ASSUME NEW c \in Callers, Fail(c) PROVE LedgerInv'
  <2>1. /\ row' = row /\ request' = request /\ drifted' = drifted
        /\ unbooked \subseteq unbooked'
        /\ call[c].pc = "book" => call[c].req \in unbooked'
    BY <1>3 DEF Fail, At
  <2>2. Idle.pc = "idle" /\ \A d \in Callers : call'[d] = IF d = c THEN Idle ELSE call[d]
    BY <1>3 DEF Fail, Ends, Goto, Idle, LeaveInv, TypeOK
  <2>3. \A d \in Callers : call'[d].pc \in {"adjust", "insert"} => row'[call'[d].year].allocated # -1
    BY <2>1, <2>2 DEF LedgerInv, RowsMade
  <2>4. /\ \A d \in Callers : call'[d].pc = "book" => call'[d] = call[d]
        /\ \A d \in Callers : call[d].pc = "book" => call'[d] = call[d] \/ call[d].req \in unbooked'
    BY <2>1, <2>2
  <2> QED
    BY <2>1, <2>3, <2>4, LedgerKept
<1> QED
    BY <1>1, <1>2, <1>3

-----------------------------------------------------------------------------
(* Steps that write a request, or the days booked for it                   *)

LEMMA InsertRequestLedger ==
    ASSUME LeaveInv, LeaveInv', LedgerInv, NEW c \in Callers, InsertRequest(c) PROVE LedgerInv'
<1> DEFINE k == call[c]
           r == k.req
<1>1. /\ k \in Call /\ k.pc = "insert" /\ r \in Requests /\ request[r].status = "NONE"
      /\ request \in [Requests -> [status : Status, dates : Spans \cup {{}}, booked : 0..LastYear]]
      /\ call \in [Callers -> Call]
    BY DEF InsertRequest, At, LeaveInv, TypeOK, CallsFit, Fits
<1>2. PICK n : n = IF r \in Unpooled THEN Idle ELSE [k EXCEPT !.pc = "book"]
    OBVIOUS
<1>3. /\ row' = row /\ drifted' = drifted /\ unbooked' = unbooked /\ call' = [call EXCEPT ![c] = n]
      /\ request' = [request EXCEPT ![r] = [status |-> "PENDING", dates |-> k.dates, booked |-> 0]]
    BY <1>2 DEF InsertRequest, Goto, history
<1>4. n.pc = "idle" \/ (n.pc = "book" /\ n.req = r /\ n.dates = k.dates /\ n.year = k.year)
    BY <1>1, <1>2 DEF Idle, Call
<1>5. /\ \A d \in Callers : call'[d] = IF d = c THEN n ELSE call[d]
      /\ \A q \in Requests : q # r => request'[q] = request[q]
      /\ request'[r].status = "PENDING" /\ request'[r].dates = k.dates /\ request'[r].booked = 0
    BY <1>1, <1>3
<1>6. RowsMade'
    BY <1>1, <1>3, <1>4, <1>5 DEF LedgerInv, RowsMade
<1>7. BookedFits'
    BY <1>3, <1>5 DEF LedgerInv, BookedFits
<1>8. \A d \in Callers : d # c /\ At(d, "book") => call[d].req # r /\ call[d].req \in Requests
  <2>1. \A d \in Callers : At(d, "book") => request[call[d].req].status # "NONE"
    BY DEF LedgerInv, BookersFit
  <2>2. \A d \in Callers : At(d, "book") => call[d].req \in Requests
    BY DEF At, LeaveInv, CallsFit, Fits
  <2> QED
    BY <1>1, <2>1, <2>2
<1>9. BookersFit'
    BY <1>3, <1>4, <1>5, <1>8 DEF LedgerInv, BookersFit, At, Open
<1>10. ASSUME NEW y \in Years \ drifted' PROVE Balanced(y)'
  <2>1. Balanced(y) /\ y # 0
    BY <1>3, <1>10, YearsAreNumbers DEF LedgerInv
  <2>2. /\ Bookings(Open, y)' = Bookings(Open, y) /\ DaysOf(Open, y)' = DaysOf(Open, y)
        /\ Bookings({"APPROVED"}, y)' = Bookings({"APPROVED"}, y)
        /\ DaysOf({"APPROVED"}, y)' = DaysOf({"APPROVED"}, y)
    <3>1. \A q \in Requests : q # r \/ (request[q].status = "NONE" /\ request'[q].booked # y)
        BY <1>1, <1>5, <2>1
    <3> QED
        BY <1>5, <3>1, SameBookings DEF Open
  <2> QED
    BY <1>3, <2>1, <2>2 DEF Balanced
<1>11. NoneForgotten'
  <2>1. ASSUME NEW q \in Booking PROVE q \in Booking'
    <3>1. PICK d \in Callers : call[d].pc = "book" /\ q = call[d].req
        BY <2>1 DEF Booking, At
    <3>2. call'[d] = call[d]
        BY <1>1, <1>5, <3>1
    <3> QED
        BY <3>1, <3>2 DEF Booking, At
  <2>2. r \notin Unpooled => r \in Booking'
    <3>1. ASSUME r \notin Unpooled PROVE call'[c].pc = "book" /\ call'[c].req = r
        BY <1>1, <1>2, <1>5, <3>1 DEF Call
    <3> QED
        BY <3>1 DEF Booking, At
  <2> QED
    BY <1>3, <1>5, <2>1, <2>2 DEF LedgerInv, NoneForgotten
<1> QED
    BY <1>6, <1>7, <1>9, <1>10, <1>11 DEF LedgerInv

LEMMA BookDaysLedger ==
    ASSUME LeaveInv, LeaveInv', LedgerInv, NEW c \in Callers, BookDays(c) PROVE LedgerInv'
<1> DEFINE k == call[c]
           r == k.req
           z == k.year
<1>1. /\ k \in Call /\ k.pc = "book" /\ r \in Requests /\ r \notin Unpooled /\ z \in Years
      /\ request \in [Requests -> [status : Status, dates : Spans \cup {{}}, booked : 0..LastYear]]
      /\ call \in [Callers -> Call] /\ row[z] \in Row
    BY DEF BookDays, At, LeaveInv, TypeOK, CallsFit, Fits, Call
<1>2. /\ request[r].status # "NONE" /\ request[r].booked = 0 /\ request[r].dates = k.dates
      /\ row[z].allocated # -1
    BY <1>1 DEF LedgerInv, BookersFit, RowsMade, At
<1>3. PICK e : e = [row[z] EXCEPT !.pending = @ + Days(r)]
    OBVIOUS
<1>4. e.allocated = row[z].allocated /\ e.used = row[z].used /\ e.pending = row[z].pending + Days(r)
    BY <1>1, <1>3 DEF Row
<1>5. /\ row' = [row EXCEPT ![z] = e] /\ request' = [request EXCEPT ![r].booked = z]
      /\ call' = [call EXCEPT ![c] = Idle] /\ unbooked' = unbooked
      /\ drifted' = IF request[r].status \in Open THEN drifted ELSE drifted \cup {z}
    BY <1>2, <1>3 DEF BookDays, Ends, Goto, Days, LeaveInv, TypeOK
<1>6. /\ \A d \in Callers : call'[d] = IF d = c THEN Idle ELSE call[d]
      /\ \A q \in Requests : q # r => request'[q] = request[q]
      /\ request'[r].status = request[r].status /\ request'[r].dates = k.dates
      /\ request'[r].booked = z
      /\ \A y \in Years : row'[y] = IF y = z THEN e ELSE row[y]
      /\ Idle.pc = "idle"
    BY <1>1, <1>2, <1>5 DEF Idle, LeaveInv, TypeOK
<1>7. \A y \in Years : row[y].allocated # -1 => row'[y].allocated # -1
    BY <1>4, <1>6
<1>8. RowsMade'
  <2>1. \A y \in Years : row'[y] # NoRow => row'[y].allocated # -1
    BY <1>2, <1>4, <1>6 DEF LedgerInv, RowsMade
  <2>2. \A d \in Callers : call[d].year \in Years
    BY DEF LeaveInv, TypeOK, Call
  <2> QED
    BY <1>6, <1>7, <2>1, <2>2 DEF LedgerInv, RowsMade
<1>9. BookedFits'
  <2>1. \A q \in Requests : request[q].booked # 0 => request[q].booked \in Years
    BY LeaveAssumption DEF LeaveInv, TypeOK, Years
  <2> QED
    BY <1>1, <1>2, <1>6, <1>7, <2>1 DEF LedgerInv, BookedFits
<1>10. \A d \in Callers : d # c /\ At(d, "book") => call[d].req # r /\ call[d].req \in Requests
    BY <1>1 DEF At, LedgerInv, BookersFit, LeaveInv, CallsFit, Fits
<1>11. BookersFit'
    BY <1>5, <1>6, <1>10 DEF LedgerInv, BookersFit, At
<1>12. ASSUME NEW y \in Years \ drifted' PROVE Balanced(y)'
  <2>1. Balanced(y) /\ y # 0 /\ (y # z \/ request[r].status \in Open)
    BY <1>5, <1>12, YearsAreNumbers DEF LedgerInv
  <2>2. /\ Bookings({"APPROVED"}, y)' = Bookings({"APPROVED"}, y)
        /\ DaysOf({"APPROVED"}, y)' = DaysOf({"APPROVED"}, y)
    <3>1. request[r].booked # y /\ ~(request'[r].status = "APPROVED" /\ request'[r].booked = y)
        BY <1>2, <1>6, <2>1 DEF Open
    <3> QED
        BY <1>6, <3>1, SameBookings
  <2>3. CASE y = z
    <3>1. IsFiniteSet(Bookings(Open, y)') /\ DaysOf(Open, y)' = DaysOf(Open, y) + Days(r)
        BY <1>1, <1>2, <1>6, <2>1, <2>3, EnteringBookings DEF Balanced
    <3> QED
        BY <1>4, <1>6, <2>1, <2>2, <2>3, <3>1 DEF Balanced
  <2>4. CASE y # z
    <3>1. \A q \in Requests : q # r \/ (request[q].booked # y /\ request'[q].booked # y)
        BY <1>2, <1>6, <2>1, <2>4
    <3>2. Bookings(Open, y)' = Bookings(Open, y) /\ DaysOf(Open, y)' = DaysOf(Open, y)
        BY <1>6, <3>1, SameBookings
    <3> QED
        BY <1>6, <2>1, <2>2, <2>4, <3>2 DEF Balanced
  <2> QED
    BY <2>3, <2>4
<1>13. NoneForgotten'
  <2>1. ASSUME NEW q \in Booking, q # r PROVE q \in Booking'
    <3>1. PICK d \in Callers : call[d].pc = "book" /\ q = call[d].req
        BY <2>1 DEF Booking, At
    <3>2. call'[d] = call[d]
        BY <1>6, <2>1, <3>1
    <3> QED
        BY <3>1, <3>2 DEF Booking, At
  <2>2. z # 0
    BY <1>1, YearsAreNumbers
  <2> QED
    BY <1>5, <1>6, <2>1, <2>2 DEF LedgerInv, NoneForgotten
<1> QED
    BY <1>8, <1>9, <1>11, <1>12, <1>13 DEF LedgerInv

\* What a decision does to its request, and what it means for it to be a clean one.
LEMMA DecidedRequest ==
    ASSUME LeaveInv, LedgerInv, NEW c \in Callers, NEW status \in Open \cup Settled,
           call[c].pc \in DecisionPc, WriteStatus(call[c].req, status)
    PROVE  LET r == call[c].req
           IN  /\ r \in Requests /\ request[r].status # "NONE"
               /\ \A q \in Requests : q # r => request'[q] = request[q]
               /\ request'[r].status = status /\ request'[r].dates = request[r].dates
               /\ request'[r].booked = request[r].booked
<1> DEFINE r == call[c].req
<1>1. /\ r \in Requests /\ request[r].status # "NONE" /\ request[r].status \in Status
      /\ request \in [Requests -> [status : Status, dates : Spans \cup {{}}, booked : 0..LastYear]]
    BY DEF LeaveInv, TypeOK, CallsFit, Fits
<1> QED
    BY <1>1 DEF WriteStatus

\* A handler that ends without a booking before it leaves the other bookings.
LEMMA BookingStays ==
    ASSUME NEW c \in Callers, call[c].pc # "book",
           \A d \in Callers : call'[d] = IF d = c THEN Idle ELSE call[d]
    PROVE  \A q \in Booking : q \in Booking'
BY DEF Booking, At

LEMMA ManagerApproveLedger ==
    ASSUME LeaveInv, LeaveInv', LedgerInv, NEW c \in Callers, ManagerApprove(c) PROVE LedgerInv'
<1> DEFINE r == call[c].req
<1>1. /\ call[c].pc = "managerApprove" /\ WriteStatus(r, "MANAGER_APPROVED")
      /\ row' = row /\ unbooked' = unbooked
      /\ drifted' = IF request[r].status \in Open THEN drifted ELSE drifted \cup {request[r].booked}
    BY DEF ManagerApprove, At
<1>2. /\ r \in Requests /\ request[r].status # "NONE"
      /\ \A q \in Requests : q # r => request'[q] = request[q]
      /\ request'[r].status = "MANAGER_APPROVED" /\ request'[r].dates = request[r].dates
      /\ request'[r].booked = request[r].booked
    BY <1>1, DecidedRequest DEF DecisionPc, Open
<1>3. \A d \in Callers : call'[d] = IF d = c THEN Idle ELSE call[d]
    BY DEF ManagerApprove, Ends, Goto, LeaveInv, TypeOK
<1>4. Idle.pc = "idle"
    BY DEF Idle
<1>5. RowsMade'
    BY <1>1, <1>3, <1>4 DEF LedgerInv, RowsMade
<1>6. BookedFits'
    BY <1>1, <1>2 DEF LedgerInv, BookedFits
<1>7. \A d \in Callers : At(d, "book") => call[d].req \in Requests
    BY DEF At, LeaveInv, CallsFit, Fits
<1>8. NoneForgotten'
    BY <1>1, <1>2, <1>3, <1>4, BookingStays DEF LedgerInv, NoneForgotten, DecisionPc
<1>9. BookersFit'
    BY <1>2, <1>3, <1>4, <1>7 DEF LedgerInv, BookersFit, At
<1>10. ASSUME NEW y \in Years \ drifted' PROVE Balanced(y)'
  <2>1. Balanced(y) /\ (request[r].status \in Open \/ request[r].booked # y)
    BY <1>1, <1>10 DEF LedgerInv
  <2>2. /\ (request'[r].status \in Open /\ request'[r].booked = y)
              <=> (request[r].status \in Open /\ request[r].booked = y)
        /\ (request'[r].status \in {"APPROVED"} /\ request'[r].booked = y)
              <=> (request[r].status \in {"APPROVED"} /\ request[r].booked = y)
    BY <1>2, <2>1 DEF Open
  <2>3. /\ Bookings(Open, y)' = Bookings(Open, y)
        /\ DaysOf(Open, y)' = DaysOf(Open, y)
    BY <1>2, <2>2, SameBookings
  <2>5. /\ Bookings({"APPROVED"}, y)' = Bookings({"APPROVED"}, y)
        /\ DaysOf({"APPROVED"}, y)' = DaysOf({"APPROVED"}, y)
    BY <1>2, <2>2, SameBookings
  <2> QED
    BY <1>1, <2>1, <2>3, <2>5 DEF Balanced
<1> QED
    BY <1>5, <1>6, <1>8, <1>9, <1>10 DEF LedgerInv

LEMMA DecideLedger ==
    ASSUME LeaveInv, LeaveInv', LedgerInv, NEW c \in Callers, Decide(c) PROVE LedgerInv'
<1> DEFINE r == call[c].req
           verdict == call[c].op
<1>1. call[c].pc = "decide" /\ WriteStatus(r, verdict) /\ verdict \in Settled
    BY DEF Decide, At, LeaveInv, CallsFit, Fits
<1>2. /\ r \in Requests /\ request[r].status # "NONE"
      /\ \A q \in Requests : q # r => request'[q] = request[q]
      /\ request'[r].status = verdict /\ request'[r].dates = request[r].dates
      /\ request'[r].booked = request[r].booked
    BY <1>1, DecidedRequest DEF DecisionPc
<1>3. year \in Years /\ row[year] \in Row /\ Days(r) \in Nat
    BY <1>2, BookingsOfCount DEF LeaveInv, TypeOK
<1>4. PICK e : e = Posted(row[year], verdict, Days(r))
    OBVIOUS
<1>5. /\ e.allocated = row[year].allocated /\ e.pending = row[year].pending - Days(r)
      /\ e.used = IF verdict = "APPROVED" THEN row[year].used + Days(r) ELSE row[year].used
    BY <1>3, <1>4 DEF Posted, Row
<1>6. row' = IF r \in Unpooled \/ row[year] = NoRow THEN row ELSE [row EXCEPT ![year] = e]
    BY <1>4 DEF Decide, LeaveInv, TypeOK
<1>7. /\ unbooked' = unbooked
      /\ \A y \in Years \ drifted' :
            /\ y \notin drifted
            /\ \/ r \in Unpooled
               \/ request[r].status \in Open /\ request[r].booked = year
               \/ y # year /\ y # request[r].booked
    BY DEF Decide
<1>8. \A d \in Callers : call'[d] = IF d = c THEN Idle ELSE call[d]
    BY DEF Decide, Ends, Goto, LeaveInv, TypeOK
<1>9. Idle.pc = "idle"
    BY DEF Idle
<1>10. \A y \in Years : row'[y] = row[y] \/ (row[y] # NoRow /\ row'[y].allocated = row[y].allocated)
    BY <1>5, <1>6 DEF LeaveInv, TypeOK
<1>11. RowsMade'
  <2>1. \A d \in Callers : call[d].year \in Years
    BY DEF LeaveInv, TypeOK, Call
  <2> QED
    BY <1>8, <1>9, <1>10, <2>1 DEF LedgerInv, RowsMade
<1>12. BookedFits'
  <2>1. \A q \in Requests : request[q].booked # 0 => request[q].booked \in Years
    BY LeaveAssumption DEF LeaveInv, TypeOK, Years
  <2>2. verdict # "NONE"
    BY <1>1 DEF Settled
  <2> QED
    BY <1>2, <1>10, <2>1, <2>2 DEF LedgerInv, BookedFits
<1>13. BookersFit'
  <2>1. \A d \in Callers : At(d, "book") =>
            /\ call[d].req \in Requests /\ call[d].req \notin Unpooled
            /\ request[call[d].req].booked = 0
    BY DEF At, LeaveInv, CallsFit, Fits, LedgerInv, BookersFit
  <2>2. verdict # "NONE"
    BY <1>1 DEF Settled
  <2> QED
    BY <1>2, <1>8, <1>9, <2>1, <2>2 DEF LedgerInv, BookersFit, At
<1>14. ASSUME NEW y \in Years \ drifted' PROVE Balanced(y)'
  <2>1. Balanced(y) /\ y # 0
    BY <1>7, <1>14, YearsAreNumbers DEF LedgerInv
  <2>2. CASE r \in Unpooled \/ y # year
    <3>1. row'[y] = row[y]
        BY <1>6, <2>2 DEF LeaveInv, TypeOK
    <3>2. request[r].booked # y
        BY <1>7, <1>14, <2>1, <2>2, <1>2 DEF LedgerInv, BookedFits
    <3>3. \A q \in Requests : q # r \/ (request[q].booked # y /\ request'[q].booked # y)
        BY <1>2, <3>2
    <3>4. /\ Bookings(Open, y)' = Bookings(Open, y) /\ DaysOf(Open, y)' = DaysOf(Open, y)
          /\ Bookings({"APPROVED"}, y)' = Bookings({"APPROVED"}, y)
          /\ DaysOf({"APPROVED"}, y)' = DaysOf({"APPROVED"}, y)
        BY <1>2, <3>3, SameBookings
    <3> QED
        BY <2>1, <3>1, <3>4 DEF Balanced
  <2>3. CASE r \notin Unpooled /\ y = year
    <3>1. request[r].booked = y /\ row[y].allocated # -1 /\ request[r].status \in Open
        BY <1>2, <1>7, <1>14, <2>1, <2>3 DEF LedgerInv, BookedFits
    <3>2. row'[y] = e
        BY <1>3, <1>6, <2>3, <3>1 DEF NoRow, LeaveInv, TypeOK
    <3>3. IsFiniteSet(Bookings(Open, y)') /\ DaysOf(Open, y)' = DaysOf(Open, y) - Days(r)
      <4>1. verdict \notin Open
        BY <1>1 DEF Settled, Open
      <4> QED
        BY <1>2, <2>1, <3>1, <4>1, LeavingBookings DEF Balanced
    <3>4. /\ IsFiniteSet(Bookings({"APPROVED"}, y)')
          /\ DaysOf({"APPROVED"}, y)' = IF verdict = "APPROVED" THEN DaysOf({"APPROVED"}, y) + Days(r)
                                        ELSE DaysOf({"APPROVED"}, y)
      <4>1. request[r].status # "APPROVED"
        BY <3>1 DEF Open
      <4>2. CASE verdict = "APPROVED"
        BY <1>2, <2>1, <3>1, <4>1, <4>2, EnteringBookings DEF Balanced
      <4>3. CASE verdict # "APPROVED"
        <5>1. \A q \in Requests : q # r \/ (request[q].status # "APPROVED" /\ request'[q].status # "APPROVED")
            BY <1>2, <4>1, <4>3
        <5>2. /\ Bookings({"APPROVED"}, y)' = Bookings({"APPROVED"}, y)
              /\ DaysOf({"APPROVED"}, y)' = DaysOf({"APPROVED"}, y)
            BY <1>2, <5>1, SameBookings
        <5> QED
            BY <2>1, <4>3, <5>2 DEF Balanced
      <4> QED
        BY <4>2, <4>3
    <3> QED
        BY <1>5, <2>1, <2>3, <3>2, <3>3, <3>4 DEF Balanced
  <2> QED
    BY <2>2, <2>3
<1>15. NoneForgotten'
    BY <1>1, <1>2, <1>7, <1>8, BookingStays DEF LedgerInv, NoneForgotten
<1> QED
    BY <1>11, <1>12, <1>13, <1>14, <1>15 DEF LedgerInv

LEMMA LedgerInit == Init => LedgerInv
<1> SUFFICES ASSUME Init PROVE LedgerInv
    OBVIOUS
<1>1. /\ \A y \in Years : row[y] = NoRow
      /\ \A c \in Callers : call[c].pc = "idle"
      /\ \A r \in Requests : request[r].booked = 0 /\ request[r].status = "NONE"
    BY DEF Init, NothingSeen, Idle
<1>2. RowsMade /\ BookedFits /\ BookersFit /\ NoneForgotten
    BY <1>1 DEF RowsMade, BookedFits, BookersFit, NoneForgotten, At
<1>3. ASSUME NEW y \in Years PROVE Balanced(y)
  <2>1. Bookings(Open, y) = {} /\ Bookings({"APPROVED"}, y) = {}
    BY <1>1, <1>3, YearsAreNumbers DEF Bookings
  <2> QED
    BY <1>1, <2>1, FS_EmptySet DEF Balanced, DaysOf, NoRow
<1> QED
    BY <1>2, <1>3 DEF LedgerInv

LEMMA LedgerStep == LeaveInv /\ LedgerInv /\ [Next]_vars => LedgerInv'
<1> SUFFICES ASSUME LeaveInv, LedgerInv, [Next]_vars PROVE LedgerInv'
    OBVIOUS
<1>1. LeaveInv'
    BY LeaveInvStep
<1>2. ASSUME NEW c \in Callers, Handler(c) PROVE LedgerInv'
    BY <1>1, <1>2, StartsLedger, FindRowLedger, MakeRowLedger, WriteAdjustmentLedger,
       InsertRequestLedger, BookDaysLedger, ManagerApproveLedger, DecideLedger,
       PropagateToLedger, RecomputeLedger, FailuresLedger DEF Handler
<1>3. CASE NewYear \/ ReadRows \/ OpenNewYear \/ Accrue \/ ExpireCarryover \/ Crash
    BY <1>1, <1>3, OpenNewYearLedger, AccrueLedger, ExpireCarryoverLedger, FailuresLedger
<1>4. CASE UNCHANGED vars
    BY <1>1, <1>4, JobLedger DEF vars
<1> QED
    BY <1>2, <1>3, <1>4 DEF Next

\* Whatever requests, decisions, recomputations, accruals, year ends, failures and
\* crashes interleave: the days of a request are outside the rows only while its
\* call is about to book them or once it ended there, and a year's pendingDays and
\* usedDays are the days booked on it of the open and of the approved requests,
\* unless an untimely decision has touched that year's row.
THEOREM LedgersBalance == Spec => []LedgerBalanced
<1>1. LedgerInv => LedgerBalanced
    BY DEF LedgerInv, NoneForgotten, Balanced, LedgerBalanced
<1> QED
    BY <1>1, LedgerInit, LedgerStep, LeaveInvInit, LeaveInvStep, PTL DEF Spec

-----------------------------------------------------------------------------
(* What a step never does                                                  *)

\* Only a handler that read a request open writes over its settled status.
LEMMA SettledStep ==
    ASSUME LeaveInv, [Next]_vars, NEW r \in Requests, request[r].status \in Settled, ~DecidingOn(r)
    PROVE  request'[r].status = request[r].status
<1>1. request \in [Requests -> [status : Status, dates : Spans \cup {{}}, booked : 0..LastYear]]
    BY DEF LeaveInv, TypeOK
<1>2. ASSUME NEW c \in Callers, call[c].pc \in DecisionPc PROVE call[c].req # r
    BY <1>2 DEF LeaveInv, CallsFit, Fits, DecidingOn, DecisionPc
<1>3. ASSUME NEW c \in Callers, InsertRequest(c) PROVE request'[r] = request[r]
  <2>1. request[call[c].req].status = "NONE"
    BY <1>3 DEF InsertRequest, At, LeaveInv, CallsFit, Fits
  <2>2. call[c].req # r
    BY <2>1 DEF Settled
  <2> QED
    BY <1>1, <1>3, <2>2 DEF InsertRequest
<1>4. ASSUME NEW c \in Callers, BookDays(c) PROVE request'[r].status = request[r].status
    BY <1>1, <1>4 DEF BookDays
<1>5. ASSUME NEW c \in Callers, ManagerApprove(c) PROVE request'[r] = request[r]
    BY <1>1, <1>2, <1>5 DEF ManagerApprove, At, DecisionPc, WriteStatus
<1>6. ASSUME NEW c \in Callers, Decide(c) PROVE request'[r] = request[r]
    BY <1>1, <1>2, <1>6 DEF Decide, At, DecisionPc, WriteStatus
<1>7. CASE request' = request
    BY <1>7
<1> QED
    BY <1>3, <1>4, <1>5, <1>6, <1>7 DEF Next, Handler, vars,
        Lookup, Initialize, Adjust, WriteAdjustment, FindRow, MakeRow, RequestLeave,
        StartManagerApproval, CheckTier, StartDecision, UpdatePolicy, CollectRows, PropagateTo,
        StartRecompute, Recompute, NewYear, ReadRows, OpenNewYear, Accrue, ExpireCarryover,
        Fail, Crash

\* A settled request is decided again only by a handler that read it open.
THEOREM SettledNeedsStaleRead == Spec => SettledStaysSettled
<1>1. LeaveInv /\ [Next]_vars =>
        [\A r \in Requests :
            request[r].status \in Settled /\ ~DecidingOn(r) => request'[r].status = request[r].status]_vars
    BY SettledStep
<1> QED
    BY <1>1, LeaveInvInit, LeaveInvStep, PTL DEF Spec, SettledStaysSettled

LEMMA BookingStep ==
    ASSUME LeaveInv, NEW c \in Callers, BookDays(c), row[call[c].year] = call[c].seen[call[c].year]
    PROVE  Covered(row'[call[c].year])
<1> DEFINE k == call[c]
           e == row[k.year]
<1>1. k.year \in Years /\ row \in [Years -> Row] /\ e \in Row /\ k.dates \in Spans
    BY DEF LeaveInv, TypeOK, CallsFit, Fits, BookDays, At, Call
<1>2. TotalDays(k.dates) \in Nat /\ TotalDays(k.dates) <= Available(e)
    BY <1>1, SpansAreFinite DEF LeaveInv, CallsFit, Fits, BookDays, At
<1>3. row'[k.year] = [e EXCEPT !.pending = e.pending + TotalDays(k.dates)]
    BY <1>1 DEF BookDays
<1> HIDE DEF e
<1> QED
    BY <1>1, <1>2, <1>3 DEF Covered, Available, Row

\* No request is booked beyond the balance it was checked against.
THEOREM NeverOverbooked == Spec => BookingWithinBalance
<1>1. LeaveInv /\ [Next]_vars =>
        [\A c \in Callers :
            LET y == call[c].year
            IN  BookDays(c) /\ row[y] = call[c].seen[y] => Covered(row'[y])]_vars
    BY BookingStep
<1> QED
    BY <1>1, LeaveInvInit, LeaveInvStep, PTL DEF Spec, BookingWithinBalance

LEMMA ReallocateKeepsFloor ==
    ASSUME row \in [Years -> Row], NEW y \in Years, NEW method, Reallocate(y, row[y], method)
    PROVE  row'[y].used + row'[y].pending <= row'[y].allocated
<1> DEFINE e == row[y]
<1>1. e \in Row
    OBVIOUS
<1>2. Refloored(e, method, y) \in Nat /\ e.used + e.pending <= Refloored(e, method, y)
    BY <1>1, RefloorsToNat
<1>3. CASE row' = row /\ Refloored(e, method, y) = e.allocated
    BY <1>2, <1>3
<1>4. CASE row' = [row EXCEPT ![y].allocated = Refloored(e, method, y)]
  <2>1. row'[y] = [e EXCEPT !.allocated = Refloored(e, method, y)]
    BY <1>4
  <2> HIDE DEF e
  <2> QED
    BY <1>1, <1>2, <2>1 DEF Row
<1> QED
    BY <1>3, <1>4 DEF Reallocate

\* A reallocation of a row that has not changed meanwhile leaves room for the
\* days used and pending, whatever the policy became.
THEOREM ReallocationLeavesRoom == Spec => ReallocationKeepsFloor
<1>1. ASSUME LeaveInv, NEW c \in Callers, NEW y \in Years,
             PropagateTo(c, y) \/ (Recompute(c) /\ call[c].year = y),
             row[y] # NoRow, row[y] = call[c].seen[y]
      PROVE  row'[y].used + row'[y].pending <= row'[y].allocated
  <2>1. row \in [Years -> Row]
    BY <1>1 DEF LeaveInv, TypeOK
  <2>2. Reallocate(y, row[y], call[c].method)
    BY <1>1 DEF PropagateTo, Recompute
  <2> QED
    BY <2>1, <2>2, ReallocateKeepsFloor
<1>2. LeaveInv /\ [Next]_vars =>
        [\A c \in Callers, y \in Years :
            /\ PropagateTo(c, y) \/ (Recompute(c) /\ call[c].year = y)
            /\ row[y] # NoRow /\ row[y] = call[c].seen[y]
            => row'[y].used + row'[y].pending <= row'[y].allocated]_vars
    BY <1>1
<1> QED
    BY <1>2, LeaveInvInit, LeaveInvStep, PTL DEF Spec, ReallocationKeepsFloor

LEMMA CarriedIsUnused ==
    ASSUME NEW e \in Row, CarriedOver(e) + Encashed(e) > 0
    PROVE  Covered([e EXCEPT !.used = @ + e.encashed + CarriedOver(e) + Encashed(e)])
<1>1. Unused(e) \in Nat /\ CarriedOver(e) \in Nat /\ Encashed(e) \in Nat
    BY UnusedIsNat
<1>2. CarriedOver(e) + Encashed(e) <= Unused(e)
    BY <1>1, LeaveAssumption DEF CarriedOver, Encashed
<1>3. Unused(e) = Available(e) - e.encashed
  <2>1. Unused(e) # 0
    BY <1>1, <1>2
  <2> QED
    BY <2>1 DEF Unused
<1> DEFINE moved == e.used + e.encashed + CarriedOver(e) + Encashed(e)
           n == [e EXCEPT !.used = moved]
<1>4. n = [e EXCEPT !.used = @ + e.encashed + CarriedOver(e) + Encashed(e)]
    BY DEF Row
<1>5. moved \in Int
    BY <1>1 DEF Row
<1>6. moved + e.pending <= e.allocated + e.accrued + e.carried + e.adjusted
    BY <1>1, <1>2, <1>3 DEF Available, Row
<1> HIDE DEF moved
<1>7. Covered(n)
    BY <1>5, <1>6 DEF Covered, Row
<1> QED
    BY <1>4, <1>7

\* The year-end job carries over or encashes only what was left.
THEOREM CarriesOnlyWhatIsLeft == Spec => NothingCarriedTwice
<1>1. ASSUME LeaveInv, OpenNewYear, row[year] = NoRow, yearEnd.previous = row[year - 1],
             row'[year].carried + row'[year].encashed > 0
      PROVE  LET e == row[year - 1]
                 n == row'[year]
             IN  Covered([e EXCEPT !.used = @ + e.encashed + n.carried + n.encashed])
  <2> DEFINE e == yearEnd.previous
             n == [NewRow(yearEnd.method, year) EXCEPT !.carried = CarriedOver(e), !.encashed = Encashed(e)]
  <2>1. year \in Years /\ row \in [Years -> Row] /\ e \in Row
    BY <1>1 DEF LeaveInv, TypeOK
  <2>2. NewRow(yearEnd.method, year) \in Row
    BY <2>1, NewRowIsRow
  <2>3. n.carried = CarriedOver(e) /\ n.encashed = Encashed(e)
    BY <2>2 DEF Row
  <2>4. row'[year] = n
    BY <1>1, <2>1 DEF OpenNewYear
  <2> HIDE DEF n
  <2>5. Covered([e EXCEPT !.used = @ + e.encashed + CarriedOver(e) + Encashed(e)])
    BY <1>1, <2>1, <2>3, <2>4, CarriedIsUnused
  <2> QED
    BY <1>1, <2>3, <2>4, <2>5
<1>2. LeaveInv /\ [Next]_vars =>
        [OpenNewYear /\ row[year] = NoRow /\ yearEnd.previous = row[year - 1] =>
            LET e == row[year - 1]
                n == row'[year]
            IN  n.carried + n.encashed > 0 =>
                  Covered([e EXCEPT !.used = @ + e.encashed + n.carried + n.encashed])]_vars
    BY <1>1
<1> QED
    BY <1>2, LeaveInvInit, LeaveInvStep, PTL DEF Spec, NothingCarriedTwice
=============================================================================
