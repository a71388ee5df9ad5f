-------------------------- MODULE BatchJobsProofs --------------------------
(***************************************************************************)
(* Batch jobs, for any number of rows and addresses, any number of         *)
(* requests at work at once, and any number of attempts, recoveries,       *)
(* faults and crashes.  What a row did and how often it was tried is       *)
(* followed through runs that overlap; the counters and the invitations    *)
(* need that requests came alone, and then no two runs overlap.            *)
(***************************************************************************)
EXTENDS BatchJobs, TLAPS, FiniteSetTheorems, WellFoundedInduction

Doing == {"effect", "line", "total", "gross"}
Writing == {"salary", "write"}
Holding == {"row"} \cup Doing \cup Writing
Pcs == {"idle", "read", "fetch", "row", "effect", "line", "total", "gross", "salary", "write",
        "count", "sync", "complete", "fail"}

USE DEF Doing, Writing, Holding

Runs == [pc : Pcs, left : SUBSET Rows, ok : BOOLEAN, sum : Lines,
         tally : (0..NumRows) \X (0..NumRows)]

Batches == [status : {"none", "PENDING", "PROCESSING", "COMPLETED", "FAILED"},
            success : 0..NumRows, failed : 0..NumRows]

Jobs == [state : Unfinished \cup {"none", "completed", "failed"}, attempts : Nat, stalls : Nat]

-----------------------------------------------------------------------------
(* The inductive invariant                                                 *)

Types ==
    /\ kind \in Kinds \cup {"none"} /\ email \in [Rows -> Emails]
    /\ employees \subseteq Emails /\ invited \subseteq Emails
    /\ batch \in Batches
    /\ row \in [Rows -> {"none", "PENDING", "SUCCESS", "FAILED"}]
    /\ queue \in Jobs /\ run \in [Runners -> Runs] /\ request \in [Calls -> Nat]
    /\ made \in [Rows -> Nat] /\ tries \in [Rows -> Nat]
    /\ clean \in BOOLEAN

\* A run in the middle of a row has a row.
RunsHaveRows == \A p \in Runners : run[p].pc \in Holding => run[p].left # {}

\* The queue's job is active exactly while its run is at work.
QueueRuns == queue.state = "active" <=> run["queue"].pc # "idle"

Asked(S) == \E call \in S : request[call] > 0

\* Before there is a batch nothing is at work for it.
NothingBefore ==
    /\ kind = "none" <=> batch.status = "none"
    /\ kind = "none" => ~Busy /\ ~Asked(Calls) /\ \A r \in Rows : made[r] = 0

\* Requests that came alone: one call is to be made, or one run is at work.
OneAtATime ==
    clean =>
       /\ \A call \in Calls : request[call] > 0 =>
             request[call] = 1 /\ ~Asked(Calls \ {call}) /\ ~Busy
       /\ run["inline"].pc # "idle" =>
             run["queue"].pc = "idle" /\ queue.state \notin Unfinished
       /\ Busy \/ Asked(Calls \ {"rows"}) => \A r \in Rows : row[r] # "none"

\* What a row did, how often it was tried, and what a run holds of it.
Trying(p, r) == run[p].pc \in Doing \cup Writing /\ Current(p) = r

RowFits(r) ==
    /\ made[r] > 0 => tries[r] > 0
    /\ row[r] = "FAILED" => tries[r] > 0
    /\ row[r] = "SUCCESS" => made[r] > 0
    /\ row[r] = "FAILED" /\ made[r] > 0 => tries[r] > 1

AttemptFits(p, r) ==
    Trying(p, r) =>
       /\ tries[r] > 0
       /\ \A q \in Runners \ {p} : Trying(q, r) => tries[r] > 1
       /\ row[r] = "FAILED" => tries[r] > 1
       /\ run[p].pc \in Doing /\ made[r] > 0 => tries[r] > 1
       /\ run[p].pc \in Writing /\ made[r] > 0 => run[p].ok \/ tries[r] > 1
       /\ run[p].pc \in Writing /\ run[p].ok => made[r] > 0

AttemptsFit == \A r \in Rows : RowFits(r) /\ \A p \in Runners : AttemptFits(p, r)

\* Where an address may be served once, it is taken once a row has served it.
Invites == {"EMPLOYEE_INVITATION", "SETUP_INVITATION"}
Limited == kind = "EMPLOYEE_CREATION" \/ (kind \in Invites /\ clean)
Taken == IF kind = "EMPLOYEE_CREATION" THEN employees ELSE invited

ServedOnce ==
    /\ Limited =>
          /\ \A r \in Rows : made[r] <= 1 /\ (made[r] > 0 => email[r] \in Taken)
          /\ \A r, s \in Rows : email[r] = email[s] /\ r # s => made[r] + made[s] <= 1
    /\ kind \in Invites /\ clean =>
          \A p \in Runners : At(p, "effect") => Address(p) \notin invited

Pending == {r \in Rows : row[r] = "PENDING"}

\* What a run that is alone knows of the rows, and of their counts.
Knows(p) ==
    /\ run[p].pc \in Holding \cup {"count", "sync", "complete"} =>
          run[p].left = Pending
    /\ At(p, "sync") => run[p].tally = <<Counted("SUCCESS"), Counted("FAILED")>>
    /\ At(p, "complete") =>
          /\ run[p].left = {}
          /\ batch.success = Counted("SUCCESS") /\ batch.failed = Counted("FAILED")

RunsKnow == clean => \A p \in Runners : Knows(p)

\* A batch that was completed alone is left alone.
CompletedIsLeft == clean /\ batch.status = "COMPLETED" => ~Busy /\ ~Asked(Calls)

Pays == [held : BOOLEAN, line : Lines, gross : Lines]
Spents == [requests : Nat, faults : Nat, crashes : Nat]

PayTypes == pay \in [Emails -> Pays] /\ spent \in Spents

Failed == spent.faults > 0

\* A new employee whose row is about to say SUCCESS, or says so, has a structure.
NewOnesPaid ==
    kind = "EMPLOYEE_CREATION" =>
       /\ \A r \in Rows : row[r] = "SUCCESS" => pay[email[r]].held \/ Failed
       /\ \A p \in Runners :
             At(p, "write") /\ run[p].ok => pay[Address(p)].held \/ Failed

\* What a run that is alone knows of the line it is replacing.
LineFits(p) ==
    /\ run[p].pc \in {"total", "gross"} => pay[Address(p)].line = "new"
    /\ At(p, "gross") => run[p].sum = "new"
    /\ At(p, "write") /\ run[p].ok =>
          pay[Address(p)].line = "new" /\ pay[Address(p)].gross = "new"

LinesFit ==
    /\ kind # "ALLOCATION" => \A a \in Emails : pay[a].gross # "new"
    /\ kind = "ALLOCATION" =>
          /\ OncePerAddress
          /\ \A r \in Rows : made[r] = 0 => pay[email[r]].gross # "new"
          /\ clean =>
                /\ \A r \in Rows : row[r] = "SUCCESS" =>
                      pay[email[r]].line = "new" /\ pay[email[r]].gross = "new"
                /\ \A p \in Runners : LineFits(p)

PayInv ==
    /\ PayTypes
    /\ NewOnesPaid
    /\ LinesFit

BatchInv ==
    /\ Types
    /\ RunsHaveRows
    /\ QueueRuns
    /\ NothingBefore
    /\ OneAtATime
    /\ AttemptsFit
    /\ ServedOnce
    /\ RunsKnow
    /\ CompletedIsLeft
    /\ CompletedIsWhole

-----------------------------------------------------------------------------
(* Values                                                                  *)

\* A set of numbers that is not empty has a least one.
LEMMA MinIsLeast ==
    ASSUME NEW S \in SUBSET Nat, S # {}
    PROVE  Min(S) \in S /\ \A n \in S : Min(S) <= n
<1> DEFINE Below == {0..m : m \in S}
<1>1. Below \subseteq FiniteSubsetsOf(Nat) /\ Below # {}
  <2>1. \A m \in S : 0..m \in SUBSET Nat /\ IsFiniteSet(0..m)
    BY FS_Interval
  <2>2. \A m \in S : 0..m \in FiniteSubsetsOf(Nat)
    BY <2>1 DEF FiniteSubsetsOf
  <2>3. PICK m \in S : TRUE
    OBVIOUS
  <2>4. 0..m \in Below
    OBVIOUS
  <2> QED
    BY <2>2, <2>4
<1>2. PICK B \in Below : \A A \in Below : ~(<<A, B>> \in StrictSubsetOrdering(Nat))
  <2> HIDE DEF Below
  <2> QED
    BY <1>1, FS_StrictSubsetOrderingWellFounded, WFMin
<1>3. PICK m \in S : B = 0..m
  OBVIOUS
<1>4. ASSUME NEW n \in S, n < m
      PROVE  FALSE
  <2>1. 0..n \in Below /\ 0..n \subseteq 0..m /\ 0..n # 0..m
    BY <1>4
  <2>2. <<0..n, B>> \in StrictSubsetOrdering(Nat)
    BY <1>3, <2>1 DEF StrictSubsetOrdering
  <2> QED
    BY <1>2, <2>1, <2>2
<1>5. \A n \in S : m <= n
  BY <1>4
<1> QED
  BY <1>5 DEF Min

\* The tries of a row are counted up to two.
LEMMA OneTryMore ==
    ASSUME NEW n \in Nat
    PROVE  /\ Min({n + 1, 2}) \in Nat /\ Min({n + 1, 2}) > 0
           /\ n > 0 => Min({n + 1, 2}) > 1
<1>1. Min({n + 1, 2}) \in {n + 1, 2} /\ \A x \in {n + 1, 2} : Min({n + 1, 2}) <= x
  BY MinIsLeast
<1> QED
  BY <1>1

LEMMA CurrentFits ==
    ASSUME Types, RunsHaveRows, NEW p \in Runners, run[p].pc \in Holding
    PROVE  Current(p) \in run[p].left /\ Current(p) \in Rows /\ Address(p) \in Emails
<1>1. run[p].left \in SUBSET Rows /\ run[p].left # {}
  BY DEF Types, Runs, RunsHaveRows
<1>2. Current(p) \in run[p].left
  BY <1>1, MinIsLeast DEF Current, Rows
<1> QED
  BY <1>1, <1>2 DEF Address, Types

LEMMA CountsFit ==
    ASSUME NEW s
    PROVE  Counted(s) \in 0..NumRows
<1>1. IsFiniteSet(Rows) /\ Cardinality(Rows) = NumRows
  BY FS_Interval, BatchAssumption DEF Rows
<1>2. {r \in Rows : row[r] = s} \subseteq Rows
  OBVIOUS
<1>3. /\ Cardinality({r \in Rows : row[r] = s}) \in Nat
      /\ Cardinality({r \in Rows : row[r] = s}) <= NumRows
  BY <1>1, <1>2, FS_Subset, FS_CardinalityType
<1> QED
  BY <1>3, BatchAssumption DEF Counted

LEMMA AsleepFits ==
    /\ Asleep \in Runs /\ Asleep.pc = "idle" /\ Asleep.left = {} /\ Asleep.ok = FALSE
    /\ \A pc \in Pcs : /\ [Asleep EXCEPT !.pc = pc] \in Runs
                        /\ [Asleep EXCEPT !.pc = pc].pc = pc
<1>1. Asleep \in Runs
  BY BatchAssumption DEF Asleep, Runs, Pcs, Lines
<1>2. Asleep.pc = "idle" /\ Asleep.left = {} /\ Asleep.ok = FALSE
  BY DEF Asleep
<1> HIDE DEF Asleep
<1>3. \A pc \in Pcs : /\ [Asleep EXCEPT !.pc = pc] \in Runs
                      /\ [Asleep EXCEPT !.pc = pc].pc = pc
  BY <1>1 DEF Runs
<1> QED
  BY <1>1, <1>2, <1>3

LEMMA NoJobFits ==
    /\ NoJob \in Jobs /\ NoJob.state = "none"
    /\ \A s \in Unfinished \cup {"completed", "failed"} :
          [NoJob EXCEPT !.state = s] \in Jobs /\ [NoJob EXCEPT !.state = s].state = s
<1>1. NoJob \in Jobs /\ NoJob.state = "none"
  BY DEF NoJob, Jobs
<1> HIDE DEF NoJob
<1> QED
  BY <1>1 DEF Jobs

LEMMA AfterFailureFits ==
    ASSUME NEW q \in Jobs
    PROVE  AfterFailure(q) \in Jobs /\ AfterFailure(q).state \in {"delayed", "failed"}
<1>1. q.attempts + 1 \in Nat
  BY DEF Jobs
<1>2. /\ [q EXCEPT !.attempts = q.attempts + 1, !.state = "delayed"] \in Jobs
      /\ [q EXCEPT !.attempts = q.attempts + 1, !.state = "delayed"].state = "delayed"
  BY <1>1 DEF Jobs, Unfinished
<1> QED
  BY <1>2, NoJobFits DEF AfterFailure

LEMMA AfterStallFits ==
    ASSUME NEW q \in Jobs
    PROVE  /\ AfterStall(q) \in Jobs /\ AfterStall(q).state # "active"
           /\ AfterStall(q).state \in Unfinished => q.state \in Unfinished
<1>1. q.stalls + 1 \in Nat
  BY DEF Jobs
<1>2. /\ [q EXCEPT !.stalls = q.stalls + 1, !.state = "waiting"] \in Jobs
      /\ [q EXCEPT !.stalls = q.stalls + 1, !.state = "waiting"].state = "waiting"
  BY <1>1 DEF Jobs, Unfinished
<1>3. CASE q.state # "active"
  BY <1>3 DEF AfterStall
<1>4. CASE q.state = "active"
  BY <1>2, <1>4, NoJobFits DEF AfterStall, Unfinished
<1> QED
  BY <1>3, <1>4

-----------------------------------------------------------------------------
(* What steps leave as it is                                               *)

Verdicts == {"none", "PENDING", "SUCCESS", "FAILED"}

\* Only the check, the effect and the write of a row concern its attempts.
LEMMA AttemptsStay ==
    ASSUME AttemptsFit, UNCHANGED <<made, tries>>,
           \A r \in Rows : row'[r] = row[r] \/ row'[r] = "PENDING",
           \A p \in Runners : run'[p] = run[p] \/ run'[p].pc \notin Doing \cup Writing
    PROVE  AttemptsFit'
<1>1. ASSUME NEW r \in Rows
      PROVE  RowFits(r)'
  BY <1>1 DEF AttemptsFit, RowFits
<1>2. ASSUME NEW r \in Rows, NEW p \in Runners
      PROVE  AttemptFits(p, r)'
  <2>1. \A q \in Runners : Trying(q, r)' => Trying(q, r) /\ run'[q] = run[q]
    BY DEF Trying, Current
  <2>2. AttemptFits(p, r)
    BY DEF AttemptsFit
  <2> QED
    BY <2>1, <2>2 DEF AttemptFits
<1> QED
  BY <1>1, <1>2 DEF AttemptsFit

LEMMA ServedStays ==
    ASSUME ServedOnce, NothingBefore, UNCHANGED <<email, made, employees, invited>>,
           made \in [Rows -> Nat],
           kind' = kind \/ kind = "none", clean' => clean,
           \A p \in Runners : run'[p] = run[p] \/ run'[p].pc # "effect"
    PROVE  ServedOnce'
<1>1. CASE kind = "none"
  <2>1. \A r \in Rows : made[r] = 0
    BY <1>1 DEF NothingBefore
  <2>2. \A p \in Runners : run'[p].pc # "effect"
    BY <1>1 DEF NothingBefore, Busy, Working
  <2> QED
    BY <2>1, <2>2 DEF ServedOnce, At
<1>2. CASE kind # "none"
  <2>1. kind' = kind /\ (Limited' => Limited) /\ Taken' = Taken
    BY <1>2 DEF Limited, Taken
  <2>2. \A p \in Runners : At(p, "effect")' => At(p, "effect") /\ Address(p)' = Address(p)
    BY DEF At, Address, Current
  <2> QED
    BY <2>1, <2>2 DEF ServedOnce
<1> QED
  BY <1>1, <1>2

\* A call of a handler: requests that came alone find nobody at work.
LEMMA RequestFits ==
    ASSUME BatchInv, NEW call \in Calls, request[call] > 0, request' \in [Calls -> Nat],
           clean' => \A j, k \in Calls :
              request'[k] <= 1 /\ (request'[j] > 0 /\ request'[k] > 0 => j = k),
           row' \in [Rows -> Verdicts],
           \A r \in Rows : row'[r] = row[r] \/ row'[r] = "PENDING",
           clean' /\ (Busy \/ Asked(Calls \ {"rows"}))' => \A r \in Rows : row'[r] # "none",
           batch' \in Batches, batch' = batch \/ batch'.status \in {"PENDING", "PROCESSING"},
           queue' \in Jobs, run' \in [Runners -> Runs], QueueRuns',
           \A p \in Runners : run'[p] = run[p] \/ run'[p].pc = "read",
           clean' /\ Busy' => /\ \A k \in Calls : request'[k] = 0
                              /\ run'["inline"].pc # "idle" =>
                                    run'["queue"].pc = "idle" /\ queue'.state \notin Unfinished,
           UNCHANGED <<kind, email, employees, invited, made, tries>>,
           clean' = clean \/ clean' = FALSE
    PROVE  BatchInv'
<1>1. kind # "none" /\ batch.status # "none"
  BY DEF BatchInv, NothingBefore, Asked
<1>2. clean' => ~Busy /\ batch.status # "COMPLETED"
  BY DEF BatchInv, OneAtATime, CompletedIsLeft, Asked
<1>3. Types'
  BY DEF BatchInv, Types, Verdicts
<1>4. RunsHaveRows'
  BY DEF BatchInv, RunsHaveRows
<1>5. NothingBefore'
  BY <1>1 DEF NothingBefore
<1>6. OneAtATime'
  <2> SUFFICES ASSUME clean'
               PROVE  OneAtATime'
    BY DEF OneAtATime
  <2>1. ASSUME NEW k \in Calls, request'[k] > 0
        PROVE  request'[k] = 1 /\ ~Asked(Calls \ {k})' /\ ~Busy'
    <3>1. request'[k] = 1
      BY <2>1
    <3>2. ~Asked(Calls \ {k})'
      BY <2>1 DEF Asked
    <3>3. ~Busy'
      BY <2>1
    <3> QED
      BY <3>1, <3>2, <3>3
  <2>2. run'["inline"].pc # "idle" =>
           run'["queue"].pc = "idle" /\ queue'.state \notin Unfinished
    BY DEF Busy, Working, Runners
  <2> QED
    BY <2>1, <2>2 DEF OneAtATime
<1>7. AttemptsFit'
  BY AttemptsStay DEF BatchInv
<1>8. ServedOnce'
  BY ServedStays DEF BatchInv, Types
<1>9. RunsKnow'
  <2>1. clean' => \A p \in Runners : run'[p].pc \in {"idle", "read"}
    BY <1>2 DEF Busy, Working
  <2> QED
    BY <2>1 DEF RunsKnow, Knows, At
<1>10. CompletedIsLeft' /\ CompletedIsWhole'
  BY <1>2 DEF CompletedIsLeft, CompletedIsWhole
<1> QED
  BY <1>3, <1>4, <1>5, <1>6, <1>7, <1>8, <1>9, <1>10 DEF BatchInv

\* A handler that has read the batch.
LEMMA AsksFit ==
    ASSUME BatchInv, NEW next \in Calls, Asks(next),
           \/ next # "rows" /\ UNCHANGED <<kind, batch>> /\ batch.status \in {"PENDING", "FAILED"}
           \/ next = "rows" /\ kind' \in Kinds /\ batch.status = "none"
              /\ batch' = [batch EXCEPT !.status = "PENDING"]
    PROVE  BatchInv'
<1>1. /\ clean' = (clean /\ Alone)
      /\ request' = [request EXCEPT ![next] = @ + 1]
      /\ UNCHANGED <<email, row, employees, invited, queue, run, made, tries>>
  BY DEF Asks
<1>2. /\ batch' \in Batches /\ batch'.status \in {"PENDING", "FAILED"}
      /\ kind' \in Kinds
      /\ kind' = kind \/ kind = "none"
  BY DEF BatchInv, Types, Batches, NothingBefore
<1>3. request' \in [Calls -> Nat]
  BY <1>1 DEF BatchInv, Types
<1>4. clean \in BOOLEAN /\ clean' \in BOOLEAN /\ (clean' => clean /\ Alone)
  <2>1. Alone \in BOOLEAN
    BY DEF Alone
  <2> QED
    BY <1>1, <2>1 DEF BatchInv, Types
<1>5. Types'
  BY <1>1, <1>2, <1>3, <1>4 DEF BatchInv, Types
<1>6. RunsHaveRows' /\ QueueRuns'
  BY <1>1 DEF BatchInv, RunsHaveRows, QueueRuns
<1>7. NothingBefore'
  BY <1>2 DEF NothingBefore, Kinds
<1>8. OneAtATime'
  <2> SUFFICES ASSUME clean'
               PROVE  OneAtATime'
    BY DEF OneAtATime
  <2>1. Alone
    BY <1>4
  <2>2. \A k \in Calls : request'[k] = IF k = next THEN 1 ELSE 0
    BY <1>1, <2>1 DEF Alone, NoRequest, BatchInv, Types
  <2>3. ~Busy'
    BY <1>1, <2>1 DEF Alone, Busy, Working
  <2>4. \A k \in Calls : request'[k] > 0 => request'[k] = 1 /\ ~Asked(Calls \ {k})' /\ ~Busy'
    BY <2>2, <2>3 DEF Asked
  <2>5. Asked(Calls \ {"rows"})' => \A r \in Rows : row'[r] # "none"
    <3>1. Asked(Calls \ {"rows"})' => next # "rows"
      BY <2>2 DEF Asked
    <3> QED
      BY <1>1, <2>1, <3>1 DEF Alone
  <2>6. run'["inline"].pc = "idle"
    BY <2>3 DEF Busy, Working, Runners
  <2> QED
    BY <2>3, <2>4, <2>5, <2>6 DEF OneAtATime
<1>9. AttemptsFit'
  BY <1>1, AttemptsStay DEF BatchInv
<1>10. ServedOnce'
  BY <1>1, <1>2, <1>4, ServedStays DEF BatchInv, Types
<1>11. RunsKnow'
  <2>1. clean' => \A p \in Runners : run'[p].pc = "idle"
    BY <1>1, <1>4 DEF Alone, Busy, Working
  <2> QED
    BY <2>1 DEF RunsKnow, Knows, At
<1>12. CompletedIsLeft' /\ CompletedIsWhole'
  BY <1>2 DEF CompletedIsLeft, CompletedIsWhole
<1> QED
  BY <1>5, <1>6, <1>7, <1>8, <1>9, <1>10, <1>11, <1>12 DEF BatchInv

LEMMA GoesFits ==
    ASSUME BatchInv, NEW call \in Calls, NEW next \in Calls, call # next, Goes(call, next)
    PROVE  /\ request[call] > 0 /\ request' \in [Calls -> Nat]
           /\ clean => ~Busy /\ \A j, k \in Calls :
                 request'[k] <= 1 /\ (request'[j] > 0 /\ request'[k] > 0 => j = k)
<1>1. /\ request \in [Calls -> Nat] /\ request[call] > 0
      /\ request' = [request EXCEPT ![call] = request[call] - 1, ![next] = request[next] + 1]
  BY DEF BatchInv, Types, Goes
<1>2. request' \in [Calls -> Nat]
  BY <1>1
<1>3. ASSUME clean
      PROVE  ~Busy /\ \A k \in Calls : request'[k] = IF k = next THEN 1 ELSE 0
  <2>1. request[call] = 1 /\ ~Busy /\ \A k \in Calls \ {call} : request[k] = 0
    BY <1>1, <1>3 DEF BatchInv, OneAtATime, Asked
  <2> QED
    BY <1>1, <2>1
<1> QED
  BY <1>1, <1>2, <1>3

LEMMA ReturnsFits ==
    ASSUME BatchInv, NEW call \in Calls, Returns(call)
    PROVE  /\ request[call] > 0 /\ request' \in [Calls -> Nat]
           /\ clean => ~Busy /\ \A k \in Calls : request'[k] = 0
<1>1. /\ request \in [Calls -> Nat] /\ request[call] > 0
      /\ request' = [request EXCEPT ![call] = request[call] - 1]
  BY DEF BatchInv, Types, Returns
<1>2. request' \in [Calls -> Nat]
  BY <1>1
<1>3. ASSUME clean
      PROVE  ~Busy /\ \A k \in Calls : request'[k] = 0
  <2>1. request[call] = 1 /\ ~Busy /\ \A k \in Calls \ {call} : request[k] = 0
    BY <1>1, <1>3 DEF BatchInv, OneAtATime, Asked
  <2> QED
    BY <1>1, <2>1
<1> QED
  BY <1>1, <1>2, <1>3

-----------------------------------------------------------------------------
(* The handlers                                                            *)

LEMMA CreateRowsFits == BatchInv /\ CreateRows => BatchInv'
<1> SUFFICES ASSUME BatchInv, CreateRows
             PROVE  BatchInv'
  OBVIOUS
<1>1. /\ Goes("rows", "begin") /\ UNCHANGED <<kind, email, employees, invited, made, tries, clean>>
      /\ UNCHANGED <<batch, queue, run>> /\ row' = [r \in Rows |-> "PENDING"]
  BY DEF CreateRows, Keeps
<1>2. "rows" \in Calls /\ "begin" \in Calls
  BY DEF Calls
<1>3. /\ request["rows"] > 0 /\ request' \in [Calls -> Nat]
      /\ clean => ~Busy /\ \A j, k \in Calls :
            request'[k] <= 1 /\ (request'[j] > 0 /\ request'[k] > 0 => j = k)
  BY <1>1, <1>2, GoesFits
<1>4. clean => ~Busy'
  BY <1>1, <1>3 DEF Busy, Working
<1>5. row' \in [Rows -> Verdicts] /\ \A r \in Rows : row'[r] = "PENDING"
  BY <1>1 DEF Verdicts
<1>6. batch' \in Batches /\ queue' \in Jobs /\ run' \in [Runners -> Runs] /\ QueueRuns'
  BY <1>1 DEF BatchInv, Types, QueueRuns
<1> QED
  BY <1>1, <1>2, <1>3, <1>4, <1>5, <1>6, RequestFits

LEMMA ResetRowsFits == BatchInv /\ ResetRows => BatchInv'
<1> SUFFICES ASSUME BatchInv, ResetRows
             PROVE  BatchInv'
  OBVIOUS
<1>1. /\ Goes("reset", "pend") /\ UNCHANGED <<kind, email, employees, invited, made, tries, clean>>
      /\ UNCHANGED <<batch, queue, run>>
      /\ row' = [r \in Rows |-> IF row[r] = "FAILED" THEN "PENDING" ELSE row[r]]
  BY DEF ResetRows, Keeps
<1>2. "reset" \in Calls \ {"rows"} /\ "pend" \in Calls
  BY DEF Calls
<1>3. /\ request["reset"] > 0 /\ request' \in [Calls -> Nat]
      /\ clean => ~Busy /\ \A j, k \in Calls :
            request'[k] <= 1 /\ (request'[j] > 0 /\ request'[k] > 0 => j = k)
  BY <1>1, <1>2, GoesFits
<1>4. clean => ~Busy'
  BY <1>1, <1>3 DEF Busy, Working
<1>5. row' \in [Rows -> Verdicts] /\ \A r \in Rows : row'[r] = row[r] \/ row'[r] = "PENDING"
  BY <1>1 DEF BatchInv, Types, Verdicts
<1>6. clean => \A r \in Rows : row'[r] # "none"
  BY <1>2, <1>3, <1>5 DEF BatchInv, OneAtATime, Asked
<1>7. batch' \in Batches /\ queue' \in Jobs /\ run' \in [Runners -> Runs] /\ QueueRuns'
  BY <1>1 DEF BatchInv, Types, QueueRuns
<1> QED
  BY <1>1, <1>2, <1>3, <1>4, <1>5, <1>6, <1>7, RequestFits

\* The status is written by a handler that has read it before.
LEMMA StatusWritten ==
    ASSUME BatchInv, NEW call \in Calls \ {"rows"}, NEW status \in {"PENDING", "PROCESSING"},
           Returns(call) \/ \E next \in Calls \ {call} : Goes(call, next),
           batch' = [batch EXCEPT !.status = status],
           UNCHANGED <<kind, email, row, employees, invited, queue, run, made, tries, clean>>
    PROVE  BatchInv'
<1>1. /\ request[call] > 0 /\ request' \in [Calls -> Nat]
      /\ clean => ~Busy /\ \A j, k \in Calls :
            request'[k] <= 1 /\ (request'[j] > 0 /\ request'[k] > 0 => j = k)
  <2>1. CASE Returns(call)
    BY <2>1, ReturnsFits
  <2>2. ASSUME NEW next \in Calls \ {call}, Goes(call, next)
        PROVE  <1>1!:
    BY <2>2, GoesFits
  <2> QED
    BY <2>1, <2>2
<1>2. clean => ~Busy'
  BY <1>1 DEF Busy, Working
<1>3. clean => \A r \in Rows : row'[r] # "none"
  BY <1>1 DEF BatchInv, OneAtATime, Asked
<1>4. batch' \in Batches /\ batch'.status = status
  BY DEF BatchInv, Types, Batches
<1>5. queue' \in Jobs /\ run' \in [Runners -> Runs] /\ QueueRuns' /\ row' \in [Rows -> Verdicts]
  BY DEF BatchInv, Types, QueueRuns, Verdicts
<1> QED
  BY <1>1, <1>2, <1>3, <1>4, <1>5, RequestFits

LEMMA EnqueueFits == BatchInv /\ Enqueue => BatchInv'
<1> SUFFICES ASSUME BatchInv, Enqueue
             PROVE  BatchInv'
  OBVIOUS
<1>1. /\ Returns("enqueue") /\ UNCHANGED <<kind, email, employees, invited, made, tries, clean>>
      /\ UNCHANGED <<batch, row, run>>
      /\ queue' = IF queue.state # "none" THEN queue ELSE [NoJob EXCEPT !.state = "waiting"]
  BY DEF Enqueue, Keeps, Added
<1>2. "enqueue" \in Calls \ {"rows"}
  BY DEF Calls
<1>3. /\ request["enqueue"] > 0 /\ request' \in [Calls -> Nat]
      /\ clean => ~Busy /\ \A k \in Calls : request'[k] = 0
  BY <1>1, <1>2, ReturnsFits
<1>4. clean => \A r \in Rows : row'[r] # "none"
  BY <1>1, <1>2, <1>3 DEF BatchInv, OneAtATime, Asked
<1>5. queue' \in Jobs /\ QueueRuns'
  <2>1. CASE queue.state # "none"
    BY <1>1, <2>1 DEF BatchInv, Types, QueueRuns
  <2>2. CASE queue.state = "none"
    BY <1>1, <2>2, NoJobFits DEF BatchInv, Types, QueueRuns, Unfinished
  <2> QED
    BY <2>1, <2>2
<1>6. clean => run'["inline"].pc = "idle" /\ run'["queue"].pc = "idle"
  BY <1>1, <1>3 DEF Busy, Working, Runners
<1>7. batch' \in Batches /\ run' \in [Runners -> Runs] /\ row' \in [Rows -> Verdicts]
  BY <1>1 DEF BatchInv, Types, Verdicts
<1> QED
  BY <1>1, <1>2, <1>3, <1>4, <1>5, <1>6, <1>7, RequestFits

LEMMA RunInlineFits == BatchInv /\ RunInline => BatchInv'
<1> SUFFICES ASSUME BatchInv, RunInline
             PROVE  BatchInv'
  OBVIOUS
<1>1. /\ Returns("enqueue") /\ UNCHANGED <<kind, email, employees, invited, made, tries>>
      /\ UNCHANGED <<batch, row>> /\ run["inline"].pc = "idle"
      /\ queue' \in {queue, Added} /\ clean' = (clean /\ queue' = queue)
      /\ run' = [run EXCEPT !["inline"] = [Asleep EXCEPT !.pc = "read"]]
  BY DEF RunInline, Keeps
<1>2. "enqueue" \in Calls \ {"rows"}
  BY DEF Calls
<1>3. /\ request["enqueue"] > 0 /\ request' \in [Calls -> Nat]
      /\ clean => ~Busy /\ \A k \in Calls : request'[k] = 0
  BY <1>1, <1>2, ReturnsFits
<1>4. clean => \A r \in Rows : row'[r] # "none"
  BY <1>1, <1>2, <1>3 DEF BatchInv, OneAtATime, Asked
<1>5. /\ [Asleep EXCEPT !.pc = "read"] \in Runs /\ [Asleep EXCEPT !.pc = "read"].pc = "read"
  BY AsleepFits DEF Pcs
<1>6. /\ run' \in [Runners -> Runs] /\ run'["queue"] = run["queue"]
      /\ \A p \in Runners : run'[p] = run[p] \/ run'[p].pc = "read"
  BY <1>1, <1>5 DEF BatchInv, Types, Runners
<1>7. queue' \in Jobs /\ QueueRuns'
  <2>1. CASE queue' = queue
    BY <1>1, <1>6, <2>1 DEF BatchInv, Types, QueueRuns
  <2>2. CASE queue' # queue
    <3>1. queue.state = "none" /\ queue' = [NoJob EXCEPT !.state = "waiting"]
      BY <1>1, <2>2 DEF Added
    <3>2. queue' \in Jobs /\ queue'.state = "waiting"
      BY <3>1, NoJobFits DEF Unfinished
    <3> QED
      BY <1>6, <3>1, <3>2 DEF BatchInv, QueueRuns
  <2> QED
    BY <2>1, <2>2
<1>8. clean' => run'["queue"].pc = "idle" /\ queue'.state \notin Unfinished
  BY <1>1, <1>3, <1>6 DEF Busy, Working, Runners
<1>9. batch' \in Batches /\ row' \in [Rows -> Verdicts]
  BY <1>1 DEF BatchInv, Types, Verdicts
<1>10. clean' = clean \/ clean' = FALSE
  <2>1. clean \in BOOLEAN
    BY DEF BatchInv, Types
  <2> QED
    BY <1>1, <2>1
<1>11. clean' => clean
  BY <1>10
<1>12. clean' => \A j, k \in Calls :
          request'[k] <= 1 /\ (request'[j] > 0 /\ request'[k] > 0 => j = k)
  BY <1>3, <1>11
<1>13. clean' /\ (Busy \/ Asked(Calls \ {"rows"}))' => \A x \in Rows : row'[x] # "none"
  BY <1>4, <1>11
<1>14. clean' /\ Busy' => /\ \A k \in Calls : request'[k] = 0
                          /\ run'["inline"].pc # "idle" =>
                                run'["queue"].pc = "idle" /\ queue'.state \notin Unfinished
  BY <1>3, <1>8, <1>11
<1> QED
  BY <1>1, <1>2, <1>3, <1>6, <1>7, <1>9, <1>10, <1>12, <1>13, <1>14, RequestFits

LEMMA RequestFaultFits == BatchInv /\ RequestFault => BatchInv'
<1> SUFFICES ASSUME BatchInv, RequestFault
             PROVE  BatchInv'
  OBVIOUS
<1>1. PICK call \in Calls \ {"enqueue"} : Returns(call)
  BY DEF RequestFault
<1>2. UNCHANGED <<kind, email, batch, row, employees, invited, queue, run, made, tries, clean>>
  BY DEF RequestFault, Keeps
<1>3. /\ request[call] > 0 /\ request' \in [Calls -> Nat]
      /\ clean => ~Busy /\ \A k \in Calls : request'[k] = 0
  BY <1>1, ReturnsFits
<1>4. clean => ~Busy' /\ ~Asked(Calls)'
  BY <1>2, <1>3 DEF Busy, Working, Asked
<1>5. /\ queue' \in Jobs /\ run' \in [Runners -> Runs] /\ QueueRuns' /\ row' \in [Rows -> Verdicts]
      /\ batch' \in Batches
  BY <1>2 DEF BatchInv, Types, QueueRuns, Verdicts
<1>6. clean => ~Asked(Calls \ {"rows"})'
  BY <1>4 DEF Asked
<1> QED
  BY <1>2, <1>3, <1>4, <1>5, <1>6, RequestFits

LEMMA HandlersFit == BatchInv /\ Handler => BatchInv'
<1> SUFFICES ASSUME BatchInv, Handler
             PROVE  BatchInv'
  OBVIOUS
<1>1. ASSUME NEW type \in Kinds, CreateBatchFromParsedRows(type)
      PROVE  BatchInv'
  BY <1>1, AsksFit DEF CreateBatchFromParsedRows, Calls
<1>2. CASE \/ CreateEmployeeCreationBatch \/ CreateEmployeeInvitationBatch
           \/ CreateBulkUpdateBatch \/ CreateSendInvitationsBatch
           \/ CreateAllowanceAllocationBatch \/ CreateDeductionAllocationBatch
  BY <1>1, <1>2 DEF CreateEmployeeCreationBatch, CreateEmployeeInvitationBatch,
     CreateBulkUpdateBatch, CreateSendInvitationsBatch, CreateAllowanceAllocationBatch,
     CreateDeductionAllocationBatch, Kinds
<1>3. CASE StartBatchJob
  BY <1>3, AsksFit DEF StartBatchJob, Calls
<1>4. CASE RetryBatchJob
  BY <1>4, AsksFit DEF RetryBatchJob, Calls
<1>5. CASE ResetBatch
  BY <1>5, StatusWritten DEF ResetBatch, Keeps, Calls
<1>6. CASE BeginBatchJobProcessing
  BY <1>6, StatusWritten DEF BeginBatchJobProcessing, Keeps, Calls
<1> QED
  BY <1>2, <1>3, <1>4, <1>5, <1>6, CreateRowsFits, ResetRowsFits, EnqueueFits, RunInlineFits,
     RequestFaultFits DEF Handler

-----------------------------------------------------------------------------
(* The queue and a crash                                                   *)

\* What the queue does leaves what runs have done.
LEMMA QueueFits ==
    ASSUME BatchInv, UNCHANGED <<kind, email, batch, row, employees, invited, made, tries, clean>>,
           queue' \in Jobs, run' \in [Runners -> Runs], QueueRuns',
           request' = request \/ request' = NoRequest,
           \A p \in Runners : run'[p] = run[p] \/ run'[p].pc \in {"idle", "read"},
           Busy' => Busy,
           clean /\ run'["inline"].pc # "idle" =>
              run'["queue"].pc = "idle" /\ queue'.state \notin Unfinished
    PROVE  BatchInv'
<1>1. request' \in [Calls -> Nat] /\ \A k \in Calls : request'[k] = request[k] \/ request'[k] = 0
  BY DEF BatchInv, Types, NoRequest
<1>2. \A S \in SUBSET Calls : Asked(S)' => Asked(S)
  BY <1>1 DEF Asked
<1>3. Types'
  BY <1>1 DEF BatchInv, Types
<1>4. RunsHaveRows' /\ NothingBefore'
  BY <1>2 DEF BatchInv, RunsHaveRows, NothingBefore
<1>5. OneAtATime'
  <2> SUFFICES ASSUME clean
               PROVE  OneAtATime'
    BY DEF OneAtATime
  <2>1. \A k \in Calls : request'[k] > 0 => request'[k] = 1 /\ ~Asked(Calls \ {k})' /\ ~Busy'
    BY <1>1, <1>2 DEF BatchInv, OneAtATime
  <2>2. Busy' \/ Asked(Calls \ {"rows"})' => Busy \/ Asked(Calls \ {"rows"})
    BY <1>2
  <2>3. Busy' \/ Asked(Calls \ {"rows"})' => \A r \in Rows : row'[r] # "none"
    BY <2>2 DEF BatchInv, OneAtATime
  <2>4. run'["inline"].pc # "idle" =>
           run'["queue"].pc = "idle" /\ queue'.state \notin Unfinished
    OBVIOUS
  <2> QED
    BY <2>1, <2>3, <2>4 DEF OneAtATime
<1>6. AttemptsFit'
  <2>1. \A r \in Rows : row'[r] = row[r]
    OBVIOUS
  <2>2. \A p \in Runners : run'[p] = run[p] \/ run'[p].pc \notin Doing \cup Writing
    OBVIOUS
  <2> QED
    BY <2>1, <2>2, AttemptsStay DEF BatchInv
<1>7. ServedOnce'
  <2>1. \A p \in Runners : run'[p] = run[p] \/ run'[p].pc # "effect"
    OBVIOUS
  <2> QED
    BY <2>1, ServedStays DEF BatchInv, Types
<1>8. RunsKnow'
  <2> SUFFICES ASSUME clean, NEW p \in Runners
               PROVE  Knows(p)'
    BY DEF RunsKnow
  <2>1. Pending' = Pending /\ Counted("SUCCESS")' = Counted("SUCCESS")
        /\ Counted("FAILED")' = Counted("FAILED")
    BY DEF Pending, Counted
  <2>2. CASE run'[p] = run[p]
    BY <2>1, <2>2 DEF BatchInv, RunsKnow, Knows, At
  <2>3. CASE run'[p].pc \in {"idle", "read"}
    BY <2>3 DEF Knows, At
  <2> QED
    BY <2>2, <2>3
<1>9. CompletedIsLeft' /\ CompletedIsWhole'
  BY <1>2 DEF BatchInv, CompletedIsLeft, CompletedIsWhole, Counted
<1> QED
  BY <1>3, <1>4, <1>5, <1>6, <1>7, <1>8, <1>9 DEF BatchInv

LEMMA FetchFits == BatchInv /\ Fetch => BatchInv'
<1> SUFFICES ASSUME BatchInv, Fetch
             PROVE  BatchInv'
  OBVIOUS
<1>1. /\ queue.state = "waiting" /\ run["queue"].pc = "idle"
      /\ queue' = [queue EXCEPT !.state = "active"]
      /\ run' = [run EXCEPT !["queue"] = [Asleep EXCEPT !.pc = "read"]]
      /\ UNCHANGED <<kind, email, batch, row, employees, invited, request, made, tries, clean>>
  BY DEF Fetch, QueueOnly
<1>2. Busy
  BY <1>1 DEF Busy, Unfinished
<1>3. /\ [Asleep EXCEPT !.pc = "read"] \in Runs /\ [Asleep EXCEPT !.pc = "read"].pc = "read"
  BY AsleepFits DEF Pcs
<1>4. /\ run' \in [Runners -> Runs] /\ run'["inline"] = run["inline"]
      /\ run'["queue"].pc = "read"
  BY <1>1, <1>3 DEF BatchInv, Types, Runners
<1>5. queue' \in Jobs /\ queue'.state = "active"
  BY <1>1 DEF BatchInv, Types, Jobs, Unfinished
<1>6. \A p \in Runners : run'[p] = run[p] \/ run'[p].pc \in {"idle", "read"}
  BY <1>4 DEF Runners
<1>7. QueueRuns'
  BY <1>4, <1>5 DEF QueueRuns
<1>8. clean => run["inline"].pc = "idle"
  BY <1>1 DEF BatchInv, OneAtATime, Unfinished
<1> QED
  BY <1>1, <1>2, <1>4, <1>5, <1>6, <1>7, <1>8, QueueFits

LEMMA PromoteFits == BatchInv /\ Promote => BatchInv'
<1> SUFFICES ASSUME BatchInv, Promote
             PROVE  BatchInv'
  OBVIOUS
<1>1. /\ queue.state = "delayed" /\ queue' = [queue EXCEPT !.state = "waiting"] /\ run' = run
      /\ UNCHANGED <<kind, email, batch, row, employees, invited, request, made, tries, clean>>
  BY DEF Promote, QueueOnly
<1>2. Busy
  BY <1>1 DEF Busy, Unfinished
<1>3. queue' \in Jobs /\ queue'.state = "waiting"
  BY <1>1 DEF BatchInv, Types, Jobs, Unfinished
<1>4. QueueRuns'
  BY <1>1, <1>3 DEF BatchInv, QueueRuns
<1>5. clean => run["inline"].pc = "idle"
  BY <1>1 DEF BatchInv, OneAtATime, Unfinished
<1>6. run' \in [Runners -> Runs]
  BY <1>1 DEF BatchInv, Types
<1> QED
  BY <1>1, <1>2, <1>3, <1>4, <1>5, <1>6, QueueFits

LEMMA ForgetFits == BatchInv /\ Forget => BatchInv'
<1> SUFFICES ASSUME BatchInv, Forget
             PROVE  BatchInv'
  OBVIOUS
<1>1. /\ queue.state \in {"completed", "failed"} /\ queue' = NoJob /\ run' = run
      /\ UNCHANGED <<kind, email, batch, row, employees, invited, request, made, tries, clean>>
  BY DEF Forget, QueueOnly
<1>2. queue' \in Jobs /\ queue'.state = "none"
  BY <1>1, NoJobFits
<1>3. QueueRuns' /\ (Busy' => Busy)
  BY <1>1, <1>2 DEF BatchInv, QueueRuns, Busy, Working, Unfinished
<1>4. clean /\ run'["inline"].pc # "idle" =>
         run'["queue"].pc = "idle" /\ queue'.state \notin Unfinished
  BY <1>1, <1>2 DEF BatchInv, OneAtATime, Unfinished
<1>5. run' \in [Runners -> Runs]
  BY <1>1 DEF BatchInv, Types
<1> QED
  BY <1>1, <1>2, <1>3, <1>4, <1>5, QueueFits

LEMMA CrashFits == BatchInv /\ Crash => BatchInv'
<1> SUFFICES ASSUME BatchInv, Crash
             PROVE  BatchInv'
  OBVIOUS
<1>1. /\ Working # {} /\ run' = [p \in Runners |-> Asleep] /\ request' = NoRequest
      /\ queue' = AfterStall(queue)
      /\ UNCHANGED <<kind, email, batch, row, employees, invited, made, tries, clean>>
  BY DEF Crash
<1>2. Busy
  BY <1>1 DEF Busy
<1>3. PICK q \in Jobs : q = queue
  BY DEF BatchInv, Types
<1>4. queue' \in Jobs /\ queue'.state # "active"
  BY <1>1, <1>3, AfterStallFits
<1>5. run' \in [Runners -> Runs] /\ \A p \in Runners : run'[p].pc = "idle"
  BY <1>1, AsleepFits
<1>6. QueueRuns'
  BY <1>4, <1>5 DEF QueueRuns, Runners
<1>7. run'["inline"].pc = "idle"
  BY <1>5 DEF Runners
<1> QED
  BY <1>1, <1>2, <1>4, <1>5, <1>6, <1>7, QueueFits

-----------------------------------------------------------------------------
(* A step of a run                                                         *)

\* Requests that came alone leave one run at work, and no call to be made.
LEMMA WorksAlone ==
    ASSUME BatchInv, clean, NEW p \in Runners, run[p].pc # "idle"
    PROVE  /\ \A q \in Runners \ {p} : run[q].pc = "idle"
           /\ p = "inline" => queue.state \notin Unfinished
           /\ ~Asked(Calls) /\ \A r \in Rows : row[r] # "none"
           /\ batch.status # "COMPLETED"
<1>1. Busy
  BY DEF Busy, Working
<1>2. \A q \in Runners \ {p} : run[q].pc = "idle"
  BY DEF BatchInv, OneAtATime, Runners
<1>3. p = "inline" => queue.state \notin Unfinished
  BY DEF BatchInv, OneAtATime
<1>4. ~Asked(Calls) /\ \A r \in Rows : row[r] # "none"
  BY <1>1 DEF BatchInv, OneAtATime, Asked
<1>5. batch.status # "COMPLETED"
  BY <1>1 DEF BatchInv, CompletedIsLeft
<1> QED
  BY <1>2, <1>3, <1>4, <1>5

LEMMA RunFits ==
    ASSUME BatchInv, NEW p \in Runners, run[p].pc # "idle",
           NEW r \in Runs, run' = [run EXCEPT ![p] = r],
           UNCHANGED <<kind, email, request, clean>>,
           r.pc \in Holding => r.left # {},
           \/ queue' = queue /\ (r.pc = "idle" => p = "inline")
           \/ /\ r.pc = "idle" /\ p = "queue"
              /\ queue' \in Jobs /\ queue'.state \in {"completed", "delayed", "failed"},
           employees' \subseteq Emails, invited' \subseteq Emails, batch' \in Batches,
           row' \in [Rows -> Verdicts], made' \in [Rows -> Nat], tries' \in [Rows -> Nat],
           batch'.status = "none" <=> batch.status = "none",
           \A x \in Rows : row[x] # "none" => row'[x] # "none",
           AttemptsFit', ServedOnce',
           clean => Knows(p)' /\ CompletedIsWhole',
           clean /\ batch'.status = "COMPLETED" =>
              r.pc = "idle" /\ queue'.state \notin Unfinished
    PROVE  BatchInv'
<1>1. /\ run' \in [Runners -> Runs] /\ run'[p] = r
      /\ \A q \in Runners \ {p} : run'[q] = run[q]
  BY DEF BatchInv, Types
<1>2. Types'
  <2>1. queue' \in Jobs
    BY DEF BatchInv, Types
  <2> QED
    BY <1>1, <2>1 DEF BatchInv, Types, Verdicts
<1>3. RunsHaveRows'
  BY <1>1 DEF BatchInv, RunsHaveRows
<1>4. QueueRuns'
  BY <1>1 DEF BatchInv, QueueRuns, Runners
<1>5. Busy /\ kind # "none"
  BY DEF BatchInv, NothingBefore, Busy, Working
<1>6. NothingBefore'
  BY <1>5 DEF BatchInv, NothingBefore
<1>7. OneAtATime'
  <2> SUFFICES ASSUME clean
               PROVE  OneAtATime'
    BY DEF OneAtATime
  <2>1. \A k \in Calls : ~(request'[k] > 0)
    BY WorksAlone DEF Asked
  <2>2. \A x \in Rows : row'[x] # "none"
    BY WorksAlone
  <2>3. run'["inline"].pc # "idle" =>
           run'["queue"].pc = "idle" /\ queue'.state \notin Unfinished
    BY <1>1, WorksAlone DEF Runners
  <2> QED
    BY <2>1, <2>2, <2>3 DEF OneAtATime
<1>8. RunsKnow'
  <2> SUFFICES ASSUME clean, NEW q \in Runners, q # p
               PROVE  Knows(q)'
    BY DEF RunsKnow
  <2>1. run'[q].pc = "idle"
    BY <1>1, WorksAlone
  <2> QED
    BY <2>1 DEF Knows, At
<1>9. CompletedIsLeft'
  <2> SUFFICES ASSUME clean, batch'.status = "COMPLETED"
               PROVE  ~Busy' /\ ~Asked(Calls)'
    BY DEF CompletedIsLeft
  <2>1. ~Asked(Calls)'
    BY WorksAlone DEF Asked
  <2>2. \A q \in Runners : run'[q].pc = "idle"
    BY <1>1, WorksAlone
  <2> QED
    BY <2>1, <2>2 DEF Busy, Working
<1>10. CompletedIsWhole'
  BY DEF CompletedIsWhole
<1> QED
  BY <1>2, <1>3, <1>4, <1>6, <1>7, <1>8, <1>9, <1>10 DEF BatchInv

\* A step that touches no row and no address.
LEMMA PlainFits ==
    ASSUME BatchInv, NEW p \in Runners, run[p].pc # "idle",
           NEW r \in Runs, run' = [run EXCEPT ![p] = r], r.pc \notin Doing \cup Writing,
           UNCHANGED <<row, employees, invited, made, tries>>, RunsOnly,
           r.pc = "row" => r.left # {},
           \/ queue' = queue /\ (r.pc = "idle" => p = "inline")
           \/ /\ r.pc = "idle" /\ p = "queue"
              /\ queue' \in Jobs /\ queue'.state \in {"completed", "delayed", "failed"},
           batch' \in Batches, batch'.status = "none" <=> batch.status = "none",
           clean => Knows(p)' /\ CompletedIsWhole',
           clean /\ batch'.status = "COMPLETED" =>
              r.pc = "idle" /\ queue'.state \notin Unfinished
    PROVE  BatchInv'
<1>1. UNCHANGED <<kind, email, request, clean>>
  BY DEF RunsOnly
<1>2. \A q \in Runners : run'[q] = run[q] \/ run'[q].pc \notin Doing \cup Writing
  BY DEF BatchInv, Types
<1>3. AttemptsFit'
  BY <1>2, AttemptsStay DEF BatchInv
<1>4. ServedOnce'
  BY <1>1, <1>2, ServedStays DEF BatchInv, Types
<1>5. /\ employees' \subseteq Emails /\ invited' \subseteq Emails
      /\ row' \in [Rows -> Verdicts] /\ made' \in [Rows -> Nat] /\ tries' \in [Rows -> Nat]
  BY DEF BatchInv, Types, Verdicts
<1> QED
  BY <1>1, <1>3, <1>4, <1>5, RunFits

\* How a run that ends leaves the queue.
LEMMA EndsFits ==
    ASSUME BatchInv, NEW p \in Runners, NEW well \in BOOLEAN, Ends(p, well)
    PROVE  /\ run' = [run EXCEPT ![p] = Asleep]
           /\ \/ queue' = queue /\ p = "inline"
              \/ /\ p = "queue" /\ queue' \in Jobs
                 /\ queue'.state \in {"completed", "delayed", "failed"}
                 /\ well => queue'.state = "completed"
<1>1. PICK q \in Jobs : q = queue
  BY DEF BatchInv, Types
<1>2. AfterFailure(q) \in Jobs /\ AfterFailure(q).state \in {"delayed", "failed"}
  BY AfterFailureFits
<1>3. CASE p = "inline"
  BY <1>3 DEF Ends
<1>4. CASE p = "queue"
  BY <1>1, <1>2, <1>4, NoJobFits DEF Ends
<1> QED
  BY <1>3, <1>4 DEF Runners, Ends

\* A run that ends, and writes nothing but the status of its batch.
LEMMA EndingFits ==
    ASSUME BatchInv, NEW p \in Runners, run[p].pc # "idle", NEW well \in BOOLEAN, Ends(p, well),
           UNCHANGED <<row, employees, invited, made, tries>>, RunsOnly,
           batch' \in Batches, batch'.status = "none" <=> batch.status = "none",
           clean => CompletedIsWhole',
           clean /\ batch'.status = "COMPLETED" => well
    PROVE  BatchInv'
<1>1. /\ run' = [run EXCEPT ![p] = Asleep]
      /\ \/ queue' = queue /\ p = "inline"
         \/ /\ p = "queue" /\ queue' \in Jobs
            /\ queue'.state \in {"completed", "delayed", "failed"}
            /\ well => queue'.state = "completed"
  BY EndsFits
<1>2. Asleep \in Runs /\ Asleep.pc = "idle"
  BY AsleepFits
<1>3. Knows(p)'
  BY <1>1, <1>2 DEF Knows, At, BatchInv, Types
<1>4. clean /\ batch'.status = "COMPLETED" => queue'.state \notin Unfinished
  BY <1>1, WorksAlone DEF Unfinished
<1> QED
  BY <1>1, <1>2, <1>3, <1>4, PlainFits

LEMMA ReadBatchFits ==
    ASSUME BatchInv, NEW p \in Runners, ReadBatch(p)
    PROVE  BatchInv'
<1>1. /\ run[p].pc = "read" /\ batch' = batch
      /\ UNCHANGED <<row, employees, invited, made, tries>> /\ RunsOnly
  BY DEF ReadBatch, At
<1>2. clean => batch.status # "COMPLETED"
  BY <1>1, WorksAlone
<1>3. batch' \in Batches /\ (clean => CompletedIsWhole')
  BY <1>1, <1>2 DEF BatchInv, Types, CompletedIsWhole
<1>4. CASE batch.status = "COMPLETED"
  <2>1. Ends(p, TRUE)
    BY <1>4 DEF ReadBatch
  <2> QED
    BY <1>1, <1>2, <1>3, <2>1, EndingFits
<1>5. CASE batch.status # "COMPLETED"
  <2>1. run' = [run EXCEPT ![p] = [run[p] EXCEPT !.pc = "fetch"]] /\ queue' = queue
    BY <1>5 DEF ReadBatch, Moves
  <2>2. PICK r \in Runs : r = [run[p] EXCEPT !.pc = "fetch"] /\ r.pc = "fetch"
    <3>1. PICK q \in Runs : q = run[p]
      BY DEF BatchInv, Types
    <3>2. PICK pc \in Pcs : pc = "fetch"
      BY DEF Pcs
    <3>3. [q EXCEPT !.pc = pc] \in Runs /\ [q EXCEPT !.pc = pc].pc = pc
      BY DEF Runs
    <3> QED
      BY <3>1, <3>2, <3>3
  <2>3. r.pc = "fetch"
    BY <2>2
  <2>4. Knows(p)'
    BY <2>1, <2>2, <2>3 DEF Knows, At, BatchInv, Types
  <2> QED
    BY <1>1, <1>2, <1>3, <2>1, <2>2, <2>3, <2>4, PlainFits
<1> QED
  BY <1>4, <1>5

LEMMA FetchRowsFits ==
    ASSUME BatchInv, NEW p \in Runners, FetchRows(p)
    PROVE  BatchInv'
<1>1. /\ run[p].pc = "fetch" /\ UNCHANGED <<batch, row, employees, invited, made, tries, queue>>
      /\ RunsOnly
      /\ run' = [run EXCEPT ![p] = [run[p] EXCEPT !.left = Pending,
                                       !.pc = IF Pending = {} THEN "count" ELSE "row"]]
  BY DEF FetchRows, At, Moves, Pending
<1>2. clean => batch.status # "COMPLETED"
  BY <1>1, WorksAlone
<1>3. batch' \in Batches /\ (clean => CompletedIsWhole')
  BY <1>1, <1>2 DEF BatchInv, Types, CompletedIsWhole
<1>4. PICK r \in Runs : /\ run' = [run EXCEPT ![p] = r] /\ r.left = Pending
                        /\ r.pc = IF Pending = {} THEN "count" ELSE "row"
  <2>1. PICK q \in Runs : q = run[p]
    BY DEF BatchInv, Types
  <2>2. PICK pc \in Pcs : pc = IF Pending = {} THEN "count" ELSE "row"
    BY DEF Pcs
  <2>3. PICK left \in SUBSET Rows : left = Pending
    BY DEF Pending
  <2>4. /\ [q EXCEPT !.left = left, !.pc = pc] \in Runs
        /\ [q EXCEPT !.left = left, !.pc = pc].left = left
        /\ [q EXCEPT !.left = left, !.pc = pc].pc = pc
    BY DEF Runs
  <2> QED
    BY <1>1, <2>1, <2>2, <2>3, <2>4
<1>5. r.pc \notin {"idle"} \cup Doing \cup Writing /\ (r.pc = "row" => r.left # {})
  BY <1>4
<1>6. Pending' = Pending
  BY <1>1 DEF Pending
<1>7. Knows(p)'
  BY <1>1, <1>4, <1>5, <1>6 DEF Knows, At, BatchInv, Types
<1> QED
  BY <1>1, <1>2, <1>3, <1>4, <1>5, <1>7, PlainFits

LEMMA CountRowsFits ==
    ASSUME BatchInv, NEW p \in Runners, CountRows(p)
    PROVE  BatchInv'
<1>1. PICK good \in 0..NumRows, bad \in 0..NumRows :
         good = Counted("SUCCESS") /\ bad = Counted("FAILED")
  BY CountsFit
<1>2. /\ run[p].pc = "count" /\ UNCHANGED <<batch, row, employees, invited, made, tries, queue>>
      /\ RunsOnly
      /\ run' = [run EXCEPT ![p] = [run[p] EXCEPT !.tally = <<good, bad>>, !.pc = "sync"]]
  BY <1>1 DEF CountRows, At, Moves
<1>3. clean => batch.status # "COMPLETED"
  BY <1>2, WorksAlone
<1>4. batch' \in Batches /\ (clean => CompletedIsWhole')
  BY <1>2, <1>3 DEF BatchInv, Types, CompletedIsWhole
<1>5. PICK r \in Runs : /\ run' = [run EXCEPT ![p] = r] /\ r.tally = <<good, bad>>
                        /\ r.pc = "sync" /\ r.left = run[p].left
  <2>1. PICK q \in Runs : q = run[p]
    BY DEF BatchInv, Types
  <2>2. PICK tally \in (0..NumRows) \X (0..NumRows) : tally = <<good, bad>>
    OBVIOUS
  <2>3. PICK pc \in Pcs : pc = "sync"
    BY DEF Pcs
  <2>4. /\ [q EXCEPT !.tally = tally, !.pc = pc] \in Runs
        /\ [q EXCEPT !.tally = tally, !.pc = pc].tally = tally
        /\ [q EXCEPT !.tally = tally, !.pc = pc].pc = pc
        /\ [q EXCEPT !.tally = tally, !.pc = pc].left = q.left
    BY DEF Runs
  <2> QED
    BY <1>2, <2>1, <2>2, <2>3, <2>4
<1>6. r.pc \notin {"idle"} \cup Holding
  BY <1>5
<1>7. Pending' = Pending /\ Counted("SUCCESS")' = good /\ Counted("FAILED")' = bad
  BY <1>1, <1>2 DEF Pending, Counted
<1>8. clean => run[p].left = Pending
  BY <1>2 DEF BatchInv, RunsKnow, Knows
<1>9. run'[p] = r
  BY <1>2, <1>5 DEF BatchInv, Types
<1>10. clean => Knows(p)'
  BY <1>5, <1>7, <1>8, <1>9 DEF Knows, At
<1> QED
  BY <1>2, <1>3, <1>4, <1>5, <1>6, <1>10, PlainFits

LEMMA SyncJobCountsFits ==
    ASSUME BatchInv, NEW p \in Runners, SyncJobCounts(p)
    PROVE  BatchInv'
<1>1. PICK good \in 0..NumRows, bad \in 0..NumRows : run[p].tally = <<good, bad>>
  BY DEF BatchInv, Types, Runs
<1>2. PICK pc \in Pcs : pc = IF run[p].left = {} THEN "complete" ELSE "row"
  BY DEF Pcs
<1>3. /\ run[p].pc = "sync" /\ UNCHANGED <<row, employees, invited, made, tries, queue>>
      /\ RunsOnly
      /\ batch' = [batch EXCEPT !.success = good, !.failed = bad]
      /\ run' = [run EXCEPT ![p] = [run[p] EXCEPT !.tally = <<0, 0>>, !.pc = pc]]
  BY <1>1, <1>2 DEF SyncJobCounts, At, Moves
<1>4. clean => batch.status # "COMPLETED"
  BY <1>3, WorksAlone
<1>5. /\ batch' \in Batches /\ batch'.status = batch.status
      /\ batch'.success = good /\ batch'.failed = bad
  BY <1>3 DEF BatchInv, Types, Batches
<1>6. clean => CompletedIsWhole'
  BY <1>4, <1>5 DEF CompletedIsWhole
<1>7. <<0, 0>> \in (0..NumRows) \X (0..NumRows)
  BY BatchAssumption
<1>8. PICK r \in Runs : r = [run[p] EXCEPT !.tally = <<0, 0>>, !.pc = pc]
  BY <1>7 DEF BatchInv, Types, Runs
<1>9. r.pc = pc /\ r.left = run[p].left
  BY <1>8 DEF BatchInv, Types, Runs
<1>10. Pending' = Pending /\ Counted("SUCCESS")' = Counted("SUCCESS")
       /\ Counted("FAILED")' = Counted("FAILED")
  BY <1>3 DEF Pending, Counted
<1>11. clean => run[p].left = Pending /\ good = Counted("SUCCESS") /\ bad = Counted("FAILED")
  BY <1>1, <1>3 DEF BatchInv, RunsKnow, Knows, At
<1>12. run'[p] = r
  BY <1>3, <1>8 DEF BatchInv, Types
<1>13. clean => Knows(p)'
  BY <1>2, <1>5, <1>9, <1>10, <1>11, <1>12 DEF Knows, At
<1>14. r.pc \notin {"idle"} \cup Doing \cup Writing /\ (r.pc = "row" => r.left # {})
  BY <1>2, <1>9
<1> QED
  BY <1>3, <1>4, <1>5, <1>6, <1>8, <1>13, <1>14, PlainFits

LEMMA CompleteBatchFits ==
    ASSUME BatchInv, NEW p \in Runners, CompleteBatch(p)
    PROVE  BatchInv'
<1>1. /\ run[p].pc = "complete" /\ UNCHANGED <<row, employees, invited, made, tries>>
      /\ RunsOnly /\ Ends(p, TRUE) /\ batch' = [batch EXCEPT !.status = "COMPLETED"]
  BY DEF CompleteBatch, At
<1>2. /\ batch' \in Batches /\ batch'.status = "COMPLETED"
      /\ batch'.success = batch.success /\ batch'.failed = batch.failed
  BY <1>1 DEF BatchInv, Types, Batches
<1>3. batch.status # "none"
  BY <1>1 DEF BatchInv, NothingBefore, Busy, Working
<1>4. clean => CompletedIsWhole'
  <2> SUFFICES ASSUME clean
               PROVE  CompletedIsWhole'
    OBVIOUS
  <2>1. /\ run[p].left = {} /\ run[p].left = Pending
        /\ batch.success = Counted("SUCCESS") /\ batch.failed = Counted("FAILED")
    BY <1>1 DEF BatchInv, RunsKnow, Knows, At
  <2>2. \A r \in Rows : row[r] # "none"
    BY <1>1, WorksAlone
  <2>3. \A r \in Rows : row[r] \in {"SUCCESS", "FAILED"}
    BY <2>1, <2>2 DEF Pending, BatchInv, Types
  <2>4. Counted("SUCCESS")' = Counted("SUCCESS") /\ Counted("FAILED")' = Counted("FAILED")
    BY <1>1 DEF Counted
  <2> QED
    BY <1>1, <1>2, <2>1, <2>3, <2>4 DEF CompletedIsWhole
<1> QED
  BY <1>1, <1>2, <1>3, <1>4, EndingFits

LEMMA FailBatchFits ==
    ASSUME BatchInv, NEW p \in Runners, FailBatch(p)
    PROVE  BatchInv'
<1>1. /\ run[p].pc = "fail" /\ UNCHANGED <<row, employees, invited, made, tries>>
      /\ RunsOnly /\ Ends(p, FALSE) /\ batch' = [batch EXCEPT !.status = "FAILED"]
  BY DEF FailBatch, At
<1>2. batch' \in Batches /\ batch'.status = "FAILED"
  BY <1>1 DEF BatchInv, Types, Batches
<1>3. batch.status # "none"
  BY <1>1 DEF BatchInv, NothingBefore, Busy, Working
<1>4. CompletedIsWhole'
  BY <1>2 DEF CompletedIsWhole
<1> QED
  BY <1>1, <1>2, <1>3, <1>4, EndingFits

LEMMA ThrowBatchFits ==
    ASSUME BatchInv, NEW p \in Runners, ThrowBatch(p)
    PROVE  BatchInv'
<1>1. /\ run[p].pc # "idle" /\ UNCHANGED <<batch, row, employees, invited, made, tries>>
      /\ RunsOnly /\ Ends(p, FALSE)
  BY DEF ThrowBatch
<1>2. clean => batch.status # "COMPLETED"
  BY <1>1, WorksAlone
<1>3. batch' \in Batches /\ (clean => CompletedIsWhole')
  BY <1>1, <1>2 DEF BatchInv, Types, CompletedIsWhole
<1> QED
  BY <1>1, <1>2, <1>3, EndingFits

LEMMA RunFaultFits ==
    ASSUME BatchInv, NEW p \in Runners, RunFault(p)
    PROVE  BatchInv'
<1>1. /\ run[p].pc # "idle" /\ UNCHANGED <<batch, row, employees, invited, made, tries, queue>>
      /\ RunsOnly /\ run' = [run EXCEPT ![p] = [Asleep EXCEPT !.pc = "fail"]]
  BY DEF RunFault, Moves
<1>2. clean => batch.status # "COMPLETED"
  BY <1>1, WorksAlone
<1>3. batch' \in Batches /\ (clean => CompletedIsWhole')
  BY <1>1, <1>2 DEF BatchInv, Types, CompletedIsWhole
<1>4. PICK r \in Runs : r = [Asleep EXCEPT !.pc = "fail"] /\ r.pc = "fail"
  BY AsleepFits DEF Pcs
<1>5. Knows(p)'
  BY <1>1, <1>4 DEF Knows, At, BatchInv, Types
<1> QED
  BY <1>1, <1>2, <1>3, <1>4, <1>5, PlainFits

-----------------------------------------------------------------------------
(* Attempts                                                                *)

\* A row is tried: it is checked, or goes wrong before that.
LEMMA TryFits ==
    ASSUME BatchInv, NEW p \in Runners, run[p].pc = "row", NEW r \in Runs,
           run' = [run EXCEPT ![p] = r], r.left = run[p].left, r.pc \in {"effect", "write"},
           r.pc = "write" => ~r.ok,
           tries' = [tries EXCEPT ![Current(p)] = Min({@ + 1, 2})],
           UNCHANGED <<row, made>>
    PROVE  AttemptsFit' /\ tries' \in [Rows -> Nat]
<1> DEFINE x == Current(p)
<1>1. PICK n \in Nat : n = tries[x]
  BY CurrentFits DEF BatchInv, Types
<1>2. PICK m \in Nat : m = Min({n + 1, 2}) /\ m > 0 /\ (n > 0 => m > 1)
  BY OneTryMore
<1>3. x \in Rows /\ tries' = [tries EXCEPT ![x] = m]
  BY <1>1, <1>2, CurrentFits DEF BatchInv
<1>4. /\ tries' \in [Rows -> Nat] /\ tries'[x] = m
      /\ \A y \in Rows \ {x} : tries'[y] = tries[y]
  BY <1>3 DEF BatchInv, Types
<1>5. run'[p] = r /\ \A q \in Runners \ {p} : run'[q] = run[q]
  BY DEF BatchInv, Types
<1>6. \A y \in Rows : /\ Trying(p, y)' <=> y = x
                      /\ \A q \in Runners \ {p} : Trying(q, y)' <=> Trying(q, y)
  BY <1>5 DEF Trying, Current
<1>7. \A y \in Rows : ~Trying(p, y)
  BY DEF Trying
<1>8. \A y \in Rows : RowFits(y) /\ \A q \in Runners : AttemptFits(q, y)
  BY DEF BatchInv, AttemptsFit
<1>9. \A y \in Rows : row'[y] = row[y] /\ made'[y] = made[y] /\ made[y] \in Nat /\ tries[y] \in Nat
  BY DEF BatchInv, Types
<1>10. ASSUME NEW y \in Rows
       PROVE  RowFits(y)'
  <2>1. CASE y = x
    BY <1>1, <1>2, <1>4, <1>8, <1>9, <2>1 DEF RowFits
  <2>2. CASE y # x
    BY <1>4, <1>8, <1>9, <2>2 DEF RowFits
  <2> QED
    BY <2>1, <2>2
<1> HIDE DEF x
<1>11. ASSUME NEW y \in Rows, NEW q \in Runners
       PROVE  AttemptFits(q, y)'
  <2>1. CASE y = x /\ q = p
    <3>1. \A s \in Runners \ {p} : Trying(s, x) => n > 0
      BY <1>1, <1>3, <1>8 DEF AttemptFits
    <3>2. (row[x] = "FAILED" => n > 0) /\ (made[x] > 0 => n > 0)
      BY <1>1, <1>3, <1>8 DEF RowFits
    <3>3. /\ tries'[y] = m /\ m > 0 /\ (row'[y] = "FAILED" => m > 1) /\ (made'[y] > 0 => m > 1)
          /\ \A s \in Runners \ {p} : Trying(s, y)' => m > 1
      BY <1>2, <1>3, <1>4, <1>6, <1>9, <2>1, <3>1, <3>2
    <3>4. run'[p].pc = "write" => ~run'[p].ok
      BY <1>5
    <3> QED
      BY <2>1, <3>3, <3>4 DEF AttemptFits
  <2>2. CASE y = x /\ q # p
    <3>1. Trying(q, x) => n > 0
      BY <1>1, <1>3, <1>8 DEF AttemptFits
    <3>2. Trying(q, x) => (run[q].pc \in Writing /\ run[q].ok => made[x] > 0)
      BY <1>3, <1>8 DEF AttemptFits
    <3> QED
      BY <1>1, <1>2, <1>3, <1>4, <1>5, <1>6, <1>9, <2>2, <3>1, <3>2 DEF AttemptFits
  <2>3. CASE y # x
    <3>1. AttemptFits(q, y) /\ tries'[y] = tries[y]
      BY <1>4, <1>8, <2>3
    <3>2. \A s \in Runners : Trying(s, y)' => Trying(s, y) /\ run'[s] = run[s]
      BY <1>5, <1>6, <2>3
    <3> QED
      BY <1>9, <3>1, <3>2 DEF AttemptFits
  <2> QED
    BY <2>1, <2>2, <2>3
<1> QED
  BY <1>4, <1>10, <1>11 DEF AttemptsFit

\* A row does what it is for, or goes wrong at that.
LEMMA EffectFits ==
    ASSUME BatchInv, NEW p \in Runners, run[p].pc \in Doing, NEW r \in Runs,
           run' = [run EXCEPT ![p] = r], r.left = run[p].left, r.pc \in Writing,
           made' = [made EXCEPT ![Current(p)] = IF r.ok THEN @ + 1 ELSE @],
           UNCHANGED <<row, tries>>
    PROVE  AttemptsFit' /\ made' \in [Rows -> Nat]
<1> DEFINE x == Current(p)
<1>1. PICK n \in Nat : n = made[x]
  BY CurrentFits DEF BatchInv, Types
<1>2. PICK m \in Nat : m = IF r.ok THEN n + 1 ELSE n
  OBVIOUS
<1>3. x \in Rows /\ made' = [made EXCEPT ![x] = m]
  BY <1>1, <1>2, CurrentFits DEF BatchInv
<1>4. /\ made' \in [Rows -> Nat] /\ made'[x] = m
      /\ \A y \in Rows \ {x} : made'[y] = made[y]
  BY <1>3 DEF BatchInv, Types
<1>5. run'[p] = r /\ \A q \in Runners \ {p} : run'[q] = run[q]
  BY DEF BatchInv, Types
<1>6. \A y \in Rows : /\ Trying(p, y)' <=> y = x
                      /\ \A q \in Runners \ {p} : Trying(q, y)' <=> Trying(q, y)
  BY <1>5 DEF Trying, Current
<1>7. \A y \in Rows : Trying(p, y) <=> y = x
  BY DEF Trying
<1>8. \A y \in Rows : RowFits(y) /\ \A q \in Runners : AttemptFits(q, y)
  BY DEF BatchInv, AttemptsFit
<1>9. \A y \in Rows : row'[y] = row[y] /\ tries'[y] = tries[y] /\ made[y] \in Nat /\ tries[y] \in Nat
  BY DEF BatchInv, Types
<1> HIDE DEF x
<1>10. /\ tries[x] > 0 /\ (row[x] = "FAILED" => tries[x] > 1) /\ (n > 0 => tries[x] > 1)
       /\ \A q \in Runners \ {p} : Trying(q, x) => tries[x] > 1
  BY <1>1, <1>3, <1>7, <1>8 DEF AttemptFits
<1>11. ASSUME NEW y \in Rows
       PROVE  RowFits(y)'
  <2>1. CASE y = x
    BY <1>1, <1>2, <1>3, <1>4, <1>8, <1>9, <1>10, <2>1 DEF RowFits
  <2>2. CASE y # x
    BY <1>4, <1>8, <1>9, <2>2 DEF RowFits
  <2> QED
    BY <2>1, <2>2
<1>12. ASSUME NEW y \in Rows, NEW q \in Runners
       PROVE  AttemptFits(q, y)'
  <2>1. CASE y = x /\ q = p
    BY <1>1, <1>2, <1>3, <1>4, <1>5, <1>6, <1>9, <1>10, <2>1 DEF AttemptFits
  <2>2. CASE y = x /\ q # p
    <3>1. Trying(q, x) => (run[q].pc \in Writing /\ run[q].ok => n > 0)
      BY <1>1, <1>3, <1>8 DEF AttemptFits
    <3> QED
      BY <1>1, <1>2, <1>3, <1>4, <1>5, <1>6, <1>9, <1>10, <2>2, <3>1 DEF AttemptFits
  <2>3. CASE y # x
    <3>1. AttemptFits(q, y) /\ made'[y] = made[y]
      BY <1>4, <1>8, <2>3
    <3>2. \A s \in Runners : Trying(s, y)' => Trying(s, y) /\ run'[s] = run[s]
      BY <1>5, <1>6, <2>3
    <3> QED
      BY <1>9, <3>1, <3>2 DEF AttemptFits
  <2> QED
    BY <2>1, <2>2, <2>3
<1> QED
  BY <1>4, <1>11, <1>12 DEF AttemptsFit

\* A row is in the middle of what it is for, or of what comes with it.
LEMMA PartFits ==
    ASSUME BatchInv, NEW p \in Runners, NEW r \in Runs,
           run' = [run EXCEPT ![p] = r], r.left = run[p].left,
           \/ run[p].pc \in Doing /\ r.pc \in Doing
           \/ run[p].pc \in Writing /\ r.pc \in Writing /\ r.ok = run[p].ok,
           UNCHANGED <<row, made, tries>>
    PROVE  AttemptsFit'
<1>1. run'[p] = r /\ \A q \in Runners \ {p} : run'[q] = run[q]
  BY DEF BatchInv, Types
<1>2. \A y \in Rows : \A q \in Runners : Trying(q, y)' <=> Trying(q, y)
  BY <1>1 DEF Trying, Current
<1>3. \A y \in Rows : RowFits(y) /\ \A q \in Runners : AttemptFits(q, y)
  BY DEF BatchInv, AttemptsFit
<1>4. ASSUME NEW y \in Rows
      PROVE  RowFits(y)'
  BY <1>3 DEF RowFits
<1>5. ASSUME NEW y \in Rows, NEW q \in Runners
      PROVE  AttemptFits(q, y)'
  <2>1. CASE q = p
    BY <1>1, <1>2, <1>3, <2>1 DEF AttemptFits
  <2>2. CASE q # p
    BY <1>1, <1>2, <1>3, <2>2 DEF AttemptFits
  <2> QED
    BY <2>1, <2>2
<1> QED
  BY <1>4, <1>5 DEF AttemptsFit

\* The verdict of a row is written.
LEMMA WriteFits ==
    ASSUME BatchInv, NEW p \in Runners, run[p].pc = "write", NEW r \in Runs,
           run' = [run EXCEPT ![p] = r], r.pc = "count",
           row' = [row EXCEPT ![Current(p)] = Verdict(p)],
           UNCHANGED <<made, tries>>
    PROVE  AttemptsFit' /\ row' \in [Rows -> Verdicts]
<1> DEFINE x == Current(p)
<1>1. PICK v \in {"SUCCESS", "FAILED"} : v = Verdict(p) /\ (v = "SUCCESS" <=> run[p].ok)
  BY DEF Verdict, BatchInv, Types, Runs
<1>2. x \in Rows /\ row' = [row EXCEPT ![x] = v]
  BY <1>1, CurrentFits DEF BatchInv
<1>3. /\ row' \in [Rows -> Verdicts] /\ row'[x] = v
      /\ \A y \in Rows \ {x} : row'[y] = row[y]
  BY <1>2 DEF BatchInv, Types, Verdicts
<1>4. run'[p] = r /\ \A q \in Runners \ {p} : run'[q] = run[q]
  BY DEF BatchInv, Types
<1>5. \A y \in Rows : \A q \in Runners : Trying(q, y)' => q # p /\ Trying(q, y) /\ run'[q] = run[q]
  BY <1>4 DEF Trying, Current
<1>6. Trying(p, x)
  BY DEF Trying
<1>7. \A y \in Rows : RowFits(y) /\ \A q \in Runners : AttemptFits(q, y)
  BY DEF BatchInv, AttemptsFit
<1> HIDE DEF x
<1>8. /\ tries[x] > 0 /\ (made[x] > 0 => run[p].ok \/ tries[x] > 1)
      /\ (run[p].ok => made[x] > 0)
      /\ \A q \in Runners \ {p} : Trying(q, x) => tries[x] > 1
  BY <1>2, <1>6, <1>7 DEF AttemptFits
<1>9. ASSUME NEW y \in Rows
      PROVE  RowFits(y)'
  <2>1. CASE y = x
    BY <1>1, <1>3, <1>7, <1>8, <2>1 DEF RowFits
  <2>2. CASE y # x
    BY <1>3, <1>7, <2>2 DEF RowFits
  <2> QED
    BY <2>1, <2>2
<1>10. ASSUME NEW y \in Rows, NEW q \in Runners
       PROVE  AttemptFits(q, y)'
  <2>1. CASE y = x
    BY <1>3, <1>5, <1>7, <1>8, <2>1 DEF AttemptFits
  <2>2. CASE y # x
    BY <1>3, <1>5, <1>7, <2>2 DEF AttemptFits
  <2> QED
    BY <2>1, <2>2
<1> QED
  BY <1>3, <1>9, <1>10 DEF AttemptsFit

-----------------------------------------------------------------------------
(* The steps of a row                                                      *)

\* A step that leaves the batch alone: what is still to be shown of it.
LEMMA RowStepFits ==
    ASSUME BatchInv, NEW p \in Runners, run[p].pc \in Holding,
           NEW r \in Runs, run' = [run EXCEPT ![p] = r], r.pc \in Doing \cup Writing \cup {"count"},
           r.pc # "count" => r.left = run[p].left /\ row' = row,
           UNCHANGED <<queue, batch>>, RunsOnly,
           employees' \subseteq Emails, invited' \subseteq Emails,
           row' \in [Rows -> Verdicts], made' \in [Rows -> Nat], tries' \in [Rows -> Nat],
           \A x \in Rows : row[x] # "none" => row'[x] # "none",
           AttemptsFit', ServedOnce',
           clean => r.left = Pending'
    PROVE  BatchInv'
<1>1. UNCHANGED <<kind, email, request, clean>> /\ batch' \in Batches
  BY DEF RunsOnly, BatchInv, Types
<1>2. clean => batch.status # "COMPLETED"
  BY WorksAlone
<1>3. clean => CompletedIsWhole'
  BY <1>2 DEF CompletedIsWhole
<1>4. run'[p] = r
  BY DEF BatchInv, Types
<1>5. clean => Knows(p)'
  BY <1>4 DEF Knows, At
<1>6. r.pc \in Holding => r.left # {}
  BY DEF BatchInv, RunsHaveRows
<1> QED
  BY <1>1, <1>2, <1>3, <1>5, <1>6, RunFits

\* A run that holds a row knows which rows are left.
LEMMA HeldFits ==
    ASSUME BatchInv, NEW p \in Runners, run[p].pc \in Holding
    PROVE  /\ clean => run[p].left = Pending
           /\ row' = row => Pending' = Pending
BY DEF BatchInv, RunsKnow, Knows, Pending

LEMMA CheckRowFits ==
    ASSUME BatchInv, PayTypes, NEW p \in Runners, CheckRow(p)
    PROVE  BatchInv'
<1>1. PICK ok \in BOOLEAN : ok = Fits(Address(p))
  <2>1. CASE kind = "EMPLOYEE_CREATION"
    BY <2>1 DEF Fits, MayCreate
  <2>2. CASE kind = "EMPLOYEE_INVITATION"
    BY <2>2 DEF Fits, MayInvite
  <2>3. CASE kind = "SETUP_INVITATION"
    <3>1. Fits(Address(p)) = (Address(p) \in employees \ invited)
      BY <2>3, Zenon DEF Fits, MaySetUp
    <3>2. Fits(Address(p)) \in BOOLEAN
      BY <3>1, SMT
    <3> QED
      BY <3>2
  <2>4. CASE kind = "ALLOCATION"
    <3>1. Address(p) \in Emails /\ pay[Address(p)].held \in BOOLEAN
      BY CurrentFits DEF CheckRow, At, BatchInv, PayTypes, Pays
    <3> QED
      BY <2>4, <3>1 DEF Fits
  <2>5. CASE kind \notin {"EMPLOYEE_CREATION", "EMPLOYEE_INVITATION", "SETUP_INVITATION",
                          "ALLOCATION"}
    <3>1. Fits(Address(p)) = (Address(p) \in employees)
      BY <2>5, Zenon DEF Fits
    <3>2. Fits(Address(p)) \in BOOLEAN
      BY <3>1, SMT
    <3> QED
      BY <3>2
  <2> QED
    BY <2>1, <2>2, <2>3, <2>4, <2>5
<1>2. PICK pc \in Pcs : pc = IF ok THEN "effect" ELSE "write"
  BY DEF Pcs
<1>3. /\ run[p].pc = "row" /\ UNCHANGED <<batch, row, employees, invited, made, queue>> /\ RunsOnly
      /\ run' = [run EXCEPT ![p] = [run[p] EXCEPT !.ok = ok, !.pc = pc]]
      /\ tries' = [tries EXCEPT ![Current(p)] = Min({@ + 1, 2})]
  BY <1>1, <1>2 DEF CheckRow, At, Moves
<1>4. PICK r \in Runs : /\ run' = [run EXCEPT ![p] = r]
                        /\ r.pc = pc /\ r.ok = ok /\ r.left = run[p].left
  <2>1. PICK q \in Runs : q = run[p]
    BY DEF BatchInv, Types
  <2>2. /\ [q EXCEPT !.ok = ok, !.pc = pc] \in Runs
        /\ [q EXCEPT !.ok = ok, !.pc = pc].pc = pc
        /\ [q EXCEPT !.ok = ok, !.pc = pc].ok = ok
        /\ [q EXCEPT !.ok = ok, !.pc = pc].left = q.left
    BY DEF Runs
  <2> QED
    BY <1>3, <2>1, <2>2
<1>5. AttemptsFit' /\ tries' \in [Rows -> Nat]
  BY <1>2, <1>3, <1>4, TryFits
<1>6. ServedOnce'
  <2>1. UNCHANGED <<kind, email, clean>>
    BY <1>3 DEF RunsOnly
  <2>2. /\ Limited' = Limited /\ Taken' = Taken
        /\ run'[p] = r /\ \A q \in Runners \ {p} : run'[q] = run[q]
    BY <1>3, <1>4, <2>1 DEF Limited, Taken, BatchInv, Types
  <2>3. ASSUME kind \in Invites, clean, NEW q \in Runners, At(q, "effect")'
        PROVE  Address(q)' \notin invited'
    <3>1. q = p
      BY <1>3, <2>2, <2>3, WorksAlone DEF At
    <3>2. ok /\ Address(p)' = Address(p)
      BY <1>2, <1>4, <2>1, <2>2, <2>3, <3>1 DEF At, Address, Current
    <3>3. Address(p) \notin invited
      BY <1>1, <2>3, <3>2 DEF Fits, MayInvite, MaySetUp, Invites
    <3> QED
      BY <1>3, <3>1, <3>2, <3>3
  <2> QED
    BY <1>3, <2>1, <2>2, <2>3 DEF BatchInv, ServedOnce
<1>7. /\ employees' \subseteq Emails /\ invited' \subseteq Emails
      /\ row' \in [Rows -> Verdicts] /\ made' \in [Rows -> Nat]
  BY <1>3 DEF BatchInv, Types, Verdicts
<1>8. clean => r.left = Pending'
  BY <1>3, <1>4, HeldFits
<1> QED
  BY <1>2, <1>3, <1>4, <1>5, <1>6, <1>7, <1>8, RowStepFits

LEMMA RowFaultFits ==
    ASSUME BatchInv, NEW p \in Runners, RowFault(p)
    PROVE  BatchInv'
<1>1. /\ run[p].pc \in {"row"} \cup Doing /\ RunsOnly
      /\ UNCHANGED <<batch, row, employees, invited, made, queue>>
      /\ run' = [run EXCEPT ![p] = [run[p] EXCEPT !.ok = FALSE, !.sum = "none", !.pc = "write"]]
      /\ tries' = [tries EXCEPT ![Current(p)] = IF run[p].pc = "row" THEN Min({@ + 1, 2}) ELSE @]
  BY DEF RowFault, At, Moves
<1>2. PICK r \in Runs : /\ run' = [run EXCEPT ![p] = r]
                        /\ r.pc = "write" /\ r.ok = FALSE /\ r.left = run[p].left
  <2>1. PICK q \in Runs : q = run[p]
    BY DEF BatchInv, Types
  <2>2. PICK pc \in Pcs : pc = "write"
    BY DEF Pcs
  <2>3. /\ [q EXCEPT !.ok = FALSE, !.sum = "none", !.pc = pc] \in Runs
        /\ [q EXCEPT !.ok = FALSE, !.sum = "none", !.pc = pc].pc = pc
        /\ [q EXCEPT !.ok = FALSE, !.sum = "none", !.pc = pc].ok = FALSE
        /\ [q EXCEPT !.ok = FALSE, !.sum = "none", !.pc = pc].left = q.left
    BY DEF Runs, Lines
  <2> QED
    BY <1>1, <2>1, <2>2, <2>3
<1>3. AttemptsFit' /\ tries' \in [Rows -> Nat]
  <2>1. CASE run[p].pc = "row"
    BY <1>1, <1>2, <2>1, TryFits
  <2>2. CASE run[p].pc \in Doing
    <3>1. tries' = tries
      BY <1>1, <2>2, CurrentFits DEF BatchInv, Types
    <3>2. made' = [made EXCEPT ![Current(p)] = IF r.ok THEN @ + 1 ELSE @]
      BY <1>1, <1>2, CurrentFits DEF BatchInv, Types
    <3>3. AttemptsFit'
      BY <1>1, <1>2, <2>2, <3>1, <3>2, EffectFits
    <3> QED
      BY <3>1, <3>3 DEF BatchInv, Types
  <2> QED
    BY <1>1, <2>1, <2>2
<1>4. ServedOnce'
  <2>1. \A q \in Runners : run'[q] = run[q] \/ run'[q].pc # "effect"
    BY <1>2 DEF BatchInv, Types
  <2> QED
    BY <1>1, <2>1, ServedStays DEF BatchInv, Types, RunsOnly
<1>5. /\ employees' \subseteq Emails /\ invited' \subseteq Emails
      /\ row' \in [Rows -> Verdicts] /\ made' \in [Rows -> Nat]
  BY <1>1 DEF BatchInv, Types, Verdicts
<1>6. clean => r.left = Pending'
  BY <1>1, <1>2, HeldFits
<1> QED
  BY <1>1, <1>2, <1>3, <1>4, <1>5, <1>6, RowStepFits

LEMMA WriteRowFits ==
    ASSUME BatchInv, NEW p \in Runners, WriteRow(p)
    PROVE  BatchInv'
<1>1. /\ run[p].pc = "write" /\ RunsOnly
      /\ UNCHANGED <<batch, employees, invited, made, tries, queue>>
      /\ row' = [row EXCEPT ![Current(p)] = Verdict(p)]
      /\ run' = [run EXCEPT ![p] = [run[p] EXCEPT !.left = @ \ {Current(p)}, !.ok = FALSE,
                                       !.pc = "count"]]
  BY DEF WriteRow, At, Moves
<1>2. PICK r \in Runs : /\ run' = [run EXCEPT ![p] = r]
                        /\ r.pc = "count" /\ r.left = run[p].left \ {Current(p)}
  <2>1. PICK q \in Runs : q = run[p]
    BY DEF BatchInv, Types
  <2>2. PICK pc \in Pcs : pc = "count"
    BY DEF Pcs
  <2>3. PICK left \in SUBSET Rows : left = q.left \ {Current(p)}
    BY DEF Runs
  <2>4. /\ [q EXCEPT !.left = left, !.ok = FALSE, !.pc = pc] \in Runs
        /\ [q EXCEPT !.left = left, !.ok = FALSE, !.pc = pc].pc = pc
        /\ [q EXCEPT !.left = left, !.ok = FALSE, !.pc = pc].left = left
    BY DEF Runs
  <2> QED
    BY <1>1, <2>1, <2>2, <2>3, <2>4
<1>3. AttemptsFit' /\ row' \in [Rows -> Verdicts]
  BY <1>1, <1>2, WriteFits
<1>4. ServedOnce'
  <2>1. \A q \in Runners : run'[q] = run[q] \/ run'[q].pc # "effect"
    BY <1>2 DEF BatchInv, Types
  <2> QED
    BY <1>1, <2>1, ServedStays DEF BatchInv, Types, RunsOnly
<1>5. /\ employees' \subseteq Emails /\ invited' \subseteq Emails
      /\ made' \in [Rows -> Nat] /\ tries' \in [Rows -> Nat]
  BY <1>1 DEF BatchInv, Types
<1>6. PICK v \in {"SUCCESS", "FAILED"} : row' = [row EXCEPT ![Current(p)] = v]
  BY <1>1 DEF Verdict
<1>7. /\ \A x \in Rows : row[x] # "none" => row'[x] # "none"
      /\ Pending' = Pending \ {Current(p)}
  BY <1>1, <1>6, CurrentFits DEF BatchInv, Types, Pending
<1>8. clean => r.left = Pending'
  BY <1>1, <1>2, <1>7, HeldFits
<1> QED
  BY <1>1, <1>2, <1>3, <1>4, <1>5, <1>7, <1>8, RowStepFits

\* The effect of a row: its address is taken where it may be served once.
LEMMA DoesFits ==
    ASSUME BatchInv, NEW p \in Runners, NEW ok \in BOOLEAN, NEW next \in Writing,
           run[p].pc \in Doing, Does(p, ok, next),
           employees' \subseteq Emails, invited' \subseteq Emails,
           Limited => /\ ok => Address(p) \notin Taken
                      /\ Taken' = Taken \cup {Address(p)}
    PROVE  BatchInv'
<1>1. /\ RunsOnly /\ UNCHANGED <<batch, row, tries, queue>>
      /\ run' = [run EXCEPT ![p] = [run[p] EXCEPT !.ok = ok, !.sum = "none", !.pc = next]]
      /\ made' = [made EXCEPT ![Current(p)] = IF ok THEN @ + 1 ELSE @]
  BY DEF Does, Moves
<1>2. PICK r \in Runs : /\ run' = [run EXCEPT ![p] = r]
                        /\ r.pc = next /\ r.ok = ok /\ r.left = run[p].left
  <2>1. PICK q \in Runs : q = run[p]
    BY DEF BatchInv, Types
  <2>2. next \in Pcs
    BY DEF Pcs
  <2>3. /\ [q EXCEPT !.ok = ok, !.sum = "none", !.pc = next] \in Runs
        /\ [q EXCEPT !.ok = ok, !.sum = "none", !.pc = next].pc = next
        /\ [q EXCEPT !.ok = ok, !.sum = "none", !.pc = next].ok = ok
        /\ [q EXCEPT !.ok = ok, !.sum = "none", !.pc = next].left = q.left
    BY <2>2 DEF Runs, Lines
  <2> QED
    BY <1>1, <2>1, <2>2, <2>3
<1>3. AttemptsFit' /\ made' \in [Rows -> Nat]
  <2>1. made' = [made EXCEPT ![Current(p)] = IF r.ok THEN @ + 1 ELSE @]
    BY <1>1, <1>2
  <2> QED
    BY <1>1, <1>2, <2>1, EffectFits
<1>4. PICK x \in Rows : x = Current(p) /\ email[x] = Address(p)
  BY <1>1, CurrentFits DEF BatchInv, Address
<1>5. /\ \A y \in Rows \ {x} : made'[y] = made[y]
      /\ made'[x] = (IF ok THEN made[x] + 1 ELSE made[x])
      /\ \A y \in Rows : made[y] \in Nat
  BY <1>1, <1>4 DEF BatchInv, Types
<1>6. ServedOnce'
  <2>1. UNCHANGED <<kind, email, clean>> /\ Limited' = Limited
    BY <1>1 DEF RunsOnly, Limited
  <2>2. ASSUME Limited
        PROVE  /\ \A y \in Rows : made'[y] <= 1 /\ (made'[y] > 0 => email[y] \in Taken')
               /\ \A y, z \in Rows : email[y] = email[z] /\ y # z => made'[y] + made'[z] <= 1
    <3>1. /\ \A y \in Rows : made[y] <= 1 /\ (made[y] > 0 => email[y] \in Taken)
          /\ \A y, z \in Rows : email[y] = email[z] /\ y # z => made[y] + made[z] <= 1
      BY <2>2 DEF BatchInv, ServedOnce
    <3>3. ok => \A y \in Rows : email[y] = email[x] => made[y] = 0
      BY <1>4, <1>5, <2>2, <3>1
    <3>2. \A y \in Rows : made'[y] <= 1 /\ (made'[y] > 0 => email[y] \in Taken')
      BY <1>4, <1>5, <2>2, <3>1, <3>3
    <3>4. ASSUME NEW y \in Rows, NEW z \in Rows, email[y] = email[z], y # z
          PROVE  made'[y] + made'[z] <= 1
      BY <1>5, <3>1, <3>3, <3>4
    <3> QED
      BY <3>2, <3>4
  <2>3. ASSUME clean, NEW q \in Runners
        PROVE  ~At(q, "effect")'
    <3>1. run'[p] = r /\ \A s \in Runners \ {p} : run'[s] = run[s]
      BY <1>2 DEF BatchInv, Types
    <3> QED
      BY <1>1, <1>2, <2>3, <3>1, WorksAlone DEF At
  <2> QED
    BY <2>1, <2>2, <2>3 DEF ServedOnce
<1>7. row' \in [Rows -> Verdicts] /\ tries' \in [Rows -> Nat]
  BY <1>1 DEF BatchInv, Types, Verdicts
<1>8. clean => r.left = Pending'
  BY <1>1, <1>2, HeldFits
<1> QED
  BY <1>1, <1>2, <1>3, <1>6, <1>7, <1>8, RowStepFits

LEMMA EffectsFit ==
    ASSUME BatchInv, NEW p \in Runners,
           \/ CreateEmployeeInternal(p) \/ CreateInvitationInternal(p)
           \/ UpdateUser(p) \/ RecalcGrossForStructure(p)
    PROVE  BatchInv'
<1>1. employees \subseteq Emails /\ invited \subseteq Emails
  BY DEF BatchInv, Types
<1>2. run[p].pc \in Doing /\ Address(p) \in Emails
  <2>1. run[p].pc \in Doing
    BY DEF CreateEmployeeInternal, CreateInvitationInternal, UpdateUser,
           RecalcGrossForStructure, At
  <2> QED
    BY <2>1, CurrentFits DEF BatchInv
<1>3. CASE CreateEmployeeInternal(p)
  <2>1. PICK ok \in BOOLEAN, next \in Writing :
           /\ ok = (Address(p) \notin employees)
           /\ Does(p, ok, next)
    BY <1>3 DEF CreateEmployeeInternal
  <2>2. /\ kind = "EMPLOYEE_CREATION" /\ kind' = kind
        /\ employees' = employees \cup {Address(p)} /\ invited' = invited
    BY <1>3, <2>1 DEF CreateEmployeeInternal, Does, RunsOnly
  <2>3. Taken = employees /\ Taken' = employees'
    BY <2>2 DEF Taken
  <2> QED
    BY <1>1, <1>2, <2>1, <2>2, <2>3, DoesFits
<1>4. CASE CreateInvitationInternal(p)
  <2>1. /\ kind \in Invites /\ Does(p, TRUE, "write")
        /\ run[p].pc = "effect" /\ kind' = kind
        /\ invited' = invited \cup {Address(p)} /\ employees' = employees
    BY <1>4 DEF CreateInvitationInternal, Does, At, RunsOnly, Invites
  <2>2. Taken = invited /\ Taken' = invited'
    BY <2>1 DEF Taken, Invites
  <2>3. Limited => Address(p) \notin invited
    BY <2>1 DEF Limited, BatchInv, ServedOnce, At, Invites
  <2> QED
    BY <1>1, <1>2, <2>1, <2>2, <2>3, DoesFits
<1>5. CASE UpdateUser(p) \/ RecalcGrossForStructure(p)
  <2>1. ~Limited /\ Does(p, TRUE, "write") /\ employees' = employees /\ invited' = invited
    BY <1>5 DEF UpdateUser, RecalcGrossForStructure, Limited, Invites
  <2> QED
    BY <1>1, <1>2, <2>1, DoesFits
<1> QED
  BY <1>3, <1>4, <1>5

\* A part of a row that touches no address: the structure of a new employee, the
\* line, and the reading before the gross.
LEMMA MiddleFits ==
    ASSUME BatchInv, NEW p \in Runners, run[p].pc \in Doing \cup Writing,
           NEW r \in Runs, run' = [run EXCEPT ![p] = r], r.left = run[p].left,
           \/ run[p].pc \in Doing /\ r.pc \in Doing /\ r.pc # "effect"
           \/ run[p].pc \in Writing /\ r.pc \in Writing /\ r.ok = run[p].ok
           \/ run[p].pc \in Doing /\ r.pc \in Writing /\ r.ok = FALSE,
           UNCHANGED <<batch, row, employees, invited, made, tries, queue>>, RunsOnly
    PROVE  BatchInv'
<1>1. AttemptsFit'
  <2>1. CASE run[p].pc \in Doing /\ r.pc \in Writing /\ r.ok = FALSE
    <3>1. made' = [made EXCEPT ![Current(p)] = IF r.ok THEN @ + 1 ELSE @]
      BY <2>1, CurrentFits DEF BatchInv, Types
    <3> QED
      BY <2>1, <3>1, EffectFits
  <2>2. CASE ~(run[p].pc \in Doing /\ r.pc \in Writing /\ r.ok = FALSE)
    BY <2>2, PartFits
  <2> QED
    BY <2>1, <2>2
<1>2. ServedOnce'
  <2>1. \A q \in Runners : run'[q] = run[q] \/ run'[q].pc # "effect"
    BY DEF BatchInv, Types
  <2> QED
    BY <2>1, ServedStays DEF BatchInv, Types, RunsOnly
<1>3. /\ employees' \subseteq Emails /\ invited' \subseteq Emails
      /\ row' \in [Rows -> Verdicts] /\ made' \in [Rows -> Nat] /\ tries' \in [Rows -> Nat]
  BY DEF BatchInv, Types, Verdicts
<1>4. clean => r.left = Pending'
  BY HeldFits
<1> QED
  BY <1>1, <1>2, <1>3, <1>4, RowStepFits

LEMMA PartsFit ==
    ASSUME BatchInv, PayTypes, NEW p \in Runners,
           \/ CreateSalaryStructure(p) \/ SalaryFault(p)
           \/ DeleteLine(p) \/ CreateLine(p) \/ ReadStructure(p)
    PROVE  BatchInv'
<1>1. PICK q \in Runs : q = run[p]
  BY DEF BatchInv, Types
<1>2. \A pc \in Pcs : /\ [q EXCEPT !.pc = pc] \in Runs /\ [q EXCEPT !.pc = pc].pc = pc
                       /\ [q EXCEPT !.pc = pc].ok = q.ok /\ [q EXCEPT !.pc = pc].left = q.left
  BY DEF Runs
<1>3. CASE CreateSalaryStructure(p) \/ SalaryFault(p)
  <2>1. /\ q.pc = "salary" /\ run' = [run EXCEPT ![p] = [q EXCEPT !.pc = "write"]]
        /\ UNCHANGED <<batch, row, employees, invited, made, tries, queue>> /\ RunsOnly
    BY <1>1, <1>3 DEF CreateSalaryStructure, SalaryFault, Moves, At
  <2>2. PICK r \in Runs : /\ r = [q EXCEPT !.pc = "write"] /\ r.pc = "write"
                          /\ r.ok = q.ok /\ r.left = q.left
    BY <1>2 DEF Pcs
  <2> QED
    BY <1>1, <2>1, <2>2, MiddleFits
<1>4. CASE DeleteLine(p)
  <2>1. /\ q.pc = "effect" /\ run' = [run EXCEPT ![p] = [q EXCEPT !.pc = "line"]]
        /\ UNCHANGED <<batch, row, employees, invited, made, tries, queue>> /\ RunsOnly
    BY <1>1, <1>4 DEF DeleteLine, Replaces, Moves, At
  <2>2. PICK r \in Runs : r = [q EXCEPT !.pc = "line"] /\ r.pc = "line" /\ r.left = q.left
    BY <1>2 DEF Pcs
  <2> QED
    BY <1>1, <2>1, <2>2, MiddleFits
<1>5. CASE CreateLine(p) /\ pay[Address(p)].line = "none"
  <2>1. /\ q.pc = "line" /\ run' = [run EXCEPT ![p] = [q EXCEPT !.pc = "total"]]
        /\ UNCHANGED <<batch, row, employees, invited, made, tries, queue>> /\ RunsOnly
    BY <1>1, <1>5 DEF CreateLine, Replaces, Moves, At
  <2>2. PICK r \in Runs : r = [q EXCEPT !.pc = "total"] /\ r.pc = "total" /\ r.left = q.left
    BY <1>2 DEF Pcs
  <2> QED
    BY <1>1, <2>1, <2>2, MiddleFits
<1>6. CASE CreateLine(p) /\ pay[Address(p)].line # "none"
  <2>1. /\ q.pc = "line" /\ run' = [run EXCEPT ![p] = [q EXCEPT !.ok = FALSE, !.pc = "write"]]
        /\ UNCHANGED <<batch, row, employees, invited, made, tries, queue>> /\ RunsOnly
    BY <1>1, <1>6 DEF CreateLine, Replaces, Moves, At
  <2>2. PICK r \in Runs : /\ r = [q EXCEPT !.ok = FALSE, !.pc = "write"] /\ r.pc = "write"
                          /\ r.ok = FALSE /\ r.left = q.left
    <3>1. PICK pc \in Pcs : pc = "write"
      BY DEF Pcs
    <3>2. /\ [q EXCEPT !.ok = FALSE, !.pc = pc] \in Runs
          /\ [q EXCEPT !.ok = FALSE, !.pc = pc].pc = pc
          /\ [q EXCEPT !.ok = FALSE, !.pc = pc].ok = FALSE
          /\ [q EXCEPT !.ok = FALSE, !.pc = pc].left = q.left
      BY DEF Runs
    <3> QED
      BY <3>1, <3>2
  <2> QED
    BY <1>1, <2>1, <2>2, MiddleFits
<1>7. CASE ReadStructure(p)
  <2>1. PICK sum \in Lines : sum = pay[Address(p)].line
    <3>1. Address(p) \in Emails
      BY <1>7, CurrentFits DEF ReadStructure, At, BatchInv
    <3> QED
      BY <3>1 DEF PayTypes, Pays
  <2>2. /\ q.pc = "total" /\ run' = [run EXCEPT ![p] = [q EXCEPT !.sum = sum, !.pc = "gross"]]
        /\ UNCHANGED <<batch, row, employees, invited, made, tries, queue>> /\ RunsOnly
    BY <1>1, <1>7, <2>1 DEF ReadStructure, Replaces, Moves, At
  <2>3. PICK r \in Runs : /\ r = [q EXCEPT !.sum = sum, !.pc = "gross"] /\ r.pc = "gross"
                          /\ r.left = q.left
    <3>1. PICK pc \in Pcs : pc = "gross"
      BY DEF Pcs
    <3>2. /\ [q EXCEPT !.sum = sum, !.pc = pc] \in Runs
          /\ [q EXCEPT !.sum = sum, !.pc = pc].pc = pc
          /\ [q EXCEPT !.sum = sum, !.pc = pc].left = q.left
      BY DEF Runs
    <3> QED
      BY <3>1, <3>2
  <2> QED
    BY <1>1, <2>2, <2>3, MiddleFits
<1> QED
  BY <1>3, <1>4, <1>5, <1>6, <1>7

-----------------------------------------------------------------------------
(* The theorems                                                            *)

LEMMA InitFits == Init => BatchInv
<1> SUFFICES ASSUME Init
             PROVE  BatchInv
  OBVIOUS
<1>1. Asleep \in Runs /\ Asleep.pc = "idle" /\ NoJob \in Jobs /\ NoJob.state = "none"
  BY AsleepFits, NoJobFits
<1>2. /\ kind = "none" /\ batch = [status |-> "none", success |-> 0, failed |-> 0]
      /\ row = [r \in Rows |-> "none"] /\ queue = NoJob /\ run = [p \in Runners |-> Asleep]
      /\ request = NoRequest /\ made = [r \in Rows |-> 0] /\ tries = [r \in Rows |-> 0]
      /\ clean = TRUE /\ email \in [Rows -> Emails]
      /\ employees \subseteq Emails /\ invited \subseteq Emails
  BY DEF Init
<1>3. batch \in Batches /\ batch.status = "none"
  BY <1>2, BatchAssumption DEF Batches
<1>4. Types
  BY <1>1, <1>2, <1>3 DEF Types, NoRequest
<1>5. ~Busy /\ ~Asked(Calls) /\ \A p \in Runners : run[p].pc = "idle"
  BY <1>1, <1>2 DEF Busy, Working, Asked, NoRequest, Unfinished
<1>6. RunsHaveRows /\ QueueRuns /\ NothingBefore
  BY <1>1, <1>2, <1>3, <1>5 DEF RunsHaveRows, QueueRuns, NothingBefore, Runners
<1>7. OneAtATime
  BY <1>5 DEF OneAtATime, Asked, Runners
<1>8. AttemptsFit /\ ServedOnce /\ RunsKnow
  BY <1>2, <1>5 DEF AttemptsFit, RowFits, AttemptFits, Trying, ServedOnce, RunsKnow, Knows, At
<1>9. CompletedIsLeft /\ CompletedIsWhole
  BY <1>3 DEF CompletedIsLeft, CompletedIsWhole
<1> QED
  BY <1>4, <1>6, <1>7, <1>8, <1>9 DEF BatchInv

LEMMA StutterFits == BatchInv /\ UNCHANGED vars => BatchInv'
<1> SUFFICES ASSUME BatchInv, UNCHANGED vars
             PROVE  BatchInv'
  OBVIOUS
<1>1. /\ UNCHANGED <<kind, email, batch, row, employees, invited, queue, run, request, made>>
      /\ UNCHANGED <<tries, clean>>
  BY DEF vars
<1>2. queue' \in Jobs /\ run' \in [Runners -> Runs] /\ QueueRuns' /\ (Busy' => Busy)
  BY <1>1 DEF BatchInv, Types, QueueRuns, Busy, Working
<1>3. clean /\ run'["inline"].pc # "idle" =>
         run'["queue"].pc = "idle" /\ queue'.state \notin Unfinished
  BY <1>1 DEF BatchInv, OneAtATime
<1> QED
  BY <1>1, <1>2, <1>3, QueueFits

LEMMA StepFits == BatchInv /\ PayTypes /\ [Next]_vars => BatchInv'
<1> SUFFICES ASSUME BatchInv, PayTypes, [Next]_vars
             PROVE  BatchInv'
  OBVIOUS
<1>1. CASE Handler
  BY <1>1, HandlersFit
<1>2. ASSUME NEW p \in Runners, ProcessBatchJobById(p)
      PROVE  BatchInv'
  BY <1>2, ReadBatchFits, FetchRowsFits, CheckRowFits, EffectsFit, PartsFit, WriteRowFits, CountRowsFits,
     SyncJobCountsFits, CompleteBatchFits, FailBatchFits DEF ProcessBatchJobById
<1>3. ASSUME NEW p \in Runners, Faults(p)
      PROVE  BatchInv'
  BY <1>3, RowFaultFits, PartsFit, RunFaultFits, ThrowBatchFits DEF Faults
<1>4. CASE Fetch \/ Promote \/ Forget \/ Crash
  BY <1>4, FetchFits, PromoteFits, ForgetFits, CrashFits
<1>5. CASE UNCHANGED vars
  BY <1>5, StutterFits
<1> QED
  BY <1>1, <1>2, <1>3, <1>4, <1>5 DEF Next

-----------------------------------------------------------------------------
(* The salary structures                                                   *)

\* No step forgets a failure.
LEMMA SpentFits ==
    ASSUME PayTypes, [Next]_vars
    PROVE  spent' \in Spents /\ (Failed => Failed')
<1>1. PICK s \in Spents : s = spent
  BY DEF PayTypes
<1>2. CASE spent' = spent
  BY <1>1, <1>2 DEF Failed
<1>3. CASE \/ spent' = [spent EXCEPT !.requests = @ + 1]
           \/ spent' = [spent EXCEPT !.faults = @ + 1]
           \/ spent' = [spent EXCEPT !.crashes = @ + 1]
  BY <1>1, <1>3 DEF Failed, Spents
<1>9. CASE RunInline
  <2>1. PICK n \in Nat : spent' = [spent EXCEPT !.faults = n] /\ n >= spent.faults
    BY <1>1, <1>9 DEF RunInline, Spents
  <2>2. [s EXCEPT !.faults = n] \in Spents /\ [s EXCEPT !.faults = n].faults = n
    BY DEF Spents
  <2>3. s.faults \in Nat
    BY DEF Spents
  <2> QED
    BY <1>1, <2>1, <2>2, <2>3 DEF Failed
<1>4. CASE Handler /\ ~RunInline
  BY <1>2, <1>3, <1>4 DEF Handler, CreateEmployeeCreationBatch, CreateEmployeeInvitationBatch,
     CreateBulkUpdateBatch, CreateSendInvitationsBatch, CreateAllowanceAllocationBatch,
     CreateDeductionAllocationBatch, CreateBatchFromParsedRows, StartBatchJob, RetryBatchJob,
     Asks, CreateRows, ResetRows, ResetBatch, BeginBatchJobProcessing, Enqueue, RequestFault
<1>5. ASSUME NEW p \in Runners, ProcessBatchJobById(p)
      PROVE  spent' = spent
  BY <1>5 DEF ProcessBatchJobById, ReadBatch, FetchRows, CheckRow, CreateEmployeeInternal, Does,
     CreateSalaryStructure, CreateInvitationInternal, UpdateUser, DeleteLine, CreateLine,
     ReadStructure, Replaces, RecalcGrossForStructure, WriteRow, CountRows, SyncJobCounts,
     CompleteBatch, FailBatch
<1>6. ASSUME NEW p \in Runners, Faults(p)
      PROVE  spent' = [spent EXCEPT !.faults = @ + 1]
  BY <1>6 DEF Faults, RowFault, SalaryFault, RunFault, ThrowBatch
<1>7. CASE Fetch \/ Promote \/ Forget \/ Crash
  BY <1>2, <1>3, <1>7 DEF Fetch, Promote, Forget, Crash, QueueOnly
<1>8. CASE UNCHANGED vars
  BY <1>2, <1>8 DEF vars
<1> QED
  BY <1>2, <1>3, <1>4, <1>5, <1>6, <1>7, <1>8, <1>9 DEF Next

\* A step that writes no structure, and leaves no run in the middle of a row
\* that went well.
LEMMA PaysStay ==
    ASSUME BatchInv, PayInv, spent' \in Spents, Failed => Failed',
           UNCHANGED <<email, pay, made>>, clean' => clean,
           kind' = kind \/ (kind = "none" /\ (kind' = "ALLOCATION" => OncePerAddress)),
           \A r \in Rows : row'[r] = row[r] \/ row'[r] \in {"PENDING", "FAILED"},
           \A p \in Runners :
              \/ run'[p] = run[p]
              \/ /\ run'[p].pc \notin {"total", "gross"}
                 /\ run'[p].pc = "write" => ~run'[p].ok
    PROVE  PayInv'
<1>1. PayTypes'
  BY DEF PayInv, PayTypes
<1>2. \A p \in Runners : run'[p] = run[p] => Address(p)' = Address(p)
  BY DEF Address, Current
<1>3. CASE kind' = kind
  <2>1. NewOnesPaid'
    BY <1>2, <1>3 DEF PayInv, NewOnesPaid, At
  <2>2. ASSUME kind = "ALLOCATION", clean', NEW p \in Runners
        PROVE  LineFits(p)'
    <3>1. LineFits(p)
      BY <2>2 DEF PayInv, LinesFit
    <3>2. CASE run'[p] = run[p]
      BY <1>2, <3>1, <3>2 DEF LineFits, At
    <3>3. CASE run'[p] # run[p]
      BY <3>3 DEF LineFits, At
    <3> QED
      BY <3>2, <3>3
  <2>3. LinesFit'
    BY <1>3, <2>2 DEF PayInv, LinesFit, OncePerAddress
  <2> QED
    BY <1>1, <2>1, <2>3 DEF PayInv
<1>4. CASE kind = "none"
  <2>1. /\ \A p \in Runners : run[p].pc = "idle"
        /\ \A r \in Rows : made[r] = 0 /\ row[r] # "SUCCESS"
    BY <1>4 DEF BatchInv, NothingBefore, Busy, Working, AttemptsFit, RowFits
  <2>2. /\ \A r \in Rows : row'[r] # "SUCCESS"
        /\ \A p \in Runners : /\ run'[p].pc \notin {"total", "gross"}
                              /\ run'[p].pc = "write" => ~run'[p].ok
    BY <2>1
  <2>3. NewOnesPaid'
    BY <2>2 DEF NewOnesPaid, At
  <2>4. \A a \in Emails : pay[a].gross # "new"
    BY <1>4 DEF PayInv, LinesFit
  <2>5. \A r \in Rows : email[r] \in Emails
    BY DEF BatchInv, Types
  <2>6. \A p \in Runners : LineFits(p)'
    BY <2>2 DEF LineFits, At
  <2>7. kind' = "ALLOCATION" => OncePerAddress'
    BY <1>4 DEF OncePerAddress
  <2>8. LinesFit'
    BY <2>2, <2>4, <2>5, <2>6, <2>7 DEF LinesFit
  <2> QED
    BY <1>1, <2>3, <2>8 DEF PayInv
<1> QED
  BY <1>3, <1>4

\* A batch that neither hires nor allocates.
LEMMA OthersStay ==
    ASSUME BatchInv, PayInv, spent' \in Spents, Failed => Failed',
           kind' = kind, kind \notin {"EMPLOYEE_CREATION", "ALLOCATION"},
           pay' \in [Emails -> Pays], \A a \in Emails : pay'[a].gross = pay[a].gross
    PROVE  PayInv'
<1>1. PayTypes'
  BY DEF PayTypes
<1>2. NewOnesPaid'
  BY DEF NewOnesPaid
<1>3. LinesFit'
  BY DEF PayInv, LinesFit
<1> QED
  BY <1>1, <1>2, <1>3 DEF PayInv

\* A batch that hires.
LEMMA HiringFits ==
    ASSUME BatchInv, PayInv, spent' \in Spents, Failed => Failed',
           kind = "EMPLOYEE_CREATION", UNCHANGED <<kind, email>>,
           pay' \in [Emails -> Pays], \A a \in Emails : pay'[a].gross = pay[a].gross,
           \A a \in Emails : pay[a].held => pay'[a].held,
           \A r \in Rows : row'[r] = "SUCCESS" =>
              row[r] = "SUCCESS" \/ pay'[email[r]].held \/ Failed',
           \A p \in Runners :
              \/ run'[p] = run[p]
              \/ run'[p].pc = "write" /\ run'[p].ok => pay'[Address(p)'].held \/ Failed'
    PROVE  PayInv'
<1>1. PayTypes'
  BY DEF PayTypes
<1>2. \A r \in Rows : email[r] \in Emails
  BY DEF BatchInv, Types
<1>3. ASSUME NEW r \in Rows, row'[r] = "SUCCESS"
      PROVE  pay'[email'[r]].held \/ Failed'
  BY <1>2, <1>3 DEF PayInv, NewOnesPaid
<1>4. ASSUME NEW p \in Runners, run'[p].pc = "write", run'[p].ok
      PROVE  pay'[Address(p)'].held \/ Failed'
  <2>1. CASE run'[p] = run[p]
    <3>1. run[p].pc = "write" /\ Address(p)' = Address(p) /\ Address(p) \in Emails
      BY <1>4, <2>1, CurrentFits DEF Address, Current, BatchInv
    <3>2. pay[Address(p)].held \/ Failed
      BY <1>4, <2>1, <3>1 DEF PayInv, NewOnesPaid, At
    <3> QED
      BY <3>1, <3>2
  <2>2. CASE run'[p] # run[p]
    BY <1>4, <2>2
  <2> QED
    BY <2>1, <2>2
<1>5. NewOnesPaid'
  BY <1>3, <1>4 DEF NewOnesPaid, At
<1>6. LinesFit'
  BY DEF PayInv, LinesFit
<1> QED
  BY <1>1, <1>5, <1>6 DEF PayInv

\* Run p takes a step about the line of its row x, and leaves w as the structure.
OwnLine(p, r, x, w) ==
    /\ run[p].pc \in Holding /\ run' = [run EXCEPT ![p] = r] /\ x = Current(p)
    /\ r.pc # "count" => r.left = run[p].left
    /\ r.pc = "count" => run[p].pc = "write"
    /\ pay' = [pay EXCEPT ![email[x]] = w]
    /\ \A y \in Rows \ {x} : row'[y] = row[y] /\ made'[y] = made[y]
    /\ made'[x] = 0 => w.gross # "new"
    /\ row'[x] = "SUCCESS" /\ clean /\ row[x] = "PENDING" => w.line = "new" /\ w.gross = "new"
    /\ clean => /\ r.pc \in {"total", "gross"} => w.line = "new"
                /\ r.pc = "gross" => r.sum = "new"
                /\ r.pc = "write" /\ r.ok => w.line = "new" /\ w.gross = "new"

\* A batch that allocates: run p writes at most the structure of its own row.
LEMMA AllocatingFits ==
    ASSUME BatchInv, PayInv, spent' \in Spents, Failed => Failed',
           kind = "ALLOCATION", UNCHANGED <<kind, email, clean>>,
           NEW p \in Runners, NEW r \in Runs, NEW x \in Rows, NEW w \in Pays,
           OwnLine(p, r, x, w)
    PROVE  PayInv'
<1> USE DEF OwnLine
<1>1. /\ email \in [Rows -> Emails] /\ run'[p] = r /\ \A q \in Runners \ {p} : run'[q] = run[q]
      /\ pay \in [Emails -> Pays] /\ kind' = "ALLOCATION"
  BY DEF BatchInv, Types, PayInv, PayTypes
<1>2. PayTypes'
  BY <1>1 DEF PayTypes
<1>3. OncePerAddress /\ OncePerAddress'
  BY DEF PayInv, LinesFit, OncePerAddress
<1>4. pay'[email[x]] = w /\ \A y \in Rows \ {x} : pay'[email[y]] = pay[email[y]]
  BY <1>1, <1>3 DEF OncePerAddress
<1>5. /\ \A y \in Rows : made[y] = 0 => pay[email[y]].gross # "new"
      /\ clean => \A y \in Rows : row[y] = "SUCCESS" =>
            pay[email[y]].line = "new" /\ pay[email[y]].gross = "new"
  BY DEF PayInv, LinesFit
<1>6. \A y \in Rows : made'[y] = 0 => pay'[email[y]].gross # "new"
  BY <1>4, <1>5
<1>7. clean => row[x] = "PENDING"
  BY CurrentFits, HeldFits DEF BatchInv, Pending
<1>8. clean => \A y \in Rows : row'[y] = "SUCCESS" =>
         pay'[email[y]].line = "new" /\ pay'[email[y]].gross = "new"
  BY <1>4, <1>5, <1>7
<1>9. ASSUME clean, NEW q \in Runners
      PROVE  LineFits(q)'
  <2>1. CASE q = p
    <3>1. r.pc # "count" => Address(p)' = email[x]
      BY <1>1 DEF Address, Current
    <3> QED
      BY <1>1, <1>4, <1>9, <2>1, <3>1 DEF LineFits, At
  <2>2. CASE q # p
    <3>1. run'[q].pc = "idle"
      BY <1>1, <1>9, <2>2, WorksAlone
    <3> QED
      BY <3>1 DEF LineFits, At
  <2> QED
    BY <2>1, <2>2
<1>10. NewOnesPaid'
  BY <1>1 DEF NewOnesPaid
<1>11. LinesFit'
  BY <1>1, <1>3, <1>6, <1>8, <1>9 DEF LinesFit
<1> QED
  BY <1>2, <1>10, <1>11 DEF PayInv

\* Handlers, the queue and a crash write no structure.
LEMMA HandlersPay ==
    ASSUME BatchInv, PayInv, Handler, spent' \in Spents, Failed => Failed'
    PROVE  PayInv'
<1>1. Asks("rows") \/ Asks("begin") \/ Asks("reset") =>
         UNCHANGED <<email, pay, made, row, run>> /\ (clean' => clean)
  <2>1. clean \in BOOLEAN
    BY DEF BatchInv, Types
  <2> QED
    BY <2>1 DEF Asks
<1>2. ASSUME NEW type \in Kinds, CreateBatchFromParsedRows(type),
             type = "ALLOCATION" => OncePerAddress
      PROVE  PayInv'
  <2>1. UNCHANGED <<email, pay, made, row, run>> /\ (clean' => clean) /\ kind' = type
    BY <1>1, <1>2 DEF CreateBatchFromParsedRows
  <2>2. kind = "none"
    BY <1>2 DEF CreateBatchFromParsedRows, BatchInv, NothingBefore
  <2> QED
    BY <1>2, <2>1, <2>2, PaysStay
<1>3. CASE \/ CreateEmployeeCreationBatch \/ CreateEmployeeInvitationBatch
           \/ CreateBulkUpdateBatch \/ CreateSendInvitationsBatch
           \/ CreateAllowanceAllocationBatch \/ CreateDeductionAllocationBatch
  BY <1>2, <1>3 DEF CreateEmployeeCreationBatch, CreateEmployeeInvitationBatch,
     CreateBulkUpdateBatch, CreateSendInvitationsBatch, CreateAllowanceAllocationBatch,
     CreateDeductionAllocationBatch, Kinds
<1>4. CASE StartBatchJob \/ RetryBatchJob
  <2>1. UNCHANGED <<kind, email, pay, made, row, run>> /\ (clean' => clean)
    BY <1>1, <1>4 DEF StartBatchJob, RetryBatchJob
  <2> QED
    BY <2>1, PaysStay
<1>5. CASE CreateRows \/ ResetRows
  <2>1. UNCHANGED <<kind, email, pay, made, run, clean>>
    BY <1>5 DEF CreateRows, ResetRows, Keeps
  <2>2. \A r \in Rows : row'[r] = row[r] \/ row'[r] \in {"PENDING", "FAILED"}
    BY <1>5 DEF CreateRows, ResetRows
  <2> QED
    BY <2>1, <2>2, PaysStay
<1>6. CASE ResetBatch \/ BeginBatchJobProcessing \/ Enqueue \/ RequestFault
  <2>1. UNCHANGED <<kind, email, pay, made, row, run, clean>>
    BY <1>6 DEF ResetBatch, BeginBatchJobProcessing, Enqueue, RequestFault, Keeps
  <2> QED
    BY <2>1, PaysStay
<1>7. CASE RunInline
  <2>1. /\ UNCHANGED <<kind, email, pay, made, row>> /\ clean' = (clean /\ queue' = queue)
        /\ run' = [run EXCEPT !["inline"] = [Asleep EXCEPT !.pc = "read"]]
    BY <1>7 DEF RunInline, Keeps
  <2>2. clean' => clean
    BY <2>1 DEF BatchInv, Types
  <2>3. [Asleep EXCEPT !.pc = "read"].pc = "read"
    BY AsleepFits DEF Pcs
  <2>4. \A p \in Runners : run'[p] = run[p] \/ run'[p].pc = "read"
    BY <2>1, <2>3 DEF BatchInv, Types
  <2> QED
    BY <2>1, <2>2, <2>4, PaysStay
<1> QED
  BY <1>3, <1>4, <1>5, <1>6, <1>7 DEF Handler

LEMMA QueuePays ==
    ASSUME BatchInv, PayInv, Fetch \/ Promote \/ Forget \/ Crash \/ UNCHANGED vars,
           spent' \in Spents, Failed => Failed'
    PROVE  PayInv'
<1>1. UNCHANGED <<kind, email, pay, made, row, clean>>
  BY DEF Fetch, Promote, Forget, Crash, QueueOnly, vars
<1>2. CASE Fetch
  <2>1. run' = [run EXCEPT !["queue"] = [Asleep EXCEPT !.pc = "read"]]
    BY <1>2 DEF Fetch
  <2>2. [Asleep EXCEPT !.pc = "read"].pc = "read"
    BY AsleepFits DEF Pcs
  <2>3. \A p \in Runners : run'[p] = run[p] \/ run'[p].pc = "read"
    BY <2>1, <2>2 DEF BatchInv, Types
  <2> QED
    BY <1>1, <2>3, PaysStay
<1>3. CASE Promote \/ Forget \/ UNCHANGED vars
  <2>1. run' = run
    BY <1>3 DEF Promote, Forget, vars
  <2> QED
    BY <1>1, <2>1, PaysStay
<1>4. CASE Crash
  <2>1. \A p \in Runners : run'[p].pc = "idle"
    BY <1>4, AsleepFits DEF Crash
  <2> QED
    BY <1>1, <2>1, PaysStay
<1> QED
  BY <1>2, <1>3, <1>4

\* The steps of a run that concern no address, and what goes wrong.
LEMMA RunsPay ==
    ASSUME BatchInv, PayInv, spent' \in Spents, Failed => Failed', NEW p \in Runners,
           \/ ReadBatch(p) \/ FetchRows(p) \/ CheckRow(p) \/ CountRows(p) \/ SyncJobCounts(p)
           \/ CompleteBatch(p) \/ FailBatch(p) \/ RowFault(p) \/ RunFault(p) \/ ThrowBatch(p)
    PROVE  PayInv'
<1>1. UNCHANGED <<kind, email, pay, made, row, clean>>
  BY DEF ReadBatch, FetchRows, CheckRow, CountRows, SyncJobCounts, CompleteBatch, FailBatch,
     RowFault, RunFault, ThrowBatch, RunsOnly
<1>2. PICK q \in Runs : q = run[p]
  BY DEF BatchInv, Types
<1>3. SUFFICES ASSUME NEW r, run' = [run EXCEPT ![p] = r], r.pc \notin {"total", "gross"},
                      r.pc = "write" => ~r.ok
               PROVE  PayInv'
  <2>1. ASSUME NEW well \in BOOLEAN, Ends(p, well)
        PROVE  run' = [run EXCEPT ![p] = Asleep]
    BY <2>1 DEF Ends
  <2>2. CASE ReadBatch(p)
    <3>1. CASE batch.status = "COMPLETED"
      BY <1>3, <2>1, <2>2, <3>1, AsleepFits DEF ReadBatch
    <3>2. CASE batch.status # "COMPLETED"
      <4>1. run' = [run EXCEPT ![p] = [q EXCEPT !.pc = "fetch"]]
        BY <1>2, <2>2, <3>2 DEF ReadBatch, Moves
      <4>2. [q EXCEPT !.pc = "fetch"].pc = "fetch"
        BY DEF Runs
      <4> QED
        BY <1>3, <4>1, <4>2
    <3> QED
      BY <3>1, <3>2
  <2>3. CASE FetchRows(p)
    <3>1. PICK left \in SUBSET Rows, pc \in {"count", "row"} :
             run' = [run EXCEPT ![p] = [q EXCEPT !.left = left, !.pc = pc]]
      <4>1. PICK left \in SUBSET Rows : left = {y \in Rows : row[y] = "PENDING"}
        OBVIOUS
      <4>2. PICK pc \in {"count", "row"} : pc = IF left = {} THEN "count" ELSE "row"
        OBVIOUS
      <4> QED
        BY <1>2, <2>3, <4>1, <4>2 DEF FetchRows, Moves
    <3>2. [q EXCEPT !.left = left, !.pc = pc].pc = pc
      BY DEF Runs
    <3> QED
      BY <1>3, <3>1, <3>2
  <2>4. CASE CheckRow(p)
    <3>1. run' = [run EXCEPT ![p] = [q EXCEPT !.ok = Fits(Address(p)),
                                           !.pc = IF Fits(Address(p)) THEN "effect" ELSE "write"]]
      BY <1>2, <2>4 DEF CheckRow, Moves
    <3>2. /\ run'[p].pc = IF Fits(Address(p)) THEN "effect" ELSE "write"
          /\ run'[p].ok = Fits(Address(p))
      BY <3>1 DEF Runs, BatchInv, Types
    <3>3. run' = [run EXCEPT ![p] = run'[p]]
      BY <3>1 DEF BatchInv, Types
    <3> QED
      BY <1>3, <3>2, <3>3
  <2>5. CASE CountRows(p)
    <3>1. PICK tally : run' = [run EXCEPT ![p] = [q EXCEPT !.tally = tally, !.pc = "sync"]]
      BY <1>2, <2>5 DEF CountRows, Moves
    <3>2. [q EXCEPT !.tally = tally, !.pc = "sync"].pc = "sync"
      BY DEF Runs
    <3> QED
      BY <1>3, <3>1, <3>2
  <2>6. CASE SyncJobCounts(p)
    <3>1. PICK pc \in {"complete", "row"} :
             run' = [run EXCEPT ![p] = [q EXCEPT !.tally = <<0, 0>>, !.pc = pc]]
      BY <1>2, <2>6 DEF SyncJobCounts, Moves
    <3>2. [q EXCEPT !.tally = <<0, 0>>, !.pc = pc].pc = pc
      BY DEF Runs
    <3> QED
      BY <1>3, <3>1, <3>2
  <2>7. CASE CompleteBatch(p) \/ FailBatch(p) \/ ThrowBatch(p)
    BY <1>3, <2>1, <2>7, AsleepFits DEF CompleteBatch, FailBatch, ThrowBatch
  <2>8. CASE RowFault(p)
    <3>1. run' = [run EXCEPT ![p] = [q EXCEPT !.ok = FALSE, !.sum = "none", !.pc = "write"]]
      BY <1>2, <2>8 DEF RowFault, Moves
    <3>2. /\ [q EXCEPT !.ok = FALSE, !.sum = "none", !.pc = "write"].pc = "write"
          /\ ~[q EXCEPT !.ok = FALSE, !.sum = "none", !.pc = "write"].ok
      BY DEF Runs
    <3> QED
      BY <1>3, <3>1, <3>2
  <2>9. CASE RunFault(p)
    <3>1. run' = [run EXCEPT ![p] = [Asleep EXCEPT !.pc = "fail"]]
      BY <2>9 DEF RunFault, Moves
    <3>2. [Asleep EXCEPT !.pc = "fail"].pc = "fail"
      BY AsleepFits DEF Pcs
    <3> QED
      BY <1>3, <3>1, <3>2
  <2> QED
    BY <2>2, <2>3, <2>4, <2>5, <2>6, <2>7, <2>8, <2>9
<1>4. run'[p] = r /\ \A s \in Runners \ {p} : run'[s] = run[s]
  BY <1>3 DEF BatchInv, Types
<1> QED
  BY <1>1, <1>3, <1>4, PaysStay

\* The effect of a row that hires, invites or updates.
LEMMA EffectsPay ==
    ASSUME BatchInv, PayInv, spent' \in Spents, Failed => Failed', NEW p \in Runners,
           \/ CreateEmployeeInternal(p) \/ CreateSalaryStructure(p) \/ SalaryFault(p)
           \/ CreateInvitationInternal(p) \/ UpdateUser(p)
    PROVE  PayInv'
<1>1. PICK q \in Runs : q = run[p]
  BY DEF BatchInv, Types
<1>2. UNCHANGED <<kind, email, clean, row>>
  BY DEF CreateEmployeeInternal, CreateSalaryStructure, SalaryFault, CreateInvitationInternal,
     UpdateUser, Does, RunsOnly
<1>3. pay \in [Emails -> Pays] /\ Address(p) \in Emails
  <2>1. run[p].pc \in Holding
    BY DEF CreateEmployeeInternal, CreateSalaryStructure, SalaryFault, CreateInvitationInternal,
       UpdateUser, At
  <2> QED
    BY <2>1, CurrentFits DEF PayInv, PayTypes, BatchInv
<1>4. PICK w \in Pays : /\ w = [pay[Address(p)] EXCEPT !.held = TRUE]
                        /\ w.held /\ w.gross = pay[Address(p)].gross
  <2>1. PICK v \in Pays : v = pay[Address(p)]
    BY <1>3
  <2>2. PICK held \in BOOLEAN : held = TRUE
    OBVIOUS
  <2>3. /\ [v EXCEPT !.held = held] \in Pays /\ [v EXCEPT !.held = held].held = held
        /\ [v EXCEPT !.held = held].gross = v.gross
    BY DEF Pays
  <2> QED
    BY <2>1, <2>2, <2>3
<1>5. /\ [pay EXCEPT ![Address(p)] = w] \in [Emails -> Pays]
      /\ \A a \in Emails : /\ [pay EXCEPT ![Address(p)] = w][a].gross = pay[a].gross
                           /\ pay[a].held => [pay EXCEPT ![Address(p)] = w][a].held
      /\ [pay EXCEPT ![Address(p)] = w][Address(p)].held
  BY <1>3, <1>4
<1>6. ASSUME NEW ok \in BOOLEAN, NEW next \in Writing, Does(p, ok, next)
      PROVE  /\ run'[p].pc = next /\ run'[p].ok = ok
             /\ \A s \in Runners \ {p} : run'[s] = run[s]
  <2>1. run' = [run EXCEPT ![p] = [q EXCEPT !.ok = ok, !.sum = "none", !.pc = next]]
    BY <1>1, <1>6 DEF Does, Moves
  <2>2. /\ [q EXCEPT !.ok = ok, !.sum = "none", !.pc = next].pc = next
        /\ [q EXCEPT !.ok = ok, !.sum = "none", !.pc = next].ok = ok
    BY DEF Runs
  <2> QED
    BY <2>1, <2>2 DEF BatchInv, Types
<1>7. CASE CreateEmployeeInternal(p)
  <2>1. pay' = pay /\ kind = "EMPLOYEE_CREATION"
    BY <1>7 DEF CreateEmployeeInternal
  <2>2. run'[p].pc = "salary" \/ run'[p].ok = FALSE
    BY <1>6, <1>7 DEF CreateEmployeeInternal
  <2>3. \A s \in Runners \ {p} : run'[s] = run[s]
    BY <1>6, <1>7 DEF CreateEmployeeInternal
  <2> QED
    BY <1>2, <1>3, <2>1, <2>2, <2>3, HiringFits
<1>8. CASE CreateSalaryStructure(p) \/ SalaryFault(p)
  <2>1. kind = "EMPLOYEE_CREATION" /\ run' = [run EXCEPT ![p] = [q EXCEPT !.pc = "write"]]
    BY <1>1, <1>8 DEF CreateSalaryStructure, SalaryFault, Moves
  <2>2. Address(p)' = Address(p) /\ \A s \in Runners \ {p} : run'[s] = run[s]
    BY <1>1, <1>2, <2>1 DEF Address, Current, BatchInv, Types, Runs
  <2>3. \/ pay' = [pay EXCEPT ![Address(p)] = w]
        \/ pay' = pay /\ Failed'
    <3>1. CASE CreateSalaryStructure(p)
      BY <1>3, <1>4, <3>1 DEF CreateSalaryStructure
    <3>2. CASE SalaryFault(p)
      BY <3>2 DEF SalaryFault, Failed, PayInv, PayTypes, Spents
    <3> QED
      BY <1>8, <3>1, <3>2
  <2>4. CASE pay' = [pay EXCEPT ![Address(p)] = w]
    BY <1>2, <1>3, <1>5, <2>1, <2>2, <2>4, HiringFits
  <2>5. CASE pay' = pay /\ Failed'
    BY <1>2, <1>3, <2>1, <2>2, <2>5, HiringFits
  <2> QED
    BY <2>3, <2>4, <2>5
<1>9. CASE CreateInvitationInternal(p) \/ UpdateUser(p)
  <2>1. kind \notin {"EMPLOYEE_CREATION", "ALLOCATION"}
    BY <1>9 DEF CreateInvitationInternal, UpdateUser
  <2>2. pay' = pay \/ pay' = [pay EXCEPT ![Address(p)] = w]
    BY <1>3, <1>4, <1>9 DEF CreateInvitationInternal, UpdateUser
  <2> QED
    BY <1>2, <1>3, <1>5, <2>1, <2>2, OthersStay
<1> QED
  BY <1>7, <1>8, <1>9

\* The three calls that replace a line, and the reading between them.
LEMMA LinesPay ==
    ASSUME BatchInv, PayInv, spent' \in Spents, Failed => Failed', NEW p \in Runners,
           \/ DeleteLine(p) \/ CreateLine(p) \/ ReadStructure(p) \/ RecalcGrossForStructure(p)
    PROVE  PayInv'
<1>1. PICK q \in Runs : q = run[p]
  BY DEF BatchInv, Types
<1>2. /\ q.pc \in Doing /\ kind = "ALLOCATION"
      /\ UNCHANGED <<kind, email, clean, row>>
  BY <1>1 DEF DeleteLine, CreateLine, ReadStructure, RecalcGrossForStructure, Replaces, Does,
     RunsOnly, At
<1>3. PICK x \in Rows : x = Current(p) /\ email[x] = Address(p) /\ Address(p) \in Emails
  BY <1>1, <1>2, CurrentFits DEF BatchInv, Address
<1>4. PICK v \in Pays : v = pay[email[x]]
  BY <1>3 DEF PayInv, PayTypes
<1>5. pay \in [Emails -> Pays] /\ made \in [Rows -> Nat] /\ run \in [Runners -> Runs]
  BY DEF PayInv, PayTypes, BatchInv, Types
<1>6. /\ clean => row[x] = "PENDING" /\ LineFits(p)
      /\ made[x] = 0 => v.gross # "new"
  <2>1. clean => row[x] = "PENDING"
    BY <1>1, <1>2, <1>3, CurrentFits, HeldFits DEF BatchInv, Pending
  <2> QED
    BY <1>2, <1>4, <2>1 DEF PayInv, LinesFit
<1>7. run[p].pc \in Holding
  BY <1>1, <1>2
<1>13. \A pc \in Pcs : /\ [q EXCEPT !.pc = pc] \in Runs /\ [q EXCEPT !.pc = pc].pc = pc
                        /\ [q EXCEPT !.pc = pc].left = q.left
  BY DEF Runs
<1>14. \A l \in Lines : /\ [v EXCEPT !.line = l] \in Pays /\ [v EXCEPT !.line = l].line = l
                         /\ [v EXCEPT !.line = l].gross = v.gross
  BY DEF Pays
<1>8. CASE DeleteLine(p)
  <2>1. /\ run' = [run EXCEPT ![p] = [q EXCEPT !.pc = "line"]] /\ made' = made
        /\ pay' = [pay EXCEPT ![email[x]] = [v EXCEPT !.line = "none"]]
    BY <1>1, <1>3, <1>4, <1>5, <1>8 DEF DeleteLine, Replaces, Moves
  <2>2. PICK r \in Runs : r = [q EXCEPT !.pc = "line"] /\ r.pc = "line" /\ r.left = q.left
    BY <1>13 DEF Pcs
  <2>3. PICK w \in Pays : w = [v EXCEPT !.line = "none"] /\ w.gross = v.gross
    BY <1>14 DEF Lines
  <2>4. OwnLine(p, r, x, w)
    BY <1>1, <1>2, <1>3, <1>6, <1>7, <2>1, <2>2, <2>3 DEF OwnLine
  <2> QED
    BY <1>2, <1>3, <2>4, AllocatingFits
<1>9. CASE CreateLine(p) /\ pay[Address(p)].line = "none"
  <2>1. /\ run' = [run EXCEPT ![p] = [q EXCEPT !.pc = "total"]] /\ made' = made
        /\ pay' = [pay EXCEPT ![email[x]] = [v EXCEPT !.line = "new"]]
    BY <1>1, <1>3, <1>4, <1>5, <1>9 DEF CreateLine, Replaces, Moves
  <2>2. PICK r \in Runs : r = [q EXCEPT !.pc = "total"] /\ r.pc = "total" /\ r.left = q.left
    BY <1>13 DEF Pcs
  <2>3. PICK w \in Pays : /\ w = [v EXCEPT !.line = "new"] /\ w.line = "new"
                          /\ w.gross = v.gross
    BY <1>14 DEF Lines
  <2>4. OwnLine(p, r, x, w)
    BY <1>1, <1>2, <1>3, <1>6, <1>7, <2>1, <2>2, <2>3 DEF OwnLine
  <2> QED
    BY <1>2, <1>3, <2>4, AllocatingFits
<1>10. CASE CreateLine(p) /\ pay[Address(p)].line # "none"
  <2>1. /\ run' = [run EXCEPT ![p] = [q EXCEPT !.ok = FALSE, !.pc = "write"]] /\ made' = made
        /\ pay' = [pay EXCEPT ![email[x]] = v]
    BY <1>1, <1>3, <1>4, <1>5, <1>10 DEF CreateLine, Replaces, Moves
  <2>2. PICK r \in Runs : /\ r = [q EXCEPT !.ok = FALSE, !.pc = "write"] /\ r.pc = "write"
                          /\ r.ok = FALSE /\ r.left = q.left
    <3>1. PICK pc \in Pcs : pc = "write"
      BY DEF Pcs
    <3>2. /\ [q EXCEPT !.ok = FALSE, !.pc = pc] \in Runs
          /\ [q EXCEPT !.ok = FALSE, !.pc = pc].pc = pc
          /\ [q EXCEPT !.ok = FALSE, !.pc = pc].ok = FALSE
          /\ [q EXCEPT !.ok = FALSE, !.pc = pc].left = q.left
      BY DEF Runs
    <3> QED
      BY <3>1, <3>2
  <2>3. OwnLine(p, r, x, v)
    BY <1>1, <1>2, <1>3, <1>6, <1>7, <2>1, <2>2 DEF OwnLine
  <2> QED
    BY <1>2, <1>3, <2>3, AllocatingFits
<1>11. CASE ReadStructure(p)
  <2>1. /\ q.pc = "total" /\ made' = made /\ pay' = [pay EXCEPT ![email[x]] = v]
        /\ run' = [run EXCEPT ![p] = [q EXCEPT !.sum = v.line, !.pc = "gross"]]
    BY <1>1, <1>3, <1>4, <1>5, <1>11 DEF ReadStructure, Replaces, Moves, At
  <2>2. PICK r \in Runs : /\ r = [q EXCEPT !.sum = v.line, !.pc = "gross"]
                          /\ r.pc = "gross" /\ r.sum = v.line /\ r.left = q.left
    <3>1. PICK pc \in Pcs : pc = "gross"
      BY DEF Pcs
    <3>2. v.line \in Lines
      BY DEF Pays
    <3>3. /\ [q EXCEPT !.sum = v.line, !.pc = pc] \in Runs
          /\ [q EXCEPT !.sum = v.line, !.pc = pc].pc = pc
          /\ [q EXCEPT !.sum = v.line, !.pc = pc].sum = v.line
          /\ [q EXCEPT !.sum = v.line, !.pc = pc].left = q.left
      BY <3>2 DEF Runs
    <3> QED
      BY <3>1, <3>3
  <2>3. clean => v.line = "new"
    BY <1>1, <1>3, <1>4, <1>6, <2>1 DEF LineFits
  <2>4. OwnLine(p, r, x, v)
    BY <1>1, <1>2, <1>3, <1>6, <1>7, <2>1, <2>2, <2>3 DEF OwnLine
  <2> QED
    BY <1>2, <1>3, <2>4, AllocatingFits
<1>12. CASE RecalcGrossForStructure(p)
  <2>1. /\ q.pc = "gross"
        /\ run' = [run EXCEPT ![p] = [q EXCEPT !.ok = TRUE, !.sum = "none", !.pc = "write"]]
        /\ made' = [made EXCEPT ![x] = made[x] + 1]
        /\ pay' = [pay EXCEPT ![email[x]] = [v EXCEPT !.gross = q.sum]]
    BY <1>1, <1>3, <1>4, <1>5, <1>12 DEF RecalcGrossForStructure, Does, Moves, At
  <2>2. PICK r \in Runs : /\ r = [q EXCEPT !.ok = TRUE, !.sum = "none", !.pc = "write"]
                          /\ r.pc = "write" /\ r.left = q.left
    <3>1. PICK pc \in Pcs, sum \in Lines : pc = "write" /\ sum = "none"
      BY DEF Pcs, Lines
    <3>2. /\ [q EXCEPT !.ok = TRUE, !.sum = sum, !.pc = pc] \in Runs
          /\ [q EXCEPT !.ok = TRUE, !.sum = sum, !.pc = pc].pc = pc
          /\ [q EXCEPT !.ok = TRUE, !.sum = sum, !.pc = pc].left = q.left
      BY DEF Runs
    <3> QED
      BY <3>1, <3>2
  <2>3. PICK w \in Pays : /\ w = [v EXCEPT !.gross = q.sum]
                          /\ w.line = v.line /\ w.gross = q.sum
    <3>1. q.sum \in Lines
      BY DEF Runs
    <3>2. \A l \in Lines : /\ [v EXCEPT !.gross = l] \in Pays /\ [v EXCEPT !.gross = l].line = v.line
                            /\ [v EXCEPT !.gross = l].gross = l
      BY DEF Pays
    <3> QED
      BY <3>1, <3>2
  <2>4. clean => v.line = "new" /\ q.sum = "new"
    BY <1>1, <1>3, <1>4, <1>6, <2>1 DEF LineFits, At
  <2>5. made'[x] # 0 /\ \A y \in Rows \ {x} : made'[y] = made[y]
    BY <1>5, <2>1
  <2>6. clean => /\ r.pc \in {"total", "gross"} => w.line = "new"
                 /\ r.pc = "gross" => r.sum = "new"
                 /\ r.pc = "write" /\ r.ok => w.line = "new" /\ w.gross = "new"
    BY <2>2, <2>3, <2>4
  <2>7. run' = [run EXCEPT ![p] = r] /\ pay' = [pay EXCEPT ![email[x]] = w]
    BY <2>1, <2>2, <2>3
  <2>8. /\ r.pc # "count" => r.left = run[p].left
        /\ r.pc = "count" => run[p].pc = "write"
    BY <1>1, <2>2
  <2>9. /\ \A y \in Rows \ {x} : row'[y] = row[y] /\ made'[y] = made[y]
        /\ row'[x] = "SUCCESS" /\ clean /\ row[x] = "PENDING" =>
              w.line = "new" /\ w.gross = "new"
    BY <1>2, <2>5
  <2>10. OwnLine(p, r, x, w)
    BY <1>2, <1>3, <1>7, <2>5, <2>6, <2>7, <2>8, <2>9 DEF OwnLine
  <2> QED
    BY <1>2, <1>3, <2>10, AllocatingFits
<1> QED
  BY <1>8, <1>9, <1>10, <1>11, <1>12

\* The verdict of a row.
LEMMA VerdictsPay ==
    ASSUME BatchInv, PayInv, spent' \in Spents, Failed => Failed', NEW p \in Runners, WriteRow(p)
    PROVE  PayInv'
<1>1. PICK q \in Runs : q = run[p]
  BY DEF BatchInv, Types
<1>2. /\ q.pc = "write" /\ UNCHANGED <<kind, email, clean, pay, made>>
      /\ row' = [row EXCEPT ![Current(p)] = Verdict(p)]
      /\ run' = [run EXCEPT ![p] = [q EXCEPT !.left = q.left \ {Current(p)}, !.ok = FALSE,
                                       !.pc = "count"]]
  BY <1>1 DEF WriteRow, At, Moves, RunsOnly
<1>3. PICK x \in Rows : x = Current(p) /\ email[x] = Address(p) /\ Address(p) \in Emails
  BY <1>1, <1>2, CurrentFits DEF BatchInv, Address
<1>4. PICK r \in Runs : run' = [run EXCEPT ![p] = r] /\ r.pc = "count"
  <2>1. PICK pc \in Pcs : pc = "count"
    BY DEF Pcs
  <2>2. /\ [q EXCEPT !.left = q.left \ {Current(p)}, !.ok = FALSE, !.pc = pc] \in Runs
        /\ [q EXCEPT !.left = q.left \ {Current(p)}, !.ok = FALSE, !.pc = pc].pc = pc
    BY DEF Runs
  <2> QED
    BY <1>2, <2>1, <2>2
<1>5. /\ row'[x] = "SUCCESS" => run[p].ok
      /\ \A y \in Rows \ {x} : row'[y] = row[y]
  BY <1>2, <1>3 DEF Verdict, BatchInv, Types
<1>6. pay \in [Emails -> Pays] /\ run \in [Runners -> Runs]
  BY DEF PayInv, PayTypes, BatchInv, Types
<1>7. CASE kind = "EMPLOYEE_CREATION"
  <2>1. row'[x] = "SUCCESS" => pay[email[x]].held \/ Failed
    BY <1>1, <1>2, <1>3, <1>5, <1>7 DEF PayInv, NewOnesPaid, At
  <2>2. \A y \in Rows : row'[y] = "SUCCESS" => row[y] = "SUCCESS" \/ pay'[email[y]].held \/ Failed'
    BY <1>2, <1>5, <2>1
  <2>3. \A s \in Runners : run'[s] = run[s] \/ run'[s].pc = "count"
    BY <1>4, <1>6
  <2> QED
    BY <1>2, <1>6, <1>7, <2>2, <2>3, HiringFits
<1>8. CASE kind = "ALLOCATION"
  <2>1. PICK w \in Pays : w = pay[email[x]] /\ pay' = [pay EXCEPT ![email[x]] = w]
    BY <1>2, <1>3, <1>6
  <2>2. clean => LineFits(p)
    BY <1>8 DEF PayInv, LinesFit
  <2>3. row'[x] = "SUCCESS" => (clean => w.line = "new" /\ w.gross = "new")
    BY <1>1, <1>2, <1>3, <1>5, <2>1, <2>2 DEF LineFits, At
  <2>4. made'[x] = 0 => w.gross # "new"
    BY <1>2, <1>8, <2>1 DEF PayInv, LinesFit
  <2>5. run[p].pc \in Holding /\ run[p].pc = "write"
    BY <1>1, <1>2
  <2>6. clean => /\ r.pc \in {"total", "gross"} => w.line = "new"
                 /\ r.pc = "gross" => r.sum = "new"
                 /\ r.pc = "write" /\ r.ok => w.line = "new" /\ w.gross = "new"
    BY <1>4
  <2>7. row'[x] = "SUCCESS" /\ clean /\ row[x] = "PENDING" => w.line = "new" /\ w.gross = "new"
    BY <2>3
  <2>8. \A y \in Rows \ {x} : row'[y] = row[y] /\ made'[y] = made[y]
    BY <1>2, <1>5
  <2>9. /\ r.pc # "count" => r.left = run[p].left
        /\ r.pc = "count" => run[p].pc = "write"
        /\ run' = [run EXCEPT ![p] = r] /\ pay' = [pay EXCEPT ![email[x]] = w]
    BY <1>4, <2>1, <2>5
  <2>10. OwnLine(p, r, x, w)
    BY <1>2, <1>3, <1>8, <2>4, <2>5, <2>6, <2>7, <2>8, <2>9 DEF OwnLine
  <2> QED
    BY <1>2, <1>3, <1>8, <2>10, AllocatingFits
<1>9. CASE kind \notin {"EMPLOYEE_CREATION", "ALLOCATION"}
  BY <1>2, <1>6, <1>9, OthersStay
<1> QED
  BY <1>7, <1>8, <1>9

LEMMA PayInit == Init => PayInv
<1> SUFFICES ASSUME Init
             PROVE  PayInv
  OBVIOUS
<1>1. PICK held \in SUBSET employees :
         pay = [a \in Emails |->
                  LET line == IF a \in held THEN "old" ELSE "none"
                  IN  [held |-> a \in held, line |-> line, gross |-> line]]
  BY DEF Init
<1>2. pay \in [Emails -> Pays] /\ \A a \in Emails : pay[a].gross # "new"
  BY <1>1 DEF Pays, Lines
<1>3. kind = "none" /\ spent \in Spents
  BY DEF Init, Spents
<1> QED
  BY <1>2, <1>3 DEF PayInv, PayTypes, NewOnesPaid, LinesFit

LEMMA PayStep == BatchInv /\ PayInv /\ [Next]_vars => PayInv'
<1> SUFFICES ASSUME BatchInv, PayInv, [Next]_vars
             PROVE  PayInv'
  OBVIOUS
<1>1. spent' \in Spents /\ (Failed => Failed')
  BY SpentFits DEF PayInv
<1>2. CASE Handler
  BY <1>1, <1>2, HandlersPay
<1>3. ASSUME NEW p \in Runners, ProcessBatchJobById(p)
      PROVE  PayInv'
  BY <1>1, <1>3, RunsPay, EffectsPay, LinesPay, VerdictsPay DEF ProcessBatchJobById
<1>4. ASSUME NEW p \in Runners, Faults(p)
      PROVE  PayInv'
  BY <1>1, <1>4, RunsPay, EffectsPay DEF Faults
<1>5. CASE Fetch \/ Promote \/ Forget \/ Crash \/ UNCHANGED vars
  BY <1>1, <1>5, QueuePays
<1> QED
  BY <1>2, <1>3, <1>4, <1>5 DEF Next

-----------------------------------------------------------------------------
(* The theorems                                                            *)

Fit == BatchInv /\ PayInv

\* What every step keeps: who is at work for the batch, what each row did and
\* was tried for, what a run that is alone knows of the rows, and what became of
\* the salary structures the rows are about.
THEOREM BatchInvariant == Spec => []Fit
<1>1. Init => Fit
  BY InitFits, PayInit DEF Fit
<1>2. Fit /\ [Next]_vars => Fit'
  BY StepFits, PayStep DEF Fit, PayInv
<1> QED
  BY <1>1, <1>2, PTL DEF Spec

\* The variables stay in their types.
THEOREM BatchTypes == Spec => []TypeOK
<1>1. Fit => TypeOK
  <2> SUFFICES ASSUME BatchInv, PayInv
               PROVE  TypeOK
    BY DEF Fit
  <2>1. queue \in Jobs /\ run \in [Runners -> Runs] /\ batch \in Batches
    BY DEF BatchInv, Types
  <2>2. queue.state \in Unfinished \cup {"none", "completed", "failed"}
    BY <2>1 DEF Jobs
  <2>3. \A p \in Runners : run[p].left \subseteq Rows
    BY <2>1 DEF Runs
  <2>4. pay \in [Emails -> [held : BOOLEAN, line : Lines, gross : Lines]]
    BY DEF PayInv, PayTypes, Pays
  <2> QED
    BY <2>1, <2>2, <2>3, <2>4 DEF BatchInv, Types, Batches, TypeOK
<1> QED
  BY <1>1, BatchInvariant, PTL

\* No address gets a second employee from the batch, however runs, attempts and
\* requests meet; none gets a second pending invitation as long as requests come
\* alone.  Updates and allocations may be repeated, and are not counted.
THEOREM AddressesAreServedOnce == Spec => []OneEachPerAddress
<1>1. Fit => OneEachPerAddress
  BY DEF Fit, BatchInv, ServedOnce, Limited, Invites, OneEachPerAddress
<1> QED
  BY <1>1, BatchInvariant, PTL

\* A row that says SUCCESS did all it is for, up to the salary structure of a new
\* employee, which a failing call may cost; one that says FAILED did it only if it
\* was tried again and met its own work.
THEOREM VerdictsAreTrue == Spec => []RowsTellTheTruth
<1>1. Fit => RowsTellTheTruth
  BY DEF Fit, BatchInv, AttemptsFit, RowFits, PayInv, NewOnesPaid, Failed, RowsTellTheTruth
<1> QED
  BY <1>1, BatchInvariant, PTL

\* An allocation that says SUCCESS left its line and the gross of it, if no two
\* runs met; one that failed at its first attempt left the gross alone.
THEOREM AllocatedLinesAreWhole == Spec => []AllocationsAreWhole
<1>1. Fit => AllocationsAreWhole
  <2> SUFFICES ASSUME BatchInv, PayInv, kind = "ALLOCATION", NEW r \in Rows
               PROVE  /\ clean /\ row[r] = "SUCCESS" =>
                            pay[email[r]].line = "new" /\ pay[email[r]].gross = "new"
                      /\ row[r] = "FAILED" /\ tries[r] = 1 => pay[email[r]].gross # "new"
    BY DEF Fit, AllocationsAreWhole
  <2>1. row[r] = "FAILED" /\ tries[r] = 1 => made[r] = 0
    BY DEF BatchInv, AttemptsFit, RowFits, Types
  <2> QED
    BY <2>1 DEF PayInv, LinesFit
<1> QED
  BY <1>1, BatchInvariant, PTL

\* A batch completed by a run that was alone has a verdict for each row, and
\* its counters are right.
THEOREM CompletedBatchesAreWhole == Spec => []CompletedIsWhole
<1>1. Fit => CompletedIsWhole
  BY DEF Fit, BatchInv
<1> QED
  BY <1>1, BatchInvariant, PTL
=============================================================================
