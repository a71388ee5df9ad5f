--------------------------- MODULE PatrolsProofs ---------------------------
(***************************************************************************)
(* Patrols, for any number of checkpoints, scans in flight and slots.  A   *)
(* scan that is about to be saved holds a count read earlier; scan events  *)
(* are never taken back, so that count is a lower bound of the events, and *)
(* one more when a new event joins them.                                   *)
(***************************************************************************)
EXTENDS Patrols, TLAPS, FiniteSetTheorems

\* What a scan in flight relies on.
ScansFit ==
    \A c \in Clients :
       /\ scan[c].pc # "idle" => \E x \in Checkpoints : scan[c].p = {x}
       /\ scan[c].pc = "save" =>
             Exists(scan[c].s) /\ scan[c].hit <= Cardinality(session[scan[c].s].scans)

\* A scan event is one of a session, and says that its round was started.
ScannedIsStarted ==
    \A s \in Starts : session[s].scans # {} => session[s].started /\ Exists(s)

\* The inductive invariant.
PatrolsInv ==
    /\ TypeOK
    /\ ScansFit
    /\ ScannedIsStarted
    /\ RoundsAreWalked
    /\ VerdictsFit

-----------------------------------------------------------------------------
(* Values                                                                  *)

LEMMA ScansAreCounted ==
    ASSUME NEW S \in SUBSET Checkpoints
    PROVE  IsFiniteSet(S) /\ Cardinality(S) \in Nat
<1>1. IsFiniteSet(Checkpoints)
  BY FS_Interval, PatrolsAssumption DEF Checkpoints
<1> QED
  BY <1>1, FS_Subset, FS_CardinalityType

LEMMA OneMoreScan ==
    ASSUME NEW S \in SUBSET Checkpoints, NEW x \in Checkpoints, x \notin S
    PROVE  Cardinality(S \cup {x}) = Cardinality(S) + 1
  BY ScansAreCounted, FS_AddElement

LEMMA NothingScanned == Cardinality({}) = 0
  BY FS_EmptySet

LEMMA SlotStartsInWindow ==
    ASSUME NEW t \in Nat, t <= WindowEnd, NEW interval \in Nat \ {0}
    PROVE  SlotStart(t, interval) \in Starts
  BY PatrolsAssumption DEF SlotStart, Starts

LEMMA SlotEndsInWindow ==
    ASSUME NEW s \in Starts, NEW interval \in Nat \ {0}
    PROVE  SlotEnd(s, interval) \in Starts
  BY PatrolsAssumption DEF SlotEnd, Starts

LEMMA IdleFits == Idle \in Scans /\ Idle.pc = "idle"
  BY PatrolsAssumption DEF Idle, Scans, Starts, All

LEMMA FoundFits ==
    ASSUME NEW q \in Scans, NEW s \in Starts, NEW r \in Sessions
    PROVE  /\ Found(q, s, r) \in Scans
           /\ Found(q, s, r).pc = "save" /\ Found(q, s, r).p = q.p
           /\ Found(q, s, r).s = s /\ Found(q, s, r).hit = r.hit
<1> DEFINE need == IF q.min = All THEN r.total ELSE q.min
<1>1. need \in Nat
  BY DEF Scans, Sessions
<1>2. r.hit \in Nat /\ q.p \in SUBSET Checkpoints /\ q.t \in 0..LastTick
  BY DEF Scans, Sessions
<1>3. Found(q, s, r) = [Idle EXCEPT !.pc = "save", !.p = q.p, !.t = q.t, !.s = s,
                                    !.hit = r.hit, !.need = need]
  BY DEF Found
<1> HIDE DEF need
<1>4. Found(q, s, r) \in Scans
  BY <1>1, <1>2, <1>3, IdleFits DEF Scans
<1>5. Found(q, s, r).pc = "save" /\ Found(q, s, r).p = q.p
  BY <1>3 DEF Idle
<1>6. Found(q, s, r).s = s /\ Found(q, s, r).hit = r.hit
  BY <1>3 DEF Idle
<1> QED
  BY <1>4, <1>5, <1>6

LEMMA ScannedFits ==
    ASSUME NEW r \in Sessions, NEW q \in Scans
    PROVE  /\ Scanned(r, q) \in Sessions
           /\ Scanned(r, q).scans = r.scans \cup q.p
           /\ Scanned(r, q).hit = q.hit + 1
           /\ Scanned(r, q).started = TRUE
           /\ \/ Scanned(r, q).status = r.status /\ Scanned(r, q).need = r.need
              \/ /\ Scanned(r, q).status = "COMPLETED" /\ Scanned(r, q).need = q.need
                 /\ q.need <= q.hit + 1
<1>1. q.hit + 1 \in Nat /\ q.need \in Nat /\ q.p \in SUBSET Checkpoints
  BY DEF Scans
<1>2. Scanned(r, q) \in Sessions
  BY <1>1 DEF Scanned, Sessions
<1>3. Scanned(r, q).scans = r.scans \cup q.p /\ Scanned(r, q).started = TRUE
  BY DEF Scanned, Sessions
<1>4. Scanned(r, q).hit = q.hit + 1
  BY DEF Scanned, Sessions
<1>5. Scanned(r, q).status = IF q.hit + 1 >= q.need THEN "COMPLETED" ELSE r.status
  BY DEF Scanned, Sessions
<1>6. Scanned(r, q).need = IF q.hit + 1 >= q.need THEN q.need ELSE r.need
  BY DEF Scanned, Sessions
<1> QED
  BY <1>1, <1>2, <1>3, <1>4, <1>5, <1>6

-----------------------------------------------------------------------------
(* What steps leave as it is                                               *)

\* Sessions that only gain scan events.
Grown ==
    /\ session' \in [Starts -> Sessions]
    /\ \A s \in Starts : session[s].scans \subseteq session'[s].scans
    /\ \A s \in Starts : Exists(s) => session'[s].status # "none"

LEMMA CountsGrow ==
    ASSUME TypeOK, Grown, NEW s \in Starts
    PROVE  Cardinality(session[s].scans) <= Cardinality(session'[s].scans)
<1>1. session'[s].scans \in SUBSET Checkpoints
  BY DEF Grown, Sessions
<1> QED
  BY <1>1, ScansAreCounted, FS_Subset DEF Grown

\* A call that goes on as k, beside sessions that grow, leaves the others fit.
LEMMA OneScanGoesOn ==
    ASSUME PatrolsInv, Grown, NEW c \in Clients, NEW k \in Scans, Goes(c, k),
           k.pc # "idle" => \E x \in Checkpoints : k.p = {x},
           k.pc = "save" => session'[k.s].status # "none" /\ k.hit <= Cardinality(session'[k.s].scans)
    PROVE  scan' \in [Clients -> Scans] /\ ScansFit'
<1>1. scan' \in [Clients -> Scans]
  BY DEF Goes, PatrolsInv, TypeOK
<1>2. ASSUME NEW d \in Clients
      PROVE  /\ scan'[d].pc # "idle" => \E x \in Checkpoints : scan'[d].p = {x}
             /\ scan'[d].pc = "save" => /\ session'[scan'[d].s].status # "none"
                                       /\ scan'[d].hit <= Cardinality(session'[scan'[d].s].scans)
  <2>1. CASE d = c
    BY <2>1 DEF Goes, PatrolsInv, TypeOK
  <2>2. CASE d # c
    <3>1. scan'[d] = scan[d] /\ scan[d] \in Scans
      BY <2>2 DEF Goes, PatrolsInv, TypeOK
    <3>2. scan[d].s \in Starts /\ scan[d].hit \in Nat
      BY <3>1 DEF Scans
    <3>3. Cardinality(session[scan[d].s].scans) <= Cardinality(session'[scan[d].s].scans)
      BY <3>2, CountsGrow DEF PatrolsInv
    <3>4. /\ Cardinality(session[scan[d].s].scans) \in Nat
          /\ Cardinality(session'[scan[d].s].scans) \in Nat
      BY <3>2, ScansAreCounted DEF PatrolsInv, TypeOK, Grown, Sessions
    <3> QED
      BY <3>1, <3>2, <3>3, <3>4 DEF PatrolsInv, ScansFit, Grown, Exists
  <2> QED
    BY <2>1, <2>2
<1> QED
  BY <1>1, <1>2 DEF ScansFit, Exists

\* The same of a step of somebody else.
LEMMA ScansStayFit ==
    ASSUME PatrolsInv, Grown, UNCHANGED scan
    PROVE  ScansFit'
<1>1. ASSUME NEW d \in Clients
      PROVE  /\ scan[d].pc # "idle" => \E x \in Checkpoints : scan[d].p = {x}
             /\ scan[d].pc = "save" => /\ session'[scan[d].s].status # "none"
                                      /\ scan[d].hit <= Cardinality(session'[scan[d].s].scans)
  <2>1. scan[d].s \in Starts /\ scan[d].hit \in Nat
    BY DEF PatrolsInv, TypeOK, Scans
  <2>2. Cardinality(session[scan[d].s].scans) <= Cardinality(session'[scan[d].s].scans)
    BY <2>1, CountsGrow DEF PatrolsInv
  <2>3. /\ Cardinality(session[scan[d].s].scans) \in Nat
        /\ Cardinality(session'[scan[d].s].scans) \in Nat
    BY <2>1, ScansAreCounted DEF PatrolsInv, TypeOK, Grown, Sessions
  <2> QED
    BY <2>1, <2>2, <2>3 DEF PatrolsInv, ScansFit, Grown, Exists
<1> QED
  BY <1>1 DEF ScansFit, Exists

LEMMA SameSessionsGrow ==
    ASSUME TypeOK, UNCHANGED session PROVE Grown
  BY DEF TypeOK, Grown, Exists

\* Sessions and their history as they were.
LEMMA SameSessionsFit ==
    ASSUME PatrolsInv, UNCHANGED <<session, late>>
    PROVE  ScannedIsStarted' /\ RoundsAreWalked' /\ VerdictsFit'
  BY DEF PatrolsInv, ScannedIsStarted, RoundsAreWalked, VerdictsFit, Exists

-----------------------------------------------------------------------------
(* The steps                                                               *)

\* The conjuncts of TypeOK that only administrators disturb.
Rooms ==
    /\ site \in {"none", "live", "deleted"}
    /\ point \in [Checkpoints -> {"none", "active", "off"}]
    /\ schedule \in [state : {"none", "live", "deleted"}, active : BOOLEAN,
                     interval : Nat \ {0}, min : Nat \cup {All}]

LEMMA InitFits == Init => PatrolsInv
<1> SUFFICES ASSUME Init PROVE PatrolsInv
  OBVIOUS
<1>1. NoSession \in Sessions /\ NoSession.scans = {} /\ NoSession.hit = 0
      /\ NoSession.status = "none"
  BY PatrolsAssumption DEF NoSession, Sessions, Starts
<1>2. TypeOK
  BY <1>1, IdleFits, PatrolsAssumption DEF Init, TypeOK, NoSchedule, Resting
<1>3. ScansFit /\ ScannedIsStarted /\ VerdictsFit
  BY <1>1, IdleFits DEF Init, ScansFit, ScannedIsStarted, VerdictsFit
<1>4. RoundsAreWalked
  BY <1>1, NothingScanned DEF Init, RoundsAreWalked
<1> QED
  BY <1>2, <1>3, <1>4 DEF PatrolsInv

LEMMA SchedulesFit ==
    ASSUME TypeOK, NEW interval \in Intervals, NEW min \in Minima \cup {All}
    PROVE  interval \in Nat \ {0} /\ min \in Nat \cup {All}
  BY PatrolsAssumption

LEMMA AdministrationFits == ASSUME PatrolsInv, Administration PROVE PatrolsInv'
<1>1. Edits
  BY DEF Administration, CreateSite, SetupSite, DeleteSite, CreateCheckpoint, UpdateCheckpoint,
         DeleteCheckpoint, CreateSchedule, UpdateSchedule, DeleteSchedule
<1>2. Rooms'
  <2>1. CASE CreateSite \/ DeleteSite
    BY <2>1 DEF CreateSite, DeleteSite, PatrolsInv, TypeOK, Rooms
  <2>2. CASE SetupSite
    BY <2>2 DEF SetupSite, PatrolsInv, TypeOK, Rooms
  <2>3. CASE \E p \in Checkpoints : CreateCheckpoint(p) \/ UpdateCheckpoint(p) \/ DeleteCheckpoint(p)
    BY <2>3 DEF CreateCheckpoint, UpdateCheckpoint, DeleteCheckpoint, PatrolsInv, TypeOK, Rooms
  <2>4. CASE CreateSchedule
    BY <2>4, SchedulesFit DEF CreateSchedule, PatrolsInv, TypeOK, Rooms
  <2>5. CASE UpdateSchedule
    BY <2>5, SchedulesFit DEF UpdateSchedule, PatrolsInv, TypeOK, Rooms
  <2>6. CASE DeleteSchedule
    <3>1. NoSchedule \in [state : {"none", "live", "deleted"}, active : BOOLEAN,
                          interval : Nat \ {0}, min : Nat \cup {All}]
      BY DEF NoSchedule
    <3> QED
      BY <2>6, <3>1 DEF DeleteSchedule, PatrolsInv, TypeOK, Rooms
  <2> QED
    BY <2>1, <2>2, <2>3, <2>4, <2>5, <2>6 DEF Administration
<1>3. TypeOK'
  <2>1. spent' \in [scans : 0..MaxScans, edits : 0..MaxEdits, faults : 0..MaxFaults]
    BY <1>1, PatrolsAssumption DEF Edits, PatrolsInv, TypeOK
  <2> QED
    BY <1>1, <1>2, <2>1 DEF Edits, Rooms, PatrolsInv, TypeOK
<1>4. Grown
  BY <1>1, SameSessionsGrow DEF Edits, PatrolsInv
<1> QED
  BY <1>1, <1>3, <1>4, ScansStayFit, SameSessionsFit DEF Edits, PatrolsInv

\* The conjuncts of TypeOK that a scan disturbs.
LEMMA ScanTypes ==
    ASSUME TypeOK, UNCHANGED ScanRest, session' \in [Starts -> Sessions],
           scan' \in [Clients -> Scans], late' \subseteq Starts,
           spent' \in [scans : 0..MaxScans, edits : 0..MaxEdits, faults : 0..MaxFaults]
    PROVE  TypeOK'
  BY DEF TypeOK, ScanRest, rooms

LEMMA ScanCheckpointFits ==
    ASSUME PatrolsInv, NEW c \in Clients, ScanCheckpoint(c) PROVE PatrolsInv'
<1>1. PICK p \in Active : Goes(c, [Idle EXCEPT !.pc = "begin", !.p = {p}])
  BY DEF ScanCheckpoint
<1> DEFINE k == [Idle EXCEPT !.pc = "begin", !.p = {p}]
<1>2. p \in Checkpoints
  BY DEF Active
<1>3. k \in Scans
  BY <1>2, IdleFits DEF Scans
<1>4. k.pc = "begin" /\ k.p = {p}
  BY DEF Idle
<1>5. UNCHANGED <<ScanRest, session, late>>
  BY DEF ScanCheckpoint
<1>6. Grown
  BY <1>5, SameSessionsGrow DEF PatrolsInv
<1>7. Goes(c, k)
  BY <1>1
<1> HIDE DEF k
<1>8. scan' \in [Clients -> Scans] /\ ScansFit'
  BY <1>2, <1>3, <1>4, <1>6, <1>7, OneScanGoesOn
<1>9. spent' \in [scans : 0..MaxScans, edits : 0..MaxEdits, faults : 0..MaxFaults]
  BY PatrolsAssumption DEF ScanCheckpoint, PatrolsInv, TypeOK
<1>10. TypeOK'
  BY <1>5, <1>8, <1>9, ScanTypes DEF PatrolsInv, TypeOK
<1> QED
  BY <1>5, <1>8, <1>10, SameSessionsFit DEF PatrolsInv

LEMMA FindScheduleFits ==
    ASSUME PatrolsInv, NEW c \in Clients, FindSchedule(c) PROVE PatrolsInv'
<1> DEFINE q == scan[c]
           k == [q EXCEPT !.pc = "find", !.t = now, !.total = Cardinality(Active),
                          !.interval = schedule.interval, !.min = schedule.min]
<1>1. UNCHANGED <<ScanRest, session, spent, late>>
  BY DEF FindSchedule
<1>2. Grown
  BY <1>1, SameSessionsGrow DEF PatrolsInv
<1>3. q \in Scans /\ \E x \in Checkpoints : q.p = {x}
  BY DEF FindSchedule, At, PatrolsInv, TypeOK, ScansFit
<1>4. scan' \in [Clients -> Scans] /\ ScansFit'
  <2>1. CASE Ends(c)
    BY <1>2, <2>1, IdleFits, OneScanGoesOn DEF Ends
  <2>2. CASE Goes(c, k)
    <3>1. now \in 0..LastTick /\ schedule.interval \in Nat \ {0} /\ schedule.min \in Nat \cup {All}
      BY DEF PatrolsInv, TypeOK
    <3>2. Cardinality(Active) \in Nat
      BY ScansAreCounted DEF Active
    <3>3. k \in Scans
      BY <1>3, <3>1, <3>2 DEF Scans
    <3>4. k.pc = "find" /\ k.p = q.p
      BY <1>3 DEF Scans
    <3> HIDE DEF k
    <3> QED
      BY <1>2, <1>3, <2>2, <3>3, <3>4, OneScanGoesOn
  <2> QED
    BY <2>1, <2>2 DEF FindSchedule
<1>5. TypeOK'
  BY <1>1, <1>4, ScanTypes DEF PatrolsInv, TypeOK
<1> QED
  BY <1>1, <1>4, <1>5, SameSessionsFit DEF PatrolsInv

LEMMA FindSessionFits ==
    ASSUME PatrolsInv, NEW c \in Clients, FindSession(c) PROVE PatrolsInv'
<1> DEFINE q == scan[c]
<1>1. UNCHANGED <<ScanRest, session, spent, late>>
  BY DEF FindSession
<1>2. Grown
  BY <1>1, SameSessionsGrow DEF PatrolsInv
<1>3. q \in Scans /\ \E x \in Checkpoints : q.p = {x}
  BY DEF FindSession, At, PatrolsInv, TypeOK, ScansFit
<1>4. scan' \in [Clients -> Scans] /\ ScansFit'
  <2>1. CASE \E s \in Starts : Open(s) /\ Goes(c, Found(q, s, session[s]))
    <3>1. PICK s \in Starts : Open(s) /\ Goes(c, Found(q, s, session[s]))
      BY <2>1
    <3>2. session[s] \in Sessions
      BY DEF PatrolsInv, TypeOK
    <3>3. session[s].hit <= Cardinality(session'[s].scans)
      BY <1>1 DEF PatrolsInv, RoundsAreWalked
    <3>4. session'[s].status # "none"
      BY <1>1, <3>1 DEF Open
    <3> QED
      BY <1>2, <1>3, <3>1, <3>2, <3>3, <3>4, FoundFits, OneScanGoesOn
  <2>2. CASE Ends(c)
    BY <1>2, <2>2, IdleFits, OneScanGoesOn DEF Ends
  <2>3. CASE ~(q.t > WindowEnd) /\ Goes(c, [q EXCEPT !.pc = "create", !.s = SlotStart(q.t, q.interval)])
    <3> DEFINE k == [q EXCEPT !.pc = "create", !.s = SlotStart(q.t, q.interval)]
    <3>1. q.t \in Nat /\ q.t <= WindowEnd /\ q.interval \in Nat \ {0}
      BY <1>3, <2>3, PatrolsAssumption DEF Scans
    <3>2. SlotStart(q.t, q.interval) \in Starts
      BY <3>1, SlotStartsInWindow
    <3>3. k \in Scans
      BY <1>3, <3>2 DEF Scans
    <3>4. k.pc = "create" /\ k.p = q.p
      BY <1>3 DEF Scans
    <3>5. Goes(c, k)
      BY <2>3
    <3> HIDE DEF k
    <3> QED
      BY <1>2, <1>3, <3>3, <3>4, <3>5, OneScanGoesOn
  <2> QED
    BY <2>1, <2>2, <2>3 DEF FindSession
<1>5. TypeOK'
  BY <1>1, <1>4, ScanTypes DEF PatrolsInv, TypeOK
<1> QED
  BY <1>1, <1>4, <1>5, SameSessionsFit DEF PatrolsInv

\* A new session at s, where there was none.
LEMMA NewSessionGrows ==
    ASSUME PatrolsInv, NEW s \in Starts, NEW r \in Sessions, ~Exists(s), UNCHANGED late,
           r.status = "IN_PROGRESS", r.scans = {}, r.hit = 0,
           session' = [session EXCEPT ![s] = r]
    PROVE  Grown /\ ScannedIsStarted' /\ RoundsAreWalked' /\ VerdictsFit'
<1>1. session \in [Starts -> Sessions] /\ session[s].scans = {}
  BY DEF PatrolsInv, TypeOK, ScannedIsStarted
<1>2. Grown
  BY <1>1 DEF Grown, Exists
<1>3. ScannedIsStarted' /\ VerdictsFit'
  BY <1>1 DEF PatrolsInv, ScannedIsStarted, VerdictsFit, Exists
<1>4. ASSUME NEW t \in Starts
      PROVE  /\ session'[t].hit <= Cardinality(session'[t].scans)
             /\ session'[t].status = "COMPLETED" =>
                   session'[t].need <= Cardinality(session'[t].scans)
  <2>1. CASE t = s
    <3>1. session'[t] = r
      BY <1>1, <2>1
    <3> QED
      BY <3>1, NothingScanned
  <2>2. CASE t # s
    <3>1. session'[t] = session[t]
      BY <1>1, <2>2
    <3> QED
      BY <3>1 DEF PatrolsInv, RoundsAreWalked
  <2> QED
    BY <2>1, <2>2
<1>5. RoundsAreWalked'
  BY <1>4 DEF RoundsAreWalked
<1> QED
  BY <1>2, <1>3, <1>5

LEMMA CreateSessionFits ==
    ASSUME PatrolsInv, NEW c \in Clients, CreateSession(c) PROVE PatrolsInv'
<1> DEFINE q == scan[c]
           r == NewSession(SlotEnd(q.s, q.interval), q.total, TRUE)
<1>1. UNCHANGED <<ScanRest, spent, late>>
  BY DEF CreateSession
<1>2. q \in Scans /\ \E x \in Checkpoints : q.p = {x}
  BY DEF CreateSession, At, PatrolsInv, TypeOK, ScansFit
<1>3. q.s \in Starts /\ q.total \in Nat /\ q.interval \in Nat \ {0}
  BY <1>2 DEF Scans
<1>4. CASE Exists(q.s)
  <2>1. Ends(c) /\ UNCHANGED session
    BY <1>4 DEF CreateSession
  <2>2. Grown
    BY <2>1, SameSessionsGrow DEF PatrolsInv
  <2>3. scan' \in [Clients -> Scans] /\ ScansFit'
    BY <2>1, <2>2, IdleFits, OneScanGoesOn DEF Ends
  <2>4. TypeOK'
    BY <1>1, <2>1, <2>3, ScanTypes DEF PatrolsInv, TypeOK
  <2> QED
    BY <1>1, <2>1, <2>3, <2>4, SameSessionsFit DEF PatrolsInv
<1>5. CASE ~Exists(q.s)
  <2>1. session' = [session EXCEPT ![q.s] = r] /\ Goes(c, Found(q, q.s, session'[q.s]))
    BY <1>5 DEF CreateSession
  <2>2. /\ r \in Sessions /\ r.status = "IN_PROGRESS" /\ r.scans = {} /\ r.hit = 0
    <3>1. SlotEnd(q.s, q.interval) \in Starts
      BY <1>3, SlotEndsInWindow
    <3> QED
      BY <1>3, <3>1, PatrolsAssumption DEF NewSession, NoSession, Sessions, Starts
  <2> HIDE DEF r
  <2>3. Grown /\ ScannedIsStarted' /\ RoundsAreWalked' /\ VerdictsFit'
    BY <1>1, <1>3, <1>5, <2>1, <2>2, NewSessionGrows
  <2>4. session'[q.s] = r
    BY <1>3, <2>1 DEF PatrolsInv, TypeOK
  <2>5. r.hit <= Cardinality(session'[q.s].scans)
    BY <2>2, <2>4, NothingScanned
  <2>6. scan' \in [Clients -> Scans] /\ ScansFit'
    BY <1>2, <1>3, <2>1, <2>2, <2>3, <2>4, <2>5, FoundFits, OneScanGoesOn
  <2>7. TypeOK'
    BY <1>1, <2>3, <2>6, ScanTypes DEF PatrolsInv, TypeOK, Grown
  <2> QED
    BY <2>3, <2>6, <2>7 DEF PatrolsInv
<1> QED
  BY <1>4, <1>5

LEMMA SaveScanFits ==
    ASSUME PatrolsInv, NEW c \in Clients, SaveScan(c) PROVE PatrolsInv'
<1> DEFINE q == scan[c]
           k == Scanned(session[q.s], q)
<1>1. UNCHANGED <<ScanRest, spent>> /\ Ends(c)
  BY DEF SaveScan
<1>2. q \in Scans /\ q.s \in Starts /\ q.hit \in Nat /\ q.need \in Nat
  BY DEF PatrolsInv, TypeOK, Scans
<1>3. PICK x \in Checkpoints : q.p = {x}
  BY DEF SaveScan, At, PatrolsInv, ScansFit
<1>4. Exists(q.s) /\ q.hit <= Cardinality(session[q.s].scans)
  BY DEF SaveScan, At, PatrolsInv, ScansFit
<1>5. CASE q.p \subseteq session[q.s].scans
  <2>1. UNCHANGED <<session, late>>
    BY <1>5 DEF SaveScan
  <2>2. Grown
    BY <2>1, SameSessionsGrow DEF PatrolsInv
  <2>3. scan' \in [Clients -> Scans] /\ ScansFit'
    BY <1>1, <2>2, IdleFits, OneScanGoesOn DEF Ends
  <2>4. TypeOK'
    BY <1>1, <2>1, <2>3, ScanTypes DEF PatrolsInv, TypeOK
  <2> QED
    BY <2>1, <2>3, <2>4, SameSessionsFit DEF PatrolsInv
<1>6. CASE ~(q.p \subseteq session[q.s].scans)
  <2>1. session' = [session EXCEPT ![q.s] = k]
    BY <1>6 DEF SaveScan
  <2>2. late' = IF Open(q.s) THEN late ELSE late \cup {q.s}
    BY <1>6 DEF SaveScan
  <2>3. session \in [Starts -> Sessions] /\ session[q.s] \in Sessions /\ late \subseteq Starts
    BY <1>2 DEF PatrolsInv, TypeOK
  <2>4. /\ k \in Sessions /\ k.scans = session[q.s].scans \cup {x}
        /\ k.hit = q.hit + 1 /\ k.started = TRUE
    BY <1>2, <1>3, <2>3, ScannedFits
  <2>5. \/ k.status = session[q.s].status /\ k.need = session[q.s].need
        \/ k.status = "COMPLETED" /\ k.need = q.need /\ q.need <= q.hit + 1
    BY <1>2, <2>3, ScannedFits
  <2>6. /\ session[q.s].scans \in SUBSET Checkpoints /\ x \notin session[q.s].scans
        /\ session[q.s].need \in Nat
    BY <1>3, <1>6, <2>3 DEF Sessions
  <2>7. /\ Cardinality(k.scans) = Cardinality(session[q.s].scans) + 1
        /\ Cardinality(session[q.s].scans) \in Nat
    BY <2>4, <2>6, OneMoreScan, ScansAreCounted
  <2> HIDE DEF k
  <2>8. session'[q.s] = k /\ \A t \in Starts : t # q.s => session'[t] = session[t]
    BY <1>2, <2>1, <2>3
  <2>9. k.status # "none"
    BY <1>4, <2>5 DEF Exists
  <2>10. Grown
    BY <2>1, <2>3, <2>4, <2>8, <2>9 DEF Grown, Exists
  <2>11. ScannedIsStarted'
    BY <2>4, <2>8, <2>9 DEF PatrolsInv, ScannedIsStarted, Exists
  <2>12. ASSUME NEW t \in Starts
         PROVE  /\ session'[t].hit <= Cardinality(session'[t].scans)
                /\ session'[t].status = "COMPLETED" =>
                      session'[t].need <= Cardinality(session'[t].scans)
    <3>1. CASE t = q.s
      <4>1. k.hit <= Cardinality(k.scans)
        BY <1>2, <1>4, <2>4, <2>7
      <4>2. k.status = "COMPLETED" => k.need <= Cardinality(k.scans)
        <5>1. CASE k.status = session[q.s].status /\ k.need = session[q.s].need
          <6>1. session[q.s].status = "COMPLETED" =>
                   session[q.s].need <= Cardinality(session[q.s].scans)
            BY <1>2 DEF PatrolsInv, RoundsAreWalked
          <6> QED
            BY <2>6, <2>7, <5>1, <6>1
        <5>2. CASE k.need = q.need /\ q.need <= q.hit + 1
          BY <1>2, <1>4, <2>7, <5>2
        <5> QED
          BY <2>5, <5>1, <5>2
      <4> QED
        BY <2>8, <3>1, <4>1, <4>2
    <3>2. CASE t # q.s
      BY <2>8, <3>2 DEF PatrolsInv, RoundsAreWalked
    <3> QED
      BY <3>1, <3>2
  <2>13. RoundsAreWalked'
    BY <2>12 DEF RoundsAreWalked
  <2>14. VerdictsFit'
    <3>1. ASSUME NEW t \in Starts \ late'
          PROVE  /\ session'[t].status = "MISSED" => session'[t].scans = {}
                 /\ session'[t].status = "INCOMPLETE" => session'[t].started
      <4>1. CASE t = q.s
        BY <2>2, <2>5, <2>8, <4>1 DEF Open
      <4>2. CASE t # q.s
        BY <2>2, <2>8, <4>2 DEF PatrolsInv, VerdictsFit
      <4> QED
        BY <4>1, <4>2
    <3> QED
      BY <3>1 DEF VerdictsFit
  <2>15. scan' \in [Clients -> Scans] /\ ScansFit'
    BY <1>1, <2>10, IdleFits, OneScanGoesOn DEF Ends
  <2>16. late' \subseteq Starts
    BY <1>2, <2>2, <2>3
  <2>17. TypeOK'
    BY <1>1, <2>10, <2>15, <2>16, ScanTypes DEF PatrolsInv, TypeOK, Grown
  <2> QED
    BY <2>11, <2>13, <2>14, <2>15, <2>17 DEF PatrolsInv
<1> QED
  BY <1>5, <1>6

\* The conjunct of TypeOK about the job that makes sessions.
Makings == [pc : {"idle", "find", "create"}, left : SUBSET Starts,
            interval : Nat \ {0}, t : 0..LastTick, total : Nat]

LEMMA AfterFits ==
    ASSUME TypeOK, NEW s \in Starts PROVE After(s) \in Makings /\ Resting \in Makings
<1>1. Resting \in Makings
  BY PatrolsAssumption DEF Resting, Makings
<1> QED
  BY <1>1 DEF After, TypeOK, Makings

LEMMA GeneratorTypes ==
    ASSUME TypeOK, UNCHANGED GeneratorRest, session' \in [Starts -> Sessions],
           generator' \in Makings
    PROVE  TypeOK'
  BY DEF TypeOK, GeneratorRest, rooms, Makings

LEMMA GenerateUpcomingSessionsFits ==
    ASSUME PatrolsInv, GenerateUpcomingSessions PROVE PatrolsInv'
<1>1. UNCHANGED <<GeneratorRest, session>>
  BY DEF GenerateUpcomingSessions
<1>2. generator' \in Makings
  <2>1. PICK slots \in SUBSET Starts :
          generator' = [pc |-> "find", left |-> slots, interval |-> schedule.interval,
                        t |-> now, total |-> Cardinality(Active)]
    BY DEF GenerateUpcomingSessions, SlotStarts
  <2>2. Cardinality(Active) \in Nat
    BY ScansAreCounted DEF Active
  <2>3. schedule.interval \in Nat \ {0} /\ now \in 0..LastTick
    BY DEF PatrolsInv, TypeOK
  <2> QED
    BY <2>1, <2>2, <2>3 DEF Makings
<1>3. Grown
  BY <1>1, SameSessionsGrow DEF PatrolsInv
<1>4. UNCHANGED <<scan, late>>
  BY <1>1 DEF GeneratorRest
<1>5. TypeOK'
  BY <1>1, <1>2, GeneratorTypes DEF PatrolsInv, TypeOK
<1> QED
  BY <1>1, <1>3, <1>4, <1>5, ScansStayFit, SameSessionsFit DEF PatrolsInv

LEMMA FindSlotFits ==
    ASSUME PatrolsInv, FindSlot PROVE PatrolsInv'
<1>1. UNCHANGED <<GeneratorRest, session>>
  BY DEF FindSlot
<1>2. generator' \in Makings
  <2>1. PICK s \in Starts :
          generator' = IF Exists(s) THEN After(s) ELSE [generator EXCEPT !.pc = "create"]
    BY DEF FindSlot
  <2>2. [generator EXCEPT !.pc = "create"] \in Makings
    BY DEF Makings, PatrolsInv, TypeOK
  <2> QED
    BY <2>1, <2>2, AfterFits DEF PatrolsInv
<1>3. Grown
  BY <1>1, SameSessionsGrow DEF PatrolsInv
<1>4. UNCHANGED <<scan, late>>
  BY <1>1 DEF GeneratorRest
<1>5. TypeOK'
  BY <1>1, <1>2, GeneratorTypes DEF PatrolsInv, TypeOK
<1> QED
  BY <1>1, <1>3, <1>4, <1>5, ScansStayFit, SameSessionsFit DEF PatrolsInv

LEMMA CreateUpcomingSessionFits ==
    ASSUME PatrolsInv, CreateUpcomingSession PROVE PatrolsInv'
<1>1. UNCHANGED GeneratorRest
  BY DEF CreateUpcomingSession
<1>2. UNCHANGED <<scan, late>>
  BY <1>1 DEF GeneratorRest
<1>3. PICK s \in Starts :
        IF Exists(s) THEN generator' = Resting /\ UNCHANGED session
        ELSE /\ session' = [session EXCEPT ![s] =
                   NewSession(SlotEnd(s, generator.interval), generator.total, FALSE)]
             /\ generator' = After(s)
  BY DEF CreateUpcomingSession
<1>4. generator' \in Makings
  BY <1>3, AfterFits DEF PatrolsInv
<1>5. CASE Exists(s)
  <2>1. UNCHANGED session
    BY <1>3, <1>5
  <2>2. Grown
    BY <2>1, SameSessionsGrow DEF PatrolsInv
  <2>3. TypeOK'
    BY <1>1, <1>4, <2>1, GeneratorTypes DEF PatrolsInv, TypeOK
  <2> QED
    BY <1>2, <2>1, <2>2, <2>3, ScansStayFit, SameSessionsFit DEF PatrolsInv
<1>6. CASE ~Exists(s)
  <2> DEFINE r == NewSession(SlotEnd(s, generator.interval), generator.total, FALSE)
  <2>1. session' = [session EXCEPT ![s] = r]
    BY <1>3, <1>6
  <2>2. generator.interval \in Nat \ {0} /\ generator.total \in Nat
    BY DEF PatrolsInv, TypeOK
  <2>3. SlotEnd(s, generator.interval) \in Starts
    BY <2>2, SlotEndsInWindow
  <2>4. r \in Sessions /\ r.status = "IN_PROGRESS" /\ r.scans = {} /\ r.hit = 0
    BY <2>2, <2>3, PatrolsAssumption DEF NewSession, NoSession, Sessions, Starts
  <2> HIDE DEF r
  <2>5. Grown /\ ScannedIsStarted' /\ RoundsAreWalked' /\ VerdictsFit'
    BY <1>2, <1>6, <2>1, <2>4, NewSessionGrows
  <2>6. TypeOK'
    BY <1>1, <1>4, <2>5, GeneratorTypes DEF PatrolsInv, Grown
  <2> QED
    BY <1>2, <2>5, <2>6, ScansStayFit DEF PatrolsInv
<1> QED
  BY <1>5, <1>6

LEMMA CloseExpiredSessionsFits ==
    ASSUME PatrolsInv, CloseExpiredSessions PROVE PatrolsInv'
<1>1. UNCHANGED <<now, rooms, session, scan, generator, spent, late>>
  BY DEF CloseExpiredSessions
<1>2. closing' \subseteq Starts \X BOOLEAN
  <2>1. \A s \in Expired : s \in Starts /\ session[s].started \in BOOLEAN
    BY DEF Expired, PatrolsInv, TypeOK, Sessions
  <2> QED
    BY <2>1 DEF CloseExpiredSessions
<1>3. Grown
  BY <1>1, SameSessionsGrow DEF PatrolsInv
<1>4. TypeOK'
  BY <1>1, <1>2 DEF PatrolsInv, TypeOK, rooms
<1> QED
  BY <1>1, <1>3, <1>4, ScansStayFit, SameSessionsFit DEF PatrolsInv

LEMMA CloseSessionFits ==
    ASSUME PatrolsInv, CloseSession PROVE PatrolsInv'
<1>1. UNCHANGED <<now, rooms, scan, generator, spent>>
  BY DEF CloseSession
<1>2. PICK x \in closing :
        /\ session' = [session EXCEPT ![x[1]].status = IF x[2] THEN "INCOMPLETE" ELSE "MISSED"]
        /\ closing' = closing \ {x}
        /\ late' = IF Open(x[1]) /\ session[x[1]].started = x[2] THEN late ELSE late \cup {x[1]}
  BY DEF CloseSession
<1> DEFINE s == x[1]
           verdict == IF x[2] THEN "INCOMPLETE" ELSE "MISSED"
           k == [session[s] EXCEPT !.status = verdict]
<1>3. s \in Starts /\ x[2] \in BOOLEAN
  BY DEF PatrolsInv, TypeOK
<1>4. session \in [Starts -> Sessions] /\ session[s] \in Sessions
  BY <1>3 DEF PatrolsInv, TypeOK
<1>5. /\ k \in Sessions /\ k.status = verdict /\ k.scans = session[s].scans
      /\ k.hit = session[s].hit /\ k.started = session[s].started
  BY <1>4 DEF Sessions
<1>6. verdict # "none" /\ verdict # "COMPLETED" /\ (verdict = "INCOMPLETE" <=> x[2])
  BY <1>3
<1>7. session' = [session EXCEPT ![s] = k]
  BY <1>2, <1>3, <1>4
<1> HIDE DEF k, verdict
<1>8. session'[s] = k /\ \A t \in Starts : t # s => session'[t] = session[t]
  BY <1>3, <1>4, <1>7
<1>9. Grown
  BY <1>4, <1>5, <1>6, <1>7, <1>8 DEF Grown, Exists
<1>10. ScannedIsStarted'
  BY <1>5, <1>6, <1>8 DEF PatrolsInv, ScannedIsStarted, Exists
<1>11. RoundsAreWalked'
  <2>1. k.hit <= Cardinality(k.scans) /\ k.status # "COMPLETED"
    BY <1>3, <1>5, <1>6 DEF PatrolsInv, RoundsAreWalked
  <2> QED
    BY <1>8, <2>1 DEF PatrolsInv, RoundsAreWalked
<1>12. VerdictsFit'
  <2>1. ASSUME NEW t \in Starts \ late'
        PROVE  /\ session'[t].status = "MISSED" => session'[t].scans = {}
               /\ session'[t].status = "INCOMPLETE" => session'[t].started
    <3>1. CASE t = s
      <4>1. session[s].started = x[2]
        BY <1>2, <3>1
      <4>2. x[2] \/ session[s].scans = {}
        BY <1>3, <4>1 DEF PatrolsInv, ScannedIsStarted
      <4> QED
        BY <1>3, <1>5, <1>6, <1>8, <3>1, <4>1, <4>2 DEF verdict
    <3>2. CASE t # s
      BY <1>2, <1>8, <3>2 DEF PatrolsInv, VerdictsFit
    <3> QED
      BY <3>1, <3>2
  <2> QED
    BY <2>1 DEF VerdictsFit
<1>13. TypeOK'
  <2>1. late' \subseteq Starts /\ closing' \subseteq Starts \X BOOLEAN
    BY <1>2, <1>3 DEF PatrolsInv, TypeOK
  <2> QED
    BY <1>1, <1>9, <2>1 DEF PatrolsInv, TypeOK, Grown, rooms
<1>14. ScansFit'
  BY <1>1, <1>9, ScansStayFit
<1> QED
  BY <1>10, <1>11, <1>12, <1>13, <1>14 DEF PatrolsInv

LEMMA FaultFits ==
    ASSUME PatrolsInv, Fault PROVE PatrolsInv'
<1>1. UNCHANGED <<now, rooms, session, late>>
  BY DEF Fault
<1>2. Grown
  BY <1>1, SameSessionsGrow DEF PatrolsInv
<1>3. scan' \in [Clients -> Scans] /\ ScansFit'
  <2>1. CASE UNCHANGED scan
    BY <1>2, <2>1, ScansStayFit DEF PatrolsInv, TypeOK
  <2>2. CASE \E c \in Clients : Ends(c)
    BY <1>2, <2>2, IdleFits, OneScanGoesOn DEF Ends
  <2> QED
    BY <2>1, <2>2 DEF Fault
<1>4. generator' \in Makings /\ closing' \subseteq Starts \X BOOLEAN
  <2>1. Resting \in Makings
    BY PatrolsAssumption DEF Resting, Makings
  <2> QED
    BY <2>1 DEF Fault, Makings, PatrolsInv, TypeOK
<1>5. spent' \in [scans : 0..MaxScans, edits : 0..MaxEdits, faults : 0..MaxFaults]
  BY PatrolsAssumption DEF Fault, PatrolsInv, TypeOK
<1>6. TypeOK'
  BY <1>1, <1>3, <1>4, <1>5 DEF PatrolsInv, TypeOK, Makings, rooms
<1> QED
  BY <1>1, <1>3, <1>6, SameSessionsFit DEF PatrolsInv

LEMMA QuietStepFits ==
    ASSUME PatrolsInv, Tick \/ UNCHANGED vars PROVE PatrolsInv'
<1>1. UNCHANGED <<rooms, session, scan, generator, closing, spent, late>>
  BY DEF Tick, vars, rooms
<1>2. now' \in 0..LastTick
  BY PatrolsAssumption DEF Tick, vars, PatrolsInv, TypeOK
<1>3. Grown
  BY <1>1, SameSessionsGrow DEF PatrolsInv
<1>4. TypeOK'
  BY <1>1, <1>2 DEF PatrolsInv, TypeOK, rooms
<1> QED
  BY <1>1, <1>3, <1>4, ScansStayFit, SameSessionsFit DEF PatrolsInv

LEMMA StepFits == PatrolsInv /\ [Next]_vars => PatrolsInv'
<1> SUFFICES ASSUME PatrolsInv, [Next]_vars PROVE PatrolsInv'
  OBVIOUS
<1>1. CASE Administration
  BY <1>1, AdministrationFits
<1>2. CASE \E c \in Clients : Scanning(c)
  BY <1>2, ScanCheckpointFits, FindScheduleFits, FindSessionFits, CreateSessionFits,
     SaveScanFits DEF Scanning
<1>3. CASE GenerateUpcomingSessions \/ FindSlot \/ CreateUpcomingSession
  BY <1>3, GenerateUpcomingSessionsFits, FindSlotFits, CreateUpcomingSessionFits
<1>4. CASE Closer
  BY <1>4, CloseExpiredSessionsFits, CloseSessionFits DEF Closer
<1>5. CASE Fault
  BY <1>5, FaultFits
<1>6. CASE Tick \/ UNCHANGED vars
  BY <1>6, QuietStepFits
<1> QED
  BY <1>1, <1>2, <1>3, <1>4, <1>5, <1>6 DEF Next

-----------------------------------------------------------------------------
(* The theorems                                                            *)

\* The invariant is inductive, for every value of the constants.
THEOREM PatrolsInvariant == Spec => []PatrolsInv
  BY InitFits, StepFits, PTL DEF Spec

\* TypeOK: scans in flight, the jobs and the sessions stay in their types.
THEOREM PatrolTypes == Spec => []TypeOK
<1>1. PatrolsInv => TypeOK
  BY DEF PatrolsInv
<1> QED
  BY <1>1, PatrolsInvariant, PTL

\* RoundsAreWalked: scanCheckpoint writes a count that it read before its
\* transaction; whatever happens in between, no session counts more
\* checkpoints than were scanned, or is complete with fewer than it needed.
THEOREM RoundsAreReallyWalked == Spec => []RoundsAreWalked
<1>1. PatrolsInv => RoundsAreWalked
  BY DEF PatrolsInv
<1> QED
  BY <1>1, PatrolsInvariant, PTL

\* VerdictsFit: closeExpiredSessions calls a session MISSED or INCOMPLETE from
\* what it read; but for a scan at that moment, the scan events bear it out.
THEOREM VerdictsReallyFit == Spec => []VerdictsFit
<1>1. PatrolsInv => VerdictsFit
  BY DEF PatrolsInv
<1> QED
  BY <1>1, PatrolsInvariant, PTL
=============================================================================
