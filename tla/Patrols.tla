------------------------------ MODULE Patrols ------------------------------
(***************************************************************************)
(* A guard's patrol rounds (controllers/patrol.controller.js and           *)
(* automations/patrol.cron.js): a schedule cuts a day into slots, each     *)
(* slot gets a session, scans of checkpoints count towards it, and a job   *)
(* gives a verdict on those whose slot is over.                            *)
(*                                                                         *)
(* A scan reads the session, and writes the count it read plus one in a    *)
(* later transaction; the job writes by identifier, too.  Two unique keys  *)
(* hold: one session per slot start, one scan per session and checkpoint.  *)
(* One site with one schedule; the window opens at 0.                      *)
(***************************************************************************)
EXTENDS Integers, FiniteSetsExt

CONSTANTS
    NumPoints,      \* bound on the checkpoints ever created
    Clients,        \* scans of the guard that may be in flight at once
    WindowEnd,      \* when the window of the schedule closes
    LastTick,       \* bound on the clock
    Intervals,      \* lengths that the slots may be given
    Minima,         \* numbers of checkpoints that a schedule may be content with
    MaxScans,       \* bound on the scans
    MaxEdits,       \* bound on what administrators do
    MaxFaults       \* bound on the calls that fail

ASSUME PatrolsAssumption ==
    /\ {NumPoints, WindowEnd, LastTick, MaxScans, MaxEdits, MaxFaults} \subseteq Nat
    /\ Intervals \subseteq Nat \ {0} /\ Intervals # {} /\ Minima \subseteq Nat

All == -1           \* requireAllPoints, or no minimum
Checkpoints == 1..NumPoints
Starts == 0..WindowEnd

VARIABLES
    now,
    site,       \* "none", "live" or "deleted"
    point,      \* the checkpoints: "none", "active" or "off"
    schedule,
    session,    \* the session of each slot start, with its scan events
    scan,       \* what each scan in flight has read, and its next call
    generator,  \* generateUpcomingSessions: the slots it has still to look at
    closing,    \* closeExpiredSessions: what it has read and not yet written
    spent,      \* scans, edits and faults so far
    late        \* history: sessions given a verdict from a stale reading, or
                \* scanned by a call that was under way when they had theirs

vars == <<now, site, point, schedule, session, scan, generator, closing, spent, late>>
rooms == <<site, point, schedule>>

NoSession == [status |-> "none", end |-> 0, hit |-> 0, total |-> 0,
              started |-> FALSE, scans |-> {}, need |-> 0]
NoSchedule == [state |-> "none", active |-> FALSE, interval |-> 1, min |-> All]
Idle == [pc |-> "idle", p |-> {}, t |-> 0, s |-> 0, total |-> 0, interval |-> 1,
         min |-> All, hit |-> 0, need |-> 0]
Resting == [pc |-> "idle", left |-> {}, interval |-> 1, t |-> 0, total |-> 0]

Init ==
    /\ now = 0
    /\ site = "none" /\ point = [p \in Checkpoints |-> "none"]
    /\ schedule = NoSchedule
    /\ session = [s \in Starts |-> NoSession]
    /\ scan = [c \in Clients |-> Idle]
    /\ generator = Resting /\ closing = {}
    /\ spent = [scans |-> 0, edits |-> 0, faults |-> 0]
    /\ late = {}

Active == {p \in Checkpoints : point[p] = "active"}
Running == schedule.state = "live" /\ schedule.active
Exists(s) == session[s].status # "none"
Open(s) == session[s].status = "IN_PROGRESS"

\* The end of the slot that begins at s.
SlotEnd(s, interval) == IF s + interval <= WindowEnd THEN s + interval ELSE WindowEnd

\* getSlotStartsForDate
SlotStarts(interval) == {s \in Starts : s % interval = 0 /\ s < WindowEnd}

\* getCurrentSlotBoundaries; at the end of the window a slot of no length.
SlotStart(t, interval) == (t \div interval) * interval

NewSession(end, total, started) ==
    [NoSession EXCEPT !.status = "IN_PROGRESS", !.end = end, !.total = total, !.started = started]

-----------------------------------------------------------------------------
(* Sites, checkpoints and schedules                                        *)

\* None of these looks at sessions; jobs and scans do not look at the site.  An
\* edit that leaves everything as it is is left out.
Edits ==
    /\ spent.edits < MaxEdits
    /\ spent' = [spent EXCEPT !.edits = @ + 1]
    /\ UNCHANGED <<now, session, scan, generator, closing, late>>

CreateSite ==
    /\ Edits /\ site = "none" /\ site' = "live"
    /\ UNCHANGED <<point, schedule>>

\* A site with its checkpoints, in one transaction.
SetupSite ==
    /\ Edits /\ site = "none" /\ site' = "live"
    /\ \E n \in Checkpoints :
          point' = [p \in Checkpoints |-> IF p <= n THEN "active" ELSE "none"]
    /\ UNCHANGED schedule

DeleteSite ==
    /\ Edits /\ site = "live" /\ site' = "deleted"
    /\ UNCHANGED <<point, schedule>>

CreateCheckpoint(p) ==
    /\ Edits /\ site = "live" /\ point[p] = "none"
    /\ \A x \in Checkpoints : x < p => point[x] # "none"
    /\ point' = [point EXCEPT ![p] = "active"]
    /\ UNCHANGED <<site, schedule>>

UpdateCheckpoint(p) ==
    /\ Edits /\ point[p] # "none"
    /\ \E state \in {"active", "off"} \ {point[p]} : point' = [point EXCEPT ![p] = state]
    /\ UNCHANGED <<site, schedule>>

DeleteCheckpoint(p) ==
    /\ Edits /\ point[p] = "active"
    /\ point' = [point EXCEPT ![p] = "off"]
    /\ UNCHANGED <<site, schedule>>

CreateSchedule ==
    /\ Edits /\ site = "live" /\ schedule.state = "none"
    /\ \E interval \in Intervals, min \in Minima \cup {All} :
          schedule' = [state |-> "live", active |-> TRUE, interval |-> interval, min |-> min]
    /\ UNCHANGED <<site, point>>

UpdateSchedule ==
    /\ Edits /\ schedule.state = "live"
    /\ \E interval \in Intervals, min \in Minima \cup {All}, active \in BOOLEAN :
          schedule' = [state |-> "live", active |-> active, interval |-> interval, min |-> min]
    /\ schedule' # schedule
    /\ UNCHANGED <<site, point>>

DeleteSchedule ==
    /\ Edits /\ schedule.state = "live"
    /\ schedule' = [NoSchedule EXCEPT !.state = "deleted"]
    /\ UNCHANGED <<site, point>>

-----------------------------------------------------------------------------
(* scanCheckpoint                                                          *)

ScanRest == <<now, rooms, generator, closing>>

At(c, pc) == scan[c].pc = pc
Goes(c, r) == scan' = [scan EXCEPT ![c] = r]
Ends(c) == Goes(c, Idle)

\* The checkpoint that was scanned.
ScanCheckpoint(c) ==
    /\ At(c, "idle") /\ spent.scans < MaxScans
    /\ spent' = [spent EXCEPT !.scans = @ + 1]
    /\ \E p \in Active : Goes(c, [Idle EXCEPT !.pc = "begin", !.p = {p}])
    /\ UNCHANGED <<ScanRest, session, late>>

\* The schedule with the checkpoints active by now, and the time.
FindSchedule(c) ==
    /\ At(c, "begin")
    /\ IF Running
       THEN Goes(c, [scan[c] EXCEPT !.pc = "find", !.t = now, !.total = Cardinality(Active),
                                    !.interval = schedule.interval, !.min = schedule.min])
       ELSE Ends(c)
    /\ UNCHANGED <<ScanRest, session, spent, late>>

\* With its session r at s, a scan knows how many scans the round needs.
Found(q, s, r) ==
    [Idle EXCEPT !.pc = "save", !.p = q.p, !.t = q.t, !.s = s, !.hit = r.hit,
                 !.need = IF q.min = All THEN r.total ELSE q.min]

\* Where two slots touch, either session will do.
FindSession(c) ==
    LET q == scan[c]
        current == {s \in Starts : Open(s) /\ s <= q.t /\ q.t <= session[s].end}
    IN  /\ At(c, "find")
        /\ IF current # {}
           THEN \E s \in current : Goes(c, Found(q, s, session[s]))
           ELSE IF q.t > WindowEnd THEN Ends(c)
           ELSE Goes(c, [q EXCEPT !.pc = "create", !.s = SlotStart(q.t, q.interval)])
        /\ UNCHANGED <<ScanRest, session, spent, late>>

\* A session that exists by now, or had its verdict, makes the call fail.
CreateSession(c) ==
    LET q == scan[c]
    IN  /\ At(c, "create")
        /\ IF Exists(q.s) THEN Ends(c) /\ UNCHANGED session
           ELSE /\ session' = [session EXCEPT ![q.s] = NewSession(SlotEnd(q.s, q.interval), q.total, TRUE)]
                /\ Goes(c, Found(q, q.s, session'[q.s]))
        /\ UNCHANGED <<ScanRest, spent, late>>

\* Mutant: the round is complete one scan early.
ScannedEarly(r, q) ==
    [r EXCEPT !.scans = @ \cup q.p, !.hit = q.hit + 1, !.started = TRUE,
              !.status = IF q.hit + 2 >= q.need THEN "COMPLETED" ELSE @,
              !.need = IF q.hit + 2 >= q.need THEN q.need ELSE @]

\* Mutant: the first scan does not say that the round was started.
ScannedUnstarted(r, q) ==
    [r EXCEPT !.scans = @ \cup q.p, !.hit = q.hit + 1,
              !.status = IF q.hit + 1 >= q.need THEN "COMPLETED" ELSE @,
              !.need = IF q.hit + 1 >= q.need THEN q.need ELSE @]

\* What the transaction makes of session r; need is history.
Scanned(r, q) ==
    [r EXCEPT !.scans = @ \cup q.p, !.hit = q.hit + 1, !.started = TRUE,
              !.status = IF q.hit + 1 >= q.need THEN "COMPLETED" ELSE @,
              !.need = IF q.hit + 1 >= q.need THEN q.need ELSE @]

\* Where the checkpoint was scanned already the handler looks first and answers; if
\* it was scanned since, the unique key takes the transaction down: nothing is written.
SaveScan(c) ==
    LET q == scan[c]
    IN  /\ At(c, "save")
        /\ Ends(c)
        /\ IF q.p \subseteq session[q.s].scans THEN UNCHANGED <<session, late>>
           ELSE /\ session' = [session EXCEPT ![q.s] = Scanned(@, q)]
                /\ late' = IF Open(q.s) THEN late ELSE late \cup {q.s}
        /\ UNCHANGED <<ScanRest, spent>>

-----------------------------------------------------------------------------
(* The jobs                                                                *)

GeneratorRest == <<now, rooms, scan, closing, spent, late>>

\* Hourly: slots that are not over yet, in order.
GenerateUpcomingSessions ==
    LET slots == {s \in SlotStarts(schedule.interval) : SlotEnd(s, schedule.interval) >= now}
    IN  /\ generator.pc = "idle" /\ Running /\ Active # {} /\ slots # {}
        /\ generator' = [pc |-> "find", left |-> slots, interval |-> schedule.interval,
                         t |-> now, total |-> Cardinality(Active)]
        /\ UNCHANGED <<GeneratorRest, session>>

NextSlot(s) == s \in generator.left /\ \A x \in generator.left : s <= x

After(s) == IF generator.left = {s} THEN Resting
            ELSE [generator EXCEPT !.pc = "find", !.left = @ \ {s}]

FindSlot ==
    /\ generator.pc = "find"
    /\ \E s \in Starts :
          /\ NextSlot(s)
          /\ generator' = IF Exists(s) THEN After(s) ELSE [generator EXCEPT !.pc = "create"]
    /\ UNCHANGED <<GeneratorRest, session>>

\* A session made meanwhile ends the whole run of the job.
CreateUpcomingSession ==
    /\ generator.pc = "create"
    /\ \E s \in Starts :
          /\ NextSlot(s)
          /\ IF Exists(s) THEN generator' = Resting /\ UNCHANGED session
             ELSE /\ session' = [session EXCEPT ![s] =
                        NewSession(SlotEnd(s, generator.interval), generator.total, FALSE)]
                  /\ generator' = After(s)
    /\ UNCHANGED GeneratorRest

\* Mutant: sessions that nobody has started are not looked at.
ExpiredStarted == {s \in Starts : Open(s) /\ session[s].started /\ session[s].end < now}

Expired == {s \in Starts : Open(s) /\ session[s].end < now}

\* Every fifteen minutes, over when its updates are.
CloseExpiredSessions ==
    /\ closing = {} /\ Expired # {}
    /\ closing' = {<<s, session[s].started>> : s \in Expired}
    /\ UNCHANGED <<now, rooms, session, scan, generator, spent, late>>

CloseSession ==
    /\ \E x \in closing :
          LET s == x[1]
          IN  /\ session' = [session EXCEPT ![s].status = IF x[2] THEN "INCOMPLETE" ELSE "MISSED"]
              /\ closing' = closing \ {x}
              /\ late' = IF Open(s) /\ session[s].started = x[2] THEN late ELSE late \cup {s}
    /\ UNCHANGED <<now, rooms, scan, generator, spent>>

-----------------------------------------------------------------------------

\* A call fails, or the server dies (as often as it takes down handlers and jobs):
\* a handler or a job ends where it is.
Fault ==
    /\ spent.faults < MaxFaults
    /\ spent' = [spent EXCEPT !.faults = @ + 1]
    /\ \/ \E c \in Clients : ~At(c, "idle") /\ Ends(c) /\ UNCHANGED <<generator, closing>>
       \/ generator.pc # "idle" /\ generator' = Resting /\ UNCHANGED <<scan, closing>>
       \/ closing # {} /\ closing' = {} /\ UNCHANGED <<scan, generator>>
    /\ UNCHANGED <<now, rooms, session, late>>

\* A scan, or the job that makes sessions, may see one tick after it has looked at
\* the clock, and no second; a scan does look within the tick that it is made in.
Tick ==
    /\ now < LastTick /\ now' = now + 1
    /\ \A c \in Clients : At(c, "idle") \/ (~At(c, "begin") /\ scan[c].t = now)
    /\ generator.pc = "idle" \/ generator.t = now
    /\ UNCHANGED <<rooms, session, scan, generator, closing, spent, late>>

Administration ==
    \/ CreateSite \/ SetupSite \/ DeleteSite
    \/ \E p \in Checkpoints : CreateCheckpoint(p) \/ UpdateCheckpoint(p) \/ DeleteCheckpoint(p)
    \/ CreateSchedule \/ UpdateSchedule \/ DeleteSchedule

Scanning(c) ==
    \/ ScanCheckpoint(c) \/ FindSchedule(c) \/ FindSession(c) \/ CreateSession(c) \/ SaveScan(c)

Closer == CloseExpiredSessions \/ CloseSession

Next ==
    \/ Administration
    \/ \E c \in Clients : Scanning(c)
    \/ GenerateUpcomingSessions \/ FindSlot \/ CreateUpcomingSession
    \/ Closer \/ Fault \/ Tick

\* The cron job runs as long as the server does.
Spec == Init /\ [][Next]_vars /\ WF_vars(Closer)

-----------------------------------------------------------------------------

Sessions == [status : {"none", "IN_PROGRESS", "COMPLETED", "INCOMPLETE", "MISSED"},
             end : Starts, hit : Nat, total : Nat, started : BOOLEAN,
             scans : SUBSET Checkpoints, need : Nat]

Scans == [pc : {"idle", "begin", "find", "create", "save"}, p : SUBSET Checkpoints, t : 0..LastTick,
          s : Starts, total : Nat, interval : Nat \ {0}, min : Nat \cup {All}, hit : Nat,
          need : Nat]

\* The state stays in its types.
TypeOK ==
    /\ now \in 0..LastTick /\ site \in {"none", "live", "deleted"}
    /\ point \in [Checkpoints -> {"none", "active", "off"}]
    /\ schedule \in [state : {"none", "live", "deleted"}, active : BOOLEAN,
                     interval : Nat \ {0}, min : Nat \cup {All}]
    /\ session \in [Starts -> Sessions]
    /\ scan \in [Clients -> Scans]
    /\ generator \in [pc : {"idle", "find", "create"}, left : SUBSET Starts,
                      interval : Nat \ {0}, t : 0..LastTick, total : Nat]
    /\ closing \subseteq Starts \X BOOLEAN
    /\ spent \in [scans : 0..MaxScans, edits : 0..MaxEdits, faults : 0..MaxFaults]
    /\ late \subseteq Starts

\* However scans meet, of one checkpoint or of two, a session never counts more
\* checkpoints than were scanned, and it was completed with as many as it needed.
RoundsAreWalked ==
    \A s \in Starts :
       /\ session[s].hit <= Cardinality(session[s].scans)
       /\ session[s].status = "COMPLETED" => session[s].need <= Cardinality(session[s].scans)

\* A MISSED session has no scan and an INCOMPLETE one was begun, unless a scan and
\* the job wrote at the same time.
VerdictsFit ==
    \A s \in Starts \ late :
       /\ session[s].status = "MISSED" => session[s].scans = {}
       /\ session[s].status = "INCOMPLETE" => session[s].started

\* A session whose slot is over gets a verdict, whatever has become of its schedule
\* and whatever call of the job fails.
ExpiredSessionIsClosed ==
    \A s \in Starts : Open(s) /\ session[s].end < now ~> ~Open(s)
=============================================================================
