-------------------------- MODULE SalaryStructures --------------------------
(***************************************************************************)
(* The salary structures of one employee                                   *)
(* (controllers/salary-structure.controller.js, batch rows and             *)
(* termination): from when to when each is in force, its base salary, its  *)
(* allowances, and the gross salary stored beside them.  Every handler     *)
(* reads, checks and writes in separate calls.                             *)
(*                                                                         *)
(* An instant is three times the day for midnight, plus one for the hour   *)
(* at which things happen, plus two for the evening.  A gross salary is    *)
(* the pair of the base and the allowances it was computed from.           *)
(* Deductions do not enter it.                                             *)
(***************************************************************************)
EXTENDS Integers, FiniteSets

CONSTANTS
    NumStructures,  \* bound on the structures ever created
    Types,          \* allowance types
    Bases,          \* base salaries
    MaxDay,         \* bound on the days
    Clients,        \* requests that may be in flight at once
    MaxRequests     \* bound on the requests

ASSUME SalaryAssumption ==
    /\ {NumStructures, MaxDay, MaxRequests} \subseteq Nat
    /\ Bases # {}

Structures == 1..NumStructures
Days == 0..MaxDay
Never == 3 * (MaxDay + 1)
Instants == -1..Never

VARIABLES
    today,
    row,        \* the structures
    request,    \* what each handler in flight has read, and its next call
    requests,   \* how many there have been
    torn,       \* history: structures on which handlers met, or one stopped halfway
    clean       \* history: no dates were patched, no end was moved later, and no
                \* two handlers that open a structure met

vars == <<today, row, request, requests, torn, clean>>

NoGross == <<CHOOSE b \in Bases : TRUE, {}>>
NoRow == [state |-> "none", from |-> 0, to |-> Never,
          base |-> NoGross[1], lines |-> {}, gross |-> NoGross]
Idle == [op |-> "none", pc |-> "idle", s |-> 0, from |-> 0, to |-> Never,
         lines |-> {}, sum |-> NoGross, fields |-> {}]

Init ==
    /\ today = 0
    /\ row = [s \in Structures |-> NoRow]
    /\ request = [c \in Clients |-> Idle]
    /\ requests = 0
    /\ torn = {} /\ clean = TRUE

Midnight(d) == 3 * d
Now == 3 * today + 1

\* 23:59:59 of the day before.
EveningBefore(t) == 3 * (t \div 3) - 1

Live == {s \in Structures : row[s].state = "live"}
Covers(s, t) == row[s].from <= t /\ t <= row[s].to
Active == {s \in Live : Covers(s, Now)}
Ended(s) == row[s].to < Now

\* Mutant: only structures without an end are looked at.
OverlapsOpen(s, from, to) == row[s].from <= to /\ row[s].to = Never

Overlaps(s, from, to) == row[s].from <= to /\ row[s].to >= from

\* findLatestSalaryStructureForUser: of those with the last start, any.
Latest == {s \in Live : \A r \in Live : row[r].from <= row[s].from}

-----------------------------------------------------------------------------
(* What handlers have in common                                            *)

At(c, pc) == request[c].pc = pc

\* The kinds of handlers: those that work on the salary of a structure (for a
\* batch row or not), those that give a structure a later end or create one (the
\* batch row's does not look for overlaps), those that end or delete one ("dates").
OnSalary == {"lines", "row"}
Opening == {"open", "first"}

Others(c, ops) == {d \in Clients \ {c} : request[d].op \in ops}

Free(c) == At(c, "idle") /\ requests < MaxRequests

Begins(c, r) ==
    /\ request' = [request EXCEPT ![c] = r]
    /\ requests' = requests + 1
    /\ torn' = IF r.op \in OnSalary /\ \E d \in Others(c, OnSalary) : request[d].s = r.s
               THEN torn \cup {r.s} ELSE torn
    /\ clean' = (clean /\ ~(r.op \in Opening /\ Others(c, Opening) # {}))
    /\ UNCHANGED <<today, row>>

\* A call on a structure that is gone fails, like any other call may.
Goes(c, r) ==
    /\ request' = [request EXCEPT ![c] = r]
    /\ UNCHANGED <<today, requests>>

Ends(c) == Goes(c, Idle)

Writes(c, s, new, r) ==
    /\ row[s].state = "live" /\ row' = [row EXCEPT ![s] = new] /\ Goes(c, r)

\* The gross salary that goes with what a structure now has.
SumOf(s) == <<row[s].base, row[s].lines>>

-----------------------------------------------------------------------------
(* createSalaryStructure                                                   *)

\* Structures not yet created, one kept for each handler about to insert.
Room == Cardinality({s \in Structures : row[s].state = "none"})
           > Cardinality({c \in Clients : request[c].op \in Opening})

\* With no end, or one still to come, the structure in force is ended first.
\* (Bases of different structures are never compared: each begins with the same.)
CreateSalaryStructure(c) ==
    /\ Free(c)
    /\ \E from \in {Midnight(d) : d \in Days}, lines \in SUBSET Types :
          \E to \in {t \in {Midnight(d) : d \in Days} \cup {Never} : t > from} :
             LET r == [Idle EXCEPT !.op = "open", !.from = from, !.to = to,
                                   !.lines = lines, !.sum = <<NoGross[1], lines>>]
             IN  /\ Room
                 /\ IF to >= Now /\ Active # {}
                    THEN \E s \in Active : Begins(c, [r EXCEPT !.s = s, !.pc = "end"])
                    ELSE Begins(c, [r EXCEPT !.pc = "check"])

EndActive(c) ==
    /\ At(c, "end")
    /\ LET s == request[c].s
           end == EveningBefore(request[c].from)
       IN  /\ Writes(c, s, [row[s] EXCEPT !.to = end], [request[c] EXCEPT !.s = 0, !.pc = "check"])
           /\ clean' = (clean /\ end <= row[s].to)
    /\ UNCHANGED torn

\* Periods that overlap are refused; what was ended stays ended.
CheckOverlap(c) ==
    /\ At(c, "check")
    /\ IF \E s \in Live : Overlaps(s, request[c].from, request[c].to)
       THEN Ends(c)
       ELSE Goes(c, [request[c] EXCEPT !.pc = "insert"])
    /\ UNCHANGED <<row, torn, clean>>

\* The gross salary is that of the request, its lines are yet to come.
InsertStructure(c) ==
    /\ At(c, "insert")
    /\ \E s \in Structures : LET q == request[c] IN
          /\ row[s].state = "none" /\ \A r \in Structures : row[r].state = "none" => s <= r
          /\ row' = [row EXCEPT ![s] = [state |-> "live", from |-> q.from, to |-> q.to,
                       base |-> q.sum[1], lines |-> {}, gross |-> q.sum]]
          /\ Goes(c, IF q.op = "first" THEN Idle
                     ELSE [q EXCEPT !.op = "lines", !.s = s, !.pc = "lines"])
    /\ UNCHANGED <<torn, clean>>

-----------------------------------------------------------------------------
(* updateSalaryStructure                                                   *)

\* Any of the base, the dates and the lines are given (a date or a base only when
\* it is another one); the dates are compared with nothing.
UpdateSalaryStructure(c) ==
    /\ Free(c)
    /\ \E s \in Live, fields \in SUBSET {"from", "to", "base", "lines"} \ {{}} :
          \E from \in IF "from" \in fields THEN {Midnight(d) : d \in Days} \ {row[s].from} ELSE {0},
             to \in IF "to" \in fields THEN ({Midnight(d) : d \in Days} \cup {Never}) \ {row[s].to}
                    ELSE {Never},
             base \in IF "base" \in fields THEN Bases \ {row[s].base} ELSE {NoGross[1]},
             lines \in IF "lines" \in fields THEN SUBSET Types ELSE {{}} :
                Begins(c, [op |-> "lines", pc |-> "patch", s |-> s, from |-> from, to |-> to,
                           lines |-> lines, sum |-> <<base, {}>>, fields |-> fields])

\* Only what was given is written.
PatchStructure(c) ==
    /\ At(c, "patch")
    /\ LET q == request[c]
           new == [row[q.s] EXCEPT !.from = IF "from" \in q.fields THEN q.from ELSE @,
                                   !.to = IF "to" \in q.fields THEN q.to ELSE @,
                                   !.base = IF "base" \in q.fields THEN q.sum[1] ELSE @]
       IN  /\ Writes(c, q.s, new, [q EXCEPT !.pc = IF "lines" \in q.fields THEN "clear" ELSE "sum",
                                            !.from = 0, !.to = Never, !.sum = NoGross, !.fields = {}])
           /\ clean' = (clean /\ {"from", "to"} \cap q.fields = {})
    /\ UNCHANGED torn

ClearLines(c) ==
    /\ At(c, "clear")
    /\ LET q == request[c]
       IN  Writes(c, q.s, [row[q.s] EXCEPT !.lines = {}], [q EXCEPT !.pc = "lines"])
    /\ UNCHANGED <<torn, clean>>

\* One line after the other.
CreateLine(c) ==
    /\ At(c, "lines") /\ request[c].lines # {}
    /\ LET q == request[c]
       IN  \E t \in q.lines \ row[q.s].lines :
              Writes(c, q.s, [row[q.s] EXCEPT !.lines = @ \cup {t}],
                     [q EXCEPT !.lines = @ \ {t}])
    /\ UNCHANGED <<torn, clean>>

\* A line without a valid formula is refused when its turn comes.
RefuseLine(c) ==
    /\ At(c, "lines") /\ request[c].lines # {} /\ request[c].op = "lines"
    /\ torn' = torn \cup {request[c].s}
    /\ Ends(c) /\ UNCHANGED <<row, clean>>

ReadLines(c) ==
    /\ (At(c, "lines") /\ request[c].lines = {}) \/ At(c, "sum")
    /\ row[request[c].s].state = "live"
    /\ Goes(c, [request[c] EXCEPT !.sum = SumOf(request[c].s), !.pc = "gross"])
    /\ UNCHANGED <<row, torn, clean>>

WriteGross(c) ==
    /\ At(c, "gross")
    /\ LET q == request[c] IN Writes(c, q.s, [row[q.s] EXCEPT !.gross = q.sum], Idle)
    /\ UNCHANGED <<torn, clean>>

-----------------------------------------------------------------------------
(* One line at a time                                                      *)

Reads(c, s, t, pc) ==
    Begins(c, [Idle EXCEPT !.op = "lines", !.pc = pc, !.s = s, !.lines = {t}, !.sum = SumOf(s)])

AddAllowanceToStructure(c) ==
    /\ Free(c)
    /\ \E s \in Live, t \in Types : t \notin row[s].lines /\ Reads(c, s, t, "add")

\* Mutant: the gross salary of the lines as they were read.
SumAsRead(q) == q.sum

\* The lines that were read, with the new one.
SumWith(q) == <<q.sum[1], q.sum[2] \cup q.lines>>

\* A unique key refuses a type that came in between.
CreateAllowance(c) ==
    /\ At(c, "add")
    /\ LET q == request[c]
       IN  /\ row[q.s].lines \cap q.lines = {}
           /\ Writes(c, q.s, [row[q.s] EXCEPT !.lines = @ \cup q.lines],
                     [q EXCEPT !.sum = SumWith(q), !.pc = "gross"])
    /\ UNCHANGED <<torn, clean>>

RemoveAllowanceFromStructure(c) ==
    /\ Free(c)
    /\ \E s \in Live, t \in Types : t \in row[s].lines /\ Reads(c, s, t, "remove")

DeleteAllowance(c) ==
    /\ At(c, "remove")
    /\ LET q == request[c]
       IN  /\ q.lines \subseteq row[q.s].lines
           /\ Writes(c, q.s, [row[q.s] EXCEPT !.lines = @ \ q.lines],
                     [q EXCEPT !.sum = <<@[1], @[2] \ q.lines>>, !.pc = "gross"])
    /\ UNCHANGED <<torn, clean>>

\* The gross salary is written again, from the allowances that were read.
Rewrites(c, s) ==
    Begins(c, [Idle EXCEPT !.op = "lines", !.pc = "gross", !.s = s, !.sum = SumOf(s)])

AddDeductionToStructure(c) == Free(c) /\ \E s \in Live : Rewrites(c, s)

RemoveDeductionFromStructure(c) == Free(c) /\ \E s \in Live : Rewrites(c, s)

\* A batch row: the line is deleted, created and the whole read again.
UpsertAllowanceLineOnStructure(c) ==
    /\ Free(c)
    /\ \E s \in Latest, t \in Types :
          Begins(c, [Idle EXCEPT !.op = "row", !.pc = "replace", !.s = s, !.lines = {t}])

ReplaceAllowance(c) ==
    /\ At(c, "replace")
    /\ LET q == request[c]
       IN  Writes(c, q.s, [row[q.s] EXCEPT !.lines = @ \ q.lines], [q EXCEPT !.pc = "lines"])
    /\ UNCHANGED <<torn, clean>>

UpsertDeductionLineOnStructure(c) ==
    /\ Free(c)
    /\ \E s \in Latest : Begins(c, [Idle EXCEPT !.op = "row", !.pc = "sum", !.s = s])

\* A batch row that changes the base salary, or opens the first structure.
UpdateBaseSalary(c) ==
    /\ Free(c)
    /\ IF Live = {}
       THEN Room /\ Begins(c, [Idle EXCEPT !.op = "first", !.pc = "insert", !.from = Now])
       ELSE \E s \in Latest :
               \E base \in Bases \ {row[s].base} :
                  Begins(c, [Idle EXCEPT !.op = "row", !.pc = "base", !.s = s,
                                         !.sum = <<base, row[s].lines>>])

WriteBaseSalary(c) ==
    /\ At(c, "base")
    /\ LET q == request[c]
       IN  Writes(c, q.s, [row[q.s] EXCEPT !.base = q.sum[1], !.gross = q.sum], Idle)
    /\ UNCHANGED <<torn, clean>>

-----------------------------------------------------------------------------
(* The end of a structure                                                  *)

DeactivateSalaryStructure(c) ==
    /\ Free(c)
    /\ \E s \in Live : ~Ended(s) /\ Begins(c, [Idle EXCEPT !.op = "dates", !.pc = "close", !.s = s])

CloseStructure(c) ==
    /\ At(c, "close")
    /\ LET s == request[c].s
           end == EveningBefore(Now)
       IN  /\ Writes(c, s, [row[s] EXCEPT !.to = end], Idle)
           /\ clean' = (clean /\ end <= row[s].to)
    /\ UNCHANGED torn

ActivateSalaryStructure(c) ==
    /\ Free(c)
    /\ \E s \in Live :
          Ended(s) /\ Begins(c, [Idle EXCEPT !.op = "open", !.pc = "recheck", !.s = s, !.from = row[s].from])

CheckReopen(c) ==
    /\ At(c, "recheck")
    /\ IF \E s \in Live \ {request[c].s} : Overlaps(s, request[c].from, Never)
       THEN Ends(c)
       ELSE Goes(c, [request[c] EXCEPT !.pc = "reopen"])
    /\ UNCHANGED <<row, torn, clean>>

ReopenStructure(c) ==
    /\ At(c, "reopen")
    /\ LET s == request[c].s IN Writes(c, s, [row[s] EXCEPT !.to = Never], Idle)
    /\ UNCHANGED <<torn, clean>>

DeleteSalaryStructure(c) ==
    /\ Free(c)
    /\ \E s \in Live : Ended(s) /\ Begins(c, [Idle EXCEPT !.op = "dates", !.pc = "delete", !.s = s])

DeleteStructure(c) ==
    /\ At(c, "delete")
    /\ LET s == request[c].s IN Writes(c, s, [NoRow EXCEPT !.state = "gone"], Idle)
    /\ UNCHANGED <<torn, clean>>

\* terminateEmployee ends what is in force, in one statement.
EndActiveSalaryStructuresForUser ==
    /\ Active # {} /\ requests < MaxRequests
    /\ row' = [s \in Structures |-> IF s \in Active THEN [row[s] EXCEPT !.to = Now] ELSE row[s]]
    /\ requests' = requests + 1
    /\ UNCHANGED <<today, request, torn, clean>>

-----------------------------------------------------------------------------

\* A call fails, or the server dies: what was written stays.
Fault(c) ==
    /\ ~At(c, "idle")
    /\ Ends(c)
    /\ torn' = IF request[c].pc \in {"clear", "lines", "sum", "gross"}
               THEN torn \cup {request[c].s} ELSE torn
    /\ UNCHANGED <<row, clean>>

\* The structure, or the line, is not what the call needs: an error answer.
Refused(c) ==
    /\ ~At(c, "idle") /\ request[c].s # 0
    /\ LET q == request[c]
       IN  \/ row[q.s].state = "gone"
           \/ At(c, "add") /\ q.lines \cap row[q.s].lines # {}
           \/ At(c, "remove") /\ ~(q.lines \subseteq row[q.s].lines)
           \/ At(c, "lines") /\ q.lines # {} /\ q.lines \subseteq row[q.s].lines
    /\ Ends(c) /\ UNCHANGED <<row, torn, clean>>

NextDay ==
    /\ today < MaxDay /\ today' = today + 1
    /\ UNCHANGED <<row, request, requests, torn, clean>>

Handler(c) ==
    \/ CreateSalaryStructure(c) \/ UpdateSalaryStructure(c)
    \/ AddAllowanceToStructure(c) \/ RemoveAllowanceFromStructure(c)
    \/ AddDeductionToStructure(c) \/ RemoveDeductionFromStructure(c)
    \/ UpsertAllowanceLineOnStructure(c) \/ UpsertDeductionLineOnStructure(c)
    \/ UpdateBaseSalary(c) \/ DeactivateSalaryStructure(c)
    \/ ActivateSalaryStructure(c) \/ DeleteSalaryStructure(c)

Call(c) ==
    \/ EndActive(c) \/ CheckOverlap(c) \/ InsertStructure(c) \/ PatchStructure(c)
    \/ ClearLines(c) \/ CreateLine(c) \/ RefuseLine(c) \/ ReadLines(c) \/ WriteGross(c)
    \/ CreateAllowance(c) \/ DeleteAllowance(c) \/ ReplaceAllowance(c)
    \/ WriteBaseSalary(c) \/ CloseStructure(c) \/ CheckReopen(c) \/ ReopenStructure(c)
    \/ DeleteStructure(c) \/ Refused(c) \/ Fault(c)

Next ==
    \/ \E c \in Clients : Handler(c) \/ Call(c)
    \/ EndActiveSalaryStructuresForUser \/ NextDay

Spec == Init /\ [][Next]_vars

-----------------------------------------------------------------------------

Grosses == Bases \X SUBSET Types

\* The state stays in its types.
TypeOK ==
    /\ today \in Days /\ clean \in BOOLEAN /\ torn \subseteq Structures
    /\ row \in [Structures -> [state : {"none", "live", "gone"}, from : Instants,
                  to : Instants, base : Bases, lines : SUBSET Types, gross : Grosses]]
    /\ \A c \in Clients : request[c].s \in 0..NumStructures /\ request[c].sum \in Grosses

OneInForce ==
    \A r, s \in Live : r # s => \A t \in Instants : ~(Covers(r, t) /\ Covers(s, t))

\* At no instant are two structures of an employee in force, whatever is ended,
\* reopened, deleted or left halfway, unless dates were patched, an end was moved
\* later, or two handlers that open a structure met.
OneInForceIfKept == clean => OneInForce

\* Once its handlers are done, a structure's gross salary is that of its base and
\* its lines, unless two of them met on it or one stopped halfway.
GrossMatchesLines ==
    \A s \in Live \ torn :
       (\A c \in Clients : ~(request[c].op \in OnSalary /\ request[c].s = s)) => row[s].gross = SumOf(s)

\* "Prevent overlapping salary structure periods" and "only one active salary
\* structure per employee": controllers/salary-structure.controller.js:701 and :672.
\* When createSalaryStructure ends the structure in force, no two overlap that did
\* not before.
CreateKeepsApart == [][(OneInForce /\ \E c \in Clients : EndActive(c)) => OneInForce']_vars
=============================================================================
