----------------------- MODULE SalaryStructuresProofs -----------------------
(***************************************************************************)
(* Salary structures, for any number of structures, clients, requests,     *)
(* days, allowance types and base salaries.  Two results that share little *)
(* but the steps: when a structure is in force, and the gross salary that  *)
(* is stored beside its lines.                                             *)
(***************************************************************************)
EXTENDS SalaryStructures, TLAPS

StructureRows ==
    [state : {"none", "live", "gone"}, from : Instants, to : Instants,
     base : Bases, lines : SUBSET Types, gross : Grosses]

OpenCalls == {"end", "check", "insert", "recheck", "reopen"}
SalaryCalls == {"patch", "clear", "lines", "sum", "gross", "add", "remove", "replace", "base"}
DateCalls == {"close", "delete"}

AllCalls == {"idle"} \cup OpenCalls \cup SalaryCalls \cup DateCalls

Requests ==
    [op : {"none", "open", "first", "lines", "row", "dates"}, pc : AllCalls,
     s : 0..NumStructures, from : Instants, to : Instants, lines : SUBSET Types,
     sum : Grosses, fields : SUBSET {"from", "to", "base", "lines"}]

-----------------------------------------------------------------------------
(* The inductive invariant                                                 *)

Shapes ==
    /\ today \in Days /\ clean \in BOOLEAN /\ torn \subseteq Structures /\ requests \in Nat
    /\ row \in [Structures -> StructureRows] /\ request \in [Clients -> Requests]

\* Which calls which handler makes, and that it has the structure they are about.
Fits(q) ==
    /\ \/ q.op = "none" /\ q.pc = "idle"
       \/ q.op = "open" /\ q.pc \in OpenCalls
       \/ q.op = "first" /\ q.pc = "insert" /\ q.sum = NoGross
       \/ q.op \in OnSalary /\ q.pc \in SalaryCalls
       \/ q.op = "dates" /\ q.pc \in DateCalls
    /\ q.pc \notin {"idle", "check", "insert"} => q.s # 0
    /\ q.s # 0 => row[q.s].state # "none"
    /\ q.pc = "end" => q.from >= 0

RequestsFit == \A c \in Clients : Fits(request[c])

\* A handler that works on the salary of structure s.
Held(c, s) == request[c].op \in OnSalary /\ request[c].s = s

OneHolds ==
    \A s \in Structures \ torn : \A c, d \in Clients : Held(c, s) /\ Held(d, s) => c = d

\* What a handler that is alone on a structure knows of it before its next call.
Midway(q, w) ==
    /\ q.pc \in {"patch", "add", "remove", "replace", "base"} => w.gross = <<w.base, w.lines>>
    /\ q.pc \in {"add", "remove", "gross"} => q.sum = <<w.base, w.lines>>
    /\ q.pc = "base" => q.sum[2] = w.lines
    /\ q.pc = "lines" => q.lines \cap w.lines = {}

HeldRowsFit ==
    \A s \in Live \ torn : \A c \in Clients : Held(c, s) => Midway(request[c], row[s])

\* What a handler that is alone to open a structure knows of the others.
OneOpens ==
    clean => \A c, d \in Clients : request[c].op \in Opening /\ request[d].op \in Opening => c = d

Opens(q) ==
    /\ q.pc = "insert" => \A s \in Live : ~Overlaps(s, q.from, q.to)
    /\ q.pc = "reopen" => \A s \in Live \ {q.s} : ~Overlaps(s, q.from, Never)
    /\ q.pc \in {"recheck", "reopen"} /\ row[q.s].state = "live" => row[q.s].from = q.from

OpeningFits == clean => \A c \in Clients : Opens(request[c])

SalaryInv ==
    /\ Shapes
    /\ RequestsFit
    /\ OneHolds
    /\ HeldRowsFit
    /\ GrossMatchesLines
    /\ OneOpens
    /\ OpeningFits
    /\ OneInForceIfKept

-----------------------------------------------------------------------------
(* Values                                                                  *)

LEMMA GrossFits == NoGross \in Grosses /\ NoGross[1] \in Bases /\ NoGross[2] = {}
<1>1. (CHOOSE b \in Bases : TRUE) \in Bases
  BY SalaryAssumption
<1> QED
  BY <1>1 DEF NoGross, Grosses

\* The instants of the days, and the evening before.
LEMMA InstantsFit ==
    /\ MaxDay \in Nat /\ Never \in Nat /\ Never \in Instants /\ 0 \in Instants /\ Instants \subseteq Int
    /\ \A d \in Days : Midnight(d) \in Instants /\ Midnight(d) >= 0
    /\ \A t \in Instants : t >= 0 => EveningBefore(t) \in Instants
<1>1. MaxDay \in Nat
  BY SalaryAssumption
<1>2. Never \in Nat /\ Never = 3 * MaxDay + 3
  BY <1>1 DEF Never
<1>3. Instants = -1..Never
  BY DEF Instants
<1>4. ASSUME NEW d \in Days
      PROVE  Midnight(d) \in Instants /\ Midnight(d) >= 0
  BY <1>1, <1>2, <1>3 DEF Days, Midnight
<1>5. ASSUME NEW t \in Instants, t >= 0
      PROVE  EveningBefore(t) \in Instants
  BY <1>2, <1>3, <1>5 DEF EveningBefore
<1> QED
  BY <1>1, <1>2, <1>3, <1>4, <1>5

LEMMA NowFits ==
    ASSUME today \in Days
    PROVE  Now \in Instants /\ Now >= 0
BY SalaryAssumption DEF Now, Instants, Never, Days

LEMMA IdleFits ==
    /\ Idle \in Requests /\ Idle.op = "none" /\ Idle.pc = "idle" /\ Idle.s = 0
    /\ Idle.from = 0 /\ Idle.to = Never /\ Idle.sum = NoGross
<1>1. 0 \in Instants /\ Never \in Instants
  BY InstantsFit
<1>2. NumStructures \in Nat
  BY SalaryAssumption
<1> QED
  BY <1>1, <1>2, GrossFits DEF Idle, Requests, AllCalls

LEMMA SumFits ==
    ASSUME Shapes, NEW s \in Structures
    PROVE  SumOf(s) \in Grosses /\ SumOf(s) = <<row[s].base, row[s].lines>>
<1>1. row[s].base \in Bases /\ row[s].lines \in SUBSET Types
  BY DEF Shapes, StructureRows
<1> QED
  BY <1>1 DEF SumOf, Grosses

LEMMA NoRowFits == NoRow \in StructureRows /\ NoRow.state = "none"
BY GrossFits, InstantsFit DEF NoRow, StructureRows

-----------------------------------------------------------------------------
(* What a step has to keep                                                 *)

LEMMA RequestsStay ==
    ASSUME RequestsFit, request' \in [Clients -> Requests],
           \A s \in Structures : row[s].state # "none" => row'[s].state # "none",
           \A c \in Clients : request'[c] = request[c] \/ Fits(request[c])'
    PROVE  RequestsFit'
<1> SUFFICES ASSUME NEW c \in Clients
             PROVE  Fits(request[c])'
  BY DEF RequestsFit
<1>1. CASE request'[c] = request[c]
  <2>1. PICK q \in Requests : q = request'[c]
    OBVIOUS
  <2>2. Fits(q)
    BY <1>1, <2>1 DEF RequestsFit
  <2>3. q.s # 0 => q.s \in Structures
    BY DEF Requests, Structures
  <2>4. Fits(q)'
    BY <2>2, <2>3 DEF Fits
  <2> QED
    BY <2>1, <2>4
<1>2. CASE Fits(request[c])'
  BY <1>2
<1> QED
  BY <1>1, <1>2

\* Where no start moves and no end is moved later, what was apart stays apart.
LEMMA DatesStay ==
    ASSUME SalaryInv, row' \in [Structures -> StructureRows], request' \in [Clients -> Requests],
           clean' => clean,
           clean' => \A s \in Structures : row'[s].state = "live" =>
              row[s].state = "live" /\ row'[s].from = row[s].from /\ row'[s].to <= row[s].to,
           clean' => \A c \in Clients : request'[c] = request[c] \/ Opens(request[c])'
    PROVE  OpeningFits' /\ OneInForceIfKept'
<1> SUFFICES ASSUME clean'
             PROVE  OpeningFits' /\ OneInForceIfKept'
  BY DEF OpeningFits, OneInForceIfKept
<1>1. /\ row \in [Structures -> StructureRows] /\ clean
      /\ \A c \in Clients : Opens(request[c])
      /\ \A r, s \in Live : r # s => \A t \in Instants : ~(Covers(r, t) /\ Covers(s, t))
  BY DEF SalaryInv, Shapes, OpeningFits, OneInForceIfKept, OneInForce
<1>2. \A s \in Live' : s \in Live /\ row'[s].from = row[s].from /\ row'[s].to <= row[s].to
  BY DEF Live
<1>3. \A s \in Structures : /\ row[s].from \in Int /\ row[s].to \in Int
                            /\ row'[s].from \in Int /\ row'[s].to \in Int
  BY <1>1, InstantsFit DEF StructureRows
<1>4. ASSUME NEW s \in Live', NEW from \in Instants, NEW to \in Instants, ~Overlaps(s, from, to)
      PROVE  ~Overlaps(s, from, to)'
  BY <1>2, <1>3, <1>4, InstantsFit DEF Overlaps, Live
<1>5. ASSUME NEW s \in Live', NEW t \in Instants, Covers(s, t)'
      PROVE  Covers(s, t)
  BY <1>2, <1>3, <1>5, InstantsFit DEF Covers, Live
<1>6. ASSUME NEW c \in Clients
      PROVE  Opens(request[c])'
  <2>1. CASE request'[c] = request[c]
    <3>1. PICK q \in Requests : q = request'[c]
      OBVIOUS
    <3>2. Opens(q)
      BY <1>1, <2>1, <3>1
    <3>3. q.from \in Instants /\ q.to \in Instants /\ Never \in Instants
      BY InstantsFit DEF Requests
    <3>4. q.pc \in {"recheck", "reopen"} => q.s \in Structures
      <4>1. Fits(q)
        BY <2>1, <3>1 DEF SalaryInv, RequestsFit
      <4> QED
        BY <4>1 DEF Fits, Requests, Structures
    <3>5. Opens(q)'
      BY <1>2, <1>4, <3>2, <3>3, <3>4 DEF Opens, Live
    <3> QED
      BY <3>1, <3>5
  <2> QED
    BY <2>1
<1>7. OneInForce'
  BY <1>1, <1>2, <1>5 DEF OneInForce
<1> QED
  BY <1>6, <1>7 DEF OpeningFits, OneInForceIfKept

\* Steps that are not about a salary.
LEMMA GrossStays ==
    ASSUME SalaryInv, torn' = torn,
           \A c \in Clients : \/ request'[c] = request[c]
                              \/ request[c].op \notin OnSalary /\ request'[c].op \notin OnSalary,
           \A s \in Structures : row'[s].state = "live" =>
              /\ row[s].state = "live" /\ row'[s].base = row[s].base
              /\ row'[s].lines = row[s].lines /\ row'[s].gross = row[s].gross
    PROVE  OneHolds' /\ HeldRowsFit' /\ GrossMatchesLines'
<1>1. \A c \in Clients, s \in Structures : Held(c, s)' <=> Held(c, s)
  BY DEF Held
<1>2. \A c \in Clients, s \in Structures : Held(c, s) => request'[c] = request[c]
  BY DEF Held
<1>3. OneHolds'
  BY <1>1 DEF SalaryInv, OneHolds
<1>4. Live' \subseteq Live /\ \A s \in Live' : SumOf(s)' = SumOf(s) /\ row'[s].gross = row[s].gross
  BY DEF Live, SumOf
<1>5. HeldRowsFit'
  <2> SUFFICES ASSUME NEW s \in Live', s \notin torn, NEW c \in Clients, Held(c, s)'
               PROVE  Midway(request[c], row[s])'
    BY DEF HeldRowsFit
  <2>1. Midway(request[c], row[s]) /\ request'[c] = request[c]
    BY <1>1, <1>2, <1>4 DEF SalaryInv, HeldRowsFit, Live
  <2> QED
    BY <2>1 DEF Midway, Live
<1>6. GrossMatchesLines'
  <2> SUFFICES ASSUME NEW s \in Live', s \notin torn, \A c \in Clients : ~Held(c, s)'
               PROVE  row'[s].gross = SumOf(s)'
    BY DEF GrossMatchesLines, Held
  <2>1. \A c \in Clients : ~Held(c, s)
    BY <1>1 DEF Live
  <2>2. row[s].gross = SumOf(s)
    BY <1>4, <2>1 DEF SalaryInv, GrossMatchesLines, Held
  <2> QED
    BY <1>4, <2>2
<1> QED
  BY <1>3, <1>5, <1>6

\* Steps about the salary of one structure, by one handler.
LEMMA GrossOnOne ==
    ASSUME SalaryInv, NEW c \in Clients, NEW s \in Structures, NEW r \in Requests,
           request' = [request EXCEPT ![c] = r],
           request[c].op \in OnSalary => request[c].s = s,
           r.op \in OnSalary => r.s = s,
           torn \subseteq torn', torn' \subseteq torn \cup {s},
           \A x \in Structures \ {s} : row'[x].state = "live" => row'[x] = row[x],
           s \notin torn' => \A d \in Clients \ {c} : ~Held(d, s),
           s \notin torn' /\ row'[s].state = "live" =>
              IF r.op \in OnSalary THEN Midway(r, row'[s])
              ELSE row'[s].gross = <<row'[s].base, row'[s].lines>>
    PROVE  OneHolds' /\ HeldRowsFit' /\ GrossMatchesLines'
<1>1. request'[c] = r /\ \A d \in Clients \ {c} : request'[d] = request[d]
  BY DEF SalaryInv, Shapes
<1>2. \A d \in Clients \ {c}, x \in Structures : Held(d, x)' <=> Held(d, x)
  BY <1>1 DEF Held
<1>3. \A x \in Structures \ {s} : ~Held(c, x)' /\ ~Held(c, x)
  BY <1>1 DEF Held
<1>4. OneHolds'
  BY <1>2, <1>3 DEF SalaryInv, OneHolds
<1>5. HeldRowsFit'
  <2> SUFFICES ASSUME NEW x \in Structures, row'[x].state = "live", x \notin torn',
                      NEW d \in Clients, Held(d, x)'
               PROVE  Midway(request[d], row[x])'
    BY DEF HeldRowsFit, Live
  <2>1. CASE x = s
    <3>1. d = c
      BY <1>2, <2>1
    <3>2. r.op \in OnSalary
      BY <1>1, <3>1 DEF Held
    <3> QED
      BY <1>1, <2>1, <3>1, <3>2 DEF Midway
  <2>2. CASE x # s
    <3>1. d # c /\ Held(d, x) /\ row'[x] = row[x] /\ request'[d] = request[d] /\ x \notin torn
      BY <1>1, <1>2, <1>3, <2>2
    <3>2. Midway(request[d], row[x])
      BY <3>1 DEF SalaryInv, HeldRowsFit, Live
    <3> QED
      BY <3>1, <3>2 DEF Midway
  <2> QED
    BY <2>1, <2>2
<1>6. GrossMatchesLines'
  <2> SUFFICES ASSUME NEW x \in Structures, row'[x].state = "live", x \notin torn',
                      \A d \in Clients : ~Held(d, x)'
               PROVE  row'[x].gross = SumOf(x)'
    BY DEF GrossMatchesLines, Held, Live
  <2>1. CASE x = s
    <3>1. r.op \notin OnSalary
      BY <1>1, <2>1 DEF Held
    <3> QED
      BY <2>1, <3>1 DEF SumOf
  <2>2. CASE x # s
    <3>1. /\ row'[x] = row[x] /\ x \notin torn /\ \A d \in Clients : ~Held(d, x)
      BY <1>2, <1>3, <2>2
    <3>2. row[x].gross = SumOf(x)
      BY <3>1 DEF SalaryInv, GrossMatchesLines, Held, Live
    <3> QED
      BY <3>1, <3>2 DEF SumOf
  <2> QED
    BY <2>1, <2>2
<1> QED
  BY <1>4, <1>5, <1>6

\* A handler that has read what it needs.
LEMMA BeginsFit ==
    ASSUME SalaryInv, NEW c \in Clients, At(c, "idle"), NEW r \in Requests, Begins(c, r), Fits(r),
           r.op \in OnSalary =>
              /\ row[r.s].state = "live"
              /\ row[r.s].gross = SumOf(r.s) => Midway(r, row[r.s]),
           r.pc = "insert" => Live = {},
           r.pc # "reopen",
           r.pc = "recheck" => row[r.s].from = r.from
    PROVE  SalaryInv'
<1>1. /\ request' = [request EXCEPT ![c] = r] /\ requests' = requests + 1
      /\ torn' = (IF r.op \in OnSalary /\ \E d \in Others(c, OnSalary) : request[d].s = r.s
                  THEN torn \cup {r.s} ELSE torn)
      /\ clean' = (clean /\ ~(r.op \in Opening /\ Others(c, Opening) # {}))
      /\ today' = today /\ row' = row
  BY DEF Begins
<1>2. /\ request' \in [Clients -> Requests] /\ request'[c] = r
      /\ \A d \in Clients \ {c} : request'[d] = request[d]
  BY <1>1 DEF SalaryInv, Shapes
<1>3. request[c].op = "none"
  BY DEF At, SalaryInv, RequestsFit, Fits, OpenCalls, SalaryCalls, DateCalls
<1>4. r.op \in OnSalary => r.s \in Structures
  BY DEF Fits, OnSalary, SalaryCalls, Requests, Structures
<1>5. Shapes'
  <2>1. clean' \in BOOLEAN /\ torn' \subseteq Structures
    BY <1>1, <1>4 DEF SalaryInv, Shapes
  <2> QED
    BY <1>1, <1>2, <2>1 DEF SalaryInv, Shapes
<1>6. RequestsFit'
  <2>1. Fits(r)'
    BY <1>1 DEF Fits
  <2>2. Fits(request[c])'
    BY <1>2, <2>1 DEF Fits
  <2> QED
    BY <1>1, <1>2, <2>2, RequestsStay DEF SalaryInv
<1>7. OneHolds' /\ HeldRowsFit' /\ GrossMatchesLines'
  <2>1. CASE r.op \notin OnSalary
    <3>1. \A d \in Clients : \/ request'[d] = request[d]
                             \/ request[d].op \notin OnSalary /\ request'[d].op \notin OnSalary
      BY <1>2, <1>3, <2>1 DEF OnSalary
    <3> QED
      BY <1>1, <2>1, <3>1, GrossStays
  <2>2. CASE r.op \in OnSalary
    <3>1. r.s \in Structures
      BY <1>4, <2>2
    <3>2. r.s \notin torn' => r.s \notin torn /\ \A d \in Clients \ {c} : ~Held(d, r.s)
      BY <1>1, <2>2 DEF Others, Held
    <3>3. request[c].op \notin OnSalary
      BY <1>3 DEF OnSalary
    <3>4. r.s \notin torn' => Midway(r, row'[r.s])
      <4> SUFFICES ASSUME r.s \notin torn'
                   PROVE  Midway(r, row[r.s])
        BY <1>1
      <4>1. \A d \in Clients : ~Held(d, r.s)
        BY <3>2, <3>3 DEF Held
      <4>2. row[r.s].gross = SumOf(r.s)
        BY <2>2, <3>1, <3>2, <4>1 DEF SalaryInv, GrossMatchesLines, Held, Live
      <4> QED
        BY <2>2, <4>2
    <3>5. torn \subseteq torn' /\ torn' \subseteq torn \cup {r.s}
      BY <1>1
    <3>6. \A x \in Structures \ {r.s} : row'[x] = row[x]
      BY <1>1
    <3> QED
      BY <1>1, <2>2, <3>1, <3>2, <3>3, <3>4, <3>5, <3>6, GrossOnOne
  <2> QED
    BY <2>1, <2>2
<1>8. OneOpens'
  <2> SUFFICES ASSUME clean', NEW d \in Clients, NEW e \in Clients,
                      request'[d].op \in Opening, request'[e].op \in Opening
               PROVE  d = e
    BY DEF OneOpens
  <2>1. clean /\ (r.op \in Opening => \A x \in Clients \ {c} : request[x].op \notin Opening)
    BY <1>1 DEF SalaryInv, Shapes, Others
  <2> QED
    BY <1>2, <2>1 DEF SalaryInv, OneOpens
<1>9. OpeningFits' /\ OneInForceIfKept'
  <2>1. Opens(r)'
    BY <1>1 DEF Opens, Live
  <2>2. Opens(request[c])'
    BY <1>2, <2>1 DEF Opens
  <2>3. \A d \in Clients : request'[d] = request[d] \/ Opens(request[d])'
    BY <1>2, <2>2
  <2>4. \A x \in Structures : row[x].to <= row[x].to
    <3>1. \A x \in Structures : row[x].to \in Int
      BY InstantsFit DEF SalaryInv, Shapes, StructureRows
    <3> QED
      BY <3>1
  <2>5. (clean' => clean) /\ row' \in [Structures -> StructureRows]
    BY <1>1 DEF SalaryInv, Shapes
  <2> QED
    BY <1>1, <1>2, <2>3, <2>4, <2>5, DatesStay
<1> QED
  BY <1>5, <1>6, <1>7, <1>8, <1>9 DEF SalaryInv

\* A call of a handler at work.
LEMMA CallFits ==
    ASSUME SalaryInv, NEW c \in Clients, NEW r \in Requests, Goes(c, r),
           row' \in [Structures -> StructureRows], torn' \subseteq Structures,
           clean' \in BOOLEAN, clean' => clean,
           \A s \in Structures : row[s].state # "none" => row'[s].state # "none",
           Fits(r)', r.op \in Opening => request[c].op \in Opening,
           OneHolds' /\ HeldRowsFit' /\ GrossMatchesLines',
           OpeningFits' /\ OneInForceIfKept'
    PROVE  SalaryInv'
<1>1. request' = [request EXCEPT ![c] = r] /\ UNCHANGED <<today, requests>>
  BY DEF Goes
<1>2. /\ request' \in [Clients -> Requests] /\ request'[c] = r
      /\ \A d \in Clients \ {c} : request'[d] = request[d]
  BY <1>1 DEF SalaryInv, Shapes
<1>3. Shapes'
  BY <1>1, <1>2 DEF SalaryInv, Shapes
<1>4. RequestsFit'
  <2>1. Fits(request[c])'
    BY <1>2 DEF Fits
  <2> QED
    BY <1>2, <2>1, RequestsStay DEF SalaryInv
<1>5. OneOpens'
  BY <1>2 DEF SalaryInv, OneOpens
<1> QED
  BY <1>3, <1>4, <1>5 DEF SalaryInv

\* A call on the salary of a structure: it moves no dates, unless they were given.
LEMMA SalaryCallFits ==
    ASSUME SalaryInv, NEW c \in Clients, request[c].op \in OnSalary,
           NEW s \in Structures, s = request[c].s,
           NEW r \in Requests, Goes(c, r),
           r = Idle \/ (r.op \in OnSalary /\ r.s = s /\ r.pc \in SalaryCalls),
           row' = row \/ \E w \in StructureRows : w.state = "live" /\ row[s].state = "live"
                                                  /\ row' = [row EXCEPT ![s] = w],
           clean' \in BOOLEAN,
           clean' => clean /\ row'[s].from = row[s].from /\ row'[s].to = row[s].to,
           torn' = torn \/ torn' = torn \cup {s},
           s \notin torn' /\ row'[s].state = "live" =>
              /\ r = Idle => row'[s].gross = <<row'[s].base, row'[s].lines>>
              /\ r # Idle => Midway(r, row'[s])
    PROVE  SalaryInv'
<1>1. /\ row' \in [Structures -> StructureRows]
      /\ \A x \in Structures : row'[x].state = row[x].state
      /\ \A x \in Structures \ {s} : row'[x] = row[x]
  BY DEF SalaryInv, Shapes
<1>2. torn' \subseteq Structures /\ torn \subseteq torn' /\ torn' \subseteq torn \cup {s}
  BY DEF SalaryInv, Shapes
<1>3. request' = [request EXCEPT ![c] = r]
  BY DEF Goes
<1>4. /\ request' \in [Clients -> Requests] /\ request'[c] = r
      /\ \A d \in Clients \ {c} : request'[d] = request[d]
  BY <1>3 DEF SalaryInv, Shapes
<1>5. Fits(r)'
  <2>1. row[s].state # "none"
    BY DEF SalaryInv, RequestsFit, Fits, OnSalary, SalaryCalls, Structures
  <2>2. s # 0
    BY DEF Structures
  <2> QED
    BY <1>1, <2>1, <2>2, IdleFits DEF Fits, SalaryCalls
<1>6. r.op \notin Opening /\ r.pc \notin {"insert", "reopen", "recheck"}
  BY IdleFits DEF OnSalary, Opening, SalaryCalls
<1>7. OneHolds' /\ HeldRowsFit' /\ GrossMatchesLines'
  <2>1. s \notin torn' => \A d \in Clients \ {c} : ~Held(d, s)
    BY <1>2 DEF SalaryInv, OneHolds, Held
  <2>2. r = Idle <=> r.op \notin OnSalary
    BY IdleFits DEF OnSalary
  <2>3. s \notin torn' /\ row'[s].state = "live" =>
           IF r.op \in OnSalary THEN Midway(r, row'[s])
           ELSE row'[s].gross = <<row'[s].base, row'[s].lines>>
    BY <2>2
  <2>4. r.op \in OnSalary => r.s = s
    BY <2>2
  <2> QED
    BY <1>1, <1>2, <1>3, <2>1, <2>3, <2>4, GrossOnOne
<1>8. OpeningFits' /\ OneInForceIfKept'
  <2>1. Opens(request[c])'
    BY <1>4, <1>6 DEF Opens
  <2>2. \A d \in Clients : request'[d] = request[d] \/ Opens(request[d])'
    BY <1>4, <2>1
  <2>3. \A x \in Structures : row'[x].to \in Int
    BY <1>1, InstantsFit DEF StructureRows
  <2>4. clean' => \A x \in Structures : row'[x].state = "live" =>
           row[x].state = "live" /\ row'[x].from = row[x].from /\ row'[x].to <= row[x].to
    BY <1>1, <2>3
  <2> QED
    BY <1>1, <1>4, <2>2, <2>4, DatesStay
<1> QED
  BY <1>1, <1>2, <1>5, <1>6, <1>7, <1>8, CallFits

-----------------------------------------------------------------------------
(* The handlers                                                            *)

LEMMA OpensFit ==
    ASSUME SalaryInv, NEW c \in Clients, CreateSalaryStructure(c)
    PROVE  SalaryInv'
<1>1. PICK from \in {Midnight(d) : d \in Days}, lines \in SUBSET Types,
           to \in {Midnight(d) : d \in Days} \cup {Never} :
         LET r == [Idle EXCEPT !.op = "open", !.from = from, !.to = to,
                               !.lines = lines, !.sum = <<NoGross[1], lines>>]
         IN  IF to >= Now /\ Active # {}
             THEN \E s \in Active : Begins(c, [r EXCEPT !.s = s, !.pc = "end"])
             ELSE Begins(c, [r EXCEPT !.pc = "check"])
  BY DEF CreateSalaryStructure
<1>2. At(c, "idle")
  BY DEF CreateSalaryStructure, Free
<1>3. from \in Instants /\ to \in Instants /\ from >= 0
  BY InstantsFit
<1>4. PICK sum \in Grosses : sum = <<NoGross[1], lines>>
  BY GrossFits DEF Grosses
<1>5. PICK q \in Requests : /\ q = [Idle EXCEPT !.op = "open", !.from = from, !.to = to,
                                                !.lines = lines, !.sum = <<NoGross[1], lines>>]
                            /\ q.op = "open" /\ q.s = 0 /\ q.from = from
  <2> HIDE DEF Idle
  <2>1. [Idle EXCEPT !.op = "open", !.from = from, !.to = to, !.lines = lines, !.sum = sum]
           \in Requests
    BY <1>3, IdleFits DEF Requests
  <2>2. /\ [Idle EXCEPT !.op = "open", !.from = from, !.to = to, !.lines = lines, !.sum = sum].op
             = "open"
        /\ [Idle EXCEPT !.op = "open", !.from = from, !.to = to, !.lines = lines, !.sum = sum].s = 0
        /\ [Idle EXCEPT !.op = "open", !.from = from, !.to = to, !.lines = lines, !.sum = sum].from
             = from
    BY IdleFits DEF Requests
  <2> QED
    BY <1>4, <2>1, <2>2
<1>6. q.op = "open" /\ q.s = 0
  BY <1>5
<1>7. ASSUME NEW s \in Active, NEW r, r = [q EXCEPT !.s = s, !.pc = "end"], Begins(c, r)
      PROVE  SalaryInv'
  <2>1. s \in Structures /\ row[s].state = "live" /\ s \in 0..NumStructures /\ "end" \in AllCalls
    BY DEF Active, Live, Structures, AllCalls, OpenCalls
  <2>2. r \in Requests /\ r.op = "open" /\ r.pc = "end" /\ r.s = s /\ r.from = q.from
    BY <1>6, <1>7, <2>1 DEF Requests
  <2>3. Fits(r)
    BY <1>3, <1>5, <2>1, <2>2 DEF Fits, OpenCalls, Structures
  <2> QED
    BY <1>2, <1>7, <2>2, <2>3, BeginsFit DEF OnSalary
<1>8. ASSUME NEW r, r = [q EXCEPT !.pc = "check"], Begins(c, r)
      PROVE  SalaryInv'
  <2>1. "check" \in AllCalls
    BY DEF AllCalls, OpenCalls
  <2>2. r \in Requests /\ r.op = "open" /\ r.pc = "check" /\ r.s = 0
    BY <1>6, <1>8, <2>1 DEF Requests
  <2>3. Fits(r)
    BY <2>2 DEF Fits, OpenCalls
  <2> QED
    BY <1>2, <1>8, <2>2, <2>3, BeginsFit DEF OnSalary
<1> QED
  BY <1>1, <1>5, <1>7, <1>8

LEMMA UpdatesFit ==
    ASSUME SalaryInv, NEW c \in Clients, UpdateSalaryStructure(c)
    PROVE  SalaryInv'
<1>1. PICK s \in Live, fields \in SUBSET {"from", "to", "base", "lines"} \ {{}} :
         \E from \in IF "from" \in fields THEN {Midnight(d) : d \in Days} \ {row[s].from} ELSE {0},
            to \in IF "to" \in fields THEN ({Midnight(d) : d \in Days} \cup {Never}) \ {row[s].to}
                   ELSE {Never},
            base \in IF "base" \in fields THEN Bases \ {row[s].base} ELSE {NoGross[1]},
            lines \in IF "lines" \in fields THEN SUBSET Types ELSE {{}} :
               Begins(c, [op |-> "lines", pc |-> "patch", s |-> s, from |-> from, to |-> to,
                          lines |-> lines, sum |-> <<base, {}>>, fields |-> fields])
  BY DEF UpdateSalaryStructure
<1>2. PICK from \in Instants, to \in Instants, base \in Bases, lines \in SUBSET Types :
         Begins(c, [op |-> "lines", pc |-> "patch", s |-> s, from |-> from, to |-> to,
                    lines |-> lines, sum |-> <<base, {}>>, fields |-> fields])
  <2>1. \A d \in Days : Midnight(d) \in Instants
    BY InstantsFit
  <2>2. 0 \in Instants /\ Never \in Instants /\ NoGross[1] \in Bases
    BY InstantsFit, GrossFits
  <2> QED
    BY <1>1, <2>1, <2>2
<1>3. s \in Structures /\ row[s].state = "live" /\ s # 0 /\ s \in 0..NumStructures
  BY DEF Live, Structures
<1>4. ASSUME NEW r, Begins(c, r),
             r = [op |-> "lines", pc |-> "patch", s |-> s, from |-> from, to |-> to,
                  lines |-> lines, sum |-> <<base, {}>>, fields |-> fields]
      PROVE  SalaryInv'
  <2>1. <<base, {}>> \in Grosses
    BY DEF Grosses
  <2>2. r \in Requests /\ r.op = "lines" /\ r.pc = "patch" /\ r.s = s
    BY <1>3, <1>4, <2>1 DEF Requests, AllCalls, SalaryCalls
  <2>3. Fits(r)
    BY <1>3, <2>2 DEF Fits, OnSalary, SalaryCalls
  <2>4. row[s].gross = SumOf(s) => Midway(r, row[s])
    BY <2>2 DEF Midway, SumOf
  <2> QED
    BY <1>3, <1>4, <2>2, <2>3, <2>4, BeginsFit DEF UpdateSalaryStructure, Free
<1> QED
  BY <1>2, <1>4

\* A handler that works on the salary of one structure, as it read it.
LEMMA WorksFit ==
    ASSUME SalaryInv, NEW c \in Clients, At(c, "idle"), NEW s \in Live, NEW r, Begins(c, r),
           r \in Requests, r.op \in OnSalary, r.s = s, r.pc \in SalaryCalls \ {"lines"},
           r.pc \in {"add", "remove", "gross"} => r.sum = SumOf(s),
           r.pc = "base" => r.sum[2] = row[s].lines
    PROVE  SalaryInv'
<1>1. s \in Structures /\ row[s].state = "live" /\ s # 0
  BY DEF Live, Structures
<1>2. Fits(r)
  BY <1>1 DEF Fits, SalaryCalls
<1>3. row[s].gross = SumOf(s) => Midway(r, row[s])
  BY DEF Midway, SumOf
<1>4. r.pc \notin {"insert", "reopen", "recheck"}
  BY DEF SalaryCalls
<1> QED
  BY <1>1, <1>2, <1>3, <1>4, BeginsFit

LEMMA ReadsFit ==
    ASSUME SalaryInv, NEW c \in Clients, Free(c), NEW s \in Live, NEW t \in Types,
           NEW pc \in {"add", "remove"}, Reads(c, s, t, pc)
    PROVE  SalaryInv'
<1>1. ASSUME NEW r, Begins(c, r),
             r = [Idle EXCEPT !.op = "lines", !.pc = pc, !.s = s, !.lines = {t}, !.sum = SumOf(s)]
      PROVE  SalaryInv'
  <2>1. s \in 0..NumStructures /\ SumOf(s) \in Grosses
    BY SumFits DEF Live, Structures, SalaryInv
  <2>2. r \in Requests /\ r.op = "lines" /\ r.pc = pc /\ r.s = s /\ r.sum = SumOf(s)
    BY <1>1, <2>1, IdleFits DEF Requests, AllCalls, SalaryCalls
  <2> QED
    BY <1>1, <2>2, WorksFit DEF Free, OnSalary, SalaryCalls
<1> QED
  BY <1>1 DEF Reads

LEMMA RewritesFit ==
    ASSUME SalaryInv, NEW c \in Clients, Free(c), NEW s \in Live, Rewrites(c, s)
    PROVE  SalaryInv'
<1>1. ASSUME NEW r, Begins(c, r),
             r = [Idle EXCEPT !.op = "lines", !.pc = "gross", !.s = s, !.sum = SumOf(s)]
      PROVE  SalaryInv'
  <2>1. s \in 0..NumStructures /\ SumOf(s) \in Grosses
    BY SumFits DEF Live, Structures, SalaryInv
  <2>2. r \in Requests /\ r.op = "lines" /\ r.pc = "gross" /\ r.s = s /\ r.sum = SumOf(s)
    BY <1>1, <2>1, IdleFits DEF Requests, AllCalls, SalaryCalls
  <2> QED
    BY <1>1, <2>2, WorksFit DEF Free, OnSalary, SalaryCalls
<1> QED
  BY <1>1 DEF Rewrites

LEMMA UpsertsFit ==
    ASSUME SalaryInv, NEW c \in Clients,
           UpsertAllowanceLineOnStructure(c) \/ UpsertDeductionLineOnStructure(c)
    PROVE  SalaryInv'
<1>1. At(c, "idle")
  BY DEF UpsertAllowanceLineOnStructure, UpsertDeductionLineOnStructure, Free
<1>2. ASSUME NEW s \in Latest, NEW t \in Types, NEW r, Begins(c, r),
             r = [Idle EXCEPT !.op = "row", !.pc = "replace", !.s = s, !.lines = {t}]
      PROVE  SalaryInv'
  <2>1. s \in Live /\ s \in 0..NumStructures
    BY DEF Latest, Live, Structures
  <2>2. r \in Requests /\ r.op = "row" /\ r.pc = "replace" /\ r.s = s
    BY <1>2, <2>1, IdleFits DEF Requests, AllCalls, SalaryCalls
  <2> QED
    BY <1>1, <1>2, <2>1, <2>2, WorksFit DEF OnSalary, SalaryCalls
<1>3. ASSUME NEW s \in Latest, NEW r, Begins(c, r),
             r = [Idle EXCEPT !.op = "row", !.pc = "sum", !.s = s]
      PROVE  SalaryInv'
  <2>1. s \in Live /\ s \in 0..NumStructures
    BY DEF Latest, Live, Structures
  <2>2. r \in Requests /\ r.op = "row" /\ r.pc = "sum" /\ r.s = s
    BY <1>3, <2>1, IdleFits DEF Requests, AllCalls, SalaryCalls
  <2> QED
    BY <1>1, <1>3, <2>1, <2>2, WorksFit DEF OnSalary, SalaryCalls
<1> QED
  BY <1>2, <1>3 DEF UpsertAllowanceLineOnStructure, UpsertDeductionLineOnStructure

LEMMA BasesFit ==
    ASSUME SalaryInv, NEW c \in Clients, UpdateBaseSalary(c)
    PROVE  SalaryInv'
<1>1. At(c, "idle")
  BY DEF UpdateBaseSalary, Free
<1>2. ASSUME Live = {}, NEW r, Begins(c, r),
             r = [Idle EXCEPT !.op = "first", !.pc = "insert", !.from = Now]
      PROVE  SalaryInv'
  <2>1. Now \in Instants
    BY NowFits DEF SalaryInv, Shapes
  <2>2. r \in Requests /\ r.op = "first" /\ r.pc = "insert" /\ r.s = 0 /\ r.sum = NoGross
    BY <1>2, <2>1, IdleFits DEF Requests, AllCalls, OpenCalls
  <2>3. Fits(r)
    BY <2>2 DEF Fits
  <2> QED
    BY <1>1, <1>2, <2>2, <2>3, BeginsFit DEF OnSalary
<1>3. ASSUME NEW s \in Latest, NEW base \in Bases, NEW r, Begins(c, r),
             r = [Idle EXCEPT !.op = "row", !.pc = "base", !.s = s,
                              !.sum = <<base, row[s].lines>>]
      PROVE  SalaryInv'
  <2>1. s \in Live /\ s \in Structures /\ s \in 0..NumStructures
    BY DEF Latest, Live, Structures
  <2>2. PICK sum \in Grosses : sum = <<base, row[s].lines>> /\ sum[2] = row[s].lines
    <3>1. PICK lines \in SUBSET Types : lines = row[s].lines
      BY <2>1 DEF SalaryInv, Shapes, StructureRows
    <3>2. <<base, lines>> \in Grosses /\ <<base, lines>>[2] = lines
      BY DEF Grosses
    <3> QED
      BY <3>1, <3>2
  <2>3. r \in Requests /\ r.op = "row" /\ r.pc = "base" /\ r.s = s /\ r.sum = sum
    <3>1. r = [Idle EXCEPT !.op = "row", !.pc = "base", !.s = s, !.sum = sum]
      BY <1>3, <2>2
    <3> QED
      BY <2>1, <3>1, IdleFits DEF Requests, AllCalls, SalaryCalls
  <2> QED
    BY <1>1, <1>3, <2>1, <2>2, <2>3, WorksFit DEF OnSalary, SalaryCalls
<1> QED
  BY <1>2, <1>3 DEF UpdateBaseSalary

LEMMA DatesFit ==
    ASSUME SalaryInv, NEW c \in Clients,
           \/ DeactivateSalaryStructure(c) \/ ActivateSalaryStructure(c) \/ DeleteSalaryStructure(c)
    PROVE  SalaryInv'
<1>1. At(c, "idle")
  BY DEF DeactivateSalaryStructure, ActivateSalaryStructure, DeleteSalaryStructure, Free
<1>2. ASSUME NEW s \in Live, NEW pc \in DateCalls, NEW r, Begins(c, r),
             r = [Idle EXCEPT !.op = "dates", !.pc = pc, !.s = s]
      PROVE  SalaryInv'
  <2>1. s \in Structures /\ s \in 0..NumStructures /\ row[s].state = "live"
    BY DEF Live, Structures
  <2>2. r \in Requests /\ r.op = "dates" /\ r.pc = pc /\ r.s = s
    BY <1>2, <2>1, IdleFits DEF Requests, AllCalls
  <2>3. Fits(r)
    BY <2>1, <2>2 DEF Fits, DateCalls, Structures
  <2> QED
    BY <1>1, <1>2, <2>2, <2>3, BeginsFit DEF OnSalary, DateCalls
<1>3. ASSUME NEW s \in Live, NEW r, Begins(c, r),
             r = [Idle EXCEPT !.op = "open", !.pc = "recheck", !.s = s, !.from = row[s].from]
      PROVE  SalaryInv'
  <2>1. s \in Structures /\ s \in 0..NumStructures /\ row[s].state = "live"
        /\ row[s].from \in Instants
    BY DEF Live, Structures, SalaryInv, Shapes, StructureRows
  <2>2. r \in Requests /\ r.op = "open" /\ r.pc = "recheck" /\ r.s = s /\ r.from = row[s].from
    BY <1>3, <2>1, IdleFits DEF Requests, AllCalls, OpenCalls
  <2>3. Fits(r)
    BY <2>1, <2>2 DEF Fits, OpenCalls, Structures
  <2> QED
    BY <1>1, <1>3, <2>2, <2>3, BeginsFit DEF OnSalary
<1> QED
  BY <1>2, <1>3 DEF DeactivateSalaryStructure, ActivateSalaryStructure, DeleteSalaryStructure,
     DateCalls

LEMMA HandlersFit ==
    ASSUME SalaryInv, NEW c \in Clients, Handler(c)
    PROVE  SalaryInv'
<1>1. CASE AddAllowanceToStructure(c) \/ RemoveAllowanceFromStructure(c)
  BY <1>1, ReadsFit DEF AddAllowanceToStructure, RemoveAllowanceFromStructure
<1>2. CASE AddDeductionToStructure(c) \/ RemoveDeductionFromStructure(c)
  BY <1>2, RewritesFit DEF AddDeductionToStructure, RemoveDeductionFromStructure
<1> QED
  BY <1>1, <1>2, OpensFit, UpdatesFit, UpsertsFit, BasesFit, DatesFit DEF Handler

-----------------------------------------------------------------------------
(* The calls on the salary of a structure                                  *)

\* A handler at such a call has a structure, and knows it if it is alone.
LEMMA AtWork ==
    ASSUME SalaryInv, NEW c \in Clients, request[c].pc \in SalaryCalls
    PROVE  /\ request[c] \in Requests /\ request[c].op \in OnSalary
           /\ request[c].s \in Structures /\ row[request[c].s] \in StructureRows
           /\ request[c].s \notin torn /\ row[request[c].s].state = "live" =>
                 Midway(request[c], row[request[c].s])
<1>1. request[c] \in Requests /\ Fits(request[c])
  BY DEF SalaryInv, Shapes, RequestsFit
<1>2. request[c].op \in OnSalary /\ request[c].s # 0
  BY <1>1 DEF Fits, SalaryCalls, OpenCalls, DateCalls
<1>3. request[c].s \in Structures
  BY <1>1, <1>2 DEF Requests, Structures
<1>4. Held(c, request[c].s)
  BY <1>2 DEF Held
<1>5. row[request[c].s] \in StructureRows
  BY <1>3 DEF SalaryInv, Shapes
<1> QED
  BY <1>1, <1>2, <1>3, <1>4, <1>5 DEF SalaryInv, HeldRowsFit, Live

LEMMA WritesFit ==
    ASSUME SalaryInv, NEW c \in Clients, NEW q \in Requests, q = request[c], q.pc \in SalaryCalls,
           NEW x \in StructureRows, x = row[q.s],
           NEW w \in StructureRows, w.state = "live", NEW r \in Requests, Writes(c, q.s, w, r),
           r = Idle \/ (r.op = q.op /\ r.s = q.s /\ r.pc \in SalaryCalls),
           torn' = torn, clean' \in BOOLEAN,
           clean' => clean /\ w.from = x.from /\ w.to = x.to,
           Midway(q, x) /\ r = Idle => w.gross = <<w.base, w.lines>>,
           Midway(q, x) /\ r # Idle => Midway(r, w)
    PROVE  SalaryInv'
<1>1. q.op \in OnSalary /\ q.s \in Structures /\ row[q.s].state = "live"
  BY AtWork DEF Writes
<1>2. row' = [row EXCEPT ![q.s] = w] /\ row'[q.s] = w /\ Goes(c, r)
  BY <1>1 DEF Writes, SalaryInv, Shapes
<1>3. q.s \notin torn => Midway(q, x)
  BY <1>1, AtWork
<1>4. q.s \notin torn' /\ row'[q.s].state = "live" =>
         /\ r = Idle => row'[q.s].gross = <<row'[q.s].base, row'[q.s].lines>>
         /\ r # Idle => Midway(r, row'[q.s])
  BY <1>2, <1>3
<1>5. row' = row \/ \E y \in StructureRows : y.state = "live" /\ row[q.s].state = "live"
                                             /\ row' = [row EXCEPT ![q.s] = y]
  BY <1>1, <1>2
<1>6. clean' => clean /\ row'[q.s].from = row[q.s].from /\ row'[q.s].to = row[q.s].to
  BY <1>2
<1> QED
  BY <1>1, <1>2, <1>4, <1>5, <1>6, SalaryCallFits

\* A call that writes nothing to the structure.
LEMMA LeavesFit ==
    ASSUME SalaryInv, NEW c \in Clients, NEW q \in Requests, q = request[c], q.pc \in SalaryCalls,
           NEW x \in StructureRows, x = row[q.s], NEW r \in Requests, Goes(c, r),
           r = Idle \/ (r.op = q.op /\ r.s = q.s /\ r.pc \in SalaryCalls),
           UNCHANGED <<row, clean>>, torn' = torn \/ torn' = torn \cup {q.s},
           torn' = torn /\ x.state = "live" /\ Midway(q, x) =>
              /\ r = Idle => x.gross = <<x.base, x.lines>>
              /\ r # Idle => Midway(r, x)
    PROVE  SalaryInv'
<1>1. q.op \in OnSalary /\ q.s \in Structures /\ clean \in BOOLEAN
  BY AtWork DEF SalaryInv, Shapes
<1>2. q.s \notin torn' /\ row'[q.s].state = "live" =>
         /\ r = Idle => row'[q.s].gross = <<row'[q.s].base, row'[q.s].lines>>
         /\ r # Idle => Midway(r, row'[q.s])
  <2> SUFFICES ASSUME q.s \notin torn', x.state = "live"
               PROVE  /\ r = Idle => x.gross = <<x.base, x.lines>>
                      /\ r # Idle => Midway(r, x)
    OBVIOUS
  <2>1. torn' = torn /\ q.s \notin torn
    OBVIOUS
  <2>2. Midway(q, x)
    BY <2>1, AtWork
  <2> QED
    BY <2>1, <2>2
<1> QED
  BY <1>1, <1>2, SalaryCallFits

LEMMA PatchFits ==
    ASSUME SalaryInv, NEW c \in Clients, PatchStructure(c)
    PROVE  SalaryInv'
<1>1. request[c].pc = "patch" /\ request[c].pc \in SalaryCalls
  BY DEF PatchStructure, At, SalaryCalls
<1>2. PICK q \in Requests, x \in StructureRows : q = request[c] /\ x = row[q.s]
  BY <1>1, AtWork
<1>3. PICK from \in Instants, to \in Instants, base \in Bases :
         /\ from = IF "from" \in q.fields THEN q.from ELSE x.from
         /\ to = IF "to" \in q.fields THEN q.to ELSE x.to
         /\ base = IF "base" \in q.fields THEN q.sum[1] ELSE x.base
  BY DEF Requests, StructureRows, Grosses
<1>4. PICK pc \in {"clear", "sum"} : pc = IF "lines" \in q.fields THEN "clear" ELSE "sum"
  OBVIOUS
<1>5. /\ Writes(c, q.s, [x EXCEPT !.from = from, !.to = to, !.base = base],
                [q EXCEPT !.pc = pc, !.from = 0, !.to = Never, !.sum = NoGross, !.fields = {}])
      /\ clean' = (clean /\ {"from", "to"} \cap q.fields = {}) /\ torn' = torn
  BY <1>2, <1>3, <1>4 DEF PatchStructure
<1>6. ASSUME NEW w, w = [x EXCEPT !.from = from, !.to = to, !.base = base], NEW r,
             r = [q EXCEPT !.pc = pc, !.from = 0, !.to = Never, !.sum = NoGross, !.fields = {}],
             Writes(c, q.s, w, r)
      PROVE  SalaryInv'
  <2>1. /\ w \in StructureRows /\ w.state = x.state /\ w.from = from /\ w.to = to
    BY <1>6 DEF StructureRows
  <2>2. /\ r \in Requests /\ r.pc = pc /\ r.op = q.op /\ r.s = q.s
    BY <1>6, InstantsFit, GrossFits DEF Requests, AllCalls, SalaryCalls
  <2>3. x.state = "live" /\ r.pc \in SalaryCalls
    BY <1>2, <1>6, <2>2 DEF Writes, SalaryCalls
  <2>4. clean' \in BOOLEAN /\ (clean' => clean /\ w.from = x.from /\ w.to = x.to)
    <3>1. clean \in BOOLEAN
      BY DEF SalaryInv, Shapes
    <3> QED
      BY <1>3, <1>5, <2>1, <3>1
  <2>5. r # Idle /\ Midway(r, w)
    BY <2>2, <2>3, IdleFits DEF Midway, SalaryCalls
  <2>6. Writes(c, q.s, w, r)
    BY <1>6
  <2> QED
    BY <1>1, <1>2, <1>5, <2>6, <2>1, <2>2, <2>3, <2>4, <2>5, WritesFit
<1> QED
  BY <1>5, <1>6

LEMMA ClearFits ==
    ASSUME SalaryInv, NEW c \in Clients, ClearLines(c) \/ ReplaceAllowance(c)
    PROVE  SalaryInv'
<1>1. request[c].pc \in {"clear", "replace"} /\ request[c].pc \in SalaryCalls
  BY DEF ClearLines, ReplaceAllowance, At, SalaryCalls
<1>2. PICK q \in Requests, x \in StructureRows : q = request[c] /\ x = row[q.s]
  BY <1>1, AtWork
<1>3. PICK lines \in SUBSET Types :
         /\ lines \cap q.lines = {}
         /\ Writes(c, q.s, [x EXCEPT !.lines = lines], [q EXCEPT !.pc = "lines"])
  <2>1. CASE ClearLines(c)
    BY <1>2, <2>1 DEF ClearLines
  <2>2. CASE ReplaceAllowance(c)
    <3>1. x.lines \ q.lines \in SUBSET Types
      BY DEF StructureRows
    <3> QED
      BY <1>2, <2>2, <3>1 DEF ReplaceAllowance
  <2> QED
    BY <2>1, <2>2
<1>4. torn' = torn /\ clean' = clean /\ clean \in BOOLEAN
  BY DEF ClearLines, ReplaceAllowance, SalaryInv, Shapes
<1>5. ASSUME NEW w, w = [x EXCEPT !.lines = lines], NEW r, r = [q EXCEPT !.pc = "lines"],
             Writes(c, q.s, w, r)
      PROVE  SalaryInv'
  <2>1. w \in StructureRows /\ w.state = x.state /\ w.from = x.from /\ w.to = x.to /\ w.lines = lines
    BY <1>5 DEF StructureRows
  <2>2. r \in Requests /\ r.pc = "lines" /\ r.op = q.op /\ r.s = q.s /\ r.lines = q.lines
    BY <1>5 DEF Requests, AllCalls, SalaryCalls
  <2>3. x.state = "live" /\ r.pc \in SalaryCalls
    BY <1>2, <1>5, <2>2 DEF Writes, SalaryCalls
  <2>4. r # Idle /\ Midway(r, w)
    BY <1>3, <2>1, <2>2, <2>3, IdleFits DEF Midway
  <2>5. Writes(c, q.s, w, r)
    BY <1>5
  <2> QED
    BY <1>1, <1>2, <1>4, <2>5, <2>1, <2>2, <2>3, <2>4, WritesFit
<1> QED
  BY <1>3, <1>5

LEMMA CreateLineFits ==
    ASSUME SalaryInv, NEW c \in Clients, CreateLine(c)
    PROVE  SalaryInv'
<1>1. request[c].pc = "lines" /\ request[c].pc \in SalaryCalls
  BY DEF CreateLine, At, SalaryCalls
<1>2. PICK q \in Requests, x \in StructureRows : q = request[c] /\ x = row[q.s]
  BY <1>1, AtWork
<1>3. PICK t \in q.lines \ x.lines :
         Writes(c, q.s, [x EXCEPT !.lines = @ \cup {t}], [q EXCEPT !.lines = @ \ {t}])
  BY <1>2 DEF CreateLine
<1>4. torn' = torn /\ clean' = clean /\ clean \in BOOLEAN
  BY DEF CreateLine, SalaryInv, Shapes
<1>5. ASSUME NEW w, w = [x EXCEPT !.lines = @ \cup {t}], NEW r, r = [q EXCEPT !.lines = @ \ {t}],
             Writes(c, q.s, w, r)
      PROVE  SalaryInv'
  <2>1. /\ w \in StructureRows /\ w.state = x.state /\ w.from = x.from /\ w.to = x.to
        /\ w.lines = x.lines \cup {t}
    BY <1>5 DEF StructureRows, Requests
  <2>2. r \in Requests /\ r.pc = q.pc /\ r.op = q.op /\ r.s = q.s /\ r.lines = q.lines \ {t}
    BY <1>5 DEF Requests
  <2>3. x.state = "live" /\ r.pc \in SalaryCalls /\ r # Idle
    BY <1>1, <1>2, <1>5, <2>2, IdleFits DEF Writes
  <2>4. Midway(q, x) => Midway(r, w)
    BY <1>1, <1>2, <1>3, <2>1, <2>2 DEF Midway
  <2>5. /\ Midway(q, x) /\ r = Idle => w.gross = <<w.base, w.lines>>
        /\ Midway(q, x) /\ r # Idle => Midway(r, w)
    BY <2>3, <2>4
  <2>6. /\ q.pc \in SalaryCalls /\ torn' = torn /\ clean' \in BOOLEAN
        /\ clean' => clean /\ w.from = x.from /\ w.to = x.to
    BY <1>1, <1>2, <1>4, <2>1
  <2>7. Writes(c, q.s, w, r)
    BY <1>5
  <2> QED
    BY <1>2, <2>7, <2>1, <2>3, <2>5, <2>6, <2>2, WritesFit
<1> QED
  BY <1>3, <1>5

LEMMA ReadLinesFits ==
    ASSUME SalaryInv, NEW c \in Clients, ReadLines(c)
    PROVE  SalaryInv'
<1>1. request[c].pc \in SalaryCalls
  BY DEF ReadLines, At, SalaryCalls
<1>2. PICK q \in Requests, x \in StructureRows : q = request[c] /\ x = row[q.s]
  BY <1>1, AtWork
<1>3. SumOf(q.s) \in Grosses /\ SumOf(q.s) = <<x.base, x.lines>>
  BY <1>1, <1>2, AtWork, SumFits DEF SalaryInv
<1>4. /\ Goes(c, [q EXCEPT !.sum = SumOf(q.s), !.pc = "gross"])
      /\ UNCHANGED <<row, torn, clean>>
  BY <1>2 DEF ReadLines
<1>5. ASSUME NEW r, r = [q EXCEPT !.sum = SumOf(q.s), !.pc = "gross"], Goes(c, r)
      PROVE  SalaryInv'
  <2>1. r \in Requests /\ r.pc = "gross" /\ r.op = q.op /\ r.s = q.s /\ r.sum = SumOf(q.s)
    BY <1>3, <1>5 DEF Requests, AllCalls, SalaryCalls
  <2>2. Midway(r, x) /\ r.pc \in SalaryCalls /\ r # Idle
    BY <1>3, <2>1, IdleFits DEF Midway, SalaryCalls
  <2> QED
    BY <1>1, <1>2, <1>4, <1>5, <2>1, <2>2, LeavesFit
<1> QED
  BY <1>4, <1>5

LEMMA WriteGrossFits ==
    ASSUME SalaryInv, NEW c \in Clients, WriteGross(c)
    PROVE  SalaryInv'
<1>1. request[c].pc = "gross" /\ request[c].pc \in SalaryCalls
  BY DEF WriteGross, At, SalaryCalls
<1>2. PICK q \in Requests, x \in StructureRows : q = request[c] /\ x = row[q.s]
  BY <1>1, AtWork
<1>3. Writes(c, q.s, [x EXCEPT !.gross = q.sum], Idle) /\ torn' = torn /\ clean' = clean
      /\ clean \in BOOLEAN
  BY <1>2 DEF WriteGross, SalaryInv, Shapes
<1>4. ASSUME NEW w, w = [x EXCEPT !.gross = q.sum], NEW r, r = Idle, Writes(c, q.s, w, r)
      PROVE  SalaryInv'
  <2>1. /\ w \in StructureRows /\ w.state = x.state /\ w.from = x.from /\ w.to = x.to
        /\ w.gross = q.sum /\ w.base = x.base /\ w.lines = x.lines
    BY <1>4 DEF StructureRows, Requests
  <2>2. x.state = "live"
    BY <1>2, <1>4 DEF Writes
  <2>3. /\ Midway(q, x) /\ r = Idle => w.gross = <<w.base, w.lines>>
        /\ Midway(q, x) /\ r # Idle => Midway(r, w)
    BY <1>1, <1>2, <1>4, <2>1 DEF Midway
  <2>4. r \in Requests
    BY <1>4, IdleFits
  <2>6. /\ q.pc \in SalaryCalls /\ torn' = torn /\ clean' \in BOOLEAN
        /\ clean' => clean /\ w.from = x.from /\ w.to = x.to
    BY <1>1, <1>2, <1>3, <2>1
  <2>7. Writes(c, q.s, w, r)
    BY <1>4
  <2>8. r = Idle \/ (r.op = q.op /\ r.s = q.s /\ r.pc \in SalaryCalls)
    <3>1. r = Idle
      BY <1>4
    <3> QED
      BY <3>1
  <2> QED
    BY <1>2, <2>7, <2>8, <2>1, <2>3, <2>4, <2>6, <2>2, WritesFit
<1> QED
  BY <1>3, <1>4

LEMMA WriteBaseFits ==
    ASSUME SalaryInv, NEW c \in Clients, WriteBaseSalary(c)
    PROVE  SalaryInv'
<1>1. request[c].pc = "base" /\ request[c].pc \in SalaryCalls
  BY DEF WriteBaseSalary, At, SalaryCalls
<1>2. PICK q \in Requests, x \in StructureRows : q = request[c] /\ x = row[q.s]
  BY <1>1, AtWork
<1>3. /\ Writes(c, q.s, [x EXCEPT !.base = q.sum[1], !.gross = q.sum], Idle)
      /\ torn' = torn /\ clean' = clean /\ clean \in BOOLEAN
  BY <1>2 DEF WriteBaseSalary, SalaryInv, Shapes
<1>4. PICK base \in Bases, lines \in SUBSET Types : q.sum = <<base, lines>>
  BY DEF Requests, Grosses
<1>5. ASSUME NEW w, w = [x EXCEPT !.base = q.sum[1], !.gross = q.sum], NEW r, r = Idle,
             Writes(c, q.s, w, r)
      PROVE  SalaryInv'
  <2>1. /\ w \in StructureRows /\ w.state = x.state /\ w.from = x.from /\ w.to = x.to
        /\ w.gross = q.sum /\ w.base = base /\ w.lines = x.lines
    <3>1. q.sum[1] = base /\ q.sum \in Grosses
      BY <1>4 DEF Requests
    <3>2. PICK sum \in Grosses : sum = q.sum
      BY <3>1
    <3>3. w = [x EXCEPT !.base = base, !.gross = sum]
      BY <1>5, <3>1, <3>2
    <3> QED
      BY <3>2, <3>3 DEF StructureRows
  <2>2. x.state = "live"
    BY <1>2, <1>5 DEF Writes
  <2>3. /\ Midway(q, x) /\ r = Idle => w.gross = <<w.base, w.lines>>
        /\ Midway(q, x) /\ r # Idle => Midway(r, w)
    BY <1>1, <1>2, <1>4, <1>5, <2>1 DEF Midway
  <2>4. r \in Requests
    BY <1>5, IdleFits
  <2>6. /\ q.pc \in SalaryCalls /\ torn' = torn /\ clean' \in BOOLEAN
        /\ clean' => clean /\ w.from = x.from /\ w.to = x.to
    BY <1>1, <1>2, <1>3, <2>1
  <2>7. Writes(c, q.s, w, r)
    BY <1>5
  <2>8. r = Idle \/ (r.op = q.op /\ r.s = q.s /\ r.pc \in SalaryCalls)
    <3>1. r = Idle
      BY <1>5
    <3> QED
      BY <3>1
  <2> QED
    BY <1>2, <2>7, <2>8, <2>1, <2>3, <2>4, <2>6, <2>2, WritesFit
<1> QED
  BY <1>3, <1>5

LEMMA AllowancesFit ==
    ASSUME SalaryInv, NEW c \in Clients, CreateAllowance(c) \/ DeleteAllowance(c)
    PROVE  SalaryInv'
<1>1. request[c].pc \in {"add", "remove"} /\ request[c].pc \in SalaryCalls
  BY DEF CreateAllowance, DeleteAllowance, At, SalaryCalls
<1>2. PICK q \in Requests, x \in StructureRows : q = request[c] /\ x = row[q.s]
  BY <1>1, AtWork
<1>3. PICK base \in Bases, read \in SUBSET Types : q.sum = <<base, read>>
  BY DEF Requests, Grosses
<1>4. torn' = torn /\ clean' = clean /\ clean \in BOOLEAN
  BY DEF CreateAllowance, DeleteAllowance, SalaryInv, Shapes
<1>5. ASSUME NEW lines \in SUBSET Types, NEW sum \in Grosses,
             Midway(q, x) => sum = <<x.base, lines>>,
             NEW w, w = [x EXCEPT !.lines = lines],
             NEW r, r = [q EXCEPT !.sum = sum, !.pc = "gross"], Writes(c, q.s, w, r)
      PROVE  SalaryInv'
  <2>1. /\ w \in StructureRows /\ w.state = x.state /\ w.from = x.from /\ w.to = x.to
        /\ w.base = x.base /\ w.lines = lines
    BY <1>5 DEF StructureRows
  <2>2. r \in Requests /\ r.pc = "gross" /\ r.op = q.op /\ r.s = q.s /\ r.sum = sum
    BY <1>5 DEF Requests, AllCalls, SalaryCalls
  <2>3. x.state = "live" /\ r.pc \in SalaryCalls /\ r # Idle
    BY <1>2, <1>5, <2>2, IdleFits DEF Writes, SalaryCalls
  <2>4. Midway(q, x) => Midway(r, w)
    BY <1>5, <2>1, <2>2 DEF Midway
  <2>5. /\ Midway(q, x) /\ r = Idle => w.gross = <<w.base, w.lines>>
        /\ Midway(q, x) /\ r # Idle => Midway(r, w)
    BY <2>3, <2>4
  <2>6. /\ q.pc \in SalaryCalls /\ torn' = torn /\ clean' \in BOOLEAN
        /\ clean' => clean /\ w.from = x.from /\ w.to = x.to
    BY <1>1, <1>2, <1>4, <2>1
  <2>7. Writes(c, q.s, w, r)
    BY <1>5
  <2> QED
    BY <1>2, <2>7, <2>1, <2>3, <2>5, <2>6, <2>2, WritesFit
<1>6. x.lines \in SUBSET Types /\ q.lines \in SUBSET Types
  BY DEF StructureRows, Requests
<1>7. Midway(q, x) => base = x.base /\ read = x.lines
  BY <1>1, <1>2, <1>3 DEF Midway
<1>8. CASE CreateAllowance(c)
  <2>1. SumWith(q) = <<base, read \cup q.lines>> /\ <<base, read \cup q.lines>> \in Grosses
    BY <1>3, <1>6 DEF SumWith, Grosses
  <2>2. Writes(c, q.s, [x EXCEPT !.lines = x.lines \cup q.lines],
               [q EXCEPT !.sum = <<base, read \cup q.lines>>, !.pc = "gross"])
    BY <1>2, <1>8, <2>1 DEF CreateAllowance
  <2> QED
    BY <1>5, <1>6, <1>7, <2>1, <2>2
<1>9. CASE DeleteAllowance(c)
  <2>1. <<q.sum[1], q.sum[2] \ q.lines>> = <<base, read \ q.lines>>
        /\ <<base, read \ q.lines>> \in Grosses
    BY <1>3, <1>6 DEF Grosses
  <2>2. Writes(c, q.s, [x EXCEPT !.lines = x.lines \ q.lines],
               [q EXCEPT !.sum = <<base, read \ q.lines>>, !.pc = "gross"])
    BY <1>2, <1>9, <2>1 DEF DeleteAllowance
  <2> QED
    BY <1>5, <1>6, <1>7, <2>1, <2>2
<1> QED
  BY <1>8, <1>9

LEMMA RefuseLineFits ==
    ASSUME SalaryInv, NEW c \in Clients, RefuseLine(c)
    PROVE  SalaryInv'
<1>1. request[c].pc = "lines" /\ request[c].pc \in SalaryCalls
  BY DEF RefuseLine, At, SalaryCalls
<1>2. PICK q \in Requests, x \in StructureRows : q = request[c] /\ x = row[q.s]
  BY <1>1, AtWork
<1>3. Goes(c, Idle) /\ torn' = torn \cup {q.s} /\ UNCHANGED <<row, clean>>
  BY <1>2 DEF RefuseLine, Ends
<1>4. ASSUME NEW r, r = Idle, Goes(c, r)
      PROVE  SalaryInv'
  <2>1. q.op \in OnSalary /\ q.s \in Structures
    BY <1>1, <1>2, AtWork
  <2>2. q.s \in torn' /\ clean' \in BOOLEAN /\ r \in Requests
    BY <1>3, <1>4, IdleFits DEF SalaryInv, Shapes
  <2>3. /\ clean' => clean /\ row'[q.s].from = row[q.s].from /\ row'[q.s].to = row[q.s].to
        /\ row' = row /\ torn' = torn \cup {q.s}
    BY <1>3
  <2>4. Goes(c, r)
    BY <1>4
  <2>5. r = Idle \/ (r.op \in OnSalary /\ r.s = q.s /\ r.pc \in SalaryCalls)
    BY <1>4
  <2> QED
    BY <1>2, <2>1, <2>2, <2>3, <2>4, <2>5, SalaryCallFits
<1> QED
  BY <1>3, <1>4

-----------------------------------------------------------------------------
(* The calls on dates                                                      *)

LEMMA AtDates ==
    ASSUME SalaryInv, NEW c \in Clients, request[c].pc \in OpenCalls \cup DateCalls
    PROVE  /\ request[c] \in Requests /\ Fits(request[c]) /\ request[c].op \notin OnSalary
           /\ request[c].pc \in OpenCalls => request[c].op \in Opening
           /\ request[c].pc \notin {"check", "insert"} =>
                 request[c].s \in Structures /\ row[request[c].s] \in StructureRows
<1>1. request[c] \in Requests /\ Fits(request[c])
  BY DEF SalaryInv, Shapes, RequestsFit
<1>2. /\ request[c].op \notin OnSalary
      /\ request[c].pc \in OpenCalls => request[c].op \in Opening
  BY <1>1 DEF Fits, SalaryCalls, OpenCalls, DateCalls, OnSalary, Opening
<1>3. request[c].pc \notin {"check", "insert"} => request[c].s \in Structures
  BY <1>1 DEF Fits, OpenCalls, DateCalls, Requests, Structures
<1> QED
  BY <1>1, <1>2, <1>3 DEF SalaryInv, Shapes

\* It leaves every salary as it is.
LEMMA DateCallFits ==
    ASSUME SalaryInv, NEW c \in Clients, request[c].op \notin OnSalary,
           NEW r \in Requests, Goes(c, r), r.op \notin OnSalary,
           r.op \in Opening => request[c].op \in Opening, Fits(r)',
           row' \in [Structures -> StructureRows],
           \A s \in Structures : row[s].state # "none" => row'[s].state # "none",
           \A s \in Structures : row'[s].state = "live" =>
              /\ row[s].state = "live" /\ row'[s].base = row[s].base
              /\ row'[s].lines = row[s].lines /\ row'[s].gross = row[s].gross,
           torn' = torn, clean' \in BOOLEAN, clean' => clean,
           OpeningFits' /\ OneInForceIfKept'
    PROVE  SalaryInv'
<1>1. /\ request'[c] = r /\ \A d \in Clients \ {c} : request'[d] = request[d]
      /\ torn' \subseteq Structures
  BY DEF Goes, SalaryInv, Shapes
<1>2. \A d \in Clients : \/ request'[d] = request[d]
                         \/ request[d].op \notin OnSalary /\ request'[d].op \notin OnSalary
  BY <1>1
<1>3. OneHolds' /\ HeldRowsFit' /\ GrossMatchesLines'
  BY <1>2, GrossStays
<1> QED
  BY <1>1, <1>3, CallFits

\* Nor does it move a start, or an end to a later one, unless that is noted.
LEMMA EndingFits ==
    ASSUME SalaryInv, NEW c \in Clients, request[c].op \notin OnSalary,
           NEW r \in Requests, Goes(c, r), r.op \notin OnSalary,
           r.op \in Opening => request[c].op \in Opening, Fits(r)', clean' => Opens(r)',
           row' \in [Structures -> StructureRows],
           \A s \in Structures : row[s].state # "none" => row'[s].state # "none",
           \A s \in Structures : row'[s].state = "live" =>
              /\ row[s].state = "live" /\ row'[s].base = row[s].base
              /\ row'[s].lines = row[s].lines /\ row'[s].gross = row[s].gross
              /\ row'[s].from = row[s].from
              /\ clean' => row'[s].to <= row[s].to,
           torn' = torn, clean' \in BOOLEAN, clean' => clean
    PROVE  SalaryInv'
<1>1. /\ request' \in [Clients -> Requests] /\ request'[c] = r
      /\ \A d \in Clients \ {c} : request'[d] = request[d]
  BY DEF Goes, SalaryInv, Shapes
<1>2. clean' => Opens(request[c])'
  BY <1>1 DEF Opens
<1>3. clean' => \A d \in Clients : request'[d] = request[d] \/ Opens(request[d])'
  BY <1>1, <1>2
<1>4. OpeningFits' /\ OneInForceIfKept'
  BY <1>1, <1>3, DatesStay
<1> QED
  BY <1>4, DateCallFits

\* A call that writes the end of one structure.
LEMMA EndsFit ==
    ASSUME SalaryInv, NEW c \in Clients, NEW s \in Structures, NEW x \in StructureRows, x = row[s],
           NEW end \in Instants, NEW r \in Requests, Writes(c, s, [x EXCEPT !.to = end], r),
           request[c].op \notin OnSalary, r.op \notin OnSalary,
           r.op \in Opening => request[c].op \in Opening,
           (r.op = "open" /\ r.pc = "check" /\ r.s = 0) \/ r = Idle,
           torn' = torn, clean' = (clean /\ end <= x.to)
    PROVE  SalaryInv'
<1>1. PICK w \in StructureRows : /\ w = [x EXCEPT !.to = end]
                                 /\ w.state = x.state /\ w.from = x.from /\ w.to = end
                                 /\ w.base = x.base /\ w.lines = x.lines /\ w.gross = x.gross
  BY DEF StructureRows
<1>2. row' = [row EXCEPT ![s] = w] /\ Goes(c, r) /\ x.state = "live"
  BY <1>1 DEF Writes
<1>3. row' \in [Structures -> StructureRows] /\ row'[s] = w /\ \A y \in Structures \ {s} : row'[y] = row[y]
  BY <1>2 DEF SalaryInv, Shapes
<1>4. clean' \in BOOLEAN /\ (clean' => clean) /\ (clean' => end <= x.to)
  BY DEF SalaryInv, Shapes
<1>5. \A y \in Structures : row[y].to <= row[y].to
  <2>1. \A y \in Structures : row[y].to \in Int
    BY InstantsFit DEF SalaryInv, Shapes, StructureRows
  <2> QED
    BY <2>1
<1>6. \A y \in Structures : row'[y].state = "live" =>
         /\ row[y].state = "live" /\ row'[y].base = row[y].base
         /\ row'[y].lines = row[y].lines /\ row'[y].gross = row[y].gross
         /\ row'[y].from = row[y].from
         /\ clean' => row'[y].to <= row[y].to
  BY <1>1, <1>2, <1>3, <1>4, <1>5
<1>7. \A y \in Structures : row[y].state # "none" => row'[y].state # "none"
  BY <1>1, <1>2, <1>3
<1>8. Fits(r)' /\ Opens(r)'
  BY IdleFits DEF Fits, Opens, OpenCalls
<1> QED
  BY <1>2, <1>3, <1>4, <1>6, <1>7, <1>8, EndingFits

LEMMA EndActiveFits ==
    ASSUME SalaryInv, NEW c \in Clients, EndActive(c)
    PROVE  SalaryInv'
<1>1. request[c].pc = "end"
  BY DEF EndActive, At
<1>2. PICK q \in Requests : /\ q = request[c] /\ Fits(q) /\ q.op \in Opening /\ q.op \notin OnSalary
                            /\ q.s \in Structures /\ row[q.s] \in StructureRows
  BY <1>1, AtDates DEF OpenCalls
<1>3. PICK x \in StructureRows : x = row[q.s]
  BY <1>2
<1>4. PICK end \in Instants : end = EveningBefore(q.from)
  <2>1. q.from >= 0 /\ q.from \in Instants
    BY <1>1, <1>2 DEF Fits, Requests
  <2> QED
    BY <2>1, InstantsFit
<1>5. /\ Writes(c, q.s, [x EXCEPT !.to = end], [q EXCEPT !.s = 0, !.pc = "check"])
      /\ clean' = (clean /\ end <= x.to) /\ torn' = torn
  BY <1>2, <1>3, <1>4 DEF EndActive
<1>6. ASSUME NEW r, r = [q EXCEPT !.s = 0, !.pc = "check"], Writes(c, q.s, [x EXCEPT !.to = end], r)
      PROVE  SalaryInv'
  <2>1. 0 \in 0..NumStructures
    BY SalaryAssumption
  <2>2. q.op = "open"
    BY <1>1, <1>2 DEF Fits, OpenCalls, SalaryCalls, DateCalls
  <2>3. r \in Requests /\ r.op = "open" /\ r.pc = "check" /\ r.s = 0
    BY <1>6, <2>1, <2>2 DEF Requests, AllCalls, OpenCalls
  <2>4. Writes(c, q.s, [x EXCEPT !.to = end], r)
    BY <1>6
  <2> QED
    BY <1>2, <1>3, <1>5, <2>3, <2>4, EndsFit DEF OnSalary, Opening
<1> QED
  BY <1>5, <1>6

LEMMA CloseFits ==
    ASSUME SalaryInv, NEW c \in Clients, CloseStructure(c)
    PROVE  SalaryInv'
<1>1. request[c].pc = "close"
  BY DEF CloseStructure, At
<1>2. PICK s \in Structures : s = request[c].s /\ request[c].op \notin OnSalary /\ row[s] \in StructureRows
  BY <1>1, AtDates DEF DateCalls
<1>3. PICK x \in StructureRows : x = row[s]
  BY <1>2
<1>4. PICK end \in Instants : end = EveningBefore(Now)
  BY NowFits, InstantsFit DEF SalaryInv, Shapes
<1>5. /\ Writes(c, s, [x EXCEPT !.to = end], Idle)
      /\ clean' = (clean /\ end <= x.to) /\ torn' = torn
  BY <1>2, <1>3, <1>4 DEF CloseStructure
<1>6. Idle \in Requests /\ Idle.op \notin OnSalary /\ Idle.op \notin Opening
  BY IdleFits DEF OnSalary, Opening
<1> QED
  BY <1>2, <1>3, <1>5, <1>6, EndsFit

LEMMA DeleteFits ==
    ASSUME SalaryInv, NEW c \in Clients, DeleteStructure(c)
    PROVE  SalaryInv'
<1>1. request[c].pc = "delete"
  BY DEF DeleteStructure, At
<1>2. PICK s \in Structures : s = request[c].s /\ request[c].op \notin OnSalary
  BY <1>1, AtDates DEF DateCalls
<1>3. Writes(c, s, [NoRow EXCEPT !.state = "gone"], Idle) /\ torn' = torn /\ clean' = clean
  BY <1>2 DEF DeleteStructure
<1>4. PICK w \in StructureRows : w = [NoRow EXCEPT !.state = "gone"] /\ w.state = "gone"
  <2>1. PICK n \in StructureRows : n = NoRow
    BY NoRowFits
  <2>2. /\ [n EXCEPT !.state = "gone"] \in StructureRows
        /\ [n EXCEPT !.state = "gone"].state = "gone"
    BY DEF StructureRows
  <2> QED
    BY <2>1, <2>2
<1>5. row' = [row EXCEPT ![s] = w] /\ Goes(c, Idle)
  BY <1>3, <1>4 DEF Writes
<1>6. row' \in [Structures -> StructureRows] /\ row'[s] = w /\ \A y \in Structures \ {s} : row'[y] = row[y]
  BY <1>5 DEF SalaryInv, Shapes
<1>7. \A y \in Structures : row[y].to <= row[y].to
  <2>1. \A y \in Structures : row[y].to \in Int
    BY InstantsFit DEF SalaryInv, Shapes, StructureRows
  <2> QED
    BY <2>1
<1>8. \A y \in Structures : row'[y].state = "live" =>
         /\ row[y].state = "live" /\ row'[y].base = row[y].base
         /\ row'[y].lines = row[y].lines /\ row'[y].gross = row[y].gross
         /\ row'[y].from = row[y].from
         /\ clean' => row'[y].to <= row[y].to
  BY <1>4, <1>6, <1>7
<1>9. \A y \in Structures : row[y].state # "none" => row'[y].state # "none"
  BY <1>4, <1>6
<1>10. Fits(Idle)' /\ Opens(Idle)' /\ Idle \in Requests /\ Idle.op \notin OnSalary /\ Idle.op \notin Opening
  BY IdleFits DEF Fits, Opens, OnSalary, Opening
<1>11. clean' \in BOOLEAN /\ (clean' => clean)
  BY <1>3 DEF SalaryInv, Shapes
<1> QED
  BY <1>2, <1>3, <1>5, <1>6, <1>8, <1>9, <1>10, <1>11, EndingFits

\* A handler that looks whether another structure is in the way.
LEMMA LooksFit ==
    ASSUME SalaryInv, NEW c \in Clients, request[c].op \notin OnSalary,
           NEW r \in Requests, Goes(c, r), r.op \notin OnSalary,
           r.op \in Opening => request[c].op \in Opening, Fits(r), clean => Opens(r),
           UNCHANGED <<row, torn, clean>>
    PROVE  SalaryInv'
<1>1. Fits(r)' /\ (clean' => Opens(r)')
  BY DEF Fits, Opens, Live, Overlaps
<1>2. \A y \in Structures : row[y].to <= row[y].to
  <2>1. \A y \in Structures : row[y].to \in Int
    BY InstantsFit DEF SalaryInv, Shapes, StructureRows
  <2> QED
    BY <2>1
<1>3. row' \in [Structures -> StructureRows] /\ clean' \in BOOLEAN
  BY DEF SalaryInv, Shapes
<1> QED
  BY <1>1, <1>2, <1>3, EndingFits

LEMMA ChecksFit ==
    ASSUME SalaryInv, NEW c \in Clients, CheckOverlap(c) \/ CheckReopen(c)
    PROVE  SalaryInv'
<1>1. request[c].pc \in {"check", "recheck"}
  BY DEF CheckOverlap, CheckReopen, At
<1>2. PICK q \in Requests : q = request[c] /\ Fits(q) /\ q.op \notin OnSalary /\ q.op = "open"
  BY <1>1, AtDates DEF OpenCalls, Fits, SalaryCalls, DateCalls
<1>3. UNCHANGED <<row, torn, clean>>
  BY DEF CheckOverlap, CheckReopen
<1>4. CASE Ends(c)
  <2>1. Idle \in Requests /\ Idle.op \notin OnSalary /\ Idle.op \notin Opening /\ Fits(Idle) /\ Opens(Idle)
    BY IdleFits DEF Fits, Opens, OnSalary, Opening
  <2> QED
    BY <1>2, <1>3, <1>4, <2>1, LooksFit DEF Ends
<1>5. ASSUME CheckOverlap(c), ~Ends(c)
      PROVE  SalaryInv'
  <2>1. /\ q.pc = "check" /\ \A s \in Live : ~Overlaps(s, q.from, q.to)
        /\ Goes(c, [q EXCEPT !.pc = "insert"])
    BY <1>2, <1>5 DEF CheckOverlap, At
  <2>2. ASSUME NEW r, r = [q EXCEPT !.pc = "insert"], Goes(c, r)
        PROVE  SalaryInv'
    <3>1. /\ r \in Requests /\ r.pc = "insert" /\ r.op = "open" /\ r.s = q.s
          /\ r.from = q.from /\ r.to = q.to
      BY <1>2, <2>2 DEF Requests, AllCalls, OpenCalls
    <3>2. Fits(r) /\ Opens(r)
      BY <1>2, <2>1, <3>1 DEF Fits, Opens, OpenCalls
    <3>3. r.op \notin OnSalary /\ request[c].op \in Opening /\ request[c].op \notin OnSalary
      BY <1>2, <3>1 DEF OnSalary, Opening
    <3>4. Goes(c, r)
      BY <2>2
    <3> QED
      BY <1>3, <3>1, <3>2, <3>3, <3>4, LooksFit
  <2> QED
    BY <2>1, <2>2
<1>6. ASSUME CheckReopen(c), ~Ends(c)
      PROVE  SalaryInv'
  <2>1. /\ q.pc = "recheck" /\ \A s \in Live \ {q.s} : ~Overlaps(s, q.from, Never)
        /\ Goes(c, [q EXCEPT !.pc = "reopen"])
    BY <1>2, <1>6 DEF CheckReopen, At
  <2>2. ASSUME NEW r, r = [q EXCEPT !.pc = "reopen"], Goes(c, r)
        PROVE  SalaryInv'
    <3>1. /\ r \in Requests /\ r.pc = "reopen" /\ r.op = "open" /\ r.s = q.s /\ r.from = q.from
      BY <1>2, <2>2 DEF Requests, AllCalls, OpenCalls
    <3>2. clean => (row[r.s].state = "live" => row[r.s].from = r.from)
      BY <1>2, <2>1, <3>1 DEF SalaryInv, OpeningFits, Opens
    <3>3. Fits(r)
      BY <1>2, <2>1, <3>1 DEF Fits, OpenCalls
    <3>4. clean => Opens(r)
      BY <2>1, <3>1, <3>2 DEF Opens
    <3>5. r.op \notin OnSalary /\ request[c].op \in Opening /\ request[c].op \notin OnSalary
      BY <1>2, <3>1 DEF OnSalary, Opening
    <3>6. Goes(c, r)
      BY <2>2
    <3> QED
      BY <1>3, <3>1, <3>3, <3>4, <3>5, <3>6, LooksFit
  <2> QED
    BY <2>1, <2>2
<1> QED
  BY <1>4, <1>5, <1>6

\* The handler is alone to open a structure: no other one relies on what it checked.
LEMMA OpensAlone ==
    ASSUME SalaryInv, clean, NEW c \in Clients, request[c].op \in Opening,
           NEW r \in Requests, Goes(c, r), r.pc \notin {"insert", "recheck", "reopen"}
    PROVE  \A d \in Clients : Opens(request[d])'
<1>1. request'[c] = r /\ \A d \in Clients \ {c} : request'[d] = request[d]
  BY DEF Goes, SalaryInv, Shapes
<1>2. ASSUME NEW d \in Clients \ {c}
      PROVE  request[d].pc \notin {"insert", "recheck", "reopen"}
  <2>1. request[d].op \notin Opening /\ Fits(request[d])
    BY DEF SalaryInv, OneOpens, RequestsFit
  <2> QED
    BY <2>1 DEF Fits, Opening, SalaryCalls, OpenCalls, DateCalls
<1>3. \A d \in Clients : request'[d].pc \notin {"insert", "recheck", "reopen"}
  BY <1>1, <1>2
<1> QED
  BY <1>3 DEF Opens

LEMMA ReopenFits ==
    ASSUME SalaryInv, NEW c \in Clients, ReopenStructure(c)
    PROVE  SalaryInv'
<1>1. request[c].pc = "reopen"
  BY DEF ReopenStructure, At
<1>2. PICK q \in Requests : /\ q = request[c] /\ q.op \in Opening /\ q.op \notin OnSalary
                            /\ q.s \in Structures /\ row[q.s] \in StructureRows
  BY <1>1, AtDates DEF OpenCalls
<1>3. PICK s \in Structures, x \in StructureRows : s = q.s /\ x = row[s]
  BY <1>2
<1>4. Writes(c, s, [x EXCEPT !.to = Never], Idle) /\ torn' = torn /\ clean' = clean
  BY <1>2, <1>3 DEF ReopenStructure
<1>5. PICK w \in StructureRows : /\ w = [x EXCEPT !.to = Never]
                                 /\ w.state = x.state /\ w.from = x.from /\ w.to = Never
                                 /\ w.base = x.base /\ w.lines = x.lines /\ w.gross = x.gross
  <2>1. PICK end \in Instants : end = Never
    BY InstantsFit
  <2>2. ASSUME NEW w, w = [x EXCEPT !.to = end]
        PROVE  /\ w \in StructureRows
               /\ w.state = x.state /\ w.from = x.from /\ w.to = end
               /\ w.base = x.base /\ w.lines = x.lines /\ w.gross = x.gross
    BY <2>2 DEF StructureRows
  <2> QED
    BY <2>1, <2>2
<1>6. row' = [row EXCEPT ![s] = w] /\ Goes(c, Idle) /\ x.state = "live"
  BY <1>3, <1>4, <1>5 DEF Writes
<1>7. row' \in [Structures -> StructureRows] /\ row'[s] = w /\ \A y \in Structures \ {s} : row'[y] = row[y]
  BY <1>6 DEF SalaryInv, Shapes
<1>8. \A y \in Structures : row'[y].state = "live" =>
         /\ row[y].state = "live" /\ row'[y].base = row[y].base
         /\ row'[y].lines = row[y].lines /\ row'[y].gross = row[y].gross
  BY <1>3, <1>5, <1>7
<1>9. \A y \in Structures : row[y].state # "none" => row'[y].state # "none"
  BY <1>3, <1>5, <1>7
<1>10. /\ Fits(Idle)' /\ Idle \in Requests /\ Idle.op \notin OnSalary /\ Idle.op \notin Opening
       /\ Idle.pc = "idle"
  BY IdleFits DEF Fits, OnSalary, Opening
<1>11. clean' \in BOOLEAN
  BY <1>4 DEF SalaryInv, Shapes
<1>12. OpeningFits'
  BY <1>2, <1>4, <1>6, <1>10, OpensAlone DEF OpeningFits
<1>13. OneInForceIfKept'
  <2> SUFFICES ASSUME clean
               PROVE  OneInForce'
    BY <1>4 DEF OneInForceIfKept
  <2>1. \A y \in Live \ {s} : ~Overlaps(y, x.from, Never)
    BY <1>1, <1>2, <1>3, <1>6 DEF SalaryInv, OpeningFits, Opens
  <2>2. \A y, z \in Live : y # z => \A t \in Instants : ~(Covers(y, t) /\ Covers(z, t))
    BY DEF SalaryInv, OneInForceIfKept, OneInForce
  <2>3. ASSUME NEW y \in Structures, y # s, row'[y].state = "live", NEW t \in Instants,
               Covers(y, t)', Covers(s, t)'
        PROVE  FALSE
    <3>1. y \in Live /\ row'[y] = row[y]
      BY <1>7, <2>3 DEF Live
    <3>2. /\ row[y].from \in Int /\ row[y].to \in Int /\ x.from \in Int /\ t \in Int /\ Never \in Int
      BY InstantsFit DEF SalaryInv, Shapes, StructureRows
    <3>3. row[y].from <= t /\ t <= row[y].to /\ x.from <= t /\ t <= Never
      BY <1>5, <1>7, <2>3, <3>1 DEF Covers
    <3>4. ~(row[y].from <= Never /\ row[y].to >= x.from)
      BY <2>1, <2>3, <3>1 DEF Overlaps
    <3> QED
      BY <3>2, <3>3, <3>4
  <2>4. ASSUME NEW y \in Structures, NEW z \in Structures, y # z, y # s, z # s,
               row'[y].state = "live", row'[z].state = "live", NEW t \in Instants,
               Covers(y, t)', Covers(z, t)'
        PROVE  FALSE
    <3>1. row'[y] = row[y] /\ row'[z] = row[z]
      BY <1>7, <2>4
    <3> QED
      BY <2>2, <2>4, <3>1 DEF Covers, Live
  <2> QED
    BY <2>3, <2>4 DEF OneInForce, Live
<1> QED
  BY <1>2, <1>4, <1>6, <1>7, <1>8, <1>9, <1>10, <1>11, <1>12, <1>13, DateCallFits

LEMMA InsertFits ==
    ASSUME SalaryInv, NEW c \in Clients, InsertStructure(c)
    PROVE  SalaryInv'
<1>1. request[c].pc = "insert"
  BY DEF InsertStructure, At
<1>2. PICK q \in Requests : /\ q = request[c] /\ Fits(q) /\ q.op \in Opening /\ q.op \notin OnSalary
  BY <1>1, AtDates DEF OpenCalls
<1>3. PICK s \in Structures :
         /\ row[s].state = "none"
         /\ row' = [row EXCEPT ![s] = [state |-> "live", from |-> q.from, to |-> q.to,
                       base |-> q.sum[1], lines |-> {}, gross |-> q.sum]]
         /\ Goes(c, IF q.op = "first" THEN Idle
                    ELSE [q EXCEPT !.op = "lines", !.s = s, !.pc = "lines"])
  BY <1>2 DEF InsertStructure
<1>4. torn' = torn /\ clean' = clean /\ clean \in BOOLEAN /\ torn \subseteq Structures
  BY DEF InsertStructure, SalaryInv, Shapes
<1>5. PICK base \in Bases, read \in SUBSET Types : q.sum = <<base, read>> /\ q.sum[1] = base
  BY DEF Requests, Grosses
<1>6. PICK w \in StructureRows : /\ row' = [row EXCEPT ![s] = w]
                                 /\ w.state = "live" /\ w.from = q.from /\ w.to = q.to
                                 /\ w.base = base /\ w.lines = {} /\ w.gross = q.sum
  <2>1. ASSUME NEW w, w = [state |-> "live", from |-> q.from, to |-> q.to,
                           base |-> base, lines |-> {}, gross |-> q.sum]
        PROVE  /\ w \in StructureRows
               /\ w.state = "live" /\ w.from = q.from /\ w.to = q.to
               /\ w.base = base /\ w.lines = {} /\ w.gross = q.sum
    BY <2>1 DEF StructureRows, Requests
  <2> QED
    BY <1>3, <1>5, <2>1
<1>7. row' \in [Structures -> StructureRows] /\ row'[s] = w /\ \A y \in Structures \ {s} : row'[y] = row[y]
  BY <1>6 DEF SalaryInv, Shapes
<1>8. PICK r \in Requests :
         /\ Goes(c, r)
         /\ \/ q.op = "first" /\ r = Idle
            \/ q.op = "open" /\ r.op = "lines" /\ r.pc = "lines" /\ r.s = s /\ r.lines = q.lines
  <2>1. CASE q.op = "first"
    BY <1>3, <2>1, IdleFits
  <2>2. CASE q.op # "first"
    <3>1. s \in 0..NumStructures
      BY DEF Structures
    <3>2. ASSUME NEW r, r = [q EXCEPT !.op = "lines", !.s = s, !.pc = "lines"], Goes(c, r)
          PROVE  r \in Requests /\ r.op = "lines" /\ r.pc = "lines" /\ r.s = s /\ r.lines = q.lines
      BY <3>1, <3>2 DEF Requests, AllCalls, SalaryCalls
    <3>3. q.op = "open"
      BY <1>2, <2>2 DEF Opening
    <3> QED
      BY <1>3, <2>2, <3>2, <3>3
  <2> QED
    BY <2>1, <2>2
<1>9. \A d \in Clients : ~Held(d, s)
  <2>1. s # 0
    BY DEF Structures
  <2> QED
    BY <1>3, <2>1 DEF Held, SalaryInv, RequestsFit, Fits
<1>10. OneHolds' /\ HeldRowsFit' /\ GrossMatchesLines'
  <2>1. request' = [request EXCEPT ![c] = r] /\ (request[c].op \in OnSalary => request[c].s = s)
    BY <1>2, <1>8 DEF Goes
  <2>2. r.op \in OnSalary => r.s = s
    BY <1>8, IdleFits DEF OnSalary
  <2>3. CASE r = Idle /\ q.op = "first"
    <3>1. w.gross = <<w.base, w.lines>> /\ r.op \notin OnSalary
      <4>1. q.sum = NoGross
        BY <1>1, <1>2, <2>3 DEF Fits, OnSalary
      <4>2. read = {}
        BY <1>5, <4>1, GrossFits
      <4> QED
        BY <1>5, <1>6, <2>3, <4>2, IdleFits DEF OnSalary
    <3> QED
      BY <1>4, <1>7, <1>9, <2>1, <2>2, <3>1, GrossOnOne
  <2>4. CASE r.op = "lines" /\ r.pc = "lines"
    <3>1. Midway(r, w) /\ r.op \in OnSalary
      BY <1>6, <2>4 DEF Midway, OnSalary
    <3> QED
      BY <1>4, <1>7, <1>9, <2>1, <2>2, <3>1, GrossOnOne
  <2> QED
    BY <1>8, <2>3, <2>4
<1>11. OpeningFits'
  <2>1. r.pc \notin {"insert", "recheck", "reopen"}
    BY <1>8, IdleFits
  <2> QED
    BY <1>2, <1>4, <1>8, <2>1, OpensAlone DEF OpeningFits
<1>12. OneInForceIfKept'
  <2> SUFFICES ASSUME clean
               PROVE  OneInForce'
    BY <1>4 DEF OneInForceIfKept
  <2>1. \A y \in Live : ~Overlaps(y, q.from, q.to)
    BY <1>1, <1>2 DEF SalaryInv, OpeningFits, Opens
  <2>2. \A y, z \in Live : y # z => \A t \in Instants : ~(Covers(y, t) /\ Covers(z, t))
    BY DEF SalaryInv, OneInForceIfKept, OneInForce
  <2>3. ASSUME NEW y \in Structures, y # s, row'[y].state = "live", NEW t \in Instants,
               Covers(y, t)', Covers(s, t)'
        PROVE  FALSE
    <3>1. y \in Live /\ row'[y] = row[y]
      BY <1>7, <2>3 DEF Live
    <3>2. row[y].from \in Int /\ row[y].to \in Int /\ q.from \in Int /\ q.to \in Int /\ t \in Int
      BY InstantsFit DEF SalaryInv, Shapes, StructureRows, Requests
    <3>3. row[y].from <= t /\ t <= row[y].to /\ q.from <= t /\ t <= q.to
      BY <1>6, <1>7, <2>3, <3>1 DEF Covers
    <3>4. ~(row[y].from <= q.to /\ row[y].to >= q.from)
      BY <2>1, <3>1 DEF Overlaps
    <3> QED
      BY <3>2, <3>3, <3>4
  <2>4. ASSUME NEW y \in Structures, NEW z \in Structures, y # z, y # s, z # s,
               row'[y].state = "live", row'[z].state = "live", NEW t \in Instants,
               Covers(y, t)', Covers(z, t)'
        PROVE  FALSE
    <3>1. row'[y] = row[y] /\ row'[z] = row[z]
      BY <1>7, <2>4
    <3> QED
      BY <2>2, <2>4, <3>1 DEF Covers, Live
  <2> QED
    BY <2>3, <2>4 DEF OneInForce, Live
<1>13. Fits(r)'
  <2>1. CASE r = Idle
    BY <2>1, IdleFits DEF Fits
  <2>2. CASE r.op = "lines" /\ r.pc = "lines" /\ r.s = s
    <3>1. s # 0 /\ row'[s].state = "live"
      BY <1>6, <1>7 DEF Structures
    <3> QED
      BY <2>2, <3>1 DEF Fits, OnSalary, SalaryCalls
  <2> QED
    BY <1>8, <2>1, <2>2
<1>14. \A y \in Structures : row[y].state # "none" => row'[y].state # "none"
  BY <1>3, <1>7
<1> QED
  BY <1>2, <1>4, <1>7, <1>8, <1>10, <1>11, <1>12, <1>13, <1>14, CallFits

-----------------------------------------------------------------------------
(* Errors, and steps of no handler                                         *)

\* A handler stopped at a call on dates has nothing to lose.
LEMMA StopsFit ==
    ASSUME SalaryInv, NEW c \in Clients, request[c].pc \in OpenCalls \cup DateCalls, Ends(c),
           UNCHANGED <<row, torn, clean>>
    PROVE  SalaryInv'
<1>1. /\ Idle \in Requests /\ Idle.op \notin OnSalary /\ Idle.op \notin Opening
      /\ Fits(Idle) /\ Opens(Idle)
  BY IdleFits DEF Fits, Opens, OnSalary, Opening
<1>2. request[c].op \notin OnSalary
  BY AtDates
<1> QED
  BY <1>1, <1>2, LooksFit DEF Ends

\* Nor one whose structure is gone, or before the first write of its salary.
LEMMA GivesUpFits ==
    ASSUME SalaryInv, NEW c \in Clients, NEW q \in Requests, q = request[c], q.pc \in SalaryCalls,
           NEW x \in StructureRows, x = row[q.s], Ends(c), UNCHANGED <<row, torn, clean>>,
           x.state = "live" /\ Midway(q, x) => x.gross = <<x.base, x.lines>>
    PROVE  SalaryInv'
<1>1. ASSUME NEW r, r = Idle, Goes(c, r)
      PROVE  SalaryInv'
  <2>1. r \in Requests
    BY <1>1, IdleFits
  <2>2. r = Idle \/ (r.op = q.op /\ r.s = q.s /\ r.pc \in SalaryCalls)
    BY <1>1
  <2>3. torn' = torn /\ x.state = "live" /\ Midway(q, x) =>
           /\ r = Idle => x.gross = <<x.base, x.lines>>
           /\ r # Idle => Midway(r, x)
    BY <1>1
  <2>4. Goes(c, r) /\ (torn' = torn \/ torn' = torn \cup {q.s})
    BY <1>1
  <2> QED
    BY <2>1, <2>2, <2>3, <2>4, LeavesFit
<1> QED
  BY <1>1 DEF Ends

LEMMA RefusedFits ==
    ASSUME SalaryInv, NEW c \in Clients, Refused(c)
    PROVE  SalaryInv'
<1>1. request[c].pc \in OpenCalls \cup DateCalls \cup SalaryCalls
  BY DEF Refused, At, SalaryInv, Shapes, Requests, AllCalls
<1>2. Ends(c) /\ UNCHANGED <<row, torn, clean>>
  BY DEF Refused
<1>3. CASE request[c].pc \in OpenCalls \cup DateCalls
  BY <1>2, <1>3, StopsFit
<1>4. CASE request[c].pc \in SalaryCalls
  <2>1. PICK q \in Requests, x \in StructureRows : q = request[c] /\ x = row[q.s]
    BY <1>4, AtWork
  <2>2. \/ x.state = "gone"
        \/ q.pc \in {"add", "remove"}
        \/ q.pc = "lines" /\ q.lines # {} /\ q.lines \subseteq x.lines
    BY <2>1 DEF Refused, At
  <2>3. x.state = "live" /\ Midway(q, x) => x.gross = <<x.base, x.lines>>
    BY <2>2 DEF Midway
  <2> QED
    BY <1>2, <1>4, <2>1, <2>3, GivesUpFits
<1> QED
  BY <1>1, <1>3, <1>4

LEMMA FaultFits ==
    ASSUME SalaryInv, NEW c \in Clients, Fault(c)
    PROVE  SalaryInv'
<1>1. request[c].pc \in OpenCalls \cup DateCalls \cup SalaryCalls
  BY DEF Fault, At, SalaryInv, Shapes, Requests, AllCalls
<1>2. /\ Ends(c) /\ UNCHANGED <<row, clean>>
      /\ torn' = (IF request[c].pc \in {"clear", "lines", "sum", "gross"}
                  THEN torn \cup {request[c].s} ELSE torn)
  BY DEF Fault
<1>3. CASE request[c].pc \in OpenCalls \cup DateCalls
  BY <1>2, <1>3, StopsFit DEF OpenCalls, DateCalls
<1>4. CASE request[c].pc \in SalaryCalls
  <2>1. PICK q \in Requests, x \in StructureRows : q = request[c] /\ x = row[q.s]
    BY <1>4, AtWork
  <2>2. CASE q.pc \in {"clear", "lines", "sum", "gross"}
    <3>1. q.op \in OnSalary /\ q.s \in Structures /\ clean \in BOOLEAN
      BY <1>4, <2>1, AtWork DEF SalaryInv, Shapes
    <3>2. torn' = torn \cup {q.s} /\ q.s \in torn' /\ row' = row /\ clean' = clean
      BY <1>2, <2>1, <2>2
    <3>3. ASSUME NEW r, r = Idle, Goes(c, r)
          PROVE  SalaryInv'
      <4>1. r \in Requests
        BY <3>3, IdleFits
      <4>2. r = Idle \/ (r.op \in OnSalary /\ r.s = q.s /\ r.pc \in SalaryCalls)
        BY <3>3
      <4>3. clean' => clean /\ row'[q.s].from = row[q.s].from /\ row'[q.s].to = row[q.s].to
        BY <3>2
      <4>4. Goes(c, r)
        BY <3>3
      <4> QED
        BY <2>1, <3>1, <3>2, <4>1, <4>2, <4>3, <4>4, SalaryCallFits
    <3> QED
      BY <1>2, <3>3 DEF Ends
  <2>3. CASE q.pc \notin {"clear", "lines", "sum", "gross"}
    <3>1. Midway(q, x) => x.gross = <<x.base, x.lines>>
      BY <1>4, <2>1, <2>3 DEF Midway, SalaryCalls
    <3> QED
      BY <1>2, <1>4, <2>1, <2>3, <3>1, GivesUpFits
  <2> QED
    BY <2>2, <2>3
<1> QED
  BY <1>1, <1>3, <1>4

LEMMA TerminationFits ==
    ASSUME SalaryInv, EndActiveSalaryStructuresForUser
    PROVE  SalaryInv'
<1>1. /\ row' = [s \in Structures |-> IF s \in Active THEN [row[s] EXCEPT !.to = Now] ELSE row[s]]
      /\ requests' = requests + 1 /\ UNCHANGED <<today, request, torn, clean>>
  BY DEF EndActiveSalaryStructuresForUser
<1>2. \A s \in Structures : row[s] \in StructureRows /\ row[s].to \in Int
  BY InstantsFit DEF SalaryInv, Shapes, StructureRows
<1>3. ASSUME NEW s \in Structures
      PROVE  /\ row'[s] \in StructureRows /\ row'[s].state = row[s].state
             /\ row'[s].base = row[s].base /\ row'[s].lines = row[s].lines
             /\ row'[s].gross = row[s].gross /\ row'[s].from = row[s].from
             /\ row'[s].to <= row[s].to
  <2>1. CASE s \notin Active
    BY <1>1, <1>2, <2>1
  <2>2. CASE s \in Active
    <3>1. PICK x \in StructureRows : x = row[s] /\ Now <= x.to
      BY <1>2, <2>2 DEF Active, Covers
    <3>2. PICK now \in Instants : now = Now
      BY NowFits DEF SalaryInv, Shapes
    <3>3. row'[s] = [x EXCEPT !.to = now]
      BY <1>1, <2>2, <3>1, <3>2
    <3> QED
      BY <3>1, <3>2, <3>3 DEF StructureRows
  <2> QED
    BY <2>1, <2>2
<1>4. /\ row' \in [Structures -> StructureRows] /\ request' \in [Clients -> Requests]
      /\ requests' \in Nat
  <2>1. requests \in Nat
    BY DEF SalaryInv, Shapes
  <2> QED
    BY <1>1, <1>3, <2>1 DEF SalaryInv, Shapes
<1>5. Shapes'
  BY <1>1, <1>4 DEF SalaryInv, Shapes
<1>6. RequestsFit'
  BY <1>1, <1>3, <1>4, RequestsStay DEF SalaryInv
<1>7. OneHolds' /\ HeldRowsFit' /\ GrossMatchesLines'
  BY <1>1, <1>3, GrossStays
<1>8. OpeningFits' /\ OneInForceIfKept'
  BY <1>1, <1>3, <1>4, DatesStay
<1>9. OneOpens'
  BY <1>1 DEF SalaryInv, OneOpens
<1> QED
  BY <1>5, <1>6, <1>7, <1>8, <1>9 DEF SalaryInv

LEMMA RestFits ==
    ASSUME SalaryInv, UNCHANGED <<row, request, requests, torn, clean>>, today' \in Days
    PROVE  SalaryInv'
<1>1. Shapes' /\ RequestsFit'
  BY DEF SalaryInv, Shapes, RequestsFit, Fits
<1>2. OneHolds' /\ HeldRowsFit' /\ GrossMatchesLines'
  BY GrossStays
<1>3. OneOpens'
  BY DEF SalaryInv, OneOpens
<1>4. OpeningFits' /\ OneInForceIfKept'
  BY DEF SalaryInv, OpeningFits, Opens, OneInForceIfKept, OneInForce, Overlaps, Covers, Live
<1> QED
  BY <1>1, <1>2, <1>3, <1>4 DEF SalaryInv

-----------------------------------------------------------------------------
(* The results                                                             *)

LEMMA InitFits == Init => SalaryInv
<1> SUFFICES ASSUME Init
             PROVE  SalaryInv
  OBVIOUS
<1>1. Shapes
  BY SalaryAssumption, NoRowFits, IdleFits DEF Init, Shapes, Days
<1>2. RequestsFit /\ OneHolds /\ OneOpens /\ OpeningFits
  BY IdleFits DEF Init, RequestsFit, Fits, OneHolds, Held, OnSalary, OneOpens, Opening,
     OpeningFits, Opens
<1>3. Live = {}
  BY NoRowFits DEF Init, Live
<1> QED
  BY <1>1, <1>2, <1>3 DEF SalaryInv, HeldRowsFit, GrossMatchesLines, OneInForceIfKept, OneInForce

LEMMA StepFits == SalaryInv /\ [Next]_vars => SalaryInv'
<1> SUFFICES ASSUME SalaryInv, [Next]_vars
             PROVE  SalaryInv'
  OBVIOUS
<1>1. ASSUME NEW c \in Clients, Handler(c)
      PROVE  SalaryInv'
  BY <1>1, HandlersFit
<1>2. ASSUME NEW c \in Clients, Call(c)
      PROVE  SalaryInv'
  <2>1. CASE \/ PatchStructure(c) \/ ClearLines(c) \/ CreateLine(c) \/ RefuseLine(c) \/ ReadLines(c)
             \/ WriteGross(c) \/ CreateAllowance(c) \/ DeleteAllowance(c) \/ ReplaceAllowance(c)
             \/ WriteBaseSalary(c)
    BY <2>1, PatchFits, ClearFits, CreateLineFits, RefuseLineFits, ReadLinesFits, WriteGrossFits,
       AllowancesFit, WriteBaseFits
  <2>2. CASE \/ EndActive(c) \/ CheckOverlap(c) \/ InsertStructure(c) \/ CloseStructure(c)
             \/ CheckReopen(c) \/ ReopenStructure(c) \/ DeleteStructure(c)
    BY <2>2, EndActiveFits, ChecksFit, InsertFits, CloseFits, ReopenFits, DeleteFits
  <2>3. CASE Refused(c) \/ Fault(c)
    BY <2>3, RefusedFits, FaultFits
  <2> QED
    BY <1>2, <2>1, <2>2, <2>3 DEF Call
<1>3. CASE EndActiveSalaryStructuresForUser
  BY <1>3, TerminationFits
<1>4. CASE NextDay
  <2>1. today' \in Days
    BY <1>4, SalaryAssumption DEF NextDay, SalaryInv, Shapes, Days
  <2> QED
    BY <1>4, <2>1, RestFits DEF NextDay
<1>5. CASE UNCHANGED vars
  <2>1. today' \in Days /\ UNCHANGED <<row, request, requests, torn, clean>>
    BY <1>5 DEF vars, SalaryInv, Shapes
  <2> QED
    BY <2>1, RestFits
<1> QED
  BY <1>1, <1>2, <1>3, <1>4, <1>5 DEF Next

\* In every reachable state, what each handler has read of a structure or of the
\* dates still holds, unless another handler met it.
THEOREM SalaryInvariant == Spec => []SalaryInv
BY InitFits, StepFits, PTL DEF Spec

\* No instant has two structures of one employee in force, as long as no dates
\* were patched, no end moved later and no two handlers that open a structure met
\* (controllers/salary-structure.controller.js: create, activate, deactivate,
\* delete and the end at termination).
THEOREM OneStructureInForce == Spec => []OneInForceIfKept
<1>1. SalaryInv => OneInForceIfKept
  BY DEF SalaryInv
<1> QED
  BY <1>1, SalaryInvariant, PTL

\* The stored gross salary of a structure no handler works on is that of its base
\* and its lines, unless two handlers met on it or one stopped halfway
\* (controllers/salary-structure.controller.js: recalculation after each change).
THEOREM GrossIsThatOfTheLines == Spec => []GrossMatchesLines
<1>1. SalaryInv => GrossMatchesLines
  BY DEF SalaryInv
<1> QED
  BY <1>1, SalaryInvariant, PTL

=============================================================================
