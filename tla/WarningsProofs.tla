--------------------------- MODULE WarningsProofs ---------------------------
(***************************************************************************)
(* Warnings, for any number of warnings, users, texts, files and handlers  *)
(* in flight.  What a handler is about to write is the only link between   *)
(* the row it read and the row it writes: the invariant says what it may   *)
(* hold for the status it read, so a write that finds that status again    *)
(* moves the row as its handler meant to, and any other tears the warning. *)
(***************************************************************************)
EXTENDS Warnings, TLAPS

Columns == {"status", "author", "facts", "reason", "note", "severity", "refused", "outcome",
            "files"}

Rows == [status : Statuses, author : Managers \cup {"HR"}, facts : Facts, reason : Texts,
         note : Texts \cup {NoText}, severity : Severities, refused : BOOLEAN,
         outcome : Outcomes, files : SUBSET Files]

Letters == [facts : Facts, text : Texts]

\* The columns that the handlers write together.
Data ==
    {Idle.data} \cup [facts : Facts] \cup [reason : Texts] \cup [severity : Severities]
       \cup [status : Statuses \ Decided] \cup [refused : BOOLEAN]
       \cup [status : {"ACKNOWLEDGED"}, refused : BOOLEAN]
       \cup [status : Decided, outcome : Decisions, severity : Severities]

Notes == [status : {"ISSUED"}, note : Texts \cup {NoText}]

Ops == {"update", "issue", "letter", "upload", "detach", "delete"}

Calls == [op : Ops, w : Warnings, data : Data \cup Notes \cup Letters, files : SUBSET Files,
          seen : Statuses]

-----------------------------------------------------------------------------
(* The inductive invariant                                                 *)

Types ==
    /\ row \in [Warnings -> Rows \cup {NoRow}]
    /\ letters \in [Warnings -> SUBSET Letters]
    /\ call \in [Callers -> Calls \cup {Idle}]
    /\ issued \subseteq Warnings /\ torn \subseteq Warnings

\* What an update holds that read a draft, or a case in review.
OfDraft(d) ==
    /\ "status" \in DOMAIN d => d.status \in Pipeline
    /\ "refused" \notin DOMAIN d /\ "outcome" \notin DOMAIN d

\* What an update holds that read an issued warning.
OfIssued(d) ==
    /\ "status" \in DOMAIN d => d.status \notin Pipeline
    /\ "facts" \notin DOMAIN d /\ "reason" \notin DOMAIN d
    /\ "severity" \in DOMAIN d => "status" \in DOMAIN d /\ d.status \in Decided

\* What a handler may hold, with rows R, issued warnings I and torn ones T.
Lawful(q, R, I, T) ==
    /\ q.op = "update" =>
          /\ q.data \in Data
          /\ q.seen \in Pipeline => OfDraft(q.data)
          /\ q.seen \notin Pipeline => OfIssued(q.data) /\ q.w \in I
    /\ q.op = "issue" => q.data \in Notes /\ q.seen \in Pipeline
    /\ q.op \in {"upload", "detach", "delete"} => q.seen \in Pipeline
    /\ q.op = "letter" =>
          /\ q.data \in Letters /\ q.w \in I
          /\ q.w \notin T /\ R[q.w] # NoRow => q.data = Printed(R[q.w])

CallsFit == \A c \in Callers : call[c].op # "idle" => Lawful(call[c], row, issued, torn)

\* Warning w with row r, in every interleaving; I are the issued ones.
Counts(w, r, I) ==
    /\ r.status \notin Pipeline => w \in I
    /\ r.refused \/ r.outcome # "none" => w \in I
    /\ r.status \in Decided => r.outcome # "none"

\* The row of a warning that is not torn: out of the pipeline once issued.
Tells(w, r, L, I) ==
    /\ w \in I => r.status \notin Pipeline
    /\ \A l \in L[w] : l = Printed(r)

WarningsInv ==
    /\ Types
    /\ CallsFit
    /\ \A w \in Warnings : letters[w] # {} => w \in issued
    /\ \A w \in Warnings : Exists(w) => Counts(w, row[w], issued)
    /\ \A w \in Warnings \ torn : Exists(w) => Tells(w, row[w], letters, issued)

\* What a step makes of the row of an issued warning.
Stands(r, n) ==
    /\ n.status \notin Pipeline
    /\ \A f \in {"facts", "reason", "note", "files"} : n[f] = r[f]
    /\ n.severity # r.severity => n.status \in Decided

\* A step keeps the invariant, and the issued cases that it does not tear.
Step ==
    /\ WarningsInv'
    /\ \A w \in (issued \cap issued') \ torn' :
          row[w] # NoRow /\ row'[w] # NoRow => Stands(row[w], row'[w])

-----------------------------------------------------------------------------
(* Values                                                                  *)

LEMMA RowsExist == NoRow \notin Rows
  BY DEF NoRow, Rows, Statuses, Pipeline, Effective, Answerable

\* An update writes the columns of its data and keeps the others.
LEMMA PatchedFields ==
    ASSUME NEW r \in Rows, NEW d
    PROVE  /\ DOMAIN Patched(r, d) = Columns
           /\ Patched(r, d) = [f \in Columns |-> Patched(r, d)[f]]
           /\ \A f \in Columns : Patched(r, d)[f] = IF f \in DOMAIN d THEN d[f] ELSE r[f]
<1>1. DOMAIN r = Columns
  BY DEF Rows, Columns
<1> QED
  BY <1>1 DEF Patched

\* A value for each column makes a row.
LEMMA ColumnsMakeRows ==
    ASSUME NEW n, n = [f \in Columns |-> n[f]],
           n["status"] \in Statuses, n["author"] \in Managers \cup {"HR"}, n["facts"] \in Facts,
           n["reason"] \in Texts, n["note"] \in Texts \cup {NoText},
           n["severity"] \in Severities, n["refused"] \in BOOLEAN, n["outcome"] \in Outcomes,
           n["files"] \in SUBSET Files
    PROVE  n \in Rows
  BY DEF Rows, Columns

\* Every shape of an update's data keeps a row a row, its note, files and author;
\* a decision has its outcome.
LEMMA PatchFits ==
    ASSUME NEW r \in Rows, NEW d \in Data
    PROVE  /\ Patched(r, d) \in Rows
           /\ \A f \in {"status", "refused", "outcome", "facts", "reason", "severity"} :
                 Patched(r, d)[f] = IF f \in DOMAIN d THEN d[f] ELSE r[f]
           /\ Patched(r, d)["note"] = r["note"] /\ Patched(r, d)["files"] = r["files"]
           /\ "status" \in DOMAIN d /\ d.status \in Decided => "outcome" \in DOMAIN d
           /\ "outcome" \in DOMAIN d => d.outcome \in Decisions
<1> DEFINE n == Patched(r, d)
<1>1. /\ n = [f \in Columns |-> n[f]]
      /\ \A f \in Columns : n[f] = IF f \in DOMAIN d THEN d[f] ELSE r[f]
  BY PatchedFields
<1> HIDE DEF n
<1>2. /\ "status" \in DOMAIN d => d["status"] \in Statuses
      /\ "facts" \in DOMAIN d => d["facts"] \in Facts
      /\ "reason" \in DOMAIN d => d["reason"] \in Texts
      /\ "severity" \in DOMAIN d => d["severity"] \in Severities
      /\ "refused" \in DOMAIN d => d["refused"] \in BOOLEAN
      /\ "outcome" \in DOMAIN d => d["outcome"] \in Decisions
      /\ "author" \notin DOMAIN d /\ "files" \notin DOMAIN d /\ "note" \notin DOMAIN d
      /\ "status" \in DOMAIN d /\ d["status"] \in Decided => "outcome" \in DOMAIN d
  BY DEF Data, Idle, Statuses, Decided, Effective, Answerable
<1>3. /\ n["status"] \in Statuses /\ n["author"] \in Managers \cup {"HR"} /\ n["facts"] \in Facts
      /\ n["reason"] \in Texts /\ n["note"] \in Texts \cup {NoText}
      /\ n["severity"] \in Severities /\ n["refused"] \in BOOLEAN
      /\ n["outcome"] \in Outcomes /\ n["files"] \in SUBSET Files
  BY <1>1, <1>2 DEF Rows, Columns, Outcomes
<1>4. n \in Rows
  BY <1>1, <1>3, ColumnsMakeRows
<1>5. \A f \in {"status", "refused", "outcome", "facts", "reason", "severity"} :
         n[f] = IF f \in DOMAIN d THEN d[f] ELSE r[f]
  BY <1>1 DEF Columns
<1>6. n["note"] = r["note"] /\ n["files"] = r["files"]
  BY <1>1, <1>2 DEF Columns
<1> QED
  BY <1>2, <1>4, <1>5, <1>6 DEF n

\* An issue moves the row to ISSUED with its note, and keeps the rest.
LEMMA NoteFits ==
    ASSUME NEW r \in Rows, NEW d \in Notes
    PROVE  /\ Patched(r, d) \in Rows
           /\ Patched(r, d).status = "ISSUED"
           /\ Patched(r, d).refused = r.refused /\ Patched(r, d).outcome = r.outcome
<1> DEFINE n == Patched(r, d)
<1>1. /\ n = [f \in Columns |-> n[f]]
      /\ \A f \in Columns : n[f] = IF f \in DOMAIN d THEN d[f] ELSE r[f]
  BY PatchedFields
<1> HIDE DEF n
<1>2. DOMAIN d = {"status", "note"} /\ d["status"] = "ISSUED" /\ d["note"] \in Texts \cup {NoText}
  BY DEF Notes
<1>3. /\ n["status"] = "ISSUED" /\ n["note"] \in Texts \cup {NoText}
      /\ \A f \in Columns \ {"status", "note"} : n[f] = r[f]
  BY <1>1, <1>2 DEF Columns
<1>4. /\ n["status"] \in Statuses /\ n["author"] \in Managers \cup {"HR"} /\ n["facts"] \in Facts
      /\ n["reason"] \in Texts /\ n["severity"] \in Severities /\ n["refused"] \in BOOLEAN
      /\ n["outcome"] \in Outcomes /\ n["files"] \in SUBSET Files
  BY <1>3 DEF Rows, Columns, Statuses, Effective, Answerable
<1>5. n \in Rows
  BY <1>1, <1>3, <1>4, ColumnsMakeRows
<1>6. n["refused"] = r["refused"] /\ n["outcome"] = r["outcome"]
  BY <1>3 DEF Columns
<1> QED
  BY <1>3, <1>5, <1>6 DEF n

LEMMA PrintedFits == ASSUME NEW r \in Rows PROVE Printed(r) \in Letters
  BY DEF Printed, Letters, Rows

-----------------------------------------------------------------------------
(* Steps                                                                   *)

LEMMA RowsHere ==
    ASSUME WarningsInv, NEW w \in Warnings, Exists(w)
    PROVE  /\ row[w] \in Rows /\ Counts(w, row[w], issued)
           /\ w \notin torn => Tells(w, row[w], letters, issued)
  BY DEF WarningsInv, Types, Exists

\* A step that leaves rows and letters alone, and holds in flight what it may.
LEMMA CallFits ==
    ASSUME WarningsInv, NEW c \in Callers, NEW q \in Calls \cup {Idle},
           q.op # "idle" => Lawful(q, row, issued, torn),
           call' = [call EXCEPT ![c] = q], UNCHANGED <<row, letters, issued, torn>>
    PROVE  Step
<1>1. Types'
  BY DEF WarningsInv, Types
<1>2. ASSUME NEW d \in Callers, call'[d].op # "idle"
      PROVE  Lawful(call'[d], row, issued, torn)
  BY <1>2 DEF WarningsInv, Types, CallsFit
<1>3. CallsFit'
  BY <1>2 DEF CallsFit
<1>4. WarningsInv'
  BY <1>1, <1>3 DEF WarningsInv, Exists
<1>5. ASSUME NEW w \in issued \ torn, row[w] # NoRow
      PROVE  Stands(row[w], row[w])
  BY <1>5 DEF WarningsInv, Types, Exists, Tells, Stands
<1> QED
  BY <1>4, <1>5 DEF Step

\* What a handler holds once it has read w.
Call(w, op, data, files) ==
    [op |-> op, w |-> w, data |-> data, files |-> files, seen |-> row[w].status]

\* A reading, when what is held is lawful for the status that was read.
LEMMA ReadsFit ==
    ASSUME WarningsInv, NEW c \in Callers, NEW w \in Warnings, NEW op \in Ops, Exists(w),
           NEW data \in Data \cup Notes \cup Letters, NEW files \in SUBSET Files,
           Lawful(Call(w, op, data, files), row, issued, torn),
           Reads(c, w, op, data, files)
    PROVE  Step
<1> DEFINE q == Call(w, op, data, files)
<1>1. row[w].status \in Statuses
  BY RowsHere DEF Rows
<1>2. q \in Calls
  BY <1>1 DEF Call, Calls
<1>3. call' = [call EXCEPT ![c] = q] /\ UNCHANGED <<row, letters, issued, torn>>
  BY DEF Reads, Call
<1>4. Lawful(q, row, issued, torn)
  OBVIOUS
<1> HIDE DEF q
<1> QED
  BY <1>2, <1>3, <1>4, CallFits

\* A write of row w: in any interleaving the row that it leaves counts only when
\* issued, and one that finds the status it read keeps an issued case.
LEMMA WriteFits ==
    ASSUME WarningsInv, NEW c \in Callers, NEW w \in Warnings, Exists(w),
           NEW r \in Rows \cup {NoRow}, NEW I \in SUBSET Warnings, NEW next \in Calls \cup {Idle},
           row' = [row EXCEPT ![w] = r], issued' = I, UNCHANGED letters,
           call' = [call EXCEPT ![c] = next], Torn(c, w),
           issued \subseteq I, I \subseteq issued \cup {w},
           w \in I /\ w \notin issued => r.status \notin Pipeline,
           next.op # "idle" => Lawful(next, row', I, torn'),
           r # NoRow => Counts(w, r, I),
           row[w].status = call[c].seen /\ w \in issued \ torn /\ r # NoRow
              => Stands(row[w], r)
    PROVE  Step
<1>1. /\ row'[w] = r
      /\ \A v \in Warnings \ {w} : row'[v] = row[v]
  BY DEF WarningsInv, Types
<1>2. torn' \in SUBSET Warnings /\ torn \subseteq torn' /\ torn' \subseteq torn \cup {w}
      /\ (row[w].status # call[c].seen => w \in torn')
  BY DEF Torn, WarningsInv, Types
<1>3. Types'
  BY <1>2 DEF WarningsInv, Types
<1>4. ASSUME w \in issued, w \notin torn', r # NoRow
      PROVE  Stands(row[w], r) /\ Printed(r) = Printed(row[w])
  <2>1. Stands(row[w], r)
    BY <1>2, <1>4
  <2>2. r.facts = row[w].facts /\ r.reason = row[w].reason /\ r.note = row[w].note
    BY <2>1 DEF Stands
  <2> QED
    BY <2>1, <2>2 DEF Printed
<1>5. ASSUME NEW d \in Callers, call'[d].op # "idle"
      PROVE  Lawful(call'[d], row', I, torn')
  <2>1. CASE d = c
    BY <1>5, <2>1 DEF WarningsInv, Types
  <2>2. CASE d # c
    <3>1. call'[d] = call[d]
      BY <2>2 DEF WarningsInv, Types
    <3>2. call[d] \in Calls /\ Lawful(call[d], row, issued, torn)
      BY <1>5, <3>1 DEF WarningsInv, Types, CallsFit, Idle
    <3>3. ASSUME call[d].op = "letter", call[d].w \notin torn', row'[call[d].w] # NoRow
          PROVE  call[d].data = Printed(row'[call[d].w])
      <4>1. call[d].w \in Warnings /\ call[d].w \in issued
        BY <3>2, <3>3 DEF Lawful, Calls
      <4>2. CASE call[d].w = w
        <5>1. call[d].data = Printed(row[w])
          BY <1>2, <3>2, <3>3, <4>2 DEF Lawful, Exists
        <5> QED
          BY <1>1, <1>4, <3>3, <4>1, <4>2, <5>1
      <4>3. CASE call[d].w # w
        BY <1>1, <1>2, <3>2, <3>3, <4>1, <4>3 DEF Lawful
      <4> QED
        BY <4>2, <4>3
    <3> QED
      BY <3>1, <3>2, <3>3 DEF Lawful
  <2> QED
    BY <2>1, <2>2
<1>6. CallsFit'
  BY <1>5 DEF CallsFit
<1>7. \A v \in Warnings : letters'[v] # {} => v \in I
  BY DEF WarningsInv
<1>8. ASSUME NEW v \in Warnings, row'[v] # NoRow
      PROVE  Counts(v, row'[v], I)
  BY <1>1, <1>8 DEF WarningsInv, Counts, Exists
<1>9. ASSUME NEW v \in Warnings \ torn', row'[v] # NoRow
      PROVE  Tells(v, row'[v], letters', I)
  <2>1. CASE v = w
    <3>1. Tells(w, row[w], letters, issued) /\ (letters[w] # {} => w \in issued)
      BY <1>2, <1>9, <2>1 DEF WarningsInv
    <3>2. r # NoRow /\ w \notin torn'
      BY <1>1, <1>9, <2>1
    <3>3. w \in I => r.status \notin Pipeline
      BY <1>4, <3>2 DEF Stands
    <3>4. \A l \in letters[w] : l = Printed(r)
      BY <1>4, <3>1, <3>2 DEF Tells
    <3> QED
      BY <1>1, <2>1, <3>3, <3>4 DEF Tells
  <2>2. CASE v # w
    BY <1>1, <1>2, <1>9, <2>2 DEF WarningsInv, Tells, Exists
  <2> QED
    BY <2>1, <2>2
<1>10. WarningsInv'
  BY <1>3, <1>6, <1>7, <1>8, <1>9 DEF WarningsInv, Exists
<1>11. ASSUME NEW v \in (issued \cap issued') \ torn', row[v] # NoRow, row'[v] # NoRow
       PROVE  Stands(row[v], row'[v])
  <2>1. v \in Warnings
    BY DEF WarningsInv, Types
  <2>2. CASE v = w
    BY <1>1, <1>4, <1>11, <2>2
  <2>3. CASE v # w
    <3>1. row'[v] = row[v] /\ Tells(v, row[v], letters, issued)
      BY <1>1, <1>2, <1>11, <2>1, <2>3 DEF WarningsInv, Exists
    <3> QED
      BY <1>11, <3>1 DEF Tells, Stands
  <2> QED
    BY <2>2, <2>3
<1> QED
  BY <1>10, <1>11 DEF Step

-----------------------------------------------------------------------------
(* Handlers that read                                                      *)

\* A reading for an update, lawful for the status that was read.
LEMMA UpdateFits ==
    ASSUME WarningsInv, NEW c \in Callers, NEW w \in Warnings, Exists(w), NEW data \in Data,
           row[w].status \in Pipeline => OfDraft(data),
           row[w].status \notin Pipeline => OfIssued(data),
           Reads(c, w, "update", data, {})
    PROVE  Step
<1>1. row[w].status \notin Pipeline => w \in issued
  BY RowsHere DEF Counts
<1>2. Lawful(Call(w, "update", data, {}), row, issued, torn)
  BY <1>1 DEF Lawful, Call
<1> QED
  BY <1>2, ReadsFit DEF Ops

\* A write of the status alone, on its side of the line between drafts and
\* issued warnings.
LEMMA MoveFits ==
    ASSUME WarningsInv, NEW c \in Callers, NEW w \in Warnings, Exists(w),
           NEW s \in Statuses \ Decided, s \in Pipeline <=> row[w].status \in Pipeline,
           Reads(c, w, "update", [status |-> s], {})
    PROVE  Step
<1> DEFINE data == [status |-> s]
<1>1. data \in Data /\ DOMAIN data = {"status"} /\ data.status = s
  BY DEF Data
<1>2. Reads(c, w, "update", data, {})
  OBVIOUS
<1> HIDE DEF data
<1>3. /\ row[w].status \in Pipeline => OfDraft(data)
      /\ row[w].status \notin Pipeline => OfIssued(data)
  BY <1>1 DEF OfDraft, OfIssued
<1> QED
  BY <1>1, <1>2, <1>3, UpdateFits

\* The edit of a draft.
LEMMA EditFits ==
    ASSUME WarningsInv, NEW c \in Callers, NEW w \in Warnings, MayEdit(c, w), NEW data \in Data,
           "status" \notin DOMAIN data, "refused" \notin DOMAIN data,
           "outcome" \notin DOMAIN data, Reads(c, w, "update", data, {})
    PROVE  Step
<1>1. Exists(w) /\ row[w].status \in Pipeline
  BY DEF MayEdit, Pipeline
<1>2. OfDraft(data)
  BY DEF OfDraft
<1> QED
  BY <1>1, <1>2, UpdateFits

\* Work on the files of a draft, or on the draft as a whole.
LEMMA DraftWorkFits ==
    ASSUME WarningsInv, NEW c \in Callers, NEW w \in Warnings, MayEdit(c, w),
           NEW op \in {"upload", "detach", "delete"}, NEW files \in SUBSET Files,
           Reads(c, w, op, Idle.data, files)
    PROVE  Step
<1>1. Exists(w) /\ row[w].status \in Pipeline
  BY DEF MayEdit, Pipeline
<1>2. Lawful(Call(w, op, Idle.data, files), row, issued, torn)
  BY <1>1 DEF Lawful, Call
<1>3. Idle.data \in Data
  BY DEF Data
<1> QED
  BY <1>1, <1>2, <1>3, ReadsFit DEF Ops

LEMMA CreateFits ==
    ASSUME WarningsInv, NEW c \in Callers, NEW w \in Warnings, NEW facts \in Facts,
           NEW reason \in Texts, NEW severity \in Severities,
           Creates(c, w, facts, reason, severity)
    PROVE  Step
<1> DEFINE r == Draft(c, facts, reason, severity)
<1>1. /\ r \in Rows /\ r.status = "DRAFT" /\ r.refused = FALSE /\ r.outcome = "none"
  BY DEF Draft, Rows, Statuses, Pipeline, Outcomes
<1>2. /\ row' = [row EXCEPT ![w] = r] /\ letters' = [letters EXCEPT ![w] = {}]
      /\ issued' = issued \ {w} /\ torn' = torn \ {w} /\ call' = call
      /\ \A d \in Callers : ~Concerns(d, w)
  BY DEF Creates
<1> HIDE DEF r
<1>3. Types'
  BY <1>1, <1>2 DEF WarningsInv, Types
<1>4. /\ row'[w] = r /\ letters'[w] = {}
      /\ \A v \in Warnings \ {w} : row'[v] = row[v] /\ letters'[v] = letters[v]
  BY <1>2 DEF WarningsInv, Types
<1>5. ASSUME NEW d \in Callers, call[d].op # "idle"
      PROVE  Lawful(call[d], row', issued', torn')
  <2>1. call[d].w \in Warnings \ {w}
    BY <1>2, <1>5 DEF Concerns, WarningsInv, Types, Calls, Idle
  <2>2. Lawful(call[d], row, issued, torn)
    BY <1>5 DEF WarningsInv, CallsFit
  <2>3. row'[call[d].w] = row[call[d].w]
    BY <1>4, <2>1
  <2> QED
    BY <1>2, <2>1, <2>2, <2>3 DEF Lawful
<1>6. CallsFit'
  BY <1>2, <1>5 DEF CallsFit
<1>7. ASSUME NEW v \in Warnings, row'[v] # NoRow
      PROVE  Counts(v, row'[v], issued') /\ (v \notin torn' => Tells(v, row'[v], letters', issued'))
  <2>1. CASE v = w
    BY <1>1, <1>2, <1>4, <2>1 DEF Counts, Tells, Pipeline, Decided
  <2>2. CASE v # w
    <3>1. /\ row'[v] = row[v] /\ letters'[v] = letters[v]
          /\ (v \in torn' <=> v \in torn) /\ (v \in issued' <=> v \in issued)
      BY <1>2, <1>4, <2>2
    <3> QED
      BY <1>7, <3>1 DEF WarningsInv, Counts, Tells, Exists
  <2> QED
    BY <2>1, <2>2
<1>8. \A v \in Warnings : letters'[v] # {} => v \in issued'
  BY <1>2, <1>4 DEF WarningsInv
<1>9. WarningsInv'
  BY <1>3, <1>6, <1>7, <1>8 DEF WarningsInv, Exists
<1>10. ASSUME NEW v \in (issued \cap issued') \ torn', row'[v] # NoRow
       PROVE  Stands(row[v], row'[v])
  <2>1. v \in Warnings \ {w} /\ v \notin torn
    BY <1>2 DEF WarningsInv, Types
  <2>2. row'[v] = row[v] /\ Tells(v, row[v], letters, issued)
    BY <1>4, <1>10, <2>1 DEF WarningsInv, Exists
  <2> QED
    BY <2>2 DEF Tells, Stands
<1> QED
  BY <1>9, <1>10 DEF Step

LEMMA DraftingFits ==
    ASSUME WarningsInv, NEW c \in Admins \cup Managers, Drafting(c)
    PROVE  Step
<1> c \in Callers
  BY DEF Callers
<1>1. CASE CreateEmployeeWarningDraft(c)
  BY <1>1, CreateFits DEF CreateEmployeeWarningDraft
<1>2. CASE DuplicateEmployeeWarningAsDraft(c)
  <2> PICK w \in Warnings, copy \in Warnings :
         Exists(w) /\ Creates(c, copy, row[w].facts, row[w].reason, row[w].severity)
    BY <1>2 DEF DuplicateEmployeeWarningAsDraft
  <2>1. row[w].facts \in Facts /\ row[w].reason \in Texts /\ row[w].severity \in Severities
    BY RowsHere DEF Rows
  <2> QED
    BY <2>1, CreateFits
<1>3. CASE UpdateEmployeeWarningDraft(c)
  <2> PICK w \in Warnings :
         /\ MayEdit(c, w)
         /\ \/ \E facts \in Facts : Reads(c, w, "update", [facts |-> facts], {})
            \/ \E reason \in Texts : Reads(c, w, "update", [reason |-> reason], {})
            \/ \E severity \in Severities : Reads(c, w, "update", [severity |-> severity], {})
    BY <1>3 DEF UpdateEmployeeWarningDraft
  <2>1. ASSUME NEW facts \in Facts, Reads(c, w, "update", [facts |-> facts], {})
        PROVE  Step
    <3> DEFINE data == [facts |-> facts]
    <3>1. data \in Data /\ DOMAIN data = {"facts"}
      BY DEF Data
    <3>2. Reads(c, w, "update", data, {})
      BY <2>1
    <3> HIDE DEF data
    <3> QED
      BY <3>1, <3>2, EditFits
  <2>2. ASSUME NEW reason \in Texts, Reads(c, w, "update", [reason |-> reason], {})
        PROVE  Step
    <3> DEFINE data == [reason |-> reason]
    <3>1. data \in Data /\ DOMAIN data = {"reason"}
      BY DEF Data
    <3>2. Reads(c, w, "update", data, {})
      BY <2>2
    <3> HIDE DEF data
    <3> QED
      BY <3>1, <3>2, EditFits
  <2>3. ASSUME NEW severity \in Severities, Reads(c, w, "update", [severity |-> severity], {})
        PROVE  Step
    <3> DEFINE data == [severity |-> severity]
    <3>1. data \in Data /\ DOMAIN data = {"severity"}
      BY DEF Data
    <3>2. Reads(c, w, "update", data, {})
      BY <2>3
    <3> HIDE DEF data
    <3> QED
      BY <3>1, <3>2, EditFits
  <2> QED
    BY <2>1, <2>2, <2>3
<1>4. CASE DeleteEmployeeWarningDraft(c)
  BY <1>4, DraftWorkFits DEF DeleteEmployeeWarningDraft
<1>5. CASE UploadEmployeeWarningAttachments(c)
  BY <1>5, DraftWorkFits DEF UploadEmployeeWarningAttachments
<1>6. CASE DeleteEmployeeWarningAttachment(c)
  <2> PICK w \in Warnings :
         MayEdit(c, w) /\ \E a \in row[w].files : Reads(c, w, "detach", Idle.data, {a})
    BY <1>6 DEF DeleteEmployeeWarningAttachment
  <2>1. \A a \in row[w].files : {a} \in SUBSET Files
    BY RowsHere DEF MayEdit, Rows
  <2> QED
    BY <2>1, DraftWorkFits
<1>7. CASE SubmitEmployeeWarningForReview(c)
  <2> PICK w \in Warnings :
         MayEdit(c, w) /\ Reads(c, w, "update", [status |-> "PENDING_HR_REVIEW"], {})
    BY <1>7 DEF SubmitEmployeeWarningForReview
  <2>1. "PENDING_HR_REVIEW" \in Statuses \ Decided /\ "PENDING_HR_REVIEW" \in Pipeline
    BY DEF Statuses, Decided, Pipeline
  <2>2. Exists(w) /\ row[w].status \in Pipeline
    BY DEF MayEdit, Pipeline
  <2> QED
    BY <2>1, <2>2, MoveFits
<1> QED
  BY <1>1, <1>2, <1>3, <1>4, <1>5, <1>6, <1>7 DEF Drafting

LEMMA AnsweringFits ==
    ASSUME WarningsInv, NEW c \in Admins \cup {Employee}, Answering(c)
    PROVE  Step
<1> c \in Callers
  BY DEF Callers
<1>1. CASE AcknowledgeEmployeeWarning(c)
  <2> PICK w \in Warnings :
         /\ In(w, {"ISSUED"})
         /\ Reads(c, w, "update", [status |-> "ACKNOWLEDGED", refused |-> FALSE], {})
    BY <1>1 DEF AcknowledgeEmployeeWarning
  <2> DEFINE data == [status |-> "ACKNOWLEDGED", refused |-> FALSE]
  <2>1. data \in Data /\ DOMAIN data = {"status", "refused"} /\ data.status = "ACKNOWLEDGED"
    BY DEF Data
  <2>2. Reads(c, w, "update", data, {})
    OBVIOUS
  <2> HIDE DEF data
  <2>3. OfIssued(data)
    BY <2>1 DEF OfIssued, Pipeline
  <2>4. Exists(w) /\ row[w].status \notin Pipeline
    BY DEF In, Pipeline
  <2> QED
    BY <2>1, <2>2, <2>3, <2>4, UpdateFits
<1>2. CASE RefuseEmployeeWarningAcknowledgement(c)
  <2> PICK w \in Warnings :
         In(w, {"ISSUED"}) /\ Reads(c, w, "update", [refused |-> TRUE], {})
    BY <1>2 DEF RefuseEmployeeWarningAcknowledgement
  <2> DEFINE data == [refused |-> TRUE]
  <2>1. data \in Data /\ DOMAIN data = {"refused"}
    BY DEF Data
  <2>2. Reads(c, w, "update", data, {})
    OBVIOUS
  <2> HIDE DEF data
  <2>3. OfIssued(data)
    BY <2>1 DEF OfIssued
  <2>4. Exists(w) /\ row[w].status \notin Pipeline
    BY DEF In, Pipeline
  <2> QED
    BY <2>1, <2>2, <2>3, <2>4, UpdateFits
<1>3. CASE SubmitEmployeeWarningAppeal(c)
  <2> PICK w \in Warnings :
         Appealable(w) /\ Reads(c, w, "update", [status |-> "APPEAL_OPEN"], {})
    BY <1>3 DEF SubmitEmployeeWarningAppeal
  <2>1. "APPEAL_OPEN" \in Statuses \ Decided /\ "APPEAL_OPEN" \notin Pipeline
    BY DEF Statuses, Decided, Pipeline, Effective
  <2>2. Exists(w) /\ row[w].status \notin Pipeline
    BY DEF Appealable, In, Answerable, Pipeline
  <2> QED
    BY <2>1, <2>2, MoveFits
<1> QED
  BY <1>1, <1>2, <1>3 DEF Answering

LEMMA IssueFits ==
    ASSUME WarningsInv, NEW c \in Admins, IssueEmployeeWarning(c)
    PROVE  Step
<1> PICK w \in Warnings, note \in Texts \cup {NoText} :
       /\ In(w, {"PENDING_HR_REVIEW"})
       /\ Reads(c, w, "issue", [status |-> "ISSUED", note |-> note], {})
  BY DEF IssueEmployeeWarning
<1> DEFINE data == [status |-> "ISSUED", note |-> note]
<1>1. data \in Notes
  BY DEF Notes
<1>2. Reads(c, w, "issue", data, {})
  OBVIOUS
<1>3. Exists(w) /\ row[w].status \in Pipeline
  BY DEF In, Pipeline
<1> HIDE DEF data
<1>4. Lawful(Call(w, "issue", data, {}), row, issued, torn)
  BY <1>1, <1>3 DEF Lawful, Call
<1> QED
  BY <1>1, <1>2, <1>3, <1>4, ReadsFit DEF Ops, Callers

\* A letter that is mailed again is the one the row prints.
LEMMA ResendFits ==
    ASSUME WarningsInv, NEW c \in Admins, ResendWarningIssuedNotification(c)
    PROVE  Step
<1> PICK w \in Warnings : In(w, {"ISSUED"}) /\ Reads(c, w, "letter", Printed(row[w]), {})
  BY DEF ResendWarningIssuedNotification
<1> DEFINE data == Printed(row[w])
<1>1. Exists(w) /\ row[w].status \notin Pipeline
  BY DEF In, Pipeline
<1>2. data \in Letters /\ w \in issued
  BY <1>1, RowsHere, PrintedFits DEF Counts
<1>3. Lawful(Call(w, "letter", data, {}), row, issued, torn)
  BY <1>2 DEF Lawful, Call
<1>4. Reads(c, w, "letter", data, {})
  OBVIOUS
<1> HIDE DEF data
<1> QED
  BY <1>1, <1>2, <1>3, <1>4, ReadsFit DEF Ops, Callers

\* A decision moves an issued warning, with its outcome, and may change its severity.
LEMMA DecideFits ==
    ASSUME WarningsInv, NEW c \in Admins, DecideEmployeeWarningAppeal(c)
    PROVE  Step
<1> PICK w \in Warnings, decision \in Decisions, severity \in Severities :
       /\ In(w, {"APPEAL_REVIEW"})
       /\ Reads(c, w, "update", Decision(row[w], decision, severity), {})
  BY DEF DecideEmployeeWarningAppeal
<1> DEFINE data == Decision(row[w], decision, severity)
<1>1. Exists(w) /\ row[w].status \notin Pipeline
  BY DEF In, Pipeline
<1>2. row[w].severity \in Severities
  BY <1>1, RowsHere DEF Rows
<1>3. DecisionStatus[decision] \in Decided
  BY DEF DecisionStatus, Decisions, Decided
<1>4. data \in [status : Decided, outcome : Decisions, severity : Severities]
  BY <1>2, <1>3 DEF Decision
<1>5. Reads(c, w, "update", data, {})
  OBVIOUS
<1> HIDE DEF data
<1>6. data \in Data
  BY <1>4 DEF Data
<1>7. DOMAIN data = {"status", "outcome", "severity"} /\ data.status \in Decided
  BY <1>4
<1>8. OfIssued(data)
  BY <1>7 DEF OfIssued, Decided, Pipeline
<1> QED
  BY <1>1, <1>5, <1>6, <1>8, UpdateFits DEF Callers

\* The end of a case is a change of status alone.
LEMMA DecidingFits ==
    ASSUME WarningsInv, NEW c \in Admins, Deciding(c)
    PROVE  Step
<1> c \in Callers
  BY DEF Callers
<1> USE DEF In
<1>1. \A s \in {"APPEAL_REVIEW", "RESOLVED", "ESCALATED", "VOIDED"} :
         s \in Statuses \ Decided /\ s \notin Pipeline
  BY DEF Statuses, Decided, Pipeline, Effective, Answerable
<1>2. CASE ReturnEmployeeWarningToDraft(c)
  <2>1. "DRAFT" \in Statuses \ Decided /\ "DRAFT" \in Pipeline /\ "PENDING_HR_REVIEW" \in Pipeline
    BY DEF Statuses, Decided, Pipeline
  <2> QED
    BY <1>2, <2>1, MoveFits DEF ReturnEmployeeWarningToDraft
<1>3. CASE ReviewEmployeeWarningAppeal(c)
  <2>1. "APPEAL_OPEN" \notin Pipeline
    BY DEF Pipeline
  <2> QED
    BY <1>1, <1>3, <2>1, MoveFits DEF ReviewEmployeeWarningAppeal
<1>4. CASE ResolveEmployeeWarning(c)
  <2> PICK w \in Warnings :
         /\ In(w, Answerable \cup {"APPEAL_UPHELD", "APPEAL_AMENDED"})
         /\ Reads(c, w, "update", [status |-> "RESOLVED"], {})
    BY <1>4 DEF ResolveEmployeeWarning
  <2>1. Exists(w) /\ row[w].status \notin Pipeline
    BY DEF Answerable, Pipeline
  <2> QED
    BY <1>1, <2>1, MoveFits
<1>5. CASE EscalateEmployeeWarning(c)
  <2> PICK w \in Warnings :
         /\ In(w, {"ISSUED", "ACKNOWLEDGED", "APPEAL_UPHELD", "APPEAL_AMENDED"})
         /\ Reads(c, w, "update", [status |-> "ESCALATED"], {})
    BY <1>5 DEF EscalateEmployeeWarning
  <2>1. Exists(w) /\ row[w].status \notin Pipeline
    BY DEF Pipeline
  <2> QED
    BY <1>1, <2>1, MoveFits
<1>6. CASE VoidEmployeeWarning(c)
  <2> PICK w \in Warnings :
         /\ In(w, Statuses \ (Pipeline \cup {"VOIDED"}))
         /\ Reads(c, w, "update", [status |-> "VOIDED"], {})
    BY <1>6 DEF VoidEmployeeWarning
  <2>1. Exists(w) /\ row[w].status \notin Pipeline
    OBVIOUS
  <2> QED
    BY <1>1, <2>1, MoveFits
<1> QED
  BY <1>2, <1>3, <1>4, <1>5, <1>6, IssueFits, ResendFits, DecideFits DEF Deciding

-----------------------------------------------------------------------------
(* Handlers that write                                                     *)

LEMMA CallsHere ==
    ASSUME WarningsInv, NEW c \in Callers, call[c].op # "idle"
    PROVE  call[c] \in Calls /\ Lawful(call[c], row, issued, torn)
  BY DEF WarningsInv, Types, CallsFit, Idle

\* An update: lawful for the status that was read, whatever the row is by now.
LEMMA UpdatesFit ==
    ASSUME WarningsInv, NEW c \in Callers, Updates(c)
    PROVE  Step
<1> DEFINE q == call[c]
           w == q.w
           n == Patched(row[w], q.data)
<1>1. q \in Calls /\ q.op = "update" /\ w \in Warnings /\ Lawful(q, row, issued, torn)
  BY CallsHere DEF Updates, Calls
<1>2. /\ Exists(w) /\ row' = [row EXCEPT ![w] = n] /\ call' = [call EXCEPT ![c] = Idle]
      /\ Torn(c, w) /\ UNCHANGED <<letters, issued>>
  BY DEF Updates
<1>3. row[w] \in Rows /\ Counts(w, row[w], issued)
  BY <1>1, <1>2, RowsHere
<1>4. /\ q.data \in Data
      /\ q.seen \in Pipeline => OfDraft(q.data)
      /\ q.seen \notin Pipeline => OfIssued(q.data) /\ w \in issued
  BY <1>1 DEF Lawful
<1>5. /\ n \in Rows
      /\ \A f \in {"status", "refused", "outcome", "facts", "reason", "severity"} :
            n[f] = IF f \in DOMAIN q.data THEN q.data[f] ELSE row[w][f]
      /\ n["note"] = row[w]["note"] /\ n["files"] = row[w]["files"]
      /\ "status" \in DOMAIN q.data /\ q.data.status \in Decided => "outcome" \in DOMAIN q.data
      /\ "outcome" \in DOMAIN q.data => q.data.outcome \in Decisions
  BY <1>3, <1>4, PatchFits
<1> HIDE DEF n
<1>6. "none" \notin Decisions
  BY DEF Decisions
<1>7. Counts(w, n, issued)
  <2>1. n.status \in Decided => n.outcome # "none"
    BY <1>3, <1>5, <1>6 DEF Counts
  <2>2. CASE w \in issued
    BY <2>1, <2>2 DEF Counts
  <2>3. CASE w \notin issued
    <3>1. OfDraft(q.data)
      BY <1>4, <2>3
    <3>2. n.refused = row[w].refused /\ n.outcome = row[w].outcome
      BY <1>5, <3>1 DEF OfDraft
    <3>3. n.status \in Pipeline
      BY <1>3, <1>5, <2>3, <3>1 DEF OfDraft, Counts
    <3> QED
      BY <1>3, <2>1, <3>2, <3>3 DEF Counts
  <2> QED
    BY <2>2, <2>3
<1>8. ASSUME row[w].status = call[c].seen, w \in issued \ torn
      PROVE  Stands(row[w], n)
  <2>1. row[w].status \notin Pipeline
    BY <1>1, <1>2, <1>8, RowsHere DEF Tells
  <2>2. OfIssued(q.data)
    BY <1>4, <1>8, <2>1
  <2>3. n.status \notin Pipeline
    BY <1>5, <2>1, <2>2 DEF OfIssued
  <2>4. n["facts"] = row[w]["facts"] /\ n["reason"] = row[w]["reason"]
    BY <1>5, <2>2 DEF OfIssued
  <2>5. n.severity # row[w].severity => n.status \in Decided
    BY <1>5, <2>2 DEF OfIssued
  <2> QED
    BY <1>5, <2>3, <2>4, <2>5 DEF Stands
<1>9. Idle.op = "idle" /\ issued \in SUBSET Warnings
  BY DEF Idle, WarningsInv, Types
<1> QED
  BY <1>1, <1>2, <1>5, <1>7, <1>8, <1>9, WriteFits

\* An issue: whatever the row is by now, HR has issued it, and the letter that
\* the handler goes on to is the one the row prints.
LEMMA IssuesFit ==
    ASSUME WarningsInv, NEW c \in Callers, Issues(c)
    PROVE  Step
<1> DEFINE q == call[c]
           w == q.w
           n == Patched(row[w], q.data)
           I == issued \cup {w}
           next == [call[c] EXCEPT !.op = "letter", !.data = Letter(row[w], n)]
<1>1. q \in Calls /\ q.op = "issue" /\ w \in Warnings /\ Lawful(q, row, issued, torn)
  BY CallsHere DEF Issues, Calls
<1>2. /\ Exists(w) /\ row' = [row EXCEPT ![w] = n] /\ issued' = I
      /\ call' = [call EXCEPT ![c].op = "letter", ![c].data = Letter(row[w], n)]
      /\ Torn(c, w) /\ UNCHANGED letters
  BY DEF Issues
<1>3. row[w] \in Rows /\ Counts(w, row[w], issued)
  BY <1>1, <1>2, RowsHere
<1>4. q.data \in Notes /\ q.seen \in Pipeline
  BY <1>1 DEF Lawful
<1>5. /\ n \in Rows /\ n.status = "ISSUED"
      /\ n.refused = row[w].refused /\ n.outcome = row[w].outcome
  BY <1>3, <1>4, NoteFits
<1> HIDE DEF n
<1>6. /\ call' = [call EXCEPT ![c] = next]
      /\ next \in Calls /\ next.op = "letter" /\ next.w = w /\ next.data = Printed(n)
      /\ Printed(n) \in Letters
  <2>1. Printed(n) \in Letters /\ Letter(row[w], n) = Printed(n)
    BY <1>5, PrintedFits DEF Letter
  <2>2. call' = [call EXCEPT ![c] = next]
    BY <1>1, <1>2 DEF WarningsInv, Types
  <2>3. next \in Calls /\ next.op = "letter" /\ next.w = w /\ next.data = Letter(row[w], n)
    BY <1>1, <2>1 DEF Calls, Ops
  <2> QED
    BY <2>1, <2>2, <2>3
<1> HIDE DEF next
<1>7. row'[w] = n
  BY <1>1, <1>2 DEF WarningsInv, Types
<1>8. Lawful(next, row', I, torn')
  BY <1>6, <1>7 DEF Lawful
<1>9. Counts(w, n, I)
  BY <1>5 DEF Counts, Decided
<1>10. ASSUME row[w].status = call[c].seen, w \in issued \ torn
       PROVE  FALSE
  BY <1>1, <1>2, <1>4, <1>10, RowsHere DEF Tells
<1>11. I \in SUBSET Warnings /\ issued \subseteq I /\ n.status \notin Pipeline
  BY <1>1, <1>5 DEF WarningsInv, Types, Pipeline
<1> QED
  BY <1>1, <1>2, <1>5, <1>6, <1>8, <1>9, <1>10, <1>11, WriteFits

\* A letter goes out: the warning was issued, and unless it is torn its row
\* prints this letter.
LEMMA SendsFit ==
    ASSUME WarningsInv, NEW c \in Callers, Sends(c)
    PROVE  Step
<1> DEFINE w == call[c].w
           letter == call[c].data
<1>1. call[c].op = "letter" /\ w \in Warnings /\ Lawful(call[c], row, issued, torn)
  BY CallsHere DEF Sends, Calls
<1>2. letters' = [letters EXCEPT ![w] = @ \cup {letter}]
      /\ call' = [call EXCEPT ![c] = Idle] /\ UNCHANGED <<row, issued, torn>>
  BY DEF Sends
<1>3. /\ letter \in Letters /\ w \in issued
      /\ w \notin torn /\ row[w] # NoRow => letter = Printed(row[w])
  BY <1>1 DEF Lawful
<1> HIDE DEF letter
<1>4. letters'[w] = letters[w] \cup {letter}
      /\ \A v \in Warnings \ {w} : letters'[v] = letters[v]
  BY <1>1, <1>2 DEF WarningsInv, Types
<1>5. Types'
  <2>1. letters' \in [Warnings -> SUBSET Letters]
    BY <1>1, <1>2, <1>3 DEF WarningsInv, Types
  <2>2. call' \in [Callers -> Calls \cup {Idle}]
    BY <1>2 DEF WarningsInv, Types
  <2> QED
    BY <1>2, <2>1, <2>2 DEF WarningsInv, Types
<1>6. ASSUME NEW d \in Callers, call'[d].op # "idle"
      PROVE  Lawful(call'[d], row, issued, torn)
  BY <1>2, <1>6 DEF WarningsInv, Types, CallsFit, Idle
<1>7. CallsFit'
  BY <1>2, <1>6 DEF CallsFit
<1>8. \A v \in Warnings : letters'[v] # {} => v \in issued
  BY <1>3, <1>4 DEF WarningsInv
<1>9. ASSUME NEW v \in Warnings \ torn, row[v] # NoRow
      PROVE  Tells(v, row[v], letters', issued)
  <2>1. Tells(v, row[v], letters, issued)
    BY <1>9 DEF WarningsInv, Exists
  <2> QED
    BY <1>3, <1>4, <1>9, <2>1 DEF Tells
<1>10. WarningsInv'
  BY <1>2, <1>5, <1>7, <1>8, <1>9 DEF WarningsInv, Exists
<1>11. ASSUME NEW v \in issued \ torn, row[v] # NoRow
       PROVE  Stands(row[v], row[v])
  BY <1>11 DEF WarningsInv, Types, Exists, Tells, Stands
<1> QED
  BY <1>2, <1>10, <1>11 DEF Step

\* A write of the files of a row, by one of the loop's steps or in one step.
LEMMA FilesFit ==
    ASSUME WarningsInv, NEW c \in Callers, call[c].op \in {"upload", "detach"},
           Exists(call[c].w), NEW files \in SUBSET Files, NEW next \in Calls \cup {Idle},
           next.op # "idle" => next.op = "upload" /\ next.seen = call[c].seen,
           row' = [row EXCEPT ![call[c].w].files = files],
           call' = [call EXCEPT ![c] = next], Torn(c, call[c].w), UNCHANGED <<letters, issued>>
    PROVE  Step
<1> DEFINE w == call[c].w
           r == [row[w] EXCEPT !.files = files]
<1>1. w \in Warnings /\ call[c].seen \in Pipeline
  BY CallsHere DEF Calls, Lawful
<1>2. row[w] \in Rows /\ Counts(w, row[w], issued)
  BY <1>1, RowsHere
<1>3. /\ r \in Rows /\ r.status = row[w].status /\ r.refused = row[w].refused
      /\ r.outcome = row[w].outcome
  BY <1>2 DEF Rows
<1>4. row' = [row EXCEPT ![w] = r]
  OBVIOUS
<1>5. ASSUME row[w].status = call[c].seen, w \in issued \ torn
      PROVE  FALSE
  BY <1>1, <1>5, RowsHere DEF Tells
<1> HIDE DEF r
<1>6. Counts(w, r, issued)
  BY <1>2, <1>3 DEF Counts
<1>7. next.op # "idle" => Lawful(next, row', issued, torn')
  BY <1>1 DEF Lawful
<1>8. issued \in SUBSET Warnings
  BY DEF WarningsInv, Types
<1> QED
  BY <1>1, <1>3, <1>4, <1>5, <1>6, <1>7, <1>8, WriteFits

LEMMA AttachesFit ==
    ASSUME WarningsInv, NEW c \in Callers, Attaches(c)
    PROVE  Step
<1>1. call[c].op = "upload" /\ Exists(call[c].w) /\ call[c] \in Calls
  BY CallsHere DEF Attaches
<1>2. PICK a \in call[c].files :
         /\ row' = [row EXCEPT ![call[c].w].files = @ \cup {a}]
         /\ call' = [call EXCEPT ![c] = IF call[c].files \ {a} = {} THEN Idle
                                        ELSE [call[c] EXCEPT !.files = call[c].files \ {a}]]
  BY DEF Attaches
<1>3. Torn(c, call[c].w) /\ UNCHANGED <<letters, issued>>
  BY DEF Attaches
<1>4. row[call[c].w] \in Rows
  BY <1>1, RowsHere DEF Calls
<1> DEFINE files == row[call[c].w].files \cup {a}
           next == IF call[c].files \ {a} = {} THEN Idle
                   ELSE [call[c] EXCEPT !.files = call[c].files \ {a}]
<1>5. files \in SUBSET Files
  BY <1>1, <1>2, <1>4 DEF Calls, Rows
<1>6. row' = [row EXCEPT ![call[c].w].files = files]
  BY <1>2
<1>7. /\ next \in Calls \cup {Idle}
      /\ next.op # "idle" => next.op = "upload" /\ next.seen = call[c].seen
  BY <1>1 DEF Calls, Idle
<1>8. call' = [call EXCEPT ![c] = next]
  BY <1>2
<1> HIDE DEF files, next
<1> QED
  BY <1>1, <1>3, <1>5, <1>6, <1>7, <1>8, FilesFit

LEMMA DetachesFit ==
    ASSUME WarningsInv, NEW c \in Callers, Detaches(c)
    PROVE  Step
<1>1. call[c].op = "detach" /\ Exists(call[c].w) /\ call[c] \in Calls
  BY CallsHere DEF Detaches
<1>2. /\ row' = [row EXCEPT ![call[c].w].files = @ \ call[c].files]
      /\ call' = [call EXCEPT ![c] = Idle]
      /\ Torn(c, call[c].w) /\ UNCHANGED <<letters, issued>>
  BY DEF Detaches
<1>3. row[call[c].w] \in Rows
  BY <1>1, RowsHere DEF Calls
<1> DEFINE files == row[call[c].w].files \ call[c].files
<1>4. files \in SUBSET Files
  BY <1>3 DEF Rows
<1>5. row' = [row EXCEPT ![call[c].w].files = files]
  BY <1>2
<1>6. Idle.op = "idle"
  BY DEF Idle
<1> HIDE DEF files
<1> QED
  BY <1>1, <1>2, <1>4, <1>5, <1>6, FilesFit

LEMMA DeletesFit ==
    ASSUME WarningsInv, NEW c \in Callers, Deletes(c)
    PROVE  Step
<1>1. call[c].w \in Warnings
  BY CallsHere DEF Deletes, Calls
<1>2. /\ Exists(call[c].w) /\ row' = [row EXCEPT ![call[c].w] = NoRow]
      /\ call' = [call EXCEPT ![c] = Idle]
      /\ Torn(c, call[c].w) /\ UNCHANGED <<letters, issued>>
  BY DEF Deletes
<1>3. Idle.op = "idle" /\ issued \in SUBSET Warnings
  BY DEF Idle, WarningsInv, Types
<1> QED
  BY <1>1, <1>2, <1>3, WriteFits

LEMMA FailsFit ==
    ASSUME WarningsInv, NEW c \in Callers, Fails(c)
    PROVE  Step
<1>1. call' = [call EXCEPT ![c] = Idle] /\ UNCHANGED <<row, letters, issued, torn>>
  BY DEF Fails
<1>2. Idle.op = "idle"
  BY DEF Idle
<1> QED
  BY <1>1, <1>2, CallFits

-----------------------------------------------------------------------------
(* Theorems                                                                *)

LEMMA InitFits == Init => WarningsInv
<1> SUFFICES ASSUME Init PROVE WarningsInv
  OBVIOUS
<1>1. Types
  BY DEF Init, Types
<1>2. \A w \in Warnings : ~Exists(w)
  BY DEF Init, Exists
<1>3. CallsFit
  BY DEF Init, CallsFit, Idle
<1>4. \A w \in Warnings : letters[w] = {}
  BY DEF Init
<1> QED
  BY <1>1, <1>2, <1>3, <1>4 DEF WarningsInv

LEMMA NextFits == WarningsInv /\ Next => Step
<1> SUFFICES ASSUME WarningsInv, Next PROVE Step
  OBVIOUS
<1>1. CASE \E c \in Admins \cup Managers : Drafting(c)
  BY <1>1, DraftingFits
<1>2. CASE \E c \in Admins \cup {Employee} : Answering(c)
  BY <1>2, AnsweringFits
<1>3. CASE \E c \in Admins : Deciding(c)
  BY <1>3, DecidingFits
<1>4. CASE \E c \in Callers : Finishing(c)
  BY <1>4, UpdatesFit, IssuesFit, SendsFit, AttachesFit, DetachesFit, DeletesFit, FailsFit
     DEF Finishing
<1> QED
  BY <1>1, <1>2, <1>3, <1>4 DEF Next

\* In every reachable state what a handler is about to write is lawful for the
\* status it read, and each row fits its letters.
THEOREM WarningsInvariant == Spec => []WarningsInv
<1>1. WarningsInv /\ UNCHANGED vars => WarningsInv'
  BY DEF vars, WarningsInv, Types, CallsFit, Exists
<1>2. WarningsInv /\ [Next]_vars => WarningsInv'
  BY <1>1, NextFits DEF Step
<1> QED
  BY <1>2, InitFits, PTL DEF Spec

\* Rows, letters and handlers in flight stay in their types.
THEOREM WarningsTypes == Spec => []TypeOK
<1>1. WarningsInv => TypeOK
  <2> SUFFICES ASSUME WarningsInv PROVE TypeOK
    OBVIOUS
  <2>1. \A w \in Warnings : Exists(w) => row[w] \in Rows
    BY RowsHere
  <2>2. \A w \in Warnings : letters[w] \subseteq Letters
    BY DEF WarningsInv, Types
  <2>3. \A c \in Callers : call[c] \in Calls \/ call[c] = Idle
    BY DEF WarningsInv, Types, Calls
  <2>4. issued \subseteq Warnings /\ torn \subseteq Warnings
    BY DEF WarningsInv, Types
  <2> QED
    BY <2>1, <2>2, <2>3, <2>4 DEF TypeOK, Rows, Letters, Idle, Ops, Calls
<1> QED
  BY <1>1, WarningsInvariant, PTL

\* However handlers interleave and whatever writes are lost, no warning counts,
\* is answered or decided, and no letter goes out, but HR issued the warning.
THEOREM NothingUnissuedEverCounts == Spec => []NothingUnissuedCounts
<1>1. WarningsInv => NothingUnissuedCounts
  BY DEF WarningsInv, Counts, NothingUnissuedCounts
<1> QED
  BY <1>1, WarningsInvariant, PTL

\* While no handler writes out of the status it read, every letter that went out
\* is the one the row prints.
THEOREM LettersTellTheirCases == Spec => []LettersTellTheCase
<1>1. WarningsInv => LettersTellTheCase
  BY DEF WarningsInv, Tells, LettersTellTheCase
<1> QED
  BY <1>1, WarningsInvariant, PTL

\* A step that writes into the status its handler read leaves an issued case as
\* it is, but for the severity that a decision on an appeal writes.
THEOREM IssuedCasesAreKept == Spec => IssuedCasesStand
<1> DEFINE Kept == \A w \in (issued \cap issued') \ torn' : Exists(w) /\ Exists(w)' =>
                      /\ row'[w].status \notin Pipeline
                      /\ \A f \in {"facts", "reason", "note", "files"} : row'[w][f] = row[w][f]
                      /\ row'[w].severity # row[w].severity => row'[w].status \in Decided
<1>1. WarningsInv /\ [Next]_vars => [Kept]_vars
  BY NextFits DEF Step, Stands, Exists
<1>2. [][Kept]_vars => IssuedCasesStand
  BY DEF IssuedCasesStand
<1> QED
  BY <1>1, <1>2, WarningsInvariant, PTL DEF Spec
=============================================================================
