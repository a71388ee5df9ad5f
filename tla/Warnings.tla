------------------------------ MODULE Warnings ------------------------------
(***************************************************************************)
(* The disciplinary warnings of one employee                               *)
(* (controllers/employee-warning.controller.js): a draft is written,       *)
(* reviewed and issued; the employee acknowledges, refuses or appeals; HR  *)
(* decides the appeal, resolves, escalates or voids.                       *)
(*                                                                         *)
(* Every handler loads the warning, checks its status, and then updates    *)
(* the row by its id alone, so another handler may have moved the warning  *)
(* in between.  An update writes some columns and keeps the others.  The   *)
(* letter of an issued warning is printed from the row that the update     *)
(* gave back, and is filed and mailed after it, or never.                  *)
(***************************************************************************)
EXTENDS Integers, FiniteSets, FiniteSetsExt

CONSTANTS
    Warnings,       \* identifiers of the employee's warnings
    Admins,         \* HR_ADMIN and SUPER_ADMIN users
    Managers,       \* DEPARTMENT_ADMIN users in charge of the employee
    Employee,       \* the employee, a STAFF user
    Facts,          \* title, category, incident date and policy of a case
    Texts,          \* what was observed: the reason of a draft, the note of an issue
    NoText,         \* no note
    Files,          \* attachments that may be uploaded
    MaxInFlight     \* bound on the handlers in flight at once

Callers == Admins \cup Managers \cup {Employee}

ASSUME WarningsAssumption ==
    /\ Admins \cap Managers = {} /\ Employee \notin Admins \cup Managers
    /\ NoText \notin Texts
    /\ MaxInFlight \in Nat

Pipeline == {"DRAFT", "PENDING_HR_REVIEW"}
Answerable == {"ISSUED", "ACKNOWLEDGED", "ESCALATED"}
Decisions == {"UPHOLD", "AMEND", "VOID"}
Decided == {"APPEAL_UPHELD", "APPEAL_AMENDED", "APPEAL_VOIDED"}
Effective == Answerable \cup {"APPEAL_OPEN", "APPEAL_REVIEW", "APPEAL_UPHELD", "APPEAL_AMENDED"}
Statuses == Pipeline \cup Effective \cup {"APPEAL_VOIDED", "RESOLVED", "VOIDED"}

\* Two of the four: no status depends on them.
Severities == {"HIGH", "FINAL"}
Outcomes == Decisions \cup {"none"}

VARIABLES
    row,        \* the EmployeeWarning rows and their attachments
    call,       \* what each user's handler in flight is about to write
    letters,    \* the letters of each warning that were filed or mailed
    issued,     \* history: the warnings that HR has issued
    torn        \* history: warnings written out of the status that was read

vars == <<row, call, letters, issued, torn>>

NoRow == [status |-> "none"]
Exists(w) == row[w] # NoRow
Idle == [op |-> "idle", data |-> [x \in {} |-> {}], files |-> {}, seen |-> "none"]

Init ==
    /\ row = [w \in Warnings |-> NoRow]
    /\ call = [c \in Callers |-> Idle]
    /\ letters = [w \in Warnings |-> {}]
    /\ issued = {} /\ torn = {}

-----------------------------------------------------------------------------
(* Reading and writing                                                     *)

Concerns(c, w) == call[c].op # "idle" /\ call[c].w = w

InFlight == {c \in Callers : call[c].op # "idle"}

\* A handler of user c read w, and is about to write data or to work on files.
Reads(c, w, op, data, files) ==
    /\ call[c].op = "idle" /\ Cardinality(InFlight) < MaxInFlight
    /\ call' = [call EXCEPT ![c] = [op |-> op, w |-> w, data |-> data, files |-> files,
                                    seen |-> row[w].status]]
    /\ UNCHANGED <<row, letters, issued, torn>>

\* prisma.employeeWarning.update({ where: { id }, data }).
Patched(r, data) == [f \in DOMAIN r |-> IF f \in DOMAIN data THEN data[f] ELSE r[f]]

Torn(c, w) == torn' = IF row[w].status = call[c].seen THEN torn ELSE torn \cup {w}

-----------------------------------------------------------------------------
(* The draft                                                               *)

\* Of an author only matters which manager it was, if one.
Draft(c, facts, reason, severity) ==
    [status |-> "DRAFT", author |-> IF c \in Managers THEN c ELSE "HR",
     facts |-> facts, reason |-> reason, note |-> NoText, severity |-> severity,
     refused |-> FALSE, outcome |-> "none", files |-> {}]

\* A new row has a new identifier, which no handler in flight may know.  The
\* model follows as many warnings as it has identifiers (a bound): a new one may
\* take the place of one that is left as it is from now on.
Creates(c, w, facts, reason, severity) ==
    /\ call[c].op = "idle" /\ Cardinality(InFlight) < MaxInFlight
    /\ \A d \in Callers : ~Concerns(d, w)
    /\ row' = [row EXCEPT ![w] = Draft(c, facts, reason, severity)]
    /\ letters' = [letters EXCEPT ![w] = {}]
    /\ issued' = issued \ {w} /\ torn' = torn \ {w}
    /\ UNCHANGED call

CreateEmployeeWarningDraft(c) ==
    \E w \in Warnings : \E facts \in Facts :
       \E reason \in Texts : \E severity \in Severities : Creates(c, w, facts, reason, severity)

\* The copy takes the facts, the reason and the severity, and neither files nor history.
DuplicateEmployeeWarningAsDraft(c) ==
    \E w, copy \in Warnings :
       Exists(w) /\ Creates(c, copy, row[w].facts, row[w].reason, row[w].severity)

\* Mutant: the status of the draft is not looked at.
MayEditAny(c, w) == Exists(w) /\ (c \in Managers => row[w].author = c)

\* assertCanEditDraft and assertCanSubmitWarning: managers touch their own drafts.
MayEdit(c, w) ==
    /\ Exists(w) /\ row[w].status = "DRAFT"
    /\ c \in Managers => row[w].author = c

UpdateEmployeeWarningDraft(c) ==
    \E w \in Warnings :
       /\ MayEdit(c, w)
       /\ \/ \E facts \in Facts : Reads(c, w, "update", [facts |-> facts], {})
          \/ \E reason \in Texts : Reads(c, w, "update", [reason |-> reason], {})
          \/ \E severity \in Severities : Reads(c, w, "update", [severity |-> severity], {})

UploadEmployeeWarningAttachments(c) ==
    \E w \in Warnings : \E files \in SUBSET Files \ {{}} :
       MayEdit(c, w) /\ Reads(c, w, "upload", Idle.data, files)

DeleteEmployeeWarningAttachment(c) ==
    \E w \in Warnings : MayEdit(c, w) /\ \E a \in row[w].files : Reads(c, w, "detach", Idle.data, {a})

DeleteEmployeeWarningDraft(c) ==
    \E w \in Warnings : MayEdit(c, w) /\ Reads(c, w, "delete", Idle.data, {})

SubmitEmployeeWarningForReview(c) ==
    \E w \in Warnings :
       MayEdit(c, w) /\ Reads(c, w, "update", [status |-> "PENDING_HR_REVIEW"], {})

-----------------------------------------------------------------------------
(* Review and issue                                                        *)

In(w, S) == Exists(w) /\ row[w].status \in S

ReturnEmployeeWarningToDraft(c) ==
    \E w \in Warnings :
       In(w, {"PENDING_HR_REVIEW"}) /\ Reads(c, w, "update", [status |-> "DRAFT"], {})

\* The note of an issue is written over the note of an earlier one.
IssueEmployeeWarning(c) ==
    \E w \in Warnings : \E note \in Texts \cup {NoText} :
       /\ In(w, {"PENDING_HR_REVIEW"})
       /\ Reads(c, w, "issue", [status |-> "ISSUED", note |-> note], {})

\* The letter says what HR wrote when it issued the warning, else the reason of
\* the draft; neither the severity nor the attachments are in it.
Printed(r) == [facts |-> r.facts, text |-> IF r.note = NoText THEN r.reason ELSE r.note]

\* Mutant: the letter is printed from the warning that was loaded.
LetterOfLoaded(loaded, updated) == Printed(loaded)

\* The letter is printed from the row that the update gave back.
Letter(loaded, updated) == Printed(updated)

\* The letter is printed from the row as it is now, and mailed again.
ResendWarningIssuedNotification(c) ==
    \E w \in Warnings :
       In(w, {"ISSUED"}) /\ Reads(c, w, "letter", Printed(row[w]), {})

-----------------------------------------------------------------------------
(* The employee's answer, or HR's on the employee's behalf                 *)

AcknowledgeEmployeeWarning(c) ==
    \E w \in Warnings :
       /\ In(w, {"ISSUED"})
       /\ Reads(c, w, "update", [status |-> "ACKNOWLEDGED", refused |-> FALSE], {})

RefuseEmployeeWarningAcknowledgement(c) ==
    \E w \in Warnings : In(w, {"ISSUED"}) /\ Reads(c, w, "update", [refused |-> TRUE], {})

\* Mutant: drafts may be appealed, as whatever is not closed.
AppealableIfOpen(w) == In(w, Answerable \cup Pipeline)

Appealable(w) == In(w, Answerable)

SubmitEmployeeWarningAppeal(c) ==
    \E w \in Warnings :
       Appealable(w) /\ Reads(c, w, "update", [status |-> "APPEAL_OPEN"], {})

-----------------------------------------------------------------------------
(* HR's side of an appeal, and the end of a case                           *)

ReviewEmployeeWarningAppeal(c) ==
    \E w \in Warnings :
       In(w, {"APPEAL_OPEN"}) /\ Reads(c, w, "update", [status |-> "APPEAL_REVIEW"], {})

DecisionStatus ==
    [UPHOLD |-> "APPEAL_UPHELD", AMEND |-> "APPEAL_AMENDED", VOID |-> "APPEAL_VOIDED"]

\* Mutant: the status is made from the word of the body.
DecisionByName(r, decision, severity) ==
    [status |-> decision, outcome |-> decision, severity |-> r.severity]

\* Uphold and void write the severity that was read back.
Decision(r, decision, severity) ==
    [status |-> DecisionStatus[decision], outcome |-> decision,
     severity |-> IF decision = "AMEND" THEN severity ELSE r.severity]

DecideEmployeeWarningAppeal(c) ==
    \E w \in Warnings : \E decision \in Decisions : \E severity \in Severities :
       /\ In(w, {"APPEAL_REVIEW"})
       /\ Reads(c, w, "update", Decision(row[w], decision, severity), {})

ResolveEmployeeWarning(c) ==
    \E w \in Warnings :
       /\ In(w, Answerable \cup {"APPEAL_UPHELD", "APPEAL_AMENDED"})
       /\ Reads(c, w, "update", [status |-> "RESOLVED"], {})

EscalateEmployeeWarning(c) ==
    \E w \in Warnings :
       /\ In(w, {"ISSUED", "ACKNOWLEDGED", "APPEAL_UPHELD", "APPEAL_AMENDED"})
       /\ Reads(c, w, "update", [status |-> "ESCALATED"], {})

\* Even a resolved warning may be voided.
VoidEmployeeWarning(c) ==
    \E w \in Warnings :
       In(w, Statuses \ (Pipeline \cup {"VOIDED"})) /\ Reads(c, w, "update", [status |-> "VOIDED"], {})

-----------------------------------------------------------------------------
(* The writes                                                              *)

Updates(c) ==
    /\ call[c].op = "update"
    /\ LET w == call[c].w
       IN  /\ Exists(w)
           /\ row' = [row EXCEPT ![w] = Patched(@, call[c].data)]
           /\ Torn(c, w)
    /\ call' = [call EXCEPT ![c] = Idle]
    /\ UNCHANGED <<letters, issued>>

\* The handler goes on to the letter, with the row that the update gave back.
Issues(c) ==
    /\ call[c].op = "issue"
    /\ LET w == call[c].w
           next == Patched(row[w], call[c].data)
       IN  /\ Exists(w)
           /\ row' = [row EXCEPT ![w] = next]
           /\ issued' = issued \cup {w}
           /\ Torn(c, w)
           /\ call' = [call EXCEPT ![c].op = "letter", ![c].data = Letter(row[w], next)]
    /\ UNCHANGED letters

\* The letter is filed among the employee's documents or mailed.  The handler may
\* die before it, and a failure is logged and forgotten: that is Fails.
Sends(c) ==
    /\ call[c].op = "letter"
    /\ letters' = [letters EXCEPT ![call[c].w] = @ \cup {call[c].data}]
    /\ call' = [call EXCEPT ![c] = Idle]
    /\ UNCHANGED <<row, issued, torn>>

\* One file is stored and attached per step; the loop goes on with the others.
Attaches(c) ==
    /\ call[c].op = "upload" /\ Exists(call[c].w)
    /\ \E a \in call[c].files :
          LET left == call[c].files \ {a}
          IN  /\ row' = [row EXCEPT ![call[c].w].files = @ \cup {a}]
              /\ call' = [call EXCEPT ![c] = IF left = {} THEN Idle
                                             ELSE [call[c] EXCEPT !.files = left]]
    /\ Torn(c, call[c].w) /\ UNCHANGED <<letters, issued>>

\* A second removal of the same attachment fails.
Detaches(c) ==
    /\ call[c].op = "detach" /\ Exists(call[c].w)
    /\ call[c].files \subseteq row[call[c].w].files
    /\ row' = [row EXCEPT ![call[c].w].files = @ \ call[c].files]
    /\ call' = [call EXCEPT ![c] = Idle]
    /\ Torn(c, call[c].w) /\ UNCHANGED <<letters, issued>>

\* The row goes by its id, whatever its status is by now.
Deletes(c) ==
    /\ call[c].op = "delete" /\ Exists(call[c].w)
    /\ row' = [row EXCEPT ![call[c].w] = NoRow]
    /\ call' = [call EXCEPT ![c] = Idle]
    /\ Torn(c, call[c].w) /\ UNCHANGED <<letters, issued>>

\* The row or the attachment is gone, or what is called fails or dies: no change.
Fails(c) ==
    /\ call[c].op # "idle"
    /\ call' = [call EXCEPT ![c] = Idle]
    /\ UNCHANGED <<row, letters, issued, torn>>

-----------------------------------------------------------------------------

Drafting(c) ==
    \/ CreateEmployeeWarningDraft(c) \/ DuplicateEmployeeWarningAsDraft(c)
    \/ UpdateEmployeeWarningDraft(c) \/ DeleteEmployeeWarningDraft(c)
    \/ UploadEmployeeWarningAttachments(c) \/ DeleteEmployeeWarningAttachment(c)
    \/ SubmitEmployeeWarningForReview(c)

Answering(c) ==
    \/ AcknowledgeEmployeeWarning(c) \/ RefuseEmployeeWarningAcknowledgement(c)
    \/ SubmitEmployeeWarningAppeal(c)

Deciding(c) ==
    \/ IssueEmployeeWarning(c) \/ ReturnEmployeeWarningToDraft(c)
    \/ ResendWarningIssuedNotification(c)
    \/ ReviewEmployeeWarningAppeal(c) \/ DecideEmployeeWarningAppeal(c)
    \/ ResolveEmployeeWarning(c) \/ EscalateEmployeeWarning(c) \/ VoidEmployeeWarning(c)

Finishing(c) ==
    \/ Updates(c) \/ Issues(c) \/ Sends(c)
    \/ Attaches(c) \/ Detaches(c) \/ Deletes(c) \/ Fails(c)

Next ==
    \/ \E c \in Admins \cup Managers : Drafting(c)
    \/ \E c \in Admins \cup {Employee} : Answering(c)
    \/ \E c \in Admins : Deciding(c)
    \/ \E c \in Callers : Finishing(c)

Spec == Init /\ [][Next]_vars

-----------------------------------------------------------------------------

\* Rows and letters stay in their types, and work in flight is about a warning.
TypeOK ==
    /\ \A w \in Warnings : Exists(w) =>
          row[w] \in [status : Statuses, author : Managers \cup {"HR"}, facts : Facts, reason : Texts,
                      note : Texts \cup {NoText}, severity : Severities, refused : BOOLEAN,
                      outcome : Outcomes, files : SUBSET Files]
    /\ \A w \in Warnings : letters[w] \subseteq [facts : Facts, text : Texts]
    /\ \A c \in Callers :
          /\ call[c].op \in {"idle", "update", "issue", "letter", "upload", "detach", "delete"}
          /\ call[c].op # "idle" => call[c].w \in Warnings
    /\ issued \subseteq Warnings /\ torn \subseteq Warnings

\* In every interleaving, also one that loses updates, a warning that counts
\* against the employee, is answered, appealed, decided, resolved or voided, or
\* whose letter went out, is one that HR issued; and a decision that stands has
\* its outcome.  Whether the letter ever went out is not said: it may fail.
NothingUnissuedCounts ==
    \A w \in Warnings :
       /\ letters[w] # {} => w \in issued
       /\ Exists(w) =>
             /\ row[w].status \notin Pipeline => w \in issued
             /\ row[w].refused \/ row[w].outcome # "none" => w \in issued
             /\ row[w].status \in Decided => row[w].outcome # "none"

\* A warning stays what HR issued: no handler that finds it in the status it read
\* takes it back or changes its facts, reason, note or evidence, and its severity
\* changes only by a decision on an appeal (a late one to uphold may write back the
\* severity of an earlier appeal).  One that finds another status (torn) may.
IssuedCasesStand ==
    [][\A w \in (issued \cap issued') \ torn' : Exists(w) /\ Exists(w)' =>
          /\ row'[w].status \notin Pipeline
          /\ \A f \in {"facts", "reason", "note", "files"} : row'[w][f] = row[w][f]
          /\ row'[w].severity # row[w].severity => row'[w].status \in Decided]_vars

\* Every letter that was filed or mailed, by the issue or by a later resend, is
\* the one the row would print now: what is downloaded, exported or mailed again
\* in a dispute is what the employee was told.  Torn rows are exempt.
LettersTellTheCase ==
    \A w \in Warnings \ torn : Exists(w) =>
       \A letter \in letters[w] : letter = Printed(row[w])
=============================================================================
