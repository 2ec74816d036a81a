----------------------------- MODULE SubmitPage -----------------------------
(***************************************************************************)
(* The scheduling page (web/static/app.js): its user names a source, has   *)
(* the server inspect its schema, selects blob and index columns in the    *)
(* table of that schema, and submits.  The page may change while it awaits *)
(* an answer.  WebPages composes this page with the other one.             *)
(*                                                                         *)
(* For a Hugging Face dataset the source is composed of the URI and of the *)
(* revision field, which a URI with a revision fills in.  (The config and  *)
(* split fields are handled alike.)                                        *)
(***************************************************************************)
EXTENDS FiniteSets

CONSTANTS
  Inputs,       \* what may be typed as source: [name, revision], the
                \* revision None, if there is none in the URI
  IsHf(_),      \* the names that are Hugging Face datasets
  Revisions,
  Main,         \* the default revision
  None

ASSUME InputsHaveRevisions ==
  /\ Main \in Revisions /\ None \notin Revisions
  /\ \A s \in Inputs : s.revision \in Revisions \cup {None}
  /\ \A s \in Inputs : s.revision # None => IsHf(s.name)

VARIABLES
  source,       \* the source field, None when it is empty
  revision,     \* the revision field
  hydrated,     \* state.hfHydratedFrom
  inspected,    \* state.inspectedSource
  columns,      \* the source whose columns the schema table holds
  inspection,   \* the source of the inspection under way
  inspectable,  \* whether the inspect button is enabled
  submission,   \* the payload of the submission under way
  submittable   \* whether the submit button is enabled

svars == <<source, revision, hydrated, inspected, columns, inspection, inspectable,
           submission, submittable>>

\* The page opens.
SInit ==
  /\ source = None /\ revision = Main /\ hydrated = None
  /\ inspected = None /\ columns = None /\ inspection = None
  /\ inspectable = TRUE
  /\ submission = None /\ submittable = TRUE

\* The tab leaves the page, or opens it again.
Reset ==
  /\ source' = None /\ revision' = Main /\ hydrated' = None
  /\ inspected' = None /\ columns' = None /\ inspection' = None
  /\ inspectable' = TRUE
  /\ submission' = None /\ submittable' = TRUE

ComposeSourceUri(s, r) ==
  IF s = None THEN None
  ELSE [name |-> s.name, revision |-> IF IsHf(s.name) THEN r ELSE None]

\* None stands for the fields and the answers that are empty.
ASSUME NoneIsNoSource ==
  /\ None \notin Inputs
  /\ \A s \in Inputs, r \in Revisions : ComposeSourceUri(s, r) # None

-----------------------------------------------------------------------------
\* Input.

\* Invalidates what was inspected, if it is not what the fields now compose.
UpdateSourceInspection ==
  IF inspected # None /\ inspected # ComposeSourceUri(source', revision')
  THEN inspected' = None /\ columns' = None
  ELSE UNCHANGED <<inspected, columns>>

TypeSource(s) ==
  /\ s # source
  /\ source' = s
  /\ LET hydrates == IsHf(s.name) /\ hydrated # s
     IN  /\ hydrated' = IF hydrates THEN s ELSE hydrated
         /\ revision' = IF hydrates /\ s.revision # None THEN s.revision ELSE revision
  /\ UpdateSourceInspection
  /\ UNCHANGED <<inspection, inspectable, submission, submittable>>

\* The revision field is shown for Hugging Face sources only.
TypeRevision(r) ==
  /\ source # None /\ IsHf(source.name) /\ r # revision
  /\ revision' = r
  /\ UNCHANGED <<source, hydrated>>
  /\ UpdateSourceInspection
  /\ UNCHANGED <<inspection, inspectable, submission, submittable>>

-----------------------------------------------------------------------------
\* inspectSchema, up to its await and after it.  The button stays disabled
\* meanwhile, so there is never another inspection to abort.

InspectSchema ==
  /\ inspectable /\ source # None
  /\ inspection' = ComposeSourceUri(source, revision)
  /\ inspectable' = FALSE
  /\ UNCHANGED <<source, revision, hydrated, inspected, columns, submission, submittable>>

\* Mutant of Inspected: the fields are read again when the answer arrives.
InspectedNow == ComposeSourceUri(source, revision)

\* The source that an answer is taken to be about.
Inspected == inspection

InspectionAnswers ==
  /\ inspection # None
  /\ inspected' = Inspected
  /\ columns' = inspection
  /\ inspection' = None
  /\ inspectable' = TRUE
  /\ UNCHANGED <<source, revision, hydrated, submission, submittable>>

\* An error is shown in place of the table, which stays as it was.
InspectionFails ==
  /\ inspection # None
  /\ inspection' = None
  /\ inspectable' = TRUE
  /\ UNCHANGED <<source, revision, hydrated, inspected, columns, submission, submittable>>

-----------------------------------------------------------------------------
\* submitJob.  The submit button is disabled across the await, and enabled again
\* whatever the answer is.  (Between a 201 and the moment the browser has left it
\* is enabled for an instant, which is left out.)

SubmitJob ==
  /\ source # None /\ submittable
  /\ inspected = ComposeSourceUri(source, revision)
  /\ submission' = [source |-> ComposeSourceUri(source, revision), columnsOf |-> columns]
  /\ submittable' = FALSE
  /\ UNCHANGED <<source, revision, hydrated, inspected, columns, inspection, inspectable>>

\* Mutant of SubmissionFails: the button is enabled again on success only.
SubmissionFailsForGood ==
  /\ submission # None
  /\ submission' = None
  /\ UNCHANGED <<source, revision, hydrated, inspected, columns, inspection, inspectable,
                 submittable>>

\* The page stays, with an error message.
SubmissionFails ==
  /\ submission # None
  /\ submission' = None
  /\ submittable' = TRUE
  /\ UNCHANGED <<source, revision, hydrated, inspected, columns, inspection, inspectable>>

SNext ==
  \/ \E s \in Inputs : TypeSource(s)
  \/ \E r \in Revisions : TypeRevision(r)
  \/ InspectSchema \/ InspectionAnswers \/ InspectionFails
  \/ SubmitJob \/ SubmissionFails
-----------------------------------------------------------------------------
\* Properties.

\* The blob and index columns of every job were selected in the schema of the
\* very source, at the very revision, that the job converts, although fields
\* change and answers arrive in between.
SelectionsMatchSource ==
  submission # None => submission.columnsOf = submission.source

\* The page never gets stuck: whatever becomes of an inspection or a submission,
\* alone or while the other one is under way too, both can be asked for again.
ButtonsRecover ==
  /\ ~inspectable ~> inspectable
  /\ ~submittable ~> submittable
=============================================================================
