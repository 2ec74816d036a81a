------------------------------ MODULE Requests ------------------------------
(***************************************************************************)
(* From what a job asks for to what becomes of it.  A request names a      *)
(* source, a destination, blob columns and indexes; the page builds it     *)
(* from an inspection, other clients send what they like.  create_job      *)
(* looks at the schemes of the two URIs only.  All else is for convert     *)
(* to find out, attempt after attempt: the destination, the source (the    *)
(* steps of SourceFiles) and the blob columns before it writes, the        *)
(* indexes when the rows are committed.                                    *)
(***************************************************************************)
EXTENDS SourceFiles

CONSTANTS
  Sent,         \* the requests that clients other than the page may send
  NoRequest,
  MaxTries      \* how often the job is attempted

ASSUME TriesBounded == MaxTries \in Nat \ {0}

IndexTypes == {"scalar", "text", "vector"}

Index(name, index) == [name |-> name, index |-> index]

\* A path, the empty path, and URIs of three schemes, "gs" standing for any other.
Uris == {"path", "empty", "s3", "hf", "gs"}

JobRequests ==
  [by : {"page", "client"}, source : Uris, destination : Uris,
   blobs : Seq(STRING), indexes : Seq([name : STRING, index : IndexTypes])]

ASSUME SentByClients == \A r \in Sent : r \in JobRequests /\ r.by = "client"
ASSUME NoRequestIsNone == NoRequest \notin JobRequests

VARIABLES
  request,      \* the job's request
  stage,        \* where the job, or its conversion, is
  tries,        \* its attempt
  faulty,       \* whether a call failed in this attempt
  dataset       \* what is at the destination

qvars == <<fvars, request, stage, tries, faulty, dataset>>

\* location.rs, on URIs told apart by their scheme.
ParseLocation(uri) == uri # "gs"

StorageKind(uri) == IF uri \in {"s3", "hf"} THEN uri ELSE "nfs"

\* Dataset options: Hugging Face is not writable.
IsWritable(uri) == ParseLocation(uri) /\ StorageKind(uri) # "hf"

\* source_kind and the storage that lists the files.
OpensSource(uri) == ParseLocation(uri) /\ (StorageKind(uri) = "nfs" => uri # "empty")

QInit ==
  /\ FInit
  /\ request = NoRequest
  /\ stage = "none" /\ tries = 0 /\ faulty = FALSE
  /\ dataset = [rows |-> <<>>, schema |-> NoSchema, indexes |-> <<>>]

-----------------------------------------------------------------------------
\* The request.

InspectSource == Inspect /\ UNCHANGED <<request, stage, tries, faulty, dataset>>

RowsInOrder(rows) == InOrder(rows, Ascending)

\* Mutant of BlobToggles: every row of the table has one.
BlobTogglesForAll(fields) == DOMAIN fields

\* The rows of the schema table that have a blob checkbox; all have the select.
BlobToggles(fields) == {i \in DOMAIN fields : IsBlobEligible(fields[i].type)}

CollectBlobColumns(fields, ticked) ==
  LET rows == RowsInOrder(ticked)
  IN  [k \in DOMAIN rows |-> fields[rows[k]].name]

CollectIndices(fields, chosen) ==
  LET rows == RowsInOrder({i \in DOMAIN fields : chosen[i] # "none"})
  IN  [k \in DOMAIN rows |-> Index(fields[rows[k]].name, chosen[rows[k]])]

\* What the page may send.
Offered(fields) ==
  {[by |-> "page", source |-> "s3", destination |-> "path",
    blobs |-> CollectBlobColumns(fields, ticked), indexes |-> CollectIndices(fields, chosen)] :
     ticked \in SUBSET BlobToggles(fields),
     chosen \in [DOMAIN fields -> IndexTypes \cup {"none"}]}

\* create_job stores it; a scheme it does not know is refused.
Submit ==
  /\ request = NoRequest
  /\ \E r \in Sent \cup (IF inspection = NoSchema THEN {} ELSE Offered(inspection)) :
       /\ ParseLocation(r.source) /\ ParseLocation(r.destination)
       /\ request' = r
  /\ stage' = "queued" /\ tries' = 1
  /\ UNCHANGED <<fvars, faulty, dataset>>

-----------------------------------------------------------------------------
\* convert.

Begin ==
  /\ stage = "queued"
  /\ stage' = IF IsWritable(request.destination) /\ OpensSource(request.source)
              THEN "opening" ELSE "failed"
  /\ UNCHANGED <<fvars, request, tries, faulty, dataset>>

Open ==
  /\ stage = "opening"
  /\ List \/ ReadSchema \/ Validate
  /\ stage' = IF at' = "failed" THEN "failed" ELSE stage
  /\ UNCHANGED <<request, tries, faulty, dataset>>

\* Mutant of BlobPlan: the selection is looked up when a batch comes in.
BlobPlanLate ==
  /\ stage = "opening" /\ at = "streaming"
  /\ stage' = "writing"
  /\ UNCHANGED <<fvars, request, tries, faulty, dataset>>

BlobPlan ==
  /\ stage = "opening" /\ at = "streaming"
  /\ stage' = IF ValidateBlobColumns(schema, request.blobs) THEN "writing" ELSE "failed"
  /\ UNCHANGED <<fvars, request, tries, faulty, dataset>>

Write ==
  /\ stage = "writing"
  /\ StreamFile \/ EndOfStream
  /\ UNCHANGED <<request, stage, tries, faulty, dataset>>

\* Lance takes no schema in which a name occurs twice.
LanceTakes(fields) == \A i \in DOMAIN fields : NameIsUnique(fields, fields[i].name)

Commit ==
  /\ stage = "writing" /\ at = "done"
  /\ IF LanceTakes(schema)
     THEN /\ dataset' = [rows |-> streamed, schema |-> WithBlobs(schema, request.blobs),
                         indexes |-> <<>>]
          /\ stage' = "indexing"
     ELSE stage' = "failed" /\ UNCHANGED dataset
  /\ UNCHANGED <<fvars, request, tries, faulty>>

\* indexes::create: the indexes are made one after the other.
Indexed == Len(dataset.indexes)

MoreIndexes == Indexed < Len(request.indexes)

IndexOn(i, spec) ==
  [name |-> spec.name, index |-> spec.index, parts |-> Parts(spec.index, dataset.schema[i].type)]

CanIndex(i, spec) ==
  LET type == dataset.schema[i].type
  IN  spec.name # "" /\ IsMapped(spec.index, type) /\ LanceIndexes(spec.index, type, Parts(spec.index, type))

CreateIndex ==
  /\ stage = "indexing" /\ MoreIndexes
  /\ LET spec     == request.indexes[Indexed + 1]
         suitable == {i \in ColumnsNamed(dataset.schema, spec.name) : CanIndex(i, spec)}
     IN  \/ \E i \in suitable :
              /\ dataset' = [dataset EXCEPT !.indexes = Append(@, IndexOn(i, spec))]
              /\ UNCHANGED stage
         \/ suitable = {} /\ stage' = "failed" /\ UNCHANGED dataset
  /\ UNCHANGED <<fvars, request, tries, faulty>>

Finish ==
  /\ stage = "indexing" /\ ~MoreIndexes
  /\ stage' = "succeeded"
  /\ UNCHANGED <<fvars, request, tries, faulty, dataset>>

\* A read, a blob, the commit or an index fails for reasons of its own, such as
\* too few rows to train a vector index.
Fault ==
  /\ stage \in {"opening", "writing", "indexing"}
  /\ ReadFails \/ (at = "done" /\ UNCHANGED fvars)
  /\ stage' = "failed" /\ faulty' = TRUE
  /\ UNCHANGED <<request, tries, dataset>>

\* The next attempt, in a dataset that the last one may have overwritten.
Retry ==
  /\ stage = "failed" /\ tries < MaxTries
  /\ Start
  /\ stage' = "queued" /\ tries' = tries + 1 /\ faulty' = FALSE
  /\ UNCHANGED <<content, inspection, request, dataset>>

QNext ==
  \/ InspectSource \/ Submit
  \/ Begin \/ Open \/ BlobPlan \/ Write \/ Commit
  \/ CreateIndex \/ Finish \/ Fault
  \/ Retry

QSpec == QInit /\ [][QNext]_qvars
-----------------------------------------------------------------------------
\* What a request needs to be converted, without regard to when it is found out.

FilesAgree ==
  \E s \in Schemas, e \in Entries :
    /\ content[e] = s
    /\ \A f \in Entries : content[f] \in {NoSchema, s}

IsString(leaf) == leaf \in {"utf8", "large_utf8", "utf8_view"}

IsVector(type) ==
  /\ type.in \in {<<"fixed_list">>, <<"list", "fixed_list">>}
  /\ type.leaf \in {"float", "uint8"} /\ type.size > 0

BlobsFit(fields, blobs) ==
  /\ IsInjective(blobs)
  /\ \A k \in DOMAIN blobs : \E i \in DOMAIN fields :
       fields[i].name = blobs[k] /\ fields[i].type.in = <<>> /\ IsString(fields[i].type.leaf)

IndexesFit(fields, r) ==
  \A k \in DOMAIN r.indexes : \E i \in DOMAIN fields :
    /\ fields[i].name = r.indexes[k].name /\ r.indexes[k].name # ""
    /\ \A b \in DOMAIN r.blobs : r.blobs[b] # r.indexes[k].name
    /\ CASE r.indexes[k].index = "scalar" -> fields[i].type.in = <<>>
         [] r.indexes[k].index = "text"   -> /\ fields[i].type.in \in {<<>>, <<"list">>}
                                            /\ IsString(fields[i].type.leaf)
         [] r.indexes[k].index = "vector" -> IsVector(fields[i].type)

HasKnownTypes(fields) == \A i \in DOMAIN fields : fields[i].type.leaf \notin {"union", "variant"}

CanBeWritten(r) ==
  /\ r.source \in {"path", "s3", "hf"} /\ r.destination \in {"path", "empty", "s3"}
  /\ FilesAgree
  /\ \E e \in Entries :
       /\ content[e] # NoSchema
       /\ HasKnownTypes(content[e]) /\ LanceTakes(content[e]) /\ BlobsFit(content[e], r.blobs)

CanBeIndexed(r) == \E e \in Entries : content[e] # NoSchema /\ IndexesFit(content[e], r)

\* Properties.

\* "Validate unsupported Arrow types and selected blob columns before writing"
\* (README.md): a destination that was overwritten by a job holds all of a source
\* that could be written, file after file, whatever the job failed of later and
\* however often it was tried.  A job that asks for the impossible destroys nothing,
\* unless it asks for it of an index.
WrittenIsValid ==
  dataset.schema # NoSchema =>
    /\ CanBeWritten(request)
    /\ \A i, j \in DOMAIN dataset.rows : i < j => dataset.rows[i] < dataset.rows[j]
    /\ {dataset.rows[i] : i \in DOMAIN dataset.rows} = {e \in Entries : content[e] # NoSchema}

\* The checks, spread over the pipeline, agree with what a request needs: no job
\* succeeds that lacks it, and no job fails that has it, unless a call failed.
VerdictIsRight ==
  /\ stage = "succeeded" => CanBeWritten(request) /\ CanBeIndexed(request)
  /\ stage = "failed" /\ ~faulty => ~(CanBeWritten(request) /\ CanBeIndexed(request))

\* What the page lets one select is accepted: a job it submitted fails, when no call
\* fails, only if the files it did not inspect differ, if a name occurs twice, or
\* for the type of an index, which the page offers for every column.
PageRequestsFit ==
  request # NoRequest /\ request.by = "page" /\ stage = "failed" /\ ~faulty =>
    \/ ~FilesAgree \/ ~LanceTakes(inspection)
    \/ /\ dataset.schema # NoSchema /\ MoreIndexes
       /\ ColumnsNamed(dataset.schema, request.indexes[Indexed + 1].name) # {}

=============================================================================
