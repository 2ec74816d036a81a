---------------------------- MODULE SourceFiles ----------------------------
(***************************************************************************)
(* Parquet sources of many files: a directory, an S3 prefix, or the files  *)
(* the Hugging Face API names.  The storage lists them in any order, a     *)
(* different one each time.  The schema inspection looks at the first of   *)
(* its listing; a conversion sorts its listing, reads every schema, and    *)
(* then streams file after file.  A source does not change (README.md).    *)
(* Requests says when a conversion takes these steps, and when it starts   *)
(* over.                                                                   *)
(***************************************************************************)
EXTENDS ColumnTypes, Ordering

CONSTANTS
  Entries,      \* what the storage lists, numbered in the order of locations
  Schemas,      \* the schemas that its files may have
  NoSchema

ASSUME EntriesOrdered == Entries \subseteq Int /\ IsFiniteSet(Entries)
ASSUME SchemasWellFormed == Schemas \subseteq SourceSchemas
ASSUME NoSchemaIsNone == NoSchema \notin Seq(Columns)

VARIABLES
  content,      \* the schema of each entry that is a Parquet file of the source
  inspection,   \* what the inspection answered
  at,           \* where the conversion is
  files,        \* its list of files
  next,         \* the position of the file it comes to next
  schema,       \* the schema its files have so far
  streamed      \* the files whose rows came out of its stream

fvars == <<content, inspection, at, files, next, schema, streamed>>

Start ==
  /\ at' = "listing" /\ files' = <<>> /\ next' = 1
  /\ schema' = NoSchema /\ streamed' = <<>>

FInit ==
  \* NoSchema: no file, another extension, or another config or split.
  /\ content \in [Entries -> Schemas \cup {NoSchema}]
  /\ inspection = NoSchema
  /\ at = "listing" /\ files = <<>> /\ next = 1
  /\ schema = NoSchema /\ streamed = <<>>

\* The files of the source, in the order of some listing.
Listings == SetToSeqs({e \in Entries : content[e] # NoSchema})

\* ParquetSource::schema and HuggingFaceSource::schema.  (An inspection that
\* fails answers nothing.)
Inspect ==
  /\ inspection = NoSchema
  /\ \E listing \in Listings :
       /\ listing # <<>>
       /\ ValidateSchema(content[Head(listing)])
       /\ inspection' = content[Head(listing)]
  /\ UNCHANGED <<content, at, files, next, schema, streamed>>

-----------------------------------------------------------------------------
\* into_stream.

Sorted(listing) == InOrder(ToSet(listing), Ascending)

List ==
  /\ at = "listing"
  /\ \E listing \in Listings :
       IF listing = <<>>
       THEN at' = "failed" /\ UNCHANGED files
       ELSE at' = "comparing" /\ files' = Sorted(listing)
  /\ UNCHANGED <<content, inspection, next, schema, streamed>>

\* Mutant of Agrees: a later file is only compared if it is the last.
AgreesAtEnds(e) == schema = NoSchema \/ content[e] = schema \/ next < Len(files)

Agrees(e) == schema = NoSchema \/ content[e] = schema

ReadSchema ==
  /\ at = "comparing" /\ next <= Len(files)
  /\ IF Agrees(files[next])
     THEN /\ schema' = IF schema = NoSchema THEN content[files[next]] ELSE schema
          /\ next' = next + 1
          /\ UNCHANGED at
     ELSE at' = "failed" /\ UNCHANGED <<next, schema>>
  /\ UNCHANGED <<content, inspection, files, streamed>>

Validate ==
  /\ at = "comparing" /\ next > Len(files)
  /\ at' = IF ValidateSchema(schema) THEN "streaming" ELSE "failed"
  /\ next' = 1
  /\ UNCHANGED <<content, inspection, files, schema, streamed>>

\* The stream opens a file when the one before it has ended.
StreamFile ==
  /\ at = "streaming" /\ next <= Len(files)
  /\ streamed' = Append(streamed, files[next])
  /\ next' = next + 1
  /\ UNCHANGED <<content, inspection, at, files, schema>>

EndOfStream ==
  /\ at = "streaming" /\ next > Len(files)
  /\ at' = "done"
  /\ UNCHANGED <<content, inspection, files, next, schema, streamed>>

\* Listing or reading a file fails (it may be damaged, or without a size).
ReadFails ==
  /\ at \in {"listing", "comparing", "streaming"}
  /\ at' = "failed"
  /\ UNCHANGED <<content, inspection, files, next, schema, streamed>>

-----------------------------------------------------------------------------
\* Properties.

\* Every batch has the schema the stream announced.  It is the schema that was
\* inspected, although the inspection may have looked at any one of the files:
\* columns that were selected in it are columns of all that is converted.
InspectedIsConverted ==
  \A i \in 1..Len(streamed) :
    /\ content[streamed[i]] = schema
    /\ inspection \in {NoSchema, schema}
=============================================================================
