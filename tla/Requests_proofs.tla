---------------------------- MODULE Requests_proofs ----------------------------
(***************************************************************************)
(* Proofs about requests and the schemas they are held against, for any    *)
(* source, any schemas its files may have, and any number of attempts.     *)
(***************************************************************************)
EXTENDS Requests, Ordering_proofs, SequenceTheorems

-----------------------------------------------------------------------------
\* The inductive invariant.

Stages == {"none", "queued", "opening", "writing", "indexing", "succeeded", "failed"}

Made == [name : STRING, index : IndexTypes, parts : Nat]

Files == {e \in Entries : content[e] # NoSchema}

NumFiles == Cardinality(Files)

Agreed(s) == \A e \in Files : content[e] = s

Typed ==
  /\ content \in [Entries -> Schemas \cup {NoSchema}]
  /\ at \in {"listing", "comparing", "streaming", "done", "failed"}
  /\ next \in Nat \ {0} /\ streamed \in Seq(Entries)
  /\ request \in JobRequests \cup {NoRequest}
  /\ stage \in Stages /\ faulty \in BOOLEAN
  /\ dataset \in [rows : Seq(Entries), schema : Seq(Columns) \cup {NoSchema}, indexes : Seq(Made)]
  /\ stage = "none" <=> request = NoRequest

\* The inspection found one of the schemas, and the page asks for what it offers.
Inspected ==
  /\ inspection # NoSchema =>
       ValidateSchema(inspection) /\ \E e \in Files : content[e] = inspection
  /\ request # NoRequest /\ request.by = "page" =>
       inspection # NoSchema /\ request \in Offered(inspection)

\* The files before the next one have the schema; once they are read, all have.
Reading ==
  /\ at = "listing" => next = 1 /\ schema = NoSchema
  /\ at \in {"listing", "comparing"} => Len(streamed) = 0
  /\ at \in {"comparing", "streaming", "done"} =>
       files = InOrder(Files, Ascending) /\ Files # {} /\ next <= NumFiles + 1
  /\ at = "comparing" =>
       /\ next = 1 => schema = NoSchema
       /\ \A i \in 1..(next - 1) : content[files[i]] = schema
  /\ at \in {"streaming", "done"} =>
       /\ schema \in Schemas /\ Agreed(schema) /\ ValidateSchema(schema)
       /\ Len(streamed) = next - 1
       /\ \A i \in 1..Len(streamed) : streamed[i] = files[i]
  /\ at = "done" => next = NumFiles + 1
  /\ \A i \in 1..Len(streamed) :
       streamed[i] \in Files /\ Agreed(schema) /\ schema \in Schemas

\* What was found out when.
Passed ==
  /\ stage \in {"none", "queued"} => at = "listing"
  /\ stage = "none" => dataset.schema = NoSchema
  /\ stage \in {"opening", "writing", "indexing", "succeeded"} =>
       IsWritable(request.destination) /\ OpensSource(request.source)
  /\ stage = "opening" => at \in {"listing", "comparing", "streaming"}
  /\ stage = "writing" => at \in {"streaming", "done"}
  /\ stage \in {"indexing", "succeeded"} =>
       /\ at = "done"
       /\ dataset.schema = WithBlobs(schema, request.blobs)
  /\ stage \in {"writing", "indexing", "succeeded"} =>
       ValidateBlobColumns(schema, request.blobs)
  /\ stage = "succeeded" => ~MoreIndexes

\* Column i of the dataset can get the k-th index.
Indexable(k) ==
  \E i \in ColumnsNamed(dataset.schema, request.indexes[k].name) :
    CanIndex(i, request.indexes[k])

\* What is at the destination, whichever attempt wrote it.
Written ==
  dataset.schema # NoSchema =>
    /\ CanBeWritten(request)
    /\ \A i, j \in DOMAIN dataset.rows : i < j => dataset.rows[i] < dataset.rows[j]
    /\ {dataset.rows[i] : i \in DOMAIN dataset.rows} = Files
    /\ \E s \in Schemas : Agreed(s) /\ dataset.schema = WithBlobs(s, request.blobs)
    /\ Indexed <= Len(request.indexes)
    /\ \A k \in 1..Indexed : Indexable(k)

\* Why an attempt can fail in which no call fails.
Reason ==
  \/ ~(IsWritable(request.destination) /\ OpensSource(request.source))
  \/ ~FilesAgree
  \/ \E s \in Schemas : /\ Agreed(s) /\ Files # {}
                        /\ \/ ~ValidateSchema(s) \/ ~ValidateBlobColumns(s, request.blobs)
                           \/ ~LanceTakes(s)
  \/ dataset.schema # NoSchema /\ MoreIndexes /\ ~Indexable(Indexed + 1)

Verdict == stage = "failed" /\ ~faulty => Reason

IInv == Typed /\ Inspected /\ Reading /\ Passed /\ Written /\ Verdict

-----------------------------------------------------------------------------
\* Schemas.

LEMMA SchemaParts ==
  ASSUME NEW s \in Schemas
  PROVE  /\ s \in Seq(Columns) /\ Len(s) \in Nat /\ DOMAIN s = 1..Len(s)
         /\ s # NoSchema
         /\ \A i \in DOMAIN s : /\ s[i] \in Columns
                                /\ s[i].name \in STRING /\ s[i].type.leaf # "blob"
<1>1. s \in Seq(Columns) /\ \A i \in DOMAIN s : s[i].type.leaf # "blob"
  BY SchemasWellFormed DEF SourceSchemas
<1>2. s # NoSchema
  BY <1>1, NoSchemaIsNone
<1>3. Len(s) \in Nat /\ s \in [1..Len(s) -> Columns]
  <2> HIDE DEF Columns
  <2> QED  BY <1>1, LenProperties
<1>4. \A i \in DOMAIN s : s[i] \in Columns
  BY <1>3
<1> QED  BY <1>1, <1>2, <1>3, <1>4 DEF Columns

LEMMA NamesUnique ==
  ASSUME NEW s \in Schemas, NEW name
  PROVE  NameIsUnique(s, name) <=> \E i : ColumnsNamed(s, name) = {i}
<1>1. IsFiniteSet(1..Len(s)) /\ ColumnsNamed(s, name) \in SUBSET (1..Len(s))
  <2>1. Len(s) \in Nat /\ DOMAIN s = 1..Len(s)
    BY SchemaParts
  <2> QED  BY <2>1, Interval DEF ColumnsNamed
<1>2. IsFiniteSet(ColumnsNamed(s, name))
  BY <1>1, FS_Subset
<1> QED  BY <1>2, FS_Singleton DEF NameIsUnique

\* Where no name occurs twice, the checks of blob columns ask for what they need.
LEMMA BlobsAreChecked ==
  ASSUME NEW s \in Schemas, NEW blobs \in Seq(STRING)
  PROVE  /\ ValidateBlobColumns(s, blobs) => BlobsFit(s, blobs)
         /\ BlobsFit(s, blobs) /\ LanceTakes(s) => ValidateBlobColumns(s, blobs)
<1>0. Len(blobs) \in Nat /\ DOMAIN blobs = 1..Len(blobs)
  BY LenProperties
<1>1. ASSUME ValidateBlobColumns(s, blobs)
      PROVE  BlobsFit(s, blobs)
  <2>1. \A k \in DOMAIN blobs : \A j \in 1..(k - 1) : blobs[j] # blobs[k]
    BY <1>1 DEF ValidateBlobColumns
  <2>2. IsInjective(blobs)
    <3>1. ASSUME NEW j \in 1..Len(blobs), NEW k \in 1..Len(blobs), j < k
          PROVE  blobs[j] # blobs[k]
      BY <1>0, <2>1, <3>1
    <3> QED  BY <1>0, <3>1 DEF IsInjective
  <2>3. ASSUME NEW k \in DOMAIN blobs
        PROVE  \E i \in DOMAIN s :
                 s[i].name = blobs[k] /\ s[i].type.in = <<>> /\ IsString(s[i].type.leaf)
    <3>1. PICK i : ColumnsNamed(s, blobs[k]) = {i}
      BY <1>1, NamesUnique DEF ValidateBlobColumns
    <3>2. i \in ColumnsNamed(s, blobs[k]) /\ IsBlobEligible(s[i].type)
      BY <1>1, <3>1 DEF ValidateBlobColumns
    <3> QED  BY <3>2 DEF IsBlobEligible, IsString, ColumnsNamed
  <2> QED  BY <2>2, <2>3 DEF BlobsFit
<1>2. ASSUME BlobsFit(s, blobs), LanceTakes(s)
      PROVE  ValidateBlobColumns(s, blobs)
  <2> SUFFICES ASSUME NEW k \in DOMAIN blobs
               PROVE  /\ \A j \in 1..(k - 1) : blobs[j] # blobs[k]
                      /\ NameIsUnique(s, blobs[k])
                      /\ \A i \in ColumnsNamed(s, blobs[k]) : IsBlobEligible(s[i].type)
    BY DEF ValidateBlobColumns
  <2>1. \A j \in 1..(k - 1) : blobs[j] # blobs[k]
    BY <1>0, <1>2 DEF BlobsFit, IsInjective
  <2>2. PICK i \in DOMAIN s :
          s[i].name = blobs[k] /\ s[i].type.in = <<>> /\ IsString(s[i].type.leaf)
    BY <1>2 DEF BlobsFit
  <2>3. NameIsUnique(s, blobs[k])
    BY <1>2, <2>2 DEF LanceTakes
  <2>4. ColumnsNamed(s, blobs[k]) = {i}
    BY <2>2, <2>3, NamesUnique DEF ColumnsNamed
  <2> QED  BY <2>1, <2>2, <2>3, <2>4 DEF IsBlobEligible, IsString
<1> QED  BY <1>1, <1>2

LEMMA TypesAreChecked ==
  ASSUME NEW s \in Schemas
  PROVE  ValidateSchema(s) <=> HasKnownTypes(s)
BY DEF ValidateSchema, ValidateType, HasKnownTypes

LEMMA BlobColumns ==
  ASSUME NEW s \in Schemas, NEW blobs \in Seq(STRING)
  PROVE  LET b == WithBlobs(s, blobs)
         IN  /\ b \in Seq(Columns) /\ b # NoSchema /\ DOMAIN b = DOMAIN s
             /\ \A i \in DOMAIN s :
                  /\ b[i].name = s[i].name
                  /\ b[i].type = IF \E k \in DOMAIN blobs : blobs[k] = s[i].name
                                 THEN Type(<<>>, "blob", 0) ELSE s[i].type
<1> DEFINE b == WithBlobs(s, blobs)
<1>1. DOMAIN b = DOMAIN s /\ DOMAIN s = 1..Len(s) /\ Len(s) \in Nat
  BY SchemaParts DEF WithBlobs
<1>2. ASSUME NEW i \in DOMAIN s
      PROVE  /\ b[i] \in Columns /\ b[i].name = s[i].name
             /\ b[i].type = IF \E k \in DOMAIN blobs : blobs[k] = s[i].name
                            THEN Type(<<>>, "blob", 0) ELSE s[i].type
  <2>1. s[i] \in [name : STRING, type : [in : Seq(Containers), leaf : Leaves, size : Nat]]
    BY SchemaParts DEF Columns
  <2>2. CASE \E k \in DOMAIN blobs : blobs[k] = s[i].name
    <3> DEFINE type == Type(<<>>, "blob", 0)
    <3>1. b[i] = [s[i] EXCEPT !.type = type]
      BY <2>2 DEF WithBlobs
    <3>2. type \in [in : Seq(Containers), leaf : Leaves, size : Nat]
      <4>1. <<>> \in Seq(Containers) /\ "blob" \in Leaves
        BY EmptySeq DEF Leaves
      <4> HIDE DEF Containers, Leaves
      <4> QED  BY <4>1 DEF Type
    <3> HIDE DEF type
    <3>3. b[i] \in Columns /\ b[i].name = s[i].name /\ b[i].type = type
      BY <2>1, <3>1, <3>2 DEF Columns
    <3> QED  BY <2>2, <3>3 DEF type
  <2>3. CASE ~\E k \in DOMAIN blobs : blobs[k] = s[i].name
    <3>1. b[i] = s[i]
      BY <2>3 DEF WithBlobs
    <3> QED  BY <2>1, <2>3, <3>1 DEF Columns
  <2> QED  BY <2>2, <2>3
<1>3. b = [i \in 1..Len(s) |-> b[i]]
  BY <1>1 DEF WithBlobs
<1>4. b \in [1..Len(s) -> Columns]
  <2> HIDE DEF b, Columns
  <2> QED  BY <1>1, <1>2, <1>3
<1>5. b \in Seq(Columns)
  <2> HIDE DEF b, Columns
  <2> QED  BY <1>1, <1>4, SeqDef
<1> QED  BY <1>1, <1>2, <1>5, NoSchemaIsNone

-----------------------------------------------------------------------------
\* Vector indexes.

LEMMA HasLargest ==
  ASSUME NEW S \in SUBSET (1..MaxProductSubvectors), S # {}
  PROVE  Largest(S) \in S /\ \A d \in S : d <= Largest(S)
<1>1. \E c \in S : \A d \in S : d <= c
  <2>1. \E c \in 1..16 : c \in S
    BY DEF MaxProductSubvectors
  <2>2. \E c \in 1..16 : c \in S /\ \A d \in 1..16 : d > c => d \notin S
    BY <2>1, SMTT(60)
  <2> QED  BY <2>2 DEF MaxProductSubvectors
<1> QED  BY <1>1 DEF Largest

\* product_subvectors finds the largest number of equal parts that a vector can be cut
\* into, among those Lance is given at most: for no dimension does an index fail for it.
THEOREM PartsAreEqual ==
  ASSUME NEW dimension \in Nat \ {0}
  PROVE  LET parts == ProductSubvectors(dimension)
         IN  /\ parts \in 1..MaxProductSubvectors
             /\ dimension % parts = 0
             /\ \A c \in 1..MaxProductSubvectors : dimension % c = 0 => c <= parts
<1> DEFINE low == Smaller(MaxProductSubvectors, dimension)
           divisors == {c \in 1..low : dimension % c = 0}
<1>1. low \in 1..MaxProductSubvectors /\ low <= dimension
  BY DEF Smaller, MaxProductSubvectors
<1>2. dimension % 1 = 0
  BY SMT
<1>3. divisors \in SUBSET (1..MaxProductSubvectors) /\ 1 \in divisors
  BY <1>1, <1>2 DEF MaxProductSubvectors
<1>4. ProductSubvectors(dimension) = Largest(divisors)
  BY <1>3 DEF ProductSubvectors
<1>5. /\ ProductSubvectors(dimension) \in divisors
      /\ \A d \in divisors : d <= ProductSubvectors(dimension)
  BY <1>3, <1>4, HasLargest
<1>6. ASSUME NEW c \in 1..MaxProductSubvectors, dimension % c = 0
      PROVE  c \in divisors
  <2>1. c <= dimension
    <3>1. CASE c > dimension
      <4>1. dimension % c = dimension
        BY <3>1, SMT DEF MaxProductSubvectors
      <4> QED  BY <1>6, <4>1
    <3> QED  BY <3>1 DEF MaxProductSubvectors
  <2>2. c <= low
    BY <2>1 DEF Smaller, MaxProductSubvectors
  <2> QED  BY <1>6, <2>2, <1>1 DEF MaxProductSubvectors
<1> QED  BY <1>1, <1>3, <1>5, <1>6

LEMMA VectorsAreCut ==
  ASSUME NEW type \in [in : Seq(Containers), leaf : Leaves, size : Nat]
  PROVE  LET dimension == VectorDimension(type)
         IN  /\ dimension \in Nat
             /\ dimension > 0 => /\ Parts("vector", type) \in 1..MaxProductSubvectors
                                /\ dimension % Parts("vector", type) = 0
             /\ IsVector(type) <=>
                  type.in \in {<<"fixed_list">>, <<"list", "fixed_list">>} /\ dimension > 0
<1>0. type.size \in Nat
  OBVIOUS
<1>1. VectorDimension(type) \in Nat
  BY <1>0 DEF VectorDimension
<1>2. ASSUME VectorDimension(type) > 0
      PROVE  /\ Parts("vector", type) \in 1..MaxProductSubvectors
             /\ VectorDimension(type) % Parts("vector", type) = 0
  <2>1. VectorDimension(type) \in Nat \ {0}
    BY <1>1, <1>2
  <2> QED  BY <2>1, PartsAreEqual DEF Parts
<1>3. CASE type.in = <<"fixed_list">>
  <2>1. Len(type.in) = 1 /\ type.in[1] = "fixed_list"
    BY <1>3
  <2>2. VectorDimension(type) = IF type.leaf \in {"float", "uint8"} THEN type.size ELSE 0
    BY <2>1 DEF VectorDimension
  <2> QED  BY <1>0, <1>1, <1>2, <1>3, <2>2 DEF IsVector
<1>4. CASE type.in = <<"list", "fixed_list">>
  <2>1. Len(type.in) = 2 /\ type.in[1] = "list" /\ type.in[2] = "fixed_list"
    BY <1>4
  <2>2. VectorDimension(type) = IF type.leaf \in {"float", "uint8"} THEN type.size ELSE 0
    BY <2>1 DEF VectorDimension
  <2> QED  BY <1>0, <1>1, <1>2, <1>4, <2>2 DEF IsVector
<1> QED  BY <1>1, <1>2, <1>3, <1>4 DEF IsVector

\* A column that is no blob gets an index if its type fits, and a blob gets none.
LEMMA IndexesAreChecked ==
  ASSUME NEW s \in Schemas, NEW blobs \in Seq(STRING), NEW i \in DOMAIN s,
         NEW index \in IndexTypes
  PROVE  LET type == WithBlobs(s, blobs)[i].type
         IN  IsMapped(index, type) /\ LanceIndexes(index, type, Parts(index, type))
               <=> /\ \A b \in DOMAIN blobs : blobs[b] # s[i].name
                   /\ CASE index = "scalar" -> s[i].type.in = <<>>
                        [] index = "text"   -> /\ s[i].type.in \in {<<>>, <<"list">>}
                                               /\ IsString(s[i].type.leaf)
                        [] index = "vector" -> IsVector(s[i].type)
<1> DEFINE type == WithBlobs(s, blobs)[i].type
<1>1. type = IF \E k \in DOMAIN blobs : blobs[k] = s[i].name
             THEN Type(<<>>, "blob", 0) ELSE s[i].type
  BY BlobColumns
<1>2. index \in {"scalar", "text", "vector"}
  BY DEF IndexTypes
<1>3. s[i].type \in [in : Seq(Containers), leaf : Leaves, size : Nat] /\ s[i].type.leaf # "blob"
  BY SchemaParts DEF Columns
<1> HIDE DEF type
<1>4. CASE \E k \in DOMAIN blobs : blobs[k] = s[i].name
  <2>1. type.in = <<>> /\ type.leaf = "blob"
    BY <1>1, <1>4 DEF Type
  <2>2. VectorDimension(type) = 0
    <3>1. Len(type.in) = 0
      BY <2>1, EmptySeq
    <3> QED  BY <3>1 DEF VectorDimension
  <2>3. CASE index = "vector"
    <3>1. ~LanceIndexes("vector", type, Parts(index, type))
      BY <2>2 DEF LanceIndexes
    <3> QED  BY <1>4, <2>3, <3>1 DEF type
  <2>4. CASE index # "vector"
    <3>1. ~LanceIndexes(index, type, Parts(index, type))
      BY <1>2, <2>1, <2>4 DEF LanceIndexes
    <3> QED  BY <1>4, <3>1 DEF type
  <2> QED  BY <2>3, <2>4
<1>5. CASE ~\E k \in DOMAIN blobs : blobs[k] = s[i].name
  <2>1. type = s[i].type
    BY <1>1, <1>5
  <2>2. CASE index = "scalar"
    BY <1>3, <1>5, <2>1, <2>2 DEF type, IsMapped, LanceIndexes
  <2>3. CASE index = "text"
    BY <1>3, <1>5, <2>1, <2>3 DEF type, IsMapped, LanceIndexes, IsString
  <2>4. CASE index = "vector"
    <3>1. /\ VectorDimension(type) \in Nat
          /\ VectorDimension(type) > 0 => VectorDimension(type) % Parts("vector", type) = 0
          /\ IsVector(type) <=> /\ type.in \in {<<"fixed_list">>, <<"list", "fixed_list">>}
                                /\ VectorDimension(type) > 0
      BY <1>3, <2>1, VectorsAreCut
    <3>2. IsMapped(index, type) /\ LanceIndexes(index, type, Parts(index, type))
            <=> IsVector(type)
      BY <2>4, <3>1 DEF IsMapped, LanceIndexes
    <3> QED  BY <1>5, <2>1, <2>4, <3>2 DEF type
  <2> QED  BY <1>2, <2>2, <2>3, <2>4
<1> QED  BY <1>4, <1>5

-----------------------------------------------------------------------------
\* The page.

LEMMA RowsListed ==
  ASSUME NEW s \in Schemas, NEW rows \in SUBSET DOMAIN s
  PROVE  LET n    == Cardinality(rows)
             list == RowsInOrder(rows)
         IN  /\ n \in Nat /\ list \in [1..n -> rows] /\ DOMAIN list = 1..n
             /\ \A i, j \in 1..n : list[i] = list[j] => i = j
<1> DEFINE n == Cardinality(rows)
           list == RowsInOrder(rows)
<1>1. IsFiniteSet(rows) /\ rows \in SUBSET Int
  <2>1. rows \in SUBSET (1..Len(s)) /\ Len(s) \in Nat
    BY SchemaParts
  <2>2. IsFiniteSet(1..Len(s))
    BY <2>1, Interval
  <2> QED  BY <2>1, <2>2, FS_Subset
<1>2. list = InOrder(rows, Ascending)
  BY DEF RowsInOrder
<1> HIDE DEF list
<1>3. /\ list \in [1..n -> rows] /\ n \in Nat
      /\ \A i, j \in 1..n : i < j => list[i] < list[j]
  BY <1>1, <1>2, AscendingLists
<1>4. \A i \in 1..n : list[i] \in Int
  BY <1>1, <1>3
<1> HIDE DEF n
<1>5. ASSUME NEW i \in 1..n, NEW j \in 1..n, list[i] = list[j]
      PROVE  i = j
  BY <1>3, <1>4, <1>5
<1>6. DOMAIN list = 1..n
  BY <1>3
<1> QED  BY <1>3, <1>5, <1>6 DEF n, list

LEMMA PageAsks ==
  ASSUME NEW s \in Schemas, NEW r \in Offered(s)
  PROVE  /\ r \in JobRequests
         /\ r.by = "page" /\ r.source = "s3" /\ r.destination = "path"
         /\ LanceTakes(s) => ValidateBlobColumns(s, r.blobs)
         /\ \A k \in 1..Len(r.indexes) : \E i \in DOMAIN s : r.indexes[k].name = s[i].name
<1> DEFINE Chosen(chosen) == {i \in DOMAIN s : chosen[i] # "none"}
<1>1. PICK ticked \in SUBSET BlobToggles(s),
           chosen \in [DOMAIN s -> IndexTypes \cup {"none"}] :
        r = [by |-> "page", source |-> "s3", destination |-> "path",
             blobs |-> CollectBlobColumns(s, ticked), indexes |-> CollectIndices(s, chosen)]
  BY DEF Offered
<1> DEFINE n == Cardinality(ticked)
           rows == RowsInOrder(ticked)
           m == Cardinality(Chosen(chosen))
           places == RowsInOrder(Chosen(chosen))
<1>2. /\ n \in Nat /\ rows \in [1..n -> ticked] /\ DOMAIN rows = 1..n
      /\ \A i, j \in 1..n : rows[i] = rows[j] => i = j
  BY RowsListed DEF BlobToggles
<1>3. m \in Nat /\ places \in [1..m -> Chosen(chosen)] /\ DOMAIN places = 1..m
  BY RowsListed
<1>4. ticked \subseteq DOMAIN s /\ \A i \in ticked : IsBlobEligible(s[i].type)
  BY DEF BlobToggles
<1>5. r.blobs = [k \in 1..n |-> s[rows[k]].name]
  <2>1. CollectBlobColumns(s, ticked) = [k \in DOMAIN rows |-> s[rows[k]].name]
    BY DEF CollectBlobColumns
  <2> QED  BY <1>1, <1>2, <2>1
<1>6. r.indexes = [k \in 1..m |-> Index(s[places[k]].name, chosen[places[k]])]
  <2>1. CollectIndices(s, chosen) =
          [k \in DOMAIN places |-> Index(s[places[k]].name, chosen[places[k]])]
    BY DEF CollectIndices
  <2> QED  BY <1>1, <1>3, <2>1
<1> HIDE DEF n, rows, m, places
<1>7. \A i \in DOMAIN s : s[i].name \in STRING
  BY SchemaParts
<1>8. r.blobs \in [1..n -> STRING]
  BY <1>2, <1>4, <1>5, <1>7
<1>9. ASSUME NEW k \in 1..m
      PROVE  /\ r.indexes[k] \in [name : STRING, index : IndexTypes]
             /\ \E i \in DOMAIN s : r.indexes[k].name = s[i].name
  <2>1. places[k] \in DOMAIN s /\ chosen[places[k]] \in IndexTypes
    BY <1>3
  <2>2. r.indexes[k] = [name |-> s[places[k]].name, index |-> chosen[places[k]]]
    BY <1>6 DEF Index
  <2> QED  BY <1>7, <2>1, <2>2
<1>10. r.indexes \in [1..m -> [name : STRING, index : IndexTypes]]
  <2>1. r.indexes = [k \in 1..m |-> r.indexes[k]]
    BY <1>6
  <2> QED  BY <1>9, <2>1
<1>11. r.blobs \in Seq(STRING) /\ r.indexes \in Seq([name : STRING, index : IndexTypes])
  <2>1. r.blobs \in Seq(STRING)
    BY <1>2, <1>8, SeqDef
  <2>2. \A T : r.indexes \in [1..m -> T] => r.indexes \in Seq(T)
    BY <1>3, SeqDef
  <2> QED  BY <1>10, <2>1, <2>2
<1>12. r \in JobRequests
  BY <1>1, <1>11 DEF JobRequests, Uris
<1>13. ASSUME LanceTakes(s)
       PROVE  ValidateBlobColumns(s, r.blobs)
  <2>1. DOMAIN r.blobs = 1..n
    BY <1>5
  <2> SUFFICES ASSUME NEW k \in 1..n
               PROVE  /\ \A j \in 1..(k - 1) : r.blobs[j] # r.blobs[k]
                      /\ NameIsUnique(s, r.blobs[k])
                      /\ \A i \in ColumnsNamed(s, r.blobs[k]) : IsBlobEligible(s[i].type)
    BY <2>1 DEF ValidateBlobColumns
  <2>2. rows[k] \in ticked /\ rows[k] \in DOMAIN s /\ r.blobs[k] = s[rows[k]].name
    BY <1>2, <1>4, <1>5
  <2>3. NameIsUnique(s, r.blobs[k])
    BY <1>13, <2>2 DEF LanceTakes
  <2>4. ColumnsNamed(s, r.blobs[k]) = {rows[k]}
    BY <2>2, <2>3, NamesUnique DEF ColumnsNamed
  <2>5. ASSUME NEW j \in 1..(k - 1)
        PROVE  r.blobs[j] # r.blobs[k]
    <3>1. j \in 1..n /\ j # k
      BY <1>2
    <3>2. rows[j] # rows[k] /\ rows[j] \in DOMAIN s /\ r.blobs[j] = s[rows[j]].name
      BY <1>2, <1>4, <1>5, <3>1
    <3> QED  BY <2>4, <3>2 DEF ColumnsNamed
  <2> QED  BY <1>4, <2>2, <2>3, <2>4, <2>5
<1>14. Len(r.indexes) = m
  BY <1>3, <1>10
<1> QED  BY <1>1, <1>9, <1>12, <1>13, <1>14

-----------------------------------------------------------------------------
\* The files of the source.

LEMMA FilesListed ==
  ASSUME Typed
  PROVE  LET list == InOrder(Files, Ascending)
         IN  /\ NumFiles \in Nat /\ Len(list) = NumFiles /\ Len(list) \in Nat
             /\ \A i \in 1..NumFiles : list[i] \in Files
             /\ \A i, j \in 1..NumFiles : i < j => list[i] < list[j]
             /\ \A e \in Files : \E i \in 1..NumFiles : list[i] = e
             /\ NumFiles = 0 <=> Files = {}
<1> DEFINE list == InOrder(Files, Ascending)
<1>1. IsFiniteSet(Files) /\ Files \in SUBSET Int
  <2>1. Files \in SUBSET Entries
    BY DEF Files
  <2> QED  BY <2>1, EntriesOrdered, FS_Subset
<1>2. /\ list \in [1..NumFiles -> Files] /\ NumFiles \in Nat
      /\ \A i, j \in 1..NumFiles : i < j => list[i] < list[j]
      /\ \A e \in Files : \E i \in 1..NumFiles : list[i] = e
  BY <1>1, AscendingLists DEF NumFiles
<1> HIDE DEF list
<1>3. NumFiles = 0 <=> Files = {}
  BY <1>1, FS_EmptySet DEF NumFiles
<1>4. Len(list) = NumFiles
  BY <1>2
<1>5. \A i \in 1..NumFiles : list[i] \in Files
  BY <1>2
<1> QED  BY <1>2, <1>3, <1>4, <1>5 DEF list

LEMMA ListingsShowAll ==
  ASSUME Typed, NEW listing \in Listings
  PROVE  /\ ToSet(listing) = Files
         /\ listing = <<>> <=> Files = {}
         /\ listing # <<>> => Head(listing) \in Files
<1>1. IsFiniteSet(Files)
  <2>1. Files \in SUBSET Entries
    BY DEF Files
  <2> QED  BY <2>1, EntriesOrdered, FS_Subset
<1>2. listing \in SetToSeqs(Files)
  BY DEF Listings, Files
<1>3. /\ listing \in [1..NumFiles -> Files] /\ NumFiles \in Nat
      /\ \A e \in Files : \E i \in 1..NumFiles : listing[i] = e
  BY <1>1, <1>2, ListsAll DEF NumFiles
<1>4. listing \in Seq(Files) /\ Len(listing) = NumFiles
  BY <1>3, SeqDef
<1>5. listing = <<>> => NumFiles = 0
  BY <1>4, EmptySeq
<1>6. listing # <<>> => NumFiles # 0 /\ Head(listing) \in Files
  BY <1>4, EmptySeq, HeadTailProperties
<1>7. NumFiles = 0 <=> Files = {}
  BY FilesListed
<1>8. ToSet(listing) = Files
  BY <1>3 DEF ToSet
<1> QED  BY <1>5, <1>6, <1>7, <1>8

LEMMA FilesHaveSchemas ==
  ASSUME Typed
  PROVE  /\ \A e \in Files : e \in Entries /\ content[e] \in Schemas
         /\ FilesAgree <=> Files # {} /\ \E s \in Schemas : Agreed(s)
<1>1. \A e \in Entries : content[e] \in Schemas \cup {NoSchema}
  BY DEF Typed
<1>2. \A e \in Files : e \in Entries /\ content[e] \in Schemas
  BY <1>1 DEF Files
<1>3. \A s \in Schemas : s # NoSchema
  BY SchemaParts
<1>4. ASSUME FilesAgree
      PROVE  Files # {} /\ \E s \in Schemas : Agreed(s)
  <2>1. PICK s \in Schemas, e \in Entries :
          content[e] = s /\ \A f \in Entries : content[f] \in {NoSchema, s}
    BY <1>4 DEF FilesAgree
  <2>2. e \in Files
    BY <1>3, <2>1 DEF Files
  <2>3. Agreed(s)
    BY <2>1 DEF Agreed, Files
  <2> QED  BY <2>2, <2>3
<1>5. ASSUME Files # {}, NEW s \in Schemas, Agreed(s)
      PROVE  FilesAgree
  <2>1. PICK e \in Files : TRUE
    BY <1>5
  <2>2. e \in Entries /\ content[e] = s
    BY <1>2, <1>5 DEF Agreed
  <2>3. \A f \in Entries : content[f] \in {NoSchema, s}
    BY <1>5 DEF Agreed, Files
  <2> QED  BY <2>2, <2>3 DEF FilesAgree
<1> QED  BY <1>2, <1>4, <1>5

LEMMA SameSource ==
  ASSUME content' = content
  PROVE  /\ Files' = Files /\ NumFiles' = NumFiles
         /\ \A s \in Schemas : Agreed(s)' <=> Agreed(s)
         /\ FilesAgree' <=> FilesAgree
<1>1. Files' = Files
  BY DEF Files
<1> QED  BY <1>1 DEF NumFiles, Agreed, FilesAgree

LEMMA SameReading ==
  ASSUME Reading, UNCHANGED fvars
  PROVE  Reading'
<1>1. /\ content' = content /\ at' = at /\ files' = files /\ next' = next
      /\ schema' = schema /\ streamed' = streamed
  BY DEF fvars
<1>2. Files' = Files /\ NumFiles' = NumFiles
  BY <1>1, SameSource
<1> QED  BY <1>1, <1>2 DEF Reading, Agreed

LEMMA SameInspected ==
  ASSUME Inspected, content' = content, inspection' = inspection, request' = request
  PROVE  Inspected'
BY SameSource DEF Inspected

LEMMA SameDestination ==
  ASSUME content' = content, request' = request, dataset' = dataset
  PROVE  /\ Written => Written'
         /\ Reason => Reason'
         /\ MoreIndexes' <=> MoreIndexes
<1>1. /\ Files' = Files
      /\ FilesAgree' <=> FilesAgree
      /\ \A s \in Schemas : Agreed(s)' <=> Agreed(s)
  BY SameSource
<1>2. /\ Indexed' = Indexed
      /\ MoreIndexes' <=> MoreIndexes
  BY DEF Indexed, MoreIndexes
<1>3. \A k : Indexable(k)' <=> Indexable(k)
  BY DEF Indexable, CanIndex
<1>4. CanBeWritten(request)' <=> CanBeWritten(request)
  BY <1>1 DEF CanBeWritten
<1>5. Written => Written'
  BY <1>1, <1>2, <1>3, <1>4 DEF Written
<1>6. Reason => Reason'
  <2>1. Indexable(Indexed + 1)' <=> Indexable(Indexed + 1)
    BY <1>2, <1>3
  <2> QED  BY <1>1, <1>2, <2>1 DEF Reason
<1> QED  BY <1>2, <1>5, <1>6

-----------------------------------------------------------------------------
\* The invariant is inductive.

LEMMA InitHolds == QInit => IInv
<1> SUFFICES ASSUME QInit
             PROVE  IInv
  OBVIOUS
<1> USE DEF QInit, FInit
<1>1. Typed
  <2>1. streamed \in Seq(Entries)
    BY EmptySeq
  <2>2. content \in [Entries -> Schemas \cup {NoSchema}]
    OBVIOUS
  <2>3. next \in Nat \ {0} /\ request \in JobRequests \cup {NoRequest}
    BY SMT
  <2>5. faulty \in BOOLEAN
    BY Zenon
  <2>4. stage = "none" /\ at = "listing" /\ request = NoRequest
    OBVIOUS
  <2>6. dataset \in [rows : Seq(Entries), schema : Seq(Columns) \cup {NoSchema},
                     indexes : Seq(Made)]
    <3>1. <<>> \in Seq(Entries) /\ <<>> \in Seq(Made)
      BY EmptySeq
    <3> HIDE DEF Made, Columns
    <3> QED  BY <3>1
  <2> HIDE DEF QInit, FInit
  <2> QED  BY <2>1, <2>2, <2>3, <2>4, <2>5, <2>6 DEF Typed, Stages
<1>2. Inspected /\ Passed /\ Written /\ Verdict
  BY DEF Inspected, Passed, Written, Verdict
<1>3. Len(streamed) = 0
  BY EmptySeq
<1>4. Reading
  BY <1>3 DEF Reading
<1> QED  BY <1>1, <1>2, <1>4 DEF IInv

LEMMA InspectKeeps ==
  ASSUME IInv, InspectSource
  PROVE  IInv'
<1>1. PICK listing \in Listings :
        /\ listing # <<>> /\ ValidateSchema(content[Head(listing)])
        /\ inspection' = content[Head(listing)]
  BY DEF InspectSource, Inspect
<1>2. /\ content' = content /\ at' = at /\ files' = files /\ next' = next
      /\ schema' = schema /\ streamed' = streamed
      /\ request' = request /\ stage' = stage /\ faulty' = faulty /\ dataset' = dataset
      /\ inspection = NoSchema
  BY DEF InspectSource, Inspect
<1>3. Typed'
  BY <1>2 DEF IInv, Typed
<1>4. Inspected'
  <2>1. Head(listing) \in Files
    BY <1>1, ListingsShowAll DEF IInv
  <2>2. ~(request # NoRequest /\ request.by = "page")
    BY <1>2 DEF IInv, Inspected
  <2>3. Files' = Files
    BY <1>2, SameSource
  <2> QED  BY <1>1, <1>2, <2>1, <2>2, <2>3 DEF Inspected
<1>5. Reading'
  <2>1. Files' = Files /\ NumFiles' = NumFiles
    BY <1>2, SameSource
  <2> QED  BY <1>2, <2>1 DEF IInv, Reading, Agreed
<1>6. Passed'
  BY <1>2, SameDestination DEF IInv, Passed
<1>7. Written' /\ Verdict'
  BY <1>2, SameDestination DEF IInv, Verdict
<1> QED  BY <1>3, <1>4, <1>5, <1>6, <1>7 DEF IInv

LEMMA SubmitKeeps ==
  ASSUME IInv, Submit
  PROVE  IInv'
<1>1. PICK r \in Sent \cup (IF inspection = NoSchema THEN {} ELSE Offered(inspection)) :
        request' = r
  BY DEF Submit
<1>2. /\ UNCHANGED fvars /\ content' = content /\ at' = at /\ inspection' = inspection
      /\ next' = next /\ streamed' = streamed
      /\ faulty' = faulty /\ dataset' = dataset
      /\ request = NoRequest /\ stage' = "queued"
  BY DEF Submit, fvars
<1>3. stage = "none" /\ at = "listing" /\ dataset.schema = NoSchema
  BY <1>2 DEF IInv, Typed, Passed
<1>4. r \in JobRequests /\ (r.by = "page" => inspection # NoSchema /\ r \in Offered(inspection))
  <2>1. CASE r \in Sent
    BY <2>1, SentByClients
  <2>2. CASE r \notin Sent
    <3>1. inspection # NoSchema /\ r \in Offered(inspection)
      BY <1>1, <2>2
    <3>2. inspection \in Schemas
      BY <3>1, FilesHaveSchemas DEF IInv, Inspected
    <3> QED  BY <3>1, <3>2, PageAsks
  <2> QED  BY <2>1, <2>2
<1>5. request' # NoRequest
  BY <1>1, <1>4, NoRequestIsNone
<1>6. Typed'
  BY <1>1, <1>2, <1>4, <1>5 DEF IInv, Typed, Stages
<1>7. Inspected'
  BY <1>1, <1>2, <1>4, SameSource DEF IInv, Inspected
<1>8. Reading'
  BY <1>2, SameReading DEF IInv
<1>9. Passed' /\ Written' /\ Verdict'
  BY <1>2, <1>3 DEF Passed, Written, Verdict
<1> QED  BY <1>6, <1>7, <1>8, <1>9 DEF IInv

LEMMA BeginKeeps ==
  ASSUME IInv, Begin
  PROVE  IInv'
<1>1. /\ UNCHANGED fvars /\ content' = content /\ at' = at /\ inspection' = inspection
      /\ next' = next /\ streamed' = streamed
      /\ request' = request /\ faulty' = faulty /\ dataset' = dataset
      /\ stage = "queued"
      /\ stage' = IF IsWritable(request.destination) /\ OpensSource(request.source)
                  THEN "opening" ELSE "failed"
  BY DEF Begin, fvars
<1>2. at = "listing"
  BY <1>1 DEF IInv, Passed
<1>3. Typed'
  BY <1>1 DEF IInv, Typed, Stages
<1>4. Inspected' /\ Reading' /\ Written'
  BY <1>1, SameInspected, SameReading, SameDestination DEF IInv
<1>5. Passed'
  BY <1>1, <1>2 DEF Passed
<1>6. Verdict'
  <2>1. stage' = "failed" => Reason
    BY <1>1 DEF Reason
  <2> QED  BY <1>1, <2>1, SameDestination DEF Verdict
<1> QED  BY <1>3, <1>4, <1>5, <1>6 DEF IInv

\* A step of Open keeps Reading and what it needs not, or the attempt fails for a reason.
LEMMA ListKeeps ==
  ASSUME IInv, List
  PROVE  /\ Reading' /\ at' \in {"comparing", "failed"}
         /\ at' = "failed" => ~FilesAgree
<1>1. PICK listing \in Listings :
        IF listing = <<>>
        THEN at' = "failed" /\ UNCHANGED files
        ELSE at' = "comparing" /\ files' = Sorted(listing)
  BY DEF List
<1>2. /\ at = "listing" /\ content' = content /\ next' = next /\ schema' = schema
      /\ streamed' = streamed
  BY DEF List
<1>3. ToSet(listing) = Files /\ (listing = <<>> <=> Files = {})
  BY ListingsShowAll DEF IInv
<1>4. Files' = Files /\ NumFiles' = NumFiles
  BY <1>2, SameSource
<1>5. next = 1 /\ schema = NoSchema /\ Len(streamed) = 0 /\ NumFiles \in Nat
  BY <1>2, FilesListed DEF IInv, Reading
<1>6. CASE Files = {}
  <2>1. at' = "failed" /\ ~FilesAgree
    BY <1>1, <1>3, <1>6, FilesHaveSchemas DEF IInv
  <2> QED  BY <1>2, <1>5, <2>1 DEF Reading
<1>7. CASE Files # {}
  <2>1. at' = "comparing" /\ files' = InOrder(Files, Ascending)
    BY <1>1, <1>3, <1>7 DEF Sorted
  <2>2. 1 <= NumFiles + 1
    BY <1>5
  <2>3. \A i \in 1..(1 - 1) : FALSE
    OBVIOUS
  <2> QED  BY <1>2, <1>4, <1>5, <1>7, <2>1, <2>2, <2>3 DEF Reading
<1> QED  BY <1>6, <1>7

LEMMA ReadSchemaKeeps ==
  ASSUME IInv, ReadSchema
  PROVE  /\ Reading' /\ at' \in {"comparing", "failed"}
         /\ at' = "failed" => ~FilesAgree
<1>0. /\ at = "comparing" /\ content' = content /\ files' = files /\ streamed' = streamed
      /\ next <= Len(files)
  BY DEF ReadSchema
<1>1. /\ Files' = Files /\ NumFiles' = NumFiles
  BY <1>0, SameSource
<1>2. /\ files = InOrder(Files, Ascending) /\ Files # {} /\ Len(streamed) = 0
      /\ next = 1 => schema = NoSchema
      /\ \A i \in 1..(next - 1) : content[files[i]] = schema
  BY <1>0 DEF IInv, Reading
<1>3. /\ NumFiles \in Nat /\ Len(files) = NumFiles
      /\ \A i \in 1..NumFiles : files[i] \in Files
  BY <1>2, FilesListed DEF IInv
<1>4. next \in 1..NumFiles
  BY <1>0, <1>3 DEF IInv, Typed
<1>5. files[next] \in Files /\ files[1] \in Files
  BY <1>3, <1>4
<1>6. \A e \in Files : content[e] # NoSchema
  BY DEF Files
<1>7. schema = NoSchema => next = 1
  <2>1. CASE next # 1
    <3>1. content[files[1]] = schema
      BY <1>2, <1>4, <2>1
    <3> QED  BY <1>5, <1>6, <3>1
  <2> QED  BY <2>1
<1>8. CASE Agrees(files[next])
  <2>1. /\ schema' = IF schema = NoSchema THEN content[files[next]] ELSE schema
        /\ next' = next + 1 /\ at' = "comparing"
    BY <1>0, <1>8 DEF ReadSchema
  <2>2. content[files[next]] = schema'
    BY <1>8, <2>1 DEF Agrees
  <2>3. \A i \in 1..(next' - 1) : content[files[i]] = schema'
    <3>1. ASSUME NEW i \in 1..(next - 1)
          PROVE  content[files[i]] = schema'
      BY <1>2, <1>4, <1>7, <2>1, <3>1
    <3>2. \A i \in 1..(next' - 1) : i = next \/ i \in 1..(next - 1)
      BY <1>4, <2>1
    <3> QED  BY <2>2, <3>1, <3>2
  <2>4. next' # 1 /\ next' <= NumFiles + 1
    BY <1>3, <1>4, <2>1
  <2> QED  BY <1>0, <1>1, <1>2, <2>1, <2>3, <2>4 DEF Reading
<1>9. CASE ~Agrees(files[next])
  <2>1. at' = "failed"
    BY <1>9 DEF ReadSchema
  <2>2. schema # NoSchema /\ content[files[next]] # schema
    BY <1>9 DEF Agrees
  <2>3. content[files[1]] = schema
    <3>1. next # 1
      BY <1>2, <2>2
    <3> QED  BY <1>2, <1>4, <3>1
  <2>4. ~FilesAgree
    BY <1>5, <2>2, <2>3, FilesHaveSchemas DEF IInv, Agreed
  <2> QED  BY <1>0, <1>2, <2>1, <2>4 DEF Reading
<1> QED  BY <1>8, <1>9

LEMMA ValidateKeeps ==
  ASSUME IInv, Validate
  PROVE  /\ Reading' /\ at' \in {"streaming", "failed"}
         /\ at' = "failed" =>
              /\ schema \in Schemas /\ Agreed(schema) /\ Files # {}
              /\ ~ValidateSchema(schema)
<1>0. /\ at = "comparing" /\ content' = content /\ files' = files /\ streamed' = streamed
      /\ schema' = schema /\ next' = 1 /\ next > Len(files)
      /\ at' = IF ValidateSchema(schema) THEN "streaming" ELSE "failed"
  BY DEF Validate
<1>1. /\ Files' = Files /\ NumFiles' = NumFiles
  BY <1>0, SameSource
<1>2. /\ files = InOrder(Files, Ascending) /\ Files # {} /\ Len(streamed) = 0
      /\ \A i \in 1..(next - 1) : content[files[i]] = schema
  BY <1>0 DEF IInv, Reading
<1>3. /\ NumFiles \in Nat /\ Len(files) = NumFiles /\ NumFiles # 0
      /\ \A i \in 1..NumFiles : files[i] \in Files
      /\ \A e \in Files : \E i \in 1..NumFiles : files[i] = e
  BY <1>2, FilesListed DEF IInv
<1>4. \A i \in 1..NumFiles : content[files[i]] = schema
  <2>1. next \in Nat
    BY DEF IInv, Typed
  <2>2. \A i \in 1..NumFiles : i \in 1..(next - 1)
    BY <1>0, <1>3, <2>1
  <2> QED  BY <1>2, <2>2
<1>5. Agreed(schema)
  BY <1>3, <1>4 DEF Agreed
<1>6. schema \in Schemas
  <2>1. 1 \in 1..NumFiles
    BY <1>3
  <2> QED  BY <1>3, <1>4, <2>1, FilesHaveSchemas DEF IInv
<1>7. Agreed(schema)'
  BY <1>0, <1>1, <1>5 DEF Agreed
<1>8. Len(streamed)' = 0 /\ 1 <= NumFiles + 1 /\ next' - 1 = 0
  BY <1>0, <1>2, <1>3
<1>9. \A i \in 1..Len(streamed)' : FALSE
  BY <1>8
<1>10. Reading'
  BY <1>0, <1>1, <1>2, <1>6, <1>7, <1>8, <1>9 DEF Reading
<1> QED  BY <1>0, <1>2, <1>5, <1>6, <1>10

LEMMA OpenKeeps ==
  ASSUME IInv, Open
  PROVE  IInv'
<1>0. /\ stage = "opening" /\ request' = request /\ faulty' = faulty /\ dataset' = dataset
      /\ stage' = IF at' = "failed" THEN "failed" ELSE stage
      /\ content' = content /\ inspection' = inspection /\ streamed' = streamed
  BY DEF Open, List, ReadSchema, Validate
<1>1. next' \in Nat \ {0}
  BY DEF IInv, Typed, Open, List, ReadSchema, Validate
<1>2. Reading' /\ at' \in {"comparing", "streaming", "failed"} /\ (at' = "failed" => Reason)
  <2>1. CASE List
    BY <2>1, ListKeeps DEF Reason
  <2>2. CASE ReadSchema
    BY <2>2, ReadSchemaKeeps DEF Reason
  <2>3. CASE Validate
    BY <2>3, ValidateKeeps DEF Reason
  <2> QED  BY <2>1, <2>2, <2>3 DEF Open
<1>3. Typed'
  BY <1>0, <1>1, <1>2 DEF IInv, Typed, Stages
<1>4. Inspected' /\ Written'
  BY <1>0, SameInspected, SameDestination DEF IInv
<1>5. Passed'
  BY <1>0, <1>2 DEF IInv, Passed
<1>6. Verdict'
  <2>1. Reason => Reason'
    BY <1>0, SameDestination
  <2> QED  BY <1>0, <1>2, <2>1 DEF Verdict
<1> QED  BY <1>2, <1>3, <1>4, <1>5, <1>6 DEF IInv

LEMMA BlobPlanKeeps ==
  ASSUME IInv, BlobPlan
  PROVE  IInv'
<1>1. /\ UNCHANGED fvars /\ content' = content /\ at' = at /\ inspection' = inspection
      /\ next' = next /\ streamed' = streamed /\ schema' = schema
      /\ request' = request /\ faulty' = faulty /\ dataset' = dataset
      /\ stage = "opening" /\ at = "streaming"
      /\ stage' = IF ValidateBlobColumns(schema, request.blobs) THEN "writing" ELSE "failed"
  BY DEF BlobPlan, fvars
<1>2. Typed'
  BY <1>1 DEF IInv, Typed, Stages
<1>3. Inspected' /\ Reading' /\ Written'
  BY <1>1, SameInspected, SameReading, SameDestination DEF IInv
<1>4. Passed'
  BY <1>1 DEF IInv, Passed
<1>5. Verdict'
  <2>1. schema \in Schemas /\ Agreed(schema) /\ Files # {}
    BY <1>1 DEF IInv, Reading
  <2>2. stage' = "failed" => Reason
    BY <1>1, <2>1 DEF Reason
  <2> QED  BY <1>1, <2>2, SameDestination DEF Verdict
<1> QED  BY <1>2, <1>3, <1>4, <1>5 DEF IInv

LEMMA WriteKeeps ==
  ASSUME IInv, Write
  PROVE  IInv'
<1>1. /\ content' = content /\ inspection' = inspection /\ files' = files /\ schema' = schema
      /\ request' = request /\ faulty' = faulty /\ dataset' = dataset
      /\ stage = "writing" /\ stage' = stage /\ at = "streaming" /\ at' \in {"streaming", "done"}
  BY DEF Write, StreamFile, EndOfStream
<1>2. Files' = Files /\ NumFiles' = NumFiles
  BY <1>1, SameSource
<1>3. /\ files = InOrder(Files, Ascending) /\ Files # {} /\ next <= NumFiles + 1
      /\ schema \in Schemas /\ Agreed(schema) /\ ValidateSchema(schema)
      /\ Len(streamed) = next - 1
      /\ \A i \in 1..Len(streamed) : streamed[i] = files[i]
      /\ \A i \in 1..Len(streamed) : streamed[i] \in Files
  BY <1>1 DEF IInv, Reading
<1>4. /\ NumFiles \in Nat /\ Len(files) = NumFiles /\ \A i \in 1..NumFiles : files[i] \in Files
      /\ next \in Nat \ {0} /\ streamed \in Seq(Entries)
  BY <1>3, FilesListed DEF IInv, Typed
<1>5. Agreed(schema)'
  BY <1>1, <1>2, <1>3 DEF Agreed
<1>6. Typed' /\ Reading'
  <2>1. CASE EndOfStream
    <3>1. at' = "done" /\ next' = next /\ streamed' = streamed /\ next = NumFiles + 1
      BY <1>3, <1>4, <2>1 DEF EndOfStream
    <3>2. Typed'
      BY <1>1, <3>1 DEF IInv, Typed
    <3>3. Reading'
      BY <1>1, <1>2, <1>3, <1>5, <3>1 DEF Reading
    <3> QED  BY <3>2, <3>3
  <2>2. CASE StreamFile
    <3>1. /\ at' = "streaming" /\ next' = next + 1 /\ next \in 1..NumFiles
          /\ streamed' = Append(streamed, files[next])
      BY <1>1, <1>4, <2>2 DEF StreamFile
    <3>2. files[next] \in Files /\ files[next] \in Entries
      BY <1>4, <3>1 DEF Files
    <3>3. /\ streamed' \in Seq(Entries) /\ Len(streamed)' = next /\ Len(streamed) = next - 1
          /\ \A i \in 1..(next - 1) : streamed'[i] = streamed[i]
          /\ streamed'[next] = files[next]
      BY <1>3, <1>4, <3>1, <3>2, AppendProperties
    <3>4. ASSUME NEW i \in 1..next
          PROVE  streamed'[i] = files[i] /\ streamed'[i] \in Files
      <4>1. CASE i = next
        BY <3>2, <3>3, <4>1
      <4>2. CASE i # next
        <5>1. i \in 1..(next - 1)
          BY <1>4, <4>2
        <5> QED  BY <1>3, <3>3, <5>1
      <4> QED  BY <4>1, <4>2
    <3>5. Typed'
      <4>1. next' \in Nat \ {0}
        BY <3>1
      <4> QED  BY <1>1, <3>1, <3>3, <4>1 DEF IInv, Typed
    <3>6. next' - 1 = next /\ next' <= NumFiles + 1
      BY <1>4, <3>1
    <3>7. Reading'
      BY <1>1, <1>2, <1>3, <1>5, <3>1, <3>3, <3>4, <3>6 DEF Reading
    <3> QED  BY <3>5, <3>7
  <2> QED  BY <2>1, <2>2 DEF Write
<1>7. Inspected' /\ Written'
  BY <1>1, SameInspected, SameDestination DEF IInv
<1>8. Passed' /\ Verdict'
  BY <1>1 DEF IInv, Passed, Verdict
<1> QED  BY <1>6, <1>7, <1>8 DEF IInv

LEMMA CommitKeeps ==
  ASSUME IInv, Commit
  PROVE  IInv'
<1>1. /\ UNCHANGED fvars /\ content' = content /\ at' = at /\ inspection' = inspection
      /\ next' = next /\ streamed' = streamed /\ schema' = schema
      /\ request' = request /\ faulty' = faulty
      /\ stage = "writing" /\ at = "done"
  BY DEF Commit, fvars
<1>2. /\ schema \in Schemas /\ Agreed(schema) /\ ValidateSchema(schema) /\ Files # {}
      /\ files = InOrder(Files, Ascending)
      /\ Len(streamed) = next - 1 /\ next = NumFiles + 1
      /\ \A i \in 1..Len(streamed) : streamed[i] = files[i]
  BY <1>1 DEF IInv, Reading
<1>3. request \in JobRequests /\ request # NoRequest
  BY <1>1 DEF IInv, Typed
<1>4. /\ IsWritable(request.destination) /\ OpensSource(request.source)
      /\ ValidateBlobColumns(schema, request.blobs)
  BY <1>1 DEF IInv, Passed
<1>5. Inspected' /\ Reading'
  BY <1>1, SameInspected, SameReading DEF IInv
<1>6. CASE ~LanceTakes(schema)
  <2>1. stage' = "failed" /\ dataset' = dataset
    BY <1>6 DEF Commit
  <2>2. Reason
    BY <1>2, <1>6 DEF Reason
  <2>3. Typed' /\ Passed' /\ Written' /\ Verdict'
    BY <1>1, <2>1, <2>2, SameDestination DEF IInv, Typed, Stages, Passed, Verdict
  <2> QED  BY <1>5, <2>3 DEF IInv
<1>7. CASE LanceTakes(schema)
  <2>1. /\ dataset' = [rows |-> streamed, schema |-> WithBlobs(schema, request.blobs),
                      indexes |-> <<>>]
        /\ stage' = "indexing"
    BY <1>7 DEF Commit
  <2>2. CanBeWritten(request)
    <3>1. request.source \in {"path", "s3", "hf"} /\ request.destination \in {"path", "empty", "s3"}
      BY <1>3, <1>4 DEF JobRequests, Uris, IsWritable, OpensSource, ParseLocation, StorageKind
    <3>2. FilesAgree
      BY <1>2, FilesHaveSchemas DEF IInv
    <3>3. PICK e \in Files : TRUE
      BY <1>2
    <3>4. e \in Entries /\ content[e] = schema /\ content[e] # NoSchema
      BY <1>2, <3>3 DEF Agreed, Files
    <3>5. request.blobs \in Seq(STRING)
      BY <1>3 DEF JobRequests
    <3>6. HasKnownTypes(schema) /\ BlobsFit(schema, request.blobs)
      BY <1>2, <1>4, <3>5, TypesAreChecked, BlobsAreChecked
    <3> QED  BY <1>7, <3>1, <3>2, <3>4, <3>6 DEF CanBeWritten
  <2>3. /\ \A i, j \in DOMAIN streamed : i < j => streamed[i] < streamed[j]
        /\ {streamed[i] : i \in DOMAIN streamed} = Files
    <3>1. /\ NumFiles \in Nat
          /\ \A i \in 1..NumFiles : files[i] \in Files
          /\ \A i, j \in 1..NumFiles : i < j => files[i] < files[j]
          /\ \A e \in Files : \E i \in 1..NumFiles : files[i] = e
      BY <1>2, FilesListed DEF IInv
    <3>2. Len(streamed) = NumFiles
      BY <1>2, <3>1
    <3>3. DOMAIN streamed = 1..NumFiles
      BY <3>2 DEF IInv, Typed
    <3>4. \A i \in 1..NumFiles : streamed[i] = files[i]
      BY <1>2, <3>2
    <3> QED  BY <3>1, <3>3, <3>4
  <2>4. /\ dataset'.rows = streamed /\ dataset'.schema = WithBlobs(schema, request.blobs)
        /\ dataset'.indexes = <<>> /\ Len(dataset'.indexes) = 0
    BY <2>1, EmptySeq
  <2>5. Written'
    <3>2. CanBeWritten(request)'
      BY <1>1, <2>2, SameSource DEF CanBeWritten
    <3>3. Files' = Files /\ Agreed(schema)'
      BY <1>1, <1>2, SameSource DEF Agreed
    <3>4. Indexed' = 0 /\ 0 <= Len(request'.indexes)
      <4>1. Len(request'.indexes) \in Nat
        BY <1>1, <1>3, LenProperties DEF JobRequests
      <4> QED  BY <2>4, <4>1 DEF Indexed
    <3>5. \A k \in 1..0 : FALSE
      OBVIOUS
    <3>6. \E s \in Schemas : Agreed(s)' /\ dataset'.schema = WithBlobs(s, request'.blobs)
      <4>1. Agreed(schema)
        BY <1>2
      <4>2. \A s \in Schemas : Agreed(s)' <=> Agreed(s)
        BY <1>1, SameSource
      <4> QED  BY <1>1, <1>2, <2>4, <4>2
    <3>7. /\ \A i, j \in DOMAIN dataset'.rows : i < j => dataset'.rows[i] < dataset'.rows[j]
          /\ {dataset'.rows[i] : i \in DOMAIN dataset'.rows} = Files
      BY <2>3, <2>4
    <3> QED  BY <3>2, <3>3, <3>4, <3>5, <3>6, <3>7 DEF Written
  <2>6. Typed'
    <3>1. streamed \in Seq(Entries) /\ <<>> \in Seq(Made)
      BY EmptySeq DEF IInv, Typed
    <3>2. WithBlobs(schema, request.blobs) \in Seq(Columns)
      BY <1>2, <1>3, BlobColumns DEF JobRequests
    <3>3. dataset' \in [rows : Seq(Entries), schema : Seq(Columns) \cup {NoSchema},
                        indexes : Seq(Made)]
      BY <2>1, <3>1, <3>2
    <3> QED  BY <1>1, <2>1, <3>3 DEF IInv, Typed, Stages
  <2>7. Passed' /\ Verdict'
    BY <1>1, <1>4, <2>1, <2>4 DEF Passed, Verdict
  <2> QED  BY <1>5, <2>5, <2>6, <2>7 DEF IInv
<1> QED  BY <1>6, <1>7

LEMMA CreateIndexKeeps ==
  ASSUME IInv, CreateIndex
  PROVE  IInv'
<1> DEFINE k == Indexed + 1
           spec == request.indexes[k]
           suitable == {i \in ColumnsNamed(dataset.schema, spec.name) : CanIndex(i, spec)}
<1>1. /\ UNCHANGED fvars /\ content' = content /\ at' = at /\ inspection' = inspection
      /\ next' = next /\ streamed' = streamed /\ schema' = schema
      /\ request' = request /\ faulty' = faulty
      /\ stage = "indexing" /\ MoreIndexes
  BY DEF CreateIndex, fvars
<1>2. \/ \E i \in suitable :
           /\ dataset' = [dataset EXCEPT !.indexes = Append(@, IndexOn(i, spec))]
           /\ stage' = stage
      \/ suitable = {} /\ stage' = "failed" /\ dataset' = dataset
  BY DEF CreateIndex
<1>3. /\ at = "done" /\ dataset.schema = WithBlobs(schema, request.blobs)
      /\ ValidateBlobColumns(schema, request.blobs)
      /\ IsWritable(request.destination) /\ OpensSource(request.source)
  BY <1>1 DEF IInv, Passed
<1>4. schema \in Schemas
  BY <1>3 DEF IInv, Reading
<1>5. /\ request \in JobRequests /\ request.blobs \in Seq(STRING)
      /\ request.indexes \in Seq([name : STRING, index : IndexTypes])
      /\ Len(request.indexes) \in Nat
  <2>1. request \in JobRequests
    BY <1>1 DEF IInv, Typed
  <2>2. request.indexes \in Seq([name : STRING, index : IndexTypes])
    BY <2>1 DEF JobRequests
  <2>3. Len(request.indexes) \in Nat
    BY <2>2, LenProperties
  <2> QED  BY <2>1, <2>2, <2>3 DEF JobRequests
<1>6. dataset.schema \in Seq(Columns) /\ dataset.schema # NoSchema
  BY <1>3, <1>4, <1>5, BlobColumns
<1>7. /\ CanBeWritten(request)
      /\ \A i, j \in DOMAIN dataset.rows : i < j => dataset.rows[i] < dataset.rows[j]
      /\ {dataset.rows[i] : i \in DOMAIN dataset.rows} = Files
      /\ \E s \in Schemas : Agreed(s) /\ dataset.schema = WithBlobs(s, request.blobs)
      /\ \A j \in 1..Indexed : Indexable(j)
  BY <1>6 DEF IInv, Written
<1>8. Indexed \in Nat /\ k \in 1..Len(request.indexes) /\ Indexed = Len(dataset.indexes)
  <2>1. dataset.indexes \in Seq(Made)
    BY DEF IInv, Typed
  <2>2. Indexed \in Nat
    BY <2>1, LenProperties DEF Indexed
  <2>3. Indexed < Len(request.indexes)
    BY <1>1 DEF MoreIndexes
  <2> QED  BY <1>5, <2>2, <2>3 DEF Indexed
<1>9. spec \in [name : STRING, index : IndexTypes]
  BY <1>5, <1>8, ElementOfSeq
<1>10. Inspected' /\ Reading'
  BY <1>1, SameInspected, SameReading DEF IInv
<1>11. suitable # {} <=> Indexable(k)
  BY DEF Indexable
<1> HIDE DEF k, spec, suitable
<1>12. CASE suitable = {} /\ stage' = "failed" /\ dataset' = dataset
  <2>1. Reason
    BY <1>1, <1>6, <1>11, <1>12 DEF Reason, k
  <2>2. Typed' /\ Passed' /\ Written' /\ Verdict'
    BY <1>1, <1>12, <2>1, SameDestination DEF IInv, Typed, Stages, Passed, Verdict
  <2> QED  BY <1>10, <2>2 DEF IInv
<1>13. ASSUME NEW i \in suitable,
              dataset' = [dataset EXCEPT !.indexes = Append(@, IndexOn(i, spec))],
              stage' = stage
       PROVE  IInv'
  <2> DEFINE index == IndexOn(i, spec)
             indexes == Append(dataset.indexes, index)
  <2>1. dataset \in [rows : Seq(Entries), schema : Seq(Columns) \cup {NoSchema},
                     indexes : Seq(Made)]
    BY DEF IInv, Typed
  <2>2. i \in ColumnsNamed(dataset.schema, spec.name) /\ CanIndex(i, spec)
    BY <1>13 DEF suitable
  <2>3. index \in Made
    <3> DEFINE type == dataset.schema[i].type
    <3>1. i \in DOMAIN dataset.schema /\ IsMapped(spec.index, type)
      BY <2>2 DEF ColumnsNamed, CanIndex
    <3>2. dataset.schema[i] \in Columns
      BY <1>6, <3>1
    <3>3. type \in [in : Seq(Containers), leaf : Leaves, size : Nat]
      BY <3>2 DEF Columns
    <3> HIDE DEF type
    <3>4. Parts(spec.index, type) \in Nat
      <4>1. CASE spec.index = "vector"
        <5>1. VectorDimension(type) \in Nat /\ VectorDimension(type) > 0
          BY <3>1, <3>3, <4>1, VectorsAreCut DEF IsMapped
        <5>2. Parts("vector", type) \in 1..MaxProductSubvectors
          BY <3>3, <5>1, VectorsAreCut
        <5> QED  BY <4>1, <5>2 DEF MaxProductSubvectors
      <4>2. CASE spec.index # "vector"
        BY <4>2 DEF Parts
      <4> QED  BY <4>1, <4>2
    <3>5. index = [name |-> spec.name, index |-> spec.index, parts |-> Parts(spec.index, type)]
      BY DEF IndexOn, type
    <3> HIDE DEF index
    <3> QED  BY <1>9, <3>4, <3>5 DEF Made
  <2> HIDE DEF index
  <2>4. indexes \in Seq(Made) /\ Len(indexes) = Indexed + 1
    BY <1>8, <2>1, <2>3, AppendProperties
  <2>5. dataset' = [dataset EXCEPT !.indexes = indexes]
    BY <1>13 DEF index
  <2> HIDE DEF indexes, Made, Columns
  <2>6. /\ dataset' \in [rows : Seq(Entries), schema : Seq(Columns) \cup {NoSchema},
                         indexes : Seq(Made)]
        /\ dataset'.schema = dataset.schema /\ dataset'.rows = dataset.rows
        /\ dataset'.indexes = indexes
    BY <2>1, <2>4, <2>5
  <2>7. Typed'
    BY <1>1, <1>13, <2>6 DEF IInv, Typed
  <2>8. Passed' /\ Verdict'
    BY <1>1, <1>3, <1>13, <2>6 DEF Passed, Verdict
  <2>9. Indexed' = k /\ k \in Nat /\ k <= Len(request.indexes)
    BY <1>5, <1>8, <2>4, <2>6 DEF Indexed, k
  <2>10. \A j : Indexable(j)' <=> Indexable(j)
    BY <1>1, <2>6 DEF Indexable, CanIndex
  <2>11. \A j \in 1..k : Indexable(j)
    <3>1. Indexable(k)
      BY <1>11, <1>13
    <3>2. \A j \in 1..k : j = k \/ j \in 1..Indexed
      BY <1>8 DEF k
    <3> QED  BY <1>7, <3>1, <3>2
  <2>12. /\ Files' = Files /\ (\A s \in Schemas : Agreed(s)' <=> Agreed(s))
         /\ CanBeWritten(request)'
    <3>1. FilesAgree' <=> FilesAgree
      BY <1>1, SameSource
    <3>2. CanBeWritten(request)'
      BY <1>1, <1>7, <3>1 DEF CanBeWritten
    <3> QED  BY <1>1, <3>2, SameSource
  <2>13. Written'
    BY <1>1, <1>7, <2>6, <2>9, <2>10, <2>11, <2>12 DEF Written
  <2> QED  BY <1>10, <2>7, <2>8, <2>13 DEF IInv
<1> QED  BY <1>2, <1>12, <1>13

LEMMA OthersKeep ==
  ASSUME IInv, Finish \/ Fault \/ Retry
  PROVE  IInv'
<1>1. /\ content' = content /\ inspection' = inspection /\ request' = request
      /\ dataset' = dataset
  BY DEF Finish, Fault, Retry, ReadFails, fvars
<1>2. Inspected' /\ Written'
  BY <1>1, SameInspected, SameDestination DEF IInv
<1>3. MoreIndexes' <=> MoreIndexes
  BY <1>1, SameDestination
<1>4. CASE Finish
  <2>1. /\ UNCHANGED fvars /\ at' = at /\ next' = next /\ streamed' = streamed
        /\ schema' = schema /\ faulty' = faulty
        /\ stage = "indexing" /\ stage' = "succeeded" /\ ~MoreIndexes
    BY <1>4 DEF Finish, fvars
  <2>2. Typed' /\ Reading'
    BY <1>1, <2>1, SameReading DEF IInv, Typed, Stages
  <2>3. Passed' /\ Verdict'
    BY <1>1, <1>3, <2>1 DEF IInv, Passed, Verdict
  <2> QED  BY <1>2, <2>2, <2>3 DEF IInv
<1>5. CASE Fault
  <2>1. /\ stage' = "failed" /\ faulty' = TRUE /\ stage \in {"opening", "writing", "indexing"}
        /\ next' = next /\ streamed' = streamed /\ schema' = schema /\ files' = files
        /\ at' \in {at, "failed"}
    BY <1>5 DEF Fault, ReadFails, fvars
  <2>2. Typed' /\ Passed' /\ Verdict'
    BY <1>1, <2>1 DEF IInv, Typed, Stages, Passed, Verdict
  <2>3. Reading'
    <3>1. Files' = Files /\ NumFiles' = NumFiles
      BY <1>1, SameSource
    <3>2. CASE at' = at
      BY <1>1, <2>1, <3>1, <3>2 DEF IInv, Reading, Agreed
    <3>3. CASE at' = "failed"
      BY <1>1, <2>1, <3>1, <3>3 DEF IInv, Reading, Agreed
    <3> QED  BY <2>1, <3>2, <3>3
  <2> QED  BY <1>2, <2>2, <2>3 DEF IInv
<1>6. CASE Retry
  <2>1. /\ stage = "failed" /\ stage' = "queued" /\ faulty' = FALSE
        /\ at' = "listing" /\ next' = 1 /\ schema' = NoSchema /\ streamed' = <<>>
    BY <1>6 DEF Retry, Start
  <2>2. Len(streamed') = 0 /\ streamed' \in Seq(Entries)
    BY <2>1, EmptySeq
  <2>3. next' \in Nat \ {0}
    BY <2>1
  <2>4. faulty' \in BOOLEAN
    BY <2>1
  <2>5. Typed'
    BY <1>1, <2>1, <2>2, <2>3, <2>4 DEF IInv, Typed, Stages
  <2>6. Reading'
    BY <2>1, <2>2 DEF Reading
  <2>7. Passed' /\ Verdict'
    BY <2>1 DEF Passed, Verdict
  <2> QED  BY <1>2, <2>5, <2>6, <2>7 DEF IInv
<1> QED  BY <1>4, <1>5, <1>6

LEMMA StepKeeps == IInv /\ [QNext]_qvars => IInv'
<1> SUFFICES ASSUME IInv, [QNext]_qvars
             PROVE  IInv'
  OBVIOUS
<1>1. CASE UNCHANGED qvars
  <2>1. /\ UNCHANGED fvars /\ content' = content /\ at' = at /\ inspection' = inspection
        /\ next' = next /\ streamed' = streamed /\ schema' = schema
        /\ request' = request /\ faulty' = faulty /\ dataset' = dataset /\ stage' = stage
    BY <1>1 DEF qvars, fvars
  <2>2. Inspected' /\ Reading' /\ Written'
    BY <2>1, SameInspected, SameReading, SameDestination DEF IInv
  <2>3. Typed' /\ Passed' /\ Verdict'
    BY <2>1, SameDestination DEF IInv, Typed, Passed, Verdict
  <2> QED  BY <2>2, <2>3 DEF IInv
<1>2. CASE InspectSource
  BY <1>2, InspectKeeps
<1>3. CASE Submit
  BY <1>3, SubmitKeeps
<1>4. CASE Begin
  BY <1>4, BeginKeeps
<1>5. CASE Open
  BY <1>5, OpenKeeps
<1>6. CASE BlobPlan
  BY <1>6, BlobPlanKeeps
<1>7. CASE Write
  BY <1>7, WriteKeeps
<1>8. CASE Commit
  BY <1>8, CommitKeeps
<1>9. CASE CreateIndex
  BY <1>9, CreateIndexKeeps
<1>10. CASE Finish \/ Fault \/ Retry
  BY <1>10, OthersKeep
<1> QED
  BY <1>1, <1>2, <1>3, <1>4, <1>5, <1>6, <1>7, <1>8, <1>9, <1>10 DEF QNext

LEMMA IInvAlways == QSpec => []IInv
BY InitHolds, StepKeeps, PTL DEF QSpec

-----------------------------------------------------------------------------
\* What the runs check.

\* All that a conversion streams has the schema that it announced and that was
\* inspected, whichever file the inspection looked at.
THEOREM InspectionHolds == QSpec => []InspectedIsConverted
<1>1. IInv => InspectedIsConverted
  <2> SUFFICES ASSUME IInv, NEW i \in 1..Len(streamed)
               PROVE  content[streamed[i]] = schema /\ inspection \in {NoSchema, schema}
    BY DEF InspectedIsConverted
  <2>1. streamed[i] \in Files /\ Agreed(schema)
    BY DEF IInv, Reading
  <2>2. inspection # NoSchema => \E e \in Files : content[e] = inspection
    BY DEF IInv, Inspected
  <2> QED  BY <2>1, <2>2 DEF Agreed
<1> QED  BY <1>1, IInvAlways, PTL

\* A destination is overwritten only with all of a source that could be written, in the
\* order of its files, by a job whose blob columns fit: whatever is found out later.
THEOREM NothingDestroyedInVain == QSpec => []WrittenIsValid
<1>1. IInv => WrittenIsValid
  BY DEF IInv, Written, WrittenIsValid, Files
<1> QED  BY <1>1, IInvAlways, PTL

\* The dataset can get an index if its type fits a column that did not become a blob.
LEMMA IndexableIs ==
  ASSUME IInv, dataset.schema # NoSchema, NEW k \in 1..Len(request.indexes)
  PROVE  \A s \in Schemas :
           Agreed(s) =>
             (Indexable(k) <=> \E i \in DOMAIN s :
                /\ s[i].name = request.indexes[k].name /\ request.indexes[k].name # ""
                /\ \A b \in DOMAIN request.blobs : request.blobs[b] # request.indexes[k].name
                /\ CASE request.indexes[k].index = "scalar" -> s[i].type.in = <<>>
                     [] request.indexes[k].index = "text"   ->
                          /\ s[i].type.in \in {<<>>, <<"list">>}
                          /\ IsString(s[i].type.leaf)
                     [] request.indexes[k].index = "vector" -> IsVector(s[i].type))
<1> SUFFICES ASSUME NEW s \in Schemas, Agreed(s)
             PROVE  Indexable(k) <=> \E i \in DOMAIN s :
                      /\ s[i].name = request.indexes[k].name /\ request.indexes[k].name # ""
                      /\ \A b \in DOMAIN request.blobs :
                           request.blobs[b] # request.indexes[k].name
                      /\ CASE request.indexes[k].index = "scalar" -> s[i].type.in = <<>>
                           [] request.indexes[k].index = "text"   ->
                                /\ s[i].type.in \in {<<>>, <<"list">>}
                                /\ IsString(s[i].type.leaf)
                           [] request.indexes[k].index = "vector" -> IsVector(s[i].type)
  OBVIOUS
<1> DEFINE spec == request.indexes[k]
           index == spec.index
           Fits(i) == /\ \A b \in DOMAIN request.blobs : request.blobs[b] # s[i].name
                      /\ CASE index = "scalar" -> s[i].type.in = <<>>
                           [] index = "text"   -> /\ s[i].type.in \in {<<>>, <<"list">>}
                                                  /\ IsString(s[i].type.leaf)
                           [] index = "vector" -> IsVector(s[i].type)
           d == dataset.schema
<1>1. stage # "none" /\ request \in JobRequests
  BY DEF IInv, Typed, Passed
<1>2. request.blobs \in Seq(STRING) /\ index \in IndexTypes
  <2>1. request.indexes \in Seq([name : STRING, index : IndexTypes])
    BY <1>1 DEF JobRequests
  <2>2. spec \in [name : STRING, index : IndexTypes]
    BY <2>1, ElementOfSeq
  <2> QED  BY <1>1, <2>2 DEF JobRequests
<1>3. d = WithBlobs(s, request.blobs)
  <2>1. PICK t \in Schemas : Agreed(t) /\ d = WithBlobs(t, request.blobs)
    BY DEF IInv, Written
  <2>2. CanBeWritten(request)
    BY DEF IInv, Written
  <2>3. Files # {}
    BY <2>2, FilesHaveSchemas DEF CanBeWritten, IInv
  <2>4. s = t
    BY <2>1, <2>3 DEF Agreed
  <2> QED  BY <2>1, <2>4
<1>4. DOMAIN d = DOMAIN s /\ \A i \in DOMAIN s : d[i].name = s[i].name
  BY <1>2, <1>3, BlobColumns
<1>5. ASSUME NEW i \in DOMAIN s
      PROVE  CanIndex(i, spec) <=> spec.name # "" /\ Fits(i)
  <2> DEFINE type == WithBlobs(s, request.blobs)[i].type
  <2>1. IsMapped(index, type) /\ LanceIndexes(index, type, Parts(index, type)) <=> Fits(i)
    <3> HIDE DEF index
    <3> QED  BY <1>2, IndexesAreChecked
  <2>2. CanIndex(i, spec) <=> /\ spec.name # ""
                              /\ IsMapped(index, type)
                              /\ LanceIndexes(index, type, Parts(index, type))
    BY <1>3 DEF CanIndex
  <2> HIDE DEF Fits, type, index, spec
  <2> QED  BY <2>1, <2>2
<1> HIDE DEF Fits
<1>6. Indexable(k) <=> \E i \in DOMAIN s : s[i].name = spec.name /\ spec.name # "" /\ Fits(i)
  BY <1>4, <1>5 DEF Indexable, ColumnsNamed
<1> QED  BY <1>6 DEF Fits

\* The checks of the pipeline and what a request needs agree: no job succeeds without
\* it, and none that has it fails unless a call failed.
THEOREM VerdictsRight == QSpec => []VerdictIsRight
<1>1. ASSUME IInv, stage = "succeeded"
      PROVE  CanBeWritten(request) /\ CanBeIndexed(request)
  <2>1. /\ at = "done" /\ dataset.schema = WithBlobs(schema, request.blobs) /\ ~MoreIndexes
        /\ request \in JobRequests
    BY <1>1 DEF IInv, Passed, Typed
  <2>2. schema \in Schemas /\ Agreed(schema) /\ Files # {}
    BY <1>1, <2>1 DEF IInv, Reading
  <2>3. dataset.schema # NoSchema
    BY <2>1, <2>2, BlobColumns DEF JobRequests
  <2>4. CanBeWritten(request) /\ \A k \in 1..Indexed : Indexable(k)
    BY <1>1, <2>3 DEF IInv, Written
  <2>5. DOMAIN request.indexes = 1..Len(request.indexes) /\ Len(request.indexes) \in Nat
    BY <2>1, LenProperties DEF JobRequests
  <2>6. Indexed \in Nat /\ Indexed <= Len(request.indexes)
    <3>1. dataset.indexes \in Seq(Made)
      BY <1>1 DEF IInv, Typed
    <3>2. Indexed \in Nat
      BY <3>1, LenProperties DEF Indexed
    <3> QED  BY <1>1, <2>3, <3>2 DEF IInv, Written
  <2>7. Indexed = Len(request.indexes)
    BY <2>1, <2>5, <2>6 DEF MoreIndexes
  <2>8. \A k \in DOMAIN request.indexes : Indexable(k)
    BY <2>4, <2>5, <2>7
  <2>9. IndexesFit(schema, request)
    BY <1>1, <2>2, <2>3, <2>5, <2>8, IndexableIs DEF IndexesFit
  <2>10. PICK e \in Files : TRUE
    BY <2>2
  <2>11. e \in Entries /\ content[e] = schema /\ content[e] # NoSchema
    BY <2>2, <2>10 DEF Agreed, Files
  <2> QED  BY <2>4, <2>9, <2>11 DEF CanBeIndexed
<1>2. ASSUME IInv, stage = "failed", ~faulty, CanBeWritten(request), CanBeIndexed(request)
      PROVE  FALSE
  <2>1. request \in JobRequests
    BY <1>2 DEF IInv, Typed
  <2>2. IsWritable(request.destination) /\ OpensSource(request.source)
    BY <1>2 DEF CanBeWritten, IsWritable, OpensSource, ParseLocation, StorageKind
  <2>3. FilesAgree
    BY <1>2 DEF CanBeWritten
  <2>4. ASSUME NEW s \in Schemas, Agreed(s)
        PROVE  ValidateSchema(s) /\ ValidateBlobColumns(s, request.blobs) /\ LanceTakes(s)
    <3>1. PICK e \in Entries : /\ content[e] # NoSchema
                              /\ HasKnownTypes(content[e]) /\ LanceTakes(content[e])
                              /\ BlobsFit(content[e], request.blobs)
      BY <1>2 DEF CanBeWritten
    <3>2. content[e] = s
      BY <2>4, <3>1 DEF Agreed, Files
    <3>3. request.blobs \in Seq(STRING)
      BY <2>1 DEF JobRequests
    <3> QED  BY <3>1, <3>2, <3>3, TypesAreChecked, BlobsAreChecked
  <2>5. dataset.schema # NoSchema /\ MoreIndexes /\ ~Indexable(Indexed + 1)
    BY <1>2, <2>2, <2>3, <2>4 DEF IInv, Verdict, Reason
  <2>6. PICK e \in Entries : content[e] # NoSchema /\ IndexesFit(content[e], request)
    BY <1>2 DEF CanBeIndexed
  <2>7. PICK s \in Schemas : Agreed(s)
    BY <1>2, <2>3, FilesHaveSchemas DEF IInv
  <2>8. content[e] = s
    BY <2>6, <2>7 DEF Agreed, Files
  <2>9. Indexed + 1 \in 1..Len(request.indexes)
        /\ DOMAIN request.indexes = 1..Len(request.indexes)
    <3>1. dataset.indexes \in Seq(Made)
      BY <1>2 DEF IInv, Typed
    <3>2. Indexed \in Nat
      BY <3>1, LenProperties DEF Indexed
    <3>3. Len(request.indexes) \in Nat /\ DOMAIN request.indexes = 1..Len(request.indexes)
      BY <2>1, LenProperties DEF JobRequests
    <3> QED  BY <2>5, <3>2, <3>3 DEF MoreIndexes
  <2>10. Indexable(Indexed + 1)
    BY <1>2, <2>5, <2>6, <2>7, <2>8, <2>9, IndexableIs DEF IndexesFit
  <2> QED  BY <2>5, <2>10
<1>3. IInv => VerdictIsRight
  BY <1>1, <1>2 DEF VerdictIsRight
<1> QED  BY <1>3, IInvAlways, PTL

\* A request of the page fails for a file it did not inspect, a name that occurs twice
\* or the type of an index, or because a call failed, and for nothing else.
THEOREM PageFits == QSpec => []PageRequestsFit
<1>1. IInv => PageRequestsFit
  <2> SUFFICES ASSUME IInv, request # NoRequest, request.by = "page", stage = "failed",
                      ~faulty, FilesAgree, LanceTakes(inspection)
               PROVE  /\ dataset.schema # NoSchema /\ MoreIndexes
                      /\ ColumnsNamed(dataset.schema, request.indexes[Indexed + 1].name) # {}
    BY DEF PageRequestsFit
  <2>1. /\ inspection # NoSchema /\ request \in Offered(inspection)
        /\ ValidateSchema(inspection) /\ \E e \in Files : content[e] = inspection
    BY DEF IInv, Inspected
  <2>2. inspection \in Schemas
    BY <2>1, FilesHaveSchemas DEF IInv
  <2>3. \A s \in Schemas : Agreed(s) => s = inspection
    BY <2>1 DEF Agreed
  <2>4. /\ request \in JobRequests /\ request.source = "s3" /\ request.destination = "path"
        /\ ValidateBlobColumns(inspection, request.blobs)
        /\ \A k \in 1..Len(request.indexes) :
             \E i \in DOMAIN inspection : request.indexes[k].name = inspection[i].name
    BY <2>1, <2>2, PageAsks
  <2>5. IsWritable(request.destination) /\ OpensSource(request.source)
    BY <2>4 DEF IsWritable, OpensSource, ParseLocation, StorageKind
  <2>6. dataset.schema # NoSchema /\ MoreIndexes
    BY <2>1, <2>3, <2>4, <2>5 DEF IInv, Verdict, Reason
  <2>7. dataset.schema = WithBlobs(inspection, request.blobs)
    BY <2>3, <2>6 DEF IInv, Written
  <2>8. Indexed + 1 \in 1..Len(request.indexes)
    <3>1. dataset.indexes \in Seq(Made)
      BY DEF IInv, Typed
    <3>2. Indexed \in Nat
      BY <3>1, LenProperties DEF Indexed
    <3>3. Len(request.indexes) \in Nat
      BY <2>4, LenProperties DEF JobRequests
    <3> QED  BY <2>6, <3>2, <3>3 DEF MoreIndexes
  <2>9. PICK i \in DOMAIN inspection :
          request.indexes[Indexed + 1].name = inspection[i].name
    BY <2>4, <2>8
  <2>10. i \in DOMAIN dataset.schema /\ dataset.schema[i].name = inspection[i].name
    BY <2>2, <2>4, <2>7, BlobColumns DEF JobRequests
  <2> QED  BY <2>6, <2>9, <2>10 DEF ColumnsNamed
<1> QED  BY <1>1, IInvAlways, PTL
=============================================================================
