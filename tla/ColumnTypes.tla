----------------------------- MODULE ColumnTypes -----------------------------
(***************************************************************************)
(* Schemas, and what the converter makes of them: which it rejects, which  *)
(* columns can become blobs, and how a column is indexed.  A schema is a   *)
(* sequence of columns.  A data type is given by the containers around its *)
(* leaf, the outermost first; size is that of the innermost fixed-size     *)
(* list.  (A struct is entered by each of its fields: one of them is       *)
(* enough here.)                                                           *)
(***************************************************************************)
EXTENDS Integers, Sequences, FiniteSets

Containers == {"list", "list_view", "fixed_list", "map", "struct"}

Leaves == {"utf8", "large_utf8", "utf8_view", "binary", "int", "float", "uint8",
           "union", "variant", "blob"}

Type(containers, leaf, size) == [in |-> containers, leaf |-> leaf, size |-> size]

Column(name, type) == [name |-> name, type |-> type]

Columns == [name : STRING, type : [in : Seq(Containers), leaf : Leaves, size : Nat]]

\* Blobs are Lance's: files have none.
SourceSchemas == {schema \in Seq(Columns) : \A i \in DOMAIN schema : schema[i].type.leaf # "blob"}

ColumnsNamed(schema, name) == {i \in DOMAIN schema : schema[i].name = name}

NameIsUnique(schema, name) == Cardinality(ColumnsNamed(schema, name)) = 1

-----------------------------------------------------------------------------
\* validation.rs

\* Mutant of ValidateType: containers are not entered.
ValidateTopLevelType(type) == type.in = <<>> => type.leaf \notin {"union", "variant"}

ValidateType(type) == type.leaf \notin {"union", "variant"}

ValidateSchema(schema) == \A i \in DOMAIN schema : ValidateType(schema[i].type)

IsBlobEligible(type) ==
  type.in = <<>> /\ type.leaf \in {"utf8", "large_utf8", "utf8_view"}

\* validate_blob_columns.  (It returns at the first selection that is wrong.)
ValidateBlobColumns(schema, blobs) ==
  \A k \in DOMAIN blobs :
    /\ \A j \in 1..(k - 1) : blobs[j] # blobs[k]
    /\ NameIsUnique(schema, blobs[k])
    /\ \A i \in ColumnsNamed(schema, blobs[k]) : IsBlobEligible(schema[i].type)

\* The schema after BlobPlan: selected columns are Blob V2 structs.
WithBlobs(schema, blobs) ==
  [i \in DOMAIN schema |->
     IF \E k \in DOMAIN blobs : blobs[k] = schema[i].name
     THEN [schema[i] EXCEPT !.type = Type(<<>>, "blob", 0)]
     ELSE schema[i]]

-----------------------------------------------------------------------------
\* indexes.rs

\* The dimension of the vectors in a column, 0 if they are none.
VectorDimension(type) ==
  LET n == Len(type.in)
  IN  IF /\ n > 0
         /\ type.in[n] = "fixed_list"
         /\ \A i \in 1..(n - 1) : type.in[i] = "list"
         /\ type.leaf \in {"float", "uint8"}
      THEN type.size
      ELSE 0

MaxProductSubvectors == 16

Smaller(m, n) == IF m < n THEN m ELSE n

Largest(S) == CHOOSE c \in S : \A d \in S : d <= c

\* Mutant of ProductSubvectors: as many as there may be.
ProductSubvectorsUneven(dimension) == Smaller(MaxProductSubvectors, dimension)

ProductSubvectors(dimension) ==
  LET divisors == {c \in 1..Smaller(MaxProductSubvectors, dimension) : dimension % c = 0}
  IN  IF divisors = {} THEN 1 ELSE Largest(divisors)

\* mapping: which index a column gets, and of how many parts.
IsMapped(index, type) == index = "vector" => VectorDimension(type) > 0

Parts(index, type) ==
  IF index = "vector" THEN ProductSubvectors(VectorDimension(type)) ELSE 0

\* What Lance accepts: a B-tree orders values, an inverted index holds words, and
\* product quantization cuts a vector, or each of a list of them, into equal parts.
LanceIndexes(index, type, parts) ==
  CASE index = "scalar" -> type.in = <<>> /\ type.leaf # "blob"
    [] index = "text"   -> /\ type.in \in {<<>>, <<"list">>}
                           /\ type.leaf \in {"utf8", "large_utf8", "utf8_view"}
    [] index = "vector" -> /\ type.in \in {<<"fixed_list">>, <<"list", "fixed_list">>}
                           /\ VectorDimension(type) > 0 /\ VectorDimension(type) % parts = 0
=============================================================================
