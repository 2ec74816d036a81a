-------------------------- MODULE Conversion_proofs --------------------------
(***************************************************************************)
(* Proofs about a conversion, for any source, batch size, number of blob   *)
(* columns and of concurrent requests, and any order of the responses.     *)
(***************************************************************************)
EXTENDS Conversion, Ordering_proofs, SequenceTheorems

-----------------------------------------------------------------------------
\* The inductive invariant.

\* A row as it should be written.
RowOf(r) == [record |-> r, blobs |-> [c \in 1..Len(Columns) |-> <<r, c>>]]
Rows     == {RowOf(r) : r \in Records}

Batch    == [error : BOOLEAN, rows : Seq(Records)]
Response == [cell : HttpCells, found : BOOLEAN]

Typed ==
  /\ attempt \in 1..MaxAttempts /\ stage \in Stages
  /\ parser \in [state : {"reading", "sending", "sending_last", "failing", "ended"},
                 next : 1..(NumRecords + 1), unsent : Seq(Records)]
  /\ Len(parser.unsent) <= BatchSize
  /\ parser.state = "reading" => Len(parser.unsent) < BatchSize
  /\ channel \in Seq(Batch) /\ Len(channel) <= 1
  /\ batch \in [rows : Seq(Records), requests : Seq(HttpCells), started : Nat,
                responses : Seq(Response)]
  /\ progress \in [rows_read : Nat, rows_written : Nat, rows_total : Nat,
                   rows_missing_blobs : Nat]
  /\ staged \in Seq(Rows)
  /\ dataset \in [rows : Seq(Rows), indexes : 0..NumIndices]
  /\ gone \subseteq HttpCells

Running      == stage \in {"streaming", "transforming"}
HasCommitted == stage \in {"validating", "indexing", "converted"}

\* The records that the writer has taken or the blob step has dropped.
Behind == progress.rows_read - Len(batch.rows)

InChannel == IF channel = <<>> THEN 0 ELSE Len(channel[1].rows)

Failing == parser.state = "failing" \/ (channel # <<>> /\ channel[1].error)

Follows(rows, k) == \A i \in 1..Len(rows) : rows[i] = k + i

\* Records follow each other from the batch in transform through the channel to the
\* parser, which ends only after the last one or an error.
Flow ==
  Running =>
    /\ Follows(batch.rows, Behind)
    /\ channel # <<>> /\ ~channel[1].error => Follows(channel[1].rows, progress.rows_read)
    /\ Failing => parser.unsent = <<>>
    /\ ~Failing => /\ Follows(parser.unsent, progress.rows_read + InChannel)
                   /\ parser.next = progress.rows_read + InChannel + Len(parser.unsent) + 1
    /\ parser.state \in {"ended", "sending_last"} => Failing \/ parser.next = NumRecords + 1
    /\ parser.state = "ended" => parser.unsent = <<>>
    /\ channel # <<>> /\ channel[1].error => parser.state = "ended"

\* A response answers a request that was made, and no two the same; gone are the
\* cells whose response says so.
Fetches ==
  Running =>
    /\ stage = "streaming" => batch = NoBatch
    /\ batch.requests = Requests(batch.rows)
    /\ batch.started <= Len(batch.requests)
    /\ \A i \in 1..Len(batch.responses) :
         \E k \in 1..batch.started : batch.responses[i].cell = batch.requests[k]
    /\ \A i, j \in 1..Len(batch.responses) :
         batch.responses[i].cell = batch.responses[j].cell => i = j
    /\ \A cell \in HttpCells : cell[1] > Behind =>
         (cell \in gone <=> \E i \in 1..Len(batch.responses) :
                              /\ batch.responses[i].cell = cell
                              /\ ~batch.responses[i].found)

Good(r) == \A c \in 1..Len(Columns) : <<r, c>> \notin gone

\* The rows are those of the first k records, but for the ones with a missing blob.
Complete(rows, k) ==
  /\ \A i, j \in 1..Len(rows) : i < j => rows[i].record < rows[j].record
  /\ \A r \in Records : (r <= k /\ Good(r)) <=> \E i \in 1..Len(rows) : rows[i].record = r

StagedSoFar ==
  Running =>
    /\ Complete(staged, Behind)
    /\ progress.rows_written = Len(staged)
    /\ progress.rows_missing_blobs = Behind - Len(staged)

CommittedAll ==
  HasCommitted =>
    /\ Complete(dataset.rows, NumRecords)
    /\ progress.rows_read = NumRecords
    /\ progress.rows_written = Len(dataset.rows)
    /\ progress.rows_missing_blobs = NumRecords - Len(dataset.rows)
    /\ stage = "converted" => progress.rows_total = NumRecords

IInv == Typed /\ Flow /\ Fetches /\ StagedSoFar /\ CommittedAll

-----------------------------------------------------------------------------
\* The operators of the blob step.

LEMMA RequestsAreCells ==
  ASSUME NEW rows \in Seq(Records)
  PROVE  /\ Requests(rows) \in Seq(HttpCells)
         /\ \A cell \in HttpCells :
              (\E i \in 1..Len(rows) : rows[i] = cell[1])
                => \E k \in 1..Len(Requests(rows)) : Requests(rows)[k] = cell
         /\ \A k \in 1..Len(Requests(rows)) :
              \E i \in 1..Len(rows) : rows[i] = Requests(rows)[k][1]
<1> DEFINE grid == (1..Len(rows)) \X (1..Len(Columns))
           S == {p \in grid : <<rows[p[1]], p[2]>> \in HttpCells}
           R == {pair \in S \X S : ColumnFirst(pair[1], pair[2])}
           Sorted(s) == \A i, j \in DOMAIN s : i < j => ColumnFirst(s[i], s[j])
           places == InOrder(S, ColumnFirst)
           n == Cardinality(S)
<1>0. Len(rows) \in Nat /\ Len(Columns) \in Nat
  BY SizesPositive
<1>1. IsFiniteSet(S)
  <2>1. IsFiniteSet(grid)
    <3>1. IsFiniteSet(1..Len(rows)) /\ IsFiniteSet(1..Len(Columns))
      BY <1>0, FS_Interval
    <3> QED  BY <3>1, FS_Product
  <2>2. S \in SUBSET grid
    OBVIOUS
  <2> HIDE DEF S, grid
  <2> QED  BY <2>1, <2>2, FS_Subset
<1>2. \A p \in S : /\ p[1] \in 1..Len(rows) /\ p[2] \in 1..Len(Columns)
                   /\ <<rows[p[1]], p[2]>> \in HttpCells
  OBVIOUS
<1>pair. \A p \in S : p = <<p[1], p[2]>>
  OBVIOUS
<1>3. \A p, q \in S : <<p, q>> \in R <=> ColumnFirst(p, q)
  OBVIOUS
<1> HIDE DEF R, S, grid
<1>4. Orders(R, S)
  <2>1. ASSUME NEW p \in S
        PROVE  p[1] \in Int /\ p[2] \in Int
    <3>1. p[1] \in 1..Len(rows) /\ p[2] \in 1..Len(Columns)
      BY <1>2
    <3> QED  BY <3>1
  <2>2. ASSUME NEW p \in S, NEW q \in S, p # q
        PROVE  p[1] # q[1] \/ p[2] # q[2]
    <3>1. p = <<p[1], p[2]>> /\ q = <<q[1], q[2]>>
      BY <1>pair
    <3> QED  BY <2>2, <3>1
  <2>3. /\ \A p \in S : ~ColumnFirst(p, p)
        /\ \A p, q, z \in S : ColumnFirst(p, q) /\ ColumnFirst(q, z) => ColumnFirst(p, z)
        /\ \A p, q \in S : p # q => ColumnFirst(p, q) \/ ColumnFirst(q, p)
    BY <2>1, <2>2 DEF ColumnFirst
  <2> QED  BY <1>3, <2>3 DEF Orders
<1>5. \E s \in SetToSeqs(S) : Sorted(s)
  <2>1. PICK s \in SetToSeqs(S) : GoesUp(s, R)
    BY <1>1, <1>4, CanBeListed
  <2>2. \A i \in DOMAIN s : s[i] \in S
    BY <1>1, <2>1, ListsAll
  <2> QED  BY <1>3, <2>1, <2>2 DEF GoesUp
<1>6. places = CHOOSE s \in SetToSeqs(S) : Sorted(s)
  BY DEF InOrder
<1>7. places \in SetToSeqs(S)
  <2> HIDE DEF Sorted, places
  <2> QED  BY <1>5, <1>6
<1>8. Requests(rows) = [k \in 1..Len(places) |-> <<rows[places[k][1]], places[k][2]>>]
  BY DEF Requests, S, grid
<1> HIDE DEF places
<1>9. /\ places \in [1..n -> S] /\ n \in Nat /\ Len(places) = n
      /\ \A p \in S : \E k \in 1..n : places[k] = p
  <2>1. /\ places \in [1..n -> S] /\ n \in Nat
        /\ \A p \in S : \E k \in 1..n : places[k] = p
    BY <1>1, <1>7, ListsAll
  <2> HIDE DEF n
  <2> QED  BY <2>1
<1> HIDE DEF n
<1>10. ASSUME NEW k \in 1..n
       PROVE  /\ Requests(rows)[k] = <<rows[places[k][1]], places[k][2]>>
              /\ Requests(rows)[k] \in HttpCells
              /\ places[k][1] \in 1..Len(rows)
              /\ rows[places[k][1]] = Requests(rows)[k][1]
  <2>1. places[k] \in S
    BY <1>9
  <2> QED  BY <1>2, <1>8, <1>9, <2>1
<1>11. Requests(rows) \in [1..n -> HttpCells] /\ Len(Requests(rows)) = n
  BY <1>8, <1>9, <1>10
<1>12. Requests(rows) \in Seq(HttpCells)
  BY <1>9, <1>11
<1>13. ASSUME NEW cell \in HttpCells, NEW i \in 1..Len(rows), rows[i] = cell[1]
       PROVE  \E k \in 1..n : Requests(rows)[k] = cell
  <2>1. cell = <<cell[1], cell[2]>> /\ cell[2] \in 1..Len(Columns)
    BY HttpCellsExist DEF Cells
  <2>2. <<i, cell[2]>> \in S
    BY <1>13, <2>1 DEF S, grid
  <2>3. PICK k \in 1..n : places[k] = <<i, cell[2]>>
    BY <1>9, <2>2
  <2> QED  BY <1>10, <1>13, <2>1, <2>3
<1> QED  BY <1>10, <1>11, <1>12, <1>13

\* What Typed says of the parts of records.
LEMMA Parts ==
  ASSUME Typed
  PROVE  /\ batch.rows \in Seq(Records) /\ Len(batch.rows) \in Nat
         /\ batch.requests \in Seq(HttpCells) /\ Len(batch.requests) \in Nat
         /\ batch.started \in Nat
         /\ batch.responses \in Seq(Response) /\ Len(batch.responses) \in Nat
         /\ DOMAIN batch.responses = 1..Len(batch.responses)
         /\ progress.rows_read \in Nat /\ progress.rows_written \in Nat
         /\ progress.rows_total \in Nat /\ progress.rows_missing_blobs \in Nat
         /\ Behind \in Int
         /\ parser.next \in 1..(NumRecords + 1) /\ parser.next \in Int
         /\ parser.unsent \in Seq(Records) /\ Len(parser.unsent) \in Nat
         /\ staged \in Seq(Rows) /\ Len(staged) \in Nat
         /\ dataset.rows \in Seq(Rows) /\ Len(dataset.rows) \in Nat
         /\ dataset.indexes \in 0..NumIndices
         /\ channel \in Seq(Batch) /\ Len(channel) \in Nat /\ Len(channel) <= 1
<1>1. /\ batch.rows \in Seq(Records) /\ batch.requests \in Seq(HttpCells)
      /\ batch.started \in Nat /\ batch.responses \in Seq(Response)
  BY DEF Typed
<1>2. /\ progress.rows_read \in Nat /\ progress.rows_written \in Nat
      /\ progress.rows_total \in Nat /\ progress.rows_missing_blobs \in Nat
  BY DEF Typed
<1>3. /\ parser.next \in 1..(NumRecords + 1) /\ parser.unsent \in Seq(Records)
      /\ staged \in Seq(Rows) /\ dataset.rows \in Seq(Rows)
      /\ dataset.indexes \in 0..NumIndices /\ channel \in Seq(Batch) /\ Len(channel) <= 1
  BY DEF Typed
<1>4. /\ Len(batch.rows) \in Nat /\ Len(batch.requests) \in Nat
      /\ Len(batch.responses) \in Nat /\ DOMAIN batch.responses = 1..Len(batch.responses)
  BY <1>1, LenProperties
<1>5. /\ Len(parser.unsent) \in Nat /\ Len(staged) \in Nat /\ Len(dataset.rows) \in Nat
      /\ Len(channel) \in Nat
  BY <1>3, LenProperties
<1>7. parser.next \in Int
  BY <1>3, SizesPositive
<1>8. Behind \in Int
  BY <1>2, <1>4 DEF Behind
<1> QED  BY <1>1, <1>2, <1>3, <1>4, <1>5, <1>7, <1>8

\* What Fetches says of a batch in transform.
LEMMA InTransform ==
  ASSUME Fetches, stage = "transforming"
  PROVE  /\ batch.requests = Requests(batch.rows)
         /\ batch.started <= Len(batch.requests)
         /\ \A i \in 1..Len(batch.responses) :
              \E k \in 1..batch.started : batch.responses[i].cell = batch.requests[k]
         /\ \A i, j \in 1..Len(batch.responses) :
              batch.responses[i].cell = batch.responses[j].cell => i = j
         /\ \A cell \in HttpCells : cell[1] > Behind =>
              (cell \in gone <=> \E i \in 1..Len(batch.responses) :
                                   /\ batch.responses[i].cell = cell
                                   /\ ~batch.responses[i].found)
BY DEF Fetches, Running

\* When there are as many responses as requests, every request has one: none has two.
LEMMA AllAnswered ==
  ASSUME Typed, Fetches, stage = "transforming",
         Len(batch.responses) = Len(batch.requests),
         NEW k \in 1..Len(batch.requests)
  PROVE  \E i \in 1..Len(batch.responses) : batch.responses[i].cell = batch.requests[k]
<1> DEFINE n == Len(batch.requests)
           asked == {batch.requests[j] : j \in 1..n}
           ask == [j \in 1..n |-> batch.requests[j]]
           answer == [j \in 1..n |-> batch.responses[j].cell]
<1>0. n \in Nat
  BY Parts
<1>1. n \in Nat /\ IsFiniteSet(1..n) /\ Cardinality(1..n) = n
  <2> HIDE DEF n
  <2> QED  BY <1>0, Interval
<1>2. IsFiniteSet(asked) /\ Cardinality(asked) <= n
  <2>1. ask \in Surjection(1..n, asked)
    BY DEF Surjection
  <2> HIDE DEF asked, ask
  <2> QED  BY <1>1, <2>1, FS_Surjection
<1>3. answer \in Injection(1..n, asked)
  <2>1. ASSUME NEW i \in 1..n
        PROVE  answer[i] \in asked /\ answer[i] = batch.responses[i].cell
    <3>1. PICK j \in 1..batch.started : batch.responses[i].cell = batch.requests[j]
      BY InTransform
    <3>2. j \in 1..n
      BY <1>1, Parts, InTransform
    <3> QED  BY <3>1, <3>2
  <2>2. \A i, j \in 1..n : batch.responses[i].cell = batch.responses[j].cell => i = j
    BY InTransform
  <2>3. answer \in [1..n -> asked]
    BY <2>1
  <2> HIDE DEF answer, asked
  <2> QED  BY <2>1, <2>2, <2>3 DEF Injection, IsInjective
<1>4. answer \in Surjection(1..n, asked)
  <2>1. n <= Cardinality(asked)
    <3> HIDE DEF answer, asked
    <3> QED  BY <1>1, <1>2, <1>3, FS_Injection
  <2>2. Cardinality(asked) \in Nat
    BY <1>2, FS_CardinalityType
  <2> HIDE DEF answer, asked
  <2>3. Cardinality(1..n) = Cardinality(asked)
    BY <1>1, <1>2, <2>1, <2>2
  <2> QED  BY <1>2, <1>3, <2>3, FS_Injection
<1>5. batch.requests[k] \in asked
  OBVIOUS
<1>6. PICK i \in 1..n : answer[i] = batch.requests[k]
  <2> HIDE DEF answer, asked
  <2> QED  BY <1>4, <1>5 DEF Surjection
<1> QED  BY <1>6

\* What ends up in a cell, whatever the order of the responses.
LEMMA ValueIs ==
  ASSUME Typed, Flow, Fetches, stage = "transforming",
         Len(batch.responses) = Len(batch.requests),
         NEW i \in 1..Len(batch.rows), NEW c \in 1..Len(Columns),
         NEW cell, cell = <<batch.rows[i], c>>
  PROVE  Value(cell) = IF cell \in gone THEN <<>> ELSE cell
<1>1. CASE cell \notin HttpCells
  BY <1>1 DEF Value, Typed
<1>2. CASE cell \in HttpCells
  <2> DEFINE IsResponse(r) == r \in ToSet(batch.responses) /\ r.cell = cell
  <2>0. /\ cell[1] = batch.rows[i] /\ batch.rows \in Seq(Records)
        /\ batch.responses \in Seq(Response) /\ DOMAIN batch.responses = 1..Len(batch.responses)
    BY Parts
  <2>1. PICK k \in 1..Len(batch.requests) : batch.requests[k] = cell
    <3>1. batch.rows[i] = cell[1] /\ batch.requests = Requests(batch.rows)
      BY <2>0, InTransform
    <3> DEFINE rows == batch.rows
               asked == Requests(rows)
    <3>2. \A x \in HttpCells : (\E j \in 1..Len(rows) : rows[j] = x[1])
                                 => \E j \in 1..Len(asked) : asked[j] = x
      <4>1. rows \in Seq(Records)
        BY <2>0
      <4> HIDE DEF rows
      <4> QED  BY <4>1, RequestsAreCells
    <3>3. \E j \in 1..Len(rows) : rows[j] = cell[1]
      BY <3>1
    <3> QED  BY <1>2, <3>1, <3>2, <3>3
  <2>2. PICK j \in 1..Len(batch.responses) : batch.responses[j].cell = cell
    BY <2>1, AllAnswered
  <2>3. ASSUME NEW r, IsResponse(r)
        PROVE  r = batch.responses[j]
    <3>1. PICK m \in 1..Len(batch.responses) : r = batch.responses[m]
      BY <2>0, <2>3 DEF ToSet
    <3>2. batch.responses[m].cell = batch.responses[j].cell
      BY <2>2, <2>3, <3>1
    <3>3. m = j
      BY <3>2, InTransform
    <3> QED  BY <3>1, <3>3
  <2>4. IsResponse(batch.responses[j])
    BY <2>0, <2>2 DEF ToSet
  <2> DEFINE response == CHOOSE r \in ToSet(batch.responses) : r.cell = cell
  <2>5. response = batch.responses[j]
    <3>1. IsResponse(response)
      BY <2>4
    <3> HIDE DEF response
    <3> QED  BY <2>3, <3>1
  <2>6. Value(cell) = IF response.found THEN response.cell ELSE <<>>
    BY <1>2 DEF Value
  <2> HIDE DEF response, IsResponse
  <2>7. cell[1] > Behind
    <3>1. batch.rows[i] = Behind + i
      BY DEF Flow, Running, Follows
    <3> HIDE DEF Behind
    <3> QED  BY <2>0, <3>1, Parts
  <2>8. cell \in gone <=> ~batch.responses[j].found
    <3>1. cell \in gone <=> \E m \in 1..Len(batch.responses) :
                             batch.responses[m].cell = cell /\ ~batch.responses[m].found
      BY <1>2, <2>7, InTransform
    <3>2. \A m \in 1..Len(batch.responses) : batch.responses[m].cell = cell => m = j
      BY <2>2, InTransform
    <3> QED  BY <2>2, <3>1, <3>2
  <2>9. response.cell = cell
    BY <2>2, <2>5
  <2>10. response.found \in BOOLEAN
    <3>1. batch.responses[j] \in Response
      BY <2>0
    <3> QED  BY <2>5, <3>1 DEF Response
  <2> QED  BY <2>5, <2>6, <2>8, <2>9, <2>10
<1> QED  BY <1>1, <1>2

\* The rows of a batch that are kept are those none of whose blobs is gone, in order,
\* as they should be written.
LEMMA KeptRowsAre ==
  ASSUME Typed, Flow, Fetches, stage = "transforming",
         Len(batch.responses) = Len(batch.requests)
  PROVE  /\ KeptRows \in Seq(Rows) /\ MissingRows \in Nat
         /\ Len(KeptRows) + MissingRows = Len(batch.rows)
         /\ \A i, j \in 1..Len(KeptRows) : i < j => KeptRows[i].record < KeptRows[j].record
         /\ \A r \in Records :
              (Behind < r /\ r <= Behind + Len(batch.rows) /\ Good(r))
                <=> \E i \in 1..Len(KeptRows) : KeptRows[i].record = r
<1> DEFINE rows == batch.rows
           n == Len(rows)
           S == {i \in 1..n : Kept(rows[i])}
           T == {i \in 1..n : ~Kept(rows[i])}
           places == InOrder(S, Ascending)
           m == Cardinality(S)
<1>1. rows \in Seq(Records) /\ n \in Nat /\ Behind \in Int
  BY Parts
<1>2. \A i \in 1..n : rows[i] = Behind + i /\ rows[i] \in Records
  BY <1>1 DEF Flow, Running, Follows
<1>3. ASSUME NEW i \in 1..n
      PROVE  /\ Kept(rows[i]) <=> Good(rows[i])
             /\ Good(rows[i]) => OutputRow(rows[i]) = RowOf(rows[i])
  <2>1. ASSUME NEW c \in 1..Len(Columns)
        PROVE  /\ <<rows[i], c>> \in gone => Value(<<rows[i], c>>) = <<>>
               /\ <<rows[i], c>> \notin gone => Value(<<rows[i], c>>) = <<rows[i], c>>
               /\ <<rows[i], c>> # <<>>
    <3>1. Value(<<rows[i], c>>) = IF <<rows[i], c>> \in gone THEN <<>> ELSE <<rows[i], c>>
      BY ValueIs
    <3> QED  BY <3>1
  <2>2. Kept(rows[i]) <=> Good(rows[i])
    BY <2>1 DEF Kept, Good
  <2>3. ASSUME Good(rows[i])
        PROVE  OutputRow(rows[i]) = RowOf(rows[i])
    BY <2>1, <2>3 DEF OutputRow, RowOf, Good
  <2> QED  BY <2>2, <2>3
<1>4. IsFiniteSet(1..n) /\ Cardinality(1..n) = n
  BY <1>1, Interval
<1>5. S \in SUBSET (1..n) /\ T = (1..n) \ S /\ S = (1..n) \cap S
  OBVIOUS
<1>6. MissingRows = Cardinality(T)
  BY DEF MissingRows
<1>7. \A i \in S : i \in 1..n /\ Good(rows[i]) /\ OutputRow(rows[i]) = RowOf(rows[i])
  BY <1>3
<1>8. \A i \in 1..n : Good(rows[i]) => i \in S
  BY <1>3
<1>9. KeptRows = [k \in 1..Len(places) |-> OutputRow(rows[places[k]])]
  BY DEF KeptRows
<1> HIDE DEF S, T, rows, n
<1>10. IsFiniteSet(S) /\ m \in Nat /\ IsFiniteSet(T) /\ Cardinality(T) = n - m /\ m <= n
  <2>1. IsFiniteSet(S) /\ m <= n
    BY <1>4, <1>5, FS_Subset
  <2>2. m \in Nat
    BY <2>1, FS_CardinalityType
  <2>3. IsFiniteSet(T) /\ Cardinality(T) = Cardinality(1..n) - Cardinality((1..n) \cap S)
    BY <1>4, <1>5, FS_Difference
  <2> QED  BY <1>4, <1>5, <2>1, <2>2, <2>3
<1>11. S \in SUBSET Int
  BY <1>1, <1>5
<1>12. /\ places \in [1..m -> S]
       /\ \A i, j \in 1..m : i < j => places[i] < places[j]
       /\ \A x \in S : \E i \in 1..m : places[i] = x
  BY <1>10, <1>11, AscendingLists
<1> HIDE DEF places, m
<1>13. Len(places) = m
  BY <1>10, <1>12
<1>14. ASSUME NEW k \in 1..m
       PROVE  /\ KeptRows[k] = RowOf(rows[places[k]]) /\ KeptRows[k] \in Rows
              /\ KeptRows[k].record = Behind + places[k]
              /\ places[k] \in 1..n /\ places[k] \in Int
  <2>1. places[k] \in S
    BY <1>12
  <2>2. places[k] \in 1..n /\ KeptRows[k] = RowOf(rows[places[k]])
    BY <1>7, <1>9, <1>13, <2>1
  <2>3. rows[places[k]] \in Records /\ rows[places[k]] = Behind + places[k]
    BY <1>2, <2>2
  <2>4. KeptRows[k].record = rows[places[k]]
    BY <2>2 DEF RowOf
  <2> QED  BY <1>1, <2>2, <2>3, <2>4 DEF Rows
<1>15. KeptRows \in [1..m -> Rows] /\ Len(KeptRows) = m
  BY <1>9, <1>10, <1>13, <1>14
<1>16. KeptRows \in Seq(Rows)
  BY <1>10, <1>15
<1>17. ASSUME NEW i \in 1..m, NEW j \in 1..m, i < j
       PROVE  KeptRows[i].record < KeptRows[j].record
  BY <1>1, <1>12, <1>14, <1>17
<1>18. ASSUME NEW r \in Records
       PROVE  (Behind < r /\ r <= Behind + n /\ Good(r))
                <=> \E i \in 1..m : KeptRows[i].record = r
  <2>1. ASSUME Behind < r, r <= Behind + n, Good(r)
        PROVE  \E i \in 1..m : KeptRows[i].record = r
    <3>0. r \in Int
      BY SizesPositive DEF Records
    <3>1. r - Behind \in 1..n /\ Behind + (r - Behind) = r
      BY <1>1, <2>1, <3>0
    <3>2. rows[r - Behind] = r
      BY <1>2, <3>1
    <3>3. r - Behind \in S
      BY <1>8, <2>1, <3>1, <3>2
    <3>4. PICK i \in 1..m : places[i] = r - Behind
      BY <1>12, <3>3
    <3> QED  BY <1>14, <3>1, <3>4
  <2>2. ASSUME NEW i \in 1..m, KeptRows[i].record = r
        PROVE  Behind < r /\ r <= Behind + n /\ Good(r)
    <3>1. places[i] \in S
      BY <1>12
    <3>2. r = Behind + places[i] /\ r = rows[places[i]]
      BY <1>2, <1>14, <2>2
    <3>3. Good(r)
      BY <1>7, <3>1, <3>2
    <3> QED  BY <1>1, <1>14, <3>2, <3>3
  <2> QED  BY <2>1, <2>2
<1>19. Len(KeptRows) + MissingRows = n /\ MissingRows \in Nat
  BY <1>1, <1>6, <1>10, <1>15
<1> QED  BY <1>15, <1>16, <1>17, <1>18, <1>19 DEF rows, n

-----------------------------------------------------------------------------
\* One lemma per part of the next-state relation.

LEMMA NothingToFetch == Requests(<<>>) = <<>>
<1> DEFINE none == <<>>
           requests == Requests(none)
<1>1. none \in Seq(Records) /\ Len(none) = 0
  OBVIOUS
<1> HIDE DEF none
<1>2. /\ requests \in Seq(HttpCells)
      /\ \A k \in 1..Len(requests) : \E i \in 1..Len(none) : none[i] = requests[k][1]
  BY <1>1, RequestsAreCells
<1> HIDE DEF requests
<1>3. Len(requests) \in Nat /\ ~(1 \in 1..Len(requests))
  BY <1>1, <1>2
<1>4. requests = <<>>
  BY <1>2, <1>3
<1> QED  BY <1>4 DEF requests, none

LEMMA InitHolds == Init => IInv
<1> SUFFICES ASSUME Init
             PROVE  IInv
  OBVIOUS
<1>1. Typed
  BY SizesPositive, AttemptsPositive
  DEF Init, Typed, Stages, NewParser, NoBatch, NoProgress
<1>2. Behind = 0 /\ InChannel = 0 /\ ~Failing
  BY DEF Init, Behind, InChannel, Failing, NoProgress, NoBatch, NewParser
<1>3. Flow
  BY <1>2 DEF Init, Flow, Follows, NewParser, NoBatch, NoProgress
<1>4. Fetches
  <2>2. gone = {} /\ batch = NoBatch /\ stage = "streaming"
    BY DEF Init
  <2> QED  BY <2>2, NothingToFetch DEF Fetches, NoBatch
<1>5. StagedSoFar
  <2>1. /\ Len(staged) = 0 /\ Len(staged) \in Nat
        /\ progress.rows_written = 0 /\ progress.rows_missing_blobs = 0
    BY DEF Init, NoProgress
  <2>2. \A r \in Records : r \in Nat /\ r > 0
    BY SizesPositive DEF Records
  <2>3. Complete(staged, Behind)
    BY <1>2, <2>1, <2>2 DEF Complete
  <2>4. progress.rows_written = Len(staged) /\ progress.rows_missing_blobs = Behind - Len(staged)
    BY <1>2, <2>1
  <2> QED  BY <2>3, <2>4 DEF StagedSoFar
<1>6. CommittedAll
  BY DEF Init, CommittedAll, HasCommitted
<1> QED  BY <1>1, <1>3, <1>4, <1>5, <1>6 DEF IInv

\* Once a conversion has ended nothing but types matters.
LEMMA EndingKeeps ==
  ASSUME IInv, stage' \in Ended \ {"converted"},
         UNCHANGED <<attempt, parser, channel, batch, staged, progress, dataset, gone>>
  PROVE  IInv'
<1>1. Typed'
  BY DEF IInv, Typed, Ended, Stages
<1>2. ~Running' /\ ~HasCommitted'
  BY DEF Running, HasCommitted, Ended
<1> QED  BY <1>1, <1>2 DEF IInv, Flow, Fetches, StagedSoFar, CommittedAll

\* A thread left over may go on when the conversion has ended, but has no part in it.
LEMMA ThreadKeeps ==
  ASSUME IInv, Thread
  PROVE  IInv'
<1>0. /\ UNCHANGED <<attempt, stage, batch, staged, progress, dataset, gone>>
      /\ Typed /\ Flow
  BY DEF Thread, ReadRecord, EndOfSource, ParserFails, Send, Parse, IInv
<1>1. Fetches' /\ StagedSoFar' /\ CommittedAll' /\ Running' = Running /\ Behind' = Behind
  BY <1>0 DEF IInv, Fetches, StagedSoFar, CommittedAll, Running, HasCommitted, Behind, Complete,
              Good
<1>2. ASSUME NEW state \in {"reading", "sending", "sending_last", "failing", "ended"},
             NEW next \in 1..(NumRecords + 1), NEW unsent \in Seq(Records),
             Len(unsent) <= BatchSize, state = "reading" => Len(unsent) < BatchSize,
             parser' = [state |-> state, next |-> next, unsent |-> unsent],
             channel' \in Seq(Batch), Len(channel') <= 1
      PROVE  Typed'
  BY <1>0, <1>2 DEF Typed
<1>3. IInv' <=> Typed' /\ Flow'
  BY <1>1 DEF IInv
<1>4. /\ channel \in Seq(Batch) /\ Len(channel) <= 1 /\ parser.unsent \in Seq(Records)
      /\ Len(parser.unsent) <= BatchSize /\ parser.next \in 1..(NumRecords + 1)
  BY <1>0, Parts DEF Typed
<1>n. /\ Len(parser.unsent) \in Nat /\ parser.next \in Int
      /\ progress.rows_read \in Nat /\ InChannel \in Nat
  <2>1. CASE channel # <<>>
    <3>1. channel[1] \in Batch
      BY <1>4, <2>1
    <3>2. Len(channel[1].rows) \in Nat
      BY <3>1 DEF Batch
    <3> QED  BY <1>0, <3>2, Parts DEF InChannel
  <2>2. CASE channel = <<>>
    BY <1>0, <2>2, Parts DEF InChannel
  <2> QED  BY <2>1, <2>2
<1>e. <<>> \in Seq(Records) /\ Len(<<>>) <= BatchSize /\ Len(<<>>) < BatchSize
  BY SizesPositive
<1>5. CASE ReadRecord
  <2> DEFINE unsent == Append(parser.unsent, parser.next)
  <2>1. PICK state \in {"sending", "reading"} :
          /\ Parse(state, parser.next + 1, unsent)
          /\ state = "reading" => Len(unsent) < BatchSize
    BY <1>5 DEF ReadRecord
  <2>2. /\ parser.state = "reading" /\ parser.next <= NumRecords
        /\ parser' = [state |-> state, next |-> parser.next + 1, unsent |-> unsent]
        /\ channel' = channel
    BY <1>5, <2>1 DEF ReadRecord, Parse
  <2>3. /\ unsent \in Seq(Records) /\ Len(unsent) = Len(parser.unsent) + 1
        /\ \A i \in 1..Len(parser.unsent) : unsent[i] = parser.unsent[i]
        /\ unsent[Len(parser.unsent) + 1] = parser.next
    <3>1. parser.next \in Records
      BY <1>4, <1>n, <2>2, SizesPositive DEF Records
    <3> QED  BY <1>4, <3>1, AppendProperties
  <2>4. Len(unsent) <= BatchSize
    BY <1>0, <1>n, <2>2, <2>3, SizesPositive DEF Typed
  <2> HIDE DEF unsent
  <2>5. Typed'
    <3>1. parser.next + 1 \in 1..(NumRecords + 1)
      BY <1>4, <1>n, <2>2, SizesPositive
    <3> QED  BY <1>2, <1>4, <2>1, <2>2, <2>3, <2>4, <3>1
  <2>6. ASSUME Running
        PROVE  Flow'
    <3>1. /\ ~Failing /\ ~Failing' /\ InChannel' = InChannel
          /\ parser'.state \notin {"ended", "sending_last"}
      BY <2>2, <2>6, <1>0 DEF Flow, Failing, InChannel
    <3>2. parser.next = progress.rows_read + InChannel + Len(parser.unsent) + 1
      BY <1>0, <2>6, <3>1 DEF Flow
    <3>3. Follows(unsent, progress.rows_read + InChannel)
      <4>1. Follows(parser.unsent, progress.rows_read + InChannel)
        BY <1>0, <2>6, <3>1 DEF Flow
      <4> DEFINE k == progress.rows_read + InChannel
      <4>2. k \in Nat /\ parser.next = k + Len(parser.unsent) + 1
        BY <1>n, <3>2
      <4> HIDE DEF k
      <4>3. Follows(parser.unsent, k)
        BY <4>1 DEF k
      <4>4. ASSUME NEW i \in 1..Len(unsent)
            PROVE  unsent[i] = k + i
        <5>1. i \in 1..Len(parser.unsent) \/ i = Len(parser.unsent) + 1
          BY <1>n, <2>3
        <5>2. CASE i \in 1..Len(parser.unsent)
          BY <2>3, <4>3, <5>2 DEF Follows
        <5>3. CASE i = Len(parser.unsent) + 1
          BY <1>n, <2>3, <4>2, <5>3
        <5> QED  BY <5>1, <5>2, <5>3
      <4>5. Follows(unsent, k)
        BY <4>4 DEF Follows
      <4> QED  BY <4>5 DEF k
    <3>4. parser.next + 1 = progress.rows_read + InChannel + Len(unsent) + 1
      <4> DEFINE k == progress.rows_read + InChannel
      <4>1. k \in Nat /\ parser.next = k + Len(parser.unsent) + 1
        BY <1>n, <3>2
      <4> HIDE DEF k
      <4>2. parser.next + 1 = k + Len(unsent) + 1
        BY <1>n, <2>3, <4>1
      <4> QED  BY <4>2 DEF k
    <3> QED  BY <1>0, <1>1, <2>2, <2>6, <3>1, <3>3, <3>4 DEF Flow, Follows
  <2> QED  BY <1>1, <1>3, <2>5, <2>6 DEF Flow
<1>6. CASE EndOfSource
  <2> DEFINE state == IF parser.unsent = <<>> THEN "ended" ELSE "sending_last"
  <2>1. /\ parser.state = "reading" /\ parser.next = NumRecords + 1
        /\ parser' = [state |-> state, next |-> parser.next, unsent |-> parser.unsent]
        /\ channel' = channel /\ state \in {"ended", "sending_last"}
        /\ state = "ended" => parser.unsent = <<>>
    BY <1>4, <1>n, <1>6, SizesPositive DEF EndOfSource, Parse
  <2> HIDE DEF state
  <2>2. Typed'
    BY <1>2, <1>4, <2>1
  <2>3. ASSUME Running
        PROVE  Flow'
    <3>1. ~Failing /\ ~Failing' /\ InChannel' = InChannel
      BY <2>1, <2>3, <1>0 DEF Flow, Failing, InChannel
    <3> QED  BY <1>0, <1>1, <2>1, <2>3, <3>1 DEF Flow, Follows, Failing
  <2> QED  BY <1>1, <1>3, <2>2, <2>3 DEF Flow
<1>7. CASE ParserFails
  <2>1. /\ parser.state = "reading" /\ channel' = channel
        /\ parser' = [state |-> "failing", next |-> parser.next, unsent |-> <<>>]
    BY <1>7 DEF ParserFails, Parse
  <2>2. Typed'
    BY <1>2, <1>4, <1>e, <2>1
  <2>3. ASSUME Running
        PROVE  Flow'
    <3>1. ~Failing /\ Failing'
      BY <2>1, <2>3, <1>0 DEF Flow, Failing
    <3> QED  BY <1>0, <1>1, <2>1, <2>3, <3>1 DEF Flow, Follows, Failing
  <2> QED  BY <1>1, <1>3, <2>2, <2>3 DEF Flow
<1>8. CASE Send
  <2>1. CASE ReceiverClosed
    <3>1. parser' = [state |-> "ended", next |-> parser.next, unsent |-> <<>>] /\ channel' = channel
      BY <1>8, <2>1 DEF Send, Parse
    <3>2. Typed'
      BY <1>2, <1>4, <1>e, <3>1
    <3>3. ~Running
      BY <2>1 DEF ReceiverClosed, Ended, Running
    <3> QED  BY <1>1, <1>3, <3>2, <3>3 DEF Flow
  <2>2. CASE ~ReceiverClosed
    <3> DEFINE sent == IF parser.state = "failing" THEN [error |-> TRUE, rows |-> <<>>]
                       ELSE [error |-> FALSE, rows |-> parser.unsent]
               state == AfterSend(parser.state)
    <3>1. /\ channel = <<>> /\ channel' = <<sent>>
          /\ parser' = [state |-> state, next |-> parser.next, unsent |-> <<>>]
      <4>1. /\ channel = <<>> /\ channel' = <<sent>>
            /\ parser' = [parser EXCEPT !.state = state, !.unsent = <<>>]
        BY <1>8, <2>2 DEF Send
      <4> QED  BY <1>0, <4>1 DEF Typed
    <3>2. parser.state \in {"sending", "sending_last", "failing"}
      BY <1>8 DEF Send
    <3>3. /\ state \in {"ended", "reading"}
          /\ state = "ended" <=> parser.state \in {"failing", "sending_last"}
      BY <3>2 DEF AfterSend
    <3>4. /\ sent \in Batch /\ sent.error \in BOOLEAN
          /\ sent.error => parser.state = "failing" /\ sent.rows = <<>>
          /\ ~sent.error => parser.state # "failing" /\ sent.rows = parser.unsent
      BY <1>4 DEF Batch
    <3> HIDE DEF sent, state
    <3>5. channel' \in Seq(Batch) /\ Len(channel') = 1 /\ channel' # <<>> /\ channel'[1] = sent
      BY <3>1, <3>4
    <3>6. Typed'
      <4>1. /\ state \in {"reading", "sending", "sending_last", "failing", "ended"}
            /\ channel' \in Seq(Batch) /\ Len(channel') <= 1
        BY <3>3, <3>5
      <4> QED  BY <1>2, <1>4, <1>e, <3>1, <4>1
    <3>7. ASSUME Running
          PROVE  Flow'
      <4>1. CASE sent.error
        <5>1. Failing' /\ parser'.state = "ended" /\ parser'.unsent = <<>>
          BY <3>1, <3>3, <3>4, <3>5, <4>1 DEF Failing
        <5> QED  BY <1>0, <1>1, <3>5, <3>7, <4>1, <5>1 DEF Flow, Follows
      <4>2. CASE ~sent.error
        <5>1. ~Failing /\ ~Failing' /\ InChannel = 0 /\ InChannel' = Len(parser.unsent)
          BY <3>1, <3>3, <3>4, <3>5, <4>2 DEF Failing, InChannel
        <5>2. /\ Follows(parser.unsent, progress.rows_read)
              /\ parser.next = progress.rows_read + Len(parser.unsent) + 1
          BY <1>0, <1>n, <3>7, <5>1 DEF Flow
        <5>3. /\ channel'[1].rows = parser.unsent /\ ~channel'[1].error
              /\ parser'.next = parser.next /\ parser'.unsent = <<>> /\ Len(parser'.unsent) = 0
              /\ parser'.state = state
          BY <3>1, <3>4, <3>5, <4>2
        <5>4. state = "ended" => parser.next = NumRecords + 1
          BY <1>0, <3>3, <3>4, <3>7, <4>2, <5>1 DEF Flow
        <5>5. Follows(batch.rows, Behind)'
          BY <1>0, <1>1, <3>7 DEF Flow, Follows
        <5>6. parser'.next = progress.rows_read + InChannel' + Len(parser'.unsent) + 1
          BY <1>n, <5>1, <5>2, <5>3
        <5>7. Follows(parser'.unsent, progress.rows_read + InChannel')
          BY <5>3 DEF Follows
        <5> QED
          BY <1>0, <3>3, <5>1, <5>2, <5>3, <5>4, <5>5, <5>6, <5>7 DEF Flow, Follows
      <4> QED  BY <4>1, <4>2
    <3> QED  BY <1>1, <1>3, <3>6, <3>7 DEF Flow
  <2> QED  BY <2>1, <2>2
<1> QED  BY <1>5, <1>6, <1>7, <1>8 DEF Thread

LEMMA RetryKeeps == IInv /\ Retry => IInv'
<1> SUFFICES ASSUME IInv, Retry
             PROVE  IInv'
  OBVIOUS
<1>0. /\ attempt' = attempt + 1 /\ attempt < MaxAttempts /\ stage' = "streaming"
      /\ parser' = NewParser /\ channel' = <<>> /\ batch' = NoBatch /\ staged' = <<>>
      /\ progress' = NoProgress /\ gone' = {} /\ dataset' = dataset
  BY DEF Retry
<1>1. Typed'
  <2>1. attempt' \in 1..MaxAttempts
    BY <1>0, AttemptsPositive DEF IInv, Typed
  <2> QED
    BY <1>0, <2>1, SizesPositive DEF IInv, Typed, Stages, NewParser, NoBatch, NoProgress
<1>2. Behind' = 0 /\ InChannel' = 0 /\ ~Failing'
  BY <1>0 DEF Behind, InChannel, Failing, NoProgress, NoBatch, NewParser
<1>3. Flow'
  BY <1>0, <1>2 DEF Flow, Follows, NewParser, NoBatch, NoProgress
<1>4. Fetches'
  BY <1>0, NothingToFetch DEF Fetches, NoBatch
<1>5. StagedSoFar'
  <2>1. /\ Len(staged') = 0 /\ Len(staged') \in Nat
        /\ progress'.rows_written = 0 /\ progress'.rows_missing_blobs = 0
    BY <1>0 DEF NoProgress
  <2>2. \A r \in Records : r \in Nat /\ r > 0
    BY SizesPositive DEF Records
  <2>3. Complete(staged, Behind)'
    BY <1>2, <2>1, <2>2 DEF Complete
  <2>4. /\ progress'.rows_written = Len(staged')
        /\ progress'.rows_missing_blobs = Behind' - Len(staged')
    BY <1>2, <2>1
  <2> QED  BY <2>3, <2>4 DEF StagedSoFar
<1>6. CommittedAll'
  BY <1>0 DEF CommittedAll, HasCommitted
<1> QED  BY <1>1, <1>3, <1>4, <1>5, <1>6 DEF IInv

LEMMA ReceiveKeeps == IInv /\ Receive => IInv'
<1> SUFFICES ASSUME IInv, Receive
             PROVE  IInv'
  OBVIOUS
<1> DEFINE rows == channel[1].rows
           read == progress.rows_read + Len(rows)
<1>0. /\ stage = "streaming" /\ stage' = "transforming" /\ channel # <<>> /\ ~channel[1].error
      /\ channel' = <<>>
      /\ UNCHANGED <<attempt, parser, staged, dataset, gone>> /\ Typed /\ batch = NoBatch
      /\ Running /\ Running' /\ ~HasCommitted'
  BY DEF Receive, IInv, Fetches, Running, HasCommitted
<1>1. /\ rows \in Seq(Records) /\ Len(rows) \in Nat /\ progress.rows_read \in Nat
  <2>1. channel[1] \in Batch
    BY <1>0, Parts
  <2>2. rows \in Seq(Records)
    BY <2>1 DEF Batch
  <2> QED  BY <1>0, <2>2, Parts
<1>2. batch' = [rows |-> rows, requests |-> Requests(rows), started |-> 0, responses |-> <<>>]
  BY DEF Receive, NoBatch
<1>3. /\ progress' = [rows_read |-> read, rows_written |-> progress.rows_written,
                     rows_total |-> progress.rows_total,
                     rows_missing_blobs |-> progress.rows_missing_blobs]
      /\ read \in Nat
  <2>1. read \in Nat
    BY <1>1
  <2>2. progress' = [progress EXCEPT !.rows_read = read]
    BY DEF Receive
  <2>3. progress \in [rows_read : Nat, rows_written : Nat, rows_total : Nat,
                      rows_missing_blobs : Nat]
    BY <1>0 DEF Typed
  <2> HIDE DEF read
  <2> QED  BY <2>1, <2>2, <2>3
<1>4. InChannel = Len(rows) /\ InChannel' = 0 /\ Failing' = Failing
  BY <1>0 DEF InChannel, Failing
<1>5. Follows(rows, progress.rows_read)
  BY <1>0 DEF IInv, Flow
<1>6. Behind = progress.rows_read
  <2>1. Len(batch.rows) = 0
    BY <1>0 DEF NoBatch
  <2> QED  BY <1>1, <2>1 DEF Behind
<1> HIDE DEF rows, read
<1>7. Behind' = progress.rows_read
  <2>1. Behind' = read - Len(rows)
    BY <1>2, <1>3 DEF Behind
  <2> QED  BY <1>1, <2>1 DEF read
<1>8. Typed'
  <2>1. Requests(rows) \in Seq(HttpCells)
    BY <1>1, RequestsAreCells
  <2>2. <<>> \in Seq(Response) /\ 0 \in Nat
    OBVIOUS
  <2>3. batch' \in [rows : Seq(Records), requests : Seq(HttpCells), started : Nat,
                    responses : Seq(Response)]
    BY <1>1, <1>2, <2>1, <2>2
  <2>4. progress' \in [rows_read : Nat, rows_written : Nat, rows_total : Nat,
                       rows_missing_blobs : Nat]
    BY <1>0, <1>3, Parts
  <2> QED  BY <1>0, <2>3, <2>4 DEF Typed, Stages
<1>9. Flow'
  <2>1. Follows(batch.rows, Behind)'
    BY <1>2, <1>5, <1>7 DEF Follows
  <2>2. progress'.rows_read = progress.rows_read + InChannel /\ InChannel' = 0
    BY <1>3, <1>4 DEF read
  <2>3. /\ progress'.rows_read + InChannel' = progress.rows_read + InChannel
        /\ progress'.rows_read + InChannel' + Len(parser.unsent) + 1
              = progress.rows_read + InChannel + Len(parser.unsent) + 1
    BY <1>1, <1>4, <2>2
  <2>4. /\ Failing => parser.unsent = <<>>
        /\ ~Failing => /\ Follows(parser.unsent, progress.rows_read + InChannel)
                       /\ parser.next = progress.rows_read + InChannel + Len(parser.unsent) + 1
        /\ parser.state \in {"ended", "sending_last"} => Failing \/ parser.next = NumRecords + 1
        /\ parser.state = "ended" => parser.unsent = <<>>
    BY <1>0 DEF IInv, Flow
  <2>5. ~Failing' => /\ Follows(parser.unsent, progress.rows_read + InChannel)'
                    /\ (parser.next = progress.rows_read + InChannel + Len(parser.unsent) + 1)'
    BY <1>0, <1>4, <2>3, <2>4 DEF Follows
  <2> QED  BY <1>0, <1>4, <2>1, <2>4, <2>5 DEF Flow
<1>10. Fetches'
  <2>1. /\ batch'.requests = Requests(batch'.rows) /\ batch'.started = 0
        /\ Len(batch'.requests) \in Nat
    BY <1>1, <1>2, RequestsAreCells
  <2>2. Len(batch'.responses) = 0
    BY <1>2
  <2>3. ASSUME NEW cell \in HttpCells, cell[1] > Behind'
        PROVE  cell \notin gone
    <3>1. Len(batch.responses) = 0 /\ cell[1] > Behind
      BY <1>0, <1>6, <1>7, <2>3 DEF NoBatch
    <3> QED  BY <1>0, <3>1 DEF IInv, Fetches
  <2> QED  BY <1>0, <2>1, <2>2, <2>3 DEF Fetches
<1>11. StagedSoFar'
  BY <1>0, <1>3, <1>6, <1>7 DEF IInv, StagedSoFar, Complete, Good
<1> QED  BY <1>0, <1>8, <1>9, <1>10, <1>11 DEF IInv, CommittedAll

LEMMA StartFetchKeeps == IInv /\ StartFetch => IInv'
<1> SUFFICES ASSUME IInv, StartFetch
             PROVE  IInv'
  OBVIOUS
<1>0. /\ stage = "transforming" /\ batch.started < Len(batch.requests)
      /\ UNCHANGED <<attempt, stage, parser, channel, staged, progress, dataset, gone>>
      /\ Typed /\ Running
  BY DEF StartFetch, IInv, Running
<1>1. /\ batch' = [batch EXCEPT !.started = batch.started + 1]
      /\ batch \in [rows : Seq(Records), requests : Seq(HttpCells), started : Nat,
                    responses : Seq(Response)]
  BY DEF StartFetch, IInv, Typed
<1>2. /\ batch' \in [rows : Seq(Records), requests : Seq(HttpCells), started : Nat,
                     responses : Seq(Response)]
      /\ batch'.rows = batch.rows /\ batch'.requests = batch.requests
      /\ batch'.responses = batch.responses /\ batch'.started = batch.started + 1
  BY <1>1
<1>3. Behind' = Behind /\ InChannel' = InChannel /\ Failing' = Failing /\ Running'
      /\ ~HasCommitted'
  BY <1>0, <1>2 DEF Behind, InChannel, Failing, Running, HasCommitted
<1>4. Typed'
  BY <1>0, <1>2 DEF Typed
<1>5. Flow' /\ StagedSoFar'
  BY <1>0, <1>2, <1>3 DEF IInv, Flow, StagedSoFar, Follows, Complete, Good
<1>6. Fetches'
  <2>1. batch'.started <= Len(batch'.requests) /\ 1..batch.started \subseteq 1..batch'.started
    <3>1. batch.started \in Nat /\ Len(batch.requests) \in Nat
      BY <1>0, Parts
    <3> QED  BY <1>0, <1>2, <3>1
  <2>2. ASSUME NEW i \in 1..Len(batch'.responses)
        PROVE  \E k \in 1..batch'.started : batch'.responses[i].cell = batch'.requests[k]
    <3>1. Fetches /\ i \in 1..Len(batch.responses)
      BY <1>2 DEF IInv
    <3>2. PICK k \in 1..batch.started : batch.responses[i].cell = batch.requests[k]
      BY <1>0, <3>1, InTransform
    <3> QED  BY <1>2, <2>1, <3>2
  <2> QED  BY <1>0, <1>2, <1>3, <2>1, <2>2 DEF IInv, Fetches
<1> QED  BY <1>3, <1>4, <1>5, <1>6 DEF IInv, CommittedAll

LEMMA FetchEndsKeeps ==
  ASSUME IInv, NEW cell \in HttpCells, NEW found \in BOOLEAN, FetchEnds(cell, found)
  PROVE  IInv'
<1> DEFINE response == [cell |-> cell, found |-> found]
           responses == Append(batch.responses, response)
           n == Len(batch.responses)
<1>0. /\ stage = "transforming" /\ cell \in Waiting
      /\ UNCHANGED <<attempt, stage, parser, channel, staged, progress, dataset>>
      /\ gone' = IF found THEN gone ELSE gone \cup {cell}
      /\ Typed /\ Running /\ gone \subseteq HttpCells
  BY DEF FetchEnds, IInv, Running, Typed
<1>1. /\ batch' = [batch EXCEPT !.responses = responses]
      /\ batch \in [rows : Seq(Records), requests : Seq(HttpCells), started : Nat,
                    responses : Seq(Response)]
  BY DEF FetchEnds, IInv, Typed
<1>2. /\ responses \in Seq(Response) /\ Len(responses) = n + 1 /\ n \in Nat
      /\ \A i \in 1..n : responses[i] = batch.responses[i]
      /\ responses[n + 1] = response /\ response.cell = cell /\ response.found = found
  <2>1. response \in Response /\ batch.responses \in Seq(Response)
    BY <1>0, Parts DEF Response
  <2> QED  BY <2>1, AppendProperties
<1> HIDE DEF responses, response
<1>3. /\ batch' \in [rows : Seq(Records), requests : Seq(HttpCells), started : Nat,
                     responses : Seq(Response)]
      /\ batch'.rows = batch.rows /\ batch'.requests = batch.requests
      /\ batch'.responses = responses /\ batch'.started = batch.started
  BY <1>1, <1>2
<1>4. Behind' = Behind /\ InChannel' = InChannel /\ Failing' = Failing /\ Running'
      /\ ~HasCommitted'
  BY <1>0, <1>3 DEF Behind, InChannel, Failing, Running, HasCommitted
<1>5. Typed'
  BY <1>0, <1>3 DEF Typed
<1>6. Flow'
  BY <1>0, <1>3, <1>4 DEF IInv, Flow, Follows
<1>7. /\ \E k \in 1..batch.started : cell = batch.requests[k]
      /\ \A i \in 1..n : batch.responses[i].cell # cell
  <2>1. DOMAIN batch.responses = 1..n
    BY <1>0, Parts
  <2> QED  BY <1>0, <2>1 DEF Waiting, ToSet
<1>8. cell[1] > Behind
  <2>1. PICK k \in 1..batch.started : cell = batch.requests[k]
    BY <1>7
  <2>2. k \in 1..Len(batch.requests)
    <3>1. /\ batch.started <= Len(batch.requests)
          /\ batch.started \in Nat /\ Len(batch.requests) \in Nat
      BY <1>0, Parts, InTransform DEF IInv
    <3> QED  BY <3>1
  <2>3. PICK i \in 1..Len(batch.rows) : batch.rows[i] = cell[1]
    <3>1. batch.rows \in Seq(Records) /\ batch.requests = Requests(batch.rows)
      BY <1>0, Parts, InTransform DEF IInv
    <3> QED  BY <2>1, <2>2, <3>1, RequestsAreCells
  <2>4. batch.rows[i] = Behind + i /\ Behind \in Int /\ i \in Int /\ i > 0
    BY <1>0, Parts DEF IInv, Flow, Follows
  <2> QED  BY <2>3, <2>4
<1>9. Fetches'
  <2>1. ASSUME NEW i \in 1..(n + 1)
        PROVE  \E k \in 1..batch.started : responses[i].cell = batch.requests[k]
    <3>1. CASE i = n + 1
      BY <1>2, <1>7, <3>1
    <3>2. CASE i \in 1..n
      BY <1>0, <1>2, <3>2, InTransform DEF IInv
    <3> QED  BY <1>2, <3>1, <3>2
  <2>2. ASSUME NEW i \in 1..(n + 1), NEW j \in 1..(n + 1), responses[i].cell = responses[j].cell
        PROVE  i = j
    <3>1. CASE i \in 1..n /\ j \in 1..n
      BY <1>0, <1>2, <2>2, <3>1, InTransform DEF IInv
    <3>2. CASE i = n + 1 \/ j = n + 1
      BY <1>2, <1>7, <2>2, <3>2
    <3> QED  BY <1>2, <3>1, <3>2
  <2>3. ASSUME NEW x \in HttpCells, x[1] > Behind
        PROVE  x \in gone' <=> \E i \in 1..(n + 1) : responses[i].cell = x /\ ~responses[i].found
    <3>1. x \in gone <=> \E i \in 1..n : batch.responses[i].cell = x /\ ~batch.responses[i].found
      BY <1>0, <2>3, InTransform DEF IInv
    <3>2. (\E i \in 1..(n + 1) : responses[i].cell = x /\ ~responses[i].found)
            <=> \/ \E i \in 1..n : batch.responses[i].cell = x /\ ~batch.responses[i].found
                \/ cell = x /\ ~found
      BY <1>2
    <3> QED  BY <1>0, <3>1, <3>2
  <2>4. /\ batch'.requests = Requests(batch'.rows) /\ batch'.started <= Len(batch'.requests)
    BY <1>0, <1>3, InTransform DEF IInv
  <2> QED  BY <1>0, <1>2, <1>3, <1>4, <2>1, <2>2, <2>3, <2>4 DEF Fetches
<1>10. StagedSoFar'
  <2>1. \A r \in Records : r <= Behind => (Good(r) <=> Good(r)')
    <3>1. ASSUME NEW r \in Records, r <= Behind, NEW c \in 1..Len(Columns)
          PROVE  <<r, c>> # cell
      <4>1. Behind \in Int /\ r \in Int
        BY <1>0, Parts, SizesPositive DEF Records
      <4>2. r # cell[1]
        <5>1. ~(r > Behind)
          BY <3>1, <4>1
        <5> QED  BY <1>8, <5>1
      <4> QED  BY <4>2
    <3> QED  BY <1>0, <3>1 DEF Good
  <2>2. Complete(staged, Behind)'
    BY <1>0, <1>4, <2>1 DEF IInv, StagedSoFar, Complete
  <2> QED  BY <1>0, <1>4, <2>2 DEF IInv, StagedSoFar
<1> QED  BY <1>4, <1>5, <1>6, <1>9, <1>10 DEF IInv, CommittedAll

LEMMA WriteBatchKeeps == IInv /\ WriteBatch => IInv'
<1> SUFFICES ASSUME IInv, WriteBatch
             PROVE  IInv'
  OBVIOUS
<1> DEFINE n == Len(batch.rows)
           s == Len(staged)
           m == Len(KeptRows)
           read == progress.rows_read
<1>0. /\ stage = "transforming" /\ stage' = "streaming" /\ batch' = NoBatch
      /\ staged' = staged \o KeptRows
      /\ UNCHANGED <<attempt, parser, channel, dataset, gone>>
      /\ Typed /\ Flow /\ Fetches /\ Running /\ Running' /\ ~HasCommitted'
      /\ Len(batch.responses) = Len(batch.requests)
  BY DEF WriteBatch, IInv, Running, HasCommitted
<1>1. /\ staged \in Seq(Rows) /\ s \in Nat /\ n \in Nat /\ read \in Nat /\ Behind \in Int
      /\ read = Behind + n
  BY <1>0, Parts DEF Behind
<1>2. /\ KeptRows \in Seq(Rows) /\ MissingRows \in Nat /\ m \in Nat /\ m + MissingRows = n
      /\ \A i, j \in 1..m : i < j => KeptRows[i].record < KeptRows[j].record
      /\ \A r \in Records : (Behind < r /\ r <= Behind + n /\ Good(r))
                              <=> \E i \in 1..m : KeptRows[i].record = r
  BY <1>0, KeptRowsAre
<1>3. /\ staged' \in Seq(Rows) /\ Len(staged') = s + m
      /\ \A i \in 1..(s + m) : staged'[i] = IF i <= s THEN staged[i] ELSE KeptRows[i - s]
  BY <1>0, <1>1, <1>2, ConcatProperties
<1>4. /\ progress' = [rows_read |-> read, rows_written |-> s + m,
                     rows_total |-> progress.rows_total,
                     rows_missing_blobs |-> progress.rows_missing_blobs + MissingRows]
  <2> DEFINE missing == progress.rows_missing_blobs + MissingRows
             written == Len(staged')
  <2>1. progress' = [progress EXCEPT !.rows_missing_blobs = missing, !.rows_written = written]
    BY DEF WriteBatch
  <2>2. progress \in [rows_read : Nat, rows_written : Nat, rows_total : Nat,
                      rows_missing_blobs : Nat]
    BY <1>0 DEF Typed
  <2>3. written = s + m
    BY <1>3
  <2> HIDE DEF missing, written
  <2>4. progress' = [rows_read |-> read, rows_written |-> written,
                     rows_total |-> progress.rows_total, rows_missing_blobs |-> missing]
    BY <2>1, <2>2
  <2> QED  BY <2>3, <2>4 DEF missing
<1>5. progress.rows_missing_blobs = Behind - s /\ progress.rows_missing_blobs \in Nat
  BY <1>0, Parts DEF IInv, StagedSoFar
<1> HIDE DEF n, s, m, read
<1>6. Behind' = read
  <2>1. Len(batch'.rows) = 0 /\ progress'.rows_read = read
    BY <1>0, <1>4 DEF NoBatch
  <2> QED  BY <1>1, <2>1 DEF Behind
<1>7. InChannel' = InChannel /\ Failing' = Failing
  BY <1>0 DEF InChannel, Failing
<1>8. Typed'
  <2>1. <<>> \in Seq(Response) /\ <<>> \in Seq(Records) /\ <<>> \in Seq(HttpCells) /\ 0 \in Nat
    OBVIOUS
  <2>2. batch' \in [rows : Seq(Records), requests : Seq(HttpCells), started : Nat,
                    responses : Seq(Response)]
    BY <1>0, <2>1 DEF NoBatch
  <2>3. /\ s + m \in Nat /\ progress.rows_missing_blobs + MissingRows \in Nat
        /\ progress.rows_total \in Nat
    BY <1>0, <1>1, <1>2, <1>5, Parts
  <2>4. progress' \in [rows_read : Nat, rows_written : Nat, rows_total : Nat,
                       rows_missing_blobs : Nat]
    BY <1>1, <1>4, <2>3
  <2> QED  BY <1>0, <1>3, <2>2, <2>4 DEF Typed, Stages
<1>9. Flow'
  <2>1. Len(batch'.rows) = 0 /\ progress'.rows_read = progress.rows_read
    BY <1>0, <1>4 DEF NoBatch, read
  <2>2. Follows(batch.rows, Behind)'
    BY <2>1 DEF Follows
  <2> QED  BY <1>0, <1>7, <2>1, <2>2 DEF Flow, Follows
<1>10. Fetches'
  <2>1. batch'.rows = <<>> /\ batch'.requests = <<>> /\ batch'.started = 0
        /\ Len(batch'.responses) = 0 /\ Len(batch'.requests) = 0
    BY <1>0 DEF NoBatch
  <2>2. batch'.requests = Requests(batch'.rows)
    BY <2>1, NothingToFetch
  <2>3. ASSUME NEW cell \in HttpCells, cell[1] > Behind'
        PROVE  cell \notin gone
    <3>1. cell[1] \in Int /\ cell[1] > Behind + n
      BY <1>1, <1>6, <2>3, HttpCellsExist, SizesPositive DEF Cells, Records
    <3>2. cell \in gone => \E i \in 1..Len(batch.responses) : batch.responses[i].cell = cell
      <4>1. cell[1] > Behind
        BY <1>1, <3>1
      <4> QED  BY <1>0, <4>1, InTransform
    <3>3. ASSUME NEW i \in 1..Len(batch.responses), batch.responses[i].cell = cell
          PROVE  FALSE
      <4>1. PICK k \in 1..batch.started : batch.requests[k] = cell
        BY <1>0, <3>3, InTransform
      <4>2. k \in 1..Len(batch.requests)
        <5>1. /\ batch.started <= Len(batch.requests)
              /\ batch.started \in Nat /\ Len(batch.requests) \in Nat
          BY <1>0, Parts, InTransform
        <5> QED  BY <5>1
      <4>3. PICK j \in 1..Len(batch.rows) : batch.rows[j] = cell[1]
        <5>1. batch.rows \in Seq(Records) /\ batch.requests = Requests(batch.rows)
          BY <1>0, Parts, InTransform
        <5> QED  BY <4>1, <4>2, <5>1, RequestsAreCells
      <4>4. batch.rows[j] = Behind + j /\ j \in Int /\ j <= n
        BY <1>0, <1>1 DEF Flow, Follows, n
      <4> QED  BY <1>1, <3>1, <4>3, <4>4
    <3> QED  BY <3>2, <3>3
  <2> QED  BY <1>0, <2>1, <2>2, <2>3 DEF Fetches
<1>11. StagedSoFar'
  <2>1. \A i, j \in 1..s : i < j => staged[i].record < staged[j].record
    BY <1>0 DEF IInv, StagedSoFar, Complete, s
  <2>2. \A r \in Records : (r <= Behind /\ Good(r)) <=> \E i \in 1..s : staged[i].record = r
    BY <1>0 DEF IInv, StagedSoFar, Complete, s
  <2>3. \A i \in 1..s : staged[i].record \in Records
    BY <1>1 DEF Rows, RowOf, s
  <2>4. \A i \in 1..m : KeptRows[i].record \in Records
    BY <1>2 DEF Rows, RowOf, m
  <2>5. \A r \in Records : r \in Int
    BY SizesPositive DEF Records
  <2>6. ASSUME NEW i \in 1..(s + m)
        PROVE  \/ i \in 1..s /\ staged'[i] = staged[i]
               \/ i - s \in 1..m /\ staged'[i] = KeptRows[i - s] /\ i > s
    BY <1>1, <1>2, <1>3
  <2>7. ASSUME NEW i \in 1..(s + m), NEW j \in 1..(s + m), i < j
        PROVE  staged'[i].record < staged'[j].record
    <3>1. CASE j \in 1..s
      <4>1. i \in 1..s /\ staged'[i] = staged[i] /\ staged'[j] = staged[j]
        BY <1>1, <1>2, <1>3, <2>7, <3>1
      <4> QED  BY <2>1, <2>7, <3>1, <4>1
    <3>2. CASE i \in 1..s /\ j - s \in 1..m /\ j > s
      <4>1. staged'[i] = staged[i] /\ staged'[j] = KeptRows[j - s]
        BY <1>1, <1>2, <1>3, <3>2
      <4>2. staged[i].record <= Behind /\ staged[i].record \in Int
        BY <2>2, <2>3, <2>5, <3>2
      <4>3. Behind < KeptRows[j - s].record /\ KeptRows[j - s].record \in Int
        BY <1>2, <2>4, <2>5, <3>2
      <4> QED  BY <1>1, <4>1, <4>2, <4>3
    <3>3. CASE i - s \in 1..m /\ i > s
      <4>1. /\ staged'[i] = KeptRows[i - s] /\ staged'[j] = KeptRows[j - s]
            /\ j - s \in 1..m /\ i - s < j - s
        BY <1>1, <1>2, <1>3, <2>7, <3>3
      <4> QED  BY <1>2, <3>3, <4>1
    <3> QED  BY <1>1, <1>2, <2>6, <3>1, <3>2, <3>3
  <2>8. ASSUME NEW r \in Records
        PROVE  (r <= read /\ Good(r)) <=> \E i \in 1..(s + m) : staged'[i].record = r
    <3>1. (\E i \in 1..(s + m) : staged'[i].record = r)
            <=> \/ \E i \in 1..s : staged[i].record = r
                \/ \E i \in 1..m : KeptRows[i].record = r
      <4>1. ASSUME NEW i \in 1..s
            PROVE  i \in 1..(s + m) /\ staged'[i] = staged[i]
        BY <1>1, <1>2, <1>3
      <4>2. ASSUME NEW i \in 1..m
            PROVE  i + s \in 1..(s + m) /\ staged'[i + s] = KeptRows[i]
        <5>1. i + s \in 1..(s + m) /\ ~(i + s <= s) /\ (i + s) - s = i
          BY <1>1, <1>2
        <5> QED  BY <1>3, <5>1
      <4> QED  BY <2>6, <4>1, <4>2
    <3>2. r \in Int /\ (r <= read <=> r <= Behind \/ (Behind < r /\ r <= Behind + n))
      BY <1>1, <2>5
    <3> QED  BY <1>2, <2>2, <3>1, <3>2
  <2>9. Complete(staged, Behind)'
    <3>1. \A r \in Records : Good(r)' <=> Good(r)
      BY <1>0 DEF Good
    <3> QED  BY <1>3, <1>6, <2>7, <2>8, <3>1 DEF Complete
  <2>10. /\ progress'.rows_written = Len(staged')
         /\ progress'.rows_missing_blobs = Behind' - Len(staged')
    <3>1. progress'.rows_written = s + m
      BY <1>4
    <3>2. progress'.rows_missing_blobs = progress.rows_missing_blobs + MissingRows
      BY <1>4
    <3>3. progress.rows_missing_blobs + MissingRows = read - (s + m)
      BY <1>1, <1>2, <1>5
    <3> QED  BY <1>3, <1>6, <3>1, <3>2, <3>3
  <2> QED  BY <2>9, <2>10 DEF StagedSoFar
<1> QED  BY <1>0, <1>8, <1>9, <1>10, <1>11 DEF IInv, CommittedAll

LEMMA CommitKeeps == IInv /\ Commit => IInv'
<1> SUFFICES ASSUME IInv, Commit
             PROVE  IInv'
  OBVIOUS
<1>0. /\ stage = "streaming" /\ stage' = "validating"
      /\ parser.state = "ended" /\ channel = <<>>
      /\ dataset' = [rows |-> staged, indexes |-> 0]
      /\ UNCHANGED <<attempt, parser, channel, batch, staged, progress, gone>>
      /\ Typed /\ Flow /\ Running /\ ~Running' /\ batch = NoBatch
  BY DEF Commit, Committed, IInv, Fetches, Running
<1>1. /\ staged \in Seq(Rows) /\ progress.rows_read \in Nat /\ Behind \in Int
  BY <1>0, Parts
<1>2. progress.rows_read = NumRecords /\ Behind = NumRecords
  <2>1. ~Failing /\ InChannel = 0
    BY <1>0 DEF Failing, InChannel
  <2>2. /\ parser.next = NumRecords + 1 /\ parser.unsent = <<>>
        /\ parser.next = progress.rows_read + InChannel + Len(parser.unsent) + 1
    BY <1>0, <2>1 DEF Flow
  <2>3. Len(parser.unsent) = 0 /\ Len(batch.rows) = 0
    BY <1>0, <2>2 DEF NoBatch
  <2>4. progress.rows_read = NumRecords
    <3>1. NumRecords + 1 = progress.rows_read + 0 + 0 + 1
      BY <2>1, <2>2, <2>3
    <3> QED  BY <1>1, <3>1, SizesPositive
  <2> QED  BY <1>1, <2>3, <2>4 DEF Behind
<1>3. Typed'
  <2>1. dataset' \in [rows : Seq(Rows), indexes : 0..NumIndices]
    BY <1>0, <1>1, SizesPositive
  <2> QED  BY <1>0, <2>1 DEF Typed, Stages
<1>4. CommittedAll'
  <2>1. /\ Complete(staged, NumRecords)
        /\ progress.rows_written = Len(staged)
        /\ progress.rows_missing_blobs = NumRecords - Len(staged)
    BY <1>0, <1>2 DEF IInv, StagedSoFar
  <2>2. dataset'.rows = staged
    BY <1>0
  <2>3. Complete(dataset.rows, NumRecords)'
    <3>1. \A r \in Records : Good(r)' <=> Good(r)
      BY <1>0 DEF Good
    <3> QED  BY <2>1, <2>2, <3>1 DEF Complete
  <2> QED  BY <1>0, <1>2, <2>1, <2>2, <2>3 DEF CommittedAll, HasCommitted
<1> QED  BY <1>0, <1>3, <1>4 DEF IInv, Flow, Fetches, StagedSoFar

\* After the commit the rows stay as they are.
LEMMA LateKeeps ==
  ASSUME IInv, Validate \/ CreateIndex \/ Finish
  PROVE  IInv'
<1>0. /\ HasCommitted /\ ~Running' /\ stage' \in Stages /\ Typed
      /\ UNCHANGED <<attempt, parser, channel, batch, staged, gone>>
  BY DEF Validate, CreateIndex, Finish, HasCommitted, Running, Stages, IInv
<1>1. /\ dataset' \in [rows : Seq(Rows), indexes : 0..NumIndices]
      /\ dataset'.rows = dataset.rows
  <2>0. dataset \in [rows : Seq(Rows), indexes : 0..NumIndices] /\ dataset.indexes \in 0..NumIndices
    BY <1>0 DEF Typed
  <2>1. CASE CreateIndex
    <3> DEFINE indexes == dataset.indexes + 1
    <3>1. dataset' = [dataset EXCEPT !.indexes = indexes] /\ indexes \in 0..NumIndices
      BY <2>0, <2>1, SizesPositive DEF CreateIndex
    <3> HIDE DEF indexes
    <3> QED  BY <2>0, <3>1
  <2>2. CASE Validate \/ Finish
    BY <2>0, <2>2 DEF Validate, Finish
  <2> QED  BY <2>1, <2>2
<1>2. /\ progress' \in [rows_read : Nat, rows_written : Nat, rows_total : Nat,
                        rows_missing_blobs : Nat]
      /\ progress'.rows_read = progress.rows_read /\ progress'.rows_written = progress.rows_written
      /\ progress'.rows_missing_blobs = progress.rows_missing_blobs
      /\ stage' = "converted" => progress'.rows_total = progress.rows_read
  <2>0. progress \in [rows_read : Nat, rows_written : Nat, rows_total : Nat,
                      rows_missing_blobs : Nat]
    BY <1>0 DEF Typed
  <2>1. CASE Finish
    BY <2>0, <2>1 DEF Finish, TotalRows
  <2>2. CASE Validate \/ CreateIndex
    BY <2>0, <2>2 DEF Validate, CreateIndex
  <2> QED  BY <2>1, <2>2
<1>3. Typed'
  BY <1>0, <1>1, <1>2 DEF Typed
<1>4. CommittedAll'
  <2>1. /\ Complete(dataset.rows, NumRecords)
        /\ progress.rows_read = NumRecords
        /\ progress.rows_written = Len(dataset.rows)
        /\ progress.rows_missing_blobs = NumRecords - Len(dataset.rows)
    BY <1>0 DEF IInv, CommittedAll
  <2>2. Complete(dataset.rows, NumRecords)'
    <3>1. \A r \in Records : Good(r)' <=> Good(r)
      BY <1>0 DEF Good
    <3> QED  BY <1>1, <2>1, <3>1 DEF Complete
  <2> QED  BY <1>1, <1>2, <2>1, <2>2 DEF CommittedAll
<1> QED  BY <1>0, <1>3, <1>4 DEF IInv, Flow, Fetches, StagedSoFar

LEMMA StepKeeps == IInv /\ [Next]_vars => IInv'
<1> SUFFICES ASSUME IInv, [Next]_vars
             PROVE  IInv'
  OBVIOUS
<1>1. CASE UNCHANGED vars
  <2>0. /\ attempt' = attempt /\ stage' = stage /\ parser' = parser /\ channel' = channel
        /\ batch' = batch /\ progress' = progress /\ staged' = staged /\ dataset' = dataset
        /\ gone' = gone
    BY <1>1 DEF vars
  <2>1. Typed'
    BY <2>0 DEF IInv, Typed
  <2>2. Running' = Running /\ Behind' = Behind /\ Failing' = Failing /\ InChannel' = InChannel
        /\ HasCommitted' = HasCommitted
    BY <2>0 DEF Running, Behind, Failing, InChannel, HasCommitted
  <2>3. Flow'
    BY <2>0, <2>2 DEF IInv, Flow
  <2>4. Fetches'
    BY <2>0, <2>2 DEF IInv, Fetches
  <2>5. \A r \in Records : Good(r)' <=> Good(r)
    BY <2>0 DEF Good
  <2>6. StagedSoFar'
    BY <2>0, <2>2, <2>5 DEF IInv, StagedSoFar, Complete
  <2>7. CommittedAll'
    BY <2>0, <2>2, <2>5 DEF IInv, CommittedAll, Complete
  <2> QED  BY <2>1, <2>3, <2>4, <2>6, <2>7 DEF IInv
<1>2. CASE Drop \/ ReceiveError \/ BadCell \/ FetchFails \/ WriteFails \/ LateFailure
  BY <1>2, EndingKeeps
  DEF Drop, ReceiveError, BadCell, FetchFails, WriteFails, LateFailure, Abandon, Ended
<1>3. CASE Thread
  BY <1>3, ThreadKeeps
<1>4. CASE Retry
  BY <1>4, RetryKeeps
<1>5. CASE Receive
  BY <1>5, ReceiveKeeps
<1>6. CASE StartFetch
  BY <1>6, StartFetchKeeps
<1>7. CASE \E cell \in HttpCells, found \in BOOLEAN : FetchEnds(cell, found)
  BY <1>7, FetchEndsKeeps
<1>8. CASE WriteBatch
  BY <1>8, WriteBatchKeeps
<1>9. CASE Commit
  BY <1>9, CommitKeeps
<1>10. CASE Validate \/ CreateIndex \/ Finish
  BY <1>10, LateKeeps
<1> QED
  BY <1>1, <1>2, <1>3, <1>4, <1>5, <1>6, <1>7, <1>8, <1>9, <1>10 DEF Next, Pipeline

LEMMA IInvAlways == Spec => []IInv
BY InitHolds, StepKeeps, PTL DEF Spec

-----------------------------------------------------------------------------
\* What the runs check.

\* Batches are full at most, the channel holds at most one, and what was taken from
\* the source, requested, counted and written is of the right kind.
THEOREM ConversionTypeCorrect == Spec => []TypeOK
<1>1. IInv => TypeOK
  <2> SUFFICES ASSUME IInv
               PROVE  TypeOK
    OBVIOUS
  <2>0. Typed
    BY DEF IInv
  <2>1. \A i \in 1..Len(channel) : channel[i] \in [error : BOOLEAN, rows : Seq(Records)]
    <3>1. channel \in Seq(Batch)
      BY <2>0, Parts
    <3>2. \A i \in 1..Len(channel) : channel[i] \in Batch
      BY <3>1
    <3> QED  BY <3>2 DEF Batch
  <2>2. ASSUME NEW rows \in Seq(Rows)
        PROVE  Positions(rows) \in Seq(Records)
    <3>1. \A i \in 1..Len(rows) : rows[i].record \in Records
      BY DEF Rows, RowOf
    <3> QED  BY <3>1 DEF Positions
  <2>3. progress \in JobProgress
    BY <2>0 DEF Typed, JobProgress
  <2>4. Positions(staged) \in Seq(Records) /\ Positions(dataset.rows) \in Seq(Records)
    BY <2>0, <2>2, Parts
  <2>5. batch.rows \in Seq(Records) /\ batch.requests \in Seq(HttpCells)
        /\ dataset.indexes \in 0..NumIndices
    BY <2>0, Parts
  <2> QED  BY <2>0, <2>1, <2>3, <2>4, <2>5 DEF Typed, TypeOK
<1> QED  BY <1>1, IInvAlways, PTL

\* A conversion that succeeds has written every record of the source, once and in
\* order, but for those with a blob that is gone: whatever the sizes of batches, however
\* the thread and the writer interleave, and after any number of failed attempts.
THEOREM EveryRecordWritten == Spec => []NothingLostOrDuplicated
<1>1. IInv => NothingLostOrDuplicated
  <2> SUFFICES ASSUME IInv, stage = "converted"
               PROVE  /\ \A i, j \in 1..Len(dataset.rows) :
                           i < j => dataset.rows[i].record < dataset.rows[j].record
                      /\ {dataset.rows[i].record : i \in 1..Len(dataset.rows)} =
                           {r \in Records : \A c \in 1..Len(Columns) : <<r, c>> \notin gone}
    BY DEF NothingLostOrDuplicated
  <2>1. Complete(dataset.rows, NumRecords) /\ dataset.rows \in Seq(Rows)
    BY Parts DEF IInv, CommittedAll, HasCommitted
  <2>2. \A i \in 1..Len(dataset.rows) : dataset.rows[i].record \in Records
    BY <2>1 DEF Rows, RowOf
  <2>3. \A r \in Records : r <= NumRecords
    BY SizesPositive DEF Records
  <2>4. \A r \in Records : Good(r) <=> \E i \in 1..Len(dataset.rows) : dataset.rows[i].record = r
    BY <2>1, <2>3 DEF Complete
  <2>5. {dataset.rows[i].record : i \in 1..Len(dataset.rows)} = {r \in Records : Good(r)}
    BY <2>2, <2>4
  <2> QED  BY <2>1, <2>5 DEF Complete, Good
<1> QED  BY <1>1, IInvAlways, PTL

\* Every cell of the destination holds its own blob, in whatever order the responses
\* to concurrent requests came in.
THEOREM EveryBlobInPlace == Spec => []BlobsInPlace
<1>1. IInv => BlobsInPlace
  <2> SUFFICES ASSUME IInv, NEW i \in 1..Len(dataset.rows), NEW c \in 1..Len(Columns)
               PROVE  dataset.rows[i].blobs[c] = <<dataset.rows[i].record, c>>
    BY DEF BlobsInPlace
  <2>1. PICK r \in Records : dataset.rows[i] = RowOf(r)
    BY Parts DEF IInv, Rows
  <2> QED  BY <2>1 DEF RowOf
<1> QED  BY <1>1, IInvAlways, PTL

\* validate_row_count never fails a conversion that wrote what it should, and its
\* subtraction does not saturate.
THEOREM RowCountPasses == Spec => []CountsAgree
<1>1. IInv => CountsAgree
  <2> SUFFICES ASSUME IInv, stage = "validating"
               PROVE  /\ progress.rows_read >= progress.rows_missing_blobs
                      /\ Len(dataset.rows) = progress.rows_read - progress.rows_missing_blobs
    BY DEF CountsAgree
  <2>1. /\ progress.rows_read = NumRecords
        /\ progress.rows_missing_blobs = NumRecords - Len(dataset.rows)
    BY DEF IInv, CommittedAll, HasCommitted
  <2>2. Len(dataset.rows) \in Nat /\ NumRecords \in Nat
    BY Parts, SizesPositive DEF IInv
  <2> QED  BY <2>1, <2>2
<1> QED  BY <1>1, IInvAlways, PTL

\* The total is known only in the end: until then the store compares nothing with it.
TotalLast == stage # "converted" => progress.rows_total = 0

LEMMA TotalIsLast == Spec => []TotalLast
<1>1. Init => TotalLast
  BY DEF Init, TotalLast, NoProgress
<1>2. IInv /\ TotalLast /\ [Next]_vars => TotalLast'
  <2> SUFFICES ASSUME IInv, TotalLast, [Next]_vars, stage' # "converted"
               PROVE  progress'.rows_total = 0
    BY DEF TotalLast
  <2>0. progress \in JobProgress
    BY DEF IInv, Typed, JobProgress
  <2>1. stage = "converted" => stage' = "converted"
    BY DEF Next, Pipeline, Thread, vars, Retry, Drop, ReadRecord, EndOfSource, ParserFails,
           Send, Parse, Receive, ReceiveError, BadCell, StartFetch, FetchFails, FetchEnds,
           WriteBatch, Commit, WriteFails, Validate, CreateIndex, LateFailure, Finish,
           Abandon, Ended
  <2>2. progress.rows_total = 0 /\ ~Finish
    BY <2>1 DEF TotalLast, Finish
  <2>3. CASE Retry
    BY <2>3 DEF Retry, NoProgress
  <2>4. CASE Receive
    BY <2>0, <2>2, <2>4 DEF Receive, JobProgress
  <2>5. CASE WriteBatch
    BY <2>0, <2>2, <2>5 DEF WriteBatch, JobProgress
  <2>6. CASE progress' = progress
    BY <2>2, <2>6
  <2>7. Retry \/ Receive \/ WriteBatch \/ progress' = progress
    BY <2>2
    DEF Next, Pipeline, Thread, vars, Drop, ReadRecord, EndOfSource, ParserFails, Send,
        Parse, ReceiveError, BadCell, StartFetch, FetchFails, FetchEnds, Commit, WriteFails,
        Validate, CreateIndex, LateFailure, Abandon
  <2> QED  BY <2>3, <2>4, <2>5, <2>6, <2>7
<1> QED  BY <1>1, <1>2, IInvAlways, PTL DEF Spec

\* The store accepts the counters at any moment at which the worker may read them,
\* and those of a finished conversion tell what was written.
THEOREM ReportsAccepted == Spec => []ResultAccepted
<1>1. IInv /\ TotalLast => ResultAccepted
  <2> SUFFICES ASSUME IInv, TotalLast
               PROVE  ResultAccepted
    OBVIOUS
  <2>1. CASE stage = "converted"
    <3>1. /\ progress.rows_read = NumRecords /\ progress.rows_total = NumRecords
          /\ progress.rows_written = Len(dataset.rows)
          /\ progress.rows_missing_blobs = NumRecords - Len(dataset.rows)
      BY <2>1 DEF IInv, CommittedAll, HasCommitted
    <3>2. /\ Len(dataset.rows) \in Nat /\ NumRecords \in Nat
          /\ progress.rows_missing_blobs \in Nat
      BY Parts, SizesPositive DEF IInv
    <3> QED  BY <2>1, <3>1, <3>2 DEF ResultAccepted, WithinTotal
  <2>2. CASE stage # "converted"
    BY <2>2 DEF TotalLast, ResultAccepted, WithinTotal
  <2> QED  BY <2>1, <2>2
<1> QED  BY <1>1, IInvAlways, TotalIsLast, PTL

-----------------------------------------------------------------------------
\* The contract.

Lost == {cell[1] : cell \in gone}

\* The contract's operators on sets and lists are the same.
LEMMA SameOperators ==
  /\ \A S : Contract!Cardinality(S) = Cardinality(S)
  /\ \A S : Contract!SetToSeqs(S) = SetToSeqs(S)
  /\ \A S : Contract!InOrder(S, Contract!Ascending) = InOrder(S, Ascending)
<1>1. \A S : Contract!Cardinality(S) = Cardinality(S)
  BY Zenon DEF Contract!Cardinality, Cardinality
<1>2. \A S : Contract!SetToSeqs(S) = SetToSeqs(S)
  BY <1>1, Zenon DEF Contract!SetToSeqs, SetToSeqs
<1>3. \A S : Contract!InOrder(S, Contract!Ascending) = InOrder(S, Ascending)
  BY <1>2, Zenon DEF Contract!InOrder, InOrder, Contract!Ascending, Ascending
<1> QED  BY <1>1, <1>2, <1>3

\* The complete rows are those the contract promises, and there are as many records
\* missing as rows are.
LEMMA CompleteIsPromised ==
  ASSUME Typed, NEW rows \in Seq(Rows), Complete(rows, NumRecords)
  PROVE  /\ rows = Contract!RowsWithout(Lost)
         /\ Cardinality(Lost) = NumRecords - Len(rows)
         /\ Cardinality(Records) = NumRecords
<1> DEFINE S == Records \ Lost
           n == Len(rows)
           s == [i \in 1..n |-> rows[i].record]
<1>0. /\ n \in Nat /\ rows \in [1..n -> Rows] /\ Records \in SUBSET Int
      /\ NumRecords \in Nat /\ gone \subseteq Cells
  <2>1. n \in Nat /\ rows \in [1..n -> Rows]
    BY LenProperties
  <2>2. gone \subseteq Cells
    BY HttpCellsExist DEF Typed
  <2> QED  BY <2>1, <2>2, SizesPositive DEF Records
<1>1. \A i \in 1..n : rows[i].record \in Records /\ rows[i] = RowOf(rows[i].record)
  BY <1>0 DEF Rows, RowOf
<1>2. ASSUME NEW r \in Records
      PROVE  Good(r) <=> r \in S
  <2>1. ASSUME r \in Lost
        PROVE  ~Good(r)
    <3>1. PICK cell \in gone : r = cell[1]
      BY <2>1 DEF Lost
    <3>2. cell = <<r, cell[2]>> /\ cell[2] \in 1..Len(Columns)
      BY <1>0, <3>1 DEF Cells
    <3> QED  BY <3>2 DEF Good
  <2>2. ASSUME ~Good(r)
        PROVE  r \in Lost
    <3>1. PICK c \in 1..Len(Columns) : <<r, c>> \in gone
      BY <2>2 DEF Good
    <3>2. r = <<r, c>>[1]
      OBVIOUS
    <3> QED  BY <3>1, <3>2 DEF Lost
  <2> QED  BY <2>1, <2>2
<1>3. Lost \in SUBSET Records
  BY <1>0 DEF Lost, Cells
<1>4. \A r \in Records : r \in S <=> \E i \in 1..n : rows[i].record = r
  BY <1>0, <1>2 DEF Complete, Records
<1>5. s \in [1..n -> S]
  BY <1>1, <1>4
<1>6. /\ \A i, j \in 1..n : i < j => s[i] < s[j]
      /\ \A x \in S : \E i \in 1..n : s[i] = x
  BY <1>4 DEF Complete
<1>7. IsFiniteSet(S) /\ Cardinality(S) = n /\ s = InOrder(S, Ascending)
  <2> S \in SUBSET Int
    BY <1>0
  <2> HIDE DEF S, s, n
  <2> QED  BY <1>0, <1>5, <1>6, TheAscendingList
<1>8. Contract!RowsWithout(Lost) = [k \in 1..n |-> RowOf(s[k])]
  <2>1. Contract!InOrder(S, Contract!Ascending) = InOrder(S, Ascending)
    BY SameOperators
  <2>2. Len(s) = n
    BY <1>0, <1>5
  <2>3. \A r : Contract!Row(r) = RowOf(r)
    BY DEF Contract!Row, RowOf
  <2>4. Contract!RowsWithout(Lost) = [k \in 1..Len(s) |-> Contract!Row(s[k])]
    BY <1>7, <2>1 DEF Contract!RowsWithout
  <2> HIDE DEF s
  <2> QED  BY <2>2, <2>3, <2>4
<1>9. rows = [k \in 1..n |-> RowOf(s[k])]
  <2>1. \A k \in 1..n : rows[k] = RowOf(s[k])
    BY <1>1
  <2> HIDE DEF s
  <2> QED  BY <1>0, <2>1
<1>10. Cardinality(Records) = NumRecords /\ IsFiniteSet(Records)
  BY SizesPositive, Interval DEF Records
<1>11. Cardinality(Lost) = NumRecords - n
  <2>1. Cardinality(Records \ Lost) = Cardinality(Records) - Cardinality(Records \cap Lost)
    BY <1>10, FS_Difference
  <2>2. Records \cap Lost = Lost /\ IsFiniteSet(Lost)
    BY <1>3, <1>10, FS_Subset
  <2>3. Cardinality(Lost) \in Nat
    BY <2>2, FS_CardinalityType
  <2>4. n = NumRecords - Cardinality(Lost)
    BY <1>7, <1>10, <2>1, <2>2
  <2> HIDE DEF n
  <2> QED  BY <1>0, <2>3, <2>4
<1> QED  BY <1>8, <1>9, <1>10, <1>11

\* Steps that the contract does not see.
LEMMA Unseen ==
  ASSUME State' = State, gone' = gone, dataset' = dataset,
         stage' # "converted", stage # "converted"
  PROVE  UNCHANGED Contract!vars
BY DEF Contract!vars, Report

\* An attempt that ends without success leaves what it finds.
LEMMA EndsAreFailures ==
  ASSUME stage \notin Ended, stage' \in {"failed", "dropped"}, Typed,
         gone' = gone, dataset' = dataset
  PROVE  Contract!Fail
<1>1. State \in {"writing", "written"} /\ State' = "failed" /\ Report' = Report
  BY DEF State, Report, Typed, Stages, Ended
<1> QED  BY <1>1 DEF Contract!Fail

LEMMA InitPromised == Init => Contract!Init
BY DEF Init, Contract!Init, Contract!NoReport, State, Report

LEMMA StepPromised == IInv /\ IInv' /\ [Next]_vars => [Contract!Next]_(Contract!vars)
<1> SUFFICES ASSUME IInv, IInv', [Next]_vars
             PROVE  Contract!Next \/ UNCHANGED Contract!vars
  OBVIOUS
<1>0. Typed
  BY DEF IInv
<1>1. CASE UNCHANGED vars
  BY <1>1 DEF vars, Contract!vars, State, Report
<1>2. CASE Drop \/ ReceiveError \/ BadCell \/ FetchFails \/ WriteFails \/ LateFailure
  <2>1. /\ stage \notin Ended /\ stage' \in {"failed", "dropped"}
        /\ gone' = gone /\ dataset' = dataset
    BY <1>2 DEF Drop, ReceiveError, BadCell, FetchFails, WriteFails, LateFailure, Abandon, Ended
  <2> QED  BY <1>0, <2>1, EndsAreFailures DEF Contract!Next
<1>3. CASE Thread
  <2>1. UNCHANGED <<stage, progress, dataset, gone>>
    BY <1>3 DEF Thread, ReadRecord, EndOfSource, ParserFails, Send, Parse
  <2> QED  BY <2>1 DEF Contract!vars, State, Report
<1>4. CASE Retry
  <2>1. State = "failed" /\ State' = "writing" /\ Report' = Report
    BY <1>4 DEF Retry, State, Report
  <2> QED  BY <1>4, <2>1 DEF Retry, Contract!Again, Contract!Next
<1>5. CASE Receive \/ StartFetch \/ WriteBatch
  <2>1. /\ stage \in {"streaming", "transforming"} /\ stage' \in {"streaming", "transforming"}
        /\ gone' = gone /\ dataset' = dataset
    BY <1>5 DEF Receive, StartFetch, WriteBatch
  <2>2. State' = State
    BY <2>1 DEF State
  <2> QED  BY <2>1, <2>2, Unseen
<1>6. ASSUME NEW cell \in HttpCells, NEW found \in BOOLEAN, FetchEnds(cell, found)
      PROVE  Contract!Next \/ UNCHANGED Contract!vars
  <2>1. State = "writing" /\ State' = State /\ Report' = Report /\ dataset' = dataset
    BY <1>6 DEF FetchEnds, State, Report
  <2>2. CASE found
    BY <1>6, <2>1, <2>2 DEF FetchEnds, Contract!vars
  <2>3. CASE ~found
    <3>1. gone' = gone \cup {cell}
      BY <1>6, <2>3 DEF FetchEnds
    <3>2. {c[1] : c \in gone'} = {c[1] : c \in gone} \cup {cell[1]}
      BY <3>1
    <3>3. cell[1] \in {c[1] : c \in HttpCells}
      OBVIOUS
    <3> QED  BY <2>1, <3>2, <3>3 DEF Contract!Lose, Contract!Next
  <2> QED  BY <2>2, <2>3
<1>7. CASE Commit
  <2>1. /\ State = "writing" /\ State' = "written" /\ Report' = Report
        /\ gone' = gone /\ dataset' = [rows |-> staged, indexes |-> 0]
    BY <1>7 DEF Commit, Committed, State, Report
  <2>2. Complete(staged, NumRecords)
    <3>1. Complete(dataset.rows, NumRecords)'
      BY <1>7 DEF IInv, CommittedAll, HasCommitted, Commit
    <3>2. \A r \in Records : Good(r)' <=> Good(r)
      BY <2>1 DEF Good
    <3> QED  BY <2>1, <3>1, <3>2 DEF Complete
  <2>3. staged = Contract!RowsWithout({cell[1] : cell \in gone})
    BY <1>0, <2>2, Parts, CompleteIsPromised DEF Lost
  <2> QED  BY <2>1, <2>3 DEF Contract!Replace, Contract!Next
<1>8. CASE Validate
  <2>1. /\ stage = "validating" /\ stage' \in {"indexing", "failed"}
        /\ gone' = gone /\ dataset' = dataset
    BY <1>8 DEF Validate
  <2>2. CASE stage' = "failed"
    BY <1>0, <2>1, <2>2, EndsAreFailures DEF Contract!Next, Ended
  <2>3. CASE stage' = "indexing"
    <3>1. State' = State
      BY <2>1, <2>3 DEF State
    <3> QED  BY <2>1, <2>3, <3>1, Unseen
  <2> QED  BY <2>1, <2>2, <2>3
<1>9. CASE CreateIndex
  <2>1. State = "written" /\ State' = State /\ Report' = Report
    BY <1>9 DEF CreateIndex, State, Report
  <2> QED  BY <1>9, <2>1 DEF CreateIndex, Contract!AddIndex, Contract!Next
<1>10. CASE Finish
  <2>1. /\ State = "written" /\ State' = "converted"
        /\ gone' = gone /\ dataset' = dataset /\ dataset.indexes = NumIndices
    BY <1>10 DEF Finish, State
  <2>2. /\ Complete(dataset.rows, NumRecords) /\ dataset.rows \in Seq(Rows)
        /\ progress.rows_read = NumRecords /\ progress.rows_written = Len(dataset.rows)
        /\ progress.rows_missing_blobs = NumRecords - Len(dataset.rows)
    BY <1>10, Parts DEF IInv, CommittedAll, HasCommitted, Finish
  <2>3. /\ progress'.rows_total = NumRecords
        /\ progress'.rows_written = Len(dataset.rows)
        /\ progress'.rows_missing_blobs = NumRecords - Len(dataset.rows)
    BY <1>0, <1>10, <2>2 DEF Finish, TotalRows, Typed
  <2>4. Report' = [rows_total |-> NumRecords, rows_written |-> Len(dataset.rows),
                   rows_missing_blobs |-> NumRecords - Len(dataset.rows)]
    BY <1>10, <2>3 DEF Report, Finish
  <2>5. Cardinality(Lost) = NumRecords - Len(dataset.rows) /\ Cardinality(Records) = NumRecords
    BY <1>0, <2>2, CompleteIsPromised
  <2>6. UNCHANGED <<{cell[1] : cell \in gone}, dataset>>
    BY <2>1
  <2>7. Contract!Succeed
    BY <2>1, <2>4, <2>5, <2>6, SameOperators DEF Contract!Succeed, Lost
  <2> QED  BY <2>7 DEF Contract!Next
<1> QED
  BY <1>1, <1>2, <1>3, <1>4, <1>5, <1>6, <1>7, <1>8, <1>9, <1>10 DEF Next, Pipeline

\* Whatever the threads, the batches and the responses do, and wherever attempts end,
\* a conversion does what its contract says: it replaces the rows of the destination
\* as a whole or leaves them alone, and its report counts what it wrote.
THEOREM ContractKept == Spec => ImplementsContract
BY InitHolds, StepKeeps, InitPromised, StepPromised, PTL
DEF Spec, ImplementsContract, Contract!Spec
=============================================================================
