--------------------------- MODULE Ordering_proofs ---------------------------
(***************************************************************************)
(* That InOrder is what its name says, for the orders the modules use.     *)
(***************************************************************************)
EXTENDS Ordering, FiniteSetTheorems, TLAPS

LEMMA Interval ==
  ASSUME NEW n \in Nat
  PROVE  IsFiniteSet(1..n) /\ Cardinality(1..n) = n
BY FS_Interval

\* R is a strict total order of S; list goes up in R.
Orders(R, S) ==
  /\ \A x \in S : <<x, x>> \notin R
  /\ \A x, y, z \in S : <<x, y>> \in R /\ <<y, z>> \in R => <<x, z>> \in R
  /\ \A x, y \in S : x # y => <<x, y>> \in R \/ <<y, x>> \in R

GoesUp(list, R) == \A i, j \in DOMAIN list : i < j => <<list[i], list[j]>> \in R

\* A finite set can be listed in any strict total order: the place of an element
\* is the number of those before it.
LEMMA CanBeListed ==
  ASSUME NEW S, IsFiniteSet(S), NEW R, Orders(R, S)
  PROVE  \E list \in SetToSeqs(S) : GoesUp(list, R)
<1> USE DEF Orders
<1> DEFINE n == Cardinality(S)
           Before(x) == {y \in S : <<y, x>> \in R}
           place == [x \in S |-> Cardinality(Before(x)) + 1]
<1>0. n \in Nat
  BY FS_CardinalityType
<1>1. ASSUME NEW x \in S
      PROVE  IsFiniteSet(Before(x)) /\ Cardinality(Before(x)) \in Nat
  BY FS_Subset, FS_CardinalityType
<1>2. ASSUME NEW x \in S
      PROVE  place[x] \in 1..n
  <2>1. IsFiniteSet(S \ {x}) /\ Cardinality(S \ {x}) = n - 1
    BY FS_RemoveElement
  <2>2. Before(x) \subseteq S \ {x}
    OBVIOUS
  <2>3. Cardinality(Before(x)) <= n - 1
    <3> HIDE DEF Before
    <3> QED  BY <2>1, <2>2, FS_Subset
  <2> QED  BY <1>0, <1>1, <2>3
<1>3. ASSUME NEW x \in S, NEW y \in S, <<x, y>> \in R
      PROVE  place[x] < place[y]
  <2>1. Before(x) \cup {x} \subseteq Before(y)
    BY <1>3
  <2>2. x \notin Before(x)
    OBVIOUS
  <2>3. /\ IsFiniteSet(Before(x) \cup {x})
        /\ Cardinality(Before(x) \cup {x}) = Cardinality(Before(x)) + 1
    <3> HIDE DEF Before
    <3> QED  BY <1>1, <2>2, FS_AddElement
  <2>4. Cardinality(Before(x) \cup {x}) <= Cardinality(Before(y))
    <3> HIDE DEF Before
    <3> QED  BY <1>1, <2>1, FS_Subset
  <2>5. Cardinality(Before(x)) \in Nat /\ Cardinality(Before(y)) \in Nat
    BY <1>1
  <2>6. place[x] = Cardinality(Before(x)) + 1 /\ place[y] = Cardinality(Before(y)) + 1
    OBVIOUS
  <2> HIDE DEF Before, place
  <2> QED  BY <2>3, <2>4, <2>5, <2>6
<1> HIDE DEF Before, place
<1>4. ASSUME NEW x \in S, NEW y \in S, place[x] = place[y]
      PROVE  x = y
  <2>1. place[x] \in Int /\ place[y] \in Int
    BY <1>2, SMT
  <2>2. ~(place[x] < place[y]) /\ ~(place[y] < place[x])
    BY <1>4, <2>1, SMT
  <2>3. <<x, y>> \notin R /\ <<y, x>> \notin R
    BY <1>3, <2>2
  <2> QED  BY <2>3
<1>5. ASSUME NEW i \in 1..n
      PROVE  \E x \in S : place[x] = i
  <2>1. IsFiniteSet(1..n) /\ Cardinality(1..n) = n
    BY <1>0, FS_Interval
  <2>2. place \in [S -> 1..n]
    BY <1>2 DEF place
  <2>3. place \in Injection(S, 1..n)
    BY <1>4, <2>2 DEF Injection, IsInjective
  <2>4. place \in Surjection(S, 1..n)
    BY <2>1, <2>3, FS_Injection
  <2> QED  BY <2>4 DEF Surjection
<1> DEFINE list == [i \in 1..n |-> CHOOSE x \in S : place[x] = i]
<1>6. ASSUME NEW i \in 1..n
      PROVE  list[i] \in S /\ place[list[i]] = i
  BY <1>5
<1>7. list \in [1..n -> S]
  BY <1>6
<1> HIDE DEF list, n
<1>8. list \in SetToSeqs(S)
  BY <1>6, <1>7 DEF SetToSeqs, n
<1>9. ASSUME NEW i \in 1..n, NEW j \in 1..n, i < j
      PROVE  <<list[i], list[j]>> \in R
  <2>1. list[i] # list[j]
    BY <1>0, <1>6, <1>9
  <2>2. <<list[j], list[i]>> \notin R
    <3>1. ASSUME <<list[j], list[i]>> \in R
          PROVE  FALSE
      <4>1. place[list[j]] < place[list[i]]
        BY <1>3, <1>6, <3>1
      <4> QED  BY <1>0, <1>6, <1>9, <4>1
    <3> QED  BY <3>1
  <2> QED  BY <1>6, <2>1, <2>2
<1> QED  BY <1>7, <1>8, <1>9 DEF GoesUp

\* Such a list has all the elements.
LEMMA ListsAll ==
  ASSUME NEW S, IsFiniteSet(S), NEW list \in SetToSeqs(S)
  PROVE  /\ list \in [1..Cardinality(S) -> S] /\ Cardinality(S) \in Nat
         /\ \A i, j \in 1..Cardinality(S) : list[i] = list[j] => i = j
         /\ \A x \in S : \E i \in 1..Cardinality(S) : list[i] = x
<1> DEFINE n == Cardinality(S)
<1>1. n \in Nat /\ IsFiniteSet(1..n) /\ Cardinality(1..n) = n
  BY FS_CardinalityType, FS_Interval
<1>2. list \in [1..n -> S] /\ \A i, j \in 1..n : list[i] = list[j] => i = j
  BY DEF SetToSeqs
<1>3. list \in Injection(1..n, S)
  BY <1>2 DEF Injection, IsInjective
<1>4. list \in Surjection(1..n, S)
  BY <1>1, <1>3, FS_Injection
<1> QED  BY <1>1, <1>2, <1>4 DEF Surjection

\* There is one such list: the place of an element is fixed by those before it.
LEMMA OnlyOneListing ==
  ASSUME NEW S, IsFiniteSet(S), NEW R, Orders(R, S),
         NEW s \in SetToSeqs(S), GoesUp(s, R), NEW t \in SetToSeqs(S), GoesUp(t, R)
  PROVE  s = t
<1> DEFINE n == Cardinality(S)
           Before(x) == {y \in S : <<y, x>> \in R}
<1>1. ASSUME NEW list \in SetToSeqs(S), GoesUp(list, R), NEW i \in 1..n
      PROVE  Cardinality(Before(list[i])) = i - 1
  <2> DEFINE head == [j \in 1..(i - 1) |-> list[j]]
  <2>1. /\ list \in [1..n -> S] /\ n \in Nat
        /\ \A j, k \in 1..n : list[j] = list[k] => j = k
        /\ \A x \in S : \E j \in 1..n : list[j] = x
    BY <1>1, ListsAll
  <2>2. \A j, k \in 1..n : j < k => <<list[j], list[k]>> \in R
    BY <1>1, <2>1 DEF GoesUp
  <2>3. \A j \in 1..(i - 1) : head[j] = list[j] /\ j \in 1..n /\ list[j] \in Before(list[i])
    <3> SUFFICES ASSUME NEW j \in 1..(i - 1)
                 PROVE  j \in 1..n /\ list[j] \in Before(list[i])
      OBVIOUS
    <3>1. j \in 1..n /\ j < i
      BY <2>1
    <3> QED  BY <2>1, <2>2, <3>1
  <2>4. \A x \in Before(list[i]) : \E j \in 1..(i - 1) : list[j] = x
    <3> SUFFICES ASSUME NEW x \in Before(list[i])
                 PROVE  \E j \in 1..(i - 1) : list[j] = x
      OBVIOUS
    <3>1. PICK j \in 1..n : list[j] = x
      BY <2>1
    <3>2. <<list[j], list[i]>> \in R /\ list[i] \in S /\ list[j] \in S
      BY <2>1, <3>1
    <3>3. j # i /\ ~(i < j)
      <4>1. <<list[i], list[i]>> \notin R
        BY <3>2 DEF Orders
      <4>2. <<list[i], list[j]>> \in R => <<list[i], list[i]>> \in R
        BY <3>2 DEF Orders
      <4> QED  BY <2>2, <3>2, <4>1, <4>2
    <3> QED  BY <2>1, <3>1, <3>3
  <2> HIDE DEF Before, n
  <2>5. head \in Bijection(1..(i - 1), Before(list[i]))
    <3> HIDE DEF head
    <3>1. head \in [1..(i - 1) -> Before(list[i])]
      BY <2>3 DEF head
    <3>2. \A j, k \in 1..(i - 1) : head[j] = head[k] => j = k
      BY <2>1, <2>3
    <3>3. \A x \in Before(list[i]) : \E j \in 1..(i - 1) : head[j] = x
      BY <2>3, <2>4
    <3> QED  BY <3>1, <3>2, <3>3 DEF Bijection, Injection, Surjection, IsInjective
  <2>6. i - 1 \in Nat
    BY <2>1
  <2> HIDE DEF head
  <2>7. IsFiniteSet(1..(i - 1)) /\ Cardinality(1..(i - 1)) = i - 1
    BY <2>6, Interval
  <2>8. ExistsBijection(1..(i - 1), Before(list[i]))
    BY <2>5 DEF ExistsBijection
  <2> QED  BY <2>7, <2>8, FS_Bijection
<1>2. ASSUME NEW x \in S, NEW y \in S, x # y
      PROVE  Cardinality(Before(x)) # Cardinality(Before(y))
  <2>1. ASSUME NEW a \in S, NEW b \in S, <<a, b>> \in R
        PROVE  Cardinality(Before(a)) # Cardinality(Before(b))
    <3>1. Before(a) \cup {a} \subseteq Before(b) /\ a \notin Before(a)
      BY <2>1 DEF Orders
    <3>2. IsFiniteSet(Before(a)) /\ IsFiniteSet(Before(b))
      BY FS_Subset
    <3>3. a \in Before(b) /\ a \notin Before(a) /\ Before(a) \subseteq Before(b)
      BY <3>1
    <3> HIDE DEF Before
    <3>4. Before(a) # Before(b)
      BY <3>3
    <3> QED  BY <3>2, <3>3, <3>4, FS_Subset
  <2> HIDE DEF Before
  <2> QED  BY <1>2, <2>1 DEF Orders
<1>3. s \in [1..n -> S] /\ t \in [1..n -> S]
  BY ListsAll
<1>4. ASSUME NEW i \in 1..n
      PROVE  s[i] = t[i]
  <2>1. s[i] \in S /\ t[i] \in S
    BY <1>3
  <2>2. Cardinality(Before(s[i])) = i - 1 /\ Cardinality(Before(t[i])) = i - 1
    BY <1>1
  <2> HIDE DEF Before
  <2> QED  BY <1>2, <2>1, <2>2
<1>5. \A i \in 1..n : s[i] = t[i]
  BY <1>4
<1>6. s = [i \in 1..n |-> s[i]] /\ t = [i \in 1..n |-> t[i]]
  <2> HIDE DEF n
  <2> QED  BY <1>3
<1> HIDE DEF n
<1> QED  BY <1>5, <1>6

\* What parquet.rs and huggingface.rs get from sorting, and a filter from going
\* through a batch row by row.
LEMMA AscendingLists ==
  ASSUME NEW S \in SUBSET Int, IsFiniteSet(S),
         NEW list, list = InOrder(S, Ascending)
  PROVE  /\ list \in [1..Cardinality(S) -> S] /\ Cardinality(S) \in Nat
         /\ \A i, j \in 1..Cardinality(S) : i < j => list[i] < list[j]
         /\ \A x \in S : \E i \in 1..Cardinality(S) : list[i] = x
<1> DEFINE R == {pair \in S \X S : pair[1] < pair[2]}
           Sorted(s) == \A i, j \in DOMAIN s : i < j => s[i] < s[j]
<1>0. \A x, y \in S : <<x, y>> \in R <=> x < y
  OBVIOUS
<1> HIDE DEF R
<1>1. Orders(R, S)
  BY <1>0 DEF Orders
<1>2. \E s \in SetToSeqs(S) : GoesUp(s, R)
  BY <1>1, CanBeListed
<1>3. \E s \in SetToSeqs(S) : Sorted(s)
  <2>1. PICK s \in SetToSeqs(S) : GoesUp(s, R)
    BY <1>2
  <2>2. \A i \in DOMAIN s : s[i] \in S
    BY <2>1, ListsAll
  <2> QED  BY <1>0, <2>1, <2>2 DEF GoesUp
<1>4. list = CHOOSE s \in SetToSeqs(S) : Sorted(s)
  BY DEF InOrder, Ascending
<1>5. list \in SetToSeqs(S) /\ Sorted(list)
  <2> HIDE DEF Sorted
  <2> QED  BY <1>3, <1>4
<1> QED  BY <1>5, ListsAll

\* It is the only ascending list of these numbers.
LEMMA TheAscendingList ==
  ASSUME NEW S \in SUBSET Int, NEW n \in Nat, NEW s \in [1..n -> S],
         \A i, j \in 1..n : i < j => s[i] < s[j],
         \A x \in S : \E i \in 1..n : s[i] = x
  PROVE  IsFiniteSet(S) /\ Cardinality(S) = n /\ s = InOrder(S, Ascending)
<1> DEFINE R == {pair \in S \X S : pair[1] < pair[2]}
           t == InOrder(S, Ascending)
<1>0. \A i \in 1..n : s[i] \in S /\ s[i] \in Int
  OBVIOUS
<1>1. IsFiniteSet(S) /\ Cardinality(S) = n
  <2>1. \A i, j \in 1..n : s[i] = s[j] => i = j
    BY <1>0
  <2>2. s \in Injection(1..n, S) /\ s \in Surjection(1..n, S)
    BY <2>1 DEF Injection, IsInjective, Surjection
  <2>3. IsFiniteSet(1..n) /\ Cardinality(1..n) = n
    BY Interval
  <2> QED  BY <2>2, <2>3, FS_Surjection
<1>2. \A x, y \in S : <<x, y>> \in R <=> x < y
  OBVIOUS
<1> HIDE DEF R
<1>3. Orders(R, S)
  BY <1>2 DEF Orders
<1>4. s \in SetToSeqs(S) /\ GoesUp(s, R)
  <2>1. \A i, j \in 1..n : i # j => s[i] # s[j]
    BY <1>0
  <2>2. DOMAIN s = 1..n
    OBVIOUS
  <2> QED  BY <1>0, <1>1, <1>2, <2>1, <2>2 DEF SetToSeqs, GoesUp
<1>5. t \in SetToSeqs(S) /\ GoesUp(t, R)
  <2>1. /\ t \in [1..n -> S]
        /\ \A i, j \in 1..n : i < j => t[i] < t[j]
    BY <1>1, AscendingLists
  <2> HIDE DEF t
  <2>2. /\ \A i \in 1..n : t[i] \in S /\ t[i] \in Int
        /\ DOMAIN t = 1..n
    BY <2>1
  <2>3. \A i, j \in 1..n : i # j => t[i] # t[j]
    BY <2>1, <2>2
  <2> QED  BY <1>1, <1>2, <2>1, <2>2, <2>3 DEF SetToSeqs, GoesUp
<1>6. s = t
  <2> HIDE DEF t
  <2> QED  BY <1>1, <1>3, <1>4, <1>5, OnlyOneListing
<1> QED  BY <1>1, <1>6
=============================================================================
