-------------------------- MODULE TraceResumeProofs --------------------------
(***************************************************************************)
(* Proofs about TraceResume for every split, selection of cases, flush     *)
(* interval and number of runs: its types, that no query gets a second     *)
(* trace row, that a run which gets to its end has a row for every         *)
(* prediction, and that with every row flushed the complete cases on disk  *)
(* are traced.                                                             *)
(***************************************************************************)
EXTENDS TraceResume, FiniteSetTheorems, SequenceTheorems, TLAPS

-----------------------------------------------------------------------------
(* Sets of integers counted from below: what InOrder and Max enumerate.      *)

Below(S, x) == {r \in S : r <= x}

Rank(S, x) == Cardinality(Below(S, x))

Numbers(S) == S \subseteq Int /\ IsFiniteSet(S)

LEMMA RankType ==
    ASSUME NEW S, Numbers(S), NEW x \in Int
    PROVE  /\ Below(S, x) \subseteq S /\ IsFiniteSet(Below(S, x))
           /\ Rank(S, x) \in Nat /\ Rank(S, x) <= Cardinality(S) /\ Cardinality(S) \in Nat
           /\ x \in S => Rank(S, x) >= 1
<1>1. Below(S, x) \in SUBSET S BY DEF Below
<1>2. IsFiniteSet(Below(S, x)) /\ Rank(S, x) <= Cardinality(S)
  BY <1>1, FS_Subset DEF Numbers, Rank
<1>3. Rank(S, x) \in Nat /\ Cardinality(S) \in Nat BY <1>2, FS_CardinalityType DEF Numbers, Rank
<1>4. ASSUME x \in S PROVE Rank(S, x) >= 1
  <2>1. x \in Below(S, x) BY <1>4 DEF Below
  <2>2. Rank(S, x) # 0 BY <1>2, <2>1, FS_EmptySet DEF Rank
  <2> QED BY <1>3, <2>2
<1> QED BY <1>1, <1>2, <1>3, <1>4

LEMMA RankGrows ==
    ASSUME NEW S, Numbers(S), NEW x \in Int, NEW y \in Int, x <= y
    PROVE  /\ Rank(S, x) <= Rank(S, y)
           /\ \A z \in S : x < z /\ z <= y => Rank(S, x) < Rank(S, y)
<1>1. Below(S, x) \in SUBSET Below(S, y)
  <2> SUFFICES ASSUME NEW r \in S, r <= x PROVE r <= y BY DEF Below
  <2> QED BY DEF Numbers
<1>2. IsFiniteSet(Below(S, y)) /\ Rank(S, y) \in Nat /\ Rank(S, x) \in Nat BY RankType
<1>3. Rank(S, x) <= Rank(S, y) /\ (Rank(S, x) = Rank(S, y) => Below(S, x) = Below(S, y))
  BY <1>1, <1>2, FS_Subset DEF Rank
<1>4. ASSUME NEW z \in S, x < z, z <= y PROVE Below(S, x) # Below(S, y)
  <2>1. z \in Below(S, y) /\ z \notin Below(S, x) BY <1>4 DEF Below, Numbers
  <2> QED BY <2>1
<1> QED BY <1>2, <1>3, <1>4

(* A finite set of integers can be listed in ascending order.                *)
LEMMA Enumeration ==
    ASSUME NEW S, Numbers(S)
    PROVE  \E s \in [1..Cardinality(S) -> S] :
             \A i, j \in 1..Cardinality(S) : i < j => s[i] < s[j]
<1> DEFINE n == Cardinality(S)
           f == [q \in S |-> Rank(S, q)]
<1>1. n \in Nat BY FS_CardinalityType DEF Numbers
<1>2. \A q \in S : q \in Int BY DEF Numbers
<1>3. \A q \in S : Rank(S, q) \in 1..n BY <1>1, <1>2, RankType
<1>4. \A q, r \in S : q < r => Rank(S, q) < Rank(S, r) BY <1>2, RankGrows
<1>5. f \in Injection(S, 1..n)
  <2>1. f \in [S -> 1..n] BY <1>3
  <2>2. ASSUME NEW q \in S, NEW r \in S, f[q] = f[r] PROVE q = r
    <3>1. Rank(S, q) = Rank(S, r) BY <2>2
    <3>2. ~(q < r) /\ ~(r < q) BY <1>1, <1>3, <1>4, <3>1
    <3> QED BY <1>2, <3>2
  <2> QED BY <2>1, <2>2 DEF Injection, IsInjective
<1>6. f \in Surjection(S, 1..n)
  <2>1. IsFiniteSet(1..n) /\ Cardinality(1..n) = n BY <1>1, FS_Interval
  <2> QED BY <1>5, <2>1, FS_Injection
<1>7. \A i \in 1..n : \E q \in S : Rank(S, q) = i BY <1>6 DEF Surjection
<1> DEFINE s == [i \in 1..n |-> CHOOSE q \in S : Rank(S, q) = i]
<1>8. \A i \in 1..n : s[i] \in S /\ Rank(S, s[i]) = i BY <1>7
<1>9. ASSUME NEW i \in 1..n, NEW j \in 1..n, i < j PROVE s[i] < s[j]
  <2>1. s[i] \in Int /\ s[j] \in Int /\ Rank(S, s[i]) = i /\ Rank(S, s[j]) = j BY <1>2, <1>8
  <2>2. s[j] <= s[i] => Rank(S, s[j]) <= Rank(S, s[i]) BY <2>1, RankGrows
  <2> QED BY <1>1, <1>9, <2>1, <2>2
<1>10. s \in [1..n -> S] BY <1>8
<1> QED BY <1>9, <1>10

LEMMA MaxOf ==
    ASSUME NEW S, Numbers(S), S # {}
    PROVE  Max(S) \in S /\ \A x \in S : x <= Max(S)
<1> DEFINE n == Cardinality(S)
<1>1. n \in Nat /\ n # 0 BY FS_CardinalityType, FS_EmptySet DEF Numbers
<1>2. PICK s \in [1..n -> S] : \A i, j \in 1..n : i < j => s[i] < s[j] BY Enumeration
<1>3. s \in Injection(1..n, S)
  <2>1. \A i \in 1..n : s[i] \in Int BY <1>2 DEF Numbers
  <2>2. ASSUME NEW i \in 1..n, NEW j \in 1..n, s[i] = s[j] PROVE i = j
    <3>1. ~(i < j) /\ ~(j < i) BY <1>2, <2>1, <2>2
    <3> QED BY <1>1, <3>1
  <2> QED BY <1>2, <2>2 DEF Injection, IsInjective
<1>4. s \in Surjection(1..n, S)
  <2>1. Cardinality(1..n) = n BY <1>1, FS_Interval
  <2> QED BY <1>3, <2>1, FS_Injection DEF Numbers
<1>5. n \in 1..n /\ s[n] \in S BY <1>1, <1>2
<1>6. ASSUME NEW x \in S PROVE s[n] >= x
  <2>1. PICK i \in 1..n : s[i] = x BY <1>4 DEF Surjection
  <2>2. i = n \/ s[i] < s[n] BY <1>1, <1>2, <1>5
  <2>3. s[i] \in Int /\ s[n] \in Int BY <1>5, <2>1 DEF Numbers
  <2> QED BY <2>1, <2>2, <2>3
<1>7. \E x \in S : \A y \in S : x >= y BY <1>5, <1>6
<1>8. Max(S) \in S /\ \A y \in S : Max(S) >= y BY <1>7 DEF Max
<1> QED BY <1>8 DEF Numbers

-----------------------------------------------------------------------------
(* Ascending sequences: an element's position is its rank, so that the       *)
(* elements determine the sequence.                                          *)

LEMMA Listed ==
    ASSUME NEW s \in Seq(Int)
    PROVE  /\ Len(s) \in Nat /\ \A i \in 1..Len(s) : s[i] \in Int
           /\ ToSet(s) = {s[i] : i \in 1..Len(s)} /\ ToSet(s) \subseteq Int
<1>1. Len(s) \in Nat /\ DOMAIN s = 1..Len(s) /\ \A i \in 1..Len(s) : s[i] \in Int
  BY LenProperties, ElementOfSeq
<1> QED BY <1>1 DEF ToSet

LEMMA FirstCount ==
    ASSUME NEW s \in Seq(Int), StrictlyAscending(s), NEW n \in 0..Len(s)
    PROVE  IsFiniteSet({s[i] : i \in 1..n}) /\ Cardinality({s[i] : i \in 1..n}) = n
<1> DEFINE T == {s[i] : i \in 1..n}
           f == [i \in 1..n |-> s[i]]
<1>1. n \in Nat /\ \A i \in 1..n : i \in 1..Len(s) /\ s[i] \in Int BY Listed
<1>2. ASSUME NEW i \in 1..n, NEW j \in 1..n, f[i] = f[j] PROVE i = j
  <2>1. ~(i < j) /\ ~(j < i) BY <1>1, <1>2 DEF StrictlyAscending
  <2> QED BY <1>1, <2>1
<1>3. f \in Bijection(1..n, T)
  BY <1>2 DEF Bijection, Injection, Surjection, IsInjective
<1>4. ExistsBijection(1..n, T) BY <1>3 DEF ExistsBijection
<1> QED BY <1>1, <1>4, FS_CountingElements, FS_NatBijection

LEMMA PositionIsRank ==
    ASSUME NEW s \in Seq(Int), StrictlyAscending(s)
    PROVE  /\ Numbers(ToSet(s)) /\ Cardinality(ToSet(s)) = Len(s)
           /\ \A i \in 1..Len(s) : Rank(ToSet(s), s[i]) = i
<1>1. /\ Len(s) \in Nat /\ ToSet(s) = {s[i] : i \in 1..Len(s)} /\ ToSet(s) \subseteq Int
      /\ \A i \in 1..Len(s) : s[i] \in Int
  BY Listed
<1>2. IsFiniteSet(ToSet(s)) /\ Cardinality(ToSet(s)) = Len(s)
  <2>1. Len(s) \in 0..Len(s) BY <1>1
  <2> QED BY <1>1, <2>1, FirstCount
<1>3. ASSUME NEW i \in 1..Len(s) PROVE Rank(ToSet(s), s[i]) = i
  <2>1. \A j \in 1..Len(s) : s[j] <= s[i] <=> j <= i
    <3> SUFFICES ASSUME NEW j \in 1..Len(s) PROVE s[j] <= s[i] <=> j <= i OBVIOUS
    <3>1. s[j] \in Int /\ s[i] \in Int BY <1>1
    <3>2. j < i => s[j] < s[i] BY DEF StrictlyAscending
    <3>3. i < j => s[i] < s[j] BY DEF StrictlyAscending
    <3> QED BY <1>1, <3>1, <3>2, <3>3
  <2>2. Below(ToSet(s), s[i]) = {s[j] : j \in {k \in 1..Len(s) : s[k] <= s[i]}}
    BY <1>1 DEF Below
  <2>3. {k \in 1..Len(s) : s[k] <= s[i]} = 1..i BY <1>1, <2>1
  <2>4. Below(ToSet(s), s[i]) = {s[j] : j \in 1..i} BY <2>2, <2>3
  <2>5. i \in 0..Len(s) BY <1>1
  <2> QED BY <2>4, <2>5, FirstCount DEF Rank
<1> QED BY <1>1, <1>2, <1>3 DEF Numbers

(* The elements up to x are the first ones.                                  *)
LEMMA FirstOnes ==
    ASSUME NEW s \in Seq(Int), StrictlyAscending(s), NEW x \in Int
    PROVE  /\ Rank(ToSet(s), x) \in 0..Len(s)
           /\ \A i \in 1..Len(s) : s[i] <= x <=> i <= Rank(ToSet(s), x)
<1> DEFINE S == ToSet(s)
<1>1. Numbers(S) /\ Cardinality(S) = Len(s) /\ \A i \in 1..Len(s) : Rank(S, s[i]) = i
  BY PositionIsRank
<1>2. /\ Len(s) \in Nat /\ S = {s[i] : i \in 1..Len(s)}
      /\ \A i \in 1..Len(s) : s[i] \in Int
  BY Listed
<1>3. Rank(S, x) \in 0..Len(s)
  <2>1. Rank(S, x) \in Nat /\ Rank(S, x) <= Cardinality(S) BY <1>1, RankType
  <2>2. Rank(S, x) <= Len(s) BY <1>1, <2>1
  <2> QED BY <1>2, <2>1, <2>2
<1>4. ASSUME NEW i \in 1..Len(s) PROVE s[i] <= x <=> i <= Rank(S, x)
  <2>1. s[i] \in S /\ s[i] \in Int /\ Rank(S, s[i]) = i BY <1>1, <1>2
  <2>2. s[i] <= x => Rank(S, s[i]) <= Rank(S, x) BY <1>1, <2>1, RankGrows
  <2>3. x < s[i] => Rank(S, x) < Rank(S, s[i]) BY <1>1, <2>1, RankGrows
  <2> QED BY <1>2, <1>3, <2>1, <2>2, <2>3
<1> QED BY <1>3, <1>4

LEMMA OneListing ==
    ASSUME NEW s \in Seq(Int), NEW t \in Seq(Int), StrictlyAscending(s), StrictlyAscending(t),
           ToSet(s) = ToSet(t)
    PROVE  s = t
<1> DEFINE S == ToSet(s)
<1>1. Len(s) = Len(t) /\ Numbers(S) BY PositionIsRank
<1>2. ASSUME NEW i \in 1..Len(s) PROVE s[i] = t[i]
  <2>1. Rank(S, s[i]) = i /\ Rank(S, t[i]) = i BY <1>1, PositionIsRank
  <2>2. s[i] \in Int /\ t[i] \in Int /\ s[i] \in S /\ t[i] \in S BY <1>1, Listed
  <2>3. s[i] < t[i] => Rank(S, s[i]) < Rank(S, t[i]) BY <1>1, <2>2, RankGrows
  <2>4. t[i] < s[i] => Rank(S, t[i]) < Rank(S, s[i]) BY <1>1, <2>2, RankGrows
  <2> QED BY <2>1, <2>2, <2>3, <2>4
<1> QED BY <1>1, <1>2, SeqEqual

(* What InOrder returns.                                                     *)
LEMMA InOrderLists ==
    ASSUME NEW S, Numbers(S)
    PROVE  /\ InOrder(S) \in Seq(S) /\ InOrder(S) \in Seq(Int)
           /\ Len(InOrder(S)) = Cardinality(S)
           /\ StrictlyAscending(InOrder(S)) /\ ToSet(InOrder(S)) = S
<1> DEFINE n == Cardinality(S)
           s == InOrder(S)
<1>1. n \in Nat BY FS_CardinalityType DEF Numbers
<1>2. s \in [1..n -> S] /\ \A i, j \in 1..n : i < j => s[i] < s[j]
  BY Enumeration DEF InOrder
<1>3. s \in Seq(S) /\ Len(s) = n BY <1>1, <1>2
<1>4. s \in Seq(Int) BY <1>3, SeqMonotonic DEF Numbers
<1>5. StrictlyAscending(s) BY <1>2, <1>3 DEF StrictlyAscending
<1>6. ToSet(s) \in SUBSET S BY <1>2, <1>3, <1>4, Listed
<1>7. Cardinality(ToSet(s)) = n BY <1>3, <1>4, <1>5, PositionIsRank
<1>8. ToSet(s) = S BY <1>6, <1>7, FS_Subset DEF Numbers
<1> QED BY <1>3, <1>4, <1>5, <1>8

LEMMA InOrderIs ==
    ASSUME NEW s \in Seq(Int), StrictlyAscending(s), NEW S, Numbers(S), ToSet(s) = S
    PROVE  s = InOrder(S)
BY InOrderLists, OneListing

(* The rows of one more query.                                               *)
LEMMA OneMoreRow ==
    ASSUME NEW s \in Seq(Queries), NEW q \in Queries, StrictlyAscending(s),
           \A x \in ToSet(s) : x < q
    PROVE  /\ Append(s, q) \in Seq(Queries) /\ Len(Append(s, q)) = Len(s) + 1
           /\ StrictlyAscending(Append(s, q)) /\ ToSet(Append(s, q)) = ToSet(s) \cup {q}
           /\ \A i \in 1..Len(s) : Append(s, q)[i] = s[i]
<1> DEFINE t == Append(s, q)
<1>1. Len(s) \in Nat /\ DOMAIN s = 1..Len(s) BY LenProperties
<1>2. /\ t \in Seq(Queries) /\ Len(t) = Len(s) + 1 /\ DOMAIN t = 1..(Len(s) + 1)
      /\ \A i \in 1..Len(s) : t[i] = s[i]
      /\ t[Len(s) + 1] = q
  OBVIOUS
<1> HIDE DEF t
<1>3. \A i \in 1..Len(t) : (i \in 1..Len(s) /\ t[i] = s[i]) \/ (i = Len(s) + 1 /\ t[i] = q)
  BY <1>1, <1>2
<1>4. ToSet(t) = ToSet(s) \cup {q}
  <2>1. ToSet(s) = {s[i] : i \in 1..Len(s)} /\ ToSet(t) = {t[i] : i \in 1..Len(t)}
    BY <1>1, <1>2 DEF ToSet
  <2>2. Len(s) + 1 \in 1..Len(t) /\ \A i \in 1..Len(s) : i \in 1..Len(t) BY <1>1, <1>2
  <2> QED BY <1>2, <1>3, <2>1, <2>2
<1>5. StrictlyAscending(t)
  <2> SUFFICES ASSUME NEW i \in 1..Len(t), NEW j \in 1..Len(t), i < j PROVE t[i] < t[j]
    BY DEF StrictlyAscending
  <2>1. i \in 1..Len(s) /\ t[i] = s[i] BY <1>1, <1>2, <1>3
  <2>2. CASE j \in 1..Len(s) BY <1>2, <2>1, <2>2 DEF StrictlyAscending
  <2>3. CASE j = Len(s) + 1
    <3>1. s[i] \in ToSet(s) BY <1>1, <2>1 DEF ToSet
    <3> QED BY <1>2, <2>1, <2>3, <3>1
  <2> QED BY <1>3, <2>2, <2>3
<1> QED BY <1>2, <1>4, <1>5 DEF t

-----------------------------------------------------------------------------
(* The layout of the split: no case is empty.                                *)

LEMMA CaseBounds ==
    ASSUME NEW c \in Cases
    PROVE  /\ c \in Int /\ c - 1 \in 0..NumCases /\ c \in 0..NumCases /\ 0 < c
           /\ LastQuery[c] \in 0..NumQueries /\ LastQuery[c - 1] \in 0..NumQueries
           /\ LastQuery[c - 1] < LastQuery[c]
           /\ QueriesOf(c) \subseteq Queries /\ LastQuery[c] \in QueriesOf(c)
<1>1. NumCases \in Nat /\ NumQueries \in Nat BY TraceResumeAssumption
<1>2. c \in Int /\ c \in 0..NumCases /\ c - 1 \in 0..NumCases /\ 0 < c /\ c - 1 < c
  BY <1>1 DEF Cases
<1>3. LastQuery[c] \in 0..NumQueries /\ LastQuery[c - 1] \in 0..NumQueries
  BY <1>2, TraceResumeAssumption
<1>4. LastQuery[c - 1] < LastQuery[c] BY <1>2, TraceResumeAssumption
<1> QED BY <1>1, <1>2, <1>3, <1>4 DEF QueriesOf, Queries

LEMMA EndsOrdered ==
    ASSUME NEW c \in 0..NumCases, NEW d \in 0..NumCases
    PROVE  /\ LastQuery[c] \in 0..NumQueries /\ LastQuery[c] \in Int /\ LastQuery[d] \in Int
           /\ c <= d => LastQuery[c] <= LastQuery[d]
           /\ c < d => LastQuery[c] < LastQuery[d] /\ LastQuery[c] <= LastQuery[d - 1]
<1>1. NumCases \in Nat /\ NumQueries \in Nat BY TraceResumeAssumption
<1>2. LastQuery[c] \in 0..NumQueries /\ LastQuery[d] \in 0..NumQueries BY TraceResumeAssumption
<1>3. \A x \in 0..NumCases : c < x => LastQuery[c] < LastQuery[x] BY TraceResumeAssumption
<1>4. ASSUME c < d PROVE LastQuery[c] <= LastQuery[d - 1]
  <2>1. d - 1 \in 0..NumCases /\ (c = d - 1 \/ c < d - 1) BY <1>1, <1>4
  <2>2. LastQuery[d - 1] \in 0..NumQueries BY <2>1, TraceResumeAssumption
  <2> QED BY <1>2, <1>3, <2>1, <2>2
<1>5. c <= d => c = d \/ c < d BY <1>1
<1> QED BY <1>2, <1>3, <1>4, <1>5

LEMMA QueryOfCase ==
    ASSUME NEW c \in Cases, NEW q
    PROVE  q \in QueriesOf(c) <=> q \in Int /\ LastQuery[c - 1] < q /\ q <= LastQuery[c]
BY CaseBounds DEF QueriesOf

LEMMA CasesDisjoint ==
    ASSUME NEW c \in Cases, NEW d \in Cases, NEW q \in QueriesOf(c), q \in QueriesOf(d)
    PROVE  c = d
<1>1. /\ c \in Int /\ d \in Int /\ c \in 0..NumCases /\ d \in 0..NumCases
      /\ LastQuery[c - 1] \in Int /\ LastQuery[d - 1] \in Int
  BY CaseBounds
<1>2. q \in Int /\ LastQuery[c - 1] < q /\ q <= LastQuery[c] /\ LastQuery[d - 1] < q /\ q <= LastQuery[d]
  BY QueryOfCase
<1>3. c < d => LastQuery[c] <= LastQuery[d - 1] BY <1>1, EndsOrdered
<1>4. d < c => LastQuery[d] <= LastQuery[c - 1] BY <1>1, EndsOrdered
<1>5. LastQuery[c] \in Int /\ LastQuery[d] \in Int BY <1>1, EndsOrdered
<1> QED BY <1>1, <1>2, <1>3, <1>4, <1>5

LEMMA QueriesInType ==
    ASSUME NEW K \in SUBSET Cases
    PROVE  /\ QueriesIn(K) \subseteq Queries /\ Numbers(QueriesIn(K))
           /\ \A S \in SUBSET Queries : Numbers(S)
<1>1. QueriesIn(K) \subseteq Queries BY CaseBounds DEF QueriesIn
<1>2. ASSUME NEW S \in SUBSET Queries PROVE Numbers(S)
  <2>1. IsFiniteSet(Queries) /\ Queries \subseteq Int
    BY TraceResumeAssumption, FS_Interval DEF Queries
  <2> QED BY <2>1, FS_Subset DEF Numbers
<1> QED BY <1>1, <1>2

(* The queries of the first cases are the first queries.                     *)
LEMMA FirstCases ==
    ASSUME NEW K \in SUBSET Cases, NEW k \in 0..NumCases
    PROVE  QueriesIn({d \in K : d <= k}) = Below(QueriesIn(K), LastQuery[k])
<1> SUFFICES ASSUME NEW d \in K, NEW q \in QueriesOf(d) PROVE d <= k <=> q <= LastQuery[k]
  <2>1. ASSUME NEW q \in QueriesIn({d \in K : d <= k})
        PROVE  q \in Below(QueriesIn(K), LastQuery[k])
    BY <2>1 DEF QueriesIn, Below
  <2>2. ASSUME NEW q \in Below(QueriesIn(K), LastQuery[k])
        PROVE  q \in QueriesIn({d \in K : d <= k})
    BY <2>2 DEF QueriesIn, Below
  <2> QED BY <2>1, <2>2
<1>1. d \in Cases /\ d \in Int /\ d \in 0..NumCases /\ k \in Int /\ LastQuery[d - 1] \in Int
  BY CaseBounds
<1>2. q \in Int /\ LastQuery[d - 1] < q /\ q <= LastQuery[d] BY <1>1, QueryOfCase
<1>3. /\ LastQuery[k] \in Int /\ LastQuery[d] \in Int
      /\ d <= k => LastQuery[d] <= LastQuery[k]
      /\ k < d => LastQuery[k] <= LastQuery[d - 1]
  BY <1>1, EndsOrdered
<1> QED BY <1>1, <1>2, <1>3

-----------------------------------------------------------------------------
(* The rows a resumed run preloads.                                          *)

Selected == QueriesIn(scope)

UpTo(x) == Below(Selected, x)

\* the number of selected queries up to the end of a case
End(c) == Rank(Selected, LastQuery[c])

LEMMA Ends ==
    ASSUME scope \subseteq Cases
    PROVE  /\ \A c \in scope : End(c) \in Nat /\ End(c) >= 1 /\ LastQuery[c] \in Selected
           /\ \A c, d \in scope : c <= d <=> End(c) <= End(d)
           /\ Boundaries = {End(c) : c \in scope} /\ Numbers(Boundaries)
<1>1. Numbers(Selected) /\ Selected \subseteq Queries BY QueriesInType DEF Selected
<1>2. \A c \in scope : /\ c \in Int /\ c \in 0..NumCases /\ LastQuery[c] \in Int
                       /\ LastQuery[c] \in Selected
  BY CaseBounds DEF Selected, QueriesIn
<1>3. \A c \in scope : End(c) \in Nat /\ End(c) >= 1 BY <1>1, <1>2, RankType DEF End
<1>4. \A c, d \in scope : c <= d => End(c) <= End(d)
  BY <1>1, <1>2, EndsOrdered, RankGrows DEF End
<1>5. \A c, d \in scope : d < c => End(d) < End(c)
  BY <1>1, <1>2, EndsOrdered, RankGrows DEF End
<1>6. \A c, d \in scope : c <= d <=> End(c) <= End(d) BY <1>2, <1>3, <1>4, <1>5
<1>7. ASSUME NEW c \in scope PROVE Len(InOrder(QueriesIn({d \in scope : d <= c}))) = End(c)
  <2> DEFINE B == QueriesIn({d \in scope : d <= c})
  <2>1. B = Below(Selected, LastQuery[c]) BY <1>2, FirstCases DEF Selected
  <2>2. Numbers(B) BY QueriesInType
  <2>3. Len(InOrder(B)) = Cardinality(B) BY <2>2, InOrderLists
  <2> QED BY <2>1, <2>3 DEF End, Rank
<1>8. Boundaries = {End(c) : c \in scope} BY <1>7 DEF Boundaries
<1>9. Numbers(Boundaries)
  <2>1. Cardinality(Selected) \in Nat BY <1>1, FS_CardinalityType DEF Numbers
  <2>2. \A c \in scope : End(c) \in 0..Cardinality(Selected)
    BY <1>1, <1>2, <1>3, <2>1, RankType DEF End
  <2>3. Boundaries \in SUBSET (0..Cardinality(Selected)) BY <1>8, <2>2
  <2>4. IsFiniteSet(0..Cardinality(Selected)) BY <2>1, FS_Interval
  <2>5. IsFiniteSet(Boundaries) BY <2>3, <2>4, FS_Subset
  <2> QED BY <2>1, <2>3, <2>5 DEF Numbers
<1> QED BY <1>2, <1>3, <1>6, <1>8, <1>9

LEMMA AtMostIs ==
    ASSUME scope \subseteq Cases, NEW n \in Nat
    PROVE  /\ AtMost(n) \in Nat /\ AtMost(n) <= n
           /\ AtMost(n) = 0 \/ \E k \in scope : AtMost(n) = End(k)
           /\ \A c \in scope : End(c) <= n => End(c) <= AtMost(n)
<1> DEFINE B == {b \in Boundaries : b <= n}
<1>1. Numbers(Boundaries) /\ Boundaries = {End(c) : c \in scope} /\ \A c \in scope : End(c) \in Nat
  BY Ends
<1>2. B \in SUBSET Boundaries OBVIOUS
<1>3. IsFiniteSet(B) BY <1>1, <1>2, FS_Subset DEF Numbers
<1>4. IsFiniteSet(B \cup {0}) BY <1>3, FS_AddElement
<1>5. Numbers(B \cup {0}) BY <1>1, <1>4 DEF Numbers
<1>6. AtMost(n) \in B \cup {0} /\ \A x \in B \cup {0} : x <= AtMost(n)
  BY <1>5, MaxOf DEF AtMost
<1>7. ASSUME NEW c \in scope, End(c) <= n PROVE End(c) <= AtMost(n)
  <2>1. End(c) \in B BY <1>1, <1>7
  <2> QED BY <1>6, <2>1
<1> QED BY <1>1, <1>6, <1>7

LEMMA CommonPrefixIs ==
    ASSUME NEW s \in Seq(Queries), NEW t \in Seq(Queries)
    PROVE  /\ CommonPrefix(s, t) \in 0..Len(s) /\ CommonPrefix(s, t) <= Len(t)
           /\ \A i \in 1..CommonPrefix(s, t) : s[i] = t[i]
           /\ \A n \in 0..Len(s) : n <= Len(t) /\ (\A i \in 1..n : s[i] = t[i])
                                     => n <= CommonPrefix(s, t)
<1> DEFINE m == Min({Len(s), Len(t)})
           P == {n \in 0..m : SubSeq(s, 1, n) = SubSeq(t, 1, n)}
<1>1. Len(s) \in Nat /\ Len(t) \in Nat BY LenProperties
<1>2. m \in Nat /\ m <= Len(s) /\ m <= Len(t) /\ (m = Len(s) \/ m = Len(t))
  <2>1. \E x \in {Len(s), Len(t)} : \A y \in {Len(s), Len(t)} : x <= y BY <1>1
  <2>2. m \in {Len(s), Len(t)} /\ \A y \in {Len(s), Len(t)} : m <= y BY <2>1 DEF Min
  <2> QED BY <1>1, <2>2
<1> HIDE DEF m
<1>3. \A n \in 0..m : SubSeq(s, 1, n) = SubSeq(t, 1, n) <=> \A i \in 1..n : s[i] = t[i]
  <2> SUFFICES ASSUME NEW n \in 0..m
               PROVE  SubSeq(s, 1, n) = SubSeq(t, 1, n) <=> \A i \in 1..n : s[i] = t[i]
    OBVIOUS
  <2>1. n \in Nat /\ n \in 0..Len(s) /\ n \in 0..Len(t) BY <1>1, <1>2
  <2>2. /\ SubSeq(s, 1, n) = [i \in 1..n |-> s[i]]
        /\ SubSeq(t, 1, n) = [i \in 1..n |-> t[i]]
    BY <2>1, SubSeqRestrict DEF Restrict
  <2>3. ASSUME SubSeq(s, 1, n) = SubSeq(t, 1, n), NEW i \in 1..n PROVE s[i] = t[i]
    <3>1. SubSeq(s, 1, n)[i] = s[i] /\ SubSeq(t, 1, n)[i] = t[i] BY <2>2
    <3> QED BY <2>3, <3>1
  <2> QED BY <2>2, <2>3
<1>4. 0 \in P BY <1>2, <1>3
<1>5. Numbers(P)
  <2>1. IsFiniteSet(0..m) BY <1>2, FS_Interval
  <2>2. P \in SUBSET (0..m) OBVIOUS
  <2> QED BY <1>2, <2>1, <2>2, FS_Subset DEF Numbers
<1>6. CommonPrefix(s, t) = Max(P) BY DEF CommonPrefix, m
<1>7. CommonPrefix(s, t) \in P /\ \A x \in P : x <= CommonPrefix(s, t)
  BY <1>4, <1>5, <1>6, MaxOf
<1>8. ASSUME NEW n \in 0..Len(s), n <= Len(t), \A i \in 1..n : s[i] = t[i]
      PROVE  n <= CommonPrefix(s, t)
  <2>1. n \in 0..m BY <1>1, <1>2, <1>8
  <2>2. n \in P BY <1>3, <1>8, <2>1
  <2> QED BY <1>7, <2>2
<1> QED BY <1>1, <1>2, <1>3, <1>7, <1>8

(* A predictions file that starts the selected order.                        *)
Starts(ids) == ids \in Seq(Queries) /\ IsPrefix(ids, QueryOrder)

LEMMA OrderListed ==
    ASSUME scope \subseteq Cases
    PROVE  /\ QueryOrder \in Seq(Queries) /\ QueryOrder \in Seq(Int)
           /\ StrictlyAscending(QueryOrder)
           /\ ToSet(QueryOrder) = Selected /\ Selected \subseteq Queries /\ Numbers(Selected)
<1>1. Numbers(Selected) /\ Selected \subseteq Queries BY QueriesInType DEF Selected
<1>2. /\ QueryOrder \in Seq(Selected) /\ QueryOrder \in Seq(Int)
      /\ StrictlyAscending(QueryOrder) /\ ToSet(QueryOrder) = Selected
  BY <1>1, InOrderLists DEF QueryOrder, Selected
<1>3. QueryOrder \in Seq(Queries) BY <1>1, <1>2, SeqMonotonic
<1> QED BY <1>1, <1>2, <1>3

LEMMA StartsWith ==
    ASSUME scope \subseteq Cases, NEW ids, Starts(ids)
    PROVE  /\ Len(ids) \in Nat /\ Len(ids) <= Len(QueryOrder)
           /\ \A i \in 1..Len(ids) : ids[i] = QueryOrder[i] /\ ids[i] \in Selected /\ ids[i] \in Int
           /\ \A c \in scope : \A i \in 1..Len(QueryOrder) :
                QueryOrder[i] <= LastQuery[c] <=> i <= End(c)
           /\ \A c \in scope : End(c) <= Len(QueryOrder)
<1>1. Len(ids) \in Nat /\ Len(QueryOrder) \in Nat BY OrderListed, LenProperties DEF Starts
<1>2. Len(ids) <= Len(QueryOrder) BY DEF Starts, IsPrefix
<1>3. Len(ids) \in 0..Len(ids) /\ Len(ids) \in 0..Len(QueryOrder) BY <1>1, <1>2
<1>4. SubSeq(ids, 1, Len(ids)) = SubSeq(QueryOrder, 1, Len(ids)) BY DEF Starts, IsPrefix
<1>5. /\ SubSeq(ids, 1, Len(ids)) = [i \in 1..Len(ids) |-> ids[i]]
      /\ SubSeq(QueryOrder, 1, Len(ids)) = [i \in 1..Len(ids) |-> QueryOrder[i]]
  BY <1>3, OrderListed, SubSeqRestrict DEF Restrict, Starts
<1>6. ASSUME NEW i \in 1..Len(ids)
      PROVE  ids[i] = QueryOrder[i] /\ ids[i] \in Selected /\ ids[i] \in Int
  <2>1. SubSeq(ids, 1, Len(ids))[i] = ids[i] /\ SubSeq(QueryOrder, 1, Len(ids))[i] = QueryOrder[i]
    BY <1>5
  <2>2. i \in 1..Len(QueryOrder) BY <1>1, <1>2
  <2>3. QueryOrder[i] \in Selected /\ QueryOrder[i] \in Int BY <2>2, OrderListed, Listed
  <2> QED BY <1>4, <2>1, <2>3
<1>7. \A c \in scope : LastQuery[c] \in Int BY CaseBounds
<1>8. ASSUME NEW c \in scope
      PROVE  /\ End(c) <= Len(QueryOrder)
             /\ \A i \in 1..Len(QueryOrder) : QueryOrder[i] <= LastQuery[c] <=> i <= End(c)
  <2>1. /\ End(c) \in 0..Len(QueryOrder)
        /\ \A i \in 1..Len(QueryOrder) : QueryOrder[i] <= LastQuery[c] <=> i <= End(c)
    BY <1>7, OrderListed, FirstOnes DEF End
  <2> QED BY <1>1, <2>1
<1> QED BY <1>1, <1>2, <1>6, <1>8

(* It lists a case whole when it reaches to the case's end, and lists no     *)
(* query of other cases.                                                     *)
LEMMA CaseListed ==
    ASSUME scope \subseteq Cases, NEW ids, Starts(ids)
    PROVE  /\ \A c \in scope : QueriesOf(c) \subseteq ToSet(ids) <=> End(c) <= Len(ids)
           /\ \A c \in Cases : QueriesOf(c) \subseteq ToSet(ids) => c \in scope
<1>1. /\ Len(ids) \in Nat /\ Len(ids) <= Len(QueryOrder)
      /\ \A i \in 1..Len(ids) : ids[i] = QueryOrder[i] /\ ids[i] \in Selected
      /\ \A c \in scope : \A i \in 1..Len(QueryOrder) :
           QueryOrder[i] <= LastQuery[c] <=> i <= End(c)
  BY StartsWith
<1>2. /\ ToSet(ids) = {ids[i] : i \in 1..Len(ids)}
      /\ ToSet(QueryOrder) = {QueryOrder[i] : i \in 1..Len(QueryOrder)}
  <2>1. DOMAIN ids = 1..Len(ids) /\ DOMAIN QueryOrder = 1..Len(QueryOrder)
    BY OrderListed, LenProperties DEF Starts
  <2> QED BY <2>1 DEF ToSet
<1>3. Len(QueryOrder) \in Nat /\ ToSet(QueryOrder) = Selected BY OrderListed, LenProperties
<1>4. ASSUME NEW c \in scope, QueriesOf(c) \subseteq ToSet(ids) PROVE End(c) <= Len(ids)
  <2>1. LastQuery[c] \in ToSet(ids) BY <1>4, CaseBounds
  <2>2. PICK i \in 1..Len(ids) : ids[i] = LastQuery[c] BY <1>2, <2>1
  <2>3. i \in 1..Len(QueryOrder) /\ QueryOrder[i] = LastQuery[c] BY <1>1, <1>3, <2>2
  <2>4. LastQuery[c] \in Int /\ Numbers(Selected) BY CaseBounds, OrderListed
  <2>5. Rank(Selected, LastQuery[c]) = i BY <2>3, OrderListed, PositionIsRank
  <2> QED BY <1>1, <2>2, <2>5 DEF End
<1>5. ASSUME NEW c \in scope, End(c) <= Len(ids) PROVE QueriesOf(c) \subseteq ToSet(ids)
  <2> SUFFICES ASSUME NEW q \in QueriesOf(c) PROVE q \in ToSet(ids) OBVIOUS
  <2>1. q \in Selected BY DEF Selected, QueriesIn
  <2>2. PICK i \in 1..Len(QueryOrder) : QueryOrder[i] = q BY <1>2, <1>3, <2>1
  <2>3. q <= LastQuery[c] BY QueryOfCase
  <2>4. i <= End(c) BY <1>1, <2>2, <2>3
  <2>5. End(c) \in Nat BY Ends
  <2>6. i \in 1..Len(ids) BY <1>1, <1>3, <1>5, <2>4, <2>5
  <2> QED BY <1>1, <1>2, <2>2, <2>6
<1>6. ASSUME NEW c \in Cases, QueriesOf(c) \subseteq ToSet(ids) PROVE c \in scope
  <2>1. LastQuery[c] \in QueriesOf(c) BY CaseBounds
  <2>2. LastQuery[c] \in Selected BY <1>1, <1>2, <1>6, <2>1
  <2>3. PICK d \in scope : LastQuery[c] \in QueriesOf(d) BY <2>2 DEF Selected, QueriesIn
  <2> QED BY <2>1, <2>3, CasesDisjoint
<1> QED BY <1>4, <1>5, <1>6

(* What SafeCount keeps: nothing, or rows that are the selected queries up   *)
(* to the end of a case k, where the complete cases are those up to k.       *)
LEMMA SafeRows ==
    ASSUME scope \subseteq Cases, NEW ids, Starts(ids), NEW rows \in Seq(Queries)
    PROVE  LET n == SafeCount(ids, rows) IN
             /\ n \in 0..Len(rows) /\ n <= Len(ids)
             /\ \A i \in 1..n : rows[i] = ids[i]
             /\ n = 0 \/ \E k \in scope :
                  /\ n = End(k) /\ {rows[i] : i \in 1..n} = UpTo(LastQuery[k])
                  /\ \A d \in scope : QueriesOf(d) \subseteq ToSet(ids) <=> d <= k
<1> DEFINE p == CommonPrefix(ids, rows)
           n == SafeCount(ids, rows)
<1>1. ids \in Seq(Queries) BY DEF Starts
<1>2. Len(ids) \in Nat /\ Len(rows) \in Nat BY <1>1, LenProperties
<1>3. p \in 0..Len(ids) /\ p <= Len(rows) /\ \A i \in 1..p : ids[i] = rows[i]
  BY <1>1, CommonPrefixIs
<1>4. AtMost(p) \in Nat /\ AtMost(p) <= p BY <1>3, AtMostIs
<1>5. n = 0 \/ (n = AtMost(p) /\ n = AtMost(Len(ids))) BY DEF SafeCount
<1>6. n \in 0..Len(rows) /\ n <= Len(ids) /\ \A i \in 1..n : rows[i] = ids[i]
  <2>1. n \in Nat /\ n <= p BY <1>3, <1>4, <1>5
  <2> HIDE DEF n, p
  <2> QED BY <1>2, <1>3, <2>1
<1>7. ASSUME n # 0
      PROVE  \E k \in scope :
               /\ n = End(k) /\ {rows[i] : i \in 1..n} = UpTo(LastQuery[k])
               /\ \A d \in scope : QueriesOf(d) \subseteq ToSet(ids) <=> d <= k
  <2>1. n = AtMost(Len(ids)) BY <1>5, <1>7
  <2>2. PICK k \in scope : n = End(k) BY <1>2, <1>7, <2>1, AtMostIs
  <2>3. \A d \in scope : QueriesOf(d) \subseteq ToSet(ids) <=> d <= k
    <3> SUFFICES ASSUME NEW d \in scope PROVE End(d) <= Len(ids) <=> End(d) <= End(k)
      BY CaseListed, Ends
    <3>1. End(d) \in Nat /\ End(k) \in Nat /\ End(k) <= Len(ids) BY <1>6, <2>2, Ends
    <3>2. End(d) <= Len(ids) => End(d) <= End(k) BY <1>2, <2>1, <2>2, AtMostIs
    <3> QED BY <1>2, <3>1, <3>2
  <2>4. {rows[i] : i \in 1..n} = UpTo(LastQuery[k])
    <3>1. /\ Len(ids) <= Len(QueryOrder)
          /\ \A i \in 1..Len(ids) : ids[i] = QueryOrder[i] /\ ids[i] \in Selected
          /\ \A i \in 1..Len(QueryOrder) : QueryOrder[i] <= LastQuery[k] <=> i <= End(k)
      BY StartsWith
    <3>2. Len(QueryOrder) \in Nat /\ ToSet(QueryOrder) = {QueryOrder[i] : i \in 1..Len(QueryOrder)}
      BY OrderListed, Listed
    <3>3. \A i \in 1..n : i \in 1..Len(ids) /\ i \in 1..Len(QueryOrder) /\ rows[i] = QueryOrder[i]
      <4> HIDE DEF n
      <4> QED BY <1>2, <1>6, <3>1, <3>2
    <3>4. {rows[i] : i \in 1..n} \subseteq UpTo(LastQuery[k])
      <4> SUFFICES ASSUME NEW i \in 1..n PROVE rows[i] \in UpTo(LastQuery[k]) OBVIOUS
      <4>1. rows[i] \in Selected /\ i <= End(k) BY <2>2, <3>1, <3>3
      <4> QED BY <3>1, <3>3, <4>1 DEF UpTo, Below
    <3>5. UpTo(LastQuery[k]) \subseteq {rows[i] : i \in 1..n}
      <4> SUFFICES ASSUME NEW q \in Selected, q <= LastQuery[k] PROVE \E i \in 1..n : rows[i] = q
        BY DEF UpTo, Below
      <4>1. PICK i \in 1..Len(QueryOrder) : QueryOrder[i] = q BY <3>2, OrderListed
      <4>2. i <= n BY <2>2, <3>1, <4>1
      <4>3. i \in 1..n BY <1>6, <3>2, <4>1, <4>2
      <4> QED BY <3>3, <4>1, <4>3
    <3> QED BY <3>4, <3>5
  <2> QED BY <2>2, <2>3, <2>4
<1> QED BY <1>6, <1>7

(* Rows that agree with the predictions up to the end of every complete case *)
(* are all the rows of the complete cases.                                   *)
Agree(ids, rows) ==
    \A c \in Cases : QueriesOf(c) \subseteq ToSet(ids) =>
      \A i \in 1..Len(ids) : ids[i] <= LastQuery[c] => i <= Len(rows) /\ rows[i] = ids[i]

LEMMA AgreeTraced ==
    ASSUME NEW ids \in Seq(Queries), NEW rows \in Seq(Queries), Agree(ids, rows),
           NEW c \in Cases, QueriesOf(c) \subseteq ToSet(ids)
    PROVE  QueriesOf(c) \subseteq ToSet(rows)
<1> SUFFICES ASSUME NEW q \in QueriesOf(c) PROVE q \in ToSet(rows) OBVIOUS
<1>1. Len(ids) \in Nat /\ Len(rows) \in Nat /\ DOMAIN ids = 1..Len(ids) /\ DOMAIN rows = 1..Len(rows)
  BY LenProperties
<1>2. PICK i \in 1..Len(ids) : ids[i] = q BY <1>1 DEF ToSet
<1>3. q <= LastQuery[c] BY QueryOfCase
<1>4. i <= Len(rows) /\ rows[i] = q BY <1>2, <1>3 DEF Agree
<1>5. i \in 1..Len(rows) BY <1>1, <1>2, <1>4
<1> QED BY <1>1, <1>4, <1>5 DEF ToSet

(* Then SafeCount gives no complete case up.                                 *)
LEMMA AgreePreload ==
    ASSUME scope \subseteq Cases, NEW ids, Starts(ids), NEW rows \in Seq(Queries),
           Agree(ids, rows), NEW kept \in Seq(Queries), Len(kept) = SafeCount(ids, rows),
           \A i \in 1..Len(kept) : kept[i] = rows[i]
    PROVE  Agree(ids, kept)
<1> DEFINE n == SafeCount(ids, rows)
           p == CommonPrefix(ids, rows)
<1>1. /\ ids \in Seq(Queries) /\ Len(ids) \in Nat /\ Len(rows) \in Nat
      /\ Len(kept) \in Nat /\ Len(kept) = n
  BY LenProperties DEF Starts
<1>2. \A c \in scope : /\ End(c) \in Nat /\ End(c) >= 1
                       /\ QueriesOf(c) \subseteq ToSet(ids) <=> End(c) <= Len(ids)
  BY CaseListed, Ends
<1>3. /\ Len(ids) <= Len(QueryOrder) /\ Len(QueryOrder) \in Nat
      /\ \A i \in 1..Len(ids) : i \in 1..Len(QueryOrder) /\ ids[i] = QueryOrder[i]
      /\ \A c \in scope : \A i \in 1..Len(QueryOrder) :
           QueryOrder[i] <= LastQuery[c] <=> i <= End(c)
  <2>1. Len(QueryOrder) \in Nat BY OrderListed, LenProperties
  <2> QED BY <1>1, <2>1, StartsWith
<1>4. \A c \in scope : \A i \in 1..Len(ids) : ids[i] <= LastQuery[c] <=> i <= End(c)
  BY <1>3
<1>5. /\ AtMost(Len(ids)) \in Nat /\ AtMost(Len(ids)) <= Len(ids)
      /\ AtMost(Len(ids)) = 0 \/ \E k \in scope : AtMost(Len(ids)) = End(k)
      /\ \A c \in scope : End(c) <= Len(ids) => End(c) <= AtMost(Len(ids))
  BY <1>1, AtMostIs
<1>6. ASSUME NEW k \in scope, AtMost(Len(ids)) = End(k) PROVE n = End(k)
  <2>1. End(k) \in 0..Len(ids) /\ QueriesOf(k) \subseteq ToSet(ids) /\ k \in Cases
    BY <1>1, <1>2, <1>5, <1>6
  <2>2. \A i \in 1..End(k) : i \in 1..Len(ids) /\ i <= Len(rows) /\ rows[i] = ids[i]
    BY <1>1, <1>4, <2>1 DEF Agree
  <2>3. End(k) <= Len(rows)
    <3>1. End(k) \in 1..End(k) BY <1>2
    <3> QED BY <2>2, <3>1
  <2>4. /\ p \in 0..Len(ids) /\ End(k) <= p
    BY <1>1, <2>1, <2>2, <2>3, CommonPrefixIs
  <2>5. p \in Nat BY <1>1, <2>4
  <2>6. /\ AtMost(p) \in Nat /\ AtMost(p) <= p /\ End(k) <= AtMost(p)
        /\ AtMost(p) = 0 \/ \E d \in scope : AtMost(p) = End(d)
    BY <2>4, <2>5, AtMostIs
  <2>7. PICK d \in scope : AtMost(p) = End(d) BY <1>2, <2>6
  <2>8. End(d) <= Len(ids)
    <3> HIDE DEF p
    <3> QED BY <1>1, <1>2, <2>4, <2>6, <2>7
  <2>9. End(d) <= End(k) BY <1>5, <1>6, <2>8
  <2>10. AtMost(p) = AtMost(Len(ids)) BY <1>2, <1>6, <2>6, <2>7, <2>9
  <2> QED BY <1>6, <2>10 DEF SafeCount
<1>7. ASSUME NEW c \in Cases, QueriesOf(c) \subseteq ToSet(ids),
             NEW i \in 1..Len(ids), ids[i] <= LastQuery[c]
      PROVE  i <= Len(kept) /\ kept[i] = ids[i]
  <2>1. c \in scope BY <1>7, CaseListed
  <2>2. i <= End(c) /\ End(c) <= AtMost(Len(ids)) BY <1>2, <1>4, <1>5, <1>7, <2>1
  <2>3. PICK k \in scope : AtMost(Len(ids)) = End(k) BY <1>2, <1>5, <2>1, <2>2
  <2>4. n = End(k) BY <1>6, <2>3
  <2>5. i <= Len(kept) /\ i \in 1..Len(kept)
    <3> HIDE DEF n
    <3> QED BY <1>1, <1>2, <2>1, <2>2, <2>3, <2>4
  <2>6. rows[i] = ids[i] BY <1>7 DEF Agree
  <2> QED BY <2>5, <2>6
<1> QED BY <1>7 DEF Agree

LEMMA AgreeMore ==
    ASSUME NEW ids \in Seq(Queries), NEW rows \in Seq(Queries), NEW more \in Seq(Queries),
           Agree(ids, rows), Len(rows) <= Len(more), \A i \in 1..Len(rows) : more[i] = rows[i]
    PROVE  Agree(ids, more)
<1>1. Len(ids) \in Nat /\ Len(rows) \in Nat /\ Len(more) \in Nat BY LenProperties
<1> QED BY <1>1 DEF Agree

LEMMA AgreeSelf ==
    ASSUME NEW ids \in Seq(Queries) PROVE Agree(ids, ids) /\ Agree(<<>>, ids)
<1>1. Len(ids) \in Nat BY LenProperties
<1> QED BY <1>1 DEF Agree

-----------------------------------------------------------------------------
(* The types, together with where the loop is in its case.                   *)

InCase == pc \in {"reemit", "query", "record"}

PlaceInv ==
    /\ pc = "case" => case = 0 \/ case \in scope
    /\ InCase => case \in scope /\ LastQuery[case - 1] <= query /\ query <= LastQuery[case]
    /\ pc \in {"reemit", "query"} => query < LastQuery[case]
    /\ pc = "record" => LastQuery[case - 1] < query
    /\ pc \in Stopped \cup {"preload", "load"} => case = 0
    /\ pc \in Stopped \cup {"preload"} => emit /\ traces = <<>>

TypeInv == TypeOK /\ PlaceInv

LEMMA ScopeCases == ASSUME TypeOK PROVE scope \subseteq Cases
BY TraceResumeAssumption DEF TypeOK

LEMMA Files ==
    /\ Absent \in File /\ Torn \in File /\ Absent.ids = <<>> /\ Torn.ids = <<>>
    /\ \A ids \in Seq(Queries) :
         Holding(ids) \in File /\ Holding(ids).ids = ids /\ Holding(ids).state = "whole"
<1>1. <<>> \in Seq(Queries) BY EmptySeq
<1> QED BY <1>1 DEF Absent, Torn, Holding, File

LEMMA Flushed ==
    ASSUME TypeOK, NEW rows \in Seq(Queries), Flush(rows)
    PROVE  /\ traceFile' \in File /\ (traceFile' = traceFile \/ traceFile'.ids = rows)
           /\ flushEvery = 1 => traceFile'.ids = rows /\ traceFile'.state = "whole"
<1>1. traceFile' = traceFile \/ traceFile' = Holding(rows) BY DEF Flush
<1>2. flushEvery = 1 => traceFile' = Holding(rows)
  <2>1. Len(rows) \in Nat BY LenProperties
  <2>2. Len(rows) % 1 = 0 BY <2>1
  <2> QED BY <2>2 DEF Flush
<1> QED BY <1>1, <1>2, Files DEF TypeOK

LEMMA StopType ==
    ASSUME TypeInv, NEW outcome \in Stopped, Stop(outcome), predFile' \in File, traceFile' \in File
    PROVE  TypeInv'
<1>1. /\ pc' = outcome /\ held' = {} /\ traces' = <<>> /\ emit' = TRUE /\ case' = 0 /\ query' = 0
      /\ UNCHANGED <<scope, flushEvery, run>>
  BY DEF Stop, options
<1>2. <<>> \in Seq(Queries) /\ 0 \in 0..NumCases /\ 0 \in 0..NumQueries
  BY EmptySeq, TraceResumeAssumption
<1>3. TypeOK' BY <1>1, <1>2 DEF TypeInv, TypeOK
<1>4. PlaceInv' BY <1>1 DEF PlaceInv, InCase, Stopped
<1> QED BY <1>3, <1>4 DEF TypeInv

(* The next query of the current case.                                       *)
LEMMA NextQuery ==
    ASSUME TypeInv, pc \in {"reemit", "query"}
    PROVE  /\ case \in scope /\ case \in Cases /\ query \in Int /\ LastQuery[case] \in Int
           /\ query + 1 \in QueriesOf(case) /\ query + 1 \in Queries /\ query + 1 \in 0..NumQueries
           /\ query + 1 \in Selected /\ query + 1 <= LastQuery[case]
           /\ LastQuery[case - 1] <= query /\ query < LastQuery[case] /\ LastQuery[case - 1] \in Int
<1>1. /\ case \in scope /\ case \in Cases /\ query \in Int
      /\ LastQuery[case - 1] <= query /\ query < LastQuery[case]
  BY ScopeCases DEF TypeInv, TypeOK, PlaceInv, InCase
<1>2. /\ LastQuery[case] \in 0..NumQueries /\ LastQuery[case - 1] \in 0..NumQueries
      /\ QueriesOf(case) \subseteq Queries /\ NumQueries \in Nat
  BY <1>1, CaseBounds, TraceResumeAssumption
<1>3. query + 1 \in QueriesOf(case) BY <1>1, <1>2, QueryOfCase
<1>4. query + 1 \in Queries /\ query + 1 \in 0..NumQueries BY <1>2, <1>3 DEF Queries
<1>5. query + 1 \in Selected BY <1>1, <1>3 DEF Selected, QueriesIn
<1> QED BY <1>1, <1>2, <1>3, <1>4, <1>5

LEMMA RowType ==
    ASSUME TypeInv, ReemitRow \/ TraceAnswer
    PROVE  TypeInv'
<1>1. /\ pc \in {"reemit", "query"} /\ query' = query + 1 /\ traces' = Append(traces, query')
      /\ Flush(traces')
      /\ UNCHANGED <<predFile, scope, flushEvery, run, held, emit, case>>
      /\ pc' \in {"case", "reemit", "record"}
      /\ pc' = "reemit" => query' # LastQuery[case]
  BY DEF ReemitRow, TraceAnswer, options, AtLastQuery
<1>2. /\ case \in scope /\ query + 1 \in Queries /\ query + 1 \in 0..NumQueries
      /\ query + 1 <= LastQuery[case] /\ LastQuery[case - 1] <= query /\ query \in Int
      /\ LastQuery[case] \in Int /\ LastQuery[case - 1] \in Int
  BY <1>1, NextQuery
<1>3. traces' \in Seq(Queries) BY <1>1, <1>2 DEF TypeInv, TypeOK
<1>4. traceFile' \in File BY <1>1, <1>3, Flushed DEF TypeInv
<1>5. TypeOK' BY <1>1, <1>2, <1>3, <1>4 DEF TypeInv, TypeOK, Running
<1>6. PlaceInv' BY <1>1, <1>2 DEF PlaceInv, InCase, Stopped
<1> QED BY <1>5, <1>6 DEF TypeInv

LEMMA SeenQueries ==
    ASSUME TypeOK, NEW S \in SUBSET Queries
    PROVE  InOrder(S) \in Seq(Queries) /\ Numbers(S)
<1>1. Numbers(S) BY QueriesInType
<1>2. InOrder(S) \in Seq(S) BY <1>1, InOrderLists
<1> QED BY <1>1, <1>2, SeqMonotonic

LEMMA RecordType ==
    ASSUME TypeInv, RecordAnswer
    PROVE  /\ TypeInv' /\ case \in scope /\ query \in QueriesOf(case) /\ query \in Queries
           /\ held' \subseteq Queries
           /\ predFile'.ids = InOrder(held' \cap QueriesIn({c \in scope : c <= case}))
<1>1. /\ pc = "record" /\ held' = held \cup {query}
      /\ predFile' = Holding(InOrder(held' \cap QueriesIn({c \in scope : c <= case})))
      /\ UNCHANGED <<traceFile, scope, flushEvery, run, traces, emit, case, query>>
      /\ pc' \in {"case", "query"} /\ (pc' = "query" => query # LastQuery[case])
  BY DEF RecordAnswer, options, AtLastQuery
<1>2. /\ case \in scope /\ case \in Cases /\ query \in Int
      /\ LastQuery[case - 1] < query /\ query <= LastQuery[case]
  BY <1>1, ScopeCases DEF TypeInv, TypeOK, PlaceInv, InCase
<1>3. query \in QueriesOf(case) /\ query \in Queries BY <1>2, QueryOfCase, CaseBounds
<1>4. held' \subseteq Queries BY <1>1, <1>3 DEF TypeInv, TypeOK
<1>5. predFile' \in File /\ predFile'.ids = InOrder(held' \cap QueriesIn({c \in scope : c <= case}))
  <2>1. InOrder(held' \cap QueriesIn({c \in scope : c <= case})) \in Seq(Queries)
    BY <1>4, SeenQueries DEF TypeInv
  <2> QED BY <1>1, <2>1, Files
<1>6. TypeOK' BY <1>1, <1>4, <1>5 DEF TypeInv, TypeOK, Running
<1>7. LastQuery[case] \in Int /\ LastQuery[case - 1] \in Int BY <1>2, CaseBounds
<1>8. PlaceInv' BY <1>1, <1>2, <1>7 DEF PlaceInv, InCase, Stopped
<1> QED BY <1>2, <1>3, <1>4, <1>5, <1>6, <1>8 DEF TypeInv

LEMMA Preloaded ==
    ASSUME TypeInv, Preload
    PROVE  /\ Starts(predFile.ids) /\ traceFile.ids \in Seq(Queries) /\ traceFile.state = "whole"
           /\ traces' \in Seq(Queries) /\ Len(traces') = SafeCount(predFile.ids, traceFile.ids)
           /\ \A i \in 1..Len(traces') : traces'[i] = traceFile.ids[i]
           /\ Len(traces') \in 0..Len(traceFile.ids)
           /\ emit' = (Len(traces') = 0)
           /\ traceFile' \in File /\ traceFile'.ids = traces'
           /\ pc' = "load" /\ UNCHANGED <<predFile, scope, flushEvery, run, held, case, query>>
<1> DEFINE n == SafeCount(predFile.ids, traceFile.ids)
           rows == traceFile.ids
<1>1. /\ rows \in Seq(Queries) /\ predFile.ids \in Seq(Queries) /\ scope \subseteq Cases
      /\ traceFile \in File
  BY ScopeCases DEF TypeInv, TypeOK, File
<1>2. Starts(predFile.ids) BY <1>1 DEF Preload, Starts
<1>3. n \in 0..Len(rows) BY <1>1, <1>2, SafeRows
<1>4. /\ traces' = SubSeq(rows, 1, n) /\ emit' = (n = 0)
      /\ traceFile' = (IF n = Len(rows) THEN traceFile ELSE Holding(traces'))
      /\ pc' = "load" /\ UNCHANGED <<predFile, scope, flushEvery, run, held, case, query>>
      /\ traceFile.state = "whole"
  BY DEF Preload, options
<1>5. Len(rows) \in Nat /\ \A i \in 1..Len(rows) : rows[i] \in Queries
  BY <1>1, LenProperties, ElementOfSeq
<1> HIDE DEF n, rows
<1>6. \A i \in 1..n : i \in 1..Len(rows) /\ rows[i] \in Queries BY <1>3, <1>5
<1>7. /\ traces' \in Seq(Queries) /\ Len(traces') = n
      /\ \A i \in 1..n : traces'[i] = rows[i]
  <2>1. traces' = [i \in 1..n |-> rows[i]] BY <1>1, <1>3, <1>4, SubSeqRestrict DEF Restrict
  <2>2. n \in Nat BY <1>3, <1>5
  <2> QED BY <1>6, <2>1, <2>2
<1>8. traceFile' \in File /\ traceFile'.ids = traces'
  <2>1. CASE n = Len(rows)
    <3>1. traces' = rows BY <1>1, <1>4, <2>1, SubSeqFull
    <3> QED BY <1>1, <1>4, <2>1, <3>1 DEF rows
  <2>2. CASE n # Len(rows) BY <1>4, <1>7, <2>2, Files
  <2> QED BY <2>1, <2>2
<1> QED BY <1>1, <1>2, <1>3, <1>4, <1>7, <1>8 DEF n, rows

LEMMA TypeStep == TypeInv /\ [Next]_vars => TypeInv'
<1> SUFFICES ASSUME TypeInv, [Next]_vars PROVE TypeInv' OBVIOUS
<1> USE DEF TypeInv
<1>1. ASSUME NEW s \in Scopes, StartRun(s) PROVE TypeInv'
  <2>1. TypeOK'
    <3>1. run + 1 \in 0..MaxRuns
      BY <1>1, TraceResumeAssumption DEF StartRun, TypeOK
    <3> QED BY <1>1, <3>1 DEF StartRun, TypeOK, Running
  <2>2. PlaceInv' BY <1>1 DEF StartRun, PlaceInv, InCase, Stopped
  <2> QED BY <2>1, <2>2
<1>2. CASE NothingToPreload
  <2>1. TypeOK' BY <1>2 DEF NothingToPreload, TypeOK, options, Running
  <2>2. PlaceInv' BY <1>2 DEF NothingToPreload, PlaceInv, InCase, Stopped, options
  <2> QED BY <2>1, <2>2
<1>3. CASE RefuseResume \/ UnreadableFile \/ AgentRaises \/ RejectTraces \/ Crash
  <2>1. \E outcome \in Stopped : Stop(outcome) /\ UNCHANGED <<predFile, traceFile>>
    BY <1>3 DEF RefuseResume, UnreadableFile, AgentRaises, RejectTraces, Crash, Stopped
  <2> QED BY <2>1, StopType DEF TypeOK
<1>4. CASE Preload
  <2>1. TypeOK' BY <1>4, Preloaded DEF TypeOK, Running
  <2>2. PlaceInv' BY <1>4, Preloaded DEF Preload, PlaceInv, InCase, Stopped
  <2> QED BY <2>1, <2>2
<1>5. CASE LoadCheckpoint
  <2>1. ToSet(predFile.ids) \subseteq Queries
    <3>1. predFile.ids \in Seq(Queries) BY DEF TypeOK, File
    <3> QED BY <3>1, LenProperties, ElementOfSeq DEF ToSet
  <2>2. TypeOK' BY <1>5, <2>1 DEF LoadCheckpoint, TypeOK, options, Running
  <2>3. PlaceInv' BY <1>5 DEF LoadCheckpoint, PlaceInv, InCase, Stopped, options
  <2> QED BY <2>2, <2>3
<1>6. ASSUME NEW c \in Cases, SkipCase(c) \/ BeginCase(c) PROVE TypeInv'
  <2>1. /\ c \in scope /\ c \in 0..NumCases /\ LastQuery[c - 1] \in 0..NumQueries
        /\ LastQuery[c - 1] < LastQuery[c] /\ LastQuery[c] \in 0..NumQueries
    BY <1>6, CaseBounds DEF SkipCase, BeginCase, NextCase
  <2>2. /\ case' = c /\ query' = LastQuery[c - 1] /\ pc' \in {"case", "reemit", "query"}
        /\ held' \subseteq held
        /\ UNCHANGED <<predFile, traceFile, scope, flushEvery, run, traces, emit>>
    BY <1>6 DEF SkipCase, BeginCase, options
  <2>3. TypeOK' BY <2>1, <2>2 DEF TypeOK, Running
  <2>4. PlaceInv' BY <2>1, <2>2 DEF PlaceInv, InCase, Stopped
  <2> QED BY <2>3, <2>4
<1>7. CASE ReemitRow \/ TraceAnswer BY <1>7, RowType
<1>8. CASE RecordAnswer BY <1>8, RecordType
<1>9. CASE FinishLoop
  <2>1. TypeOK' BY <1>9 DEF FinishLoop, TypeOK, options, Running
  <2>2. PlaceInv' BY <1>9 DEF FinishLoop, PlaceInv, InCase, Stopped, options
  <2> QED BY <2>1, <2>2
<1>10. CASE OpenPredictions \/ OpenTraces
  <2>1. TypeOK' BY <1>10, Files DEF OpenPredictions, OpenTraces, TypeOK, options, Running
  <2>2. PlaceInv' BY <1>10 DEF OpenPredictions, OpenTraces, PlaceInv, InCase, Stopped, options
  <2> QED BY <2>1, <2>2
<1>11. CASE WritePredictions
  <2>1. InOrder(held \cap QueriesIn(scope)) \in Seq(Queries) BY SeenQueries DEF TypeOK
  <2>2. TypeOK' BY <1>11, <2>1, Files DEF WritePredictions, TypeOK, options, Running
  <2>3. PlaceInv' BY <1>11 DEF WritePredictions, PlaceInv, InCase, Stopped, options
  <2> QED BY <2>2, <2>3
<1>12. CASE WriteTraces
  <2>1. traceFile' \in File BY <1>12, Files DEF WriteTraces, TypeOK
  <2> QED BY <1>12, <2>1, StopType DEF WriteTraces, TypeOK, Stopped
<1>13. CASE UNCHANGED vars
  BY <1>13 DEF vars, options, TypeOK, PlaceInv, InCase
<1> QED
  BY <1>1, <1>2, <1>3, <1>4, <1>5, <1>6, <1>7, <1>8, <1>9, <1>10, <1>11, <1>12, <1>13
  DEF Next

LEMMA InitType == Init => TypeInv
<1> SUFFICES ASSUME Init PROVE TypeInv OBVIOUS
<1>1. <<>> \in Seq(Queries) /\ 0 \in 0..NumCases /\ 0 \in 0..NumQueries /\ 0 \in 0..MaxRuns
  BY EmptySeq, TraceResumeAssumption
<1>2. TypeOK BY <1>1, Files DEF Init, TypeOK, Stopped
<1>3. PlaceInv BY DEF Init, PlaceInv, InCase, Stopped
<1> QED BY <1>2, <1>3 DEF TypeInv

(* The two files, the loop's variables and the trace rows keep their types.  *)
THEOREM TypeCorrect == Spec => []TypeOK
<1>1. TypeInv => TypeOK BY DEF TypeInv
<1> QED BY InitType, TypeStep, <1>1, PTL DEF Spec

-----------------------------------------------------------------------------
(* The trace rows.  Up to where the loop is, every selected query has one;   *)
(* preloaded rows may be ahead of it, up to the end of a case k, and then    *)
(* the loop skips, without rows, exactly the cases up to k.                  *)

\* of the cases after first, those up to k have all their queries in keys
HeldTo(keys, first, k) ==
    \A d \in scope : first < d => (QueriesOf(d) \subseteq keys <=> d <= k)

Saving == pc \in {"save", "savingPredictions", "validate", "savingTraces"}

RowsInv ==
    /\ StrictlyAscending(traces) /\ StrictlyAscending(traceFile.ids)
    /\ pc = "load" /\ emit => traces = <<>>
    /\ pc = "load" /\ ~emit =>
         \E k \in scope : /\ ToSet(traces) = UpTo(LastQuery[k])
                          /\ HeldTo(ToSet(predFile.ids), 0, k)
    /\ pc = "case" /\ emit => ToSet(traces) = UpTo(LastQuery[case])
    /\ pc = "case" /\ ~emit =>
         \E k \in scope : /\ case <= k /\ ToSet(traces) = UpTo(LastQuery[k])
                          /\ HeldTo(held, case, k)
    /\ InCase => ToSet(traces) = UpTo(query)
    /\ pc \in {"query", "record"} /\ ~emit => HeldTo(held, case, case)
    /\ pc = "reemit" => emit
    /\ Saving => ToSet(traces) = Selected

LEMMA NoRows == StrictlyAscending(<<>>) /\ ToSet(<<>>) = {}
BY DEF StrictlyAscending, ToSet

LEMMA SelectedCases ==
    ASSUME TypeOK
    PROVE  /\ Selected \subseteq Queries /\ Selected \subseteq Int
           /\ case \in 0..NumCases /\ case \in Int /\ LastQuery[case] \in Int
           /\ \A d \in scope : /\ d \in Cases /\ d \in Int /\ d \in 0..NumCases /\ 0 < d
                               /\ LastQuery[d] \in Int /\ QueriesOf(d) \subseteq Selected
<1>1. scope \subseteq Cases BY ScopeCases
<1>2. Selected \subseteq Queries /\ Selected \subseteq Int
  BY <1>1, QueriesInType DEF Selected, Numbers
<1>3. case \in 0..NumCases BY DEF TypeOK
<1>4. case \in Int /\ LastQuery[case] \in Int BY <1>3, EndsOrdered
<1>5. \A d \in scope : QueriesOf(d) \subseteq Selected BY DEF Selected, QueriesIn
<1> QED BY <1>1, <1>2, <1>3, <1>4, <1>5, CaseBounds

(* Between a case and the next one no query is selected.                     *)
LEMMA NextCaseUpTo ==
    ASSUME TypeOK, NEW c \in Cases, NextCase(c)
    PROVE  /\ c \in scope /\ case < c /\ UpTo(LastQuery[c - 1]) = UpTo(LastQuery[case])
           /\ \A d \in scope : d < c <=> d <= case
<1>1. c \in scope /\ case < c /\ \A d \in scope : case < d => c <= d BY DEF NextCase
<1>2. c \in Int /\ c - 1 \in 0..NumCases BY CaseBounds
<1>3. \A d \in scope : d < c <=> d <= case BY <1>1, <1>2, SelectedCases
<1>4. {d \in scope : d <= c - 1} = {d \in scope : d <= case}
  BY <1>2, <1>3, SelectedCases
<1>5. /\ QueriesIn({d \in scope : d <= c - 1}) = UpTo(LastQuery[c - 1])
      /\ QueriesIn({d \in scope : d <= case}) = UpTo(LastQuery[case])
  BY <1>2, ScopeCases, SelectedCases, FirstCases DEF UpTo, Selected
<1> QED BY <1>1, <1>3, <1>4, <1>5

LEMMA LastCaseUpTo ==
    ASSUME TypeOK, \A c \in scope : c <= case
    PROVE  UpTo(LastQuery[case]) = Selected
<1>1. {d \in scope : d <= case} = scope OBVIOUS
<1>2. QueriesIn({d \in scope : d <= case}) = UpTo(LastQuery[case])
  BY ScopeCases, SelectedCases, FirstCases DEF UpTo, Selected
<1> QED BY <1>1, <1>2 DEF Selected

(* One more row.                                                             *)
LEMMA RowAdded ==
    ASSUME TypeInv, RowsInv, ReemitRow \/ TraceAnswer
    PROVE  /\ traces' \in Seq(Queries) /\ StrictlyAscending(traces')
           /\ query' = query + 1 /\ ToSet(traces') = UpTo(query')
           /\ Len(traces') = Len(traces) + 1
           /\ \A i \in 1..Len(traces) : traces'[i] = traces[i]
           /\ Flush(traces') /\ traceFile' \in File /\ StrictlyAscending(traceFile'.ids)
           /\ flushEvery = 1 => traceFile'.ids = traces'
<1>1. /\ pc \in {"reemit", "query"} /\ query' = query + 1 /\ traces' = Append(traces, query')
      /\ Flush(traces')
  BY DEF ReemitRow, TraceAnswer
<1>2. query + 1 \in Queries /\ query + 1 \in Selected /\ query \in Int BY <1>1, NextQuery
<1>3. ToSet(traces) = UpTo(query) BY <1>1 DEF RowsInv, InCase
<1>4. \A x \in Selected : x \in Int /\ (x <= query + 1 <=> x <= query \/ x = query + 1)
                            /\ (x <= query => x < query + 1)
  <2> SUFFICES ASSUME NEW x \in Selected
               PROVE  x \in Int /\ (x <= query + 1 <=> x <= query \/ x = query + 1)
                      /\ (x <= query => x < query + 1)
    OBVIOUS
  <2>1. x \in Int BY SelectedCases DEF TypeInv
  <2> QED BY <1>2, <2>1
<1>5. UpTo(query + 1) = UpTo(query) \cup {query + 1} BY <1>2, <1>4 DEF UpTo, Below
<1>6. \A x \in ToSet(traces) : x < query + 1 BY <1>3, <1>4 DEF UpTo, Below
<1>7. traces \in Seq(Queries) /\ StrictlyAscending(traces) BY DEF TypeInv, TypeOK, RowsInv
<1>8. /\ traces' \in Seq(Queries) /\ Len(traces') = Len(traces) + 1 /\ StrictlyAscending(traces')
      /\ ToSet(traces') = ToSet(traces) \cup {query + 1}
      /\ \A i \in 1..Len(traces) : traces'[i] = traces[i]
  BY <1>1, <1>2, <1>6, <1>7, OneMoreRow
<1>9. /\ traceFile' \in File /\ (traceFile' = traceFile \/ traceFile'.ids = traces')
      /\ flushEvery = 1 => traceFile'.ids = traces'
  BY <1>1, <1>8, Flushed DEF TypeInv
<1>10. StrictlyAscending(traceFile'.ids) BY <1>8, <1>9 DEF RowsInv
<1> QED BY <1>1, <1>3, <1>5, <1>8, <1>9, <1>10

LEMMA PreloadRows ==
    ASSUME TypeInv, RowsInv, Preload
    PROVE  /\ StrictlyAscending(traces') /\ traceFile'.ids = traces'
           /\ emit' => traces' = <<>>
           /\ ~emit' => \E k \in scope : /\ ToSet(traces') = UpTo(LastQuery[k])
                                         /\ HeldTo(ToSet(predFile.ids), 0, k)
<1> DEFINE ids == predFile.ids
           rows == traceFile.ids
           n == SafeCount(ids, rows)
<1>1. /\ Starts(ids) /\ rows \in Seq(Queries) /\ traces' \in Seq(Queries) /\ Len(traces') = n
      /\ \A i \in 1..Len(traces') : traces'[i] = rows[i]
      /\ Len(traces') \in 0..Len(rows) /\ emit' = (Len(traces') = 0) /\ traceFile'.ids = traces'
      /\ scope \subseteq Cases
  BY Preloaded, ScopeCases DEF TypeInv
<1>2. Len(rows) \in Nat /\ Len(traces') \in Nat BY <1>1, LenProperties
<1>3. StrictlyAscending(traces')
  <2>1. \A i \in 1..Len(traces') : i \in 1..Len(rows) BY <1>1, <1>2
  <2> QED BY <1>1, <2>1 DEF RowsInv, StrictlyAscending
<1>4. emit' => traces' = <<>>
  <2>1. emit' => Len(traces') = 0 BY <1>1
  <2> QED BY <1>1, <2>1, EmptySeq
<1>5. ASSUME ~emit' PROVE \E k \in scope : /\ ToSet(traces') = UpTo(LastQuery[k])
                                           /\ HeldTo(ToSet(ids), 0, k)
  <2>1. n # 0 BY <1>1, <1>5
  <2>2. PICK k \in scope :
          /\ {rows[i] : i \in 1..n} = UpTo(LastQuery[k])
          /\ \A d \in scope : QueriesOf(d) \subseteq ToSet(ids) <=> d <= k
    BY <1>1, <2>1, SafeRows
  <2>3. ToSet(traces') = {traces'[i] : i \in 1..Len(traces')}
    BY <1>1, LenProperties DEF ToSet
  <2>4. ToSet(traces') = {rows[i] : i \in 1..n} BY <1>1, <2>3
  <2> QED BY <2>2, <2>4 DEF HeldTo
<1> QED BY <1>1, <1>3, <1>4, <1>5

(* The parts of the invariant of the next state.                             *)
LEMMA RowsIntro ==
    ASSUME UNCHANGED scope, StrictlyAscending(traces'), StrictlyAscending(traceFile'.ids),
           pc' = "load" /\ emit' => traces' = <<>>,
           pc' = "load" /\ ~emit' =>
             \E k \in scope : /\ ToSet(traces') = UpTo(LastQuery[k])
                              /\ HeldTo(ToSet(predFile'.ids), 0, k),
           pc' = "case" /\ emit' => ToSet(traces') = UpTo(LastQuery[case']),
           pc' = "case" /\ ~emit' =>
             \E k \in scope : /\ case' <= k /\ ToSet(traces') = UpTo(LastQuery[k])
                              /\ HeldTo(held', case', k),
           pc' \in {"reemit", "query", "record"} => ToSet(traces') = UpTo(query'),
           pc' \in {"query", "record"} /\ ~emit' => HeldTo(held', case', case'),
           pc' = "reemit" => emit',
           pc' \in {"save", "savingPredictions", "validate", "savingTraces"} =>
             ToSet(traces') = Selected
    PROVE  RowsInv'
<1>1. Selected' = Selected BY DEF Selected, QueriesIn, QueriesOf
<1>2. \A x : UpTo(x)' = UpTo(x) BY <1>1 DEF UpTo
<1> QED
  BY <1>1, <1>2 DEF RowsInv, UpTo, HeldTo, InCase, Saving, QueriesOf

LEMMA QuietRows ==
    ASSUME RowsInv, pc' \in Stopped \cup {"preload"}, traceFile' = traceFile,
           traces' = <<>> \/ traces' = traces
    PROVE  RowsInv'
<1>1. StrictlyAscending(traces') /\ StrictlyAscending(traceFile'.ids)
  BY NoRows DEF RowsInv
<1> QED BY <1>1 DEF RowsInv, InCase, Saving, Stopped

LEMMA LoadRows ==
    ASSUME TypeInv, RowsInv, LoadCheckpoint
    PROVE  RowsInv'
<1>1. /\ pc = "load" /\ pc' = "case" /\ held' = ToSet(predFile.ids) /\ case' = case /\ case = 0
      /\ UNCHANGED <<traceFile, scope, traces, emit>>
  BY DEF LoadCheckpoint, options, TypeInv, PlaceInv
<1>2. LastQuery[0] = 0 /\ UpTo(0) = {}
  <2>1. \A q \in Queries : ~(q <= 0) BY DEF Queries
  <2>2. Selected \subseteq Queries BY SelectedCases DEF TypeInv
  <2> QED BY <2>1, <2>2, TraceResumeAssumption DEF UpTo, Below
<1>3. emit' => ToSet(traces') = UpTo(LastQuery[case']) BY <1>1, <1>2, NoRows DEF RowsInv
<1>4. ASSUME ~emit' PROVE \E k \in scope : /\ case' <= k /\ ToSet(traces') = UpTo(LastQuery[k])
                                           /\ HeldTo(held', case', k)
  <2>1. PICK k \in scope : ToSet(traces) = UpTo(LastQuery[k]) /\ HeldTo(ToSet(predFile.ids), 0, k)
    BY <1>1, <1>4 DEF RowsInv
  <2>2. case' <= k BY <1>1, SelectedCases DEF TypeInv
  <2> QED BY <1>1, <2>1, <2>2
<1>5. StrictlyAscending(traces') /\ StrictlyAscending(traceFile'.ids) BY <1>1 DEF RowsInv
<1> QED BY <1>1, <1>3, <1>4, <1>5, RowsIntro

LEMMA SkipRows ==
    ASSUME TypeInv, RowsInv, NEW c \in Cases, SkipCase(c)
    PROVE  RowsInv'
<1>1. /\ pc = "case" /\ NextCase(c) /\ QueriesOf(c) \subseteq held
      /\ case' = c /\ query' = LastQuery[c - 1] /\ pc' = (IF emit THEN "reemit" ELSE "case")
      /\ UNCHANGED <<traceFile, scope, held, traces, emit>>
  BY DEF SkipCase, options
<1>2. c \in scope /\ case < c /\ UpTo(LastQuery[c - 1]) = UpTo(LastQuery[case])
  BY <1>1, NextCaseUpTo DEF TypeInv
<1>3. StrictlyAscending(traces') /\ StrictlyAscending(traceFile'.ids) BY <1>1 DEF RowsInv
<1>4. CASE emit
  <2>1. ToSet(traces') = UpTo(query') BY <1>1, <1>2, <1>4 DEF RowsInv
  <2> QED BY <1>1, <1>3, <1>4, <2>1, RowsIntro
<1>5. CASE ~emit
  <2>1. PICK k \in scope : case <= k /\ ToSet(traces) = UpTo(LastQuery[k]) /\ HeldTo(held, case, k)
    BY <1>1, <1>5 DEF RowsInv
  <2>2. c <= k BY <1>1, <1>2, <2>1 DEF HeldTo
  <2>3. HeldTo(held, c, k)
    <3>1. \A d \in scope : c < d => case < d BY <1>2, SelectedCases DEF TypeInv
    <3> QED BY <2>1, <3>1 DEF HeldTo
  <2> QED BY <1>1, <1>3, <1>5, <2>1, <2>2, <2>3, RowsIntro
<1> QED BY <1>4, <1>5

LEMMA BeginRows ==
    ASSUME TypeInv, RowsInv, NEW c \in Cases, BeginCase(c)
    PROVE  RowsInv'
<1>1. /\ pc = "case" /\ NextCase(c) /\ ~(QueriesOf(c) \subseteq held)
      /\ case' = c /\ query' = LastQuery[c - 1] /\ pc' = "query" /\ held' = held \ QueriesOf(c)
      /\ UNCHANGED <<traceFile, scope, traces, emit>>
  BY DEF BeginCase, options
<1>2. c \in scope /\ case < c /\ UpTo(LastQuery[c - 1]) = UpTo(LastQuery[case])
  BY <1>1, NextCaseUpTo DEF TypeInv
<1>3. StrictlyAscending(traces') /\ StrictlyAscending(traceFile'.ids) BY <1>1 DEF RowsInv
<1>4. CASE emit
  <2>1. ToSet(traces') = UpTo(query') BY <1>1, <1>2, <1>4 DEF RowsInv
  <2> QED BY <1>1, <1>3, <1>4, <2>1, RowsIntro
<1>5. CASE ~emit
  <2>1. PICK k \in scope : case <= k /\ ToSet(traces) = UpTo(LastQuery[k]) /\ HeldTo(held, case, k)
    BY <1>1, <1>5 DEF RowsInv
  <2>2. k \in Int /\ c \in Int /\ case \in Int BY <1>2, SelectedCases DEF TypeInv
  <2>3. k < c BY <1>1, <1>2, <2>1, <2>2 DEF HeldTo
  <2>4. k = case BY <1>1, <2>1, <2>2, <2>3 DEF NextCase
  <2>5. ToSet(traces') = UpTo(query') BY <1>1, <1>2, <2>1, <2>4
  <2>6. HeldTo(held', c, c)
    <3> SUFFICES ASSUME NEW d \in scope, c < d
                 PROVE  ~(QueriesOf(d) \subseteq held') /\ ~(d <= c)
      BY DEF HeldTo
    <3>1. d \in Int BY SelectedCases DEF TypeInv
    <3>2. case < d /\ ~(d <= k) BY <1>2, <2>2, <2>3, <3>1
    <3>3. ~(QueriesOf(d) \subseteq held) BY <2>1, <3>2 DEF HeldTo
    <3> QED BY <1>1, <2>2, <3>1, <3>3
  <2> QED BY <1>1, <1>3, <1>5, <2>5, <2>6, RowsIntro
<1> QED BY <1>4, <1>5

LEMMA RowRows ==
    ASSUME TypeInv, RowsInv, ReemitRow \/ TraceAnswer
    PROVE  RowsInv'
<1>1. /\ UNCHANGED <<scope, held, emit, case>> /\ pc \in {"reemit", "query"}
      /\ pc = "reemit" => pc' = (IF query' = LastQuery[case] THEN "case" ELSE "reemit")
      /\ pc = "query" => pc' = "record"
  BY DEF ReemitRow, TraceAnswer, options, AtLastQuery
<1>2. /\ StrictlyAscending(traces') /\ StrictlyAscending(traceFile'.ids)
      /\ ToSet(traces') = UpTo(query')
  BY RowAdded
<1>3. pc = "reemit" => emit BY DEF RowsInv
<1>4. pc = "query" /\ ~emit => HeldTo(held', case', case') BY <1>1 DEF RowsInv
<1> QED BY <1>1, <1>2, <1>3, <1>4, RowsIntro

LEMMA RecordRows ==
    ASSUME TypeInv, RowsInv, RecordAnswer
    PROVE  RowsInv'
<1>1. /\ pc = "record" /\ held' = held \cup {query}
      /\ pc' = (IF query' = LastQuery[case] THEN "case" ELSE "query")
      /\ UNCHANGED <<traceFile, scope, traces, emit, case, query>>
  BY DEF RecordAnswer, options, AtLastQuery
<1>2. case \in scope /\ query \in QueriesOf(case) BY RecordType
<1>3. StrictlyAscending(traces') /\ StrictlyAscending(traceFile'.ids) BY <1>1 DEF RowsInv
<1>4. ToSet(traces') = UpTo(query') BY <1>1 DEF RowsInv, InCase
<1>5. ~emit => HeldTo(held', case, case)
  <2> SUFFICES ASSUME ~emit, NEW d \in scope, case < d
               PROVE  ~(QueriesOf(d) \subseteq held') /\ ~(d <= case)
    BY DEF HeldTo
  <2>1. d \in Int /\ d \in Cases /\ case \in Int /\ case \in Cases
    BY <1>2, SelectedCases DEF TypeInv
  <2>2. ~(QueriesOf(d) \subseteq held) BY <1>1, <2>1 DEF RowsInv, HeldTo
  <2>3. query \notin QueriesOf(d) BY <1>2, <2>1, CasesDisjoint
  <2> QED BY <1>1, <2>1, <2>2, <2>3
<1>6. case <= case BY SelectedCases DEF TypeInv
<1> QED BY <1>1, <1>2, <1>3, <1>4, <1>5, <1>6, RowsIntro

LEMMA FinishRows ==
    ASSUME TypeInv, RowsInv, FinishLoop
    PROVE  RowsInv' /\ ToSet(traces) = Selected
<1>1. /\ pc = "case" /\ pc' = "save" /\ \A c \in scope : c <= case
      /\ UNCHANGED <<traceFile, scope, traces, emit, case>>
  BY DEF FinishLoop, options
<1>2. UpTo(LastQuery[case]) = Selected BY <1>1, LastCaseUpTo DEF TypeInv
<1>3. ToSet(traces) = Selected
  <2>1. CASE emit BY <1>1, <1>2, <2>1 DEF RowsInv
  <2>2. CASE ~emit
    <3>1. PICK k \in scope : case <= k /\ ToSet(traces) = UpTo(LastQuery[k])
      BY <1>1, <2>2 DEF RowsInv
    <3>2. k = case BY <1>1, <3>1, SelectedCases DEF TypeInv
    <3> QED BY <1>2, <3>1, <3>2
  <2> QED BY <2>1, <2>2
<1>4. StrictlyAscending(traces') /\ StrictlyAscending(traceFile'.ids) BY <1>1 DEF RowsInv
<1> QED BY <1>1, <1>3, <1>4, RowsIntro

LEMMA RowsStep == TypeInv /\ RowsInv /\ [Next]_vars => RowsInv'
<1> SUFFICES ASSUME TypeInv, RowsInv, [Next]_vars PROVE RowsInv' OBVIOUS
<1>1. ASSUME NEW s \in Scopes, StartRun(s) PROVE RowsInv'
  BY <1>1, QuietRows DEF StartRun
<1>2. CASE NothingToPreload
  <2>1. /\ pc' = "load" /\ UNCHANGED <<traceFile, scope, traces, emit>> /\ emit /\ traces = <<>>
    BY <1>2 DEF NothingToPreload, options, TypeInv, PlaceInv
  <2>2. StrictlyAscending(traces') /\ StrictlyAscending(traceFile'.ids) BY <2>1 DEF RowsInv
  <2> QED BY <2>1, <2>2, RowsIntro
<1>3. CASE RefuseResume \/ UnreadableFile \/ AgentRaises \/ RejectTraces \/ Crash
  BY <1>3, QuietRows
  DEF RefuseResume, UnreadableFile, AgentRaises, RejectTraces, Crash, Stop, Stopped
<1>4. CASE Preload
  <2>1. pc' = "load" /\ UNCHANGED <<predFile, scope>> BY <1>4 DEF Preload, options
  <2> QED BY <1>4, <2>1, PreloadRows, RowsIntro
<1>5. CASE LoadCheckpoint BY <1>5, LoadRows
<1>6. ASSUME NEW c \in Cases, SkipCase(c) PROVE RowsInv' BY <1>6, SkipRows
<1>7. ASSUME NEW c \in Cases, BeginCase(c) PROVE RowsInv' BY <1>7, BeginRows
<1>8. CASE ReemitRow \/ TraceAnswer BY <1>8, RowRows
<1>9. CASE RecordAnswer BY <1>9, RecordRows
<1>10. CASE FinishLoop BY <1>10, FinishRows
<1>11. CASE OpenPredictions \/ WritePredictions
  <2>1. /\ pc' \in {"savingPredictions", "validate"} /\ UNCHANGED <<traceFile, scope, traces>>
        /\ Saving
    BY <1>11 DEF OpenPredictions, WritePredictions, options, Saving
  <2>2. /\ StrictlyAscending(traces') /\ StrictlyAscending(traceFile'.ids)
        /\ ToSet(traces') = Selected
    BY <2>1 DEF RowsInv
  <2> QED BY <2>1, <2>2, RowsIntro
<1>12. CASE OpenTraces
  <2>1. /\ pc' = "savingTraces" /\ UNCHANGED <<scope, traces>> /\ traceFile'.ids = <<>> /\ Saving
    BY <1>12, Files DEF OpenTraces, options, Saving
  <2>2. /\ StrictlyAscending(traces') /\ StrictlyAscending(traceFile'.ids)
        /\ ToSet(traces') = Selected
    BY <2>1, NoRows DEF RowsInv
  <2> QED BY <2>1, <2>2, RowsIntro
<1>13. CASE WriteTraces
  <2>1. /\ pc' = "succeeded" /\ traces' = <<>> /\ traceFile'.ids = traces
        /\ UNCHANGED scope
    BY <1>13, Files DEF WriteTraces, Stop, options, TypeInv, TypeOK
  <2>2. StrictlyAscending(traces') /\ StrictlyAscending(traceFile'.ids)
    BY <2>1, NoRows DEF RowsInv
  <2> QED BY <2>1, <2>2, RowsIntro
<1>14. CASE UNCHANGED vars
  <2>1. UNCHANGED <<predFile, traceFile, pc, scope, held, traces, emit, case, query>>
    BY <1>14 DEF vars, options
  <2> QED BY <2>1, RowsIntro DEF RowsInv, InCase, Saving
<1> QED
  BY <1>1, <1>2, <1>3, <1>4, <1>5, <1>6, <1>7, <1>8, <1>9, <1>10, <1>11, <1>12, <1>13, <1>14
  DEF Next

LEMMA InitRows == Init => RowsInv
BY NoRows DEF Init, RowsInv, InCase, Saving, Absent

(* However the runs before left the two files, no query ever gets a second   *)
(* trace row, in memory or on disk, and the rows stay in release order.      *)
THEOREM RowsNeverDoubled == Spec => []NoDuplicateRows
<1>1. TypeInv /\ RowsInv => NoDuplicateRows BY DEF RowsInv, NoDuplicateRows
<1> QED BY InitType, TypeStep, InitRows, RowsStep, <1>1, PTL DEF Spec

-----------------------------------------------------------------------------
(* The predictions in memory: all queries of the cases behind the loop, and  *)
(* of a case that is answered the queries answered so far.                   *)

HeldInv ==
    /\ pc = "case" => \A c \in scope : c <= case => QueriesOf(c) \subseteq held
    /\ InCase => \A c \in scope : c < case => QueriesOf(c) \subseteq held
    /\ pc = "reemit" => QueriesOf(case) \subseteq held
    /\ pc \in {"query", "record"} =>
         \A q \in QueriesOf(case) : (q < query => q \in held) /\ (query < q => q \notin held)
    /\ pc = "query" => (query \in QueriesOf(case) => query \in held)
    /\ Saving => Selected \subseteq held

LEMMA HeldIntro ==
    ASSUME UNCHANGED scope,
           pc' = "case" => \A c \in scope : c <= case' => QueriesOf(c) \subseteq held',
           pc' \in {"reemit", "query", "record"} =>
             \A c \in scope : c < case' => QueriesOf(c) \subseteq held',
           pc' = "reemit" => QueriesOf(case') \subseteq held',
           pc' \in {"query", "record"} =>
             \A q \in QueriesOf(case') : (q < query' => q \in held') /\ (query' < q => q \notin held'),
           pc' = "query" => (query' \in QueriesOf(case') => query' \in held'),
           pc' \in {"save", "savingPredictions", "validate", "savingTraces"} => Selected \subseteq held'
    PROVE  HeldInv'
<1>1. Selected' = Selected BY DEF Selected, QueriesIn, QueriesOf
<1> QED BY <1>1 DEF HeldInv, InCase, Saving, QueriesOf

LEMMA QuietHeld ==
    ASSUME pc' \in Stopped \cup {"preload", "load"} PROVE HeldInv'
BY DEF HeldInv, InCase, Saving, Stopped

LEMMA SkipHeld ==
    ASSUME TypeInv, HeldInv, NEW c \in Cases, SkipCase(c) PROVE HeldInv'
<1>1. /\ pc = "case" /\ NextCase(c) /\ QueriesOf(c) \subseteq held /\ case' = c
      /\ pc' \in {"reemit", "case"} /\ UNCHANGED <<scope, held>>
  BY DEF SkipCase, options
<1>2. \A d \in scope : d < c <=> d <= case BY <1>1, NextCaseUpTo DEF TypeInv
<1>3. \A d \in scope : d < c => QueriesOf(d) \subseteq held BY <1>1, <1>2 DEF HeldInv
<1>4. \A d \in scope : d <= c => QueriesOf(d) \subseteq held
  <2>1. \A d \in scope : d <= c => d < c \/ d = c BY CaseBounds, SelectedCases DEF TypeInv
  <2> QED BY <1>1, <1>3, <2>1
<1> QED BY <1>1, <1>3, <1>4, HeldIntro

LEMMA BeginHeld ==
    ASSUME TypeInv, HeldInv, NEW c \in Cases, BeginCase(c) PROVE HeldInv'
<1>1. /\ pc = "case" /\ NextCase(c) /\ held' = held \ QueriesOf(c) /\ case' = c
      /\ query' = LastQuery[c - 1] /\ pc' = "query" /\ UNCHANGED scope
  BY DEF BeginCase, options
<1>2. \A d \in scope : d < c <=> d <= case BY <1>1, NextCaseUpTo DEF TypeInv
<1>3. ASSUME NEW d \in scope, d < c PROVE QueriesOf(d) \subseteq held'
  <2>1. QueriesOf(d) \subseteq held BY <1>1, <1>2, <1>3 DEF HeldInv
  <2>2. d \in Cases /\ d # c BY <1>3, CaseBounds, SelectedCases DEF TypeInv
  <2>3. \A q \in QueriesOf(d) : q \notin QueriesOf(c) BY <2>2, CasesDisjoint
  <2> QED BY <1>1, <2>1, <2>3
<1>4. \A q \in QueriesOf(c) : ~(q < query') /\ q # query'
  <2> SUFFICES ASSUME NEW q \in QueriesOf(c) PROVE ~(q < query') /\ q # query' OBVIOUS
  <2>1. q \in Int /\ LastQuery[c - 1] < q /\ LastQuery[c - 1] \in Int BY QueryOfCase, CaseBounds
  <2> QED BY <1>1, <2>1
<1>5. \A q \in QueriesOf(c) : q \notin held' BY <1>1
<1> QED BY <1>1, <1>3, <1>4, <1>5, HeldIntro

LEMMA RowHeld ==
    ASSUME TypeInv, HeldInv, ReemitRow \/ TraceAnswer PROVE HeldInv'
<1>1. /\ UNCHANGED <<scope, held, case>> /\ query' = query + 1
      /\ pc \in {"reemit", "query"} /\ InCase
      /\ pc = "reemit" => pc' \in {"case", "reemit"}
      /\ pc = "query" => pc' = "record"
  BY DEF ReemitRow, TraceAnswer, options, InCase
<1>2. /\ case \in scope /\ case \in Cases /\ query \in Int
  BY <1>1, NextQuery
<1>3. \A c \in scope : c < case => QueriesOf(c) \subseteq held BY <1>1 DEF HeldInv
<1>4. CASE pc = "reemit"
  <2>1. QueriesOf(case) \subseteq held BY <1>4 DEF HeldInv
  <2>2. \A c \in scope : c <= case => c < case \/ c = case BY SelectedCases DEF TypeInv
  <2> QED BY <1>1, <1>3, <1>4, <2>1, <2>2, HeldIntro
<1>5. CASE pc = "query"
  <2>1. ASSUME NEW q \in QueriesOf(case)
        PROVE  (q < query' => q \in held') /\ (query' < q => q \notin held')
    <3>1. q \in Int BY <1>2, QueryOfCase
    <3>2. q < query' => q < query \/ q = query BY <1>1, <1>2, <3>1
    <3>3. query' < q => query < q BY <1>1, <1>2, <3>1
    <3> QED BY <1>1, <1>5, <3>2, <3>3 DEF HeldInv
  <2>2. pc' = "record" BY <1>1, <1>5
  <2> QED BY <1>1, <1>3, <2>1, <2>2, HeldIntro
<1> QED BY <1>1, <1>4, <1>5

LEMMA RecordHeld ==
    ASSUME TypeInv, HeldInv, RecordAnswer PROVE HeldInv'
<1>1. /\ pc = "record" /\ held' = held \cup {query} /\ InCase
      /\ pc' = (IF query' = LastQuery[case] THEN "case" ELSE "query")
      /\ UNCHANGED <<scope, case, query>>
  BY DEF RecordAnswer, options, AtLastQuery, InCase
<1>2. case \in scope /\ case \in Cases /\ query \in QueriesOf(case) /\ query \in Int
  BY RecordType, SelectedCases DEF TypeInv, TypeOK
<1>3. \A c \in scope : c < case => QueriesOf(c) \subseteq held' BY <1>1 DEF HeldInv
<1>4. \A q \in QueriesOf(case) : (q < query => q \in held') /\ (query < q => q \notin held')
  <2> SUFFICES ASSUME NEW q \in QueriesOf(case)
               PROVE  (q < query => q \in held') /\ (query < q => q \notin held')
    OBVIOUS
  <2>1. query < q => q # query BY <1>2
  <2> QED BY <1>1, <2>1 DEF HeldInv
<1>5. ASSUME query = LastQuery[case], NEW c \in scope, c <= case PROVE QueriesOf(c) \subseteq held'
  <2>1. c < case \/ c = case BY <1>5, SelectedCases DEF TypeInv
  <2>2. ASSUME NEW q \in QueriesOf(case) PROVE q \in held'
    <3>1. q \in Int /\ q <= query BY <1>2, <1>5, QueryOfCase
    <3>2. q < query \/ q = query BY <1>2, <3>1
    <3> QED BY <1>1, <1>4, <3>2
  <2> QED BY <1>3, <2>1, <2>2
<1> QED BY <1>1, <1>2, <1>3, <1>4, <1>5, HeldIntro

LEMMA HeldStep == TypeInv /\ HeldInv /\ [Next]_vars => HeldInv'
<1> SUFFICES ASSUME TypeInv, HeldInv, [Next]_vars PROVE HeldInv' OBVIOUS
<1>1. CASE \/ \E s \in Scopes : StartRun(s)
           \/ NothingToPreload \/ RefuseResume \/ UnreadableFile \/ Preload
           \/ AgentRaises \/ RejectTraces \/ WriteTraces \/ Crash
  BY <1>1, QuietHeld
  DEF StartRun, NothingToPreload, RefuseResume, UnreadableFile, Preload, AgentRaises,
      RejectTraces, WriteTraces, Crash, Stop, Stopped
<1>2. CASE LoadCheckpoint
  <2>1. pc' = "case" /\ case' = 0 /\ UNCHANGED scope
    BY <1>2 DEF LoadCheckpoint, options, TypeInv, PlaceInv
  <2>2. \A c \in scope : ~(c <= 0) BY SelectedCases DEF TypeInv
  <2> QED BY <2>1, <2>2, HeldIntro
<1>3. ASSUME NEW c \in Cases, SkipCase(c) PROVE HeldInv' BY <1>3, SkipHeld
<1>4. ASSUME NEW c \in Cases, BeginCase(c) PROVE HeldInv' BY <1>4, BeginHeld
<1>5. CASE ReemitRow \/ TraceAnswer BY <1>5, RowHeld
<1>6. CASE RecordAnswer BY <1>6, RecordHeld
<1>7. CASE FinishLoop
  <2>1. /\ pc = "case" /\ pc' = "save" /\ \A c \in scope : c <= case /\ UNCHANGED <<scope, held>>
    BY <1>7 DEF FinishLoop, options
  <2>2. UNCHANGED <<scope, held>> BY <1>7 DEF FinishLoop, options
  <2>3. Selected \subseteq held' BY <2>1, <2>2 DEF HeldInv, Selected, QueriesIn
  <2> QED BY <2>1, <2>2, <2>3, HeldIntro
<1>8. CASE OpenPredictions \/ WritePredictions \/ OpenTraces
  <2>1. /\ Saving /\ UNCHANGED <<scope, held>>
        /\ pc' \in {"savingPredictions", "validate", "savingTraces"}
    BY <1>8 DEF OpenPredictions, WritePredictions, OpenTraces, options, Saving
  <2> QED BY <2>1, HeldIntro DEF HeldInv
<1>9. CASE UNCHANGED vars
  <2>1. UNCHANGED <<pc, scope, held, case, query>> BY <1>9 DEF vars, options
  <2> QED BY <2>1, HeldIntro DEF HeldInv, InCase, Saving
<1> QED BY <1>1, <1>2, <1>3, <1>4, <1>5, <1>6, <1>7, <1>8, <1>9 DEF Next

LEMMA InitHeld == Init => HeldInv
BY DEF Init, HeldInv, InCase, Saving

(* The rows of a run that gets to its end are the selected queries in order. *)
LEMMA SavedRows ==
    ASSUME TypeInv, RowsInv, Saving
    PROVE  traces = QueryOrder /\ ToSet(QueryOrder) = Selected
<1>1. traces \in Seq(Queries) /\ Queries \subseteq Int BY DEF TypeInv, TypeOK, Queries
<1>2. traces \in Seq(Int) BY <1>1, SeqMonotonic
<1>3. StrictlyAscending(traces) /\ ToSet(traces) = Selected BY DEF RowsInv
<1>4. Numbers(Selected) /\ ToSet(QueryOrder) = Selected BY ScopeCases, OrderListed DEF TypeInv
<1> QED BY <1>2, <1>3, <1>4, InOrderIs DEF QueryOrder, Selected

(* A run that gets to its end has exactly one trace row, in release order,   *)
(* for every query of the selection, and a prediction for each: preloaded,   *)
(* re-emitted and new rows add up, however the runs before were cut off.     *)
THEOREM RowsAddUp == Spec => []RowsMatchResult
<1>1. TypeInv /\ RowsInv /\ HeldInv => RowsMatchResult
  <2> SUFFICES ASSUME TypeInv, RowsInv, HeldInv, Saving
               PROVE  traces = QueryOrder /\ ToSet(QueryOrder) \subseteq held
    BY DEF RowsMatchResult, Saving
  <2> QED BY SavedRows DEF HeldInv
<1> QED BY InitType, TypeStep, InitRows, RowsStep, InitHeld, HeldStep, <1>1, PTL DEF Spec

-----------------------------------------------------------------------------
(* The two files.  With every row flushed, the trace file is what the run    *)
(* has, and both agree with the predictions file on its complete cases.      *)

InRun == pc \in {"load", "case"} \/ InCase \/ Saving

FilesInv ==
    /\ predFile.state # "whole" => predFile.ids = <<>>
    /\ flushEvery = 1 =>
         /\ traceFile.state # "torn" => Agree(predFile.ids, traceFile.ids)
         /\ InRun => Agree(predFile.ids, traces)
         /\ InRun /\ pc # "savingTraces" => traces = <<>> \/ traceFile.ids = traces

LEMMA FilesIntro ==
    ASSUME UNCHANGED flushEvery, predFile'.state # "whole" => predFile'.ids = <<>>,
           flushEvery = 1 =>
             /\ traceFile'.state # "torn" => Agree(predFile'.ids, traceFile'.ids)
             /\ InRun' => Agree(predFile'.ids, traces')
             /\ InRun' /\ pc' # "savingTraces" => traces' = <<>> \/ traceFile'.ids = traces'
    PROVE  FilesInv'
BY DEF FilesInv, Agree, QueriesOf, ToSet

LEMMA QuietFiles ==
    ASSUME FilesInv, pc' \in Stopped \cup {"preload"}, UNCHANGED <<predFile, traceFile, flushEvery>>
    PROVE  FilesInv'
<1>1. ~InRun' BY DEF InRun, InCase, Saving, Stopped
<1> QED BY <1>1, FilesIntro DEF FilesInv

LEMMA SameFiles ==
    ASSUME FilesInv, UNCHANGED <<predFile, traceFile, flushEvery, traces>>,
           InRun, pc # "savingTraces"
    PROVE  FilesInv'
BY FilesIntro DEF FilesInv

LEMMA FileIds ==
    ASSUME TypeInv
    PROVE  /\ predFile.ids \in Seq(Queries) /\ traceFile.ids \in Seq(Queries)
           /\ traces \in Seq(Queries) /\ traces \in Seq(Int) /\ scope \subseteq Cases
<1>1. Queries \subseteq Int BY DEF Queries
<1>2. traces \in Seq(Queries) BY DEF TypeInv, TypeOK
<1> QED BY <1>1, <1>2, SeqMonotonic, ScopeCases DEF TypeInv, TypeOK, File

(* The checkpoint of an answer holds the queries that have a row.            *)
LEMMA Recorded ==
    ASSUME TypeInv, RowsInv, HeldInv, RecordAnswer
    PROVE  predFile'.ids = traces
<1> DEFINE S == held' \cap QueriesIn({c \in scope : c <= case})
<1>1. /\ pc = "record" /\ held' = held \cup {query} /\ InCase
      /\ predFile'.ids = InOrder(S) /\ held' \subseteq Queries
      /\ case \in scope /\ case \in Cases /\ query \in QueriesOf(case) /\ query \in Queries
  <2>1. pc = "record" /\ held' = held \cup {query} BY DEF RecordAnswer
  <2> QED BY <2>1, RecordType, ScopeCases DEF InCase, TypeInv
<1>2. \A c \in scope : /\ c \in Cases /\ c \in Int /\ case \in Int /\ QueriesOf(c) \subseteq Selected
                       /\ LastQuery[c] \in Int
  BY SelectedCases DEF TypeInv
<1>3. LastQuery[case - 1] < query /\ query <= LastQuery[case] /\ query \in Int
      /\ LastQuery[case - 1] \in Int /\ LastQuery[case] \in Int
  BY <1>1, QueryOfCase, CaseBounds
<1>4. ASSUME NEW c \in scope, NEW q \in QueriesOf(c)
      PROVE  c <= case /\ q \in held' <=> q <= query
  <2>1. q \in Int /\ q <= LastQuery[c] /\ LastQuery[c - 1] < q /\ LastQuery[c - 1] \in Int
    BY <1>2, QueryOfCase, CaseBounds
  <2>2. CASE c < case
    <3>1. q \in held' BY <1>1, <2>2 DEF HeldInv
    <3>2. LastQuery[c] <= LastQuery[case - 1] BY <1>1, <1>2, <2>2, SelectedCases, EndsOrdered DEF TypeInv
    <3>3. q <= query BY <1>2, <1>3, <2>1, <3>2
    <3> QED BY <1>2, <2>2, <3>1, <3>3
  <2>3. CASE c = case
    <3>1. q < query => q \in held' BY <1>1, <2>3 DEF HeldInv
    <3>2. query < q => q \notin held BY <1>1, <2>3 DEF HeldInv
    <3>3. q = query => q \in held' BY <1>1
    <3>4. q \in held' => q = query \/ q \in held BY <1>1
    <3> QED BY <1>2, <1>3, <2>1, <2>3, <3>1, <3>2, <3>3, <3>4
  <2>4. CASE case < c
    <3>1. LastQuery[case] <= LastQuery[c - 1]
      BY <1>1, <1>2, <2>4, SelectedCases, EndsOrdered DEF TypeInv
    <3> QED BY <1>2, <1>3, <2>1, <2>4, <3>1
  <2> QED BY <1>2, <2>2, <2>3, <2>4
<1>5. S = UpTo(query)
  <2>1. ASSUME NEW q \in S PROVE q \in UpTo(query)
    <3>1. PICK c \in scope : c <= case /\ q \in QueriesOf(c) BY <2>1 DEF QueriesIn
    <3> QED BY <1>2, <1>4, <2>1, <3>1 DEF UpTo, Below
  <2>2. ASSUME NEW q \in UpTo(query) PROVE q \in S
    <3>1. PICK c \in scope : q \in QueriesOf(c) BY <2>2 DEF UpTo, Below, Selected, QueriesIn
    <3>2. q <= query BY <2>2 DEF UpTo, Below
    <3>3. c <= case /\ q \in held' BY <1>4, <3>1, <3>2
    <3> QED BY <3>1, <3>3 DEF QueriesIn
  <2> QED BY <2>1, <2>2
<1>6. ToSet(traces) = S /\ StrictlyAscending(traces) /\ traces \in Seq(Int)
  BY <1>1, <1>5, FileIds DEF RowsInv
<1>7. S \in SUBSET Queries BY <1>1
<1>8. Numbers(S) BY <1>7, SeenQueries DEF TypeInv
<1> HIDE DEF S
<1> QED BY <1>1, <1>6, <1>8, InOrderIs

LEMMA FilesStep ==
    TypeInv /\ RowsInv /\ HeldInv /\ FilesInv /\ [Next]_vars => FilesInv'
<1> SUFFICES ASSUME TypeInv, RowsInv, HeldInv, FilesInv, [Next]_vars PROVE FilesInv' OBVIOUS
<1>1. CASE \/ \E s \in Scopes : StartRun(s)
           \/ RefuseResume \/ UnreadableFile \/ AgentRaises \/ RejectTraces \/ Crash
  BY <1>1, QuietFiles
  DEF StartRun, RefuseResume, UnreadableFile, AgentRaises, RejectTraces, Crash, Stop, Stopped,
      options
<1>2. CASE NothingToPreload
  <2>1. /\ traces' = <<>> /\ UNCHANGED <<predFile, traceFile, flushEvery>> /\ predFile.ids = <<>>
    BY <1>2 DEF NothingToPreload, options, TypeInv, PlaceInv, FilesInv
  <2>2. Agree(<<>>, <<>>) BY AgreeSelf, EmptySeq
  <2> QED BY <2>1, <2>2, FilesIntro DEF FilesInv
<1>3. CASE Preload
  <2>1. /\ Starts(predFile.ids) /\ traceFile.ids \in Seq(Queries) /\ traceFile.state = "whole"
        /\ traces' \in Seq(Queries) /\ Len(traces') = SafeCount(predFile.ids, traceFile.ids)
        /\ \A i \in 1..Len(traces') : traces'[i] = traceFile.ids[i]
        /\ traceFile'.ids = traces' /\ UNCHANGED <<predFile, flushEvery>> /\ scope \subseteq Cases
    BY <1>3, Preloaded, FileIds
  <2>2. flushEvery = 1 => Agree(predFile.ids, traces') BY <2>1, AgreePreload DEF FilesInv
  <2> QED BY <2>1, <2>2, FilesIntro DEF FilesInv
<1>4. CASE LoadCheckpoint \/ FinishLoop \/ \E c \in Cases : SkipCase(c) \/ BeginCase(c)
  <2>1. /\ UNCHANGED <<predFile, traceFile, flushEvery, traces>> /\ pc \in {"load", "case"}
    BY <1>4 DEF LoadCheckpoint, FinishLoop, SkipCase, BeginCase, options
  <2> QED BY <2>1, SameFiles DEF InRun
<1>5. CASE ReemitRow \/ TraceAnswer
  <2>1. /\ pc \in {"reemit", "query"} /\ UNCHANGED <<predFile, flushEvery>>
    BY <1>5 DEF ReemitRow, TraceAnswer, options
  <2>2. /\ traces' \in Seq(Queries) /\ Len(traces') = Len(traces) + 1
        /\ \A i \in 1..Len(traces) : traces'[i] = traces[i]
        /\ flushEvery = 1 => traceFile'.ids = traces'
    BY <1>5, RowAdded
  <2>3. Len(traces) <= Len(traces') BY <2>2, FileIds, LenProperties
  <2>4. flushEvery = 1 => Agree(predFile.ids, traces)
    BY <2>1 DEF FilesInv, InRun, InCase
  <2>5. flushEvery = 1 => Agree(predFile.ids, traces') BY <2>2, <2>3, <2>4, FileIds, AgreeMore
  <2> QED BY <2>1, <2>2, <2>5, FilesIntro DEF FilesInv
<1>6. CASE RecordAnswer
  <2>1. /\ predFile'.ids = traces /\ predFile'.state = "whole"
        /\ UNCHANGED <<traceFile, flushEvery, traces>> /\ pc = "record"
    BY <1>6, Recorded DEF RecordAnswer, Holding, options
  <2>2. flushEvery = 1 => traces = <<>> \/ traceFile.ids = traces
    BY <2>1 DEF FilesInv, InRun, InCase
  <2>3. Agree(traces, traces) /\ Agree(<<>>, traceFile.ids) BY FileIds, AgreeSelf
  <2> QED BY <2>1, <2>2, <2>3, FilesIntro
<1>7. CASE OpenPredictions
  <2>1. /\ predFile'.ids = <<>> /\ UNCHANGED <<traceFile, flushEvery, traces>> /\ pc = "save"
    BY <1>7, Files DEF OpenPredictions, options
  <2>2. Agree(<<>>, traces) /\ Agree(<<>>, traceFile.ids) BY FileIds, AgreeSelf
  <2>3. flushEvery = 1 => traces = <<>> \/ traceFile.ids = traces
    BY <2>1 DEF FilesInv, InRun, Saving
  <2> QED BY <2>1, <2>2, <2>3, FilesIntro
<1>8. CASE WritePredictions
  <2>1. /\ pc = "savingPredictions" /\ Saving /\ UNCHANGED <<traceFile, flushEvery, traces>>
        /\ predFile' = Holding(InOrder(held \cap QueriesIn(scope)))
    BY <1>8 DEF WritePredictions, Saving, options
  <2>2. held \cap QueriesIn(scope) = Selected BY <2>1 DEF HeldInv, Selected
  <2>3. predFile'.ids = traces /\ predFile'.state = "whole"
    BY <2>1, <2>2, SavedRows DEF QueryOrder, Selected, Holding
  <2>4. flushEvery = 1 => traces = <<>> \/ traceFile.ids = traces
    BY <2>1 DEF FilesInv, InRun
  <2>5. Agree(traces, traces) /\ Agree(<<>>, traceFile.ids) BY FileIds, AgreeSelf
  <2> QED BY <2>1, <2>3, <2>4, <2>5, FilesIntro
<1>9. CASE OpenTraces
  <2>1. /\ pc = "validate" /\ pc' = "savingTraces" /\ traceFile' = Torn
        /\ UNCHANGED <<predFile, flushEvery, traces>> /\ InRun
    BY <1>9 DEF OpenTraces, options, InRun, Saving
  <2>2. traceFile'.state = "torn" BY <2>1 DEF Torn
  <2> QED BY <2>1, <2>2, FilesIntro DEF FilesInv
<1>10. CASE WriteTraces
  <2>1. /\ pc = "savingTraces" /\ pc' = "succeeded" /\ traceFile' = Holding(traces)
        /\ UNCHANGED <<predFile, flushEvery>> /\ InRun
    BY <1>10 DEF WriteTraces, Stop, options, InRun, Saving
  <2>2. ~InRun' BY <2>1 DEF InRun, InCase, Saving
  <2>3. traceFile'.ids = traces BY <2>1 DEF Holding
  <2> QED BY <2>1, <2>2, <2>3, FilesIntro DEF FilesInv
<1>11. CASE UNCHANGED vars
  <2>1. UNCHANGED <<predFile, traceFile, flushEvery, traces, pc>> BY <1>11 DEF vars, options
  <2>2. InRun' = InRun BY <2>1 DEF InRun, InCase, Saving
  <2> QED BY <2>1, <2>2, FilesIntro DEF FilesInv
<1> QED BY <1>1, <1>2, <1>3, <1>4, <1>5, <1>6, <1>7, <1>8, <1>9, <1>10, <1>11 DEF Next

LEMMA InitFiles == Init => FilesInv
<1> SUFFICES ASSUME Init PROVE FilesInv OBVIOUS
<1>1. predFile.ids = <<>> /\ traceFile.ids = <<>> /\ pc = "idle"
  BY Files DEF Init
<1>2. ~InRun BY <1>1 DEF InRun, InCase, Saving
<1>3. Agree(<<>>, <<>>) BY AgreeSelf, EmptySeq
<1> QED BY <1>1, <1>2, <1>3 DEF FilesInv

(* With every row flushed, the trace file holds the rows of every case that  *)
(* is complete in the predictions file, whatever was interrupted between the *)
(* two writes: no later run rebuilds a row from the predictions.             *)
THEOREM CompleteCasesHaveRows == Spec => []CompleteCasesTraced
<1>1. TypeInv /\ FilesInv => CompleteCasesTraced
  <2> SUFFICES ASSUME TypeInv, FilesInv, flushEvery = 1, traceFile.state # "torn",
                      NEW c \in Cases, QueriesOf(c) \subseteq ToSet(predFile.ids)
               PROVE  QueriesOf(c) \subseteq ToSet(traceFile.ids)
    BY DEF CompleteCasesTraced
  <2> QED BY FileIds, AgreeTraced DEF FilesInv
<1> QED
  BY InitType, TypeStep, InitRows, RowsStep, InitHeld, HeldStep, InitFiles, FilesStep, <1>1, PTL
  DEF Spec
=============================================================================
