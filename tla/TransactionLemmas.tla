------------------------- MODULE TransactionLemmas --------------------------
(***************************************************************************)
(* Facts about Transactions that hold whichever certifier answers the      *)
(* requests: types, the history of commits (HistoryInv) and the refinement *)
(* of SerialStore.  The proofs about a certifier show that its steps meet  *)
(* the conditions of AbortHistory and CommitHistory.                       *)
(***************************************************************************)
EXTENDS Transactions, SequenceTheorems, FiniteSetTheorems, WellFoundedInduction, TLAPS

\* A nonempty set of naturals has a least element.
LEMMA NatMin ==
    ASSUME NEW T, T \subseteq Nat, T # {}
    PROVE  \E x \in T : \A y \in T : x <= y
<1> DEFINE R == OpToRel(<, Nat)
<1>1. IsWellFoundedOn(R, Nat)
  BY NatLessThanWellFounded
<1>2. \A x, y \in Nat : y < x => <<y, x>> \in R
  BY DEF OpToRel
<1> HIDE DEF R
<1>3. PICK x \in T : \A y \in T : ~ (<<y, x>> \in R)
  BY <1>1, WFMin, Zenon
<1>4. \A y \in T : ~ (y < x)
  BY <1>2, <1>3
<1> QED
  BY <1>4

\* Max picks the greatest element of a nonempty bounded set of naturals.
LEMMA BoundedMax ==
    ASSUME NEW T, T \subseteq Nat, T # {}, NEW n \in Nat, \A x \in T : x <= n
    PROVE  Max(T) \in T /\ \A y \in T : y <= Max(T)
<1> DEFINE B == {b \in Nat : \A x \in T : x <= b}
<1>1. B \subseteq Nat /\ B # {}
  OBVIOUS
<1>2. PICK m \in B : \A b \in B : m <= b
  BY <1>1, NatMin
<1>3. m \in T
  <2>1. SUFFICES ASSUME m \notin T PROVE FALSE
    OBVIOUS
  <2>2. PICK x \in T : TRUE
    OBVIOUS
  <2>3. x < m
    BY <2>1
  <2>4. m - 1 \in B
    BY <2>1, <2>3
  <2> QED
    BY <2>4, <1>2
<1>4. \E x \in T : \A y \in T : x >= y
  BY <1>2, <1>3
<1> QED
  BY <1>4 DEF Max

\* Induction on a set of naturals.
LEMMA SetInduction ==
    ASSUME NEW P, P \subseteq Nat, 0 \in P, \A n \in P : n + 1 \in P
    PROVE  P = Nat
<1> SUFFICES ASSUME Nat \ P # {} PROVE FALSE
  OBVIOUS
<1>1. PICK m \in Nat \ P : \A y \in Nat \ P : m <= y
  BY NatMin
<1>2. m - 1 \in Nat /\ m - 1 \notin Nat \ P
  BY <1>1
<1> QED
  BY <1>1, <1>2

-----------------------------------------------------------------------------
(***************************************************************************)
(* Sums.  SumFunctionOnSet is a recursive function on the subsets of its   *)
(* set, which takes out an element after the other.  Table(w, D, g): g     *)
(* satisfies the recursive equation on the sets in D.                      *)
(***************************************************************************)
Pick(s) == CHOOSE x \in s : TRUE

Table(w, D, g) == g = [s \in D |-> IF s = {} THEN 0 ELSE w[Pick(s)] + g[s \ {Pick(s)}]]

LEMMA SumIsTable ==
    ASSUME NEW w, NEW S
    PROVE  SumFunctionOnSet(w, S) = (CHOOSE g : Table(w, SUBSET S, g))[S]
BY DEF SumFunctionOnSet, FoldFunctionOnSet, MapThenFoldSet, Table, Pick

LEMMA Picked ==
    ASSUME NEW s, s # {}
    PROVE  Pick(s) \in s
BY DEF Pick

LEMMA TableEntry ==
    ASSUME NEW w, NEW D, NEW g, Table(w, D, g), NEW s \in D
    PROVE  g[s] = IF s = {} THEN 0 ELSE w[Pick(s)] + g[s \ {Pick(s)}]
BY DEF Table

LEMMA SmallSets ==
    ASSUME NEW s, IsFiniteSet(s), NEW n \in Nat, Cardinality(s) <= n + 1, NEW x \in s
    PROVE  IsFiniteSet(s \ {x}) /\ Cardinality(s \ {x}) \in Nat /\ Cardinality(s \ {x}) <= n
BY FS_RemoveElement, FS_CardinalityType

\* The recursive equation has a solution.
LEMMA TableExists ==
    ASSUME NEW w, NEW S, IsFiniteSet(S)
    PROVE  \E g : Table(w, SUBSET S, g)
<1> DEFINE D(n) == {s \in SUBSET S : Cardinality(s) <= n}
           P == {n \in Nat : \E g : Table(w, D(n), g)}
<1>0. \A s \in SUBSET S : IsFiniteSet(s) /\ Cardinality(s) \in Nat
  BY FS_Subset, FS_CardinalityType
<1>1. 0 \in P
  <2>1. \A s \in D(0) : s = {}
    BY <1>0, FS_EmptySet
  <2> DEFINE g == [s \in D(0) |-> 0]
  <2>2. Table(w, D(0), g)
    BY <2>1 DEF Table
  <2> QED
    BY <2>2
<1>2. ASSUME NEW n \in P PROVE n + 1 \in P
  <2>1. PICK g : Table(w, D(n), g)
    BY <1>2
  <2>n. n \in Nat
    BY <1>2
  <2> DEFINE h == [s \in D(n + 1) |-> IF s = {} THEN 0 ELSE w[Pick(s)] + g[s \ {Pick(s)}]]
  <2>2. \A s \in D(n) : s \in D(n + 1)
    BY <2>n, <1>0
  <2>3. ASSUME NEW s \in D(n) PROVE h[s] = g[s]
    <3>1. g[s] = IF s = {} THEN 0 ELSE w[Pick(s)] + g[s \ {Pick(s)}]
      <4> HIDE DEF D
      <4> QED
        BY <2>1 DEF Table
    <3> QED
      BY <2>2, <3>1
  <2>4. ASSUME NEW s \in D(n + 1), s # {} PROVE s \ {Pick(s)} \in D(n)
    BY <1>0, <2>4, <2>n, Picked, SmallSets
  <2>5. \A s \in D(n + 1) : h[s] = IF s = {} THEN 0 ELSE w[Pick(s)] + h[s \ {Pick(s)}]
    BY <2>3, <2>4
  <2>6. Table(w, D(n + 1), h)
    <3>1. h = [s \in D(n + 1) |-> h[s]]
      OBVIOUS
    <3> HIDE DEF h, D
    <3> QED
      BY <2>5, <3>1 DEF Table
  <2> QED
    BY <2>n, <2>6
<1>3. P = Nat
  <2> HIDE DEF P
  <2>1. P \subseteq Nat
    BY DEF P
  <2> QED
    BY <1>1, <1>2, <2>1, SetInduction
<1>4. Cardinality(S) \in Nat /\ D(Cardinality(S)) = SUBSET S
  BY FS_Subset, FS_CardinalityType
<1>5. \E g : Table(w, D(Cardinality(S)), g)
  BY <1>3, <1>4
<1> QED
  BY <1>4, <1>5

\* Every solution of the equation gives the sums of the subsets of its domain.
LEMMA SumTable ==
    ASSUME NEW S, IsFiniteSet(S), NEW T, T \subseteq S, NEW v, NEW w, \A x \in T : v[x] = w[x],
           NEW g, Table(v, SUBSET S, g)
    PROVE  SumFunctionOnSet(w, T) = g[T]
<1>p. PICK h : Table(w, SUBSET T, h) /\ SumFunctionOnSet(w, T) = h[T]
  <2>1. IsFiniteSet(T)
    BY FS_Subset
  <2>2. \E h : Table(w, SUBSET T, h)
    BY <2>1, TableExists
  <2>3. Table(w, SUBSET T, CHOOSE h : Table(w, SUBSET T, h))
    BY <2>2, Zenon
  <2> QED
    BY <2>3, SumIsTable, Zenon
<1> DEFINE P == {n \in Nat : \A s \in SUBSET T : Cardinality(s) <= n => g[s] = h[s]}
<1>0. \A s \in SUBSET T : IsFiniteSet(s) /\ Cardinality(s) \in Nat
  BY FS_Subset, FS_CardinalityType
<1>g. \A s \in SUBSET S : g[s] = IF s = {} THEN 0 ELSE v[Pick(s)] + g[s \ {Pick(s)}]
  BY DEF Table
<1>h. \A s \in SUBSET T : h[s] = IF s = {} THEN 0 ELSE w[Pick(s)] + h[s \ {Pick(s)}]
  BY <1>p DEF Table
<1>e. g[{}] = 0 /\ h[{}] = 0
  BY <1>g, <1>h
<1>1. 0 \in P
  <2>1. \A s \in SUBSET T : Cardinality(s) <= 0 => s = {}
    BY <1>0, FS_EmptySet
  <2> QED
    BY <1>e, <2>1
<1>2. ASSUME NEW n \in P PROVE n + 1 \in P
  <2>n. n \in Nat
    BY <1>2
  <2>1. ASSUME NEW s \in SUBSET T, Cardinality(s) <= n + 1, s # {} PROVE g[s] = h[s]
    <3>1. Pick(s) \in s /\ s \ {Pick(s)} \in SUBSET T
      BY <2>1, Picked
    <3>2. g[s \ {Pick(s)}] = h[s \ {Pick(s)}]
      <4>1. Cardinality(s \ {Pick(s)}) <= n
        BY <1>0, <2>n, <2>1, <3>1, SmallSets
      <4> QED
        BY <1>2, <3>1, <4>1
    <3>3. g[s] = v[Pick(s)] + g[s \ {Pick(s)}] /\ h[s] = w[Pick(s)] + h[s \ {Pick(s)}]
      BY <2>1, <1>g, <1>h
    <3> QED
      BY <3>1, <3>2, <3>3
  <2> QED
    BY <1>e, <2>n, <2>1
<1>3. P = Nat
  <2> HIDE DEF P
  <2>1. P \subseteq Nat
    BY DEF P
  <2> QED
    BY <1>1, <1>2, <2>1, SetInduction
<1>4. Cardinality(T) \in P
  BY <1>0, <1>3
<1> QED
  BY <1>0, <1>4, <1>p

-----------------------------------------------------------------------------
\* What is used of sums.
LEMMA SumEmpty == \A w : SumFunctionOnSet(w, {}) = 0
<1> SUFFICES ASSUME NEW w PROVE SumFunctionOnSet(w, {}) = 0
  OBVIOUS
<1>1. PICK g : Table(w, SUBSET {}, g)
  BY TableExists, FS_EmptySet
<1>2. SumFunctionOnSet(w, {}) = g[{}]
  BY <1>1, SumTable, FS_EmptySet
<1> QED
  BY <1>1, <1>2, TableEntry

LEMMA SumSame ==
    ASSUME NEW S, IsFiniteSet(S), NEW v, NEW w, \A x \in S : v[x] = w[x]
    PROVE  SumFunctionOnSet(v, S) = SumFunctionOnSet(w, S)
<1>1. PICK g : Table(v, SUBSET S, g)
  BY TableExists
<1> QED
  BY <1>1, SumTable

\* A sum of naturals is one, and any element may be taken out of it.
LEMMA SumRemove ==
    ASSUME NEW S, IsFiniteSet(S), NEW w, \A x \in S : w[x] \in Nat
    PROVE  /\ SumFunctionOnSet(w, S) \in Nat
           /\ \A x \in S : SumFunctionOnSet(w, S) = w[x] + SumFunctionOnSet(w, S \ {x})
<1> DEFINE Right(g, s) == g[s] \in Nat /\ \A x \in s : g[s] = w[x] + g[s \ {x}]
<1>1. PICK g : Table(w, SUBSET S, g)
  BY TableExists
<1> DEFINE P == {n \in Nat : \A s \in SUBSET S : Cardinality(s) <= n => Right(g, s)}
<1>0. \A s \in SUBSET S : IsFiniteSet(s) /\ Cardinality(s) \in Nat
  BY FS_Subset, FS_CardinalityType
<1>g. \A s \in SUBSET S : g[s] = IF s = {} THEN 0 ELSE w[Pick(s)] + g[s \ {Pick(s)}]
  BY <1>1 DEF Table
<1>e. Right(g, {})
  <2>1. {} \in SUBSET S
    OBVIOUS
  <2>2. g[{}] = 0
    BY <1>g, <2>1
  <2> QED
    BY <2>2
<1>2. 0 \in P
  <2>1. \A s \in SUBSET S : Cardinality(s) <= 0 => s = {}
    BY <1>0, FS_EmptySet
  <2> QED
    BY <1>e, <2>1
<1>3. ASSUME NEW n \in P PROVE n + 1 \in P
  <2>n. n \in Nat
    BY <1>3
  <2>1. ASSUME NEW s \in SUBSET S, Cardinality(s) <= n + 1, s # {} PROVE Right(g, s)
    <3> DEFINE c == Pick(s)
    <3>1. c \in s
      BY <2>1, Picked
    <3>2. g[s] = w[c] + g[s \ {c}]
      BY <1>g, <2>1
    <3> HIDE DEF c
    <3>3. \A x \in s : Right(g, s \ {x})
      BY <1>0, <1>3, <2>n, <2>1, SmallSets
    <3>4. w[c] \in Nat /\ g[s \ {c}] \in Nat
      BY <3>1, <3>3
    <3>5. ASSUME NEW x \in s, x # c PROVE g[s] = w[x] + g[s \ {x}]
      <4>1. (s \ {c}) \ {x} = (s \ {x}) \ {c}
        OBVIOUS
      <4>2. g[s \ {c}] = w[x] + g[(s \ {c}) \ {x}]
        BY <3>1, <3>3, <3>5
      <4>3. g[s \ {x}] = w[c] + g[(s \ {x}) \ {c}]
        BY <3>1, <3>3, <3>5
      <4>4. g[(s \ {c}) \ {x}] \in Nat
        <5>1. (s \ {c}) \ {x} \in SUBSET S /\ Cardinality((s \ {c}) \ {x}) <= n
          <6>1. IsFiniteSet(s \ {c}) /\ Cardinality(s \ {c}) \in Nat /\ Cardinality(s \ {c}) <= n
            BY <1>0, <2>n, <2>1, <3>1, SmallSets
          <6>2. Cardinality((s \ {c}) \ {x}) <= Cardinality(s \ {c})
            BY <6>1, FS_Subset
          <6> QED
            BY <1>0, <2>n, <2>1, <6>1, <6>2
        <5> QED
          BY <1>3, <5>1
      <4>5. w[x] \in Nat
        BY <3>5
      <4> QED
        <5>1. PICK a, b, e, y, z : /\ a = g[s] /\ b = g[s \ {c}] /\ e = g[s \ {x}]
                                   /\ y = g[(s \ {c}) \ {x}] /\ z = w[c]
          OBVIOUS
        <5>2. a = z + b /\ b = w[x] + y /\ e = z + y
          BY <3>2, <4>1, <4>2, <4>3, <5>1, Zenon
        <5>3. z \in Nat /\ y \in Nat
          BY <3>4, <4>4, <5>1, Zenon
        <5>4. a = w[x] + e
          BY <4>5, <5>2, <5>3
        <5> QED
          BY <5>1, <5>4, Zenon
    <3>6. g[s] \in Nat
      BY <3>2, <3>4
    <3>7. ASSUME NEW x \in s PROVE g[s] = w[x] + g[s \ {x}]
      BY <3>2, <3>5, Zenon
    <3> QED
      BY <3>6, <3>7, Zenon
  <2>2. ASSUME NEW s \in SUBSET S, Cardinality(s) <= n + 1 PROVE Right(g, s)
    <3> HIDE DEF Right
    <3> QED
      BY <1>e, <2>1, <2>2, Zenon
  <2>3. n + 1 \in Nat
    BY <2>n
  <2> HIDE DEF Right
  <2> QED
    BY <2>2, <2>3
<1>4. P = Nat
  <2> HIDE DEF P
  <2>1. P \subseteq Nat
    BY DEF P
  <2> QED
    BY <1>2, <1>3, <2>1, SetInduction
<1>5. Right(g, S)
  BY <1>0, <1>4
<1>6. \A T \in SUBSET S : SumFunctionOnSet(w, T) = g[T]
  BY <1>1, SumTable
<1> QED
  BY <1>5, <1>6

LEMMA SumConstant ==
    ASSUME NEW S, IsFiniteSet(S), NEW n \in Nat, NEW w, \A x \in S : w[x] = n
    PROVE  SumFunctionOnSet(w, S) = Cardinality(S) * n
<1> DEFINE Sum(s) == SumFunctionOnSet(w, s)
           P == {m \in Nat : \A s \in SUBSET S : Cardinality(s) = m => Sum(s) = m * n}
<1>0. \A s \in SUBSET S : IsFiniteSet(s) /\ Cardinality(s) \in Nat
  BY FS_Subset, FS_CardinalityType
<1>1. 0 \in P
  <2>1. \A s \in SUBSET S : Cardinality(s) = 0 => s = {}
    BY <1>0, FS_EmptySet
  <2>2. Sum({}) = 0 * n
    BY SumEmpty
  <2> HIDE DEF Sum
  <2> QED
    BY <2>1, <2>2
<1>2. ASSUME NEW m \in P PROVE m + 1 \in P
  <2>m. m \in Nat
    BY <1>2
  <2>1. ASSUME NEW s \in SUBSET S, Cardinality(s) = m + 1 PROVE Sum(s) = m * n + n
    <3>1. PICK x \in s : TRUE
      BY <2>m, <2>1, FS_EmptySet
    <3>2. s \ {x} \in SUBSET S /\ Cardinality(s \ {x}) = m
      <4> HIDE DEF P
      <4>1. IsFiniteSet(s) /\ x \in s
        BY <1>0, <3>1
      <4>2. Cardinality(s \ {x}) = Cardinality(s) - 1
        BY <4>1, FS_RemoveElement
      <4> QED
        BY <2>m, <2>1, <4>2
    <3>3. Sum(s \ {x}) = m * n
      <4> HIDE DEF Sum
      <4> QED
        BY <1>2, <3>2
    <3>4. IsFiniteSet(s) /\ \A y \in s : w[y] \in Nat
      BY <1>0
    <3>5. Sum(s) = w[x] + Sum(s \ {x})
      BY <3>1, <3>4, SumRemove
    <3>6. w[x] = n /\ m * n \in Nat
      BY <2>m, <3>1
    <3> HIDE DEF Sum
    <3> QED
      BY <3>3, <3>5, <3>6
  <2>2. (m + 1) * n = m * n + n /\ m + 1 \in Nat
    BY <2>m
  <2> HIDE DEF Sum
  <2> QED
    BY <2>1, <2>2
<1>3. P = Nat
  <2> HIDE DEF P
  <2>1. P \subseteq Nat
    BY DEF P
  <2> QED
    BY <1>1, <1>2, <2>1, SetInduction
<1>4. Cardinality(S) \in P
  BY <1>0, <1>3
<1> HIDE DEF Sum
<1>5. Sum(S) = Cardinality(S) * n
  BY <1>4
<1> QED
  BY <1>5 DEF Sum

\* A sum does not change when a is moved from p to q.
LEMMA SumMoved ==
    ASSUME NEW S, IsFiniteSet(S), NEW v, NEW w,
           \A x \in S : v[x] \in Nat /\ w[x] \in Nat,
           NEW p \in S, NEW q \in S, p # q, NEW a \in Nat,
           v[p] = w[p] + a, w[q] = v[q] + a,
           \A x \in S : x # p /\ x # q => v[x] = w[x]
    PROVE  SumFunctionOnSet(w, S) = SumFunctionOnSet(v, S)
<1> DEFINE R == (S \ {p}) \ {q}
<1>1. IsFiniteSet(S \ {p}) /\ IsFiniteSet(R) /\ q \in S \ {p}
  BY FS_RemoveElement
<1>2. /\ SumFunctionOnSet(v, S) = v[p] + SumFunctionOnSet(v, S \ {p})
      /\ SumFunctionOnSet(w, S) = w[p] + SumFunctionOnSet(w, S \ {p})
  BY SumRemove
<1>3. /\ SumFunctionOnSet(v, S \ {p}) = v[q] + SumFunctionOnSet(v, R)
      /\ SumFunctionOnSet(w, S \ {p}) = w[q] + SumFunctionOnSet(w, R)
  BY <1>1, SumRemove
<1>4. SumFunctionOnSet(v, R) \in Nat /\ SumFunctionOnSet(w, R) = SumFunctionOnSet(v, R)
  BY <1>1, SumRemove, SumSame
<1>5. v[p] \in Nat /\ w[p] \in Nat /\ v[q] \in Nat /\ w[q] \in Nat
  OBVIOUS
<1> HIDE DEF R
<1> QED
  BY <1>2, <1>3, <1>4, <1>5

-----------------------------------------------------------------------------
(***************************************************************************)
(* Write sets, commit records and their application to the store.          *)
(***************************************************************************)

\* The last write of a key that occurs in a write set is a write of that key.
LEMMA LastIndexOfKey ==
    ASSUME NEW ws \in Seq(WriteEntry), NEW k \in KeysOf(ws)
    PROVE  LastIndex(ws, k) \in 1 .. Len(ws) /\ ws[LastIndex(ws, k)].key = k
<1> DEFINE I == {i \in 1 .. Len(ws) : ws[i].key = k}
<1>1. Len(ws) \in Nat
  OBVIOUS
<1>2. I # {}
  BY DEF KeysOf
<1>3. I \subseteq Nat /\ \A i \in I : i <= Len(ws)
  BY <1>1
<1>4. LastIndex(ws, k) = Max(I)
  BY DEF LastIndex
<1> HIDE DEF I
<1>5. Max(I) \in I
  BY <1>1, <1>2, <1>3, BoundedMax
<1> QED
  BY <1>4, <1>5 DEF I

LEMMA LastWriteType ==
    ASSUME NEW ws \in Seq(WriteEntry), NEW k \in KeysOf(ws)
    PROVE  LastWrite(ws, k) \in WriteEntry /\ LastWrite(ws, k).key = k
<1>1. ws \in [1 .. Len(ws) -> WriteEntry]
  BY LenProperties
<1> QED
  BY <1>1, LastIndexOfKey DEF LastWrite

LEMMA KeysOfSubset ==
    ASSUME NEW ws \in Seq(WriteEntry)
    PROVE  KeysOf(ws) \subseteq Key
<1>1. ws \in [1 .. Len(ws) -> WriteEntry]
  BY LenProperties
<1> QED
  BY <1>1 DEF KeysOf, WriteEntry

\* A commit record has the length, the keys and the last writes of the write
\* set it is made from.
LEMMA RecordShape ==
    ASSUME NEW req, req.writeSet \in Seq(WriteEntry), NEW seq \in Nat
    PROVE  /\ Len(Record(req, seq)) = Len(req.writeSet)
           /\ KeysOf(Record(req, seq)) = KeysOf(req.writeSet)
           /\ \A k : LastIndex(Record(req, seq), k) = LastIndex(req.writeSet, k)
<1> DEFINE ws == req.writeSet
           rec == Record(req, seq)
<1>1. Len(ws) \in Nat /\ ws \in [1 .. Len(ws) -> WriteEntry]
  BY LenProperties
<1>2. rec \in [1 .. Len(ws) -> CommitWrite]
  BY <1>1 DEF Record, WriteEntry, CommitWrite
<1>3. Len(rec) = Len(ws)
  BY <1>1, <1>2
<1>4. \A i \in 1 .. Len(ws) : rec[i].key = ws[i].key
  BY <1>1 DEF Record
<1>5. KeysOf(rec) = KeysOf(ws)
  BY <1>3, <1>4 DEF KeysOf
<1>6. ASSUME NEW k PROVE LastIndex(rec, k) = LastIndex(ws, k)
  <2>1. {i \in 1 .. Len(rec) : rec[i].key = k} = {i \in 1 .. Len(ws) : ws[i].key = k}
    BY <1>3, <1>4
  <2> QED
    BY <2>1 DEF LastIndex
<1> QED
  BY <1>3, <1>5, <1>6

\* Applying a commit record: every key of the write set gets its last value
\* and the commit's sequence number, every other key stays.
LEMMA AppliedRecord ==
    ASSUME NEW req, req.writeSet \in Seq(WriteEntry), NEW seq \in Nat, NEW d
    PROVE  Applied(d, Record(req, seq)) =
             [k \in Key |-> IF k \in KeysOf(req.writeSet)
                            THEN [value   |-> LastWrite(req.writeSet, k).value,
                                  version |-> seq]
                            ELSE d[k]]
<1> DEFINE ws == req.writeSet
           rec == Record(req, seq)
<1>1. KeysOf(rec) = KeysOf(ws)
  BY RecordShape
<1>2. ASSUME NEW k \in KeysOf(ws)
      PROVE  LastWrite(rec, k).value = LastWrite(ws, k).value
             /\ LastWrite(rec, k).newVersion = seq
  <2>1. LastIndex(rec, k) = LastIndex(ws, k) /\ LastIndex(ws, k) \in 1 .. Len(ws)
    BY RecordShape, LastIndexOfKey
  <2> QED
    BY <2>1 DEF LastWrite, Record
<1> QED
  BY <1>1, <1>2 DEF Applied

\* A record with a number above every version in the store is not rejected.
LEMMA FreshRecordAccepted ==
    ASSUME NEW req, req.writeSet \in Seq(WriteEntry), NEW seq \in Nat,
           StoreTypeOK, \A k \in Key : data[k].version < seq
    PROVE  ~ Rejected(Record(req, seq))
<1>1. Len(Record(req, seq)) = Len(req.writeSet)
  BY RecordShape
<1>2. ASSUME NEW i \in 1 .. Len(req.writeSet)
      PROVE  /\ Record(req, seq)[i].key \in Key
             /\ Record(req, seq)[i].newVersion = seq
  <2>1. req.writeSet \in [1 .. Len(req.writeSet) -> WriteEntry]
    BY LenProperties
  <2> QED
    BY <2>1 DEF Record, WriteEntry
<1>3. \A k \in Key : data[k].version \in Nat
  BY DEF StoreTypeOK, ReadResult
<1> QED
  BY <1>1, <1>2, <1>3 DEF Rejected

-----------------------------------------------------------------------------
\* An operation of the execution layer on t.
Operation(t) ==
    \/ \E k \in Key : Read(t, k) \/ \E v \in Value : Write(t, k, v)
    \/ Commit(t)
    \/ CommitReturn(t, result[t])
    \/ Abort(t)

\* The store once t's record with number seq has been applied.
Installed(t, seq) ==
    [k \in Key |-> IF Writes(t, k)
                   THEN [value |-> LastWrite(writeSet[t], k).value, version |-> seq]
                   ELSE data[k]]

\* SubmitCommit's answer to t is res, and nobody else is answered.
Answered(t, res) ==
    /\ result'[t] = res
    /\ \A u \in Txn \ {t} : result'[u] = result[u]

-----------------------------------------------------------------------------
\* Bounds of the store that LoadInitialData leaves behind.
LEMMA LoadedStoreFacts ==
    ASSUME LoadedStore
    PROVE  StoreTypeOK /\ \A k \in Key : data[k].version \in {0, 1}
<1>1. PICK loaded \in SUBSET Key :
        \E initial \in [loaded -> Value] : data = Loaded(NewMemStore, initial)
  BY DEF LoadedStore
<1>2. PICK initial \in [loaded -> Value] : data = Loaded(NewMemStore, initial)
  BY <1>1
<1> QED
  BY <1>2, ValueAssumption
  DEF Loaded, NewMemStore, NotFound, StoreTypeOK, ReadResult

\* A new certifier's counter bounds the versions in the store.
LEMMA NewCertifierFacts ==
    ASSUME LoadedStore, NewCertifier
    PROVE  CertTypeOK /\ \A k \in Key : data[k].version <= commitSeq
<1> DEFINE V == {0} \cup {data[k].version : k \in Key}
<1>1. V \subseteq Nat /\ V # {} /\ \A x \in V : x <= 1
  BY LoadedStoreFacts
<1>2. commitSeq = Max(V)
  BY DEF NewCertifier, MaxVersion, DumpState
<1> HIDE DEF V
<1>3. Max(V) \in V /\ \A y \in V : y <= Max(V)
  BY <1>1, BoundedMax
<1>4. commitSeq \in Nat /\ \A k \in Key : data[k].version <= commitSeq
  BY <1>1, <1>2, <1>3 DEF V
<1>5. latestVersion \in [Key -> Nat]
  BY LoadedStoreFacts DEF NewCertifier, VersionsIn, DumpState
<1>6. result \in [Txn -> TxnResult]
  BY DEF NewCertifier, NoResult, TxnResult, Decision
<1> QED
  BY <1>4, <1>5, <1>6 DEF CertTypeOK

LEMMA NewEngineTypeOK ==
    ASSUME NewEngine
    PROVE  ExecTypeOK
<1>1. << >> \in Seq(WriteEntry)
  OBVIOUS
<1> QED
  BY <1>1, MaxTxnsAssumption DEF NewEngine, ExecTypeOK, TxnState

LEMMA BeginTypeOK ==
    ASSUME ExecTypeOK, Begin
    PROVE  ExecTypeOK'
<1>1. idCounter' \in 0 .. MaxTxns
  BY MaxTxnsAssumption DEF Begin, ExecTypeOK
<1>2. state' \in [Txn -> TxnState]
  BY DEF Begin, ExecTypeOK, TxnState
<1> QED
  BY <1>1, <1>2 DEF Begin, ExecTypeOK

\* The part of the type that says that a read set is a map.
OneEntryPerKey == \A t \in Txn : \A r, s \in readSet[t] : r.key = s.key => r = s

LEMMA RecordReadOnce ==
    ASSUME ExecTypeOK, NEW t \in Txn, NEW k, NEW version, RecordRead(t, k, version)
    PROVE  OneEntryPerKey'
<1>1. /\ \A u \in Txn : \A r, s \in readSet[u] : r.key = s.key => r = s
      /\ readSet \in [Txn -> SUBSET ReadEntry]
  BY DEF ExecTypeOK
<1>2. CASE Seen(t, k)
  BY <1>1, <1>2 DEF RecordRead, OneEntryPerKey
<1>3. CASE ~ Seen(t, k)
  <2>1. PICK e : e = [key |-> k, versionSeen |-> version]
    OBVIOUS
  <2>2. e.key = k /\ \A r \in readSet[t] : r.key # k
    BY <1>3, <2>1 DEF Seen
  <2>3. readSet'[t] = readSet[t] \cup {e} /\ \A u \in Txn \ {t} : readSet'[u] = readSet[u]
    BY <1>1, <1>3, <2>1 DEF RecordRead
  <2>4. ASSUME NEW u \in Txn, NEW r \in readSet'[u], NEW s \in readSet'[u], r.key = s.key
        PROVE  r = s
    BY <1>1, <2>2, <2>3, <2>4
  <2> QED
    BY <2>4 DEF OneEntryPerKey
<1> QED
  BY <1>2, <1>3

LEMMA OperationTypeOK ==
    ASSUME StoreTypeOK, ExecTypeOK, NEW t \in Txn, Operation(t)
    PROVE  ExecTypeOK'
<1> USE DEF ExecTypeOK
<1>1. ASSUME NEW k \in Key, Read(t, k) PROVE ExecTypeOK'
  <2>1. Get(k) \in ReadResult
    BY DEF Get, StoreTypeOK
  <2>2. [key |-> k, versionSeen |-> Get(k).version] \in ReadEntry
    BY <2>1 DEF ReadResult, ReadEntry
  <2>3. [key |-> k, value |-> Get(k).value] \in Observation
    BY <2>1 DEF ReadResult, Observation
  <2>4. readSet' \in [Txn -> SUBSET ReadEntry]
    BY <1>1, <2>2 DEF Read, ReadFrom, RecordRead
  <2>5. observed' \in [Txn -> SUBSET Observation]
    BY <1>1, <2>3 DEF Read, ReadFrom
  <2>6. OneEntryPerKey'
    BY <1>1, RecordReadOnce DEF Read, ReadFrom
  <2> QED
    BY <1>1, <2>4, <2>5, <2>6 DEF Read, ReadFrom, OneEntryPerKey
<1>2. ASSUME NEW k \in Key, NEW v \in Value, Write(t, k, v) PROVE ExecTypeOK'
  <2>1. [key |-> k, value |-> v] \in WriteEntry
    BY DEF WriteEntry
  <2>2. Append(writeSet[t], [key |-> k, value |-> v]) \in Seq(WriteEntry)
    BY <2>1
  <2> QED
    BY <1>2, <2>2 DEF Write
<1>3. ASSUME Commit(t) \/ CommitReturn(t, result[t]) \/ Abort(t) PROVE ExecTypeOK'
  BY <1>3 DEF Commit, CommitReturn, Abort, TxnState
<1> QED
  BY <1>1, <1>2, <1>3 DEF Operation

\* An operation concerns one transaction, which does not wait for an answer;
\* once it has called Commit its sets do not change.
LEMMA OperationFacts ==
    ASSUME ExecTypeOK, NEW t \in Txn, Operation(t)
    PROVE  /\ ~ Waiting(t)
           /\ \A u \in Txn \ {t} : UNCHANGED <<state[u], readSet[u], writeSet[u]>>
           /\ state[t] # "unborn" /\ state'[t] # "unborn"
           /\ state[t] # "active" => /\ UNCHANGED <<readSet[t], writeSet[t]>>
                                     /\ state'[t] \notin {"active", "submitted"}
           /\ state'[t] = "submitted" => Commit(t)
<1> USE DEF ExecTypeOK
<1>1. CASE \E k \in Key : Read(t, k)
  BY <1>1 DEF Read, ReadFrom, RecordRead, Active, Waiting
<1>2. CASE \E k \in Key, v \in Value : Write(t, k, v)
  BY <1>2 DEF Write, Active, Waiting
<1>3. CASE Commit(t) \/ Abort(t)
  BY <1>3 DEF Commit, Abort, Active, Waiting
<1>4. CASE CommitReturn(t, result[t])
  <2>1. result[t] # NoResult
    BY <1>4 DEF CommitReturn, NoResult
  <2> QED
    BY <1>4, <2>1 DEF CommitReturn, Waiting
<1> QED
  BY <1>1, <1>2, <1>3, <1>4 DEF Operation

\* ApplyCommit keeps the store's type, whether it rejects the record or not.
LEMMA ApplyTypeOK ==
    ASSUME StoreTypeOK, NEW req, req.writeSet \in Seq(WriteEntry), NEW seq \in Nat,
           ApplyCommit(Record(req, seq))
    PROVE  StoreTypeOK'
<1>1. \A k \in KeysOf(req.writeSet) : LastWrite(req.writeSet, k).value \in Value
  BY LastWriteType DEF WriteEntry
<1>2. Applied(data, Record(req, seq)) \in [Key -> ReadResult]
  BY <1>1, AppliedRecord DEF StoreTypeOK, ReadResult
<1> QED
  BY <1>2 DEF ApplyCommit, StoreTypeOK

\* What ApplyCommit does with a record whose number is new: it installs it.
LEMMA FreshRecordInstalled ==
    ASSUME StoreTypeOK, ExecTypeOK, NEW t \in Txn, NEW seq \in Nat,
           \A k \in Key : data[k].version < seq
    PROVE  /\ ~ Rejected(Record(Request(t), seq))
           /\ ApplyCommit(Record(Request(t), seq)) => data' = Installed(t, seq)
<1> DEFINE req == Request(t)
<1>1. req.writeSet = writeSet[t] /\ writeSet[t] \in Seq(WriteEntry)
  BY DEF Request, ExecTypeOK
<1> HIDE DEF req
<1>2. ~ Rejected(Record(req, seq))
  BY <1>1, FreshRecordAccepted
<1>3. Applied(data, Record(req, seq)) = Installed(t, seq)
  BY <1>1, AppliedRecord DEF Writes, Installed
<1> QED
  BY <1>2, <1>3 DEF ApplyCommit, req

\* The version that Installed gives to a key.
LEMMA InstalledVersion ==
    ASSUME NEW t \in Txn, NEW seq \in Nat, NEW k \in Key
    PROVE  /\ Writes(t, k) => Installed(t, seq)[k].version = seq
           /\ ~ Writes(t, k) => Installed(t, seq)[k] = data[k]
<1> DEFINE v == LastWrite(writeSet[t], k).value
<1>1. Writes(t, k) => Installed(t, seq)[k] = [value |-> v, version |-> seq]
  BY DEF Installed
<1>2. ~ Writes(t, k) => Installed(t, seq)[k] = data[k]
  BY DEF Installed
<1> HIDE DEF v
<1> QED
  BY <1>1, <1>2

-----------------------------------------------------------------------------
LEMMA InitHistory ==
    ASSUME NewEngine, NewCertifier
    PROVE  HistoryInv
<1>1. \A t \in Txn : /\ result[t] = NoResult
                     /\ readSet[t] = {}
                     /\ observed[t] = {}
                     /\ state[t] = "unborn"
  BY DEF NewEngine, NewCertifier
<1>2. \A t \in Txn : result[t].decision = "none"
  BY <1>1 DEF NoResult
<1>3. NoInterveningWrite /\ StoreHoldsLastCommit /\ AbortJustified
  BY <1>2 DEF NoInterveningWrite, StoreHoldsLastCommit, AbortJustified, IsCommitted
<1>4. NotBegun /\ AnsweredNotActive /\ ReadsRecorded /\ ReadsNotAhead
  BY <1>1 DEF NotBegun, AnsweredNotActive, ReadsRecorded, ReadsNotAhead
<1>5. ObservedCurrent /\ ReplacedByCommit
  BY <1>1 DEF ObservedCurrent, ReplacedByCommit
<1> QED
  BY <1>3, <1>4, <1>5 DEF HistoryInv

\* A step that changes nothing but the transactions' states.
LEMMA StateHistory ==
    ASSUME HistoryInv, UNCHANGED <<data, readSet, writeSet, observed, result>>,
           NotBegun', AnsweredNotActive'
    PROVE  HistoryInv'
<1>1. NoInterveningWrite' /\ StoreHoldsLastCommit' /\ AbortJustified'
  BY DEF HistoryInv, NoInterveningWrite, StoreHoldsLastCommit, AbortJustified, IsCommitted, Writes
<1>2. ReadsRecorded' /\ ReadsNotAhead' /\ ObservedCurrent' /\ ReplacedByCommit'
  BY DEF HistoryInv, ReadsRecorded, Seen, ReadsNotAhead, ObservedCurrent, ReplacedByCommit,
         IsCommitted, Writes
<1> QED
  BY <1>1, <1>2 DEF HistoryInv

\* The identifier that Begin hands out is new.
LEMMA BeginFacts ==
    ASSUME ExecTypeOK, HistoryInv, Begin
    PROVE  /\ idCounter + 1 \in Txn
           /\ state[idCounter + 1] = "unborn"
           /\ state'[idCounter + 1] = "active"
           /\ result[idCounter + 1] = NoResult
           /\ \A u \in Txn \ {idCounter + 1} : state'[u] = state[u]
           /\ UNCHANGED <<readSet, writeSet, observed>>
<1>1. idCounter + 1 \in Txn /\ idCounter \in Nat
  BY MaxTxnsAssumption DEF Begin, Txn, ExecTypeOK
<1>2. state[idCounter + 1] = "unborn"
  BY <1>1 DEF HistoryInv, NotBegun
<1>3. result[idCounter + 1] = NoResult
  BY <1>1, <1>2 DEF HistoryInv, AnsweredNotActive
<1> QED
  BY <1>1, <1>2, <1>3 DEF Begin, ExecTypeOK

LEMMA BeginHistory ==
    ASSUME ExecTypeOK, HistoryInv, Begin, UNCHANGED <<data, result>>
    PROVE  HistoryInv'
<1>1. NotBegun'
  BY MaxTxnsAssumption DEF HistoryInv, NotBegun, Begin, Txn, ExecTypeOK
<1>2. AnsweredNotActive'
  BY BeginFacts DEF HistoryInv, AnsweredNotActive
<1> QED
  BY <1>1, <1>2, StateHistory DEF Begin

\* Commit, the return of SubmitCommit, and Abort.
LEMMA CommitAbortHistory ==
    ASSUME ExecTypeOK, HistoryInv, NEW t \in Txn,
           Commit(t) \/ CommitReturn(t, result[t]) \/ Abort(t), UNCHANGED <<data, result>>
    PROVE  HistoryInv'
<1>1. /\ state[t] # "unborn"
      /\ state'[t] \in {"submitted", "committed", "aborted"}
      /\ \A u \in Txn \ {t} : state'[u] = state[u]
      /\ UNCHANGED <<idCounter, readSet, writeSet, observed>>
  BY DEF Commit, CommitReturn, Abort, Active, ExecTypeOK
<1>2. NotBegun'
  BY <1>1 DEF HistoryInv, NotBegun
<1>3. AnsweredNotActive'
  BY <1>1 DEF HistoryInv, AnsweredNotActive
<1> QED
  BY <1>1, <1>2, <1>3, StateHistory

\* Read: the new read-set entry and observation are those of the store, and
\* the read sets of transactions that have been answered do not change.
LEMMA ReadHistory ==
    ASSUME StoreTypeOK, ExecTypeOK, HistoryInv, NEW t \in Txn, NEW k \in Key, Read(t, k),
           UNCHANGED <<data, result>>
    PROVE  HistoryInv'
<1> DEFINE r0 == [key |-> k, versionSeen |-> data[k].version]
           o0 == [key |-> k, value |-> data[k].value]
<1>1. /\ data \in [Key -> ReadResult]
      /\ readSet \in [Txn -> SUBSET ReadEntry]
      /\ observed \in [Txn -> SUBSET Observation]
      /\ \A j \in Key : data[j].version \in Nat
  BY DEF StoreTypeOK, ExecTypeOK, ReadResult
<1>2. result[t] = NoResult
  BY DEF HistoryInv, AnsweredNotActive, Read, ReadFrom, Active
<1>3. ~ IsCommitted(t) /\ result[t].decision # "stale"
  BY <1>2 DEF IsCommitted, NoResult
<1>4. /\ UNCHANGED <<idCounter, state, writeSet, data, result>>
      /\ \A u \in Txn \ {t} : readSet'[u] = readSet[u] /\ observed'[u] = observed[u]
      /\ observed'[t] = observed[t] \cup {o0}
      /\ readSet'[t] = IF Seen(t, k) THEN readSet[t] ELSE readSet[t] \cup {r0}
  BY <1>1 DEF Read, ReadFrom, RecordRead, Get
<1> HIDE DEF r0, o0
<1>5. StoreHoldsLastCommit' /\ NotBegun' /\ AnsweredNotActive'
  BY <1>4 DEF HistoryInv, StoreHoldsLastCommit, IsCommitted, Writes, NotBegun, AnsweredNotActive
<1>6. NoInterveningWrite'
  BY <1>3, <1>4 DEF HistoryInv, NoInterveningWrite, IsCommitted, Writes
<1>7. AbortJustified'
  BY <1>3, <1>4 DEF HistoryInv, AbortJustified, IsCommitted, Writes
<1>8. ReadsRecorded'
  <2>1. \E r \in readSet'[t] : r.key = k
    <3>1. CASE Seen(t, k)
      BY <1>4, <3>1 DEF Seen
    <3>2. CASE ~ Seen(t, k)
      <4>1. r0 \in readSet'[t] /\ r0.key = k
        BY <1>4, <3>2 DEF r0
      <4> QED
        BY <4>1
    <3> QED
      BY <3>1, <3>2
  <2> QED
    <3> SUFFICES ASSUME NEW u \in Txn, NEW o \in observed'[u]
                 PROVE  \E r \in readSet'[u] : r.key = o.key
      BY DEF ReadsRecorded, Seen
    <3>1. CASE u # t
      BY <1>4, <3>1 DEF HistoryInv, ReadsRecorded, Seen
    <3>2. CASE u = t /\ o = o0
      BY <2>1, <3>2 DEF o0
    <3>3. CASE u = t /\ o # o0
      BY <1>4, <3>3 DEF HistoryInv, ReadsRecorded, Seen
    <3> QED
      BY <3>1, <3>2, <3>3
<1>9. ReadsNotAhead'
  <2>1. r0.versionSeen <= data[r0.key].version
    BY <1>1 DEF r0
  <2> QED
    BY <1>4, <2>1 DEF HistoryInv, ReadsNotAhead
<1>10. ObservedCurrent'
  <2> SUFFICES ASSUME NEW u \in Txn, NEW o \in observed'[u], NEW r \in readSet'[u],
                      r.key = o.key, r.versionSeen = data[r.key].version
               PROVE  o.value = data[r.key].value
    BY <1>4 DEF ObservedCurrent
  <2>1. CASE u # t
    BY <1>4, <2>1 DEF HistoryInv, ObservedCurrent
  <2>2. CASE u = t /\ o = o0
    BY <2>2 DEF o0
  <2>3. CASE u = t /\ o # o0 /\ r \in readSet[t]
    BY <1>4, <2>3 DEF HistoryInv, ObservedCurrent
  <2>4. CASE u = t /\ o # o0 /\ r \notin readSet[t]
    <3>1. r = r0 /\ o \in observed[t] /\ ~ Seen(t, k)
      BY <1>4, <2>4
    <3>2. Seen(t, o.key)
      BY <3>1 DEF HistoryInv, ReadsRecorded
    <3> QED
      BY <3>1, <3>2 DEF r0
  <2> QED
    BY <2>1, <2>2, <2>3, <2>4
<1>11. ReplacedByCommit'
  <2>1. r0.versionSeen = data[r0.key].version
    BY DEF r0
  <2> QED
    BY <1>4, <2>1 DEF HistoryInv, ReplacedByCommit, IsCommitted, Writes
<1> QED
  BY <1>5, <1>6, <1>7, <1>8, <1>9, <1>10, <1>11 DEF HistoryInv

\* Write: only the write set of a transaction that has no answer grows.
LEMMA WriteHistory ==
    ASSUME ExecTypeOK, HistoryInv, NEW t \in Txn, NEW k \in Key, NEW v \in Value,
           Write(t, k, v), UNCHANGED <<data, result>>
    PROVE  HistoryInv'
<1>1. ~ IsCommitted(t)
  BY DEF HistoryInv, AnsweredNotActive, Write, Active, IsCommitted, NoResult
<1>2. /\ UNCHANGED <<idCounter, state, readSet, observed, data, result>>
      /\ \A u \in Txn \ {t} : writeSet'[u] = writeSet[u]
  BY DEF Write, ExecTypeOK
<1>3. \A u \in Txn : IsCommitted(u) => u # t /\ writeSet'[u] = writeSet[u]
  BY <1>1, <1>2
<1>4. NoInterveningWrite'
  BY <1>2, <1>3 DEF HistoryInv, NoInterveningWrite, IsCommitted, Writes
<1>5. StoreHoldsLastCommit'
  BY <1>2, <1>3 DEF HistoryInv, StoreHoldsLastCommit, IsCommitted, Writes
<1>6. AbortJustified'
  BY <1>2, <1>3 DEF HistoryInv, AbortJustified, IsCommitted, Writes
<1>7. ReplacedByCommit'
  BY <1>2, <1>3 DEF HistoryInv, ReplacedByCommit, IsCommitted, Writes
<1>8. ReadsRecorded' /\ ReadsNotAhead' /\ ObservedCurrent' /\ NotBegun' /\ AnsweredNotActive'
  BY <1>2 DEF HistoryInv, ReadsRecorded, Seen, ReadsNotAhead, ObservedCurrent, NotBegun,
              AnsweredNotActive
<1> QED
  BY <1>4, <1>5, <1>6, <1>7, <1>8 DEF HistoryInv

LEMMA OperationHistory ==
    ASSUME StoreTypeOK, ExecTypeOK, HistoryInv, NEW t \in Txn, Operation(t),
           UNCHANGED <<data, result>>
    PROVE  HistoryInv'
BY ReadHistory, WriteHistory, CommitAbortHistory DEF Operation

-----------------------------------------------------------------------------
\* The certifier turns t down.  If the reason is a stale read, the commit that
\* replaced the version is the one that AbortJustified asks for.
LEMMA AbortHistory ==
    ASSUME StoreTypeOK, ExecTypeOK, CertTypeOK, HistoryInv, NEW t \in Txn, Waiting(t),
           UNCHANGED <<data, idCounter, state, readSet, writeSet, observed>>,
           NEW reason \in {"stale", "conflict", "error"}, Answered(t, Aborted(reason)),
           reason = "stale" => \E r \in readSet[t] : r.versionSeen # data[r.key].version
    PROVE  HistoryInv'
<1>1. ~ IsCommitted(t) /\ ~ IsCommitted(t)' /\ result'[t].commitSeq = 0
      /\ result'[t].decision = reason /\ state[t] = "submitted"
  BY DEF Answered, Waiting, IsCommitted, NoResult, Aborted
<1>2. \A u \in Txn \ {t} : result'[u] = result[u]
  BY DEF Answered
<1>3. \A u \in Txn : IsCommitted(u)' <=> IsCommitted(u)
  BY <1>1, <1>2 DEF IsCommitted
<1>4. \A u \in Txn : IsCommitted(u) => u # t /\ result'[u] = result[u]
  BY <1>1, <1>2
<1>5. NotBegun' /\ AnsweredNotActive'
  BY <1>1, <1>2 DEF HistoryInv, NotBegun, AnsweredNotActive
<1>6. NoInterveningWrite'
  BY <1>3, <1>4 DEF HistoryInv, NoInterveningWrite, Writes
<1>7. StoreHoldsLastCommit'
  BY <1>3, <1>4 DEF HistoryInv, StoreHoldsLastCommit, Writes
<1>8. ReplacedByCommit'
  BY <1>3, <1>4 DEF HistoryInv, ReplacedByCommit, Writes
<1>9. ReadsRecorded' /\ ReadsNotAhead' /\ ObservedCurrent'
  BY DEF HistoryInv, ReadsRecorded, Seen, ReadsNotAhead, ObservedCurrent
<1>10. AbortJustified'
  <2>1. ASSUME reason = "stale"
        PROVE  \E r \in readSet'[t], u \in Txn \ {t} :
                  /\ IsCommitted(u)'
                  /\ Writes(u, r.key)'
                  /\ result'[u].commitSeq > r.versionSeen
    <3>1. PICK r \in readSet[t] : r.versionSeen # data[r.key].version
      BY <2>1
    <3>2. r.key \in Key /\ r.versionSeen \in Nat /\ data[r.key].version \in Nat
      BY DEF ExecTypeOK, StoreTypeOK, ReadEntry, ReadResult
    <3>3. PICK u \in Txn : /\ IsCommitted(u)
                          /\ Writes(u, r.key)
                          /\ result[u].commitSeq = data[r.key].version
      BY <3>1 DEF HistoryInv, ReplacedByCommit
    <3>4. result[u].commitSeq > r.versionSeen
      BY <3>1, <3>2, <3>3 DEF HistoryInv, ReadsNotAhead
    <3> QED
      BY <1>3, <1>4, <3>3, <3>4 DEF Writes
  <2>2. ASSUME NEW s \in Txn, s # t, result'[s].decision = "stale"
        PROVE  \E r \in readSet'[s], u \in Txn \ {s} :
                  /\ IsCommitted(u)'
                  /\ Writes(u, r.key)'
                  /\ result'[u].commitSeq > r.versionSeen
    BY <1>2, <1>3, <1>4, <2>2 DEF HistoryInv, AbortJustified, Writes
  <2> QED
    BY <1>1, <2>1, <2>2 DEF AbortJustified
<1> QED
  BY <1>5, <1>6, <1>7, <1>8, <1>9, <1>10 DEF HistoryInv

\* The commit point: t's reads are current, its number is above all others,
\* its record is applied and it is answered in one step.
LEMMA CommitHistory ==
    ASSUME StoreTypeOK, ExecTypeOK, CertTypeOK, HistoryInv, NEW t \in Txn, Waiting(t),
           UNCHANGED <<idCounter, state, readSet, writeSet, observed>>,
           NEW seq \in Nat,
           \A u \in Txn : result[u].commitSeq < seq,
           \A k \in Key : data[k].version < seq,
           \A r \in readSet[t] : r.versionSeen = data[r.key].version,
           Answered(t, Committed(seq)),
           data' = Installed(t, seq)
    PROVE  HistoryInv'
<1>1. /\ \A k \in Key : Writes(t, k) =>
            data'[k] = [value |-> LastWrite(writeSet[t], k).value, version |-> seq]
      /\ \A k \in Key : ~ Writes(t, k) => data'[k] = data[k]
  BY DEF Installed
<1>2. /\ \A u \in Txn : result[u].commitSeq \in Nat
      /\ \A k \in Key : data[k].version \in Nat
  BY DEF CertTypeOK, TxnResult, StoreTypeOK, ReadResult
<1>3. \A u \in Txn \ {t} : result'[u] = result[u]
  BY DEF Answered
<1>4. /\ result'[t].decision = "committed" /\ result'[t].commitSeq = seq
      /\ IsCommitted(t)' /\ ~ IsCommitted(t) /\ result'[t] # NoResult
      /\ state[t] = "submitted"
  BY DEF Answered, Committed, IsCommitted, Waiting, NoResult
<1>5. \A u \in Txn \ {t} : IsCommitted(u)' <=> IsCommitted(u)
  BY <1>3 DEF IsCommitted
<1>6. \A u \in Txn : \A r \in readSet[u] :
        r.key \in Key /\ r.versionSeen \in Nat /\ r.versionSeen <= data[r.key].version
  BY DEF ExecTypeOK, ReadEntry, HistoryInv, ReadsNotAhead
<1>7. \A u \in Txn : \A k : Writes(u, k)' <=> Writes(u, k)
  BY DEF Writes
<1>8. \A k \in Key : Writes(t, k) => data'[k].version = seq
  BY InstalledVersion
<1>9. NotBegun' /\ AnsweredNotActive' /\ ReadsRecorded'
  BY <1>3, <1>4 DEF HistoryInv, NotBegun, AnsweredNotActive, ReadsRecorded, Seen
<1>10. NoInterveningWrite'
  <2>1. \A u \in Txn, k \in Key : IsCommitted(u) /\ Writes(u, k) =>
          result[u].commitSeq <= data[k].version
    <3> SUFFICES ASSUME NEW u \in Txn, NEW k \in Key, IsCommitted(u), Writes(u, k)
                 PROVE  result[u].commitSeq <= data[k].version
      OBVIOUS
    <3> DEFINE v == LastWrite(writeSet[u], k).value
    <3>1. \/ data[k].version > result[u].commitSeq
          \/ data[k] = [value |-> v, version |-> result[u].commitSeq]
      BY DEF HistoryInv, StoreHoldsLastCommit
    <3> HIDE DEF v
    <3> QED
      BY <1>2, <3>1
  <2>2. \A r \in readSet[t] : r.versionSeen = data[r.key].version
    OBVIOUS
  <2>3. ASSUME NEW r \in readSet[t]
        PROVE  /\ r.versionSeen < result'[t].commitSeq
               /\ \A u \in Txn \ {t} : IsCommitted(u)' /\ Writes(u, r.key)' =>
                    ~ (/\ r.versionSeen < result'[u].commitSeq
                       /\ result'[u].commitSeq < result'[t].commitSeq)
    <3>1. r.key \in Key
      BY <1>6
    <3>2. \A u \in Txn \ {t} : IsCommitted(u)' /\ Writes(u, r.key)' =>
            result'[u].commitSeq <= r.versionSeen
      BY <1>3, <1>5, <1>7, <2>1, <2>2, <3>1
    <3> QED
      BY <1>2, <1>3, <1>4, <1>6, <2>2, <3>1, <3>2
  <2>4. ASSUME NEW s \in Txn, s # t, IsCommitted(s)', NEW r \in readSet[s]
        PROVE  /\ r.versionSeen < result'[s].commitSeq
               /\ \A u \in Txn \ {s} : IsCommitted(u)' /\ Writes(u, r.key)' =>
                    ~ (/\ r.versionSeen < result'[u].commitSeq
                       /\ result'[u].commitSeq < result'[s].commitSeq)
    <3>1. IsCommitted(s) /\ result'[s] = result[s]
      BY <1>3, <1>5, <2>4
    <3>2. ~ (result'[t].commitSeq < result'[s].commitSeq)
      BY <1>2, <1>4, <3>1
    <3> QED
      BY <1>3, <1>5, <1>7, <3>1, <3>2 DEF HistoryInv, NoInterveningWrite
  <2> QED
    BY <2>3, <2>4 DEF NoInterveningWrite
<1>11. StoreHoldsLastCommit'
  <2> SUFFICES ASSUME NEW u \in Txn, NEW k \in Key, IsCommitted(u)', Writes(u, k)
               PROVE  \/ data'[k].version > result'[u].commitSeq
                      \/ data'[k] = [value   |-> LastWrite(writeSet[u], k).value,
                                     version |-> result'[u].commitSeq]
    BY <1>7 DEF StoreHoldsLastCommit
  <2>1. CASE u = t
    BY <1>1, <1>4, <2>1
  <2>2. CASE u # t /\ Writes(t, k)
    BY <1>2, <1>3, <1>8, <2>2
  <2>3. CASE u # t /\ ~ Writes(t, k)
    BY <1>1, <1>3, <1>5, <2>3 DEF HistoryInv, StoreHoldsLastCommit
  <2> QED
    BY <2>1, <2>2, <2>3
<1>12. AbortJustified'
  <2> SUFFICES ASSUME NEW s \in Txn, result'[s].decision = "stale"
               PROVE  \E r \in readSet[s], u \in Txn \ {s} :
                        /\ IsCommitted(u)'
                        /\ Writes(u, r.key)'
                        /\ result'[u].commitSeq > r.versionSeen
    BY DEF AbortJustified
  <2>1. s # t /\ result[s].decision = "stale"
    BY <1>3, <1>4
  <2>2. PICK r \in readSet[s], u \in Txn \ {s} :
          IsCommitted(u) /\ Writes(u, r.key) /\ result[u].commitSeq > r.versionSeen
    BY <2>1 DEF HistoryInv, AbortJustified
  <2>3. u # t
    BY <1>4, <2>2
  <2> QED
    BY <1>3, <1>5, <1>7, <2>2, <2>3
<1>13. ReadsNotAhead'
  <2>1. \A k \in Key : data[k].version <= data'[k].version
    BY <1>1, <1>2, <1>8
  <2>2. \A k \in Key : data'[k].version \in Nat
    BY <1>1, <1>2, <1>8
  <2> QED
    BY <1>2, <1>6, <2>1, <2>2 DEF ReadsNotAhead
<1>14. ObservedCurrent'
  <2> SUFFICES ASSUME NEW u \in Txn, NEW o \in observed[u], NEW r \in readSet[u],
                      r.key = o.key, r.versionSeen = data'[r.key].version
               PROVE  o.value = data'[r.key].value
    BY DEF ObservedCurrent
  <2>1. ~ Writes(t, r.key)
    BY <1>2, <1>6, <1>8
  <2> QED
    BY <1>1, <1>6, <2>1 DEF HistoryInv, ObservedCurrent
<1>15. ReplacedByCommit'
  <2> SUFFICES ASSUME NEW s \in Txn, NEW r \in readSet[s],
                      r.versionSeen # data'[r.key].version
               PROVE  \E u \in Txn : /\ IsCommitted(u)'
                                     /\ Writes(u, r.key)'
                                     /\ result'[u].commitSeq = data'[r.key].version
    BY DEF ReplacedByCommit
  <2>1. CASE Writes(t, r.key)
    BY <1>4, <1>6, <1>7, <1>8, <2>1
  <2>2. CASE ~ Writes(t, r.key)
    <3>1. data'[r.key] = data[r.key]
      BY <1>1, <1>6, <2>2
    <3>2. PICK u \in Txn : /\ IsCommitted(u)
                          /\ Writes(u, r.key)
                          /\ result[u].commitSeq = data[r.key].version
      BY <3>1 DEF HistoryInv, ReplacedByCommit
    <3>3. u # t
      BY <1>4, <3>2
    <3> QED
      BY <1>3, <1>5, <1>7, <3>1, <3>2, <3>3
  <2> QED
    BY <2>1, <2>2
<1> QED
  BY <1>9, <1>10, <1>11, <1>12, <1>13, <1>14, <1>15 DEF HistoryInv

-----------------------------------------------------------------------------
(***************************************************************************)
(* The refinement of SerialStore.                                          *)
(***************************************************************************)
db == [k \in Key |-> data[k].value]

outcome == [t \in Txn |-> Outcome(t)]

\* The instance's copies of the operators on write sets are the operators.
LEMMA SerialOperators ==
    /\ Serial!Txn = Txn
    /\ \A ws : Serial!KeysOf(ws) = KeysOf(ws)
    /\ \A ws, k : Serial!LastWrite(ws, k) = LastWrite(ws, k)
<1>1. Serial!Txn = Txn
  BY DEF Serial!Txn, Txn
<1>2. \A ws : Serial!KeysOf(ws) = KeysOf(ws)
  BY DEF Serial!KeysOf, KeysOf
<1>3. \A S : Serial!Max(S) = Max(S)
  BY DEF Serial!Max, Max
<1>4. \A ws, k : Serial!LastWrite(ws, k) = LastWrite(ws, k)
  BY <1>3 DEF Serial!LastWrite, LastWrite, Serial!LastIndex, LastIndex
<1> QED
  BY <1>1, <1>2, <1>4

LEMMA InitRefines ==
    ASSUME LoadedStore, NewEngine, NewCertifier
    PROVE  Serial!Init
<1>1. \A t \in Txn : Outcome(t) = "open"
  BY DEF NewEngine, NewCertifier, NoResult, Outcome, IsCommitted
<1>2. db \in [Key -> Value]
  BY LoadedStoreFacts DEF db, StoreTypeOK, ReadResult
<1> QED
  BY <1>1, <1>2, SerialOperators DEF Serial!Init, db, NewEngine

\* A transaction that has no result and is not aborted is open.
LEMMA OpenOutcome ==
    ASSUME NEW t \in Txn, result[t] = NoResult, state[t] # "aborted"
    PROVE  Outcome(t) = "open"
BY DEF Outcome, IsCommitted, NoResult

LEMMA StutterRefines ==
    ASSUME UNCHANGED <<data, result, state, observed, writeSet>>
    PROVE  [Serial!Next]_(Serial!vars)
<1>1. UNCHANGED <<db, outcome>>
  BY DEF db, outcome, Outcome, IsCommitted
<1> QED
  BY <1>1 DEF Serial!vars, db, outcome

LEMMA BeginRefines ==
    ASSUME ExecTypeOK, HistoryInv, Begin, UNCHANGED <<data, result>>
    PROVE  [Serial!Next]_(Serial!vars)
<1>1. UNCHANGED <<observed, writeSet>>
  BY DEF Begin
<1>2. \A u \in Txn : state'[u] = state[u] \/ (state'[u] # "aborted" /\ state[u] # "aborted")
  BY BeginFacts
<1>3. \A u \in Txn : Outcome(u)' = Outcome(u)
  BY <1>2 DEF Outcome, IsCommitted
<1>4. UNCHANGED <<db, outcome>>
  BY <1>3 DEF db, outcome
<1> QED
  BY <1>1, <1>4 DEF Serial!vars, db, outcome

LEMMA OperationRefines ==
    ASSUME StoreTypeOK, ExecTypeOK, HistoryInv, NEW t \in Txn, Operation(t),
           UNCHANGED <<data, result>>
    PROVE  [Serial!Next]_(Serial!vars)
<1> USE DEF ExecTypeOK
<1>1. UNCHANGED <<data, result>>
  OBVIOUS
<1>2. UNCHANGED db
  BY <1>1 DEF db
<1>3. Active(t) => result[t] = NoResult /\ outcome[t] = "open"
  BY OpenOutcome DEF HistoryInv, AnsweredNotActive, Active, outcome
<1>4. ASSUME NEW k \in Key, Read(t, k) PROVE Serial!Next
  <2>1. UNCHANGED outcome
    BY <1>1, <1>4 DEF Read, ReadFrom, outcome, Outcome, IsCommitted
  <2>2. data[k].value \in Value
    BY DEF StoreTypeOK, ReadResult
  <2>3. Serial!Observe(t, k, data[k].value)
    BY <1>2, <1>3, <1>4, <2>1 DEF Read, ReadFrom, Get, Serial!Observe, db, outcome
  <2> QED
    BY <2>2, <2>3, SerialOperators DEF Serial!Next
<1>5. ASSUME NEW k \in Key, NEW v \in Value, Write(t, k, v) PROVE Serial!Next
  <2>1. UNCHANGED outcome
    BY <1>1, <1>5 DEF Write, outcome, Outcome, IsCommitted
  <2>2. Serial!Buffer(t, k, v)
    BY <1>2, <1>3, <1>5, <2>1 DEF Write, Serial!Buffer, db, outcome
  <2> QED
    BY <2>2, SerialOperators DEF Serial!Next
<1>6. CASE Commit(t) \/ CommitReturn(t, result[t])
  <2>1. \A u \in Txn : Outcome(u)' = Outcome(u)
    BY <1>1, <1>6 DEF Commit, CommitReturn, Active, Outcome, IsCommitted
  <2>2. UNCHANGED <<db, outcome, observed, writeSet>>
    BY <1>2, <1>6, <2>1 DEF Commit, CommitReturn, outcome
  <2> QED
    BY <2>2 DEF Serial!vars, db, outcome
<1>7. CASE Abort(t)
  <2>1. \A u \in Txn \ {t} : Outcome(u)' = Outcome(u)
    BY <1>1, <1>7 DEF Abort, Outcome, IsCommitted
  <2>2. Outcome(t)' = Outcome(t) \/ (Outcome(t) = "open" /\ Outcome(t)' = "aborted")
    BY <1>1, <1>7 DEF Abort, Outcome, IsCommitted
  <2>3. UNCHANGED <<observed, writeSet>>
    BY <1>7 DEF Abort
  <2>4. CASE Outcome(t)' = Outcome(t)
    <3>1. UNCHANGED outcome
      BY <2>1, <2>4 DEF outcome
    <3> QED
      BY <1>2, <2>3, <3>1 DEF Serial!vars, db, outcome
  <2>5. CASE Outcome(t) = "open" /\ Outcome(t)' = "aborted"
    <3>1. outcome' = [outcome EXCEPT ![t] = "aborted"] /\ outcome[t] = "open"
      BY <2>1, <2>5 DEF outcome
    <3>2. Serial!Abort(t)
      BY <1>2, <2>3, <3>1 DEF Serial!Abort, db, outcome
    <3> QED
      BY <3>2, SerialOperators DEF Serial!Next
  <2> QED
    BY <2>2, <2>4, <2>5
<1> QED
  BY <1>4, <1>5, <1>6, <1>7 DEF Operation

LEMMA AbortRefines ==
    ASSUME NEW t \in Txn, Waiting(t), UNCHANGED <<data, state, observed, writeSet>>,
           NEW reason \in {"stale", "conflict", "error"}, Answered(t, Aborted(reason))
    PROVE  [Serial!Next]_(Serial!vars)
<1>1. outcome[t] = "open"
  BY OpenOutcome DEF Waiting, outcome
<1>2. /\ Outcome(t)' = "aborted"
      /\ \A u \in Txn \ {t} : Outcome(u)' = Outcome(u)
  BY DEF Outcome, IsCommitted, Answered, Aborted
<1>3. outcome' = [outcome EXCEPT ![t] = "aborted"] /\ UNCHANGED db
  BY <1>2 DEF outcome, db
<1>4. Serial!Abort(t)
  BY <1>1, <1>3 DEF Serial!Abort, outcome, db
<1> QED
  BY <1>4, SerialOperators DEF Serial!Next

\* The serial store commits in the step in which ApplyCommit changes data.
LEMMA CommitRefines ==
    ASSUME ExecTypeOK, HistoryInv, NEW t \in Txn, Waiting(t),
           UNCHANGED <<state, observed, writeSet>>, NEW seq \in Nat,
           \A r \in readSet[t] : r.versionSeen = data[r.key].version,
           Answered(t, Committed(seq)),
           data' = Installed(t, seq)
    PROVE  [Serial!Next]_(Serial!vars)
<1>1. outcome[t] = "open"
  BY OpenOutcome DEF Waiting, outcome
<1>2. /\ Outcome(t)' = "committed"
      /\ \A u \in Txn \ {t} : Outcome(u)' = Outcome(u)
  BY DEF Outcome, IsCommitted, Committed, Answered
<1>3. outcome' = [outcome EXCEPT ![t] = "committed"]
  BY <1>2 DEF outcome
<1>4. db' = [k \in Key |-> IF k \in KeysOf(writeSet[t])
                          THEN LastWrite(writeSet[t], k).value ELSE db[k]]
  <2>1. ASSUME NEW k \in Key, Writes(t, k)
        PROVE  data'[k].value = LastWrite(writeSet[t], k).value
    <3> DEFINE v == LastWrite(writeSet[t], k).value
    <3>1. data'[k] = [value |-> v, version |-> seq]
      BY <2>1 DEF Installed
    <3> HIDE DEF v
    <3>2. data'[k].value = v
      BY <3>1
    <3> QED
      BY <3>2 DEF v
  <2>2. \A k \in Key : ~ Writes(t, k) => data'[k].value = data[k].value
    BY DEF Installed
  <2> QED
    BY <2>1, <2>2 DEF db, Writes
<1>5. \A o \in observed[t] : db[o.key] = o.value
  <2> SUFFICES ASSUME NEW o \in observed[t] PROVE data[o.key].value = o.value /\ o.key \in Key
    BY DEF db
  <2>1. PICK r \in readSet[t] : r.key = o.key
    BY DEF HistoryInv, ReadsRecorded, Seen
  <2>2. o.key \in Key
    BY DEF ExecTypeOK, Observation
  <2> QED
    BY <2>1, <2>2 DEF HistoryInv, ObservedCurrent
<1>6. Serial!Commit(t)
  BY <1>1, <1>3, <1>4, <1>5, SerialOperators DEF Serial!Commit, db, outcome
<1> QED
  BY <1>6, SerialOperators DEF Serial!Next
=============================================================================
