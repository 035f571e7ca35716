--------------------------- MODULE LivePatchProofs ---------------------------
(***************************************************************************)
(* LivePatch's invariants and what its steps respect, for any number of    *)
(* deliveries, rollbacks, reloads and faults of the storage and for every  *)
(* limit of the log.  The argument: IInv of module LivePatch is inductive. *)
(* First the operators on logs, then what a logged row, a stored row and a *)
(* merge do to the parts of IInv, then the actions.                        *)
(***************************************************************************)
EXTENDS LivePatch, Integers, FiniteSetTheorems, SequenceTheorems, TLAPS

\* Where the last n elements of a sequence are.
LEMMA EndsIs ==
  ASSUME NEW s \in Seq(Row), NEW n \in 0..Len(s)
  PROVE  /\ Ends(s, n) \in Seq(Row)
         /\ Len(Ends(s, n)) = n
         /\ \A i \in 1..n : Ends(s, n)[i] = s[Len(s) - n + i]
<1>1. n \in Nat /\ Len(s) \in Nat /\ n <= Len(s)
  BY LenProperties
<1>2. \A i \in 1..n : Len(s) - n + i \in 1..Len(s)
  BY <1>1
<1>3. \A i \in 1..n : s[Len(s) - n + i] \in Row
  BY <1>2, ElementOfSeq
<1>4. Ends(s, n) \in [1..n -> Row]
  BY <1>3 DEF Ends
<1>5. Ends(s, n) \in Seq(Row) /\ Len(Ends(s, n)) = n
  BY <1>1, <1>4
<1>6. QED
  BY <1>5 DEF Ends

\* A trimmed log is the end of the log, no longer than the limit.
LEMMA TrimmedIs ==
  ASSUME NEW s \in Seq(Row)
  PROVE  LET n == Least(Len(s), MaxRowsKept) IN
         /\ n \in 0..Len(s) /\ n <= MaxRowsKept
         /\ Trimmed(s) \in Seq(Row)
         /\ Len(Trimmed(s)) = n
         /\ \A i \in 1..n : Trimmed(s)[i] = s[Len(s) - n + i]
         /\ Trimmed(s) = Ends(s, n)
<1> DEFINE n == Least(Len(s), MaxRowsKept)
<1>1. MaxRowsKept \in Nat /\ MaxRowsKept >= 1 /\ Len(s) \in Nat
  BY LivePatchAssumption, LenProperties
<1>2. n \in 0..Len(s) /\ n <= MaxRowsKept
  BY <1>1 DEF Least
<1>3. /\ Trimmed(s) \in Seq(Row)
      /\ Len(Trimmed(s)) = n
      /\ \A i \in 1..n : Trimmed(s)[i] = s[Len(s) - n + i]
  <2>1. CASE Len(s) <= MaxRowsKept
    <3>1. n = Len(s) /\ Trimmed(s) = s
      BY <2>1 DEF Least, Trimmed
    <3>2. \A i \in 1..n : Len(s) - n + i = i
      BY <3>1, <1>1
    <3>3. QED
      BY <3>1, <3>2
  <2>2. CASE ~(Len(s) <= MaxRowsKept)
    <3> DEFINE m == Len(s) - MaxRowsKept + 1
    <3>1. n = MaxRowsKept /\ Trimmed(s) = SubSeq(s, m, Len(s))
      BY <2>2 DEF Least, Trimmed
    <3>2. /\ m \in Int /\ Len(s) \in Int /\ m <= Len(s)
          /\ Len(s) - m + 1 = n
          /\ \A i \in m..Len(s) : i \in 1..Len(s)
          /\ \A i \in 1..n : m + i - 1 = Len(s) - n + i
      BY <1>1, <2>2, <3>1
    <3>3. \A i \in m..Len(s) : s[i] \in Row
      BY <3>2, ElementOfSeq
    <3> HIDE DEF m, n
    <3>4. /\ SubSeq(s, m, Len(s)) \in Seq(Row)
          /\ Len(SubSeq(s, m, Len(s))) = IF m <= Len(s) THEN Len(s) - m + 1 ELSE 0
          /\ \A i \in 1..(Len(s) - m + 1) : SubSeq(s, m, Len(s))[i] = s[m + i - 1]
      BY <3>2, <3>3, SubSeqProperties
    <3>5. QED
      BY <3>1, <3>2, <3>4
  <2>3. QED
    BY <2>1, <2>2
<1> HIDE DEF n
<1>4. /\ Ends(s, n) \in Seq(Row)
      /\ Len(Ends(s, n)) = n
      /\ \A i \in 1..n : Ends(s, n)[i] = s[Len(s) - n + i]
  BY <1>2, EndsIs
<1>5. Trimmed(s) = Ends(s, n)
  <2>1. Len(Trimmed(s)) = Len(Ends(s, n))
    BY <1>3, <1>4
  <2>2. \A i \in 1..Len(Trimmed(s)) : Trimmed(s)[i] = Ends(s, n)[i]
    BY <1>3, <1>4
  <2>3. QED
    BY <1>3, <1>4, <2>1, <2>2, SeqEqual
<1>6. QED
  BY <1>2, <1>3, <1>5 DEF n

\* A sequence holds what stands at its places.
LEMMA Members ==
  ASSUME NEW s \in Seq(Row)
  PROVE  /\ Len(s) \in Nat /\ DOMAIN s = 1..Len(s)
         /\ \A r : r \in ToSet(s) <=> \E i \in 1..Len(s) : s[i] = r
         /\ \A i \in 1..Len(s) : s[i] \in ToSet(s) /\ s[i] \in Row
         /\ ToSet(s) \subseteq Row
         /\ IsInjective(s) <=> \A i, j \in 1..Len(s) : s[i] = s[j] => i = j
<1>1. Len(s) \in Nat /\ DOMAIN s = 1..Len(s) /\ \A i \in 1..Len(s) : s[i] \in Row
  BY LenProperties, ElementOfSeq
<1>2. \A r : r \in ToSet(s) <=> \E i \in 1..Len(s) : s[i] = r
  BY <1>1 DEF ToSet
<1>3. IsInjective(s) <=> \A i, j \in 1..Len(s) : s[i] = s[j] => i = j
  BY <1>1 DEF IsInjective
<1>4. QED
  BY <1>1, <1>2, <1>3

\* Trimming keeps the order, adds nothing, and drops nothing before the limit.
LEMMA TrimmedHolds ==
  ASSUME NEW s \in Seq(Row)
  PROVE  /\ ToSet(Trimmed(s)) \subseteq ToSet(s)
         /\ IsInjective(s) => IsInjective(Trimmed(s))
         /\ ToSet(s) \subseteq ToSet(Trimmed(s)) \/ Len(Trimmed(s)) = MaxRowsKept
         /\ Len(s) <= MaxRowsKept => Trimmed(s) = s
<1> DEFINE n == Least(Len(s), MaxRowsKept)
           t == Trimmed(s)
<1>1. /\ n \in 0..Len(s) /\ t \in Seq(Row) /\ Len(t) = n
      /\ \A i \in 1..n : t[i] = s[Len(s) - n + i]
  BY TrimmedIs
<1>2. /\ Len(s) \in Nat /\ MaxRowsKept \in Nat
      /\ Len(s) <= MaxRowsKept => t = s
      /\ ~(Len(s) <= MaxRowsKept) => n = MaxRowsKept
  BY LivePatchAssumption, LenProperties DEF Trimmed, Least
<1> HIDE DEF n, t
<1>3. \A i \in 1..n : Len(s) - n + i \in 1..Len(s)
  BY <1>1, <1>2
<1>4. ToSet(t) \subseteq ToSet(s)
  <2>1. SUFFICES ASSUME NEW r \in ToSet(t) PROVE r \in ToSet(s)
    OBVIOUS
  <2>2. PICK i \in 1..n : t[i] = r
    BY <1>1, Members
  <2>3. s[Len(s) - n + i] = r /\ Len(s) - n + i \in 1..Len(s)
    BY <1>1, <1>3, <2>2
  <2>4. QED
    BY <2>3, Members
<1>5. IsInjective(s) => IsInjective(t)
  <2>1. SUFFICES ASSUME IsInjective(s), NEW i \in 1..n, NEW j \in 1..n, t[i] = t[j]
                 PROVE  i = j
    BY <1>1, Members
  <2>2. s[Len(s) - n + i] = s[Len(s) - n + j]
    BY <1>1, <2>1
  <2>3. Len(s) - n + i = Len(s) - n + j
    BY <1>3, <2>1, <2>2, Members
  <2>4. QED
    BY <1>1, <1>2, <2>3
<1>6. QED
  BY <1>1, <1>2, <1>4, <1>5 DEF t

\* A row put on a trimmed log.
LEMMA LoggedIs ==
  ASSUME NEW s \in Seq(Row), NEW r \in Row
  PROVE  /\ Append(s, r) \in Seq(Row)
         /\ Len(Append(s, r)) = Len(s) + 1
         /\ \A i \in 1..Len(s) : Append(s, r)[i] = s[i]
         /\ Append(s, r)[Len(s) + 1] = r
         /\ ToSet(Append(s, r)) = ToSet(s) \cup {r}
         /\ IsInjective(s) /\ r \notin ToSet(s) => IsInjective(Append(s, r))
<1> DEFINE t == Append(s, r)
<1>1. /\ t \in Seq(Row) /\ Len(t) = Len(s) + 1
      /\ \A i \in 1..Len(s) : t[i] = s[i]
      /\ t[Len(s) + 1] = r
  BY AppendProperties
<1> HIDE DEF t
<1>2. Len(s) \in Nat /\ \A i : i \in 1..Len(t) <=> i \in 1..Len(s) \/ i = Len(s) + 1
  BY <1>1, LenProperties
<1>3. ToSet(t) = ToSet(s) \cup {r}
  <2>1. \A x : x \in ToSet(t) <=> \E i \in 1..Len(t) : t[i] = x
    BY <1>1, Members
  <2>2. \A x : x \in ToSet(s) <=> \E i \in 1..Len(s) : s[i] = x
    BY Members
  <2>3. \A x : x \in ToSet(t) <=> x \in ToSet(s) \/ x = r
    BY <1>1, <1>2, <2>1, <2>2
  <2>4. QED
    BY <2>3
<1>4. ASSUME IsInjective(s), r \notin ToSet(s)
      PROVE  IsInjective(t)
  <2>1. /\ \A i, j \in 1..Len(s) : s[i] = s[j] => i = j
        /\ \A i \in 1..Len(s) : s[i] # r
    BY <1>4, Members
  <2>2. \A i, j \in 1..Len(t) : t[i] = t[j] => i = j
    BY <1>1, <1>2, <2>1
  <2>3. QED
    BY <1>1, <2>2, Members
<1>5. QED
  BY <1>1, <1>3, <1>4 DEF t

\* A row is about a delivery or it is the marker of a rollback.
LEMMA RowKinds ==
  ASSUME NEW r \in Row
  PROVE  /\ r.kind \in {"patch", "rollback"}
         /\ r.kind = "patch" => r.n \in Nat /\ r.id \in Patches /\ r.prev \in {"on", "off", ""}
         /\ r.kind = "rollback" => \E n \in 1..MaxRollbacks : r = RollbackRow(n)
         /\ r.n \in Nat
<1>1. CASE r \in [kind : {"patch"}, n : Nat, id : Patches,
                  verdict : {"applied", "rejected", "duplicate"}, prev : {"on", "off", ""}]
  <2>1. r.kind = "patch" /\ r.n \in Nat /\ r.id \in Patches /\ r.prev \in {"on", "off", ""}
    BY <1>1
  <2>2. QED
    BY <2>1
<1>2. CASE r \in {RollbackRow(n) : n \in 1..MaxRollbacks}
  <2>1. PICK n \in 1..MaxRollbacks : r = RollbackRow(n)
    BY <1>2
  <2>2. r.kind = "rollback" /\ r.n = n
    BY <2>1 DEF RollbackRow
  <2>3. n \in Nat
    BY LivePatchAssumption
  <2>4. QED
    BY <2>1, <2>2, <2>3
<1>3. QED
  BY <1>1, <1>2 DEF Row

\* A log with all rows told apart by their keys has no more rows than deliveries
\* and rollbacks.
LEMMA KeysBound ==
  ASSUME NEW s \in Seq(Row), IsInjective(s), NEW a \in Nat, NEW b \in Nat,
         \A i \in 1..Len(s) : s[i].n \in 1..(IF s[i].kind = "patch" THEN a ELSE b),
         \A i, j \in 1..Len(s) : s[i].kind = s[j].kind /\ s[i].n = s[j].n => s[i] = s[j]
  PROVE  Len(s) <= a + b
<1> DEFINE f == [i \in 1..Len(s) |-> IF s[i].kind = "patch" THEN s[i].n ELSE a + s[i].n]
<1>1. Len(s) \in Nat /\ \A i \in 1..Len(s) : s[i] \in Row
  BY Members
<1>2. \A r \in Row : r.kind \in {"patch", "rollback"}
  BY RowKinds
<1>3. \A i \in 1..Len(s) :
        /\ s[i].kind = "patch" => f[i] \in 1..a /\ f[i] = s[i].n
        /\ s[i].kind # "patch" => f[i] \in (a + 1)..(a + b) /\ f[i] = a + s[i].n
  OBVIOUS
<1>4. f \in [1..Len(s) -> 1..(a + b)]
  <2>1. \A i \in 1..Len(s) : f[i] \in 1..(a + b)
    <3>1. 1..a \subseteq 1..(a + b) /\ (a + 1)..(a + b) \subseteq 1..(a + b)
      OBVIOUS
    <3>2. QED
      BY <1>3, <3>1
  <2>2. QED
    BY <2>1
<1>5. \A i, j \in 1..Len(s) : f[i] = f[j] => i = j
  <2>1. SUFFICES ASSUME NEW i \in 1..Len(s), NEW j \in 1..Len(s), f[i] = f[j]
                 PROVE  i = j
    OBVIOUS
  <2>2. s[i].kind = s[j].kind /\ s[i].n = s[j].n
    <3>1. CASE s[i].kind = "patch" /\ s[j].kind = "patch"
      BY <1>3, <2>1, <3>1
    <3>2. CASE s[i].kind # "patch" /\ s[j].kind # "patch"
      <4>1. s[i].kind = "rollback" /\ s[j].kind = "rollback"
        BY <1>1, <1>2, <3>2
      <4>2. a + s[i].n = a + s[j].n /\ s[i].n \in 1..b /\ s[j].n \in 1..b
        BY <1>3, <2>1, <3>2
      <4>3. s[i].n = s[j].n
        BY <4>2
      <4>4. QED
        BY <4>1, <4>3
    <3>3. CASE s[i].kind = "patch" /\ s[j].kind # "patch"
      <4>1. f[i] \in 1..a /\ f[j] \in (a + 1)..(a + b)
        BY <1>3, <3>3
      <4>2. QED
        BY <2>1, <4>1
    <3>4. CASE s[i].kind # "patch" /\ s[j].kind = "patch"
      <4>1. f[j] \in 1..a /\ f[i] \in (a + 1)..(a + b)
        BY <1>3, <3>4
      <4>2. QED
        BY <2>1, <4>1
    <3>5. QED
      BY <3>1, <3>2, <3>3, <3>4
  <2>3. s[i] = s[j]
    BY <2>2
  <2>4. QED
    BY <2>3, Members
<1> HIDE DEF f
<1>6. f \in Injection(1..Len(s), 1..(a + b))
  BY <1>4, <1>5 DEF Injection, IsInjective
<1>7. /\ IsFiniteSet(1..(a + b)) /\ Cardinality(1..(a + b)) = a + b
      /\ Cardinality(1..Len(s)) = Len(s)
  <2>1. 1 \in Int /\ a + b \in Int /\ Len(s) \in Int /\ a + b >= 0 /\ Len(s) >= 0
    BY <1>1
  <2> HIDE DEF f
  <2>2. /\ IsFiniteSet(1..(a + b))
        /\ Cardinality(1..(a + b)) = IF 1 > a + b THEN 0 ELSE a + b - 1 + 1
    BY <2>1, FS_Interval
  <2>3. Cardinality(1..Len(s)) = IF 1 > Len(s) THEN 0 ELSE Len(s) - 1 + 1
    BY <2>1, FS_Interval
  <2>4. QED
    BY <2>1, <2>2, <2>3
<1>8. QED
  BY <1>6, <1>7, FS_Injection
\* How many members of S are not above j.
Rank(S, j) == Cardinality({i \in S : i <= j})

\* Ranks grow with the members.
LEMMA RankGrows ==
  ASSUME NEW S, S \subseteq Int, IsFiniteSet(S), NEW i \in S, NEW j \in S, i < j
  PROVE  Rank(S, i) < Rank(S, j)
<1> DEFINE A == {k \in S : k <= i}
           B == {k \in S : k <= j}
<1>1. IsFiniteSet(B)
  BY FS_Subset
<1>2. A \subseteq B /\ j \in B /\ j \notin A
  <2>1. i \in Int /\ j \in Int /\ \A k \in S : k \in Int
    OBVIOUS
  <2>2. \A k \in S : k <= i => k <= j
    BY <2>1
  <2>3. j <= j /\ ~(j <= i)
    BY <2>1
  <2>4. QED
    BY <2>2, <2>3
<1> HIDE DEF A, B
<1>3. /\ Cardinality(A) <= Cardinality(B)
      /\ Cardinality(A) = Cardinality(B) => A = B
  BY <1>1, <1>2, FS_Subset
<1>4. Cardinality(A) \in Nat /\ Cardinality(B) \in Nat
  BY <1>1, <1>2, FS_Subset, FS_CardinalityType
<1>5. Cardinality(A) < Cardinality(B)
  BY <1>2, <1>3, <1>4
<1>6. QED
  BY <1>5 DEF A, B, Rank

\* Every rank is taken once: by the pigeonhole principle, for ranks differ.
LEMMA RankTaken ==
  ASSUME NEW S, S \subseteq Int, IsFiniteSet(S)
  PROVE  /\ Cardinality(S) \in Nat
         /\ \A j \in S : Rank(S, j) \in 1..Cardinality(S)
         /\ \A i, j \in S : Rank(S, i) = Rank(S, j) => i = j
         /\ \A n \in 1..Cardinality(S) : \E j \in S : Rank(S, j) = n
<1> DEFINE N == Cardinality(S)
           f == [j \in S |-> Rank(S, j)]
<1>1. N \in Nat
  BY FS_CardinalityType
<1>2. \A j \in S : Rank(S, j) \in 1..N
  <2>1. SUFFICES ASSUME NEW j \in S
                 PROVE  Rank(S, j) \in 1..N
    OBVIOUS
  <2> DEFINE A == {i \in S : i <= j}
  <2>2. A \in SUBSET S /\ j \in A
    OBVIOUS
  <2> HIDE DEF A
  <2>3. IsFiniteSet(A) /\ Cardinality(A) <= N
    BY <2>2, FS_Subset
  <2>4. Cardinality(A) \in Nat /\ (Cardinality(A) = 0 <=> A = {})
    BY <2>3, FS_CardinalityType, FS_EmptySet
  <2>5. Cardinality(A) \in 1..N
    BY <1>1, <2>2, <2>3, <2>4
  <2>6. QED
    BY <2>5 DEF Rank, A
<1>3. f \in [S -> 1..N]
  BY <1>2
<1>4. \A i, j \in S : Rank(S, i) = Rank(S, j) => i = j
  <2>1. SUFFICES ASSUME NEW i \in S, NEW j \in S, Rank(S, i) = Rank(S, j), i < j \/ j < i
                 PROVE  FALSE
    OBVIOUS
  <2>2. Rank(S, i) \in 1..N /\ Rank(S, j) \in 1..N
    BY <1>2
  <2>3. Rank(S, i) < Rank(S, j) \/ Rank(S, j) < Rank(S, i)
    BY <2>1, RankGrows
  <2>4. QED
    BY <2>1, <2>2, <2>3
<1>5. f \in Injection(S, 1..N)
  BY <1>3, <1>4 DEF Injection, IsInjective
<1>6. IsFiniteSet(1..N) /\ Cardinality(1..N) = N
  BY <1>1, FS_Interval
<1>7. f \in Surjection(S, 1..N)
  BY <1>5, <1>6, FS_Injection
<1>8. \A n \in 1..N : \E j \in S : f[j] = n
  BY <1>7 DEF Surjection
<1>9. QED
  BY <1>1, <1>2, <1>4, <1>8

\* The rows that were not found: those and no others, once, in their order.
LEMMA UnfoundIs ==
  ASSUME rows \in Seq(Row), NEW found
  PROVE  LET u == Unfound(found) IN
         /\ u \in Seq(Row)
         /\ \A r : r \in ToSet(u) <=> r \in ToSet(rows) /\ r \notin ToSet(found)
         /\ IsInjective(rows) => IsInjective(u)
         /\ \A a \in 0..Len(rows) :
              (\A i \in 1..Len(rows) : rows[i] \notin ToSet(found) <=> i > a) =>
                Len(u) = Len(rows) - a /\ \A n \in 1..Len(u) : u[n] = rows[a + n]
<1> DEFINE new == {i \in DOMAIN rows : rows[i] \notin ToSet(found)}
           N == Cardinality(new)
           u == Unfound(found)
           pos == [n \in 1..N |-> CHOOSE i \in new : Rank(new, i) = n]
<1>1. Len(rows) \in Nat /\ DOMAIN rows = 1..Len(rows) /\ \A i \in 1..Len(rows) : rows[i] \in Row
  BY Members
<1>2. IsFiniteSet(1..Len(rows)) /\ new \subseteq 1..Len(rows) /\ 1..Len(rows) \subseteq Int
  BY <1>1, FS_Interval
<1>3. IsFiniteSet(new) /\ new \subseteq Int
  BY <1>2, FS_Subset
<1>4. u = [n \in 1..N |-> rows[CHOOSE i \in new : Rank(new, i) = n]]
  BY DEF Unfound, Rank
<1>5. \A n \in 1..N : u[n] = rows[pos[n]]
  BY <1>4
<1> HIDE DEF u
<1>6. /\ N \in Nat
      /\ \A j \in new : Rank(new, j) \in 1..N
      /\ \A i, j \in new : Rank(new, i) = Rank(new, j) => i = j
      /\ \A n \in 1..N : \E j \in new : Rank(new, j) = n
  BY <1>3, RankTaken
<1>7. \A n \in 1..N : pos[n] \in new /\ Rank(new, pos[n]) = n
  <2>1. SUFFICES ASSUME NEW n \in 1..N
                 PROVE  pos[n] \in new /\ Rank(new, pos[n]) = n
    OBVIOUS
  <2>2. \E j \in new : Rank(new, j) = n
    BY <1>6
  <2>3. pos[n] = CHOOSE i \in new : Rank(new, i) = n
    OBVIOUS
  <2> HIDE DEF new, pos
  <2>4. QED
    BY <2>2, <2>3
<1> HIDE DEF pos, N
<1>8. \A n \in 1..N : u[n] \in Row
  BY <1>1, <1>2, <1>5, <1>7
<1>9. u \in Seq(Row) /\ Len(u) = N
  <2>1. u \in [1..N -> Row]
    BY <1>4, <1>8
  <2>2. QED
    BY <1>6, <2>1
<1>10. \A r : r \in ToSet(u) <=> r \in ToSet(rows) /\ r \notin ToSet(found)
  <2>1. \A r : r \in ToSet(u) <=> \E n \in 1..N : u[n] = r
    BY <1>9, Members
  <2>2. \A r : r \in ToSet(rows) <=> \E i \in 1..Len(rows) : rows[i] = r
    BY Members
  <2>3. ASSUME NEW n \in 1..N
        PROVE  u[n] \in ToSet(rows) /\ u[n] \notin ToSet(found)
    <3>1. pos[n] \in new /\ u[n] = rows[pos[n]]
      BY <1>5, <1>7
    <3>2. QED
      BY <1>1, <2>2, <3>1
  <2>4. ASSUME NEW i \in 1..Len(rows), rows[i] \notin ToSet(found)
        PROVE  \E n \in 1..N : u[n] = rows[i]
    <3>1. i \in new
      BY <1>1, <2>4
    <3>2. Rank(new, i) \in 1..N /\ Rank(new, pos[Rank(new, i)]) = Rank(new, i)
      BY <1>6, <1>7, <3>1
    <3>3. pos[Rank(new, i)] = i
      BY <1>6, <1>7, <3>1, <3>2
    <3>4. QED
      BY <1>5, <3>2, <3>3
  <2>5. QED
    BY <2>1, <2>2, <2>3, <2>4
<1>11. ASSUME IsInjective(rows)
       PROVE  IsInjective(u)
  <2>1. SUFFICES ASSUME NEW m \in 1..N, NEW n \in 1..N, u[m] = u[n]
                 PROVE  m = n
    BY <1>9, Members
  <2>2. rows[pos[m]] = rows[pos[n]] /\ pos[m] \in 1..Len(rows) /\ pos[n] \in 1..Len(rows)
    BY <1>2, <1>5, <1>7, <2>1
  <2>3. pos[m] = pos[n]
    BY <1>11, <2>2, Members
  <2>4. QED
    BY <1>7, <2>3
<1>12. ASSUME NEW a \in 0..Len(rows),
              \A i \in 1..Len(rows) : rows[i] \notin ToSet(found) <=> i > a
       PROVE  Len(u) = Len(rows) - a /\ \A n \in 1..Len(u) : u[n] = rows[a + n]
  <2>1. new = (a + 1)..Len(rows)
    BY <1>1, <1>12
  <2>2. a + 1 \in Int /\ Len(rows) \in Int /\ a \in Int /\ a <= Len(rows)
    BY <1>1
  <2>3. Cardinality((a + 1)..Len(rows)) = IF a + 1 > Len(rows) THEN 0 ELSE Len(rows) - (a + 1) + 1
    BY <2>2, FS_Interval
  <2>4. N = Len(rows) - a
    <3>1. N = Cardinality((a + 1)..Len(rows))
      BY <2>1 DEF N
    <3> HIDE DEF new
    <3>2. QED
      BY <2>2, <2>3, <3>1
  <2>5. ASSUME NEW n \in 1..N
        PROVE  pos[n] = a + n
    <3>1. a + n \in new
      BY <2>1, <2>2, <2>4
    <3>2. {i \in new : i <= a + n} = (a + 1)..(a + n)
      BY <2>1, <2>2, <2>4
    <3>3. a + n \in Int /\ n \in Nat /\ n >= 1
      BY <2>2
    <3>4. Cardinality((a + 1)..(a + n)) = IF a + 1 > a + n THEN 0 ELSE (a + n) - (a + 1) + 1
      BY <2>2, <3>3, FS_Interval
    <3>5. Cardinality((a + 1)..(a + n)) = n
      BY <2>2, <3>3, <3>4
    <3>6. Rank(new, a + n) = n
      BY <3>2, <3>5 DEF Rank
    <3>7. QED
      BY <1>6, <1>7, <3>1, <3>6
  <2>6. QED
    BY <1>5, <1>9, <2>4, <2>5
<1>13. QED
  BY <1>9, <1>10, <1>11, <1>12 DEF u
\* The story is the durable log and then the rows on their way.
LEMMA StoryIs ==
  ASSUME durable \in Seq(Row), writes \in Seq(Row)
  PROVE  /\ Story \in Seq(Row)
         /\ Len(Story) = Len(durable) + Len(writes)
         /\ \A i \in 1..Len(durable) : Story[i] = durable[i]
         /\ \A i \in 1..Len(writes) : Story[Len(durable) + i] = writes[i]
         /\ ToSet(Story) = ToSet(durable) \cup ToSet(writes)
<1> DEFINE D == Len(durable)
           W == Len(writes)
<1>1. /\ Story \in Seq(Row)
      /\ Len(Story) = D + W
      /\ \A i \in 1..(D + W) : Story[i] = IF i <= D THEN durable[i] ELSE writes[i - D]
  BY ConcatProperties, Zenon DEF Story
<1>2. D \in Nat /\ W \in Nat
  BY LenProperties
<1> HIDE DEF D, W
<1>3. \A i \in 1..D : i \in 1..(D + W) /\ i <= D
  BY <1>2
<1>4. \A i \in 1..W : D + i \in 1..(D + W) /\ ~(D + i <= D) /\ (D + i) - D = i
  BY <1>2
<1>5. \A i \in 1..D : Story[i] = durable[i]
  BY <1>1, <1>3
<1>6. \A i \in 1..W : Story[D + i] = writes[i]
  BY <1>1, <1>4
<1>7. ToSet(Story) = ToSet(durable) \cup ToSet(writes)
  <2>1. /\ \A x : x \in ToSet(Story) <=> \E i \in 1..(D + W) : Story[i] = x
        /\ \A x : x \in ToSet(durable) <=> \E i \in 1..D : durable[i] = x
        /\ \A x : x \in ToSet(writes) <=> \E i \in 1..W : writes[i] = x
    <3>1. \A x : x \in ToSet(Story) <=> \E i \in 1..Len(Story) : Story[i] = x
      BY <1>1, Members
    <3>2. \A x : x \in ToSet(durable) <=> \E i \in 1..D : durable[i] = x
      BY Members DEF D
    <3>3. \A x : x \in ToSet(writes) <=> \E i \in 1..W : writes[i] = x
      BY Members DEF W
    <3>4. Len(Story) = D + W
      BY <1>1
    <3>5. QED
      BY <3>1, <3>2, <3>3, <3>4
  <2>2. \A i \in 1..(D + W) : i \in 1..D \/ \E j \in 1..W : i = D + j
    <3>1. \A i \in 1..(D + W) : i \in 1..D \/ (i - D \in 1..W /\ i = D + (i - D))
      BY <1>2
    <3>2. QED
      BY <3>1
  <2>3. \A x : x \in ToSet(Story) => x \in ToSet(durable) \/ x \in ToSet(writes)
    BY <1>5, <1>6, <2>1, <2>2
  <2>4. \A x : x \in ToSet(durable) \/ x \in ToSet(writes) => x \in ToSet(Story)
    BY <1>3, <1>4, <1>5, <1>6, <2>1
  <2>5. QED
    BY <2>3, <2>4
<1>8. QED
  BY <1>1, <1>5, <1>6, <1>7 DEF D, W

\* No row is twice in the story when none is twice in its parts.
LEMMA StoryInjective ==
  ASSUME durable \in Seq(Row), writes \in Seq(Row), IsInjective(durable), IsInjective(writes),
         ToSet(durable) \cap ToSet(writes) = {}
  PROVE  IsInjective(Story)
<1> DEFINE D == Len(durable)
           W == Len(writes)
<1>1. /\ Story \in Seq(Row) /\ Len(Story) = D + W
      /\ \A i \in 1..D : Story[i] = durable[i]
      /\ \A i \in 1..W : Story[D + i] = writes[i]
  BY StoryIs
<1>2. /\ \A i, j \in 1..D : durable[i] = durable[j] => i = j
      /\ \A i \in 1..D : durable[i] \in ToSet(durable)
  BY Members
<1>3. /\ \A i, j \in 1..W : writes[i] = writes[j] => i = j
      /\ \A i \in 1..W : writes[i] \in ToSet(writes)
  BY Members
<1>4. D \in Nat /\ W \in Nat
  BY LenProperties
<1> HIDE DEF D, W
<1>5. \A i \in 1..(D + W) : i \in 1..D \/ \E n \in 1..W : i = D + n
  <2>1. \A i \in 1..(D + W) : i \in 1..D \/ (i - D \in 1..W /\ i = D + (i - D))
    BY <1>4
  <2>2. QED
    BY <2>1
<1>6. SUFFICES ASSUME NEW a \in 1..(D + W), NEW b \in 1..(D + W), Story[a] = Story[b]
               PROVE  a = b
  BY <1>1, Members
<1>7. CASE a \in 1..D /\ b \in 1..D
  BY <1>1, <1>2, <1>6, <1>7
<1>8. CASE a \in 1..D /\ b \notin 1..D
  BY <1>1, <1>2, <1>3, <1>5, <1>6, <1>8, SMTT(60)
<1>9. CASE a \notin 1..D /\ b \in 1..D
  BY <1>1, <1>2, <1>3, <1>5, <1>6, <1>9
<1>10. CASE a \notin 1..D /\ b \notin 1..D
  <2>1. PICK m \in 1..W : a = D + m
    BY <1>5, <1>10
  <2>2. PICK n \in 1..W : b = D + n
    BY <1>5, <1>10
  <2>3. m = n
    BY <1>1, <1>3, <1>6, <2>1, <2>2, SMTT(60)
  <2>4. QED
    BY <2>1, <2>2, <2>3
<1>11. QED
  BY <1>7, <1>8, <1>9, <1>10

\* Logging a row puts it at the end of the story.
LEMMA StoryLogs ==
  ASSUME durable \in Seq(Row), writes \in Seq(Row), NEW r \in Row,
         writes' = Append(writes, r), durable' = durable
  PROVE  /\ Story' = Append(Story, r)
         /\ Story' \in Seq(Row)
         /\ Len(Story') = Len(Story) + 1
         /\ \A i \in 1..Len(Story) : Story'[i] = Story[i]
         /\ Story'[Len(Story) + 1] = r
<1>1. Append(writes, r) = writes \o <<r>> /\ Story \in Seq(Row) /\ <<r>> \in Seq(Row)
  BY AppendIsConcat, StoryIs
<1>2. Story' = durable \o (writes \o <<r>>)
  BY <1>1 DEF Story
<1>3. durable \o (writes \o <<r>>) = (durable \o writes) \o <<r>>
  BY <1>1, ConcatAssociative
<1>4. Append(Story, r) = Story \o <<r>>
  BY <1>1, AppendIsConcat
<1>5. Story' = Append(Story, r)
  BY <1>2, <1>3, <1>4 DEF Story
<1>6. QED
  BY <1>1, <1>5, AppendProperties

\* Storing a row takes at most the oldest row off the story, when the durable log
\* is full.
LEMMA StoryStored ==
  ASSUME durable \in Seq(Row), writes \in Seq(Row), Len(durable) <= MaxRowsKept,
         writes # <<>>, writes' = Tail(writes),
         durable' = Trimmed(Append(durable, Head(writes)))
  PROVE  LET c == IF Len(durable) = MaxRowsKept THEN 1 ELSE 0 IN
         /\ durable' \in Seq(Row) /\ writes' \in Seq(Row)
         /\ Len(writes') = Len(writes) - 1 /\ Len(writes) > 0
         /\ Len(durable') = Len(durable) + 1 - c
         /\ Story' \in Seq(Row)
         /\ Len(Story') = Len(Story) - c
         /\ \A i \in 1..Len(Story') : Story'[i] = Story[i + c]
         /\ ToSet(writes') \subseteq ToSet(writes)
         /\ Head(writes) \in ToSet(writes)
         /\ ToSet(durable') \subseteq ToSet(durable) \cup {Head(writes)}
<1> DEFINE c == IF Len(durable) = MaxRowsKept THEN 1 ELSE 0
           D == Len(durable)
           W == Len(writes)
           h == Head(writes)
<1>1. MaxRowsKept \in Nat /\ MaxRowsKept >= 1 /\ D \in Nat /\ W \in Nat
  BY LivePatchAssumption, LenProperties
<1>2. /\ h \in Row /\ writes' \in Seq(Row) /\ Len(writes') = W - 1
      /\ \A i \in 1..(W - 1) : writes'[i] = writes[i + 1]
  BY HeadTailProperties
<1>3. W > 0 /\ h = writes[1]
  BY <1>1, EmptySeq
<1>4. /\ Append(durable, h) \in Seq(Row) /\ Len(Append(durable, h)) = D + 1
      /\ \A i \in 1..D : Append(durable, h)[i] = durable[i]
      /\ Append(durable, h)[D + 1] = h
      /\ ToSet(Append(durable, h)) = ToSet(durable) \cup {h}
  BY <1>2, LoggedIs
<1>5. Least(D + 1, MaxRowsKept) = D + 1 - c
  <2>1. CASE D = MaxRowsKept
    BY <1>1, <2>1 DEF Least
  <2>2. CASE D < MaxRowsKept
    <3>1. c = 0 /\ D + 1 <= MaxRowsKept
      BY <1>1, <2>2
    <3> HIDE DEF c, D
    <3>2. Least(D + 1, MaxRowsKept) = D + 1
      BY <3>1 DEF Least
    <3>3. QED
      BY <1>1, <3>1, <3>2
  <2>3. QED
    BY <1>1, <2>1, <2>2
<1>6. /\ durable' \in Seq(Row) /\ Len(durable') = D + 1 - c
      /\ \A i \in 1..(D + 1 - c) : durable'[i] = Append(durable, h)[(D + 1) - (D + 1 - c) + i]
      /\ ToSet(durable') \subseteq ToSet(durable) \cup {h}
  <2>1. LET n == Least(Len(Append(durable, h)), MaxRowsKept) IN
        /\ Trimmed(Append(durable, h)) \in Seq(Row)
        /\ Len(Trimmed(Append(durable, h))) = n
        /\ \A i \in 1..n : Trimmed(Append(durable, h))[i]
                             = Append(durable, h)[Len(Append(durable, h)) - n + i]
    BY <1>4, TrimmedIs
  <2>2. ToSet(Trimmed(Append(durable, h))) \subseteq ToSet(Append(durable, h))
    BY <1>4, TrimmedHolds
  <2> HIDE DEF c, D
  <2>3. QED
    BY <1>4, <1>5, <2>1, <2>2
<1>7. /\ Story \in Seq(Row) /\ Len(Story) = D + W
      /\ \A i \in 1..D : Story[i] = durable[i]
      /\ \A i \in 1..W : Story[D + i] = writes[i]
  BY StoryIs
<1>8. c \in {0, 1} /\ (c = 1 => D >= 1)
  BY <1>1
<1> HIDE DEF c, D, W, h
<1>9. /\ Story' \in Seq(Row) /\ Len(Story') = (D + 1 - c) + (W - 1)
      /\ \A i \in 1..((D + 1 - c) + (W - 1)) :
           Story'[i] = IF i <= D + 1 - c THEN durable'[i] ELSE writes'[i - (D + 1 - c)]
  <2>1. /\ durable' \o writes' \in Seq(Row)
        /\ Len(durable' \o writes') = Len(durable') + Len(writes')
        /\ \A i \in 1..(Len(durable') + Len(writes')) : (durable' \o writes')[i] =
              IF i <= Len(durable') THEN durable'[i] ELSE writes'[i - Len(durable')]
    <3>1. durable' \in Seq(Row) /\ writes' \in Seq(Row)
      BY <1>2, <1>6
    <3>2. QED
      BY <3>1, ConcatProperties, Zenon
  <2>2. QED
    BY <1>2, <1>6, <2>1 DEF Story
<1>10. ASSUME NEW i \in 1..Len(Story')
       PROVE  Story'[i] = Story[i + c]
  <2>1. i \in 1..(D + W - c) /\ i \in Nat
    BY <1>1, <1>8, <1>9
  <2>2. CASE i <= D - c
    <3>1. i \in 1..(D + 1 - c) /\ (D + 1) - (D + 1 - c) + i = i + c /\ i + c \in 1..D
      BY <1>1, <1>8, <2>1, <2>2
    <3>2. Story'[i] = durable'[i]
      BY <1>9, <2>1, <3>1
    <3>3. durable'[i] = Append(durable, h)[i + c]
      BY <1>6, <3>1
    <3>4. QED
      BY <1>4, <1>7, <3>1, <3>2, <3>3
  <2>3. CASE i = D + 1 - c
    <3>1. i \in 1..(D + 1 - c) /\ (D + 1) - (D + 1 - c) + i = i + c /\ i + c = D + 1
      BY <1>1, <1>8, <2>1, <2>3
    <3>2. Story'[i] = durable'[i]
      BY <1>9, <2>1, <3>1
    <3>3. durable'[i] = h
      BY <1>4, <1>6, <3>1
    <3>4. Story[D + 1] = writes[1]
      BY <1>1, <1>3, <1>7
    <3>5. QED
      BY <1>3, <3>1, <3>2, <3>3, <3>4
  <2>4. CASE i > D + 1 - c
    <3> DEFINE j == i - (D + 1 - c)
    <3>1. j \in 1..(W - 1) /\ ~(i <= D + 1 - c) /\ j + 1 \in 1..W /\ D + (j + 1) = i + c
      BY <1>1, <1>8, <2>1, <2>4
    <3>2. Story'[i] = writes'[j]
      BY <1>9, <2>1, <3>1
    <3> HIDE DEF j
    <3>3. writes'[j] = writes[j + 1]
      BY <1>2, <3>1
    <3>4. Story[D + (j + 1)] = writes[j + 1]
      BY <1>7, <3>1
    <3>5. QED
      BY <3>1, <3>2, <3>3, <3>4
  <2>5. QED
    BY <1>1, <1>8, <2>1, <2>2, <2>3, <2>4
<1>11. Len(Story') = Len(Story) - c
  <2>1. (D + 1 - c) + (W - 1) = (D + W) - c
    BY <1>1, <1>8
  <2>2. QED
    BY <1>7, <1>9, <2>1
<1>12. ToSet(writes') \subseteq ToSet(writes) /\ h \in ToSet(writes)
  <2>1. \A r : r \in ToSet(writes') <=> \E i \in 1..(W - 1) : writes'[i] = r
    <3>1. \A r : r \in ToSet(writes') <=> \E i \in 1..Len(writes') : writes'[i] = r
      BY <1>2, Members, Zenon
    <3>2. QED
      BY <1>2, <3>1
  <2>2. \A i \in 1..W : writes[i] \in ToSet(writes)
    BY Members DEF W
  <2>3. \A i \in 1..(W - 1) : i + 1 \in 1..W
    BY <1>1
  <2>4. \A i \in 1..(W - 1) : writes'[i] \in ToSet(writes)
    BY <1>2, <2>2, <2>3
  <2>5. 1 \in 1..W
    BY <1>1, <1>3
  <2>6. QED
    BY <1>3, <2>1, <2>2, <2>4, <2>5
<1>13. QED
  BY <1>2, <1>3, <1>6, <1>9, <1>10, <1>11, <1>12 DEF c, D, W, h
\* A view that is the end of the story stays so when both get a row.
LEMMA ViewLogs ==
  ASSUME rows \in Seq(Row), durable \in Seq(Row), writes \in Seq(Row),
         Len(rows) <= MaxRowsKept, NEW r \in Row, Log(r),
         durable' = durable, lost' = lost, primed' = primed, reading' = reading, ViewOK
  PROVE  ViewOK'
<1> DEFINE k == Len(rows)
           N == Len(Story)
           W == Len(writes)
           K == MaxRowsKept
           n == Least(k + 1, K)
<1>1. SUFFICES ASSUME ~lost
               PROVE  /\ Len(rows') <= Len(Story') /\ rows' = Ends(Story', Len(rows'))
                      /\ Least(Len(writes'), K) <= Len(rows')
                      /\ Loaded' => Len(rows') = Least(Len(Story'), K)
  BY DEF ViewOK
<1>2. /\ k <= N /\ rows = Ends(Story, k) /\ Least(W, K) <= k
      /\ Loaded => k = Least(N, K)
  BY <1>1 DEF ViewOK
<1>3. K \in Nat /\ K >= 1 /\ k \in Nat /\ W \in Nat /\ k <= K
  BY LivePatchAssumption, LenProperties
<1>4. Story \in Seq(Row) /\ N \in Nat
  BY StoryIs, LenProperties
<1>5. rows' = Trimmed(Append(rows, r)) /\ writes' = Append(writes, r)
  BY DEF Log
<1>6. /\ Story' \in Seq(Row) /\ Len(Story') = N + 1
      /\ \A i \in 1..N : Story'[i] = Story[i]
      /\ Story'[N + 1] = r
  BY <1>5, StoryLogs
<1>7. Len(writes') = W + 1
  BY <1>5, LoggedIs
<1>8. /\ Append(rows, r) \in Seq(Row) /\ Len(Append(rows, r)) = k + 1
      /\ \A i \in 1..k : Append(rows, r)[i] = rows[i]
      /\ Append(rows, r)[k + 1] = r
  BY LoggedIs
<1> HIDE DEF K
<1>9. /\ rows' \in Seq(Row) /\ Len(rows') = n
      /\ \A i \in 1..n : rows'[i] = Append(rows, r)[(k + 1) - n + i]
  <2>1. LET m == Least(Len(Append(rows, r)), MaxRowsKept) IN
        /\ Trimmed(Append(rows, r)) \in Seq(Row)
        /\ Len(Trimmed(Append(rows, r))) = m
        /\ \A i \in 1..m : Trimmed(Append(rows, r))[i]
                             = Append(rows, r)[Len(Append(rows, r)) - m + i]
    BY <1>8, TrimmedIs
  <2>2. Least(Len(Append(rows, r)), MaxRowsKept) = n
    BY <1>8 DEF K
  <2> HIDE DEF n, k
  <2>3. QED
    BY <1>5, <1>8, <2>1, <2>2
<1>10. \A i \in 1..k : rows[i] = Story[N - k + i]
  <2>1. k \in 0..N
    BY <1>2, <1>3, <1>4
  <2>2. \A i \in 1..k : Ends(Story, k)[i] = Story[N - k + i]
    BY <1>4, <2>1, EndsIs
  <2>3. QED
    BY <1>2, <2>2
<1> HIDE DEF k, N, W
<1>11. n \in Nat /\ n <= k + 1 /\ n <= K /\ (n = k + 1 \/ n = K)
  BY <1>3 DEF Least
<1> HIDE DEF n
<1>12. \A i \in 1..n : rows'[i] = Story'[(N + 1) - n + i]
  <2>1. SUFFICES ASSUME NEW i \in 1..n
                 PROVE  rows'[i] = Story'[(N + 1) - n + i]
    OBVIOUS
  <2> DEFINE j == (k + 1) - n + i
  <2>2. j \in 1..(k + 1) /\ (N + 1) - n + i = N - k + j
    BY <1>3, <1>4, <1>11
  <2>3. rows'[i] = Append(rows, r)[j]
    BY <1>9
  <2> HIDE DEF j
  <2>4. CASE j = k + 1
    <3>1. N - k + j = N + 1
      BY <1>3, <1>4, <2>4
    <3>2. QED
      BY <1>6, <1>8, <2>2, <2>3, <2>4, <3>1
  <2>5. CASE j \in 1..k
    <3>1. N - k + j \in 1..N
      BY <1>2, <1>3, <1>4, <2>5
    <3>2. QED
      BY <1>6, <1>8, <1>10, <2>2, <2>3, <2>5, <3>1
  <2>6. QED
    BY <1>3, <2>2, <2>4, <2>5
<1>13. n \in 0..(N + 1)
  BY <1>2, <1>3, <1>4, <1>11
<1>14. rows' = Ends(Story', n)
  <2>1. /\ Ends(Story', n) \in Seq(Row) /\ Len(Ends(Story', n)) = n
        /\ \A i \in 1..n : Ends(Story', n)[i] = Story'[(N + 1) - n + i]
    <3>1. n \in 0..Len(Story')
      BY <1>6, <1>13
    <3>2. QED
      BY <1>6, <3>1, EndsIs, ZenonT(60)
  <2>2. QED
    <3>1. Len(rows') = Len(Ends(Story', n)) /\ rows' \in Seq(Row) /\ Ends(Story', n) \in Seq(Row)
      BY <1>9, <2>1
    <3>2. \A i \in 1..Len(rows') : rows'[i] = Ends(Story', n)[i]
      BY <1>9, <1>12, <2>1
    <3>3. QED
      BY <3>1, <3>2, SeqEqual
<1>15. Least(W + 1, K) <= n
  BY <1>2, <1>3, <1>11 DEF Least
<1>16. Loaded => n = Least(N + 1, K)
  <2>1. ASSUME k = Least(N, K)
        PROVE  Least(k + 1, K) = Least(N + 1, K)
    BY <1>3, <1>4, <2>1 DEF Least
  <2>2. QED
    BY <1>2, <2>1 DEF n
<1>17. Loaded' = Loaded
  BY DEF Loaded
<1>18. QED
  <2>1. Len(rows') <= Len(Story')
    BY <1>6, <1>9, <1>13, <1>4
  <2>2. QED
    BY <1>6, <1>7, <1>9, <1>14, <1>15, <1>16, <1>17, <2>1

\* So it does when a row of the story is stored.
LEMMA ViewStored ==
  ASSUME rows \in Seq(Row), durable \in Seq(Row), writes \in Seq(Row),
         Len(rows) <= MaxRowsKept, Len(durable) <= MaxRowsKept,
         writes # <<>>, writes' = Tail(writes),
         durable' = Trimmed(Append(durable, Head(writes))),
         rows' = rows, lost' = lost, primed' = primed, reading' = reading, ViewOK
  PROVE  ViewOK'
<1> DEFINE k == Len(rows)
           N == Len(Story)
           W == Len(writes)
           D == Len(durable)
           K == MaxRowsKept
           c == IF D = K THEN 1 ELSE 0
<1>1. SUFFICES ASSUME ~lost
               PROVE  /\ k <= Len(Story') /\ rows = Ends(Story', k)
                      /\ Least(Len(writes'), K) <= k
                      /\ Loaded' => k = Least(Len(Story'), K)
  BY DEF ViewOK
<1>2. /\ k <= N /\ rows = Ends(Story, k) /\ Least(W, K) <= k
      /\ Loaded => k = Least(N, K)
  BY <1>1 DEF ViewOK
<1>3. K \in Nat /\ K >= 1 /\ k \in Nat /\ W \in Nat /\ D \in Nat /\ k <= K
  BY LivePatchAssumption, LenProperties
<1>4. Story \in Seq(Row) /\ N \in Nat /\ N = D + W
  BY StoryIs, LenProperties
<1>5. /\ Len(writes') = W - 1 /\ W > 0
      /\ Story' \in Seq(Row) /\ Len(Story') = N - c
      /\ \A i \in 1..(N - c) : Story'[i] = Story[i + c]
  <2> HIDE DEF c
  <2>1. /\ Len(writes') = W - 1 /\ W > 0
        /\ Story' \in Seq(Row) /\ Len(Story') = N - c
        /\ \A i \in 1..Len(Story') : Story'[i] = Story[i + c]
    BY StoryStored DEF c
  <2>2. QED
    BY <2>1
<1>6. /\ c \in {0, 1} /\ k <= N - c /\ N - c \in Nat
      /\ c = 1 => N - c >= K
  <2>1. c = 1 => D = K
    OBVIOUS
  <2>2. c \in {0, 1}
    OBVIOUS
  <2> HIDE DEF c, D, N, W, K, k
  <2>3. QED
    BY <1>2, <1>3, <1>4, <1>5, <2>1, <2>2
<1> HIDE DEF c, D, N, W, K, k
<1>7. rows = Ends(Story', k)
  <2>1. k \in 0..N /\ k \in 0..(N - c)
    BY <1>2, <1>3, <1>4, <1>6
  <2>2. /\ Ends(Story, k) \in Seq(Row) /\ Len(Ends(Story, k)) = k
        /\ \A i \in 1..k : Ends(Story, k)[i] = Story[N - k + i]
    BY <1>4, <2>1, EndsIs DEF N
  <2>3. /\ Ends(Story', k) \in Seq(Row) /\ Len(Ends(Story', k)) = k
        /\ \A i \in 1..k : Ends(Story', k)[i] = Story'[(N - c) - k + i]
    <3>1. k \in 0..Len(Story') /\ Story' \in Seq(Row)
      BY <1>5, <2>1
    <3>2. /\ Ends(Story', k) \in Seq(Row) /\ Len(Ends(Story', k)) = k
          /\ \A i \in 1..k : Ends(Story', k)[i] = Story'[Len(Story') - k + i]
      BY <3>1, EndsIs
    <3>3. QED
      BY <1>5, <3>2
  <2>4. \A i \in 1..k : Story'[(N - c) - k + i] = Story[N - k + i]
    <3>1. \A i \in 1..k : (N - c) - k + i \in 1..(N - c) /\ ((N - c) - k + i) + c = N - k + i
      BY <1>3, <1>4, <1>6
    <3>2. QED
      BY <1>5, <3>1
  <2>5. QED
    BY <1>2, <2>2, <2>3, <2>4, SeqEqual
<1>8. Least(W - 1, K) <= k
  BY <1>2, <1>3, <1>5 DEF Least
<1>9. Loaded => k = Least(N - c, K)
  <2>1. CASE c = 0
    BY <1>2, <1>4, <2>1
  <2>2. CASE c = 1
    <3>1. K <= N /\ K <= N - c
      BY <1>3, <1>4, <1>6, <2>2
    <3>2. Least(N, K) = K /\ Least(N - c, K) = K
      BY <1>3, <1>4, <1>6, <3>1 DEF Least
    <3>3. QED
      BY <1>2, <3>2
  <2>3. QED
    BY <1>6, <2>1, <2>2
<1>10. Loaded' = Loaded
  BY DEF Loaded
<1>11. QED
  BY <1>5, <1>6, <1>7, <1>8, <1>9, <1>10
\* What was read stays a beginning of the story when a row is logged.
LEMMA FoundLogs ==
  ASSUME rows \in Seq(Row), durable \in Seq(Row), writes \in Seq(Row),
         Len(rows) <= MaxRowsKept, NEW r \in Row, Log(r), r \notin ToSet(reading.found),
         durable' = durable, lost' = lost, reading' = reading, FoundOK
  PROVE  FoundOK'
<1> DEFINE k == Len(rows)
           N == Len(Story)
           K == MaxRowsKept
           f == reading.found
<1>1. SUFFICES ASSUME ~lost, reading.state = "read"
               PROVE  \E m \in 0..Len(Story') : Continues(f, m)'
  BY DEF FoundOK
<1>2. PICK m \in 0..N : Continues(f, m)
  BY <1>1 DEF FoundOK
<1>3. /\ Least(m, K) <= k /\ N - m <= Len(f)
      /\ \A i \in 1..(N - m) : Story[i] = f[Len(f) - (N - m) + i]
      /\ N - m < Len(f) => Len(durable) = K
      /\ \A i \in (N - m + 1)..N : Story[i] \notin ToSet(f)
  BY <1>2 DEF Continues
<1>4. K \in Nat /\ K >= 1 /\ k \in Nat /\ k <= K /\ N \in Nat /\ m \in Nat /\ m <= N
  BY LivePatchAssumption, LenProperties, StoryIs
<1>5. /\ Len(Story') = N + 1
      /\ \A i \in 1..N : Story'[i] = Story[i]
      /\ Story'[N + 1] = r
  BY StoryLogs DEF Log
<1>6. Len(rows') = Least(k + 1, K)
  <2>1. Append(rows, r) \in Seq(Row) /\ Len(Append(rows, r)) = k + 1
    BY LoggedIs
  <2>2. Len(Trimmed(Append(rows, r))) = Least(Len(Append(rows, r)), K)
    BY <2>1, TrimmedIs
  <2>3. QED
    BY <2>1, <2>2 DEF Log
<1> HIDE DEF k, N, K, f
<1>7. Least(m + 1, K) <= Least(k + 1, K)
  BY <1>3, <1>4 DEF Least
<1>8. (N + 1) - (m + 1) = N - m /\ m + 1 \in 0..(N + 1)
  BY <1>4
<1>9. \A i \in 1..(N - m) : Story'[i] = f[Len(f) - (N - m) + i]
  <2>1. \A i \in 1..(N - m) : i \in 1..N
    BY <1>4
  <2>2. QED
    BY <1>3, <1>5, <2>1
<1>10. \A i \in (N - m + 1)..(N + 1) : Story'[i] \notin ToSet(f)
  <2>1. \A i \in (N - m + 1)..(N + 1) : i = N + 1 \/ (i \in (N - m + 1)..N /\ i \in 1..N)
    BY <1>4
  <2>2. r \notin ToSet(f)
    BY DEF f
  <2>3. QED
    BY <1>3, <1>5, <2>1, <2>2
<1>11. f' = f
  BY DEF f
<1>12. Continues(f, m + 1)'
  <2>1. /\ Least(m + 1, K) <= Len(rows') /\ N - m <= Len(f)
        /\ N - m < Len(f) => Len(durable') = K
    BY <1>3, <1>6, <1>7
  <2>2. QED
    BY <1>5, <1>8, <1>9, <1>10, <1>11, <2>1 DEF Continues, K
<1>13. QED
  BY <1>5, <1>8, <1>12

\* When a row is stored, the story may lose a row that was read, or one after it.
LEMMA FoundStored ==
  ASSUME rows \in Seq(Row), durable \in Seq(Row), writes \in Seq(Row),
         Len(durable) <= MaxRowsKept, reading.found \in Seq(Row),
         writes # <<>>, writes' = Tail(writes),
         durable' = Trimmed(Append(durable, Head(writes))),
         rows' = rows, lost' = lost, reading' = reading, FoundOK
  PROVE  FoundOK'
<1> DEFINE k == Len(rows)
           N == Len(Story)
           K == MaxRowsKept
           D == Len(durable)
           f == reading.found
           c == IF D = K THEN 1 ELSE 0
<1>1. SUFFICES ASSUME ~lost, reading.state = "read"
               PROVE  \E m \in 0..Len(Story') : Continues(f, m)'
  BY DEF FoundOK
<1>2. PICK m \in 0..N : Continues(f, m)
  BY <1>1 DEF FoundOK
<1>3. /\ Least(m, K) <= k /\ N - m <= Len(f)
      /\ \A i \in 1..(N - m) : Story[i] = f[Len(f) - (N - m) + i]
      /\ N - m < Len(f) => D = K
      /\ \A i \in (N - m + 1)..N : Story[i] \notin ToSet(f)
  BY <1>2 DEF Continues
<1>4. /\ K \in Nat /\ K >= 1 /\ k \in Nat /\ N \in Nat /\ m \in Nat /\ m <= N
      /\ D \in Nat /\ D <= K /\ Len(f) \in Nat /\ D <= N
  <2>1. N = D + Len(writes) /\ Len(writes) \in Nat /\ D \in Nat
    BY StoryIs, LenProperties
  <2>2. K \in Nat /\ K >= 1 /\ k \in Nat /\ Len(f) \in Nat
    BY LivePatchAssumption, LenProperties
  <2> HIDE DEF D, N, K, k, f
  <2>3. D <= K
    BY DEF D, K
  <2>4. QED
    BY <2>1, <2>2, <2>3
<1>5. /\ Len(durable') = D + 1 - c
      /\ Len(Story') = N - c
      /\ \A i \in 1..(N - c) : Story'[i] = Story[i + c]
  <2> HIDE DEF c
  <2>1. /\ Len(durable') = D + 1 - c
        /\ Len(Story') = N - c
        /\ \A i \in 1..Len(Story') : Story'[i] = Story[i + c]
    BY StoryStored DEF c
  <2>2. QED
    BY <2>1
<1>6. f' = f /\ (c = 1 => D = K) /\ (c = 0 => D # K) /\ c \in {0, 1}
  OBVIOUS
<1> HIDE DEF k, N, K, D, f, c
<1>7. CASE c = 0
  <2>1. /\ D < K /\ N - m = Len(f) /\ N - c = N
        /\ \A i \in 1..N : i + c = i
    <3>1. D < K
      BY <1>4, <1>6, <1>7
    <3>2. ~(N - m < Len(f)) /\ N - m <= Len(f) /\ N - m \in Nat
      BY <1>3, <1>4, <3>1
    <3>3. N - m = Len(f)
      <4>1. \A x, y \in Nat : x <= y /\ ~(x < y) => x = y
        OBVIOUS
      <4>2. Len(f) \in Nat
        BY <1>4
      <4>3. QED
        BY <3>2, <4>1, <4>2
    <3>4. N - c = N /\ \A i \in 1..N : i + c = i
      BY <1>4, <1>7
    <3>5. QED
      BY <3>1, <3>3, <3>4
  <2>2. \A i \in 1..N : Story'[i] = Story[i]
    BY <1>5, <1>7, <2>1
  <2>3. /\ \A i \in 1..(N - m) : i \in 1..N
        /\ \A i \in (N - m + 1)..N : i \in 1..N
    BY <1>4
  <2>4. /\ \A i \in 1..(N - m) : Story'[i] = f[Len(f) - (N - m) + i]
        /\ \A i \in (N - m + 1)..N : Story'[i] \notin ToSet(f)
    BY <1>3, <2>2, <2>3
  <2>5. ~(N - m < Len(f)) /\ Len(Story') = N
    BY <1>4, <1>5, <2>1
  <2>6. Continues(f, m)'
    BY <1>3, <1>6, <2>4, <2>5 DEF Continues, K, k
  <2>7. QED
    BY <1>2, <2>5, <2>6
<1>8. CASE c = 1
  <2>1. D = K /\ Len(durable') = K /\ N >= 1 /\ Len(Story') = N - 1
    BY <1>4, <1>5, <1>6, <1>8
  <2>2. \A i \in 1..(N - 1) : Story'[i] = Story[i + 1]
    BY <1>5, <1>8
  <2>3. CASE m < N
    <3>1. /\ m \in 0..(N - 1) /\ (N - 1) - m <= Len(f)
          /\ (N - 1) - m + 1 = N - m
      BY <1>3, <1>4, <2>1, <2>3
    <3>2. ASSUME NEW i \in 1..((N - 1) - m)
          PROVE  Story'[i] = f[Len(f) - ((N - 1) - m) + i]
      <4>1. i \in 1..(N - 1) /\ i + 1 \in 1..(N - m)
            /\ Len(f) - (N - m) + (i + 1) = Len(f) - ((N - 1) - m) + i
        BY <1>4, <2>1, <3>2
      <4>2. Story[i + 1] = f[Len(f) - (N - m) + (i + 1)]
        BY <1>3, <4>1
      <4>3. QED
        BY <2>2, <4>1, <4>2
    <3>3. ASSUME NEW i \in ((N - 1) - m + 1)..(N - 1)
          PROVE  Story'[i] \notin ToSet(f)
      <4>1. i \in 1..(N - 1) /\ i + 1 \in (N - m + 1)..N
        BY <1>4, <2>1, <2>3, <3>3
      <4>2. QED
        BY <1>3, <2>2, <4>1
    <3>4. Continues(f, m)'
      BY <1>3, <1>6, <2>1, <3>1, <3>2, <3>3 DEF Continues, K, k
    <3>5. QED
      BY <2>1, <3>1, <3>4
  <2>4. CASE m = N
    <3>0. PICK n : n = N - 1
      OBVIOUS
    <3>1. n \in 0..(N - 1) /\ n \in Nat /\ n - n = 0 /\ N - m = 0 /\ Len(Story') = n
      BY <1>4, <2>1, <2>4, <3>0
    <3>2. Least(n, K) <= k
      BY <1>3, <1>4, <2>1, <2>4, <3>0 DEF Least
    <3>3. n - n <= Len(f) /\ \A i \in 1..(n - n) : Story'[i] = f[Len(f) - (n - n) + i]
      BY <1>4, <3>1
    <3>4. ASSUME NEW i \in (n - n + 1)..n
          PROVE  Story'[i] \notin ToSet(f)
      <4>1. i \in 1..(N - 1) /\ i + 1 \in (N - m + 1)..N
        BY <1>4, <3>0, <3>1, <3>4
      <4>2. QED
        BY <1>3, <2>2, <4>1
    <3>5. Continues(f, n)'
      BY <1>6, <2>1, <3>1, <3>2, <3>3, <3>4 DEF Continues, K, k
    <3>6. QED
      BY <2>1, <3>0, <3>1, <3>5
  <2>5. QED
    BY <1>4, <2>3, <2>4
<1>9. QED
  BY <1>6, <1>7, <1>8

\* A read that begins with the durable log: the rows on their way come after it.
LEMMA FoundReads ==
  ASSUME rows \in Seq(Row), durable \in Seq(Row), writes \in Seq(Row),
         ViewOK, IsInjective(Story), reading' = [state |-> "read", found |-> durable],
         rows' = rows, durable' = durable, writes' = writes, lost' = lost
  PROVE  FoundOK'
<1> DEFINE N == Len(Story)
           W == Len(writes)
           D == Len(durable)
<1>1. SUFFICES ASSUME ~lost
               PROVE  \E m \in 0..Len(Story') : Continues(durable, m)'
  BY DEF FoundOK
<1>2. Least(W, MaxRowsKept) <= Len(rows) /\ IsInjective(Story)
  BY <1>1 DEF ViewOK
<1>3. /\ Story \in Seq(Row) /\ N = D + W
      /\ \A i \in 1..D : Story[i] = durable[i]
  BY StoryIs
<1>4. D \in Nat /\ W \in Nat
  BY LenProperties
<1>5. Story' = Story
  BY DEF Story
<1> HIDE DEF N, W, D
<1>6. N - W = D /\ D <= N /\ ~(D < D) /\ D - D = 0 /\ W \in 0..N
      /\ \A i \in 1..D : D - D + i = i /\ i \in 1..N
  BY <1>3, <1>4
<1>7. \A i, j \in 1..N : Story[i] = Story[j] => i = j
  BY <1>2, <1>3, Members DEF N
<1>8. \A i \in (D + 1)..N : Story[i] \notin ToSet(durable)
  <2>1. SUFFICES ASSUME NEW i \in (D + 1)..N, Story[i] \in ToSet(durable)
                 PROVE  FALSE
    OBVIOUS
  <2>2. PICK j \in 1..D : durable[j] = Story[i]
    BY <2>1, Members DEF D
  <2>3. j \in 1..N /\ i \in 1..N /\ i # j
    BY <1>3, <1>4, <2>1
  <2>4. QED
    BY <1>3, <1>7, <2>2, <2>3
<1>9. Continues(durable, W)
  BY <1>2, <1>3, <1>4, <1>6, <1>8 DEF Continues, N, W, D
<1>10. PICK m : m = W
  OBVIOUS
<1>11. Continues(durable, m)'
  BY <1>5, <1>9, <1>10 DEF Continues
<1>12. QED
  BY <1>5, <1>6, <1>10, <1>11 DEF N
\* What a merge puts together: all rows that were found or shown, each once.
LEMMA JoinedIs ==
  ASSUME rows \in Seq(Row), NEW found \in Seq(Row)
  PROVE  LET j == found \o Unfound(found) IN
         /\ j \in Seq(Row)
         /\ Len(j) = Len(found) + Len(Unfound(found))
         /\ \A i \in 1..Len(found) : j[i] = found[i]
         /\ \A i \in 1..Len(Unfound(found)) : j[Len(found) + i] = Unfound(found)[i]
         /\ ToSet(j) = ToSet(found) \cup ToSet(rows)
         /\ IsInjective(found) /\ IsInjective(rows) => IsInjective(j)
<1> DEFINE u == Unfound(found)
           j == found \o u
           F == Len(found)
           U == Len(u)
<1>1. /\ u \in Seq(Row)
      /\ \A r : r \in ToSet(u) <=> r \in ToSet(rows) /\ r \notin ToSet(found)
      /\ IsInjective(rows) => IsInjective(u)
  BY UnfoundIs
<1> HIDE DEF u
<1>2. /\ j \in Seq(Row) /\ Len(j) = F + U
      /\ \A i \in 1..(F + U) : j[i] = IF i <= F THEN found[i] ELSE u[i - F]
  BY <1>1, ConcatProperties, Zenon
<1>3. F \in Nat /\ U \in Nat
  BY <1>1, LenProperties
<1> HIDE DEF F, U, j
<1>4. /\ \A i \in 1..F : i \in 1..(F + U) /\ i <= F
      /\ \A i \in 1..U : F + i \in 1..(F + U) /\ ~(F + i <= F) /\ (F + i) - F = i
  BY <1>3
<1>5. /\ \A i \in 1..F : j[i] = found[i]
      /\ \A i \in 1..U : j[F + i] = u[i]
  BY <1>2, <1>4
<1>6. \A i \in 1..(F + U) : i \in 1..F \/ \E n \in 1..U : i = F + n
  <2>1. \A i \in 1..(F + U) : i \in 1..F \/ (i - F \in 1..U /\ i = F + (i - F))
    BY <1>3
  <2>2. QED
    BY <2>1
<1>7. /\ \A x : x \in ToSet(j) <=> \E i \in 1..(F + U) : j[i] = x
      /\ \A x : x \in ToSet(found) <=> \E i \in 1..F : found[i] = x
      /\ \A x : x \in ToSet(u) <=> \E i \in 1..U : u[i] = x
  <2>1. \A x : x \in ToSet(j) <=> \E i \in 1..Len(j) : j[i] = x
    BY <1>2, Members
  <2>2. \A x : x \in ToSet(found) <=> \E i \in 1..F : found[i] = x
    BY Members DEF F
  <2>3. \A x : x \in ToSet(u) <=> \E i \in 1..U : u[i] = x
    BY <1>1, Members DEF U
  <2>4. QED
    BY <1>2, <2>1, <2>2, <2>3
<1>8. ToSet(j) = ToSet(found) \cup ToSet(rows)
  <2>1. \A x : x \in ToSet(j) => x \in ToSet(found) \/ x \in ToSet(u)
    BY <1>5, <1>6, <1>7
  <2>2. \A x : x \in ToSet(found) \/ x \in ToSet(u) => x \in ToSet(j)
    BY <1>4, <1>5, <1>7
  <2>3. QED
    BY <1>1, <2>1, <2>2
<1>9. ASSUME IsInjective(found), IsInjective(rows)
      PROVE  IsInjective(j)
  <2>1. SUFFICES ASSUME NEW a \in 1..(F + U), NEW b \in 1..(F + U), j[a] = j[b]
                 PROVE  a = b
    BY <1>2, Members
  <2>2. /\ \A m, n \in 1..F : found[m] = found[n] => m = n
        /\ \A m, n \in 1..U : u[m] = u[n] => m = n
    BY <1>1, <1>9, Members DEF F, U
  <2>3. \A m \in 1..F, n \in 1..U : found[m] # u[n]
    BY <1>1, <1>7
  <2>4. CASE a \in 1..F /\ b \in 1..F
    BY <1>5, <2>1, <2>2, <2>4
  <2>5. CASE a \in 1..F /\ b \notin 1..F
    BY <1>5, <1>6, <2>1, <2>3, <2>5
  <2>6. CASE a \notin 1..F /\ b \in 1..F
    BY <1>5, <1>6, <2>1, <2>3, <2>6
  <2>7. CASE a \notin 1..F /\ b \notin 1..F
    <3>1. PICK m \in 1..U : a = F + m
      BY <1>6, <2>7
    <3>2. PICK n \in 1..U : b = F + n
      BY <1>6, <2>7
    <3>3. u[m] = u[n]
      BY <1>5, <2>1, <3>1, <3>2
    <3>4. m = n
      BY <2>2, <3>3
    <3>5. QED
      BY <3>1, <3>2, <3>4
  <2>8. QED
    BY <2>4, <2>5, <2>6, <2>7
<1>10. QED
  BY <1>2, <1>5, <1>8, <1>9 DEF j, F, U, u

\* What was found and the rows logged since make up the end of the story.
LEMMA MergeIsStory ==
  ASSUME rows \in Seq(Row), durable \in Seq(Row), writes \in Seq(Row),
         Len(rows) <= MaxRowsKept, reading.found \in Seq(Row),
         ~lost, reading.state = "read", ViewOK, FoundOK
  PROVE  LET n == Least(Len(Story), MaxRowsKept) IN
         /\ n \in 0..Len(Story)
         /\ Len(Merged(reading.found)) = n
         /\ Merged(reading.found) = Ends(Story, n)
<1> DEFINE f == reading.found
           k == Len(rows)
           N == Len(Story)
           K == MaxRowsKept
           F == Len(f)
           n == Least(N, K)
           u == Unfound(f)
           U == Len(u)
           j == f \o u
           e == Least(F + U, K)
<1>1. PICK m \in 0..N : Continues(f, m)
  BY DEF FoundOK
<1>2. /\ Least(m, K) <= k /\ N - m <= F
      /\ \A i \in 1..(N - m) : Story[i] = f[F - (N - m) + i]
      /\ N - m < F => Len(durable) = K
      /\ \A i \in (N - m + 1)..N : Story[i] \notin ToSet(f)
  BY <1>1 DEF Continues
<1>3. k <= N /\ rows = Ends(Story, k)
  BY DEF ViewOK
<1>4. /\ K \in Nat /\ K >= 1 /\ k \in Nat /\ N \in Nat /\ m \in Nat /\ m <= N
      /\ F \in Nat /\ Len(durable) <= N
  <2>1. N = Len(durable) + Len(writes) /\ Len(writes) \in Nat /\ Len(durable) \in Nat
    BY StoryIs, LenProperties
  <2>2. K \in Nat /\ K >= 1 /\ k \in Nat /\ F \in Nat
    BY LivePatchAssumption, LenProperties
  <2> HIDE DEF N, K, k, f, F
  <2>3. QED
    BY <2>1, <2>2
<1>5. k <= K
  OBVIOUS
<1>6. Story \in Seq(Row)
  BY StoryIs
<1>7. /\ u \in Seq(Row)
      /\ \A a \in 0..k :
           (\A i \in 1..k : rows[i] \notin ToSet(f) <=> i > a) =>
             U = k - a /\ \A i \in 1..U : u[i] = rows[a + i]
  <2>1. LET v == Unfound(f) IN
         /\ v \in Seq(Row)
         /\ \A a \in 0..Len(rows) :
              (\A i \in 1..Len(rows) : rows[i] \notin ToSet(f) <=> i > a) =>
                Len(v) = Len(rows) - a /\ \A i \in 1..Len(v) : v[i] = rows[a + i]
    <3> HIDE DEF f
    <3>1. QED
      BY UnfoundIs
  <2>2. QED
    BY <2>1
<1>8. /\ j \in Seq(Row) /\ Len(j) = F + U
      /\ \A i \in 1..F : j[i] = f[i]
      /\ \A i \in 1..U : j[F + i] = u[i]
  <2>1. LET v == Unfound(f) w == f \o v IN
         /\ w \in Seq(Row)
         /\ Len(w) = Len(f) + Len(v)
         /\ \A i \in 1..Len(f) : w[i] = f[i]
         /\ \A i \in 1..Len(v) : w[Len(f) + i] = v[i]
    BY JoinedIs
  <2>2. QED
    BY <2>1
<1> HIDE DEF k, N, K, u, U
<1>9. \A i \in 1..k : rows[i] = Story[N - k + i]
  <2>1. k \in 0..N
    BY <1>3, <1>4
  <2>2. \A i \in 1..k : Ends(Story, k)[i] = Story[N - k + i]
    BY <1>6, <2>1, EndsIs DEF N
  <2>3. QED
    BY <1>3, <2>2
<1> HIDE DEF f, F, j
<1>10. Merged(f) = Trimmed(j)
  BY DEF Merged, j, u
<1>11. /\ Merged(f) \in Seq(Row) /\ Len(Merged(f)) = e
       /\ \A i \in 1..e : Merged(f)[i] = j[(F + U) - e + i]
  <2>1. LET x == Least(Len(j), MaxRowsKept) IN
        /\ Trimmed(j) \in Seq(Row) /\ Len(Trimmed(j)) = x
        /\ \A i \in 1..x : Trimmed(j)[i] = j[Len(j) - x + i]
    BY <1>8, TrimmedIs
  <2>2. Least(Len(j), MaxRowsKept) = e
    BY <1>8 DEF K
  <2> HIDE DEF e
  <2>3. QED
    BY <1>8, <1>10, <2>1, <2>2
<1> HIDE DEF n, e
<1>12. n \in Nat /\ n <= N /\ n <= K /\ (n = N \/ n = K)
  BY <1>4 DEF Least, n
<1>13. e = n /\ \A i \in 1..n : j[(F + U) - n + i] = Story[N - n + i]
  \* a row the view shows is new when the reading did not find it
  <2>1. \A i \in 1..k : i > k - m => rows[i] \notin ToSet(f)
    <3>1. SUFFICES ASSUME NEW i \in 1..k, i > k - m
                   PROVE  rows[i] \notin ToSet(f)
      OBVIOUS
    <3>2. N - k + i \in (N - m + 1)..N
      BY <1>3, <1>4, <3>1
    <3>3. QED
      BY <1>2, <1>9, <3>2
  <2>2. CASE m <= k
    <3>1. k - m \in 0..k
      BY <1>4, <2>2
    <3>2. \A i \in 1..k : rows[i] \notin ToSet(f) <=> i > k - m
      <4>1. SUFFICES ASSUME NEW i \in 1..k, ~(i > k - m)
                     PROVE  rows[i] \in ToSet(f)
        BY <2>1
      <4>2. /\ N - k + i \in 1..(N - m)
            /\ F - (N - m) + (N - k + i) \in 1..F
        BY <1>2, <1>3, <1>4, <2>2, <4>1, SMTT(60)
      <4>3. rows[i] = f[F - (N - m) + (N - k + i)]
        BY <1>2, <1>9, <4>2
      <4>4. QED
        BY <4>2, <4>3, Members DEF f, F
    <3>3. U = k - (k - m) /\ \A i \in 1..U : u[i] = rows[(k - m) + i]
      BY <1>7, <3>1, <3>2
    <3>4. U = m
      BY <1>4, <3>3
    <3>5. \A i \in 1..m : u[i] = Story[N - m + i]
      <4>1. SUFFICES ASSUME NEW i \in 1..m
                     PROVE  u[i] = Story[N - m + i]
        OBVIOUS
      <4>2. (k - m) + i \in 1..k /\ N - k + ((k - m) + i) = N - m + i
        BY <1>4, <2>2, <4>1
      <4>3. QED
        BY <1>9, <3>3, <3>4, <4>2
    <3>6. e = n
      <4>1. e = Least(F + m, K)
        BY <3>4 DEF e
      <4>2. CASE N - m < F
        <5>1. K <= N
          BY <1>2, <1>4, <4>2
        <5>2. F + m > N
          BY <1>4, <4>2
        <5>3. QED
          BY <1>4, <4>1, <5>1, <5>2 DEF Least, n
      <4>3. CASE ~(N - m < F)
        <5>1. F + m = N
          BY <1>2, <1>4, <4>3
        <5>2. QED
          BY <4>1, <5>1 DEF n
      <4>4. QED
        BY <4>2, <4>3
    <3>7. ASSUME NEW i \in 1..n
          PROVE  j[(F + U) - n + i] = Story[N - n + i]
      <4>1. CASE N - n + i <= N - m
        <5>1. /\ N - n + i \in 1..(N - m)
              /\ F - (N - m) + (N - n + i) = (F + m) - n + i
              /\ (F + m) - n + i \in 1..F
          BY <1>2, <1>4, <1>12, <3>7, <4>1
        <5>2. QED
          BY <1>2, <1>8, <3>4, <5>1
      <4>2. CASE N - n + i > N - m
        <5> DEFINE x == m - n + i
        <5>1. x \in 1..m /\ F + x = (F + m) - n + i /\ N - m + x = N - n + i
          BY <1>4, <1>12, <3>7, <4>2
        <5> HIDE DEF x
        <5>2. QED
          BY <1>8, <3>4, <3>5, <5>1
      <4>3. N - n + i \in Int /\ N - m \in Int
        BY <1>4, <1>12, <3>7
      <4>4. QED
        BY <4>1, <4>2, <4>3
    <3>8. QED
      BY <3>6, <3>7
  <2>3. CASE m > k
    <3>1. k = K /\ n = K /\ K <= N
      BY <1>2, <1>3, <1>4, <1>5, <2>3 DEF Least, n
    <3>2. \A i \in 1..k : rows[i] \notin ToSet(f) <=> i > 0
      <4>1. \A i \in 1..k : i > k - m /\ i > 0
        BY <1>4, <2>3
      <4>2. QED
        BY <2>1, <4>1
    <3>3. 0 \in 0..k
      BY <1>4
    <3>4. U = k - 0 /\ \A i \in 1..U : u[i] = rows[0 + i]
      BY <1>7, <3>2, <3>3
    <3>5. U = k
      BY <1>4, <3>4
    <3>6. e = K
      BY <1>4, <3>1, <3>5 DEF Least, e
    <3>7. ASSUME NEW i \in 1..n
          PROVE  j[(F + U) - n + i] = Story[N - n + i]
      <4>1. (F + U) - n + i = F + i /\ i \in 1..U /\ i \in 1..k /\ 0 + i = i /\ N - n + i = N - k + i
        BY <1>4, <3>1, <3>5, <3>7
      <4>2. QED
        BY <1>8, <1>9, <3>4, <4>1
    <3>8. QED
      BY <3>1, <3>6, <3>7
  <2>4. QED
    BY <1>4, <2>2, <2>3
<1>14. n \in 0..N
  BY <1>4, <1>12
<1>15. /\ Ends(Story, n) \in Seq(Row) /\ Len(Ends(Story, n)) = n
       /\ \A i \in 1..n : Ends(Story, n)[i] = Story[N - n + i]
  BY <1>6, <1>14, EndsIs DEF N
<1>16. Merged(f) = Ends(Story, n)
  <2>1. Len(Merged(f)) = Len(Ends(Story, n))
    BY <1>11, <1>13, <1>15
  <2>2. \A i \in 1..Len(Merged(f)) : Merged(f)[i] = Ends(Story, n)[i]
    BY <1>11, <1>13, <1>15
  <2>3. QED
    BY <1>11, <1>15, <2>1, <2>2, SeqEqual
<1>17. QED
  BY <1>11, <1>13, <1>14, <1>16 DEF n, N, K, f
\* A sequence of rows whose keys differ is no longer than there are keys.
LEMMA FewRows ==
  ASSUME NEW s \in Seq(Row), IsInjective(s), NEW a \in Nat, NEW b \in Nat,
         NEW E, ToSet(s) \subseteq E,
         \A r \in E : r.n \in 1..(IF r.kind = "patch" THEN a ELSE b),
         \A r, q \in E : r.kind = q.kind /\ r.n = q.n => r = q
  PROVE  Len(s) <= a + b
<1>1. \A i \in 1..Len(s) : s[i] \in E
  BY Members
<1>2. \A i \in 1..Len(s) : s[i].n \in 1..(IF s[i].kind = "patch" THEN a ELSE b)
  BY <1>1
<1>3. \A i, j \in 1..Len(s) : s[i].kind = s[j].kind /\ s[i].n = s[j].n => s[i] = s[j]
  BY <1>1
<1>4. QED
  BY <1>2, <1>3, KeysBound

\* The types of the four places where rows are.
Logs ==
  /\ rows \in Seq(Row) /\ durable \in Seq(Row) /\ writes \in Seq(Row)
  /\ reading.found \in Seq(Row)

\* Rows that move or go leave the keys as they were.
LEMMA KeysKept ==
  ASSUME KeysOK, Everywhere' \subseteq Everywhere,
         IsInjective(rows)', IsInjective(durable)', IsInjective(reading.found)',
         IsInjective(writes)', (ToSet(durable) \cap ToSet(writes) = {})',
         deliveries' = deliveries, rollbacks' = rollbacks, checking' \subseteq checking
  PROVE  KeysOK'
<1>1. \A r \in Everywhere' : r.n \in 1..(IF r.kind = "patch" THEN deliveries ELSE rollbacks)
  BY DEF KeysOK
<1>2. \A r \in Everywhere', d \in checking' : r.kind = "patch" => r.n # d.n
  BY DEF KeysOK
<1>3. \A r, q \in Everywhere' : r.kind = q.kind /\ r.n = q.n => r = q
  BY DEF KeysOK
<1>4. \A d, c \in checking' : d.n = c.n => d = c
  BY DEF KeysOK
<1>5. QED
  BY <1>1, <1>2, <1>3, <1>4 DEF KeysOK

\* A row with a key of its own is new everywhere, and the view that gets it is no
\* longer than there are keys.
LEMMA KeysLogs ==
  ASSUME Logs, KeysOK, deliveries \in Nat, rollbacks \in Nat,
         NEW r \in Row, Log(r), durable' = durable, reading' = reading,
         deliveries' = deliveries, rollbacks' \in {rollbacks, rollbacks + 1},
         r.n \in 1..(IF r.kind = "patch" THEN deliveries' ELSE rollbacks'),
         \A q \in Everywhere : q.kind = r.kind => q.n # r.n,
         checking' \subseteq checking,
         \A c \in checking' : r.kind = "patch" => c.n # r.n
  PROVE  /\ KeysOK'
         /\ r \notin Everywhere
         /\ Len(Append(rows, r)) <= deliveries' + rollbacks'
<1> DEFINE E == Everywhere \cup {r}
<1>1. rows \in Seq(Row) /\ durable \in Seq(Row) /\ writes \in Seq(Row) /\ reading.found \in Seq(Row)
  BY DEF Logs
<1>2. r \notin Everywhere
  OBVIOUS
<1>3. rows' = Trimmed(Append(rows, r)) /\ writes' = Append(writes, r)
  BY DEF Log
<1>4. /\ Append(rows, r) \in Seq(Row) /\ ToSet(Append(rows, r)) = ToSet(rows) \cup {r}
      /\ IsInjective(rows) /\ r \notin ToSet(rows) => IsInjective(Append(rows, r))
      /\ ToSet(Append(writes, r)) = ToSet(writes) \cup {r}
      /\ IsInjective(writes) /\ r \notin ToSet(writes) => IsInjective(Append(writes, r))
  BY <1>1, LoggedIs
<1>5. ToSet(rows') \subseteq ToSet(rows) \cup {r} /\ (IsInjective(Append(rows, r)) => IsInjective(rows'))
  BY <1>3, <1>4, TrimmedHolds
<1>6. Everywhere' \subseteq E
  BY <1>3, <1>4, <1>5 DEF Everywhere
<1>7. \A q \in E : q.n \in 1..(IF q.kind = "patch" THEN deliveries' ELSE rollbacks')
  <2>1. \A q \in Everywhere : q.n \in 1..(IF q.kind = "patch" THEN deliveries ELSE rollbacks)
    BY DEF KeysOK
  <2>2. 1..deliveries \subseteq 1..deliveries' /\ 1..rollbacks \subseteq 1..rollbacks'
    OBVIOUS
  <2>3. ASSUME NEW q \in Everywhere
        PROVE  q.n \in 1..(IF q.kind = "patch" THEN deliveries' ELSE rollbacks')
    BY <2>1, <2>2
  <2>4. QED
    BY <2>3
<1>8. \A p, q \in E : p.kind = q.kind /\ p.n = q.n => p = q
  BY DEF KeysOK
<1>9. \A q \in E, c \in checking' : q.kind = "patch" => q.n # c.n
  BY DEF KeysOK
<1>10. ToSet(rows) \subseteq Everywhere /\ ToSet(writes) \subseteq Everywhere /\ ToSet(durable) \subseteq Everywhere
  BY DEF Everywhere
<1>11. /\ IsInjective(rows') /\ IsInjective(durable') /\ IsInjective(reading.found')
       /\ IsInjective(writes') /\ ToSet(durable') \cap ToSet(writes') = {}
       /\ IsInjective(Append(rows, r))
  BY <1>2, <1>3, <1>4, <1>5, <1>10 DEF KeysOK
<1>12. \A d, c \in checking' : d.n = c.n => d = c
  BY DEF KeysOK
<1>13. KeysOK'
  <2>1. \A q \in Everywhere' : q.n \in 1..(IF q.kind = "patch" THEN deliveries' ELSE rollbacks')
    BY <1>6, <1>7
  <2>2. \A q \in Everywhere', c \in checking' : q.kind = "patch" => q.n # c.n
    BY <1>6, <1>9
  <2>3. \A p, q \in Everywhere' : p.kind = q.kind /\ p.n = q.n => p = q
    BY <1>6, <1>8
  <2>4. QED
    BY <1>11, <1>12, <2>1, <2>2, <2>3 DEF KeysOK
<1>14. Len(Append(rows, r)) <= deliveries' + rollbacks'
  <2>1. ToSet(Append(rows, r)) \subseteq E
    BY <1>4, <1>10
  <2>2. deliveries' \in Nat /\ rollbacks' \in Nat
    OBVIOUS
  <2> HIDE DEF E
  <2>3. QED
    BY <1>4, <1>7, <1>8, <1>11, <2>1, <2>2, FewRows, ZenonT(60)
<1>15. QED
  BY <1>2, <1>13, <1>14

\* A marker is no patch.
LEMMA MarkerIs ==
  ASSUME NEW n
  PROVE  /\ RollbackRow(n).kind = "rollback" /\ RollbackRow(n).n = n
         /\ ~Applied(RollbackRow(n))
  BY DEF RollbackRow, Applied

\* What a decision logs.
LEMMA PatchRowIs ==
  ASSUME NEW n \in Nat, NEW p \in Patches,
         NEW v \in {"applied", "rejected", "duplicate"}, NEW prev \in {"on", "off", ""}
  PROVE  /\ PatchRow(n, p, v, prev) \in Row
         /\ PatchRow(n, p, v, prev).kind = "patch"
         /\ PatchRow(n, p, v, prev).n = n
         /\ PatchRow(n, p, v, prev).id = p
         /\ Applied(PatchRow(n, p, v, prev)) <=> v = "applied"
  BY DEF PatchRow, Row, Applied

\* Marks and patches keep what they mean when a decision is logged.
LEMMA MarksDecided ==
  ASSUME durable \in Seq(Row), writes \in Seq(Row), NEW r \in Row, Log(r),
         durable' = durable, lost' = lost, early' = early, MarksOK,
         r.kind = "patch",
         outstanding \subseteq outstanding', outstanding' \subseteq outstanding \cup {r.n},
         Applied(r) => r.n \in outstanding',
         \A q \in ToSet(Story) : q.kind = "patch" => q.n # r.n
  PROVE  MarksOK'
<1> DEFINE N == Len(Story)
<1>1. SUFFICES ASSUME ~lost
               PROVE  MarksOK'
  BY DEF MarksOK
<1>2. /\ Story \in Seq(Row) /\ N \in Nat /\ DOMAIN Story = 1..N
      /\ \A i \in 1..N : Story[i] \in ToSet(Story)
  BY StoryIs, Members
<1>3. /\ Story' = Append(Story, r) /\ Story' \in Seq(Row) /\ Len(Story') = N + 1
      /\ \A i \in 1..N : Story'[i] = Story[i]
      /\ Story'[N + 1] = r
  BY StoryLogs DEF Log
<1>4. DOMAIN Story' = 1..(N + 1)
  BY <1>3, LenProperties
<1>5. /\ \A i \in 1..N : Applied(Story[i]) /\ (\A j \in i..N : Story[j].kind # "rollback")
                          => Story[i].n \in outstanding
      /\ ~early => \A i, j \in 1..N :
            i < j /\ j - i < MaxRowsKept /\ Applied(Story[i]) /\ Story[j].kind = "rollback"
              => Story[i].n \notin outstanding
  BY <1>1, <1>2 DEF MarksOK
<1> HIDE DEF N
<1>7. \A i \in 1..(N + 1) : i \in 1..N \/ i = N + 1
  BY <1>2
<1>8. ASSUME NEW i \in 1..(N + 1), Applied(Story'[i]),
             \A j \in i..(N + 1) : Story'[j].kind # "rollback"
      PROVE  Story'[i].n \in outstanding'
  <2>1. CASE i = N + 1
    BY <1>3, <1>8, <2>1
  <2>2. CASE i \in 1..N
    <3>1. \A j \in i..N : j \in i..(N + 1) /\ j \in 1..N
      BY <1>2, <2>2
    <3>2. \A j \in i..N : Story[j].kind # "rollback"
      BY <1>3, <1>8, <3>1
    <3>3. Applied(Story[i])
      BY <1>3, <1>8, <2>2
    <3>4. Story[i].n \in outstanding
      BY <1>5, <2>2, <3>2, <3>3
    <3>5. QED
      BY <1>3, <2>2, <3>4
  <2>3. QED
    BY <1>7, <2>1, <2>2
<1>9. ASSUME ~early, NEW i \in 1..(N + 1), NEW j \in 1..(N + 1),
             i < j, j - i < MaxRowsKept, Applied(Story'[i]), Story'[j].kind = "rollback"
      PROVE  Story'[i].n \notin outstanding'
  <2>1. j # N + 1
    BY <1>3, <1>9
  <2>2. j \in 1..N /\ i \in 1..N
    BY <1>2, <1>9, <2>1
  <2>3. Story[i].n \notin outstanding
    BY <1>3, <1>5, <1>9, <2>2
  <2>4. Story[i].kind = "patch" /\ Story[i] \in ToSet(Story)
    BY <1>2, <1>3, <1>9, <2>2 DEF Applied
  <2>5. QED
    BY <1>3, <2>2, <2>3, <2>4
<1>10. QED
  BY <1>3, <1>4, <1>8, <1>9 DEF MarksOK
\* A view that was loaded covers all that a new marker is in reach of.
LEMMA MarksRolledBack ==
  ASSUME rows \in Seq(Row), durable \in Seq(Row), writes \in Seq(Row), NEW r \in Row, Log(r),
         durable' = durable, lost' = lost, ViewOK, MarksOK, primed,
         early' = (early \/ reading.state # "none"),
         r.kind = "rollback",
         outstanding' = outstanding \ {rows[i].n : i \in Pending(rows)}
  PROVE  MarksOK'
<1> DEFINE N == Len(Story)
           K == MaxRowsKept
           k == Len(rows)
<1>1. SUFFICES ASSUME ~lost
               PROVE  MarksOK'
  BY DEF MarksOK
<1>2. /\ Story \in Seq(Row) /\ N \in Nat /\ DOMAIN Story = 1..N
      /\ \A i \in 1..N : Story[i] \in ToSet(Story)
  BY StoryIs, Members
<1>3. /\ Story' = Append(Story, r) /\ Story' \in Seq(Row) /\ Len(Story') = N + 1
      /\ \A i \in 1..N : Story'[i] = Story[i]
      /\ Story'[N + 1] = r
  BY StoryLogs DEF Log
<1>4. DOMAIN Story' = 1..(N + 1)
  BY <1>3, LenProperties
<1>5. ~early => \A i, j \in 1..N :
            i < j /\ j - i < K /\ Applied(Story[i]) /\ Story[j].kind = "rollback"
              => Story[i].n \notin outstanding
  BY <1>1, <1>2 DEF MarksOK
<1>7. /\ k <= N /\ rows = Ends(Story, k)
      /\ reading.state = "none" => k = Least(N, K)
  BY <1>1 DEF ViewOK, Loaded
<1>8. K \in Nat /\ K >= 1 /\ k \in Nat /\ DOMAIN rows = 1..k
  BY LivePatchAssumption, LenProperties
<1>9. \A i \in 1..k : rows[i] = Story[N - k + i]
  <2>1. k \in 0..N
    BY <1>2, <1>7, <1>8
  <2>2. \A i \in 1..k : Ends(Story, k)[i] = Story[N - k + i]
    BY <1>2, <2>1, EndsIs
  <2>3. QED
    BY <1>7, <2>2
<1> HIDE DEF N, K, k
<1>10. \A i \in 1..(N + 1) : i \in 1..N \/ i = N + 1
  BY <1>2
\* No row is without a marker after it.
<1>11. ASSUME NEW i \in 1..(N + 1), Applied(Story'[i])
       PROVE  ~(\A j \in i..(N + 1) : Story'[j].kind # "rollback")
  <2>1. N + 1 \in i..(N + 1)
    BY <1>2
  <2>2. QED
    BY <1>3, <2>1
\* What the new marker is in reach of was in the plan, or an older marker follows it.
<1>12. ASSUME ~early', NEW i \in 1..(N + 1), NEW j \in 1..(N + 1),
              i < j, j - i < K, Applied(Story'[i]), Story'[j].kind = "rollback"
       PROVE  Story'[i].n \notin outstanding'
  <2>1. i \in 1..N /\ ~early /\ reading.state = "none"
    <3>1. ~early /\ reading.state = "none"
      BY <1>12, Zenon
    <3>2. i \in 1..N
      BY <1>2, <1>12
    <3>3. QED
      BY <3>1, <3>2
  <2>2. Applied(Story[i]) /\ Story'[i] = Story[i]
    BY <1>3, <1>12, <2>1
  <2>3. CASE j \in 1..N
    <3>1. Story[j].kind = "rollback"
      BY <1>3, <1>12, <2>3
    <3>2. Story[i].n \notin outstanding
      BY <1>5, <1>12, <2>1, <2>2, <2>3, <3>1
    <3>3. QED
      BY <2>2, <3>2
  <2>4. CASE j = N + 1
    <3> DEFINE x == i - (N - k)
    <3>1. k = Least(N, K)
      BY <1>7, <2>1
    <3>2. N - k + x = i /\ x \in 1..k
      <4>1. i > N - k
        BY <1>2, <1>8, <1>12, <2>1, <2>4, <3>1 DEF Least
      <4>2. i \in Int /\ N \in Int /\ k \in Int /\ i <= N
        BY <1>2, <1>8, <2>1
      <4>3. QED
        BY <4>1, <4>2
    <3> HIDE DEF x
    <3>3. rows[x] = Story[i]
      BY <1>9, <3>2
    <3>4. CASE x \in Pending(rows)
      BY <2>2, <3>3, <3>4
    <3>5. CASE x \notin Pending(rows)
      <4>1. PICK y \in x..k : rows[y].kind = "rollback"
        BY <1>8, <2>2, <3>2, <3>3, <3>5 DEF Pending, k
      <4>2. y \in 1..k
        BY <3>2, <1>8
      <4>3. Story[N - k + y].kind = "rollback" /\ N - k + y \in 1..N
        BY <1>2, <1>7, <1>8, <1>9, <4>1, <4>2 DEF N, k
      <4>4. y # x
        BY <2>2, <3>3, <4>1 DEF Applied
      <4>5. i < N - k + y /\ (N - k + y) - i < K
        BY <1>2, <1>8, <1>12, <2>1, <2>4, <3>2, <4>2, <4>3, <4>4
      <4>6. Story[i].n \notin outstanding
        BY <1>5, <2>1, <2>2, <4>3, <4>5
      <4>7. QED
        BY <2>2, <4>6
    <3>6. QED
      BY <3>4, <3>5
  <2>5. QED
    BY <1>10, <2>3, <2>4
<1>13. QED
  BY <1>3, <1>4, <1>11, <1>12 DEF MarksOK, K

\* Nothing is wrong with the marks of a story that lost its oldest row, or that was
\* cut before rows among which no marker was.
LEMMA MarksCut ==
  ASSUME Story \in Seq(Row), Story' \in Seq(Row), NEW c \in Nat,
         Len(Story') + c <= Len(Story),
         \A i \in 1..Len(Story') : Story'[i] = Story[i + c],
         \A j \in (Len(Story') + c + 1)..Len(Story) : Story[j].kind # "rollback",
         lost' = lost, early' = early, outstanding' = outstanding, MarksOK
  PROVE  MarksOK'
<1> DEFINE N == Len(Story)
           M == Len(Story')
<1>1. SUFFICES ASSUME ~lost
               PROVE  MarksOK'
  BY DEF MarksOK
<1>2. N \in Nat /\ DOMAIN Story = 1..N /\ M \in Nat /\ DOMAIN Story' = 1..M
  BY LenProperties
<1>3. /\ \A i \in 1..N : Applied(Story[i]) /\ (\A j \in i..N : Story[j].kind # "rollback")
                          => Story[i].n \in outstanding
      /\ ~early => \A i, j \in 1..N :
            i < j /\ j - i < MaxRowsKept /\ Applied(Story[i]) /\ Story[j].kind = "rollback"
              => Story[i].n \notin outstanding
  BY <1>1, <1>2 DEF MarksOK
<1>4. /\ \A i \in 1..M : Story'[i] = Story[i + c]
      /\ \A j \in (M + c + 1)..N : Story[j].kind # "rollback"
      /\ M + c <= N
  OBVIOUS
<1> HIDE DEF N, M
<1>5. \A i \in 1..M : i + c \in 1..N
  BY <1>2, <1>4
<1>7. ASSUME NEW i \in 1..M, Applied(Story'[i]), \A j \in i..M : Story'[j].kind # "rollback"
      PROVE  Story'[i].n \in outstanding
  <2>1. ASSUME NEW j \in (i + c)..N
        PROVE  Story[j].kind # "rollback"
    <3>1. CASE j > M + c
      <4>1. j \in (M + c + 1)..N
        BY <1>2, <2>1, <3>1
      <4>2. QED
        BY <1>4, <4>1
    <3>2. CASE ~(j > M + c)
      <4>1. j - c \in i..M /\ j - c \in 1..M /\ (j - c) + c = j
        BY <1>2, <1>7, <2>1, <3>2
      <4>2. QED
        BY <1>4, <1>7, <4>1
    <3>3. QED
      BY <3>1, <3>2
  <2>2. QED
    BY <1>3, <1>4, <1>5, <1>7, <2>1
<1>8. ASSUME ~early, NEW i \in 1..M, NEW j \in 1..M,
             i < j, j - i < MaxRowsKept, Applied(Story'[i]), Story'[j].kind = "rollback"
      PROVE  Story'[i].n \notin outstanding
  <2>1. i + c < j + c /\ (j + c) - (i + c) = j - i
    BY <1>2, <1>8
  <2>2. QED
    BY <1>3, <1>4, <1>5, <1>8, <2>1
<1>9. QED
  <2>1. \A i \in DOMAIN Story' :
          Applied(Story'[i]) /\ (\A j \in i..Len(Story') : Story'[j].kind # "rollback")
            => Story'[i].n \in outstanding'
    BY <1>2, <1>7 DEF M
  <2>2. ~early' => \A i, j \in DOMAIN Story' :
          i < j /\ j - i < MaxRowsKept /\ Applied(Story'[i]) /\ Story'[j].kind = "rollback"
            => Story'[i].n \notin outstanding'
    BY <1>2, <1>8 DEF M
  <2>3. QED
    BY <2>1, <2>2 DEF MarksOK

\* The ids of the rows that are shown as applied.
LEMMA IdsAre ==
  ASSUME NEW s \in Seq(Row)
  PROVE  /\ \A p : p \in IdsOf(s) <=> \E x \in ToSet(s) : Applied(x) /\ x.id = p
         /\ IdsOf(s) \subseteq Patches
<1>1. \A p : p \in IdsOf(s) <=> \E x \in ToSet(s) : Applied(x) /\ x.id = p
  BY DEF IdsOf
<1>2. \A x \in ToSet(s) : Applied(x) => x.id \in Patches
  <2>1. \A x \in ToSet(s) : x \in Row
    BY Members
  <2>2. QED
    BY <2>1, RowKinds DEF Applied
<1>3. QED
  BY <1>1, <1>2

\* Ids when rows leave a view or a row comes to it.
LEMMA IdsLogged ==
  ASSUME NEW s \in Seq(Row), NEW r \in Row
  PROVE  /\ IdsOf(Trimmed(Append(s, r))) \subseteq IdsOf(s) \cup {x \in {r.id} : Applied(r)}
         /\ Len(Append(s, r)) <= MaxRowsKept =>
              IdsOf(Trimmed(Append(s, r))) = IdsOf(s) \cup {x \in {r.id} : Applied(r)}
<1> DEFINE t == Trimmed(Append(s, r))
<1>1. Append(s, r) \in Seq(Row) /\ ToSet(Append(s, r)) = ToSet(s) \cup {r}
  BY LoggedIs
<1>2. /\ t \in Seq(Row) /\ ToSet(t) \subseteq ToSet(Append(s, r))
      /\ Len(Append(s, r)) <= MaxRowsKept => t = Append(s, r)
  BY <1>1, TrimmedIs, TrimmedHolds
<1> HIDE DEF t
<1>3. /\ \A p : p \in IdsOf(t) <=> \E x \in ToSet(t) : Applied(x) /\ x.id = p
      /\ \A p : p \in IdsOf(s) <=> \E x \in ToSet(s) : Applied(x) /\ x.id = p
  BY <1>2, IdsAre
<1>4. IdsOf(t) \subseteq IdsOf(s) \cup {x \in {r.id} : Applied(r)}
  BY <1>1, <1>2, <1>3
<1>5. ASSUME Len(Append(s, r)) <= MaxRowsKept
      PROVE  IdsOf(t) = IdsOf(s) \cup {x \in {r.id} : Applied(r)}
  <2>1. ToSet(t) = ToSet(s) \cup {r}
    BY <1>1, <1>2, <1>5
  <2>2. QED
    BY <1>3, <2>1
<1>6. QED
  BY <1>4, <1>5 DEF t
\* What the steps need of the types.
LEMMA Types ==
  ASSUME IInv
  PROVE  /\ Logs /\ Len(rows) <= MaxRowsKept /\ Len(durable) <= MaxRowsKept
         /\ deliveries \in Nat /\ rollbacks \in Nat /\ reloads \in Nat /\ operator \in Nat
         /\ toggles \in [Features -> {"on", "off"}]
         /\ times \in [Patches -> Nat]
         /\ checking \subseteq [n : 1..deliveries, id : Patches, good : BOOLEAN]
         /\ outstanding \subseteq 1..deliveries
  BY DEF IInv, TypeOK, Logs

\* Views, readings and stories that nobody touches.
LEMMA ViewFrame ==
  ASSUME ViewOK, FoundOK, rows' = rows, durable' = durable, writes' = writes, lost' = lost,
         primed' = primed, reading' = reading
  PROVE  ViewOK' /\ FoundOK'
<1>1. Story' = Story
  BY DEF Story
<1>2. ViewOK'
  BY <1>1 DEF ViewOK, Loaded
<1>3. FoundOK'
  BY <1>1 DEF FoundOK, Continues
<1>4. QED
  BY <1>2, <1>3

\* Stories and marks that nobody touches.
LEMMA MarksFrame ==
  ASSUME MarksOK, durable' = durable, writes' = writes, lost' = lost, early' = early,
         outstanding' = outstanding
  PROVE  MarksOK'
<1>1. Story' = Story
  BY DEF Story
<1>2. QED
  BY <1>1 DEF MarksOK

\* Rows that nobody touches.
LEMMA KeysFrame ==
  ASSUME KeysOK, rows' = rows, durable' = durable, writes' = writes, reading' = reading,
         deliveries' = deliveries, rollbacks' = rollbacks, checking' = checking
  PROVE  KeysOK'
<1>1. Everywhere' = Everywhere
  BY DEF Everywhere
<1>2. QED
  BY <1>1, KeysKept DEF KeysOK

\* Applications that nobody adds to.
LEMMA OnceFrame ==
  ASSUME OnceOK, rows' = rows, appliedIds' = appliedIds, times' = times, reloads' = reloads,
         rollbacks' = rollbacks, deliveries \in Nat, rollbacks \in Nat,
         deliveries' \in {deliveries, deliveries + 1}
  PROVE  OnceOK'
<1>1. deliveries' + rollbacks <= MaxRowsKept => deliveries + rollbacks <= MaxRowsKept
  <2>1. MaxRowsKept \in Nat
    BY LivePatchAssumption
  <2>2. CASE deliveries' = deliveries
    BY <2>2
  <2>3. CASE deliveries' = deliveries + 1
    BY <2>1, <2>3
  <2>4. QED
    BY <2>2, <2>3
<1>2. QED
  BY <1>1 DEF OnceOK

\* The invariant of the start.
LEMMA InitIInv == Init => IInv
<1>1. SUFFICES ASSUME Init
               PROVE  IInv
  OBVIOUS
<1>2. <<>> \in Seq(Row)
  OBVIOUS
<1>3. MaxRowsKept \in Nat /\ 0 <= MaxRowsKept /\ MaxRollbacks \in Nat
  BY LivePatchAssumption
<1>4. Len(<<>>) = 0 /\ DOMAIN <<>> = {} /\ ToSet(<<>>) = {}
  BY DEF ToSet
<1>5. /\ rows = <<>> /\ durable = <<>> /\ writes = <<>> /\ appliedIds = {} /\ checking = {}
      /\ reading = [state |-> "none", found |-> <<>>] /\ outstanding = {}
      /\ times = [p \in Patches |-> 0]
      /\ deliveries = 0 /\ rollbacks = 0 /\ reloads = 0 /\ operator = 0 /\ ~primed
  BY <1>1 DEF Init
<1>6. TypeOK
  <2>1. reading \in [state : {"none", "sent", "read"}, found : Seq(Row)]
    BY <1>2, <1>5
  <2>2. /\ armed \in BOOLEAN /\ primed \in BOOLEAN /\ rollingBack \in BOOLEAN
        /\ toggles \in [Features -> {"on", "off"}] /\ early \in BOOLEAN /\ lost \in BOOLEAN
    BY <1>1 DEF Init
  <2>3. times \in [Patches -> Nat]
    BY <1>5
  <2>4. QED
    BY <1>2, <1>3, <1>4, <1>5, <2>1, <2>2, <2>3 DEF TypeOK
<1>7. Story \in Seq(Row) /\ Len(Story) = 0 /\ DOMAIN Story = {}
  <2>1. /\ Story \in Seq(Row) /\ Len(Story) = Len(durable) + Len(writes)
    BY <1>2, <1>5, StoryIs
  <2>2. Len(Story) = 0
    BY <1>4, <1>5, <2>1
  <2>3. DOMAIN Story = 1..0
    BY <2>1, <2>2, LenProperties
  <2>4. QED
    BY <2>1, <2>2, <2>3
<1>8. ViewOK
  <2>1. rows \in Seq(Row) /\ Len(rows) = 0
    BY <1>2, <1>4, <1>5
  <2>2. Ends(Story, 0) \in Seq(Row) /\ Len(Ends(Story, 0)) = 0
    <3>1. 0 \in 0..Len(Story)
      BY <1>7
    <3>2. QED
      BY <1>7, <3>1, EndsIs
  <2>3. rows = Ends(Story, 0)
    <3>1. Len(rows) = Len(Ends(Story, 0)) /\ \A i \in 1..Len(rows) : rows[i] = Ends(Story, 0)[i]
      BY <2>1, <2>2
    <3>2. QED
      BY <2>1, <2>2, <3>1, SeqEqual
  <2>4. Least(0, MaxRowsKept) = 0 /\ Len(writes) = 0
    BY <1>3, <1>4, <1>5 DEF Least
  <2>5. QED
    BY <1>5, <1>7, <2>1, <2>3, <2>4 DEF ViewOK, Loaded
<1>9. FoundOK
  BY <1>5 DEF FoundOK
<1>10. MarksOK
  BY <1>7 DEF MarksOK
<1>11. KeysOK
  <2>1. Everywhere = {}
    BY <1>4, <1>5 DEF Everywhere
  <2>2. IsInjective(<<>>)
    BY <1>4 DEF IsInjective
  <2>3. QED
    BY <1>4, <1>5, <2>1, <2>2 DEF KeysOK
<1>12. OnceOK
  <2>1. IdsOf(rows) = {}
    BY <1>4, <1>5 DEF IdsOf
  <2>2. \A p \in Patches : times[p] = 0
    BY <1>5
  <2>3. QED
    BY <1>5, <2>1, <2>2 DEF OnceOK
<1>13. QED
  BY <1>3, <1>5, <1>6, <1>8, <1>9, <1>10, <1>11, <1>12 DEF IInv

\* Switches of the operator and of the channel, a button that comes back, and steps
\* that change nothing leave the logs alone.
LEMMA AloneStep ==
  ASSUME IInv, Arm \/ (\E f \in Features : OperatorToggle(f)) \/ RollbackReturns \/ UNCHANGED vars
  PROVE  IInv'
<1>1. /\ rows' = rows /\ durable' = durable /\ writes' = writes /\ reading' = reading
      /\ primed' = primed /\ appliedIds' = appliedIds /\ checking' = checking
      /\ deliveries' = deliveries /\ rollbacks' = rollbacks /\ reloads' = reloads
      /\ times' = times /\ outstanding' = outstanding /\ early' = early /\ lost' = lost
      /\ operator' \in {operator, operator + 1}
  BY DEF Arm, OperatorToggle, RollbackReturns, vars, page, bounds, applications, mishaps
<1>2. armed' \in BOOLEAN /\ rollingBack' \in BOOLEAN /\ toggles' \in [Features -> {"on", "off"}]
  <2>1. armed \in BOOLEAN /\ rollingBack \in BOOLEAN /\ toggles \in [Features -> {"on", "off"}]
    BY DEF IInv, TypeOK
  <2>2. CASE Arm
    <3>1. armed' \in BOOLEAN /\ toggles' = toggles /\ rollingBack' = rollingBack
      BY <2>2 DEF Arm, page
    <3>2. QED
      BY <2>1, <3>1
  <2>3. ASSUME NEW f \in Features, OperatorToggle(f)
        PROVE  armed' \in BOOLEAN /\ rollingBack' \in BOOLEAN /\ toggles' \in [Features -> {"on", "off"}]
    <3>1. /\ armed' = armed /\ rollingBack' = rollingBack
          /\ toggles' = [toggles EXCEPT ![f] = IF @ = "on" THEN "off" ELSE "on"]
      BY <2>3 DEF OperatorToggle, page
    <3>2. toggles' \in [Features -> {"on", "off"}]
      BY <2>1, <3>1
    <3>3. QED
      BY <2>1, <3>1, <3>2
  <2>4. CASE RollbackReturns
    BY <2>1, <2>4 DEF RollbackReturns
  <2>5. CASE UNCHANGED vars
    BY <2>1, <2>5 DEF vars, page
  <2>6. QED
    BY <2>2, <2>3, <2>4, <2>5
<1>3. TypeOK'
  BY <1>1, <1>2 DEF IInv, TypeOK
<1>4. ViewOK' /\ FoundOK' /\ MarksOK' /\ KeysOK'
  BY <1>1, ViewFrame, MarksFrame, KeysFrame DEF IInv
<1>5. OnceOK'
  BY <1>1, OnceFrame, Types DEF IInv
<1>6. QED
  BY <1>1, <1>3, <1>4, <1>5, Types DEF IInv

\* A frame that arrives is numbered beyond all rows.
LEMMA ArriveStep ==
  ASSUME IInv, NEW p \in Patches, NEW good \in BOOLEAN, Arrive(p, good)
  PROVE  IInv'
<1> DEFINE d == [n |-> deliveries + 1, id |-> p, good |-> good]
<1>1. /\ rows' = rows /\ durable' = durable /\ writes' = writes /\ reading' = reading
      /\ primed' = primed /\ appliedIds' = appliedIds /\ armed' = armed /\ toggles' = toggles
      /\ rollingBack' = rollingBack /\ deliveries' = deliveries + 1 /\ operator' = operator
      /\ rollbacks' = rollbacks /\ reloads' = reloads
      /\ times' = times /\ outstanding' = outstanding /\ early' = early /\ lost' = lost
      /\ checking' \subseteq checking \cup {d}
  BY DEF Arrive, applications, mishaps
<1>2. /\ deliveries \in Nat /\ rollbacks \in Nat
      /\ checking \subseteq [n : 1..deliveries, id : Patches, good : BOOLEAN]
      /\ outstanding \subseteq 1..deliveries
  BY Types
<1>3. 1..deliveries \subseteq 1..deliveries' /\ deliveries + 1 \in 1..deliveries' /\ deliveries' \in Nat
      /\ \A n \in 1..deliveries : n # deliveries + 1
  BY <1>1, <1>2
<1>4. checking' \subseteq [n : 1..deliveries', id : Patches, good : BOOLEAN]
  <2>1. d \in [n : 1..deliveries', id : Patches, good : BOOLEAN]
    BY <1>3
  <2>2. checking \subseteq [n : 1..deliveries', id : Patches, good : BOOLEAN]
    BY <1>2, <1>3
  <2> HIDE DEF d
  <2>3. QED
    BY <1>1, <2>1, <2>2
<1>5. TypeOK'
  BY <1>1, <1>2, <1>3, <1>4 DEF IInv, TypeOK
<1>6. ViewOK' /\ FoundOK' /\ MarksOK'
  BY <1>1, ViewFrame, MarksFrame DEF IInv
<1>7. OnceOK'
  BY <1>1, <1>2, OnceFrame DEF IInv
<1>8. KeysOK'
  <2>1. Everywhere' = Everywhere
    BY <1>1 DEF Everywhere
  <2>2. \A r \in Everywhere : r.n \in 1..(IF r.kind = "patch" THEN deliveries ELSE rollbacks)
    BY DEF IInv, KeysOK
  <2>3. \A r \in Everywhere : r.n \in 1..(IF r.kind = "patch" THEN deliveries' ELSE rollbacks)
    BY <1>3, <2>2
  <2>4. d.n = deliveries + 1 /\ \A c \in checking : c.n # d.n
    BY <1>2, <1>3
  <2>5. \A r \in Everywhere : r.kind = "patch" => r.n # d.n
    BY <1>3, <2>2
  <2> HIDE DEF d
  <2>6. \A r \in Everywhere, c \in checking' : r.kind = "patch" => r.n # c.n
    BY <1>1, <2>5 DEF IInv, KeysOK
  <2>7. \A b, c \in checking' : b.n = c.n => b = c
    BY <1>1, <2>4 DEF IInv, KeysOK
  <2>8. QED
    BY <1>1, <2>1, <2>3, <2>6, <2>7 DEF IInv, KeysOK
<1>9. QED
  BY <1>1, <1>3, <1>5, <1>6, <1>7, <1>8 DEF IInv
\* The panel mounts.
LEMMA OpenPanelStep ==
  ASSUME IInv, OpenPanel
  PROVE  IInv'
<1>1. /\ rows' = rows /\ durable' = durable /\ writes' = writes
      /\ reading' = [state |-> "sent", found |-> <<>>]
      /\ primed' = TRUE /\ appliedIds' = appliedIds /\ checking' = checking
      /\ armed' = armed /\ toggles' = toggles /\ rollingBack' = rollingBack
      /\ deliveries' = deliveries /\ rollbacks' = rollbacks /\ reloads' = reloads
      /\ operator' = operator
      /\ times' = times /\ outstanding' = outstanding /\ early' = early /\ lost' = lost
  BY DEF OpenPanel, bounds, applications, mishaps
<1>2. <<>> \in Seq(Row) /\ IsInjective(<<>>) /\ ToSet(<<>>) = {}
  <2>1. <<>> \in Seq(Row)
    OBVIOUS
  <2>2. QED
    BY <2>1 DEF IsInjective, ToSet
<1>3. TypeOK'
  <2>1. reading' \in [state : {"none", "sent", "read"}, found : Seq(Row)]
    BY <1>1, <1>2
  <2>2. QED
    BY <1>1, <2>1 DEF IInv, TypeOK
<1>4. ViewOK'
  <2>1. Story' = Story
    BY <1>1 DEF Story
  <2>2. QED
    BY <1>1, <2>1 DEF IInv, ViewOK, Loaded
<1>5. FoundOK'
  BY <1>1 DEF FoundOK
<1>6. MarksOK'
  BY <1>1, MarksFrame DEF IInv
<1>7. KeysOK'
  <2>1. reading.found' = <<>>
    BY <1>1
  <2>2. Everywhere' \subseteq Everywhere
    BY <1>1, <1>2, <2>1 DEF Everywhere
  <2>3. /\ IsInjective(rows)' /\ IsInjective(durable)' /\ IsInjective(reading.found)'
        /\ IsInjective(writes)' /\ (ToSet(durable) \cap ToSet(writes) = {})'
    BY <1>1, <1>2, <2>1 DEF IInv, KeysOK
  <2>4. QED
    BY <1>1, <2>2, <2>3, KeysKept DEF IInv
<1>8. OnceOK'
  BY <1>1, OnceFrame, Types DEF IInv
<1>9. QED
  BY <1>1, <1>3, <1>4, <1>5, <1>6, <1>7, <1>8, Types DEF IInv

\* The durable log is read, or cannot be.
LEMMA ReadLogStep ==
  ASSUME IInv, ReadLog
  PROVE  IInv'
<1>1. /\ rows' = rows /\ durable' = durable /\ writes' = writes
      /\ primed' = primed /\ appliedIds' = appliedIds /\ checking' = checking
      /\ armed' = armed /\ toggles' = toggles /\ rollingBack' = rollingBack
      /\ deliveries' = deliveries /\ rollbacks' = rollbacks /\ reloads' = reloads
      /\ operator' = operator
      /\ times' = times /\ outstanding' = outstanding /\ early' = early
  BY DEF ReadLog, bounds, applications
<1>2. \/ reading' = [state |-> "read", found |-> durable] /\ lost' = lost
      \/ reading' = [state |-> "none", found |-> <<>>] /\ lost' = TRUE
  BY DEF ReadLog
<1>3. <<>> \in Seq(Row) /\ IsInjective(<<>>) /\ ToSet(<<>>) = {}
  <2>1. <<>> \in Seq(Row)
    OBVIOUS
  <2>2. QED
    BY <2>1 DEF IsInjective, ToSet
<1>4. Logs
  BY Types
<1>5. reading.found' = durable \/ reading.found' = <<>>
  BY <1>2
<1>6. TypeOK'
  <2>1. reading' \in [state : {"none", "sent", "read"}, found : Seq(Row)]
    <3>1. durable \in Seq(Row)
      BY <1>4 DEF Logs
    <3>2. CASE reading' = [state |-> "read", found |-> durable]
      BY <3>1, <3>2
    <3>3. CASE reading' = [state |-> "none", found |-> <<>>]
      BY <1>3, <3>3
    <3>4. QED
      BY <1>2, <3>2, <3>3
  <2>2. lost' \in BOOLEAN
    BY <1>2 DEF IInv, TypeOK
  <2>3. QED
    BY <1>1, <2>1, <2>2 DEF IInv, TypeOK
<1>7. KeysOK'
  <2>1. Everywhere' \subseteq Everywhere
    BY <1>1, <1>3, <1>5 DEF Everywhere
  <2>2. /\ IsInjective(rows)' /\ IsInjective(durable)' /\ IsInjective(reading.found)'
        /\ IsInjective(writes)' /\ (ToSet(durable) \cap ToSet(writes) = {})'
    BY <1>1, <1>3, <1>5 DEF IInv, KeysOK
  <2>3. QED
    BY <1>1, <2>1, <2>2, KeysKept DEF IInv
<1>8. OnceOK'
  BY <1>1, OnceFrame, Types DEF IInv
<1>9. ViewOK' /\ FoundOK' /\ MarksOK'
  <2>1. CASE lost' = TRUE
    BY <2>1 DEF ViewOK, FoundOK, MarksOK
  <2>2. CASE reading' = [state |-> "read", found |-> durable] /\ lost' = lost
    <3>1. IsInjective(Story)
      BY <1>4, StoryInjective DEF Logs, IInv, KeysOK
    <3>2. FoundOK'
      BY <1>1, <1>4, <2>2, <3>1, FoundReads DEF Logs, IInv
    <3>3. Story' = Story /\ ~Loaded'
      BY <1>1, <2>2 DEF Story, Loaded
    <3>4. ViewOK'
      BY <1>1, <2>2, <3>3 DEF IInv, ViewOK
    <3>5. MarksOK'
      BY <1>1, <2>2, MarksFrame DEF IInv
    <3>6. QED
      BY <3>2, <3>4, <3>5
  <2>3. QED
    BY <1>2, <2>1, <2>2
<1>10. QED
  BY <1>1, <1>6, <1>7, <1>8, <1>9, Types DEF IInv

\* A row is stored, or is lost.
LEMMA WriteStep ==
  ASSUME IInv, Write
  PROVE  IInv'
<1>1. /\ rows' = rows /\ reading' = reading
      /\ primed' = primed /\ appliedIds' = appliedIds /\ checking' = checking
      /\ armed' = armed /\ toggles' = toggles /\ rollingBack' = rollingBack
      /\ deliveries' = deliveries /\ rollbacks' = rollbacks /\ reloads' = reloads
      /\ operator' = operator
      /\ times' = times /\ outstanding' = outstanding /\ early' = early
      /\ writes # <<>> /\ writes' = Tail(writes)
  BY DEF Write, bounds, applications
<1>2. \/ durable' = Trimmed(Append(durable, Head(writes))) /\ lost' = lost
      \/ durable' = durable /\ lost' = TRUE
  BY DEF Write
<1>3. /\ rows \in Seq(Row) /\ durable \in Seq(Row) /\ writes \in Seq(Row)
      /\ reading.found \in Seq(Row)
      /\ Len(rows) <= MaxRowsKept /\ Len(durable) <= MaxRowsKept
      /\ deliveries \in Nat /\ rollbacks \in Nat
  BY Types DEF Logs
<1>4. /\ writes' \in Seq(Row) /\ Head(writes) \in Row
      /\ ToSet(writes') \subseteq ToSet(writes) /\ Head(writes) \in ToSet(writes)
      /\ IsInjective(writes) => IsInjective(writes') /\ Head(writes) \notin ToSet(writes')
  <2>1. /\ writes' \in Seq(Row) /\ Head(writes) \in Row /\ Len(writes') = Len(writes) - 1
        /\ \A i \in 1..Len(writes') : writes'[i] = writes[i + 1]
    BY <1>1, <1>3, HeadTailProperties
  <2>2. Len(writes) \in Nat /\ Len(writes) > 0 /\ Head(writes) = writes[1]
    BY <1>1, <1>3, EmptySeq
  <2>3. /\ \A i \in 1..Len(writes) : writes[i] \in ToSet(writes)
        /\ IsInjective(writes) => \A i, j \in 1..Len(writes) : writes[i] = writes[j] => i = j
    BY <1>3, Members
  <2>4. \A x : x \in ToSet(writes') <=> \E i \in 1..Len(writes') : writes'[i] = x
    BY <2>1, Members, Zenon
  <2>5. \A i \in 1..Len(writes') : i + 1 \in 1..Len(writes) /\ i + 1 # 1
    BY <2>1, <2>2
  <2>6. 1 \in 1..Len(writes)
    BY <2>2
  <2>7. ToSet(writes') \subseteq ToSet(writes) /\ Head(writes) \in ToSet(writes)
    BY <2>1, <2>2, <2>3, <2>4, <2>5, <2>6
  <2>8. ASSUME IsInjective(writes)
        PROVE  IsInjective(writes') /\ Head(writes) \notin ToSet(writes')
    <3>1. \A i, j \in 1..Len(writes') : writes'[i] = writes'[j] => i = j
      <4>1. SUFFICES ASSUME NEW i \in 1..Len(writes'), NEW j \in 1..Len(writes'),
                            writes'[i] = writes'[j]
                     PROVE  i = j
        OBVIOUS
      <4>2. i + 1 = j + 1
        BY <2>1, <2>3, <2>5, <2>8, <4>1
      <4>3. QED
        BY <2>1, <2>2, <4>2
    <3>2. IsInjective(writes')
      BY <2>1, <3>1, Members, Zenon
    <3>3. Head(writes) \notin ToSet(writes')
      BY <2>1, <2>2, <2>3, <2>4, <2>5, <2>6, <2>8
    <3>4. QED
      BY <3>2, <3>3
  <2>9. QED
    BY <2>1, <2>7, <2>8
<1>5. /\ durable' \in Seq(Row) /\ Len(durable') <= MaxRowsKept
      /\ ToSet(durable') \subseteq ToSet(durable) \cup {Head(writes)}
      /\ IsInjective(durable) /\ Head(writes) \notin ToSet(durable) => IsInjective(durable')
  <2>1. CASE durable' = durable
    BY <1>3, <2>1
  <2>2. CASE durable' = Trimmed(Append(durable, Head(writes)))
    <3>1. /\ Append(durable, Head(writes)) \in Seq(Row)
          /\ ToSet(Append(durable, Head(writes))) = ToSet(durable) \cup {Head(writes)}
          /\ IsInjective(durable) /\ Head(writes) \notin ToSet(durable)
               => IsInjective(Append(durable, Head(writes)))
      BY <1>3, <1>4, LoggedIs
    <3>2. /\ Trimmed(Append(durable, Head(writes))) \in Seq(Row)
          /\ Len(Trimmed(Append(durable, Head(writes)))) <= MaxRowsKept
      BY <3>1, TrimmedIs
    <3>3. QED
      BY <2>2, <3>1, <3>2, TrimmedHolds
  <2>3. QED
    BY <1>2, <2>1, <2>2
<1>6. TypeOK'
  <2>1. lost' \in BOOLEAN
    BY <1>2 DEF IInv, TypeOK
  <2>2. QED
    BY <1>1, <1>4, <1>5, <2>1 DEF IInv, TypeOK
<1>7. KeysOK'
  <2>1. /\ IsInjective(rows) /\ IsInjective(durable) /\ IsInjective(reading.found)
        /\ IsInjective(writes) /\ ToSet(durable) \cap ToSet(writes) = {}
    BY DEF IInv, KeysOK
  <2>2. Everywhere' \subseteq Everywhere
    BY <1>1, <1>4, <1>5 DEF Everywhere
  <2>3. Head(writes) \notin ToSet(durable) /\ Head(writes) \notin ToSet(writes')
    BY <1>4, <2>1
  <2>4. /\ IsInjective(rows)' /\ IsInjective(durable)' /\ IsInjective(reading.found)'
        /\ IsInjective(writes)' /\ (ToSet(durable) \cap ToSet(writes) = {})'
    BY <1>1, <1>4, <1>5, <2>1, <2>3
  <2>5. QED
    BY <1>1, <2>2, <2>4, KeysKept DEF IInv
<1>8. OnceOK'
  BY <1>1, <1>3, OnceFrame DEF IInv
<1>9. ViewOK' /\ FoundOK' /\ MarksOK'
  <2>1. CASE lost' = TRUE
    BY <2>1 DEF ViewOK, FoundOK, MarksOK
  <2>2. CASE durable' = Trimmed(Append(durable, Head(writes))) /\ lost' = lost
    <3>1. ViewOK'
      BY <1>1, <1>3, <2>2, ViewStored DEF IInv
    <3>2. FoundOK'
      BY <1>1, <1>3, <2>2, FoundStored DEF IInv
    <3>3. MarksOK'
      <4>1. PICK c : c = IF Len(durable) = MaxRowsKept THEN 1 ELSE 0
        OBVIOUS
      <4>2. /\ Story' \in Seq(Row) /\ Len(Story') = Len(Story) - c
            /\ \A i \in 1..Len(Story') : Story'[i] = Story[i + c]
        BY <1>1, <1>3, <2>2, <4>1, StoryStored
      <4>3. Story \in Seq(Row) /\ Len(Story) \in Nat /\ c \in Nat /\ c \in Int
        BY <1>3, <4>1, StoryIs, LenProperties
      <4>4. Len(Story') + c <= Len(Story) /\ ((Len(Story') + c + 1)..Len(Story)) = {}
        BY <4>2, <4>3
      <4>5. \A j \in (Len(Story') + c + 1)..Len(Story) : Story[j].kind # "rollback"
        BY <4>4
      <4>6. QED
        BY <1>1, <2>2, <4>2, <4>3, <4>4, <4>5, MarksCut DEF IInv
    <3>4. QED
      BY <3>1, <3>2, <3>3
  <2>3. QED
    BY <1>2, <2>1, <2>2
<1>10. QED
  BY <1>1, <1>6, <1>7, <1>8, <1>9, Types DEF IInv
\* What a merge leaves in view.
LEMMA MergedIs ==
  ASSUME rows \in Seq(Row), NEW found \in Seq(Row)
  PROVE  /\ Merged(found) \in Seq(Row) /\ Len(Merged(found)) <= MaxRowsKept
         /\ ToSet(Merged(found)) \subseteq ToSet(found) \cup ToSet(rows)
         /\ IsInjective(found) /\ IsInjective(rows) => IsInjective(Merged(found))
         /\ ToSet(rows) \subseteq ToSet(Merged(found)) \/ Len(Merged(found)) = MaxRowsKept
<1> DEFINE j == found \o Unfound(found)
<1>1. /\ j \in Seq(Row) /\ ToSet(j) = ToSet(found) \cup ToSet(rows)
      /\ IsInjective(found) /\ IsInjective(rows) => IsInjective(j)
  BY JoinedIs
<1>2. Merged(found) = Trimmed(j)
  BY DEF Merged
<1> HIDE DEF j
<1>3. Trimmed(j) \in Seq(Row) /\ Len(Trimmed(j)) <= MaxRowsKept
  BY <1>1, TrimmedIs
<1>4. QED
  BY <1>1, <1>2, <1>3, TrimmedHolds

\* The read is merged into the view.
LEMMA MergeLogStep ==
  ASSUME IInv, MergeLog
  PROVE  IInv'
<1> DEFINE f == reading.found
<1>1. /\ durable' = durable /\ writes' = writes /\ rows' = Merged(f)
      /\ reading' = [state |-> "none", found |-> <<>>] /\ reading.state = "read"
      /\ primed' = primed /\ appliedIds' = IdsOf(rows') /\ checking' = checking
      /\ armed' = armed /\ toggles' = toggles /\ rollingBack' = rollingBack
      /\ deliveries' = deliveries /\ rollbacks' = rollbacks /\ reloads' = reloads
      /\ operator' = operator
      /\ times' = times /\ outstanding' = outstanding /\ early' = early /\ lost' = lost
  BY DEF MergeLog, bounds, applications, mishaps
<1>2. /\ rows \in Seq(Row) /\ durable \in Seq(Row) /\ writes \in Seq(Row) /\ f \in Seq(Row)
      /\ Len(rows) <= MaxRowsKept /\ deliveries \in Nat /\ rollbacks \in Nat
  BY Types DEF Logs
<1>3. <<>> \in Seq(Row) /\ IsInjective(<<>>) /\ ToSet(<<>>) = {}
  <2>1. <<>> \in Seq(Row)
    OBVIOUS
  <2>2. QED
    BY <2>1 DEF IsInjective, ToSet
<1>4. IsInjective(rows) /\ IsInjective(f)
  BY DEF IInv, KeysOK
<1>5. /\ rows' \in Seq(Row) /\ Len(rows') <= MaxRowsKept
      /\ ToSet(rows') \subseteq ToSet(f) \cup ToSet(rows)
      /\ IsInjective(rows')
  <2> HIDE DEF f
  <2>1. QED
    BY <1>1, <1>2, <1>4, MergedIs
<1>6. TypeOK'
  <2>1. reading' \in [state : {"none", "sent", "read"}, found : Seq(Row)]
    BY <1>1, <1>3
  <2>2. appliedIds' \subseteq Patches
    BY <1>1, <1>5, IdsAre
  <2>3. QED
    BY <1>1, <1>5, <2>1, <2>2 DEF IInv, TypeOK
<1>7. KeysOK'
  <2>1. reading.found' = <<>>
    BY <1>1
  <2>2. Everywhere' \subseteq Everywhere
    BY <1>1, <1>3, <1>5, <2>1 DEF Everywhere
  <2>3. /\ IsInjective(rows)' /\ IsInjective(durable)' /\ IsInjective(reading.found)'
        /\ IsInjective(writes)' /\ (ToSet(durable) \cap ToSet(writes) = {})'
    BY <1>1, <1>3, <1>5, <2>1 DEF IInv, KeysOK
  <2>4. QED
    BY <1>1, <2>2, <2>3, KeysKept DEF IInv
<1>8. FoundOK' /\ MarksOK'
  <2>1. FoundOK'
    BY <1>1 DEF FoundOK
  <2>2. QED
    BY <1>1, <2>1, MarksFrame DEF IInv
<1>9. ViewOK'
  <2>1. CASE lost
    BY <1>1, <2>1 DEF ViewOK
  <2>2. CASE ~lost
    <3> DEFINE n == Least(Len(Story), MaxRowsKept)
    <3>1. n \in 0..Len(Story) /\ Len(Merged(f)) = n /\ Merged(f) = Ends(Story, n)
      BY <1>1, <1>2, <2>2, MergeIsStory DEF IInv
    <3>2. Story' = Story
      BY <1>1 DEF Story
    <3>3. Len(rows') = n /\ rows' = Ends(Story, Len(rows'))
      BY <1>1, <3>1
    <3>4. /\ Len(Story) = Len(durable) + Len(writes) /\ Len(durable) \in Nat /\ Len(writes) \in Nat
          /\ MaxRowsKept \in Nat /\ Len(Story) \in Nat
      BY <1>2, StoryIs, LenProperties, LivePatchAssumption
    <3>5. Least(Len(writes), MaxRowsKept) <= n
      BY <3>4 DEF Least
    <3> HIDE DEF n
    <3>6. n <= Len(Story)
      BY <3>1, <3>4
    <3>7. QED
      BY <1>1, <3>2, <3>3, <3>5, <3>6 DEF ViewOK, n
  <2>3. QED
    BY <2>1, <2>2
<1>10. OnceOK'
  <2>1. IdsOf(rows') \subseteq appliedIds'
    BY <1>1
  <2>2. ASSUME reloads = 0, deliveries + rollbacks <= MaxRowsKept, NEW p \in Patches
        PROVE  times[p] = 0 \/ (times[p] = 1 /\ p \in IdsOf(rows'))
    <3>1. times[p] = 0 \/ (times[p] = 1 /\ p \in IdsOf(rows))
      BY <2>2 DEF IInv, OnceOK
    <3> DEFINE j == f \o Unfound(f)
    <3>2. /\ j \in Seq(Row) /\ ToSet(j) = ToSet(f) \cup ToSet(rows) /\ IsInjective(j)
      <4> HIDE DEF f
      <4>1. QED
        BY <1>2, <1>4, JoinedIs
    <3>3. rows' = Trimmed(j)
      BY <1>1 DEF Merged
    <3> HIDE DEF j, f
    <3>4. ToSet(j) \subseteq Everywhere
      BY <3>2 DEF Everywhere, f
    <3>5. /\ \A r \in Everywhere : r.n \in 1..(IF r.kind = "patch" THEN deliveries ELSE rollbacks)
          /\ \A r, q \in Everywhere : r.kind = q.kind /\ r.n = q.n => r = q
      BY DEF IInv, KeysOK
    <3>6. Len(j) <= deliveries + rollbacks
      BY <1>2, <3>2, <3>4, <3>5, FewRows
    <3>7. Len(j) <= MaxRowsKept
      <4>1. Len(j) \in Nat /\ MaxRowsKept \in Nat
        BY <3>2, LenProperties, LivePatchAssumption
      <4>2. QED
        BY <1>2, <2>2, <3>6, <4>1
    <3>8. rows' = j
      BY <3>2, <3>3, <3>7, TrimmedHolds
    <3>9. ToSet(rows) \subseteq ToSet(rows')
      BY <3>2, <3>8
    <3>10. IdsOf(rows) \subseteq IdsOf(rows')
      BY <3>9 DEF IdsOf
    <3>11. QED
      BY <3>1, <3>10
  <2>3. QED
    BY <1>1, <2>1, <2>2 DEF OnceOK
<1>11. QED
  BY <1>1, <1>6, <1>7, <1>8, <1>9, <1>10, Types DEF IInv

\* A reload leaves the durable log and the switches.
LEMMA ReloadStep ==
  ASSUME IInv, Reload
  PROVE  IInv'
<1>1. /\ rows' = <<>> /\ writes' = <<>> /\ appliedIds' = {} /\ primed' = FALSE /\ checking' = {}
      /\ reading' = [state |-> "none", found |-> <<>>] /\ rollingBack' = FALSE
      /\ durable' = durable /\ armed' = armed /\ toggles' = toggles
      /\ deliveries' = deliveries /\ rollbacks' = rollbacks /\ reloads' = reloads + 1
      /\ operator' = operator
      /\ times' = times /\ outstanding' = outstanding /\ early' = early
      /\ lost' = (lost \/ \E r \in ToSet(writes) : r.kind = "rollback")
  BY DEF Reload, NewPage, applications
<1>2. /\ rows \in Seq(Row) /\ durable \in Seq(Row) /\ writes \in Seq(Row)
      /\ deliveries \in Nat /\ rollbacks \in Nat /\ reloads \in Nat
  BY Types DEF Logs
<1>3. /\ <<>> \in Seq(Row) /\ IsInjective(<<>>) /\ ToSet(<<>>) = {} /\ Len(<<>>) = 0
      /\ MaxRowsKept \in Nat
  <2>1. <<>> \in Seq(Row)
    OBVIOUS
  <2>2. QED
    BY <2>1, LivePatchAssumption DEF IsInjective, ToSet
<1>4. lost' \in BOOLEAN /\ (~lost' => ~lost /\ \A r \in ToSet(writes) : r.kind # "rollback")
  BY <1>1, Zenon DEF IInv, TypeOK
<1>5. TypeOK'
  <2>1. reading' \in [state : {"none", "sent", "read"}, found : Seq(Row)]
    BY <1>1, <1>3
  <2>2. /\ rows' \in Seq(Row) /\ writes' \in Seq(Row) /\ Len(rows') <= MaxRowsKept
        /\ durable' \in Seq(Row) /\ Len(durable') <= MaxRowsKept
        /\ appliedIds' \subseteq Patches /\ rollingBack' \in BOOLEAN /\ primed' \in BOOLEAN
        /\ checking' \subseteq [n : 1..deliveries', id : Patches, good : BOOLEAN]
    <3>1. 0 <= MaxRowsKept /\ Len(durable) <= MaxRowsKept
      BY <1>3, Types
    <3>2. rows' \in Seq(Row) /\ writes' \in Seq(Row) /\ Len(rows') <= MaxRowsKept
      BY <1>1, <1>3, <3>1
    <3>3. QED
      BY <1>1, <1>2, <3>1, <3>2
  <2>3. /\ armed' \in BOOLEAN /\ toggles' \in [Features -> {"on", "off"}] /\ early' \in BOOLEAN
        /\ outstanding' \subseteq 1..deliveries' /\ times' \in [Patches -> Nat]
    BY <1>1 DEF IInv, TypeOK
  <2>4. QED
    BY <1>4, <2>1, <2>2, <2>3 DEF TypeOK
<1>6. KeysOK'
  <2>1. reading.found' = <<>>
    BY <1>1
  <2>2. Everywhere' \subseteq Everywhere
    BY <1>1, <1>3, <2>1 DEF Everywhere
  <2>3. /\ IsInjective(rows)' /\ IsInjective(durable)' /\ IsInjective(reading.found)'
        /\ IsInjective(writes)' /\ (ToSet(durable) \cap ToSet(writes) = {})'
    BY <1>1, <1>3, <2>1 DEF IInv, KeysOK
  <2>4. QED
    BY <1>1, <2>2, <2>3, KeysKept DEF IInv
<1>7. FoundOK'
  BY <1>1 DEF FoundOK
<1>8. /\ Story' = durable
      /\ Story \in Seq(Row) /\ Len(Story) = Len(durable) + Len(writes)
      /\ \A i \in 1..Len(durable) : Story[i] = durable[i]
      /\ \A i \in 1..Len(writes) : Story[Len(durable) + i] = writes[i]
      /\ Len(durable) \in Nat /\ Len(writes) \in Nat
  <2>1. Story' = durable \o <<>>
    BY <1>1 DEF Story
  <2>2. Story' = durable
    BY <1>2, <2>1, ConcatEmptySeq
  <2>3. QED
    BY <1>2, <2>2, StoryIs, LenProperties
<1>9. ViewOK'
  <2>1. Least(0, MaxRowsKept) = 0
    BY <1>3 DEF Least
  <2>2. /\ Ends(durable, 0) \in Seq(Row) /\ Len(Ends(durable, 0)) = 0
    <3>1. 0 \in 0..Len(durable)
      BY <1>8
    <3>2. QED
      BY <1>2, <3>1, EndsIs
  <2>3. Ends(durable, 0) = <<>>
    BY <2>2, EmptySeq
  <2>4. /\ Len(rows') = 0 /\ Len(writes') = 0 /\ rows' = Ends(Story', Len(rows')) /\ ~Loaded'
    BY <1>1, <1>3, <1>8, <2>3 DEF Loaded
  <2>5. Len(rows') <= Len(Story')
    BY <1>8, <2>4
  <2>6. QED
    BY <2>1, <2>4, <2>5 DEF ViewOK
<1>10. MarksOK'
  <2>1. CASE lost'
    BY <2>1 DEF MarksOK
  <2>2. CASE ~lost'
    <3>1. lost' = lost
      BY <1>4, <2>2 DEF IInv, TypeOK
    <3>2. /\ Story' \in Seq(Row) /\ Len(Story') + 0 <= Len(Story)
          /\ \A i \in 1..Len(Story') : i + 0 = i
      BY <1>2, <1>8
    <3>3. \A i \in 1..Len(Story') : Story'[i] = Story[i + 0]
      BY <1>8, <3>2
    <3>4. ASSUME NEW j \in (Len(Story') + 0 + 1)..Len(Story)
          PROVE  Story[j].kind # "rollback"
      <4>1. j - Len(durable) \in 1..Len(writes) /\ Len(durable) + (j - Len(durable)) = j
        BY <1>8, <3>4
      <4>2. Story[j] = writes[j - Len(durable)]
        BY <1>8, <4>1
      <4>3. Story[j] \in ToSet(writes)
        BY <1>2, <4>1, <4>2, Members
      <4>4. QED
        BY <1>4, <2>2, <4>3
    <3>5. 0 \in Nat
      OBVIOUS
    <3>6. QED
      BY <1>1, <1>8, <3>1, <3>2, <3>3, <3>4, <3>5, MarksCut DEF IInv
  <2>3. QED
    BY <2>1, <2>2
<1>11. OnceOK'
  <2>1. IdsOf(<<>>) = {}
    BY <1>3 DEF IdsOf
  <2>2. reloads' # 0
    BY <1>1, <1>2
  <2>3. QED
    BY <1>1, <2>1, <2>2 DEF OnceOK
<1>12. reloads' \in Nat
  BY <1>1, <1>2
<1>13. QED
  BY <1>1, <1>5, <1>6, <1>7, <1>9, <1>10, <1>11, <1>12, Types DEF IInv
\* The types of the logs that get a row.
LEMMA LogTypes ==
  ASSUME rows \in Seq(Row), writes \in Seq(Row), NEW r \in Row, Log(r)
  PROVE  /\ rows' \in Seq(Row) /\ writes' \in Seq(Row) /\ Len(rows') <= MaxRowsKept
         /\ rows' = Trimmed(Append(rows, r)) /\ writes' = Append(writes, r)
         /\ Append(rows, r) \in Seq(Row)
<1>1. rows' = Trimmed(Append(rows, r)) /\ writes' = Append(writes, r)
  BY DEF Log
<1>2. Append(rows, r) \in Seq(Row) /\ Append(writes, r) \in Seq(Row)
  BY LoggedIs
<1>3. Trimmed(Append(rows, r)) \in Seq(Row) /\ Len(Trimmed(Append(rows, r))) <= MaxRowsKept
  BY <1>2, TrimmedIs
<1>4. QED
  BY <1>1, <1>2, <1>3

\* What any decision does to the logs.
LEMMA DecisionLogged ==
  ASSUME IInv, NEW d \in checking, NEW r \in Row, r.kind = "patch", r.n = d.n, Log(r),
         checking' = checking \ {d}, durable' = durable, reading' = reading, primed' = primed,
         lost' = lost, early' = early, deliveries' = deliveries, rollbacks' = rollbacks,
         outstanding \subseteq outstanding', outstanding' \subseteq outstanding \cup {r.n},
         Applied(r) => r.n \in outstanding'
  PROVE  /\ ViewOK' /\ FoundOK' /\ MarksOK' /\ KeysOK'
         /\ Len(Append(rows, r)) <= deliveries + rollbacks
<1>1. /\ rows \in Seq(Row) /\ durable \in Seq(Row) /\ writes \in Seq(Row)
      /\ reading.found \in Seq(Row) /\ Logs
      /\ Len(rows) <= MaxRowsKept /\ deliveries \in Nat /\ rollbacks \in Nat
      /\ d \in [n : 1..deliveries, id : Patches, good : BOOLEAN]
  BY Types DEF Logs
<1>2. /\ \A q \in Everywhere : q.kind = "patch" => q.n # d.n
      /\ \A c \in checking' : c.n # d.n
  BY DEF IInv, KeysOK
<1>3. r.n \in 1..(IF r.kind = "patch" THEN deliveries' ELSE rollbacks')
  BY <1>1
<1>4. /\ \A q \in Everywhere : q.kind = r.kind => q.n # r.n
      /\ \A c \in checking' : r.kind = "patch" => c.n # r.n
      /\ checking' \subseteq checking /\ rollbacks' \in {rollbacks, rollbacks + 1}
  BY <1>2
<1>5. KeysOK' /\ r \notin Everywhere /\ Len(Append(rows, r)) <= deliveries' + rollbacks'
  BY <1>1, <1>3, <1>4, KeysLogs DEF IInv
<1>6. /\ r \notin ToSet(reading.found)
      /\ ToSet(durable) \cup ToSet(writes) \subseteq Everywhere
  BY <1>5 DEF Everywhere
<1>7. \A q \in ToSet(Story) : q.kind = "patch" => q.n # r.n
  <2>1. ToSet(Story) = ToSet(durable) \cup ToSet(writes)
    BY <1>1, StoryIs
  <2>2. QED
    BY <1>2, <1>6, <2>1
<1>8. ViewOK'
  BY <1>1, ViewLogs DEF IInv
<1>9. FoundOK'
  BY <1>1, <1>6, FoundLogs DEF IInv
<1>10. MarksOK'
  BY <1>1, <1>7, MarksDecided DEF IInv
<1>11. QED
  BY <1>5, <1>8, <1>9, <1>10

\* A decision: a patch is applied for the first time, as far as the view tells, or
\* refused.
LEMMA DecideStep ==
  ASSUME IInv, NEW d \in checking, Decide(d)
  PROVE  IInv'
<1>1. /\ checking' = checking \ {d} /\ armed' = armed /\ primed' = primed /\ reading' = reading
      /\ durable' = durable /\ rollingBack' = rollingBack
      /\ deliveries' = deliveries /\ rollbacks' = rollbacks /\ reloads' = reloads
      /\ operator' = operator /\ early' = early /\ lost' = lost
  BY DEF Decide, bounds, mishaps
<1>2. /\ rows \in Seq(Row) /\ writes \in Seq(Row)
      /\ deliveries \in Nat /\ rollbacks \in Nat
      /\ d.n \in 1..deliveries /\ d.n \in Nat /\ d.id \in Patches
      /\ times \in [Patches -> Nat] /\ toggles \in [Features -> {"on", "off"}]
      /\ MaxRowsKept \in Nat
  <2>1. deliveries \in Nat /\ checking \subseteq [n : 1..deliveries, id : Patches, good : BOOLEAN]
    BY Types
  <2>2. d.n \in 1..deliveries /\ d.id \in Patches
    BY <2>1
  <2>3. d.n \in Nat
    BY <2>1, <2>2
  <2>4. QED
    BY <2>2, <2>3, Types, LivePatchAssumption DEF Logs
<1>3. CASE Apply(d)
  <2> DEFINE f == Feature[d.id]
             r == PatchRow(d.n, d.id, "applied", toggles[f])
  <2>1. /\ d.id \notin appliedIds
        /\ toggles' = [toggles EXCEPT ![f] = Value[d.id]]
        /\ Log(r) /\ appliedIds' = appliedIds \cup {d.id}
        /\ times' = [times EXCEPT ![d.id] = @ + 1]
        /\ outstanding' = outstanding \cup {d.n}
    <3>1. Verdict(d) = "applied"
      BY <1>3 DEF Apply
    <3>2. d.id \notin appliedIds
      <4>1. d.good \in BOOLEAN
        BY Types
      <4>2. QED
        BY <3>1, <4>1 DEF Verdict
    <3>3. QED
      BY <1>3, <3>2 DEF Apply
  <2>2. f \in Features /\ toggles[f] \in {"on", "off"} /\ Value[d.id] \in {"on", "off"}
    BY <1>2, LivePatchAssumption
  <2>3. r \in Row /\ r.kind = "patch" /\ r.n = d.n /\ r.id = d.id /\ Applied(r)
    <3>1. /\ d.n \in Nat /\ d.id \in Patches /\ toggles[f] \in {"on", "off", ""}
          /\ "applied" \in {"applied", "rejected", "duplicate"}
      BY <1>2, <2>2
    <3> HIDE DEF f
    <3>2. QED
      BY <3>1, PatchRowIs DEF PatchRow
  <2> HIDE DEF f, r
  <2>4. /\ outstanding \subseteq outstanding' /\ outstanding' \subseteq outstanding \cup {r.n}
        /\ r.n \in outstanding'
    BY <2>1, <2>3
  <2>5. /\ ViewOK' /\ FoundOK' /\ MarksOK' /\ KeysOK'
        /\ Len(Append(rows, r)) <= deliveries + rollbacks
    BY <1>1, <2>1, <2>3, <2>4, DecisionLogged
  <2>6. /\ rows' \in Seq(Row) /\ writes' \in Seq(Row) /\ Len(rows') <= MaxRowsKept
        /\ rows' = Trimmed(Append(rows, r)) /\ Append(rows, r) \in Seq(Row)
    BY <1>2, <2>1, <2>3, LogTypes
  <2>7. TypeOK'
    <3>1. toggles' \in [Features -> {"on", "off"}]
      BY <1>2, <2>1, <2>2
    <3>2. times' \in [Patches -> Nat]
      BY <1>2, <2>1
    <3>3. outstanding' \subseteq 1..deliveries' /\ appliedIds' \subseteq Patches
      BY <1>1, <1>2, <2>1 DEF IInv, TypeOK
    <3>4. checking' \subseteq [n : 1..deliveries', id : Patches, good : BOOLEAN]
      BY <1>1, Types
    <3>5. QED
      BY <1>1, <2>6, <3>1, <3>2, <3>3, <3>4 DEF IInv, TypeOK
  <2>8. OnceOK'
    <3>1. /\ IdsOf(rows') \subseteq IdsOf(rows) \cup {d.id}
          /\ Len(Append(rows, r)) <= MaxRowsKept => IdsOf(rows') = IdsOf(rows) \cup {d.id}
      <4>1. /\ IdsOf(rows') \subseteq IdsOf(rows) \cup {x \in {r.id} : Applied(r)}
            /\ Len(Append(rows, r)) <= MaxRowsKept =>
                 IdsOf(rows') = IdsOf(rows) \cup {x \in {r.id} : Applied(r)}
        BY <1>2, <2>3, <2>6, IdsLogged
      <4>2. {x \in {r.id} : Applied(r)} = {d.id}
        BY <2>3
      <4>3. QED
        BY <4>1, <4>2
    <3>2. IdsOf(rows) \subseteq appliedIds
      BY DEF IInv, OnceOK
    <3>3. IdsOf(rows') \subseteq appliedIds'
      BY <2>1, <3>1, <3>2
    <3>4. ASSUME reloads = 0, deliveries + rollbacks <= MaxRowsKept, NEW p \in Patches
          PROVE  times'[p] = 0 \/ (times'[p] = 1 /\ p \in IdsOf(rows'))
      <4>1. Len(Append(rows, r)) <= MaxRowsKept
        <5>1. Len(Append(rows, r)) \in Nat
          BY <2>6, LenProperties
        <5>2. QED
          BY <1>2, <2>5, <3>4, <5>1
      <4>2. IdsOf(rows') = IdsOf(rows) \cup {d.id}
        BY <3>1, <4>1
      <4>3. times[p] = 0 \/ (times[p] = 1 /\ p \in IdsOf(rows))
        BY <3>4 DEF IInv, OnceOK
      <4>4. CASE p = d.id
        <5>1. times[p] = 0
          BY <2>1, <3>2, <4>3, <4>4
        <5>2. times'[p] = 1
          BY <1>2, <2>1, <4>4, <5>1
        <5>3. QED
          BY <4>2, <4>4, <5>2
      <4>5. CASE p # d.id
        <5>1. times'[p] = times[p]
          BY <1>2, <2>1, <4>5
        <5>2. QED
          BY <4>2, <4>3, <5>1
      <4>6. QED
        BY <4>4, <4>5
    <3>5. QED
      BY <1>1, <3>3, <3>4 DEF OnceOK
  <2>9. QED
    BY <1>1, <2>5, <2>7, <2>8, Types DEF IInv
<1>4. CASE Refuse(d)
  <2> DEFINE r == PatchRow(d.n, d.id, Verdict(d), "")
  <2>1. /\ Log(r) /\ toggles' = toggles /\ appliedIds' = appliedIds /\ times' = times
        /\ outstanding' = outstanding
    BY <1>4 DEF Refuse, applications
  <2>2. Verdict(d) \in {"rejected", "duplicate"}
    <3>1. Verdict(d) # "applied"
      BY <1>4 DEF Refuse
    <3>2. d.good \in BOOLEAN
      BY Types
    <3>3. QED
      BY <3>1, <3>2 DEF Verdict
  <2>3. r \in Row /\ r.kind = "patch" /\ r.n = d.n /\ ~Applied(r)
    <3>1. /\ d.n \in Nat /\ d.id \in Patches /\ "" \in {"on", "off", ""}
          /\ Verdict(d) \in {"applied", "rejected", "duplicate"} /\ Verdict(d) # "applied"
      BY <1>2, <2>2
    <3>2. QED
      BY <3>1, PatchRowIs DEF PatchRow
  <2> HIDE DEF r
  <2>4. /\ ViewOK' /\ FoundOK' /\ MarksOK' /\ KeysOK'
        /\ Len(Append(rows, r)) <= deliveries + rollbacks
    BY <1>1, <2>1, <2>3, DecisionLogged
  <2>5. /\ rows' \in Seq(Row) /\ writes' \in Seq(Row) /\ Len(rows') <= MaxRowsKept
        /\ rows' = Trimmed(Append(rows, r)) /\ Append(rows, r) \in Seq(Row)
    BY <1>2, <2>1, <2>3, LogTypes
  <2>6. TypeOK'
    <3>1. checking' \subseteq [n : 1..deliveries', id : Patches, good : BOOLEAN]
      BY <1>1, Types
    <3>2. QED
      BY <1>1, <2>1, <2>5, <3>1 DEF IInv, TypeOK
  <2>7. OnceOK'
    <3>1. /\ IdsOf(rows') \subseteq IdsOf(rows)
          /\ Len(Append(rows, r)) <= MaxRowsKept => IdsOf(rows') = IdsOf(rows)
      <4>1. /\ IdsOf(rows') \subseteq IdsOf(rows) \cup {x \in {r.id} : Applied(r)}
            /\ Len(Append(rows, r)) <= MaxRowsKept =>
                 IdsOf(rows') = IdsOf(rows) \cup {x \in {r.id} : Applied(r)}
        BY <1>2, <2>3, <2>5, IdsLogged
      <4>2. {x \in {r.id} : Applied(r)} = {}
        BY <2>3
      <4>3. QED
        BY <4>1, <4>2
    <3>2. deliveries + rollbacks <= MaxRowsKept => Len(Append(rows, r)) <= MaxRowsKept
      <4>1. Len(Append(rows, r)) \in Nat
        BY <2>5, LenProperties
      <4>2. QED
        BY <1>2, <2>4, <4>1
    <3>3. QED
      BY <1>1, <2>1, <3>1, <3>2 DEF IInv, OnceOK
  <2>8. QED
    BY <1>1, <2>4, <2>6, <2>7, Types DEF IInv
<1>5. QED
  BY <1>3, <1>4 DEF Decide
\* A rollback: the plan is undone, and the marker says so.
LEMMA RollbackStep ==
  ASSUME IInv, Rollback
  PROVE  IInv'
<1> DEFINE r == RollbackRow(rollbacks + 1)
<1>1. /\ rollbacks < MaxRollbacks /\ primed
      /\ rollbacks' = rollbacks + 1 /\ rollingBack' = TRUE
      /\ toggles' = [f \in Features |->
           IF f \in PlannedFeatures(rows) THEN Planned(rows, f) ELSE toggles[f]]
      /\ Log(r) /\ appliedIds' = IdsOf(rows')
      /\ outstanding' = outstanding \ {rows[i].n : i \in Pending(rows)}
      /\ early' = (early \/ reading.state # "none")
      /\ armed' = armed /\ primed' = primed /\ reading' = reading /\ durable' = durable
      /\ checking' = checking /\ deliveries' = deliveries /\ operator' = operator
      /\ reloads' = reloads /\ times' = times /\ lost' = lost
  BY DEF Rollback
<1>2. /\ rows \in Seq(Row) /\ durable \in Seq(Row) /\ writes \in Seq(Row)
      /\ reading.found \in Seq(Row) /\ Logs
      /\ Len(rows) <= MaxRowsKept /\ deliveries \in Nat /\ rollbacks \in Nat
      /\ MaxRollbacks \in Nat /\ MaxRowsKept \in Nat
      /\ toggles \in [Features -> {"on", "off"}]
  BY Types, LivePatchAssumption DEF Logs
<1>3. /\ rollbacks' \in 1..MaxRollbacks /\ rollbacks' \in Nat /\ rollbacks' <= MaxRollbacks
      /\ rollbacks' \in 1..rollbacks' /\ \A n \in 1..rollbacks : n # rollbacks'
  BY <1>1, <1>2
<1>4. r \in Row /\ r.kind = "rollback" /\ r.n = rollbacks' /\ ~Applied(r)
  <2>1. r = RollbackRow(rollbacks')
    BY <1>1
  <2>2. RollbackRow(rollbacks') \in Row
    BY <1>3 DEF Row
  <2>3. QED
    BY <2>1, <2>2, MarkerIs
<1> HIDE DEF r
<1>5. \A q \in Everywhere : q.kind = r.kind => q.n # r.n
  <2>1. \A q \in Everywhere : q.n \in 1..(IF q.kind = "patch" THEN deliveries ELSE rollbacks)
    BY DEF IInv, KeysOK
  <2>2. \A q \in Everywhere : q.kind = "rollback" => q.n \in 1..rollbacks
    BY <2>1
  <2>3. QED
    BY <1>3, <1>4, <2>2
<1>6. KeysOK' /\ r \notin Everywhere /\ Len(Append(rows, r)) <= deliveries' + rollbacks'
  <2>1. r.n \in 1..(IF r.kind = "patch" THEN deliveries' ELSE rollbacks')
    BY <1>3, <1>4
  <2>2. /\ \A c \in checking' : r.kind = "patch" => c.n # r.n
        /\ checking' \subseteq checking /\ rollbacks' \in {rollbacks, rollbacks + 1}
    BY <1>1, <1>4
  <2>3. QED
    BY <1>1, <1>2, <1>4, <1>5, <2>1, <2>2, KeysLogs DEF IInv
<1>7. /\ rows' \in Seq(Row) /\ writes' \in Seq(Row) /\ Len(rows') <= MaxRowsKept
      /\ rows' = Trimmed(Append(rows, r)) /\ Append(rows, r) \in Seq(Row)
  BY <1>1, <1>2, <1>4, LogTypes
<1>8. ViewOK'
  BY <1>1, <1>2, <1>4, ViewLogs DEF IInv
<1>9. FoundOK'
  <2>1. r \notin ToSet(reading.found)
    BY <1>6 DEF Everywhere
  <2>2. QED
    BY <1>1, <1>2, <1>4, <2>1, FoundLogs DEF IInv
<1>10. MarksOK'
  BY <1>1, <1>2, <1>4, MarksRolledBack DEF IInv
<1>11. TypeOK'
  <2>1. toggles' \in [Features -> {"on", "off"}]
    <3>1. \A f \in Features : Planned(rows, f) \in {"on", "off"} /\ toggles[f] \in {"on", "off"}
      BY <1>2 DEF Planned
    <3>2. QED
      BY <1>1, <3>1
  <2>2. appliedIds' \subseteq Patches
    BY <1>1, <1>7, IdsAre
  <2>3. outstanding' \subseteq 1..deliveries'
    BY <1>1, Types
  <2>4. early' \in BOOLEAN
    <3>1. early \in BOOLEAN
      BY DEF IInv, TypeOK
    <3>2. QED
      BY <1>1, <3>1, Zenon
  <2>5. rollingBack' \in BOOLEAN
    BY <1>1
  <2>6. /\ armed' \in BOOLEAN /\ primed' \in BOOLEAN /\ lost' \in BOOLEAN
        /\ durable' \in Seq(Row) /\ Len(durable') <= MaxRowsKept
        /\ reading' \in [state : {"none", "sent", "read"}, found : Seq(Row)]
        /\ checking' \subseteq [n : 1..deliveries', id : Patches, good : BOOLEAN]
        /\ times' \in [Patches -> Nat]
    BY <1>1 DEF IInv, TypeOK
  <2>7. QED
    BY <1>7, <2>1, <2>2, <2>3, <2>4, <2>5, <2>6 DEF TypeOK
<1>12. OnceOK'
  <2>1. ASSUME reloads = 0, deliveries + rollbacks' <= MaxRowsKept, NEW p \in Patches
        PROVE  times[p] = 0 \/ (times[p] = 1 /\ p \in IdsOf(rows'))
    <3>1. Len(Append(rows, r)) \in Nat
      BY <1>7, LenProperties
    <3>2. Len(Append(rows, r)) <= MaxRowsKept /\ deliveries + rollbacks <= MaxRowsKept
      BY <1>1, <1>2, <1>6, <2>1, <3>1
    <3>3. IdsOf(rows') = IdsOf(rows) \cup {x \in {r.id} : Applied(r)}
      BY <1>2, <1>4, <1>7, <3>2, IdsLogged
    <3>4. QED
      BY <2>1, <3>2, <3>3 DEF IInv, OnceOK
  <2>2. QED
    BY <1>1, <2>1 DEF OnceOK
<1>13. QED
  BY <1>1, <1>3, <1>6, <1>8, <1>9, <1>10, <1>11, <1>12, Types DEF IInv

\* Every step keeps the invariant.
LEMMA NextIInv == IInv /\ [Next]_vars => IInv'
<1>1. SUFFICES ASSUME IInv, [Next]_vars
               PROVE  IInv'
  OBVIOUS
<1>2. CASE Arm \/ (\E f \in Features : OperatorToggle(f)) \/ RollbackReturns \/ UNCHANGED vars
  BY <1>1, <1>2, AloneStep
<1>3. CASE \E p \in Patches, good \in BOOLEAN : Arrive(p, good)
  BY <1>1, <1>3, ArriveStep
<1>4. CASE \E d \in checking : Decide(d)
  BY <1>1, <1>4, DecideStep
<1>5. CASE Write
  BY <1>1, <1>5, WriteStep
<1>6. CASE OpenPanel
  BY <1>1, <1>6, OpenPanelStep
<1>7. CASE ReadLog
  BY <1>1, <1>7, ReadLogStep
<1>8. CASE MergeLog
  BY <1>1, <1>8, MergeLogStep
<1>9. CASE Rollback
  BY <1>1, <1>9, RollbackStep
<1>10. CASE Reload
  BY <1>1, <1>10, ReloadStep
<1>11. QED
  BY <1>1, <1>2, <1>3, <1>4, <1>5, <1>6, <1>7, <1>8, <1>9, <1>10 DEF Next

\* The view, the log, the reading, the marks, the keys and the applications are as
\* IInv says, in every state the channel reaches.
THEOREM LivePatchInvariance == Spec => []IInv
<1>1. Init => IInv
  BY InitIInv
<1>2. IInv /\ [Next]_vars => IInv'
  BY NextIInv
<1>3. QED
  BY <1>1, <1>2, PTL DEF Spec

\* The variables of the channel keep their types and its logs their limit.
THEOREM PatchTypeCorrect == Spec => []TypeOK
<1>1. IInv => TypeOK
  BY DEF IInv
<1>2. QED
  BY <1>1, LivePatchInvariance, PTL

\* Where the rows of the view stand in the story.
LEMMA ViewInStory ==
  ASSUME IInv, ~lost
  PROVE  /\ Len(rows) \in Nat /\ Len(rows) <= MaxRowsKept /\ Len(Story) \in Nat
         /\ Len(rows) <= Len(Story) /\ DOMAIN rows = 1..Len(rows) /\ DOMAIN Story = 1..Len(Story)
         /\ \A i \in 1..Len(rows) :
              Len(Story) - Len(rows) + i \in 1..Len(Story)
              /\ rows[i] = Story[Len(Story) - Len(rows) + i]
<1>1. /\ rows \in Seq(Row) /\ Story \in Seq(Row)
      /\ Len(rows) <= MaxRowsKept
  BY Types, StoryIs DEF Logs
<1>2. /\ Len(rows) \in Nat /\ Len(Story) \in Nat /\ DOMAIN rows = 1..Len(rows)
      /\ DOMAIN Story = 1..Len(Story)
  BY <1>1, LenProperties
<1>3. Len(rows) <= Len(Story) /\ rows = Ends(Story, Len(rows))
  BY DEF IInv, ViewOK
<1>4. Len(rows) \in 0..Len(Story)
  BY <1>2, <1>3
<1>5. \A i \in 1..Len(rows) : Ends(Story, Len(rows))[i] = Story[Len(Story) - Len(rows) + i]
  BY <1>1, <1>4, EndsIs
<1>6. \A i \in 1..Len(rows) : Len(Story) - Len(rows) + i \in 1..Len(Story)
  BY <1>2, <1>3
<1>7. QED
  BY <1>1, <1>2, <1>3, <1>5, <1>6

\* What a rollback would undo is outstanding.
LEMMA PendingOutstanding ==
  ASSUME IInv, ~lost, NEW i \in Pending(rows)
  PROVE  i \in DOMAIN rows /\ Applied(rows[i]) /\ rows[i].n \in outstanding
<1> DEFINE N == Len(Story)
           k == Len(rows)
           x == N - k + i
<1>1. /\ k \in Nat /\ N \in Nat /\ k <= N /\ DOMAIN rows = 1..k /\ DOMAIN Story = 1..N
      /\ \A j \in 1..k : N - k + j \in 1..N /\ rows[j] = Story[N - k + j]
  BY ViewInStory
<1>2. i \in 1..k /\ Applied(rows[i]) /\ \A j \in i..k : rows[j].kind # "rollback"
  BY <1>1 DEF Pending
<1> HIDE DEF N, k
<1>3. x \in 1..N /\ Story[x] = rows[i]
  BY <1>1, <1>2
<1>4. \A j \in x..N : Story[j].kind # "rollback"
  <2>1. SUFFICES ASSUME NEW j \in x..N
                 PROVE  Story[j].kind # "rollback"
    OBVIOUS
  <2>2. j - (N - k) \in i..k /\ j - (N - k) \in 1..k /\ N - k + (j - (N - k)) = j
    BY <1>1, <1>2, <2>1
  <2>3. QED
    BY <1>1, <1>2, <2>2
<1> HIDE DEF x
<1>5. Story[x].n \in outstanding
  BY <1>1, <1>2, <1>3, <1>4 DEF IInv, MarksOK, N
<1>6. QED
  BY <1>1, <1>2, <1>3, <1>5

\* Unless a marker was lost or a rollback did not wait for the reading, a rollback
\* would undo what is outstanding and in view, and nothing else.
LEMMA PlanRight == IInv => PlanIsOutstanding
<1>1. SUFFICES ASSUME IInv, ~early, ~lost
               PROVE  PlannedFeatures(rows) = OutstandingFeatures
  BY DEF PlanIsOutstanding
<1>2. ASSUME NEW i \in Pending(rows)
      PROVE  i \in {j \in DOMAIN rows : Applied(rows[j]) /\ rows[j].n \in outstanding}
  BY <1>1, <1>2, PendingOutstanding
<1>3. ASSUME NEW i \in DOMAIN rows, Applied(rows[i]), rows[i].n \in outstanding
      PROVE  i \in Pending(rows)
  <2> DEFINE N == Len(Story)
             k == Len(rows)
  <2>1. /\ k \in Nat /\ N \in Nat /\ k <= N /\ DOMAIN rows = 1..k /\ DOMAIN Story = 1..N
        /\ k <= MaxRowsKept /\ MaxRowsKept \in Nat
        /\ \A j \in 1..k : N - k + j \in 1..N /\ rows[j] = Story[N - k + j]
    BY <1>1, ViewInStory, LivePatchAssumption
  <2>2. SUFFICES ASSUME NEW j \in i..k, rows[j].kind = "rollback"
                 PROVE  FALSE
    BY <1>3, <2>1 DEF Pending
  <2> HIDE DEF N, k
  <2>3. i \in 1..k /\ j \in 1..k
    BY <1>3, <2>1, <2>2
  <2>4. i # j
    BY <1>3, <2>2 DEF Applied
  <2>5. /\ N - k + i < N - k + j
        /\ (N - k + j) - (N - k + i) < MaxRowsKept
    BY <2>1, <2>2, <2>3, <2>4
  <2>6. /\ N - k + i \in 1..N /\ N - k + j \in 1..N
        /\ rows[i] = Story[N - k + i] /\ rows[j] = Story[N - k + j]
    BY <2>1, <2>3
  <2>7. \A a, b \in 1..N :
          a < b /\ b - a < MaxRowsKept /\ Applied(Story[a]) /\ Story[b].kind = "rollback"
            => Story[a].n \notin outstanding
    BY <1>1, <2>1 DEF IInv, MarksOK
  <2>8. Story[N - k + i].n \notin outstanding
    BY <1>3, <2>2, <2>5, <2>6, <2>7
  <2>9. QED
    BY <1>3, <2>6, <2>8
<1>4. Pending(rows) = {j \in DOMAIN rows : Applied(rows[j]) /\ rows[j].n \in outstanding}
  <2>1. Pending(rows) \subseteq {j \in DOMAIN rows : Applied(rows[j]) /\ rows[j].n \in outstanding}
    BY <1>2
  <2>2. {j \in DOMAIN rows : Applied(rows[j]) /\ rows[j].n \in outstanding} \subseteq Pending(rows)
    BY <1>3
  <2>3. QED
    BY <2>1, <2>2
<1>5. QED
  BY <1>4 DEF PlannedFeatures, OutstandingFeatures

\* The audit log tells the truth: the view is the end of what was stored and is to
\* be stored, the plan of a rollback is what patches have left in force, and on a
\* page whose log is not full no patch was applied twice.
THEOREM LogIsTrue == Spec => []LogTellsTheTruth
<1>1. ASSUME IInv
      PROVE  LogsAgree
  <2>1. SUFFICES ASSUME ~lost, primed, reading.state = "none"
                 PROVE  rows = Trimmed(durable \o writes)
    BY DEF LogsAgree
  <2>2. Story \in Seq(Row)
    BY <1>1, Types, StoryIs DEF Logs
  <2>3. rows = Ends(Story, Least(Len(Story), MaxRowsKept))
    BY <1>1, <2>1 DEF IInv, ViewOK, Loaded
  <2>4. Trimmed(Story) = Ends(Story, Least(Len(Story), MaxRowsKept))
    BY <2>2, TrimmedIs
  <2>5. QED
    BY <2>3, <2>4 DEF Story
<1>2. ASSUME IInv
      PROVE  AppliedOnceOnAPage
  <2>1. SUFFICES ASSUME reloads = 0, deliveries + rollbacks <= MaxRowsKept, NEW p \in Patches
                 PROVE  times[p] <= 1
    BY DEF AppliedOnceOnAPage
  <2>2. times[p] = 0 \/ times[p] = 1
    BY <1>2, <2>1 DEF IInv, OnceOK
  <2>3. QED
    BY <2>2
<1>3. IInv => LogTellsTheTruth
  BY <1>1, <1>2, PlanRight DEF LogTellsTheTruth
<1>4. QED
  BY <1>3, LivePatchInvariance, PTL

\* What has happened is kept: while no marker is lost, a rollback moves no section
\* but those with an outstanding patch in view; and on one page a row leaves the
\* view only when the view is full.
THEOREM PastKept == Spec => PastIsRespected
<1>1. IInv /\ [Next]_vars =>
        [rollbacks' # rollbacks /\ ~lost =>
           \A f \in Features : toggles'[f] # toggles[f] => f \in OutstandingFeatures]_vars
  <2>1. SUFFICES ASSUME IInv, [Next]_vars, rollbacks' # rollbacks, ~lost,
                        NEW f \in Features, toggles'[f] # toggles[f]
                 PROVE  f \in OutstandingFeatures
    OBVIOUS
  <2>2. Rollback
    BY <2>1 DEF Next, Arm, OperatorToggle, Arrive, Decide, Write, OpenPanel, ReadLog, MergeLog,
                RollbackReturns, Reload, vars, bounds
  <2>3. f \in PlannedFeatures(rows)
    BY <2>1, <2>2 DEF Rollback
  <2>4. PICK i \in Pending(rows) : f = RowFeature(rows[i])
    BY <2>3 DEF PlannedFeatures
  <2>5. i \in DOMAIN rows /\ Applied(rows[i]) /\ rows[i].n \in outstanding
    BY <2>1, PendingOutstanding
  <2>6. QED
    BY <2>4, <2>5 DEF OutstandingFeatures
<1>2. IInv /\ [Next]_vars =>
        [reloads' = reloads => ToSet(rows) \subseteq ToSet(rows') \/ Len(rows') = MaxRowsKept]_vars
  <2>1. SUFFICES ASSUME IInv, [Next]_vars, reloads' = reloads
                 PROVE  ToSet(rows) \subseteq ToSet(rows') \/ Len(rows') = MaxRowsKept
    OBVIOUS
  <2>2. rows \in Seq(Row) /\ reading.found \in Seq(Row) /\ writes \in Seq(Row) /\ reloads \in Nat
    BY <2>1, Types DEF Logs
  <2>3. CASE rows' = rows
    BY <2>3
  <2>4. ASSUME NEW r \in Row, Log(r)
        PROVE  ToSet(rows) \subseteq ToSet(rows') \/ Len(rows') = MaxRowsKept
    <3>1. /\ rows' = Trimmed(Append(rows, r)) /\ Append(rows, r) \in Seq(Row)
          /\ ToSet(Append(rows, r)) = ToSet(rows) \cup {r}
      BY <2>2, <2>4, LogTypes, LoggedIs
    <3>2. QED
      BY <3>1, TrimmedHolds
  <2>5. CASE MergeLog
    <3>1. rows' = Merged(reading.found)
      BY <2>5 DEF MergeLog
    <3>2. QED
      BY <2>2, <3>1, MergedIs
  <2>6. CASE Rollback
    <3>1. Log(RollbackRow(rollbacks + 1)) /\ rollbacks + 1 \in 1..MaxRollbacks
      BY <2>1, <2>6, Types, LivePatchAssumption DEF Rollback
    <3>2. RollbackRow(rollbacks + 1) \in Row
      BY <3>1 DEF Row
    <3>3. QED
      BY <2>4, <3>1, <3>2
  <2>7. CASE \E d \in checking : Decide(d)
    <3>1. PICK d \in checking : Decide(d)
      BY <2>7
    <3>2. d.n \in Nat /\ d.id \in Patches
      <4>1. deliveries \in Nat /\ checking \subseteq [n : 1..deliveries, id : Patches, good : BOOLEAN]
        BY <2>1, Types
      <4>2. d.n \in 1..deliveries /\ d.id \in Patches
        BY <3>1, <4>1
      <4>3. d.n \in Nat
        BY <4>1, <4>2
      <4>4. QED
        BY <4>2, <4>3
    <3>3. PICK v \in {"applied", "rejected", "duplicate"}, prev \in {"on", "off", ""} :
            Log(PatchRow(d.n, d.id, v, prev))
      <4>1. CASE Apply(d)
        <5>1. Log(PatchRow(d.n, d.id, "applied", toggles[Feature[d.id]]))
          BY <4>1 DEF Apply
        <5>2. toggles[Feature[d.id]] \in {"on", "off", ""}
          <6>1. d.id \in Patches
            BY <2>1, Types
          <6>2. QED
            BY <2>1, <6>1, Types, LivePatchAssumption
        <5>3. QED
          BY <5>1, <5>2
      <4>2. CASE Refuse(d)
        <5>1. Log(PatchRow(d.n, d.id, Verdict(d), ""))
          BY <4>2 DEF Refuse
        <5>2. Verdict(d) \in {"applied", "rejected", "duplicate"}
          <6>1. d.good \in BOOLEAN
            BY <2>1, Types
          <6>2. QED
            BY <6>1 DEF Verdict
        <5>3. QED
          BY <5>1, <5>2
      <4>3. QED
        BY <3>1, <4>1, <4>2 DEF Decide
    <3>4. PatchRow(d.n, d.id, v, prev) \in Row
      BY <3>2, PatchRowIs, ZenonT(60) DEF PatchRow
    <3>5. QED
      BY <2>4, <3>3, <3>4
  <2>8. CASE Reload
    <3>1. reloads' = reloads + 1
      BY <2>8 DEF Reload
    <3>2. QED
      BY <2>1, <2>2, <3>1
  <2>9. QED
    BY <2>1, <2>3, <2>5, <2>6, <2>7, <2>8
       DEF Next, Arm, OperatorToggle, Arrive, Write, OpenPanel, ReadLog, RollbackReturns, vars, page
<1>3. QED
  BY <1>1, <1>2, LivePatchInvariance, PTL
     DEF Spec, PastIsRespected, RollbackTouchesPatched, RowsNeverVanish
=============================================================================
