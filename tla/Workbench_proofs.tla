---------------------------- MODULE Workbench_proofs ----------------------------
(***************************************************************************)
(* Proofs about the programs of Workbench, for every value of the          *)
(* constants.                                                              *)
(***************************************************************************)
EXTENDS Workbench, FiniteSetTheorems, FunctionTheorems, SequenceTheorems, WellFoundedInduction, TLAPS

-----------------------------------------------------------------------------
(* Sets of numbers and sequences of different ones.                         *)
LEMMA FirstNumber ==
  ASSUME NEW S \in SUBSET Nat, S # {}
  PROVE  \E p \in S : \A q \in S : p <= q
<1>1. PICK p \in S : \A q \in S : <<q, p>> \notin OpToRel(<, Nat)
  BY NatLessThanWellFounded, WFMin
<1>2. ASSUME NEW q \in S, q < p  PROVE <<q, p>> \in OpToRel(<, Nat)
  BY <1>2 DEF OpToRel
<1>3. \A q \in S : ~ (q < p)  BY <1>1, <1>2
<1>4. p \in Nat /\ \A q \in S : q \in Nat  OBVIOUS
<1>5. \A q \in S : p <= q  BY <1>3, <1>4
<1> QED  BY <1>5

(* A set of numbers can be listed in order.                                 *)
Listing(S) ==
  {f \in [1..Cardinality(S) -> S] : \A i, j \in 1..Cardinality(S) : i < j => f[i] < f[j]}

LEMMA OneMoreListed ==
  ASSUME NEW n \in Nat, NEW S \in SUBSET (1..(n + 1)), n + 1 \in S,
         NEW g \in Listing(S \ {n + 1})
  PROVE  Listing(S) # {}
<1> DEFINE T == S \ {n + 1}
           m == Cardinality(T)
           f == [i \in 1..(m + 1) |-> IF i = m + 1 THEN n + 1 ELSE g[i]]
<1>1. IsFiniteSet(S)
  <2>1. IsFiniteSet(1..(n + 1))  BY FS_Interval
  <2> QED  BY <2>1, FS_Subset
<1>2. IsFiniteSet(T) /\ Cardinality(S) \in Nat /\ m = Cardinality(S) - 1
  BY <1>1, FS_RemoveElement, FS_CardinalityType
<1>3. m \in Nat  BY <1>2, FS_CardinalityType
<1>4. Cardinality(S) = m + 1  BY <1>2, <1>3
<1>5. g \in [1..m -> T] /\ \A i, j \in 1..m : i < j => g[i] < g[j]
  BY DEF Listing
<1>6. \A x \in T : x \in Nat /\ x <= n /\ x \in S  OBVIOUS
<1> HIDE DEF T, m
<1>7. \A i \in 1..(m + 1) : i # m + 1 => i \in 1..m  BY <1>3
<1>8. f \in [1..(m + 1) -> S]  BY <1>5, <1>6, <1>7
<1>9. ASSUME NEW i \in 1..(m + 1), NEW j \in 1..(m + 1), i < j  PROVE f[i] < f[j]
  <2>1. i \in 1..m /\ i # m + 1  BY <1>3, <1>9
  <2>2. f[i] = g[i] /\ g[i] \in T  BY <2>1, <1>5
  <2>3. CASE j = m + 1
    BY <2>2, <2>3, <1>6
  <2>4. CASE j # m + 1
    <3>1. j \in 1..m /\ f[j] = g[j]  BY <2>4, <1>7
    <3> QED  BY <3>1, <2>1, <2>2, <1>5, <1>9
  <2> QED  BY <2>3, <2>4
<1> QED  BY <1>4, <1>8, <1>9 DEF Listing

LEMMA SetsAreListed ==
  ASSUME NEW n \in Nat, NEW S \in SUBSET (1..n)
  PROVE  Listing(S) # {}
<1> DEFINE Bad == {k \in Nat : \E T \in SUBSET (1..k) : Listing(T) = {}}
<1>1. SUFFICES ASSUME Bad # {}  PROVE FALSE
  OBVIOUS
<1>2. PICK k \in Bad : \A j \in Bad : k <= j
  BY <1>1, FirstNumber
<1>3. k \in Nat  OBVIOUS
<1>4. PICK T \in SUBSET (1..k) : Listing(T) = {}
  OBVIOUS
<1>5. CASE T = {}
  <2>1. Cardinality(T) = 0  BY <1>5, FS_EmptySet
  <2>2. [i \in 1..0 |-> i] \in Listing(T)  BY <2>1, <1>5 DEF Listing
  <2> QED  BY <2>2, <1>4
<1>6. CASE T # {}
  <2>1. k # 0
    <3>1. 1..0 = {}  OBVIOUS
    <3> QED  BY <3>1, <1>6
  <2>2. k - 1 \in Nat /\ ~(k <= k - 1)  BY <2>1, <1>3
  <2>3. k - 1 \notin Bad  BY <2>2, <1>2
  <2>4. \A U \in SUBSET (1..(k - 1)) : Listing(U) # {}  BY <2>2, <2>3
  <2>5. T \ {k} \in SUBSET (1..(k - 1))  BY <1>3
  <2>6. PICK g \in Listing(T \ {k}) : TRUE  BY <2>4, <2>5
  <2>7. k \in T
    <3>1. SUFFICES ASSUME k \notin T  PROVE FALSE
      OBVIOUS
    <3>2. T \ {k} = T  BY <3>1
    <3> QED  BY <3>2, <2>6, <1>4
  <2>8. (k - 1) + 1 = k  BY <1>3
  <2> HIDE DEF Bad
  <2>9. \A a \in Nat : \A U \in SUBSET (1..(a + 1)) : \A h \in Listing(U \ {a + 1}) :
          a + 1 \in U => Listing(U) # {}
    BY OneMoreListed
  <2> QED  BY <2>9, <2>2, <2>6, <2>7, <2>8, <1>4
<1> QED  BY <1>5, <1>6

(* A sequence of numbers without repetition.                                *)
Distinct(s) == \A i, j \in 1..Len(s) : s[i] = s[j] => i = j
Numbered1 == {s \in Seq(Nat) : Distinct(s)}

LEMMA NothingIsDistinct == <<>> \in Numbered1
BY DEF Numbered1, Distinct

LEMMA SpanIsDistinct == \A n \in Nat : Ids(n) \in Numbered1
<1>1. TAKE n \in Nat
<1>2. Ids(n) \in Seq(Nat) /\ Len(Ids(n)) = n /\ \A i \in 1..n : Ids(n)[i] = i
  BY DEF Ids
<1> QED  BY <1>2 DEF Numbered1, Distinct

LEMMA PartIsDistinct ==
  ASSUME NEW s \in Numbered1, NEW a \in Nat, NEW b \in Nat, b <= Len(s)
  PROVE  SubSeq(s, a + 1, b) \in Numbered1
<1>1. s \in Seq(Nat) /\ Distinct(s)  BY DEF Numbered1
<1> DEFINE p == SubSeq(s, a + 1, b)
<1>2. CASE b < a + 1
  <2>1. p = <<>>  BY <1>1, <1>2, SubSeqEmpty
  <2> QED  BY <2>1, NothingIsDistinct
<1>3. CASE a + 1 <= b
  <2>1. /\ p \in Seq(Nat) /\ Len(p) = b - a
        /\ \A i \in 1..(b - a) : p[i] = s[a + i]
    <3>1. \A i \in (a + 1)..b : s[i] \in Nat  BY <1>1
    <3>2. a + 1 \in Int /\ b \in Int  OBVIOUS
    <3>3. /\ SubSeq(s, a + 1, b) \in Seq(Nat)
          /\ Len(SubSeq(s, a + 1, b)) = IF a + 1 <= b THEN b - (a + 1) + 1 ELSE 0
          /\ \A i \in 1..(b - (a + 1) + 1) : SubSeq(s, a + 1, b)[i] = s[(a + 1) + i - 1]
      BY <3>1, <3>2, SubSeqProperties
    <3>4. b - (a + 1) + 1 = b - a /\ \A i \in 1..(b - a) : (a + 1) + i - 1 = a + i
      OBVIOUS
    <3> HIDE DEF p
    <3> QED  BY <3>3, <3>4, <1>3 DEF p
  <2>2. \A i \in 1..(b - a) : a + i \in 1..Len(s)  BY <1>1
  <2>3. ASSUME NEW i \in 1..(b - a), NEW j \in 1..(b - a), p[i] = p[j]  PROVE i = j
    <3>1. s[a + i] = s[a + j]  BY <2>1, <2>3
    <3>2. a + i = a + j  BY <3>1, <2>2, <1>1 DEF Distinct
    <3> QED  BY <3>2
  <2> HIDE DEF p
  <2>4. p \in Numbered1  BY <2>1, <2>3 DEF Numbered1, Distinct
  <2> QED  BY <2>4 DEF p
<1> QED  BY <1>2, <1>3

(* What a listing lists.                                                    *)
LEMMA ListingIsWhole ==
  ASSUME NEW n \in Nat, NEW S \in SUBSET (1..n), NEW f \in Listing(S)
  PROVE  /\ Cardinality(S) \in Nat
         /\ f \in [1..Cardinality(S) -> S]
         /\ \A i, j \in 1..Cardinality(S) : f[i] = f[j] => i = j
         /\ \A x \in S : \E i \in 1..Cardinality(S) : f[i] = x
<1> DEFINE m == Cardinality(S)
<1>1. IsFiniteSet(S)
  <2>1. IsFiniteSet(1..n)  BY FS_Interval
  <2> QED  BY <2>1, FS_Subset
<1>2. m \in Nat  BY <1>1, FS_CardinalityType
<1>3. f \in [1..m -> S] /\ \A i, j \in 1..m : i < j => f[i] < f[j]  BY DEF Listing
<1>4. \A x \in S : x \in Nat  OBVIOUS
<1>5. IsFiniteSet(1..m) /\ Cardinality(1..m) = m
  <2>1. /\ IsFiniteSet(1..m)
        /\ Cardinality(1..m) = IF 1 > m THEN 0 ELSE m - 1 + 1
    BY <1>2, FS_Interval
  <2> HIDE DEF m
  <2> QED  BY <2>1, <1>2
<1> HIDE DEF m
<1>6. \A i, j \in 1..m : f[i] = f[j] => i = j
  <2>1. TAKE i, j \in 1..m
  <2>2. f[i] \in Nat /\ f[j] \in Nat  BY <1>3, <1>4
  <2>3. i < j => f[i] < f[j]  BY <1>3
  <2>4. j < i => f[j] < f[i]  BY <1>3
  <2> QED  BY <2>2, <2>3, <2>4, <1>2
<1>7. f \in Injection(1..m, S)  BY <1>3, <1>6 DEF Injection, IsInjective
<1>8. f \in Surjection(1..m, S)  BY <1>1, <1>5, <1>7, FS_Injection DEF m
<1>9. \A x \in S : \E i \in 1..m : f[i] = x  BY <1>8 DEF Surjection
<1> QED  BY <1>2, <1>3, <1>6, <1>9 DEF m

(* The ids that are not in the table, each once.                            *)
LEMMA UnseenIsDistinct ==
  ASSUME NEW ids \in Numbered1
  PROVE  /\ Unseen(ids) \in Numbered1
         /\ {Unseen(ids)[k] : k \in 1..Len(Unseen(ids))} =
              {ids[k] : k \in 1..Len(ids)} \ seenFills
<1> DEFINE new == {k \in DOMAIN ids : ids[k] \notin seenFills}
           c == Cardinality(new)
           place == CHOOSE f \in [1..c -> new] : \A i, j \in DOMAIN f : i < j => f[i] < f[j]
           u == Unseen(ids)
<1>1. ids \in Seq(Nat) /\ Distinct(ids)  BY DEF Numbered1
<1>2. DOMAIN ids = 1..Len(ids) /\ Len(ids) \in Nat  BY <1>1
<1>3. new \in SUBSET (1..Len(ids))  BY <1>2
<1>4. Listing(new) # {}  BY <1>2, <1>3, SetsAreListed
<1>5. PICK g \in Listing(new) : TRUE  BY <1>4
<1>6. g \in [1..c -> new] /\ \A i, j \in DOMAIN g : i < j => g[i] < g[j]
  BY <1>5 DEF Listing
<1>7. place \in [1..c -> new] /\ \A i, j \in DOMAIN place : i < j => place[i] < place[j]
  <2> HIDE DEF new, c
  <2> QED  BY <1>6, Zenon DEF place
<1>8. place \in Listing(new)
  <2>1. DOMAIN place = 1..c  BY <1>7
  <2> HIDE DEF place
  <2> QED  BY <1>7, <2>1 DEF Listing
<1>9. u = [i \in DOMAIN place |-> ids[place[i]]]  BY DEF Unseen
<1> HIDE DEF u, place
<1>10. /\ c \in Nat /\ place \in [1..c -> new]
       /\ \A i, j \in 1..c : place[i] = place[j] => i = j
       /\ \A x \in new : \E i \in 1..c : place[i] = x
  <2> HIDE DEF new
  <2> QED  BY <1>2, <1>3, <1>8, ListingIsWhole
<1>11. \A k \in new : k \in 1..Len(ids) /\ ids[k] \in Nat /\ ids[k] \notin seenFills
  BY <1>1, <1>2
<1>12. \A k \in 1..Len(ids) : ids[k] \notin seenFills => k \in new
  BY <1>2
<1> HIDE DEF new, c
<1>13. u = [i \in 1..c |-> ids[place[i]]]  BY <1>9, <1>10
<1>14. \A i \in 1..c : ids[place[i]] \in Nat  BY <1>10, <1>11
<1>15. u \in Seq(Nat) /\ Len(u) = c /\ \A i \in 1..c : u[i] = ids[place[i]]
  BY <1>10, <1>13, <1>14
<1>16. \A i, j \in 1..c : u[i] = u[j] => i = j
  <2>1. TAKE i, j \in 1..c
  <2>2. place[i] \in 1..Len(ids) /\ place[j] \in 1..Len(ids)  BY <1>10, <1>11
  <2>3. ids[place[i]] = ids[place[j]] => place[i] = place[j]  BY <2>2, <1>1 DEF Distinct
  <2> QED  BY <2>3, <1>10, <1>15
<1>17. u \in Numbered1  BY <1>15, <1>16 DEF Numbered1, Distinct
<1>18. ASSUME NEW x  PROVE x \in {u[k] : k \in 1..Len(u)} <=>
                             x \in {ids[k] : k \in 1..Len(ids)} \ seenFills
  <2>1. ASSUME NEW k \in 1..c, x = u[k]
        PROVE  x \in {ids[i] : i \in 1..Len(ids)} /\ x \notin seenFills
    <3>1. place[k] \in new /\ x = ids[place[k]]  BY <2>1, <1>10, <1>15
    <3> QED  BY <3>1, <1>11
  <2>2. ASSUME NEW k \in 1..Len(ids), x = ids[k], x \notin seenFills
        PROVE  \E i \in 1..c : x = u[i]
    <3>1. k \in new  BY <2>2, <1>12
    <3>2. PICK i \in 1..c : place[i] = k  BY <3>1, <1>10
    <3> QED  BY <3>2, <2>2, <1>15
  <2>3. Len(u) = c  BY <1>15
  <2> QED  BY <2>1, <2>2, <2>3
<1>19. {u[k] : k \in 1..Len(u)} = {ids[k] : k \in 1..Len(ids)} \ seenFills  BY <1>18
<1> QED  BY <1>17, <1>19 DEF u

-----------------------------------------------------------------------------
(* The table of fills.                                                      *)
Shown(s) == {s[k] : k \in 1..Len(s)}

TableInv ==
  /\ rows \in Numbered1 /\ Len(rows) <= MaxFillRows
  /\ seenFills = Shown(rows)

LEMMA JoinedStaysDistinct ==
  ASSUME NEW r \in Numbered1, NEW u \in Numbered1, Shown(r) \cap Shown(u) = {}
  PROVE  /\ r \o u \in Numbered1
         /\ Len(r \o u) = Len(r) + Len(u)
         /\ Shown(r \o u) = Shown(r) \cup Shown(u)
<1>1. /\ r \in Seq(Nat) /\ u \in Seq(Nat) /\ Distinct(r) /\ Distinct(u)
      /\ Len(r) \in Nat /\ Len(u) \in Nat
  BY DEF Numbered1
<1> DEFINE all == r \o u
           m == Len(r)
           n == Len(u)
<1>2. /\ all \in Seq(Nat) /\ Len(all) = m + n
      /\ \A i \in 1..(m + n) : all[i] = IF i <= m THEN r[i] ELSE u[i - m]
  BY <1>1
<1>3. \A i \in 1..(m + n) : IF i <= m THEN i \in 1..m ELSE i - m \in 1..n
  BY <1>1
<1> HIDE DEF all
<1>4. \A i \in 1..(m + n) : IF i <= m THEN all[i] \in Shown(r) /\ all[i] = r[i]
                            ELSE all[i] \in Shown(u) /\ all[i] = u[i - m]
  BY <1>2, <1>3 DEF Shown
<1>5. ASSUME NEW i \in 1..(m + n), NEW j \in 1..(m + n), all[i] = all[j]  PROVE i = j
  <2>1. CASE i <= m /\ j <= m
    BY <2>1, <1>3, <1>4, <1>5, <1>1 DEF Distinct
  <2>2. CASE ~(i <= m) /\ ~(j <= m)
    <3>1. i - m \in 1..n /\ j - m \in 1..n /\ u[i - m] = u[j - m]
      BY <2>2, <1>3, <1>4, <1>5
    <3>2. i - m = j - m  BY <3>1, <1>1 DEF Distinct
    <3> QED  BY <3>2, <1>1
  <2>3. CASE (i <= m) # (j <= m)
    BY <2>3, <1>4, <1>5
  <2> QED  BY <2>1, <2>2, <2>3
<1>6. all \in Numbered1  BY <1>2, <1>5 DEF Numbered1, Distinct
<1>7. ASSUME NEW x  PROVE x \in Shown(all) <=> x \in Shown(r) \cup Shown(u)
  <2>1. ASSUME NEW i \in 1..(m + n), x = all[i]  PROVE x \in Shown(r) \cup Shown(u)
    BY <2>1, <1>4
  <2>2. ASSUME NEW i \in 1..m, x = r[i]  PROVE \E k \in 1..(m + n) : x = all[k]
    <3>1. i \in 1..(m + n) /\ i <= m  BY <1>1
    <3> QED  BY <3>1, <2>2, <1>4
  <2>3. ASSUME NEW i \in 1..n, x = u[i]  PROVE \E k \in 1..(m + n) : x = all[k]
    <3>1. m + i \in 1..(m + n) /\ ~(m + i <= m) /\ (m + i) - m = i  BY <1>1
    <3> QED  BY <3>1, <2>3, <1>4
  <2> QED  BY <2>1, <2>2, <2>3, <1>2 DEF Shown
<1>8. Shown(all) = Shown(r) \cup Shown(u)  BY <1>7
<1> QED  BY <1>2, <1>6, <1>8 DEF all

LEMMA CutStaysDistinct ==
  ASSUME NEW all \in Numbered1, NEW d \in Nat, d <= Len(all)
  PROVE  /\ SubSeq(all, d + 1, Len(all)) \in Numbered1
         /\ Len(SubSeq(all, d + 1, Len(all))) = Len(all) - d
         /\ Shown(SubSeq(all, d + 1, Len(all))) = Shown(all) \ {all[k] : k \in 1..d}
<1> DEFINE n == Len(all)
           p == SubSeq(all, d + 1, n)
<1>1. all \in Seq(Nat) /\ Distinct(all) /\ n \in Nat  BY DEF Numbered1
<1>2. p \in Numbered1  BY <1>1, PartIsDistinct
<1>3. /\ Len(p) = n - d
      /\ \A i \in 1..(n - d) : p[i] = all[d + i]
  <2>1. \A i \in (d + 1)..n : all[i] \in Nat  BY <1>1
  <2>2. d + 1 \in Int /\ n \in Int  BY <1>1
  <2>3. /\ Len(SubSeq(all, d + 1, n)) = IF d + 1 <= n THEN n - (d + 1) + 1 ELSE 0
        /\ \A i \in 1..(n - (d + 1) + 1) : SubSeq(all, d + 1, n)[i] = all[(d + 1) + i - 1]
    <3> HIDE DEF n
    <3> QED  BY <2>1, <2>2, SubSeqProperties
  <2>4. n - (d + 1) + 1 = n - d /\ \A i \in 1..(n - d) : (d + 1) + i - 1 = d + i
    BY <1>1
  <2>5. n - d = IF d + 1 <= n THEN n - (d + 1) + 1 ELSE 0  BY <1>1
  <2>6. Len(p) = n - d  BY <2>3, <2>5
  <2>7. \A i \in 1..(n - d) : p[i] = all[d + i]  BY <2>3, <2>4
  <2> QED  BY <2>6, <2>7
<1> HIDE DEF p
<1>4. ASSUME NEW x  PROVE x \in Shown(p) <=> x \in Shown(all) \ {all[k] : k \in 1..d}
  <2>1. ASSUME NEW i \in 1..(n - d), x = p[i]
        PROVE  x \in Shown(all) /\ x \notin {all[k] : k \in 1..d}
    <3>1. d + i \in 1..n /\ x = all[d + i]  BY <2>1, <1>1, <1>3
    <3>2. ASSUME NEW k \in 1..d, x = all[k]  PROVE FALSE
      <4>1. k \in 1..n  BY <1>1
      <4>2. k = d + i  BY <4>1, <3>1, <3>2, <1>1 DEF Distinct
      <4> QED  BY <4>2, <1>1
    <3> QED  BY <3>1, <3>2 DEF Shown
  <2>2. ASSUME NEW k \in 1..n, x = all[k], x \notin {all[j] : j \in 1..d}
        PROVE  \E i \in 1..(n - d) : x = p[i]
    <3>1. ~(k \in 1..d)  BY <2>2
    <3>2. k - d \in 1..(n - d) /\ d + (k - d) = k  BY <3>1, <1>1
    <3> QED  BY <3>2, <2>2, <1>3
  <2> QED  BY <2>1, <2>2, <1>3 DEF Shown
<1>5. Shown(p) = Shown(all) \ {all[k] : k \in 1..d}  BY <1>4
<1> QED  BY <1>2, <1>3, <1>5 DEF p

(* An append keeps the table and the memory of ids together.                *)
LEMMA AppendKeepsTable ==
  ASSUME TableInv, NEW ids \in Numbered1, AppendFillRows(ids)
  PROVE  TableInv'
<1> DEFINE u == Unseen(ids)
           all == Appended(ids)
           d == Dropped(all)
<1>1. u \in Numbered1 /\ Shown(u) = Shown(ids) \ seenFills
  BY UnseenIsDistinct DEF Shown
<1>2. rows \in Numbered1 /\ Len(rows) <= MaxFillRows /\ seenFills = Shown(rows)
  BY DEF TableInv
<1>3. Shown(rows) \cap Shown(u) = {}  BY <1>1, <1>2
<1>4. all \in Numbered1 /\ Shown(all) = seenFills \cup Shown(ids)
  <2>1. all = rows \o u  BY DEF Appended
  <2> HIDE DEF all, u
  <2>2. all \in Numbered1 /\ Shown(all) = Shown(rows) \cup Shown(u)
    BY <1>1, <1>2, <1>3, <2>1, JoinedStaysDistinct
  <2> QED  BY <2>2, <1>1, <1>2
<1> HIDE DEF u, all
<1>5. Len(all) \in Nat /\ MaxFillRows \in Nat  BY <1>4, ViewerAssumption DEF Numbered1
<1>6. d \in Nat /\ d <= Len(all) /\ Len(all) - d <= MaxFillRows
  BY <1>5 DEF Dropped
<1> HIDE DEF d
<1>7. /\ rows' = SubSeq(all, d + 1, Len(all))
      /\ seenFills' = (seenFills \cup {ids[k] : k \in DOMAIN ids}) \ {all[k] : k \in 1..d}
  BY DEF AppendFillRows, all, d
<1>8. /\ rows' \in Numbered1 /\ Len(rows') = Len(all) - d
      /\ Shown(rows') = Shown(all) \ {all[k] : k \in 1..d}
  BY <1>4, <1>6, <1>7, CutStaysDistinct
<1>9. {ids[k] : k \in DOMAIN ids} = Shown(ids)
  <2>1. DOMAIN ids = 1..Len(ids)  BY DEF Numbered1
  <2> QED  BY <2>1 DEF Shown
<1>10. seenFills' = Shown(rows')  BY <1>4, <1>7, <1>8, <1>9
<1>11. Len(rows') <= MaxFillRows  BY <1>6, <1>8
<1> QED  BY <1>8, <1>10, <1>11 DEF TableInv, Shown

-----------------------------------------------------------------------------
(* The best of the trials: there is one, the first that no other is above.  *)
Trialled == (\E S : trials \in Seq(S)) /\ \A i \in 1..Len(trials) : trials[i].summary \in Outcomes

Leads(s, k, n) ==
  /\ \A j \in 1..n : ~Above(s[j].summary, s[k].summary)
  /\ \A j \in 1..(k - 1) : Above(s[k].summary, s[j].summary)

LEMMA AboveOrders ==
  /\ \A a \in Outcomes : ~Above(a, a)
  /\ \A a, b \in Outcomes : Above(a, b) => ~Above(b, a)
  /\ \A a, b, c \in Outcomes : Above(a, b) /\ ~Above(c, b) => Above(a, c)
<1>1. \A a \in Outcomes : a.value \in Int /\ a.position \in Int /\ a.fills \in Nat
  BY OptimizerAssumption
<1> QED  BY <1>1 DEF Above

LEMMA SomeTrialLeads ==
  ASSUME NEW s, NEW n \in Nat, n # 0, \A i \in 1..n : s[i].summary \in Outcomes
  PROVE  \E k \in 1..n : Leads(s, k, n)
<1> DEFINE Bad == {m \in Nat : m # 0 /\ m <= n /\ ~\E k \in 1..m : Leads(s, k, m)}
<1>1. SUFFICES ASSUME Bad # {}  PROVE FALSE
  OBVIOUS
<1>2. PICK m \in Bad : \A j \in Bad : m <= j  BY <1>1, FirstNumber
<1>3. m \in Nat /\ m # 0 /\ m <= n /\ ~\E k \in 1..m : Leads(s, k, m)  OBVIOUS
<1>4. \A i \in 1..m : s[i].summary \in Outcomes  BY <1>3
<1>5. CASE m = 1
  <2>1. ~Above(s[1].summary, s[1].summary)  BY <1>3, <1>4, AboveOrders
  <2>2. \A j \in 1..1 : j = 1  OBVIOUS
  <2>3. 1..(1 - 1) = {} /\ 1 \in 1..1  OBVIOUS
  <2>4. Leads(s, 1, 1)  BY <2>1, <2>2, <2>3 DEF Leads
  <2> QED  BY <2>3, <2>4, <1>3, <1>5
<1>6. CASE m # 1
  <2>1. m - 1 \in Nat /\ m - 1 # 0 /\ m - 1 <= n /\ ~(m <= m - 1)  BY <1>3, <1>6
  <2>2. m - 1 \notin Bad  BY <2>1, <1>2
  <2>3. PICK k \in 1..(m - 1) : Leads(s, k, m - 1)  BY <2>1, <2>2
  <2>4. /\ \A j \in 1..(m - 1) : ~Above(s[j].summary, s[k].summary)
        /\ \A j \in 1..(k - 1) : Above(s[k].summary, s[j].summary)
    BY <2>3 DEF Leads
  <2>5. /\ k \in 1..m /\ m \in 1..m
        /\ \A j \in 1..m : j \in 1..(m - 1) \/ j = m
        /\ \A j \in 1..(m - 1) : j \in 1..m
    BY <1>3
  <2> HIDE DEF Bad
  <2>6. CASE Above(s[m].summary, s[k].summary)
    <3>1. \A j \in 1..(m - 1) : Above(s[m].summary, s[j].summary)
      BY <2>4, <2>5, <2>6, <1>4, AboveOrders
    <3>2. \A j \in 1..m : ~Above(s[j].summary, s[m].summary)
      <4>1. TAKE j \in 1..m
      <4>2. s[m].summary \in Outcomes /\ s[j].summary \in Outcomes /\ ~Above(s[m].summary, s[m].summary)
        BY <2>5, <1>4, AboveOrders
      <4>3. CASE j = m  BY <4>2, <4>3
      <4>4. CASE j \in 1..(m - 1)
        BY <4>2, <4>4, <3>1, AboveOrders
      <4> QED  BY <4>3, <4>4, <2>5
    <3>3. Leads(s, m, m)  BY <3>1, <3>2 DEF Leads
    <3> QED  BY <3>3, <2>5, <1>3
  <2>7. CASE ~Above(s[m].summary, s[k].summary)
    <3>1. \A j \in 1..m : ~Above(s[j].summary, s[k].summary)  BY <2>4, <2>5, <2>7
    <3>2. Leads(s, k, m)  BY <3>1, <2>4 DEF Leads
    <3> QED  BY <3>2, <2>5, <1>3
  <2> QED  BY <2>6, <2>7
<1> QED  BY <1>5, <1>6

LEMMA BestIsATrial ==
  ASSUME Trialled, trials # <<>>
  PROVE  Best \in Outcomes
<1>1. PICK S : trials \in Seq(S)  BY DEF Trialled
<1>2. Len(trials) \in Nat /\ Len(trials) # 0 /\ DOMAIN trials = 1..Len(trials)
  BY <1>1
<1>3. \A i \in 1..Len(trials) : trials[i].summary \in Outcomes  BY DEF Trialled
<1>4. PICK k \in 1..Len(trials) : Leads(trials, k, Len(trials))
  BY <1>2, <1>3, SomeTrialLeads
<1> DEFINE b == CHOOSE i \in DOMAIN trials :
                  /\ \A j \in DOMAIN trials : ~Above(trials[j].summary, trials[i].summary)
                  /\ \A j \in 1..(i - 1) : Above(trials[i].summary, trials[j].summary)
<1>5. b \in 1..Len(trials)
  <2>1. \A j \in DOMAIN trials : ~Above(trials[j].summary, trials[k].summary)
    BY <1>2, <1>4 DEF Leads
  <2>2. \A j \in 1..(k - 1) : Above(trials[k].summary, trials[j].summary)
    BY <1>4 DEF Leads
  <2>3. k \in DOMAIN trials  BY <1>2
  <2>4. b \in DOMAIN trials  BY <2>1, <2>2, <2>3, Zenon
  <2> HIDE DEF b
  <2> QED  BY <2>4, <1>2
<1>6. Best = trials[b].summary  BY Zenon DEF Best
<1> HIDE DEF b
<1> QED  BY <1>3, <1>5, <1>6

-----------------------------------------------------------------------------
(* The tabs.  A worker of the tabs that replay and trade puts one end, and  *)
(* last of all.                                                             *)
EndKinds == {"error", "stopped"}
Kinds == {"status", "update", "recorded", "result", "optimized"} \cup EndKinds
Message == [kind : Kinds, ids : Numbered1]
Single == {"replay", "trade"}

Quiet(q) == \A i \in 1..Len(q) : q[i].kind \notin EndKinds
EndsLast(q) == \A i \in 1..Len(q) : q[i].kind \in EndKinds => i = Len(q)

ViewerTypes ==
  /\ phase \in [Tabs -> {"off", "busy", "leaving"}]
  /\ stopSet \in [Tabs -> BOOLEAN] /\ startOn \in [Tabs -> BOOLEAN] /\ stopOn \in [Tabs -> BOOLEAN]
  /\ events \in [Tabs -> Seq(Message)] /\ lastWords \in [Tabs -> Seq(Message)]
  /\ fills \in Nat

Stoppable(t) ==
  phase[t] = "busy" /\ (t \in overtaken => t \in Single) =>
    Quiet(events[t]) /\ (ui = "gone" \/ stopSet[t] \/ stopOn[t])

OneEnd(t) ==
  t \in Single =>
    /\ phase[t] = "busy" => lastWords[t] = <<>> /\ ~startOn[t] /\ Quiet(events[t])
    /\ phase[t] = "off" => lastWords[t] = <<>>
    /\ EndsLast(events[t]) /\ EndsLast(lastWords[t])
    /\ lastWords[t] # <<>> => Quiet(events[t])
    /\ startOn[t] => Quiet(events[t]) /\ Quiet(lastWords[t])

TabInv == \A t \in Tabs : Stoppable(t) /\ OneEnd(t)

ViewerInv == ViewerTypes /\ TabInv /\ TableInv /\ Trialled

LEMMA TheTabs == Tabs = {"live", "record", "replay", "trade"} /\ Single \subseteq Tabs
<1>1. DOMAIN Polled = 1..4 /\ Polled[1] = "live" /\ Polled[2] = "record" /\ Polled[3] = "replay"
      /\ Polled[4] = "trade"
  BY DEF Polled
<1>2. 1..4 = {1, 2, 3, 4}  OBVIOUS
<1> QED  BY <1>1, <1>2 DEF Tabs, Single

LEMMA NoEndInNothing == Quiet(<<>>) /\ EndsLast(<<>>) /\ Len(<<>>) = 0
BY DEF Quiet, EndsLast

LEMMA QuietEndsLast == \A q : Quiet(q) => EndsLast(q)
BY DEF Quiet, EndsLast

LEMMA AnotherMessage ==
  ASSUME NEW q \in Seq(Message), NEW m \in Message
  PROVE  /\ Append(q, m) \in Seq(Message)
         /\ Quiet(q) => EndsLast(Append(q, m))
         /\ Quiet(q) /\ m.kind \notin EndKinds => Quiet(Append(q, m))
<1>1. /\ Append(q, m) \in Seq(Message) /\ Len(Append(q, m)) = Len(q) + 1 /\ Len(q) \in Nat
      /\ \A i \in 1..Len(q) : Append(q, m)[i] = q[i]
      /\ Append(q, m)[Len(q) + 1] = m
  BY AppendProperties
<1>2. \A i \in 1..(Len(q) + 1) : i \in 1..Len(q) \/ i = Len(q) + 1  BY <1>1
<1> QED  BY <1>1, <1>2 DEF Quiet, EndsLast

LEMMA OneMessageLess ==
  ASSUME NEW q \in Seq(Message), q # <<>>
  PROVE  /\ Head(q) \in Message /\ Tail(q) \in Seq(Message)
         /\ Quiet(q) => Quiet(Tail(q)) /\ Head(q).kind \notin EndKinds
         /\ EndsLast(q) => EndsLast(Tail(q))
         /\ EndsLast(q) /\ Head(q).kind \in EndKinds => Tail(q) = <<>>
<1>1. /\ Head(q) \in Message /\ Tail(q) \in Seq(Message) /\ Len(Tail(q)) = Len(q) - 1
      /\ Len(q) \in Nat /\ Len(q) # 0 /\ Head(q) = q[1]
      /\ \A i \in 1..Len(Tail(q)) : Tail(q)[i] = q[i + 1]
  BY HeadTailProperties
<1>2. \A i \in 1..Len(Tail(q)) : i + 1 \in 1..Len(q)  BY <1>1
<1>3. 1 \in 1..Len(q)  BY <1>1
<1>4. Quiet(q) => Quiet(Tail(q)) /\ Head(q).kind \notin EndKinds
  <2>1. HAVE Quiet(q)
  <2>2. \A i \in 1..Len(q) : q[i].kind \notin EndKinds  BY <2>1 DEF Quiet
  <2>3. q[1].kind \notin EndKinds  BY <2>2, <1>3
  <2>4. \A i \in 1..Len(Tail(q)) : q[i + 1].kind \notin EndKinds  BY <2>2, <1>2
  <2>5. \A i \in 1..Len(Tail(q)) : Tail(q)[i].kind \notin EndKinds  BY Zenon, <2>4, <1>1
  <2>6. Quiet(Tail(q))  BY Zenon, <2>5 DEF Quiet
  <2>7. Head(q).kind \notin EndKinds  BY Zenon, <2>3, <1>1
  <2> QED  BY <2>6, <2>7
<1>5. EndsLast(q) => EndsLast(Tail(q))
  <2>1. HAVE EndsLast(q)
  <2>2. \A i \in 1..Len(Tail(q)) : q[i + 1].kind \in EndKinds => i + 1 = Len(q)
    BY <2>1, <1>2 DEF EndsLast
  <2>3. \A n, m \in Nat : n = m - 1 => \A i \in 1..n : i + 1 = m => i = n
    OBVIOUS
  <2>4. Len(Tail(q)) \in Nat  BY <1>1
  <2>5. \A i \in 1..Len(Tail(q)) : i + 1 = Len(q) => i = Len(Tail(q))
    BY <2>3, <2>4, <1>1, Zenon
  <2>6. \A i \in 1..Len(Tail(q)) : Tail(q)[i].kind \in EndKinds => i = Len(Tail(q))
    BY Zenon, <2>2, <2>5, <1>1
  <2> QED  BY Zenon, <2>6 DEF EndsLast
<1>6. EndsLast(q) /\ Head(q).kind \in EndKinds => Tail(q) = <<>>
  <2>1. HAVE EndsLast(q) /\ Head(q).kind \in EndKinds
  <2>2. 1 = Len(q)
    <3>1. \A i \in 1..Len(q) : q[i].kind \in EndKinds => i = Len(q)  BY Zenon, <2>1 DEF EndsLast
    <3>2. q[1].kind \in EndKinds  BY Zenon, <2>1, <1>1
    <3> QED  BY Zenon, <3>1, <3>2, <1>3
  <2>3. Len(Tail(q)) = 0  BY <2>2, <1>1
  <2> QED  BY <2>3, <1>1
<1> QED  BY <1>1, <1>4, <1>5, <1>6

LEMMA EventsAreMessages ==
  /\ \A k \in Kinds : Event(k) \in Message /\ Event(k).kind = k
  /\ \A k \in Kinds, s \in Numbered1 : Fills(k, s) \in Message /\ Fills(k, s).kind = k
BY NothingIsDistinct DEF Event, Fills, Message

-----------------------------------------------------------------------------
(* What each step does to a tab.                                            *)
LEMMA BeginKeepsTab ==
  ASSUME ViewerTypes, TabInv, NEW t \in Tabs, Begin(t)
  PROVE  /\ phase' \in [Tabs -> {"off", "busy", "leaving"}]
         /\ stopSet' \in [Tabs -> BOOLEAN] /\ startOn' \in [Tabs -> BOOLEAN] /\ stopOn' \in [Tabs -> BOOLEAN]
         /\ events' \in [Tabs -> Seq(Message)] /\ lastWords' \in [Tabs -> Seq(Message)]
         /\ TabInv'
<1>1. /\ phase \in [Tabs -> {"off", "busy", "leaving"}]
      /\ stopSet \in [Tabs -> BOOLEAN] /\ startOn \in [Tabs -> BOOLEAN] /\ stopOn \in [Tabs -> BOOLEAN]
      /\ events \in [Tabs -> Seq(Message)] /\ lastWords \in [Tabs -> Seq(Message)]
  BY DEF ViewerTypes
<1>2. /\ startOn[t] /\ phase[t] = "off"
      /\ startOn' = [startOn EXCEPT ![t] = FALSE] /\ stopOn' = [stopOn EXCEPT ![t] = TRUE]
      /\ stopSet' = [stopSet EXCEPT ![t] = FALSE] /\ phase' = [phase EXCEPT ![t] = "busy"]
      /\ overtaken' = IF events[t] = <<>> THEN overtaken \ {t} ELSE overtaken \cup {t}
      /\ ui' = ui /\ events' = events /\ lastWords' = lastWords
  BY Zenon DEF Begin, SetRunning
<1>3. ASSUME NEW u \in Tabs  PROVE Stoppable(u)' /\ OneEnd(u)'
  <2>1. Stoppable(u) /\ OneEnd(u)  BY DEF TabInv
  <2>2. CASE u # t
    <3>1. /\ phase'[u] = phase[u] /\ startOn'[u] = startOn[u] /\ stopOn'[u] = stopOn[u]
          /\ stopSet'[u] = stopSet[u] /\ (u \in overtaken' <=> u \in overtaken)
      BY <2>2, <1>1, <1>2
    <3> QED  BY <2>1, <3>1, <1>2, Zenon DEF Stoppable, OneEnd
  <2>3. CASE u = t
    <3>1. phase'[u] = "busy" /\ ~startOn'[u] /\ stopOn'[u]  BY <2>3, <1>1, <1>2
    <3>2. u \in Single => lastWords[u] = <<>> /\ Quiet(events[u])
      BY <2>1, <2>3, <1>2, Zenon DEF OneEnd
    <3>3. u \in overtaken' \/ events[u] = <<>>  BY <1>2, <2>3
    <3>4. u \notin overtaken' => Quiet(events[u])  BY <3>3, NoEndInNothing
    <3>5. Stoppable(u)'  BY <3>1, <3>2, <3>4, <1>2 DEF Stoppable
    <3>6. OneEnd(u)'
      BY <3>1, <3>2, <1>2, NoEndInNothing, QuietEndsLast, Zenon DEF OneEnd
    <3> QED  BY <3>5, <3>6
  <2> QED  BY <2>2, <2>3
<1>4. TabInv'  BY <1>3 DEF TabInv
<1> QED  BY <1>1, <1>2, <1>4

(* A step that adds a message to a queue, and one that takes it from there. *)
LEMMA TellKeepsTab ==
  ASSUME ViewerTypes, TabInv, NEW t \in Tabs, phase[t] = "busy",
         NEW m \in Message, m.kind \notin EndKinds, Put(t, m),
         UNCHANGED <<ui, phase, stopSet, startOn, stopOn, lastWords, overtaken>>
  PROVE  events' \in [Tabs -> Seq(Message)] /\ TabInv'
<1>1. events \in [Tabs -> Seq(Message)]  BY DEF ViewerTypes
<1>2. events' = [events EXCEPT ![t] = Append(events[t], m)]  BY DEF Put
<1>3. events[t] \in Seq(Message)  BY <1>1
<1>4. events' \in [Tabs -> Seq(Message)]  BY <1>1, <1>2, <1>3, AnotherMessage
<1>5. ASSUME NEW u \in Tabs  PROVE Stoppable(u)' /\ OneEnd(u)'
  <2>1. Stoppable(u) /\ OneEnd(u)  BY DEF TabInv
  <2>2. CASE u # t
    <3>1. events'[u] = events[u]  BY <2>2, <1>1, <1>2
    <3> QED  BY <2>1, <3>1, Zenon DEF Stoppable, OneEnd
  <2>3. CASE u = t
    <3>1. events'[u] = Append(events[u], m)  BY <2>3, <1>1, <1>2
    <3>2. Quiet(events[u]) => Quiet(events'[u])  BY <3>1, <2>3, <1>3, AnotherMessage
    <3>3. Stoppable(u)'  BY <2>1, <3>2, Zenon DEF Stoppable
    <3>4. OneEnd(u)'
      BY <2>1, <2>3, <3>2, QuietEndsLast, Zenon DEF OneEnd
    <3> QED  BY <3>3, <3>4
  <2> QED  BY <2>2, <2>3
<1>6. TabInv'  BY <1>5 DEF TabInv
<1> QED  BY <1>4, <1>6

LEMMA HandlingKeepsTab ==
  ASSUME ViewerTypes, TabInv, NEW t \in Tabs, HandleEvent(t)
  PROVE  /\ startOn' \in [Tabs -> BOOLEAN] /\ stopOn' \in [Tabs -> BOOLEAN]
         /\ events' \in [Tabs -> Seq(Message)] /\ TabInv' /\ Head(events[t]) \in Message
<1>1. /\ startOn \in [Tabs -> BOOLEAN] /\ stopOn \in [Tabs -> BOOLEAN]
      /\ events \in [Tabs -> Seq(Message)]
  BY DEF ViewerTypes
<1>2. /\ events[t] # <<>> /\ events' = [events EXCEPT ![t] = Tail(events[t])]
      /\ EndOfRun(t)
      /\ UNCHANGED <<ui, phase, stopSet, lastWords, overtaken>>
  BY DEF HandleEvent
<1>3. events[t] \in Seq(Message)  BY <1>1
<1> DEFINE ends == Head(events[t]).kind \in EndKinds
<1>4. /\ ends => startOn' = [startOn EXCEPT ![t] = TRUE] /\ stopOn' = [stopOn EXCEPT ![t] = FALSE]
      /\ ~ends => startOn' = startOn /\ stopOn' = stopOn
  BY <1>2, Zenon DEF EndOfRun, SetRunning, EndKinds
<1>5. /\ Head(events[t]) \in Message /\ Tail(events[t]) \in Seq(Message)
      /\ Quiet(events[t]) => Quiet(Tail(events[t])) /\ ~ends
      /\ EndsLast(events[t]) => EndsLast(Tail(events[t]))
      /\ EndsLast(events[t]) /\ ends => Tail(events[t]) = <<>>
  BY <1>2, <1>3, OneMessageLess
<1> HIDE DEF ends
<1>6. /\ events' \in [Tabs -> Seq(Message)] /\ startOn' \in [Tabs -> BOOLEAN]
      /\ stopOn' \in [Tabs -> BOOLEAN]
  BY <1>1, <1>2, <1>4, <1>5
<1>7. ASSUME NEW u \in Tabs  PROVE Stoppable(u)' /\ OneEnd(u)'
  <2>1. Stoppable(u) /\ OneEnd(u)  BY DEF TabInv
  <2>2. CASE u # t
    <3>1. events'[u] = events[u]  BY <2>2, <1>1, <1>2
    <3>2. startOn'[u] = startOn[u] /\ stopOn'[u] = stopOn[u]  BY <2>2, <1>1, <1>4
    <3> QED  BY <2>1, <3>1, <3>2, <1>2, Zenon DEF Stoppable, OneEnd
  <2>3. CASE u = t
    <3>1. events'[u] = Tail(events[u])  BY <2>3, <1>1, <1>2
    <3>2. Quiet(events[u]) => Quiet(events'[u]) /\ stopOn'[u] = stopOn[u] /\ startOn'[u] = startOn[u]
      BY <3>1, <2>3, <1>4, <1>5
    <3>3. Stoppable(u)'  BY <2>1, <3>2, <1>2, Zenon DEF Stoppable
    <3>4. EndsLast(events[u]) => EndsLast(events'[u])  BY <3>1, <2>3, <1>5
    <3>5. EndsLast(events[u]) /\ ends => Quiet(events'[u])
      BY <3>1, <2>3, <1>5, NoEndInNothing
    <3>6. ~ends => startOn'[u] = startOn[u]  BY <1>4
    <3>7. Quiet(events[u]) => ~ends  BY <2>3, <1>5
    <3>8. ends /\ u \in Single => lastWords[u] = <<>>
      BY <2>1, <3>7, Zenon DEF OneEnd
    <3>9. OneEnd(u)'
      BY <2>1, <3>2, <3>4, <3>5, <3>6, <3>7, <3>8, <1>2, NoEndInNothing, Zenon DEF OneEnd
    <3> QED  BY <3>3, <3>9
  <2> QED  BY <2>2, <2>3
<1>8. TabInv'  BY <1>7 DEF TabInv
<1> QED  BY <1>5, <1>6, <1>8

(* What a worker puts last are messages, and one end from those two tabs.   *)
LEMMA EndsAreMessages ==
  ASSUME ViewerTypes, Trialled, NEW t \in Tabs, NEW words \in Ends(t)
  PROVE  words \in Seq(Message) /\ (t \in Single => EndsLast(words))
<1>1. \A k \in Kinds : Event(k) \in Message /\ Event(k).kind = k
  BY EventsAreMessages
<1>2. \A k \in {"stopped", "error", "recorded", "result", "optimized"} : k \in Kinds
  BY DEF Kinds, EndKinds
<1>3. /\ Event("stopped") \in Message /\ Event("error") \in Message /\ Event("recorded") \in Message
      /\ Event("result") \in Message /\ Event("optimized") \in Message
  BY <1>1, <1>2
<1>4. \A k \in {"result", "optimized"} : k \notin EndKinds /\ Event(k).kind = k
  BY <1>1, <1>2 DEF EndKinds
<1>5. ASSUME NEW e \in FeedEnds  PROVE e \in Seq(Message)
  <2>1. \A m, n \in Message : <<m>> \in Seq(Message) /\ <<m, n>> \in Seq(Message)
    OBVIOUS
  <2> QED  BY <2>1, <1>3, Zenon DEF FeedEnds
<1>6. CASE t = "live"
  <2>1. words \in FeedEnds  BY <1>6 DEF Ends
  <2> QED  BY <2>1, <1>5, <1>6 DEF Single
<1>7. CASE t = "record"
  <2>1. words \in RecordEnds  BY <1>7 DEF Ends
  <2>2. ASSUME NEW e \in FeedEnds  PROVE <<Event("recorded")>> \o e \in Seq(Message)
    <3>1. e \in Seq(Message) /\ <<Event("recorded")>> \in Seq(Message)  BY <1>3, <1>5
    <3> QED  BY <3>1, ConcatProperties
  <2>3. <<Event("error")>> \in Seq(Message)  BY <1>3
  <2> QED  BY <2>1, <2>2, <2>3, <1>7 DEF RecordEnds, Single
<1>8. ASSUME NEW m \in Message  PROVE <<m>> \in Seq(Message) /\ EndsLast(<<m>>)
  BY DEF EndsLast
<1>9. ASSUME NEW m \in Message, NEW n \in Message, m.kind \notin EndKinds
      PROVE  <<m, n>> \in Seq(Message) /\ EndsLast(<<m, n>>)
  <2>1. Len(<<m, n>>) = 2 /\ <<m, n>>[1] = m  OBVIOUS
  <2>2. \A i \in 1..2 : i = 1 \/ i = 2  OBVIOUS
  <2>3. EndsLast(<<m, n>>)  BY <2>1, <2>2, <1>9 DEF EndsLast
  <2> QED  BY <2>3
<1>10. CASE t = "trade"
  <2>1. words \in TradeEnds  BY <1>10 DEF Ends
  <2>2. words = <<Event("result"), Event("stopped")>> \/ words = <<Event("error")>>
    BY <2>1 DEF TradeEnds
  <2> QED  BY <2>2, <1>3, <1>4, <1>8, <1>9
<1>11. CASE t = "replay"
  <2>1. words \in ReplayEnds  BY <1>11 DEF Ends
  <2>2. CASE words = <<Event("error")>>
    BY <2>2, <1>3, <1>8
  <2>3. CASE words = <<Fills("result", Ids(fills)), Event("stopped")>>
    <3>1. fills \in Nat  BY DEF ViewerTypes
    <3>2. Ids(fills) \in Numbered1  BY <3>1, SpanIsDistinct
    <3>3. Fills("result", Ids(fills)) \in Message /\ Fills("result", Ids(fills)).kind = "result"
      BY <3>2, <1>2, EventsAreMessages
    <3>4. "result" \notin EndKinds  BY DEF EndKinds
    <3> QED  BY <2>3, <3>3, <3>4, <1>3, <1>9
  <2>4. CASE trials # <<>> /\ words = <<Event("optimized"), Fills("result", Ids(Best.fills)), Event("stopped")>>
    <3>1. Best.fills \in Nat  BY <2>4, BestIsATrial, OptimizerAssumption
    <3>2. Ids(Best.fills) \in Numbered1  BY <3>1, SpanIsDistinct
    <3> DEFINE r == Fills("result", Ids(Best.fills))
               o == Event("optimized")
               s == Event("stopped")
    <3>3. r \in Message /\ r.kind = "result"
      BY <3>2, <1>2, EventsAreMessages
    <3>4. "result" \notin EndKinds /\ o.kind \notin EndKinds /\ o \in Message /\ s \in Message
      BY <1>3, <1>4 DEF EndKinds
    <3>5. words = <<o, r, s>>  BY <2>4
    <3> HIDE DEF r, o, s
    <3>6. /\ words \in Seq(Message) /\ Len(words) = 3 /\ words[1] = o /\ words[2] = r
          /\ \A i \in 1..3 : i = 1 \/ i = 2 \/ i = 3
      BY <3>3, <3>4, <3>5
    <3>7. EndsLast(words)  BY <3>3, <3>4, <3>6 DEF EndsLast
    <3> QED  BY <3>6, <3>7
  <2> QED  BY <2>1, <2>2, <2>3, <2>4, Zenon DEF ReplayEnds
<1> QED  BY <1>6, <1>7, <1>10, <1>11, TheTabs

LEMMA LeavingKeepsTab ==
  ASSUME ViewerTypes, TabInv, Trialled, NEW t \in Tabs, Leave(t)
  PROVE  /\ phase' \in [Tabs -> {"off", "busy", "leaving"}]
         /\ lastWords' \in [Tabs -> Seq(Message)] /\ TabInv'
<1>1. phase \in [Tabs -> {"off", "busy", "leaving"}] /\ lastWords \in [Tabs -> Seq(Message)]
  BY DEF ViewerTypes
<1>2. PICK words \in Ends(t) : lastWords' = [lastWords EXCEPT ![t] = words]
  BY DEF Leave
<1>3. words \in Seq(Message) /\ (t \in Single => EndsLast(words))  BY EndsAreMessages
<1>4. /\ phase[t] = "busy" /\ phase' = [phase EXCEPT ![t] = "leaving"]
      /\ UNCHANGED <<ui, stopSet, startOn, stopOn, events, overtaken>>
  BY DEF Leave
<1>5. phase' \in [Tabs -> {"off", "busy", "leaving"}] /\ lastWords' \in [Tabs -> Seq(Message)]
  BY <1>1, <1>2, <1>3, <1>4
<1>6. ASSUME NEW u \in Tabs  PROVE Stoppable(u)' /\ OneEnd(u)'
  <2>1. Stoppable(u) /\ OneEnd(u)  BY DEF TabInv
  <2>2. CASE u # t
    <3>1. phase'[u] = phase[u] /\ lastWords'[u] = lastWords[u]  BY <2>2, <1>1, <1>2, <1>4
    <3> QED  BY <2>1, <3>1, <1>4, Zenon DEF Stoppable, OneEnd
  <2>3. CASE u = t
    <3>1. phase'[u] = "leaving" /\ lastWords'[u] = words  BY <2>3, <1>1, <1>2, <1>4
    <3>2. phase'[u] # "busy" /\ phase'[u] # "off"  BY <3>1
    <3>3. Stoppable(u)'  BY <3>2 DEF Stoppable
    <3>4. u \in Single => ~startOn[u] /\ Quiet(events[u]) /\ EndsLast(words)
      BY <2>1, <2>3, <1>3, <1>4, Zenon DEF OneEnd
    <3>5. OneEnd(u)'
      BY <3>1, <3>2, <3>4, <1>4, QuietEndsLast, Zenon DEF OneEnd
    <3> QED  BY <3>3, <3>5
  <2> QED  BY <2>2, <2>3
<1>7. TabInv'  BY <1>6 DEF TabInv
<1> QED  BY <1>5, <1>7

LEMMA LastWordsKeepTab ==
  ASSUME ViewerTypes, TabInv, NEW t \in Tabs, PutLast(t)
  PROVE  /\ events' \in [Tabs -> Seq(Message)] /\ lastWords' \in [Tabs -> Seq(Message)]
         /\ TabInv'
<1>1. events \in [Tabs -> Seq(Message)] /\ lastWords \in [Tabs -> Seq(Message)]
  BY DEF ViewerTypes
<1> DEFINE m == Head(lastWords[t])
<1>2. /\ phase[t] = "leaving" /\ lastWords[t] # <<>>
      /\ events' = [events EXCEPT ![t] = Append(events[t], m)]
      /\ lastWords' = [lastWords EXCEPT ![t] = Tail(lastWords[t])]
      /\ UNCHANGED <<ui, phase, stopSet, startOn, stopOn, overtaken>>
  BY DEF PutLast, Put
<1>3. events[t] \in Seq(Message) /\ lastWords[t] \in Seq(Message)  BY <1>1
<1>4. /\ m \in Message /\ Tail(lastWords[t]) \in Seq(Message)
      /\ Quiet(lastWords[t]) => Quiet(Tail(lastWords[t])) /\ m.kind \notin EndKinds
      /\ EndsLast(lastWords[t]) => EndsLast(Tail(lastWords[t]))
      /\ EndsLast(lastWords[t]) /\ m.kind \in EndKinds => Tail(lastWords[t]) = <<>>
  BY <1>2, <1>3, OneMessageLess
<1> HIDE DEF m
<1>5. /\ Append(events[t], m) \in Seq(Message)
      /\ Quiet(events[t]) => EndsLast(Append(events[t], m))
      /\ Quiet(events[t]) /\ m.kind \notin EndKinds => Quiet(Append(events[t], m))
  BY <1>3, <1>4, AnotherMessage
<1>6. events' \in [Tabs -> Seq(Message)] /\ lastWords' \in [Tabs -> Seq(Message)]
  BY <1>1, <1>2, <1>4, <1>5
<1>7. ASSUME NEW u \in Tabs  PROVE Stoppable(u)' /\ OneEnd(u)'
  <2>1. Stoppable(u) /\ OneEnd(u)  BY DEF TabInv
  <2>2. CASE u # t
    <3>1. events'[u] = events[u] /\ lastWords'[u] = lastWords[u]  BY <2>2, <1>1, <1>2
    <3> QED  BY <2>1, <3>1, <1>2, Zenon DEF Stoppable, OneEnd
  <2>3. CASE u = t
    <3>1. /\ events'[u] = Append(events[t], m) /\ lastWords'[u] = Tail(lastWords[t])
          /\ phase'[u] = "leaving" /\ phase'[u] # "busy" /\ phase'[u] # "off"
      BY <2>3, <1>1, <1>2
    <3>2. Stoppable(u)'  BY <3>1 DEF Stoppable
    <3>3. u \in Single => Quiet(events[t]) /\ EndsLast(lastWords[t])
      BY <2>1, <2>3, <1>2, Zenon DEF OneEnd
    <3>4. u \in Single /\ startOn[u] => Quiet(lastWords[t])
      BY <2>1, <2>3, Zenon DEF OneEnd
    <3>5. OneEnd(u)'
      BY <3>1, <3>3, <3>4, <1>2, <1>4, <1>5, Zenon DEF OneEnd
    <3> QED  BY <3>2, <3>5
  <2> QED  BY <2>2, <2>3
<1>8. TabInv'  BY <1>7 DEF TabInv
<1> QED  BY <1>6, <1>8

LEMMA ThreadEndKeepsTab ==
  ASSUME ViewerTypes, TabInv, NEW t \in Tabs, ThreadEnds(t)
  PROVE  phase' \in [Tabs -> {"off", "busy", "leaving"}] /\ TabInv'
<1>1. phase \in [Tabs -> {"off", "busy", "leaving"}]  BY DEF ViewerTypes
<1>2. /\ lastWords[t] = <<>> /\ phase' = [phase EXCEPT ![t] = "off"]
      /\ UNCHANGED <<ui, stopSet, startOn, stopOn, events, lastWords, overtaken>>
  BY DEF ThreadEnds
<1>3. ASSUME NEW u \in Tabs  PROVE Stoppable(u)' /\ OneEnd(u)'
  <2>1. Stoppable(u) /\ OneEnd(u)  BY DEF TabInv
  <2>2. CASE u # t
    <3>1. phase'[u] = phase[u]  BY <2>2, <1>1, <1>2
    <3> QED  BY <2>1, <3>1, <1>2, Zenon DEF Stoppable, OneEnd
  <2>3. CASE u = t
    <3>1. phase'[u] # "busy"  BY <2>3, <1>1, <1>2
    <3> QED  BY <2>1, <2>3, <3>1, <1>2, Zenon DEF Stoppable, OneEnd
  <2> QED  BY <2>2, <2>3
<1> QED  BY <1>1, <1>2, <1>3 DEF TabInv

LEMMA StopKeepsTab ==
  ASSUME ViewerTypes, TabInv, NEW t \in Tabs, Stop(t)
  PROVE  stopSet' \in [Tabs -> BOOLEAN] /\ stopOn' \in [Tabs -> BOOLEAN] /\ TabInv'
<1>1. stopSet \in [Tabs -> BOOLEAN] /\ stopOn \in [Tabs -> BOOLEAN]  BY DEF ViewerTypes
<1>2. /\ stopSet' = [stopSet EXCEPT ![t] = TRUE] /\ stopOn' = [stopOn EXCEPT ![t] = FALSE]
      /\ UNCHANGED <<ui, phase, startOn, events, lastWords, overtaken>>
  BY DEF Stop
<1>3. ASSUME NEW u \in Tabs  PROVE Stoppable(u)' /\ OneEnd(u)'
  <2>1. Stoppable(u) /\ OneEnd(u)  BY DEF TabInv
  <2>2. stopSet'[u] \/ (stopSet'[u] = stopSet[u] /\ stopOn'[u] = stopOn[u])  BY <1>1, <1>2
  <2> QED  BY <2>1, <2>2, <1>2, Zenon DEF Stoppable, OneEnd
<1> QED  BY <1>1, <1>2, <1>3 DEF TabInv

LEMMA ClosingKeepsTab ==
  ASSUME ViewerTypes, TabInv, CloseWindow
  PROVE  /\ phase' \in [Tabs -> {"off", "busy", "leaving"}] /\ stopSet' \in [Tabs -> BOOLEAN]
         /\ lastWords' \in [Tabs -> Seq(Message)] /\ TabInv'
<1>1. /\ stopSet' = [t \in Tabs |-> TRUE] /\ phase' = [t \in Tabs |-> "off"]
      /\ lastWords' = [t \in Tabs |-> <<>>] /\ UNCHANGED <<startOn, stopOn, events, overtaken>>
  BY DEF CloseWindow
<1>2. <<>> \in Seq(Message)  OBVIOUS
<1>3. ASSUME NEW u \in Tabs  PROVE Stoppable(u)' /\ OneEnd(u)'
  <2>1. Stoppable(u) /\ OneEnd(u)  BY DEF TabInv
  <2>2. phase'[u] # "busy" /\ lastWords'[u] = <<>>  BY <1>1
  <2> QED  BY <2>1, <2>2, <1>1, NoEndInNothing, Zenon DEF Stoppable, OneEnd
<1> QED  BY <1>1, <1>2, <1>3 DEF TabInv

-----------------------------------------------------------------------------
(* The window from its first state and through every step.                  *)
LEMMA EmptyTable == rows' = <<>> /\ seenFills' = {} => TableInv'
<1>1. Len(<<>>) = 0 /\ 1..0 = {} /\ 0 <= MaxFillRows  BY ViewerAssumption
<1> QED  BY <1>1, NothingIsDistinct DEF TableInv, Shown

LEMMA ViewerBegins == ViewerInit => ViewerInv
<1> SUFFICES ASSUME ViewerInit  PROVE ViewerInv
  OBVIOUS
<1>1. /\ phase = [t \in Tabs |-> "off"] /\ stopSet = [t \in Tabs |-> FALSE]
      /\ startOn = [t \in Tabs |-> TRUE] /\ stopOn = [t \in Tabs |-> FALSE]
      /\ events = [t \in Tabs |-> <<>>] /\ lastWords = [t \in Tabs |-> <<>>]
      /\ fills = 0 /\ rows = <<>> /\ seenFills = {} /\ trials = <<>>
  BY DEF ViewerInit, TrialsInit
<1>2. <<>> \in Seq(Message)  OBVIOUS
<1>3. ViewerTypes  BY <1>1, <1>2 DEF ViewerTypes
<1>4. ASSUME NEW t \in Tabs  PROVE Stoppable(t) /\ OneEnd(t)
  <2>1. phase[t] # "busy" /\ events[t] = <<>> /\ lastWords[t] = <<>>  BY <1>1
  <2> QED  BY <2>1, NoEndInNothing, Zenon DEF Stoppable, OneEnd
<1>5. TableInv
  <2>1. Len(<<>>) = 0 /\ 1..0 = {} /\ 0 <= MaxFillRows  BY ViewerAssumption
  <2> QED  BY <1>1, <2>1, NothingIsDistinct DEF TableInv, Shown
<1>6. Trialled
  <2>1. trials \in Seq({}) /\ 1..Len(trials) = {}  BY <1>1
  <2> QED  BY <2>1 DEF Trialled
<1> QED  BY <1>3, <1>4, <1>5, <1>6 DEF ViewerInv, TabInv

LEMMA TableStays == TableInv /\ UNCHANGED <<rows, seenFills>> => TableInv'
BY DEF TableInv

LEMMA TrialsStay == Trialled /\ UNCHANGED search => Trialled'
BY DEF Trialled, search

LEMMA TabsStay ==
  TabInv /\ UNCHANGED <<phase, stopSet, startOn, stopOn, events, lastWords, overtaken>>
    /\ (ui' = ui \/ ui # "gone") => TabInv'
<1> SUFFICES ASSUME TabInv, UNCHANGED <<phase, stopSet, startOn, stopOn, events, lastWords, overtaken>>,
                    ui' = ui \/ ui # "gone", NEW t \in Tabs
             PROVE  Stoppable(t)' /\ OneEnd(t)'
  BY DEF TabInv
<1>1. Stoppable(t) /\ OneEnd(t)  BY DEF TabInv
<1> QED  BY <1>1, Zenon DEF Stoppable, OneEnd

LEMMA StartKeepsViewer == ViewerInv /\ Start => ViewerInv'
<1> SUFFICES ASSUME ViewerInv, Start  PROVE ViewerInv'
  OBVIOUS
<1>1. ViewerTypes /\ TabInv /\ TableInv /\ Trialled  BY DEF ViewerInv
<1>2. fills \in Nat  BY <1>1 DEF ViewerTypes
<1>3. ASSUME NEW t \in Tabs, Begin(t), fills' \in Nat  PROVE ViewerTypes' /\ TabInv'
  BY <1>1, <1>3, BeginKeepsTab DEF ViewerTypes
<1>4. CASE \E t \in Tabs : StartFeed(t)
  <2>1. PICK t \in Tabs : StartFeed(t)  BY <1>4
  <2>2. Begin(t) /\ UNCHANGED <<rows, seenFills, fills, optimizing, search>>  BY <2>1 DEF StartFeed
  <2> QED  BY <2>2, <1>1, <1>2, <1>3, TableStays, TrialsStay DEF ViewerInv
<1>5. CASE \E prod, sends, confirmed, agreed \in BOOLEAN :
             StartTrading(prod, sends, confirmed, agreed)
  <2>1. Begin("trade") /\ UNCHANGED <<rows, seenFills, fills, optimizing, search>>
    BY <1>5 DEF StartTrading
  <2>2. "trade" \in Tabs  BY TheTabs
  <2> QED  BY <2>1, <2>2, <1>1, <1>2, <1>3, TableStays, TrialsStay DEF ViewerInv
<1>6. CASE \E optimize \in BOOLEAN, mode \in {"adaptive", "all"}, strategy \in {"static", "adaptive"} :
             StartReplay(optimize, mode, strategy)
  <2>1. PICK optimize \in BOOLEAN, mode \in {"adaptive", "all"}, strategy \in {"static", "adaptive"} :
          StartReplay(optimize, mode, strategy)
    BY <1>6
  <2>2. Begin("replay") /\ ClearTables /\ fills' = 0 /\ trials' = <<>>
    BY <2>1 DEF StartReplay, BeginSearch, NoSearch
  <2>3. "replay" \in Tabs  BY TheTabs
  <2>4. TableInv'  BY <2>2, EmptyTable DEF ClearTables
  <2>5. Trialled'
    <3>1. trials' \in Seq({}) /\ 1..Len(trials') = {}  BY <2>2
    <3> QED  BY <3>1 DEF Trialled
  <2> QED  BY <2>2, <2>3, <2>4, <2>5, <1>3 DEF ViewerInv
<1> QED  BY <1>4, <1>5, <1>6 DEF Start

LEMMA WindowKeepsViewer == ViewerInv /\ Window => ViewerInv'
<1> SUFFICES ASSUME ViewerInv, Window  PROVE ViewerInv'
  OBVIOUS
<1>1. ViewerTypes /\ TabInv /\ TableInv /\ Trialled  BY DEF ViewerInv
<1>2. ASSUME UNCHANGED <<phase, stopSet, startOn, stopOn, events, lastWords, fills, rows,
                         seenFills, optimizing, overtaken, starts, search>>, ui # "gone"
      PROVE  ViewerInv'
  <2>1. TabInv' /\ TableInv' /\ Trialled'  BY <1>1, <1>2, TabsStay, TableStays, TrialsStay
  <2>2. ViewerTypes'  BY <1>1, <1>2 DEF ViewerTypes
  <2> QED  BY <2>1, <2>2 DEF ViewerInv
<1>3. CASE BeginPoll
  BY <1>2, <1>3 DEF BeginPoll
<1>4. ASSUME NEW t \in Tabs, NextTab(t)  PROVE ViewerInv'
  <2>1. t # "gone"  BY TheTabs
  <2> QED  BY <2>1, <1>2, <1>4 DEF NextTab
<1>5. ASSUME NEW t \in Tabs, HandleEvent(t)  PROVE ViewerInv'
  <2>1. /\ startOn' \in [Tabs -> BOOLEAN] /\ stopOn' \in [Tabs -> BOOLEAN]
        /\ events' \in [Tabs -> Seq(Message)] /\ TabInv' /\ Head(events[t]) \in Message
    BY <1>1, <1>5, HandlingKeepsTab
  <2>2. UNCHANGED <<phase, stopSet, lastWords, fills, search>>  BY <1>5 DEF HandleEvent
  <2>3. ViewerTypes'  BY <1>1, <2>1, <2>2 DEF ViewerTypes
  <2>4. Head(events[t]).ids \in Numbered1  BY <2>1 DEF Message
  <2>5. AppendFillRows(Head(events[t]).ids) \/ UNCHANGED <<rows, seenFills>>
    BY <1>5, Zenon DEF HandleEvent
  <2>6. TableInv'
    <3>1. \A s \in Numbered1 : TableInv /\ AppendFillRows(s) => TableInv'
      BY AppendKeepsTable
    <3> QED  BY <3>1, <2>4, <2>5, <1>1, TableStays
  <2> QED  BY <2>1, <2>2, <2>3, <2>6, <1>1, TrialsStay DEF ViewerInv
<1> QED  BY <1>3, <1>4, <1>5 DEF Window

LEMMA WorkersKeepViewer ==
  ViewerInv /\ (FillUntold \/ RunTrial \/ CloseWindow
                  \/ \E t \in Tabs : Stop(t) \/ Tell(t) \/ Leave(t) \/ PutLast(t) \/ ThreadEnds(t))
    => ViewerInv'
<1> SUFFICES ASSUME ViewerInv,
                    FillUntold \/ RunTrial \/ CloseWindow
                      \/ \E t \in Tabs : Stop(t) \/ Tell(t) \/ Leave(t) \/ PutLast(t) \/ ThreadEnds(t)
             PROVE  ViewerInv'
  OBVIOUS
<1>1. ViewerTypes /\ TabInv /\ TableInv /\ Trialled  BY DEF ViewerInv
<1>2. fills \in Nat /\ "replay" \in Tabs  BY <1>1, TheTabs DEF ViewerTypes
<1>3. ASSUME UNCHANGED <<rows, seenFills>>, UNCHANGED search, ViewerTypes', TabInv'  PROVE ViewerInv'
  BY <1>1, <1>3, TableStays, TrialsStay DEF ViewerInv
<1>4. Event("status") \in Message /\ Event("status").kind \notin EndKinds
  <2>1. "status" \in Kinds /\ "status" \notin EndKinds  BY DEF Kinds, EndKinds
  <2> QED  BY <2>1, EventsAreMessages
<1>5. CASE FillUntold
  <2>1. /\ fills' = fills + 1
        /\ UNCHANGED <<ui, phase, stopSet, startOn, stopOn, events, lastWords, rows,
                       seenFills, optimizing, overtaken, starts, search>>
    BY <1>5 DEF FillUntold
  <2>2. ViewerTypes'  BY <2>1, <1>1, <1>2 DEF ViewerTypes
  <2> QED  BY <2>1, <2>2, <1>1, <1>3, TabsStay
<1>6. CASE RunTrial
  <2>1. /\ phase["replay"] = "busy" /\ NextTrial /\ Put("replay", Event("status"))
        /\ UNCHANGED <<ui, phase, stopSet, startOn, stopOn, lastWords, fills, rows,
                       seenFills, optimizing, overtaken, starts>>
    BY <1>6 DEF RunTrial
  <2>2. events' \in [Tabs -> Seq(Message)] /\ TabInv'
    BY <2>1, <1>1, <1>2, <1>4, TellKeepsTab
  <2>3. ViewerTypes'  BY <2>1, <2>2, <1>1 DEF ViewerTypes
  <2>4. Trialled'
    <3>1. PICK S : trials \in Seq(S)  BY <1>1 DEF Trialled
    <3>2. PICK s \in Outcomes :
            trials' = Append(trials, [of |-> chosen[Len(trials) + 1], summary |-> s])
      BY <2>1 DEF NextTrial
    <3> DEFINE r == [of |-> chosen[Len(trials) + 1], summary |-> s]
    <3>3. r.summary = s  OBVIOUS
    <3> HIDE DEF r
    <3>4. trials \in Seq(S \cup {r}) /\ r \in S \cup {r}  BY <3>1
    <3>5. /\ trials' \in Seq(S \cup {r}) /\ Len(trials') = Len(trials) + 1 /\ Len(trials) \in Nat
          /\ \A i \in 1..Len(trials) : trials'[i] = trials[i]
          /\ trials'[Len(trials) + 1] = r
      BY <3>2, <3>4, AppendProperties DEF r
    <3>6. \A i \in 1..Len(trials') : i \in 1..Len(trials) \/ i = Len(trials) + 1  BY <3>5
    <3>7. \A i \in 1..Len(trials') : trials'[i].summary \in Outcomes
      BY <3>3, <3>5, <3>6, <1>1 DEF Trialled
    <3> QED  BY <3>5, <3>7 DEF Trialled
  <2> QED  BY <2>1, <2>2, <2>3, <2>4, <1>1, TableStays DEF ViewerInv
<1>7. CASE CloseWindow
  <2>1. UNCHANGED <<startOn, stopOn, events, fills, rows, seenFills, search>>
    BY <1>7 DEF CloseWindow
  <2>2. ViewerTypes' /\ TabInv'  BY <2>1, <1>1, <1>7, ClosingKeepsTab DEF ViewerTypes
  <2> QED  BY <2>1, <2>2, <1>3
<1>8. ASSUME NEW t \in Tabs, Stop(t)  PROVE ViewerInv'
  <2>1. UNCHANGED <<phase, startOn, events, lastWords, fills, rows, seenFills, search>>
    BY <1>8 DEF Stop
  <2>2. ViewerTypes' /\ TabInv'  BY <2>1, <1>1, <1>8, StopKeepsTab DEF ViewerTypes
  <2> QED  BY <2>1, <2>2, <1>3
<1>9. ASSUME NEW t \in Tabs, Leave(t)  PROVE ViewerInv'
  <2>1. UNCHANGED <<stopSet, startOn, stopOn, events, fills, rows, seenFills, search>>
    BY <1>9 DEF Leave
  <2>2. ViewerTypes' /\ TabInv'  BY <2>1, <1>1, <1>9, LeavingKeepsTab DEF ViewerTypes
  <2> QED  BY <2>1, <2>2, <1>3
<1>10. ASSUME NEW t \in Tabs, PutLast(t)  PROVE ViewerInv'
  <2>1. UNCHANGED <<phase, stopSet, startOn, stopOn, fills, rows, seenFills, search>>
    BY <1>10 DEF PutLast
  <2>2. ViewerTypes' /\ TabInv'  BY <2>1, <1>1, <1>10, LastWordsKeepTab DEF ViewerTypes
  <2> QED  BY <2>1, <2>2, <1>3
<1>11. ASSUME NEW t \in Tabs, ThreadEnds(t)  PROVE ViewerInv'
  <2>1. UNCHANGED <<stopSet, startOn, stopOn, events, lastWords, fills, rows, seenFills, search>>
    BY <1>11 DEF ThreadEnds
  <2>2. ViewerTypes' /\ TabInv'  BY <2>1, <1>1, <1>11, ThreadEndKeepsTab DEF ViewerTypes
  <2> QED  BY <2>1, <2>2, <1>3
<1>12. ASSUME NEW t \in Tabs, Tell(t)  PROVE ViewerInv'
  <2>1. /\ phase[t] = "busy"
        /\ UNCHANGED <<ui, phase, stopSet, startOn, stopOn, lastWords, rows, seenFills,
                       optimizing, overtaken, starts, search>>
    BY <1>12 DEF Tell
  <2>2. CASE t = "replay"
    <3>1. PICK n \in fills..MaxFills : \E k \in fills..n :
            /\ n > fills /\ fills' = n /\ Put(t, Fills("update", SubSeq(Ids(n), k + 1, n)))
      BY <1>12, <2>2 DEF Tell
    <3>2. PICK k \in fills..n :
            /\ n > fills /\ fills' = n /\ Put(t, Fills("update", SubSeq(Ids(n), k + 1, n)))
      BY <3>1
    <3>3. n \in Nat /\ k \in Nat /\ Len(Ids(n)) = n
      BY <1>2, <3>2 DEF Ids
    <3>4. SubSeq(Ids(n), k + 1, n) \in Numbered1
      <4>1. Ids(n) \in Numbered1  BY <3>3, SpanIsDistinct
      <4> QED  BY <3>3, <4>1, PartIsDistinct
    <3>5. "update" \in Kinds /\ "update" \notin EndKinds  BY DEF Kinds, EndKinds
    <3> DEFINE m == Fills("update", SubSeq(Ids(n), k + 1, n))
    <3>6. m \in Message /\ m.kind \notin EndKinds  BY <3>4, <3>5, EventsAreMessages
    <3>7. Put(t, m)  BY <3>2
    <3> HIDE DEF m
    <3>8. events' \in [Tabs -> Seq(Message)] /\ TabInv'
      BY <2>1, <3>6, <3>7, <1>1, TellKeepsTab
    <3>9. ViewerTypes'  BY <2>1, <3>2, <3>3, <3>8, <1>1 DEF ViewerTypes
    <3> QED  BY <2>1, <3>8, <3>9, <1>3
  <2>3. CASE t # "replay"
    <3>1. Put(t, Event("status")) /\ fills' = fills  BY <1>12, <2>3 DEF Tell
    <3>2. events' \in [Tabs -> Seq(Message)] /\ TabInv'
      BY <2>1, <3>1, <1>1, <1>4, TellKeepsTab
    <3>3. ViewerTypes'  BY <2>1, <3>1, <3>2, <1>1 DEF ViewerTypes
    <3> QED  BY <2>1, <3>2, <3>3, <1>3
  <2> QED  BY <2>2, <2>3
<1> QED  BY <1>5, <1>6, <1>7, <1>8, <1>9, <1>10, <1>11, <1>12

LEMMA ViewerGoesOn == ViewerInv /\ (ViewerStep \/ UNCHANGED <<viewer, search>>) => ViewerInv'
<1>1. ViewerInv /\ ViewerStep => ViewerInv'
  BY StartKeepsViewer, WindowKeepsViewer, WorkersKeepViewer, Zenon DEF ViewerStep
<1>2. ViewerInv /\ UNCHANGED <<viewer, search>> => ViewerInv'
  <2> SUFFICES ASSUME ViewerInv, UNCHANGED <<viewer, search>>  PROVE ViewerInv'
    OBVIOUS
  <2>1. UNCHANGED <<ui, phase, stopSet, startOn, stopOn, events, lastWords, overtaken, fills, rows, seenFills>>
    BY DEF viewer
  <2>2. TabInv' /\ TableInv' /\ Trialled'
    BY <2>1, TabsStay, TableStays, TrialsStay DEF ViewerInv
  <2>3. ViewerTypes'  BY <2>1 DEF ViewerInv, ViewerTypes
  <2> QED  BY <2>2, <2>3 DEF ViewerInv
<1> QED  BY <1>1, <1>2

-----------------------------------------------------------------------------
(* What the window's invariant says of the buttons and of the table.        *)
LEMMA TableIsSound == TableInv => FillsTableIsSound
<1> SUFFICES ASSUME TableInv  PROVE FillsTableIsSound
  OBVIOUS
<1> DEFINE n == Len(rows)
           f == [k \in 1..n |-> rows[k]]
<1>1. /\ rows \in Seq(Nat) /\ n <= MaxFillRows /\ seenFills = {rows[k] : k \in 1..n}
      /\ \A i, j \in 1..n : rows[i] = rows[j] => i = j
  BY DEF TableInv, Shown, Numbered1, Distinct
<1>2. n \in Nat /\ DOMAIN rows = 1..n  BY <1>1
<1> HIDE DEF n
<1>3. IsFiniteSet(1..n) /\ Cardinality(1..n) = n
  <2>1. 1 \in Int /\ n \in Int /\ (1 > n => n = 0) /\ n - 1 + 1 = n  BY <1>2
  <2> QED  BY <2>1, FS_Interval
<1>4. f \in Bijection(1..n, seenFills)
  <2>1. f \in [1..n -> seenFills]  BY <1>1
  <2>2. \A i, j \in 1..n : f[i] = f[j] => i = j  BY <1>1
  <2>3. \A x \in seenFills : \E k \in 1..n : f[k] = x  BY <1>1
  <2> HIDE DEF f
  <2>4. f \in Injection(1..n, seenFills)  BY <2>1, <2>2 DEF Injection, IsInjective
  <2>5. f \in Surjection(1..n, seenFills)  BY <2>1, <2>3 DEF Surjection
  <2> QED  BY <2>4, <2>5 DEF Bijection
<1>5. Cardinality(1..n) = Cardinality(seenFills)
  BY <1>3, <1>4, FS_Bijection DEF ExistsBijection
<1> QED  BY <1>1, <1>2, <1>3, <1>5 DEF FillsTableIsSound, n

LEMMA TabsCanBeStopped == TabInv => CanBeStopped
<1> SUFFICES ASSUME TabInv, NEW t \in Tabs, ui # "gone", phase[t] = "busy", ~stopSet[t],
                    t \in overtaken => t \in {"replay", "trade"}
             PROVE  stopOn[t]
  BY DEF CanBeStopped
<1>1. Stoppable(t)  BY DEF TabInv
<1> QED  BY <1>1, Zenon DEF Stoppable, Single

(* A worker that is not told to stop can be told to as long as the window   *)
(* is open, except in the tabs live and record where an error of the run    *)
(* before was read after the start and disabled the button                  *)
(* (orderbook_viewer.py:960, :983); and no row of a fill is ever inserted   *)
(* under an id that is in the table, so that the poll that serves the       *)
(* buttons goes on (:1113).                                                 *)
THEOREM StoppingIsOffered == Spec => []RunningCanBeStopped
<1>1. Init => ViewerInv  BY ViewerBegins DEF Init
<1>2. ViewerInv /\ [Next]_vars => ViewerInv'
  <2> SUFFICES ASSUME ViewerInv, [Next]_vars  PROVE ViewerInv'
    OBVIOUS
  <2>1. CASE UNCHANGED vars
    <3>1. UNCHANGED <<viewer, search>>  BY <2>1 DEF vars
    <3> QED  BY <3>1, ViewerGoesOn
  <2>2. CASE Next
    <3>1. started = "viewer" => ViewerStep  BY <2>2 DEF Next
    <3>2. started # "viewer" => UNCHANGED <<viewer, search>>  BY <2>2 DEF Next, Still
    <3> QED  BY <3>1, <3>2, ViewerGoesOn
  <2> QED  BY <2>1, <2>2
<1>3. ViewerInv => RunningCanBeStopped
  BY TableIsSound, TabsCanBeStopped DEF ViewerInv, RunningCanBeStopped
<1> QED  BY <1>1, <1>2, <1>3, PTL DEF Spec

-----------------------------------------------------------------------------
(* The orders at the exchange, whoever sent them.                           *)
Whole(o) ==
  /\ o = [ticker |-> o.ticker, kind |-> o.kind, dir |-> o.dir, left |-> o.left]
  /\ o.dir \in {-1, 0, 1}
Orderly ==
  /\ orders = [i \in DOMAIN orders |-> orders[i]]
  /\ \A i \in DOMAIN orders : Whole(orders[i])
  /\ None \notin DOMAIN orders
AtRest(i) == orders[i].left > 0
SameButFewer ==
  /\ DOMAIN orders' = DOMAIN orders
  /\ \A i \in DOMAIN orders :
       /\ orders'[i].ticker = orders[i].ticker /\ orders'[i].kind = orders[i].kind
       /\ orders'[i].dir = orders[i].dir
       /\ AtRest(i)' => AtRest(i)

LEMMA RequestIsWhole ==
  ASSUME NEW t, NEW kind, NEW d \in {-1, 1}, NEW n
  PROVE  /\ Whole(Request(t, kind, d, n)) /\ Request(t, kind, d, n).ticker = t
         /\ Request(t, kind, d, n).kind = kind /\ Request(t, kind, d, n).dir = d
         /\ Request(t, kind, d, n).left = n
BY DEF Whole, Request

LEMMA StayingIsFewer == Orderly /\ orders' = orders => Orderly' /\ SameButFewer
BY DEF Orderly, SameButFewer, AtRest

LEMMA OneMoreOrder ==
  ASSUME Orderly, NEW o, Whole(o), NEW now, Takes(o, now)
  PROVE  /\ Orderly' /\ DOMAIN orders' = DOMAIN orders
         /\ \A i \in DOMAIN orders :
              /\ i = sent + 1 =>
                   orders'[i] = [ticker |-> o.ticker, kind |-> o.kind, dir |-> o.dir, left |-> o.left - now]
              /\ i # sent + 1 => orders'[i] = orders[i]
<1>1. orders = [i \in DOMAIN orders |-> orders[i]]  BY DEF Orderly
<1>2. orders' = [orders EXCEPT ![sent + 1] = [o EXCEPT !.left = @ - now]]  BY DEF Takes
<1>3. [o EXCEPT !.left = @ - now] = [ticker |-> o.ticker, kind |-> o.kind, dir |-> o.dir, left |-> o.left - now]
  BY DEF Whole
<1> DEFINE n == [ticker |-> o.ticker, kind |-> o.kind, dir |-> o.dir, left |-> o.left - now]
<1>4. n.dir \in {-1, 0, 1} /\ n = [ticker |-> n.ticker, kind |-> n.kind, dir |-> n.dir, left |-> n.left]
  BY DEF Whole
<1> HIDE DEF n
<1>5. orders' = [orders EXCEPT ![sent + 1] = n]  BY <1>2, <1>3 DEF n
<1>6. /\ DOMAIN orders' = DOMAIN orders /\ orders' = [i \in DOMAIN orders |-> orders'[i]]
      /\ \A i \in DOMAIN orders :
           /\ i = sent + 1 => orders'[i] = n
           /\ i # sent + 1 => orders'[i] = orders[i]
  BY <1>1, <1>5
<1>7. ASSUME NEW i \in DOMAIN orders  PROVE Whole(orders[i])'
  <2>1. orders'[i] = n \/ orders'[i] = orders[i]  BY <1>6
  <2>2. Whole(orders[i])  BY DEF Orderly
  <2> QED  BY <2>1, <2>2, <1>4 DEF Whole
<1> QED  BY <1>6, <1>7 DEF n, Orderly

LEMMA FewerAfterCancel ==
  ASSUME Orderly, NEW is, Cancels(is)
  PROVE  /\ Orderly' /\ SameButFewer
         /\ \A i \in DOMAIN orders : i \in is => ~AtRest(i)'
<1>1. /\ orders' = [i \in DOMAIN orders |->
                     IF i \in is THEN [orders[i] EXCEPT !.left = 0] ELSE orders[i]]
  BY DEF Cancels
<1>2. DOMAIN orders' = DOMAIN orders /\ orders' = [i \in DOMAIN orders' |-> orders'[i]]  BY <1>1
<1>3. ASSUME NEW i \in DOMAIN orders
      PROVE  /\ Whole(orders[i])' /\ orders'[i].ticker = orders[i].ticker
             /\ orders'[i].kind = orders[i].kind /\ orders'[i].dir = orders[i].dir
             /\ AtRest(i)' => AtRest(i)
             /\ i \in is => ~AtRest(i)'
  <2> DEFINE o == orders[i]
  <2>1. Whole(o)  BY DEF Orderly
  <2>2. CASE i \in is
    <3>1. orders'[i] = [o EXCEPT !.left = 0]  BY <1>1, <2>2
    <3>2. orders'[i] = [ticker |-> o.ticker, kind |-> o.kind, dir |-> o.dir, left |-> 0]
      BY <3>1, <2>1 DEF Whole
    <3> QED  BY <3>2, <2>1 DEF Whole, AtRest
  <2>3. CASE i \notin is
    <3>1. orders'[i] = o  BY <1>1, <2>3
    <3> QED  BY <3>1, <2>1, <2>3 DEF Whole, AtRest
  <2> QED  BY <2>2, <2>3
<1> QED  BY <1>2, <1>3 DEF Orderly, SameButFewer

LEMMA FewerAfterTrade ==
  ASSUME Orderly, NEW i \in DOMAIN orders, Trades(i)
  PROVE  Orderly' /\ SameButFewer
<1>1. orders' = [orders EXCEPT ![i].left = @ - 1] /\ AtRest(i)  BY DEF Trades, AtRest
<1>2. orders = [j \in DOMAIN orders |-> orders[j]]  BY DEF Orderly
<1> DEFINE o == orders[i]
           n == [o EXCEPT !.left = @ - 1]
<1>3. Whole(o)  BY DEF Orderly
<1>4. n = [ticker |-> o.ticker, kind |-> o.kind, dir |-> o.dir, left |-> o.left - 1]  BY <1>3 DEF Whole
<1>5. Whole(n) /\ n.ticker = o.ticker /\ n.kind = o.kind /\ n.dir = o.dir  BY <1>3, <1>4 DEF Whole
<1> HIDE DEF n
<1>6. orders' = [orders EXCEPT ![i] = n]  BY <1>1 DEF n
<1>7. /\ DOMAIN orders' = DOMAIN orders /\ orders' = [j \in DOMAIN orders' |-> orders'[j]]
      /\ orders'[i] = n /\ \A j \in DOMAIN orders : j # i => orders'[j] = orders[j]
  BY <1>2, <1>6
<1>8. ASSUME NEW j \in DOMAIN orders
      PROVE  /\ Whole(orders[j])' /\ orders'[j].ticker = orders[j].ticker
             /\ orders'[j].kind = orders[j].kind /\ orders'[j].dir = orders[j].dir
             /\ AtRest(j)' => AtRest(j)
  <2>1. CASE j = i
    BY <2>1, <1>1, <1>5, <1>7 DEF AtRest, Whole
  <2>2. CASE j # i
    <3>1. orders'[j] = orders[j] /\ Whole(orders[j])  BY <2>2, <1>7 DEF Orderly
    <3> QED  BY <3>1 DEF AtRest, Whole
  <2> QED  BY <2>1, <2>2
<1> QED  BY <1>7, <1>8 DEF Orderly, SameButFewer

-----------------------------------------------------------------------------
(* calibrate_fees: what rests is in the market it picked; what the finally  *)
(* leaves there was not listed yet, or a call of it failed.  A create is    *)
(* sent when everything is listed, so that one that may still be taken is   *)
(* the only order a listing may miss.                                       *)
FeeInv ==
  /\ Orderly
  /\ picked = <<>> => fPc \in {"start", "final", "ended"}
  /\ fPc = "start" \/ picked = <<>> => late = {} /\ \A i \in DOMAIN orders : ~AtRest(i)
  /\ fPc \in {"start", "trip", "exit"} => fresh = None
  /\ \A o \in late : Whole(o) /\ o.ticker = FeeMarket /\ o.kind # "last" /\ \A x \in late : x = o
  /\ late # {} => fPc \in {"final", "ended"} /\ fresh = None
  /\ \A i \in DOMAIN orders : AtRest(i) => orders[i].ticker = FeeMarket
  /\ fPc = "ended" => \A i \in DOMAIN orders : AtRest(i) => orders[i].ticker \in unclean \/ i = fresh

LEMMA FeeBegins == FeeInit /\ ExchangeInit => FeeInv
<1> SUFFICES ASSUME FeeInit, ExchangeInit  PROVE FeeInv
  OBVIOUS
<1>1. /\ fPc = "start" /\ orders = [i \in 1..MaxSent |-> NoOrder] /\ late = {}
      /\ fresh = None
  BY DEF FeeInit, ExchangeInit
<1>2. Whole(NoOrder) /\ ~(NoOrder.left > 0)  BY DEF Whole, NoOrder
<1>3. \A i \in DOMAIN orders : orders[i] = NoOrder  BY <1>1
<1>4. Orderly  BY <1>1, <1>2, <1>3, ProbesAssumption DEF Orderly, None
<1>5. \A i \in DOMAIN orders : ~AtRest(i)  BY <1>2, <1>3 DEF AtRest
<1> QED  BY <1>1, <1>4, <1>5 DEF FeeInv

(* When everything is listed, an order of the script's may come to rest.    *)
LEMMA FeeOrderTaken ==
  ASSUME FeeInv, picked # <<>>, picked' = picked, unclean' = unclean,
         fPc \notin {"final", "ended"}, fPc' \in {"entry", "wait", "final"},
         NEW kind, kind # "last", NEW d \in {-1, 1}, NEW n, Taken(Request(FeeMarket, kind, d, n), TRUE)
  PROVE  FeeInv'
<1> DEFINE o == Request(FeeMarket, kind, d, n)
<1>1. PICK now : Takes(o, now)  BY Zenon DEF Taken
<1>2. Whole(o) /\ o.ticker = FeeMarket  BY RequestIsWhole
<1>3. late' = late  BY DEF Taken
<1> HIDE DEF o
<1>4. Orderly /\ late = {}  BY DEF FeeInv
<1>5. /\ Orderly' /\ DOMAIN orders' = DOMAIN orders
      /\ \A i \in DOMAIN orders :
           /\ i = sent + 1 =>
                orders'[i] = [ticker |-> o.ticker, kind |-> o.kind, dir |-> o.dir, left |-> o.left - now]
           /\ i # sent + 1 => orders'[i] = orders[i]
  BY <1>1, <1>2, <1>4, OneMoreOrder
<1>6. FeeMarket' = FeeMarket  BY DEF FeeMarket
<1>7. ASSUME NEW i \in DOMAIN orders, AtRest(i)'  PROVE orders'[i].ticker = FeeMarket
  <2>1. CASE i = sent + 1
    BY <2>1, <1>5, <1>2
  <2>2. CASE i # sent + 1
    BY <2>2, <1>5, <1>7 DEF FeeInv, AtRest
  <2> QED  BY <2>1, <2>2
<1> QED  BY <1>3, <1>4, <1>5, <1>6, <1>7 DEF FeeInv

(* Calls that send nothing.                                                 *)
LEMMA FeeSendsNothing ==
  ASSUME FeeInv, picked' = picked, Orderly', SameButFewer, late' = late, unclean \subseteq unclean',
         late # {} => fPc' \in {"final", "ended"} /\ fresh' = fresh,
         fPc' \in {"start", "trip", "exit"} => fresh' = None,
         fPc' = "ended" => \A i \in DOMAIN orders : AtRest(i)' => orders[i].ticker \in unclean' \/ i = fresh',
         picked = <<>> => fPc' \in {"start", "final", "ended"},
         fPc' = "start" => fPc = "start"
  PROVE  FeeInv'
<1>1. FeeMarket' = FeeMarket  BY DEF FeeMarket
<1>2. \A i \in DOMAIN orders' : AtRest(i)' => AtRest(i) /\ i \in DOMAIN orders /\ orders'[i].ticker = orders[i].ticker
  BY DEF SameButFewer
<1>3. \A o \in late : Whole(o)' <=> Whole(o)  BY DEF Whole
<1> QED  BY <1>1, <1>2, <1>3 DEF FeeInv

LEMMA FeeRequestRaised ==
  ASSUME FeeInv, picked # <<>>, picked' = picked, unclean' = unclean, fPc \in {"trip", "exit"}, fPc' = "final",
         NEW kind, kind # "last", NEW d \in {-1, 1}, NEW n, Raised(Request(FeeMarket, kind, d, n), TRUE)
  PROVE  FeeInv'
<1> DEFINE o == Request(FeeMarket, kind, d, n)
<1>0. late = {} /\ fresh = None /\ Orderly  BY DEF FeeInv
<1>1. CASE Taken(o, TRUE)
  BY <1>1, FeeOrderTaken
<1>2. CASE late' = late \cup {o} /\ UNCHANGED <<pos, orders, sent, traded, fresh>>
  <2>1. PICK new : new = o  OBVIOUS
  <2>2. Whole(new) /\ new.ticker = FeeMarket /\ new.kind = kind  BY <2>1, RequestIsWhole
  <2>3. late' = {new} /\ orders' = orders /\ fresh' = fresh  BY <1>0, <1>2, <2>1
  <2> HIDE DEF o
  <2>4. Orderly' /\ SameButFewer  BY <2>3, <1>0, StayingIsFewer
  <2>5. FeeMarket' = FeeMarket /\ Whole(new)'  BY <2>2 DEF FeeMarket, Whole
  <2>6. \A x \in late' : Whole(x)' /\ x.ticker = FeeMarket' /\ x.kind # "last" /\ \A z \in late' : z = x
    BY <2>2, <2>3, <2>5
  <2>7. \A i \in DOMAIN orders' : AtRest(i)' => orders'[i].ticker = FeeMarket'
    BY <2>3, <2>5 DEF FeeInv, AtRest
  <2>8. picked' # <<>> /\ fPc' = "final" /\ fresh' = None  BY <2>3, <1>0
  <2> QED  BY <2>4, <2>6, <2>7, <2>8 DEF FeeInv
<1>3. CASE UNCHANGED atExchange
  <2>1. orders' = orders /\ late' = late  BY <1>3 DEF atExchange
  <2>2. Orderly' /\ SameButFewer  BY <2>1, <1>0, StayingIsFewer
  <2> QED  BY <2>1, <2>2, <1>0, FeeSendsNothing
<1> QED  BY <1>1, <1>2, <1>3 DEF Raised

LEMMA FeeCleans == FeeInv /\ FeeCleanup /\ picked' = picked => FeeInv'
<1> SUFFICES ASSUME FeeInv, FeeCleanup, picked' = picked  PROVE FeeInv'
  OBVIOUS
<1>1. fPc = "final" /\ fPc' = "ended"  BY DEF FeeCleanup
<1>2. Orderly  BY DEF FeeInv
<1>3. CASE picked = <<>> /\ UNCHANGED exchange
  <2>1. orders' = orders /\ late' = late /\ unclean' = unclean /\ late = {}
    BY <1>3 DEF exchange, atExchange, FeeInv
  <2>2. Orderly' /\ SameButFewer  BY <2>1, <1>2, StayingIsFewer
  <2>3. \A i \in DOMAIN orders : ~AtRest(i)'  BY <2>1, <1>3 DEF FeeInv, AtRest
  <2> QED  BY <2>1, <2>2, <2>3, <1>1, FeeSendsNothing
<1>4. CASE picked # <<>> /\ UNCHANGED <<fresh, unclean>> /\ \E seen \in Listable(FeeOrders) : Cancels(seen)
  <2>1. PICK seen \in Listable(FeeOrders) : Cancels(seen)  BY <1>4
  <2>2. Orderly' /\ SameButFewer /\ \A i \in DOMAIN orders : i \in seen => ~AtRest(i)'
    BY <1>2, <2>1, FewerAfterCancel
  <2>3. FeeOrders \ {fresh} \subseteq seen  BY <2>1 DEF Listable
  <2>4. ASSUME NEW i \in DOMAIN orders, AtRest(i)'  PROVE i = fresh'
    <3>1. i \in FeeOrders  BY <2>2, <2>4 DEF FeeInv, FeeOrders, RestingAt, AtRest, SameButFewer
    <3> QED  BY <3>1, <2>2, <2>3, <2>4, <1>4
  <2>5. late' = late  BY <2>1 DEF Cancels
  <2> QED  BY <2>2, <2>4, <2>5, <1>1, <1>4, FeeSendsNothing
<1>5. CASE /\ picked # <<>> /\ UNCHANGED fresh /\ unclean' = unclean \cup {FeeMarket}
           /\ \E some \in SUBSET FeeOrders : Cancels(some)
  <2>1. PICK some : Cancels(some)  BY <1>5
  <2>2. Orderly' /\ SameButFewer  BY <1>2, <2>1, FewerAfterCancel
  <2>3. late' = late  BY <2>1 DEF Cancels
  <2>4. \A i \in DOMAIN orders : AtRest(i)' => orders[i].ticker = FeeMarket
    BY <2>2 DEF FeeInv, SameButFewer
  <2> QED  BY <2>2, <2>3, <2>4, <1>1, <1>5, FeeSendsNothing
<1> QED  BY <1>3, <1>4, <1>5 DEF FeeCleanup

LEMMA FeeGoesOn == FeeInv /\ (FeeStep \/ UNCHANGED <<fee, exchange>>) => FeeInv'
<1>1. ASSUME FeeInv, UNCHANGED atExchange, unclean' = unclean, picked' = picked,
             picked = <<>> => fPc' \in {"start", "final", "ended"}, fPc' = "start" => fPc = "start",
             fPc' \in {"trip", "exit"} => fPc \in {"start", "trip", "exit"},
             fPc' = "ended" => fPc \in {"start", "ended"}, fPc \in {"final", "ended"} => fPc' = fPc
      PROVE  FeeInv'
  <2>1. orders' = orders /\ late' = late /\ fresh' = fresh  BY <1>1 DEF atExchange
  <2>2. Orderly' /\ SameButFewer  BY <1>1, <2>1, StayingIsFewer DEF FeeInv
  <2>3. fPc = "start" => \A i \in DOMAIN orders : ~AtRest(i)'  BY <1>1, <2>1 DEF FeeInv, AtRest
  <2>4. late # {} => fPc' \in {"final", "ended"}  BY <1>1 DEF FeeInv
  <2>5. fPc' \in {"start", "trip", "exit"} => fresh' = None  BY <1>1, <2>1 DEF FeeInv
  <2>6. fPc' = "ended" => \A i \in DOMAIN orders : AtRest(i)' => orders[i].ticker \in unclean' \/ i = fresh'
    BY <1>1, <2>1, <2>3 DEF FeeInv, AtRest 
  <2> QED  BY <1>1, <2>1, <2>2, <2>4, <2>5, <2>6, FeeSendsNothing
<1>2. ASSUME FeeInv, picked' = picked, Sleeps \/ (Cancels({own}) /\ Slept), unclean' = unclean,
             fPc \notin {"start", "final", "ended"}, fPc' \notin {"start", "ended"}
      PROVE  FeeInv'
  <2>1. late = {} /\ picked # <<>> /\ Orderly  BY <1>2 DEF FeeInv
  <2>2. Orderly' /\ SameButFewer
    <3>1. CASE Sleeps
      BY <3>1, <2>1, StayingIsFewer DEF Sleeps
    <3>2. CASE Cancels({own})
      BY <3>2, <2>1, FewerAfterCancel
    <3> QED  BY <3>1, <3>2, <1>2
  <2>3. late' = late /\ fresh' = None  BY <1>2 DEF Sleeps, Slept, Cancels
  <2> QED  BY <1>2, <2>1, <2>2, <2>3, FeeSendsNothing
<1>3. ASSUME FeeInv, fPc \notin {"start", "final", "ended"}  PROVE picked # <<>>
  BY <1>3 DEF FeeInv
<1>4. ASSUME FeeInv, picked' = picked, unclean' = unclean, FeeStarts  PROVE FeeInv'
  <2>1. UNCHANGED atExchange /\ fPc = "start" /\ fPc' \in {"ended", "final", "trip"}
        /\ (picked = <<>> => fPc' # "trip")
    BY <1>4 DEF FeeStarts
  <2> QED  BY <2>1, <1>4, <1>1
<1>5. ASSUME FeeInv, picked' = picked, unclean' = unclean, BeginTrip  PROVE FeeInv'
  <2> DEFINE entry == Request(FeeMarket, "entry", 1, CountScale)
  <2>1. fPc = "trip" /\ picked # <<>>  BY <1>3, <1>5 DEF BeginTrip
  <2>2. \/ fPc' \in {"after", "final", "trip"} /\ UNCHANGED atExchange
        \/ Taken(entry, TRUE) /\ fPc' = "entry"
        \/ Raised(entry, TRUE) /\ fPc' = "final"
    BY <1>5 DEF BeginTrip
  <2> QED  BY <2>1, <2>2, <1>1, <1>5, FeeOrderTaken, FeeRequestRaised
<1>6. ASSUME FeeInv, picked' = picked, unclean' = unclean, EntryFilled \/ ExitFilled  PROVE FeeInv'
  <2>1. fPc \in {"entry", "wait"} /\ fPc' \in {"exit", "trip"} /\ Sleeps
    BY <1>6 DEF EntryFilled, ExitFilled
  <2> QED  BY <2>1, <1>2, <1>6
<1>7. ASSUME FeeInv, picked' = picked, unclean' = unclean, EntryTimesOut \/ ExitTimesOut  PROVE FeeInv'
  <2>1. /\ fPc \in {"entry", "wait"} /\ fPc' \in {"trip", "after", "final"}
        /\ (UNCHANGED atExchange /\ fPc' = "final") \/ (Cancels({own}) /\ Slept)
    BY <1>7 DEF EntryTimesOut, ExitTimesOut
  <2> QED  BY <2>1, <1>1, <1>2, <1>3, <1>7
<1>8. ASSUME FeeInv, picked' = picked, unclean' = unclean, SendExit  PROVE FeeInv'
  <2> DEFINE out == Request(FeeMarket, "exit", -1, CountScale)
  <2>1. fPc = "exit" /\ picked # <<>>  BY <1>3, <1>8 DEF SendExit
  <2>2. \/ fPc' \in {"final", "trip"} /\ UNCHANGED atExchange
        \/ Taken(out, TRUE) /\ fPc' = "wait"
        \/ Raised(out, TRUE) /\ fPc' = "final"
    BY <1>8 DEF SendExit
  <2> QED  BY <2>1, <2>2, <1>1, <1>8, FeeOrderTaken, FeeRequestRaised
<1>9. ASSUME FeeInv, UNCHANGED fee, unclean' = unclean, TakenLate  PROVE FeeInv'
  <2>1. PICK o \in late : Takes(o, 0) /\ Unlisted(o) /\ late' = late \ {o}  BY <1>9 DEF TakenLate
  <2>2. /\ Orderly /\ Whole(o) /\ o.ticker = FeeMarket /\ o.kind # "last" /\ late = {o}
        /\ fPc \in {"final", "ended"} /\ fresh = None /\ picked # <<>>
    BY <2>1, <1>9 DEF FeeInv
  <2>3. fPc' = fPc /\ picked' = picked /\ late' = {} /\ fresh' = sent + 1
    BY <2>1, <2>2, <1>9 DEF fee, Unlisted
  <2>4. /\ Orderly' /\ DOMAIN orders' = DOMAIN orders
        /\ \A i \in DOMAIN orders :
             /\ i = sent + 1 => orders'[i] = [ticker |-> o.ticker, kind |-> o.kind, dir |-> o.dir,
                                              left |-> o.left - 0]
             /\ i # sent + 1 => orders'[i] = orders[i]
    BY <2>1, <2>2, OneMoreOrder
  <2>5. FeeMarket' = FeeMarket  BY <2>3 DEF FeeMarket
  <2>6. ASSUME NEW i \in DOMAIN orders, AtRest(i)'
        PROVE  /\ orders'[i].ticker = FeeMarket
               /\ fPc = "ended" => orders'[i].ticker \in unclean' \/ i = fresh'
    <3>1. CASE i = sent + 1
      BY <3>1, <2>2, <2>3, <2>4
    <3>2. CASE i # sent + 1
      <4>1. AtRest(i) /\ orders'[i] = orders[i]  BY <3>2, <2>4, <2>6 DEF AtRest
      <4>2. i \in DOMAIN orders /\ i # None  BY <2>2, <2>4, <2>6 DEF Orderly
      <4>3. orders[i].ticker = FeeMarket  BY <4>1, <4>2, <1>9 DEF FeeInv
      <4>4. fPc = "ended" => orders[i].ticker \in unclean  BY <4>1, <4>2, <2>2, <1>9 DEF FeeInv
      <4> QED  BY <4>1, <4>3, <4>4, <1>9
    <3> QED  BY <3>1, <3>2
  <2> QED  BY <2>2, <2>3, <2>4, <2>5, <2>6 DEF FeeInv
<1>10. ASSUME FeeInv, UNCHANGED fee, unclean' = unclean, NEW i \in DOMAIN orders, Trades(i)  PROVE FeeInv'
  <2>1. /\ Orderly' /\ SameButFewer /\ late' = late /\ fresh' = fresh /\ fPc' = fPc /\ picked' = picked
    BY <1>10, FewerAfterTrade DEF FeeInv, Trades, fee
  <2>2. picked = <<>> => fPc' \in {"start", "final", "ended"}  BY <2>1, <1>10 DEF FeeInv
  <2>3. late # {} => fPc' \in {"final", "ended"}  BY <2>1, <1>10 DEF FeeInv
  <2>4. fPc' \in {"start", "trip", "exit"} => fresh' = None  BY <2>1, <1>10 DEF FeeInv
  <2>5. fPc' = "ended" => \A j \in DOMAIN orders : AtRest(j)' => orders[j].ticker \in unclean' \/ j = fresh'
    BY <2>1, <1>10 DEF FeeInv, SameButFewer 
  <2> QED  BY <1>10, <2>1, <2>2, <2>3, <2>4, <2>5, FeeSendsNothing
<1>11. ASSUME FeeInv, UNCHANGED <<fee, exchange>>  PROVE FeeInv'
  <2>1. UNCHANGED atExchange /\ unclean' = unclean /\ picked' = picked /\ fPc' = fPc  BY <1>11 DEF fee, exchange
  <2>2. picked = <<>> => fPc' \in {"start", "final", "ended"}  BY <2>1, <1>11 DEF FeeInv
  <2> QED  BY <1>1, <1>11, <2>1, <2>2
<1>12. ASSUME FeeInv, picked' = picked, unclean' = unclean, CompareFees  PROVE FeeInv'
  <2>1. fPc = "after" /\ fPc' = "final" /\ UNCHANGED atExchange  BY <1>12 DEF CompareFees, FeeRaises
  <2> QED  BY <2>1, <1>1, <1>3, <1>12
<1> QED
  BY <1>4, <1>5, <1>6, <1>7, <1>8, <1>9, <1>10, <1>11, <1>12, FeeCleans, Zenon DEF FeeStep

-----------------------------------------------------------------------------
(* queue_experiments: what rests is of a market still to be cleaned up, of  *)
(* a flatten of the cleanup, or not listed yet.  During the trials every    *)
(* create but that of the cleanup is sent when everything is listed, so     *)
(* that one that may still be taken is the only order a listing may miss.   *)
InTrials ==
  \/ qPc \in {"start", "trial", "create", "poll"}
  \/ qPc \in {"flatten", "cross", "check"} /\ ~Cleaning
Overdue == {o \in late : o.kind # "last"}

QueueInv ==
  /\ Orderly /\ \A o \in late : Whole(o)
  /\ qPc \in {"start", "ended"} => touched = {}
  /\ InTrials /\ qPc \notin {"start", "trial"} => trial.ticker \in touched
  /\ InTrials /\ qPc \notin {"poll", "check"} => fresh = None
  /\ Overdue # {} => ~InTrials /\ fresh = None
  /\ \A o, x \in Overdue : o = x
  /\ \A i \in DOMAIN orders : AtRest(i) =>
       \/ orders[i].kind = "last"
       \/ orders[i].ticker \in unclean \cup touched
       \/ ~InTrials /\ i = fresh

LEMMA QueueBegins == QueueInit /\ ExchangeInit => QueueInv
<1> SUFFICES ASSUME QueueInit, ExchangeInit  PROVE QueueInv
  OBVIOUS
<1>1. /\ qPc = "start" /\ touched = {} /\ orders = [i \in 1..MaxSent |-> NoOrder] /\ late = {}
      /\ fresh = None
  BY DEF QueueInit, ExchangeInit
<1>2. Whole(NoOrder) /\ ~(NoOrder.left > 0)  BY DEF Whole, NoOrder
<1>3. \A i \in DOMAIN orders : orders[i] = NoOrder  BY <1>1
<1>4. Orderly  BY <1>1, <1>2, <1>3, ProbesAssumption DEF Orderly, None
<1>5. \A i \in DOMAIN orders : ~AtRest(i)  BY <1>2, <1>3 DEF AtRest
<1>6. Overdue = {}  BY <1>1 DEF Overdue
<1> QED  BY <1>1, <1>4, <1>5, <1>6 DEF QueueInv

(* What a step that sends nothing has to keep.                              *)
LEMMA QueueSendsNothing ==
  ASSUME QueueInv, Orderly', SameButFewer, late' = late, unclean \subseteq unclean',
         \A i \in DOMAIN orders : AtRest(i)' /\ orders[i].ticker \in touched =>
            \/ orders[i].ticker \in touched' \cup unclean'
            \/ ~InTrials' /\ i = fresh',
         ~InTrials => ~InTrials' /\ fresh' = fresh,
         qPc' \in {"start", "ended"} => touched' = {},
         InTrials' /\ qPc' \notin {"start", "trial"} => trial'.ticker \in touched',
         InTrials' /\ qPc' \notin {"poll", "check"} => fresh' = None
  PROVE  QueueInv'
<1>1. Overdue' = Overdue /\ \A o \in late' : Whole(o)'  BY DEF Overdue, QueueInv, Whole
<1>2. ASSUME NEW i \in DOMAIN orders', AtRest(i)'
      PROVE  \/ orders'[i].kind = "last"
             \/ orders'[i].ticker \in unclean' \cup touched'
             \/ ~InTrials' /\ i = fresh'
  <2>1. /\ i \in DOMAIN orders /\ AtRest(i) /\ orders'[i].ticker = orders[i].ticker
        /\ orders'[i].kind = orders[i].kind
    BY <1>2 DEF SameButFewer
  <2>2. \/ orders[i].kind = "last"
        \/ orders[i].ticker \in unclean \cup touched
        \/ ~InTrials /\ i = fresh
    BY <2>1 DEF QueueInv
  <2> QED  BY <1>2, <2>1, <2>2
<1>3. (Overdue # {} => ~InTrials /\ fresh = None) /\ (\A o, x \in Overdue : o = x)  BY DEF QueueInv
<1> QED  BY <1>1, <1>2, <1>3 DEF QueueInv

(* An order is taken: a bid or the order of a flatten.                      *)
LEMMA QueueOrderTaken ==
  ASSUME QueueInv, NEW o, Whole(o), NEW now, Takes(o, now), Unlisted(o), late' \subseteq late,
         o.kind # "last" => InTrials \/ (o \in Overdue /\ late' = late \ {o}),
         o.kind # "last" => o.ticker \in unclean' \cup touched' \/ ~InTrials',
         unclean \subseteq unclean', touched \subseteq touched' \cup unclean', ~InTrials => ~InTrials',
         qPc' \in {"start", "ended"} => touched' = {},
         InTrials' => trial'.ticker \in touched' /\ qPc' \in {"poll", "check"}
  PROVE  QueueInv'
<1>1. Orderly /\ fresh' = (IF o.kind = "last" THEN fresh ELSE sent + 1)  BY DEF QueueInv, Unlisted
<1>2. /\ Orderly' /\ DOMAIN orders' = DOMAIN orders
      /\ \A i \in DOMAIN orders :
           /\ i = sent + 1 =>
                orders'[i] = [ticker |-> o.ticker, kind |-> o.kind, dir |-> o.dir, left |-> o.left - now]
           /\ i # sent + 1 => orders'[i] = orders[i]
  BY <1>1, OneMoreOrder
<1>3. (Overdue # {} => ~InTrials /\ fresh = None) /\ (\A x, z \in Overdue : x = z)  BY DEF QueueInv
<1>4. Overdue' \subseteq Overdue /\ (o.kind # "last" => Overdue' = {})
  <2>1. Overdue' \subseteq Overdue  BY DEF Overdue
  <2>2. ASSUME o.kind # "last", InTrials  PROVE Overdue' = {}
    BY <2>1, <2>2, <1>3
  <2>3. ASSUME o.kind # "last", o \in Overdue, late' = late \ {o}  PROVE Overdue' = {}
    <3>1. o \notin Overdue'  BY <2>3 DEF Overdue
    <3> QED  BY <3>1, <2>1, <2>3, <1>3
  <2> QED  BY <2>1, <2>2, <2>3
<1>5. Overdue' # {} => ~InTrials' /\ fresh' = None  BY <1>1, <1>3, <1>4
<1>6. \A x \in late' : Whole(x)'  BY DEF QueueInv, Whole
<1>7. ASSUME NEW i \in DOMAIN orders', AtRest(i)'
      PROVE  \/ orders'[i].kind = "last"
             \/ orders'[i].ticker \in unclean' \cup touched'
             \/ ~InTrials' /\ i = fresh'
  <2>1. CASE i = sent + 1
    <3>1. orders'[i].ticker = o.ticker /\ orders'[i].kind = o.kind  BY <2>1, <1>2
    <3> QED  BY <2>1, <3>1, <1>1
  <2>2. CASE i # sent + 1
    <3>1. orders'[i] = orders[i] /\ i \in DOMAIN orders  BY <2>2, <1>2
    <3>2. AtRest(i)  BY <3>1, <1>7 DEF AtRest
    <3>3. \/ orders[i].kind = "last"
          \/ orders[i].ticker \in unclean \cup touched
          \/ ~InTrials /\ i = fresh
      BY <3>1, <3>2 DEF QueueInv
    <3>4. ASSUME ~InTrials, i = fresh  PROVE ~InTrials' /\ i = fresh'
      <4>1. i # None  BY <3>1, <1>1 DEF Orderly
      <4>2. o.kind = "last"  BY <4>1, <3>4, <1>3
      <4> QED  BY <4>2, <3>4, <1>1
    <3> QED  BY <3>1, <3>3, <3>4
  <2> QED  BY <2>1, <2>2
<1>8. \A x, z \in Overdue' : x = z  BY <1>3, <1>4
<1> QED  BY <1>2, <1>5, <1>6, <1>7, <1>8 DEF QueueInv

(* A request that may be taken later.                                       *)
LEMMA QueueRequestLate ==
  ASSUME QueueInv, NEW o, Whole(o), late' = late \cup {o}, UNCHANGED <<pos, orders, sent, traded, fresh>>,
         o.kind # "last" => InTrials /\ fresh = None, ~InTrials',
         unclean \subseteq unclean', touched \subseteq touched' \cup unclean',
         qPc' \in {"start", "ended"} => touched' = {}
  PROVE  QueueInv'
<1>1. Orderly' /\ SameButFewer  BY StayingIsFewer DEF QueueInv
<1>2. (Overdue # {} => ~InTrials /\ fresh = None) /\ (\A x, z \in Overdue : x = z)  BY DEF QueueInv
<1>3. Overdue' = Overdue \/ (Overdue' = {o} /\ fresh = None)
  <2>1. CASE o.kind = "last"
    BY <2>1 DEF Overdue
  <2>2. CASE o.kind # "last"
    <3>1. Overdue = {}  BY <2>2, <1>2
    <3> QED  BY <3>1, <2>2 DEF Overdue
  <2> QED  BY <2>1, <2>2
<1>4. \A x \in late' : Whole(x)'  BY DEF QueueInv, Whole
<1>5. ASSUME NEW i \in DOMAIN orders', AtRest(i)'
      PROVE  \/ orders'[i].kind = "last"
             \/ orders'[i].ticker \in unclean' \cup touched'
             \/ ~InTrials' /\ i = fresh'
  <2>1. orders' = orders /\ fresh' = fresh /\ AtRest(i)  BY <1>5 DEF AtRest
  <2>2. \/ orders[i].kind = "last"
        \/ orders[i].ticker \in unclean \cup touched
        \/ ~InTrials /\ i = fresh
    BY <2>1, <1>5 DEF QueueInv
  <2> QED  BY <2>1, <2>2
<1> QED  BY <1>1, <1>2, <1>3, <1>4, <1>5 DEF QueueInv

(* Calls that leave the exchange as it is, and the sleeps.                  *)
LEMMA QueueCallsNothing ==
  ASSUME QueueInv, UNCHANGED atExchange, unclean \subseteq unclean', touched \subseteq touched' \cup unclean',
         ~InTrials => ~InTrials', qPc' \in {"start", "ended"} => touched' = {},
         InTrials' /\ qPc' \notin {"start", "trial"} => trial'.ticker \in touched',
         InTrials' /\ qPc' \notin {"poll", "check"} => fresh = None
  PROVE  QueueInv'
<1>1. orders' = orders /\ late' = late /\ fresh' = fresh  BY DEF atExchange
<1>2. Orderly' /\ SameButFewer  BY <1>1, StayingIsFewer DEF QueueInv
<1> QED  BY <1>1, <1>2, QueueSendsNothing

LEMMA QueueSleeps ==
  ASSUME QueueInv, InTrials, Sleeps \/ (Slept /\ \E is : Cancels(is)), unclean' = unclean, touched' = touched,
         qPc' \notin {"start", "ended"},
         InTrials' /\ qPc' \notin {"start", "trial"} => trial'.ticker \in touched'
  PROVE  QueueInv'
<1>1. Orderly' /\ SameButFewer /\ late' = late /\ fresh' = None
  <2>1. CASE Sleeps
    BY <2>1, StayingIsFewer DEF Sleeps, Slept, QueueInv
  <2>2. CASE Slept /\ \E is : Cancels(is)
    <3>1. PICK is : Cancels(is)  BY <2>2
    <3>2. late' = late  BY <3>1 DEF Cancels
    <3> QED  BY <2>2, <3>1, <3>2, FewerAfterCancel DEF Slept, QueueInv
  <2> QED  BY <2>1, <2>2
<1> QED  BY <1>1, QueueSendsNothing

LEMMA SendBidKeepsQueue == QueueInv /\ SendBid => QueueInv'
<1> SUFFICES ASSUME QueueInv, SendBid  PROVE QueueInv'
  OBVIOUS
<1> DEFINE bid == Request(trial.ticker, "entry", 1, CountScale)
           rests == trial.mode # "cross"
<1>1. /\ qPc = "create" /\ touched' = touched /\ unclean' = unclean
      /\ \/ Taken(bid, rests) /\ qPc' = "poll" /\ trial' = trial
         \/ UNCHANGED atExchange /\ qPc' = "trial"
         \/ Raised(bid, rests) /\ qPc' = "clean"
  BY DEF SendBid
<1>2. Whole(bid) /\ bid.ticker = trial.ticker /\ bid.kind = "entry"
  BY RequestIsWhole
<1>3. InTrials /\ trial.ticker \in touched /\ fresh = None  BY <1>1 DEF QueueInv, InTrials
<1> HIDE DEF bid, rests
<1>4. ASSUME Taken(bid, rests), qPc' = "clean" \/ (qPc' = "poll" /\ trial' = trial)  PROVE QueueInv'
  <2>1. PICK now : Takes(bid, now)  BY Zenon, <1>4 DEF Taken
  <2>2. Unlisted(bid) /\ late' = late  BY <1>4 DEF Taken
  <2>3. InTrials' => trial'.ticker \in touched' /\ qPc' \in {"poll", "check"}
    BY <1>1, <1>3, <1>4 DEF InTrials
  <2> QED  BY <2>1, <2>2, <2>3, <1>1, <1>2, <1>3, <1>4, QueueOrderTaken
<1>5. CASE UNCHANGED atExchange /\ qPc' \in {"trial", "clean"}
  BY <1>1, <1>3, <1>5, QueueCallsNothing DEF InTrials
<1>6. CASE late' = late \cup {bid} /\ UNCHANGED <<pos, orders, sent, traded, fresh>> /\ qPc' = "clean"
  <2>1. ~InTrials'  BY <1>6 DEF InTrials
  <2> QED  BY <2>1, <1>1, <1>2, <1>3, <1>6, QueueRequestLate
<1> QED  BY <1>1, <1>4, <1>5, <1>6 DEF Raised

LEMMA FlatteningIsWhole ==
  Whole(Flattening) /\ Flattening.ticker = trial.ticker /\ (Flattening.kind = "last" <=> Cleaning)
<1> DEFINE d == IF want > 0 THEN -1 ELSE 1
           k == IF Cleaning THEN "last" ELSE "flat"
<1>1. d \in {-1, 1} /\ (k = "last" <=> Cleaning)  OBVIOUS
<1>2. Flattening = Request(trial.ticker, k, d, Held)  BY DEF Flattening
<1> HIDE DEF d, k
<1> QED  BY <1>1, <1>2, RequestIsWhole

(* Flatten belongs to the trials, or it is the cleanup's.                   *)
LEMMA CrossKeepsQueue == QueueInv /\ (Cross \/ CrossRaises) => QueueInv'
<1> SUFFICES ASSUME QueueInv, Cross \/ CrossRaises  PROVE QueueInv'
  OBVIOUS
<1> DEFINE out == Flattening
<1>1. qPc = "cross"  BY DEF Cross, CrossRaises
<1>2. Whole(out) /\ out.ticker = trial.ticker /\ (out.kind = "last" <=> Cleaning)  BY FlatteningIsWhole
<1>3. /\ InTrials <=> ~Cleaning
      /\ InTrials => trial.ticker \in touched /\ fresh = None
  BY <1>1 DEF InTrials, QueueInv
<1> HIDE DEF out
<1>4. CASE Cross
  <2>1. /\ trial' = trial /\ touched' = touched /\ unclean' = unclean
        /\ \/ qPc' = (IF Cleaning THEN "clean" ELSE "trial") /\ UNCHANGED atExchange
           \/ Taken(out, FALSE) /\ qPc' = "check"
           \/ UNCHANGED atExchange /\ qPc' = "check"
    BY <1>4 DEF Cross, out
  <2>2. Cleaning' <=> Cleaning  BY <2>1 DEF Cleaning
  <2>3. InTrials' <=> InTrials  BY <2>1, <2>2, <1>3 DEF InTrials
  <2>4. CASE UNCHANGED atExchange
    <3>1. qPc' \in {"clean", "trial", "check"}  BY <2>1
    <3> QED  BY <2>1, <2>3, <2>4, <3>1, <1>3, QueueCallsNothing
  <2>5. CASE Taken(out, FALSE) /\ qPc' = "check"
    <3>1. PICK now : Takes(out, now)  BY Zenon, <2>5 DEF Taken
    <3>2. Unlisted(out) /\ late' = late  BY <2>5 DEF Taken
    <3> QED  BY <3>1, <3>2, <2>1, <2>3, <2>5, <1>2, <1>3, QueueOrderTaken
  <2> QED  BY <2>1, <2>4, <2>5
<1>5. CASE CrossRaises
  <2>1. /\ Raised(out, FALSE) /\ unclean \subseteq unclean' /\ touched \subseteq touched' \cup unclean'
        /\ qPc' = "clean" \/ (qPc' = "ended" /\ touched' = {})
    BY <1>5 DEF CrossRaises, ToCleanup, Interrupted, out
  <2>2. ~InTrials' /\ (qPc' \in {"start", "ended"} => touched' = {})  BY <2>1 DEF InTrials
  <2>3. CASE Taken(out, FALSE)
    <3>1. PICK now : Takes(out, now)  BY Zenon, <2>3 DEF Taken
    <3>2. Unlisted(out) /\ late' = late  BY <2>3 DEF Taken
    <3> QED  BY <3>1, <3>2, <2>1, <2>2, <1>2, <1>3, QueueOrderTaken
  <2>4. CASE late' = late \cup {out} /\ UNCHANGED <<pos, orders, sent, traded, fresh>>
    BY <2>1, <2>2, <2>4, <1>2, <1>3, QueueRequestLate
  <2>5. CASE UNCHANGED atExchange
    BY <2>1, <2>2, <2>5, QueueCallsNothing
  <2> QED  BY <2>1, <2>3, <2>4, <2>5 DEF Raised
<1> QED  BY <1>4, <1>5

LEMMA CleaningKeepsQueue == QueueInv /\ CleanMarket => QueueInv'
<1> SUFFICES ASSUME QueueInv, CleanMarket  PROVE QueueInv'
  OBVIOUS
<1>1. qPc = "clean" /\ ~InTrials  BY DEF CleanMarket, InTrials
<1>2. CASE touched = {} /\ qPc' = "ended" /\ UNCHANGED <<trial, touched, exchange>>
  <2>1. UNCHANGED atExchange /\ unclean' = unclean /\ touched' = {} /\ ~InTrials'
    BY <1>2 DEF exchange, InTrials
  <2> QED  BY <2>1, <1>2, QueueCallsNothing
<1>3. ASSUME NEW t \in touched, fresh' = fresh, NEW is, Cancels(is), unclean \subseteq unclean', ~InTrials',
             qPc' \in {"start", "ended"} => touched' = {},
             touched \ {t} \subseteq touched' \cup unclean',
             t \in unclean' \/ RestingAt(t) \ {fresh} \subseteq is
      PROVE  QueueInv'
  <2>1. Orderly' /\ SameButFewer /\ \A i \in DOMAIN orders : i \in is => ~AtRest(i)'
    BY <1>3, FewerAfterCancel DEF QueueInv
  <2>2. late' = late  BY <1>3 DEF Cancels
  <2>3. ASSUME NEW i \in DOMAIN orders, AtRest(i)', orders[i].ticker \in touched
        PROVE  orders[i].ticker \in touched' \cup unclean' \/ i = fresh'
    <3>1. CASE orders[i].ticker # t
      BY <3>1, <2>3, <1>3
    <3>2. CASE orders[i].ticker = t
      <4>1. AtRest(i) /\ i \notin is  BY <2>1, <2>3 DEF SameButFewer
      <4>2. i \in RestingAt(t)  BY <4>1, <3>2 DEF RestingAt, AtRest
      <4> QED  BY <4>1, <4>2, <3>2, <1>3
    <3> QED  BY <3>1, <3>2
  <2> QED  BY <2>1, <2>2, <2>3, <1>1, <1>3, QueueSendsNothing
<1>4. CASE \E t \in touched :
             /\ UNCHANGED fresh
             /\ \/ /\ \E seen \in Listable(RestingAt(t)) : Cancels(seen)
                   /\ touched' = touched \ {t} /\ UNCHANGED unclean
                   /\ trial' = At("clean", t) /\ qPc' = "flatten"
                \/ /\ \E some \in SUBSET RestingAt(t) : Cancels(some)
                   /\ trial' = NoTrial
                   /\ \/ qPc' = "clean" /\ touched' = touched \ {t} /\ unclean' = unclean \cup {t}
                      \/ qPc' = "ended" /\ touched' = {} /\ unclean' = unclean \cup touched
  <2>1. PICK t \in touched :
             /\ UNCHANGED fresh
             /\ \/ /\ \E seen \in Listable(RestingAt(t)) : Cancels(seen)
                   /\ touched' = touched \ {t} /\ UNCHANGED unclean
                   /\ trial' = At("clean", t) /\ qPc' = "flatten"
                \/ /\ \E some \in SUBSET RestingAt(t) : Cancels(some)
                   /\ trial' = NoTrial
                   /\ \/ qPc' = "clean" /\ touched' = touched \ {t} /\ unclean' = unclean \cup {t}
                      \/ qPc' = "ended" /\ touched' = {} /\ unclean' = unclean \cup touched
    BY <1>4
  <2>2. CASE /\ \E seen \in Listable(RestingAt(t)) : Cancels(seen)
             /\ touched' = touched \ {t} /\ UNCHANGED unclean
             /\ trial' = At("clean", t) /\ qPc' = "flatten"
    <3>1. PICK seen \in Listable(RestingAt(t)) : Cancels(seen)  BY <2>2
    <3>2. RestingAt(t) \ {fresh} \subseteq seen  BY <3>1 DEF Listable
    <3>3. ~InTrials'  BY <2>2 DEF InTrials, Cleaning, At
    <3> QED  BY <3>1, <3>2, <3>3, <2>1, <2>2, <1>3
  <2>3. CASE /\ \E some \in SUBSET RestingAt(t) : Cancels(some)
             /\ \/ qPc' = "clean" /\ touched' = touched \ {t} /\ unclean' = unclean \cup {t}
                \/ qPc' = "ended" /\ touched' = {} /\ unclean' = unclean \cup touched
    <3>1. PICK some : Cancels(some)  BY <2>3
    <3>2. ~InTrials'  BY <2>3 DEF InTrials
    <3> QED  BY <3>1, <3>2, <2>1, <2>3, <1>3
  <2> QED  BY <2>1, <2>2, <2>3
<1> QED  BY <1>2, <1>4 DEF CleanMarket

LEMMA OwnTradeKeepsQueue ==
  ASSUME QueueInv, UNCHANGED queue, unclean' = unclean, NEW i \in DOMAIN orders, Trades(i)
  PROVE  QueueInv'
<1>1. UNCHANGED <<qPc, trial, touched>>  BY DEF queue
<1>2. Orderly' /\ SameButFewer /\ late' = late /\ fresh' = fresh  BY FewerAfterTrade DEF QueueInv, Trades
<1>3. InTrials' <=> InTrials  BY <1>1 DEF InTrials, Cleaning
<1>4. /\ qPc' \in {"start", "ended"} => touched' = {}
      /\ InTrials' /\ qPc' \notin {"start", "trial"} => trial'.ticker \in touched'
      /\ InTrials' /\ qPc' \notin {"poll", "check"} => fresh' = None
  BY <1>1, <1>2, <1>3 DEF QueueInv
<1> QED  BY <1>1, <1>2, <1>3, <1>4, QueueSendsNothing

LEMMA LateKeepsQueue == QueueInv /\ UNCHANGED <<queue, unclean>> /\ TakenLate => QueueInv'
<1> SUFFICES ASSUME QueueInv, UNCHANGED <<queue, unclean>>, TakenLate  PROVE QueueInv'
  OBVIOUS
<1>1. UNCHANGED <<qPc, trial, touched>>  BY DEF queue
<1>2. PICK o \in late : Takes(o, 0) /\ Unlisted(o) /\ late' = late \ {o}  BY DEF TakenLate
<1>3. Whole(o)  BY DEF QueueInv
<1>4. InTrials' <=> InTrials  BY <1>1 DEF InTrials, Cleaning
<1>5. CASE o.kind # "last"
  <2>1. o \in Overdue  BY <1>5 DEF Overdue
  <2>2. ~InTrials  BY <2>1 DEF QueueInv
  <2>3. qPc' \in {"start", "ended"} => touched' = {}  BY <1>1 DEF QueueInv
  <2> QED  BY <2>1, <2>2, <2>3, <1>1, <1>2, <1>3, <1>4, QueueOrderTaken
<1>6. CASE o.kind = "last"
  <2>1. Orderly /\ fresh' = fresh  BY <1>2, <1>6 DEF QueueInv, Unlisted
  <2>2. /\ Orderly' /\ DOMAIN orders' = DOMAIN orders
        /\ \A i \in DOMAIN orders :
             /\ i = sent + 1 =>
                  orders'[i] = [ticker |-> o.ticker, kind |-> o.kind, dir |-> o.dir, left |-> o.left - 0]
             /\ i # sent + 1 => orders'[i] = orders[i]
    BY <2>1, <1>2, <1>3, OneMoreOrder
  <2>3. \A x \in late' : Whole(x)'  BY <1>2 DEF QueueInv, Whole
  <2>4. Overdue' = Overdue  BY <1>2, <1>6 DEF Overdue
  <2>5. ASSUME NEW i \in DOMAIN orders', AtRest(i)'
        PROVE  \/ orders'[i].kind = "last"
               \/ orders'[i].ticker \in unclean' \cup touched'
               \/ ~InTrials' /\ i = fresh'
    <3>1. CASE i = sent + 1
      BY <3>1, <2>2, <1>6
    <3>2. CASE i # sent + 1
      <4>1. orders'[i] = orders[i] /\ AtRest(i) /\ i \in DOMAIN orders  BY <3>2, <2>2, <2>5 DEF AtRest
      <4> QED  BY <4>1, <2>1, <1>1, <1>4 DEF QueueInv
    <3> QED  BY <3>1, <3>2
  <2> QED  BY <2>1, <2>2, <2>3, <2>4, <2>5, <1>1, <1>4 DEF QueueInv
<1> QED  BY <1>5, <1>6

LEMMA QueueGoesOn == QueueInv /\ (QueueStep \/ UNCHANGED <<queue, exchange>>) => QueueInv'
<1>1. ASSUME QueueInv, QueueStarts  PROVE QueueInv'
  <2>1. /\ qPc = "start" /\ qPc' \in {"ended", "trial"} /\ UNCHANGED atExchange /\ unclean' = unclean
        /\ touched' = touched
    BY <1>1 DEF QueueStarts
  <2>2. touched = {} /\ fresh = None /\ InTrials  BY <2>1, <1>1 DEF QueueInv, InTrials
  <2>3. InTrials' => qPc' = "trial"  BY <2>1 DEF InTrials
  <2> QED  BY <2>1, <2>2, <2>3, <1>1, QueueCallsNothing
<1>2. ASSUME QueueInv, QueueRaises  PROVE QueueInv'
  <2>1. /\ UNCHANGED atExchange /\ unclean \subseteq unclean' /\ touched \subseteq touched' \cup unclean'
        /\ qPc' = "clean" \/ (qPc' = "ended" /\ touched' = {})
    BY <1>2 DEF QueueRaises, ToCleanup, Interrupted
  <2>2. ~InTrials'  BY <2>1 DEF InTrials
  <2> QED  BY <2>1, <2>2, <1>2, QueueCallsNothing
<1>3. ASSUME QueueInv, BeginTrial  PROVE QueueInv'
  <2>1. /\ qPc = "trial" /\ UNCHANGED atExchange /\ unclean' = unclean /\ touched \subseteq touched'
        /\ \/ qPc' = "clean"
           \/ qPc' \in {"create", "trial"} /\ trial'.ticker \in touched'
    BY <1>3 DEF BeginTrial, ToCleanup
  <2>2. InTrials /\ fresh = None  BY <2>1, <1>3 DEF QueueInv, InTrials
  <2>3. InTrials' => trial'.ticker \in touched'  BY <2>1 DEF InTrials
  <2> QED  BY <2>1, <2>2, <2>3, <1>3, QueueCallsNothing
<1>4. ASSUME QueueInv, BidFilled \/ BidTimesOut  PROVE QueueInv'
  <2>1. /\ qPc = "poll" /\ qPc' = "flatten" /\ unclean' = unclean /\ touched' = touched /\ trial' = trial
        /\ Sleeps \/ (Cancels({awaited}) /\ Slept)
    BY <1>4 DEF BidFilled, BidTimesOut
  <2>2. InTrials /\ trial.ticker \in touched  BY <2>1, <1>4 DEF QueueInv, InTrials
  <2> QED  BY <2>1, <2>2, <1>4, QueueSleeps
<1>5. ASSUME QueueInv, ReadHeld  PROVE QueueInv'
  <2>1. /\ qPc = "flatten" /\ UNCHANGED atExchange /\ unclean' = unclean /\ touched' = touched /\ trial' = trial
        /\ qPc' = "cross" \/ (Cleaning /\ qPc' = "clean") \/ (~Cleaning /\ qPc' = "trial")
    BY <1>5 DEF ReadHeld
  <2>2. /\ InTrials <=> ~Cleaning
        /\ InTrials' <=> InTrials
        /\ InTrials => trial.ticker \in touched /\ fresh = None
    BY <2>1, <1>5 DEF QueueInv, InTrials, Cleaning
  <2> QED  BY <2>1, <2>2, <1>5, QueueCallsNothing
<1>6. ASSUME QueueInv, CheckHeld  PROVE QueueInv'
  <2>1. /\ qPc = "check" /\ unclean' = unclean /\ touched' = touched /\ trial' = trial
        /\ IF Cleaning THEN qPc' = "clean" /\ UNCHANGED atExchange ELSE qPc' = "trial" /\ Sleeps
    BY <1>6 DEF CheckHeld
  <2>2. CASE Cleaning
    <3>1. ~InTrials'  BY <2>1, <2>2 DEF InTrials
    <3> QED  BY <2>1, <2>2, <3>1, <1>6, QueueCallsNothing
  <2>3. CASE ~Cleaning
    <3>1. InTrials  BY <2>1, <2>3 DEF InTrials
    <3> QED  BY <2>1, <2>3, <3>1, <1>6, QueueSleeps
  <2> QED  BY <2>2, <2>3
<1>7. ASSUME QueueInv, UNCHANGED <<queue, exchange>>  PROVE QueueInv'
  <2>1. UNCHANGED <<qPc, trial, touched, unclean>> /\ UNCHANGED atExchange  BY <1>7 DEF queue, exchange
  <2>2. /\ qPc' \in {"start", "ended"} => touched' = {}
        /\ InTrials' <=> InTrials
        /\ InTrials' /\ qPc' \notin {"start", "trial"} => trial'.ticker \in touched'
        /\ InTrials' /\ qPc' \notin {"poll", "check"} => fresh = None
    BY <2>1, <1>7 DEF QueueInv, InTrials, Cleaning
  <2> QED  BY <2>1, <2>2, <1>7, QueueCallsNothing
<1>8. ASSUME QueueInv, UNCHANGED <<queue, unclean>>, \E i \in DOMAIN orders : Trades(i)  PROVE QueueInv'
  <2>1. PICK i \in DOMAIN orders : Trades(i)  BY <1>8
  <2> QED  BY <2>1, <1>8, OwnTradeKeepsQueue
<1> QED
  BY <1>1, <1>2, <1>3, <1>4, <1>5, <1>6, <1>7, <1>8, SendBidKeepsQueue, CrossKeepsQueue,
     CleaningKeepsQueue, LateKeepsQueue, Zenon
  DEF QueueStep

(* When a probe is over, whatever of it rests at the exchange, wherever it  *)
(* failed or was interrupted, is of a market its cleanup did not get to or  *)
(* failed in, is the one order that was sent so shortly before that the     *)
(* listing may have missed it, or was left by the last flatten of a market  *)
(* (calibrate_fees.py:364, queue_experiments.py:329, :572).                 *)
THEOREM ProbesLeaveNothing == Spec => []NothingRests
<1> DEFINE Inv ==
             /\ started = "fees" => FeeInv
             /\ started # "fees" => fPc = "start"
             /\ started = "queue" => QueueInv
             /\ started # "queue" => qPc = "start"
<1>1. Init => Inv
  BY FeeBegins, QueueBegins DEF Init, FeeInit, QueueInit
<1>2. Inv /\ [Next]_vars => Inv'
  <2> SUFFICES ASSUME Inv, [Next]_vars  PROVE Inv'
    OBVIOUS
  <2>1. /\ started' = started
        /\ started = "fees" => FeeStep \/ UNCHANGED <<fee, exchange>>
        /\ started # "fees" => UNCHANGED fee
        /\ started = "queue" => QueueStep \/ UNCHANGED <<queue, exchange>>
        /\ started # "queue" => UNCHANGED queue
    <3>1. CASE UNCHANGED vars
      BY <3>1 DEF vars
    <3>2. CASE Next
      BY <3>2 DEF Next, Still
    <3> QED  BY <3>1, <3>2
  <2>2. started = "fees" => FeeInv'  BY <2>1, FeeGoesOn
  <2>3. started = "queue" => QueueInv'  BY <2>1, QueueGoesOn
  <2>4. (started # "fees" => fPc' = "start") /\ (started # "queue" => qPc' = "start")
    BY <2>1 DEF fee, queue
  <2> QED  BY <2>1, <2>2, <2>3, <2>4
<1>3. Inv => NothingRests
  <2> SUFFICES ASSUME Inv, NEW i \in DOMAIN orders, orders[i].left > 0, orders[i].ticker \notin unclean, i # fresh
               PROVE  fPc # "ended" /\ (qPc = "ended" => orders[i].kind = "last")
    BY DEF NothingRests
  <2>1. fPc # "ended"  BY DEF FeeInv, AtRest
  <2>2. qPc = "ended" => orders[i].kind = "last"  BY DEF QueueInv, AtRest
  <2> QED  BY <2>1, <2>2
<1> QED  BY <1>1, <1>2, <1>3, PTL DEF Spec

-----------------------------------------------------------------------------
(* The taker test: where a signal is.                                       *)
Journalled == Shown(tRows)
Waiting == Shown(pending)
Followed == {s.signal : s \in shadows}

FeedTypes ==
  /\ fired \in Nat /\ foundBy \in Nat /\ foundBy <= fired /\ time \in Nat /\ overAt \in Nat
  /\ tRows \in Seq(Nat) /\ Journalled \subseteq 1..fired /\ pending \in {<<>>} \cup {<<k>> : k \in 1..fired}
  /\ inTrade \in SUBSET (1..fired)
  /\ shadows \in SUBSET [signal : 1..fired, began : 0..time]

(* A signal is in one place.                                                *)
OncePlaced ==
  /\ Distinct(tRows) /\ \A s, z \in shadows : s.signal = z.signal => s = z
  /\ Journalled \cap (Waiting \cup inTrade \cup Followed) = {}
  /\ Waiting \cap (inTrade \cup Followed) = {} /\ inTrade \cap Followed = {}

NoneMissing ==
  tfPc # "raised" =>
    \A k \in 1..fired :
      k \in Journalled \cup Waiting \cup inTrade \cup Followed \/ (tfPc = "ended" /\ k > foundBy)

(* Who follows a signal that was found before the loop ended is waited for, *)
(* and is done when the waiting is over.                                    *)
Awaited(s) == s \in awaitedTasks /\ s.began <= overAt
LoopHolds ==
  /\ tfPc \in {"top", "get"} => inTrade = {}
  /\ tfPc = "trade" => \E k \in 1..fired : inTrade = {k}
  /\ \A s \in shadows : time <= s.began + Span
  /\ tfPc = "over" => \A s \in shadows : Awaited(s) \/ s.signal > foundBy
  /\ tfPc = "ended" => \A s \in shadows : s.signal > foundBy

SignalsInv == FeedTypes /\ OncePlaced /\ NoneMissing /\ LoopHolds

LEMMA ShownOfFew == Shown(<<>>) = {} /\ \A k : Shown(<<k>>) = {k}
<1>1. Len(<<>>) = 0 /\ 1..0 = {}  OBVIOUS
<1>2. ASSUME NEW k  PROVE Shown(<<k>>) = {k}
  <2>1. Len(<<k>>) = 1 /\ 1..1 = {1} /\ <<k>>[1] = k  OBVIOUS
  <2> QED  BY <2>1 DEF Shown
<1> QED  BY <1>1, <1>2 DEF Shown

LEMMA SignalsBegin == TakerFeedInit => SignalsInv
<1> SUFFICES ASSUME TakerFeedInit  PROVE SignalsInv
  OBVIOUS
<1>1. fired = 0 /\ foundBy = 0 /\ time = 0 /\ overAt = 0 /\ tRows = <<>> /\ pending = <<>> /\ inTrade = {}
      /\ shadows = {} /\ tfPc = "top"
  BY DEF TakerFeedInit
<1>2. 1..0 = {} /\ Len(<<>>) = 0 /\ <<>> \in Seq(Nat)  OBVIOUS
<1>3. Journalled = {} /\ Waiting = {} /\ Followed = {}
  BY <1>1, ShownOfFew DEF Journalled, Waiting, Followed
<1>4. FeedTypes  BY <1>1, <1>2, <1>3 DEF FeedTypes
<1>5. OncePlaced  BY <1>1, <1>2, <1>3 DEF OncePlaced, Distinct
<1>6. NoneMissing  BY <1>1, <1>2 DEF NoneMissing
<1>7. LoopHolds  BY <1>1 DEF LoopHolds
<1> QED  BY <1>4, <1>5, <1>6, <1>7 DEF SignalsInv

LEMMA SingletonListed == \A k : SetToSeq({k}) = <<k>>
<1> TAKE k
<1>1. Cardinality({k}) = 1  BY FS_Singleton
<1>2. <<k>> \in [1..1 -> {k}] /\ IsInjective(<<k>>)
  <2>1. <<k>> = [i \in 1..1 |-> k]  OBVIOUS
  <2>2. 1..1 = {1}  OBVIOUS
  <2> QED  BY <2>1, <2>2 DEF IsInjective
<1>3. \A f \in [1..1 -> {k}] : f = <<k>>
  <2>1. 1..1 = {1}  OBVIOUS
  <2>2. <<k>> = [i \in 1..1 |-> k]  OBVIOUS
  <2> QED  BY <2>1, <2>2
<1>4. SetToSeq({k}) = CHOOSE f \in [1..1 -> {k}] : IsInjective(f)  BY <1>1 DEF SetToSeq
<1> QED  BY <1>2, <1>3, <1>4

(* A signal is journalled.                                                  *)
LEMMA OneRowMore ==
  ASSUME NEW q \in Seq(Nat), NEW k \in Nat, Distinct(q), k \notin Shown(q)
  PROVE  Append(q, k) \in Seq(Nat) /\ Shown(Append(q, k)) = Shown(q) \cup {k} /\ Distinct(Append(q, k))
<1> DEFINE p == Append(q, k)
<1>1. /\ p \in Seq(Nat) /\ Len(p) = Len(q) + 1 /\ Len(q) \in Nat
      /\ \A i \in 1..Len(q) : p[i] = q[i]
      /\ p[Len(q) + 1] = k
  BY AppendProperties
<1> HIDE DEF p
<1>2. \A i \in 1..Len(p) : i \in 1..Len(q) \/ i = Len(q) + 1  BY <1>1
<1>3. 1..Len(q) \subseteq 1..Len(p) /\ Len(q) + 1 \in 1..Len(p)  BY <1>1
<1>4. (\A i \in 1..Len(q) : q[i] # k) /\ \A i, j \in 1..Len(q) : q[i] = q[j] => i = j
  BY DEF Distinct, Shown
<1>5. Distinct(p)  BY <1>1, <1>2, <1>4 DEF Distinct
<1>6. Shown(p) = Shown(q) \cup {k}  BY <1>1, <1>2, <1>3 DEF Shown
<1> QED  BY <1>1, <1>5, <1>6 DEF p

LEMMA SignalsStay ==
  ASSUME SignalsInv, UNCHANGED <<fired, foundBy, overAt, tRows, pending, inTrade, shadows, tfPc, awaitedTasks, time>>
  PROVE  SignalsInv'
<1>1. Journalled' = Journalled /\ Waiting' = Waiting /\ Followed' = Followed
  BY DEF Journalled, Waiting, Followed
<1> QED  BY <1>1 DEF SignalsInv, FeedTypes, OncePlaced, NoneMissing, LoopHolds, Awaited

(* The set of the followed, with one more and with one less.                *)
LEMMA AnotherFollowed ==
  ASSUME SignalsInv, NEW k \in Nat, k \notin Followed,
         shadows' = shadows \cup {[signal |-> k, began |-> time]}
  PROVE  /\ Followed' = Followed \cup {k}
         /\ \A s, z \in shadows' : s.signal = z.signal => s = z
<1> DEFINE n == [signal |-> k, began |-> time]
<1>1. n.signal = k  OBVIOUS
<1> HIDE DEF n
<1>2. shadows' = shadows \cup {n}  BY DEF n
<1>3. \A s \in shadows : s.signal # k  BY DEF Followed
<1>4. \A s, z \in shadows : s.signal = z.signal => s = z  BY DEF SignalsInv, OncePlaced
<1> QED  BY <1>1, <1>2, <1>3, <1>4 DEF Followed

LEMMA UpdateKeepsSignals ==
  ASSUME SignalsInv, NEW t \in Series, Update(t)
  PROVE  SignalsInv'
<1>1. UNCHANGED <<time, tRows, foundBy, overAt, inTrade, tfPc, awaitedTasks>>
  BY DEF Update, takerLoop
<1>2. CASE UNCHANGED <<fired, pending, shadows>>
  BY <1>1, <1>2, SignalsStay
<1>3. CASE fired' = fired + 1 /\ Found(fired')
  <2> DEFINE k == fired + 1
             n == [signal |-> k, began |-> time]
  <2>1. FeedTypes /\ OncePlaced /\ NoneMissing /\ LoopHolds  BY DEF SignalsInv
  <2>2. /\ k \in Nat /\ k \in 1..k /\ 1..fired \subseteq 1..k /\ k \notin 1..fired /\ k > foundBy
        /\ \A x \in 1..k : x \in 1..fired \/ x = k
    BY <2>1 DEF FeedTypes
  <2>3. Followed \subseteq 1..fired /\ Waiting \subseteq 1..fired /\ Journalled \subseteq 1..fired
        /\ inTrade \subseteq 1..fired
    BY <2>1, ShownOfFew DEF FeedTypes, Followed, Waiting
  <2>4. k \notin Followed \cup Waiting \cup Journalled \cup inTrade  BY <2>2, <2>3
  <2>5. Journalled' = Journalled /\ inTrade' = inTrade /\ time' = time /\ tRows' = tRows
    BY <1>1 DEF Journalled
  <2>6. CASE pending = <<>> /\ pending' = <<k>> /\ shadows' = shadows
    <3>1. Waiting = {} /\ Waiting' = {k} /\ Followed' = Followed
      BY <2>6, ShownOfFew DEF Waiting, Followed
    <3> HIDE DEF k
    <3>2. FeedTypes'  BY <1>1, <1>3, <2>1, <2>2, <2>3, <2>5, <2>6, <3>1 DEF FeedTypes, k
    <3>3. OncePlaced'  BY <1>1, <2>1, <2>4, <2>5, <2>6, <3>1 DEF OncePlaced
    <3>4. NoneMissing'  BY <1>1, <1>3, <2>1, <2>2, <2>5, <3>1 DEF NoneMissing, k
    <3>5. LoopHolds'  BY <1>1, <1>3, <2>1, <2>2, <2>5, <2>6 DEF LoopHolds, Awaited, k
    <3> QED  BY <3>2, <3>3, <3>4, <3>5 DEF SignalsInv
  <2>7. CASE shadows' = shadows \cup {n} /\ pending' = pending
    <3>1. Followed' = Followed \cup {k} /\ \A s, z \in shadows' : s.signal = z.signal => s = z
      BY <2>2, <2>4, <2>7, AnotherFollowed
    <3>2. Waiting' = Waiting  BY <2>7 DEF Waiting
    <3>3. n.signal = k /\ n.began = time /\ n \in [signal : 1..k, began : 0..time]
          /\ time \in Nat /\ time <= time + Span
      BY <2>1, <2>2, TakerFeedAssumption DEF FeedTypes
    <3>4. \A s \in shadows : s \in [signal : 1..k, began : 0..time]
      BY <2>1, <2>2 DEF FeedTypes
    <3> HIDE DEF n
    <3>5. \A s \in shadows' : s \in shadows \/ s = n  BY <2>7
    <3>6. fired' = k  BY <1>3
    <3> HIDE DEF k
    <3>7. FeedTypes'
      BY <1>1, <2>1, <2>2, <2>3, <2>5, <2>7, <3>3, <3>4, <3>5, <3>6 DEF FeedTypes
    <3>8. OncePlaced'  BY <1>1, <2>1, <2>4, <2>5, <3>1, <3>2 DEF OncePlaced
    <3>9. NoneMissing'  BY <1>1, <2>1, <2>2, <2>5, <3>1, <3>2, <3>6 DEF NoneMissing
    <3>10. LoopHolds'  BY <1>1, <2>1, <2>2, <2>5, <3>3, <3>5, <3>6 DEF LoopHolds, Awaited
    <3> QED  BY <3>7, <3>8, <3>9, <3>10 DEF SignalsInv
  <2> QED  BY <1>3, <2>6, <2>7 DEF Found
<1> QED  BY <1>2, <1>3 DEF Update

(* The signal that waits is taken: to be followed, to be traded, or as the  *)
(* last one.                                                                *)
LEMMA TakeKeepsSignals == SignalsInv /\ Take => SignalsInv'
<1> SUFFICES ASSUME SignalsInv, Take  PROVE SignalsInv'
  OBVIOUS
<1>1. FeedTypes /\ OncePlaced /\ NoneMissing /\ LoopHolds  BY DEF SignalsInv
<1>2. /\ tfPc = "get" /\ pending # <<>> /\ pending' = <<>> /\ UNCHANGED <<time, tRows, fired>>
      /\ \/ /\ tfPc' = "top" /\ shadows' = shadows \cup {[signal |-> Head(pending), began |-> time]}
            /\ UNCHANGED <<inTrade, awaitedTasks, overAt, foundBy>>
         \/ /\ tfPc' = "trade" /\ inTrade' = {Head(pending)}
            /\ UNCHANGED <<shadows, awaitedTasks, overAt, foundBy>>
         \/ /\ tfPc' = "over" /\ overAt' = time /\ awaitedTasks' = shadows /\ foundBy' = fired
            /\ inTrade' = {Head(pending)} /\ UNCHANGED shadows
  BY DEF Take, LoopEnds, pump
<1>3. PICK k \in 1..fired : pending = <<k>>  BY <1>1, <1>2 DEF FeedTypes
<1>4. Head(pending) = k  BY <1>3
<1>5. Waiting = {k} /\ Waiting' = {} /\ Journalled' = Journalled
  BY <1>2, <1>3, ShownOfFew DEF Waiting, Journalled
<1>6. inTrade = {} /\ k \in Nat  BY <1>1, <1>2 DEF LoopHolds, FeedTypes
<1>7. k \notin Followed /\ k \notin Journalled  BY <1>1, <1>5 DEF OncePlaced
<1>8. CASE /\ tfPc' = "top" /\ shadows' = shadows \cup {[signal |-> k, began |-> time]}
           /\ UNCHANGED <<inTrade, awaitedTasks, overAt, foundBy>>
  <2> DEFINE n == [signal |-> k, began |-> time]
  <2>1. Followed' = Followed \cup {k} /\ \A s, z \in shadows' : s.signal = z.signal => s = z
    BY <1>6, <1>7, <1>8, AnotherFollowed
  <2>2. n \in [signal : 1..fired, began : 0..time] /\ n.began = time /\ time \in Nat /\ time <= time + Span
    BY <1>1, TakerFeedAssumption DEF FeedTypes
  <2> HIDE DEF n
  <2>3. shadows' = shadows \cup {n}  BY <1>8 DEF n
  <2>4. FeedTypes'  BY <1>1, <1>2, <1>5, <1>8, <2>2, <2>3 DEF FeedTypes
  <2>5. OncePlaced'  BY <1>1, <1>2, <1>5, <1>6, <1>7, <1>8, <2>1 DEF OncePlaced
  <2>6. NoneMissing'
    <3>1. \A x \in 1..fired : x \in Journalled \cup Waiting \cup inTrade \cup Followed
      BY <1>1, <1>2 DEF NoneMissing
    <3>2. fired' = fired /\ inTrade' = inTrade  BY <1>2, <1>8
    <3>3. Followed' = Followed \cup {k} /\ Waiting' = {} /\ Waiting = {k} /\ Journalled' = Journalled
      BY <1>5, <2>1
    <3>4. \A x \in 1..fired' : x \in Journalled' \cup Waiting' \cup inTrade' \cup Followed'
      BY <3>1, <3>2, <3>3
    <3> QED  BY <3>4 DEF NoneMissing
  <2>7. LoopHolds'  BY <1>1, <1>2, <1>6, <1>8, <2>2, <2>3 DEF LoopHolds
  <2> QED  BY <2>4, <2>5, <2>6, <2>7 DEF SignalsInv
<1>9. CASE /\ inTrade' = {k} /\ shadows' = shadows
           /\ \/ tfPc' = "trade" /\ UNCHANGED <<awaitedTasks, overAt, foundBy>>
              \/ tfPc' = "over" /\ overAt' = time /\ awaitedTasks' = shadows /\ foundBy' = fired
  <2>1. Followed' = Followed  BY <1>9 DEF Followed
  <2>2. FeedTypes'  BY <1>1, <1>2, <1>5, <1>9 DEF FeedTypes
  <2>3. OncePlaced'  BY <1>1, <1>2, <1>5, <1>6, <1>7, <1>9, <2>1 DEF OncePlaced
  <2>4. NoneMissing'
    <3>1. \A x \in 1..fired : x \in Journalled \cup Waiting \cup inTrade \cup Followed
      BY <1>1, <1>2 DEF NoneMissing
    <3>2. /\ fired' = fired /\ Journalled' = Journalled /\ Waiting' = {} /\ Waiting = {k}
          /\ inTrade' = {k} /\ inTrade = {} /\ Followed' = Followed
      BY <1>2, <1>5, <1>6, <1>9, <2>1
    <3>3. \A x \in 1..fired' : x \in Journalled' \cup Waiting' \cup inTrade' \cup Followed'
      BY <3>1, <3>2
    <3> QED  BY <3>3 DEF NoneMissing
  <2>5. \A s \in shadows : s.began <= time  BY <1>1 DEF FeedTypes
  <2>6. LoopHolds'
    <3>1. CASE tfPc' = "trade"
      BY <3>1, <1>1, <1>2, <1>9 DEF LoopHolds
    <3>2. CASE tfPc' = "over"
      BY <3>2, <2>5, <1>1, <1>2, <1>9 DEF LoopHolds, Awaited
    <3> QED  BY <3>1, <3>2, <1>9
  <2> QED  BY <2>2, <2>3, <2>4, <2>6 DEF SignalsInv
<1> QED  BY <1>2, <1>4, <1>8, <1>9

LEMMA TradeKeepsSignals == SignalsInv /\ TradeIsOver => SignalsInv'
<1> SUFFICES ASSUME SignalsInv, TradeIsOver  PROVE SignalsInv'
  OBVIOUS
<1>1. FeedTypes /\ OncePlaced /\ NoneMissing /\ LoopHolds  BY DEF SignalsInv
<1>2. /\ tfPc = "trade" /\ inTrade' = {}
      /\ UNCHANGED <<time, pending, awaitedTasks, overAt, foundBy, fired>>
      /\ \/ tfPc' = "top" /\ tRows' = tRows \o SetToSeq(inTrade) /\ UNCHANGED shadows
         \/ tfPc' = "raised" /\ shadows' = {} /\ UNCHANGED tRows
  BY DEF TradeIsOver, pump
<1>3. Waiting' = Waiting  BY <1>2 DEF Waiting
<1>4. CASE tfPc' = "top" /\ tRows' = tRows \o SetToSeq(inTrade) /\ shadows' = shadows
  <2>1. PICK k \in 1..fired : inTrade = {k}  BY <1>1, <1>2 DEF LoopHolds
  <2>2. tRows' = Append(tRows, k)
    <3>1. tRows \o <<k>> = Append(tRows, k)  BY <1>1 DEF FeedTypes
    <3> QED  BY <3>1, <2>1, <1>4, SingletonListed
  <2>3. k \in Nat /\ k \notin Shown(tRows) /\ Distinct(tRows) /\ tRows \in Seq(Nat)
    BY <1>1, <2>1 DEF OncePlaced, Journalled, FeedTypes
  <2>4. tRows' \in Seq(Nat) /\ Journalled' = Journalled \cup {k} /\ Distinct(tRows)'
    BY <2>2, <2>3, OneRowMore DEF Journalled
  <2>5. Followed' = Followed  BY <1>4 DEF Followed
  <2>6. FeedTypes'  BY <1>1, <1>2, <1>4, <2>1, <2>4 DEF FeedTypes
  <2>7. OncePlaced'  BY <1>1, <1>2, <1>3, <1>4, <2>1, <2>4, <2>5 DEF OncePlaced
  <2>8. NoneMissing'  BY <1>1, <1>2, <1>3, <1>4, <2>1, <2>4, <2>5 DEF NoneMissing
  <2>9. LoopHolds'  BY <1>1, <1>2, <1>4 DEF LoopHolds
  <2> QED  BY <2>6, <2>7, <2>8, <2>9 DEF SignalsInv
<1>5. CASE tfPc' = "raised" /\ shadows' = {} /\ tRows' = tRows
  <2>1. Followed' = {} /\ Journalled' = Journalled  BY <1>5 DEF Followed, Journalled
  <2>2. FeedTypes'  BY <1>1, <1>2, <1>5, <2>1 DEF FeedTypes
  <2>3. OncePlaced'  BY <1>1, <1>2, <1>3, <1>5, <2>1 DEF OncePlaced
  <2>4. NoneMissing' /\ LoopHolds'  BY <1>2, <1>5 DEF NoneMissing, LoopHolds
  <2> QED  BY <2>2, <2>3, <2>4 DEF SignalsInv
<1> QED  BY <1>2, <1>4, <1>5

LEMMA ShadowKeepsSignals ==
  ASSUME SignalsInv, NEW s \in shadows, ShadowEnds(s)
  PROVE  SignalsInv'
<1> DEFINE k == s.signal
<1>1. FeedTypes /\ OncePlaced /\ NoneMissing /\ LoopHolds  BY DEF SignalsInv
<1>2. /\ shadows' = shadows \ {s} /\ tRows' = Append(tRows, k)
      /\ UNCHANGED <<time, pending, inTrade, tfPc, awaitedTasks, overAt, foundBy, fired>>
  BY DEF ShadowEnds, takerLoop, pump
<1>3. k \in Followed /\ k \in 1..fired /\ k \in Nat  BY <1>1 DEF Followed, FeedTypes
<1>4. k \notin Shown(tRows) /\ Distinct(tRows) /\ tRows \in Seq(Nat)
  BY <1>1, <1>3 DEF OncePlaced, Journalled, FeedTypes
<1>5. Followed' = Followed \ {k}  BY <1>1, <1>2 DEF Followed, OncePlaced
<1> HIDE DEF k
<1>6. tRows' \in Seq(Nat) /\ Journalled' = Journalled \cup {k} /\ Distinct(tRows)'
  BY <1>2, <1>3, <1>4, OneRowMore DEF Journalled
<1>7. Waiting' = Waiting  BY <1>2 DEF Waiting
<1>8. FeedTypes'  BY <1>1, <1>2, <1>3, <1>6 DEF FeedTypes
<1>9. OncePlaced'  BY <1>1, <1>2, <1>3, <1>5, <1>6, <1>7 DEF OncePlaced
<1>10. NoneMissing'  BY <1>1, <1>2, <1>5, <1>6, <1>7 DEF NoneMissing
<1>11. LoopHolds'  BY <1>1, <1>2 DEF LoopHolds, Awaited
<1> QED  BY <1>8, <1>9, <1>10, <1>11 DEF SignalsInv

(* When the waiting is over, who still follows a signal has begun since.    *)
LEMMA EndKeepsSignals == SignalsInv /\ WaitEnds => SignalsInv'
<1> SUFFICES ASSUME SignalsInv, WaitEnds  PROVE SignalsInv'
  OBVIOUS
<1>1. FeedTypes /\ OncePlaced /\ NoneMissing /\ LoopHolds  BY DEF SignalsInv
<1>2. /\ tfPc = "over" /\ (awaitedTasks \cap shadows = {} \/ time >= overAt + Span + Grace)
      /\ tfPc' = "ended" /\ shadows' = {}
      /\ UNCHANGED <<time, pending, tRows, inTrade, awaitedTasks, overAt, foundBy, fired>>
  BY DEF WaitEnds, pump
<1>3. ASSUME NEW s \in shadows  PROVE s.signal > foundBy
  <2>1. s.began \in Nat /\ time \in Nat /\ overAt \in Nat /\ time <= s.began + Span
    BY <1>1 DEF FeedTypes, LoopHolds
  <2>2. ~(Awaited(s) /\ time >= overAt + Span + Grace)
    BY <2>1, TakerFeedAssumption DEF Awaited
  <2>3. ~Awaited(s)  BY <2>2, <1>2 DEF Awaited
  <2> QED  BY <2>3, <1>1, <1>2 DEF LoopHolds
<1>4. \A k \in Followed : k > foundBy  BY <1>3 DEF Followed
<1>5. Followed' = {} /\ Journalled' = Journalled /\ Waiting' = Waiting
  BY <1>2 DEF Followed, Journalled, Waiting
<1>6. FeedTypes'  BY <1>1, <1>2, <1>5 DEF FeedTypes
<1>7. OncePlaced'  BY <1>1, <1>2, <1>5 DEF OncePlaced
<1>8. NoneMissing'  BY <1>1, <1>2, <1>4, <1>5 DEF NoneMissing
<1>9. LoopHolds'  BY <1>2 DEF LoopHolds
<1> QED  BY <1>6, <1>7, <1>8, <1>9 DEF SignalsInv

LEMMA TimeKeepsSignals == SignalsInv /\ TimePasses => SignalsInv'
<1> SUFFICES ASSUME SignalsInv, TimePasses  PROVE SignalsInv'
  OBVIOUS
<1>1. FeedTypes /\ OncePlaced /\ NoneMissing /\ LoopHolds  BY DEF SignalsInv
<1>2. /\ time' = time + 1 /\ tfPc \notin {"top", "ended", "raised"}
      /\ tfPc' = IF tfPc = "get" THEN "top" ELSE tfPc
      /\ \A s \in shadows : time < s.began + Span
      /\ UNCHANGED <<pending, shadows, tRows, inTrade, awaitedTasks, overAt, foundBy, fired>>
  BY DEF TimePasses, pump
<1>3. Followed' = Followed /\ Journalled' = Journalled /\ Waiting' = Waiting
  BY <1>2 DEF Followed, Journalled, Waiting
<1>4. time \in Nat /\ 0..time \subseteq 0..(time + 1)  BY <1>1 DEF FeedTypes
<1>5. \A s \in shadows : s \in [signal : 1..fired, began : 0..(time + 1)] /\ time + 1 <= s.began + Span
  BY <1>1, <1>2, <1>4, TakerFeedAssumption DEF FeedTypes
<1>6. FeedTypes'  BY <1>1, <1>2, <1>3, <1>4, <1>5 DEF FeedTypes
<1>7. OncePlaced'  BY <1>1, <1>2, <1>3 DEF OncePlaced
<1>8. NoneMissing'  BY <1>1, <1>2, <1>3 DEF NoneMissing
<1>9. LoopHolds'  BY <1>1, <1>2, <1>5 DEF LoopHolds, Awaited
<1> QED  BY <1>6, <1>7, <1>8, <1>9 DEF SignalsInv

LEMMA LoopTopKeepsSignals == SignalsInv /\ LoopTop => SignalsInv'
<1> SUFFICES ASSUME SignalsInv, LoopTop  PROVE SignalsInv'
  OBVIOUS
<1>1. FeedTypes /\ OncePlaced /\ NoneMissing /\ LoopHolds  BY DEF SignalsInv
<1>2. /\ tfPc = "top" /\ UNCHANGED <<time, pending, shadows, tRows, inTrade, fired>>
      /\ \/ tfPc' = "over" /\ overAt' = time /\ awaitedTasks' = shadows /\ foundBy' = fired
         \/ tfPc' = "get" /\ UNCHANGED <<awaitedTasks, overAt, foundBy>>
  BY DEF LoopTop, LoopEnds, pump
<1>3. Followed' = Followed /\ Journalled' = Journalled /\ Waiting' = Waiting
  BY <1>2 DEF Followed, Journalled, Waiting
<1>4. FeedTypes'  BY <1>1, <1>2, <1>3 DEF FeedTypes
<1>5. OncePlaced'  BY <1>1, <1>2, <1>3 DEF OncePlaced
<1>6. NoneMissing'  BY <1>1, <1>2, <1>3 DEF NoneMissing
<1>7. \A s \in shadows : s.began <= time  BY <1>1 DEF FeedTypes
<1>8. LoopHolds'
  <2>1. CASE tfPc' = "over"
    BY <2>1, <1>1, <1>2, <1>7 DEF LoopHolds, Awaited
  <2>2. CASE tfPc' = "get"
    BY <2>2, <1>1, <1>2 DEF LoopHolds
  <2> QED  BY <2>1, <2>2, <1>2
<1> QED  BY <1>4, <1>5, <1>6, <1>8 DEF SignalsInv

LEMMA SignalsGoOn == SignalsInv /\ (TakerFeedStep \/ UNCHANGED takerFeed) => SignalsInv'
<1>1. ASSUME SignalsInv, Subscribe \/ PumpEnds \/ Refreshes  PROVE SignalsInv'
  <2>1. UNCHANGED <<fired, foundBy, overAt, tRows, pending, inTrade, shadows, tfPc, awaitedTasks, time>>
    BY <1>1 DEF Subscribe, PumpEnds, Refreshes, takerLoop
  <2> QED  BY <2>1, <1>1, SignalsStay
<1>2. ASSUME SignalsInv, UNCHANGED takerFeed  PROVE SignalsInv'
  <2>1. UNCHANGED <<fired, foundBy, overAt, tRows, pending, inTrade, shadows, tfPc, awaitedTasks, time>>
    BY <1>2 DEF takerFeed, takerLoop, pump
  <2> QED  BY <2>1, <1>2, SignalsStay
<1> QED
  BY <1>1, <1>2, TakeKeepsSignals, TradeKeepsSignals, ShadowKeepsSignals, EndKeepsSignals, TimeKeepsSignals,
     LoopTopKeepsSignals, UpdateKeepsSignals, Zenon
  DEF TakerFeedStep

(* The clock of the silence is no older than what was heard, nor than the   *)
(* markets there are.                                                       *)
SilenceInv ==
  /\ time \in Nat /\ lastEvent \in Nat /\ heardAt \in Nat /\ watchedSince \in Nat
  /\ heardAt <= lastEvent /\ lastEvent <= time /\ watchedSince <= time
  /\ markets # {} => watchedSince <= lastEvent

LEMMA SilenceGoesOn == SilenceInv /\ (TakerFeedStep \/ UNCHANGED takerFeed) => SilenceInv'
<1> SUFFICES ASSUME SilenceInv, TakerFeedStep \/ UNCHANGED takerFeed  PROVE SilenceInv'
  OBVIOUS
<1>1. CASE UNCHANGED <<lastEvent, heardAt, watchedSince, markets>> /\ time' \in {time, time + 1}
  BY <1>1 DEF SilenceInv
<1>2. CASE UNCHANGED <<time, watchedSince, markets>> /\ lastEvent' = time /\ heardAt' = time
  BY <1>2 DEF SilenceInv
<1>3. CASE Refreshes
  <2>1. time' = time /\ heardAt' = heardAt  BY <1>3 DEF Refreshes
  <2>2. CASE UNCHANGED <<markets, lastEvent, watchedSince>>
    BY <2>1, <2>2 DEF SilenceInv
  <2>3. CASE \E u \in SUBSET Series :
               /\ markets' = NearExpiry(u) /\ lastEvent' = LastEventAfter(NearExpiry(u) \ markets)
               /\ watchedSince' = IF markets = {} THEN time ELSE watchedSince
    <3>1. PICK new : /\ markets' = new /\ lastEvent' = LastEventAfter(new \ markets)
                     /\ watchedSince' = IF markets = {} THEN time ELSE watchedSince
      BY <2>3
    <3>2. CASE markets = {}
      BY <3>1, <3>2, <2>1 DEF SilenceInv, LastEventAfter
    <3>3. CASE markets # {}
      BY <3>1, <3>3, <2>1 DEF SilenceInv, LastEventAfter
    <3> QED  BY <3>2, <3>3
  <2> QED  BY <1>3, <2>2, <2>3 DEF Refreshes
<1>4. CASE Subscribe \/ \E t \in Series : Update(t)
  <2>1. /\ UNCHANGED <<time, watchedSince, markets>>
        /\ UNCHANGED <<lastEvent, heardAt>> \/ (lastEvent' = time /\ heardAt' = time)
    BY <1>4 DEF Subscribe, Update, watching
  <2> QED  BY <2>1, <1>1, <1>2
<1>5. CASE PumpEnds \/ LoopTop \/ Take \/ TradeIsOver \/ WaitEnds \/ TimePasses \/ UNCHANGED takerFeed
           \/ \E s \in shadows : ShadowEnds(s)
  <2>1. UNCHANGED <<lastEvent, heardAt, watchedSince, markets>> /\ time' \in {time, time + 1}
    BY <1>5 DEF PumpEnds, LoopTop, Take, TradeIsOver, WaitEnds, TimePasses, ShadowEnds, takerFeed, pump, watching
  <2> QED  BY <2>1, <1>1
<1> QED  BY <1>3, <1>4, <1>5 DEF TakerFeedStep

LEMMA LongerSince ==
  \A now, later, sooner, limit \in Nat : sooner <= later /\ now - later > limit => now - sooner > limit
OBVIOUS

LEMMA SilenceIsMeant == SilenceInv /\ (TakerFeedStep \/ UNCHANGED takerFeed) => SilenceIsReal
<1> SUFFICES ASSUME SilenceInv, TakerFeedStep \/ UNCHANGED takerFeed, haltedBy = "", haltedBy' = "silence"
             PROVE  time - heardAt > MaxFeedSilence /\ time - watchedSince > MaxFeedSilence
  BY DEF SilenceIsReal
<1>1. LoopTop
  <2>1. ~Take  BY DEF Take
  <2> QED
    BY <2>1 DEF TakerFeedStep, Subscribe, PumpEnds, Refreshes, TradeIsOver, WaitEnds, TimePasses, Update,
       ShadowEnds, takerFeed, takerLoop
<1>2. markets # {} /\ time - lastEvent > MaxFeedSilence  BY <1>1 DEF LoopTop
<1>3. time \in Nat /\ lastEvent \in Nat /\ heardAt \in Nat /\ watchedSince \in Nat
      /\ heardAt <= lastEvent /\ watchedSince <= lastEvent
  BY <1>2 DEF SilenceInv
<1>4. MaxFeedSilence \in Nat  BY TakerFeedAssumption
<1> QED  BY <1>2, <1>3, <1>4, LongerSince, Zenon

(* A signal has at most one row; every one that was found before the loop   *)
(* ended has its row when the script ends, but for the one that waits and   *)
(* the one the guard stopped at; and the feed is given up as silent only    *)
(* when nothing was heard for longer than it may be, and there was          *)
(* something to hear (taker_live_test.py:610, :778).                        *)
THEOREM SignalsHaveRows == Spec => SignalsAreKept
<1>1. Init => SignalsInv /\ SilenceInv
  <2>1. Init => TakerFeedInit  BY DEF Init
  <2>2. TakerFeedInit => time = 0 /\ lastEvent = 0 /\ heardAt = 0 /\ watchedSince = 0
    BY DEF TakerFeedInit
  <2> QED  BY <2>1, <2>2, SignalsBegin DEF SilenceInv
<1>2. [Next]_vars => TakerFeedStep \/ UNCHANGED takerFeed
  <2>1. UNCHANGED vars => UNCHANGED takerFeed  BY DEF vars
  <2>2. Next => TakerFeedStep \/ UNCHANGED takerFeed  BY Zenon DEF Next, Still
  <2> QED  BY <2>1, <2>2
<1>3. SignalsInv /\ SilenceInv /\ [Next]_vars => (SignalsInv /\ SilenceInv)'
  BY <1>2, SignalsGoOn, SilenceGoesOn
<1>4. SignalsInv => EvidenceKept
  <2> SUFFICES ASSUME SignalsInv  PROVE EvidenceKept
    OBVIOUS
  <2>1. FeedTypes /\ OncePlaced /\ NoneMissing /\ LoopHolds  BY DEF SignalsInv
  <2>2. DOMAIN tRows = 1..Len(tRows) /\ Range(tRows) = Journalled
    BY <2>1 DEF FeedTypes, Range, Journalled, Shown
  <2>3. IsInjective(tRows)  BY <2>1, <2>2 DEF OncePlaced, Distinct, IsInjective
  <2>4. Range(pending) = Waiting
    <3>1. DOMAIN pending = 1..Len(pending)  BY <2>1 DEF FeedTypes
    <3> QED  BY <3>1 DEF Range, Waiting, Shown
  <2>5. ASSUME tfPc = "ended", NEW k \in 1..foundBy, k \notin Range(tRows)
        PROVE  k \in Range(pending) \cup inTrade
    <3>1. k \in 1..fired /\ ~(k > foundBy)  BY <2>1 DEF FeedTypes
    <3>2. k \in Journalled \cup Waiting \cup inTrade \cup Followed  BY <3>1, <2>1, <2>5 DEF NoneMissing
    <3>3. k \notin Followed  BY <3>1, <2>1, <2>5 DEF LoopHolds, Followed
    <3> QED  BY <3>2, <3>3, <2>2, <2>4, <2>5
  <2> QED  BY <2>3, <2>5 DEF EvidenceKept
<1>5. SilenceInv /\ [Next]_vars => [SilenceIsReal]_takerFeed
  BY <1>2, SilenceIsMeant
<1> QED  BY <1>1, <1>3, <1>4, <1>5, PTL DEF Spec, SignalsAreKept

-----------------------------------------------------------------------------
(* The tennis recorder: what the list holds was seen since its refresh and  *)
(* before now, wherever a cycle may begin.                                  *)
ListIsTimely ==
  /\ clock \in Int /\ refreshed \in Int /\ refreshed <= clock /\ depthPc \in {"top", "books", "sleep"}
  /\ listed = <<>> \/ \E seen \in Int : listed = <<seen>> /\ refreshed <= seen /\ seen <= clock
DepthInv == ListIsTimely /\ TouchRowsAreTimely

LEMMA ListBegins == CollectorsInit => DepthInv
BY CollectorsAssumption DEF CollectorsInit, DepthInv, ListIsTimely, TouchRowsAreTimely

LEMMA RefreshKeepsList == DepthInv /\ Refresh => DepthInv'
<1> SUFFICES ASSUME DepthInv, Refresh  PROVE DepthInv'
  OBVIOUS
<1>1. PICK took \in 0..MaxListing :
        /\ clock' = clock + took /\ refreshed' = clock
        /\ \/ \E seen \in clock..(clock + took) :
                /\ listed' = <<seen>> /\ depthPc' = "books"
                /\ touchRows' = <<[ts |-> clock, seen |-> seen, first |-> TRUE]>>
           \/ listed' = <<>> /\ touchRows' = <<>> /\ depthPc' = "sleep"
  BY DEF Refresh
<1>2. clock \in Int /\ took \in Nat  BY <1>1 DEF DepthInv, ListIsTimely
<1>3. CASE listed' = <<>> /\ touchRows' = <<>> /\ depthPc' = "sleep"
  BY <1>1, <1>2, <1>3 DEF DepthInv, ListIsTimely, TouchRowsAreTimely
<1>4. ASSUME NEW seen \in clock..(clock + took), listed' = <<seen>>, depthPc' = "books",
             touchRows' = <<[ts |-> clock, seen |-> seen, first |-> TRUE]>>
      PROVE  DepthInv'
  <2>1. seen \in Int /\ clock <= seen /\ seen <= clock + took  BY <1>2
  <2>2. ListIsTimely'  BY <2>1, <1>1, <1>2, <1>4 DEF ListIsTimely
  <2>3. DOMAIN touchRows' = {1} /\ touchRows'[1] = [ts |-> clock, seen |-> seen, first |-> TRUE]
    BY <1>4
  <2>4. clock - seen <= ListRefresh  BY <2>1, <1>2, CollectorsAssumption
  <2>5. TouchRowsAreTimely'  BY <2>3, <2>4 DEF TouchRowsAreTimely
  <2> QED  BY <2>2, <2>5 DEF DepthInv
<1> QED  BY <1>1, <1>3, <1>4

LEMMA CycleKeepsList == DepthInv /\ Cycle => DepthInv'
<1> SUFFICES ASSUME DepthInv, Cycle  PROVE DepthInv'
  OBVIOUS
<1>1. ListIsTimely'  BY DEF Cycle, DepthInv, ListIsTimely
<1>2. /\ touchRows' = [i \in DOMAIN listed |-> [ts |-> clock, seen |-> listed[i], first |-> FALSE]]
      /\ clock - refreshed <= ListRefresh
  BY DEF Cycle
<1>3. ASSUME NEW i \in DOMAIN touchRows'
      PROVE  touchRows'[i].ts - touchRows'[i].seen <= ListRefresh /\ touchRows'[i].ts >= touchRows'[i].seen
  <2>1. i \in DOMAIN listed /\ touchRows'[i] = [ts |-> clock, seen |-> listed[i], first |-> FALSE]
    BY <1>2, <1>3
  <2>2. listed[i] \in Int /\ refreshed <= listed[i] /\ listed[i] <= clock /\ clock \in Int /\ refreshed \in Int
    BY <2>1 DEF DepthInv, ListIsTimely
  <2> QED  BY <2>1, <2>2, <1>2, CollectorsAssumption
<1>4. TouchRowsAreTimely'  BY <1>3 DEF TouchRowsAreTimely
<1> QED  BY <1>1, <1>4 DEF DepthInv

LEMMA DepthGoesOn == DepthInv /\ (DepthStep \/ UNCHANGED depth) => DepthInv'
<1>1. ASSUME DepthInv, Books  PROVE DepthInv'
  <2>1. PICK d \in 1..MaxCycle : clock' = clock + d  BY <1>1 DEF Books
  <2>2. UNCHANGED <<refreshed, listed, touchRows>> /\ depthPc' = "top"  BY <1>1 DEF Books
  <2>3. d \in Nat /\ clock \in Int  BY <1>1 DEF DepthInv, ListIsTimely
  <2>4. ListIsTimely'  BY <2>1, <2>2, <2>3, <1>1 DEF DepthInv, ListIsTimely
  <2> QED  BY <2>2, <2>4, <1>1 DEF DepthInv, TouchRowsAreTimely
<1>2. ASSUME DepthInv, UNCHANGED depth  PROVE DepthInv'
  BY <1>2 DEF depth, DepthInv, ListIsTimely, TouchRowsAreTimely
<1> QED  BY <1>1, <1>2, RefreshKeepsList, CycleKeepsList DEF DepthStep

-----------------------------------------------------------------------------
(* The spot recorder.  No file of an hour is made again: a run that has     *)
(* read the hour only makes that hour's, and one that has not will read     *)
(* the hour it is.                                                          *)
HourUnread == spPc \in {"off", "last", "lastly"} \/ (spPc = "loop" /\ fileHour = 0)
Past(h) == h < hourRead \/ (HourUnread /\ h < wall)

SpotTypes ==
  /\ spPc \in {"off", "loop", "upload", "unlink", "last", "lastly"}
  /\ wall \in Hours /\ hourRead \in 0..MaxHours /\ hourRead <= wall
  /\ fileHour \in 0..MaxHours /\ spotFiles \in SUBSET Hours
  /\ DOMAIN spotDisk = Hours /\ DOMAIN spotBucket = Hours /\ DOMAIN rowsMade = Hours
SpotStages ==
  /\ \A h \in spotFiles : h <= hourRead
  /\ ~HourUnread => hourRead \in Hours
  /\ spPc = "loop" /\ fileHour # 0 => fileHour = hourRead
  /\ spPc \in {"upload", "unlink", "last", "lastly"} => toSend \subseteq spotFiles
  /\ spPc \in {"upload", "unlink"} => hourRead \notin toSend
  /\ spPc \in {"unlink", "lastly"} =>
       /\ sending \in spotFiles \ toSend /\ spotDisk[sending] \subseteq spotBucket[sending]
       /\ \A g \in {sending} : g \notin lastSent => Past(g)
RowsKept ==
  \A h \in Hours \ lastSent :
    /\ h \in spotFiles => rowsMade[h] \subseteq spotDisk[h]
    /\ h \notin spotFiles => rowsMade[h] \subseteq spotBucket[h]
    /\ h \notin spotFiles /\ rowsMade[h] # {} => Past(h)
SpotInv == SpotTypes /\ SpotStages /\ RowsKept

LEMMA SpotBegins == CollectorsInit => SpotInv
<1> SUFFICES ASSUME CollectorsInit  PROVE SpotInv
  OBVIOUS
<1>1. 1 \in Hours /\ 0 \in 0..MaxHours  BY CollectorsAssumption DEF Hours
<1>2. SpotTypes  BY <1>1 DEF CollectorsInit, SpotTypes
<1> QED  BY <1>2 DEF CollectorsInit, SpotInv, SpotStages, RowsKept, HourUnread, Hours

LEMMA PastStays ==
  SpotTypes /\ SpotTypes' /\ hourRead' >= hourRead /\ wall' >= wall
    /\ (HourUnread => HourUnread' \/ hourRead' = wall)
    => \A h \in Hours : Past(h) => Past(h)'
BY DEF Past, SpotTypes, Hours

LEMMA SpotStartsKeep == SpotInv /\ (SpotStarts \/ SpotEnds) => SpotInv'
<1> SUFFICES ASSUME SpotInv, SpotStarts \/ SpotEnds  PROVE SpotInv'
  OBVIOUS
<1>1. UNCHANGED <<hourRead, wall, spotDisk, spotFiles, spotBucket, rowsMade, lastSent>>
      /\ fileHour' \in {0, fileHour} /\ spPc' \in {"off", "loop"} /\ (spPc' = "loop" => fileHour' = 0)
  BY DEF SpotStarts, SpotEnds
<1>2. SpotTypes'
  <2>1. fileHour' \in 0..MaxHours  BY <1>1, CollectorsAssumption DEF SpotInv, SpotTypes
  <2> QED  BY <2>1, <1>1 DEF SpotInv, SpotTypes, Hours
<1>3. HourUnread'  BY <1>1 DEF HourUnread
<1>4. \A h \in Hours : Past(h) => Past(h)'  BY <1>1, <1>2, <1>3, PastStays DEF SpotInv, SpotTypes, Hours
<1>5. SpotStages'  BY <1>1, <1>3 DEF SpotInv, SpotStages, HourUnread
<1>6. RowsKept'  BY <1>1, <1>4 DEF SpotInv, RowsKept
<1> QED  BY <1>2, <1>5, <1>6 DEF SpotInv

LEMMA RotateKeeps == SpotInv /\ Rotate => SpotInv'
<1> SUFFICES ASSUME SpotInv, Rotate  PROVE SpotInv'
  OBVIOUS
<1>1. /\ UNCHANGED <<wall, fileHour, sending, spotDisk, spotFiles, spotBucket, rowsMade, lastSent>>
      /\ spPc' = "upload" /\ hourRead' = wall /\ toSend' = spotFiles \ {wall}
  BY DEF Rotate, Swept
<1>2. SpotTypes' /\ hourRead' >= hourRead  BY <1>1 DEF SpotInv, SpotTypes, Hours
<1>3. \A h \in Hours : Past(h) => Past(h)'  BY <1>1, <1>2, PastStays DEF SpotInv, SpotTypes, Hours
<1>4. SpotStages'
  <2>1. wall \in Hours /\ hourRead <= wall /\ spotFiles \in SUBSET Hours /\ hourRead \in Int
    BY DEF SpotInv, SpotTypes
  <2>2. \A h \in spotFiles : h <= wall
    <3>1. wall \in Int /\ \A h \in spotFiles : h \in Int  BY <2>1 DEF Hours
    <3>2. \A h \in spotFiles : h <= hourRead  BY DEF SpotInv, SpotStages
    <3> QED  BY <2>1, <3>1, <3>2
  <2> QED  BY <1>1, <2>1, <2>2 DEF SpotStages, HourUnread
<1>5. RowsKept'  BY <1>1, <1>3 DEF SpotInv, RowsKept
<1> QED  BY <1>2, <1>4, <1>5 DEF SpotInv

LEMMA CopyKeeps == SpotInv /\ CopyFile => SpotInv'
<1> SUFFICES ASSUME SpotInv, CopyFile  PROVE SpotInv'
  OBVIOUS
<1>1. PICK h \in toSend :
        /\ toSend' = toSend \ {h}
        /\ \/ /\ spotBucket' = [spotBucket EXCEPT ![h] = spotDisk[h]]
              /\ sending' = h /\ spPc' = IF spPc = "upload" THEN "unlink" ELSE "lastly"
              /\ lastSent' = IF spPc = "last" /\ h = wall THEN lastSent \cup {h} ELSE lastSent
           \/ UNCHANGED <<spotBucket, sending, spPc, lastSent>>
  BY DEF CopyFile
<1>2. UNCHANGED <<hourRead, wall, fileHour, spotDisk, spotFiles, rowsMade>> /\ spPc \in {"upload", "last"}
  BY DEF CopyFile
<1>3. h \in spotFiles /\ h \in Hours /\ h <= hourRead /\ hourRead <= wall /\ (spPc = "upload" => h # hourRead)
  BY <1>2 DEF SpotInv, SpotTypes, SpotStages
<1>4. h \in Int /\ hourRead \in Int /\ wall \in Int  BY <1>3 DEF SpotInv, SpotTypes, Hours
<1>5. CASE UNCHANGED <<spotBucket, sending, spPc, lastSent>>
  <2>1. HourUnread' = HourUnread /\ \A g : Past(g)' = Past(g)
    BY <1>2, <1>5 DEF HourUnread, Past
  <2>2. SpotTypes'  BY <1>2, <1>5 DEF SpotInv, SpotTypes
  <2>3. SpotStages'  BY <2>1, <1>1, <1>2, <1>5 DEF SpotInv, SpotStages
  <2>4. RowsKept'  BY <2>1, <1>2, <1>5 DEF SpotInv, RowsKept
  <2> QED  BY <2>2, <2>3, <2>4 DEF SpotInv
<1>6. CASE /\ spotBucket' = [spotBucket EXCEPT ![h] = spotDisk[h]]
           /\ sending' = h /\ spPc' = IF spPc = "upload" THEN "unlink" ELSE "lastly"
           /\ lastSent' = IF spPc = "last" /\ h = wall THEN lastSent \cup {h} ELSE lastSent
  <2>1. SpotTypes'  BY <1>2, <1>6 DEF SpotInv, SpotTypes
  <2>2. HourUnread' = HourUnread /\ \A g : Past(g)' = Past(g)
    BY <1>2, <1>6 DEF HourUnread, Past
  <2>3. h \notin lastSent' => Past(h)
    <3>1. CASE spPc = "upload"  BY <3>1, <1>3, <1>4 DEF Past
    <3>2. CASE spPc = "last"  BY <3>2, <1>3, <1>4, <1>6 DEF Past, HourUnread
    <3> QED  BY <3>1, <3>2, <1>2
  <2>4. spotBucket'[h] = spotDisk[h] /\ \A g \in Hours : g # h => spotBucket'[g] = spotBucket[g]
    BY <1>6, <1>3 DEF SpotInv, SpotTypes
  <2>5. SpotStages'
    <3>1. spPc' \in {"unlink", "lastly"} /\ (spPc' = "unlink" => spPc = "upload") /\ h \notin toSend'
      BY <1>1, <1>2, <1>6
    <3>2. toSend' \subseteq spotFiles' /\ (spPc' = "unlink" => hourRead' \notin toSend')
      BY <3>1, <1>1, <1>2 DEF SpotInv, SpotStages
    <3>3. (\A g \in spotFiles' : g <= hourRead') /\ (~HourUnread' => hourRead' \in Hours)
      BY <2>2, <1>2 DEF SpotInv, SpotStages
    <3>4. sending' \in spotFiles' \ toSend' /\ spotDisk'[sending'] \subseteq spotBucket'[sending']
      <4>1. sending' = h  BY <1>6
      <4>2. h \in spotFiles' \ toSend'  BY <3>1, <1>2, <1>3
      <4>3. spotDisk'[h] \subseteq spotBucket'[h]  BY <2>4, <1>2
      <4> QED  BY <4>1, <4>2, <4>3
    <3>5. \A g \in {sending'} : g \notin lastSent' => Past(g)'
      BY <2>2, <2>3, <1>6
    <3> QED  BY <3>1, <3>2, <3>3, <3>4, <3>5 DEF SpotStages
  <2>6. RowsKept'
    <3> SUFFICES ASSUME NEW g \in Hours \ lastSent'
                 PROVE  /\ g \in spotFiles => rowsMade[g] \subseteq spotDisk[g]
                        /\ g \notin spotFiles => rowsMade[g] \subseteq spotBucket'[g]
                        /\ g \notin spotFiles /\ rowsMade[g] # {} => Past(g)
      BY <1>2, <2>2 DEF RowsKept
    <3>1. g \in Hours \ lastSent  BY <1>6
    <3>2. g \notin spotFiles => spotBucket'[g] = spotBucket[g]  BY <2>4, <1>3
    <3> QED  BY <3>1, <3>2 DEF SpotInv, RowsKept
  <2> QED  BY <2>1, <2>5, <2>6 DEF SpotInv
<1> QED  BY <1>1, <1>5, <1>6

LEMMA UnlinkKeeps == SpotInv /\ Unlink => SpotInv'
<1> SUFFICES ASSUME SpotInv, Unlink  PROVE SpotInv'
  OBVIOUS
<1>1. /\ UNCHANGED <<hourRead, wall, fileHour, toSend, spotBucket, rowsMade, lastSent>>
      /\ spPc \in {"unlink", "lastly"} /\ spPc' = IF spPc = "unlink" THEN "upload" ELSE "last"
      /\ spotFiles' = spotFiles \ {sending} /\ spotDisk' = [spotDisk EXCEPT ![sending] = {}]
  BY DEF Unlink
<1>2. /\ sending \in spotFiles \ toSend /\ spotDisk[sending] \subseteq spotBucket[sending]
      /\ sending \notin lastSent => Past(sending)
  BY <1>1 DEF SpotInv, SpotStages
<1>3. HourUnread' = HourUnread /\ \A g : Past(g)' = Past(g)
  BY <1>1 DEF HourUnread, Past
<1>4. SpotTypes'  BY <1>1 DEF SpotInv, SpotTypes
<1>5. SpotStages'
  <2>1. (\A g \in spotFiles' : g <= hourRead') /\ (~HourUnread' => hourRead' \in Hours)
    BY <1>1, <1>3 DEF SpotInv, SpotStages
  <2>2. toSend' \subseteq spotFiles' /\ (spPc' = "upload" => hourRead' \notin toSend')
    BY <1>1, <1>2 DEF SpotInv, SpotStages
  <2> QED  BY <2>1, <2>2, <1>1 DEF SpotStages
<1>6. RowsKept'
  <2> SUFFICES ASSUME NEW g \in Hours \ lastSent
               PROVE  /\ g \in spotFiles' => rowsMade[g] \subseteq spotDisk'[g]
                      /\ g \notin spotFiles' => rowsMade[g] \subseteq spotBucket[g]
                      /\ g \notin spotFiles' /\ rowsMade[g] # {} => Past(g)
    BY <1>1, <1>3 DEF RowsKept
  <2>1. /\ g \in spotFiles => rowsMade[g] \subseteq spotDisk[g]
        /\ g \notin spotFiles => rowsMade[g] \subseteq spotBucket[g]
        /\ g \notin spotFiles /\ rowsMade[g] # {} => Past(g)
    BY DEF SpotInv, RowsKept
  <2>2. CASE g = sending  BY <2>1, <2>2, <1>1, <1>2
  <2>3. CASE g # sending
    <3>1. spotDisk'[g] = spotDisk[g]  BY <2>3, <1>1 DEF SpotInv, SpotTypes
    <3> QED  BY <3>1, <2>1, <2>3, <1>1
  <2> QED  BY <2>2, <2>3
<1> QED  BY <1>4, <1>5, <1>6 DEF SpotInv

LEMMA OpenKeeps == SpotInv /\ OpenHour => SpotInv'
<1> SUFFICES ASSUME SpotInv, OpenHour  PROVE SpotInv'
  OBVIOUS
<1>1. /\ UNCHANGED <<hourRead, wall, spotDisk, spotBucket, rowsMade, lastSent>>
      /\ spPc = "upload" /\ spPc' = "loop" /\ fileHour' = hourRead /\ spotFiles' = spotFiles \cup {hourRead}
  BY DEF OpenHour
<1>2. ~HourUnread /\ hourRead \in Hours  BY <1>1 DEF HourUnread, SpotInv, SpotStages
<1>3. hourRead # 0 /\ hourRead \in Int  BY <1>2 DEF Hours
<1>4. ~HourUnread'  BY <1>1, <1>3 DEF HourUnread
<1>5. \A g : Past(g)' = Past(g)  BY <1>1, <1>2, <1>4 DEF Past
<1>6. SpotTypes'  BY <1>1, <1>2 DEF SpotInv, SpotTypes
<1>7. SpotStages'
  <2>1. \A g \in spotFiles' : g <= hourRead'  BY <1>1, <1>3 DEF SpotInv, SpotStages
  <2> QED  BY <2>1, <1>1, <1>2 DEF SpotStages
<1>8. RowsKept'
  <2> SUFFICES ASSUME NEW g \in Hours \ lastSent
               PROVE  /\ g \in spotFiles' => rowsMade[g] \subseteq spotDisk[g]
                      /\ g \notin spotFiles' => rowsMade[g] \subseteq spotBucket[g]
                      /\ g \notin spotFiles' /\ rowsMade[g] # {} => Past(g)
    BY <1>1, <1>5 DEF RowsKept
  <2>1. /\ g \in spotFiles => rowsMade[g] \subseteq spotDisk[g]
        /\ g \notin spotFiles => rowsMade[g] \subseteq spotBucket[g]
        /\ g \notin spotFiles /\ rowsMade[g] # {} => Past(g)
    BY DEF SpotInv, RowsKept
  <2>2. ~Past(hourRead)  BY <1>2, <1>3 DEF Past
  <2> QED  BY <2>1, <2>2, <1>1
<1> QED  BY <1>6, <1>7, <1>8 DEF SpotInv

LEMMA RowKeeps == SpotInv /\ SpotRow => SpotInv'
<1> SUFFICES ASSUME SpotInv, SpotRow  PROVE SpotInv'
  OBVIOUS
<1> DEFINE n == Cardinality(UNION {rowsMade[h] : h \in Hours}) + 1
<1>1. /\ UNCHANGED <<hourRead, spPc, wall, fileHour, toSend, sending, spotFiles, spotBucket, lastSent>>
      /\ spPc = "loop" /\ fileHour \in spotFiles
      /\ spotDisk' = [spotDisk EXCEPT ![fileHour] = @ \cup {n}]
      /\ rowsMade' = [rowsMade EXCEPT ![fileHour] = @ \cup {n}]
  BY DEF SpotRow
<1> HIDE DEF n
<1>2. HourUnread' = HourUnread /\ \A g : Past(g)' = Past(g)
  BY <1>1 DEF HourUnread, Past
<1>3. SpotTypes'  BY <1>1 DEF SpotInv, SpotTypes
<1>4. SpotStages'  BY <1>1, <1>2 DEF SpotInv, SpotStages
<1>5. RowsKept'
  <2> SUFFICES ASSUME NEW g \in Hours \ lastSent
               PROVE  /\ g \in spotFiles => rowsMade'[g] \subseteq spotDisk'[g]
                      /\ g \notin spotFiles => rowsMade'[g] \subseteq spotBucket[g]
                      /\ g \notin spotFiles /\ rowsMade'[g] # {} => Past(g)
    BY <1>1, <1>2 DEF RowsKept
  <2>1. /\ g \in spotFiles => rowsMade[g] \subseteq spotDisk[g]
        /\ g \notin spotFiles => rowsMade[g] \subseteq spotBucket[g]
        /\ g \notin spotFiles /\ rowsMade[g] # {} => Past(g)
    BY DEF SpotInv, RowsKept
  <2>2. CASE g = fileHour
    <3>1. rowsMade'[g] = rowsMade[g] \cup {n} /\ spotDisk'[g] = spotDisk[g] \cup {n}
      BY <2>2, <1>1 DEF SpotInv, SpotTypes
    <3> QED  BY <3>1, <2>1, <2>2, <1>1
  <2>3. CASE g # fileHour
    <3>1. rowsMade'[g] = rowsMade[g] /\ spotDisk'[g] = spotDisk[g]
      BY <2>3, <1>1 DEF SpotInv, SpotTypes
    <3> QED  BY <3>1, <2>1
  <2> QED  BY <2>2, <2>3
<1> QED  BY <1>3, <1>4, <1>5 DEF SpotInv

LEMMA HourKeeps == SpotInv /\ HourPasses => SpotInv'
<1> SUFFICES ASSUME SpotInv, HourPasses  PROVE SpotInv'
  OBVIOUS
<1>1. /\ UNCHANGED <<hourRead, spPc, fileHour, toSend, sending, spotDisk, spotFiles, spotBucket, rowsMade,
                     lastSent>>
      /\ wall < MaxHours /\ wall' = wall + 1
  BY DEF HourPasses
<1>2. SpotTypes' /\ wall' >= wall /\ hourRead' >= hourRead
  <2>1. MaxHours \in Nat /\ SpotTypes  BY Zenon, CollectorsAssumption DEF SpotInv
  <2>2. wall \in 1..MaxHours /\ hourRead \in 0..MaxHours /\ hourRead <= wall
    BY <2>1 DEF SpotTypes, Hours
  <2>3. wall' \in 1..MaxHours /\ wall' >= wall  BY <1>1, <2>1, <2>2
  <2>4. hourRead' \in 0..MaxHours /\ hourRead' <= wall' /\ hourRead' >= hourRead
    BY <1>1, <2>1, <2>2
  <2>5. wall' \in Hours  BY <2>3 DEF Hours
  <2>6. SpotTypes'  BY Zenon, <1>1, <2>1, <2>4, <2>5 DEF SpotTypes, Hours
  <2> QED  BY <2>3, <2>4, <2>6
<1>3. HourUnread' = HourUnread  BY <1>1 DEF HourUnread
<1>4. \A h \in Hours : Past(h) => Past(h)'  BY <1>2, <1>3, PastStays DEF SpotInv
<1>5. SpotStages'
  <2>1. sending \in spotFiles => sending \in Hours  BY DEF SpotInv, SpotTypes
  <2> QED  BY <2>1, <1>1, <1>3, <1>4 DEF SpotInv, SpotStages
<1>6. RowsKept'  BY <1>1, <1>4 DEF SpotInv, RowsKept
<1> QED  BY <1>2, <1>5, <1>6 DEF SpotInv

LEMMA InterruptKeeps == SpotInv /\ SpotInterrupted => SpotInv'
<1> SUFFICES ASSUME SpotInv, SpotInterrupted  PROVE SpotInv'
  OBVIOUS
<1>1. /\ UNCHANGED <<hourRead, wall, fileHour, sending, spotDisk, spotFiles, spotBucket, rowsMade, lastSent>>
      /\ spPc' = "last" /\ toSend' = spotFiles
  BY DEF SpotInterrupted
<1>2. SpotTypes' /\ HourUnread'  BY <1>1 DEF SpotInv, SpotTypes, HourUnread
<1>3. \A h \in Hours : Past(h) => Past(h)'  BY <1>1, <1>2, PastStays DEF SpotInv, SpotTypes, Hours
<1>4. SpotStages'  BY <1>1, <1>2 DEF SpotInv, SpotStages
<1>5. RowsKept'  BY <1>1, <1>3 DEF SpotInv, RowsKept
<1> QED  BY <1>2, <1>4, <1>5 DEF SpotInv

LEMMA SpotGoesOn == SpotInv /\ (SpotStep \/ UNCHANGED spot) => SpotInv'
<1>1. ASSUME SpotInv, UNCHANGED spot  PROVE SpotInv'
  <2>1. HourUnread' = HourUnread /\ \A g : Past(g)' = Past(g)  BY <1>1 DEF spot, HourUnread, Past
  <2>2. SpotTypes'  BY <1>1 DEF spot, SpotInv, SpotTypes
  <2>3. SpotStages'  BY <1>1, <2>1 DEF spot, SpotInv, SpotStages, Past, HourUnread
  <2>4. RowsKept'  BY <1>1, <2>1 DEF spot, SpotInv, RowsKept
  <2> QED  BY <2>2, <2>3, <2>4 DEF SpotInv
<1> QED
  BY <1>1, SpotStartsKeep, RotateKeeps, CopyKeeps, UnlinkKeeps, OpenKeeps, RowKeeps, HourKeeps, InterruptKeeps
  DEF SpotStep

(* A row of the spot recorder is in the file of its hour or in that hour's  *)
(* object, through rotations, failed copies, kills and restarts, but for    *)
(* an hour whose file was sent while it lasted (spot_sidecar.py:73).        *)
THEOREM SpotRowsAreKept == Spec => []SpotRowsSurvive
<1>1. Init => SpotInv  BY SpotBegins DEF Init
<1>2. [Next]_vars => SpotStep \/ UNCHANGED spot
  <2>1. UNCHANGED vars => UNCHANGED spot  BY DEF vars, collectors
  <2>2. Next => SpotStep \/ UNCHANGED spot  BY Zenon DEF Next, Still
  <2> QED  BY <2>1, <2>2
<1>3. SpotInv /\ [Next]_vars => SpotInv'  BY <1>2, SpotGoesOn
<1>4. SpotInv => SpotRowsSurvive  BY DEF SpotInv, RowsKept, SpotRowsSurvive
<1> QED  BY <1>1, <1>3, <1>4, PTL DEF Spec

-----------------------------------------------------------------------------
(* Folds.  A fold goes through the sets of indexes by their largest: what   *)
(* it makes of a sequence is the last of the partial results.               *)
LEMMA LargestNumber ==
  ASSUME NEW n \in Nat, NEW S \in SUBSET (1..n), S # {}
  PROVE  Max(S) \in S /\ \A y \in S : y <= Max(S)
<1> DEFINE Uppers == {k \in Nat : \A y \in S : y <= k}
<1>1. n \in Uppers  OBVIOUS
<1>2. PICK k \in Uppers : \A q \in Uppers : k <= q  BY <1>1, FirstNumber
<1>3. k \in Nat /\ (\A y \in S : y <= k) /\ \A y \in S : y \in Nat /\ y >= 1  OBVIOUS
<1>4. k \in S
  <2>1. SUFFICES ASSUME k \notin S  PROVE FALSE
    OBVIOUS
  <2>2. \A y \in S : y <= k - 1
    <3>1. TAKE y \in S
    <3>2. y # k  BY <2>1
    <3> QED  BY <3>2, <1>3
  <2>3. PICK y \in S : TRUE  OBVIOUS
  <2>4. k - 1 \in Nat  BY <2>3, <1>3
  <2>5. k <= k - 1  BY <2>2, <2>4, <1>2
  <2> QED  BY <2>5, <1>3
<1>5. \E x \in S : \A y \in S : x >= y  BY <1>3, <1>4
<1>6. Max(S) \in S /\ \A y \in S : Max(S) >= y  BY <1>5 DEF Max
<1> QED  BY <1>6, <1>3

LEMMA LargestOfAll ==
  ASSUME NEW n \in Nat, n # 0
  PROVE  1..n # {} /\ Max(1..n) = n /\ (1..n) \ {n} = 1..(n - 1)
<1>1. n \in 1..n /\ (1..n) \ {n} = 1..(n - 1)  OBVIOUS
<1>2. Max(1..n) \in 1..n /\ \A y \in 1..n : y <= Max(1..n)  BY <1>1, LargestNumber
<1> QED  BY <1>1, <1>2

(* g makes a result of the result before and an item of s.                  *)
FoldsUp(f, n, s, base, g) ==
  \A S \in SUBSET (1..n) :
    f[S] = IF S = {} THEN base ELSE g[<<f[S \ {Max(S)}], s[Max(S)]>>]

LEMMA FoldGrows ==
  ASSUME NEW T, NEW D, NEW n \in Nat, NEW s, \A i \in 1..(n + 1) : s[i] \in D,
         NEW base \in T, NEW g \in [T \X D -> T],
         NEW f \in [SUBSET (1..n) -> T], FoldsUp(f, n, s, base, g)
  PROVE  \E h \in [SUBSET (1..(n + 1)) -> T] : FoldsUp(h, n + 1, s, base, g)
<1> DEFINE h == [S \in SUBSET (1..(n + 1)) |->
                   IF n + 1 \in S THEN g[<<f[S \ {n + 1}], s[n + 1]>>] ELSE f[S]]
<1>1. \A S \in SUBSET (1..(n + 1)) : S \ {n + 1} \in SUBSET (1..n) /\ (n + 1 \notin S => S \in SUBSET (1..n))
  <2>1. (1..(n + 1)) \ {n + 1} = 1..n  OBVIOUS
  <2> QED  BY <2>1
<1>2. \A S \in SUBSET (1..n) : f[S] \in T  OBVIOUS
<1>3. n + 1 \in 1..(n + 1) /\ s[n + 1] \in D  OBVIOUS
<1>4. \A a \in T : g[<<a, s[n + 1]>>] \in T  BY <1>3
<1>5. h \in [SUBSET (1..(n + 1)) -> T]  BY <1>1, <1>2, <1>4
<1>6. ASSUME NEW S \in SUBSET (1..(n + 1))
      PROVE  h[S] = IF S = {} THEN base ELSE g[<<h[S \ {Max(S)}], s[Max(S)]>>]
  <2>1. CASE n + 1 \in S
    <3>1. Max(S) = n + 1
      <4>1. n + 1 \in Nat /\ S # {}  BY <2>1
      <4>2. Max(S) \in S /\ \A y \in S : y <= Max(S)  BY <4>1, LargestNumber
      <4>3. \A y \in S : y \in Nat /\ y <= n + 1  OBVIOUS
      <4>4. Max(S) \in Nat /\ Max(S) <= n + 1 /\ n + 1 <= Max(S)  BY <4>2, <4>3, <2>1
      <4> HIDE DEF h
      <4> QED  BY <4>4
    <3>2. h[S] = g[<<f[S \ {n + 1}], s[n + 1]>>]  BY <2>1
    <3>3. S \ {n + 1} \in SUBSET (1..(n + 1)) /\ n + 1 \notin S \ {n + 1}  OBVIOUS
    <3>4. h[S \ {n + 1}] = f[S \ {n + 1}]  BY <3>3
    <3> QED  BY <3>1, <3>2, <3>4, <2>1
  <2>2. CASE n + 1 \notin S
    <3>1. S \in SUBSET (1..n) /\ h[S] = f[S]  BY <1>1, <2>2
    <3>2. CASE S = {}  BY <3>1, <3>2 DEF FoldsUp
    <3>3. CASE S # {}
      <4>1. f[S] = g[<<f[S \ {Max(S)}], s[Max(S)]>>]  BY <3>1, <3>3 DEF FoldsUp
      <4>2. S \ {Max(S)} \in SUBSET (1..(n + 1)) /\ n + 1 \notin S \ {Max(S)}  BY <2>2
      <4>3. h[S \ {Max(S)}] = f[S \ {Max(S)}]  BY <4>2
      <4> QED  BY <3>1, <3>3, <4>1, <4>3
    <3> QED  BY <3>2, <3>3
  <2> QED  BY <2>1, <2>2
<1> HIDE DEF h
<1> QED  BY <1>5, <1>6 DEF FoldsUp

LEMMA FoldExists ==
  ASSUME NEW T, NEW D, NEW n \in Nat, NEW s, \A i \in 1..n : s[i] \in D,
         NEW base \in T, NEW g \in [T \X D -> T]
  PROVE  \E f \in [SUBSET (1..n) -> T] : FoldsUp(f, n, s, base, g)
<1> DEFINE Good(k) == \E f \in [SUBSET (1..k) -> T] : FoldsUp(f, k, s, base, g)
           Bad == {k \in 0..n : ~Good(k)}
<1>1. SUFFICES ASSUME Bad # {}  PROVE FALSE
  <2>1. n \in 0..n  OBVIOUS
  <2> HIDE DEF Good
  <2>2. Bad = {} => Good(n)  BY <2>1
  <2> QED  BY <2>2 DEF Good
<1>2. PICK k \in Bad : \A q \in Bad : k <= q
  <2>1. Bad \in SUBSET Nat  OBVIOUS
  <2> HIDE DEF Bad
  <2> QED  BY <1>1, <2>1, FirstNumber
<1>3. k # 0
  <2> DEFINE f == [S \in SUBSET (1..0) |-> base]
  <2>1. f \in [SUBSET (1..0) -> T]  OBVIOUS
  <2>2. 1..0 = {}  OBVIOUS
  <2>3. FoldsUp(f, 0, s, base, g)  BY <2>2 DEF FoldsUp
  <2>4. Good(0)  BY <2>1, <2>3
  <2> HIDE DEF Good
  <2> QED  BY <2>4
<1>4. k - 1 \in Nat /\ k - 1 \in 0..n /\ ~(k <= k - 1) /\ (k - 1) + 1 = k  BY <1>3
<1>5. Good(k - 1)
  <2> HIDE DEF Good
  <2> QED  BY <1>2, <1>4
<1>6. \A i \in 1..((k - 1) + 1) : s[i] \in D  BY <1>4
<1>7. Good((k - 1) + 1)  BY <1>4, <1>5, <1>6, FoldGrows
<1>8. Good(k)  BY <1>7, <1>4
<1>9. ~Good(k)
  <2> HIDE DEF Good
  <2> QED  OBVIOUS
<1> QED  BY <1>8, <1>9

Partials(h, n, s, base, g) == h[0] = base /\ \A k \in 1..n : h[k] = g[<<h[k - 1], s[k]>>]
FoldsIn(f, T, n, s, base, g) ==
  /\ f[{}] = base
  /\ \A S \in SUBSET (1..n) : S # {} /\ f[S \ {Max(S)}] \in T =>
       f[S] = g[<<f[S \ {Max(S)}], s[Max(S)]>>]

(* Whatever folds up has the same partial results, results of T all.        *)
LEMMA FoldIsUnique ==
  ASSUME NEW T, NEW D, NEW n \in Nat, NEW s, \A i \in 1..n : s[i] \in D,
         NEW base \in T, NEW g \in [T \X D -> T], NEW h, Partials(h, n, s, base, g), NEW f, FoldsIn(f, T, n, s, base, g)
  PROVE  f[1..n] = h[n] /\ f[1..n] \in T
<1> USE DEF Partials, FoldsIn
<1> DEFINE Bad == {k \in 0..n : ~(f[1..k] = h[k] /\ f[1..k] \in T)}
<1>1. SUFFICES ASSUME Bad # {}  PROVE FALSE
  OBVIOUS
<1>2. PICK k \in Bad : \A q \in Bad : k <= q
  <2>1. Bad \in SUBSET Nat  OBVIOUS
  <2> HIDE DEF Bad
  <2> QED  BY <1>1, <2>1, FirstNumber
<1>3. k # 0
  <2>1. 1..0 = {}  OBVIOUS
  <2> QED  BY <2>1
<1>4. k \in Nat /\ k \in 1..n /\ k - 1 \in 0..n /\ ~(k <= k - 1)  BY <1>3
<1>5. f[1..(k - 1)] = h[k - 1] /\ f[1..(k - 1)] \in T  BY <1>2, <1>4
<1>6. 1..k # {} /\ Max(1..k) = k /\ (1..k) \ {k} = 1..(k - 1)  BY <1>3, <1>4, LargestOfAll
<1>7. 1..k \in SUBSET (1..n)  BY <1>4
<1>8. f[1..k] = g[<<f[1..(k - 1)], s[k]>>]  BY <1>5, <1>6, <1>7
<1>9. f[1..k] = h[k]  BY <1>8, <1>5, <1>4
<1>10. s[k] \in D  BY <1>4
<1>11. f[1..k] \in T  BY <1>8, <1>5, <1>10
<1> QED  BY <1>9, <1>11

(* Every sequence has its partial results.                                  *)
LEMMA PartialResults ==
  ASSUME NEW T, NEW D, NEW n \in Nat, NEW s, \A i \in 1..n : s[i] \in D,
         NEW base \in T, NEW g \in [T \X D -> T]
  PROVE  \E h \in [0..n -> T] : Partials(h, n, s, base, g)
<1>1. PICK f \in [SUBSET (1..n) -> T] : FoldsUp(f, n, s, base, g)  BY FoldExists
<1> DEFINE h == [k \in 0..n |-> f[1..k]]
<1>2. \A k \in 0..n : 1..k \in SUBSET (1..n)  OBVIOUS
<1>3. h \in [0..n -> T]  BY <1>2
<1>4. h[0] = base
  <2>1. 1..0 = {} /\ 0 \in 0..n  OBVIOUS
  <2> QED  BY <2>1, <1>1 DEF FoldsUp
<1>5. ASSUME NEW k \in 1..n  PROVE h[k] = g[<<h[k - 1], s[k]>>]
  <2>1. 1..k # {} /\ Max(1..k) = k /\ (1..k) \ {k} = 1..(k - 1)  BY LargestOfAll
  <2>2. k \in 0..n /\ k - 1 \in 0..n  OBVIOUS
  <2>3. f[1..k] = g[<<f[1..(k - 1)], s[k]>>]  BY <2>1, <2>2, <1>1, <1>2 DEF FoldsUp
  <2> QED  BY <2>2, <2>3
<1> HIDE DEF h
<1> QED  BY <1>3, <1>4, <1>5 DEF Partials

LEMMA FoldStays ==
  ASSUME NEW T, NEW D, NEW n \in Nat, NEW s, \A i \in 1..n : s[i] \in D,
         NEW base \in T, NEW g \in [T \X D -> T], NEW f, FoldsIn(f, T, n, s, base, g)
  PROVE  f[1..n] \in T
<1>1. PICK h \in [0..n -> T] : Partials(h, n, s, base, g)
  BY PartialResults
<1> QED  BY <1>1, FoldIsUnique

LEMMA FoldReaches ==
  \A T, D, base, r, e, h : \A q \in Nat : \A g \in [T \X D -> T] :
    base \in T /\ (\A i \in 1..q : r[i] \in D) /\ Partials(h, q, r, base, g) /\ FoldsIn(e, T, q, r, base, g)
      => e[1..q] = h[q] /\ e[1..q] \in T
<1>1. TAKE T, D, base, r, e, h
<1>2. TAKE q \in Nat
<1>3. TAKE g \in [T \X D -> T]
<1>4. HAVE base \in T /\ (\A i \in 1..q : r[i] \in D) /\ Partials(h, q, r, base, g) /\ FoldsIn(e, T, q, r, base, g)
<1> QED  BY <1>4, FoldIsUnique

-----------------------------------------------------------------------------
(* The exits of the study of recorded books.                                *)
LEMMA FiniteHasLargest ==
  ASSUME NEW S, S \subseteq Nat, IsFiniteSet(S), S # {}
  PROVE  \E x \in S : \A y \in S : y <= x
<1> DEFINE Bad == {k \in Nat : \E R : /\ R \subseteq Nat /\ IsFiniteSet(R) /\ R # {} /\ Cardinality(R) = k
                                      /\ \A x \in R : \E y \in R : ~(y <= x)}
<1>1. SUFFICES ASSUME ~\E x \in S : \A y \in S : y <= x  PROVE FALSE
  OBVIOUS
<1>2. Cardinality(S) \in Nat  BY FS_CardinalityType
<1>3. Cardinality(S) \in Bad  BY <1>1, <1>2
<1>4. PICK k \in Bad : \A q \in Bad : k <= q
  <2>1. Bad \in SUBSET Nat  OBVIOUS
  <2> HIDE DEF Bad
  <2> QED  BY <1>3, <2>1, FirstNumber
<1>5. PICK R : /\ R \subseteq Nat /\ IsFiniteSet(R) /\ R # {} /\ Cardinality(R) = k
               /\ \A x \in R : \E y \in R : ~(y <= x)
  OBVIOUS
<1>6. PICK r \in R : TRUE  BY <1>5
<1> DEFINE Q == R \ {r}
<1>7. IsFiniteSet(Q) /\ Cardinality(Q) = k - 1  BY <1>5, <1>6, FS_RemoveElement
<1>8. k \in Nat /\ Cardinality(Q) \in Nat  BY <1>7, FS_CardinalityType
<1>9. Q # {}  BY <1>5, <1>6
<1>10. k - 1 \notin Bad
  <2> HIDE DEF Bad
  <2> QED  BY <1>4, <1>8
<1>11. PICK x \in Q : \A y \in Q : y <= x  BY <1>5, <1>7, <1>8, <1>9, <1>10
<1>12. x \in R /\ x \in Nat /\ r \in Nat  BY <1>5, <1>6
<1>13. \A y \in R : y \in Nat /\ (y = r \/ y \in Q)  BY <1>5
<1> HIDE DEF Q, Bad
<1>14. CASE r <= x  BY <1>5, <1>11, <1>12, <1>13, <1>14
<1>15. CASE ~(r <= x)
  <2>1. \A y \in R : y <= r  BY <1>11, <1>12, <1>13, <1>15
  <2> QED  BY <2>1, <1>5, <1>6
<1> QED  BY <1>14, <1>15

LEMMA LongestIsLongest ==
  ASSUME NEW hold \in Holds, NEW rest \in Rests
  PROVE  LongestWindow \in Nat /\ hold + rest <= LongestWindow
<1>1. PICK h \in Holds : \A y \in Holds : y <= h  BY RecordedAssumption, FiniteHasLargest
<1>2. PICK r \in Rests : \A y \in Rests : y <= r  BY RecordedAssumption, FiniteHasLargest
<1>3. \A y \in Holds : y \in Nat  BY RecordedAssumption
<1>4. \A z \in Rests : z \in Nat  BY RecordedAssumption
<1>5. Max(Holds) \in Holds /\ \A y \in Holds : Max(Holds) >= y  BY <1>1, <1>3 DEF Max
<1>6. Max(Rests) \in Rests /\ \A y \in Rests : Max(Rests) >= y  BY <1>2, <1>4 DEF Max
<1> QED  BY <1>3, <1>4, <1>5, <1>6 DEF LongestWindow

Sampled == {b \in Kept : TwoSided(b)}
SeriesInv == series \in Seq([at : Nat, book : Sampled]) /\ offset \in Nat

(* The signals of the study have a window that ends before the close.       *)
LEMMA TriggersFit ==
  ASSUME NEW s \in Seq([at : Nat, book : Sampled]), NEW i \in StudyTriggers(s)
  PROVE  i \in 1..Len(s) /\ s[i].at + LongestWindow <= CloseOffset
<1> DEFINE n == Len(s)
           it == [k \in DOMAIN s |-> k]
           base == [last |-> -StudyCooldown, kept |-> {}]
           op(acc, k) == Considered(s, acc, k)
           F == CHOOSE iter : iter = [S \in SUBSET (DOMAIN it) |->
                  IF S = {} THEN base ELSE op(iter[S \ {Max(S)}], it[Max(S)])]
           Affords == {k \in 1..n : s[k].at + LongestWindow <= CloseOffset}
           T == [last : {-StudyCooldown} \cup {s[k].at : k \in 1..n}, kept : SUBSET Affords]
           g == [x \in T \X (1..n) |-> op(x[1], x[2])]
<1>1. StudyTriggers(s) = FoldLeft(op, base, it).kept
  BY Zenon DEF StudyTriggers
<1>2. FoldLeft(op, base, it) = F[DOMAIN it]
  <2> HIDE DEF op, base, it
  <2> QED  BY Zenon DEF FoldLeft, MapThenFoldSet
<1>3. n \in Nat /\ DOMAIN it = 1..n /\ \A k \in 1..n : it[k] = k
  OBVIOUS
<1>4. base \in T  OBVIOUS
<1>5. \A acc \in T, k \in 1..n : op(acc, k) \in T  BY DEF Considered
<1>6. g \in [T \X (1..n) -> T] /\ \A acc \in T, k \in 1..n : g[<<acc, k>>] = op(acc, k)
  <2> HIDE DEF op, T
  <2> QED  BY <1>5
<1> HIDE DEF T, g, op, it, base, n
<1> DEFINE D == 1..n
<1>16. n \in Nat /\ base \in T /\ g \in [T \X D -> T] /\ \A k \in 1..n : it[k] \in D
  BY <1>3, <1>4, <1>6
<1>7. PICK f \in [SUBSET (1..n) -> T] : FoldsUp(f, n, it, base, g)
  <2> HIDE DEF D
  <2> QED  BY <1>16, FoldExists
<1>8. \A S \in SUBSET (1..n) : S # {} => Max(S) \in 1..n /\ S \ {Max(S)} \in SUBSET (1..n)
  BY <1>3, LargestNumber
<1>9. \A S \in SUBSET (1..n) : f[S] = IF S = {} THEN base ELSE op(f[S \ {Max(S)}], it[Max(S)])
  <2>1. TAKE S \in SUBSET (1..n)
  <2>2. CASE S = {}  BY <2>2, <1>7 DEF FoldsUp
  <2>3. CASE S # {}
    <3>1. Max(S) \in 1..n /\ S \ {Max(S)} \in SUBSET (1..n)  BY <2>3, <1>8
    <3>2. f[S \ {Max(S)}] \in T /\ it[Max(S)] \in 1..n  BY <3>1, <1>3
    <3>3. g[<<f[S \ {Max(S)}], it[Max(S)]>>] = op(f[S \ {Max(S)}], it[Max(S)])  BY <3>2, <1>6
    <3> QED  BY <3>3, <2>3, <1>7 DEF FoldsUp
  <2> QED  BY <2>2, <2>3
<1>10. f = [S \in SUBSET (DOMAIN it) |-> IF S = {} THEN base ELSE op(f[S \ {Max(S)}], it[Max(S)])]
  BY <1>9, <1>3
<1>11. F = [S \in SUBSET (DOMAIN it) |-> IF S = {} THEN base ELSE op(F[S \ {Max(S)}], it[Max(S)])]
  <2>1. \E iter : iter = [S \in SUBSET (DOMAIN it) |->
                            IF S = {} THEN base ELSE op(iter[S \ {Max(S)}], it[Max(S)])]
    BY <1>10
  <2> QED  BY <2>1
<1> HIDE DEF F
<1>12. F[{}] = base  BY <1>11
<1>13. ASSUME NEW S \in SUBSET (1..n), S # {}, F[S \ {Max(S)}] \in T
       PROVE  F[S] = g[<<F[S \ {Max(S)}], it[Max(S)]>>]
  <2>1. F[S] = op(F[S \ {Max(S)}], it[Max(S)])  BY <1>11, <1>13, <1>3
  <2>2. it[Max(S)] \in 1..n  BY <1>13, <1>8, <1>3
  <2> QED  BY <2>1, <2>2, <1>13, <1>6
<1>15. F[1..n] \in T
  <2>1. FoldsIn(F, T, n, it, base, g)  BY <1>12, <1>13 DEF FoldsIn
  <2> HIDE DEF D
  <2> QED  BY <1>16, <2>1, FoldStays
<1>17. StudyTriggers(s) \subseteq Affords
  <2>1. StudyTriggers(s) = F[1..n].kept  BY <1>1, <1>2, <1>3
  <2> QED  BY <2>1, <1>15 DEF T
<1> QED  BY <1>17 DEF n

LEMMA LastBefore ==
  ASSUME NEW s \in Seq([at : Nat, book : Sampled]), NEW when \in Int,
         NEW k \in 1..Len(s), s[k].at <= when
  PROVE  LET m == Max({j \in DOMAIN s : s[j].at <= when})
         IN  m \in 1..Len(s) /\ s[m].at <= when /\ k <= m
<1> DEFINE J == {j \in DOMAIN s : s[j].at <= when}
<1>1. Len(s) \in Nat /\ DOMAIN s = 1..Len(s)  OBVIOUS
<1>2. J \in SUBSET (1..Len(s)) /\ k \in J  BY <1>1
<1>3. Max(J) \in J /\ \A y \in J : y <= Max(J)
  <2> HIDE DEF J
  <2> QED  BY <1>1, <1>2, LargestNumber
<1> QED  BY <1>1, <1>2, <1>3

(* A gain in ten-thousandths grows with the gain in ticks.                   *)
LEMMA Scaled ==
  ASSUME NEW d \in Nat, NEW k \in Nat
  PROVE  d * k * k >= 0
<1>1. \A a, b \in Nat : a * b \in Nat  BY SMT
<1>2. d * k \in Nat  BY <1>1
<1>3. (d * k) * k \in Nat  BY <1>1, <1>2
<1> QED  BY <1>3

LEMMA MoreIsMore ==
  ASSUME NEW a \in Int, NEW b \in Int, NEW k \in Nat, a <= b
  PROVE  a * k * k \in Int /\ b * k * k \in Int /\ a * k * k <= b * k * k
<1>1. b - a \in Nat  OBVIOUS
<1>2. (b - a) * k * k >= 0  BY <1>1, Scaled
<1>3. b * k * k = a * k * k + (b - a) * k * k  BY SMT
<1>4. a * k * k \in Int /\ b * k * k \in Int /\ (b - a) * k * k \in Int
  BY SMT
<1> QED  BY <1>2, <1>3, <1>4

LEMMA FeesCost ==
  ASSUME NEW p \in 0..OneDollar
  PROVE  CrossFee(p) \in Nat
<1>1. p \in Nat /\ OneDollar - p \in Nat  BY RecordedAssumption
<1>2. \A a, b \in Nat : a * b \in Nat  BY SMT
<1>3. 7 * p \in Nat  BY <1>1
<1>4. (7 * p) * (OneDollar - p) \in Nat  BY <1>1, <1>2, <1>3
<1> QED  BY <1>4 DEF CrossFee

LEMMA ExitIsBracketed ==
  ASSUME NEW s \in Seq([at : Nat, book : Sampled]), NEW i \in 1..Len(s),
         NEW hold \in Nat, NEW rest \in Nat
  PROVE  LET e == Simulate(s, i, hold, rest)
         IN  /\ e.until \in Int /\ e.until <= s[i].at + hold + rest
             /\ Realised(e, e.conservative) <= Realised(e, e.optimistic)
<1>3. Len(s) \in Nat /\ DOMAIN s = 1..Len(s) /\ \A j \in 1..Len(s) : s[j].at \in Nat /\ s[j].book \in Sampled
  <2>1. Len(s) \in Nat /\ DOMAIN s = 1..Len(s)  OBVIOUS
  <2>2. \A j \in 1..Len(s) : s[j] \in [at : Nat, book : Sampled]  BY ElementOfSeq
  <2> QED  BY <2>1, <2>2
<1> DEFINE x == ExitIndex(s, i, hold)
           long == Buying(s[i].book)
           entry == EntryOf(s[i].book)
           touch(b) == IF long THEN b.ask ELSE b.bid
           size(b) == IF long THEN b.askSz ELSE b.bidSz
           price == touch(s[x].book)
           deadline == s[x].at + rest
           watched == {s[j].book : j \in {j \in DOMAIN s : j > x /\ s[j].at <= deadline}}
           through == \E b \in watched : IF long THEN b.bid >= price ELSE b.ask <= price
           cleared == \E b \in watched :
             \/ IF long THEN b.ask > price ELSE b.bid < price
             \/ touch(b) = price /\ size(b) = 0
           depleted == \E b \in watched : touch(b) = price /\ size(b) < size(s[x].book)
           last == CrossedInto(s, deadline)
           crossed == IF long THEN last.bid ELSE last.ask
           gain(at) == (IF long THEN at - entry ELSE entry - at) * OneDollar * OneDollar
                         - CrossFee(entry)
           e == Simulate(s, i, hold, rest)
<1>1. e = [optimistic |-> through \/ cleared \/ depleted, conservative |-> through /\ cleared,
           filled |-> gain(price), never |-> gain(crossed) - CrossFee(crossed), until |-> deadline]
  BY Zenon DEF Simulate
<1>2. /\ e.optimistic = (through \/ cleared \/ depleted) /\ e.conservative = (through /\ cleared)
      /\ e.filled = gain(price) /\ e.never = gain(crossed) - CrossFee(crossed) /\ e.until = deadline
  <2> HIDE DEF through, cleared, depleted, gain, price, crossed, deadline, e
  <2> QED  BY <1>1
<1>4. \A b \in Sampled : b.bid \in 0..OneDollar /\ b.ask \in 0..OneDollar /\ b.bid <= b.ask
  BY RecordedAssumption DEF Sampled, TwoSided
<1>5. x \in 1..Len(s) /\ s[x].at <= s[i].at + hold
  <2>1. s[i].at + hold \in Int /\ s[i].at <= s[i].at + hold  BY <1>3
  <2> QED  BY <2>1, LastBefore DEF ExitIndex
<1>6. e.until \in Int /\ e.until <= s[i].at + hold + rest
  <2>1. s[i].at \in Nat  BY <1>3
  <2>2. s[x].at \in Nat  BY <1>3, <1>5
  <2>3. e.until = s[x].at + rest  BY <1>2
  <2>4. s[x].at <= s[i].at + hold  BY <1>5
  <2> HIDE DEF x, e
  <2>5. s[x].at + rest \in Int /\ s[x].at + rest <= s[i].at + hold + rest  BY ONLY <2>1, <2>2, <2>4
  <2> QED  BY ONLY <2>3, <2>5
<1> DEFINE m == Max({k \in DOMAIN s : s[k].at <= deadline})
<1>7. /\ m \in 1..Len(s) /\ s[m].at <= deadline
      /\ \A j \in 1..Len(s) : s[j].at <= deadline => j <= m
  <2>1. deadline \in Int /\ s[x].at <= deadline  BY <1>3, <1>5
  <2> HIDE DEF deadline, x
  <2> QED  BY <2>1, <1>5, LastBefore
<1>8. last = s[m].book  BY DEF CrossedInto, BookAt
<1>9. last \in Sampled /\ s[x].book \in Sampled /\ s[i].book \in Sampled
  <2> HIDE DEF m, x, last
  <2> QED  BY <1>3, <1>5, <1>7, <1>8
<1>10. crossed \in 0..OneDollar /\ price \in 0..OneDollar /\ entry \in 0..OneDollar
  <2> HIDE DEF last, x
  <2> QED  BY <1>9, <1>4 DEF EntryOf
<1>11. CrossFee(crossed) \in Nat /\ CrossFee(entry) \in Nat
  <2> HIDE DEF crossed, entry
  <2> QED  BY <1>10, FeesCost
<1>12. gain(price) \in Int /\ gain(crossed) \in Int
  <2> HIDE DEF crossed, entry, price, long
  <2>1. crossed \in Int /\ price \in Int /\ entry \in Int /\ OneDollar \in Nat
    BY <1>10, RecordedAssumption
  <2>2. \A a \in Int : a * OneDollar * OneDollar \in Int  BY <2>1
  <2>3. crossed - entry \in Int /\ entry - crossed \in Int /\ price - entry \in Int /\ entry - price \in Int
    BY <2>1
  <2>4. /\ (crossed - entry) * OneDollar * OneDollar \in Int /\ (entry - crossed) * OneDollar * OneDollar \in Int
        /\ (price - entry) * OneDollar * OneDollar \in Int /\ (entry - price) * OneDollar * OneDollar \in Int
    BY <2>2, <2>3
  <2>5. CASE long  BY <2>4, <2>5, <1>11
  <2>6. CASE ~long  BY <2>4, <2>6, <1>11
  <2> QED  BY <2>5, <2>6
<1>13. (IF long THEN crossed <= price ELSE price <= crossed) => gain(crossed) <= gain(price)
  <2> HIDE DEF crossed, entry, price, long
  <2>1. crossed \in Int /\ price \in Int /\ entry \in Int /\ OneDollar \in Nat
    BY <1>10, RecordedAssumption
  <2>2. ASSUME long, crossed <= price  PROVE gain(crossed) <= gain(price)
    <3>1. crossed - entry \in Int /\ price - entry \in Int /\ crossed - entry <= price - entry  BY <2>1, <2>2
    <3>2. /\ (crossed - entry) * OneDollar * OneDollar \in Int /\ (price - entry) * OneDollar * OneDollar \in Int
          /\ (crossed - entry) * OneDollar * OneDollar <= (price - entry) * OneDollar * OneDollar
      BY <3>1, <2>1, MoreIsMore
    <3> QED  BY <3>2, <2>2, <1>11
  <2>3. ASSUME ~long, price <= crossed  PROVE gain(crossed) <= gain(price)
    <3>1. entry - crossed \in Int /\ entry - price \in Int /\ entry - crossed <= entry - price  BY <2>1, <2>3
    <3>2. /\ (entry - crossed) * OneDollar * OneDollar \in Int /\ (entry - price) * OneDollar * OneDollar \in Int
          /\ (entry - crossed) * OneDollar * OneDollar <= (entry - price) * OneDollar * OneDollar
      BY <3>1, <2>1, MoreIsMore
    <3> QED  BY <3>2, <2>3, <1>11
  <2> QED  BY <2>2, <2>3
<1>14. ~(through /\ cleared) /\ (through \/ cleared \/ depleted) =>
         IF long THEN crossed <= price ELSE price <= crossed
  <2> SUFFICES ASSUME ~(through /\ cleared), through \/ cleared \/ depleted
               PROVE  IF long THEN crossed <= price ELSE price <= crossed
    OBVIOUS
  <2>1. \E b \in watched : TRUE
    <3> HIDE DEF watched
    <3> QED  OBVIOUS
  <2>2. PICK j \in 1..Len(s) : j > x /\ s[j].at <= deadline
    <3> HIDE DEF x, deadline
    <3> QED  BY <2>1, <1>3
  <2>3. m > x
    <3> HIDE DEF m, x, deadline
    <3> QED  BY <2>2, <1>5, <1>7
  <2>4. last \in watched
    <3> HIDE DEF m, x, deadline, last
    <3> QED  BY <2>3, <1>3, <1>7, <1>8
  <2>5. /\ through <=> \E b \in watched : IF long THEN b.bid >= price ELSE b.ask <= price
        /\ (\E b \in watched : IF long THEN b.ask > price ELSE b.bid < price) => cleared
    <3> HIDE DEF watched, price, long
    <3> QED  OBVIOUS
  <2> HIDE DEF m, x, deadline, last, watched, price, through, cleared, long
  <2>6. last.bid \in Int /\ last.ask \in Int /\ last.bid <= last.ask /\ price \in Int
    <3>1. OneDollar \in Nat /\ price \in 0..OneDollar  BY <1>10, RecordedAssumption
    <3> QED  BY <3>1, <1>9, <1>4
  <2>7. CASE ~through  BY <2>7, <2>4, <2>5, <2>6
  <2>8. CASE ~cleared  BY <2>8, <2>4, <2>5, <2>6
  <2> QED  BY <2>7, <2>8
<1>15. Realised(e, e.conservative) <= Realised(e, e.optimistic)
  <2> HIDE DEF e, gain, through, cleared, depleted, crossed, price, long
  <2>1. e.filled \in Int /\ e.never \in Int  BY <1>2, <1>11, <1>12
  <2>2. ~e.conservative /\ e.optimistic => e.never <= e.filled  BY <1>2, <1>11, <1>12, <1>13, <1>14
  <2>3. e.conservative => e.optimistic  BY <1>2
  <2> QED  BY <2>1, <2>2, <2>3 DEF Realised
<1> QED  BY <1>6, <1>15

LEMMA MorePatience ==
  ASSUME NEW s \in Seq([at : Nat, book : Sampled]), NEW i \in 1..Len(s),
         NEW hold \in Nat, NEW rest \in Nat, NEW longer \in Nat, longer >= rest,
         Simulate(s, i, hold, rest).conservative
  PROVE  Simulate(s, i, hold, longer).conservative
<1> DEFINE x == ExitIndex(s, i, hold)
           long == Buying(s[i].book)
           touch(b) == IF long THEN b.ask ELSE b.bid
           size(b) == IF long THEN b.askSz ELSE b.bidSz
           price == touch(s[x].book)
           watched(r) == {s[j].book : j \in {j \in DOMAIN s : j > x /\ s[j].at <= s[x].at + r}}
           through(r) == \E b \in watched(r) : IF long THEN b.bid >= price ELSE b.ask <= price
           cleared(r) == \E b \in watched(r) :
             \/ IF long THEN b.ask > price ELSE b.bid < price
             \/ touch(b) = price /\ size(b) = 0
<1>1. \A r \in Nat : Simulate(s, i, hold, r).conservative = (through(r) /\ cleared(r))
  BY DEF Simulate
<1>2. x \in 1..Len(s)
  <2>1. Len(s) \in Nat  OBVIOUS
  <2>2. s[i] \in [at : Nat, book : Sampled]  BY ElementOfSeq
  <2>3. s[i].at + hold \in Int /\ s[i].at <= s[i].at + hold  BY <2>2
  <2> QED  BY <2>3, LastBefore DEF ExitIndex
<1>3. \A j \in DOMAIN s : s[j].at \in Nat
  <2>1. DOMAIN s = 1..Len(s)  OBVIOUS
  <2>2. \A j \in 1..Len(s) : s[j] \in [at : Nat, book : Sampled]  BY ElementOfSeq
  <2> QED  BY <2>1, <2>2
<1>4. s[x].at \in Nat
  <2>1. s[x] \in [at : Nat, book : Sampled]  BY <1>2, ElementOfSeq
  <2> QED  BY <2>1
<1> HIDE DEF x
<1>5. \A j \in DOMAIN s : s[j].at <= s[x].at + rest => s[j].at <= s[x].at + longer
  BY <1>3, <1>4
<1>6. watched(rest) \subseteq watched(longer)  BY <1>5
<1> HIDE DEF watched, price, long
<1>7. through(rest) /\ cleared(rest) => through(longer) /\ cleared(longer)  BY Zenon, <1>6
<1> QED  BY <1>1, <1>7

LEMMA ExitsFollow ==
  ASSUME SeriesInv  PROVE ExitsAreBracketed
<1> SUFFICES ASSUME NEW hold \in Holds, NEW rest \in Rests, NEW z \in Exits(series, hold, rest)
             PROVE  /\ z[2].until <= CloseOffset
                    /\ Realised(z[2], z[2].conservative) <= Realised(z[2], z[2].optimistic)
                    /\ \A longer \in Rests : longer >= rest =>
                         (z[2].conservative => Simulate(series, z[1], hold, longer).conservative)
  BY Zenon DEF ExitsAreBracketed
<1>1. series \in Seq([at : Nat, book : Sampled])  BY DEF SeriesInv
<1>2. PICK i \in StudyTriggers(series) : z = <<i, Simulate(series, i, hold, rest)>>  BY DEF Exits
<1>3. i \in 1..Len(series) /\ series[i].at + LongestWindow <= CloseOffset  BY <1>1, TriggersFit
<1>4. hold \in Nat /\ rest \in Nat /\ \A longer \in Rests : longer \in Nat  BY RecordedAssumption
<1>5. LongestWindow \in Nat /\ hold + rest <= LongestWindow  BY LongestIsLongest
<1> DEFINE e == Simulate(series, i, hold, rest)
<1>6. /\ e.until \in Int /\ e.until <= series[i].at + hold + rest
      /\ Realised(e, e.conservative) <= Realised(e, e.optimistic)
  BY <1>1, <1>3, <1>4, ExitIsBracketed
<1>7. \A longer \in Rests : longer >= rest => (e.conservative => Simulate(series, i, hold, longer).conservative)
  BY <1>1, <1>3, <1>4, MorePatience
<1>9. e.until <= CloseOffset
  <2>1. series[i] \in [at : Nat, book : Sampled]  BY <1>1, <1>3, ElementOfSeq
  <2>2. CloseOffset \in Int  BY RecordedAssumption
  <2> HIDE DEF e
  <2> QED  BY <2>1, <2>2, <1>3, <1>4, <1>5, <1>6
<1> HIDE DEF e
<1>10. z[1] = i /\ z[2] = e  BY <1>2 DEF e
<1> QED  BY <1>6, <1>7, <1>9, <1>10

LEMMA SeriesGoesOn == SeriesInv /\ (RecordedStep \/ UNCHANGED recordings) => SeriesInv'
<1>1. ASSUME SeriesInv, Sample  PROVE SeriesInv'
  <2>1. offset' = offset  BY <1>1 DEF Sample
  <2>2. PICK b \in Kept : IF TwoSided(b) THEN series' = Append(series, [at |-> offset, book |-> b])
                          ELSE series' = series
    BY <1>1 DEF Sample
  <2>3. CASE TwoSided(b)
    <3>1. [at |-> offset, book |-> b] \in [at : Nat, book : Sampled]  BY <2>3, <1>1 DEF Sampled, SeriesInv
    <3>2. series' = Append(series, [at |-> offset, book |-> b])  BY <2>2, <2>3
    <3> QED  BY <3>1, <3>2, <2>1, <1>1, AppendProperties DEF SeriesInv
  <2>4. CASE ~TwoSided(b)  BY <2>1, <2>2, <2>4, <1>1 DEF SeriesInv, Sampled
  <2> QED  BY <2>3, <2>4
<1>2. ASSUME SeriesInv, OffsetGrows  PROVE SeriesInv'
  BY <1>2 DEF OffsetGrows, SeriesInv, Sampled
<1>3. ASSUME SeriesInv, NextRecording  PROVE SeriesInv'
  BY <1>3 DEF NextRecording, SeriesInv, Sampled
<1>4. ASSUME SeriesInv, UNCHANGED recordings  PROVE SeriesInv'
  BY <1>4 DEF recordings, SeriesInv, Sampled
<1> QED  BY <1>1, <1>2, <1>3, <1>4 DEF RecordedStep

(* An exit that the strict rule believes filled the loose rule believes     *)
(* too, and pays no less by either; more patience fills no fewer; and no    *)
(* exit is watched past the close (exit_fill_study.py:141, :281).           *)
THEOREM ExitsStayBracketed == Spec => []ExitsAreBracketed
<1>1. Init => SeriesInv  BY DEF Init, RecordedInit, SeriesInv, Sampled
<1>2. [Next]_vars => RecordedStep \/ UNCHANGED recordings
  <2>1. UNCHANGED vars => UNCHANGED recordings  BY DEF vars
  <2>2. Next => RecordedStep \/ UNCHANGED recordings  BY Zenon DEF Next, Still
  <2> QED  BY <2>1, <2>2
<1>3. SeriesInv /\ [Next]_vars => SeriesInv'  BY <1>2, SeriesGoesOn
<1>4. SeriesInv => ExitsAreBracketed  BY ExitsFollow
<1> QED  BY <1>1, <1>3, <1>4, PTL DEF Spec

-----------------------------------------------------------------------------
(* The polled books.  A reader starts from the book polled before and       *)
(* applies each delta; after k of them it has the new size at the levels    *)
(* those k were of.                                                         *)
Sides == {"yes", "no"}
Sizes == [PriceLevels -> Nat]
PolledBook == [yes : Sizes, no : Sizes]
ReadBook == [yes : [PriceLevels -> Int], no : [PriceLevels -> Int]]
Delta(t) == [type : {"delta"}, seq : Int, ticker : {t}, side : Sides, price : PriceLevels, by : Int]

(* w has a delta of every level that differs, and one of each.              *)
Describes(w, n, before, after) ==
  /\ \A i \in 1..n : w[i].by = after[w[i].side][w[i].price] - before[w[i].side][w[i].price]
  /\ \A i, j \in 1..n : w[i].side = w[j].side /\ w[i].price = w[j].price => i = j
  /\ \A s \in Sides, p \in PriceLevels :
       after[s][p] # before[s][p] => \E i \in 1..n : w[i].side = s /\ w[i].price = p

AppliedFolder(base, w) ==
  CHOOSE iter : iter = [S \in SUBSET (DOMAIN w) |->
    IF S = {} THEN base ELSE Applied(iter[S \ {Max(S)}], w[Max(S)])]

LEMMA AppliedStays ==
  ASSUME NEW t, NEW book \in ReadBook, NEW m \in Delta(t)
  PROVE  Applied(book, m) \in ReadBook
<1>1. m.type = "delta" /\ m.side \in Sides /\ m.price \in PriceLevels /\ m.by \in Int  BY DEF Delta
<1>2. book.yes \in [PriceLevels -> Int] /\ book.no \in [PriceLevels -> Int]  BY DEF ReadBook
<1>3. Applied(book, m) = [book EXCEPT ![m.side][m.price] = @ + m.by]  BY <1>1 DEF Applied
<1> DEFINE half(s) == [book[s] EXCEPT ![m.price] = @ + m.by]
<1>4. ASSUME NEW f \in [PriceLevels -> Int]  PROVE [f EXCEPT ![m.price] = @ + m.by] \in [PriceLevels -> Int]
  <2>1. f[m.price] + m.by \in Int  BY <1>1
  <2> QED  BY <2>1
<1>5. CASE m.side = "yes"
  <2>1. Applied(book, m) = [yes |-> half("yes"), no |-> book.no]  BY <1>3, <1>5 DEF ReadBook
  <2>2. half("yes") \in [PriceLevels -> Int]  BY <1>2, <1>4
  <2> HIDE DEF half
  <2> QED  BY <2>1, <2>2, <1>2 DEF ReadBook
<1>6. CASE m.side = "no"
  <2>1. Applied(book, m) = [yes |-> book.yes, no |-> half("no")]  BY <1>3, <1>6 DEF ReadBook
  <2>2. half("no") \in [PriceLevels -> Int]  BY <1>2, <1>4
  <2> HIDE DEF half
  <2> QED  BY <2>1, <2>2, <1>2 DEF ReadBook
<1> QED  BY <1>1, <1>5, <1>6 DEF Sides

LEMMA AppliedFolds ==
  ASSUME NEW D, NEW q, NEW n \in Nat, DOMAIN q = 1..n, \A i \in 1..n : q[i] \in D,
         NEW base \in ReadBook, NEW g \in [ReadBook \X D -> ReadBook],
         \A acc \in ReadBook, m \in D : g[<<acc, m>>] = Applied(acc, m)
  PROVE  FoldsIn(AppliedFolder(base, q), ReadBook, n, q, base, g)
<1> DEFINE F == AppliedFolder(base, q)
<1>4. PICK f \in [SUBSET (1..n) -> ReadBook] : FoldsUp(f, n, q, base, g)
  BY FoldExists
<1>5. \A S \in SUBSET (1..n) : S # {} => Max(S) \in 1..n /\ S \ {Max(S)} \in SUBSET (1..n)
  BY LargestNumber
<1>6. \A S \in SUBSET (1..n) :
        f[S] = IF S = {} THEN base ELSE Applied(f[S \ {Max(S)}], q[Max(S)])
  <2>1. TAKE S \in SUBSET (1..n)
  <2>2. CASE S = {}  BY <2>2, <1>4 DEF FoldsUp
  <2>3. CASE S # {}
    <3>1. f[S \ {Max(S)}] \in ReadBook /\ q[Max(S)] \in D  BY <2>3, <1>5
    <3> QED  BY <3>1, <2>3, <1>4 DEF FoldsUp
  <2> QED  BY <2>2, <2>3
<1>7. f = [S \in SUBSET (DOMAIN q) |-> IF S = {} THEN base ELSE Applied(f[S \ {Max(S)}], q[Max(S)])]
  BY <1>6
<1>8. F = [S \in SUBSET (DOMAIN q) |-> IF S = {} THEN base ELSE Applied(F[S \ {Max(S)}], q[Max(S)])]
  <2>1. \E iter : iter = [S \in SUBSET (DOMAIN q) |->
                            IF S = {} THEN base ELSE Applied(iter[S \ {Max(S)}], q[Max(S)])]
    BY <1>7
  <2> QED  BY <2>1 DEF AppliedFolder
<1> HIDE DEF F
<1>9. F[{}] = base  BY <1>8
<1>10. ASSUME NEW S \in SUBSET (1..n), S # {}, F[S \ {Max(S)}] \in ReadBook
       PROVE  F[S] = g[<<F[S \ {Max(S)}], q[Max(S)]>>]
  <2>1. F[S] = Applied(F[S \ {Max(S)}], q[Max(S)])  BY <1>8, <1>10
  <2>2. q[Max(S)] \in D  BY <1>10, <1>5
  <2> QED  BY <2>1, <2>2, <1>10
<1>11. FoldsIn(F, ReadBook, n, q, base, g)  BY <1>9, <1>10 DEF FoldsIn
<1> QED  BY <1>11 DEF F

LEMMA FoldIsApplied ==
  ASSUME NEW base, NEW w
  PROVE  FoldLeft(Applied, base, w) = AppliedFolder(base, w)[DOMAIN w]
BY Zenon DEF FoldLeft, MapThenFoldSet, AppliedFolder

LEMMA DeltasRebuild ==
  ASSUME NEW t, NEW n \in Nat, NEW w, DOMAIN w = 1..n, \A i \in 1..n : w[i] \in Delta(t),
         NEW before \in PolledBook, NEW after \in PolledBook, Describes(w, n, before, after)
  PROVE  FoldLeft(Applied, before, w) = after
<1> DEFINE D == Delta(t)
           g == [x \in ReadBook \X D |-> Applied(x[1], x[2])]
           Told(k, s, p) == \E i \in 1..k : w[i].side = s /\ w[i].price = p
           half(k, s) == [p \in PriceLevels |-> IF Told(k, s, p) THEN after[s][p] ELSE before[s][p]]
           h == [k \in 0..n |-> [yes |-> half(k, "yes"), no |-> half(k, "no")]]
<1>1. g \in [ReadBook \X D -> ReadBook]  BY AppliedStays
<1>2. \A acc \in ReadBook, m \in D : g[<<acc, m>>] = Applied(acc, m)  OBVIOUS
<1>3. \A s \in Sides : before[s] \in Sizes /\ after[s] \in Sizes  BY DEF Sides, PolledBook
<1>4. before \in ReadBook
  <2>1. \A f \in Sizes : f \in [PriceLevels -> Int]  BY DEF Sizes
  <2> QED  BY <2>1 DEF PolledBook, ReadBook
<1>5. \A i \in 1..n : w[i].side \in Sides /\ w[i].price \in PriceLevels  BY DEF Delta
<1>6. ASSUME NEW k \in 0..n, NEW s \in Sides  PROVE half(k, s) \in [PriceLevels -> Int]
  <2>1. \A p \in PriceLevels : after[s][p] \in Int /\ before[s][p] \in Int  BY <1>3 DEF Sizes
  <2> HIDE DEF Told
  <2> QED  BY <2>1
<1>7. h \in [0..n -> ReadBook]
  <2>1. "yes" \in Sides /\ "no" \in Sides  BY DEF Sides
  <2> HIDE DEF half
  <2> QED  BY <1>6, <2>1 DEF ReadBook
<1>8. h[0] = before
  <2>1. \A s, p : ~Told(0, s, p)  OBVIOUS
  <2> HIDE DEF Told
  <2>2. \A s \in Sides : half(0, s) = before[s]  BY <1>3, <2>1 DEF Sizes
  <2>3. before = [yes |-> before.yes, no |-> before.no]  BY DEF PolledBook
  <2>4. 0 \in 0..n /\ "yes" \in Sides /\ "no" \in Sides  BY DEF Sides
  <2> HIDE DEF half
  <2> QED  BY <2>2, <2>3, <2>4
<1>9. \A s \in Sides : half(n, s) = after[s]
  <2>1. TAKE s \in Sides
  <2>2. \A p \in PriceLevels : ~Told(n, s, p) => after[s][p] = before[s][p]  BY DEF Describes
  <2> HIDE DEF Told
  <2> QED  BY <2>2, <1>3 DEF Sizes
<1>10. h[n] = after
  <2>1. after = [yes |-> after.yes, no |-> after.no]  BY DEF PolledBook
  <2>2. n \in 0..n /\ "yes" \in Sides /\ "no" \in Sides  BY DEF Sides
  <2> HIDE DEF half
  <2> QED  BY <1>9, <2>1, <2>2
<1>11. ASSUME NEW k \in 1..n  PROVE h[k] = g[<<h[k - 1], w[k]>>]
  <2> DEFINE m == w[k]
  <2>1. k \in 0..n /\ k - 1 \in 0..n /\ m \in D  OBVIOUS
  <2>2. m.side \in Sides /\ m.price \in PriceLevels /\ m.type = "delta" /\ m.by \in Int  BY DEF Delta
  <2>3. ASSUME NEW s \in Sides, NEW p \in PriceLevels
        PROVE  Told(k, s, p) <=> Told(k - 1, s, p) \/ (m.side = s /\ m.price = p)
    BY <1>5
  <2>4. ~Told(k - 1, m.side, m.price)
    <3>1. \A i \in 1..(k - 1) : i \in 1..n /\ i # k  OBVIOUS
    <3> QED  BY <3>1 DEF Describes
  <2>5. m.by = after[m.side][m.price] - before[m.side][m.price]  BY DEF Describes
  <2>6. after[m.side][m.price] \in Nat /\ before[m.side][m.price] \in Nat  BY <1>3, <2>2 DEF Sizes
  <2>7. after[m.side][m.price] = before[m.side][m.price] + m.by  BY <2>5, <2>6
  <2> HIDE DEF Told, m
  <2>8. ASSUME NEW s \in Sides, s # m.side  PROVE half(k, s) = half(k - 1, s)
    BY <2>3, <2>8
  <2>9. half(k, m.side) = [half(k - 1, m.side) EXCEPT ![m.price] = @ + m.by]
    <3>1. half(k - 1, m.side)[m.price] = before[m.side][m.price]  BY <2>2, <2>4
    <3>2. half(k, m.side)[m.price] = after[m.side][m.price]  BY <2>2, <2>3
    <3>3. \A p \in PriceLevels : p # m.price => half(k, m.side)[p] = half(k - 1, m.side)[p]  BY <2>2, <2>3
    <3>4. half(k, m.side)[m.price] = half(k - 1, m.side)[m.price] + m.by  BY <3>1, <3>2, <2>7
    <3> DEFINE x == half(k, m.side)  y == half(k - 1, m.side)
    <3>5. DOMAIN x = PriceLevels /\ DOMAIN y = PriceLevels
          /\ x = [p \in PriceLevels |-> x[p]]
      OBVIOUS
    <3> HIDE DEF x, y, half
    <3>6. x[m.price] = y[m.price] + m.by /\ \A p \in PriceLevels : p # m.price => x[p] = y[p]  BY <3>3, <3>4 DEF x, y
    <3>7. x = [y EXCEPT ![m.price] = y[m.price] + m.by]  BY <3>5, <3>6
    <3> QED  BY <3>7 DEF x, y
  <2>10. Applied(h[k - 1], m) = [h[k - 1] EXCEPT ![m.side][m.price] = @ + m.by]  BY <2>2 DEF Applied
  <2> DEFINE b == h[k - 1]
  <2>11. b = [yes |-> half(k - 1, "yes"), no |-> half(k - 1, "no")]
         /\ h[k] = [yes |-> half(k, "yes"), no |-> half(k, "no")]
    BY <2>1
  <2> HIDE DEF half, h
  <2>12. "yes" \in Sides /\ "no" \in Sides /\ "yes" # "no"  BY DEF Sides
  <2>13. CASE m.side = "yes"
    <3>1. half(k, "no") = half(k - 1, "no")  BY <2>8, <2>12, <2>13
    <3>2. half(k, "yes") = [half(k - 1, "yes") EXCEPT ![m.price] = @ + m.by]  BY <2>9, <2>13
    <3>3. Applied(b, m) = [yes |-> [half(k - 1, "yes") EXCEPT ![m.price] = @ + m.by], no |-> half(k - 1, "no")]
      BY <2>10, <2>11, <2>13
    <3> QED  BY <3>1, <3>2, <3>3, <2>1, <2>11, <1>2, <1>7 DEF m
  <2>14. CASE m.side = "no"
    <3>1. half(k, "yes") = half(k - 1, "yes")  BY <2>8, <2>12, <2>14
    <3>2. half(k, "no") = [half(k - 1, "no") EXCEPT ![m.price] = @ + m.by]  BY <2>9, <2>14
    <3>3. Applied(b, m) = [yes |-> half(k - 1, "yes"), no |-> [half(k - 1, "no") EXCEPT ![m.price] = @ + m.by]]
      BY <2>10, <2>11, <2>14
    <3> QED  BY <3>1, <3>2, <3>3, <2>1, <2>11, <1>2, <1>7 DEF m
  <2> QED  BY <2>2, <2>13, <2>14 DEF Sides
<1> HIDE DEF h, g
<1>12. Partials(h, n, w, before, g)  BY <1>8, <1>11 DEF Partials
<1> HIDE DEF D
<1>13. \A i \in 1..n : w[i] \in D  BY DEF D
<1>14. FoldsIn(AppliedFolder(before, w), ReadBook, n, w, before, g)
  BY <1>1, <1>2, <1>4, <1>13, AppliedFolds
<1>15. AppliedFolder(before, w)[1..n] = h[n]
  <2>1. \A q \in Nat : (\A i \in 1..q : w[i] \in D) /\ Partials(h, q, w, before, g)
                         /\ FoldsIn(AppliedFolder(before, w), ReadBook, q, w, before, g)
          => AppliedFolder(before, w)[1..q] = h[q] /\ AppliedFolder(before, w)[1..q] \in ReadBook
    BY ONLY <1>1, <1>4, FoldReaches
  <2> QED  BY <2>1, <1>12, <1>13, <1>14
<1> QED  BY <1>10, <1>15, FoldIsApplied

LEMMA SortedLists ==
  ASSUME NEW P \in SUBSET PriceLevels
  PROVE  /\ Cardinality(P) \in Nat
         /\ Sorted(P) \in [1..Cardinality(P) -> P]
         /\ \A i, j \in 1..Cardinality(P) : Sorted(P)[i] = Sorted(P)[j] => i = j
         /\ \A p \in P : \E i \in 1..Cardinality(P) : Sorted(P)[i] = p
<1>1. DollarLevel \in Nat  BY Zenon, CollectorsAssumption
<1>2. P \in SUBSET (1..DollarLevel)  BY <1>1 DEF PriceLevels
<1>3. \E f \in [1..Cardinality(P) -> P] : \A i, j \in DOMAIN f : i < j => f[i] < f[j]
  <2>1. Listing(P) # {}  BY <1>1, <1>2, SetsAreListed
  <2> QED  BY <2>1 DEF Listing
<1>4. Sorted(P) \in Listing(P)  BY <1>3 DEF Sorted, Listing
<1> QED  BY <1>1, <1>2, <1>4, ListingIsWhole

(* d has the changes of one side of the book.                               *)
OneSide(d, t, side, before, after) ==
  /\ d \in Seq(Delta(t))
  /\ \A i \in 1..Len(d) : d[i].side = side /\ d[i].by = after[d[i].price] - before[d[i].price]
  /\ \A i, j \in 1..Len(d) : d[i].price = d[j].price => i = j
  /\ \A p \in PriceLevels : after[p] # before[p] => \E i \in 1..Len(d) : d[i].price = p

LEMMA DeltasDescribe ==
  ASSUME NEW t, NEW seq \in Int, NEW side \in Sides, NEW before \in Sizes, NEW after \in Sizes
  PROVE  OneSide(DeltaMessages(t, seq, side, before, after), t, side, before, after)
<1> DEFINE P == {p \in PriceLevels : after[p] # before[p]}
           s == Sorted(P)
           n == Cardinality(P)
           d == [i \in 1..n |->
                  [type |-> "delta", seq |-> seq + i, ticker |-> t, side |-> side, price |-> s[i],
                   by |-> after[s[i]] - before[s[i]]]]
<1>1. P \in SUBSET PriceLevels  OBVIOUS
<1>2. /\ n \in Nat /\ s \in [1..n -> P]
      /\ \A i, j \in 1..n : s[i] = s[j] => i = j
      /\ \A p \in P : \E i \in 1..n : s[i] = p
  BY <1>1, SortedLists
<1>3. DeltaMessages(t, seq, side, before, after) = d
  <2>1. Levels(before, after) = PriceLevels  BY DEF Levels, Sizes
  <2>2. DOMAIN s = 1..n  BY <1>2
  <2> QED  BY Zenon, <2>1, <2>2 DEF DeltaMessages
<1>4. \A i \in 1..n : s[i] \in P /\ s[i] \in PriceLevels  BY <1>1, <1>2
<1>5. \A p \in PriceLevels : after[p] - before[p] \in Int  BY DEF Sizes
<1>6. ASSUME NEW p \in P  PROVE \E i \in 1..n : s[i] = p
  BY <1>2
<1>7. \A p \in PriceLevels : after[p] # before[p] => p \in P  OBVIOUS
<1> HIDE DEF P, s, n
<1>8. \A i \in 1..n : d[i] \in Delta(t)
  <2>1. TAKE i \in 1..n
  <2>2. seq + i \in Int  BY <1>2
  <2>3. after[s[i]] - before[s[i]] \in Int  BY <1>4, <1>5
  <2> QED  BY <2>2, <2>3, <1>4 DEF Delta
<1>9. \A i \in 1..n : d[i].side = side /\ d[i].price = s[i] /\ d[i].by = after[s[i]] - before[s[i]]
  OBVIOUS
<1>10. DOMAIN d = 1..n  OBVIOUS
<1> HIDE DEF d
<1>11. d \in Seq(Delta(t)) /\ Len(d) = n
  <2>1. d \in [1..n -> Delta(t)]
    <3>1. d = [i \in 1..n |-> d[i]]  BY DEF d
    <3> QED  BY <3>1, <1>8
  <2> QED  BY <2>1, <1>2
<1>12. OneSide(d, t, side, before, after)
  BY <1>2, <1>6, <1>7, <1>9, <1>11 DEF OneSide
<1> QED  BY <1>3, <1>12

LEMMA SidesDescribe ==
  ASSUME NEW t, NEW d, NEW e, NEW before \in PolledBook, NEW after \in PolledBook,
         OneSide(d, t, "yes", before.yes, after.yes), OneSide(e, t, "no", before.no, after.no)
  PROVE  d \o e \in Seq(Delta(t)) /\ Describes(d \o e, Len(d \o e), before, after)
<1> DEFINE w == d \o e
           k == Len(d)
           n == Len(e)
<1>1. d \in Seq(Delta(t)) /\ e \in Seq(Delta(t)) /\ k \in Nat /\ n \in Nat  BY DEF OneSide
<1>2. /\ w \in Seq(Delta(t)) /\ Len(w) = k + n
      /\ \A i \in 1..(k + n) : w[i] = IF i <= k THEN d[i] ELSE e[i - k]
  BY <1>1, ConcatProperties
<1> HIDE DEF w
<1>3. \A i \in 1..k : i \in 1..(k + n) /\ i <= k /\ w[i] = d[i]
  <2>1. TAKE i \in 1..k
  <2>2. i \in 1..(k + n) /\ i <= k  BY <1>1
  <2> QED  BY <2>2, <1>2
<1>4. \A i \in 1..n : i + k \in 1..(k + n) /\ ~(i + k <= k) /\ w[i + k] = e[i]  BY <1>1, <1>2
<1>5. \A i \in 1..(k + n) : i \in 1..k \/ (i - k \in 1..n /\ w[i] = e[i - k])  BY <1>1, <1>2
<1>6. \A i \in 1..k : d[i].side = "yes" /\ d[i].by = after.yes[d[i].price] - before.yes[d[i].price]
  BY Zenon DEF OneSide
<1>7. \A i \in 1..n : e[i].side = "no" /\ e[i].by = after.no[e[i].price] - before.no[e[i].price]
  BY Zenon DEF OneSide
<1>8. (\A i, j \in 1..k : d[i].price = d[j].price => i = j)
      /\ (\A i, j \in 1..n : e[i].price = e[j].price => i = j)
  BY Zenon DEF OneSide
<1>9. /\ \A p \in PriceLevels : after.yes[p] # before.yes[p] => \E i \in 1..k : d[i].price = p
      /\ \A p \in PriceLevels : after.no[p] # before.no[p] => \E i \in 1..n : e[i].price = p
  BY Zenon DEF OneSide
<1> HIDE DEF k, n
<1>10. ASSUME NEW i \in 1..(k + n)
       PROVE  w[i].by = after[w[i].side][w[i].price] - before[w[i].side][w[i].price]
  <2>1. CASE i \in 1..k  BY <2>1, <1>3, <1>6
  <2>2. CASE i - k \in 1..n /\ w[i] = e[i - k]  BY <2>2, <1>7
  <2> QED  BY <2>1, <2>2, <1>5
<1>11. ASSUME NEW i \in 1..(k + n), NEW j \in 1..(k + n), w[i].side = w[j].side, w[i].price = w[j].price
       PROVE  i = j
  <2>1. CASE i \in 1..k /\ j \in 1..k  BY <2>1, <1>3, <1>8, <1>11
  <2>2. CASE i \in 1..k /\ j - k \in 1..n /\ w[j] = e[j - k]
    <3>1. w[i].side = "yes" /\ w[j].side = "no"  BY <2>2, <1>3, <1>6, <1>7
    <3> QED  BY <3>1, <1>11
  <2>3. CASE j \in 1..k /\ i - k \in 1..n /\ w[i] = e[i - k]
    <3>1. w[j].side = "yes" /\ w[i].side = "no"  BY <2>3, <1>3, <1>6, <1>7
    <3> QED  BY <3>1, <1>11
  <2>4. CASE i - k \in 1..n /\ w[i] = e[i - k] /\ j - k \in 1..n /\ w[j] = e[j - k]
    <3>1. i - k = j - k  BY <2>4, <1>8, <1>11
    <3> QED  BY <3>1, <1>1
  <2> QED  BY <2>1, <2>2, <2>3, <2>4, <1>5
<1>12. ASSUME NEW s \in Sides, NEW p \in PriceLevels, after[s][p] # before[s][p]
       PROVE  \E i \in 1..(k + n) : w[i].side = s /\ w[i].price = p
  <2>1. CASE s = "yes"
    <3>1. PICK i \in 1..k : d[i].price = p  BY <2>1, <1>9, <1>12
    <3> QED  BY <3>1, <2>1, <1>3, <1>6
  <2>2. CASE s = "no"
    <3>1. PICK i \in 1..n : e[i].price = p  BY <2>2, <1>9, <1>12
    <3>2. w[i + k] = e[i] /\ i + k \in 1..(k + n)  BY <1>4
    <3> QED  BY <3>1, <3>2, <2>2, <1>7
  <2> QED  BY <2>1, <2>2 DEF Sides
<1>13. Describes(w, k + n, before, after)  BY <1>10, <1>11, <1>12 DEF Describes
<1> QED  BY <1>2, <1>13 DEF w

LEMMA NumberingKeeps ==
  ASSUME NEW t, NEW q \in Seq(Delta(t)), NEW seq \in Nat, NEW before, NEW after,
         Describes(q, Len(q), before, after)
  PROVE  LET w == Numbered(q, seq)
         IN  /\ w \in Seq(Delta(t)) /\ Len(w) = Len(q) /\ Describes(w, Len(w), before, after)
             /\ \A i \in 1..Len(w) : w[i].seq = seq + i
<1> DEFINE n == Len(q)
           w == Numbered(q, seq)
<1>1. n \in Nat /\ DOMAIN q = 1..n /\ \A i \in 1..n : q[i] \in Delta(t)  BY ElementOfSeq
<1>2. w = [i \in 1..n |-> [q[i] EXCEPT !.seq = seq + i]]  BY <1>1 DEF Numbered
<1> HIDE DEF n, w
<1>3. ASSUME NEW i \in 1..n
      PROVE  /\ w[i] \in Delta(t) /\ w[i].seq = seq + i
             /\ w[i].side = q[i].side /\ w[i].price = q[i].price /\ w[i].by = q[i].by
  <2>1. w[i] = [q[i] EXCEPT !.seq = seq + i] /\ q[i] \in Delta(t)  BY <1>1, <1>2
  <2>2. seq + i \in Int  BY <1>1
  <2> QED  BY <2>1, <2>2 DEF Delta
<1>4. w \in [1..n -> Delta(t)]  BY <1>2, <1>3
<1>5. w \in Seq(Delta(t)) /\ Len(w) = n  BY <1>1, <1>4
<1>6. Describes(w, n, before, after)
  <2>1. Describes(q, n, before, after)  BY DEF n
  <2> QED  BY <2>1, <1>3 DEF Describes
<1> QED  BY <1>3, <1>5, <1>6 DEF w, n

-----------------------------------------------------------------------------
(* What was recorded is what a reader has, and a book the exchange can send.*)
PollInv ==
  /\ pollSeq \in Nat /\ PolledBookRebuilds
  /\ \A t \in DOMAIN recordedBooks : recordedBooks[t] \in PolledBook

LEMMA FetchedIsBook == \A raw \in PolledBooks : FetchBook(raw) \in PolledBook
<1>1. TAKE raw \in PolledBooks
<1>2. raw \in [yes : [PriceLevels -> Nat], no : [PriceLevels -> Nat]] /\ DollarLevel \in Nat
  BY Zenon, CollectorsAssumption
<1>3. raw.yes \in Sizes /\ raw.no \in Sizes  BY <1>2 DEF Sizes
<1>4. \A p \in PriceLevels : DollarLevel - p \in PriceLevels  BY <1>2 DEF PriceLevels
<1> DEFINE other == [p \in DOMAIN raw.no |-> raw.no[DollarLevel - p]]
<1>5. other \in Sizes  BY <1>3, <1>4 DEF Sizes
<1> HIDE DEF other
<1>6. [yes |-> raw.yes, no |-> other] \in PolledBook  BY <1>3, <1>5 DEF PolledBook
<1> QED  BY <1>6 DEF FetchBook, other

LEMMA SnapshotStarts ==
  ASSUME NEW t, NEW seq, NEW book \in PolledBook
  PROVE  FoldLeft(Applied, book, <<SnapshotMessage(t, seq, book)>>) = book
<1> DEFINE m == SnapshotMessage(t, seq, book)
           w == <<m>>
           D == {m}
           g == [x \in ReadBook \X D |-> x[2].book]
           h == [k \in 0..1 |-> book]
<1>1. m.type = "snapshot" /\ m.book = book  BY DEF SnapshotMessage
<1>2. DOMAIN w = 1..1 /\ \A i \in 1..1 : w[i] = m  OBVIOUS
<1> HIDE DEF w
<1>3. book \in ReadBook
  <2>1. \A f \in Sizes : f \in [PriceLevels -> Int]  BY DEF Sizes
  <2> QED  BY <2>1 DEF PolledBook, ReadBook
<1> HIDE DEF m
<1>4. g \in [ReadBook \X D -> ReadBook]  BY <1>1, <1>3
<1>5. \A acc \in ReadBook, x \in D : g[<<acc, x>>] = Applied(acc, x)  BY <1>1 DEF Applied
<1>6. \A i \in 1..1 : w[i] \in D  BY <1>2
<1>7. Partials(h, 1, w, book, g)
  <2>1. h[0] = book  OBVIOUS
  <2>2. ASSUME NEW k \in 1..1  PROVE h[k] = g[<<h[k - 1], w[k]>>]
    <3>1. k = 1 /\ w[k] = m /\ h[k] = book /\ h[k - 1] = book  BY <1>2
    <3> QED  BY <3>1, <1>1, <1>3
  <2> QED  BY <2>1, <2>2 DEF Partials
<1>8. h[1] = book  OBVIOUS
<1> HIDE DEF g, h, D
<1>9. FoldsIn(AppliedFolder(book, w), ReadBook, 1, w, book, g)
  BY <1>2, <1>3, <1>4, <1>5, <1>6, AppliedFolds
<1>10. AppliedFolder(book, w)[1..1] = book
  <2>1. \A q \in Nat : (\A i \in 1..q : w[i] \in D) /\ Partials(h, q, w, book, g)
                         /\ FoldsIn(AppliedFolder(book, w), ReadBook, q, w, book, g)
          => AppliedFolder(book, w)[1..q] = h[q] /\ AppliedFolder(book, w)[1..q] \in ReadBook
    BY ONLY <1>3, <1>4, FoldReaches
  <2>2. 1 \in Nat  OBVIOUS
  <2> QED  BY <2>1, <2>2, <1>6, <1>7, <1>8, <1>9
<1> QED  BY <1>2, <1>10, FoldIsApplied DEF w, m

LEMMA EventsRebuild ==
  ASSUME PollInv, NEW t, NEW book \in PolledBook
  PROVE  LET w == PollEvents(t, book)
         IN  /\ Len(w) \in Nat /\ (w # <<>> => Last(w).seq = pollSeq + Len(w))
             /\ FoldLeft(Applied, IF t \in DOMAIN rebuilt THEN rebuilt[t] ELSE book, w) = book
<1> DEFINE w == PollEvents(t, book)
<1>1. pollSeq \in Nat /\ rebuilt = recordedBooks  BY DEF PollInv, PolledBookRebuilds
<1>2. CASE t \notin DOMAIN recordedBooks
  <2> DEFINE m == SnapshotMessage(t, pollSeq + 1, book)
  <2>1. w = <<m>>  BY <1>2 DEF PollEvents
  <2>2. Len(w) = 1 /\ Last(w) = m  BY <2>1 DEF Last
  <2>3. m.seq = pollSeq + 1  BY DEF SnapshotMessage
  <2>4. FoldLeft(Applied, book, w) = book  BY <2>1, SnapshotStarts
  <2>5. (IF t \in DOMAIN rebuilt THEN rebuilt[t] ELSE book) = book  BY <1>1, <1>2
  <2> HIDE DEF m, w
  <2> QED  BY <2>2, <2>3, <2>4, <2>5 DEF w
<1>3. CASE t \in DOMAIN recordedBooks
  <2> DEFINE old == recordedBooks[t]
             d == DeltaMessages(t, pollSeq, "yes", old.yes, book.yes)
             e == DeltaMessages(t, pollSeq, "no", old.no, book.no)
             n == Len(w)
  <2>1. old \in PolledBook  BY <1>3 DEF PollInv
  <2>2. old.yes \in Sizes /\ old.no \in Sizes /\ book.yes \in Sizes /\ book.no \in Sizes
    BY <2>1 DEF PolledBook
  <2>3. "yes" \in Sides /\ "no" \in Sides /\ pollSeq \in Int  BY <1>1 DEF Sides
  <2>4. w = Numbered(d \o e, pollSeq)  BY <1>3 DEF PollEvents
  <2>5. OneSide(d, t, "yes", old.yes, book.yes) /\ OneSide(e, t, "no", old.no, book.no)
    BY <2>2, <2>3, DeltasDescribe
  <2> HIDE DEF d, e, w, old
  <2>6. d \o e \in Seq(Delta(t)) /\ Describes(d \o e, Len(d \o e), old, book)
    BY <2>1, <2>5, SidesDescribe
  <2>7. /\ w \in Seq(Delta(t)) /\ Describes(w, Len(w), old, book)
        /\ \A i \in 1..Len(w) : w[i].seq = pollSeq + i
    BY <1>1, <2>4, <2>6, NumberingKeeps
  <2>8. n \in Nat /\ DOMAIN w = 1..n /\ \A i \in 1..n : w[i] \in Delta(t)  BY <2>7, ElementOfSeq
  <2>9. w # <<>> => Last(w).seq = pollSeq + n
    <3>1. HAVE w # <<>>
    <3>2. n # 0  BY <2>7, <3>1, EmptySeq
    <3>3. n \in 1..n  BY <2>8, <3>2
    <3> QED  BY <2>7, <3>3 DEF Last
  <2> HIDE DEF n
  <2>10. Describes(w, n, old, book)  BY <2>7 DEF n
  <2>11. FoldLeft(Applied, old, w) = book  BY <2>1, <2>8, <2>10, DeltasRebuild
  <2>12. (IF t \in DOMAIN rebuilt THEN rebuilt[t] ELSE book) = old  BY <1>1, <1>3 DEF old
  <2> QED  BY <2>8, <2>9, <2>11, <2>12 DEF n, w
<1> QED  BY <1>2, <1>3

LEMMA PollsBegin == CollectorsInit => PollInv
<1> SUFFICES ASSUME CollectorsInit  PROVE PollInv
  OBVIOUS
<1>1. recordedBooks = <<>> /\ rebuilt = <<>> /\ wire = <<>> /\ pollSeq = 0  BY DEF CollectorsInit
<1>2. DOMAIN recordedBooks = {}  BY <1>1
<1> QED  BY <1>1, <1>2 DEF PollInv, PolledBookRebuilds

LEMMA PollsGoOn == PollInv /\ (PollStep \/ UNCHANGED poll) => PollInv'
<1> SUFFICES ASSUME PollInv, PollStep \/ UNCHANGED poll  PROVE PollInv'
  OBVIOUS
<1>1. CASE UNCHANGED <<recordedBooks, rebuilt, wire, pollSeq>>
  BY <1>1 DEF PollInv, PolledBookRebuilds
<1>2. CASE wire' = <<>> /\ UNCHANGED <<recordedBooks, rebuilt, pollSeq>>
  BY <1>2 DEF PollInv, PolledBookRebuilds
<1>3. ASSUME NEW t, NEW raw \in PolledBooks,
             wire' = PollEvents(t, FetchBook(raw)), pollSeq' = pollSeq + Len(wire'),
             recordedBooks' = With(recordedBooks, t, FetchBook(raw)),
             rebuilt' = With(rebuilt, t, FoldLeft(Applied, IF t \in DOMAIN rebuilt THEN rebuilt[t] ELSE FetchBook(raw), wire'))
      PROVE  PollInv'
  <2> DEFINE book == FetchBook(raw)
  <2>1. book \in PolledBook  BY FetchedIsBook
  <2> HIDE DEF book
  <2>2. wire' = PollEvents(t, book) /\ recordedBooks' = With(recordedBooks, t, book)
        /\ rebuilt' = With(rebuilt, t, FoldLeft(Applied, IF t \in DOMAIN rebuilt THEN rebuilt[t] ELSE book, wire'))
    BY <1>3 DEF book
  <2>3. /\ Len(wire') \in Nat /\ (wire' # <<>> => Last(wire').seq = pollSeq + Len(wire'))
        /\ FoldLeft(Applied, IF t \in DOMAIN rebuilt THEN rebuilt[t] ELSE book, wire') = book
    BY <2>1, <2>2, EventsRebuild
  <2>4. pollSeq \in Nat /\ rebuilt = recordedBooks  BY DEF PollInv, PolledBookRebuilds
  <2>5. pollSeq' \in Nat /\ (wire' # <<>> => Last(wire').seq = pollSeq')  BY <1>3, <2>3, <2>4
  <2>6. rebuilt' = recordedBooks'  BY <2>2, <2>3, <2>4
  <2>7. \A u \in DOMAIN recordedBooks' : recordedBooks'[u] \in PolledBook
    BY <2>1, <2>2 DEF With, PollInv
  <2> QED  BY <2>5, <2>6, <2>7 DEF PollInv, PolledBookRebuilds
<1>4. CASE Pick  BY <1>1, <1>4 DEF Pick
<1>5. CASE Poll
  BY <1>2, <1>3, <1>5 DEF Poll
<1> QED  BY <1>1, <1>4, <1>5 DEF PollStep, poll
(* A touch row of the tennis recorder holds prices no older than the list   *)
(* of candidates may be, and was stamped after they were seen unless it is  *)
(* of the cycle that refreshed the list (tennis_depth_recorder.py:242); and *)
(* who replays the events of the poll recorder has, after each poll, the    *)
(* book that was polled, and has counted the messages as the recorder did   *)
(* (poll_record.py:222).                                                    *)
THEOREM PollsStayTrue == Spec => []PollsAreTrue
<1> DEFINE I == DepthInv /\ PollInv
<1>1. Init => I  BY ListBegins, PollsBegin DEF Init
<1>2. [Next]_vars => (DepthStep \/ UNCHANGED depth) /\ (PollStep \/ UNCHANGED poll)
  <2>1. UNCHANGED vars => UNCHANGED depth /\ UNCHANGED poll  BY DEF vars, collectors
  <2>2. Next => DepthStep \/ UNCHANGED depth  BY Zenon DEF Next, Still
  <2>3. Next => PollStep \/ UNCHANGED poll  BY Zenon DEF Next, Still
  <2> QED  BY <2>1, <2>2, <2>3
<1>3. I /\ [Next]_vars => I'  BY <1>2, DepthGoesOn, PollsGoOn
<1>4. I => PollsAreTrue  BY DEF PollsAreTrue, DepthInv, PollInv
<1> QED  BY <1>1, <1>3, <1>4, PTL DEF Spec

-----------------------------------------------------------------------------
(* The journals.  What a reader sees of a file after a line was written.    *)
Cycles == 1..MaxCycles
Sitting == Nat \X Nat
ArmNames == {ArmOf(i) : i \in Cycles}
Fill == [event : {"filled"}, venue : Range(Family), mid : BOOLEAN, n : Nat, of : Sitting, arm : ArmNames]
Entry == {Torn, Glued} \cup [event : {"aside"}, of : Sitting] \cup Fill
RowEntry ==
  {Torn, Glued} \cup [event : {"row"}, of : Sitting, arm : ArmNames, fills : Nat, first : BOOLEAN]

SameRead(old, new) ==
  /\ ReadJournal(new) = ReadJournal(old) /\ FillsIn(new) = FillsIn(old)
  /\ \A k \in ReadJournal(old) : new[k] = old[k]
OneRead(old, new, l, p) ==
  /\ p \notin ReadJournal(old) /\ ReadJournal(new) = ReadJournal(old) \cup {p}
  /\ FillsIn(new) = FillsIn(old) \cup (IF l.event = "filled" THEN {p} ELSE {})
  /\ new[p] = l /\ \A k \in ReadJournal(old) : new[k] = old[k]

LEMMA TornIsTold ==
  ASSUME NEW S, NEW lines \in Seq(S), Torn \in S
  PROVE  Append(lines, Torn) \in Seq(S) /\ SameRead(lines, Append(lines, Torn))
<1> DEFINE n == Len(lines)
           e == Append(lines, Torn)
<1>1. n \in Nat /\ DOMAIN lines = 1..n  OBVIOUS
<1>2. e \in Seq(S) /\ DOMAIN e = 1..(n + 1) /\ e[n + 1] = Torn /\ \A k \in 1..n : e[k] = lines[k]
  OBVIOUS
<1> HIDE DEF n, e
<1>3. Torn.event = "torn"  BY DEF Torn
<1>4. \A k : k \in 1..(n + 1) <=> k \in 1..n \/ k = n + 1  BY <1>1
<1>5. n + 1 \notin 1..n  BY <1>1
<1>6. ReadJournal(e) = ReadJournal(lines)  BY <1>1, <1>2, <1>3, <1>4, <1>5 DEF ReadJournal
<1>7. \A k \in ReadJournal(lines) : e[k] = lines[k]  BY <1>1, <1>2 DEF ReadJournal
<1>8. FillsIn(e) = FillsIn(lines)  BY <1>6, <1>7 DEF FillsIn
<1> QED  BY <1>2, <1>6, <1>7, <1>8 DEF SameRead, e

LEMMA ExtendedIsTold ==
  ASSUME NEW S, NEW lines \in Seq(S), NEW l \in S, Glued \in S, l.event \notin {"torn", "glued"}
  PROVE  /\ Extended(lines, l) \in Seq(S)
         /\ RunsIntoTorn(lines) => SameRead(lines, Extended(lines, l))
         /\ ~RunsIntoTorn(lines) => \E p \in Nat : OneRead(lines, Extended(lines, l), l, p)
<1> DEFINE n == Len(lines)
           e == Extended(lines, l)
<1>1. n \in Nat /\ DOMAIN lines = 1..n /\ \A k \in 1..n : lines[k] \in S  BY ElementOfSeq
<1>2. Torn.event = "torn" /\ Glued.event = "glued"  BY DEF Torn, Glued
<1>3. CASE RunsIntoTorn(lines)
  <2>1. lines # <<>> /\ lines[n] = Torn  BY <1>3 DEF RunsIntoTorn, Last
  <2>2. n \in 1..n
    <3>1. n # 0  BY <2>1, EmptySeq
    <3> QED  BY <3>1, <1>1
  <2>3. e = [lines EXCEPT ![n] = Glued]  BY <1>3 DEF Extended
  <2>4. e \in Seq(S) /\ DOMAIN e = 1..n /\ e[n] = Glued /\ \A k \in 1..n : k # n => e[k] = lines[k]
    <3> HIDE DEF n, e
    <3>1. lines \in [1..n -> S]  BY <1>1 DEF n
    <3>2. e \in [1..n -> S]  BY <2>3, <3>1
    <3> QED  BY <1>1, <2>2, <2>3, <3>1, <3>2
  <2> HIDE DEF n, e
  <2>5. ReadJournal(e) = ReadJournal(lines)  BY <1>1, <1>2, <2>1, <2>4 DEF ReadJournal
  <2>6. \A k \in ReadJournal(lines) : e[k] = lines[k]  BY <1>1, <1>2, <2>1, <2>4 DEF ReadJournal
  <2>7. FillsIn(e) = FillsIn(lines)  BY <2>5, <2>6 DEF FillsIn
  <2> QED  BY <1>3, <2>4, <2>5, <2>6, <2>7 DEF SameRead, e
<1>4. CASE ~RunsIntoTorn(lines)
  <2>1. e = Append(lines, l)  BY <1>4 DEF Extended
  <2>2. e \in Seq(S) /\ DOMAIN e = 1..(n + 1) /\ e[n + 1] = l /\ \A k \in 1..n : e[k] = lines[k]
    BY <2>1
  <2> HIDE DEF n, e
  <2>3. \A k : k \in 1..(n + 1) <=> k \in 1..n \/ k = n + 1  BY <1>1
  <2>4. n + 1 \notin 1..n /\ n + 1 \in Nat  BY <1>1
  <2>5. n + 1 \notin ReadJournal(lines)  BY <1>1, <2>4 DEF ReadJournal
  <2>6. ReadJournal(e) = ReadJournal(lines) \cup {n + 1}  BY <1>1, <2>2, <2>3, <2>4 DEF ReadJournal
  <2>7. \A k \in ReadJournal(lines) : e[k] = lines[k]  BY <1>1, <2>2 DEF ReadJournal
  <2>8. FillsIn(e) = FillsIn(lines) \cup (IF l.event = "filled" THEN {n + 1} ELSE {})
    BY <2>2, <2>6, <2>7 DEF FillsIn
  <2>9. OneRead(lines, e, l, n + 1)  BY <2>2, <2>5, <2>6, <2>7, <2>8 DEF OneRead
  <2> QED  BY <1>4, <2>2, <2>4, <2>9 DEF e
<1> QED  BY <1>3, <1>4

-----------------------------------------------------------------------------
(* What is on disk.  A fill whose line can be read is on one line of the    *)
(* journal of its cycle's number, and nothing else is.                      *)
Told == made \ spoiled
FillsOf(of) == {f \in Told : f.of = of}

Made ==
  /\ made \in SUBSET Fill /\ IsFiniteSet(made) /\ spoiled \subseteq made
  /\ \A f \in made : f.n < Cardinality(made)
Journals ==
  /\ jrnl \in [Cycles -> Seq(Entry)]
  /\ \A i \in Cycles : \A k \in ReadJournal(jrnl[i]) : jrnl[i][k].of[2] = i
  /\ \A i \in Cycles : \A k \in FillsIn(jrnl[i]) : jrnl[i][k] \in Told /\ jrnl[i][k].arm = ArmOf(i)
  /\ \A i, j \in Cycles : \A k \in FillsIn(jrnl[i]), m \in FillsIn(jrnl[j]) :
       jrnl[i][k] = jrnl[j][m] => i = j /\ k = m
  /\ \A f \in Told : \E i \in Cycles : \E k \in FillsIn(jrnl[i]) : jrnl[i][k] = f

LEMMA SameReadKeeps ==
  ASSUME Journals, NEW i \in Cycles, NEW new \in Seq(Entry), SameRead(jrnl[i], new),
         jrnl' = [jrnl EXCEPT ![i] = new], Told' = Told
  PROVE  Journals'
<1>1. jrnl \in [Cycles -> Seq(Entry)]  BY DEF Journals
<1>2. jrnl' \in [Cycles -> Seq(Entry)]  BY <1>1
<1>3. \A j \in Cycles : ReadJournal(jrnl'[j]) = ReadJournal(jrnl[j]) /\ FillsIn(jrnl'[j]) = FillsIn(jrnl[j])
  BY <1>1 DEF SameRead
<1>4. \A j \in Cycles : \A k \in ReadJournal(jrnl[j]) : jrnl'[j][k] = jrnl[j][k]
  BY <1>1 DEF SameRead
<1>5. \A j \in Cycles : FillsIn(jrnl[j]) \subseteq ReadJournal(jrnl[j])  BY DEF FillsIn
<1>6. \A j \in Cycles : \A k \in FillsIn(jrnl[j]) : jrnl'[j][k] = jrnl[j][k]  BY <1>4, <1>5
<1>7. \A j \in Cycles : \A k \in ReadJournal(jrnl'[j]) : jrnl'[j][k].of[2] = j
  BY <1>3, <1>4 DEF Journals
<1>8. \A j \in Cycles : \A k \in FillsIn(jrnl'[j]) : jrnl'[j][k] \in Told' /\ jrnl'[j][k].arm = ArmOf(j)
  BY <1>3, <1>6 DEF Journals
<1>9. \A h, j \in Cycles : \A k \in FillsIn(jrnl'[h]), m \in FillsIn(jrnl'[j]) :
        jrnl'[h][k] = jrnl'[j][m] => h = j /\ k = m
  BY <1>3, <1>6 DEF Journals
<1>10. \A f \in Told' : \E j \in Cycles : \E k \in FillsIn(jrnl'[j]) : jrnl'[j][k] = f
  BY <1>3, <1>6 DEF Journals
<1> QED  BY <1>2, <1>7, <1>8, <1>9, <1>10 DEF Journals, ArmOf

LEMMA OneReadKeeps ==
  ASSUME Journals, NEW i \in Cycles, NEW new \in Seq(Entry), NEW l, NEW p,
         OneRead(jrnl[i], new, l, p), jrnl' = [jrnl EXCEPT ![i] = new], l.of[2] = i,
         l.event # "filled" => Told' = Told,
         l.event = "filled" => l.arm = ArmOf(i) /\ l \notin Told /\ Told' = Told \cup {l}
  PROVE  Journals'
<1>1. jrnl \in [Cycles -> Seq(Entry)]  BY DEF Journals
<1>2. jrnl' \in [Cycles -> Seq(Entry)] /\ jrnl'[i] = new /\ \A j \in Cycles : j # i => jrnl'[j] = jrnl[j]
  BY <1>1
<1>3. \A j \in Cycles : FillsIn(jrnl[j]) \subseteq ReadJournal(jrnl[j])  BY DEF FillsIn
<1>4. \A j \in Cycles : \A k \in ReadJournal(jrnl[j]) : jrnl'[j][k] = jrnl[j][k]
  BY <1>2 DEF OneRead
<1>5. \A j \in Cycles : \A k \in FillsIn(jrnl[j]) : jrnl'[j][k] = jrnl[j][k]  BY <1>3, <1>4
<1>6. \A j \in Cycles : \A k \in ReadJournal(jrnl'[j]) : k \in ReadJournal(jrnl[j]) \/ (j = i /\ k = p)
  BY <1>2 DEF OneRead
<1>7. jrnl'[i][p] = l  BY <1>2 DEF OneRead
<1>8. ASSUME NEW j \in Cycles, NEW k \in ReadJournal(jrnl'[j])  PROVE jrnl'[j][k].of[2] = j
  <2>1. CASE k \in ReadJournal(jrnl[j])
    <3>1. jrnl[j][k].of[2] = j  BY <2>1 DEF Journals
    <3> QED  BY <3>1, <2>1, <1>4
  <2>2. CASE j = i /\ k = p
    <3>1. jrnl'[j][k] = l  BY <2>2, <1>7
    <3> QED  BY <3>1, <2>2
  <2> QED  BY <2>1, <2>2, <1>6
<1>9. CASE l.event # "filled"
  <2>1. Told' = Told  BY <1>9
  <2>2. \A j \in Cycles : FillsIn(jrnl'[j]) = FillsIn(jrnl[j])  BY <1>2, <1>9 DEF OneRead
  <2>3. \A j \in Cycles : \A k \in FillsIn(jrnl'[j]) : jrnl'[j][k] \in Told' /\ jrnl'[j][k].arm = ArmOf(j)
    BY <2>1, <2>2, <1>5 DEF Journals
  <2>4. \A h, j \in Cycles : \A k \in FillsIn(jrnl'[h]), m \in FillsIn(jrnl'[j]) :
          jrnl'[h][k] = jrnl'[j][m] => h = j /\ k = m
    BY <2>2, <1>5 DEF Journals
  <2>5. \A f \in Told' : \E j \in Cycles : \E k \in FillsIn(jrnl'[j]) : jrnl'[j][k] = f
    BY <2>1, <2>2, <1>5 DEF Journals
  <2> QED  BY <1>2, <1>8, <2>3, <2>4, <2>5 DEF Journals, ArmOf
<1>10. CASE l.event = "filled"
  <2>1. l.arm = ArmOf(i) /\ l \notin Told /\ Told' = Told \cup {l}  BY <1>10
  <2>2. FillsIn(jrnl'[i]) = FillsIn(jrnl[i]) \cup {p}  BY <1>2, <1>10 DEF OneRead
  <2>3. \A j \in Cycles : j # i => FillsIn(jrnl'[j]) = FillsIn(jrnl[j])  BY <1>2
  <2>4. \A j \in Cycles : \A k \in FillsIn(jrnl'[j]) :
          \/ k \in FillsIn(jrnl[j]) /\ jrnl'[j][k] = jrnl[j][k] /\ jrnl[j][k] \in Told
               /\ jrnl[j][k].arm = ArmOf(j)
          \/ j = i /\ k = p /\ jrnl'[j][k] = l
    BY <2>2, <2>3, <1>5, <1>7 DEF Journals
  <2>5. \A j \in Cycles : \A k \in FillsIn(jrnl'[j]) : jrnl'[j][k] \in Told' /\ jrnl'[j][k].arm = ArmOf(j)
    BY <2>1, <2>4
  <2>6. \A h, j \in Cycles : \A k \in FillsIn(jrnl'[h]), m \in FillsIn(jrnl'[j]) :
          jrnl'[h][k] = jrnl'[j][m] => h = j /\ k = m
    <3>1. TAKE h, j \in Cycles
    <3>2. TAKE k \in FillsIn(jrnl'[h]), m \in FillsIn(jrnl'[j])
    <3>3. HAVE jrnl'[h][k] = jrnl'[j][m]
    <3>4. \/ k \in FillsIn(jrnl[h]) /\ jrnl'[h][k] = jrnl[h][k] /\ jrnl[h][k] \in Told
          \/ h = i /\ k = p /\ jrnl'[h][k] = l
      BY <2>4
    <3>5. \/ m \in FillsIn(jrnl[j]) /\ jrnl'[j][m] = jrnl[j][m] /\ jrnl[j][m] \in Told
          \/ j = i /\ m = p /\ jrnl'[j][m] = l
      BY <2>4
    <3>6. \A kk \in FillsIn(jrnl[h]), mm \in FillsIn(jrnl[j]) :
            jrnl[h][kk] = jrnl[j][mm] => h = j /\ kk = mm
      BY DEF Journals
    <3> QED  BY <2>1, <3>3, <3>4, <3>5, <3>6
  <2>7. \A f \in Told' : \E j \in Cycles : \E k \in FillsIn(jrnl'[j]) : jrnl'[j][k] = f
    <3>1. TAKE f \in Told'
    <3>2. CASE f = l  BY <3>2, <2>2, <1>7
    <3>3. CASE f \in Told
      <4>1. PICK j \in Cycles : \E k \in FillsIn(jrnl[j]) : jrnl[j][k] = f  BY <3>3 DEF Journals
      <4>2. PICK k \in FillsIn(jrnl[j]) : jrnl[j][k] = f  BY <4>1
      <4>3. k \in FillsIn(jrnl'[j])  BY <2>2, <2>3
      <4> QED  BY <4>2, <4>3, <1>5
    <3> QED  BY <2>1, <3>2, <3>3
  <2> QED  BY <1>2, <1>8, <2>5, <2>6, <2>7 DEF Journals, ArmOf
<1> QED  BY <1>9, <1>10

LEMMA NoneToldTwice ==
  ASSUME NEW P, NEW F, IsFiniteSet(F), NEW at \in [P -> F],
         \A x, y \in P : at[x] = at[y] => x = y, \A f \in F : \E x \in P : at[x] = f
  PROVE  Cardinality(P) = Cardinality(F)
<1>1. at \in Bijection(P, F)  BY DEF Bijection, Injection, Surjection, IsInjective
<1>2. ExistsBijection(P, F)  BY <1>1 DEF ExistsBijection
<1>3. ExistsBijection(F, P)  BY <1>2, Fun_ExistsBijSymmetric
<1> QED  BY <1>3, FS_Bijection

LEMMA CycleIsCounted ==
  ASSUME Made, Journals, NEW i \in Cycles, NEW of, of[2] = i,
         \A k \in ReadJournal(jrnl[i]) : jrnl[i][k].of = of
  PROVE  Cardinality(FillsIn(jrnl[i])) = Cardinality(FillsOf(of))
<1> DEFINE at == [k \in FillsIn(jrnl[i]) |-> jrnl[i][k]]
<1>1. IsFiniteSet(FillsOf(of))
  <2>1. FillsOf(of) \in SUBSET made  BY DEF FillsOf, Told
  <2> QED  BY <2>1, FS_Subset DEF Made
<1>2. at \in [FillsIn(jrnl[i]) -> FillsOf(of)]
  <2>1. \A k \in FillsIn(jrnl[i]) : jrnl[i][k] \in FillsOf(of)
    BY DEF Journals, FillsIn, FillsOf
  <2> QED  BY <2>1
<1>3. \A x, y \in FillsIn(jrnl[i]) : at[x] = at[y] => x = y  BY DEF Journals
<1>4. \A f \in FillsOf(of) : \E k \in FillsIn(jrnl[i]) : at[k] = f
  <2>1. TAKE f \in FillsOf(of)
  <2>2. f \in Told /\ f.of[2] = i  BY DEF FillsOf
  <2>3. PICK j \in Cycles : \E k \in FillsIn(jrnl[j]) : jrnl[j][k] = f  BY <2>2 DEF Journals
  <2>4. PICK k \in FillsIn(jrnl[j]) : jrnl[j][k] = f  BY <2>3
  <2>5. k \in ReadJournal(jrnl[j])  BY DEF FillsIn
  <2>6. j = i  BY <2>2, <2>4, <2>5 DEF Journals
  <2> QED  BY <2>4, <2>6
<1> HIDE DEF at
<1> QED  BY <1>1, <1>2, <1>3, <1>4, NoneToldTwice

LEMMA VenueIsCounted ==
  ASSUME Made, Journals, NEW v
  PROVE  Cardinality(VenueFills(v)) = Cardinality({f \in Told : f.venue = v})
<1> DEFINE F == {f \in Told : f.venue = v}
           P == VenueFills(v)
           at == [x \in P |-> jrnl[x[1]][x[2]]]
<1>1. IsFiniteSet(F)
  <2>1. F \in SUBSET made  BY DEF Told
  <2> QED  BY <2>1, FS_Subset DEF Made
<1>2. DOMAIN jrnl = Cycles  BY DEF Journals
<1>3. \A x \in P : /\ x = <<x[1], x[2]>> /\ x[1] \in Cycles /\ x[2] \in FillsIn(jrnl[x[1]])
                   /\ jrnl[x[1]][x[2]].venue = v
  BY <1>2 DEF VenueFills
<1>4. \A i \in Cycles : \A k \in FillsIn(jrnl[i]) : jrnl[i][k].venue = v => <<i, k>> \in P
  BY <1>2 DEF VenueFills
<1> HIDE DEF P
<1>5. at \in [P -> F]
  <2>1. \A x \in P : jrnl[x[1]][x[2]] \in F  BY <1>3 DEF Journals
  <2> HIDE DEF F
  <2> QED  BY <2>1
<1>6. \A x, y \in P : at[x] = at[y] => x = y
  <2>1. TAKE x, y \in P
  <2>2. HAVE at[x] = at[y]
  <2>3. x[1] = y[1] /\ x[2] = y[2]  BY <2>2, <1>3 DEF Journals
  <2> QED  BY <2>3, <1>3
<1>7. \A f \in F : \E x \in P : at[x] = f
  <2>1. TAKE f \in F
  <2>2. f \in Told /\ f.venue = v  OBVIOUS
  <2>3. PICK j \in Cycles : \E k \in FillsIn(jrnl[j]) : jrnl[j][k] = f  BY <2>2 DEF Journals
  <2>4. PICK k \in FillsIn(jrnl[j]) : jrnl[j][k] = f  BY <2>3
  <2>5. <<j, k>> \in P  BY <2>2, <2>4, <1>4
  <2> QED  BY <2>4, <2>5
<1> HIDE DEF at, F
<1>8. Cardinality(P) = Cardinality(F)  BY <1>1, <1>5, <1>6, <1>7, NoneToldTwice
<1> QED  BY <1>8 DEF P, F

-----------------------------------------------------------------------------
(* The runner, the bucket and the ledger.  A row that is written is of a    *)
(* cycle that is over, whose fills stay what they are.                      *)
Running ==
  /\ index \in 0..MaxCycles /\ sitting \in Nat
  /\ lPc \in {"child", "row", "upload"} =>
       /\ index \in Cycles /\ cycleNow.arm = ArmOf(index) /\ cycleNow.venues \subseteq Range(Family)
       /\ cycleNow.first \in BOOLEAN
       /\ cycleNow.first => \A k \in ReadJournal(jrnl[index]) : jrnl[index][k].of = <<sitting, index>>

Copies == [arm : ArmNames, lines : Seq(Entry), first : BOOLEAN]
Uploaded ==
  /\ bucket \in Seq(Copies)
  /\ \A b \in DOMAIN bucket :
       /\ \A k \in FillsIn(bucket[b].lines) : bucket[b].lines[k].arm = bucket[b].arm
       /\ bucket[b].first => \A k, m \in ReadJournal(bucket[b].lines) :
                               bucket[b].lines[k].of = bucket[b].lines[m].of

Over(of) ==
  \/ of[1] < sitting
  \/ of[1] = sitting /\ (of[2] < index \/ (of[2] = index /\ lPc # "child"))
RowsCount ==
  /\ ledger \in Seq(RowEntry)
  /\ \A k \in ReadJournal(ledger) :
       /\ Over(ledger[k].of)
       /\ ledger[k].first => ledger[k].fills = Cardinality(FillsOf(ledger[k].of))

LedgerInv == Made /\ Journals /\ Running /\ Uploaded /\ RowsCount

LEMMA RowIsRow ==
  ASSUME NEW told \in Seq(RowEntry), NEW k \in ReadJournal(told)
  PROVE  told[k] \in [event : {"row"}, of : Sitting, arm : ArmNames, fills : Nat, first : BOOLEAN]
<1>1. k \in DOMAIN told /\ told[k].event \notin {"torn", "glued"}  BY DEF ReadJournal
<1>2. told[k] \in RowEntry  BY <1>1, ElementOfSeq
<1>3. Torn.event = "torn" /\ Glued.event = "glued"  BY DEF Torn, Glued
<1> QED  BY <1>1, <1>2, <1>3 DEF RowEntry

LEMMA LedgerBegins == LedgerInit => LedgerInv
<1> SUFFICES ASSUME LedgerInit  PROVE LedgerInv
  OBVIOUS
<1>1. /\ lPc = "start" /\ sitting = 1 /\ index = 0 /\ jrnl = [i \in Cycles |-> <<>>]
      /\ ledger = <<>> /\ bucket = <<>> /\ made = {} /\ spoiled = {}
  BY DEF LedgerInit, Cycles
<1>2. MaxCycles \in Nat  BY Zenon, SessionLedgerAssumption
<1>3. ReadJournal(<<>>) = {} /\ FillsIn(<<>>) = {}  BY DEF ReadJournal, FillsIn
<1>4. Made  BY <1>1, FS_EmptySet DEF Made
<1>5. Told = {}  BY <1>1 DEF Told
<1>6. Journals
  <2>1. \A i \in Cycles : jrnl[i] = <<>>  BY <1>1
  <2>2. jrnl \in [Cycles -> Seq(Entry)]  BY <1>1
  <2> QED  BY <2>1, <2>2, <1>3, <1>5 DEF Journals
<1>7. Running  BY <1>1, <1>2 DEF Running
<1>8. Uploaded
  <2>1. bucket \in Seq(Copies) /\ DOMAIN bucket = {}  BY <1>1
  <2> QED  BY <2>1 DEF Uploaded
<1>9. RowsCount
  <2>1. ledger \in Seq(RowEntry) /\ ReadJournal(ledger) = {}  BY <1>1, <1>3
  <2> QED  BY <2>1 DEF RowsCount
<1> QED  BY <1>4, <1>6, <1>7, <1>8, <1>9 DEF LedgerInv

LEMMA FilesStay ==
  ASSUME LedgerInv, UNCHANGED disk,
         \A of \in Sitting : Over(of) => Over(of)', Running'
  PROVE  LedgerInv'
<1>1. UNCHANGED <<jrnl, ledger, bucket, made, spoiled>>  BY DEF disk
<1>2. Made'  BY <1>1 DEF LedgerInv, Made
<1>3. Told' = Told  BY <1>1 DEF Told
<1>4. Journals'  BY <1>1, <1>3 DEF LedgerInv, Journals, ArmOf
<1>5. Uploaded'  BY <1>1 DEF LedgerInv, Uploaded, Copies, ArmNames, ArmOf, Entry, Fill
<1>6. RowsCount'
  <2>1. ledger \in Seq(RowEntry)  BY DEF LedgerInv, RowsCount
  <2>2. ASSUME NEW k \in ReadJournal(ledger)
        PROVE  /\ Over(ledger[k].of)'
               /\ ledger[k].first => ledger[k].fills = Cardinality(FillsOf(ledger[k].of)')
    <3>1. ledger[k].of \in Sitting  BY <2>1, RowIsRow
    <3>2. FillsOf(ledger[k].of)' = FillsOf(ledger[k].of)  BY <1>1, <1>3 DEF FillsOf
    <3> QED  BY <1>1, <3>1, <3>2 DEF LedgerInv, RowsCount, Over
  <2>3. ReadJournal(ledger)' = ReadJournal(ledger) /\ ledger' = ledger  BY <1>1 DEF ReadJournal
  <2>4. \A k \in ReadJournal(ledger)' :
          /\ Over(ledger[k].of)'
          /\ ledger'[k].first => ledger'[k].fills = Cardinality(FillsOf(ledger[k].of)')
    BY <2>2, <2>3
  <2> QED  BY <2>1, <2>3, <2>4 DEF RowsCount
<1> QED  BY <1>2, <1>4, <1>5, <1>6 DEF LedgerInv

LEMMA RunnerGoesOn ==
  ASSUME LedgerInv, FirstBalance \/ StopsAtTop \/ ChildDone
  PROVE  LedgerInv'
<1>1. UNCHANGED <<sitting, index, disk>> /\ (UNCHANGED cycleNow \/ lPc' \in {"top", "exited"})
  BY DEF FirstBalance, StopsAtTop, ChildDone, GoOn, Exit
<1>2. lPc' \in {"top", "exited"} \/ (lPc = "child" /\ lPc' = "row")
  BY DEF FirstBalance, StopsAtTop, ChildDone, GoOn, Exit
<1>3. lPc' # "child"  BY <1>2
<1>4. \A of \in Sitting : Over(of) => Over(of)'  BY <1>1, <1>3 DEF Over
<1>5. Running'
  <2>1. jrnl' = jrnl /\ index' = index /\ sitting' = sitting  BY <1>1 DEF disk
  <2>2. Running  BY DEF LedgerInv
  <2>3. CASE lPc' \in {"top", "exited"}  BY <2>1, <2>2, <2>3 DEF Running
  <2>4. CASE lPc = "child" /\ lPc' = "row"
    <3>1. cycleNow' = cycleNow  BY <2>4, <1>1
    <3> QED  BY <2>1, <2>2, <2>4, <3>1 DEF Running, ArmOf
  <2> QED  BY <1>2, <2>3, <2>4
<1> QED  BY <1>1, <1>4, <1>5, FilesStay

LEMMA NextCycleBegins == LedgerInv /\ StartCycle => LedgerInv'
<1> SUFFICES ASSUME LedgerInv, StartCycle  PROVE LedgerInv'
  OBVIOUS
<1>1. /\ lPc = "top" /\ index < MaxCycles /\ index' = index + 1 /\ sitting' = sitting
      /\ UNCHANGED disk
  BY DEF StartCycle, disk
<1>2. index \in 0..MaxCycles /\ sitting \in Nat /\ MaxCycles \in Nat
  <2>1. MaxCycles \in Nat  BY Zenon, SessionLedgerAssumption
  <2> QED  BY <2>1 DEF LedgerInv, Running
<1>3. index' \in Cycles /\ index' \in 0..MaxCycles  BY <1>1, <1>2 DEF Cycles
<1>4. ASSUME NEW of \in Sitting, Over(of)  PROVE Over(of)'
  <2>1. of[1] \in Nat /\ of[2] \in Nat  BY DEF Sitting
  <2>2. of[1] < sitting \/ (of[1] = sitting /\ of[2] <= index)  BY <2>1, <1>2, <1>4 DEF Over
  <2>3. of[2] <= index => of[2] < index'  BY <2>1, <1>1, <1>2
  <2> QED  BY <2>2, <2>3, <1>1 DEF Over
<1>5. Running'
  <2>1. PICK open \in SUBSET Range(Family) :
          cycleNow' = [venues |-> LiveWindows(open), arm |-> ArmOf(index'),
                       first |-> jrnl[index'] = <<>>]
    BY DEF StartCycle
  <2>2. LiveWindows(open) \subseteq Range(Family)  BY DEF LiveWindows, Range
  <2>3. /\ cycleNow'.venues \subseteq Range(Family) /\ cycleNow'.arm = ArmOf(index')
        /\ cycleNow'.first \in BOOLEAN /\ (cycleNow'.first => jrnl[index'] = <<>>)
    BY <2>1, <2>2
  <2>4. ReadJournal(<<>>) = {}  BY DEF ReadJournal
  <2>5. jrnl' = jrnl  BY <1>1 DEF disk
  <2>6. cycleNow'.first => \A k \in ReadJournal(jrnl'[index']) : jrnl'[index'][k].of = <<sitting', index'>>
    BY <2>3, <2>4, <2>5
  <2> QED  BY <1>1, <1>2, <1>3, <2>3, <2>6 DEF Running, ArmOf
<1> QED  BY <1>1, <1>4, <1>5, FilesStay

LEMMA StartedAgainBegins == LedgerInv /\ StartedAgain => LedgerInv'
<1> SUFFICES ASSUME LedgerInv, StartedAgain  PROVE LedgerInv'
  OBVIOUS
<1>1. lPc' = "start" /\ index' = 0 /\ sitting' = sitting + 1 /\ UNCHANGED disk
  BY DEF StartedAgain
<1>2. index \in 0..MaxCycles /\ sitting \in Nat /\ MaxCycles \in Nat
  <2>1. MaxCycles \in Nat  BY Zenon, SessionLedgerAssumption
  <2> QED  BY <2>1 DEF LedgerInv, Running
<1>3. ASSUME NEW of \in Sitting, Over(of)  PROVE Over(of)'
  <2>1. of[1] \in Nat  BY DEF Sitting
  <2>2. of[1] <= sitting  BY <2>1, <1>2, <1>3 DEF Over
  <2>3. of[1] < sitting'  BY <2>1, <2>2, <1>1, <1>2
  <2> QED  BY <2>3 DEF Over
<1>4. Running'  BY <1>1, <1>2 DEF Running
<1> QED  BY <1>1, <1>3, <1>4, FilesStay

(* A line of the cycle that runs changes no row's count.                    *)
LEMMA RowsStay ==
  ASSUME LedgerInv, ledger' = ledger, NEW l, Told' = Told \/ (Told' = Told \cup {l} /\ ~Over(l.of)),
         \A of \in Sitting : Over(of) => Over(of)'
  PROVE  RowsCount'
<1>1. ledger \in Seq(RowEntry)  BY DEF LedgerInv, RowsCount
<1>2. ASSUME NEW k \in ReadJournal(ledger)
      PROVE  /\ Over(ledger[k].of)'
             /\ ledger[k].first => ledger[k].fills = Cardinality(FillsOf(ledger[k].of)')
  <2>1. ledger[k].of \in Sitting  BY <1>1, RowIsRow
  <2>2. Over(ledger[k].of) /\ (ledger[k].first => ledger[k].fills = Cardinality(FillsOf(ledger[k].of)))
    BY DEF LedgerInv, RowsCount
  <2>3. FillsOf(ledger[k].of)' = FillsOf(ledger[k].of)
    <3>1. CASE Told' = Told  BY <3>1 DEF FillsOf
    <3>2. CASE Told' = Told \cup {l} /\ ~Over(l.of)
      <4>1. l.of # ledger[k].of  BY <2>2, <3>2
      <4> QED  BY <4>1, <3>2 DEF FillsOf
    <3> QED  BY <3>1, <3>2
  <2> QED  BY <2>1, <2>2, <2>3 DEF Over
<1>3. ReadJournal(ledger)' = ReadJournal(ledger) /\ ledger' = ledger  BY DEF ReadJournal
<1>4. \A k \in ReadJournal(ledger)' :
        /\ Over(ledger[k].of)'
        /\ ledger'[k].first => ledger'[k].fills = Cardinality(FillsOf(ledger[k].of)')
  BY <1>2, <1>3
<1> QED  BY <1>1, <1>3, <1>4 DEF RowsCount

LEMMA LineIsWritten ==
  ASSUME LedgerInv, lPc = "child", NEW l \in Entry, l.event \notin {"torn", "glued"},
         l.of = <<sitting, index>>, jrnl' = [jrnl EXCEPT ![index] = Extended(@, l)],
         UNCHANGED <<lPc, index, sitting, cycleNow, ledger, bucket>>, Made',
         l.event # "filled" => Told' = Told,
         l.event = "filled" =>
           /\ l.arm = ArmOf(index) /\ l \notin Told
           /\ Told' = IF RunsIntoTorn(jrnl[index]) THEN Told ELSE Told \cup {l}
  PROVE  LedgerInv'
<1> DEFINE old == jrnl[index]
           new == Extended(old, l)
<1>1. Journals /\ Running /\ Uploaded /\ index \in Cycles  BY DEF LedgerInv, Running
<1>2. jrnl \in [Cycles -> Seq(Entry)] /\ old \in Seq(Entry)  BY <1>1 DEF Journals
<1>3. Glued \in Entry  BY DEF Entry
<1>4. /\ new \in Seq(Entry)
      /\ RunsIntoTorn(old) => SameRead(old, new)
      /\ ~RunsIntoTorn(old) => \E p \in Nat : OneRead(old, new, l, p)
  BY <1>2, <1>3, ExtendedIsTold
<1>5. jrnl' = [jrnl EXCEPT ![index] = new] /\ jrnl'[index] = new  BY <1>1, <1>2
<1>6. l.of[2] = index /\ l.of[1] = sitting  OBVIOUS
<1> HIDE DEF new, old
<1>7. Journals'
  <2>1. CASE RunsIntoTorn(old)
    <3>1. Told' = Told  BY <2>1 DEF old
    <3> QED  BY <1>1, <1>4, <1>5, <2>1, <3>1, SameReadKeeps DEF old
  <2>2. CASE ~RunsIntoTorn(old)
    <3>1. PICK p \in Nat : OneRead(old, new, l, p)  BY <1>4, <2>2
    <3>2. l.event = "filled" => l.arm = ArmOf(index) /\ l \notin Told /\ Told' = Told \cup {l}
      BY <2>2 DEF old
    <3> QED  BY <1>1, <1>4, <1>5, <1>6, <3>1, <3>2, OneReadKeeps DEF old
  <2> QED  BY <2>1, <2>2
<1>8. cycleNow.first => \A k \in ReadJournal(new) : new[k].of = <<sitting, index>>
  <2>1. HAVE cycleNow.first
  <2>2. \A k \in ReadJournal(old) : old[k].of = <<sitting, index>>  BY <2>1, <1>1 DEF Running, old
  <2>3. CASE RunsIntoTorn(old)  BY <2>2, <2>3, <1>4 DEF SameRead
  <2>4. CASE ~RunsIntoTorn(old)
    <3>1. PICK p \in Nat : OneRead(old, new, l, p)  BY <1>4, <2>4
    <3> QED  BY <2>2, <3>1 DEF OneRead
  <2> QED  BY <2>3, <2>4
<1>9. Running'  BY <1>1, <1>5, <1>8 DEF Running, ArmOf
<1>10. Uploaded'  BY <1>1 DEF Uploaded, Copies, ArmNames, ArmOf, Entry, Fill
<1>11. ~Over(l.of)
  <2>1. index \in Nat /\ sitting \in Nat  BY <1>1 DEF Running, Cycles
  <2> QED  BY <2>1, <1>6 DEF Over
<1>12. RowsCount'
  <2>1. Told' = Told \/ Told' = Told \cup {l}  OBVIOUS
  <2>2. \A of \in Sitting : Over(of) => Over(of)'  BY DEF Over
  <2> QED  BY <1>11, <2>1, <2>2, RowsStay
<1> QED  BY <1>7, <1>9, <1>10, <1>12 DEF LedgerInv

LEMMA FillIsNew ==
  ASSUME Made, NEW l \in Fill, l.n = Cardinality(made), made' = made \cup {l},
         spoiled' = spoiled \/ spoiled' = spoiled \cup {l}
  PROVE  l \notin made /\ Made'
<1>1. Cardinality(made) \in Nat  BY FS_CardinalityType DEF Made
<1>2. l \notin made  BY <1>1 DEF Made
<1>3. IsFiniteSet(made') /\ Cardinality(made') = Cardinality(made) + 1
  BY <1>2, FS_AddElement DEF Made
<1>4. ASSUME NEW f \in made'  PROVE f.n < Cardinality(made')
  <2>1. CASE f = l  BY <2>1, <1>1, <1>3
  <2>2. CASE f \in made
    <3>1. f.n < Cardinality(made) /\ f.n \in Nat  BY <2>2 DEF Made, Fill
    <3> QED  BY <3>1, <1>1, <1>3
  <2> QED  BY <2>1, <2>2
<1>5. made' \in SUBSET Fill /\ spoiled' \subseteq made'  BY DEF Made
<1>6. Fill' = Fill  BY DEF Fill, ArmNames, ArmOf
<1> QED  BY <1>2, <1>3, <1>4, <1>5, <1>6 DEF Made

LEMMA WritesGoOn == LedgerInv /\ Writes => LedgerInv'
<1> SUFFICES ASSUME LedgerInv, Writes  PROVE LedgerInv'
  OBVIOUS
<1>1. lPc = "child" /\ UNCHANGED <<lPc, index, sitting, cycleNow, ledger, bucket>>
  BY DEF Writes, run
<1>2. /\ Made /\ Journals /\ index \in Cycles /\ sitting \in Nat /\ index \in Nat
      /\ cycleNow.arm = ArmOf(index) /\ cycleNow.venues \subseteq Range(Family)
  BY <1>1 DEF LedgerInv, Running, Cycles
<1>3. <<sitting, index>> \in Sitting  BY <1>2 DEF Sitting
<1>4. CASE jrnl' = [jrnl EXCEPT ![index] = Extended(@, Aside)] /\ UNCHANGED <<made, spoiled>>
  <2>1. Aside \in Entry /\ Aside.event = "aside" /\ Aside.of = <<sitting, index>>
    BY <1>3 DEF Aside, Entry
  <2>2. Made'  BY <1>2, <1>4 DEF Made, Fill, ArmNames, ArmOf
  <2>3. Told' = Told  BY <1>4 DEF Told
  <2> HIDE DEF LedgerInv
  <2> QED  BY <1>1, <1>4, <2>1, <2>2, <2>3, LineIsWritten
<1>5. ASSUME NEW v \in cycleNow.venues, NEW mid \in BOOLEAN,
             jrnl' = [jrnl EXCEPT ![index] = Extended(@, Line("filled", v, mid))],
             made' = made \cup {Line("filled", v, mid)},
             spoiled' = spoiled \cup (IF RunsIntoTorn(jrnl[index]) THEN {Line("filled", v, mid)} ELSE {})
      PROVE  LedgerInv'
  <2> DEFINE l == Line("filled", v, mid)
  <2>1. Cardinality(made) \in Nat  BY <1>2, FS_CardinalityType DEF Made
  <2>2. v \in Range(Family) /\ cycleNow.arm \in ArmNames  BY <1>2 DEF ArmNames
  <2>3. /\ l \in Fill /\ l.event = "filled" /\ l.of = <<sitting, index>> /\ l.arm = ArmOf(index)
        /\ l.n = Cardinality(made)
    BY <1>2, <1>3, <2>1, <2>2 DEF Line, Fill
  <2>4. l \in Entry  BY <2>3 DEF Entry
  <2>5. /\ jrnl' = [jrnl EXCEPT ![index] = Extended(@, l)] /\ made' = made \cup {l}
        /\ spoiled' = spoiled \cup (IF RunsIntoTorn(jrnl[index]) THEN {l} ELSE {})
    BY <1>5
  <2> HIDE DEF l
  <2>6. l \notin made /\ Made'  BY <1>2, <2>3, <2>5, FillIsNew
  <2>7. spoiled \subseteq made  BY <1>2 DEF Made
  <2>8. l \notin Told /\ Told' = IF RunsIntoTorn(jrnl[index]) THEN Told ELSE Told \cup {l}
    BY <2>5, <2>6, <2>7 DEF Told
  <2> QED  BY <1>1, <2>3, <2>4, <2>5, <2>6, <2>8, LineIsWritten
<1> QED  BY <1>4, <1>5 DEF Writes

LEMMA RowIsWritten == LedgerInv /\ RecordRow => LedgerInv'
<1> SUFFICES ASSUME LedgerInv, RecordRow  PROVE LedgerInv'
  OBVIOUS
<1>1. /\ lPc = "row" /\ lPc' = "upload"
      /\ UNCHANGED <<index, sitting, cycleNow, jrnl, bucket, made, spoiled>>
      /\ ledger' = ledger \/ ledger' = Extended(ledger, Row)
  BY DEF RecordRow, GoOn
<1>2. /\ Made /\ Journals /\ Running /\ Uploaded /\ RowsCount
      /\ index \in Cycles /\ sitting \in Nat /\ index \in Nat /\ cycleNow.arm = ArmOf(index)
      /\ cycleNow.first \in BOOLEAN
      /\ cycleNow.first => \A k \in ReadJournal(jrnl[index]) : jrnl[index][k].of = <<sitting, index>>
  BY <1>1 DEF LedgerInv, Running, Cycles
<1>3. Told' = Told  BY <1>1 DEF Told
<1>4. Made' /\ Journals' /\ Running' /\ Uploaded'
  <2>1. Made'  BY <1>1, <1>2 DEF Made, Fill, ArmNames, ArmOf
  <2>2. Journals'  BY <1>1, <1>2, <1>3 DEF Journals, ArmOf
  <2>3. Running'  BY <1>1, <1>2 DEF Running, ArmOf
  <2>4. Uploaded'  BY <1>1, <1>2 DEF Uploaded, Copies, ArmNames, ArmOf, Entry, Fill
  <2> QED  BY <2>1, <2>2, <2>3, <2>4
<1>5. \A of \in Sitting : Over(of) => Over(of)'  BY <1>1 DEF Over
<1>6. CASE ledger' = ledger
  <2>1. RowsCount'  BY <1>3, <1>5, <1>6, RowsStay
  <2> QED  BY <2>1, <1>4 DEF LedgerInv
<1>7. CASE ledger' = Extended(ledger, Row)
  <2> DEFINE r == Row
             of == <<sitting, index>>
  <2>1. of \in Sitting /\ of[1] = sitting /\ of[2] = index  BY <1>2 DEF Sitting
  <2>2. Cardinality(FillsIn(jrnl[index])) \in Nat
    <3>1. jrnl[index] \in Seq(Entry)  BY <1>2 DEF Journals
    <3>2. FillsIn(jrnl[index]) \in SUBSET (1..Len(jrnl[index])) /\ Len(jrnl[index]) \in Nat
      BY <3>1 DEF FillsIn, ReadJournal
    <3>3. IsFiniteSet(1..Len(jrnl[index]))  BY <3>2, FS_Interval
    <3> QED  BY <3>2, <3>3, FS_Subset, FS_CardinalityType
  <2>3. cycleNow.arm \in ArmNames  BY <1>2 DEF ArmNames
  <2>4. /\ r \in RowEntry /\ r.event = "row" /\ r.of = of /\ r.first = cycleNow.first
        /\ r.fills = Cardinality(FillsIn(jrnl[index]))
    BY <1>2, <2>1, <2>2, <2>3 DEF Row, RowEntry, CountedFills
  <2> HIDE DEF r, of
  <2>5. r.first => r.fills = Cardinality(FillsOf(of))
    <3>1. HAVE r.first
    <3>2. \A k \in ReadJournal(jrnl[index]) : jrnl[index][k].of = of  BY <1>2, <2>4, <3>1 DEF of
    <3> QED  BY <1>2, <2>1, <2>4, <3>2, CycleIsCounted
  <2>6. r.first => r.fills = Cardinality(FillsOf(r.of)')
    BY <2>4, <2>5, <1>1, <1>3 DEF FillsOf, Row, r
  <2>7. Over(r.of)'
    <3>1. r' = r  BY <1>1 DEF r, Row
    <3> QED  BY <1>1, <2>1, <2>4, <3>1 DEF Over
  <2>8. ledger \in Seq(RowEntry) /\ Glued \in RowEntry  BY <1>2 DEF RowsCount, RowEntry
  <2>9. /\ ledger' \in Seq(RowEntry)
        /\ RunsIntoTorn(ledger) => SameRead(ledger, ledger')
        /\ ~RunsIntoTorn(ledger) => \E p \in Nat : OneRead(ledger, ledger', r, p)
    BY <1>7, <2>4, <2>8, ExtendedIsTold DEF r
  <2>10. ASSUME NEW k \in ReadJournal(ledger)
         PROVE  /\ Over(ledger[k].of) /\ ledger[k].of \in Sitting
                /\ ledger[k].first => ledger[k].fills = Cardinality(FillsOf(ledger[k].of))
    BY <1>2, <2>8, RowIsRow DEF RowsCount
  <2>11. ASSUME NEW k \in ReadJournal(ledger')
         PROVE  /\ Over(ledger[k].of)'
                /\ ledger'[k].first => ledger'[k].fills = Cardinality(FillsOf(ledger[k].of)')
    <3>1. \/ k \in ReadJournal(ledger) /\ ledger'[k] = ledger[k]
          \/ ledger'[k] = r
      BY <2>9 DEF SameRead, OneRead
    <3>2. CASE k \in ReadJournal(ledger) /\ ledger'[k] = ledger[k]
      <4>1. FillsOf(ledger[k].of)' = FillsOf(ledger[k].of)  BY <3>2, <1>3 DEF FillsOf
      <4>2. Over(ledger[k].of)'  BY <3>2, <2>10, <1>1 DEF Over
      <4> QED  BY <4>1, <4>2, <3>2, <2>10
    <3>3. CASE ledger'[k] = r
      <4>1. r' = r  BY <1>1 DEF r, Row
      <4>2. FillsOf(ledger[k].of)' = FillsOf(r.of)'  BY <3>3, <4>1 DEF FillsOf
      <4>3. Over(ledger[k].of)'  BY <3>3, <4>1, <2>7 DEF Over
      <4> QED  BY <3>3, <4>2, <4>3, <2>6
    <3> QED  BY <3>1, <3>2, <3>3
  <2>12. ReadJournal(ledger)' = ReadJournal(ledger')  BY DEF ReadJournal
  <2>13. RowEntry' = RowEntry  BY DEF RowEntry, ArmNames, ArmOf
  <2>14. RowsCount'  BY <2>9, <2>11, <2>12, <2>13 DEF RowsCount
  <2> QED  BY <2>14, <1>4 DEF LedgerInv
<1> QED  BY <1>1, <1>6, <1>7

LEMMA CopyIsSent == LedgerInv /\ Upload => LedgerInv'
<1> SUFFICES ASSUME LedgerInv, Upload  PROVE LedgerInv'
  OBVIOUS
<1> DEFINE u == [arm |-> cycleNow.arm, lines |-> jrnl[index], first |-> cycleNow.first]
<1>1. /\ lPc = "upload" /\ lPc' = "top"
      /\ UNCHANGED <<index, sitting, jrnl, ledger, made, spoiled>>
      /\ bucket' = bucket \/ bucket' = Append(bucket, u)
  BY DEF Upload, GoOn
<1>2. /\ Made /\ Journals /\ Running /\ Uploaded /\ index \in Cycles /\ cycleNow.arm = ArmOf(index)
      /\ cycleNow.first \in BOOLEAN
      /\ cycleNow.first => \A k \in ReadJournal(jrnl[index]) : jrnl[index][k].of = <<sitting, index>>
  BY <1>1 DEF LedgerInv, Running
<1>3. Told' = Told  BY <1>1 DEF Told
<1>4. Made'  BY <1>1, <1>2 DEF Made, Fill, ArmNames, ArmOf
<1>5. Journals'  BY <1>1, <1>2, <1>3 DEF Journals, ArmOf
<1>6. Running'  BY <1>1, <1>2 DEF Running
<1>7. RowsCount'
  <2>1. \A of \in Sitting : Over(of) => Over(of)'  BY <1>1 DEF Over
  <2> QED  BY <1>1, <1>3, <2>1, RowsStay
<1>8. Uploaded'
  <2>1. cycleNow.arm \in ArmNames /\ jrnl[index] \in Seq(Entry)  BY <1>2 DEF ArmNames, Journals
  <2>2. u \in Copies  BY <2>1, <1>2 DEF Copies
  <2>3. \A k \in FillsIn(u.lines) : u.lines[k].arm = u.arm  BY <1>2 DEF Journals
  <2>4. u.first => \A k, m \in ReadJournal(u.lines) : u.lines[k].of = u.lines[m].of  BY <1>2
  <2> HIDE DEF u
  <2>5. bucket \in Seq(Copies)  BY <1>2 DEF Uploaded
  <2>6. bucket' \in Seq(Copies)  BY <2>2, <2>5, <1>1
  <2>7. \A b \in DOMAIN bucket' : bucket'[b] = u \/ (b \in DOMAIN bucket /\ bucket'[b] = bucket[b])
    BY <2>2, <2>5, <1>1
  <2>8. ASSUME NEW b \in DOMAIN bucket'
        PROVE  /\ \A k \in FillsIn(bucket'[b].lines) : bucket'[b].lines[k].arm = bucket'[b].arm
               /\ bucket'[b].first => \A k, m \in ReadJournal(bucket'[b].lines) :
                                        bucket'[b].lines[k].of = bucket'[b].lines[m].of
    <3>1. CASE bucket'[b] = u  BY <3>1, <2>3, <2>4
    <3>2. CASE b \in DOMAIN bucket /\ bucket'[b] = bucket[b]  BY <3>2, <1>2 DEF Uploaded
    <3> QED  BY <2>7, <3>1, <3>2
  <2>9. Copies' = Copies  BY DEF Copies, ArmNames, ArmOf, Entry, Fill
  <2>10. \A b \in DOMAIN bucket' :
           /\ FillsIn(bucket[b].lines)' = FillsIn(bucket'[b].lines)
           /\ ReadJournal(bucket[b].lines)' = ReadJournal(bucket'[b].lines)
    BY DEF FillsIn, ReadJournal
  <2> QED  BY <2>6, <2>8, <2>9, <2>10 DEF Uploaded
<1> QED  BY <1>4, <1>5, <1>6, <1>7, <1>8 DEF LedgerInv

LEMMA KilledStays == LedgerInv /\ Killed => LedgerInv'
<1> SUFFICES ASSUME LedgerInv, Killed  PROVE LedgerInv'
  OBVIOUS
<1>1. /\ lPc' = "exited" /\ UNCHANGED <<index, sitting, bucket>>
      /\ \/ UNCHANGED disk
         \/ /\ lPc = "child" /\ jrnl' = [jrnl EXCEPT ![index] = Append(@, Torn)]
            /\ UNCHANGED <<ledger, made, spoiled>>
         \/ lPc = "row" /\ ledger' = Append(ledger, Torn) /\ UNCHANGED <<jrnl, made, spoiled>>
  BY DEF Killed, Exit, disk
<1>2. Made /\ Journals /\ Running /\ Uploaded /\ RowsCount  BY DEF LedgerInv
<1>3. Running'  BY <1>1, <1>2 DEF Running
<1>4. \A of \in Sitting : Over(of) => Over(of)'  BY <1>1 DEF Over
<1>5. CASE UNCHANGED disk  BY <1>3, <1>4, <1>5, FilesStay
<1>6. CASE /\ lPc = "child" /\ jrnl' = [jrnl EXCEPT ![index] = Append(@, Torn)]
           /\ UNCHANGED <<ledger, made, spoiled>>
  <2>1. index \in Cycles /\ jrnl \in [Cycles -> Seq(Entry)] /\ Torn \in Entry
    BY <1>2, <1>6 DEF Running, Journals, Entry
  <2>2. Append(jrnl[index], Torn) \in Seq(Entry) /\ SameRead(jrnl[index], Append(jrnl[index], Torn))
    BY <2>1, TornIsTold
  <2>3. Told' = Told /\ Made'  BY <1>2, <1>6 DEF Told, Made, Fill, ArmNames, ArmOf
  <2>4. Journals'  BY <1>2, <1>6, <2>1, <2>2, <2>3, SameReadKeeps
  <2>5. Uploaded'  BY <1>1, <1>2 DEF Uploaded, Copies, ArmNames, ArmOf, Entry, Fill
  <2>6. RowsCount'  BY <1>4, <1>6, <2>3, RowsStay
  <2> QED  BY <1>3, <2>3, <2>4, <2>5, <2>6 DEF LedgerInv
<1>7. CASE lPc = "row" /\ ledger' = Append(ledger, Torn) /\ UNCHANGED <<jrnl, made, spoiled>>
  <2>1. ledger \in Seq(RowEntry) /\ Torn \in RowEntry  BY <1>2 DEF RowsCount, RowEntry
  <2>2. ledger' \in Seq(RowEntry) /\ SameRead(ledger, ledger')  BY <1>7, <2>1, TornIsTold
  <2>3. Told' = Told  BY <1>7 DEF Told
  <2>4. Made'  BY <1>2, <1>7 DEF Made, Fill, ArmNames, ArmOf
  <2>5. Journals'  BY <1>2, <1>7, <2>3 DEF Journals, ArmOf
  <2>6. Uploaded'  BY <1>1, <1>2 DEF Uploaded, Copies, ArmNames, ArmOf, Entry, Fill
  <2>7. ReadJournal(ledger)' = ReadJournal(ledger)  BY <2>2 DEF ReadJournal, SameRead
  <2>8. ASSUME NEW k \in ReadJournal(ledger)
        PROVE  /\ Over(ledger[k].of)'
               /\ ledger'[k].first => ledger'[k].fills = Cardinality(FillsOf(ledger[k].of)')
    <3>1. ledger'[k] = ledger[k]  BY <2>2 DEF SameRead
    <3>2. Over(ledger[k].of) /\ (ledger[k].first => ledger[k].fills = Cardinality(FillsOf(ledger[k].of)))
      BY <1>2 DEF RowsCount
    <3>3. FillsOf(ledger[k].of)' = FillsOf(ledger[k].of)  BY <3>1, <2>3 DEF FillsOf
    <3>4. Over(ledger[k].of)'  BY <3>1, <3>2, <1>1 DEF Over
    <3> QED  BY <3>1, <3>2, <3>3, <3>4
  <2>9. RowEntry' = RowEntry  BY DEF RowEntry, ArmNames, ArmOf
  <2>10. RowsCount'  BY <2>2, <2>7, <2>8, <2>9 DEF RowsCount
  <2> QED  BY <1>3, <2>4, <2>5, <2>6, <2>10 DEF LedgerInv
<1> QED  BY <1>1, <1>5, <1>6, <1>7

LEMMA LedgerGoesOn == LedgerInv /\ (LedgerStep \/ UNCHANGED ledgerVars) => LedgerInv'
<1>1. ASSUME LedgerInv, UNCHANGED ledgerVars  PROVE LedgerInv'
  <2>1. UNCHANGED <<lPc, index, sitting, cycleNow, jrnl, disk>>  BY <1>1 DEF ledgerVars, run, disk
  <2>2. \A of \in Sitting : Over(of) => Over(of)'  BY <2>1 DEF Over
  <2>3. Running'  BY <1>1, <2>1 DEF LedgerInv, Running, ArmOf
  <2> QED  BY <1>1, <2>1, <2>2, <2>3, FilesStay
<1>2. LedgerInv /\ (FirstBalance \/ StopsAtTop \/ ChildDone) => LedgerInv'  BY RunnerGoesOn
<1> QED
  BY <1>1, <1>2, NextCycleBegins, StartedAgainBegins, WritesGoOn, RowIsWritten, CopyIsSent, KilledStays
  DEF LedgerStep

LEMMA ArmsAreKept == LedgerInv => ArmsKeepTheirFills
<1> SUFFICES ASSUME LedgerInv, NEW b \in DOMAIN Slices, NEW k \in DOMAIN Slices[b]
             PROVE  /\ Slices[b][k].arm = Slices[b][k].fill.arm
                    /\ Slices[b][k].begins = Slices[b][k].fill.of \/ ~Slices[b][k].first
  BY DEF ArmsKeepTheirFills
<1> DEFINE lines == bucket[b].lines
           begin == CHOOSE i \in ReadJournal(lines) : \A m \in ReadJournal(lines) : i <= m
<1>1. b \in DOMAIN bucket  BY DEF Slices
<1>2. k \in FillsIn(lines)  BY <1>1 DEF Slices
<1>3. Slices[b][k] = [fill |-> lines[k], arm |-> bucket[b].arm, begins |-> lines[begin].of,
                      first |-> bucket[b].first]
  BY <1>1 DEF Slices
<1>4. Uploaded  BY DEF LedgerInv
<1>5. lines[k].arm = bucket[b].arm  BY <1>1, <1>2, <1>4 DEF Uploaded
<1>6. begin \in ReadJournal(lines)
  <2>1. bucket[b] \in Copies  BY <1>1, <1>4, ElementOfSeq DEF Uploaded
  <2>2. lines \in Seq(Entry)  BY <2>1 DEF Copies
  <2>3. ReadJournal(lines) \in SUBSET Nat  BY <2>2 DEF ReadJournal
  <2>4. ReadJournal(lines) # {}  BY <1>2 DEF FillsIn
  <2> HIDE DEF lines
  <2>5. \E i \in ReadJournal(lines) : \A m \in ReadJournal(lines) : i <= m
    BY <2>3, <2>4, FirstNumber
  <2> QED  BY <2>5
<1>7. k \in ReadJournal(lines)  BY <1>2 DEF FillsIn
<1>8. bucket[b].first => lines[begin].of = lines[k].of
  BY <1>1, <1>4, <1>6, <1>7 DEF Uploaded
<1> HIDE DEF lines, begin
<1> QED  BY <1>3, <1>5, <1>8

LEMMA ReportsAgree == LedgerInv => ReportsCountOnce
<1> SUFFICES ASSUME LedgerInv  PROVE ReportsCountOnce
  OBVIOUS
<1>1. \A v \in Range(Family) :
        Cardinality(VenueFills(v)) = Cardinality({f \in made \ spoiled : f.venue = v})
  BY VenueIsCounted DEF LedgerInv, Told
<1>2. \A a \in Range(Arms) : \A k \in ArmRows(a) :
        ledger[k].first => ledger[k].fills = Cardinality({f \in made \ spoiled : f.of = ledger[k].of})
  BY DEF LedgerInv, RowsCount, ArmRows, FillsOf, Told
<1> QED  BY <1>1, <1>2 DEF ReportsCountOnce

(* Whatever fails, is killed or is started again between cycles, a fill of  *)
(* a journal in the bucket is of the arm in the journal's name, the report  *)
(* of a venue counts every fill once but for lines a kill tore, and a row   *)
(* of the ledger has the fills of its cycle when its journal was new        *)
(* (session_runner.py:535, journal.py:107, markout_slices.py:67).           *)
THEOREM LedgerStaysTrue == Spec => []LedgerIsTrue
<1>1. Init => LedgerInv  BY LedgerBegins DEF Init
<1>2. [Next]_vars => LedgerStep \/ UNCHANGED ledgerVars
  <2>1. UNCHANGED vars => UNCHANGED ledgerVars  BY DEF vars
  <2>2. Next => LedgerStep \/ UNCHANGED ledgerVars  BY Zenon DEF Next, Still
  <2> QED  BY <2>1, <2>2
<1>3. LedgerInv /\ [Next]_vars => LedgerInv'  BY <1>2, LedgerGoesOn
<1>4. LedgerInv => LedgerIsTrue  BY ArmsAreKept, ReportsAgree DEF LedgerIsTrue
<1> QED  BY <1>1, <1>3, <1>4, PTL DEF Spec

-----------------------------------------------------------------------------
(* The candles.  A draw is a sample of its family.                          *)
LEMMA FewInRange ==
  ASSUME NEW S, NEW s \in Seq(S)
  PROVE  IsFiniteSet(Range(s)) /\ Cardinality(Range(s)) <= Len(s) /\ Range(s) \subseteq S
<1>1. Len(s) \in Nat /\ s \in [1..Len(s) -> S]  BY LenProperties
<1>2. s \in Surjection(1..Len(s), Range(s)) /\ Range(s) \subseteq S  BY <1>1, Fun_RangeProperties
<1>3. IsFiniteSet(1..Len(s)) /\ Cardinality(1..Len(s)) = Len(s)
  <2>1. IsFiniteSet(1..Len(s)) /\ Cardinality(1..Len(s)) = IF 1 > Len(s) THEN 0 ELSE Len(s) - 1 + 1
    BY <1>1, FS_Interval
  <2> QED  BY <2>1, <1>1
<1> QED  BY <1>2, <1>3, FS_Surjection

LEMMA ApartInTheCircle ==
  ASSUME NEW n \in Nat, n # 0, NEW a \in Nat, NEW b \in Nat, a < b, b - a < n
  PROVE  a % n # b % n
<1>1. SUFFICES ASSUME a % n = b % n  PROVE FALSE
  OBVIOUS
<1> DEFINE p == a \div n  q == b \div n  r == a % n
<1>2. a = n * p + r /\ b = n * q + r /\ p \in Int /\ q \in Int /\ r \in Int  BY <1>1
<1> HIDE DEF p, q, r
<1>3. b - a = n * (q - p)  BY <1>2
<1>4. q - p \in Int  BY <1>2
<1>5. CASE q - p <= 0
  <2>1. n * (q - p) <= 0  BY <1>4, <1>5
  <2> QED  BY <2>1, <1>3
<1>6. CASE q - p >= 1
  <2>1. n * (q - p) >= n  BY <1>4, <1>6
  <2> QED  BY <2>1, <1>3
<1> QED  BY <1>4, <1>5, <1>6

LEMMA DrawIsASample ==
  ASSUME NEW f \in DOMAIN FamilyPools
  PROVE  /\ Drawn(f) \in Seq(Range(FamilyPools[f])) /\ IsInjective(Drawn(f))
         /\ Len(Drawn(f)) <= PerFamily
<1> DEFINE pool == FamilyPools[f]  P == Range(pool)  n == Len(pool)
<1>1. PerFamily \in Nat /\ SeedOf[f] \in Nat  BY Zenon, CollectorsAssumption
<1>2. pool \in Seq(P) /\ IsInjective(pool)  BY Zenon, CollectorsAssumption
<1> HIDE DEF P
<1>3. n \in Nat /\ DOMAIN pool = 1..n /\ \A i \in 1..n : pool[i] \in P  BY <1>2
<1>4. CASE n <= PerFamily
  <2>1. Drawn(f) = pool  BY <1>4 DEF Drawn
  <2> QED  BY <2>1, <1>2, <1>4 DEF P
<1>5. CASE ~(n <= PerFamily)
  <2> DEFINE at == SeedOf[f]  d == [i \in 1..PerFamily |-> pool[1 + ((at + i) % n)]]
  <2>1. Drawn(f) = d  BY <1>5 DEF Drawn, SampledAt
  <2>2. \A i \in 1..PerFamily : 1 + ((at + i) % n) \in 1..n
    <3>1. TAKE i \in 1..PerFamily
    <3>2. at + i \in Nat /\ n \in Nat /\ n # 0  BY <1>1, <1>3, <1>5
    <3>3. (at + i) % n \in 0..(n - 1)  BY <3>2
    <3> HIDE DEF at
    <3> QED  BY <3>2, <3>3
  <2>3. d \in [1..PerFamily -> P]  BY <2>2, <1>3
  <2>4. d \in Seq(P) /\ Len(d) = PerFamily  BY <2>3, <1>1
  <2>5. ASSUME NEW i \in 1..PerFamily, NEW j \in 1..PerFamily, i < j  PROVE d[i] # d[j]
    <3>1. at + i \in Nat /\ at + j \in Nat /\ at + i < at + j /\ (at + j) - (at + i) < n /\ n # 0
      BY <1>1, <1>3, <1>5, <2>5
    <3>2. (at + i) % n # (at + j) % n  BY <3>1, <1>3, ApartInTheCircle
    <3>3. (at + i) % n \in Int /\ (at + j) % n \in Int  BY <3>1, <1>3
    <3>4. 1 + ((at + i) % n) # 1 + ((at + j) % n)  BY <3>2, <3>3
    <3> HIDE DEF at
    <3>5. pool[1 + ((at + i) % n)] # pool[1 + ((at + j) % n)]  BY <3>4, <2>2, <1>2, <1>3 DEF IsInjective
    <3> QED  BY <3>5
  <2>6. ASSUME NEW i \in DOMAIN d, NEW j \in DOMAIN d, d[i] = d[j]  PROVE i = j
    <3>1. i \in 1..PerFamily /\ j \in 1..PerFamily  OBVIOUS
    <3> HIDE DEF d
    <3>2. ~(i < j) /\ ~(j < i)  BY <3>1, <2>5, <2>6
    <3> QED  BY <3>1, <3>2, <1>1
  <2>7. IsInjective(d)
    <3> HIDE DEF d
    <3> QED  BY <2>6 DEF IsInjective
  <2> HIDE DEF d
  <2> QED  BY <2>1, <2>4, <2>7, <1>1 DEF P
<1> QED  BY <1>4, <1>5

(* The sample of a run, whatever families it is over.                       *)
Drawns == UNION {Range(Drawn(f)) : f \in Range(FamilyOrder)}

LEMMA DrawsAreApart ==
  ASSUME NEW f \in DOMAIN FamilyPools, NEW g \in DOMAIN FamilyPools, f # g
  PROVE  Range(Drawn(f)) \cap Range(Drawn(g)) = {}
<1>1. Range(Drawn(f)) \subseteq Range(FamilyPools[f]) /\ Range(Drawn(g)) \subseteq Range(FamilyPools[g])
  BY DrawIsASample, FewInRange
<1>2. Range(FamilyPools[f]) \cap Range(FamilyPools[g]) = {}  BY Zenon, CollectorsAssumption
<1> QED  BY <1>1, <1>2

Flattened(seqs, out) ==
  out = [i \in 1..Len(seqs) |-> IF i = 1 THEN seqs[i] ELSE out[i - 1] \o seqs[i]]

LEMMA FlatExists ==
  ASSUME NEW S, NEW seqs \in Seq(Seq(S))
  PROVE  \E out : Flattened(seqs, out)
<1> DEFINE n == Len(seqs)  T == Seq(S)  g == [x \in T \X T |-> x[1] \o x[2]]
<1>1. n \in Nat /\ \A i \in 1..n : seqs[i] \in T  OBVIOUS
<1>2. g \in [T \X T -> T] /\ <<>> \in T  OBVIOUS
<1>3. PICK h \in [0..n -> T] : Partials(h, n, seqs, <<>>, g)
  <2> HIDE DEF T, n, g
  <2> QED  BY <1>1, <1>2, PartialResults
<1> DEFINE out == [i \in 1..n |-> h[i]]
<1>4. ASSUME NEW i \in 1..n  PROVE out[i] = IF i = 1 THEN seqs[i] ELSE out[i - 1] \o seqs[i]
  <2>1. h[i] = g[<<h[i - 1], seqs[i]>>] /\ h[0] = <<>>  BY <1>3 DEF Partials
  <2>2. i - 1 \in 0..n /\ h[i - 1] \in T /\ seqs[i] \in T
    <3>1. i - 1 \in 0..n  BY <1>1
    <3> HIDE DEF T, n, g
    <3> QED  BY <3>1, <1>1
  <2>3. h[i] = h[i - 1] \o seqs[i]  BY <2>1, <2>2
  <2>4. CASE i = 1
    <3>1. h[i - 1] = <<>>  BY <2>4, <2>1
    <3>2. <<>> \o seqs[i] = seqs[i]  BY <2>2, ConcatEmptySeq
    <3> QED  BY <2>3, <2>4, <3>1, <3>2
  <2>5. CASE i # 1
    <3>1. i - 1 \in 1..n  BY <2>5, <1>1
    <3> QED  BY <2>3, <2>5, <3>1
  <2> QED  BY <2>4, <2>5
<1> HIDE DEF T, g
<1>5. out = [i \in 1..n |-> IF i = 1 THEN seqs[i] ELSE out[i - 1] \o seqs[i]]  BY <1>4
<1> HIDE DEF out
<1> QED  BY <1>5 DEF Flattened

LEMMA FlatIsFlattened ==
  ASSUME NEW S, NEW seqs \in Seq(Seq(S)), Len(seqs) # 0
  PROVE  \E out : Flattened(seqs, out) /\ FlattenSeq(seqs) = out[Len(seqs)]
<1> DEFINE out == CHOOSE o : o = [i \in 1..Len(seqs) |-> IF i = 1 THEN seqs[i] ELSE o[i - 1] \o seqs[i]]
<1>1. Flattened(seqs, out)
  <2>1. \E o : o = [i \in 1..Len(seqs) |-> IF i = 1 THEN seqs[i] ELSE o[i - 1] \o seqs[i]]
    BY Zenon, FlatExists DEF Flattened
  <2> QED  BY Zenon, <2>1 DEF Flattened
<1>2. FlattenSeq(seqs) = out[Len(seqs)]  BY DEF FlattenSeq
<1> QED  BY <1>1, <1>2

LEMMA JoinedSamples ==
  ASSUME NEW S, NEW a \in Seq(S), NEW b \in Seq(S), IsInjective(a), IsInjective(b),
         Range(a) \cap Range(b) = {}
  PROVE  a \o b \in Seq(S) /\ IsInjective(a \o b) /\ Range(a \o b) = Range(a) \cup Range(b)
<1> DEFINE m == Len(a)  n == Len(b)  c == a \o b
<1>1. m \in Nat /\ n \in Nat /\ DOMAIN a = 1..m /\ DOMAIN b = 1..n  OBVIOUS
<1>2. /\ c \in Seq(S) /\ Len(c) = m + n
      /\ \A i \in 1..(m + n) : c[i] = IF i <= m THEN a[i] ELSE b[i - m]
  BY ConcatProperties
<1>3. DOMAIN c = 1..(m + n)  BY <1>2
<1> HIDE DEF c, m, n
<1>4. \A i \in 1..(m + n) : (i <= m => i \in 1..m) /\ (~(i <= m) => i - m \in 1..n)  BY <1>1
<1>5. \A i \in 1..m, j \in 1..n : a[i] # b[j]  BY <1>1 DEF Range
<1>6. ASSUME NEW i \in 1..(m + n), NEW j \in 1..(m + n), c[i] = c[j]  PROVE i = j
  <2>1. CASE i <= m /\ j <= m  BY <2>1, <1>1, <1>2, <1>4, <1>6 DEF IsInjective
  <2>2. CASE i <= m /\ ~(j <= m)  BY <2>2, <1>2, <1>4, <1>5, <1>6
  <2>3. CASE ~(i <= m) /\ j <= m  BY <2>3, <1>2, <1>4, <1>5, <1>6
  <2>4. CASE ~(i <= m) /\ ~(j <= m)
    <3>1. i - m = j - m  BY <2>4, <1>1, <1>2, <1>4, <1>6 DEF IsInjective
    <3> QED  BY <3>1, <1>1
  <2> QED  BY <2>1, <2>2, <2>3, <2>4
<1>7. IsInjective(c)  BY <1>3, <1>6 DEF IsInjective
<1>8. Range(c) \subseteq Range(a) \cup Range(b)  BY <1>1, <1>2, <1>3, <1>4 DEF Range
<1>9. ASSUME NEW i \in 1..m  PROVE a[i] \in Range(c)
  <2>1. i \in 1..(m + n) /\ i <= m  BY <1>1
  <2>2. c[i] = a[i]  BY <2>1, <1>2
  <2> QED  BY <2>1, <2>2, <1>3 DEF Range
<1>10. ASSUME NEW j \in 1..n  PROVE b[j] \in Range(c)
  <2>1. j + m \in 1..(m + n) /\ ~(j + m <= m) /\ (j + m) - m = j  BY <1>1
  <2>2. c[j + m] = b[j]  BY <2>1, <1>2
  <2> QED  BY <2>1, <2>2, <1>3 DEF Range
<1>11. Range(a) \cup Range(b) \subseteq Range(c)  BY <1>1, <1>9, <1>10 DEF Range
<1> QED  BY <1>2, <1>7, <1>8, <1>11 DEF c

LEMMA FlatIsASample ==
  ASSUME NEW S, NEW seqs \in Seq(Seq(S)),
         \A i \in 1..Len(seqs) : IsInjective(seqs[i]),
         \A i, j \in 1..Len(seqs) : i # j => Range(seqs[i]) \cap Range(seqs[j]) = {}
  PROVE  FlattenSeq(seqs) \in Seq(S) /\ IsInjective(FlattenSeq(seqs))
<1> DEFINE n == Len(seqs)
<1>1. n \in Nat /\ \A i \in 1..n : seqs[i] \in Seq(S)  OBVIOUS
<1>2. CASE n = 0
  <2>1. seqs = <<>> /\ FlattenSeq(seqs) = seqs  BY <1>2 DEF FlattenSeq
  <2>2. DOMAIN <<>> = {} /\ <<>> \in Seq(S)
    <3>1. DOMAIN <<>> = 1..0 /\ 1..0 = {}  OBVIOUS
    <3> QED  BY <3>1, EmptySeq
  <2> QED  BY <2>1, <2>2 DEF IsInjective
<1>3. CASE n # 0
  <2>1. PICK out : Flattened(seqs, out) /\ FlattenSeq(seqs) = out[n]  BY <1>3, FlatIsFlattened
  <2> DEFINE Good(k) == /\ out[k] \in Seq(S) /\ IsInjective(out[k])
                        /\ Range(out[k]) \subseteq UNION {Range(seqs[i]) : i \in 1..k}
             Bad == {k \in 1..n : ~Good(k)}
  <2>2. SUFFICES ASSUME Bad # {}  PROVE FALSE
    <3>1. n \in 1..n  BY <1>1, <1>3
    <3>2. Bad = {} => Good(n)  BY <3>1
    <3> QED  BY <3>2, <2>1
  <2>3. PICK k \in Bad : \A q \in Bad : k <= q
    <3>1. Bad \in SUBSET Nat  BY <1>1
    <3> HIDE DEF Bad
    <3> QED  BY <2>2, <3>1, FirstNumber
  <2>4. k \in 1..n /\ k \in Nat /\ ~Good(k)  BY <1>1
  <2>5. out[k] = IF k = 1 THEN seqs[k] ELSE out[k - 1] \o seqs[k]  BY <2>1, <2>4 DEF Flattened
  <2>6. seqs[k] \in Seq(S) /\ IsInjective(seqs[k])  BY <1>1, <2>4
  <2>7. CASE k = 1
    <3>1. out[k] = seqs[k]  BY <2>5, <2>7
    <3>2. k \in 1..k  BY <2>4
    <3>3. Range(seqs[k]) \subseteq UNION {Range(seqs[i]) : i \in 1..k}  BY <3>2
    <3> QED  BY <3>1, <3>3, <2>6, <2>4
  <2>8. CASE k # 1
    <3> DEFINE a == out[k - 1]  b == seqs[k]
    <3>1. k - 1 \in 1..n /\ ~(k <= k - 1)  BY <2>4, <2>8
    <3>2. Good(k - 1)  BY <3>1, <2>3
    <3>3. out[k] = a \o b  BY <2>5, <2>8
    <3>4. a \in Seq(S) /\ IsInjective(a) /\ b \in Seq(S) /\ IsInjective(b)  BY <3>2, <2>6
    <3>5. Range(a) \cap Range(b) = {}
      <4>1. \A i \in 1..(k - 1) : i \in 1..n /\ i # k  BY <2>4
      <4>2. \A i \in 1..(k - 1) : Range(seqs[i]) \cap Range(b) = {}  BY <4>1, <2>4
      <4>3. Range(a) \subseteq UNION {Range(seqs[i]) : i \in 1..(k - 1)}  BY <3>2
      <4> HIDE DEF a, b
      <4> QED  BY <4>2, <4>3
    <3>6. Range(a) \cup Range(b) \subseteq UNION {Range(seqs[i]) : i \in 1..k}
      <4>1. \A i \in 1..(k - 1) : i \in 1..k  BY <2>4
      <4>2. k \in 1..k  BY <2>4
      <4>3. Range(a) \subseteq UNION {Range(seqs[i]) : i \in 1..(k - 1)}  BY <3>2
      <4> HIDE DEF a
      <4> QED  BY <4>1, <4>2, <4>3
    <3> HIDE DEF a, b
    <3>7. a \o b \in Seq(S) /\ IsInjective(a \o b) /\ Range(a \o b) \subseteq Range(a) \cup Range(b)
      BY <3>4, <3>5, JoinedSamples
    <3> QED  BY <3>3, <3>6, <3>7, <2>4
  <2> QED  BY <2>7, <2>8
<1> QED  BY <1>2, <1>3

LEMMA ChosenIsASample ==
  ASSUME NEW families
  PROVE  Choose(families) \in Seq(Drawns) /\ IsInjective(Choose(families))
<1> DEFINE take(i) == IF FamilyOrder[i] \in families THEN Drawn(FamilyOrder[i]) ELSE <<>>
           seqs == [i \in DOMAIN FamilyOrder |-> take(i)]
<1>1. FamilyOrder \in Seq(DOMAIN FamilyPools) /\ IsInjective(FamilyOrder)  BY Zenon, CollectorsAssumption
<1>2. /\ Len(FamilyOrder) \in Nat /\ DOMAIN FamilyOrder = 1..Len(FamilyOrder)
      /\ \A i \in DOMAIN FamilyOrder : FamilyOrder[i] \in DOMAIN FamilyPools
  BY <1>1, LenProperties, ElementOfSeq
<1>3. <<>> \in Seq(Drawns) /\ IsInjective(<<>>) /\ Range(<<>>) = {}
  <2>1. DOMAIN <<>> = 1..0 /\ 1..0 = {}  OBVIOUS
  <2> QED  BY <2>1, EmptySeq DEF IsInjective, Range
<1>4. ASSUME NEW i \in DOMAIN FamilyOrder
      PROVE  take(i) \in Seq(Drawns) /\ IsInjective(take(i)) /\ Range(take(i)) \subseteq Range(Drawn(FamilyOrder[i]))
  <2> DEFINE d == Drawn(FamilyOrder[i])
  <2>1. FamilyOrder[i] \in DOMAIN FamilyPools /\ FamilyOrder[i] \in Range(FamilyOrder)  BY <1>2 DEF Range
  <2>2. d \in Seq(Range(FamilyPools[FamilyOrder[i]])) /\ IsInjective(d)  BY <2>1, DrawIsASample
  <2>3. Range(d) \subseteq Drawns  BY <2>1 DEF Drawns
  <2> HIDE DEF d
  <2>4. d \in Seq(Range(d))
    <3>1. Len(d) \in Nat /\ d \in [1..Len(d) -> Range(FamilyPools[FamilyOrder[i]])]  BY <2>2, LenProperties
    <3>2. d \in [1..Len(d) -> Range(d)]  BY <3>1 DEF Range
    <3> QED  BY <3>1, <3>2, SeqDef
  <2>5. d \in Seq(Drawns)  BY <2>3, <2>4, SeqMonotonic
  <2> QED  BY <2>2, <2>5, <1>3 DEF d
<1>5. seqs \in Seq(Seq(Drawns)) /\ Len(seqs) = Len(FamilyOrder)
  <2> HIDE DEF take
  <2>1. seqs \in [1..Len(FamilyOrder) -> Seq(Drawns)]  BY <1>2, <1>4
  <2> QED  BY <2>1, <1>2
<1>6. \A i \in 1..Len(seqs) : IsInjective(seqs[i])
  <2> HIDE DEF take
  <2> QED  BY <1>2, <1>4, <1>5
<1>7. ASSUME NEW i \in 1..Len(seqs), NEW j \in 1..Len(seqs), i # j
      PROVE  Range(seqs[i]) \cap Range(seqs[j]) = {}
  <2>1. i \in DOMAIN FamilyOrder /\ j \in DOMAIN FamilyOrder  BY <1>2, <1>5
  <2>2. FamilyOrder[i] # FamilyOrder[j]  BY <2>1, <1>1, <1>7 DEF IsInjective
  <2>3. Range(Drawn(FamilyOrder[i])) \cap Range(Drawn(FamilyOrder[j])) = {}  BY <2>1, <2>2, <1>2, DrawsAreApart
  <2> HIDE DEF take
  <2> QED  BY <2>1, <2>3, <1>4
<1>8. Choose(families) = FlattenSeq(seqs)  BY DEF Choose
<1> HIDE DEF seqs
<1> QED  BY <1>5, <1>6, <1>7, <1>8, FlatIsASample

(* What a family has in the corpus is of its draw.                          *)
LEMMA DesignHolds ==
  ASSUME NEW S \in SUBSET Drawns, NEW f \in Range(FamilyOrder)
  PROVE  Cardinality(S \cap Range(FamilyPools[f])) <= PerFamily
<1>1. FamilyOrder \in Seq(DOMAIN FamilyPools)  BY Zenon, CollectorsAssumption
<1>2. \A g \in Range(FamilyOrder) : g \in DOMAIN FamilyPools  BY <1>1, FewInRange
<1>3. \A g \in Range(FamilyOrder) : Range(Drawn(g)) \subseteq Range(FamilyPools[g])
  BY <1>2, DrawIsASample, FewInRange
<1>4. \A g \in DOMAIN FamilyPools \ {f} : Range(FamilyPools[f]) \cap Range(FamilyPools[g]) = {}
  BY Zenon, <1>2, CollectorsAssumption
<1>5. S \cap Range(FamilyPools[f]) \subseteq Range(Drawn(f))  BY <1>2, <1>3, <1>4 DEF Drawns
<1>6. /\ IsFiniteSet(Range(Drawn(f))) /\ Cardinality(Range(Drawn(f))) <= Len(Drawn(f))
      /\ Len(Drawn(f)) <= PerFamily /\ Len(Drawn(f)) \in Nat
  BY <1>2, DrawIsASample, FewInRange
<1>7. PerFamily \in Nat  BY Zenon, CollectorsAssumption
<1>8. IsFiniteSet(S \cap Range(FamilyPools[f]))
      /\ Cardinality(S \cap Range(FamilyPools[f])) <= Cardinality(Range(Drawn(f)))
  BY <1>5, <1>6, FS_Subset
<1>9. Cardinality(Range(Drawn(f))) \in Nat /\ Cardinality(S \cap Range(FamilyPools[f])) \in Nat
  BY <1>6, <1>8, FS_CardinalityType
<1> QED  BY <1>6, <1>7, <1>8, <1>9

(* A run: what it began with, what it has passed and what is not there of   *)
(* that.                                                                    *)
Missing == {sample[k] : k \in 1..(nextMarket - 1)} \ (Range(corpus) \cup droppedNow)

Sampling ==
  /\ sample \in Seq(Drawns) /\ IsInjective(sample)
  /\ corpus \in Seq(Drawns) /\ IsInjective(corpus)
  /\ nextMarket \in 1..(Len(sample) + 1)
Fetching ==
  cdPc = "fetch" =>
    /\ fetchDone \subseteq Range(corpus)
    /\ \A k \in nextMarket..Len(sample) : sample[k] \in Range(corpus) => sample[k] \in fetchDone
    /\ tornTail => tornFound
Fetched ==
  cdPc # "off" =>
    /\ \A x, y \in Missing : x = y
    /\ Missing # {} => tornFound /\ ~tornTail
    /\ cdPc = "ended" => nextMarket = Len(sample) + 1

CandlesInv ==
  /\ cdPc \in {"off", "fetch", "ended"} /\ tornTail \in BOOLEAN /\ tornFound \in BOOLEAN
  /\ Sampling /\ Fetching /\ Fetched

LEMMA CandlesBegin == CollectorsInit => CandlesInv
<1> SUFFICES ASSUME CollectorsInit  PROVE CandlesInv
  OBVIOUS
<1>2. cdPc = "off" /\ sample = <<>> /\ nextMarket = 1 /\ corpus = <<>> /\ ~tornTail /\ ~tornFound
  BY DEF CollectorsInit
<1>3. <<>> \in Seq(Drawns) /\ IsInjective(<<>>) /\ Len(<<>>) = 0
  <2>1. DOMAIN <<>> = 1..0 /\ 1..0 = {}  OBVIOUS
  <2> QED  BY <2>1, EmptySeq DEF IsInjective
<1>4. Sampling  BY <1>2, <1>3 DEF Sampling
<1>5. Fetching /\ Fetched  BY <1>2 DEF Fetching, Fetched
<1>6. tornTail = FALSE /\ tornFound = FALSE  BY Zenon DEF CollectorsInit
<1> QED  BY <1>2, <1>4, <1>5, <1>6 DEF CandlesInv

LEMMA OneMoreSampled ==
  ASSUME NEW S, NEW s \in Seq(S), IsInjective(s), NEW x \in S, x \notin Range(s)
  PROVE  /\ Append(s, x) \in Seq(S) /\ IsInjective(Append(s, x))
         /\ Range(Append(s, x)) = Range(s) \cup {x}
<1> DEFINE c == Append(s, x)  n == Len(s)
<1>1. n \in Nat /\ DOMAIN s = 1..n  OBVIOUS
<1>2. c \in Seq(S) /\ Len(c) = n + 1 /\ (\A i \in 1..n : c[i] = s[i]) /\ c[n + 1] = x
  BY AppendProperties
<1>3. DOMAIN c = 1..(n + 1)  BY <1>2
<1>4. \A i \in 1..(n + 1) : i \in 1..n \/ i = n + 1  BY <1>1
<1>5. \A i \in 1..n : s[i] # x  BY <1>1 DEF Range
<1> HIDE DEF c, n
<1>6. ASSUME NEW i \in 1..(n + 1), NEW j \in 1..(n + 1), c[i] = c[j]  PROVE i = j
  <2>1. CASE i \in 1..n /\ j \in 1..n  BY <2>1, <1>1, <1>2, <1>6 DEF IsInjective
  <2>2. CASE ~(i \in 1..n /\ j \in 1..n)  BY <2>2, <1>2, <1>4, <1>5, <1>6
  <2> QED  BY <2>1, <2>2
<1>7. IsInjective(c)  BY <1>3, <1>6 DEF IsInjective
<1>8. Range(c) = Range(s) \cup {x}
  <2>1. 1..n \subseteq 1..(n + 1) /\ n + 1 \in 1..(n + 1)  BY <1>1
  <2> QED  BY <2>1, <1>1, <1>2, <1>3, <1>4 DEF Range
<1> QED  BY <1>2, <1>7, <1>8 DEF c

(* What one market of the run does to what is missing.                      *)
LEMMA MarketIsPassed ==
  ASSUME CandlesInv, FetchMarket
  PROVE  CandlesInv'
<1> DEFINE t == sample[nextMarket]
<1>1. /\ cdPc = "fetch" /\ nextMarket <= Len(sample) /\ nextMarket' = nextMarket + 1
      /\ UNCHANGED <<cdPc, sample, fetchDone, tornFound>>
  BY DEF FetchMarket
<1>2. /\ sample \in Seq(Drawns) /\ IsInjective(sample) /\ corpus \in Seq(Drawns) /\ IsInjective(corpus)
      /\ nextMarket \in 1..(Len(sample) + 1) /\ Len(sample) \in Nat /\ DOMAIN sample = 1..Len(sample)
  BY DEF CandlesInv, Sampling
<1>3. nextMarket \in 1..Len(sample)  BY <1>1, <1>2
<1>4. t \in Drawns  BY <1>2, <1>3, ElementOfSeq
<1>5. fetchDone \subseteq Range(corpus) /\ (tornTail => tornFound)
  BY <1>1 DEF CandlesInv, Fetching
<1>6. \A k \in nextMarket..Len(sample) : sample[k] \in Range(corpus) => sample[k] \in fetchDone
  BY <1>1 DEF CandlesInv, Fetching
<1>7. (\A x, y \in Missing : x = y) /\ (Missing # {} => tornFound /\ ~tornTail)
  BY <1>1 DEF CandlesInv, Fetched
<1>8. tornTail \in BOOLEAN /\ tornFound \in BOOLEAN  BY DEF CandlesInv
<1>9. t \in Range(corpus) => t \in fetchDone
  <2>1. nextMarket \in nextMarket..Len(sample)  BY <1>3
  <2> QED  BY <2>1, <1>6
<1>10. {sample[k] : k \in 1..nextMarket} = {sample[k] : k \in 1..(nextMarket - 1)} \cup {t}
  <2>1. 1..nextMarket = (1..(nextMarket - 1)) \cup {nextMarket}  BY <1>3
  <2> QED  BY <2>1
<1> DEFINE passed == {sample[k] : k \in 1..(nextMarket - 1)}
<1>11. Missing' = (passed \cup {t}) \ (Range(corpus') \cup droppedNow')
  <2>1. (nextMarket - 1)' = nextMarket /\ sample' = sample  BY <1>1, <1>3
  <2>2. Missing' = {sample[k] : k \in 1..nextMarket} \ (Range(corpus') \cup droppedNow')
    BY <2>1 DEF Missing, Range
  <2> QED  BY <2>2, <1>10
<1>12. Missing = passed \ (Range(corpus) \cup droppedNow)  BY DEF Missing
<1>13. nextMarket' \in 1..(Len(sample') + 1)  BY <1>1, <1>3
<1>14. \A k \in nextMarket'..Len(sample') : k \in nextMarket..Len(sample) /\ k # nextMarket /\ sample'[k] = sample[k]
  BY <1>1, <1>3
<1>15. \A k \in nextMarket'..Len(sample') : sample[k] # t
  <2>1. \A k \in nextMarket'..Len(sample') : k \in 1..Len(sample)  BY <1>1, <1>3
  <2> QED  BY <2>1, <1>2, <1>3, <1>14 DEF IsInjective
<1> HIDE DEF t, passed
<1>16. SUFFICES ASSUME /\ corpus' \in Seq(Drawns) /\ IsInjective(corpus')
                       /\ Range(corpus) \subseteq Range(corpus')
                       /\ Range(corpus') \subseteq Range(corpus) \cup {t}
                       /\ tornTail' \in BOOLEAN /\ (tornTail' => tornFound)
                       /\ \A x, y \in Missing' : x = y
                       /\ Missing' # {} => tornFound /\ ~tornTail'
                PROVE  CandlesInv'
  <2>1. SUFFICES /\ corpus' \in Seq(Drawns) /\ IsInjective(corpus')
                 /\ Range(corpus) \subseteq Range(corpus')
                 /\ Range(corpus') \subseteq Range(corpus) \cup {t}
                 /\ tornTail' \in BOOLEAN /\ (tornTail' => tornFound)
                 /\ \A x, y \in Missing' : x = y
                 /\ Missing' # {} => tornFound /\ ~tornTail'
    BY <1>16
  <2>2. CASE t \in fetchDone /\ UNCHANGED <<corpus, tornTail, droppedNow>>
    <3>1. Missing' = Missing  BY <2>2, <1>5, <1>11, <1>12 DEF Range
    <3> QED  BY <3>1, <2>2, <1>2, <1>5, <1>7, <1>8
  <2>3. CASE /\ t \notin fetchDone /\ tornTail' = FALSE /\ UNCHANGED droppedNow
             /\ corpus' = IF tornTail THEN corpus ELSE Append(corpus, t)
    <3>1. CASE tornTail
      <4>1. corpus' = corpus /\ Missing = {}  BY <2>3, <3>1, <1>7
      <4>2. Missing' \subseteq {t}  BY <2>3, <4>1, <1>11, <1>12
      <4> QED  BY <4>1, <4>2, <2>3, <3>1, <1>2, <1>5
    <3>2. CASE ~tornTail
      <4>1. t \notin Range(corpus)  BY <2>3, <1>9
      <4>2. corpus' = Append(corpus, t)  BY <2>3, <3>2
      <4>3. corpus' \in Seq(Drawns) /\ IsInjective(corpus') /\ Range(corpus') = Range(corpus) \cup {t}
        BY <4>1, <4>2, <1>2, <1>4, OneMoreSampled
      <4>4. Missing' \subseteq Missing  BY <4>3, <2>3, <1>11, <1>12
      <4> QED  BY <4>3, <4>4, <2>3, <3>2, <1>7
    <3> QED  BY <3>1, <3>2
  <2>4. CASE t \notin fetchDone /\ droppedNow' = droppedNow \cup {t} /\ UNCHANGED <<corpus, tornTail>>
    <3>1. Missing' \subseteq Missing  BY <2>4, <1>11, <1>12
    <3> QED  BY <3>1, <2>4, <1>2, <1>5, <1>7, <1>8
  <2> QED  BY <2>2, <2>3, <2>4 DEF FetchMarket, t
<1>17. Sampling'  BY <1>1, <1>2, <1>13, <1>16 DEF Sampling
<1>18. Fetching'
  <2>1. fetchDone' \subseteq Range(corpus')  BY <1>1, <1>5, <1>16
  <2>2. \A k \in nextMarket'..Len(sample') : sample'[k] \in Range(corpus') => sample'[k] \in fetchDone'
    BY <1>1, <1>6, <1>14, <1>15, <1>16
  <2>3. tornTail' => tornFound'  BY <1>1, <1>16
  <2> QED  BY <2>1, <2>2, <2>3 DEF Fetching, Range
<1>19. Fetched'  BY <1>1, <1>16 DEF Fetched
<1> QED  BY <1>1, <1>8, <1>16, <1>17, <1>18, <1>19 DEF CandlesInv

LEMMA CandlesGoOn ==
  ASSUME CandlesInv, CandlesStep \/ UNCHANGED candles
  PROVE  CandlesInv'
<1> USE DEF CandlesInv
<1>1. CASE FetchStarts
  <2>1. PICK families \in SUBSET Range(FamilyOrder) : sample' = Choose(families)  BY <1>1 DEF FetchStarts
  <2>2. /\ cdPc' = "fetch" /\ fetchDone' = Range(corpus) /\ nextMarket' = 1 /\ corpus' = corpus
        /\ tornFound' = tornTail /\ tornTail' = tornTail
    BY <1>1 DEF FetchStarts
  <2>3. sample' \in Seq(Drawns) /\ IsInjective(sample')  BY <2>1, ChosenIsASample
  <2>4. Sampling'  BY <2>2, <2>3 DEF Sampling
  <2>5. Missing' = {}
    <3>1. 1..(nextMarket - 1)' = {}  BY <2>2
    <3> QED  BY <3>1 DEF Missing
  <2>6. Fetching'  BY <2>2 DEF Fetching
  <2>7. Fetched'  BY <2>2, <2>5 DEF Fetched
  <2> QED  BY <2>2, <2>4, <2>6, <2>7
<1>2. CASE FetchMarket  BY <1>2, MarketIsPassed
<1>3. CASE FetchEnds
  <2>1. /\ cdPc = "fetch" /\ nextMarket > Len(sample) /\ cdPc' = "ended"
        /\ UNCHANGED <<sample, fetchDone, nextMarket, corpus, tornTail, tornFound, droppedNow>>
    BY <1>3 DEF FetchEnds
  <2>2. Missing' = Missing  BY <2>1 DEF Missing, Range
  <2>3. nextMarket' = Len(sample') + 1
    <3>1. nextMarket \in 1..(Len(sample) + 1) /\ Len(sample) \in Nat  BY DEF Sampling
    <3> QED  BY <3>1, <2>1
  <2>4. Sampling'  BY <2>1 DEF Sampling
  <2>5. Fetching'  BY <2>1 DEF Fetching
  <2>6. Fetched'  BY <2>1, <2>2, <2>3 DEF Fetched
  <2> QED  BY <2>1, <2>4, <2>5, <2>6
<1>4. CASE FetchKilled \/ FetchAgain
  <2>1. cdPc' = "off" /\ tornTail' \in BOOLEAN /\ UNCHANGED <<sample, nextMarket, corpus, tornFound>>
    BY <1>4 DEF FetchKilled, FetchAgain
  <2>2. Sampling' /\ Fetching' /\ Fetched'  BY <2>1 DEF Sampling, Fetching, Fetched
  <2> QED  BY <2>1, <2>2
<1>5. CASE UNCHANGED candles
  <2>1. UNCHANGED <<cdPc, sample, fetchDone, nextMarket, corpus, tornTail, tornFound, droppedNow>>
    BY <1>5 DEF candles
  <2>2. Missing' = Missing  BY <2>1 DEF Missing, Range
  <2>3. Sampling'  BY <2>1 DEF Sampling
  <2>4. Fetching'  BY <2>1 DEF Fetching, Range
  <2>5. Fetched'  BY <2>1, <2>2 DEF Fetched
  <2> QED  BY <2>1, <2>3, <2>4, <2>5
<1> QED  BY <1>1, <1>2, <1>3, <1>4, <1>5 DEF CandlesStep

LEMMA CorpusHolds ==
  ASSUME CandlesInv
  PROVE  CorpusKeepsTheDesign
<1>1. corpus \in Seq(Drawns) /\ IsInjective(corpus) /\ Range(corpus) \in SUBSET Drawns
  BY FewInRange DEF CandlesInv, Sampling
<1>2. \A f \in Range(FamilyOrder) : Cardinality(Range(corpus) \cap Range(FamilyPools[f])) <= PerFamily
  BY <1>1, DesignHolds
<1>3. ASSUME cdPc = "ended"
      PROVE  Cardinality((Range(sample) \ Range(corpus)) \ droppedNow) <= IF tornFound THEN 1 ELSE 0
  <2>1. nextMarket - 1 = Len(sample) /\ DOMAIN sample = 1..Len(sample)
    BY <1>3 DEF CandlesInv, Sampling, Fetched
  <2>2. Missing = (Range(sample) \ Range(corpus)) \ droppedNow  BY <2>1 DEF Missing, Range
  <2>3. (\A x, y \in Missing : x = y) /\ (Missing # {} => tornFound)  BY <1>3 DEF CandlesInv, Fetched
  <2>4. CASE Missing = {}  BY <2>2, <2>4, FS_EmptySet
  <2>5. CASE Missing # {}
    <3>1. PICK x \in Missing : TRUE  BY <2>5
    <3>2. Missing = {x}  BY <3>1, <2>3
    <3>3. Cardinality(Missing) = 1  BY <3>2, FS_Singleton
    <3> QED  BY <3>3, <2>2, <2>3, <2>5
  <2> QED  BY <2>4, <2>5
<1> QED  BY <1>1, <1>2, <1>3 DEF CorpusKeepsTheDesign

(* The corpus of candles has no market twice and of each family no more     *)
(* than its sample, after any number of runs over any families that were    *)
(* killed anywhere; a run that ends misses none of its sample but those it  *)
(* dropped and one behind a torn line (settlement_candles.py:108).          *)
THEOREM CorpusIsKept == Spec => []CorpusKeepsTheDesign
<1>1. Init => CandlesInv  BY CandlesBegin DEF Init
<1>2. [Next]_vars => CandlesStep \/ UNCHANGED candles
  <2>1. UNCHANGED vars => UNCHANGED candles  BY DEF vars, collectors
  <2>2. Next => CandlesStep \/ UNCHANGED candles  BY Zenon DEF Next, Still
  <2> QED  BY <2>1, <2>2
<1>3. CandlesInv /\ [Next]_vars => CandlesInv'  BY <1>2, CandlesGoOn
<1>4. CandlesInv => CorpusKeepsTheDesign  BY CorpusHolds
<1> QED  BY <1>1, <1>3, <1>4, PTL DEF Spec

-----------------------------------------------------------------------------
(* The crawl.  What it has written lies before the cursor, and all it wants *)
(* that lies there and had settled when it began is written.                *)
Wanted(i) == Settled[i].traded /\ (filtered => Settled[i].recent)
WantedIsWritten(first, last) == \A i \in first..last : Wanted(i) => crawlFile[i] = 1

CrawlInv ==
  /\ crawlFile \in [1..Len(Settled) -> 0..1]
  /\ settledBy \in Nat \ {0} /\ beganAt \in Nat \ {0} /\ cursor \in 0..Len(Settled)
  /\ crPc \in {"off", "page", "ended"}
  /\ crPc = "page" =>
       /\ settledBy <= beganAt
       /\ \A i \in 1..Len(Settled) : crawlFile[i] = 1 => i <= cursor
       /\ WantedIsWritten(beganAt, cursor)
       /\ filtered => \A i \in 1..cursor : Settled[i].recent
  /\ crPc = "ended" => WantedIsWritten(beganAt, Len(Settled))

LEMMA SettledIsListed ==
  Len(Settled) \in Nat /\ DOMAIN Settled = 1..Len(Settled) /\ PageSize \in Nat /\ PageSize # 0
<1>1. PageSize \in Nat \ {0} /\ Settled \in Seq([traded : BOOLEAN, recent : BOOLEAN])
  BY Zenon, CollectorsAssumption
<1> QED  BY <1>1, LenProperties

(* The filter cuts the end of the list off.                                 *)
LEMMA RecentComesFirst ==
  \A i \in 1..Len(Settled), j \in 1..Len(Settled) : i <= j /\ Settled[j].recent => Settled[i].recent
BY Zenon, CollectorsAssumption

LEMMA CrawlBegins == CollectorsInit => CrawlInv
<1> SUFFICES ASSUME CollectorsInit  PROVE CrawlInv
  OBVIOUS
<1>1. crPc = "off" /\ cursor = 0 /\ crawlFile = EmptyFile /\ settledBy = 2 /\ beganAt = 2
  BY DEF CollectorsInit
<1> QED  BY <1>1, SettledIsListed DEF CrawlInv, EmptyFile

(* A page has no gaps: what is listed up to its last market is in it.       *)
LEMMA PageHasNoGaps ==
  ASSUME CrawlInv, Cardinality(Behind) > PageSize
  PROVE  /\ Max(Page) \in Behind
         /\ \A i \in Behind : i \in Page <=> i <= Max(Page)
<1> DEFINE n == Len(Settled)  upTo(i) == {j \in Behind : j <= i}
<1>1. n \in Nat /\ PageSize \in Nat /\ PageSize # 0  BY SettledIsListed
<1>2. Behind \in SUBSET (1..n)  BY <1>1 DEF CrawlInv, Behind
<1>3. IsFiniteSet(Behind)
  <2>1. IsFiniteSet(1..n)  BY <1>1, FS_Interval
  <2> QED  BY <2>1, <1>2, FS_Subset
<1>4. Behind # {}
  <2>1. Behind = {} => Cardinality(Behind) = 0  BY FS_EmptySet
  <2> QED  BY <2>1, <1>1
<1>5. \A i : IsFiniteSet(upTo(i)) /\ Cardinality(upTo(i)) \in Nat
  <2>1. TAKE i
  <2>2. upTo(i) \in SUBSET Behind  OBVIOUS
  <2> HIDE DEF upTo
  <2> QED  BY <2>2, <1>3, FS_Subset, FS_CardinalityType
<1>6. Page = {i \in Behind : Cardinality(upTo(i)) <= PageSize}  BY DEF Page
<1>7. PICK p \in Behind : \A q \in Behind : p <= q
  <2>1. Behind \in SUBSET Nat  BY <1>2
  <2> QED  BY <2>1, <1>4, FirstNumber
<1>8. p \in Page
  <2>1. \A q \in Behind : q \in Nat  BY <1>2
  <2>2. upTo(p) = {p}  BY <1>7, <2>1
  <2>3. Cardinality(upTo(p)) = 1  BY <2>2, FS_Singleton
  <2> QED  BY <2>3, <1>1, <1>6
<1>9. Page \in SUBSET (1..n) /\ Page # {}  BY <1>2, <1>6, <1>8
<1>10. Max(Page) \in Page /\ \A y \in Page : y <= Max(Page)  BY <1>1, <1>9, LargestNumber
<1>11. ASSUME NEW i \in Behind, i <= Max(Page)  PROVE i \in Page
  <2>1. Max(Page) \in Behind /\ Cardinality(upTo(Max(Page))) <= PageSize  BY <1>6, <1>10
  <2>2. \A j \in Behind : j \in Nat  BY <1>2
  <2>3. upTo(i) \in SUBSET upTo(Max(Page))  BY <2>1, <2>2, <1>11
  <2>4. Cardinality(upTo(i)) <= Cardinality(upTo(Max(Page)))  BY <2>3, <1>5, FS_Subset
  <2> DEFINE few == Cardinality(upTo(i))  most == Cardinality(upTo(Max(Page)))
  <2>5. few \in Nat /\ most \in Nat  BY <1>5
  <2>6. few <= PageSize
    <3> HIDE DEF few, most
    <3> QED  BY <2>1, <2>4, <2>5, <1>1 DEF few, most
  <2> QED  BY <2>6, <1>6
<1> QED  BY <1>6, <1>10, <1>11

(* The last page has all that is listed.                                    *)
LEMMA LastPageIsWhole ==
  ASSUME CrawlInv, ~(Cardinality(Behind) > PageSize)
  PROVE  Page = Behind
<1>1. Len(Settled) \in Nat /\ PageSize \in Nat  BY SettledIsListed
<1>2. IsFiniteSet(Behind)
  <2>1. IsFiniteSet(1..Len(Settled))  BY <1>1, FS_Interval
  <2>2. Behind \in SUBSET (1..Len(Settled))  BY <1>1 DEF CrawlInv, Behind
  <2> QED  BY <2>1, <2>2, FS_Subset
<1>3. ASSUME NEW i \in Behind  PROVE Cardinality({j \in Behind : j <= i}) <= PageSize
  <2> DEFINE U == {j \in Behind : j <= i}
  <2>1. U \in SUBSET Behind  OBVIOUS
  <2> HIDE DEF U
  <2>2. IsFiniteSet(U) /\ Cardinality(U) <= Cardinality(Behind)  BY <2>1, <1>2, FS_Subset
  <2>3. Cardinality(U) \in Nat /\ Cardinality(Behind) \in Nat  BY <2>2, <1>2, FS_CardinalityType
  <2>4. Cardinality(U) <= PageSize  BY <2>2, <2>3, <1>1
  <2> QED  BY <2>4 DEF U
<1> QED  BY <1>3 DEF Page

LEMMA PageIsCrawled ==
  ASSUME CrawlInv, CrawlPage
  PROVE  CrawlInv'
<1> DEFINE n == Len(Settled)
<1>1. n \in Nat /\ DOMAIN Settled = 1..n  BY SettledIsListed
<1>2. /\ crPc = "page" /\ UNCHANGED <<filtered, settledBy, beganAt>>
      /\ crawlFile' = [i \in DOMAIN Settled |->
                         crawlFile[i] + IF i \in Page /\ Settled[i].traded THEN 1 ELSE 0]
  BY DEF CrawlPage
<1>3. /\ crawlFile \in [1..n -> 0..1] /\ settledBy \in Nat \ {0} /\ beganAt \in Nat \ {0} /\ cursor \in 0..n
      /\ settledBy <= beganAt /\ (\A i \in 1..n : crawlFile[i] = 1 => i <= cursor)
      /\ WantedIsWritten(beganAt, cursor) /\ (filtered => \A i \in 1..cursor : Settled[i].recent)
  BY <1>2 DEF CrawlInv
<1>4. \A i \in Page : i \in 1..n /\ i > cursor  BY <1>1, <1>3 DEF Page, Behind
<1>5. crawlFile' \in [1..n -> 0..1]
  <2>1. \A i \in 1..n : i \in Page => crawlFile[i] = 0  BY <1>3, <1>4
  <2>2. \A i \in 1..n : crawlFile[i] + (IF i \in Page /\ Settled[i].traded THEN 1 ELSE 0) \in 0..1
    BY <2>1, <1>3
  <2> QED  BY <2>2, <1>1, <1>2
<1>6. \A i \in 1..n : i \in beganAt..n /\ i > cursor /\ Wanted(i) => i \in Behind
  BY <1>1, <1>3 DEF Wanted, Behind
<1>7. \A i \in 1..n : i \in Page /\ Wanted(i) => crawlFile'[i] = 1
  BY <1>1, <1>2, <1>3, <1>4 DEF Wanted
<1>8. \A i \in 1..n : i \notin Page => crawlFile'[i] = crawlFile[i]
  BY <1>1, <1>2, <1>3
<1>9. \A i : Wanted(i)' <=> Wanted(i)  BY <1>2 DEF Wanted
<1>10. \A last \in 0..n : (\A i \in Behind : i <= last => i \in Page) =>
                           \A i \in beganAt..last : Wanted(i) => crawlFile'[i] = 1
  <2>1. TAKE last \in 0..n
  <2>2. HAVE \A i \in Behind : i <= last => i \in Page
  <2>3. ASSUME NEW i \in beganAt..last, Wanted(i)  PROVE crawlFile'[i] = 1
    <3>1. i \in 1..n /\ i \in beganAt..n  BY <1>1, <1>3
    <3>2. CASE i \in Page  BY <3>1, <3>2, <2>3, <1>7
    <3>3. CASE i \notin Page
      <4>1. ~(i > cursor)  BY <3>1, <3>3, <2>2, <2>3, <1>6
      <4>2. i \in beganAt..cursor  BY <4>1, <1>1, <1>3
      <4>3. crawlFile[i] = 1  BY <4>2, <2>3, <1>3 DEF WantedIsWritten
      <4> QED  BY <4>3, <3>1, <3>3, <1>8
    <3> QED  BY <3>2, <3>3
  <2> QED  BY <2>3
<1>11. CASE Cardinality(Behind) > PageSize
  <2>1. cursor' = Max(Page) /\ crPc' = "page"  BY <1>2, <1>11 DEF CrawlPage
  <2>2. Max(Page) \in Behind /\ \A i \in Behind : i \in Page <=> i <= Max(Page)
    BY <1>11, PageHasNoGaps
  <2>3. Max(Page) \in 0..n /\ Max(Page) > cursor  BY <2>2, <1>1, <1>3 DEF Behind
  <2>4. WantedIsWritten(beganAt, cursor)'
    <3> DEFINE last == Max(Page)
    <3>1. last \in 0..n /\ \A i \in Behind : i <= last => i \in Page  BY <2>2, <2>3
    <3> HIDE DEF last
    <3>2. \A i \in beganAt..last : Wanted(i) => crawlFile'[i] = 1  BY <3>1, <1>10
    <3>3. \A i \in beganAt'..cursor' : Wanted(i)' => crawlFile'[i] = 1
      BY <3>2, <2>1, <1>2, <1>9 DEF last
    <3> QED  BY <3>3 DEF WantedIsWritten
  <2>5. \A i \in 1..n : crawlFile'[i] = 1 => i <= Max(Page)
    <3>1. TAKE i \in 1..n
    <3>2. CASE i \in Page  BY <3>2, <2>2 DEF Page
    <3>3. CASE i \notin Page  BY <3>3, <1>1, <1>3, <1>8, <2>3
    <3> QED  BY <3>2, <3>3
  <2>6. filtered' => \A i \in 1..cursor' : Settled[i].recent
    <3>1. ASSUME filtered  PROVE Settled[Max(Page)].recent /\ Max(Page) \in 1..n
      BY <3>1, <2>2, <1>1, <1>3 DEF Behind
    <3>2. ASSUME filtered, NEW i \in 1..Max(Page)  PROVE Settled[i].recent
      <4> DEFINE last == Max(Page)
      <4>1. last \in 1..n /\ Settled[last].recent /\ i \in 1..last  BY <3>1, <3>2
      <4> HIDE DEF last
      <4>2. i \in 1..n /\ i <= last  BY <4>1, <1>1
      <4> QED  BY <4>1, <4>2, RecentComesFirst
    <3> QED  BY <3>2, <2>1, <1>2
  <2> QED  BY <2>1, <2>3, <2>4, <2>5, <2>6, <1>1, <1>2, <1>3, <1>5 DEF CrawlInv
<1>12. CASE ~(Cardinality(Behind) > PageSize)
  <2>1. cursor' = 0 /\ crPc' = "ended"  BY <1>12 DEF CrawlPage
  <2>2. Page = Behind  BY <1>12, LastPageIsWhole
  <2>3. \A i \in beganAt..n : Wanted(i) => crawlFile'[i] = 1  BY <2>2, <1>1, <1>10
  <2>4. WantedIsWritten(beganAt, Len(Settled))'  BY <2>3, <1>2, <1>9 DEF WantedIsWritten
  <2> QED  BY <2>1, <2>4, <1>1, <1>2, <1>3, <1>5 DEF CrawlInv
<1> QED  BY <1>11, <1>12

LEMMA CrawlGoesOn ==
  ASSUME CrawlInv, CrawlStep \/ UNCHANGED crawl
  PROVE  CrawlInv'
<1>1. Len(Settled) \in Nat /\ DOMAIN Settled = 1..Len(Settled)  BY SettledIsListed
<1>2. CASE CrawlStarts
  <2>1. /\ crPc' = "page" /\ cursor' = 0 /\ crawlFile' = EmptyFile /\ beganAt' = settledBy
        /\ settledBy' = settledBy
    BY <1>2 DEF CrawlStarts
  <2>2. settledBy \in Nat \ {0}  BY DEF CrawlInv
  <2>3. WantedIsWritten(beganAt, cursor)'
    <3>1. beganAt'..cursor' = {}  BY <2>1, <2>2
    <3> QED  BY <3>1 DEF WantedIsWritten
  <2>5. \A i \in 1..cursor' : Settled[i].recent  BY <2>1
  <2>4. crawlFile' \in [1..Len(Settled) -> 0..1] /\ \A i \in 1..Len(Settled) : crawlFile'[i] # 1
    BY <2>1, <1>1 DEF EmptyFile
  <2> QED  BY <2>1, <2>2, <2>3, <2>4, <2>5, <1>1 DEF CrawlInv
<1>3. CASE CrawlPage  BY <1>3, PageIsCrawled
<1>4. CASE FilterRejected
  <2>1. /\ crPc = "page" /\ filtered /\ ~filtered'
        /\ UNCHANGED <<crPc, cursor, crawlFile, settledBy, beganAt>>
    BY <1>4 DEF FilterRejected
  <2>2. /\ beganAt \in Nat \ {0} /\ cursor \in 0..Len(Settled) /\ WantedIsWritten(beganAt, cursor)
        /\ \A i \in 1..cursor : Settled[i].recent
    BY <2>1 DEF CrawlInv
  <2>3. WantedIsWritten(beganAt, cursor)'
    <3>1. ASSUME NEW i \in beganAt..cursor, Settled[i].traded  PROVE crawlFile[i] = 1
      <4>1. i \in 1..cursor  BY <2>2, <1>1
      <4>2. Wanted(i)  BY <4>1, <3>1, <2>2 DEF Wanted
      <4> QED  BY <4>2, <2>2 DEF WantedIsWritten
    <3> QED  BY <3>1, <2>1 DEF WantedIsWritten, Wanted
  <2> QED  BY <2>1, <2>3 DEF CrawlInv
<1>5. CASE CrawlDies
  BY <1>5 DEF CrawlDies, CrawlInv
<1>6. CASE Settles
  <2>1. /\ settledBy > 1 /\ settledBy' = settledBy - 1
        /\ UNCHANGED <<crPc, filtered, cursor, crawlFile, beganAt>>
    BY <1>6 DEF Settles
  <2>3. settledBy' \in Nat \ {0} /\ (settledBy <= beganAt => settledBy' <= beganAt)
    BY <2>1 DEF CrawlInv
  <2>4. WantedIsWritten(beganAt, cursor)' <=> WantedIsWritten(beganAt, cursor)
    BY <2>1 DEF WantedIsWritten, Wanted
  <2>5. WantedIsWritten(beganAt, Len(Settled))' <=> WantedIsWritten(beganAt, Len(Settled))
    BY <2>1 DEF WantedIsWritten, Wanted
  <2> QED  BY <2>1, <2>3, <2>4, <2>5 DEF CrawlInv
<1>7. CASE BackOff \/ UNCHANGED crawl
  <2>1. UNCHANGED <<crPc, filtered, cursor, crawlFile, settledBy, beganAt>>  BY <1>7 DEF BackOff, crawl
  <2>2. WantedIsWritten(beganAt, cursor)' <=> WantedIsWritten(beganAt, cursor)
    BY <2>1 DEF WantedIsWritten, Wanted
  <2>3. WantedIsWritten(beganAt, Len(Settled))' <=> WantedIsWritten(beganAt, Len(Settled))
    BY <2>1 DEF WantedIsWritten, Wanted
  <2> QED  BY <2>1, <2>2, <2>3 DEF CrawlInv
<1> QED  BY <1>2, <1>3, <1>4, <1>5, <1>6, <1>7 DEF CrawlStep

(* A crawl that ends has every traded market once that had settled when it  *)
(* began, though others settle between its pages, the filter is given up    *)
(* and crawls before it died (settlement_crawl.py:126).                     *)
THEOREM CrawlStaysWhole == Spec => []CrawlIsWhole
<1>1. Init => CrawlInv  BY CrawlBegins DEF Init
<1>2. [Next]_vars => CrawlStep \/ UNCHANGED crawl
  <2>1. UNCHANGED vars => UNCHANGED crawl  BY DEF vars, collectors
  <2>2. Next => CrawlStep \/ UNCHANGED crawl  BY Zenon DEF Next, Still
  <2> QED  BY <2>1, <2>2
<1>3. CrawlInv /\ [Next]_vars => CrawlInv'  BY <1>2, CrawlGoesOn
<1>4. CrawlInv => CrawlIsWhole
  <2>1. DOMAIN Settled = 1..Len(Settled)  BY SettledIsListed
  <2> QED  BY <2>1 DEF CrawlInv, CrawlIsWhole, WantedIsWritten, Wanted
<1> QED  BY <1>1, <1>3, <1>4, PTL DEF Spec

-----------------------------------------------------------------------------
(* The choice of the collector.  A set in a list, and the best of one.      *)
LEMMA GreaterOfTwo ==
  ASSUME NEW a \in Int, NEW b \in Int
  PROVE  Max({a, b}) = (IF a >= b THEN a ELSE b) /\ Min({a, b}) = (IF a <= b THEN a ELSE b)
<1>1. \E x \in {a, b} : \A y \in {a, b} : x >= y  OBVIOUS
<1>2. Max({a, b}) \in {a, b} /\ \A y \in {a, b} : Max({a, b}) >= y  BY <1>1 DEF Max
<1>3. \E x \in {a, b} : \A y \in {a, b} : x <= y  OBVIOUS
<1>4. Min({a, b}) \in {a, b} /\ \A y \in {a, b} : Min({a, b}) <= y  BY <1>3 DEF Min
<1> QED  BY <1>2, <1>4

LEMMA SetInAList ==
  ASSUME NEW S, IsFiniteSet(S)
  PROVE  /\ SetToSeq(S) \in Seq(S) /\ IsInjective(SetToSeq(S)) /\ Range(SetToSeq(S)) = S
         /\ Len(SetToSeq(S)) = Cardinality(S) /\ Cardinality(S) \in Nat
<1> DEFINE n == Cardinality(S)  s == SetToSeq(S)
<1>1. PICK m \in Nat : ExistsBijection(1..m, S)  BY FS_NatBijection
<1>2. m = n  BY <1>1, FS_CountingElements
<1>3. PICK f : f \in Bijection(1..n, S)  BY <1>1, <1>2 DEF ExistsBijection
<1>4. f \in [1..n -> S] /\ IsInjective(f)  BY <1>3 DEF Bijection, Injection
<1>5. s \in [1..n -> S] /\ IsInjective(s)
  <2>1. \E g \in [1..n -> S] : IsInjective(g)  BY <1>4
  <2> QED  BY <2>1 DEF SetToSeq
<1>6. n \in Nat  BY <1>1, <1>2
<1>7. s \in Injection(1..n, S)  BY <1>5 DEF Injection
<1>8. IsFiniteSet(1..n) /\ Cardinality(1..n) = n
  <2>1. IsFiniteSet(1..n) /\ Cardinality(1..n) = IF 1 > n THEN 0 ELSE n - 1 + 1  BY <1>6, FS_Interval
  <2> HIDE DEF n
  <2> QED  BY <2>1, <1>6
<1>9. s \in Surjection(1..n, S)  BY <1>7, <1>8, FS_Injection
<1>10. Range(s) = S  BY <1>5, <1>9 DEF Surjection, Range
<1>11. s \in Seq(S) /\ Len(s) = n
  <2> HIDE DEF n, s
  <2>1. s \in Seq(S)  BY <1>5, <1>6, SeqDef
  <2> QED  BY <2>1, <1>5, <1>6
<1> QED  BY <1>5, <1>6, <1>10, <1>11

LEMMA RankedIsASample ==
  ASSUME NEW S, IsFiniteSet(S), NEW churn, NEW count \in Nat, NEW r \in RankByChurn(S, churn, count)
  PROVE  r \in Seq(S) /\ IsInjective(r) /\ Len(r) <= count
<1> DEFINE scored == S \cap DOMAIN churn
           moving == {t \in scored : churn[t] > 0}
           pool == IF moving = {} THEN scored ELSE moving
<1>1. PICK T \in BestOf(pool, churn, count) : r \in BestFirst(T, churn)  BY DEF RankByChurn
<1>2. pool \subseteq S  OBVIOUS
<1> HIDE DEF pool
<1>3. T \subseteq S /\ Cardinality(T) = Min({count, Cardinality(pool)})  BY <1>1, <1>2 DEF BestOf
<1>4. IsFiniteSet(pool) /\ Cardinality(pool) \in Nat  BY <1>2, FS_Subset, FS_CardinalityType
<1>5. Cardinality(T) \in Nat /\ Cardinality(T) <= count
  <2> DEFINE k == Cardinality(pool)  c == Cardinality(T)
  <2>1. c = Min({count, k}) /\ k \in Nat  BY <1>3, <1>4
  <2> HIDE DEF k, c, scored, moving
  <2>2. count \in Int /\ k \in Int  BY <2>1
  <2>3. Min({count, k}) = (IF count <= k THEN count ELSE k)  BY <2>2, GreaterOfTwo
  <2>4. c = (IF count <= k THEN count ELSE k)  BY <2>1, <2>3
  <2> QED  BY <2>1, <2>4 DEF c
<1>6. r \in [1..Cardinality(T) -> S] /\ IsInjective(r)  BY <1>1, <1>3 DEF BestFirst
<1>7. r \in Seq(S)  BY <1>5, <1>6, SeqDef
<1>8. Len(r) = Cardinality(T)  BY <1>5, <1>6, <1>7
<1> QED  BY <1>5, <1>6, <1>7, <1>8

(* The time within a window.                                                *)
LEMMA AroundTheCircle ==
  ASSUME NEW n \in Nat, NEW r \in Nat, r < n
  PROVE  r % n = r /\ (n + r) % n = r
<1>1. ASSUME NEW k \in 0..1  PROVE (n * k + r) % n = r
  <2> DEFINE a == n * k + r  q == a \div n  m == a % n
  <2>1. n * k \in Nat /\ a \in Nat
    <3>1. n * k = (IF k = 0 THEN 0 ELSE n)
      <4>1. k = 0 \/ k = 1  BY <1>1
      <4> QED  BY <4>1
    <3> QED  BY <3>1
  <2>2. a = n * q + m /\ q \in Int /\ m \in 0..(n - 1)  BY <2>1
  <2>3. a = n * k + r  OBVIOUS
  <2> HIDE DEF a, q, m
  <2>4. m - r = n * (k - q) /\ k - q \in Int  BY <2>2, <2>3, <2>1
  <2>5. CASE k - q >= 1
    <3>1. n * (k - q) >= n  BY <2>4, <2>5
    <3> QED  BY <3>1, <2>2, <2>4
  <2>6. CASE k - q <= -1
    <3>1. n * (k - q) <= -n  BY <2>4, <2>6
    <3> QED  BY <3>1, <2>2, <2>4
  <2>7. CASE k - q = 0
    <3>1. n * (k - q) = 0  BY <2>7
    <3> QED  BY <3>1, <2>2, <2>4 DEF m, a
  <2> QED  BY <2>4, <2>5, <2>6, <2>7
<1>2. (n * 0 + r) % n = r /\ (n * 1 + r) % n = r  BY <1>1
<1>3. n * 0 + r = r /\ n * 1 + r = n + r  OBVIOUS
<1> QED  BY <1>2, <1>3

LEMMA ChoiceConstants ==
  /\ WindowLen \in Nat /\ SettleTime \in Nat /\ MinPinned \in Nat /\ MinPinned # 0
  /\ SettleTime + MinPinned <= WindowLen /\ WindowLen # 0 /\ Slots \in Nat
<1>1. /\ WindowLen \in Nat /\ SettleTime \in Nat /\ MinPinned \in Nat \ {0} /\ SettleTime + MinPinned <= WindowLen
      /\ Slots \in Nat
  BY Zenon, CollectorsAssumption
<1> QED  BY <1>1

Since == selAt % WindowLen
Timely ==
  /\ selAt \in Nat /\ Since \in 0..(WindowLen - 1)
  /\ align => Since <= SettleTime
  /\ align /\ begunAt >= SettleTime => Since = SettleTime

ChoiceInv ==
  /\ selPc \in {"begin", "look", "record"} /\ selAt \in Nat
  /\ selPc = "begin" => selAt < WindowLen
  /\ selPc # "begin" => Timely
  /\ WindowsAreChosen

LEMMA CycleBegins ==
  ASSUME ChoiceInv, WaitForWindow
  PROVE  Timely'
<1>1. /\ selAt \in Nat /\ selAt < WindowLen /\ begunAt' = selAt /\ align' = align
      /\ selAt' = IF align THEN selAt + Min({WindowLen - selAt + SettleTime, WindowLen}) ELSE selAt
  BY DEF ChoiceInv, WaitForWindow
<1> USE ChoiceConstants
<1>2. Min({WindowLen - selAt + SettleTime, WindowLen}) =
        IF WindowLen - selAt + SettleTime <= WindowLen THEN WindowLen - selAt + SettleTime ELSE WindowLen
  <2>1. WindowLen - selAt + SettleTime \in Int /\ WindowLen \in Int  BY <1>1
  <2> QED  BY <2>1, GreaterOfTwo
<1>3. CASE align /\ selAt >= SettleTime
  <2>1. selAt' = WindowLen + SettleTime  BY <1>1, <1>2, <1>3
  <2>2. SettleTime < WindowLen  OBVIOUS
  <2>3. selAt' % WindowLen = SettleTime  BY <2>1, <2>2, AroundTheCircle
  <2>4. Since' = SettleTime /\ selAt' \in Nat  BY <2>1, <2>3 DEF Since
  <2> QED  BY <2>2, <2>4 DEF Timely
<1>4. CASE align /\ ~(selAt >= SettleTime)
  <2>1. selAt' = WindowLen + selAt  BY <1>1, <1>2, <1>4
  <2>2. selAt' % WindowLen = selAt  BY <2>1, <1>1, AroundTheCircle
  <2>3. Since' = selAt /\ selAt' \in Nat  BY <2>1, <2>2, <1>1 DEF Since
  <2> QED  BY <2>3, <1>1, <1>4 DEF Timely
<1>5. CASE ~align
  <2>1. selAt' % WindowLen = selAt  BY <1>1, <1>5, AroundTheCircle
  <2>2. Since' = selAt /\ selAt' \in Nat  BY <2>1, <1>1, <1>5 DEF Since
  <2> QED  BY <2>2, <1>1, <1>5 DEF Timely
<1> QED  BY <1>3, <1>4, <1>5

-----------------------------------------------------------------------------
(* What a cycle finds.                                                      *)
AWindow(p, which, left) ==
  [ticker |-> <<p, which>>, bid |-> 2, ask |-> 3, volume |-> 0, left |-> left, ranges |-> <<>>]
Opened(p) == AWindow(p, "open", WindowLen - Since)
Expired(p) == AWindow(p, "over", -Since)

Seen(all, ready, lag) ==
  /\ IsFiniteSet(all)
  /\ \A m \in all : IsShortWindow(m) =>
       \E p \in PinnedSeries : (m = Opened(p) /\ Since >= ready) \/ (m = Expired(p) /\ Since < lag)
  /\ \A p \in PinnedSeries, m \in all : m.ticker = <<p, "open">> => m = Opened(p)

LEMMA ImageIsFinite ==
  ASSUME NEW S, IsFiniteSet(S), NEW f, DOMAIN f = S, f = [x \in S |-> f[x]]
  PROVE  IsFiniteSet(Range(f)) /\ Cardinality(Range(f)) <= Cardinality(S)
<1>1. f \in [S -> Range(f)]  BY DEF Range
<1>2. f \in Surjection(S, Range(f))  BY <1>1, Fun_RangeProperties
<1> QED  BY <1>2, FS_Surjection

LEMMA WhatIsFound ==
  ASSUME NEW ready \in 0..SettleTime, NEW lag \in 0..SettleTime, NEW answered \in SUBSET PinnedSeries,
         NEW other \in Listings, Since \in Nat
  PROVE  Seen(CandidateMarkets(other \cup UNION {Windows(p, ready, lag) : p \in answered}), ready, lag)
<1> DEFINE all == CandidateMarkets(other \cup UNION {Windows(p, ready, lag) : p \in answered})
<1>1. IsFiniteSet(other) /\ IsFiniteSet(PinnedSeries) /\ \A m \in other : m.ticker[1] \notin PinnedSeries
  BY Zenon, CollectorsAssumption
<1>2. \A p : Windows(p, ready, lag) =
        (IF Since >= ready THEN {Opened(p)} ELSE {}) \cup (IF Since < lag THEN {Expired(p)} ELSE {})
  BY DEF Windows, Since, Opened, Expired, AWindow
<1>3. \A m \in all : \/ m \in other
                     \/ \E p \in PinnedSeries : (m = Opened(p) /\ Since >= ready) \/ (m = Expired(p) /\ Since < lag)
  BY <1>2 DEF CandidateMarkets
<1> DEFINE opens == [p \in PinnedSeries |-> Opened(p)]
           overs == [p \in PinnedSeries |-> Expired(p)]
<1>4. IsFiniteSet(Range(opens)) /\ IsFiniteSet(Range(overs))
  <2>1. DOMAIN opens = PinnedSeries /\ opens = [p \in PinnedSeries |-> opens[p]]  OBVIOUS
  <2>2. DOMAIN overs = PinnedSeries /\ overs = [p \in PinnedSeries |-> overs[p]]  OBVIOUS
  <2> HIDE DEF opens, overs
  <2> QED  BY <2>1, <2>2, <1>1, ImageIsFinite
<1>5. all \subseteq other \cup (Range(opens) \cup Range(overs))  BY <1>3 DEF Range
<1>6. IsFiniteSet(all)
  <2> HIDE DEF all, opens, overs
  <2>1. IsFiniteSet(other \cup (Range(opens) \cup Range(overs)))  BY <1>1, <1>4, FS_Union
  <2> QED  BY <2>1, <1>5, FS_Subset
<1>7. ASSUME NEW p \in PinnedSeries  PROVE Opened(p).ticker = <<p, "open">> /\ Expired(p).ticker = <<p, "over">>
  BY DEF Opened, Expired, AWindow
<1> HIDE DEF all
<1>8. ASSUME NEW m \in all, IsShortWindow(m)  PROVE m \notin other
  BY <1>1, <1>8 DEF IsShortWindow
<1>9. ASSUME NEW p \in PinnedSeries, NEW m \in all, m.ticker = <<p, "open">>  PROVE m = Opened(p)
  <2>1. m.ticker[1] = p /\ m.ticker[2] = "open"  BY <1>9
  <2>2. m \notin other  BY <2>1, <1>1
  <2>3. PICK q \in PinnedSeries : m = Opened(q) \/ m = Expired(q)  BY <2>2, <1>3
  <2>4. m # Expired(q)
    <3>1. Expired(q).ticker[2] = "over"  BY <1>7
    <3> QED  BY <3>1, <2>1
  <2>5. Opened(q).ticker[1] = q  BY <1>7
  <2> QED  BY <2>1, <2>3, <2>4, <2>5
<1>10. Seen(all, ready, lag)  BY <1>3, <1>6, <1>8, <1>9 DEF Seen
<1> QED  BY <1>10 DEF all

LEMMA TheWindowsFound ==
  ASSUME NEW all, NEW ready, NEW lag, Seen(all, ready, lag), Since \in 0..(WindowLen - 1)
  PROVE  /\ \A m \in all : Pinnable(m) => m.ticker \in PinnedIn(all)
         /\ \A m \in all : IsShortWindow(m) /\ m.left < MinPinned => m.ticker \notin PinnedIn(all)
         /\ IsFiniteSet(PinnedIn(all)) /\ Cardinality(PinnedIn(all)) <= Cardinality(PinnedSeries)
         /\ Cardinality({x \in all : Pinnable(x)}) = Cardinality(PinnedIn(all))
<1> USE ChoiceConstants
<1>1. \A p : /\ Opened(p).ticker = <<p, "open">> /\ Opened(p).left = WindowLen - Since
             /\ Expired(p).ticker = <<p, "over">> /\ Expired(p).left = -Since
  BY DEF Opened, Expired, AWindow
<1>2. ASSUME NEW m \in all, Pinnable(m)  PROVE \E p \in PinnedSeries : m = Opened(p)
  <2>1. IsShortWindow(m) /\ m.left >= MinPinned  BY <1>2 DEF Pinnable
  <2>2. PICK p \in PinnedSeries : m = Opened(p) \/ m = Expired(p)  BY <2>1 DEF Seen
  <2>3. m # Expired(p)
    <3>1. m = Expired(p) => m.left = -Since  BY <1>1
    <3> QED  BY <3>1, <2>1
  <2> QED  BY <2>2, <2>3
<1>3. ASSUME NEW m \in all, Pinnable(m)  PROVE m.ticker \in PinnedIn(all)
  BY <1>3 DEF PinnedIn
<1>4. ASSUME NEW t \in PinnedIn(all)
      PROVE  \E p \in PinnedSeries : t = <<p, "open">> /\ \A m \in all : m.ticker = t => m = Opened(p) /\ Pinnable(m)
  <2>1. PICK x \in all : Pinnable(x) /\ t = x.ticker  BY DEF PinnedIn
  <2>2. PICK p \in PinnedSeries : x = Opened(p)  BY <2>1, <1>2
  <2>3. t = <<p, "open">>  BY <2>1, <2>2, <1>1
  <2>4. \A m \in all : m.ticker = t => m = Opened(p)  BY <2>3 DEF Seen
  <2> QED  BY <2>1, <2>2, <2>3, <2>4
<1>5. ASSUME NEW m \in all, IsShortWindow(m), m.left < MinPinned  PROVE m.ticker \notin PinnedIn(all)
  <2>1. ASSUME m.ticker \in PinnedIn(all)  PROVE FALSE
    <3>1. PICK p \in PinnedSeries : m = Opened(p) /\ Pinnable(m)  BY <1>4, <2>1
    <3>2. m.left = WindowLen - Since /\ m.left >= MinPinned  BY <3>1, <1>1 DEF Pinnable
    <3> QED  BY <3>2, <1>5
  <2> QED  BY <2>1
<1>6. IsFiniteSet(PinnedSeries)  BY Zenon, CollectorsAssumption
<1> DEFINE names == [p \in PinnedSeries |-> <<p, "open">>]
<1>7. IsFiniteSet(Range(names)) /\ Cardinality(Range(names)) <= Cardinality(PinnedSeries)
  <2>1. DOMAIN names = PinnedSeries /\ names = [p \in PinnedSeries |-> names[p]]  OBVIOUS
  <2> HIDE DEF names
  <2> QED  BY <2>1, <1>6, ImageIsFinite
<1>8. PinnedIn(all) \subseteq Range(names)  BY <1>4 DEF Range
<1> HIDE DEF names
<1>9. IsFiniteSet(PinnedIn(all)) /\ Cardinality(PinnedIn(all)) <= Cardinality(PinnedSeries)
  <2>1. IsFiniteSet(PinnedIn(all)) /\ Cardinality(PinnedIn(all)) <= Cardinality(Range(names))
    BY <1>7, <1>8, FS_Subset
  <2>2. Cardinality(PinnedIn(all)) \in Nat /\ Cardinality(Range(names)) \in Nat /\ Cardinality(PinnedSeries) \in Nat
    BY <2>1, <1>6, <1>7, FS_CardinalityType
  <2> QED  BY <2>1, <2>2, <1>7
<1> DEFINE W == {x \in all : Pinnable(x)}  f == [x \in W |-> x.ticker]
<1>10. IsFiniteSet(all)  BY DEF Seen
<1>11. IsFiniteSet(W)
  <2>1. W \in SUBSET all  OBVIOUS
  <2> QED  BY <2>1, <1>10, FS_Subset
<1>12. Range(f) = PinnedIn(all)  BY DEF Range, PinnedIn
<1>13. f \in Surjection(W, PinnedIn(all))
  <2>1. f \in [W -> Range(f)]  BY DEF Range
  <2> HIDE DEF f
  <2> QED  BY <2>1, <1>12, Fun_RangeProperties
<1>14. ASSUME NEW x \in W, NEW y \in W, f[x] = f[y]  PROVE x = y
  <2>1. x.ticker = y.ticker /\ x.ticker \in PinnedIn(all)  BY <1>14, <1>3
  <2> QED  BY <2>1, <1>4
<1>15. f \in Injection(W, PinnedIn(all))
  <2>1. f \in [W -> PinnedIn(all)] /\ DOMAIN f = W  BY <1>3
  <2>2. IsInjective(f)  BY <1>14, <2>1 DEF IsInjective
  <2> HIDE DEF f
  <2> QED  BY <2>1, <2>2 DEF Injection
<1>16. Cardinality(W) = Cardinality(PinnedIn(all))
  <2> HIDE DEF W, f
  <2> QED  BY <1>11, <1>13, <1>15, FS_Surjection
<1> QED  BY <1>3, <1>5, <1>9, <1>16

ChosenFrom(all, goal) ==
  LET windows == {m \in all : IsShortWindow(m) /\ m.ticker[2] = "open" /\ m.left >= MinPinned}
  IN  /\ IsInjective(goal) /\ Len(goal) <= Max({Slots, Cardinality(PinnedSeries)})
      /\ \A m \in windows : Contains(goal, m.ticker)
      /\ \A m \in all : IsShortWindow(m) /\ m.left < MinPinned /\ Contains(goal, m.ticker) =>
           Cardinality({x \in all : Pinnable(x)}) < Slots
      /\ align => Since <= SettleTime
      /\ align /\ begunAt >= SettleTime =>
           /\ Since = SettleTime
           /\ \A m \in all : IsShortWindow(m) => m \in windows

SlotsLeft(all) == Max({0, Slots - Len(SetToSeq(PinnedIn(all)))})
Rankings(all, shortlisted, churn) ==
  IF SlotsLeft(all) = 0 THEN {<<>>}
  ELSE RankByChurn(shortlisted \ Range(SetToSeq(PinnedIn(all))), churn, SlotsLeft(all))

LEMMA ChosenInOrder ==
  ASSUME NEW all, NEW ready \in 0..SettleTime, NEW lag \in 0..SettleTime, Seen(all, ready, lag), Timely,
         NEW shortlisted, IsFiniteSet(shortlisted), NEW churn, NEW ranked \in Rankings(all, shortlisted, churn)
  PROVE  ChosenFrom(all, SetToSeq(PinnedIn(all)) \o ranked)
<1> DEFINE P == PinnedIn(all)  pinned == SetToSeq(P)  k == Cardinality(P)  room == SlotsLeft(all)
           goal == pinned \o ranked  c == Cardinality(PinnedSeries)
<1> USE ChoiceConstants
<1>1. Since \in 0..(WindowLen - 1)  BY DEF Timely
<1>2. /\ \A m \in all : Pinnable(m) => m.ticker \in P
      /\ \A m \in all : IsShortWindow(m) /\ m.left < MinPinned => m.ticker \notin P
      /\ IsFiniteSet(P) /\ k <= c
      /\ Cardinality({x \in all : Pinnable(x)}) = k
  <2> HIDE DEF P, k, c
  <2> QED  BY <1>1, TheWindowsFound DEF P, k, c
<1>3. /\ pinned \in Seq(P) /\ IsInjective(pinned) /\ Range(pinned) = P /\ Len(pinned) = k /\ k \in Nat
  <2> HIDE DEF P
  <2> QED  BY <1>2, SetInAList
<1>4. c \in Nat
  <2>1. IsFiniteSet(PinnedSeries)  BY Zenon, CollectorsAssumption
  <2> QED  BY <2>1, FS_CardinalityType
<1>5. room = (IF k <= Slots THEN Slots - k ELSE 0)
  <2>1. room = Max({0, Slots - Len(pinned)})  BY DEF SlotsLeft
  <2> HIDE DEF room, pinned, k
  <2> QED  BY <2>1, <1>3, GreaterOfTwo
<1>6. IsFiniteSet(shortlisted \ P)
  <2>1. shortlisted \ P \in SUBSET shortlisted  OBVIOUS
  <2> QED  BY <2>1, FS_Subset
<1>7. ranked \in Seq(shortlisted \ P) /\ IsInjective(ranked) /\ Len(ranked) <= room
  <2>1. CASE room = 0
    <3>1. ranked = <<>>  BY <2>1 DEF Rankings
    <3>2. ranked \in Seq(shortlisted \ P) /\ Len(ranked) = 0  BY <3>1
    <3>3. IsInjective(ranked)  BY <3>1 DEF IsInjective
    <3> QED  BY <3>2, <3>3, <2>1
  <2>2. CASE room # 0
    <3>1. ranked \in RankByChurn(shortlisted \ Range(pinned), churn, room)  BY <2>2 DEF Rankings
    <3>2. room \in Nat  BY <1>5, <1>3
    <3> HIDE DEF P, pinned, room
    <3>3. ranked \in RankByChurn(shortlisted \ P, churn, room)  BY <3>1, <1>3
    <3> QED  BY <3>2, <3>3, <1>6, RankedIsASample
  <2> QED  BY <2>1, <2>2
<1>8. Range(ranked) \subseteq shortlisted \ P /\ (Range(ranked) # {} => room # 0)
  <2>1. Range(ranked) \subseteq shortlisted \ P  BY <1>7 DEF Range
  <2>2. room = 0 => Len(ranked) = 0  BY <1>7
  <2>3. Len(ranked) = 0 => Range(ranked) = {}
    <3>1. Len(ranked) = 0 => ranked = <<>>  BY <1>7, EmptySeq
    <3> QED  BY <3>1 DEF Range
  <2> QED  BY <2>1, <2>2, <2>3
<1> DEFINE S == P \cup shortlisted
<1>9. /\ goal \in Seq(S) /\ IsInjective(goal) /\ Range(goal) = P \cup Range(ranked)
  <2>1. pinned \in Seq(S) /\ ranked \in Seq(S)
    <3>1. P \subseteq S /\ shortlisted \ P \subseteq S  OBVIOUS
    <3> HIDE DEF S, P, pinned
    <3> QED  BY <3>1, <1>3, <1>7, SeqMonotonic
  <2>2. Range(pinned) \cap Range(ranked) = {}
    <3> HIDE DEF P, pinned
    <3> QED  BY <1>3, <1>8
  <2>3. goal = pinned \o ranked  OBVIOUS
  <2> HIDE DEF S, P, pinned, goal
  <2>4. pinned \o ranked \in Seq(S) /\ IsInjective(pinned \o ranked)
        /\ Range(pinned \o ranked) = Range(pinned) \cup Range(ranked)
    BY <2>1, <2>2, <1>3, <1>7, JoinedSamples
  <2> QED  BY <2>3, <2>4, <1>3
<1>10. Len(goal) <= Max({Slots, c})
  <2>1. Len(goal) = k + Len(ranked) /\ Len(ranked) \in Nat
    <3>1. P \subseteq S /\ shortlisted \ P \subseteq S  OBVIOUS
    <3> HIDE DEF S, P, pinned, k
    <3>2. pinned \in Seq(S) /\ ranked \in Seq(S)  BY <3>1, <1>3, <1>7, SeqMonotonic
    <3>3. Len(pinned \o ranked) = Len(pinned) + Len(ranked)  BY <3>2, ConcatProperties
    <3> QED  BY <3>3, <1>3, <1>7
  <2>2. Max({Slots, c}) = (IF Slots >= c THEN Slots ELSE c)  BY <1>4, GreaterOfTwo
  <2> HIDE DEF goal, k, c, room
  <2> QED  BY <2>1, <2>2, <1>2, <1>3, <1>4, <1>5, <1>7
<1>11. \A t : Contains(goal, t) <=> t \in P \cup Range(ranked)
  <2> HIDE DEF goal, P
  <2>1. DOMAIN goal = 1..Len(goal)  BY <1>9
  <2>2. Range(goal) = {goal[i] : i \in 1..Len(goal)}  BY <2>1 DEF Range
  <2>3. \A t : Contains(goal, t) <=> t \in Range(goal)  BY <2>2 DEF Contains
  <2> QED  BY <2>3, <1>9
<1>12. ASSUME NEW m \in all, IsShortWindow(m), m.left >= MinPinned  PROVE Contains(goal, m.ticker)
  <2> HIDE DEF goal, P
  <2> QED  BY <1>12, <1>11, <1>2 DEF Pinnable
<1>13. ASSUME NEW m \in all, IsShortWindow(m), m.left < MinPinned, Contains(goal, m.ticker)
       PROVE  Cardinality({x \in all : Pinnable(x)}) < Slots
  <2>1. m.ticker \in Range(ranked)
    <3> HIDE DEF goal, P
    <3> QED  BY <1>2, <1>11, <1>13
  <2>2. room # 0  BY <2>1, <1>8
  <2> HIDE DEF goal, P, k, room
  <2>3. k < Slots  BY <2>2, <1>5, <1>3
  <2> QED  BY <2>3, <1>2
<1>14. ASSUME align, begunAt >= SettleTime, NEW m \in all, IsShortWindow(m)
       PROVE  m.ticker[2] = "open" /\ m.left >= MinPinned
  <2>1. Since = SettleTime  BY <1>14 DEF Timely
  <2>2. PICK p \in PinnedSeries : (m = Opened(p) /\ Since >= ready) \/ (m = Expired(p) /\ Since < lag)
    BY <1>14 DEF Seen
  <2>3. m = Opened(p)  BY <2>1, <2>2
  <2>4. Opened(p).left = WindowLen - Since /\ Opened(p).ticker = <<p, "open">>  BY DEF Opened, AWindow
  <2>5. WindowLen - Since >= MinPinned  BY <2>1
  <2> QED  BY <2>3, <2>4, <2>5
<1>15. /\ align => Since <= SettleTime
       /\ align /\ begunAt >= SettleTime => Since = SettleTime
  BY DEF Timely
<1> DEFINE windows == {m \in all : IsShortWindow(m) /\ m.ticker[2] = "open" /\ m.left >= MinPinned}
<1>16. /\ \A m \in windows : Contains(goal, m.ticker)
       /\ align /\ begunAt >= SettleTime => \A m \in all : IsShortWindow(m) => m \in windows
  <2> HIDE DEF goal
  <2> QED  BY <1>12, <1>14
<1> HIDE DEF goal, c
<1>17. ChosenFrom(all, goal)  BY <1>9, <1>10, <1>13, <1>15, <1>16 DEF ChosenFrom, c
<1> QED  BY <1>17 DEF goal

LEMMA ShortlistIsFinite ==
  ASSUME NEW all, IsFiniteSet(all), NEW shortlisted \in RankCandidates(all)
  PROVE  IsFiniteSet(shortlisted)
<1> DEFINE near == {m \in all : NetEdge(m) > -NearMiss}
<1>1. PICK T \in BestOf(near, [m \in near |-> NetEdge(m)], Shortlisted) : shortlisted = {m.ticker : m \in T}
  BY DEF RankCandidates
<1>2. T \in SUBSET all  BY <1>1 DEF BestOf
<1>3. IsFiniteSet(T)  BY <1>2, FS_Subset
<1> DEFINE f == [m \in T |-> m.ticker]
<1>4. shortlisted = Range(f)  BY <1>1 DEF Range
<1>5. DOMAIN f = T /\ f = [m \in T |-> f[m]]  OBVIOUS
<1> HIDE DEF f
<1> QED  BY <1>3, <1>4, <1>5, ImageIsFinite

LEMMA CycleIsRun ==
  ASSUME ChoiceInv, RunCycle
  PROVE  ChoiceInv'
<1>1. selPc = "look" /\ selPc' = "record" /\ UNCHANGED <<align, selAt, begunAt>> /\ Timely
  BY DEF RunCycle, ChoiceInv
<1>2. Since \in Nat  BY <1>1, ChoiceConstants DEF Timely
<1>3. PICK ready \in 0..SettleTime, lag \in 0..SettleTime, answered \in SUBSET PinnedSeries, other \in Listings :
        found' = CandidateMarkets(other \cup UNION {Windows(p, ready, lag) : p \in answered})
  BY DEF RunCycle
<1>4. PICK all : all = found'  OBVIOUS
<1>5. Seen(all, ready, lag)  BY <1>2, <1>3, <1>4, WhatIsFound
<1>6. \E shortlisted \in RankCandidates(all) : \E read \in SUBSET (shortlisted \ Range(SetToSeq(PinnedIn(all)))) :
        \E churn \in [read -> 0..1] : \E ranked \in Rankings(all, shortlisted, churn) :
          targets' = SetToSeq(PinnedIn(all)) \o ranked
  BY <1>4 DEF RunCycle, Rankings, SlotsLeft
<1>7. PICK shortlisted \in RankCandidates(all) : \E churn : \E ranked \in Rankings(all, shortlisted, churn) :
        targets' = SetToSeq(PinnedIn(all)) \o ranked
  BY <1>6
<1>8. PICK churn : \E ranked \in Rankings(all, shortlisted, churn) : targets' = SetToSeq(PinnedIn(all)) \o ranked
  BY <1>7
<1>9. PICK ranked \in Rankings(all, shortlisted, churn) : targets' = SetToSeq(PinnedIn(all)) \o ranked
  BY <1>8
<1>10. IsFiniteSet(shortlisted)  BY <1>5, ShortlistIsFinite DEF Seen
<1>11. ChosenFrom(all, SetToSeq(PinnedIn(all)) \o ranked)  BY <1>1, <1>5, <1>10, ChosenInOrder
<1>12. ChosenFrom(found', targets')  BY <1>4, <1>9, <1>11
<1>13. WindowsAreChosen'
  <2>1. Since' = Since  BY <1>1 DEF Since
  <2> QED  BY <1>1, <1>12 DEF WindowsAreChosen, ChosenFrom, Since
<1>14. Timely'  BY <1>1 DEF Timely, Since
<1> QED  BY <1>1, <1>13, <1>14 DEF ChoiceInv

LEMMA ChoiceBegins == CollectorsInit => ChoiceInv
<1> USE ChoiceConstants
<1>1. SUFFICES ASSUME CollectorsInit PROVE ChoiceInv  OBVIOUS
<1>2. selPc = "begin" /\ selAt \in 0..(WindowLen - 1)  BY <1>1 DEF CollectorsInit
<1>3. WindowsAreChosen  BY <1>2 DEF WindowsAreChosen
<1> QED  BY <1>2, <1>3 DEF ChoiceInv

LEMMA ChoiceGoesOn ==
  ASSUME ChoiceInv, ChoiceStep \/ UNCHANGED choice
  PROVE  ChoiceInv'
<1> USE ChoiceConstants
<1>1. CASE WaitForWindow
  <2>1. selPc' = "look"  BY <1>1 DEF WaitForWindow
  <2>2. Timely'  BY <1>1, CycleBegins
  <2>3. WindowsAreChosen'  BY <2>1 DEF WindowsAreChosen
  <2> QED  BY <2>1, <2>2, <2>3 DEF ChoiceInv, Timely
<1>2. CASE RunCycle  BY <1>2, CycleIsRun
<1>3. CASE NextCycle
  <2>1. selPc' = "begin"  BY <1>3 DEF NextCycle
  <2>2. PICK d \in CycleTimes : selAt' = (selAt + d) % WindowLen  BY <1>3 DEF NextCycle
  <2>3. d \in Nat
    <3>1. CycleTimes \subseteq Nat  BY Zenon, CollectorsAssumption
    <3> QED  BY <3>1
  <2>4. selAt + d \in Nat  BY <2>3 DEF ChoiceInv
  <2>5. selAt' \in 0..(WindowLen - 1)  BY <2>2, <2>4
  <2>6. WindowsAreChosen'  BY <2>1 DEF WindowsAreChosen
  <2> QED  BY <2>1, <2>5, <2>6 DEF ChoiceInv
<1>4. CASE UNCHANGED choice
  <2>1. UNCHANGED <<selPc, align, selAt, begunAt, found, targets>>  BY <1>4 DEF choice
  <2>2. (Timely' <=> Timely) /\ (WindowsAreChosen' <=> WindowsAreChosen)
    <3>1. Timely' <=> Timely  BY <2>1 DEF Timely, Since
    <3>2. WindowsAreChosen' <=> WindowsAreChosen  BY <2>1 DEF WindowsAreChosen
    <3> QED  BY <3>1, <3>2
  <2> QED  BY <2>1, <2>2 DEF ChoiceInv
<1> QED  BY <1>1, <1>2, <1>3, <1>4 DEF ChoiceStep

(* A cycle records every window of a pinned series that it finds with time  *)
(* left and others in the slots that leaves; one that aligns itself looks   *)
(* soon after an opening (collect_loop.py:154, :321).                       *)
THEOREM WindowsStayChosen == Spec => []WindowsAreChosen
<1>1. Init => ChoiceInv  BY ChoiceBegins DEF Init
<1>2. [Next]_vars => ChoiceStep \/ UNCHANGED choice
  <2>1. UNCHANGED vars => UNCHANGED choice  BY DEF vars, collectors
  <2>2. Next => ChoiceStep \/ UNCHANGED choice  BY Zenon DEF Next, Still
  <2> QED  BY <2>1, <2>2
<1>3. ChoiceInv /\ [Next]_vars => ChoiceInv'  BY <1>2, ChoiceGoesOn
<1>4. ChoiceInv => WindowsAreChosen  BY DEF ChoiceInv
<1> QED  BY <1>1, <1>3, <1>4, PTL DEF Spec

(* What the collectors have collected is kept: the rows of the spot         *)
(* recorder but for an hour that an interrupt sent before it was over, one  *)
(* sample of each family in the corpus of candles, every traded market that *)
(* had settled when a crawl began, and every window of a pinned series that *)
(* a cycle finds with time left (spot_sidecar.py:73,                        *)
(* settlement_candles.py:108, settlement_crawl.py:126, collect_loop.py:321).*)
THEOREM CollectedStaysKept == Spec => []CollectedIsKept
<1>1. SpotRowsSurvive /\ CorpusKeepsTheDesign /\ CrawlIsWhole /\ WindowsAreChosen => CollectedIsKept
  BY DEF CollectedIsKept
<1> QED  BY <1>1, SpotRowsAreKept, CorpusIsKept, CrawlStaysWhole, WindowsStayChosen, PTL
==============================================================================
