--------------------------- MODULE ListingProofs ----------------------------
(***************************************************************************)
(* Proofs about Listing, for every table and every page size.              *)
(*                                                                         *)
(* A row at a place of its own has the same number of rows before it in    *)
(* every order that ORDER BY may give.  The proofs count with that number: *)
(* an export has read the rows below its offset, a row that goes away      *)
(* moves at most one unread row below it, and a row that comes in moves at *)
(* most one row that was read above it.                                    *)
(***************************************************************************)
EXTENDS Listing, FiniteSetTheorems, SequenceTheorems, FunctionTheorems, TLAPS

-----------------------------------------------------------------------------
(***************************************************************************)
(* Sets, numbers and sequences.                                            *)
(***************************************************************************)

LEMMA Smaller ==
    ASSUME NEW S, IsFiniteSet(S), NEW T, T \subseteq S
    PROVE  /\ IsFiniteSet(T) /\ Cardinality(T) \in Nat /\ Cardinality(S) \in Nat
           /\ Cardinality(T) <= Cardinality(S)
  BY FS_Subset, FS_CardinalityType

\* A set with an element more than another one.
LEMMA Larger ==
    ASSUME NEW S, IsFiniteSet(S), NEW T, T \subseteq S, NEW x \in S, x \notin T
    PROVE  Cardinality(T) < Cardinality(S)
  BY Smaller, FS_Subset

\* A set within another one but for one element.
LEMMA OneBeyond ==
    ASSUME NEW S, IsFiniteSet(S), NEW x, NEW T, T \subseteq S \cup {x}
    PROVE  Cardinality(T) <= Cardinality(S) + 1
  <1>1. /\ IsFiniteSet(S \cup {x}) /\ Cardinality(S) \in Nat
        /\ Cardinality(S \cup {x}) = IF x \in S THEN Cardinality(S) ELSE Cardinality(S) + 1
    BY FS_AddElement, FS_CardinalityType
  <1>2. Cardinality(T) \in Nat /\ Cardinality(T) <= Cardinality(S \cup {x})
    BY <1>1, Smaller
  <1> QED
    BY <1>1, <1>2

\* The same when all the elements beyond are one.
LEMMA AtMostOneBeyond ==
    ASSUME NEW S, IsFiniteSet(S), NEW T, \A x, y \in T \ S : x = y
    PROVE  Cardinality(T) <= Cardinality(S) + 1
  <1>1. CASE T \subseteq S
    BY <1>1, Smaller
  <1>2. CASE ~(T \subseteq S)
    <2>1. PICK x : x \in T \ S
      BY <1>2
    <2>2. T \subseteq S \cup {x}
      BY <2>1
    <2> QED
      BY <2>2, OneBeyond
  <1> QED
    BY <1>1, <1>2

\* The image of the first p numbers under a bijection.
FirstOf(o, p) == {o[q] : q \in 1..p}

LEMMA FirstOnes ==
    ASSUME NEW N \in Nat, NEW S, NEW o \in Bijection(1..N, S)
    PROVE  \A p \in 0..N : IsFiniteSet(FirstOf(o, p)) /\ Cardinality(FirstOf(o, p)) = p
  <1> SUFFICES ASSUME NEW p \in 0..N
               PROVE  IsFiniteSet(FirstOf(o, p)) /\ Cardinality(FirstOf(o, p)) = p
    OBVIOUS
  <1> DEFINE T == {o[q] : q \in 1..p}
             f == [q \in 1..p |-> o[q]]
  <1>1. \A a, b \in 1..N : o[a] = o[b] => a = b
    BY Fun_BijectionProperties
  <1>2. f \in Bijection(1..p, T)
    <2>1. f \in [1..p -> T] /\ \A t \in T : \E q \in 1..p : f[q] = t
      OBVIOUS
    <2>2. \A a, b \in 1..p : f[a] = f[b] => a = b
      BY <1>1
    <2> QED
      BY <2>1, <2>2, Fun_IsBij
  <1>3. ExistsBijection(1..p, T)
    BY <1>2, Fun_ExistsBij
  <1>4. IsFiniteSet(1..p) /\ Cardinality(1..p) = p
    BY FS_Interval
  <1> QED
    BY <1>3, <1>4, FS_Bijection DEF FirstOf

\* The set of numbers that Nth goes through in order.
LEMMA NthBijective ==
    ASSUME NEW S, IsFiniteSet(S), S \subseteq Nat
    PROVE  /\ Cardinality(S) \in Nat
           /\ \A k \in 1..Cardinality(S) : Nth(S, k) \in S
           /\ \A k, l \in 1..Cardinality(S) : Nth(S, k) = Nth(S, l) => k = l
           /\ \A n \in S : \E k \in 1..Cardinality(S) : Nth(S, k) = n
  <1> DEFINE upto(n) == {m \in S : m <= n}
             f == [n \in S |-> Cardinality(upto(n))]
  <1>0. Cardinality(S) \in Nat
    BY FS_CardinalityType
  <1>1. \A n \in S : Cardinality(upto(n)) \in 1..Cardinality(S)
    <2>1. SUFFICES ASSUME NEW n \in S PROVE Cardinality(upto(n)) \in 1..Cardinality(S)
      OBVIOUS
    <2>2. n \in Nat /\ upto(n) \subseteq S /\ n \in upto(n)
      OBVIOUS
    <2>3. /\ IsFiniteSet(upto(n)) /\ Cardinality(upto(n)) \in Nat
          /\ Cardinality(upto(n)) <= Cardinality(S)
      BY <2>2, Smaller
    <2>4. Cardinality(upto(n)) # 0
      BY <2>2, <2>3, FS_EmptySet
    <2> QED
      BY <1>0, <2>3, <2>4
  <1>2. \A m, n \in S : m < n => Cardinality(upto(m)) < Cardinality(upto(n))
    <2>1. SUFFICES ASSUME NEW m \in S, NEW n \in S, m < n
                   PROVE  Cardinality(upto(m)) < Cardinality(upto(n))
      OBVIOUS
    <2>2. /\ m \in Nat /\ n \in Nat /\ n <= n /\ ~(n <= m)
          /\ \A x \in S : x <= m => x <= n
      <3>1. m \in Nat /\ n \in Nat /\ \A x \in S : x \in Nat
        OBVIOUS
      <3> QED
        BY <2>1, <3>1
    <2>3. upto(n) \subseteq S /\ upto(m) \subseteq upto(n) /\ n \in upto(n) /\ n \notin upto(m)
      BY <2>2, Zenon
    <2>4. IsFiniteSet(upto(n))
      BY <2>3, Smaller
    <2> HIDE DEF upto
    <2> QED
      BY <2>3, <2>4, Larger
  <1> HIDE DEF upto
  <1>3. f \in [S -> 1..Cardinality(S)]
    BY <1>1
  <1>4. \A m, n \in S : f[m] = f[n] => m = n
    <2>1. SUFFICES ASSUME NEW m \in S, NEW n \in S, f[m] = f[n] PROVE m = n
      OBVIOUS
    <2>2. m \in Nat /\ n \in Nat /\ Cardinality(upto(m)) \in Nat /\ Cardinality(upto(n)) \in Nat
      BY <1>1, <1>0
    <2>3. m < n \/ n < m \/ m = n
      BY <2>2
    <2> QED
      BY <1>2, <2>1, <2>2, <2>3
  <1>5. \A k \in 1..Cardinality(S) : \E n \in S : f[n] = k
    <2>1. f \in Injection(S, 1..Cardinality(S))
      BY <1>3, <1>4, Fun_IsInj
    <2>2. IsFiniteSet(1..Cardinality(S)) /\ Cardinality(1..Cardinality(S)) = Cardinality(S)
      BY <1>0, FS_Interval
    <2> HIDE DEF f
    <2>3. f \in Surjection(S, 1..Cardinality(S))
      BY <2>1, <2>2, FS_Injection
    <2> QED
      BY <2>3, Fun_SurjectionProperties
  <1>6. \A k \in 1..Cardinality(S) : Nth(S, k) \in S /\ Cardinality(upto(Nth(S, k))) = k
    BY <1>5 DEF Nth, upto
  <1>7. \A n \in S : Nth(S, f[n]) = n
    BY <1>1, <1>4, <1>6
  <1> QED
    BY <1>0, <1>1, <1>6, <1>7

-----------------------------------------------------------------------------
(***************************************************************************)
(* What a statement returns.                                               *)
(***************************************************************************)

\* The rows before i, the number of them, and how often i is in s.
Before(L, r, i) == {j \in L : r[j] < r[i]}
Pos(L, r, i) == Cardinality(Before(L, r, i))
CountOf(s, i) == Cardinality({n \in DOMAIN s : s[n] = i})

\* A table: finitely many rows, each with a number as its rank.
Rows(L, r) == L \subseteq Ids /\ IsFiniteSet(L) /\ r \in [Ids -> Ranks]

LEMMA Ranked ==
    ASSUME NEW L, NEW r, Rows(L, r)
    PROVE  /\ \A j \in L : r[j] \in Nat
           /\ Cardinality(L) \in Nat
  BY FS_CardinalityType, ListingAssumption DEF Rows

LEMMA Ordered ==
    ASSUME Rows(live, rank), NEW o \in Orders
    PROVE  /\ o \in Seq(live) /\ Len(o) = Cardinality(live) /\ Cardinality(live) \in Nat
           /\ o \in Bijection(1..Cardinality(live), live)
           /\ \A a \in 1..Cardinality(live) : o[a] \in live
           /\ \A a, b \in 1..Cardinality(live) : o[a] = o[b] => a = b
           /\ \A i \in live : \E a \in 1..Cardinality(live) : o[a] = i
           /\ \A a, b \in 1..Cardinality(live) : a < b => rank[o[a]] <= rank[o[b]]
  <1>1. Cardinality(live) \in Nat
    BY Ranked
  <1>2. /\ o \in Bijection(1..Cardinality(live), live)
        /\ \A a, b \in 1..Cardinality(live) : a < b => rank[o[a]] <= rank[o[b]]
    BY DEF Orders
  <1>3. /\ o \in [1..Cardinality(live) -> live]
        /\ \A a, b \in 1..Cardinality(live) : o[a] = o[b] => a = b
        /\ \A i \in live : \E a \in 1..Cardinality(live) : o[a] = i
    BY <1>2 DEF Bijection, Injection, IsInjective, Surjection
  <1>4. o \in Seq(live) /\ Len(o) = Cardinality(live)
    BY <1>1, <1>3
  <1> QED
    BY <1>1, <1>2, <1>3, <1>4

LEMMA CutParts ==
    ASSUME NEW S, NEW s \in Seq(S), NEW off \in Nat, NEW lim \in Nat, NEW c, c = Cut(s, off, lim)
    PROVE  /\ c \in Seq(S) /\ Len(c) <= lim
           /\ Len(c) < lim => off + Len(c) >= Len(s)
           /\ c # <<>> => off + Len(c) <= Len(s)
           /\ \A n \in 1..Len(c) : off + n \in 1..Len(s) /\ c[n] = s[off + n]
           /\ \A p \in 1..Len(s) : off < p /\ p <= off + lim => p - off \in 1..Len(c)
  <1> DEFINE N == Len(s)
             e == IF off + lim < N THEN off + lim ELSE N
  <1>1. N \in Nat /\ e \in Nat /\ \A i \in 1..N : s[i] \in S
    OBVIOUS
  <1>2. c = SubSeq(s, off + 1, e)
    BY DEF Cut
  <1>3. \A i \in off + 1..e : s[i] \in S
    BY <1>1
  <1>4. /\ c \in Seq(S) /\ Len(c) = IF off + 1 <= e THEN e - off ELSE 0
        /\ \A i \in 1..e - off : c[i] = s[off + i]
    <2>1. off + 1 \in Int /\ e \in Int
      BY <1>1
    <2> HIDE DEF e
    <2>2. /\ SubSeq(s, off + 1, e) \in Seq(S)
          /\ Len(SubSeq(s, off + 1, e)) = IF off + 1 <= e THEN e - (off + 1) + 1 ELSE 0
          /\ \A i \in 1..e - (off + 1) + 1 : SubSeq(s, off + 1, e)[i] = s[off + 1 + i - 1]
      BY <1>3, <2>1, SubSeqProperties
    <2>3. e - (off + 1) + 1 = e - off /\ \A i \in 1..e - off : off + 1 + i - 1 = off + i
      BY <2>1
    <2>4. \A i \in 1..e - off : c[i] = s[off + i]
      BY <1>2, <2>2, <2>3
    <2> QED
      BY <1>2, <2>2, <2>3, <2>4
  <1>5. c # <<>> => Len(c) # 0
    BY <1>4
  <1> QED
    BY <1>1, <1>4, <1>5

LEMMA HeadOf ==
    ASSUME Rows(live, rank), NEW o \in Orders
    PROVE  \A p \in 0..Cardinality(live) :
               IsFiniteSet(FirstOf(o, p)) /\ Cardinality(FirstOf(o, p)) = p
  <1>1. PICK N \in Nat : N = Cardinality(live) /\ o \in Bijection(1..N, live)
    BY Ordered
  <1>2. \A p \in 0..N : IsFiniteSet(FirstOf(o, p)) /\ Cardinality(FirstOf(o, p)) = p
    BY <1>1, FirstOnes
  <1> QED
    BY <1>1, <1>2

\* The rows up to p in an order: p - 1 of them, or more, rank no higher than the one at p.
LEMMA AroundPlace ==
    ASSUME Rows(live, rank), NEW o \in Orders, NEW p \in 1..Cardinality(live)
    PROVE  /\ Pos(live, rank, o[p]) \in Nat
           /\ Pos(live, rank, o[p]) <= p - 1
           /\ Cardinality({j \in live : rank[j] <= rank[o[p]]}) \in Nat
           /\ p <= Cardinality({j \in live : rank[j] <= rank[o[p]]})
  <1> DEFINE upto == {j \in live : rank[j] <= rank[o[p]]}
  <1>1. Cardinality(live) \in Nat /\ IsFiniteSet(live) /\ \A j \in live : rank[j] \in Nat
    BY Ranked DEF Rows
  <1>2. /\ o \in Bijection(1..Cardinality(live), live)
        /\ \A a \in 1..Cardinality(live) : o[a] \in live
        /\ \A i \in live : \E a \in 1..Cardinality(live) : o[a] = i
        /\ \A a, b \in 1..Cardinality(live) : a < b => rank[o[a]] <= rank[o[b]]
    BY Ordered
  <1>3. /\ p \in Nat /\ p - 1 \in 0..Cardinality(live) /\ p \in 0..Cardinality(live)
    BY <1>1
  <1>4. /\ IsFiniteSet(FirstOf(o, p - 1)) /\ Cardinality(FirstOf(o, p - 1)) = p - 1
        /\ IsFiniteSet(FirstOf(o, p)) /\ Cardinality(FirstOf(o, p)) = p
    BY <1>3, HeadOf
  <1>5. Before(live, rank, o[p]) \subseteq FirstOf(o, p - 1)
    <2>1. SUFFICES ASSUME NEW j \in live, rank[j] < rank[o[p]] PROVE j \in FirstOf(o, p - 1)
      BY DEF Before
    <2>2. PICK a \in 1..Cardinality(live) : o[a] = j
      BY <1>2
    <2>3. ~(p < a) /\ a # p
      BY <1>1, <1>2, <2>1, <2>2
    <2>4. a \in 1..p - 1
      BY <1>1, <1>3, <2>3
    <2> QED
      BY <2>2, <2>4 DEF FirstOf
  <1>6. FirstOf(o, p) \subseteq upto
    <2>1. SUFFICES ASSUME NEW a \in 1..p PROVE o[a] \in upto
      BY DEF FirstOf
    <2>2. a \in 1..Cardinality(live) /\ (a < p \/ a = p)
      BY <1>1, <1>3
    <2>3. o[a] \in live /\ rank[o[a]] \in Nat /\ rank[o[a]] <= rank[o[p]]
      BY <1>1, <1>2, <2>2
    <2> QED
      BY <2>3
  <1>7. Pos(live, rank, o[p]) \in Nat /\ Pos(live, rank, o[p]) <= p - 1
    BY <1>4, <1>5, Smaller DEF Pos
  <1>8. IsFiniteSet(upto)
    BY <1>1, Smaller
  <1> QED
    BY <1>4, <1>6, <1>7, <1>8, Smaller

\* A row with a place of its own is there in every order.
LEMMA PlacedAt ==
    ASSUME Rows(live, rank), NEW o \in Orders, NEW p \in 1..Cardinality(live), o[p] \in Placed
    PROVE  Pos(live, rank, o[p]) = p - 1
  <1>1. Cardinality(live) \in Nat /\ IsFiniteSet(live) /\ \A j \in live : rank[j] \in Nat
    BY Ranked DEF Rows
  <1>2. /\ o \in Bijection(1..Cardinality(live), live)
        /\ \A a \in 1..Cardinality(live) : o[a] \in live
        /\ \A a, b \in 1..Cardinality(live) : o[a] = o[b] => a = b
        /\ \A a, b \in 1..Cardinality(live) : a < b => rank[o[a]] <= rank[o[b]]
    BY Ordered
  <1>3. PICK q \in 0..Cardinality(live) : q = p - 1
    BY <1>1
  <1>4. /\ IsFiniteSet(FirstOf(o, q)) /\ Cardinality(FirstOf(o, q)) = q
    BY HeadOf
  <1>5. FirstOf(o, q) \subseteq Before(live, rank, o[p])
    <2>1. SUFFICES ASSUME NEW a \in 1..q PROVE o[a] \in live /\ rank[o[a]] < rank[o[p]]
      BY DEF Before, FirstOf
    <2>2. a \in 1..Cardinality(live) /\ a < p
      BY <1>1, <1>3
    <2>3. o[a] \in live /\ o[a] # o[p] /\ rank[o[a]] <= rank[o[p]]
      BY <1>2, <2>2
    <2>4. rank[o[a]] # rank[o[p]] /\ rank[o[a]] \in Nat /\ rank[o[p]] \in Nat
      BY <1>1, <2>3 DEF Placed
    <2> QED
      BY <2>3, <2>4
  <1>6. IsFiniteSet(Before(live, rank, o[p]))
    BY <1>1, Smaller DEF Before
  <1>7. q <= Pos(live, rank, o[p])
    BY <1>4, <1>5, <1>6, Smaller DEF Pos
  <1>8. Pos(live, rank, o[p]) \in Nat /\ Pos(live, rank, o[p]) <= p - 1
    BY AroundPlace
  <1> QED
    BY <1>1, <1>3, <1>7, <1>8

\* s has the rows of a page that belong there, each as often as the page.
TakenFrom(s, got) ==
    /\ s \in Seq(Ids)
    /\ \A k \in 1..Len(s) : \E n \in 1..Len(got) : s[k] = got[n]
    /\ \A n \in 1..Len(got) : (slot.kind = "bank" => got[n] \in bank) => \E k \in 1..Len(s) : s[k] = got[n]
    /\ (\A a, b \in 1..Len(got) : got[a] = got[b] => a = b)
           => \A k, l \in 1..Len(s) : s[k] = s[l] => k = l

LEMMA SheetParts ==
    ASSUME NEW got \in Seq(Ids), NEW s, s = Sheet(got)
    PROVE  TakenFrom(s, got)
  <1> DEFINE K == {n \in DOMAIN got : slot.kind = "bank" => got[n] \in bank}
             c == Cardinality(K)
  <1>1. s = [k \in 1..c |-> got[Nth(K, k)]]
    BY DEF Sheet
  <1>2. DOMAIN got = 1..Len(got) /\ Len(got) \in Nat
    OBVIOUS
  <1>3. IsFiniteSet(K) /\ K \subseteq Nat /\ K \subseteq 1..Len(got)
    <2>1. K \subseteq 1..Len(got)
      BY <1>2
    <2>2. IsFiniteSet(1..Len(got))
      BY <1>2, FS_Interval
    <2> HIDE DEF K
    <2>3. K \subseteq Nat
      BY <1>2, <2>1
    <2> QED
      BY <2>1, <2>2, <2>3, Smaller
  <1>4. \A n \in 1..Len(got) : (slot.kind = "bank" => got[n] \in bank) => n \in K
    BY <1>2
  <1> HIDE DEF K
  <1>5. /\ c \in Nat
        /\ \A k \in 1..c : Nth(K, k) \in K
        /\ \A k, l \in 1..c : Nth(K, k) = Nth(K, l) => k = l
        /\ \A n \in K : \E k \in 1..c : Nth(K, k) = n
    BY <1>3, NthBijective
  <1> HIDE DEF c
  <1>6. \A k \in 1..c : Nth(K, k) \in 1..Len(got) /\ got[Nth(K, k)] \in Ids
    <2>1. \A n \in 1..Len(got) : got[n] \in Ids
      BY ElementOfSeq
    <2> QED
      BY <1>3, <1>5, <2>1
  <1>7. s \in [1..c -> Ids] /\ \A k \in 1..c : s[k] = got[Nth(K, k)]
    BY <1>1, <1>6
  <1>8. s \in Seq(Ids) /\ Len(s) = c /\ \A k \in 1..c : s[k] = got[Nth(K, k)]
    BY <1>5, <1>7
  <1>9. \A n \in 1..Len(got) : (slot.kind = "bank" => got[n] \in bank) => \E k \in 1..c : s[k] = got[n]
    BY <1>4, <1>5, <1>8
  <1>10. ASSUME \A a, b \in 1..Len(got) : got[a] = got[b] => a = b,
                NEW k \in 1..c, NEW l \in 1..c, s[k] = s[l]
         PROVE  k = l
    BY <1>5, <1>6, <1>8, <1>10
  <1> QED
    BY <1>6, <1>8, <1>9, <1>10 DEF TakenFrom

-----------------------------------------------------------------------------
(***************************************************************************)
(* How often a row is in the sheet.                                        *)
(***************************************************************************)

LEMMA CountBound ==
    ASSUME NEW S, NEW s \in Seq(S), NEW i
    PROVE  CountOf(s, i) \in Nat /\ CountOf(s, i) <= Len(s) /\ IsFiniteSet({n \in DOMAIN s : s[n] = i})
  <1>1. DOMAIN s = 1..Len(s) /\ Len(s) \in Nat
    OBVIOUS
  <1>2. IsFiniteSet(1..Len(s)) /\ Cardinality(1..Len(s)) = Len(s)
    BY <1>1, FS_Interval
  <1>3. {n \in DOMAIN s : s[n] = i} \subseteq 1..Len(s)
    BY <1>1
  <1> QED
    BY <1>2, <1>3, Smaller DEF CountOf

LEMMA CountNone ==
    ASSUME NEW S, NEW s \in Seq(S), NEW t \in Seq(S), NEW i, \A n \in 1..Len(t) : t[n] # i
    PROVE  CountOf(s \o t, i) = CountOf(s, i)
  <1>1. /\ DOMAIN s = 1..Len(s) /\ Len(s) \in Nat /\ Len(t) \in Nat
        /\ DOMAIN (s \o t) = 1..Len(s) + Len(t)
        /\ \A n \in 1..Len(s) + Len(t) : (s \o t)[n] = IF n <= Len(s) THEN s[n] ELSE t[n - Len(s)]
    OBVIOUS
  <1>2. \A n \in 1..Len(s) + Len(t) : (s \o t)[n] = i <=> n \in 1..Len(s) /\ s[n] = i
    <2>1. ASSUME NEW n \in 1..Len(s) + Len(t), n <= Len(s)
          PROVE  (s \o t)[n] = s[n] /\ n \in 1..Len(s)
      BY <1>1, <2>1
    <2>2. ASSUME NEW n \in 1..Len(s) + Len(t), ~(n <= Len(s))
          PROVE  (s \o t)[n] # i /\ n \notin 1..Len(s)
      BY <1>1, <2>2
    <2> QED
      BY <2>1, <2>2
  <1>3. {n \in DOMAIN (s \o t) : (s \o t)[n] = i} = {n \in DOMAIN s : s[n] = i}
    BY <1>1, <1>2
  <1> QED
    BY <1>3 DEF CountOf

LEMMA CountOne ==
    ASSUME NEW S, NEW s \in Seq(S), NEW t \in Seq(S), NEW i,
           NEW p \in 1..Len(t), t[p] = i, \A n \in 1..Len(t) : t[n] = i => n = p
    PROVE  CountOf(s \o t, i) = CountOf(s, i) + 1
  <1>1. /\ DOMAIN s = 1..Len(s) /\ Len(s) \in Nat /\ Len(t) \in Nat
        /\ DOMAIN (s \o t) = 1..Len(s) + Len(t)
        /\ \A n \in 1..Len(s) + Len(t) : (s \o t)[n] = IF n <= Len(s) THEN s[n] ELSE t[n - Len(s)]
    OBVIOUS
  <1>2. \A n \in 1..Len(s) + Len(t) : (s \o t)[n] = i <=> (n \in 1..Len(s) /\ s[n] = i) \/ n = Len(s) + p
    <2>1. ASSUME NEW n \in 1..Len(s) + Len(t), n <= Len(s)
          PROVE  (s \o t)[n] = s[n] /\ n \in 1..Len(s) /\ n # Len(s) + p
      BY <1>1, <2>1
    <2>2. ASSUME NEW n \in 1..Len(s) + Len(t), ~(n <= Len(s))
          PROVE  (s \o t)[n] = t[n - Len(s)] /\ n \notin 1..Len(s) /\ n - Len(s) \in 1..Len(t)
      BY <1>1, <2>2
    <2>3. ASSUME NEW n \in 1..Len(s) + Len(t), ~(n <= Len(s))
          PROVE  (s \o t)[n] = i <=> n = Len(s) + p
      <3>1. t[n - Len(s)] = i <=> n - Len(s) = p
        BY <2>2, <2>3
      <3>2. n - Len(s) = p <=> n = Len(s) + p
        BY <1>1
      <3> QED
        BY <2>2, <2>3, <3>1, <3>2
    <2> QED
      BY <2>1, <2>2, <2>3
  <1>3. Len(s) + p \in 1..Len(s) + Len(t) /\ Len(s) + p \notin 1..Len(s)
    BY <1>1
  <1>4. PICK A : A = {n \in DOMAIN s : s[n] = i}
    OBVIOUS
  <1>5. {n \in DOMAIN (s \o t) : (s \o t)[n] = i} = A \cup {Len(s) + p}
    BY <1>1, <1>2, <1>3, <1>4
  <1>6. IsFiniteSet(A) /\ Len(s) + p \notin A
    BY <1>1, <1>3, <1>4, CountBound
  <1>7. Cardinality(A \cup {Len(s) + p}) = Cardinality(A) + 1
    BY <1>6, FS_AddElement
  <1> QED
    BY <1>4, <1>5, <1>7 DEF CountOf

\* A page puts each of its rows that belong there into the sheet, once.
LEMMA PageRead ==
    ASSUME Rows(live, rank), NEW o \in Orders, NEW off \in Nat, NEW lim \in Nat,
           NEW got, got = Cut(o, off, lim), NEW s, s = Sheet(got), NEW out \in Seq(Ids),
           NEW i \in Placed, slot.kind = "bank" => i \in bank, NEW P, P = Pos(live, rank, i)
    PROVE  /\ P \in Nat
           /\ off <= P /\ P < off + lim => CountOf(out \o s, i) = CountOf(out, i) + 1
           /\ P < off \/ P >= off + lim => CountOf(out \o s, i) = CountOf(out, i)
  <1>1. /\ o \in Seq(live) /\ Len(o) = Cardinality(live) /\ Cardinality(live) \in Nat
        /\ \A a, b \in 1..Cardinality(live) : o[a] = o[b] => a = b
        /\ \A j \in live : \E a \in 1..Cardinality(live) : o[a] = j
    BY Ordered
  <1>2. PICK p \in 1..Cardinality(live) : o[p] = i
    BY <1>1 DEF Placed
  <1>3. P = p - 1 /\ P \in Nat
    BY <1>1, <1>2, PlacedAt
  <1>4. /\ got \in Seq(live) /\ Len(got) <= lim
        /\ \A n \in 1..Len(got) : off + n \in 1..Len(o) /\ got[n] = o[off + n]
        /\ \A a \in 1..Len(o) : off < a /\ a <= off + lim => a - off \in 1..Len(got)
    BY <1>1, CutParts
  <1>5. got \in Seq(Ids) /\ Len(got) \in Nat
    <2>1. live \subseteq Ids
      BY DEF Rows
    <2> QED
      BY <1>4, <2>1, SeqMonotonic, LenProperties
  <1>6. /\ s \in Seq(Ids)
        /\ \A k \in 1..Len(s) : \E n \in 1..Len(got) : s[k] = got[n]
        /\ \A n \in 1..Len(got) : (slot.kind = "bank" => got[n] \in bank) => \E k \in 1..Len(s) : s[k] = got[n]
        /\ (\A a, b \in 1..Len(got) : got[a] = got[b] => a = b)
               => \A k, l \in 1..Len(s) : s[k] = s[l] => k = l
    <2>1. TakenFrom(s, got)
      BY <1>5, SheetParts
    <2> QED
      BY <2>1 DEF TakenFrom
  <1>7. \A a, b \in 1..Len(got) : got[a] = got[b] => a = b
    <2>1. SUFFICES ASSUME NEW a \in 1..Len(got), NEW b \in 1..Len(got), got[a] = got[b] PROVE a = b
      OBVIOUS
    <2>2. off + a = off + b
      BY <1>1, <1>4, <2>1
    <2> QED
      BY <1>5, <2>2
  <1>8. CASE off <= P /\ P < off + lim
    <2>1. p - off \in 1..Len(got) /\ off + (p - off) = p
      BY <1>1, <1>3, <1>4, <1>8
    <2>2. PICK n \in 1..Len(got) : off + n = p
      BY <2>1
    <2>3. got[n] = i
      BY <1>2, <1>4, <2>2
    <2>4. PICK k \in 1..Len(s) : s[k] = i
      BY <1>6, <2>3
    <2>5. \A l \in 1..Len(s) : s[l] = i => l = k
      BY <1>6, <1>7, <2>4
    <2>6. CountOf(out \o s, i) = CountOf(out, i) + 1
      <3>1. s \in Seq(Ids)
        BY <1>6
      <3> QED
        BY <2>4, <2>5, <3>1, CountOne
    <2> QED
      BY <1>3, <1>8, <2>6
  <1>9. CASE P < off \/ P >= off + lim
    <2>1. ASSUME NEW k \in 1..Len(s), s[k] = i PROVE FALSE
      <3>1. PICK n \in 1..Len(got) : got[n] = i
        BY <1>6, <2>1
      <3>2. off + n = p
        BY <1>1, <1>2, <1>4, <3>1
      <3> QED
        BY <1>3, <1>4, <1>5, <1>9, <3>2
    <2>2. CountOf(out \o s, i) = CountOf(out, i)
      <3>1. s \in Seq(Ids) /\ \A k \in 1..Len(s) : s[k] # i
        BY <1>6, <2>1
      <3> QED
        BY <3>1, CountNone
    <2> QED
      BY <1>3, <1>9, <2>2
  <1> QED
    BY <1>3, <1>8, <1>9

-----------------------------------------------------------------------------
(***************************************************************************)
(* The places of the rows, and what a change of the table does to them.    *)
(***************************************************************************)

PlacedIn(L, r) == {i \in L : \A j \in L \ {i} : r[j] # r[i]}

LEMMA PosType ==
    ASSUME NEW L, NEW r, Rows(L, r), NEW i
    PROVE  /\ IsFiniteSet(Before(L, r, i)) /\ Pos(L, r, i) \in Nat
           /\ i \in L => Pos(L, r, i) < Cardinality(L)
  <1>1. IsFiniteSet(L) /\ Before(L, r, i) \subseteq L
    BY DEF Rows, Before
  <1>2. ASSUME i \in L PROVE i \notin Before(L, r, i)
    BY <1>2, Ranked DEF Before
  <1> QED
    BY <1>1, <1>2, Smaller, Larger DEF Pos

\* No two rows share a place.
LEMMA DistinctPlaces ==
    ASSUME NEW L, NEW r, Rows(L, r), NEW i \in PlacedIn(L, r), NEW j \in PlacedIn(L, r),
           Pos(L, r, i) = Pos(L, r, j)
    PROVE  i = j
  <1>1. /\ i \in L /\ j \in L /\ \A k \in L : r[k] \in Nat
        /\ i # j => r[i] # r[j]
    BY Ranked DEF PlacedIn
  <1>2. ASSUME NEW a \in L, NEW b \in L, r[a] < r[b]
        PROVE  Pos(L, r, a) < Pos(L, r, b)
    <2>1. Before(L, r, a) \subseteq Before(L, r, b) /\ a \in Before(L, r, b) /\ a \notin Before(L, r, a)
      BY <1>1, <1>2 DEF Before
    <2> QED
      BY <2>1, PosType, Larger DEF Pos
  <1>3. Pos(L, r, i) \in Nat /\ Pos(L, r, j) \in Nat
    BY PosType
  <1>4. CASE i # j
    <2>1. r[i] < r[j] \/ r[j] < r[i]
      BY <1>1, <1>4
    <2> QED
      BY <1>1, <1>2, <1>3, <2>1
  <1> QED
    BY <1>4

\* From one table to another one, the rows of D keep their places but for a shift by one.
LEMMA ShiftedBy ==
    ASSUME NEW L, NEW r, Rows(L, r), NEW L2, NEW r2, Rows(L2, r2), NEW i, NEW j
    PROVE  /\ Before(L2, r2, j) \subseteq Before(L, r, j) \cup {i} => Pos(L2, r2, j) <= Pos(L, r, j) + 1
           /\ Before(L, r, j) \subseteq Before(L2, r2, j) \cup {i} => Pos(L2, r2, j) + 1 >= Pos(L, r, j)
           /\ Before(L, r, j) \subseteq Before(L2, r2, j) => Pos(L2, r2, j) >= Pos(L, r, j)
           /\ Before(L2, r2, j) \subseteq Before(L, r, j) => Pos(L2, r2, j) <= Pos(L, r, j)
  <1>1. /\ IsFiniteSet(Before(L, r, j)) /\ IsFiniteSet(Before(L2, r2, j))
        /\ Pos(L, r, j) \in Nat /\ Pos(L2, r2, j) \in Nat
    BY PosType
  <1>2. Before(L2, r2, j) \subseteq Before(L, r, j) \cup {i} => Pos(L2, r2, j) <= Pos(L, r, j) + 1
    BY <1>1, OneBeyond DEF Pos
  <1>3. Before(L, r, j) \subseteq Before(L2, r2, j) \cup {i} => Pos(L, r, j) <= Pos(L2, r2, j) + 1
    BY <1>1, OneBeyond DEF Pos
  <1>4. Before(L, r, j) \subseteq Before(L2, r2, j) => Pos(L, r, j) <= Pos(L2, r2, j)
    BY <1>1, Smaller DEF Pos
  <1>5. Before(L2, r2, j) \subseteq Before(L, r, j) => Pos(L2, r2, j) <= Pos(L, r, j)
    BY <1>1, Smaller DEF Pos
  <1> QED
    BY <1>1, <1>2, <1>3, <1>4, <1>5

-----------------------------------------------------------------------------
(***************************************************************************)
(* The rows of D that an export whose next page begins at off has missed,  *)
(* and those that it has, or will have, more than once: a pair for each    *)
(* time after the first.                                                   *)
(***************************************************************************)

Missed(D, L, r, off, out) == {i \in D : Pos(L, r, i) < off /\ CountOf(out, i) = 0}

Again(D, L, r, off, out) ==
    {x \in D \X (2..Len(out) + 1) : x[2] <= CountOf(out, x[1]) + (IF Pos(L, r, x[1]) < off THEN 0 ELSE 1)}

LEMMA FiniteCounts ==
    ASSUME NEW L, NEW r, NEW D, IsFiniteSet(D), NEW off, NEW out \in Seq(Ids)
    PROVE  IsFiniteSet(Missed(D, L, r, off, out)) /\ IsFiniteSet(Again(D, L, r, off, out))
  <1>1. Missed(D, L, r, off, out) \subseteq D
    BY DEF Missed
  <1>2. Again(D, L, r, off, out) \subseteq D \X (2..Len(out) + 1)
    BY DEF Again
  <1>3. Len(out) + 1 \in Int /\ 2 \in Int
    BY LenProperties
  <1>4. IsFiniteSet(2..Len(out) + 1)
    BY <1>3, FS_Interval
  <1>5. IsFiniteSet(D \X (2..Len(out) + 1))
    BY <1>4, FS_Product
  <1> QED
    BY <1>1, <1>2, <1>5, Smaller

\* Rows move down by d places: at most d more of them are missed.
LEMMA MissedMore ==
    ASSUME NEW L, NEW r, Rows(L, r), NEW L2, NEW r2, Rows(L2, r2),
           NEW D, IsFiniteSet(D), D \subseteq PlacedIn(L, r), NEW D2, D2 \subseteq D,
           NEW off \in Nat, NEW out \in Seq(Ids), NEW d \in {0, 1},
           \A j \in D2 : Pos(L2, r2, j) + d >= Pos(L, r, j)
    PROVE  Cardinality(Missed(D2, L2, r2, off, out)) <= Cardinality(Missed(D, L, r, off, out)) + d
  <1> DEFINE M == Missed(D, L, r, off, out)
             M2 == Missed(D2, L2, r2, off, out)
  <1>1. IsFiniteSet(M)
    BY FiniteCounts
  <1>2. \A j \in D2 : Pos(L, r, j) \in Nat /\ Pos(L2, r2, j) \in Nat
    BY PosType
  <1>3. CASE d = 0
    <2>1. M2 \subseteq M
      BY <1>2, <1>3 DEF Missed
    <2>2. Cardinality(M2) <= Cardinality(M) /\ Cardinality(M) \in Nat
      BY <1>1, <2>1, Smaller
    <2> QED
      BY <1>3, <2>2
  <1>4. CASE d = 1
    <2>1. \A j \in M2 \ M : j \in PlacedIn(L, r) /\ Pos(L, r, j) = off
      BY <1>2, <1>4 DEF Missed
    <2>2. \A i, j \in M2 \ M : i = j
      BY <2>1, DistinctPlaces
    <2> HIDE DEF M, M2
    <2>3. Cardinality(M2) <= Cardinality(M) + 1
      BY <1>1, <2>2, AtMostOneBeyond
    <2> QED
      BY <1>4, <2>3 DEF M, M2
  <1> QED
    BY <1>3, <1>4

\* Rows move up by d places: at most d more of them are served once more.
LEMMA AgainMore ==
    ASSUME NEW L, NEW r, Rows(L, r), NEW L2, NEW r2, Rows(L2, r2),
           NEW D, IsFiniteSet(D), D \subseteq PlacedIn(L, r), NEW D2, D2 \subseteq D,
           NEW off \in Nat, NEW out \in Seq(Ids), NEW d \in {0, 1},
           \A j \in D2 : Pos(L2, r2, j) <= Pos(L, r, j) + d
    PROVE  Cardinality(Again(D2, L2, r2, off, out)) <= Cardinality(Again(D, L, r, off, out)) + d
  <1> DEFINE A == Again(D, L, r, off, out)
             A2 == Again(D2, L2, r2, off, out)
  <1>1. IsFiniteSet(A)
    BY FiniteCounts
  <1>2. \A j \in D2 : Pos(L, r, j) \in Nat /\ Pos(L2, r2, j) \in Nat /\ CountOf(out, j) \in Nat
    BY PosType, CountBound
  <1>3. ASSUME NEW x \in A2
        PROVE  /\ x \in D \X (2..Len(out) + 1) /\ x[1] \in D2 /\ x[2] \in Nat
               /\ x = <<x[1], x[2]>>
               /\ x[2] <= CountOf(out, x[1]) + (IF Pos(L2, r2, x[1]) < off THEN 0 ELSE 1)
    BY LenProperties DEF Again
  <1>4. CASE d = 0
    <2>1. A2 \subseteq A
      <3>1. SUFFICES ASSUME NEW x \in A2 PROVE x \in A
        OBVIOUS
      <3>2. x[2] <= CountOf(out, x[1]) + (IF Pos(L, r, x[1]) < off THEN 0 ELSE 1)
        BY <1>2, <1>3, <1>4
      <3> QED
        BY <1>3, <3>2 DEF Again
    <2>2. Cardinality(A2) <= Cardinality(A) /\ Cardinality(A) \in Nat
      BY <1>1, <2>1, Smaller
    <2> QED
      BY <1>4, <2>2
  <1>5. CASE d = 1
    <2>1. ASSUME NEW x \in A2 \ A
          PROVE  /\ x[1] \in PlacedIn(L, r) /\ Pos(L, r, x[1]) = off - 1
                 /\ x[2] = CountOf(out, x[1]) + 1 /\ x = <<x[1], x[2]>>
      <3>1. ~(x[2] <= CountOf(out, x[1]) + (IF Pos(L, r, x[1]) < off THEN 0 ELSE 1))
        BY <1>3, <2>1 DEF Again
      <3>2. Pos(L2, r2, x[1]) <= Pos(L, r, x[1]) + 1
        BY <1>3, <1>5
      <3>3. /\ Pos(L, r, x[1]) \in Nat /\ Pos(L2, r2, x[1]) \in Nat /\ CountOf(out, x[1]) \in Nat
            /\ x[1] \in PlacedIn(L, r) /\ x = <<x[1], x[2]>>
        BY <1>2, <1>3
      <3> QED
        BY <1>3, <3>1, <3>2, <3>3
    <2>2. ASSUME NEW x \in A2 \ A, NEW y \in A2 \ A
          PROVE  x = y
      <3>1. x[1] = y[1]
        BY <2>1, DistinctPlaces
      <3>2. x[2] = y[2]
        BY <2>1, <3>1
      <3> QED
        BY <2>1, <3>1, <3>2
    <2> HIDE DEF A, A2
    <2>3. Cardinality(A2) <= Cardinality(A) + 1
      BY <1>1, <2>2, AtMostOneBeyond
    <2> QED
      BY <1>5, <2>3 DEF A, A2
  <1> QED
    BY <1>4, <1>5

\* A page: no row is missed that was not, and none is served again that would not have been.
LEMMA PageCounts ==
    ASSUME Rows(live, rank), NEW o \in Orders, NEW off \in Nat, NEW lim \in Nat,
           NEW got, got = Cut(o, off, lim), NEW s, s = Sheet(got), NEW out \in Seq(Ids),
           NEW D, D \subseteq PlacedIn(live, rank), slot.kind = "bank" => D \subseteq bank
    PROVE  /\ Missed(D, live, rank, off + lim, out \o s) \subseteq Missed(D, live, rank, off, out)
           /\ Again(D, live, rank, off + lim, out \o s) \subseteq Again(D, live, rank, off, out)
  <1>1. ASSUME NEW i \in D
        PROVE  /\ Pos(live, rank, i) \in Nat
               /\ off <= Pos(live, rank, i) /\ Pos(live, rank, i) < off + lim
                      => CountOf(out \o s, i) = CountOf(out, i) + 1
               /\ Pos(live, rank, i) < off \/ Pos(live, rank, i) >= off + lim
                      => CountOf(out \o s, i) = CountOf(out, i)
    <2>1. i \in Placed /\ (slot.kind = "bank" => i \in bank)
      BY DEF Placed, PlacedIn
    <2> QED
      BY <2>1, PageRead
  <1>2. ASSUME NEW i \in D
        PROVE  CountOf(out, i) \in Nat /\ CountOf(out, i) <= Len(out) /\ Len(out) \in Nat
    BY CountBound, LenProperties
  <1>3. ASSUME NEW i \in D, Pos(live, rank, i) < off + lim, CountOf(out \o s, i) = 0
        PROVE  Pos(live, rank, i) < off /\ CountOf(out, i) = 0
    BY <1>1, <1>2, <1>3
  <1>4. ASSUME NEW i \in D, NEW n \in Nat,
               n <= CountOf(out \o s, i) + (IF Pos(live, rank, i) < off + lim THEN 0 ELSE 1)
        PROVE  /\ n <= CountOf(out, i) + (IF Pos(live, rank, i) < off THEN 0 ELSE 1)
               /\ n <= Len(out) + 1
    BY <1>1, <1>2, <1>4
  <1>5. Missed(D, live, rank, off + lim, out \o s) \subseteq Missed(D, live, rank, off, out)
    BY <1>3 DEF Missed
  <1>6. ASSUME NEW x \in Again(D, live, rank, off + lim, out \o s)
        PROVE  x \in Again(D, live, rank, off, out)
    <2>1. PICK m : m = Len(out \o s) + 1
      OBVIOUS
    <2>2. /\ x \in D \X (2..m)
          /\ x[2] <= CountOf(out \o s, x[1]) + (IF Pos(live, rank, x[1]) < off + lim THEN 0 ELSE 1)
      BY <2>1 DEF Again
    <2>3. x[1] \in D /\ x[2] \in 2..m /\ x = <<x[1], x[2]>>
      BY <2>2
    <2>4. x[2] \in Nat /\ x[2] >= 2
      BY <2>3
    <2>5. /\ x[2] <= CountOf(out, x[1]) + (IF Pos(live, rank, x[1]) < off THEN 0 ELSE 1)
          /\ x[2] <= Len(out) + 1
      BY <1>4, <2>2, <2>3, <2>4
    <2>6. x[2] \in 2..Len(out) + 1
      BY <1>2, <2>3, <2>4, <2>5
    <2> QED
      BY <2>3, <2>5, <2>6 DEF Again
  <1> QED
    BY <1>5, <1>6

-----------------------------------------------------------------------------
(***************************************************************************)
(* The inductive invariant, of a table L with the ranks r, the bank b and  *)
(* the request s.                                                          *)
(***************************************************************************)

ListKinds == {"strict", "loose", "users"}
ExportKinds == {"answers", "bank"}

\* What Due and Exported say of s.
DueOf(b, s) == IF s.kind = "bank" THEN s.still \cap b ELSE s.still
Ended(s) == s.pc = "done" /\ s.kind \in ExportKinds /\ ~s.error

\* The offset is that of the page that was asked for.
Asked(s) == s.page >= 1 /\ s.off = Int32(Offset(s.page, s.lim)) /\ s.kind \notin ExportKinds

\* The rows of the page are counted, but for those removed since.
Covers(L, s) ==
    /\ s.pc = "count" => s.off + Len(s.out) <= Cardinality(L) + s.gone
    /\ s.pc = "roles" => s.off + Len(s.out) <= s.total + s.gone
    /\ s.pc = "done" /\ s.kind \in ListKinds /\ ~s.error
           => s.off + Len(s.out) <= s.total + s.gone \/ (s.kind = "loose" /\ s.total = 0)

\* An export has missed no more rows than were removed, and serves none again but for those
\* that came.
Counting(L, r, b, s) ==
    /\ s.off \in Nat /\ s.still \subseteq PlacedIn(L, r)
    /\ Cardinality(Missed(DueOf(b, s), L, r, s.off, s.out)) <= s.gone
    /\ Cardinality(Again(DueOf(b, s), L, r, s.off, s.out)) <= s.come

Sound(L, r, b, s) ==
    /\ Rows(L, r) /\ b \subseteq Ids /\ s \in Slot
    /\ s.pc = "rows" => Asked(s)
    /\ s.pc \in {"count", "roles"} => s.kind \notin ExportKinds
    /\ s.pc = "export" => s.kind \in ExportKinds /\ s.lim = exportPageSize
    /\ s.out # <<>> => Covers(L, s)
    /\ s.pc = "export" \/ Ended(s) => Counting(L, r, b, s)
    /\ Ended(s) => s.off >= Cardinality(L)

IInv == Sound(live, rank, bank, slot)

-----------------------------------------------------------------------------
(***************************************************************************)
(* Each step keeps the invariant.                                          *)
(***************************************************************************)

LEMMA IdleSlot == Idle \in Slot
  <1>1. <<>> \in Seq(Ids) /\ {} \in SUBSET Ids
    BY EmptySeq
  <1>2. 0 \in 0..maxPageSize + exportPageSize
    BY ListingAssumption
  <1> QED
    BY <1>1, <1>2 DEF Idle, Slot

LEMMA Int32Type ==
    ASSUME NEW n \in Int
    PROVE  Int32(n) \in Int
  BY ListingAssumption DEF Int32

\* What fits an int32 stays what it is.
LEMMA Int32Fits ==
    ASSUME NEW n \in Nat, n < Half
    PROVE  Int32(n) = n
  <1>1. Half \in Nat \ {0} /\ n + Half \in 0..2 * Half - 1
    BY ListingAssumption
  <1>2. \A m \in Nat \ {0} : \A a \in 0..m - 1 : a % m = a
    OBVIOUS
  <1>3. (n + Half) % (2 * Half) = n + Half
    BY <1>1, <1>2
  <1> QED
    BY <1>1, <1>3 DEF Int32

LEMMA NormalParts ==
    ASSUME NEW p \in Pages, NEW n \in Sizes
    PROVE  /\ NormalPage(p) \in Nat /\ NormalPage(p) >= 1
           /\ NormalSize(n) \in 0..maxPageSize + exportPageSize
           /\ Offset(NormalPage(p), NormalSize(n)) \in Nat
  <1>1. p \in Int /\ n \in Int
    BY ListingAssumption
  <1>2. NormalPage(p) \in Nat /\ NormalPage(p) >= 1
    BY <1>1 DEF NormalPage
  <1>3. NormalSize(n) \in 0..maxPageSize + exportPageSize /\ NormalSize(n) \in Nat
    BY <1>1, ListingAssumption DEF NormalSize
  <1>4. \A a, b \in Nat : a * b \in Nat
    OBVIOUS
  <1> QED
    BY <1>2, <1>3, <1>4 DEF Offset

\* A list that has been asked for.
LEMMA AskedSound ==
    ASSUME IInv, UNCHANGED Table, NEW s \in Slot, slot' = s, s.pc = "rows", Asked(s), s.out = <<>>
    PROVE  IInv'
  BY DEF IInv, Sound, Table, Ended

LEMMA AskKeeps ==
    ASSUME IInv, NEW kind \in ListKinds, Ask(kind)
    PROVE  IInv'
  <1>1. PICK p \in Pages, n \in Sizes :
            slot' = [Idle EXCEPT !.pc = "rows", !.kind = kind, !.page = NormalPage(p), !.lim = NormalSize(n),
                                 !.off = Int32(Offset(NormalPage(p), NormalSize(n)))]
    BY DEF Ask
  <1>2. PICK page, lim, off : page = NormalPage(p) /\ lim = NormalSize(n) /\ off = Int32(Offset(page, lim))
    OBVIOUS
  <1>3. page \in Nat /\ page >= 1 /\ lim \in 0..maxPageSize + exportPageSize /\ off \in Int
    BY <1>2, NormalParts, Int32Type
  <1>4. PICK s : s = [Idle EXCEPT !.pc = "rows", !.kind = kind, !.page = page, !.lim = lim, !.off = off]
    OBVIOUS
  <1>5. /\ s \in Slot /\ s.pc = "rows" /\ s.kind = kind /\ s.page = page /\ s.lim = lim /\ s.off = off
        /\ s.out = <<>>
    BY <1>3, <1>4, IdleSlot DEF Slot, Idle, ListKinds
  <1>6. Asked(s)
    BY <1>2, <1>3, <1>5 DEF Asked, ListKinds, ExportKinds
  <1>7. slot' = s /\ UNCHANGED Table
    BY <1>1, <1>2, <1>4 DEF Ask
  <1> QED
    BY <1>5, <1>6, <1>7, AskedSound

LEMMA handleSKProjectSelectKeeps ==
    ASSUME IInv, handleSKProjectSelect
    PROVE  IInv'
  <1>1. PICK s : s = [Idle EXCEPT !.pc = "rows", !.kind = "picker", !.lim = maxPageSize]
    OBVIOUS
  <1>2. maxPageSize \in 0..maxPageSize + exportPageSize /\ maxPageSize \in Nat
    BY ListingAssumption
  <1>3. /\ s \in Slot /\ s.pc = "rows" /\ s.kind = "picker" /\ s.page = 1 /\ s.lim = maxPageSize /\ s.off = 0
        /\ s.out = <<>>
    BY <1>1, <1>2, IdleSlot DEF Slot, Idle
  <1>4. Offset(1, maxPageSize) = 0
    BY <1>2 DEF Offset
  <1>5. Int32(0) = 0
    BY Int32Fits, ListingAssumption
  <1>6. Asked(s)
    BY <1>3, <1>4, <1>5 DEF Asked, ExportKinds
  <1> QED
    BY <1>1, <1>3, <1>6, AskedSound DEF handleSKProjectSelect

\* A request that is answered with an error.
LEMMA ErrorSound ==
    ASSUME IInv, UNCHANGED Table, slot' = [slot EXCEPT !.pc = "done", !.error = TRUE]
    PROVE  IInv'
  <1>1. slot \in Slot
    BY DEF IInv, Sound
  <1>2. slot' \in Slot /\ slot'.pc = "done" /\ slot'.error
    BY <1>1 DEF Slot
  <1> QED
    BY <1>2 DEF IInv, Sound, Table, Ended, Covers

LEMMA ListRowsKeeps ==
    ASSUME IInv, ListRows
    PROVE  IInv'
  <1>1. /\ slot \in Slot /\ slot.pc = "rows" /\ Asked(slot) /\ UNCHANGED Table /\ Rows(live, rank)
        /\ bank \subseteq Ids
    BY DEF IInv, Sound, ListRows
  <1>2. CASE slot.off < 0
    <2>1. ~(slot.off >= 0)
      BY <1>1, <1>2 DEF Slot
    <2>2. slot' = [slot EXCEPT !.pc = "done", !.error = TRUE]
      BY <2>1 DEF ListRows
    <2> QED
      BY <1>1, <2>2, ErrorSound
  <1>3. CASE slot.off >= 0
    <2>1. PICK o \in Orders :
              slot' = [slot EXCEPT !.pc = IF slot.kind = "picker" THEN "done" ELSE "count",
                                   !.out = Cut(o, slot.off, slot.lim),
                                   !.gone = 0, !.come = 0, !.still = Placed]
      <3>1. ~(slot.off < 0)
        BY <1>1, <1>3 DEF Slot
      <3> QED
        BY <3>1 DEF ListRows
    <2>2. PICK off, lim, got : off = slot.off /\ lim = slot.lim /\ got = Cut(o, off, lim)
      OBVIOUS
    <2>3. off \in Nat /\ lim \in Nat
      BY <1>1, <1>3, <2>2, ListingAssumption DEF Slot
    <2>4. o \in Seq(live) /\ Len(o) = Cardinality(live) /\ Cardinality(live) \in Nat
      BY <1>1, Ordered
    <2>5. got \in Seq(live) /\ (got # <<>> => off + Len(got) <= Cardinality(live))
      BY <2>2, <2>3, <2>4, CutParts
    <2>6. got \in Seq(Ids) /\ Placed \in SUBSET Ids
      BY <1>1, <2>5, SeqMonotonic DEF Rows, Placed
    <2>7. PICK pc : pc = IF slot.kind = "picker" THEN "done" ELSE "count"
      OBVIOUS
    <2>8. PICK s : s = [slot EXCEPT !.pc = pc, !.out = got, !.gone = 0, !.come = 0, !.still = Placed]
      OBVIOUS
    <2>9. /\ s \in Slot /\ s.pc = pc /\ s.out = got /\ s.gone = 0 /\ s.kind = slot.kind /\ s.off = off
      BY <1>1, <2>2, <2>6, <2>7, <2>8 DEF Slot
    <2>10. slot' = s
      BY <2>1, <2>2, <2>7, <2>8
    <2>11. s.kind \notin ExportKinds /\ (pc = "done" => s.kind = "picker") /\ pc \in {"done", "count"}
      BY <1>1, <2>7, <2>9 DEF Asked
    <2>12. ~Ended(s) /\ (got # <<>> => Covers(live, s))
      BY <2>4, <2>5, <2>9, <2>11 DEF Ended, Covers, ListKinds
    <2> QED
      BY <1>1, <2>9, <2>10, <2>11, <2>12 DEF IInv, Sound, Table
  <1> QED
    BY <1>1, <1>2, <1>3 DEF Slot

LEMMA CountedSound ==
    ASSUME IInv, UNCHANGED Table, slot.pc = "count", NEW total \in Nat, Counted(total),
           total = Cardinality(live) \/ (slot.kind = "loose" /\ total = 0)
    PROVE  IInv'
  <1>1. /\ slot \in Slot /\ Rows(live, rank) /\ bank \subseteq Ids /\ slot.kind \notin ExportKinds
        /\ slot.out # <<>> => slot.off + Len(slot.out) <= Cardinality(live) + slot.gone
    BY DEF IInv, Sound, Covers
  <1>2. PICK pc : pc = IF slot.kind = "users" /\ slot.out # <<>> THEN "roles" ELSE "done"
    OBVIOUS
  <1>3. PICK s : s = [slot EXCEPT !.pc = pc, !.total = total]
    OBVIOUS
  <1>4. slot' = s
    BY <1>2, <1>3 DEF Counted
  <1>5. /\ s \in Slot /\ s.pc = pc /\ s.total = total /\ s.kind = slot.kind /\ s.off = slot.off
        /\ s.out = slot.out /\ s.gone = slot.gone
    BY <1>1, <1>2, <1>3 DEF Slot
  <1>6. pc \in {"roles", "done"} /\ (pc = "roles" => slot.kind = "users")
    BY <1>2
  <1>7. s.out # <<>> => Covers(live, s)
    BY <1>1, <1>5, <1>6 DEF Covers
  <1>8. ~Ended(s)
    BY <1>1, <1>5 DEF Ended
  <1> QED
    BY <1>1, <1>4, <1>5, <1>6, <1>7, <1>8 DEF IInv, Sound, Table

LEMMA CountRowsKeeps ==
    ASSUME IInv, CountRows
    PROVE  IInv'
  <1>1. Rows(live, rank)
    BY DEF IInv, Sound
  <1>2. Cardinality(live) \in Nat
    BY <1>1, Ranked
  <1> QED
    BY <1>2, CountedSound DEF CountRows

LEMMA ListUserRolesKeeps ==
    ASSUME IInv, ListUserRoles
    PROVE  IInv'
  <1>1. /\ slot \in Slot /\ Rows(live, rank) /\ bank \subseteq Ids /\ slot.kind \notin ExportKinds
        /\ slot.out # <<>> => slot.off + Len(slot.out) <= slot.total + slot.gone
    BY DEF IInv, Sound, Covers, ListUserRoles
  <1>2. PICK s : s = [slot EXCEPT !.pc = "done"]
    OBVIOUS
  <1>3. /\ s \in Slot /\ s.pc = "done" /\ s.total = slot.total /\ s.kind = slot.kind /\ s.off = slot.off
        /\ s.out = slot.out /\ s.gone = slot.gone
    BY <1>1, <1>2 DEF Slot
  <1>4. (s.out # <<>> => Covers(live, s)) /\ ~Ended(s)
    BY <1>1, <1>3 DEF Covers, Ended
  <1>5. slot' = s /\ UNCHANGED Table
    BY <1>2 DEF ListUserRoles
  <1> QED
    BY <1>1, <1>3, <1>4, <1>5 DEF IInv, Sound, Table

LEMMA FailKeeps ==
    ASSUME IInv, Fail
    PROVE  IInv'
  <1>1. CASE slot' = [slot EXCEPT !.pc = "done", !.error = TRUE]
    BY <1>1, ErrorSound DEF Fail
  <1>2. CASE slot.pc = "count" /\ slot.kind = "loose" /\ Counted(0)
    BY <1>2, CountedSound DEF Fail
  <1> QED
    BY <1>1, <1>2 DEF Fail

LEMMA ReturnKeeps ==
    ASSUME IInv, Return
    PROVE  IInv'
  <1>1. Idle.pc = "idle" /\ Idle.out = <<>>
    BY DEF Idle
  <1> QED
    BY <1>1, IdleSlot DEF IInv, Sound, Return, Table, Ended

\* An export begins: nothing is below its offset, and it has nothing yet.
LEMMA ExportKeeps ==
    ASSUME IInv, NEW kind \in ExportKinds, Export(kind)
    PROVE  IInv'
  <1>1. Rows(live, rank) /\ bank \subseteq Ids /\ UNCHANGED Table
    BY DEF IInv, Sound, Export
  <1>2. PICK s : s = [Idle EXCEPT !.pc = "export", !.kind = kind, !.lim = exportPageSize, !.still = Placed]
    OBVIOUS
  <1>3. exportPageSize \in 0..maxPageSize + exportPageSize /\ Placed \in SUBSET Ids
    BY <1>1, ListingAssumption DEF Placed, Rows
  <1>4. /\ s \in Slot /\ s.pc = "export" /\ s.kind = kind /\ s.lim = exportPageSize /\ s.still = Placed
        /\ s.out = <<>> /\ s.off = 0 /\ s.gone = 0 /\ s.come = 0
    BY <1>2, <1>3, IdleSlot DEF Slot, Idle, ExportKinds
  <1>5. slot' = s
    BY <1>2 DEF Export
  <1>6. s.still \subseteq PlacedIn(live, rank)
    BY <1>4 DEF Placed, PlacedIn
  <1>7. PICK D : D = DueOf(bank, s)
    OBVIOUS
  <1>8. Missed(D, live, rank, 0, <<>>) = {}
    BY <1>1, PosType DEF Missed
  <1>9. Again(D, live, rank, 0, <<>>) = {}
    <2>1. SUFFICES ASSUME NEW x \in Again(D, live, rank, 0, <<>>) PROVE FALSE
      OBVIOUS
    <2>2. Len(<<>>) + 1 = 1
      OBVIOUS
    <2>3. x \in D \X (2..1)
      BY <2>1, <2>2 DEF Again
    <2> QED
      BY <2>3
  <1>10. Counting(live, rank, bank, s)
    <2>1. /\ Missed(DueOf(bank, s), live, rank, s.off, s.out) = {}
          /\ Again(DueOf(bank, s), live, rank, s.off, s.out) = {}
      BY <1>4, <1>7, <1>8, <1>9, Zenon
    <2>2. Cardinality({}) = 0
      BY FS_EmptySet
    <2>3. /\ Cardinality(Missed(DueOf(bank, s), live, rank, s.off, s.out)) = 0
          /\ Cardinality(Again(DueOf(bank, s), live, rank, s.off, s.out)) = 0
      BY <2>1, <2>2, Zenon
    <2>4. s.off \in Nat /\ 0 <= s.gone /\ 0 <= s.come
      BY <1>4
    <2> QED
      BY <1>6, <2>3, <2>4, Zenon DEF Counting
  <1> QED
    BY <1>1, <1>4, <1>5, <1>10 DEF IInv, Sound, Table, Ended

LEMMA ExportPageKeeps ==
    ASSUME IInv, ExportPage
    PROVE  IInv'
  <1>1. /\ slot \in Slot /\ Rows(live, rank) /\ bank \subseteq Ids /\ slot.kind \in ExportKinds
        /\ slot.lim = exportPageSize /\ Counting(live, rank, bank, slot) /\ UNCHANGED Table
    BY DEF IInv, Sound, ExportPage
  <1>2. PICK o \in Orders :
            slot' = [slot EXCEPT !.out = @ \o Sheet(Cut(o, slot.off, slot.lim)),
                                 !.off = NextOffset(Cut(o, slot.off, slot.lim)),
                                 !.pc  = IF LastPage(Cut(o, slot.off, slot.lim)) THEN "done" ELSE "export"]
    BY DEF ExportPage
  <1>3. PICK off, lim, got : off = slot.off /\ lim = slot.lim /\ got = Cut(o, off, lim)
    OBVIOUS
  <1>4. PICK t, out : t = Sheet(got) /\ out = slot.out
    OBVIOUS
  <1>5. off \in Nat /\ lim \in Nat /\ lim = exportPageSize /\ out \in Seq(Ids)
    BY <1>1, <1>3, <1>4, ListingAssumption DEF Counting, Slot
  <1>6. o \in Seq(live) /\ Len(o) = Cardinality(live) /\ Cardinality(live) \in Nat
    BY <1>1, Ordered
  <1>7. /\ got \in Seq(live) /\ Len(got) \in Nat
        /\ Len(got) < lim => off + Len(got) >= Cardinality(live)
    BY <1>3, <1>5, <1>6, CutParts, LenProperties
  <1>8. t \in Seq(Ids) /\ out \o t \in Seq(Ids)
    <2>1. got \in Seq(Ids)
      BY <1>1, <1>7, SeqMonotonic DEF Rows
    <2>2. TakenFrom(t, got)
      BY <1>4, <2>1, SheetParts
    <2>3. t \in Seq(Ids)
      BY <2>2 DEF TakenFrom
    <2> QED
      BY <1>5, <2>3, ConcatProperties
  <1>9. PICK pc : pc = IF Len(got) < exportPageSize THEN "done" ELSE "export"
    OBVIOUS
  <1>10. PICK s : s = [slot EXCEPT !.out = out \o t, !.off = off + lim, !.pc = pc]
    OBVIOUS
  <1>11. slot' = s
    <2>1. slot' = [slot EXCEPT !.out = slot.out \o Sheet(Cut(o, slot.off, slot.lim)),
                               !.off = NextOffset(Cut(o, slot.off, slot.lim)),
                               !.pc  = IF LastPage(Cut(o, slot.off, slot.lim)) THEN "done" ELSE "export"]
      BY <1>1, <1>2 DEF Slot
    <2>2. NextOffset(got) = off + lim /\ pc = IF LastPage(got) THEN "done" ELSE "export"
      BY <1>1, <1>3, <1>9 DEF NextOffset, LastPage
    <2> QED
      BY <1>3, <1>4, <1>10, <2>1, <2>2
  <1>12. /\ s \in Slot /\ s.pc = pc /\ s.out = out \o t /\ s.off = off + lim /\ s.kind = slot.kind
         /\ s.lim = slot.lim /\ s.gone = slot.gone /\ s.come = slot.come /\ s.still = slot.still
    <2>1. PICK l, f : l = out \o t /\ f = off + lim
      OBVIOUS
    <2>2. l \in Seq(Ids) /\ f \in Int /\ pc \in {"done", "export"}
      BY <1>5, <1>8, <1>9, <2>1
    <2>3. s = [slot EXCEPT !.out = l, !.off = f, !.pc = pc]
      BY <1>10, <2>1
    <2> QED
      BY <1>1, <2>1, <2>2, <2>3 DEF Slot
  <1>13. PICK D : D = DueOf(bank, slot) /\ D = DueOf(bank, s)
    BY <1>12 DEF DueOf
  <1>14. D \subseteq PlacedIn(live, rank) /\ (slot.kind = "bank" => D \subseteq bank)
    BY <1>1, <1>13 DEF DueOf, Counting
  <1>15. /\ Missed(D, live, rank, off + lim, out \o t) \subseteq Missed(D, live, rank, off, out)
         /\ Again(D, live, rank, off + lim, out \o t) \subseteq Again(D, live, rank, off, out)
    BY <1>1, <1>3, <1>4, <1>5, <1>14, PageCounts
  <1>16. IsFiniteSet(Missed(D, live, rank, off, out)) /\ IsFiniteSet(Again(D, live, rank, off, out))
    <2>1. IsFiniteSet(D)
      BY <1>1, <1>14, Smaller DEF Rows, PlacedIn
    <2> QED
      BY <1>5, <2>1, FiniteCounts
  <1>17. /\ Cardinality(Missed(D, live, rank, off, out)) <= slot.gone
         /\ Cardinality(Again(D, live, rank, off, out)) <= slot.come
         /\ slot.gone \in Nat /\ slot.come \in Nat
    BY <1>1, <1>3, <1>4, <1>13 DEF Counting, Slot
  <1>18. /\ Cardinality(Missed(D, live, rank, off + lim, out \o t)) <= slot.gone
         /\ Cardinality(Again(D, live, rank, off + lim, out \o t)) <= slot.come
    BY <1>15, <1>16, <1>17, Smaller
  <1>19. Counting(live, rank, bank, s)
    BY <1>1, <1>5, <1>12, <1>13, <1>18 DEF Counting
  <1>20. /\ pc \in {"done", "export"}
         /\ pc = "done" => off + lim >= Cardinality(live)
    BY <1>5, <1>6, <1>7, <1>9
  <1>21. Covers(live, s)
    BY <1>1, <1>12, <1>20 DEF Covers, ListKinds, ExportKinds
  <1> QED
    BY <1>1, <1>11, <1>12, <1>19, <1>20, <1>21 DEF IInv, Sound, Table, Ended

\* Another request has changed the table while this one reads.
LEMMA ChangedSound ==
    ASSUME IInv, MayChange, NEW g \in {0, 1}, NEW c \in {0, 1}, NEW lost, Note(g, c, lost),
           NEW L, NEW r, NEW b, live' = L, rank' = r, bank' = b,
           Rows(L, r), b \subseteq Ids, Cardinality(live) <= Cardinality(L) + g,
           \A j \in b : j \in bank \/ j \in lost,
           \A j \in PlacedIn(live, rank) \ lost :
               /\ j \in PlacedIn(L, r)
               /\ Pos(L, r, j) + g >= Pos(live, rank, j)
               /\ Pos(L, r, j) <= Pos(live, rank, j) + c
    PROVE  IInv'
  <1>1. slot \in Slot /\ Rows(live, rank) /\ slot.pc \notin {"idle", "done"}
    BY DEF IInv, Sound, MayChange
  <1>2. PICK s : s = [slot EXCEPT !.gone = slot.gone + g, !.come = slot.come + c, !.still = slot.still \ lost]
    OBVIOUS
  <1>3. slot' = s
    BY <1>1, <1>2 DEF Note, Slot
  <1>4. PICK gone, come, still : gone = slot.gone + g /\ come = slot.come + c /\ still = slot.still \ lost
    OBVIOUS
  <1>5. gone \in Nat /\ come \in Nat /\ still \in SUBSET Ids /\ slot.gone \in Nat /\ slot.come \in Nat
    BY <1>1, <1>4 DEF Slot
  <1>6. s = [slot EXCEPT !.gone = gone, !.come = come, !.still = still]
    BY <1>2, <1>4
  <1>7. /\ s \in Slot /\ s.gone = gone /\ s.come = come /\ s.still = still
        /\ s.pc = slot.pc /\ s.kind = slot.kind /\ s.page = slot.page /\ s.lim = slot.lim
        /\ s.off = slot.off /\ s.out = slot.out /\ s.total = slot.total
    BY <1>1, <1>5, <1>6 DEF Slot
  <1>8. s.pc = "rows" => Asked(s)
    BY <1>7 DEF IInv, Sound, Asked
  <1>9. ASSUME s.out # <<>> PROVE Covers(L, s)
    <2>1. Covers(live, slot)
      BY <1>7, <1>9 DEF IInv, Sound
    <2>2. PICK l : l = slot.off + Len(slot.out) /\ l = s.off + Len(s.out)
      BY <1>7
    <2>3. l \in Int /\ slot.total \in Nat
      BY <1>1, <2>2, LenProperties DEF Slot
    <2>4. Cardinality(live) \in Nat /\ Cardinality(L) \in Nat
      BY <1>1, Ranked
    <2>5. slot.pc = "count" => l <= Cardinality(L) + gone
      BY <1>4, <1>5, <2>1, <2>2, <2>3, <2>4 DEF Covers
    <2>6. slot.pc = "roles" => l <= slot.total + gone
      BY <1>4, <1>5, <2>1, <2>2, <2>3 DEF Covers
    <2> QED
      BY <1>1, <1>7, <2>2, <2>5, <2>6 DEF Covers
  <1>10. ASSUME s.pc = "export" PROVE Counting(L, r, b, s)
    <2>1. Counting(live, rank, bank, slot)
      BY <1>7, <1>10 DEF IInv, Sound
    <2>2. PICK D, D2 : D = DueOf(bank, slot) /\ D2 = DueOf(b, s)
      OBVIOUS
    <2>3. PICK off, out : off = slot.off /\ out = slot.out
      OBVIOUS
    <2>4. off \in Nat /\ out \in Seq(Ids)
      BY <1>1, <2>1, <2>3 DEF Counting, Slot
    <2>5. slot.still \subseteq PlacedIn(live, rank)
      BY <2>1 DEF Counting
    <2>6. D \subseteq PlacedIn(live, rank) /\ D2 \subseteq D /\ D2 \subseteq PlacedIn(live, rank) \ lost
      BY <1>4, <1>7, <2>2, <2>5 DEF DueOf
    <2>7. IsFiniteSet(D)
      BY <1>1, <2>6, Smaller DEF Rows, PlacedIn
    <2>8. /\ Cardinality(Missed(D, live, rank, off, out)) \in Nat
          /\ Cardinality(Again(D, live, rank, off, out)) \in Nat
          /\ Cardinality(Missed(D2, L, r, off, out)) \in Nat
          /\ Cardinality(Again(D2, L, r, off, out)) \in Nat
      <3>1. IsFiniteSet(D2)
        BY <2>6, <2>7, Smaller
      <3> QED
        BY <2>4, <2>7, <3>1, FiniteCounts, FS_CardinalityType
    <2>9. Cardinality(Missed(D2, L, r, off, out)) <= Cardinality(Missed(D, live, rank, off, out)) + g
      <3>1. \A j \in D2 : Pos(L, r, j) + g >= Pos(live, rank, j)
        BY <2>6
      <3> QED
        BY <1>1, <2>4, <2>6, <2>7, <3>1, MissedMore
    <2>10. Cardinality(Again(D2, L, r, off, out)) <= Cardinality(Again(D, live, rank, off, out)) + c
      <3>1. \A j \in D2 : Pos(L, r, j) <= Pos(live, rank, j) + c
        BY <2>6
      <3> QED
        BY <1>1, <2>4, <2>6, <2>7, <3>1, AgainMore
    <2>11. /\ Cardinality(Missed(D, live, rank, off, out)) <= slot.gone
           /\ Cardinality(Again(D, live, rank, off, out)) <= slot.come
      BY <2>1, <2>2, <2>3 DEF Counting
    <2>12. /\ Cardinality(Missed(D2, L, r, off, out)) <= gone
           /\ Cardinality(Again(D2, L, r, off, out)) <= come
      BY <1>4, <1>5, <2>8, <2>9, <2>10, <2>11
    <2>13. s.still \subseteq PlacedIn(L, r)
      BY <1>4, <1>7, <2>5
    <2> QED
      BY <1>7, <2>2, <2>3, <2>4, <2>12, <2>13 DEF Counting
  <1>11. ~Ended(s)
    BY <1>1, <1>7 DEF Ended
  <1>12. /\ s.pc \in {"count", "roles"} => s.kind \notin ExportKinds
         /\ s.pc = "export" => s.kind \in ExportKinds /\ s.lim = exportPageSize
    BY <1>7 DEF IInv, Sound
  <1> QED
    BY <1>3, <1>7, <1>8, <1>9, <1>10, <1>11, <1>12 DEF IInv, Sound

LEMMA ComeKeeps ==
    ASSUME IInv, NEW i \in Ids, Come(i)
    PROVE  IInv'
  <1>1. Rows(live, rank) /\ bank \subseteq Ids
    BY DEF IInv, Sound
  <1>2. PICK L : L = live \cup {i}
    OBVIOUS
  <1>3. Rows(L, rank) /\ Cardinality(live) <= Cardinality(L) + 0
    <2>1. IsFiniteSet(live) /\ IsFiniteSet(L) /\ L \subseteq Ids
      BY <1>1, <1>2, FS_AddElement DEF Rows
    <2>2. Rows(L, rank)
      BY <1>1, <2>1 DEF Rows
    <2> QED
      BY <1>2, <2>1, <2>2, Smaller
  <1>4. PICK lost : lost = At(rank[i]) \cup {i}
    OBVIOUS
  <1>5. ASSUME NEW j \in PlacedIn(live, rank) \ lost
        PROVE  /\ j \in PlacedIn(L, rank)
               /\ Pos(L, rank, j) + 0 >= Pos(live, rank, j)
               /\ Pos(L, rank, j) <= Pos(live, rank, j) + 1
    <2>1. j \in PlacedIn(L, rank)
      BY <1>2, <1>4 DEF PlacedIn, At
    <2>2. Before(live, rank, j) \subseteq Before(L, rank, j) /\ Before(L, rank, j) \subseteq Before(live, rank, j) \cup {i}
      BY <1>2 DEF Before
    <2>3. Pos(L, rank, j) \in Nat /\ Pos(live, rank, j) \in Nat
      BY <1>1, <1>3, PosType
    <2>4. Pos(L, rank, j) >= Pos(live, rank, j) /\ Pos(L, rank, j) <= Pos(live, rank, j) + 1
      BY <1>1, <1>3, <2>2, ShiftedBy
    <2> QED
      BY <2>1, <2>3, <2>4
  <1>6. MayChange /\ Note(0, 1, lost) /\ live' = L /\ rank' = rank /\ bank' = bank
    BY <1>2, <1>4 DEF Come
  <1> QED
    BY <1>1, <1>3, <1>5, <1>6, ChangedSound

LEMMA LeaveKeeps ==
    ASSUME IInv, NEW i \in Ids, Leave(i)
    PROVE  IInv'
  <1>1. Rows(live, rank) /\ bank \subseteq Ids /\ Cardinality(live) \in Nat
    BY Ranked DEF IInv, Sound
  <1>2. PICK L : L = live \ {i}
    OBVIOUS
  <1>3. Rows(L, rank) /\ Cardinality(live) <= Cardinality(L) + 1
    <2>1. IsFiniteSet(live) /\ IsFiniteSet(L) /\ L \subseteq Ids
      BY <1>1, <1>2, FS_RemoveElement DEF Rows
    <2>2. Rows(L, rank)
      BY <1>1, <2>1 DEF Rows
    <2>3. live \subseteq L \cup {i}
      BY <1>2
    <2> QED
      BY <2>1, <2>2, <2>3, OneBeyond
  <1>4. PICK lost : lost = {i}
    OBVIOUS
  <1>5. ASSUME NEW j \in PlacedIn(live, rank) \ lost
        PROVE  /\ j \in PlacedIn(L, rank)
               /\ Pos(L, rank, j) + 1 >= Pos(live, rank, j)
               /\ Pos(L, rank, j) <= Pos(live, rank, j) + 0
    <2>1. j \in PlacedIn(L, rank)
      BY <1>2, <1>4 DEF PlacedIn
    <2>2. Before(L, rank, j) \subseteq Before(live, rank, j) /\ Before(live, rank, j) \subseteq Before(L, rank, j) \cup {i}
      BY <1>2 DEF Before
    <2>3. Pos(L, rank, j) \in Nat /\ Pos(live, rank, j) \in Nat
      BY <1>1, <1>3, PosType
    <2>4. Pos(L, rank, j) + 1 >= Pos(live, rank, j) /\ Pos(L, rank, j) <= Pos(live, rank, j)
      BY <1>1, <1>3, <2>2, ShiftedBy
    <2> QED
      BY <2>1, <2>3, <2>4
  <1>6. MayChange /\ Note(1, 0, lost) /\ live' = L /\ rank' = rank /\ bank' = bank
    BY <1>2, <1>4 DEF Leave
  <1> QED
    BY <1>1, <1>3, <1>5, <1>6, ChangedSound

LEMMA MoveKeeps ==
    ASSUME IInv, NEW i \in Ids, Move(i)
    PROVE  IInv'
  <1>1. Rows(live, rank) /\ bank \subseteq Ids /\ Cardinality(live) \in Nat
    BY Ranked DEF IInv, Sound
  <1>2. PICK k \in Ranks : rank' = [rank EXCEPT ![i] = k] /\ Note(1, 1, At(k) \cup {i})
    BY DEF Move
  <1>3. PICK r : r = [rank EXCEPT ![i] = k]
    OBVIOUS
  <1>4. /\ Rows(live, r) /\ Cardinality(live) <= Cardinality(live) + 1
        /\ r[i] = k /\ \A j \in Ids : j # i => r[j] = rank[j]
    BY <1>1, <1>3 DEF Rows
  <1>5. PICK lost : lost = At(k) \cup {i}
    OBVIOUS
  <1>6. ASSUME NEW j \in PlacedIn(live, rank) \ lost
        PROVE  /\ j \in PlacedIn(live, r)
               /\ Pos(live, r, j) + 1 >= Pos(live, rank, j)
               /\ Pos(live, r, j) <= Pos(live, rank, j) + 1
    <2>1. live \subseteq Ids /\ j \in live /\ j # i /\ r[j] = rank[j]
      BY <1>1, <1>4, <1>5 DEF Rows, PlacedIn
    <2>2. j \in PlacedIn(live, r)
      BY <1>4, <1>5, <2>1 DEF PlacedIn, At
    <2>3. Before(live, r, j) \subseteq Before(live, rank, j) \cup {i} /\ Before(live, rank, j) \subseteq Before(live, r, j) \cup {i}
      BY <1>4, <2>1 DEF Before
    <2> QED
      BY <1>1, <1>4, <2>2, <2>3, ShiftedBy
  <1>7. MayChange /\ Note(1, 1, lost) /\ live' = live /\ rank' = r /\ bank' = bank
    BY <1>2, <1>3, <1>5 DEF Move
  <1> QED
    BY <1>1, <1>4, <1>6, <1>7, ChangedSound

LEMMA RebankKeeps ==
    ASSUME IInv, NEW i \in Ids, Rebank(i)
    PROVE  IInv'
  <1>1. Rows(live, rank) /\ bank \subseteq Ids /\ Cardinality(live) \in Nat
    BY Ranked DEF IInv, Sound
  <1>2. PICK lost, b : lost = {i} /\ b = IF i \in bank THEN bank \ {i} ELSE bank \cup {i}
    OBVIOUS
  <1>3. b \subseteq Ids /\ \A j \in b : j \in bank \/ j \in lost
    BY <1>1, <1>2
  <1>4. ASSUME NEW j \in PlacedIn(live, rank) \ lost
        PROVE  /\ j \in PlacedIn(live, rank)
               /\ Pos(live, rank, j) + 0 >= Pos(live, rank, j)
               /\ Pos(live, rank, j) <= Pos(live, rank, j) + 0
    <2>1. Pos(live, rank, j) \in Nat
      BY <1>1, PosType
    <2> QED
      BY <2>1
  <1>5. MayChange /\ Note(0, 0, lost) /\ live' = live /\ rank' = rank /\ bank' = b
    BY <1>2 DEF Rebank
  <1>6. Cardinality(live) <= Cardinality(live) + 0
    BY <1>1
  <1> QED
    BY <1>1, <1>3, <1>4, <1>5, <1>6, ChangedSound

LEMMA ArriveKeeps ==
    ASSUME IInv, Arrive
    PROVE  IInv'
  <1>1. /\ "strict" \in ListKinds /\ "loose" \in ListKinds /\ "users" \in ListKinds
        /\ "answers" \in ExportKinds /\ "bank" \in ExportKinds
    BY DEF ListKinds, ExportKinds
  <1>2. \/ Ask("strict") \/ Ask("users") \/ Ask("loose")
        \/ handleSKProjectSelect \/ Export("answers") \/ Export("bank")
    BY DEF Arrive, Projects, Repos, Templates, Dashboards, ListByProject, systemRoles,
           handleSKProjectList, handleSKRepoList, handleSKTemplateList, handleSKAnswerList,
           handleSKUserList, handleSKPositionList, handleSKDictList, handleSKDictItemList,
           handleSKProjectTrash, handleSKAnswerTrash, handleSKProjectPartnerList,
           handleSKRepoPartnerList, handleSKUserBookList, ExportProjectAnswers, handleSKRepoExport
  <1> QED
    BY <1>1, <1>2, AskKeeps, handleSKProjectSelectKeeps, ExportKeeps

LEMMA NextKeeps ==
    ASSUME IInv, [Next]_vars
    PROVE  IInv'
  <1>1. CASE UNCHANGED vars
    BY <1>1 DEF vars, IInv, Sound, Covers, Counting, Ended, Asked, Rows
  <1>2. CASE Serve
    BY <1>2, ListRowsKeeps, CountRowsKeeps, ListUserRolesKeeps, ExportPageKeeps DEF Serve
  <1>3. CASE \E i \in Ids : Come(i) \/ Leave(i) \/ Move(i) \/ Rebank(i)
    BY <1>3, ComeKeeps, LeaveKeeps, MoveKeeps, RebankKeeps
  <1> QED
    BY <1>1, <1>2, <1>3, ArriveKeeps, FailKeeps, ReturnKeeps DEF Next

LEMMA InitSound ==
    ASSUME Init
    PROVE  IInv
  <1>1. Rows(live, rank) /\ bank \subseteq Ids
    <2>1. live \subseteq Ids /\ bank \subseteq Ids /\ rank \in [Ids -> Ranks]
      BY DEF Init
    <2>2. IsFiniteSet(Ids)
      BY ListingAssumption
    <2> QED
      BY <2>1, <2>2, Smaller DEF Rows
  <1>2. slot \in Slot /\ slot.pc = "idle" /\ slot.out = <<>>
    BY IdleSlot DEF Init, Idle
  <1> QED
    BY <1>1, <1>2 DEF IInv, Sound, Ended

-----------------------------------------------------------------------------
(***************************************************************************)
(* In every reachable state the request has read what its history says.    *)
(***************************************************************************)
THEOREM Invariant == Spec => []IInv
  BY InitSound, NextKeeps, PTL DEF Spec

(***************************************************************************)
(* The state has its type: no page is larger than maxPageSize, the clamp   *)
(* of Page.Normalize and pageSize, or than a page of an export.            *)
(***************************************************************************)
THEOREM TypeCorrect == Spec => []TypeOK
  <1>1. IInv => TypeOK
    BY DEF IInv, Sound, Rows, TypeOK
  <1> QED
    BY <1>1, Invariant, PTL

\* An export that has ended is past the end of the table.
LEMMA EndedPast ==
    ASSUME IInv, Exported
    PROVE  /\ slot \in Slot /\ Rows(live, rank) /\ Counting(live, rank, bank, slot)
           /\ Due = DueOf(bank, slot) /\ Due \subseteq live /\ IsFiniteSet(Due)
           /\ \A i \in Due : Pos(live, rank, i) < slot.off
           /\ \A i : Times(i) = CountOf(slot.out, i)
  <1>1. Ended(slot)
    BY DEF Exported, Ended, ExportKinds
  <1>2. /\ slot \in Slot /\ Rows(live, rank) /\ Counting(live, rank, bank, slot)
        /\ slot.off >= Cardinality(live)
    BY <1>1 DEF IInv, Sound
  <1>3. Due = DueOf(bank, slot) /\ Due \subseteq live
    BY <1>2 DEF Due, DueOf, Counting, PlacedIn
  <1>4. IsFiniteSet(live) /\ Cardinality(live) \in Nat /\ slot.off \in Nat
    BY <1>2, Ranked DEF Rows, Counting
  <1>5. IsFiniteSet(Due)
    BY <1>3, <1>4, Smaller
  <1>6. ASSUME NEW i \in Due PROVE Pos(live, rank, i) < slot.off
    <2>1. Pos(live, rank, i) \in Nat /\ Pos(live, rank, i) < Cardinality(live)
      BY <1>2, <1>3, PosType
    <2> QED
      BY <1>2, <1>4, <2>1
  <1> QED
    BY <1>2, <1>3, <1>5, <1>6 DEF Times, CountOf

(***************************************************************************)
(* However long the export is and whatever the others do to the table:     *)
(* each row that goes away while ExportProjectAnswers or                   *)
(* handleSKRepoExport runs keeps at most one other row out of the sheet.   *)
(***************************************************************************)
THEOREM Hiding == Spec => []EachRemovalHidesOne
  <1>1. ASSUME IInv, Exported
        PROVE  Cardinality({i \in Due : Times(i) = 0}) <= slot.gone
    <2>1. {i \in Due : Times(i) = 0} = Missed(DueOf(bank, slot), live, rank, slot.off, slot.out)
      BY <1>1, EndedPast DEF Missed
    <2>2. Cardinality(Missed(DueOf(bank, slot), live, rank, slot.off, slot.out)) <= slot.gone
      BY <1>1, EndedPast DEF Counting
    <2> QED
      BY <2>1, <2>2
  <1>2. IInv => EachRemovalHidesOne
    BY <1>1 DEF EachRemovalHidesOne
  <1> QED
    BY <1>2, Invariant, PTL

(***************************************************************************)
(* Each row that comes in while the export runs puts at most one other row *)
(* into the sheet once more.                                               *)
(***************************************************************************)
THEOREM Repeating == Spec => []EachArrivalRepeatsOne
  <1>1. ASSUME IInv, Exported
        PROVE  Cardinality({x \in Due \X (2..Len(slot.out)) : x[2] <= Times(x[1])}) <= slot.come
    <2>1. PICK A : A = Again(DueOf(bank, slot), live, rank, slot.off, slot.out)
      OBVIOUS
    <2>2. slot.out \in Seq(Ids) /\ slot.come \in Nat /\ Cardinality(A) <= slot.come /\ IsFiniteSet(Due)
      BY <1>1, <2>1, EndedPast DEF Counting, Slot
    <2>3. PICK n \in Nat : n = Len(slot.out)
      BY <2>2, LenProperties
    <2>4. ASSUME NEW x \in Due \X (2..n), x[2] <= Times(x[1])
          PROVE  x \in A
      <3>1. x[1] \in Due /\ x[2] \in 2..n /\ x = <<x[1], x[2]>>
        OBVIOUS
      <3>2. x \in Due \X (2..n + 1)
        BY <3>1
      <3>3. x[2] <= CountOf(slot.out, x[1]) /\ Pos(live, rank, x[1]) < slot.off /\ Due = DueOf(bank, slot)
        BY <1>1, <2>4, <3>1, EndedPast
      <3>4. CountOf(slot.out, x[1]) \in Nat
        BY <2>2, CountBound
      <3> QED
        BY <2>1, <2>3, <3>2, <3>3, <3>4 DEF Again
    <2>5. IsFiniteSet(A)
      BY <1>1, <2>1, <2>2, EndedPast, FiniteCounts
    <2>6. {x \in Due \X (2..Len(slot.out)) : x[2] <= Times(x[1])} \subseteq A
      BY <2>3, <2>4
    <2> QED
      BY <2>2, <2>5, <2>6, Smaller
  <1>2. IInv => EachArrivalRepeatsOne
    BY <1>1 DEF EachArrivalRepeatsOne
  <1> QED
    BY <1>2, Invariant, PTL

(***************************************************************************)
(* A list that says how many rows there are covers its own page, but for   *)
(* rows removed between its two statements.                                *)
(***************************************************************************)
THEOREM Covering == Spec => []TotalCoversPage
  <1>1. IInv => TotalCoversPage
    BY DEF IInv, Sound, Covers, TotalCoversPage, ListKinds
  <1> QED
    BY <1>1, Invariant, PTL

\* out is the page of lim rows that follows the first off.
PageFrom(out, off, lim) ==
    /\ Len(out) <= lim
    /\ Len(out) < lim => off + Len(out) >= Cardinality(live)
    /\ \A n \in DOMAIN out :
           off + n \in Cardinality({j \in live : rank[j] < rank[out[n]]}) + 1
                       .. Cardinality({j \in live : rank[j] <= rank[out[n]]})

\* What the statement of a page returns.
LEMMA PageOf ==
    ASSUME Rows(live, rank), NEW o \in Orders, NEW off \in Nat, NEW lim \in Nat, NEW out, out = Cut(o, off, lim)
    PROVE  PageFrom(out, off, lim)
  <1>1. o \in Seq(live) /\ Len(o) = Cardinality(live) /\ Cardinality(live) \in Nat
    BY Ordered
  <1>2. /\ out \in Seq(live) /\ Len(out) <= lim
        /\ Len(out) < lim => off + Len(out) >= Len(o)
        /\ \A n \in 1..Len(out) : off + n \in 1..Len(o) /\ out[n] = o[off + n]
    BY <1>1, CutParts
  <1>3. ASSUME NEW n \in DOMAIN out
        PROVE  off + n \in Cardinality({j \in live : rank[j] < rank[out[n]]}) + 1
                           .. Cardinality({j \in live : rank[j] <= rank[out[n]]})
    <2>1. n \in 1..Len(out) /\ Len(out) \in Nat
      BY <1>2, LenProperties
    <2>2. PICK p \in 1..Cardinality(live) : p = off + n /\ out[n] = o[p]
      BY <1>1, <1>2, <2>1
    <2>3. /\ Cardinality({j \in live : rank[j] < rank[o[p]]}) \in Nat
          /\ Cardinality({j \in live : rank[j] < rank[o[p]]}) <= p - 1
          /\ Cardinality({j \in live : rank[j] <= rank[o[p]]}) \in Nat
          /\ p <= Cardinality({j \in live : rank[j] <= rank[o[p]]})
      BY AroundPlace DEF Pos, Before
    <2>4. p \in Cardinality({j \in live : rank[j] < rank[o[p]]}) + 1
                .. Cardinality({j \in live : rank[j] <= rank[o[p]]})
      BY <1>1, <2>3
    <2> QED
      BY <2>2, <2>4
  <1> QED
    BY <1>1, <1>2, <1>3 DEF PageFrom

\* The offset is the one that was asked for unless it wrapped.
LEMMA OffsetKept ==
    ASSUME IInv, slot.pc = "rows", (slot.page - 1) * slot.lim < Half
    PROVE  slot.off \in Nat /\ slot.lim \in Nat /\ slot.off = (slot.page - 1) * slot.lim
  <1>1. slot \in Slot /\ Asked(slot)
    BY DEF IInv, Sound
  <1>2. PICK page, lim : page = slot.page /\ lim = slot.lim
    OBVIOUS
  <1>3. page - 1 \in Nat /\ lim \in Nat
    BY <1>1, <1>2, ListingAssumption DEF Slot, Asked
  <1>4. PICK skip : skip = (page - 1) * lim
    OBVIOUS
  <1>5. skip \in Nat /\ skip < Half
    <2>1. \A a, b \in Nat : a * b \in Nat
      OBVIOUS
    <2> QED
      BY <1>2, <1>3, <1>4, <2>1
  <1>6. slot.off = skip
    BY <1>1, <1>2, <1>4, <1>5, Int32Fits DEF Asked, Offset
  <1> QED
    BY <1>2, <1>3, <1>4, <1>5, <1>6

\* Only ListRows takes a request from its rows to an answer that is no error.
LEMMA RowsLeft ==
    ASSUME slot \in Slot, [Next]_vars, slot.pc = "rows", slot'.pc \in {"count", "done"}, ~slot'.error
    PROVE  ListRows
  <1>1. ~UNCHANGED vars
    BY DEF vars
  <1>2. ~Arrive /\ ~Return
    BY DEF Arrive, Projects, Repos, Templates, Dashboards, ListByProject, systemRoles,
           handleSKProjectList, handleSKRepoList, handleSKTemplateList, handleSKAnswerList,
           handleSKUserList, handleSKPositionList, handleSKDictList, handleSKDictItemList,
           handleSKProjectTrash, handleSKAnswerTrash, handleSKProjectPartnerList,
           handleSKRepoPartnerList, handleSKUserBookList, handleSKProjectSelect,
           ExportProjectAnswers, handleSKRepoExport, Ask, Export, Return
  <1>3. ~CountRows /\ ~ListUserRoles /\ ~ExportPage
    BY DEF CountRows, ListUserRoles, ExportPage
  <1>4. ~Fail
    <2>1. slot' # [slot EXCEPT !.pc = "done", !.error = TRUE]
      BY DEF Slot
    <2> QED
      BY <2>1 DEF Fail
  <1>5. ASSUME NEW g, NEW c, NEW lost, Note(g, c, lost)
        PROVE  FALSE
    BY <1>5 DEF Note, Slot
  <1>6. ASSUME NEW i \in Ids
        PROVE  ~Come(i) /\ ~Leave(i) /\ ~Move(i) /\ ~Rebank(i)
    BY <1>5 DEF Come, Leave, Move, Rebank
  <1> QED
    BY <1>1, <1>2, <1>3, <1>4, <1>6 DEF Next, Serve

(***************************************************************************)
(* For every page, size and table: as long as the offset fits an int32,    *)
(* the rows served are those of the page that the client asked for.        *)
(***************************************************************************)
THEOREM PageServed == Spec => PageAskedIsPageServed
  <1> DEFINE skip == (slot.page - 1) * slot.lim
  <1>1. ASSUME IInv, [Next]_vars, slot.pc = "rows", slot'.pc \in {"count", "done"}, ~slot'.error, skip < Half
        PROVE  PageFrom(slot'.out, skip, slot.lim)
    <2>1. slot \in Slot
      BY <1>1 DEF IInv, Sound
    <2>2. ListRows
      BY <1>1, <2>1, RowsLeft
    <2>3. slot' # [slot EXCEPT !.pc = "done", !.error = TRUE]
      BY <1>1, <2>1 DEF Slot
    <2>4. PICK o \in Orders :
              slot' = [slot EXCEPT !.pc = IF slot.kind = "picker" THEN "done" ELSE "count",
                                   !.out = Cut(o, slot.off, slot.lim),
                                   !.gone = 0, !.come = 0, !.still = Placed]
      BY <2>2, <2>3 DEF ListRows
    <2>5. slot'.out = Cut(o, slot.off, slot.lim)
      BY <2>1, <2>4 DEF Slot
    <2>6. slot.off \in Nat /\ slot.lim \in Nat /\ slot.off = skip /\ Rows(live, rank)
      BY <1>1, OffsetKept DEF IInv, Sound
    <2> HIDE DEF skip
    <2> QED
      BY <2>5, <2>6, PageOf
  <1>2. IInv /\ [Next]_vars =>
            (slot.pc = "rows" /\ slot'.pc \in {"count", "done"} /\ ~slot'.error /\ skip < Half
                 => PageFrom(slot'.out, skip, slot.lim))
    BY <1>1
  <1> QED
    BY <1>2, Invariant, PTL DEF Spec, PageAskedIsPageServed, PageFrom
=============================================================================
