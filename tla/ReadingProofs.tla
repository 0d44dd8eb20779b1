---------------------------- MODULE ReadingProofs ----------------------------
(***************************************************************************)
(* Theorems about Reading for any users, conversations, messages, page     *)
(* sizes and number of writes: the types, that the endpoints agree with    *)
(* one another, and that a client that fetches page after page misses      *)
(* nothing.                                                                *)
(***************************************************************************)
EXTENDS Reading, FiniteSetTheorems, SequenceTheorems, TLAPS

-----------------------------------------------------------------------------
(* The invariants.                                                         *)

\* Later messages of a conversation have higher local ids.
Ascending ==
  \A i, j \in DOMAIN rows : i < j /\ rows[i].chat = rows[j].chat => rows[i].lid < rows[j].lid

\* last_message_id and the read marks are local ids that there are, or 0.
There(c, l) == l # 0 => \E i \in In(c) : rows[i].lid = l
Pointers == \A c \in Chat : There(c, last[c]) /\ \A u \in User : There(c, read[c][u])

\* When I am away, the last message about it says how I went.
Departed(c) ==
  IF mine[c].in THEN mine[c].gone = "in"
  ELSE /\ c \in Group
       /\ \E i \in In(c) :
            /\ rows[i].kicks /\ \A j \in In(c) : rows[j].kicks => rows[j].lid <= rows[i].lid
            /\ mine[c].gone = IF rows[i].from = Me THEN "left" ELSE "kicked"

StoreInv ==
  /\ Ascending /\ Pointers
  /\ \A c \in Chat : IsFiniteSet(periods[c]) /\ Departed(c)

\* The client has it already, or it lies where the client has not been: below
\* start_cmid, or behind at least as many items as the offset says.
Got(x) == \E j \in DOMAIN pager.got : pager.got[j] = x
Ahead(x) ==
  IF pager.client = "list" THEN {d \in Sorted : Rank(d) > Rank(x)}
  ELSE {m \in Messages(pager.chat) : m > x}
ToCome(x) ==
  IF pager.client = "scroll" THEN x <= pager.at
  ELSE pager.lost \/ Cardinality(Ahead(x)) >= pager.at

Fetching ==
  pager.begun /\ ~pager.done =>
    /\ pager.steady \subseteq (IF pager.client = "list" THEN Sorted ELSE Messages(pager.chat))
    /\ \A x \in pager.steady : Got(x) \/ ToCome(x)
    /\ pager.client = "scroll" => pager.at > 0

\* What is scrolled through lies above start_cmid, the newer first.
Descending ==
  pager.client = "scroll" =>
    /\ \A j \in DOMAIN pager.got : pager.got[j] \in Nat /\ pager.got[j] > pager.at
    /\ \A j, k \in DOMAIN pager.got : j < k => pager.got[j] > pager.got[k]

PagerInv ==
  /\ ~pager.begun => pager.at = 0 /\ pager.got = << >> /\ ~pager.done
  /\ Fetching /\ Descending
  /\ pager.done => \A x \in pager.steady :
       \/ Got(x)
       \/ pager.client # "scroll" /\ pager.lost

-----------------------------------------------------------------------------
(* Lemmas: numbers, and sequences in their order.                          *)

\* A set of naturals has a least element.
LEMMA LeastNatural ==
  ASSUME NEW S \in SUBSET Nat, S # {}
  PROVE  \E m \in S : \A n \in S : m <= n
<1> DEFINE Less == OpToRel(<, Nat)
<1>1. IsWellFoundedOn(Less, Nat)
  BY NatLessThanWellFounded
<1>2. \A n, m \in Nat : n < m => <<n, m>> \in Less
  BY DEF OpToRel
<1> HIDE DEF Less
<1>3. PICK m \in S : \A n \in S : ~ (<<n, m>> \in Less)
  BY <1>1, WFMin
<1>4. \A n \in S : ~ (n < m)
  BY <1>2, <1>3, Zenon
<1> QED
  BY <1>4

\* If some natural has a property that 0 lacks, there is a step to it.
LEMMA FirstStep ==
  ASSUME NEW S \in SUBSET Nat, S # {}, 0 \notin S
  PROVE  \E n \in Nat : n \notin S /\ n + 1 \in S
<1>1. PICK m \in S : \A n \in S : m <= n
  BY LeastNatural
<1>2. m - 1 \in Nat /\ m - 1 \notin S /\ (m - 1) + 1 = m
  BY <1>1
<1> QED
  BY <1>1, <1>2

\* Finitely many numbers are bounded.
LEMMA FiniteIsBounded ==
  ASSUME NEW S \in SUBSET Nat, IsFiniteSet(S)
  PROVE  \E b \in Nat : \A n \in S : n <= b
<1>1. PICK s \in Seq(S) : \A e \in S : \E i \in 1 .. Len(s) : s[i] = e
  BY DEF IsFiniteSet
<1> DEFINE Upto(n) == \E b \in Nat : \A i \in 1 .. n : i <= Len(s) => s[i] <= b
           Bad == {n \in Nat : ~ Upto(n)}
<1>2. Len(s) \in Nat /\ \A i \in 1 .. Len(s) : s[i] \in Nat
  <2>1. Len(s) \in Nat /\ \A i \in 1 .. Len(s) : s[i] \in S
    OBVIOUS
  <2> QED
    BY <2>1
<1>3. Upto(0)
  OBVIOUS
<1>4. ASSUME NEW n \in Nat, Upto(n) PROVE Upto(n + 1)
  <2>1. PICK b \in Nat : \A i \in 1 .. n : i <= Len(s) => s[i] <= b
    BY <1>4
  <2>2. CASE n + 1 <= Len(s)
    <3>1. s[n + 1] \in Nat
      BY <1>2, <2>2
    <3>2. b + s[n + 1] \in Nat /\ b <= b + s[n + 1] /\ s[n + 1] <= b + s[n + 1]
      BY <3>1
    <3>3. ASSUME NEW i \in 1 .. (n + 1), i <= Len(s) PROVE s[i] <= b + s[n + 1]
      <4>1. s[i] \in Nat
        BY <1>2, <3>3
      <4>2. CASE i = n + 1
        BY <3>2, <4>2
      <4>3. CASE i # n + 1
        <5>1. s[i] <= b
          BY <2>1, <3>3, <4>3
        <5> QED
          BY <3>1, <4>1, <5>1
      <4> QED BY <4>2, <4>3
    <3> QED
      BY <3>2, <3>3
  <2>3. CASE ~ (n + 1 <= Len(s))
    <3>1. \A i \in 1 .. (n + 1) : i <= Len(s) => s[i] <= b
      BY <1>2, <2>1, <2>3
    <3> QED
      BY <3>1
  <2> QED BY <2>2, <2>3
<1> HIDE DEF Upto
<1>5. Bad = {}
  <2> SUFFICES ASSUME Bad # {} PROVE FALSE
    OBVIOUS
  <2>1. Bad \in SUBSET Nat /\ 0 \notin Bad
    BY <1>3
  <2>2. PICK n \in Nat : n \notin Bad /\ n + 1 \in Bad
    BY <2>1, FirstStep
  <2> QED
    BY <1>4, <2>2
<1>6. PICK b \in Nat : \A i \in 1 .. Len(s) : i <= Len(s) => s[i] <= b
  <2>1. Upto(Len(s))
    BY <1>2, <1>5
  <2> QED
    BY <2>1 DEF Upto
<1>7. ASSUME NEW e \in S PROVE e <= b
  <2>1. PICK i \in 1 .. Len(s) : s[i] = e
    BY <1>1
  <2>2. i <= Len(s)
    BY <1>2
  <2> QED
    BY <1>6, <2>1, <2>2
<1> QED
  BY <1>7

LEMMA HighestFacts ==
  ASSUME NEW S \in SUBSET Nat, IsFiniteSet(S)
  PROVE  /\ Highest(S) \in Nat
         /\ S = {} => Highest(S) = 0
         /\ S # {} => Highest(S) \in S
         /\ \A n \in S : n <= Highest(S)
<1>1. CASE S = {}
  BY <1>1 DEF Highest
<1>2. CASE S # {}
  <2>1. PICK b \in Nat : \A n \in S : n <= b
    BY FiniteIsBounded
  <2> DEFINE Gaps == {b - n : n \in S}
  <2>2. Gaps \in SUBSET Nat /\ Gaps # {}
    BY <1>2, <2>1
  <2>3. PICK g \in Gaps : \A h \in Gaps : g <= h
    BY <2>2, LeastNatural
  <2>4. PICK top \in S : g = b - top
    OBVIOUS
  <2>5. \A n \in S : n <= top
    <3> SUFFICES ASSUME NEW n \in S PROVE n <= top
      OBVIOUS
    <3>1. b - top <= b - n
      BY <2>3, <2>4
    <3> QED
      BY <3>1
  <2>6. Highest(S) \in S /\ \A n \in S : n <= Highest(S)
    BY <1>2, <2>5 DEF Highest
  <2> QED
    BY <1>2, <2>6
<1> QED
  BY <1>1, <1>2

LEMMA LowestFacts ==
  ASSUME NEW S \in SUBSET Nat, S # {}
  PROVE  Lowest(S) \in S /\ \A n \in S : Lowest(S) <= n
  BY LeastNatural DEF Lowest

\* Of a set whose elements have different ranks up to their number, each rank
\* belongs to one.
LEMMA RanksAreTaken ==
  ASSUME NEW S, IsFiniteSet(S), NEW r \in [S -> 1 .. Cardinality(S)],
         \A x, y \in S : r[x] = r[y] => x = y
  PROVE  \A n \in 1 .. Cardinality(S) : \E x \in S : r[x] = n
<1>1. Cardinality(S) \in Nat
  BY FS_CardinalityType
<1>2. IsFiniteSet(1 .. Cardinality(S)) /\ Cardinality(1 .. Cardinality(S)) = Cardinality(S)
  BY <1>1, FS_Interval
<1>3. r \in Injection(S, 1 .. Cardinality(S))
  BY DEF Injection, IsInjective
<1>4. r \in Surjection(S, 1 .. Cardinality(S))
  BY <1>2, <1>3, FS_Injection
<1> QED
  BY <1>4 DEF Surjection

\* Where an element stands in ascending and in descending order
Below(S, l) == Cardinality({m \in S : m <= l})
Above(S, l) == Cardinality({m \in S : m >= l})

LEMMA PlacesFacts ==
  ASSUME NEW S \in SUBSET Nat, IsFiniteSet(S), NEW l \in S
  PROVE  /\ Below(S, l) \in 1 .. Cardinality(S) /\ Above(S, l) \in 1 .. Cardinality(S)
         /\ \A m \in S : m < l => Below(S, m) < Below(S, l) /\ Above(S, l) < Above(S, m)
<1> DEFINE B(x) == {m \in S : m <= x}
           A(x) == {m \in S : m >= x}
<1>1. Cardinality(S) \in Nat
  BY FS_CardinalityType
<1>2. \A x \in S : /\ IsFiniteSet(B(x)) /\ IsFiniteSet(A(x))
                   /\ Cardinality(B(x)) \in Nat /\ Cardinality(A(x)) \in Nat
                   /\ Cardinality(B(x)) <= Cardinality(S) /\ Cardinality(A(x)) <= Cardinality(S)
  <2> SUFFICES ASSUME NEW x \in S
               PROVE  /\ IsFiniteSet(B(x)) /\ IsFiniteSet(A(x))
                      /\ Cardinality(B(x)) \in Nat /\ Cardinality(A(x)) \in Nat
                      /\ Cardinality(B(x)) <= Cardinality(S) /\ Cardinality(A(x)) <= Cardinality(S)
    OBVIOUS
  <2>1. B(x) \in SUBSET S /\ A(x) \in SUBSET S
    OBVIOUS
  <2> HIDE DEF A, B
  <2>2. /\ IsFiniteSet(B(x)) /\ IsFiniteSet(A(x))
        /\ Cardinality(B(x)) <= Cardinality(S) /\ Cardinality(A(x)) <= Cardinality(S)
    BY <2>1, FS_Subset
  <2> QED
    BY <2>2, FS_CardinalityType
<1>3. Cardinality(B(l)) # 0 /\ Cardinality(A(l)) # 0
  <2>1. B(l) # {} /\ A(l) # {}
    OBVIOUS
  <2>2. IsFiniteSet(B(l)) /\ IsFiniteSet(A(l))
    BY <1>2
  <2> HIDE DEF A, B
  <2> QED
    BY <2>1, <2>2, FS_EmptySet
<1>4. ASSUME NEW m \in S, m < l
      PROVE  Cardinality(B(m)) < Cardinality(B(l)) /\ Cardinality(A(l)) < Cardinality(A(m))
  <2>1. /\ B(m) \in SUBSET B(l) /\ B(l) # B(m)
        /\ A(l) \in SUBSET A(m) /\ A(l) # A(m)
    <3>1. B(m) \in SUBSET B(l) /\ A(l) \in SUBSET A(m)
      <4>1. \A x \in S : (x <= m => x <= l) /\ (x >= l => x >= m)
        BY <1>4
      <4> QED
        BY <4>1
    <3>2. l \in B(l) /\ l \notin B(m) /\ m \in A(m) /\ m \notin A(l)
      BY <1>4
    <3> QED
      BY <3>1, <3>2
  <2>2. IsFiniteSet(B(l)) /\ IsFiniteSet(A(m))
    BY <1>2
  <2>3. /\ Cardinality(B(m)) <= Cardinality(B(l)) /\ Cardinality(B(l)) # Cardinality(B(m))
        /\ Cardinality(A(l)) <= Cardinality(A(m)) /\ Cardinality(A(m)) # Cardinality(A(l))
    <3> HIDE DEF A, B
    <3> QED
      BY <2>1, <2>2, FS_Subset
  <2>4. /\ Cardinality(B(m)) \in Nat /\ Cardinality(B(l)) \in Nat
        /\ Cardinality(A(m)) \in Nat /\ Cardinality(A(l)) \in Nat
    BY <1>2
  <2> HIDE DEF A, B
  <2> QED
    BY <2>3, <2>4
<1> HIDE DEF A, B
<1>5. /\ Cardinality(B(l)) \in 1 .. Cardinality(S) /\ Cardinality(A(l)) \in 1 .. Cardinality(S)
      /\ \A m \in S : m < l => Cardinality(B(m)) < Cardinality(B(l)) /\ Cardinality(A(l)) < Cardinality(A(m))
  BY <1>1, <1>2, <1>3, <1>4
<1> QED
  BY <1>5 DEF A, B, Above, Below

\* Up and Down deliver the elements in their order.
LEMMA OrderFacts ==
  ASSUME NEW S \in SUBSET Nat, IsFiniteSet(S)
  PROVE  /\ Cardinality(S) \in Nat
         /\ Up(S) \in Seq(S) /\ Len(Up(S)) = Cardinality(S)
         /\ Down(S) \in Seq(S) /\ Len(Down(S)) = Cardinality(S)
         /\ \A n \in 1 .. Cardinality(S) : Below(S, Up(S)[n]) = n /\ Above(S, Down(S)[n]) = n
         /\ \A l \in S : Up(S)[Below(S, l)] = l /\ Down(S)[Above(S, l)] = l
<1> DEFINE C == Cardinality(S)
           b == [l \in S |-> Below(S, l)]
           a == [l \in S |-> Above(S, l)]
<1>1. C \in Nat
  BY FS_CardinalityType
<1>2. b \in [S -> 1 .. C] /\ a \in [S -> 1 .. C]
  BY PlacesFacts
<1>3. \A x, y \in S : (Below(S, x) = Below(S, y) \/ Above(S, x) = Above(S, y)) => x = y
  <2> SUFFICES ASSUME NEW x \in S, NEW y \in S, x # y
               PROVE  Below(S, x) # Below(S, y) /\ Above(S, x) # Above(S, y)
    OBVIOUS
  <2>1. /\ Below(S, x) \in Nat /\ Below(S, y) \in Nat /\ Above(S, x) \in Nat /\ Above(S, y) \in Nat
    BY <1>1, PlacesFacts
  <2>2. x < y \/ y < x
    OBVIOUS
  <2>3. /\ x < y => Below(S, x) < Below(S, y) /\ Above(S, y) < Above(S, x)
        /\ y < x => Below(S, y) < Below(S, x) /\ Above(S, x) < Above(S, y)
    BY PlacesFacts
  <2> QED
    BY <2>1, <2>2, <2>3
<1>4. \A n \in 1 .. C : (\E x \in S : Below(S, x) = n) /\ (\E x \in S : Above(S, x) = n)
  <2>1. (\A x, y \in S : b[x] = b[y] => x = y) /\ (\A x, y \in S : a[x] = a[y] => x = y)
    BY <1>3
  <2>2. \A n \in 1 .. C : (\E x \in S : b[x] = n) /\ (\E x \in S : a[x] = n)
    <3> HIDE DEF a, b
    <3>1. \A n \in 1 .. C : \E x \in S : b[x] = n
      BY <1>2, <2>1, RanksAreTaken
    <3>2. \A n \in 1 .. C : \E x \in S : a[x] = n
      BY <1>2, <2>1, RanksAreTaken
    <3> QED
      BY <3>1, <3>2
  <2> QED
    BY <2>2
<1>5. Up(S) = [n \in 1 .. C |-> CHOOSE l \in S : Below(S, l) = n]
  BY DEF Up, Below
<1>6. Down(S) = [n \in 1 .. C |-> CHOOSE l \in S : Above(S, l) = n]
  BY DEF Down, Above
<1>7. ASSUME NEW n \in 1 .. C
      PROVE  Up(S)[n] \in S /\ Below(S, Up(S)[n]) = n /\ Down(S)[n] \in S /\ Above(S, Down(S)[n]) = n
  BY <1>4, <1>5, <1>6
<1>8. Up(S) \in [1 .. C -> S] /\ Down(S) \in [1 .. C -> S]
  BY <1>5, <1>6, <1>7
<1>9. ASSUME NEW l \in S PROVE Up(S)[Below(S, l)] = l /\ Down(S)[Above(S, l)] = l
  <2>1. Below(S, l) \in 1 .. C /\ Above(S, l) \in 1 .. C
    BY PlacesFacts
  <2> QED
    BY <1>3, <1>7, <2>1
<1> HIDE DEF C
<1>10. /\ Up(S) \in Seq(S) /\ Len(Up(S)) = C /\ Down(S) \in Seq(S) /\ Len(Down(S)) = C
  BY <1>1, <1>8
<1> QED
  BY <1>1, <1>7, <1>9, <1>10 DEF C

\* A page of a sequence
LEMMA SliceFacts ==
  ASSUME NEW S, NEW s \in Seq(S), NEW offset \in Nat, NEW count \in Nat, count > 0
  PROVE  LET p == Slice(s, offset, count) IN
         /\ p \in Seq(S) /\ Len(p) \in 0 .. count /\ DOMAIN p = 1 .. Len(p)
         /\ offset + Len(p) <= Len(s) \/ Len(p) = 0
         /\ Len(p) < count => offset + Len(p) >= Len(s)
         /\ \A i \in 1 .. Len(p) : p[i] = s[offset + i]
<1> DEFINE last_ == IF offset + count > Len(s) THEN Len(s) ELSE offset + count
           p == Slice(s, offset, count)
<1>1. Len(s) \in Nat /\ last_ \in Nat /\ \A i \in 1 .. Len(s) : s[i] \in S
  OBVIOUS
<1>2. p = SubSeq(s, offset + 1, last_)
  BY DEF Slice
<1>3. \A i \in (offset + 1) .. last_ : s[i] \in S
  BY <1>1
<1>4. /\ SubSeq(s, offset + 1, last_) \in Seq(S)
      /\ Len(SubSeq(s, offset + 1, last_)) = IF offset + 1 <= last_ THEN last_ - (offset + 1) + 1 ELSE 0
      /\ \A i \in 1 .. last_ - (offset + 1) + 1 : SubSeq(s, offset + 1, last_)[i] = s[(offset + 1) + i - 1]
  <2>1. PICK m \in Int, n \in Int : m = offset + 1 /\ n = last_
    BY <1>1
  <2>2. \A i \in m .. n : s[i] \in S
    BY <1>3, <2>1
  <2>3. /\ SubSeq(s, m, n) \in Seq(S)
        /\ Len(SubSeq(s, m, n)) = IF m <= n THEN n - m + 1 ELSE 0
        /\ \A i \in 1 .. n - m + 1 : SubSeq(s, m, n)[i] = s[m + i - 1]
    BY <2>2, SubSeqProperties
  <2> HIDE DEF last_
  <2> QED
    BY <2>1, <2>3
<1> HIDE DEF p
<1>5. /\ p \in Seq(S) /\ DOMAIN p = 1 .. Len(p)
      /\ Len(p) = IF offset + 1 <= last_ THEN last_ - offset ELSE 0
      /\ \A i \in 1 .. last_ - offset : p[i] = s[offset + i]
  <2>1. PICK e \in Nat : e = last_
    BY <1>1
  <2> HIDE DEF last_
  <2>2. PICK q : q = SubSeq(s, offset + 1, e)
    OBVIOUS
  <2>3. /\ q \in Seq(S)
        /\ Len(q) = IF offset + 1 <= e THEN e - (offset + 1) + 1 ELSE 0
        /\ \A i \in 1 .. e - (offset + 1) + 1 : q[i] = s[(offset + 1) + i - 1]
    BY <1>4, <2>1, <2>2
  <2>4. /\ e - (offset + 1) + 1 = e - offset
        /\ \A i \in 1 .. e - offset : (offset + 1) + i - 1 = offset + i
    BY <2>1
  <2>5. /\ Len(q) = IF offset + 1 <= e THEN e - offset ELSE 0
        /\ \A i \in 1 .. e - offset : q[i] = s[offset + i]
    BY <2>3, <2>4
  <2>6. DOMAIN q = 1 .. Len(q)
    BY <2>3
  <2> QED
    BY <1>2, <2>1, <2>2, <2>3, <2>5, <2>6
<1> QED
  BY <1>1, <1>5 DEF p

-----------------------------------------------------------------------------
(* Lemmas: messages and their local ids.                                   *)

LEMMA LidsOf ==
  ASSUME NEW s \in Seq(Row), NEW I \in SUBSET DOMAIN s
  PROVE  LET L == {s[i].lid : i \in I} IN
         /\ IsFiniteSet(I) /\ IsFiniteSet(L) /\ L \in SUBSET (Nat \ {0})
         /\ Highest(L) \in Nat
         /\ I = {} => Highest(L) = 0
         /\ I # {} => Highest(L) > 0 /\ \E i \in I : s[i].lid = Highest(L)
         /\ \A i \in I : s[i].lid <= Highest(L)
<1> DEFINE L == {s[i].lid : i \in I}
           f == [i \in I |-> s[i].lid]
<1>1. Len(s) \in Nat /\ DOMAIN s = 1 .. Len(s) /\ \A i \in DOMAIN s : s[i] \in Row
  OBVIOUS
<1>2. IsFiniteSet(I)
  <2>1. IsFiniteSet(DOMAIN s)
    BY <1>1, FS_Interval
  <2> QED
    BY <2>1, FS_Subset
<1>3. L \in SUBSET (Nat \ {0})
  <2>1. \A i \in I : s[i].lid \in Nat \ {0}
    BY <1>1 DEF Row
  <2> QED
    BY <2>1
<1>4. f \in Surjection(I, L)
  BY DEF Surjection
<1>5. IsFiniteSet(L)
  <2> HIDE DEF f, L
  <2> QED
    BY <1>2, <1>4, FS_Surjection
<1>6. /\ Highest(L) \in Nat
      /\ L = {} => Highest(L) = 0
      /\ L # {} => Highest(L) \in L
      /\ \A n \in L : n <= Highest(L)
  <2> HIDE DEF L
  <2> QED
    BY <1>3, <1>5, HighestFacts
<1>7. I = {} <=> L = {}
  OBVIOUS
<1>8. I # {} => Highest(L) > 0 /\ \E i \in I : s[i].lid = Highest(L)
  <2> SUFFICES ASSUME I # {} PROVE Highest(L) > 0 /\ \E i \in I : s[i].lid = Highest(L)
    OBVIOUS
  <2>1. Highest(L) \in L
    BY <1>6, <1>7
  <2>2. PICK i \in I : s[i].lid = Highest(L)
    BY <2>1
  <2> HIDE DEF L
  <2>3. Highest(L) \in Nat \ {0}
    BY <1>3, <2>1
  <2> QED
    BY <2>2, <2>3
<1>9. \A i \in I : s[i].lid <= Highest(L)
  <2>1. \A i \in I : s[i].lid \in L
    OBVIOUS
  <2> HIDE DEF L
  <2> QED
    BY <1>6, <2>1
<1>10. I = {} => Highest(L) = 0
  <2> HIDE DEF L
  <2> QED
    BY <1>6, <1>7
<1> HIDE DEF L
<1>11. /\ IsFiniteSet(I) /\ IsFiniteSet(L) /\ L \in SUBSET (Nat \ {0}) /\ Highest(L) \in Nat
       /\ I = {} => Highest(L) = 0
       /\ I # {} => Highest(L) > 0 /\ \E i \in I : s[i].lid = Highest(L)
       /\ \A i \in I : s[i].lid <= Highest(L)
  BY <1>2, <1>3, <1>5, <1>6, <1>8, <1>9, <1>10
<1> QED
  BY <1>11 DEF L

LEMMA RowsTyped ==
  ASSUME TypeOK
  PROVE  /\ rows \in Seq(Row) /\ Len(rows) \in Nat /\ DOMAIN rows = 1 .. Len(rows)
         /\ IsFiniteSet(DOMAIN rows)
         /\ \A i \in DOMAIN rows :
              /\ rows[i] \in Row /\ rows[i].chat \in Chat /\ rows[i].lid \in Nat /\ rows[i].lid > 0
              /\ rows[i].from \in User /\ rows[i].kicks \in BOOLEAN /\ rows[i].deleted \in BOOLEAN
<1>1. rows \in Seq(Row) /\ Len(rows) \in Nat /\ DOMAIN rows = 1 .. Len(rows)
  BY DEF TypeOK
<1>2. \A i \in DOMAIN rows : rows[i] \in Row
  BY <1>1
<1>3. IsFiniteSet(DOMAIN rows)
  BY <1>1, FS_Interval
<1> QED
  BY <1>1, <1>2, <1>3 DEF Row

LEMMA LidsFacts ==
  ASSUME TypeOK, NEW I \in SUBSET DOMAIN rows
  PROVE  /\ IsFiniteSet(I) /\ IsFiniteSet(Lids(I)) /\ Lids(I) \in SUBSET (Nat \ {0})
         /\ Highest(Lids(I)) \in Nat
         /\ I = {} => Highest(Lids(I)) = 0
         /\ I # {} => Highest(Lids(I)) > 0 /\ \E i \in I : rows[i].lid = Highest(Lids(I))
         /\ \A i \in I : rows[i].lid <= Highest(Lids(I))
<1>1. rows \in Seq(Row)
  BY DEF TypeOK
<1> QED
  BY <1>1, LidsOf DEF Lids

LEMMA InFacts ==
  ASSUME TypeOK, NEW c
  PROVE  /\ In(c) \in SUBSET DOMAIN rows /\ Undeleted(c) \in SUBSET DOMAIN rows
         /\ Shown(c) \in SUBSET DOMAIN rows /\ Shown(c) \in SUBSET Undeleted(c)
  BY DEF In, Undeleted, Shown, Visible

LEMMA NextLidFacts ==
  ASSUME TypeOK, NEW c \in Chat
  PROVE  /\ NextLid(c) \in Nat \ {0} /\ NextLid(c) > last[c]
         /\ \A i \in In(c) : rows[i].lid < NextLid(c)
<1> DEFINE S == Lids(In(c)) \cup {last[c]}
<1>1. last[c] \in Nat
  BY DEF TypeOK
<1>2. S \in SUBSET Nat /\ IsFiniteSet(S)
  <2>1. In(c) \in SUBSET DOMAIN rows
    BY InFacts
  <2>2. IsFiniteSet(Lids(In(c))) /\ Lids(In(c)) \in SUBSET (Nat \ {0})
    BY <2>1, LidsFacts
  <2> QED
    BY <1>1, <2>2, FS_AddElement
<1>3. last[c] \in S /\ \A i \in In(c) : rows[i].lid \in S
  BY DEF Lids
<1>4. NextLid(c) = Highest(S) + 1
  BY DEF NextLid
<1> HIDE DEF S
<1>5. Highest(S) \in Nat /\ \A n \in S : n <= Highest(S)
  BY <1>2, HighestFacts
<1>6. \A n \in S : n \in Nat
  BY <1>2
<1> QED
  BY <1>3, <1>4, <1>5, <1>6

-----------------------------------------------------------------------------
(* Types.                                                                  *)

StoreTyped ==
  /\ rows \in Seq(Row) /\ last \in [Chat -> Nat] /\ mine \in [Chat -> Mine]
  /\ periods \in [Chat -> SUBSET Period]
  /\ hidden \in [Chat -> SUBSET Nat] /\ read \in [Chat -> [User -> Nat]]

LEMMA SetMarkType ==
  ASSUME NEW f \in [Chat -> [User -> Nat]], NEW c \in Chat, NEW u \in User, NEW n \in Nat
  PROVE  /\ [f EXCEPT ![c][u] = n] \in [Chat -> [User -> Nat]]
         /\ \A d \in Chat, w \in User :
              [f EXCEPT ![c][u] = n][d][w] = IF d = c /\ w = u THEN n ELSE f[d][w]
  OBVIOUS

LEMMA InsertType ==
  ASSUME TypeOK, NEW c \in Chat, NEW u \in User, NEW kicks \in BOOLEAN, Insert(c, u, kicks)
  PROVE  /\ rows' \in Seq(Row) /\ last' \in [Chat -> Nat] /\ last' = [last EXCEPT ![c] = NextLid(c)]
         /\ DOMAIN rows' = 1 .. (Len(rows) + 1)
         /\ \A i \in DOMAIN rows : rows'[i] = rows[i]
         /\ rows'[Len(rows) + 1] = [chat |-> c, lid |-> NextLid(c), from |-> u, kicks |-> kicks,
                                    deleted |-> FALSE]
<1>1. NextLid(c) \in Nat \ {0}
  BY NextLidFacts
<1>2. PICK r : r = [chat |-> c, lid |-> NextLid(c), from |-> u, kicks |-> kicks, deleted |-> FALSE]
  OBVIOUS
<1>3. r \in Row
  BY <1>1, <1>2 DEF Row
<1>4. rows' = Append(rows, r) /\ last' = [last EXCEPT ![c] = NextLid(c)]
  BY <1>2 DEF Insert
<1>5. rows \in Seq(Row) /\ last \in [Chat -> Nat]
  BY DEF TypeOK
<1>6. /\ rows' \in Seq(Row) /\ DOMAIN rows' = 1 .. (Len(rows) + 1)
      /\ \A i \in DOMAIN rows : rows'[i] = rows[i]
      /\ rows'[Len(rows) + 1] = r
  BY <1>3, <1>4, <1>5
<1>7. last' \in [Chat -> Nat]
  BY <1>1, <1>4, <1>5
<1> QED
  BY <1>2, <1>4, <1>6, <1>7

LEMMA SendType ==
  ASSUME TypeOK, NEW c \in Chat, NEW u \in User, Send(c, u)
  PROVE  StoreTyped'
<1>1. rows' \in Seq(Row) /\ last' \in [Chat -> Nat]
  BY InsertType DEF Send
<1>2. NextLid(c) \in Nat
  BY NextLidFacts
<1>3. read' \in [Chat -> [User -> Nat]]
  BY <1>2, SetMarkType DEF Send, TypeOK
<1>4. mine' \in [Chat -> Mine]
  <2>1. mine \in [Chat -> Mine] /\ mine' = IF u = Me THEN [mine EXCEPT ![c].last = NextLid(c)] ELSE mine
    BY DEF Send, TypeOK
  <2> QED
    BY <1>2, <2>1 DEF Mine
<1> QED
  BY <1>1, <1>3, <1>4 DEF Send, StoreTyped, TypeOK

LEMMA RefreshType ==
  ASSUME TypeOK, NEW c \in Chat, NEW now \in Seq(Row), NEW n \in 0 .. Len(now),
         RefreshChatLastMessage(c, now, n)
  PROVE  /\ last' \in [Chat -> Nat] /\ mine' \in [Chat -> Mine]
         /\ last' = [last EXCEPT ![c] = last'[c]] /\ mine' = [mine EXCEPT ![c].last = last'[c]]
         /\ last'[c] # 0 => \E i \in 1 .. n : now[i].chat = c /\ now[i].lid = last'[c]
<1> DEFINE I == {j \in 1 .. n : now[j].chat = c /\ ~now[j].deleted}
           m == Highest({now[i].lid : i \in I})
<1>1. last' = [last EXCEPT ![c] = m] /\ mine' = [mine EXCEPT ![c].last = m]
  BY DEF RefreshChatLastMessage
<1>2. I \in SUBSET DOMAIN now
  OBVIOUS
<1>3. m \in Nat /\ (I = {} => m = 0) /\ (I # {} => \E i \in I : now[i].lid = m)
  BY <1>2, LidsOf
<1>4. m # 0 => \E i \in 1 .. n : now[i].chat = c /\ now[i].lid = m
  BY <1>3
<1> HIDE DEF m
<1>5. last \in [Chat -> Nat] /\ mine \in [Chat -> Mine]
  BY DEF TypeOK
<1>6. last'[c] = m /\ last' \in [Chat -> Nat]
  BY <1>1, <1>3, <1>5
<1>7. mine' \in [Chat -> Mine]
  BY <1>1, <1>3, <1>5 DEF Mine
<1> QED
  BY <1>1, <1>4, <1>6, <1>7

LEMMA SetDeletedType ==
  ASSUME TypeOK, NEW i \in DOMAIN rows, NEW d \in BOOLEAN, SetDeleted(i, d)
  PROVE  /\ StoreTyped' /\ DOMAIN rows' = DOMAIN rows
         /\ \A j \in DOMAIN rows :
              /\ rows'[j].chat = rows[j].chat /\ rows'[j].lid = rows[j].lid
              /\ rows'[j].from = rows[j].from /\ rows'[j].kicks = rows[j].kicks
         /\ \E n \in 0 .. Len(rows) : RefreshChatLastMessage(rows[i].chat, rows', n)
         /\ UNCHANGED <<periods, hidden, read>>
<1>1. /\ rows' = [rows EXCEPT ![i].deleted = d] /\ UNCHANGED <<periods, hidden, read>>
      /\ \E n \in i .. Len(rows) : RefreshChatLastMessage(rows[i].chat, rows', n)
  BY DEF SetDeleted
<1>2. /\ rows \in Seq(Row) /\ Len(rows) \in Nat /\ DOMAIN rows = 1 .. Len(rows) /\ rows[i].chat \in Chat
      /\ \A j \in DOMAIN rows : rows[j] \in Row
  BY RowsTyped
<1>3. /\ rows' \in Seq(Row) /\ Len(rows') = Len(rows) /\ DOMAIN rows' = DOMAIN rows
      /\ \A j \in DOMAIN rows : rows'[j] = IF j = i THEN [rows[i] EXCEPT !.deleted = d] ELSE rows[j]
  <2>1. [rows[i] EXCEPT !.deleted = d] \in Row
    BY <1>2 DEF Row
  <2> QED
    BY <1>1, <1>2, <2>1
<1>4. \A j \in DOMAIN rows :
        /\ rows'[j].chat = rows[j].chat /\ rows'[j].lid = rows[j].lid
        /\ rows'[j].from = rows[j].from /\ rows'[j].kicks = rows[j].kicks
  BY <1>2, <1>3 DEF Row
<1>5. PICK n \in 0 .. Len(rows) : RefreshChatLastMessage(rows[i].chat, rows', n)
  BY <1>1, <1>2
<1>6. last' \in [Chat -> Nat] /\ mine' \in [Chat -> Mine]
  BY <1>2, <1>3, <1>5, RefreshType
<1> QED
  BY <1>1, <1>3, <1>4, <1>5, <1>6 DEF StoreTyped, TypeOK

LEMMA HideType ==
  ASSUME TypeOK, NEW i \in DOMAIN rows, Hide(i) \/ Unhide(i)
  PROVE  StoreTyped'
<1>1. /\ rows \in Seq(Row) /\ Len(rows) \in 0 .. Len(rows) /\ rows[i].chat \in Chat /\ rows[i].lid \in Nat
  BY RowsTyped
<1>2. CASE Hide(i)
  <2>1. last' \in [Chat -> Nat] /\ mine' \in [Chat -> Mine]
    BY <1>1, <1>2, RefreshType DEF Hide
  <2> QED
    BY <1>1, <1>2, <2>1 DEF Hide, TypeOK, StoreTyped
<1>3. CASE Unhide(i)
  BY <1>1, <1>3 DEF Unhide, TypeOK, StoreTyped
<1> QED BY <1>2, <1>3

LEMMA MarkType ==
  ASSUME TypeOK, NEW c \in Chat, NEW u \in User, MarkAsRead(c, u)
  PROVE  StoreTyped'
<1>1. PICK i \in In(c) : \E n :
        /\ n = IF last[c] > 0 /\ rows[i].lid > last[c] THEN last[c] ELSE rows[i].lid
        /\ read' = [read EXCEPT ![c][u] = n] /\ UNCHANGED <<rows, last, mine, periods, hidden>>
  BY DEF MarkAsRead, Lids
<1>2. PICK n \in Nat : read' = [read EXCEPT ![c][u] = n] /\ UNCHANGED <<rows, last, mine, periods, hidden>>
  BY <1>1, RowsTyped, InFacts DEF TypeOK
<1>3. read' \in [Chat -> [User -> Nat]]
  BY <1>2, SetMarkType DEF TypeOK
<1> QED
  BY <1>2, <1>3 DEF StoreTyped, TypeOK

LEMMA DeleteConversationType ==
  ASSUME TypeOK, NEW c \in Chat, DeleteConversation(c)
  PROVE  StoreTyped'
<1>1. PICK n \in Nat : /\ mine' = [mine EXCEPT ![c].cut = n] /\ read' = [read EXCEPT ![c][Me] = n]
                       /\ UNCHANGED <<rows, last, periods, hidden>>
  BY InFacts, LidsFacts DEF DeleteConversation
<1>2. read' \in [Chat -> [User -> Nat]]
  BY <1>1, SetMarkType DEF TypeOK, User
<1>3. mine' \in [Chat -> Mine]
  BY <1>1 DEF TypeOK, Mine
<1> QED
  BY <1>1, <1>2, <1>3 DEF StoreTyped, TypeOK

LEMMA MembershipType ==
  ASSUME TypeOK, NEW c \in Chat, NEW u \in User,
         RemoveMe(c, u) \/ AddMe(c, u, TRUE) \/ AddMe(c, u, FALSE)
  PROVE  StoreTyped'
<1>1. rows' \in Seq(Row) /\ last' \in [Chat -> Nat] /\ UNCHANGED <<hidden, read>>
  BY InsertType DEF RemoveMe, AddMe
<1>2. PICK n \in Nat \ {0} : n = NextLid(c)
  BY NextLidFacts
<1>3. mine' \in [Chat -> Mine]
  <2>1. \/ mine' = [mine EXCEPT ![c].in = FALSE, ![c].last = n,
                                ![c].gone = IF u = Me THEN "left" ELSE "kicked"]
        \/ mine' = [mine EXCEPT ![c].in = TRUE, ![c].last = n, ![c].gone = "in"]
    BY <1>2 DEF RemoveMe, AddMe
  <2>2. mine \in [Chat -> Mine] /\ mine[c] \in Mine /\ n \in Nat
    BY DEF TypeOK
  <2>3. \A b \in BOOLEAN : \A g \in {"in", "left", "kicked"} :
          [mine[c] EXCEPT !.in = b, !.last = n, !.gone = g] \in Mine
    BY <2>2 DEF Mine
  <2>4. PICK r \in Mine : mine' = [mine EXCEPT ![c] = r]
    <3>1. \/ mine' = [mine EXCEPT ![c] = [mine[c] EXCEPT !.in = FALSE, !.last = n,
                                          !.gone = IF u = Me THEN "left" ELSE "kicked"]]
          \/ mine' = [mine EXCEPT ![c] = [mine[c] EXCEPT !.in = TRUE, !.last = n, !.gone = "in"]]
      BY <2>1, <2>2
    <3>2. (IF u = Me THEN "left" ELSE "kicked") \in {"in", "left", "kicked"}
      OBVIOUS
    <3> QED
      BY <2>3, <3>1, <3>2
  <2> QED
    BY <2>2, <2>4
<1>4. periods' \in [Chat -> SUBSET Period]
  <2>1. \A p \in periods[c] : p \in Period /\ [p EXCEPT !.end = n] \in Period
    <3>1. \A p \in periods[c] : p \in Period
      BY DEF TypeOK
    <3>2. n \in Nat
      OBVIOUS
    <3> QED
      BY <3>1, <3>2 DEF Period
  <2>2. [start |-> 1, end |-> Open] \in Period /\ [start |-> n, end |-> Open] \in Period
    BY DEF Period, Open
  <2>3. CASE RemoveMe(c, u)
    <3>1. periods' = [periods EXCEPT ![c] = {IF p.end = Open THEN [p EXCEPT !.end = n] ELSE p :
                                             p \in periods[c]}]
      BY <1>2, <2>3 DEF RemoveMe
    <3> QED
      BY <2>1, <3>1 DEF TypeOK
  <2>4. CASE AddMe(c, u, TRUE) \/ AddMe(c, u, FALSE)
    <3>1. PICK p \in Period : periods' = [periods EXCEPT ![c] = periods[c] \cup {p}]
      BY <1>2, <2>2, <2>4 DEF AddMe
    <3> QED
      BY <3>1 DEF TypeOK
  <2> QED BY <2>3, <2>4
<1> QED
  BY <1>1, <1>3, <1>4 DEF StoreTyped, TypeOK

\* What can be seen of a history, and where a page of it comes from
LEMMA MessagesFacts ==
  ASSUME TypeOK, NEW c, NEW T \in SUBSET Messages(c)
  PROVE  /\ T \in SUBSET (Nat \ {0}) /\ IsFiniteSet(T) /\ Cardinality(T) \in Nat
         /\ Down(T) \in Seq(T) /\ Down(T) \in Seq(Nat \ {0}) /\ Len(Down(T)) = Cardinality(T)
         /\ Up(T) \in Seq(T) /\ Up(T) \in Seq(Nat \ {0}) /\ Len(Up(T)) = Cardinality(T)
<1>1. Messages(c) \in SUBSET (Nat \ {0}) /\ IsFiniteSet(Messages(c))
  BY InFacts, LidsFacts DEF Messages
<1>2. T \in SUBSET (Nat \ {0}) /\ T \in SUBSET Nat /\ IsFiniteSet(T)
  BY <1>1, FS_Subset
<1>3. /\ Cardinality(T) \in Nat /\ Down(T) \in Seq(T) /\ Len(Down(T)) = Cardinality(T)
      /\ Up(T) \in Seq(T) /\ Len(Up(T)) = Cardinality(T)
  BY <1>2, OrderFacts
<1>4. \A s \in Seq(T) : s \in Seq(Nat \ {0})
  <2> SUFFICES ASSUME NEW s \in Seq(T) PROVE s \in Seq(Nat \ {0})
    OBVIOUS
  <2>1. Len(s) \in Nat /\ s \in [1 .. Len(s) -> T]
    OBVIOUS
  <2>2. s \in [1 .. Len(s) -> Nat \ {0}]
    BY <1>2, <2>1
  <2> QED
    BY <2>1, <2>2
<1> QED
  BY <1>2, <1>3, <1>4

LEMMA AllMessages ==
  ASSUME TypeOK, NEW c
  PROVE  /\ Messages(c) \in SUBSET (Nat \ {0}) /\ IsFiniteSet(Messages(c))
         /\ Cardinality(Messages(c)) \in Nat
<1>1. Messages(c) \in SUBSET (Nat \ {0}) /\ IsFiniteSet(Messages(c))
  BY InFacts, LidsFacts DEF Messages
<1> QED
  BY <1>1, FS_CardinalityType

\* What a request of the client does.
From(c, start) == {l \in Messages(c) : start = 0 \/ l <= start}

LEMMA HistoryPage ==
  ASSUME TypeOK, NEW c, NEW start \in Nat, NEW offset \in Nat, NEW count
  PROVE  GetHistory(c, start, offset, count, FALSE) = Slice(Down(From(c, start)), offset, count)
<1>1. Window(c, start, offset, FALSE) = From(c, start)
  BY DEF Window, From, Messages
<1>2. (IF offset < 0 THEN 0 ELSE offset) = offset
  OBVIOUS
<1>3. GetHistory(c, start, offset, count, FALSE)
        = Slice(Down(Window(c, start, offset, FALSE)), IF offset < 0 THEN 0 ELSE offset, count)
  BY DEF GetHistory
<1> QED
  BY <1>1, <1>2, <1>3

\* The page that the client gets
Fetched(page) ==
  /\ pager.client = "list" => \E order \in Orders : page = Slice(order, pager.at, PageSize)
  /\ pager.client = "scroll" => page = Slice(Down(From(pager.chat, pager.at)), 0, PageSize)
  /\ pager.client = "offset" => page = Slice(Down(From(pager.chat, 0)), pager.at, PageSize)

\* What the client makes of it
Taken(page) ==
  /\ pager'.client = pager.client /\ pager'.chat = pager.chat /\ pager'.lost = pager.lost
  /\ pager'.begun = TRUE /\ pager'.got = pager.got \o page
  /\ pager'.at = IF pager.client # "scroll" THEN pager.at + Len(page)
                 ELSE IF Len(page) = 0 THEN pager.at ELSE page[Len(page)] - 1
  /\ pager'.done = (Len(page) < PageSize \/ (pager.client = "scroll" /\ page[Len(page)] = 1))
  /\ pager'.steady = IF pager.begun THEN pager.steady
                     ELSE IF pager.client = "list" THEN Sorted ELSE Messages(pager.chat)

LEMMA PagerTyped ==
  ASSUME TypeOK
  PROVE  /\ pager \in Pager
         /\ pager.client \in {"scroll", "offset", "list"} /\ pager.chat \in Chat /\ pager.at \in Nat
         /\ pager.got \in Seq(Nat \cup Chat) /\ pager.begun \in BOOLEAN /\ pager.done \in BOOLEAN
         /\ pager.steady \in SUBSET (Nat \cup Chat) /\ pager.lost \in BOOLEAN
  BY ReadingAssumption DEF TypeOK, Pager

LEMMA OrdersTyped ==
  ASSUME NEW order \in Orders
  PROVE  LET L == {c \in Chat : Listed(c)} IN
         /\ IsFiniteSet(L) /\ Cardinality(L) \in Nat
         /\ order \in Seq(L) /\ Len(order) = Cardinality(L)
         /\ \A i, j \in 1 .. Len(order) : order[i] = order[j] => i = j
         /\ \A i, j \in 1 .. Len(order) : i < j => ~ Before(order[j], order[i])
<1> DEFINE L == {c \in Chat : Listed(c)}
<1>1. IsFiniteSet(L) /\ Cardinality(L) \in Nat
  <2>1. L \in SUBSET Chat /\ IsFiniteSet(Chat)
    BY ReadingAssumption
  <2> HIDE DEF L
  <2> QED
    BY <2>1, FS_Subset, FS_CardinalityType
<1>2. /\ order \in SetToSeqs(L)
      /\ \A i, j \in DOMAIN order : i < j => ~ Before(order[j], order[i])
  BY DEF Orders
<1> HIDE DEF L
<1>3. order \in [1 .. Cardinality(L) -> L] /\ \A i, j \in 1 .. Cardinality(L) : i # j => order[i] # order[j]
  BY <1>2 DEF SetToSeqs
<1>4. order \in Seq(L) /\ Len(order) = Cardinality(L) /\ DOMAIN order = 1 .. Len(order)
  BY <1>1, <1>3
<1>5. \A i, j \in 1 .. Len(order) : order[i] = order[j] => i = j
  BY <1>3, <1>4
<1>6. \A i, j \in 1 .. Len(order) : i < j => ~ Before(order[j], order[i])
  BY <1>2, <1>4
<1> QED
  BY <1>1, <1>4, <1>5, <1>6 DEF L

LEMMA RequestFacts ==
  ASSUME TypeOK, Request
  PROVE  /\ pager' \in Pager /\ ~ pager.done /\ UNCHANGED <<store, steps>>
         /\ \E page \in Seq(Nat \cup Chat) : Fetched(page) /\ Taken(page)
<1>1. PICK page :
        /\ Fetched(page)
        /\ pager' = [pager EXCEPT
             !.begun = TRUE, !.got = @ \o page,
             !.at = IF pager.client # "scroll" THEN @ + Len(page)
                    ELSE IF Len(page) = 0 THEN @ ELSE page[Len(page)] - 1,
             !.done = Len(page) < PageSize \/ (pager.client = "scroll" /\ page[Len(page)] = 1),
             !.steady = IF pager.begun THEN @
                         ELSE IF pager.client = "list" THEN Sorted ELSE Messages(pager.chat)]
  <2>1. PICK order \in IF pager.client = "list" THEN Orders ELSE {<< >>} :
          LET page == IF pager.client = "list" THEN Slice(order, pager.at, PageSize)
                      ELSE IF pager.client = "scroll"
                      THEN GetHistory(pager.chat, pager.at, 0, PageSize, FALSE)
                      ELSE GetHistory(pager.chat, 0, pager.at, PageSize, FALSE)
          IN  pager' = [pager EXCEPT
             !.begun = TRUE, !.got = @ \o page,
             !.at = IF pager.client # "scroll" THEN @ + Len(page)
                    ELSE IF Len(page) = 0 THEN @ ELSE page[Len(page)] - 1,
             !.done = Len(page) < PageSize \/ (pager.client = "scroll" /\ page[Len(page)] = 1),
             !.steady = IF pager.begun THEN @
                         ELSE IF pager.client = "list" THEN Sorted ELSE Messages(pager.chat)]
    BY DEF Request
  <2>2. PICK page : page = IF pager.client = "list" THEN Slice(order, pager.at, PageSize)
                           ELSE IF pager.client = "scroll"
                           THEN GetHistory(pager.chat, pager.at, 0, PageSize, FALSE)
                           ELSE GetHistory(pager.chat, 0, pager.at, PageSize, FALSE)
    OBVIOUS
  <2>3. Fetched(page)
    <3>1. pager.at \in Nat /\ 0 \in Nat
      BY PagerTyped
    <3>2. /\ GetHistory(pager.chat, pager.at, 0, PageSize, FALSE)
               = Slice(Down(From(pager.chat, pager.at)), 0, PageSize)
          /\ GetHistory(pager.chat, 0, pager.at, PageSize, FALSE)
               = Slice(Down(From(pager.chat, 0)), pager.at, PageSize)
      BY <3>1, HistoryPage
    <3>3. CASE pager.client = "list"
      BY <2>1, <2>2, <3>3 DEF Fetched
    <3>4. CASE pager.client # "list"
      BY <2>2, <3>2, <3>4 DEF Fetched
    <3> QED BY <3>3, <3>4
  <2> QED
    BY <2>1, <2>2, <2>3
<1>2. PageSize \in Nat /\ PageSize > 0
  BY ReadingAssumption
<1>3. ASSUME pager.client = "list"
      PROVE  /\ page \in Seq(Nat \cup Chat)
             /\ (IF pager.client # "scroll" THEN pager.at + Len(page)
                 ELSE IF Len(page) = 0 THEN pager.at ELSE page[Len(page)] - 1) \in Nat
             /\ (IF pager.client = "list" THEN Sorted ELSE Messages(pager.chat)) \in SUBSET (Nat \cup Chat)
  <2>1. PICK order \in Orders : page = Slice(order, pager.at, PageSize)
    BY <1>1, <1>3 DEF Fetched
  <2>2. order \in Seq({c \in Chat : Listed(c)})
    BY OrdersTyped
  <2>3. page \in Seq({c \in Chat : Listed(c)}) /\ Len(page) \in Nat
    BY <1>2, <2>1, <2>2, PagerTyped, SliceFacts
  <2>4. page \in Seq(Nat \cup Chat)
    BY <2>3
  <2>5. pager.at + Len(page) \in Nat /\ Sorted \in SUBSET (Nat \cup Chat)
    BY <2>3, PagerTyped DEF Sorted
  <2> QED
    BY <1>3, <2>3, <2>4, <2>5
<1>4. ASSUME pager.client # "list"
      PROVE  /\ page \in Seq(Nat \cup Chat)
             /\ (IF pager.client # "scroll" THEN pager.at + Len(page)
                 ELSE IF Len(page) = 0 THEN pager.at ELSE page[Len(page)] - 1) \in Nat
             /\ (IF pager.client = "list" THEN Sorted ELSE Messages(pager.chat)) \in SUBSET (Nat \cup Chat)
  <2>1. \E c, start, offset : /\ offset \in Nat
                             /\ page = Slice(Down(From(c, start)), offset, PageSize)
    BY <1>1, <1>4, PagerTyped DEF Fetched
  <2>2. PICK c, start, offset : offset \in Nat /\ page = Slice(Down(From(c, start)), offset, PageSize)
    BY <2>1
  <2>3. From(c, start) \in SUBSET Messages(c)
    BY DEF From
  <2>4. Down(From(c, start)) \in Seq(Nat \ {0})
    BY <2>3, MessagesFacts
  <2>5. page \in Seq(Nat \ {0}) /\ Len(page) \in Nat
    <3>1. PICK S : S = Nat \ {0}
      OBVIOUS
    <3>3. PICK s \in Seq(S) : s = Down(From(c, start))
      BY <2>4, <3>1
    <3>2. Slice(s, offset, PageSize) \in Seq(S) /\ Len(Slice(s, offset, PageSize)) \in 0 .. PageSize
      BY <1>2, <2>2, SliceFacts
    <3> QED
      BY <1>2, <2>2, <3>1, <3>2, <3>3
  <2>6. page \in Seq(Nat \cup Chat)
    BY <2>5
  <2>8. Len(page) # 0 => page[Len(page)] - 1 \in Nat
    <3>1. \A i \in 1 .. Len(page) : page[i] \in Nat \ {0}
      BY <2>5
    <3>2. Len(page) # 0 => Len(page) \in 1 .. Len(page)
      BY <2>5
    <3> QED
      BY <3>1, <3>2
  <2>7. Messages(pager.chat) \in SUBSET (Nat \cup Chat)
    BY AllMessages
  <2> QED
    <3>1. pager.at \in Nat /\ pager.at + Len(page) \in Nat
      BY <2>5, PagerTyped
    <3> QED
      BY <1>4, <2>6, <2>7, <2>8, <3>1
<1>5. /\ page \in Seq(Nat \cup Chat) /\ pager.got \o page \in Seq(Nat \cup Chat)
      /\ (IF pager.client # "scroll" THEN pager.at + Len(page)
          ELSE IF Len(page) = 0 THEN pager.at ELSE page[Len(page)] - 1) \in Nat
      /\ (Len(page) < PageSize \/ (pager.client = "scroll" /\ page[Len(page)] = 1)) \in BOOLEAN
      /\ (IF pager.begun THEN pager.steady
          ELSE IF pager.client = "list" THEN Sorted ELSE Messages(pager.chat)) \in SUBSET (Nat \cup Chat)
  <2>1. pager.got \in Seq(Nat \cup Chat) /\ pager.steady \in SUBSET (Nat \cup Chat)
    BY PagerTyped
  <2> QED
    BY <1>3, <1>4, <2>1
<1>6. pager' \in Pager /\ Taken(page)
  BY <1>1, <1>5, PagerTyped DEF Pager, Taken
<1>7. ~ pager.done /\ UNCHANGED <<store, steps>>
  BY DEF Request
<1> QED
  BY <1>1, <1>5, <1>6, <1>7

LEMMA WatchType ==
  ASSUME TypeOK, Watch
  PROVE  pager' \in Pager
<1>1. CASE UNCHANGED pager
  BY <1>1, PagerTyped
<1>2. CASE \E S, b : /\ b \in BOOLEAN /\ S \in SUBSET pager.steady
                     /\ pager' = [pager EXCEPT !.steady = S, !.lost = b]
  BY <1>2, PagerTyped DEF Pager
<1> QED
  BY <1>1, <1>2, PagerTyped DEF Watch

LEMMA InitType ==
  ASSUME Init PROVE TypeOK
<1>1. rows \in Seq(Row) /\ last \in [Chat -> Nat]
  <2>1. rows \in Seq(Row) /\ rows = Earlier
    BY ReadingAssumption DEF Init
  <2>2. ASSUME NEW c \in Chat
        PROVE  Highest(Lids({i \in DOMAIN Earlier : Earlier[i].chat = c})) \in Nat
    <3>1. PICK I : I = {i \in DOMAIN Earlier : Earlier[i].chat = c}
      OBVIOUS
    <3>2. I \in SUBSET DOMAIN Earlier
      BY <3>1
    <3>3. Highest({Earlier[i].lid : i \in I}) \in Nat
      BY <2>1, <3>2, LidsOf
    <3> QED
      BY <2>1, <3>1, <3>3 DEF Lids
  <2> QED
    BY <2>1, <2>2 DEF Init
<1>2. mine \in [Chat -> Mine]
  BY DEF Init, Mine
<1>3. periods \in [Chat -> SUBSET Period]
  <2>1. [start |-> 1, end |-> Open] \in Period
    BY DEF Period, Open
  <2> QED
    BY <2>1 DEF Init
<1>4. pager \in Pager
  <2>1. PICK cl \in Client, c \in Chat :
          pager = [client |-> cl, chat |-> c, at |-> 0, got |-> << >>, begun |-> FALSE,
                   done |-> FALSE, steady |-> {}, lost |-> FALSE]
    <3>1. (CHOOSE x \in Chat : TRUE) \in Chat /\ Group \subseteq Chat
      BY ReadingAssumption
    <3> QED
      BY <3>1 DEF Init
  <2> QED
    BY <2>1 DEF Pager
<1> QED
  BY <1>1, <1>2, <1>3, <1>4, ReadingAssumption DEF Init, TypeOK

LEMMA WriteCases ==
  ASSUME Write
  PROVE  \/ \E c \in Chat, u \in User : \/ Send(c, u) \/ MarkAsRead(c, u) \/ RemoveMe(c, u)
                                      \/ AddMe(c, u, TRUE) \/ AddMe(c, u, FALSE)
         \/ \E i \in DOMAIN rows : Hide(i) \/ Unhide(i) \/ SetDeleted(i, TRUE) \/ SetDeleted(i, FALSE)
         \/ \E c \in Chat : DeleteConversation(c)
<1>1. \A u \in Other : u \in User
  BY DEF User
<1>2. \A c, u : (\E see \in BOOLEAN : AddMe(c, u, see)) => AddMe(c, u, TRUE) \/ AddMe(c, u, FALSE)
  OBVIOUS
<1>3. \A i : (\E d \in BOOLEAN : SetDeleted(i, d)) => SetDeleted(i, TRUE) \/ SetDeleted(i, FALSE)
  OBVIOUS
<1>4. \/ \E c \in Chat, u \in User : Send(c, u) \/ MarkAsRead(c, u) \/ RemoveMe(c, u)
      \/ \E c \in Chat, u \in Other : \E see \in BOOLEAN : AddMe(c, u, see)
      \/ \E i \in DOMAIN rows : Hide(i) \/ Unhide(i) \/ \E d \in BOOLEAN : SetDeleted(i, d)
      \/ \E c \in Chat : DeleteConversation(c)
  BY DEF Write
<1> QED
  BY <1>1, <1>2, <1>3, <1>4

LEMMA WriteType ==
  ASSUME TypeOK, Write
  PROVE  StoreTyped' /\ steps' \in 0 .. MaxSteps
<1>1. steps' \in 0 .. MaxSteps
  BY ReadingAssumption DEF TypeOK, Write
<1>2. StoreTyped'
  BY WriteCases, SendType, MarkType, MembershipType, HideType, SetDeletedType, DeleteConversationType
<1> QED
  BY <1>1, <1>2

\* The types are right, whatever is written and fetched; a last_message_id is
\* never NULL, and a page never goes below the first message.
THEOREM TypeCorrect == Spec => []TypeOK
<1>1. Init => TypeOK
  BY InitType
<1>2. TypeOK /\ [Next]_vars => TypeOK'
  <2> SUFFICES ASSUME TypeOK, [Next]_vars PROVE TypeOK'
    OBVIOUS
  <2>1. CASE Write /\ Watch
    BY <2>1, WriteType, WatchType DEF StoreTyped, TypeOK
  <2>2. CASE Request
    BY <2>2, RequestFacts DEF store, TypeOK
  <2>3. CASE UNCHANGED vars
    BY <2>3 DEF vars, store, TypeOK
  <2> QED
    BY <2>1, <2>2, <2>3 DEF Next
<1> QED
  BY <1>1, <1>2, PTL DEF Spec

-----------------------------------------------------------------------------
(* What happens to messages, marks and memberships.                        *)

\* A write leaves local ids and senders, and adds at most one message, which
\* gets a higher local id than all the others.
LEMMA RowsKept ==
  ASSUME TypeOK, Write
  PROVE  /\ DOMAIN rows' \in {1 .. Len(rows), 1 .. (Len(rows) + 1)}
         /\ \A i \in DOMAIN rows :
              /\ rows'[i].chat = rows[i].chat /\ rows'[i].lid = rows[i].lid
              /\ rows'[i].from = rows[i].from /\ rows'[i].kicks = rows[i].kicks
         /\ \A i \in DOMAIN rows' : i \notin DOMAIN rows =>
              /\ \A j \in In(rows'[i].chat) : rows[j].lid < rows'[i].lid
              /\ rows'[i].kicks => \E u \in User : RemoveMe(rows'[i].chat, u)
<1>1. Len(rows) \in Nat /\ DOMAIN rows = 1 .. Len(rows)
  BY RowsTyped
<1>2. ASSUME NEW c \in Chat, NEW u \in User, NEW k \in BOOLEAN, Insert(c, u, k),
             k => RemoveMe(c, u)
      PROVE  /\ DOMAIN rows' = 1 .. (Len(rows) + 1)
             /\ \A i \in DOMAIN rows : rows'[i] = rows[i]
             /\ \A i \in DOMAIN rows' : i \notin DOMAIN rows =>
                  /\ \A j \in In(rows'[i].chat) : rows[j].lid < rows'[i].lid
                  /\ rows'[i].kicks => \E w \in User : RemoveMe(rows'[i].chat, w)
  <2>1. /\ DOMAIN rows' = 1 .. (Len(rows) + 1)
        /\ \A i \in DOMAIN rows : rows'[i] = rows[i]
        /\ rows'[Len(rows) + 1] = [chat |-> c, lid |-> NextLid(c), from |-> u, kicks |-> k,
                                   deleted |-> FALSE]
    BY <1>2, InsertType
  <2>2. rows'[Len(rows) + 1].chat = c /\ rows'[Len(rows) + 1].lid = NextLid(c)
        /\ rows'[Len(rows) + 1].kicks = k
    BY <2>1
  <2>3. \A j \in In(c) : rows[j].lid < NextLid(c)
    BY NextLidFacts
  <2>4. \A i \in DOMAIN rows' : i \notin DOMAIN rows => i = Len(rows) + 1
    BY <1>1, <2>1
  <2> QED
    BY <1>2, <2>1, <2>2, <2>3, <2>4
<1>3. CASE \E c \in Chat, u \in User : Insert(c, u, TRUE) /\ RemoveMe(c, u)
  BY <1>2, <1>3
<1>4. CASE \E c \in Chat, u \in User : Insert(c, u, FALSE)
  BY <1>2, <1>4
<1>5. CASE \E i \in DOMAIN rows : SetDeleted(i, TRUE) \/ SetDeleted(i, FALSE)
  BY <1>1, <1>5, SetDeletedType
<1>6. CASE UNCHANGED rows
  BY <1>1, <1>6
<1> QED
  BY <1>3, <1>4, <1>5, <1>6, WriteCases
     DEF Send, RemoveMe, AddMe, MarkAsRead, Hide, Unhide, DeleteConversation

LEMMA AscendingStep ==
  ASSUME TypeOK, TypeOK', Ascending, Write
  PROVE  Ascending'
<1> SUFFICES ASSUME NEW i \in DOMAIN rows', NEW j \in DOMAIN rows', i < j, rows'[i].chat = rows'[j].chat
             PROVE  rows'[i].lid < rows'[j].lid
  BY DEF Ascending
<1>1. Len(rows) \in Nat /\ DOMAIN rows = 1 .. Len(rows)
  BY RowsTyped
<1>2. i \in DOMAIN rows /\ (j \notin DOMAIN rows => i \in In(rows'[j].chat))
  BY <1>1, RowsKept DEF In
<1>3. CASE j \in DOMAIN rows
  BY <1>2, <1>3, RowsKept DEF Ascending
<1>4. CASE j \notin DOMAIN rows
  BY <1>2, <1>4, RowsKept
<1> QED
  BY <1>3, <1>4

LEMMA ThereStays ==
  ASSUME TypeOK, Write, NEW c, NEW l, There(c, l)
  PROVE  There(c, l)'
<1>1. ASSUME NEW i \in In(c), rows[i].lid = l PROVE \E j \in In(c)' : rows'[j].lid = l
  <2>1. Len(rows) \in Nat /\ DOMAIN rows = 1 .. Len(rows)
    BY RowsTyped
  <2>2. i \in DOMAIN rows /\ i \in DOMAIN rows' /\ rows[i].chat = c
    BY <2>1, RowsKept DEF In
  <2>3. rows'[i].chat = c /\ rows'[i].lid = l
    BY <1>1, <2>2, RowsKept
  <2> QED
    BY <2>2, <2>3 DEF In
<1> QED
  BY <1>1 DEF There

\* The new message is there.
LEMMA InsertThere ==
  ASSUME TypeOK, NEW c \in Chat, NEW u \in User, NEW k \in BOOLEAN, Insert(c, u, k),
         NEW n, n = NextLid(c)
  PROVE  There(c, n)'
<1>1. /\ Len(rows) + 1 \in DOMAIN rows'
      /\ rows'[Len(rows) + 1].chat = c /\ rows'[Len(rows) + 1].lid = n
  <2>1. /\ DOMAIN rows' = 1 .. (Len(rows) + 1)
        /\ rows'[Len(rows) + 1] = [chat |-> c, lid |-> n, from |-> u, kicks |-> k, deleted |-> FALSE]
    BY InsertType
  <2>2. Len(rows) \in Nat
    BY RowsTyped
  <2> QED
    BY <2>1, <2>2
<1> QED
  BY <1>1 DEF There, In

LEMMA LastThere ==
  ASSUME TypeOK, TypeOK', Write, NEW c \in Chat, There(c, last[c])
  PROVE  There(c, last[c])'
<1>1. There(c, last[c]) => \A n : n = last[c] => There(c, n)'
  BY ThereStays
<1>2. CASE last'[c] = last[c]
  <2>1. PICK n : n = last[c]
    OBVIOUS
  <2>2. There(c, n)'
    BY <1>1, <2>1
  <2> QED
    BY <1>2, <2>1, <2>2 DEF There
<1>3. ASSUME NEW d \in Chat, NEW u \in User, NEW k \in BOOLEAN, Insert(d, u, k)
      PROVE  There(c, last[c])'
  <2>1. last' = [last EXCEPT ![d] = NextLid(d)] /\ last \in [Chat -> Nat]
    BY <1>3 DEF Insert, TypeOK
  <2>2. CASE c # d
    BY <1>2, <2>1, <2>2
  <2>3. CASE c = d
    <3>1. PICK n : n = NextLid(d)
      OBVIOUS
    <3>2. There(c, n)' /\ last'[c] = n
      BY <1>3, <2>1, <2>3, <3>1, InsertThere
    <3> QED
      BY <3>2 DEF There
  <2> QED BY <2>2, <2>3
<1>4. ASSUME NEW d \in Chat, NEW n \in 0 .. Len(rows'), RefreshChatLastMessage(d, rows', n)
      PROVE  There(c, last[c])'
  <2>1. rows' \in Seq(Row) /\ last \in [Chat -> Nat]
    BY DEF TypeOK
  <2>2. /\ last' = [last EXCEPT ![d] = last'[d]]
        /\ last'[d] # 0 => \E i \in 1 .. n : rows'[i].chat = d /\ rows'[i].lid = last'[d]
    BY <1>4, <2>1, RefreshType
  <2>3. CASE c # d
    BY <1>2, <2>1, <2>2, <2>3
  <2>4. CASE c = d
    <3>1. \A i \in 1 .. n : i \in DOMAIN rows'
      BY <2>1
    <3> QED
      BY <2>2, <2>4, <3>1 DEF There, In
  <2> QED BY <2>3, <2>4
<1>5. ASSUME NEW i \in DOMAIN rows, SetDeleted(i, TRUE) \/ SetDeleted(i, FALSE) \/ Hide(i)
      PROVE  There(c, last[c])'
  <2>1. rows[i].chat \in Chat /\ Len(rows) \in Nat /\ rows \in Seq(Row) /\ rows' \in Seq(Row)
    BY RowsTyped DEF TypeOK
  <2>2. CASE SetDeleted(i, TRUE) \/ SetDeleted(i, FALSE)
    <3>1. DOMAIN rows' = DOMAIN rows /\ \E n \in 0 .. Len(rows) : RefreshChatLastMessage(rows[i].chat, rows', n)
      BY <2>2, SetDeletedType
    <3>2. Len(rows') = Len(rows)
      BY <2>1, <3>1
    <3> QED
      BY <1>4, <2>1, <3>1, <3>2
  <2>3. CASE Hide(i)
    <3>1. rows' = rows /\ RefreshChatLastMessage(rows[i].chat, rows', Len(rows'))
      BY <2>3 DEF Hide
    <3> QED
      BY <1>4, <2>1, <3>1
  <2> QED BY <1>5, <2>2, <2>3
<1> QED
  BY <1>2, <1>3, <1>5, WriteCases DEF Send, RemoveMe, AddMe, MarkAsRead, Unhide, DeleteConversation

LEMMA ReadThere ==
  ASSUME TypeOK, TypeOK', Pointers, Write, NEW c \in Chat, NEW w \in User
  PROVE  There(c, read[c][w])'
<1>1. \A n : There(c, n) => There(c, n)'
  BY ThereStays
<1>2. ASSUME NEW n, There(c, n)', read'[c][w] = n PROVE There(c, read[c][w])'
  BY <1>2 DEF There
<1>3. CASE read'[c][w] = read[c][w]
  <2>1. PICK n : n = read[c][w]
    OBVIOUS
  <2>2. There(c, n)
    BY <2>1 DEF Pointers
  <2> QED
    BY <1>1, <1>2, <1>3, <2>1, <2>2
<1>4. ASSUME NEW d \in Chat, NEW u \in User, NEW n \in Nat, read' = [read EXCEPT ![d][u] = n],
             There(d, n)'
      PROVE  There(c, read[c][w])'
  <2>1. read'[c][w] = IF c = d /\ w = u THEN n ELSE read[c][w]
    BY <1>4, SetMarkType DEF TypeOK
  <2> QED
    BY <1>2, <1>3, <1>4, <2>1
<1>5. ASSUME NEW d \in Chat, NEW u \in User, Send(d, u) PROVE There(c, read[c][w])'
  <2>1. PICK n \in Nat : n = NextLid(d)
    BY NextLidFacts
  <2>2. There(d, n)' /\ read' = [read EXCEPT ![d][u] = n]
    BY <1>5, <2>1, InsertThere DEF Send
  <2> QED
    BY <1>4, <2>2
<1>6. ASSUME NEW d \in Chat, NEW u \in User, MarkAsRead(d, u) PROVE There(c, read[c][w])'
  <2>1. PICK i \in In(d) : read' = [read EXCEPT ![d][u] = IF last[d] > 0 /\ rows[i].lid > last[d]
                                                         THEN last[d] ELSE rows[i].lid]
    BY <1>6 DEF MarkAsRead, Lids
  <2>2. rows[i].lid \in Nat /\ last[d] \in Nat
    BY RowsTyped, InFacts DEF TypeOK
  <2>3. PICK n \in Nat : /\ n = IF last[d] > 0 /\ rows[i].lid > last[d] THEN last[d] ELSE rows[i].lid
                         /\ read' = [read EXCEPT ![d][u] = n]
    BY <2>1, <2>2
  <2>4. There(d, n)
    BY <2>3 DEF Pointers, There
  <2>5. There(d, n)'
    BY <2>4, ThereStays
  <2> QED
    BY <1>4, <2>3, <2>5
<1>7. ASSUME NEW d \in Chat, DeleteConversation(d) PROVE There(c, read[c][w])'
  <2>1. In(d) \in SUBSET DOMAIN rows
    BY InFacts
  <2>2. PICK n : n = Highest(Lids(In(d)))
    OBVIOUS
  <2>3. n \in Nat /\ There(d, n) /\ read' = [read EXCEPT ![d][Me] = n]
    BY <1>7, <2>1, <2>2, LidsFacts DEF There, DeleteConversation
  <2>4. There(d, n)' /\ Me \in User
    BY <2>3, ThereStays DEF User
  <2> QED
    BY <1>4, <2>3, <2>4
<1>8. CASE read' = read
  BY <1>3, <1>8
<1> QED
  BY <1>5, <1>6, <1>7, <1>8, WriteCases DEF RemoveMe, AddMe, Hide, Unhide, SetDeleted

LEMMA PeriodsFinite ==
  ASSUME TypeOK, Write, NEW c \in Chat, IsFiniteSet(periods[c])
  PROVE  IsFiniteSet(periods'[c])
<1>1. periods \in [Chat -> SUBSET Period]
  BY DEF TypeOK
<1>2. ASSUME NEW d \in Chat, NEW u, RemoveMe(d, u) PROVE IsFiniteSet(periods'[c])
  <2>1. PICK P, n : P = periods[c] /\ n = NextLid(d)
    OBVIOUS
  <2> DEFINE f == [p \in P |-> IF p.end = Open THEN [p EXCEPT !.end = n] ELSE p]
             Q == {IF p.end = Open THEN [p EXCEPT !.end = n] ELSE p : p \in P}
  <2>2. periods'[c] = IF c = d THEN Q ELSE P
    BY <1>1, <1>2, <2>1 DEF RemoveMe
  <2>3. f \in Surjection(P, Q)
    BY DEF Surjection
  <2>4. IsFiniteSet(Q)
    <3> HIDE DEF f, Q
    <3> QED
      BY <2>1, <2>3, FS_Surjection
  <2> QED
    BY <2>1, <2>2, <2>4
<1>3. ASSUME NEW d \in Chat, NEW u, NEW see \in BOOLEAN, AddMe(d, u, see) PROVE IsFiniteSet(periods'[c])
  <2>1. PICK p : periods' = [periods EXCEPT ![d] = periods[d] \cup {p}]
    BY <1>3 DEF AddMe
  <2>2. periods'[c] = periods[c] \/ periods'[c] = periods[c] \cup {p}
    BY <1>1, <2>1
  <2> QED
    BY <2>2, FS_AddElement
<1>4. CASE periods' = periods
  BY <1>4
<1> QED
  BY <1>2, <1>3, <1>4, WriteCases
     DEF Send, MarkAsRead, Hide, Unhide, SetDeleted, DeleteConversation

LEMMA PlaceKept ==
  ASSUME TypeOK, Write, NEW c \in Chat, ~ \E u \in User : RemoveMe(c, u) \/ AddMe(c, u, TRUE) \/ AddMe(c, u, FALSE)
  PROVE  mine'[c].in = mine[c].in /\ mine'[c].gone = mine[c].gone
<1>1. mine \in [Chat -> Mine] /\ mine[c] \in Mine
  BY DEF TypeOK
<1>2. ASSUME NEW d \in Chat, NEW m, mine' = [mine EXCEPT ![d].last = m]
      PROVE  mine'[c].in = mine[c].in /\ mine'[c].gone = mine[c].gone
  BY <1>1, <1>2 DEF Mine
<1>3. ASSUME NEW d \in Chat, NEW m, mine' = [mine EXCEPT ![d].cut = m]
      PROVE  mine'[c].in = mine[c].in /\ mine'[c].gone = mine[c].gone
  BY <1>1, <1>3 DEF Mine
<1>4. ASSUME NEW d \in Chat, NEW u \in User, RemoveMe(d, u) \/ AddMe(d, u, TRUE) \/ AddMe(d, u, FALSE)
      PROVE  mine'[c] = mine[c]
  <2>1. d # c
    BY <1>4
  <2>2. \E r : mine' = [mine EXCEPT ![d] = r]
    BY <1>1, <1>4 DEF RemoveMe, AddMe
  <2> QED
    BY <1>1, <2>1, <2>2
<1>5. ASSUME NEW i \in DOMAIN rows, Hide(i) \/ SetDeleted(i, TRUE) \/ SetDeleted(i, FALSE)
      PROVE  \E d \in Chat : \E m : mine' = [mine EXCEPT ![d].last = m]
  BY <1>5, RowsTyped DEF Hide, SetDeleted, RefreshChatLastMessage
<1>6. ASSUME NEW d \in Chat, NEW u \in User, Send(d, u)
      PROVE  mine'[c] = mine[c] \/ \E m : mine' = [mine EXCEPT ![d].last = m]
  BY <1>6 DEF Send
<1>7. ASSUME NEW d \in Chat, DeleteConversation(d)
      PROVE  \E m : mine' = [mine EXCEPT ![d].cut = m]
  BY <1>7 DEF DeleteConversation
<1> QED
  BY <1>2, <1>3, <1>4, <1>5, <1>6, <1>7, WriteCases DEF MarkAsRead, Unhide

LEMMA DepartedStep ==
  ASSUME TypeOK, TypeOK', Write, NEW c \in Chat, Departed(c)
  PROVE  Departed(c)'
<1>1. Len(rows) \in Nat /\ DOMAIN rows = 1 .. Len(rows)
  BY RowsTyped
<1>2. mine \in [Chat -> Mine] /\ mine[c] \in Mine
  BY DEF TypeOK
<1>3. ASSUME NEW u \in User, RemoveMe(c, u) PROVE Departed(c)'
  <2>1. PICK n \in Nat : n = NextLid(c)
    BY NextLidFacts
  <2>2. PICK i : i = Len(rows) + 1
    OBVIOUS
  <2>3. /\ DOMAIN rows' = 1 .. (Len(rows) + 1)
        /\ \A j \in DOMAIN rows : rows'[j] = rows[j]
        /\ rows'[i] = [chat |-> c, lid |-> n, from |-> u, kicks |-> TRUE, deleted |-> FALSE]
    BY <1>3, <2>1, <2>2, InsertType DEF RemoveMe
  <2>4. rows'[i].chat = c /\ rows'[i].lid = n /\ rows'[i].from = u /\ rows'[i].kicks = TRUE
    BY <2>3
  <2>5. i \in In(c)'
    BY <1>1, <2>2, <2>3, <2>4 DEF In
  <2>6. ASSUME NEW j \in In(c)' PROVE rows'[j].lid <= n
    <3>1. CASE j = i
      BY <2>1, <2>4, <3>1
    <3>2. CASE j # i
      <4>1. j \in DOMAIN rows /\ rows'[j] = rows[j]
        BY <1>1, <2>2, <2>3, <3>2 DEF In
      <4>2. j \in In(c)
        BY <4>1 DEF In
      <4>3. rows[j].lid < n /\ rows[j].lid \in Nat
        BY <2>1, <4>1, <4>2, NextLidFacts, RowsTyped
      <4> QED
        BY <2>1, <4>1, <4>3
    <3> QED BY <3>1, <3>2
  <2>7. c \in Group /\ mine'[c].in = FALSE /\ mine'[c].gone = IF u = Me THEN "left" ELSE "kicked"
    BY <1>2, <1>3 DEF RemoveMe, Mine
  <2> QED
    BY <2>4, <2>5, <2>6, <2>7 DEF Departed
<1>4. ASSUME NEW u \in User, AddMe(c, u, TRUE) \/ AddMe(c, u, FALSE) PROVE Departed(c)'
  <2>1. mine' = [mine EXCEPT ![c].in = TRUE, ![c].last = NextLid(c), ![c].gone = "in"]
    BY <1>4 DEF AddMe
  <2>2. mine'[c].in = TRUE /\ mine'[c].gone = "in"
    BY <1>2, <2>1 DEF Mine
  <2> QED
    BY <2>2 DEF Departed
<1>5. ASSUME ~ \E u \in User : RemoveMe(c, u) \/ AddMe(c, u, TRUE) \/ AddMe(c, u, FALSE)
      PROVE  Departed(c)'
  <2>1. mine'[c].in = mine[c].in /\ mine'[c].gone = mine[c].gone
    BY <1>5, PlaceKept
  <2>2. ASSUME NEW i \in In(c)
        PROVE  /\ i \in In(c)' /\ rows'[i].lid = rows[i].lid /\ rows'[i].kicks = rows[i].kicks
               /\ rows'[i].from = rows[i].from
    BY <1>1, <2>2, RowsKept DEF In
  <2>3. ASSUME NEW j \in In(c)', rows'[j].kicks PROVE j \in In(c)
    <3>1. j \in DOMAIN rows' /\ rows'[j].chat = c
      BY <2>3 DEF In
    <3>2. j \in DOMAIN rows
      BY <1>5, <2>3, <3>1, RowsKept
    <3>3. rows[j].chat = rows'[j].chat
      BY <3>2, RowsKept
    <3> QED
      BY <3>1, <3>2, <3>3 DEF In
  <2>4. CASE mine[c].in
    BY <2>1, <2>4 DEF Departed
  <2>5. CASE ~ mine[c].in
    <3>1. /\ c \in Group
          /\ \E i \in In(c) :
               /\ rows[i].kicks /\ \A j \in In(c) : rows[j].kicks => rows[j].lid <= rows[i].lid
               /\ mine[c].gone = IF rows[i].from = Me THEN "left" ELSE "kicked"
      BY <2>5 DEF Departed
    <3>2. PICK i \in In(c) :
            /\ rows[i].kicks /\ \A j \in In(c) : rows[j].kicks => rows[j].lid <= rows[i].lid
            /\ mine[c].gone = IF rows[i].from = Me THEN "left" ELSE "kicked"
      BY <3>1
    <3>3. i \in In(c)' /\ rows'[i].kicks /\ rows'[i].from = rows[i].from
      BY <2>2, <3>2
    <3>4. \A j \in In(c)' : rows'[j].kicks => rows'[j].lid <= rows'[i].lid
      BY <2>2, <2>3, <3>2
    <3> QED
      BY <2>1, <2>5, <3>1, <3>2, <3>3, <3>4 DEF Departed
  <2> QED BY <2>4, <2>5
<1> QED
  BY <1>3, <1>4, <1>5

LEMMA StoreInitial ==
  ASSUME Init, TypeOK PROVE StoreInv
<1>1. rows = Earlier /\ rows \in Seq(Row)
  BY DEF Init, TypeOK
<1>2. Ascending
  BY <1>1, ReadingAssumption DEF Ascending
<1>3. ASSUME NEW c \in Chat PROVE There(c, last[c])
  <2>1. last[c] = Highest(Lids(In(c)))
    BY <1>1 DEF Init, In
  <2>2. In(c) \in SUBSET DOMAIN rows
    BY InFacts
  <2> QED
    BY <2>1, <2>2, LidsFacts DEF There
<1>4. ASSUME NEW c \in Chat, NEW u \in User PROVE There(c, read[c][u])
  BY DEF Init, There
<1>5. ASSUME NEW c \in Chat PROVE IsFiniteSet(periods[c]) /\ Departed(c)
  <2>1. periods[c] = {} \/ \E p : periods[c] = {p}
    BY DEF Init
  <2>2. IsFiniteSet(periods[c])
    BY <2>1, FS_EmptySet, FS_Singleton
  <2>3. Departed(c)
    BY DEF Init, Departed
  <2> QED
    BY <2>2, <2>3
<1> QED
  BY <1>2, <1>3, <1>4, <1>5 DEF StoreInv, Pointers

\* Local ids rise, last_message_id and the read marks point at messages, and
\* the last message about my departure is there.
THEOREM StoreInvariant == Spec => []StoreInv
<1>1. Init /\ TypeOK => StoreInv
  BY StoreInitial
<1>2. TypeOK /\ TypeOK' /\ StoreInv /\ [Next]_vars => StoreInv'
  <2> SUFFICES ASSUME TypeOK, TypeOK', StoreInv, [Next]_vars PROVE StoreInv'
    OBVIOUS
  <2>1. CASE Write
    <3>1. Ascending'
      BY <2>1, AscendingStep DEF StoreInv
    <3>2. Pointers'
      BY <2>1, LastThere, ReadThere DEF StoreInv, Pointers
    <3>3. \A c \in Chat : IsFiniteSet(periods'[c]) /\ Departed(c)'
      BY <2>1, PeriodsFinite, DepartedStep DEF StoreInv
    <3> QED
      BY <3>1, <3>2, <3>3 DEF StoreInv
  <2>2. CASE UNCHANGED store
    BY <2>2 DEF store, StoreInv, Ascending, Pointers, There, Departed, In
  <2> QED
    BY <2>1, <2>2 DEF Next, Request, vars
<1> QED
  BY <1>1, <1>2, TypeCorrect, PTL DEF Spec

-----------------------------------------------------------------------------
(* The endpoints agree with one another.                                   *)

\* In a conversation the ids are in the order of the local ids.
LEMMA InOrder ==
  ASSUME TypeOK, Ascending, NEW c, NEW i \in In(c), NEW j \in In(c)
  PROVE  /\ i \in Nat /\ j \in Nat /\ i > 0 /\ rows[i].lid \in Nat /\ rows[i].lid > 0
         /\ rows[i].lid <= rows[j].lid <=> i <= j
         /\ rows[i].lid = rows[j].lid => i = j
<1>1. /\ i \in DOMAIN rows /\ j \in DOMAIN rows /\ rows[i].chat = rows[j].chat
  BY DEF In
<1>2. /\ i \in Nat /\ j \in Nat /\ i > 0
      /\ rows[i].lid \in Nat /\ rows[j].lid \in Nat /\ rows[i].lid > 0
  BY <1>1, RowsTyped
<1>3. (i < j => rows[i].lid < rows[j].lid) /\ (j < i => rows[j].lid < rows[i].lid)
  BY <1>1 DEF Ascending
<1> QED
  BY <1>2, <1>3

\* The newest of some messages of a conversation
LEMMA NewestOf ==
  ASSUME TypeOK, Ascending, NEW c, NEW I \in SUBSET In(c), I # {}
  PROVE  \E top \in I :
           /\ rows[top].lid = Highest(Lids(I)) /\ AtLid(c, Highest(Lids(I))) = top
           /\ {i \in I : rows[i].lid = Highest(Lids(I))} = {top}
           /\ \A i \in I : i <= top /\ rows[i].lid <= rows[top].lid
<1>1. I \in SUBSET DOMAIN rows
  BY DEF In
<1>2. PICK top \in I : rows[top].lid = Highest(Lids(I))
  BY <1>1, LidsFacts
<1>3. \A i \in I : rows[i].lid <= rows[top].lid
  BY <1>1, <1>2, LidsFacts
<1>4. \A i \in In(c) : rows[i].lid = rows[top].lid => i = top
  BY InOrder
<1>5. \A i \in I : i <= top
  BY <1>3, InOrder
<1>6. AtLid(c, Highest(Lids(I))) = top
  BY <1>2, <1>4 DEF AtLid
<1> QED
  BY <1>2, <1>3, <1>4, <1>5, <1>6

LEMMA ShownFacts ==
  ASSUME TypeOK, NEW c \in Chat
  PROVE  /\ Shown(c) \in SUBSET In(c) /\ IsFiniteSet(Shown(c)) /\ mine[c].cut \in Nat
         /\ \A i \in Shown(c) : /\ rows[i].lid \in Nat /\ rows[i].lid > mine[c].cut /\ rows[i].lid > 0
                                /\ ~ rows[i].deleted
<1>1. Shown(c) \in SUBSET In(c) /\ \A i \in Shown(c) : rows[i].lid > mine[c].cut /\ ~ rows[i].deleted
  BY DEF Shown, Visible, In
<1>2. IsFiniteSet(Shown(c)) /\ \A i \in Shown(c) : i \in DOMAIN rows
  BY InFacts, LidsFacts
<1>3. mine[c].cut \in Nat
  BY DEF TypeOK, Mine
<1> QED
  BY <1>1, <1>2, <1>3, RowsTyped

LEMMA ConvLastTyped ==
  ASSUME TypeOK, StoreInv, NEW c \in Chat
  PROVE  ConvLast(c) \in Nat /\ last[c] \in Nat /\ mine[c].last \in Nat
<1>1. last[c] \in Nat /\ mine[c].last \in Nat /\ periods[c] \in SUBSET Period
  BY DEF TypeOK, Mine
<1> DEFINE P == periods[c]
           ends == {p.end : p \in P}
           f == [p \in P |-> p.end]
<1>2. Highest(ends) \in Nat
  <2>1. ends \in SUBSET Nat
    BY <1>1 DEF Period
  <2>2. f \in Surjection(P, ends)
    BY DEF Surjection
  <2>3. IsFiniteSet(P)
    BY DEF StoreInv
  <2> HIDE DEF f, ends, P
  <2>4. IsFiniteSet(ends)
    BY <2>2, <2>3, FS_Surjection
  <2> QED
    BY <2>1, <2>4, HighestFacts
<1> QED
  BY <1>1, <1>2 DEF ConvLast

\* A count of what can be seen
LEMMA CountFacts ==
  ASSUME TypeOK, NEW c \in Chat
  PROVE  /\ Cardinality(Beyond(c) \cap Shown(c)) \in Nat
         /\ Cardinality(Beyond(c) \cap Shown(c)) > 0 <=> Beyond(c) \cap Shown(c) # {}
<1>1. IsFiniteSet(Shown(c)) /\ Beyond(c) \cap Shown(c) \in SUBSET Shown(c)
  BY ShownFacts
<1>2. IsFiniteSet(Beyond(c) \cap Shown(c))
  BY <1>1, FS_Subset
<1> QED
  BY <1>2, FS_CardinalityType, FS_EmptySet

LEMMA UnreadOfMember ==
  ASSUME TypeOK, StoreInv, NEW c \in Chat, mine[c].in, Current(c)
  PROVE  /\ UnreadCount(c) = Cardinality(Beyond(c) \cap Shown(c))
         /\ Beyond(c) \cap Shown(c) # {} => Listed(c) /\ ListedUnread(c)
<1>1. /\ read[c][Me] \in Nat /\ mine[c].cut \in Nat /\ last[c] \in Nat
      /\ ConvLast(c) = last[c]
  BY ConvLastTyped, ShownFacts DEF TypeOK, User, ConvLast
<1>2. ASSUME NEW i \in Beyond(c) \cap Shown(c)
      PROVE  /\ last[c] > read[c][Me] /\ last[c] > mine[c].cut /\ EffLast(c) = last[c]
  <2>1. /\ rows[i].lid \in Nat /\ rows[i].lid > read[c][Me] /\ rows[i].lid > mine[c].cut
        /\ rows[i].lid <= last[c]
    BY <1>1, ShownFacts DEF Beyond, Current
  <2> QED
    BY <1>1, <2>1 DEF EffLast
<1>3. CASE Beyond(c) \cap Shown(c) = {}
  BY <1>3, FS_EmptySet DEF UnreadCount
<1>4. CASE Beyond(c) \cap Shown(c) # {}
  BY <1>1, <1>2, <1>4 DEF UnreadCount, Listed, ListedUnread
<1> QED
  BY <1>3, <1>4

LEMMA UnreadIsTheSame ==
  ASSUME TypeOK, StoreInv
  PROVE  UnreadAgrees
<1>1. ASSUME NEW c \in Chat, mine[c].in, Current(c)
      PROVE  /\ UnreadCount(c) = HistoryUnread(c) /\ UnreadCountById(c) = HistoryUnread(c)
             /\ UnreadCount(c) > 0 => Listed(c) /\ ListedUnread(c)
  BY <1>1, UnreadOfMember, CountFacts DEF HistoryUnread, UnreadCountById
<1>2. ASSUME \A c \in Chat : Current(c)
      PROVE  UnreadConversations = Cardinality({c \in Chat : UnreadCount(c) > 0})
  <2>1. ASSUME NEW c \in Chat
        PROVE  mine[c].in /\ Beyond(c) \cap Shown(c) # {} <=> UnreadCount(c) > 0
    <3>1. CASE mine[c].in
      BY <1>2, <3>1, UnreadOfMember, CountFacts
    <3>2. CASE ~ mine[c].in
      BY <3>2 DEF UnreadCount
    <3> QED BY <3>1, <3>2
  <2>2. {c \in Chat : mine[c].in /\ Beyond(c) \cap Shown(c) # {}} = {c \in Chat : UnreadCount(c) > 0}
    BY <2>1
  <2> QED
    BY <2>2 DEF UnreadConversations
<1>3. ASSUME NEW c \in Chat, mine[c].in PROVE Beyond(c) \cap Shown(c) \subseteq Get(TRUE)
  BY <1>3, ShownFacts DEF Beyond, Get, In
<1> QED
  BY <1>1, <1>2, <1>3 DEF UnreadAgrees

\* The endpoints agree on what is unread.
THEOREM UnreadIsAgreedOn == Spec => []UnreadAgrees
  BY UnreadIsTheSame, TypeCorrect, StoreInvariant, PTL

\* The last message about my departure is the one that counts.
LEMMA PlaceTold ==
  ASSUME TypeOK, StoreInv
  PROVE  PlaceIsTrue
<1> SUFFICES ASSUME NEW c \in Group
             PROVE  /\ State(c) = mine[c].gone
                    /\ ChatFlags(c) = [left |-> mine[c].gone = "left", kicked |-> mine[c].gone = "kicked"]
  BY DEF PlaceIsTrue
<1>1. c \in Chat /\ Departed(c) /\ Ascending
  BY ReadingAssumption DEF StoreInv
<1>2. CASE mine[c].in
  <2>1. mine[c].gone = "in"
    BY <1>1, <1>2 DEF Departed
  <2> QED
    BY <1>2, <2>1 DEF State, ChatFlags
<1>3. CASE ~ mine[c].in
  <2> DEFINE K == {i \in In(c) : rows[i].kicks}
  <2>1. PICK i \in K : /\ \A j \in K : rows[j].lid <= rows[i].lid
                       /\ mine[c].gone = IF rows[i].from = Me THEN "left" ELSE "kicked"
    BY <1>1, <1>3 DEF Departed
  <2>2. K \in SUBSET In(c) /\ K # {}
    BY <2>1
  <2>3. LastKick(c) = {j \in K : rows[j].lid = Highest(Lids(K))}
    BY DEF LastKick
  <2> HIDE DEF K
  <2>4. PICK top \in K : /\ LastKick(c) = {top}
                         /\ \A j \in K : j <= top /\ rows[j].lid <= rows[top].lid
    BY <1>1, <2>2, <2>3, NewestOf
  <2>5. top = i
    BY <1>1, <2>1, <2>2, <2>4, InOrder
  <2>6. CASE rows[i].from = Me
    BY <1>3, <2>1, <2>4, <2>5, <2>6 DEF State, ChatFlags
  <2>7. CASE rows[i].from # Me
    BY <1>3, <2>1, <2>4, <2>5, <2>7 DEF State, ChatFlags
  <2> QED BY <2>6, <2>7
<1> QED
  BY <1>2, <1>3

\* Who was put out learns so, and who left does not, until he returns.
THEOREM PlaceIsTold == Spec => []PlaceIsTrue
  BY PlaceTold, TypeCorrect, StoreInvariant, PTL

-----------------------------------------------------------------------------
(* The last message, and where the read marks are.                         *)

\* What takes the place of a last message that I may not see
ShownAt(c, eff) ==
  IF eff <= mine[c].cut THEN {}
  ELSE LET I == {i \in Shown(c) : rows[i].lid = eff}
       IN  IF I # {} THEN I ELSE {i \in Shown(c) : rows[i].lid = Highest(Lids(Shown(c)))}
Newest(c) == {i \in Shown(c) : rows[i].lid = Highest(Lids(Shown(c)))}
UpTo(c, n) == \A i \in Shown(c) : rows[i].lid <= n

LEMMA ShownNewest ==
  ASSUME TypeOK, Ascending, NEW c \in Chat, Shown(c) # {}
  PROVE  \E top \in Shown(c) :
           /\ Newest(c) = {top} /\ top \in In(c) /\ rows[top].lid = Highest(Lids(Shown(c)))
           /\ AtLid(c, rows[top].lid) = top
           /\ \A i \in Shown(c) : i <= top /\ rows[i].lid <= rows[top].lid
<1>1. PICK I \in SUBSET In(c) : I = Shown(c)
  BY ShownFacts
<1>2. \E top \in I :
        /\ rows[top].lid = Highest(Lids(I)) /\ AtLid(c, Highest(Lids(I))) = top
        /\ {i \in I : rows[i].lid = Highest(Lids(I))} = {top}
        /\ \A i \in I : i <= top /\ rows[i].lid <= rows[top].lid
  BY <1>1, NewestOf
<1> QED
  BY <1>1, <1>2, ShownFacts DEF Newest

\* Whichever id it starts from, if nothing lies beyond that, it is the newest.
LEMMA ShownAtIsNewest ==
  ASSUME TypeOK, Ascending, NEW c \in Chat, NEW eff,
         Shown(c) # {} => eff \in Nat /\ UpTo(c, eff)
  PROVE  ShownAt(c, eff) = Newest(c)
<1>1. CASE Shown(c) = {}
  BY <1>1 DEF ShownAt, Newest
<1>2. CASE Shown(c) # {}
  <2>1. PICK top \in Shown(c) :
          /\ Newest(c) = {top} /\ rows[top].lid = Highest(Lids(Shown(c)))
          /\ \A i \in Shown(c) : i <= top /\ rows[i].lid <= rows[top].lid
    BY <1>2, ShownNewest
  <2>2. /\ rows[top].lid \in Nat /\ mine[c].cut \in Nat /\ eff \in Nat
        /\ rows[top].lid > mine[c].cut /\ rows[top].lid <= eff
    BY <1>2, ShownFacts DEF UpTo
  <2>3. ~ (eff <= mine[c].cut)
    BY <2>2
  <2> DEFINE I == {i \in Shown(c) : rows[i].lid = eff}
  <2>4. CASE I = {}
    BY <2>3, <2>4 DEF ShownAt, Newest
  <2>5. CASE I # {}
    <3>1. PICK i \in Shown(c) : rows[i].lid = eff
      BY <2>5
    <3>2. rows[top].lid = eff
      BY <2>1, <2>2, <3>1
    <3>3. I = Newest(c)
      BY <2>1, <3>2 DEF Newest
    <3> QED
      BY <2>3, <2>5, <3>3 DEF ShownAt
  <2> QED BY <2>4, <2>5
<1> QED BY <1>1, <1>2

LEMMA LastMessageIs ==
  ASSUME TypeOK, StoreInv, NEW c \in Chat
  PROVE  /\ Current(c) => LastMessage(c) = Newest(c)
         /\ UpTo(c, last[c]) => LastMessageById(c) = Newest(c)
<1>1. ConvLast(c) \in Nat /\ last[c] \in Nat /\ Ascending
  BY ConvLastTyped DEF StoreInv
<1>2. LastMessage(c) = ShownAt(c, EffLast(c)) /\ LastMessageById(c) = ShownAt(c, EffLastById(c))
  BY DEF LastMessage, LastMessageById, ShownAt
<1>3. ASSUME Current(c) PROVE LastMessage(c) = Newest(c)
  <2>1. Shown(c) # {} => EffLast(c) \in Nat /\ UpTo(c, EffLast(c))
    BY <1>1, <1>3, ShownFacts DEF Current, UpTo, EffLast
  <2>2. PICK eff : eff = EffLast(c)
    OBVIOUS
  <2> QED
    BY <1>1, <1>2, <2>1, <2>2, ShownAtIsNewest
<1>4. ASSUME UpTo(c, last[c]) PROVE LastMessageById(c) = Newest(c)
  <2>1. Shown(c) # {} => EffLastById(c) \in Nat /\ UpTo(c, EffLastById(c))
    BY <1>1, <1>4, ShownFacts DEF UpTo, EffLastById
  <2>2. PICK eff : eff = EffLastById(c)
    OBVIOUS
  <2> QED
    BY <1>1, <1>2, <2>1, <2>2, ShownAtIsNewest
<1> QED BY <1>3, <1>4

LEMMA HighestOfOne ==
  ASSUME NEW n \in Nat
  PROVE  Highest({n}) = n
<1>1. \E m \in {n} : \A k \in {n} : k <= m
  OBVIOUS
<1> QED
  BY <1>1 DEF Highest

\* The newest page of one message
LEMMA FirstPage ==
  ASSUME TypeOK, Ascending, NEW c \in Chat
  PROVE  /\ Shown(c) = {} => GetHistory(c, 0, 0, 1, FALSE) = << >>
         /\ \A top \in Shown(c) :
              (\A i \in Shown(c) : rows[i].lid <= rows[top].lid)
                => GetHistory(c, 0, 0, 1, FALSE) = << rows[top].lid >>
<1>1. PICK M \in SUBSET Nat : M = Messages(c) /\ IsFiniteSet(M)
  BY AllMessages
<1>2. From(c, 0) = M
  BY <1>1 DEF From
<1>3. PICK s \in Seq(M) : /\ s = Down(M) /\ Len(s) = Cardinality(M) /\ Cardinality(M) \in Nat
                          /\ \A l \in M : s[Above(M, l)] = l
  BY <1>1, OrderFacts
<1>4. PICK p : p = Slice(s, 0, 1)
  OBVIOUS
<1>5. /\ p \in Seq(M) /\ Len(p) \in 0 .. 1 /\ Len(p) <= Len(s)
      /\ Len(p) < 1 => Len(p) >= Len(s)
      /\ Len(p) = 1 => p[1] = s[1]
  <2>1. \A from, count \in Nat : count > 0 =>
          LET q == Slice(s, from, count) IN
          /\ q \in Seq(M) /\ Len(q) \in 0 .. count
          /\ from + Len(q) <= Len(s) \/ Len(q) = 0
          /\ Len(q) < count => from + Len(q) >= Len(s)
          /\ \A i \in 1 .. Len(q) : q[i] = s[from + i]
    BY SliceFacts
  <2>2. Len(s) \in Nat /\ 0 \in Nat /\ 1 \in Nat /\ 1 > 0
    OBVIOUS
  <2>3. /\ p \in Seq(M) /\ Len(p) \in 0 .. 1
        /\ 0 + Len(p) <= Len(s) \/ Len(p) = 0
        /\ Len(p) < 1 => 0 + Len(p) >= Len(s)
        /\ \A i \in 1 .. Len(p) : p[i] = s[0 + i]
    BY <1>4, <2>1, <2>2
  <2> QED
    BY <2>2, <2>3
<1>6. GetHistory(c, 0, 0, 1, FALSE) = p
  <2>1. \A z \in Nat : GetHistory(c, z, z, 1, FALSE) = Slice(Down(From(c, z)), z, 1)
    BY HistoryPage
  <2> QED
    BY <1>2, <1>3, <1>4, <2>1
<1>7. CASE Shown(c) = {}
  <2>1. M = {}
    BY <1>1, <1>7 DEF Messages, Lids
  <2>2. Len(p) = 0
    BY <1>3, <1>5, <2>1, FS_EmptySet
  <2>3. p = << >>
    BY <1>5, <2>2
  <2> QED
    BY <1>6, <1>7, <2>3
<1>8. ASSUME NEW top \in Shown(c), \A i \in Shown(c) : rows[i].lid <= rows[top].lid
      PROVE  GetHistory(c, 0, 0, 1, FALSE) = << rows[top].lid >>
  <2>1. PICK n \in M : n = rows[top].lid
    BY <1>1 DEF Messages, Lids
  <2>2. \A m \in M : m <= n
    BY <1>1, <1>8, <2>1 DEF Messages, Lids
  <2>3. {m \in M : m >= n} = {n}
    BY <1>1, <2>2
  <2>4. Above(M, n) = 1
    BY <2>3, FS_Singleton DEF Above
  <2>5. s[1] = n
    BY <1>3, <2>4
  <2>6. Len(s) # 0
    BY <1>1, <1>3, <2>1, FS_EmptySet
  <2>7. Len(p) = 1
    BY <1>3, <1>5, <2>6
  <2>8. p = << n >>
    BY <1>5, <2>5, <2>7
  <2> QED
    BY <1>6, <2>1, <2>8
<1> QED BY <1>7, <1>8

LEMMA LastIsNewest ==
  ASSUME TypeOK, StoreInv
  PROVE  LastMessageIsNewest
<1> SUFFICES ASSUME NEW c \in Chat, Listed(c), Current(c)
             PROVE  /\ [j \in 1 .. Cardinality(LastMessage(c)) |-> Highest(Lids(LastMessage(c)))]
                         = GetHistory(c, 0, 0, 1, FALSE)
                    /\ (\A i \in Shown(c) : rows[i].lid <= last[c]) => ConversationById(c) = Conversation(c)
  BY DEF LastMessageIsNewest
<1>1. Ascending /\ LastMessage(c) = Newest(c)
  BY LastMessageIs DEF StoreInv
<1>2. [j \in 1 .. Cardinality(LastMessage(c)) |-> Highest(Lids(LastMessage(c)))]
        = GetHistory(c, 0, 0, 1, FALSE)
  <2>1. CASE Shown(c) = {}
    <3>1. LastMessage(c) = {} /\ Cardinality(LastMessage(c)) = 0
      BY <1>1, <2>1, FS_EmptySet DEF Newest
    <3>2. GetHistory(c, 0, 0, 1, FALSE) = << >>
      BY <1>1, <2>1, FirstPage
    <3>3. \A x : [j \in 1 .. 0 |-> x] = << >>
      OBVIOUS
    <3> QED
      BY <3>1, <3>2, <3>3
  <2>2. CASE Shown(c) # {}
    <3>1. PICK top \in Shown(c) :
            /\ Newest(c) = {top} /\ \A i \in Shown(c) : rows[i].lid <= rows[top].lid
      BY <1>1, <2>2, ShownNewest
    <3>2. PICK n \in Nat : n = rows[top].lid
      BY ShownFacts
    <3>3. Cardinality(LastMessage(c)) = 1 /\ Lids(LastMessage(c)) = {n}
      <4>1. LastMessage(c) = {top} /\ Cardinality({top}) = 1
        BY <1>1, <3>1, FS_Singleton
      <4>2. Lids({top}) = {n}
        BY <3>2 DEF Lids
      <4> QED
        BY <4>1, <4>2
    <3>4. Highest(Lids(LastMessage(c))) = n
      BY <3>3, HighestOfOne
    <3>5. GetHistory(c, 0, 0, 1, FALSE) = << n >>
      BY <1>1, <3>1, <3>2, FirstPage
    <3>6. [j \in 1 .. 1 |-> n] = << n >>
      OBVIOUS
    <3> QED
      BY <3>3, <3>4, <3>5, <3>6
  <2> QED BY <2>1, <2>2
<1>3. ASSUME \A i \in Shown(c) : rows[i].lid <= last[c]
      PROVE  ConversationById(c) = Conversation(c)
  <2>1. LastMessageById(c) = LastMessage(c)
    BY <1>1, <1>3, LastMessageIs DEF UpTo
  <2>2. PICK M : M = LastMessage(c)
    OBVIOUS
  <2>3. CASE M = {}
    <3>1. Highest(M) = 0
      BY <2>3 DEF Highest
    <3>2. \A a, b : ResolveGlobalMsgID(c, read[c][Me], a, 0) = ResolveGlobalMsgID(c, read[c][Me], b, 0)
      BY DEF ResolveGlobalMsgID
    <3> QED
      BY <2>1, <2>2, <3>1, <3>2 DEF Conversation, ConversationById, InRead
  <2>4. CASE M # {}
    BY <2>1, <2>2, <2>4 DEF Conversation, ConversationById, InRead
  <2> QED BY <2>3, <2>4
<1> QED BY <1>2, <1>3

\* The list shows the message the history begins with, and so does the
\* conversation asked for alone.
THEOREM LastMessageIsTheNewest == Spec => []LastMessageIsNewest
  BY LastIsNewest, TypeCorrect, StoreInvariant, PTL

\* A mark that is resolved to an id divides the messages where the local id does.
LEMMA MarkDivides ==
  ASSUME TypeOK, StoreInv, NEW c \in Chat, NEW l \in Nat, There(c, l),
         NEW top \in Shown(c), \A i \in Shown(c) : i <= top /\ rows[i].lid <= rows[top].lid,
         NEW i \in Shown(c)
  PROVE  rows[i].lid <= l <=> i <= ResolveGlobalMsgID(c, l, rows[top].lid, top)
<1>1. /\ Ascending /\ i \in In(c) /\ top \in In(c) /\ i \in Nat /\ i > 0 /\ top \in Nat /\ top > 0
      /\ rows[i].lid \in Nat /\ rows[i].lid > 0 /\ rows[top].lid \in Nat /\ rows[top].lid > 0
  BY ShownFacts, InOrder DEF StoreInv
<1>2. CASE l = 0
  BY <1>1, <1>2 DEF ResolveGlobalMsgID
<1>3. CASE l # 0 /\ l >= rows[top].lid
  <2>1. ResolveGlobalMsgID(c, l, rows[top].lid, top) = top
    BY <1>1, <1>3 DEF ResolveGlobalMsgID
  <2>2. i <= top /\ rows[i].lid <= rows[top].lid
    OBVIOUS
  <2> QED
    BY <1>1, <1>3, <2>1, <2>2
<1>4. CASE l # 0 /\ ~ (l >= rows[top].lid)
  <2>1. PICK I \in SUBSET In(c) : I = {j \in In(c) : rows[j].lid <= l}
    OBVIOUS
  <2>2. I # {}
    BY <1>4, <2>1 DEF There
  <2>3. PICK t \in I : AtLid(c, Highest(Lids(I))) = t /\ \A j \in I : j <= t
    BY <1>1, <2>2, NewestOf
  <2>4. ResolveGlobalMsgID(c, l, rows[top].lid, top) = t
    BY <1>4, <2>1, <2>2, <2>3 DEF ResolveGlobalMsgID
  <2>5. rows[i].lid <= rows[t].lid <=> i <= t
    BY <1>1, <2>3, InOrder
  <2>6. rows[t].lid \in Nat /\ rows[t].lid <= l
    BY <1>1, <2>1, <2>3, InOrder
  <2>7. rows[i].lid <= l => i <= t
    BY <1>1, <2>1, <2>3
  <2> QED
    BY <1>1, <2>4, <2>5, <2>6, <2>7
<1> QED BY <1>2, <1>3, <1>4

LEMMA OutReadFacts ==
  ASSUME TypeOK, Pointers, NEW c \in Chat, NEW n \in Nat, LastMessage(c) # {}
  PROVE  n <= OutReadCMID(c) <=> \E u \in Other : read[c][u] >= n
<1> DEFINE R == {read[c][u] : u \in Other}
<1>1. \A u \in Other : u \in User /\ read[c][u] \in Nat
  BY DEF User, TypeOK
<1>2. R \in SUBSET Nat /\ R # {}
  BY <1>1, ReadingAssumption
<1>3. PICK F : F = Lids(In(c)) \cup {0}
  OBVIOUS
<1>4. IsFiniteSet(F)
  <2>1. IsFiniteSet(Lids(In(c)))
    BY InFacts, LidsFacts
  <2> QED
    BY <1>3, <2>1, FS_AddElement
<1>5. R \in SUBSET F
  <2>1. \A u \in Other : read[c][u] \in F
    BY <1>1, <1>3 DEF Pointers, There, Lids
  <2> QED
    BY <2>1
<1>6. OutReadCMID(c) = Highest(R)
  BY DEF OutReadCMID, LastMessage
<1>7. \A m : m \in R <=> \E u \in Other : m = read[c][u]
  OBVIOUS
<1> HIDE DEF R
<1>8. Highest(R) \in R /\ \A m \in R : m <= Highest(R)
  BY <1>2, <1>4, <1>5, FS_Subset, HighestFacts
<1>9. Highest(R) \in Nat
  BY <1>2, <1>8
<1>10. ASSUME n <= Highest(R) PROVE \E u \in Other : read[c][u] >= n
  BY <1>1, <1>7, <1>8, <1>9, <1>10
<1>11. ASSUME NEW u \in Other, read[c][u] >= n PROVE n <= Highest(R)
  <2>1. read[c][u] <= Highest(R)
    BY <1>7, <1>8
  <2> QED
    BY <1>1, <1>9, <1>11, <2>1
<1> QED BY <1>6, <1>10, <1>11

LEMMA MarksAgree ==
  ASSUME TypeOK, StoreInv
  PROVE  ReadMarksAgree
<1> SUFFICES ASSUME NEW c \in Chat, NEW i \in Shown(c)
             PROVE  /\ Current(c) => (rows[i].lid <= read[c][Me] <=> i <= InRead(c, LastMessage(c)))
                    /\ rows[i].lid <= read[c][Me] <=> i <= HistoryInRead(c, GetHistory(c, 0, 0, 1, FALSE))
                    /\ rows[i].from = Me =>
                         /\ LastMessage(c) # {} => (ReadStateOf(i) <=> rows[i].lid <= OutReadCMID(c))
                         /\ mine[c].in => /\ ReadStateOf(i) <=> GetMessageViewers(i) # {}
                                          /\ GetMessageViewers(i) = ReadBy(i) \ {Me}
  BY DEF ReadMarksAgree
<1>1. PICK l \in Nat : l = read[c][Me] /\ There(c, l)
  BY DEF StoreInv, Pointers, TypeOK, User
<1>2. PICK top \in Shown(c) :
        /\ Newest(c) = {top} /\ AtLid(c, rows[top].lid) = top
        /\ \A j \in Shown(c) : j <= top /\ rows[j].lid <= rows[top].lid
  BY ShownNewest DEF StoreInv
<1>3. rows[i].lid <= l <=> i <= ResolveGlobalMsgID(c, l, rows[top].lid, top)
  BY <1>1, <1>2, MarkDivides
<1>4. rows[top].lid \in Nat /\ top \in Nat /\ rows[i].lid \in Nat /\ rows[i].chat = c
  BY ShownFacts, RowsTyped, InFacts DEF In
<1>5. ASSUME Current(c) PROVE rows[i].lid <= read[c][Me] <=> i <= InRead(c, LastMessage(c))
  <2>1. LastMessage(c) = {top}
    BY <1>2, <1>5, LastMessageIs
  <2>2. Lids({top}) = {rows[top].lid}
    BY DEF Lids
  <2>3. Highest(Lids({top})) = rows[top].lid /\ Highest({top}) = top
    BY <1>4, <2>2, HighestOfOne
  <2>4. InRead(c, LastMessage(c)) = ResolveGlobalMsgID(c, l, rows[top].lid, top)
    BY <1>1, <2>1, <2>3 DEF InRead
  <2> QED
    BY <1>1, <1>3, <2>4
<1>6. rows[i].lid <= read[c][Me] <=> i <= HistoryInRead(c, GetHistory(c, 0, 0, 1, FALSE))
  <2>1. PICK page : page = << rows[top].lid >> /\ page = GetHistory(c, 0, 0, 1, FALSE)
    BY <1>2, FirstPage DEF StoreInv
  <2>2. page # << >> /\ page[1] = rows[top].lid
    BY <2>1
  <2>3. HistoryInRead(c, page) = ResolveGlobalMsgID(c, l, rows[top].lid, top)
    BY <1>1, <1>2, <2>2 DEF HistoryInRead
  <2> QED
    BY <1>1, <1>3, <2>1, <2>3
<1>7. ASSUME rows[i].from = Me
      PROVE  /\ LastMessage(c) # {} => (ReadStateOf(i) <=> rows[i].lid <= OutReadCMID(c))
             /\ mine[c].in => /\ ReadStateOf(i) <=> GetMessageViewers(i) # {}
                              /\ GetMessageViewers(i) = ReadBy(i) \ {Me}
  <2>1. ReadStateOf(i) <=> \E u \in Other : read[c][u] >= rows[i].lid
    BY <1>4, <1>7 DEF ReadStateOf
  <2>2. LastMessage(c) # {} =>
          (rows[i].lid <= OutReadCMID(c) <=> \E u \in Other : read[c][u] >= rows[i].lid)
    BY <1>4, OutReadFacts DEF StoreInv
  <2>3. mine[c].in => GetMessageViewers(i) = {u \in Other : read[c][u] >= rows[i].lid}
    BY <1>4 DEF GetMessageViewers
  <2>4. mine[c].in => GetMessageViewers(i) = ReadBy(i) \ {Me}
    BY <1>4, ReadingAssumption DEF GetMessageViewers, ReadBy, User
  <2> QED
    BY <2>1, <2>2, <2>3, <2>4
<1> QED BY <1>5, <1>6, <1>7

\* Read marks drawn from whatever the client is given are the same, save the
\* list's where it shows no last message and the viewers' when I have left.
THEOREM ReadMarksAreAgreedOn == Spec => []ReadMarksAgree
  BY MarksAgree, TypeCorrect, StoreInvariant, PTL

-----------------------------------------------------------------------------
(* The client that fetches pages.                                          *)

\* What a page that begins behind offset items makes of one further back
LEMMA SliceHas ==
  ASSUME NEW S, NEW s \in Seq(S), NEW offset \in Nat, NEW count \in Nat, count > 0,
         NEW p \in 1 .. Len(s), p > offset
  PROVE  LET q == Slice(s, offset, count) IN
         \/ \E j \in 1 .. Len(q) : q[j] = s[p]
         \/ Len(q) = count /\ p > offset + Len(q)
<1>1. PICK q : q = Slice(s, offset, count)
  OBVIOUS
<1>2. LET r == Slice(s, offset, count) IN
      /\ Len(r) \in 0 .. count
      /\ Len(r) < count => offset + Len(r) >= Len(s)
      /\ \A i \in 1 .. Len(r) : r[i] = s[offset + i]
  BY SliceFacts
<1>3. /\ Len(q) \in 0 .. count /\ Len(s) \in Nat /\ p \in Nat
      /\ Len(q) < count => offset + Len(q) >= Len(s)
      /\ \A i \in 1 .. Len(q) : q[i] = s[offset + i]
  BY <1>1, <1>2
<1>4. CASE p <= offset + Len(q)
  <2>1. PICK j : j = p - offset
    OBVIOUS
  <2>2. j \in 1 .. Len(q) /\ offset + j = p
    BY <1>3, <1>4, <2>1
  <2> QED
    BY <1>1, <1>3, <2>2
<1>5. CASE ~ (p <= offset + Len(q))
  BY <1>1, <1>3, <1>5
<1> QED BY <1>4, <1>5

LEMMA ConcatHas ==
  ASSUME NEW S, NEW s \in Seq(S), NEW t \in Seq(S)
  PROVE  /\ Len(s \o t) = Len(s) + Len(t) /\ DOMAIN (s \o t) = 1 .. (Len(s) + Len(t))
         /\ \A j \in DOMAIN s : j \in DOMAIN (s \o t) /\ (s \o t)[j] = s[j]
         /\ \A j \in 1 .. Len(t) : Len(s) + j \in DOMAIN (s \o t) /\ (s \o t)[Len(s) + j] = t[j]
         /\ \A j \in DOMAIN (s \o t) : j \notin DOMAIN s =>
              j - Len(s) \in 1 .. Len(t) /\ (s \o t)[j] = t[j - Len(s)]
<1>1. Len(s) \in Nat /\ Len(t) \in Nat /\ DOMAIN s = 1 .. Len(s)
  OBVIOUS
<1>2. /\ Len(s \o t) = Len(s) + Len(t) /\ DOMAIN (s \o t) = 1 .. (Len(s) + Len(t))
      /\ \A j \in 1 .. (Len(s) + Len(t)) : (s \o t)[j] = IF j <= Len(s) THEN s[j] ELSE t[j - Len(s)]
  BY <1>1
<1> QED
  BY <1>1, <1>2

\* A page of messages, the newer first, behind offset of them; it is full or has
\* all the rest.
PageDown(S, offset, count, q) ==
  /\ Len(q) \in 0 .. count /\ \A j \in 1 .. Len(q) : q[j] \in S
  /\ \A j, k \in 1 .. Len(q) : j < k => q[j] > q[k]
  /\ \A x \in S : Above(S, x) > offset =>
       \/ \E j \in 1 .. Len(q) : q[j] = x
       \/ Len(q) = count /\ Above(S, x) > offset + Len(q) /\ x < q[Len(q)]

LEMMA DownPage ==
  ASSUME NEW S \in SUBSET Nat, IsFiniteSet(S), NEW offset \in Nat, NEW count \in Nat, count > 0,
         NEW q, q = Slice(Down(S), offset, count)
  PROVE  PageDown(S, offset, count, q)
<1>1. PICK s \in Seq(S) :
        /\ s = Down(S) /\ Len(s) = Cardinality(S)
        /\ \A n \in 1 .. Len(s) : s[n] \in S /\ Above(S, s[n]) = n
        /\ \A l \in S : s[Above(S, l)] = l
  <2>1. /\ Down(S) \in Seq(S) /\ Len(Down(S)) = Cardinality(S)
        /\ \A n \in 1 .. Cardinality(S) : Above(S, Down(S)[n]) = n
        /\ \A l \in S : Down(S)[Above(S, l)] = l
    BY OrderFacts
  <2>2. \A n \in 1 .. Len(Down(S)) : Down(S)[n] \in S
    BY <2>1
  <2> QED
    BY <2>1, <2>2
<1>2. LET r == Slice(s, offset, count) IN
      /\ r \in Seq(S) /\ Len(r) \in 0 .. count
      /\ offset + Len(r) <= Len(s) \/ Len(r) = 0
      /\ \A i \in 1 .. Len(r) : r[i] = s[offset + i]
  BY SliceFacts
<1>3. /\ q \in Seq(S) /\ Len(q) \in 0 .. count /\ Len(s) \in Nat
      /\ offset + Len(q) <= Len(s) \/ Len(q) = 0
      /\ \A i \in 1 .. Len(q) : q[i] = s[offset + i]
  BY <1>1, <1>2
<1>4. \A i \in 1 .. Len(q) : q[i] \in S /\ q[i] \in Nat /\ Above(S, q[i]) = offset + i
  <2> SUFFICES ASSUME NEW i \in 1 .. Len(q) PROVE q[i] \in S /\ q[i] \in Nat /\ Above(S, q[i]) = offset + i
    OBVIOUS
  <2>1. offset + i \in 1 .. Len(s) /\ q[i] = s[offset + i]
    BY <1>3
  <2> QED
    BY <1>1, <2>1
<1>5. \A x, y \in S : /\ Above(S, x) \in 1 .. Len(s)
                      /\ Above(S, x) < Above(S, y) => y < x
  <2> SUFFICES ASSUME NEW x \in S, NEW y \in S
               PROVE  /\ Above(S, x) \in 1 .. Len(s) /\ (Above(S, x) < Above(S, y) => y < x)
    OBVIOUS
  <2>1. /\ Above(S, x) \in 1 .. Cardinality(S) /\ Above(S, y) \in 1 .. Cardinality(S)
        /\ (x < y => Above(S, y) < Above(S, x))
    BY PlacesFacts
  <2> QED
    BY <1>1, <1>3, <2>1
<1>6. ASSUME NEW j \in 1 .. Len(q), NEW k \in 1 .. Len(q), j < k PROVE q[j] > q[k]
  <2>1. Above(S, q[j]) < Above(S, q[k])
    BY <1>4, <1>6
  <2>2. q[k] < q[j]
    BY <1>4, <1>5, <2>1
  <2> QED
    BY <1>4, <2>2
<1>7. ASSUME NEW x \in S, Above(S, x) > offset
      PROVE  \/ \E j \in 1 .. Len(q) : q[j] = x
             \/ Len(q) = count /\ Above(S, x) > offset + Len(q) /\ x < q[Len(q)]
  <2>1. PICK p \in 1 .. Len(s) : p = Above(S, x) /\ s[p] = x
    BY <1>1, <1>5
  <2>2. LET r == Slice(s, offset, count) IN
        (\E j \in 1 .. Len(r) : r[j] = s[p]) \/ (Len(r) = count /\ p > offset + Len(r))
    BY <1>7, <2>1, SliceHas
  <2>3. (\E j \in 1 .. Len(q) : q[j] = x) \/ (Len(q) = count /\ p > offset + Len(q))
    BY <1>1, <2>1, <2>2
  <2>4. ASSUME Len(q) = count, p > offset + Len(q) PROVE x < q[Len(q)]
    <3>1. Len(q) \in 1 .. Len(q)
      BY <1>3, <2>4
    <3>2. Above(S, q[Len(q)]) < Above(S, x)
      BY <1>4, <2>1, <2>4, <3>1
    <3> QED
      BY <1>4, <1>5, <3>1, <3>2
  <2> QED
    BY <2>1, <2>3, <2>4
<1> QED
  BY <1>3, <1>4, <1>6, <1>7 DEF PageDown

\* Where a message stands among those that can be seen
LEMMA AheadOfMessage ==
  ASSUME NEW S \in SUBSET Nat, IsFiniteSet(S), NEW x \in S
  PROVE  /\ Cardinality({m \in S : m > x}) \in Nat
         /\ Above(S, x) = Cardinality({m \in S : m > x}) + 1
<1> DEFINE A == {m \in S : m > x}
<1>1. A \in SUBSET S /\ x \notin A
  OBVIOUS
<1>2. {m \in S : m >= x} = A \cup {x}
  <2>1. \A m \in S : m \in Nat /\ x \in Nat
    OBVIOUS
  <2>2. \A m \in S : m >= x <=> (m > x \/ m = x)
    BY <2>1
  <2>3. \A m : m \in {n \in S : n >= x} <=> m \in A \cup {x}
    BY <2>2
  <2> QED
    BY <2>3
<1>3. IsFiniteSet(A)
  <2> HIDE DEF A
  <2> QED
    BY <1>1, FS_Subset
<1>4. Cardinality(A) \in Nat /\ Cardinality(A \cup {x}) = Cardinality(A) + 1
  <2> HIDE DEF A
  <2> QED
    BY <1>1, <1>3, FS_AddElement, FS_CardinalityType
<1> QED
  BY <1>2, <1>4 DEF Above

\* The rank of a conversation is one of its messages, or 0.
LEMMA RankFacts ==
  ASSUME TypeOK, NEW c
  PROVE  Rank(c) \in Nat /\ (Rank(c) > 0 => Rank(c) \in DOMAIN rows /\ rows[Rank(c)].chat = c)
<1> DEFINE I == {i \in Undeleted(c) : rows[i].lid = ConvLast(c) /\ rows[i].lid > mine[c].cut}
<1>1. I \in SUBSET DOMAIN rows /\ \A i \in I : rows[i].chat = c
  BY DEF Undeleted, In
<1>2. I \in SUBSET Nat /\ IsFiniteSet(I)
  <2>1. DOMAIN rows \in SUBSET Nat /\ IsFiniteSet(DOMAIN rows)
    BY RowsTyped
  <2> HIDE DEF I
  <2> QED
    BY <1>1, <2>1, FS_Subset
<1>3. Rank(c) = Highest(I)
  BY DEF Rank
<1> HIDE DEF I
<1>4. Highest(I) \in Nat /\ (I = {} => Highest(I) = 0) /\ (I # {} => Highest(I) \in I)
  BY <1>2, HighestFacts
<1> QED
  BY <1>1, <1>3, <1>4

\* In whichever order the list is delivered, ahead of a conversation that has a
\* message to sort by are those of higher rank, and no others.
LEMMA ListPlace ==
  ASSUME TypeOK, NEW order \in Orders, NEW x \in Sorted
  PROVE  \E p \in 1 .. Len(order) :
           order[p] = x /\ Cardinality({d \in Sorted : Rank(d) > Rank(x)}) = p - 1
<1>1. PICK L : L = {c \in Chat : Listed(c)}
  OBVIOUS
<1>2. /\ IsFiniteSet(L) /\ Cardinality(L) \in Nat
      /\ order \in Seq(L) /\ Len(order) = Cardinality(L)
      /\ \A i, j \in 1 .. Len(order) : order[i] = order[j] => i = j
      /\ \A i, j \in 1 .. Len(order) : i < j => ~ Before(order[j], order[i])
  BY <1>1, OrdersTyped
<1>3. Len(order) \in Nat /\ \A i \in 1 .. Len(order) : order[i] \in L
  BY <1>2
<1>4. \A c \in L : \E i \in 1 .. Len(order) : order[i] = c
  <2> DEFINE f == [i \in 1 .. Len(order) |-> order[i]]
  <2>1. f \in Injection(1 .. Len(order), L)
    BY <1>2, <1>3 DEF Injection, IsInjective
  <2>2. IsFiniteSet(1 .. Len(order)) /\ Cardinality(1 .. Len(order)) = Cardinality(L)
    BY <1>2, <1>3, FS_Interval
  <2>3. f \in Surjection(1 .. Len(order), L)
    <3> HIDE DEF f
    <3> QED
      BY <1>2, <2>1, <2>2, FS_Injection
  <2> QED
    BY <2>3 DEF Surjection
<1>5. x \in L /\ Rank(x) \in Nat /\ Rank(x) > 0
  BY <1>1, RankFacts DEF Sorted
<1>6. PICK p \in 1 .. Len(order) : order[p] = x
  BY <1>4, <1>5
<1> DEFINE A == {d \in Sorted : Rank(d) > Rank(x)}
           B == {order[j] : j \in 1 .. (p - 1)}
           g == [j \in 1 .. (p - 1) |-> order[j]]
<1>7. ASSUME NEW d \in A PROVE d \in B
  <2>1. d \in L /\ d \in Sorted /\ Rank(d) > Rank(x)
    BY <1>1 DEF Sorted
  <2>2. PICK i \in 1 .. Len(order) : order[i] = d
    BY <1>4, <2>1
  <2>3. Before(order[i], order[p])
    BY <1>6, <2>1, <2>2 DEF Before
  <2>4. ~ (p < i)
    BY <1>2, <2>3
  <2>5. i # p
    BY <1>5, <1>6, <2>1, <2>2
  <2>6. i \in 1 .. (p - 1)
    BY <1>3, <2>4, <2>5
  <2> QED
    BY <2>2, <2>6
<1>8. ASSUME NEW j \in 1 .. (p - 1) PROVE order[j] \in A
  <2>1. j \in 1 .. Len(order) /\ j < p
    BY <1>3
  <2>2. PICK d \in L : d = order[j]
    BY <1>3, <2>1
  <2>3. ~ Before(x, d) /\ d # x
    BY <1>2, <1>6, <2>1, <2>2
  <2>4. Rank(d) \in Nat /\ ~ (Rank(x) > Rank(d))
    BY <2>3, RankFacts DEF Before
  <2>5. Rank(d) # Rank(x)
    <3>1. Rank(x) > 0 => rows[Rank(x)].chat = x
      BY RankFacts
    <3>2. Rank(d) > 0 => rows[Rank(d)].chat = d
      BY RankFacts
    <3> QED
      BY <1>5, <2>3, <3>1, <3>2
  <2>6. Rank(d) > Rank(x) /\ Rank(d) > 0
    BY <1>5, <2>4, <2>5
  <2> QED
    BY <1>1, <2>2, <2>6 DEF Sorted
<1>9. A = B
  BY <1>7, <1>8
<1>10. g \in Bijection(1 .. (p - 1), B)
  <2>1. \A i, j \in 1 .. (p - 1) : order[i] = order[j] => i = j
    <3>1. \A i \in 1 .. (p - 1) : i \in 1 .. Len(order)
      BY <1>3
    <3> QED
      BY <1>2, <3>1
  <2> QED
    BY <2>1 DEF Bijection, Injection, Surjection, IsInjective
<1>11. p - 1 \in Nat /\ IsFiniteSet(1 .. (p - 1)) /\ Cardinality(1 .. (p - 1)) = p - 1
  BY FS_Interval
<1>12. Cardinality(B) = p - 1
  <2> HIDE DEF g, B
  <2>1. ExistsBijection(1 .. (p - 1), B)
    BY <1>10 DEF ExistsBijection
  <2> QED
    BY <1>11, <2>1, FS_Bijection
<1> QED
  BY <1>6, <1>9, <1>12

\* What is seen when nothing was written
LEMMA SeenTheSame ==
  ASSUME UNCHANGED store
  PROVE  /\ \A c : Messages(c)' = Messages(c) /\ Listed(c)' = Listed(c) /\ Rank(c)' = Rank(c)
         /\ Sorted' = Sorted
  BY DEF store, Messages, Lids, Shown, In, Undeleted, Visible, Listed, Rank, ConvLast, Sorted

\* The client's next page, of messages or of conversations: what lay ahead of it
\* is on the page or still lies ahead, and nothing does after a page not full.
LEMMA PageOfMessages ==
  ASSUME TypeOK, pager.client # "list",
         NEW page, Fetched(page), NEW n, n = Len(page),
         NEW V, V = Messages(pager.chat)
  PROVE  /\ n \in 0 .. PageSize /\ \A j \in 1 .. n : page[j] \in V /\ page[j] \in Nat \ {0}
         /\ pager.client = "scroll" => \A j, k \in 1 .. n : j < k => page[j] > page[k]
         /\ pager.client = "scroll" => \A j \in 1 .. n : pager.at = 0 \/ page[j] <= pager.at
         /\ \A x \in V : pager.client = "scroll" /\ (pager.at = 0 \/ x <= pager.at) =>
              (\E j \in 1 .. n : page[j] = x) \/ (n = PageSize /\ x < page[n])
         /\ \A x \in V : pager.client # "scroll" /\ Cardinality({m \in V : m > x}) >= pager.at =>
              \/ \E j \in 1 .. n : page[j] = x
              \/ n = PageSize /\ Cardinality({m \in V : m > x}) >= pager.at + n
<1>1. V \in SUBSET (Nat \ {0}) /\ V \in SUBSET Nat /\ IsFiniteSet(V)
  BY AllMessages
<1>2. PageSize \in Nat /\ PageSize > 0 /\ pager.at \in Nat
  BY PagerTyped, ReadingAssumption
<1>3. CASE pager.client = "scroll"
  <2>1. PICK W \in SUBSET Nat : W = From(pager.chat, pager.at) /\ W \in SUBSET V /\ IsFiniteSet(W)
    <3>1. From(pager.chat, pager.at) \in SUBSET V
      BY DEF From
    <3> QED
      BY <1>1, <3>1, FS_Subset
  <2>2. PICK zero \in Nat : zero = 0
    OBVIOUS
  <2>3. page = Slice(Down(W), zero, PageSize)
    BY <1>3, <2>1, <2>2 DEF Fetched
  <2>4. /\ Len(page) \in 0 .. PageSize /\ \A j \in 1 .. Len(page) : page[j] \in W
        /\ \A j, k \in 1 .. Len(page) : j < k => page[j] > page[k]
        /\ \A x \in W : Above(W, x) > zero =>
             \/ \E j \in 1 .. Len(page) : page[j] = x
             \/ Len(page) = PageSize /\ x < page[Len(page)]
    <3>1. PageDown(W, zero, PageSize, page)
      BY <1>2, <2>1, <2>3, DownPage
    <3> QED
      BY <3>1 DEF PageDown
  <2>5. \A x \in W : Above(W, x) > zero
    <3> SUFFICES ASSUME NEW x \in W PROVE Above(W, x) > zero
      OBVIOUS
    <3>1. Above(W, x) \in 1 .. Cardinality(W) /\ Cardinality(W) \in Nat
      BY <2>1, PlacesFacts, FS_CardinalityType
    <3> QED
      BY <2>2, <3>1
  <2>6. \A x \in V : (pager.at = 0 \/ x <= pager.at) <=> x \in W
    BY <2>1 DEF From
  <2>7. \A j \in 1 .. n : page[j] \in V /\ page[j] \in Nat \ {0} /\ (pager.at = 0 \/ page[j] <= pager.at)
    BY <1>1, <2>1, <2>4, <2>6
  <2>8. \A x \in V : (pager.at = 0 \/ x <= pager.at) =>
          (\E j \in 1 .. n : page[j] = x) \/ (n = PageSize /\ x < page[n])
    BY <2>4, <2>5, <2>6
  <2> QED
    BY <1>3, <2>4, <2>7, <2>8
<1>4. CASE pager.client # "scroll"
  <2>1. From(pager.chat, 0) = V
    BY DEF From
  <2>2. PICK at \in Nat : at = pager.at
    BY <1>2
  <2>3. page = Slice(Down(V), at, PageSize)
    <3>1. pager.client = "offset"
      BY <1>4, PagerTyped
    <3> QED
      BY <2>1, <2>2, <3>1 DEF Fetched
  <2>4. /\ Len(page) \in 0 .. PageSize /\ \A j \in 1 .. Len(page) : page[j] \in V
        /\ \A x \in V : Above(V, x) > at =>
             \/ \E j \in 1 .. Len(page) : page[j] = x
             \/ Len(page) = PageSize /\ Above(V, x) > at + Len(page)
    <3>1. PageDown(V, at, PageSize, page)
      BY <1>1, <1>2, <2>3, DownPage
    <3> QED
      BY <3>1 DEF PageDown
  <2>5. ASSUME NEW x \in V, Cardinality({m \in V : m > x}) >= pager.at
        PROVE  \/ \E j \in 1 .. n : page[j] = x
               \/ n = PageSize /\ Cardinality({m \in V : m > x}) >= pager.at + n
    <3>1. PICK k \in Nat : k = Cardinality({m \in V : m > x}) /\ Above(V, x) = k + 1
      BY <1>1, AheadOfMessage
    <3>2. Above(V, x) > at
      BY <2>2, <2>5, <3>1
    <3>3. Above(V, x) > at + n => k >= at + n
      BY <1>2, <2>4, <3>1
    <3> QED
      BY <2>2, <2>4, <3>1, <3>2, <3>3
  <2>6. \A j \in 1 .. n : page[j] \in V /\ page[j] \in Nat \ {0}
    BY <1>1, <2>4
  <2> QED
    BY <1>4, <2>4, <2>5, <2>6
<1> QED BY <1>3, <1>4

PageListed(page, n) ==
  \A x \in Sorted : Cardinality({d \in Sorted : Rank(d) > Rank(x)}) >= pager.at =>
    \/ \E j \in 1 .. n : page[j] = x
    \/ n = PageSize /\ Cardinality({d \in Sorted : Rank(d) > Rank(x)}) >= pager.at + n

LEMMA PageOfList ==
  ASSUME TypeOK, pager.client = "list",
         NEW page, Fetched(page), NEW n, n = Len(page)
  PROVE  PageListed(page, n)
<1>1. PICK at \in Nat, count \in Nat : at = pager.at /\ count = PageSize /\ count > 0
  BY PagerTyped, ReadingAssumption
<1>2. PICK order \in Orders : page = Slice(order, at, count)
  BY <1>1 DEF Fetched
<1>3. PICK L : L = {c \in Chat : Listed(c)}
  OBVIOUS
<1>4. order \in Seq(L)
  BY <1>3, OrdersTyped
<1>5. n \in 0 .. count
  <2>1. LET r == Slice(order, at, count) IN Len(r) \in 0 .. count
    BY <1>1, <1>4, SliceFacts
  <2> QED
    BY <1>2, <2>1
<1>6. ASSUME NEW x \in Sorted, Cardinality({d \in Sorted : Rank(d) > Rank(x)}) >= pager.at
      PROVE  \/ \E j \in 1 .. n : page[j] = x
             \/ n = PageSize /\ Cardinality({d \in Sorted : Rank(d) > Rank(x)}) >= pager.at + n
  <2>1. PICK p \in 1 .. Len(order) :
          order[p] = x /\ Cardinality({d \in Sorted : Rank(d) > Rank(x)}) = p - 1
    BY ListPlace
  <2>2. p > at /\ p \in Nat
    BY <1>1, <1>4, <1>6, <2>1
  <2>3. LET r == Slice(order, at, count) IN
        (\E j \in 1 .. Len(r) : r[j] = order[p]) \/ (Len(r) = count /\ p > at + Len(r))
    BY <1>1, <1>4, <2>2, SliceHas
  <2>4. p > at + n => p - 1 >= at + n
    BY <1>1, <1>5, <2>2
  <2> QED
    BY <1>1, <1>2, <2>1, <2>3, <2>4
<1> QED BY <1>6 DEF PageListed

\* What is ahead of the client is counted.
SeenTyped == \A c : Rank(c) \in Nat /\ IsFiniteSet(Messages(c)) /\ Messages(c) \in SUBSET (Nat \ {0})

LEMMA SeenIsTyped ==
  ASSUME TypeOK PROVE SeenTyped
  BY RankFacts, AllMessages DEF SeenTyped

\* While others write, what lies ahead stays ahead, or something is lost.
LEMMA AheadStays ==
  ASSUME TypeOK, SeenTyped, SeenTyped', PagerInv, Watch, pager.begun, ~ pager.done
  PROVE  /\ pager'.begun /\ ~ pager'.done /\ pager'.client = pager.client /\ pager'.at = pager.at
         /\ pager'.got = pager.got /\ pager'.steady \in SUBSET pager.steady
         /\ pager.lost => pager'.lost
         /\ pager'.steady \subseteq (IF pager'.client = "list" THEN Sorted' ELSE Messages(pager.chat)')
         /\ pager'.lost \/ \A x \in pager'.steady :
              Cardinality(Ahead(x)) >= pager.at => Cardinality(Ahead(x)') >= pager.at
<1>1. pager.at \in Nat /\ pager \in Pager
  BY PagerTyped
<1>2. ASSUME NEW A, NEW B, A \in SUBSET B, IsFiniteSet(B), Cardinality(A) >= pager.at
      PROVE  Cardinality(B) >= pager.at
  <2>1. /\ IsFiniteSet(A) /\ Cardinality(A) <= Cardinality(B)
    BY <1>2, FS_Subset
  <2>2. Cardinality(A) \in Nat /\ Cardinality(B) \in Nat
    BY <1>2, <2>1, FS_CardinalityType
  <2> QED
    BY <1>1, <1>2, <2>1, <2>2
<1>3. CASE pager.client = "list"
  <2>1. pager' = [pager EXCEPT
          !.steady = {c \in pager.steady : Listed(c)' /\ Rank(c)' = Rank(c)},
          !.lost = pager.lost \/ \E c \in Sorted : ~Listed(c)' \/ Rank(c)' < Rank(c)]
    BY <1>3 DEF Watch
  <2>2. /\ pager'.begun = pager.begun /\ pager'.done = pager.done /\ pager'.client = pager.client
        /\ pager'.at = pager.at /\ pager'.got = pager.got
        /\ pager'.steady = {c \in pager.steady : Listed(c)' /\ Rank(c)' = Rank(c)}
        /\ pager'.lost = (pager.lost \/ \E c \in Sorted : ~Listed(c)' \/ Rank(c)' < Rank(c))
    BY <1>1, <2>1 DEF Pager
  <2>3. pager.steady \subseteq Sorted
    BY <1>3 DEF PagerInv, Fetching
  <2>4. pager'.steady \subseteq Sorted'
    <3>1. ASSUME NEW c \in pager'.steady PROVE c \in Sorted'
      BY <2>2, <2>3 DEF Sorted
    <3> QED
      BY <3>1
  <2>5. ASSUME NEW x \in pager'.steady, ~ pager'.lost, Cardinality(Ahead(x)) >= pager.at
        PROVE  Cardinality(Ahead(x)') >= pager.at
    <3>1. PICK A : A = {d \in Sorted : Rank(d) > Rank(x)}
      OBVIOUS
    <3>2. PICK B : B = {d \in Sorted' : Rank(d)' > Rank(x)'}
      OBVIOUS
    <3>3. A = Ahead(x) /\ B = Ahead(x)'
      BY <1>3, <2>2, <3>1, <3>2 DEF Ahead
    <3>4. IsFiniteSet(B)
      <4>1. B \in SUBSET Chat /\ IsFiniteSet(Chat)
        BY <3>2, ReadingAssumption DEF Sorted
      <4> QED
        BY <4>1, FS_Subset
    <3>5. ASSUME NEW d \in A PROVE d \in B
      <4>1. d \in Sorted /\ Rank(d) > Rank(x) /\ Rank(d) > 0 /\ d \in Chat
        BY <3>1, <3>5 DEF Sorted
      <4>2. Listed(d)' /\ ~ (Rank(d)' < Rank(d))
        BY <2>2, <2>5, <4>1
      <4>3. Rank(x)' = Rank(x)
        BY <2>2
      <4>4. Rank(d) \in Nat /\ Rank(d)' \in Nat /\ Rank(x) \in Nat
        BY DEF SeenTyped
      <4>5. Rank(d)' > Rank(x)' /\ Rank(d)' > 0
        BY <4>1, <4>2, <4>3, <4>4
      <4> QED
        BY <3>2, <4>1, <4>2, <4>5 DEF Sorted
    <3>6. A \in SUBSET B
      BY <3>5
    <3> QED
      BY <1>2, <2>5, <3>3, <3>4, <3>6
  <2> QED
    BY <1>3, <2>2, <2>4, <2>5
<1>4. CASE pager.client # "list"
  <2>1. PICK c : c = pager.chat /\
          pager' = [pager EXCEPT !.steady = pager.steady \cap Messages(c)',
                                 !.lost = pager.lost \/ ~(Messages(c) \subseteq Messages(c)')]
    BY <1>4 DEF Watch
  <2>2. /\ pager'.begun = pager.begun /\ pager'.done = pager.done /\ pager'.client = pager.client
        /\ pager'.at = pager.at /\ pager'.got = pager.got /\ pager'.chat = c
        /\ pager'.steady = pager.steady \cap Messages(c)'
        /\ pager'.lost = (pager.lost \/ ~(Messages(c) \subseteq Messages(c)'))
    BY <1>1, <2>1 DEF Pager
  <2>3. Messages(pager.chat)' = Messages(c)' /\ Messages(pager.chat) = Messages(c)
    BY <2>1, <2>2 DEF Messages, Shown, In
  <2>5. ASSUME NEW x \in pager'.steady, ~ pager'.lost, Cardinality(Ahead(x)) >= pager.at
        PROVE  Cardinality(Ahead(x)') >= pager.at
    <3>1. PICK A, B, M : /\ A = {m \in Messages(c) : m > x} /\ B = {m \in M : m > x}
                         /\ M = Messages(c)'
      OBVIOUS
    <3>2. A = Ahead(x) /\ B = Ahead(x)'
      BY <1>4, <2>2, <2>3, <3>1 DEF Ahead
    <3>3. IsFiniteSet(M)
      BY <3>1 DEF SeenTyped
    <3>4. A \in SUBSET B /\ B \in SUBSET M
      BY <2>2, <2>5, <3>1
    <3>5. IsFiniteSet(B)
      BY <3>3, <3>4, FS_Subset
    <3> QED
      BY <1>2, <2>5, <3>2, <3>4, <3>5
  <2> QED
    BY <1>4, <2>2, <2>3, <2>5
<1> QED BY <1>3, <1>4

LEMMA WatchKeeps ==
  ASSUME TypeOK, SeenTyped, SeenTyped', PagerInv, Watch
  PROVE  PagerInv'
<1>1. CASE UNCHANGED pager /\ (~ pager.begun \/ pager.done)
  BY <1>1 DEF PagerInv, Fetching, Descending, Got
<1>2. CASE pager.begun /\ ~ pager.done
  <2>1. /\ pager'.begun /\ ~ pager'.done /\ pager'.client = pager.client /\ pager'.at = pager.at
        /\ pager'.got = pager.got /\ pager'.steady \in SUBSET pager.steady
        /\ pager.lost => pager'.lost
        /\ pager'.steady \subseteq (IF pager'.client = "list" THEN Sorted' ELSE Messages(pager.chat)')
        /\ pager'.lost \/ \A x \in pager'.steady :
             Cardinality(Ahead(x)) >= pager.at => Cardinality(Ahead(x)') >= pager.at
    BY <1>2, AheadStays
  <2>2. Descending'
    BY <2>1 DEF PagerInv, Descending
  <2>3. ASSUME NEW x \in pager'.steady PROVE Got(x)' \/ ToCome(x)'
    <3>1. Got(x) \/ ToCome(x)
      BY <1>2, <2>1 DEF PagerInv, Fetching
    <3>2. Got(x) => Got(x)'
      BY <2>1 DEF Got
    <3>3. ToCome(x) => ToCome(x)'
      BY <2>1 DEF ToCome
    <3> QED
      BY <3>1, <3>2, <3>3
  <2>4. Fetching'
    BY <1>2, <2>1, <2>3 DEF PagerInv, Fetching
  <2> QED
    BY <2>1, <2>2, <2>4 DEF PagerInv
<1> QED
  BY <1>1, <1>2 DEF Watch

\* What the client makes of a page
LEMMA RequestKeeps ==
  ASSUME TypeOK, PagerInv, Request
  PROVE  PagerInv'
<1>1. PICK page \in Seq(Nat \cup Chat) : Fetched(page) /\ Taken(page)
  BY RequestFacts
<1>2. ~ pager.done /\ UNCHANGED store
  BY RequestFacts
<1>3. PICK n, V : n = Len(page) /\ V = Messages(pager.chat)
  OBVIOUS
<1>4. /\ pager.at \in Nat /\ pager.got \in Seq(Nat \cup Chat) /\ pager.begun \in BOOLEAN
      /\ PageSize \in Nat /\ PageSize > 0 /\ n \in Nat
  BY <1>1, <1>3, PagerTyped, ReadingAssumption
<1>5. /\ pager'.client = pager.client /\ pager'.chat = pager.chat /\ pager'.lost = pager.lost
      /\ pager'.begun = TRUE /\ pager'.got = pager.got \o page
      /\ pager'.at = IF pager.client # "scroll" THEN pager.at + n
                     ELSE IF n = 0 THEN pager.at ELSE page[n] - 1
      /\ pager'.done = (n < PageSize \/ (pager.client = "scroll" /\ page[n] = 1))
      /\ pager'.steady = IF pager.begun THEN pager.steady
                         ELSE IF pager.client = "list" THEN Sorted ELSE V
  BY <1>1, <1>3 DEF Taken
<1>6. /\ \A j \in DOMAIN pager.got : j \in DOMAIN pager'.got /\ pager'.got[j] = pager.got[j]
      /\ \A j \in 1 .. n : Len(pager.got) + j \in DOMAIN pager'.got
                           /\ pager'.got[Len(pager.got) + j] = page[j]
      /\ \A j \in DOMAIN pager'.got : j \notin DOMAIN pager.got =>
           j - Len(pager.got) \in 1 .. n /\ pager'.got[j] = page[j - Len(pager.got)]
  BY <1>1, <1>3, <1>4, <1>5, ConcatHas
<1>7. \A x : Got(x) \/ (\E j \in 1 .. n : page[j] = x) => Got(x)'
  BY <1>6 DEF Got
<1>8. /\ Sorted' = Sorted /\ Messages(pager.chat)' = V
      /\ \A x : Ahead(x)' = Ahead(x)
  <2>1. /\ \A c : Messages(c)' = Messages(c) /\ Rank(c)' = Rank(c)
        /\ Sorted' = Sorted
    BY <1>2, SeenTheSame
  <2>2. PICK c : c = pager.chat
    OBVIOUS
  <2>3. Messages(pager.chat)' = Messages(c)'
    BY <1>5, <2>2 DEF Messages, Shown, In
  <2>4. Messages(pager.chat)' = V
    BY <1>3, <2>1, <2>2, <2>3
  <2> QED
    BY <1>3, <1>5, <2>1, <2>4 DEF Ahead
<1>9. pager'.steady \subseteq (IF pager.client = "list" THEN Sorted ELSE V)
  BY <1>2, <1>3, <1>5 DEF PagerInv, Fetching
<1>10. ~ pager.begun => pager.at = 0 /\ pager.got = << >>
  BY DEF PagerInv
<1>11. ASSUME NEW x \in pager'.steady
       PROVE  \/ Got(x)
              \/ pager.client = "scroll" /\ (pager.at = 0 \/ x <= pager.at)
              \/ pager.client # "scroll" /\ (pager.lost \/ Cardinality(Ahead(x)) >= pager.at)
  <2>1. CASE pager.begun
    BY <1>2, <1>5, <2>1 DEF PagerInv, Fetching, ToCome
  <2>2. CASE ~ pager.begun
    <3>1. ASSUME pager.client = "list" PROVE Cardinality(Ahead(x)) \in Nat
      <4>1. {d \in Sorted : Rank(d) > Rank(x)} \in SUBSET Chat /\ IsFiniteSet(Chat)
        BY ReadingAssumption DEF Sorted
      <4>2. IsFiniteSet({d \in Sorted : Rank(d) > Rank(x)})
        BY <4>1, FS_Subset
      <4> QED
        BY <3>1, <4>2, FS_CardinalityType DEF Ahead
    <3>2. ASSUME pager.client # "list" PROVE Cardinality(Ahead(x)) \in Nat
      <4>1. V \in SUBSET Nat /\ IsFiniteSet(V)
        BY <1>3, AllMessages
      <4>2. x \in V
        BY <1>9, <3>2
      <4> QED
        BY <1>3, <3>2, <4>1, <4>2, AheadOfMessage DEF Ahead
    <3> QED
      BY <1>10, <2>2, <3>1, <3>2
  <2> QED BY <1>4, <2>1, <2>2
<1>12. CASE pager.client = "scroll"
  <2>1. /\ n \in 0 .. PageSize /\ \A j \in 1 .. n : page[j] \in V /\ page[j] \in Nat \ {0}
        /\ \A j, k \in 1 .. n : j < k => page[j] > page[k]
        /\ \A j \in 1 .. n : pager.at = 0 \/ page[j] <= pager.at
        /\ \A x \in V : (pager.at = 0 \/ x <= pager.at) =>
             (\E j \in 1 .. n : page[j] = x) \/ (n = PageSize /\ x < page[n])
    <3>1. pager.client # "list"
      BY <1>12
    <3> QED
      BY <1>1, <1>3, <1>12, <3>1, PageOfMessages
  <2>2. V \in SUBSET (Nat \ {0})
    BY <1>3, AllMessages
  <2>3. n # 0 => n \in 1 .. n /\ page[n] \in Nat \ {0} /\ pager'.at = page[n] - 1
    <3> SUFFICES ASSUME n # 0 PROVE n \in 1 .. n /\ page[n] \in Nat \ {0} /\ pager'.at = page[n] - 1
      OBVIOUS
    <3>1. n \in 1 .. n
      BY <1>4
    <3> QED
      BY <1>5, <1>12, <2>1, <3>1
  <2>4. ASSUME NEW x \in pager'.steady
        PROVE  Got(x)' \/ (~ pager'.done /\ x <= pager'.at)
    <3>1. CASE Got(x) \/ \E j \in 1 .. n : page[j] = x
      BY <1>7, <3>1
    <3>2. CASE ~ Got(x) /\ ~ \E j \in 1 .. n : page[j] = x
      <4>1. x \in V /\ x \in Nat \ {0}
        BY <1>9, <1>12, <2>2
      <4>2. n = PageSize /\ x < page[n]
        BY <1>11, <1>12, <2>1, <3>2, <4>1
      <4>3. n # 0 /\ ~ (n < PageSize)
        BY <1>4, <4>2
      <4>4. page[n] \in Nat \ {0} /\ pager'.at = page[n] - 1
        BY <2>3, <4>3
      <4>5. page[n] # 1 /\ x <= pager'.at
        BY <4>1, <4>2, <4>4
      <4>6. ~ pager'.done
        BY <1>5, <4>3, <4>5, Zenon
      <4> QED
        BY <4>5, <4>6
    <3> QED BY <3>1, <3>2
  <2>5. ~ pager'.done => pager'.at > 0
    <3> SUFFICES ASSUME ~ pager'.done PROVE pager'.at > 0
      OBVIOUS
    <3>1. ~ (n < PageSize) /\ page[n] # 1
      BY <1>5, <1>12, Zenon
    <3>2. n # 0
      BY <1>4, <3>1
    <3>3. page[n] \in Nat \ {0} /\ pager'.at = page[n] - 1
      BY <2>3, <3>2
    <3> QED
      BY <3>1, <3>3
  <2>6. Descending'
    <3>1. /\ \A j \in DOMAIN pager.got : pager.got[j] \in Nat /\ pager.got[j] > pager.at
          /\ \A j, k \in DOMAIN pager.got : j < k => pager.got[j] > pager.got[k]
      BY <1>12 DEF PagerInv, Descending
    <3>2. pager.at = 0 => DOMAIN pager.got = {}
      BY <1>2, <1>4, <1>10, <1>12 DEF PagerInv, Fetching
    <3>3. DOMAIN pager.got = 1 .. Len(pager.got) /\ Len(pager.got) \in Nat
      BY <1>4
    <3>4. ASSUME NEW j \in 1 .. n PROVE page[j] \in Nat /\ page[j] > pager'.at
      <4>1. n # 0 /\ j \in Nat /\ j <= n
        BY <1>4, <3>4
      <4>2. page[j] \in Nat /\ page[n] \in Nat /\ (j < n => page[j] > page[n])
        BY <2>1, <2>3, <4>1
      <4>3. page[j] >= page[n]
        BY <1>4, <4>1, <4>2
      <4> QED
        BY <2>3, <4>1, <4>2, <4>3
    <3>5. ASSUME NEW j \in DOMAIN pager.got PROVE pager.got[j] \in Nat /\ pager.got[j] > pager'.at
      <4>1. pager.got[j] \in Nat /\ pager.got[j] > pager.at
        BY <3>1
      <4>2. CASE n = 0
        BY <1>5, <1>12, <4>1, <4>2
      <4>3. CASE n # 0
        <5>1. page[n] <= pager.at
          BY <2>1, <2>3, <3>2, <3>5, <4>3
        <5> QED
          BY <1>4, <2>3, <4>1, <4>3, <5>1
      <4> QED BY <4>2, <4>3
    <3>6. ASSUME NEW j \in DOMAIN pager.got, NEW k \in 1 .. n PROVE pager.got[j] > page[k]
      <4>1. pager.got[j] \in Nat /\ pager.got[j] > pager.at /\ page[k] \in Nat /\ page[k] <= pager.at
        BY <2>1, <3>1, <3>2, <3>6
      <4> QED
        BY <1>4, <4>1
    <3>7. ASSUME NEW j \in DOMAIN pager'.got
          PROVE  pager'.got[j] \in Nat /\ pager'.got[j] > pager'.at
      BY <1>6, <3>4, <3>5
    <3>8. ASSUME NEW j \in DOMAIN pager'.got, NEW k \in DOMAIN pager'.got, j < k
          PROVE  pager'.got[j] > pager'.got[k]
      <4>0. j \in Nat /\ k \in Nat
        BY <1>1, <1>4, <1>5, ConcatHas
      <4>1. CASE k \in DOMAIN pager.got
        <5>1. j \in DOMAIN pager.got
          <6>1. j \in 1 .. (Len(pager.got) + Len(page))
            BY <1>1, <1>4, <1>5, ConcatHas
          <6> QED
            BY <3>3, <3>8, <4>0, <4>1, <6>1
        <5> QED
          BY <1>6, <3>1, <3>8, <4>1, <5>1
      <4>2. CASE k \notin DOMAIN pager.got /\ j \in DOMAIN pager.got
        BY <1>6, <3>6, <4>2
      <4>3. CASE k \notin DOMAIN pager.got /\ j \notin DOMAIN pager.got
        <5>1. /\ j - Len(pager.got) \in 1 .. n /\ pager'.got[j] = page[j - Len(pager.got)]
              /\ k - Len(pager.got) \in 1 .. n /\ pager'.got[k] = page[k - Len(pager.got)]
          BY <1>6, <4>3
        <5>2. j - Len(pager.got) < k - Len(pager.got)
          BY <3>3, <3>8, <4>0
        <5> QED
          BY <2>1, <5>1, <5>2
      <4> QED BY <4>1, <4>2, <4>3
    <3> QED
      BY <3>7, <3>8 DEF Descending
  <2>7. Fetching'
    BY <1>5, <1>8, <1>9, <1>12, <2>4, <2>5 DEF Fetching, ToCome
  <2> QED
    BY <1>5, <2>4, <2>6, <2>7 DEF PagerInv
<1>13. CASE pager.client # "scroll"
  <2>1. \A x \in pager'.steady : Cardinality(Ahead(x)) >= pager.at =>
          \/ \E j \in 1 .. n : page[j] = x
          \/ n = PageSize /\ Cardinality(Ahead(x)) >= pager.at + n
    <3>1. CASE pager.client = "list"
      <4>1. PageListed(page, n)
        BY <1>1, <1>3, <3>1, PageOfList
      <4>2. \A x \in pager'.steady : x \in Sorted
        BY <1>9, <3>1
      <4>3. \A x : Ahead(x) = {d \in Sorted : Rank(d) > Rank(x)}
        BY <3>1 DEF Ahead
      <4> HIDE DEF Sorted
      <4> QED
        BY <4>1, <4>2, <4>3 DEF PageListed
    <3>2. CASE pager.client # "list"
      <4>1. \A x \in V : Cardinality({m \in V : m > x}) >= pager.at =>
              \/ \E j \in 1 .. n : page[j] = x
              \/ n = PageSize /\ Cardinality({m \in V : m > x}) >= pager.at + n
        BY <1>1, <1>3, <1>13, <3>2, PageOfMessages
      <4> QED
        BY <1>3, <1>9, <3>2, <4>1 DEF Ahead
    <3> QED BY <3>1, <3>2
  <2>2. ASSUME NEW x \in pager'.steady
        PROVE  Got(x)' \/ pager'.lost \/ (~ pager'.done /\ Cardinality(Ahead(x)') >= pager'.at)
    <3>1. Got(x) \/ pager.lost \/ Cardinality(Ahead(x)) >= pager.at
      BY <1>11, <1>13
    <3>2. CASE Got(x) \/ \E j \in 1 .. n : page[j] = x
      BY <1>7, <3>2
    <3>3. CASE pager.lost
      BY <1>5, <3>3
    <3>4. CASE n = PageSize /\ Cardinality(Ahead(x)) >= pager.at + n
      <4>1. ~ (n < PageSize)
        BY <1>4, <3>4
      <4>2. ~ pager'.done
        BY <1>5, <1>13, <4>1, Zenon
      <4>3. pager'.at = pager.at + n /\ Ahead(x)' = Ahead(x)
        BY <1>5, <1>8, <1>13
      <4> QED
        BY <3>4, <4>2, <4>3
    <3> QED BY <2>1, <3>1, <3>2, <3>3, <3>4
  <2>3. Fetching'
    BY <1>5, <1>8, <1>9, <1>13, <2>2 DEF Fetching, ToCome
  <2>4. Descending'
    BY <1>5, <1>13 DEF Descending
  <2> QED
    BY <1>5, <1>13, <2>2, <2>3, <2>4 DEF PagerInv
<1> QED BY <1>12, <1>13

\* What the client has not got yet is always still to come, unless something
\* was lost that it counted on.
THEOREM PagerInvariant == Spec => []PagerInv
<1>1. Init => PagerInv
  BY DEF Init, PagerInv, Fetching, Descending
<1>2. TypeOK /\ SeenTyped /\ SeenTyped' /\ PagerInv /\ [Next]_vars => PagerInv'
  <2> SUFFICES ASSUME TypeOK, SeenTyped, SeenTyped', PagerInv, [Next]_vars PROVE PagerInv'
    OBVIOUS
  <2>1. CASE Write /\ Watch
    BY <2>1, WatchKeeps
  <2>2. CASE Request
    BY <2>2, RequestKeeps
  <2>3. CASE UNCHANGED vars
    <3>1. UNCHANGED store /\ UNCHANGED pager
      BY <2>3 DEF vars
    <3>2. /\ \A c : Messages(c)' = Messages(c) /\ Rank(c)' = Rank(c)
          /\ Sorted' = Sorted
      BY <3>1, SeenTheSame
    <3>3. Messages(pager.chat)' = Messages(pager.chat)
      BY <3>1 DEF store, Messages, Lids, Shown, In, Visible
    <3>4. \A x : Ahead(x)' = Ahead(x)
      BY <3>1, <3>2, <3>3 DEF Ahead
    <3> QED
      BY <3>1, <3>2, <3>3, <3>4 DEF PagerInv, Fetching, Descending, Got, ToCome
  <2> QED
    BY <2>1, <2>2, <2>3 DEF Next
<1>3. TypeOK => SeenTyped
  BY SeenIsTyped
<1> QED
  BY <1>1, <1>2, <1>3, TypeCorrect, PTL DEF Spec

\* Who scrolls by start_cmid gets all that can be seen all the while, the newer
\* first; by offset he gets it unless something vanished.
THEOREM ScrollsAreComplete == Spec => []ScrollIsComplete
<1>1. PagerInv => ScrollIsComplete
  BY DEF PagerInv, Descending, Got, ScrollIsComplete
<1> QED
  BY <1>1, PagerInvariant, PTL

\* A list fetched by offset leaves out none that has stayed where it was, as long
\* as none falls back.
THEOREM ListsAreComplete == Spec => []ListIsComplete
<1>1. PagerInv => ListIsComplete
  BY DEF PagerInv, Got, ListIsComplete
<1> QED
  BY <1>1, PagerInvariant, PTL

-----------------------------------------------------------------------------
(* Jumps.                                                                  *)

Has(q, x) == \E j \in DOMAIN q : q[j] = x

\* The first page has what stands within its size.
LEMMA OnFirstPage ==
  ASSUME NEW S, NEW s \in Seq(S), NEW count \in Nat, count > 0, NEW p \in 1 .. Len(s), p <= count
  PROVE  Has(Slice(s, 0, count), s[p])
<1>1. PICK zero \in Nat : zero = 0
  OBVIOUS
<1>2. p > zero
  BY <1>1
<1>3. PICK q : q = Slice(s, zero, count)
  OBVIOUS
<1>4. LET r == Slice(s, zero, count) IN
      (\E j \in 1 .. Len(r) : r[j] = s[p]) \/ (Len(r) = count /\ p > zero + Len(r))
  BY <1>2, SliceHas
<1>5. LET r == Slice(s, zero, count) IN r \in Seq(S) /\ DOMAIN r = 1 .. Len(r)
  BY SliceFacts
<1>6. ~ (p > zero + count)
  BY <1>1
<1>7. Has(q, s[p])
  BY <1>3, <1>4, <1>5, <1>6 DEF Has
<1> QED
  BY <1>1, <1>3, <1>7

\* Reaching back k messages from x, to those of F, and showing what follows.
\* The window that reaches k messages back from x, the newer first, and upwards
WindowDown(V, x, k) ==
  LET F == {m \in V : m >= x}
  IN  IF k = 0 THEN {m \in V : m = x \/ m <= x}
      ELSE IF k > Len(Up(F)) THEN V ELSE {m \in V : m <= Up(F)[k]}

LEMMA JumpDown ==
  ASSUME NEW V \in SUBSET Nat, IsFiniteSet(V), NEW x \in V, NEW k \in Nat, NEW count \in Nat,
         count > 0, k <= count
  PROVE  Has(Slice(Down(WindowDown(V, x, k)), 0, count), x)
<1>0. PICK F, W : /\ F = {m \in V : m >= x}
                  /\ W = WindowDown(V, x, k)
                  /\ W = IF k = 0 THEN {m \in V : m = x \/ m <= x}
                         ELSE IF k > Len(Up(F)) THEN V ELSE {m \in V : m <= Up(F)[k]}
  BY DEF WindowDown
<1>1. F \in SUBSET V /\ W \in SUBSET V /\ x \in Nat /\ \A m \in V : m \in Nat
  BY <1>0
<1>2. IsFiniteSet(F) /\ IsFiniteSet(W) /\ F \in SUBSET Nat /\ W \in SUBSET Nat
  BY <1>1, FS_Subset
<1>3. /\ Cardinality(F) \in Nat /\ Up(F) \in Seq(F) /\ Len(Up(F)) = Cardinality(F)
      /\ \A n \in 1 .. Cardinality(F) : Below(F, Up(F)[n]) = n
  BY <1>2, OrderFacts
<1>4. \A n \in 1 .. Cardinality(F) : Up(F)[n] \in F
  BY <1>3
<1>5. x \in W /\ Above(W, x) <= count
  <2>1. CASE k = 0
    <3>1. W = {m \in V : m = x \/ m <= x}
      BY <1>0, <2>1
    <3>2. \A m \in V : (m = x \/ m <= x) /\ m >= x <=> m = x
      BY <1>1
    <3>3. x \in W /\ {m \in W : m >= x} = {x}
      BY <3>1, <3>2
    <3>4. Above(W, x) = 1
      BY <3>3, FS_Singleton DEF Above
    <3> QED
      BY <3>3, <3>4
  <2>2. CASE k # 0 /\ k > Len(Up(F))
    <3>1. x \in W /\ {m \in W : m >= x} = F
      BY <1>0, <2>2
    <3>2. Above(W, x) = Cardinality(F)
      BY <3>1 DEF Above
    <3>3. Cardinality(F) <= count
      BY <1>3, <2>2
    <3> QED
      BY <3>1, <3>2, <3>3
  <2>3. CASE k # 0 /\ ~ (k > Len(Up(F)))
    <3>1. k \in 1 .. Cardinality(F)
      BY <1>3, <2>3
    <3>2. PICK f \in F : f = Up(F)[k] /\ Below(F, f) = k
      BY <1>3, <1>4, <3>1
    <3>3. f \in V /\ f >= x /\ f \in Nat
      BY <1>0, <1>1
    <3>4. W = {m \in V : m <= f}
      BY <1>0, <2>3, <3>2
    <3>5. x <= f
      BY <1>1, <3>3
    <3>6. x \in W /\ {m \in W : m >= x} = {m \in F : m <= f}
      BY <1>0, <3>4, <3>5
    <3> QED
      BY <3>2, <3>6 DEF Above, Below
  <2> QED BY <2>1, <2>2, <2>3
<1>6. /\ Down(W) \in Seq(W) /\ Len(Down(W)) = Cardinality(W)
      /\ \A l \in W : Down(W)[Above(W, l)] = l
      /\ Above(W, x) \in 1 .. Cardinality(W)
  BY <1>2, <1>5, OrderFacts, PlacesFacts
<1>7. PICK s \in Seq(W), p \in 1 .. Cardinality(W) :
        s = Down(W) /\ p = Above(W, x) /\ p <= count /\ s[p] = x /\ Len(s) = Cardinality(W)
  BY <1>5, <1>6
<1>8. Has(Slice(s, 0, count), s[p])
  BY <1>7, OnFirstPage
<1> QED
  BY <1>0, <1>7, <1>8

WindowUp(V, x, k) ==
  LET F == {m \in V : m <= x}
  IN  IF k = 0 THEN {m \in V : m = x \/ m >= x}
      ELSE IF k > Len(Down(F)) THEN V ELSE {m \in V : m >= Down(F)[k]}

LEMMA JumpUp ==
  ASSUME NEW V \in SUBSET Nat, IsFiniteSet(V), NEW x \in V, NEW k \in Nat, NEW count \in Nat,
         count > 0, k <= count
  PROVE  Has(Slice(Up(WindowUp(V, x, k)), 0, count), x)
<1>0. PICK F, W : /\ F = {m \in V : m <= x}
                  /\ W = WindowUp(V, x, k)
                  /\ W = IF k = 0 THEN {m \in V : m = x \/ m >= x}
                         ELSE IF k > Len(Down(F)) THEN V ELSE {m \in V : m >= Down(F)[k]}
  BY DEF WindowUp
<1>1. F \in SUBSET V /\ W \in SUBSET V /\ x \in Nat /\ \A m \in V : m \in Nat
  BY <1>0
<1>2. IsFiniteSet(F) /\ IsFiniteSet(W) /\ F \in SUBSET Nat /\ W \in SUBSET Nat
  BY <1>1, FS_Subset
<1>3. /\ Cardinality(F) \in Nat /\ Down(F) \in Seq(F) /\ Len(Down(F)) = Cardinality(F)
      /\ \A n \in 1 .. Cardinality(F) : Above(F, Down(F)[n]) = n
  BY <1>2, OrderFacts
<1>4. \A n \in 1 .. Cardinality(F) : Down(F)[n] \in F
  BY <1>3
<1>5. x \in W /\ Below(W, x) <= count
  <2>1. CASE k = 0
    <3>1. W = {m \in V : m = x \/ m >= x}
      BY <1>0, <2>1
    <3>2. \A m \in V : (m = x \/ m >= x) /\ m <= x <=> m = x
      BY <1>1
    <3>3. x \in W /\ {m \in W : m <= x} = {x}
      BY <3>1, <3>2
    <3>4. Below(W, x) = 1
      BY <3>3, FS_Singleton DEF Below
    <3> QED
      BY <3>3, <3>4
  <2>2. CASE k # 0 /\ k > Len(Down(F))
    <3>1. x \in W /\ {m \in W : m <= x} = F
      BY <1>0, <2>2
    <3>2. Below(W, x) = Cardinality(F)
      BY <3>1 DEF Below
    <3>3. Cardinality(F) <= count
      BY <1>3, <2>2
    <3> QED
      BY <3>1, <3>2, <3>3
  <2>3. CASE k # 0 /\ ~ (k > Len(Down(F)))
    <3>1. k \in 1 .. Cardinality(F)
      BY <1>3, <2>3
    <3>2. PICK f \in F : f = Down(F)[k] /\ Above(F, f) = k
      BY <1>3, <1>4, <3>1
    <3>3. f \in V /\ f <= x /\ f \in Nat
      BY <1>0, <1>1
    <3>4. W = {m \in V : m >= f}
      BY <1>0, <2>3, <3>2
    <3>5. x >= f
      BY <1>1, <3>3
    <3>6. x \in W /\ {m \in W : m <= x} = {m \in F : m >= f}
      BY <1>0, <3>4, <3>5
    <3> QED
      BY <3>2, <3>6 DEF Above, Below
  <2> QED BY <2>1, <2>2, <2>3
<1>6. /\ Up(W) \in Seq(W) /\ Len(Up(W)) = Cardinality(W)
      /\ \A l \in W : Up(W)[Below(W, l)] = l
      /\ Below(W, x) \in 1 .. Cardinality(W)
  BY <1>2, <1>5, OrderFacts, PlacesFacts
<1>7. PICK s \in Seq(W), p \in 1 .. Cardinality(W) :
        s = Up(W) /\ p = Below(W, x) /\ p <= count /\ s[p] = x /\ Len(s) = Cardinality(W)
  BY <1>5, <1>6
<1>8. Has(Slice(s, 0, count), s[p])
  BY <1>7, OnFirstPage
<1> QED
  BY <1>0, <1>7, <1>8

\* A page that reaches back k messages from x, and has room for them, shows x.
LEMMA PageShows ==
  ASSUME TypeOK, NEW c, NEW x \in Messages(c), NEW k \in Nat, NEW count \in Nat, count > 0, k <= count,
         NEW rev \in BOOLEAN, NEW o, o = -k
  PROVE  Has(GetHistory(c, x, o, count, rev), x)
<1>1. PICK V \in SUBSET Nat : V = Messages(c) /\ IsFiniteSet(V) /\ x \in V /\ x \in Nat /\ x # 0
  BY AllMessages
<1>2. -o = k /\ (o >= 0 <=> k = 0) /\ (IF o < 0 THEN 0 ELSE o) = 0
  OBVIOUS
<1>3. CASE rev = FALSE
  <2>1. PICK W, F : W = Window(c, x, o, FALSE) /\ F = {m \in V : m >= x}
    OBVIOUS
  <2>2. Up({m \in Lids(Shown(c)) : m >= x}) = Up(F)
    BY <1>1, <2>1 DEF Messages
  <2>3. k = 0 => W = {m \in V : m = x \/ m <= x}
    BY <1>1, <1>2, <2>1 DEF Window, Messages
  <2>4. k # 0 /\ k > Len(Up(F)) => W = V
    BY <1>1, <1>2, <2>1, <2>2 DEF Window, Messages
  <2>5. k # 0 /\ ~ (k > Len(Up(F))) => W = {m \in V : m <= Up(F)[k]}
    BY <1>1, <1>2, <2>1, <2>2 DEF Window, Messages
  <2>6. W = WindowDown(V, x, k)
    BY <2>1, <2>3, <2>4, <2>5 DEF WindowDown
  <2>7. Has(Slice(Down(W), 0, count), x)
    BY <1>1, <2>6, JumpDown
  <2>8. GetHistory(c, x, o, count, FALSE) = Slice(Down(W), 0, count)
    BY <1>2, <2>1 DEF GetHistory
  <2> QED
    BY <1>3, <2>7, <2>8
<1>4. CASE rev = TRUE
  <2>1. PICK W, F : W = Window(c, x, o, TRUE) /\ F = {m \in V : m <= x}
    OBVIOUS
  <2>2. Down({m \in Lids(Shown(c)) : m <= x}) = Down(F)
    BY <1>1, <2>1 DEF Messages
  <2>3. k = 0 => W = {m \in V : m = x \/ m >= x}
    BY <1>1, <1>2, <2>1 DEF Window, Messages
  <2>4. k # 0 /\ k > Len(Down(F)) => W = V
    BY <1>1, <1>2, <2>1, <2>2 DEF Window, Messages
  <2>5. k # 0 /\ ~ (k > Len(Down(F))) => W = {m \in V : m >= Down(F)[k]}
    BY <1>1, <1>2, <2>1, <2>2 DEF Window, Messages
  <2>6. W = WindowUp(V, x, k)
    BY <2>1, <2>3, <2>4, <2>5 DEF WindowUp
  <2>7. Has(Slice(Up(W), 0, count), x)
    BY <1>1, <2>6, JumpUp
  <2>8. GetHistory(c, x, o, count, TRUE) = Slice(Up(W), 0, count)
    BY <1>2, <2>1 DEF GetHistory
  <2> QED
    BY <1>4, <2>7, <2>8
<1> QED BY <1>3, <1>4

LEMMA JumpsShow ==
  ASSUME TypeOK PROVE JumpShowsTarget
<1> SUFFICES ASSUME NEW c \in Chat, Shown(c) # {}, NEW date \in 1 .. Len(rows) + 1,
                    NEW i, i = GetNearestMessageForDate(c, date),
                    NEW k \in 0 .. 2, NEW rev \in BOOLEAN
             PROVE  Has(GetHistory(c, rows[i].lid, -k, 2, rev), rows[i].lid)
  BY DEF JumpShowsTarget, Has
<1>1. Shown(c) \in SUBSET Nat /\ IsFiniteSet(Shown(c))
  BY InFacts, RowsTyped, ShownFacts
<1>2. i \in Shown(c)
  <2> DEFINE after == {n \in Shown(c) : n >= date}
  <2>1. CASE after # {}
    <3>1. after \in SUBSET Nat
      BY <1>1
    <3> HIDE DEF after
    <3>2. Lowest(after) \in after
      BY <2>1, <3>1, LowestFacts
    <3> QED
      BY <2>1, <3>2 DEF GetNearestMessageForDate, after
  <2>2. CASE after = {}
    <3>1. Highest(Shown(c)) \in Shown(c)
      BY <1>1, HighestFacts
    <3> QED
      BY <2>2, <3>1 DEF GetNearestMessageForDate
  <2> QED BY <2>1, <2>2
<1>3. PICK x \in Messages(c) : x = rows[i].lid
  BY <1>2 DEF Messages, Lids
<1>4. PICK count \in Nat : k \in Nat /\ count = 2 /\ count > 0 /\ k <= count
  OBVIOUS
<1>6. PICK o : o = -k
  OBVIOUS
<1>5. Has(GetHistory(c, x, o, count, rev), x)
  BY <1>4, <1>6, PageShows
<1> QED
  BY <1>3, <1>4, <1>5, <1>6

\* A jump shows the message it was for, whichever way the page is read.
THEOREM JumpsShowTheirTarget == Spec => []JumpShowsTarget
  BY JumpsShow, TypeCorrect, PTL
=============================================================================
