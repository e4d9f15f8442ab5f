--------------------------- MODULE SequenceLemmas ---------------------------
(***************************************************************************)
(* What the operators on sequences and sets return that the models are     *)
(* built from: erasing and inserting one element, the tail, looking at a   *)
(* sequence as a set, the least and the greatest element of a set of       *)
(* numbers, totals over a set, and folds.                                  *)
(***************************************************************************)
EXTENDS SequencesExt, SequenceTheorems, FiniteSetTheorems, WellFoundedInduction, TLAPS

(* The elements of a sequence are what is at its places. *)
LEMMA Elements ==
  ASSUME NEW S, NEW s \in Seq(S)
  PROVE  /\ \A k \in 1..Len(s) : s[k] \in ToSet(s)
         /\ \A t \in ToSet(s) : \E k \in 1..Len(s) : s[k] = t
  BY DEF ToSet

LEMMA RemoveAtProperties ==
  ASSUME NEW S, NEW s \in Seq(S), NEW n \in 1..Len(s)
  PROVE  /\ RemoveAt(s, n) \in Seq(S)
         /\ Len(RemoveAt(s, n)) = Len(s) - 1
         /\ \A k \in 1..(Len(s) - 1) : RemoveAt(s, n)[k] = IF k < n THEN s[k] ELSE s[k + 1]
<1> DEFINE front == SubSeq(s, 1, n - 1)
           back == SubSeq(s, n + 1, Len(s))
<1>1. /\ front \in Seq(S) /\ Len(front) = n - 1
      /\ \A k \in 1..(n - 1) : front[k] = s[k]
  OBVIOUS
<1>2. /\ back \in Seq(S) /\ Len(back) = Len(s) - n
      /\ \A k \in 1..(Len(s) - n) : back[k] = s[n + k]
  OBVIOUS
<1>3. RemoveAt(s, n) = front \o back
  BY DEF RemoveAt
<1> HIDE DEF front, back
<1>4. /\ front \o back \in Seq(S) /\ Len(front \o back) = Len(s) - 1
      /\ \A k \in 1..(Len(s) - 1) :
           (front \o back)[k] = IF k < n THEN front[k] ELSE back[k - n + 1]
  <2>1. /\ front \o back \in Seq(S) /\ Len(front \o back) = Len(front) + Len(back)
        /\ \A k \in 1..(Len(front) + Len(back)) :
             (front \o back)[k] = IF k <= Len(front) THEN front[k] ELSE back[k - Len(front)]
    BY <1>1, <1>2, ConcatProperties
  <2> QED
    BY SMTT(40), <1>1, <1>2, <2>1
<1> QED
  BY SMTT(40), <1>1, <1>2, <1>3, <1>4

(* Removing one element of a sequence without duplicates removes that       *)
(* element only.                                                            *)
LEMMA RemoveOne ==
  ASSUME NEW S, NEW s \in Seq(S), NEW n \in 1..Len(s),
         \A k, l \in 1..Len(s) : s[k] = s[l] => k = l
  PROVE  /\ \A k, l \in 1..Len(RemoveAt(s, n)) :
              RemoveAt(s, n)[k] = RemoveAt(s, n)[l] => k = l
         /\ ToSet(RemoveAt(s, n)) = ToSet(s) \ {s[n]}
<1> DEFINE r == RemoveAt(s, n)
<1>1. /\ r \in Seq(S) /\ Len(r) = Len(s) - 1
      /\ \A k \in 1..(Len(s) - 1) : r[k] = IF k < n THEN s[k] ELSE s[k + 1]
  BY RemoveAtProperties
<1> HIDE DEF r
<1>2. ASSUME NEW k \in 1..Len(r), NEW l \in 1..Len(r), r[k] = r[l] PROVE k = l
  <2> DEFINE g(x) == IF x < n THEN x ELSE x + 1
  <2>1. /\ g(k) \in 1..Len(s) /\ r[k] = s[g(k)]
        /\ g(l) \in 1..Len(s) /\ r[l] = s[g(l)]
    BY <1>1
  <2>2. g(k) = g(l)
    BY <1>2, <2>1
  <2>3. k \in Int /\ l \in Int /\ n \in Int
    BY <1>1
  <2> QED
    BY <2>2, <2>3
<1>3. ASSUME NEW k \in 1..Len(r) PROVE r[k] # s[n] /\ \E l \in 1..Len(s) : s[l] = r[k]
  BY <1>1
<1>4. ASSUME NEW k \in 1..Len(s), s[k] # s[n] PROVE \E l \in 1..Len(r) : r[l] = s[k]
  <2>1. CASE k < n
    BY <1>1, <2>1
  <2>2. CASE k > n
    <3>1. k - 1 \in 1..Len(r) /\ r[k - 1] = s[k]
      BY <1>1, <2>2
    <3> QED
      BY <3>1
  <2> QED
    BY <1>4, <2>1, <2>2
<1>5. ASSUME NEW t PROVE t \in ToSet(r) <=> t \in ToSet(s) \ {s[n]}
  <2>1. t \in ToSet(r) => t \in ToSet(s) \ {s[n]}
    BY <1>1, <1>3, Elements
  <2>2. t \in ToSet(s) \ {s[n]} => t \in ToSet(r)
    BY <1>1, <1>4, Elements
  <2> QED
    BY <2>1, <2>2
<1> QED
  BY <1>2, <1>5 DEF r

(* The same of erasing the first occurrence of an element, if there is one. *)
LEMMA RemoveFirstOne ==
  ASSUME NEW S, NEW s \in Seq(S), NEW e,
         \A k, l \in 1..Len(s) : s[k] = s[l] => k = l
  PROVE  /\ RemoveFirst(s, e) \in Seq(S)
         /\ \A k, l \in 1..Len(RemoveFirst(s, e)) :
              RemoveFirst(s, e)[k] = RemoveFirst(s, e)[l] => k = l
         /\ ToSet(RemoveFirst(s, e)) = ToSet(s) \ {e}
<1>1. CASE \E n \in 1..Len(s) : s[n] = e
  <2>1. PICK n \in 1..Len(s) : s[n] = e
    BY <1>1
  <2>2. {k \in 1..Len(s) : s[k] = e} = {n}
    BY <2>1
  <2>3. Min({n}) = n
    BY DEF Min
  <2>4. RemoveFirst(s, e) = RemoveAt(s, n)
    BY <1>1, <2>2, <2>3 DEF RemoveFirst, SelectInSeq
  <2>5. /\ \A k, l \in 1..Len(RemoveAt(s, n)) :
             RemoveAt(s, n)[k] = RemoveAt(s, n)[l] => k = l
        /\ ToSet(RemoveAt(s, n)) = ToSet(s) \ {s[n]}
    BY RemoveOne
  <2>6. RemoveAt(s, n) \in Seq(S)
    BY RemoveAtProperties
  <2> QED
    BY <2>1, <2>4, <2>5, <2>6
<1>2. CASE ~\E n \in 1..Len(s) : s[n] = e
  <2>1. RemoveFirst(s, e) = s
    BY <1>2 DEF RemoveFirst
  <2>2. e \notin ToSet(s)
    BY <1>2, Elements
  <2> QED
    BY <2>1, <2>2
<1> QED
  BY <1>1, <1>2

(* Appending what is not there *)
LEMMA AppendOne ==
  ASSUME NEW S, NEW s \in Seq(S), NEW e \in S
  PROVE  /\ Append(s, e) \in Seq(S) /\ Len(Append(s, e)) = Len(s) + 1
         /\ \A k \in 1..Len(s) : Append(s, e)[k] = s[k]
         /\ Append(s, e)[Len(s) + 1] = e
         /\ ToSet(Append(s, e)) = ToSet(s) \cup {e}
<1>1. /\ Append(s, e) \in Seq(S) /\ Len(Append(s, e)) = Len(s) + 1
      /\ \A k \in 1..Len(s) : Append(s, e)[k] = s[k]
      /\ Append(s, e)[Len(s) + 1] = e
  OBVIOUS
<1>2. ASSUME NEW t PROVE t \in ToSet(Append(s, e)) <=> t \in ToSet(s) \cup {e}
  <2>1. ASSUME t \in ToSet(Append(s, e)) PROVE t \in ToSet(s) \cup {e}
    <3>1. PICK k \in 1..Len(Append(s, e)) : Append(s, e)[k] = t
      BY <1>1, <2>1, Elements
    <3>2. k \in 1..Len(s) \/ k = Len(s) + 1
      BY <1>1
    <3> QED
      BY <1>1, <3>1, <3>2, Elements
  <2>2. ASSUME t \in ToSet(s) PROVE t \in ToSet(Append(s, e))
    <3>1. PICK k \in 1..Len(s) : s[k] = t
      BY <2>2, Elements
    <3>2. k \in 1..Len(Append(s, e))
      BY <1>1
    <3>3. Append(s, e)[k] = t
      BY <1>1, <3>1
    <3>4. Append(s, e)[k] \in ToSet(Append(s, e))
      BY <1>1, <3>2, Elements
    <3> QED
      BY <3>3, <3>4
  <2>3. e \in ToSet(Append(s, e))
    <3>1. Len(s) + 1 \in 1..Len(Append(s, e))
      BY <1>1
    <3> QED
      BY <1>1, <3>1, Elements
  <2> QED
    BY <2>1, <2>2, <2>3
<1> QED
  BY <1>1, <1>2

LEMMA AppendDistinct ==
  ASSUME NEW S, NEW s \in Seq(S), NEW e \in S, e \notin ToSet(s),
         \A k, l \in 1..Len(s) : s[k] = s[l] => k = l
  PROVE  \A k, l \in 1..Len(Append(s, e)) : Append(s, e)[k] = Append(s, e)[l] => k = l
<1>1. \A k \in 1..Len(s) : s[k] # e
  BY Elements
<1>2. ASSUME NEW k \in 1..Len(Append(s, e)), NEW l \in 1..Len(Append(s, e)),
             Append(s, e)[k] = Append(s, e)[l]
      PROVE  k = l
  <2>1. /\ k \in 1..Len(s) \/ k = Len(s) + 1
        /\ l \in 1..Len(s) \/ l = Len(s) + 1
    BY AppendOne
  <2> QED
    BY <1>1, <1>2, <2>1, AppendOne
<1> QED
  BY <1>2

(* Taking the first element out *)
LEMMA TailDistinct ==
  ASSUME NEW S, NEW s \in Seq(S), s # <<>>,
         \A k, l \in 1..Len(s) : s[k] = s[l] => k = l
  PROVE  /\ Tail(s) \in Seq(S) /\ Len(Tail(s)) = Len(s) - 1
         /\ \A k \in 1..(Len(s) - 1) : Tail(s)[k] = s[k + 1]
         /\ \A k, l \in 1..Len(Tail(s)) : Tail(s)[k] = Tail(s)[l] => k = l
         /\ Head(s) = s[1] /\ Head(s) \in ToSet(s)
         /\ ToSet(Tail(s)) = ToSet(s) \ {Head(s)}
<1> DEFINE r == Tail(s)
<1>1. /\ r \in Seq(S) /\ Len(r) = Len(s) - 1
      /\ \A k \in 1..(Len(s) - 1) : r[k] = s[k + 1]
      /\ Head(s) = s[1] /\ 1 \in 1..Len(s) /\ Len(s) \in Nat
  OBVIOUS
<1> HIDE DEF r
<1>2. ASSUME NEW k \in 1..Len(r), NEW l \in 1..Len(r), r[k] = r[l]
      PROVE  k = l
  <2>1. k + 1 \in 1..Len(s) /\ l + 1 \in 1..Len(s) /\ s[k + 1] = s[l + 1]
    BY <1>1, <1>2
  <2>2. k + 1 = l + 1
    BY <2>1
  <2> QED
    BY <1>1, <2>2
<1>3. ASSUME NEW t PROVE t \in ToSet(r) <=> t \in ToSet(s) \ {Head(s)}
  <2>1. ASSUME t \in ToSet(r) PROVE t \in ToSet(s) \ {Head(s)}
    <3>1. PICK k \in 1..Len(r) : r[k] = t
      BY <1>1, <2>1, Elements
    <3>2. k + 1 \in 1..Len(s) /\ k + 1 # 1 /\ s[k + 1] = t
      BY <1>1, <3>1
    <3>3. t # s[1]
      BY <1>1, <3>2
    <3>4. t \in ToSet(s)
      BY <3>2, Elements
    <3> QED
      BY <1>1, <3>3, <3>4
  <2>2. ASSUME t \in ToSet(s), t # Head(s) PROVE t \in ToSet(r)
    <3>1. PICK k \in 1..Len(s) : s[k] = t
      BY <2>2, Elements
    <3>2. k - 1 \in 1..Len(r) /\ k - 1 \in 1..(Len(s) - 1) /\ (k - 1) + 1 = k
      BY <1>1, <2>2, <3>1
    <3>3. r[k - 1] = t
      BY <1>1, <3>1, <3>2
    <3> QED
      BY <1>1, <3>2, <3>3, Elements
  <2> QED
    BY <2>1, <2>2
<1>4. Head(s) \in ToSet(s)
  BY <1>1, Elements
<1> QED
  BY <1>1, <1>2, <1>3, <1>4 DEF r

(* The smallest of a set of numbers *)
LEMMA MinOfSet ==
  ASSUME NEW S, S \subseteq Nat, S # {}
  PROVE  Min(S) \in S /\ \A n \in S : Min(S) <= n
<1>1. PICK m \in S : \A n \in S : ~ <<n, m>> \in OpToRel(<, Nat)
  BY NatLessThanWellFounded, WFMin
<1>2. OpToRel(<, Nat) = {p \in Nat \X Nat : p[1] < p[2]}
  BY DEF OpToRel
<1>3. ASSUME NEW n \in S PROVE m <= n
  <2>1. <<n, m>> \in Nat \X Nat /\ <<n, m>>[1] = n /\ <<n, m>>[2] = m
    OBVIOUS
  <2>2. ~ (n < m)
    BY <1>1, <1>2, <2>1
  <2> QED
    BY <2>1, <2>2
<1> QED
  BY <1>3 DEF Min

(* Inserting an element *)
LEMMA InsertAtProperties ==
  ASSUME NEW S, NEW s \in Seq(S), NEW n \in 1..(Len(s) + 1), NEW e \in S
  PROVE  /\ InsertAt(s, n, e) \in Seq(S)
         /\ Len(InsertAt(s, n, e)) = Len(s) + 1
         /\ \A k \in 1..(Len(s) + 1) :
              InsertAt(s, n, e)[k] = IF k < n THEN s[k] ELSE IF k = n THEN e ELSE s[k - 1]
<1> DEFINE front == SubSeq(s, 1, n - 1)
           middle == Append(front, e)
           back == SubSeq(s, n, Len(s))
<1>1. /\ front \in Seq(S) /\ Len(front) = n - 1
      /\ \A k \in 1..(n - 1) : front[k] = s[k]
  OBVIOUS
<1>2. /\ back \in Seq(S) /\ Len(back) = Len(s) - n + 1
      /\ \A k \in 1..(Len(s) - n + 1) : back[k] = s[n + k - 1]
  OBVIOUS
<1>3. InsertAt(s, n, e) = front \o <<e>> \o back
  BY DEF InsertAt
<1> HIDE DEF front, back
<1>4. front \o <<e>> = middle
  BY <1>1, AppendIsConcat
<1>5. /\ middle \in Seq(S) /\ Len(middle) = n
      /\ \A k \in 1..n : middle[k] = IF k < n THEN s[k] ELSE e
  BY <1>1
<1> HIDE DEF middle
<1>6. /\ middle \o back \in Seq(S) /\ Len(middle \o back) = Len(middle) + Len(back)
      /\ \A k \in 1..(Len(middle) + Len(back)) :
           (middle \o back)[k] = IF k <= Len(middle) THEN middle[k] ELSE back[k - Len(middle)]
  BY <1>2, <1>5, ConcatProperties
<1>7. Len(middle) + Len(back) = Len(s) + 1
  BY <1>2, <1>5
<1>8. ASSUME NEW k \in 1..(Len(s) + 1)
      PROVE  (middle \o back)[k] = IF k < n THEN s[k] ELSE IF k = n THEN e ELSE s[k - 1]
  <2>1. CASE k <= n
    BY <1>5, <1>6, <1>7, <2>1
  <2>2. CASE k > n
    <3>1. k - n \in 1..(Len(s) - n + 1) /\ n + (k - n) - 1 = k - 1
      BY <2>2
    <3>2. (middle \o back)[k] = back[k - n]
      BY <1>5, <1>6, <1>7, <2>2
    <3> QED
      BY <1>2, <2>2, <3>1, <3>2
  <2>3. k <= n \/ k > n
    OBVIOUS
  <2> QED
    BY <2>1, <2>2, <2>3, Zenon
<1> QED
  BY <1>3, <1>4, <1>6, <1>7, <1>8

(* Inserting what is not there *)
LEMMA InsertDistinct ==
  ASSUME NEW S, NEW s \in Seq(S), NEW n \in 1..(Len(s) + 1), NEW e \in S, e \notin ToSet(s),
         \A k, l \in 1..Len(s) : s[k] = s[l] => k = l
  PROVE  /\ \A k, l \in 1..Len(InsertAt(s, n, e)) :
              InsertAt(s, n, e)[k] = InsertAt(s, n, e)[l] => k = l
         /\ ToSet(InsertAt(s, n, e)) = ToSet(s) \cup {e}
<1> DEFINE r == InsertAt(s, n, e)
           g(k) == IF k < n THEN k ELSE k - 1
<1>1. /\ r \in Seq(S) /\ Len(r) = Len(s) + 1
      /\ \A k \in 1..(Len(s) + 1) : r[k] = IF k < n THEN s[k] ELSE IF k = n THEN e ELSE s[k - 1]
  BY InsertAtProperties
<1> HIDE DEF r
<1>2. /\ r[n] = e /\ n \in 1..Len(r)
      /\ \A k \in 1..Len(r) : k # n => g(k) \in 1..Len(s) /\ r[k] = s[g(k)]
  BY <1>1
<1>3. \A k \in 1..Len(s) : s[k] # e
  BY Elements
<1>4. ASSUME NEW k \in 1..Len(r), NEW l \in 1..Len(r), r[k] = r[l] PROVE k = l
  <2>1. CASE k = n \/ l = n
    BY <1>2, <1>3, <1>4, <2>1
  <2>2. CASE k # n /\ l # n
    <3>1. g(k) = g(l)
      BY <1>2, <1>4, <2>2
    <3>2. k \in Int /\ l \in Int /\ n \in Int
      BY <1>1
    <3> QED
      BY <2>2, <3>1, <3>2
  <2> QED
    BY <2>1, <2>2
<1>5. ASSUME NEW t PROVE t \in ToSet(r) <=> t \in ToSet(s) \cup {e}
  <2>1. ASSUME t \in ToSet(r) PROVE t \in ToSet(s) \cup {e}
    <3>1. PICK k \in 1..Len(r) : r[k] = t
      BY <1>1, <2>1, Elements
    <3>2. CASE k = n
      BY <1>2, <3>1, <3>2
    <3>3. CASE k # n
      <4>1. g(k) \in 1..Len(s) /\ s[g(k)] = t
        BY <1>2, <3>1, <3>3
      <4> HIDE DEF g
      <4> QED
        BY <4>1, Elements
    <3> QED
      BY <3>2, <3>3
  <2>2. e \in ToSet(r)
    BY <1>1, <1>2, Elements
  <2>3. ASSUME t \in ToSet(s) PROVE t \in ToSet(r)
    <3>1. PICK k \in 1..Len(s) : s[k] = t
      BY <2>3, Elements
    <3>2. CASE k < n
      <4>1. k \in 1..Len(r) /\ r[k] = t
        BY <1>1, <3>1, <3>2
      <4> QED
        BY <1>1, <4>1, Elements
    <3>3. CASE k >= n
      <4>1. k + 1 \in 1..Len(r) /\ r[k + 1] = t
        BY <1>1, <3>1, <3>3
      <4> QED
        BY <1>1, <4>1, Elements
    <3> QED
      BY <3>2, <3>3
  <2> QED
    BY <2>1, <2>2, <2>3
<1> QED
  BY <1>4, <1>5 DEF r

(* A prefix agrees with the sequence as far as it goes. *)
LEMMA PrefixIff ==
  ASSUME NEW S, NEW s \in Seq(S), NEW t \in Seq(S)
  PROVE  IsPrefix(s, t) <=> Len(s) <= Len(t) /\ \A k \in 1..Len(s) : s[k] = t[k]
<1>1. CASE Len(s) <= Len(t)
  <2>1. /\ SubSeq(s, 1, Len(s)) \in Seq(S) /\ Len(SubSeq(s, 1, Len(s))) = Len(s)
        /\ \A k \in 1..Len(s) : SubSeq(s, 1, Len(s))[k] = s[k]
    OBVIOUS
  <2>2. /\ SubSeq(t, 1, Len(s)) \in Seq(S) /\ Len(SubSeq(t, 1, Len(s))) = Len(s)
        /\ \A k \in 1..Len(s) : SubSeq(t, 1, Len(s))[k] = t[k]
    BY <1>1
  <2>3. SubSeq(s, 1, Len(s)) = SubSeq(t, 1, Len(s)) <=> \A k \in 1..Len(s) : s[k] = t[k]
    BY <2>1, <2>2, SeqEqual
  <2> QED
    BY <1>1, <2>3 DEF IsPrefix
<1>2. CASE ~(Len(s) <= Len(t))
  BY <1>2 DEF IsPrefix
<1> QED
  BY <1>1, <1>2

(***************************************************************************)
(* Totals over a finite set, MapThenSumSet.  Its recursion over the subsets *)
(* is followed by looking at a smallest set where a statement fails.       *)
(***************************************************************************)
(* g adds f over every part of S, an element that CHOOSE picks first.      *)
Pick(s) == CHOOSE x \in s : TRUE
Adds(f, S, g) ==
  g = [s \in SUBSET S |-> IF s = {} THEN 0 ELSE f[Pick(s)] + g[s \ {Pick(s)}]]
Way(f, S) == CHOOSE g : Adds(f, S, g)

(* A set of finite sets has one of the fewest elements. *)
LEMMA SmallestSet ==
  ASSUME NEW C, C # {}, \A T \in C : IsFiniteSet(T)
  PROVE  \E T \in C : \A U \in C : Cardinality(T) <= Cardinality(U)
<1> DEFINE N == {Cardinality(T) : T \in C}
<1>1. N \subseteq Nat /\ N # {}
  BY FS_CardinalityType
<1>2. PICK m \in N : \A n \in N : ~ <<n, m>> \in OpToRel(<, Nat)
  BY <1>1, NatLessThanWellFounded, WFMin
<1>3. OpToRel(<, Nat) = {p \in Nat \X Nat : p[1] < p[2]}
  BY DEF OpToRel
<1>4. \A n \in N : m <= n
  <2> TAKE n \in N
  <2>1. n \in Nat /\ m \in Nat
    BY <1>1
  <2>2. <<n, m>> \in Nat \X Nat /\ <<n, m>>[1] = n /\ <<n, m>>[2] = m
    BY <2>1
  <2>3. ~ (n < m)
    BY <1>2, <1>3, <2>2
  <2> QED
    BY <2>1, <2>3
<1>5. PICK T \in C : Cardinality(T) = m
  OBVIOUS
<1> QED
  BY <1>4, <1>5

(* What a way to add gives. *)
LEMMA AddsGives ==
  ASSUME NEW f, NEW S, NEW g, Adds(f, S, g), NEW s \in SUBSET S
  PROVE  /\ s = {} => g[s] = 0
         /\ s # {} => /\ Pick(s) \in s
                      /\ g[s] = f[Pick(s)] + g[s \ {Pick(s)}]
<1>1. g[s] = IF s = {} THEN 0 ELSE f[Pick(s)] + g[s \ {Pick(s)}]
  BY DEF Adds
<1>2. s # {} => Pick(s) \in s
  BY DEF Pick
<1> QED
  BY <1>1, <1>2

(* Two ways to add agree where both are defined. *)
LEMMA AddsOneWay ==
  ASSUME NEW f, NEW A, NEW B, NEW g, NEW h, IsFiniteSet(A), A \subseteq B,
         Adds(f, A, g), Adds(f, B, h), NEW s \in SUBSET A
  PROVE  g[s] = h[s]
<1> DEFINE C == {t \in SUBSET A : g[t] # h[t]}
<1> SUFFICES ASSUME C # {} PROVE FALSE
  OBVIOUS
<1>1. \A t \in C : IsFiniteSet(t)
  BY FS_Subset
<1>2. PICK t \in C : \A u \in C : Cardinality(t) <= Cardinality(u)
  <2> HIDE DEF C
  <2> QED
    BY <1>1, SmallestSet
<1>3. t \in SUBSET A /\ t \in SUBSET B
  OBVIOUS
<1>4. CASE t = {}
  BY <1>2, <1>3, <1>4, AddsGives
<1>5. CASE t # {}
  <2> DEFINE x == Pick(t)
             u == t \ {x}
  <2>1. x \in t
    BY <1>3, <1>5, AddsGives
  <2>2. g[t] = f[x] + g[u] /\ h[t] = f[x] + h[u]
    BY <1>3, <1>5, AddsGives
  <2> HIDE DEF x
  <2>3. IsFiniteSet(t) /\ Cardinality(u) = Cardinality(t) - 1 /\ Cardinality(t) \in Nat
    BY <1>1, <2>1, FS_RemoveElement, FS_CardinalityType
  <2>4. u \notin C
    BY <1>2, <2>3, FS_CardinalityType
  <2>5. g[u] = h[u]
    BY <1>3, <2>4
  <2> QED
    BY <2>2, <2>5
<1> QED
  BY <1>4, <1>5

(* There is a way to add over every finite set. *)
LEMMA AddsExists ==
  ASSUME NEW f, NEW S, IsFiniteSet(S)
  PROVE  \E g : Adds(f, S, g)
<1> DEFINE C == {T \in SUBSET S : ~ \E g : Adds(f, T, g)}
<1> SUFFICES ASSUME C # {} PROVE FALSE
  OBVIOUS
<1>1. \A T \in C : IsFiniteSet(T)
  BY FS_Subset
<1>2. PICK T \in C : \A U \in C : Cardinality(T) <= Cardinality(U)
  <2> HIDE DEF C
  <2> QED
    BY <1>1, SmallestSet
<1> DEFINE way(s) == Way(f, s)[s]
           w == [s \in SUBSET T |-> IF s = {} THEN 0
                                    ELSE f[Pick(s)] + way(s \ {Pick(s)})]
<1>3. ASSUME NEW s \in SUBSET T, s # T PROVE Adds(f, s, Way(f, s))
  <2>1. IsFiniteSet(T) /\ IsFiniteSet(s)
    BY <1>1, FS_Subset
  <2>2. /\ Cardinality(s) <= Cardinality(T) /\ Cardinality(s) # Cardinality(T)
        /\ Cardinality(s) \in Nat /\ Cardinality(T) \in Nat
    BY <1>3, <2>1, FS_Subset, FS_CardinalityType
  <2>3. s \notin C
    BY <1>2, <2>2
  <2> QED
    BY <2>3 DEF Way
<1>4. ASSUME NEW s \in SUBSET T, s # {} PROVE w[s \ {Pick(s)}] = way(s \ {Pick(s)})
  <2> DEFINE u == s \ {Pick(s)}
  <2>1. u \in SUBSET T /\ u # T
    BY <1>4 DEF Pick
  <2>2. Adds(f, u, Way(f, u)) /\ u \in SUBSET u
    BY <1>3, <2>1
  <2>3. CASE u = {}
    BY <2>1, <2>2, <2>3, AddsGives
  <2>4. CASE u # {}
    <3> HIDE DEF u
    <3> DEFINE v == u \ {Pick(u)}
    <3>1. /\ Pick(u) \in u
          /\ way(u) = f[Pick(u)] + Way(f, u)[v]
      BY <2>2, <2>4, AddsGives
    <3>2. w[u] = f[Pick(u)] + way(v)
      BY <2>1, <2>4
    <3>3. v \in SUBSET T /\ v # T /\ v \subseteq u /\ v \in SUBSET v
      BY <2>1, <3>1
    <3>4. Adds(f, v, Way(f, v))
      BY <1>3, <3>3
    <3>5. IsFiniteSet(v)
      BY <1>1, <3>3, FS_Subset
    <3> HIDE DEF v
    <3>6. Way(f, v)[v] = Way(f, u)[v]
      BY <2>2, <3>3, <3>4, <3>5, AddsOneWay
    <3> QED
      BY <3>1, <3>2, <3>6 DEF u
  <2> QED
    BY <2>3, <2>4
<1>5. Adds(f, T, w)
  <2>1. \A s \in SUBSET T : s # {} => w[s \ {Pick(s)}] = way(s \ {Pick(s)})
    BY <1>4
  <2>2. w = [s \in SUBSET T |-> IF s = {} THEN 0 ELSE f[Pick(s)] + w[s \ {Pick(s)}]]
    <3>1. \A s \in SUBSET T :
            (IF s = {} THEN 0 ELSE f[Pick(s)] + way(s \ {Pick(s)}))
              = (IF s = {} THEN 0 ELSE f[Pick(s)] + w[s \ {Pick(s)}])
      BY <2>1
    <3> HIDE DEF way
    <3> QED
      BY <3>1
  <2> QED
    BY <2>2 DEF Adds
<1> QED
  BY <1>2, <1>5

Total(f, S) == MapThenSumSet(LAMBDA a : f[a], S)

(* The total takes an element, and the total of the rest. *)
LEMMA TotalPicks ==
  ASSUME NEW f, NEW S, IsFiniteSet(S)
  PROVE  /\ S = {} => Total(f, S) = 0
         /\ S # {} => /\ Pick(S) \in S
                      /\ Total(f, S) = f[Pick(S)] + Total(f, S \ {Pick(S)})
<1>1. ASSUME NEW T PROVE Total(f, T) = Way(f, T)[T]
  BY DEF Total, MapThenSumSet, MapThenFoldSet, Way, Adds, Pick
<1>2. ASSUME NEW T, IsFiniteSet(T) PROVE Adds(f, T, Way(f, T))
  BY <1>2, AddsExists DEF Way
<1>3. CASE S = {}
  BY <1>1, <1>2, <1>3, AddsGives
<1>4. CASE S # {}
  <2> DEFINE u == S \ {Pick(S)}
  <2>1. Pick(S) \in S /\ Way(f, S)[S] = f[Pick(S)] + Way(f, S)[u]
    BY SMTT(40), <1>2, <1>4, AddsGives
  <2>2. IsFiniteSet(u) /\ u \subseteq S /\ u \in SUBSET u
    BY FS_Subset
  <2>3. Adds(f, u, Way(f, u)) /\ Adds(f, S, Way(f, S))
    BY <1>2, <2>2
  <2> HIDE DEF u
  <2>4. Way(f, u)[u] = Way(f, S)[u]
    BY <2>2, <2>3, AddsOneWay
  <2> QED
    BY <1>1, <1>4, <2>1, <2>4 DEF u
<1> QED
  BY <1>3, <1>4

(* Totals of integers are integers. *)
LEMMA TotalType ==
  ASSUME NEW f, NEW S, IsFiniteSet(S), \A a \in S : f[a] \in Int
  PROVE  Total(f, S) \in Int
<1> DEFINE C == {T \in SUBSET S : Total(f, T) \notin Int}
<1> SUFFICES ASSUME C # {} PROVE FALSE
  OBVIOUS
<1>1. \A T \in C : IsFiniteSet(T)
  BY FS_Subset
<1>2. PICK T \in C : \A U \in C : Cardinality(T) <= Cardinality(U)
  <2> HIDE DEF C
  <2> QED
    BY <1>1, SmallestSet
<1>3. T # {}
  <2>1. T = {} => Total(f, T) = 0
    BY <1>1, TotalPicks
  <2>2. Total(f, T) \notin Int
    OBVIOUS
  <2> QED
    BY <2>1, <2>2
<1> DEFINE x == Pick(T)
           u == T \ {x}
<1>4. x \in T /\ u \in SUBSET S
  BY <1>1, <1>3, TotalPicks
<1>5. Total(f, T) = f[x] + Total(f, u)
  BY <1>1, <1>3, TotalPicks
<1> HIDE DEF x
<1>6. Cardinality(u) = Cardinality(T) - 1 /\ Cardinality(T) \in Nat
  BY <1>1, <1>4, FS_RemoveElement, FS_CardinalityType
<1>7. u \notin C
  BY <1>2, <1>6, FS_CardinalityType
<1>8. Total(f, u) \in Int
  BY <1>4, <1>7
<1>9. f[x] \in Int
  BY <1>4
<1> QED
  BY <1>5, <1>8, <1>9

(* The total takes any element, and the total of the rest. *)
LEMMA TotalTakes ==
  ASSUME NEW f, NEW S, IsFiniteSet(S), \A a \in S : f[a] \in Int, NEW y \in S
  PROVE  Total(f, S) = f[y] + Total(f, S \ {y})
<1> DEFINE C == {T \in SUBSET S : \E z \in T : Total(f, T) # f[z] + Total(f, T \ {z})}
<1> SUFFICES ASSUME C # {} PROVE FALSE
  OBVIOUS
<1>1. \A T \in C : IsFiniteSet(T)
  BY FS_Subset
<1>2. PICK T \in C : \A U \in C : Cardinality(T) <= Cardinality(U)
  <2> HIDE DEF C
  <2> QED
    BY <1>1, SmallestSet
<1>3. PICK z \in T : Total(f, T) # f[z] + Total(f, T \ {z})
  OBVIOUS
<1> DEFINE x == Pick(T)
           u == T \ {x}
<1>4. x \in T /\ T \in SUBSET S
  BY <1>1, <1>3, TotalPicks
<1>5. Total(f, T) = f[x] + Total(f, u)
  BY <1>1, <1>3, TotalPicks
<1> HIDE DEF x
<1>6. z # x
  BY <1>3, <1>5
<1> DEFINE v == T \ {z}
           r == u \ {z}
<1>7. /\ IsFiniteSet(T) /\ IsFiniteSet(u) /\ IsFiniteSet(v) /\ IsFiniteSet(r)
      /\ x \in v /\ z \in u /\ r = v \ {x} /\ u \in SUBSET S /\ v \in SUBSET S
  BY <1>1, <1>4, <1>6, FS_Subset
<1>8. /\ Cardinality(u) = Cardinality(T) - 1 /\ Cardinality(v) = Cardinality(T) - 1
      /\ Cardinality(T) \in Nat
  BY <1>4, <1>7, FS_RemoveElement, FS_CardinalityType
<1>9. u \notin C /\ v \notin C
  BY SMTT(40), <1>2, <1>8
<1>10. Total(f, u) = f[z] + Total(f, r) /\ Total(f, v) = f[x] + Total(f, r)
  BY <1>7, <1>9
<1>11. f[x] \in Int /\ f[z] \in Int /\ Total(f, r) \in Int
  <2>1. \A a \in r : f[a] \in Int
    BY <1>4
  <2> QED
    BY <1>4, <1>7, <2>1, TotalType
<1> HIDE DEF u, v, r
<1>12. Total(f, T) = f[z] + Total(f, v)
  BY <1>5, <1>10, <1>11
<1> QED
  BY <1>3, <1>12 DEF v

(* The total reads the function at the elements of the set only. *)
LEMMA TotalReads ==
  ASSUME NEW f, NEW g, NEW S, IsFiniteSet(S), \A a \in S : f[a] = g[a]
  PROVE  Total(f, S) = Total(g, S)
<1> DEFINE C == {T \in SUBSET S : Total(f, T) # Total(g, T)}
<1> SUFFICES ASSUME C # {} PROVE FALSE
  OBVIOUS
<1>1. \A T \in C : IsFiniteSet(T)
  BY FS_Subset
<1>2. PICK T \in C : \A U \in C : Cardinality(T) <= Cardinality(U)
  <2> HIDE DEF C
  <2> QED
    BY <1>1, SmallestSet
<1>3. T # {}
  BY <1>1, <1>2, TotalPicks
<1> DEFINE x == Pick(T)
           u == T \ {x}
<1>4. x \in T /\ u \in SUBSET S
  BY <1>1, <1>3, TotalPicks
<1>5. Total(f, T) = f[x] + Total(f, u) /\ Total(g, T) = g[x] + Total(g, u)
  BY <1>1, <1>3, TotalPicks
<1> HIDE DEF x
<1>6. Cardinality(u) = Cardinality(T) - 1 /\ Cardinality(T) \in Nat
  BY <1>1, <1>4, FS_RemoveElement, FS_CardinalityType
<1>7. u \notin C
  BY <1>2, <1>6, FS_CardinalityType
<1>8. Total(f, u) = Total(g, u) /\ f[x] = g[x]
  BY <1>4, <1>7
<1> QED
  BY <1>2, <1>5, <1>8

(* One element more. *)
LEMMA TotalWith ==
  ASSUME NEW f, NEW S, IsFiniteSet(S), NEW y, y \notin S, \A a \in S \cup {y} : f[a] \in Int
  PROVE  Total(f, S \cup {y}) = Total(f, S) + f[y]
<1>1. /\ IsFiniteSet(S \cup {y}) /\ y \in S \cup {y} /\ (S \cup {y}) \ {y} = S
  BY FS_AddElement
<1>2. Total(f, S \cup {y}) = f[y] + Total(f, S)
  BY <1>1, TotalTakes
<1>3. Total(f, S) \in Int /\ f[y] \in Int
  BY TotalType
<1> QED
  BY <1>2, <1>3

(* Nothing adds up to nothing. *)
LEMMA TotalNothing ==
  ASSUME NEW f, NEW S, IsFiniteSet(S), \A a \in S : f[a] = 0
  PROVE  Total(f, S) = 0
<1> DEFINE C == {T \in SUBSET S : Total(f, T) # 0}
<1> SUFFICES ASSUME C # {} PROVE FALSE
  OBVIOUS
<1>1. \A T \in C : IsFiniteSet(T)
  BY FS_Subset
<1>2. PICK T \in C : \A U \in C : Cardinality(T) <= Cardinality(U)
  <2> HIDE DEF C
  <2> QED
    BY <1>1, SmallestSet
<1>3. T # {}
  BY <1>1, <1>2, TotalPicks
<1> DEFINE x == Pick(T)
           u == T \ {x}
<1>4. x \in T /\ u \in SUBSET S
  BY <1>1, <1>3, TotalPicks
<1>5. Total(f, T) = f[x] + Total(f, u)
  BY <1>1, <1>3, TotalPicks
<1> HIDE DEF x
<1>6. Cardinality(u) = Cardinality(T) - 1 /\ Cardinality(T) \in Nat
  BY <1>1, <1>4, FS_RemoveElement, FS_CardinalityType
<1>7. u \notin C
  BY <1>2, <1>6, FS_CardinalityType
<1>8. Total(f, u) = 0 /\ f[x] = 0
  BY <1>4, <1>7
<1> QED
  BY <1>2, <1>5, <1>8

(* A total changes by what one of its terms does. *)
LEMMA TotalChanges ==
  ASSUME NEW f, NEW g, NEW S, IsFiniteSet(S), NEW y \in S,
         \A a \in S : f[a] \in Int /\ g[a] \in Int, \A a \in S \ {y} : f[a] = g[a]
  PROVE  Total(g, S) = Total(f, S) + (g[y] - f[y])
<1>1. /\ Total(f, S) = f[y] + Total(f, S \ {y})
      /\ Total(g, S) = g[y] + Total(g, S \ {y})
  BY TotalTakes
<1>2. IsFiniteSet(S \ {y})
  BY FS_Subset
<1>3. Total(f, S \ {y}) = Total(g, S \ {y})
  BY <1>2, TotalReads
<1>4. Total(f, S \ {y}) \in Int /\ f[y] \in Int /\ g[y] \in Int
  <2>1. \A a \in S \ {y} : f[a] \in Int
    OBVIOUS
  <2> QED
    BY <1>2, <2>1, TotalType
<1> QED
  BY <1>1, <1>3, <1>4

(* Of finitely many numbers, one is the greatest. *)
LEMMA Greatest ==
  ASSUME NEW S, IsFiniteSet(S), S # {}, NEW f, \A x \in S : f[x] \in Int
  PROVE  \E x \in S : \A y \in S : f[y] <= f[x]
<1>1. PICK n \in Nat : ExistsSurjection(1..n, S)
  BY FS_NatSurjection
<1>2. PICK e \in [1..n -> S] : \A x \in S : \E i \in 1..n : e[i] = x
  BY <1>1 DEF ExistsSurjection, Surjection
<1> DEFINE Best(m, j) == j \in 1..m /\ \A i \in 1..m : f[e[i]] <= f[e[j]]
           C == {m \in 1..n : ~ \E j : Best(m, j)}
<1>3. C = {}
  <2> SUFFICES ASSUME C # {} PROVE FALSE
    OBVIOUS
  <2> DEFINE m == Min(C)
  <2>1. C \subseteq Nat
    OBVIOUS
  <2>2. m \in C /\ \A i \in C : m <= i
    <3> HIDE DEF C
    <3> QED
      BY <2>1, MinOfSet
  <2> HIDE DEF m
  <2>3. m \in 1..n /\ ~ \E j : Best(m, j)
    BY <2>2
  <2>4. \A i \in 1..n : f[e[i]] \in Int
    BY <1>2
  <2>5. CASE m = 1
    <3>1. Best(1, 1)
      BY <2>3, <2>4, <2>5
    <3> QED
      BY <2>3, <2>5, <3>1
  <2>6. CASE m # 1
    <3>1. m - 1 \in 1..n /\ m - 1 \notin C
      <4>1. m - 1 \in 1..n /\ m \in Nat
        BY <2>3, <2>6
      <4> HIDE DEF C
      <4> QED
        BY <2>2, <4>1
    <3>2. PICK j : Best(m - 1, j)
      BY <3>1
    <3>3. \A i \in 1..m : i \in 1..(m - 1) \/ i = m
      BY <2>3
    <3>4. j \in 1..m /\ j \in 1..n /\ m \in 1..m
      BY <2>3, <3>2
    <3>5. CASE f[e[m]] <= f[e[j]]
      <4>1. Best(m, j)
        BY <3>2, <3>3, <3>4, <3>5
      <4> QED
        BY <2>3, <4>1
    <3>6. CASE ~(f[e[m]] <= f[e[j]])
      <4>1. \A i \in 1..(m - 1) : f[e[i]] <= f[e[j]] /\ i \in 1..n
        BY <2>3, <3>2
      <4>2. f[e[m]] \in Int /\ f[e[j]] \in Int
        BY <2>3, <2>4, <3>4
      <4>3. \A i \in 1..m : f[e[i]] <= f[e[m]]
        BY <2>4, <3>3, <3>6, <4>1, <4>2
      <4>4. Best(m, m)
        BY <3>4, <4>3
      <4> QED
        BY <2>3, <4>4
    <3> QED
      BY <3>5, <3>6
  <2> QED
    BY <2>5, <2>6
<1>4. n \in 1..n
  <2>1. PICK x \in S : TRUE
    OBVIOUS
  <2>2. PICK i \in 1..n : e[i] = x
    BY <1>2
  <2> QED
    BY <1>1, <2>2
<1>5. PICK j : Best(n, j)
  BY <1>3, <1>4
<1>6. e[j] \in S /\ \A y \in S : f[y] <= f[e[j]]
  BY <1>2, <1>5
<1> QED
  BY <1>6

(***************************************************************************)
(* Folds: taking one step over and over.                                   *)
(***************************************************************************)
(* The greatest of a set of numbers *)
LEMMA MaxOfSet ==
  ASSUME NEW n \in Nat, NEW S, S \subseteq 1..n, S # {}
  PROVE  Max(S) \in S /\ \A i \in S : i <= Max(S)
<1> DEFINE T == {n - i : i \in S}
<1>1. T \subseteq Nat /\ T # {}
  <2>1. \A i \in S : n - i \in Nat
    OBVIOUS
  <2> QED
    BY <2>1
<1>2. Min(T) \in T /\ \A t \in T : Min(T) <= t
  BY <1>1, MinOfSet
<1>3. PICK m \in S : Min(T) = n - m
  BY <1>2
<1>4. \A i \in S : m >= i
  <2> TAKE i \in S
  <2>1. n - m <= n - i
    BY <1>2, <1>3
  <2> QED
    BY <2>1
<1>5. Max(S) \in S /\ \A i \in S : Max(S) >= i
  <2> HIDE DEF T
  <2> QED
    BY <1>4 DEF Max
<1>6. \A i \in S : i \in Int
  OBVIOUS
<1> QED
  BY <1>5, <1>6

(* A step taken n times over from a first value *)
Iterating(w, D, F, base, n) ==
  w \in [0..n -> D] /\ w[0] = base /\ \A i \in 1..n : w[i] = F[w[i - 1]]

LEMMA Iterates ==
  ASSUME NEW D, NEW F \in [D -> D], NEW base \in D, NEW n \in Nat
  PROVE  \E w : Iterating(w, D, F, base, n)
<1> DEFINE Good(m, w) == w \in [0..m -> D] /\ w[0] = base /\ \A i \in 1..m : w[i] = F[w[i - 1]]
           C == {m \in 0..n : ~ \E w : Good(m, w)}
<1> SUFFICES ASSUME C # {} PROVE FALSE
  <2>1. n \notin C
    OBVIOUS
  <2> QED
    BY <2>1 DEF Iterating
<1>1. C \subseteq Nat
  OBVIOUS
<1> DEFINE m == Min(C)
<1>2. m \in C /\ \A i \in C : m <= i
  <2> HIDE DEF C
  <2> QED
    BY <1>1, MinOfSet
<1> HIDE DEF m
<1>3. m \in 0..n /\ ~ \E w : Good(m, w)
  BY <1>2
<1>4. CASE m = 0
  <2>1. Good(0, [i \in 0..0 |-> base])
    OBVIOUS
  <2> QED
    BY <1>3, <1>4, <2>1
<1>5. CASE m # 0
  <2>1. m - 1 \in 0..n /\ m - 1 \notin C
    <3>1. m - 1 \in 0..n /\ m \in Nat
      BY <1>3, <1>5
    <3> HIDE DEF C
    <3> QED
      BY <1>2, <3>1
  <2>2. PICK w : Good(m - 1, w)
    BY <2>1
  <2> DEFINE v == [i \in 0..m |-> IF i = m THEN F[w[m - 1]] ELSE w[i]]
  <2>3. v \in [0..m -> D] /\ v[0] = base
    <3>1. w \in [0..(m - 1) -> D] /\ w[0] = base /\ F[w[m - 1]] \in D
      BY <1>3, <1>5, <2>2
    <3>2. \A i \in 0..m : v[i] \in D
      BY <1>3, <1>5, <3>1
    <3> QED
      BY <1>3, <1>5, <3>1, <3>2
  <2>4. ASSUME NEW i \in 1..m PROVE v[i] = F[v[i - 1]]
    <3>1. i - 1 \in 0..m /\ i - 1 # m /\ i \in 0..m /\ m \in Nat
      BY <1>3
    <3>2. v[i - 1] = w[i - 1]
      BY <3>1
    <3>3. CASE i = m
      BY <3>1, <3>2, <3>3
    <3>4. CASE i # m
      <4>1. i \in 1..(m - 1) /\ v[i] = w[i]
        BY <3>1, <3>4
      <4>2. w[i] = F[w[i - 1]]
        BY <2>2, <4>1
      <4> QED
        BY <3>2, <4>1, <4>2
    <3> QED
      BY <3>3, <3>4
  <2> QED
    BY <1>3, <2>3, <2>4
<1> QED
  BY <1>4, <1>5

(* The same over the parts of 1..n, as the folds of the community modules   *)
(* are defined: they take the greatest element out.                        *)
Folding(g, D, F, base, n) ==
  /\ g \in [SUBSET (1..n) -> D]
  /\ g = [s \in SUBSET (1..n) |-> IF s = {} THEN base ELSE F[g[s \ {Max(s)}]]]

LEMMA IteratesOverSets ==
  ASSUME NEW D, NEW F, NEW base, NEW n \in Nat, NEW w, Iterating(w, D, F, base, n)
  PROVE  \E g : Folding(g, D, F, base, n)
<1> DEFINE g == [s \in SUBSET (1..n) |-> w[Cardinality(s)]]
<1>0. w \in [0..n -> D] /\ w[0] = base /\ \A i \in 1..n : w[i] = F[w[i - 1]]
  BY DEF Iterating
<1>1. IsFiniteSet(1..n) /\ Cardinality(1..n) = n
  BY FS_Interval
<1>2. \A s \in SUBSET (1..n) : Cardinality(s) \in 0..n
  <2> TAKE s \in SUBSET (1..n)
  <2>1. IsFiniteSet(s) /\ Cardinality(s) <= n
    BY <1>1, FS_Subset
  <2>2. Cardinality(s) \in Nat
    BY <2>1, FS_CardinalityType
  <2> QED
    BY <2>1, <2>2
<1>3. g \in [SUBSET (1..n) -> D]
  BY <1>0, <1>2
<1>4. ASSUME NEW s \in SUBSET (1..n)
      PROVE  g[s] = IF s = {} THEN base ELSE F[g[s \ {Max(s)}]]
  <2>1. CASE s = {}
    BY <1>0, <2>1, FS_EmptySet
  <2>2. CASE s # {}
    <3> DEFINE t == s \ {Max(s)}
    <3>1. Max(s) \in s /\ IsFiniteSet(s)
      BY <1>1, <2>2, MaxOfSet, FS_Subset
    <3>2. Cardinality(t) = Cardinality(s) - 1
      BY <3>1, FS_RemoveElement
    <3>3. Cardinality(s) \in 1..n
      <4>1. Cardinality(s) \in 0..n /\ Cardinality(t) \in 0..n
        BY <1>2
      <4> QED
        BY <3>2, <4>1
    <3>4. g[t] = w[Cardinality(s) - 1]
      BY <3>2
    <3>5. w[Cardinality(s)] = F[w[Cardinality(s) - 1]]
      BY <1>0, <3>3
    <3> QED
      BY <2>2, <3>4, <3>5
  <2> QED
    BY <2>1, <2>2
<1>5. g = [s \in SUBSET (1..n) |-> IF s = {} THEN base ELSE F[g[s \ {Max(s)}]]]
  <2>1. g = [s \in SUBSET (1..n) |-> g[s]]
    OBVIOUS
  <2> HIDE DEF g
  <2> QED
    BY <1>4, <2>1
<1> HIDE DEF g
<1> QED
  BY <1>3, <1>5 DEF Folding

(* Whatever agrees with it step by step has its value. *)
Agreeing(g, D, F, base, n) ==
  /\ g[{}] = base
  /\ \A s \in SUBSET (1..n) :
       s # {} /\ g[s \ {Max(s)}] \in D => g[s] = F[g[s \ {Max(s)}]]

LEMMA IteratesAgree ==
  ASSUME NEW D, NEW F, NEW base, NEW n \in Nat, NEW w, Iterating(w, D, F, base, n),
         NEW g, Agreeing(g, D, F, base, n)
  PROVE  g[1..n] = w[n]
<1>0. /\ w \in [0..n -> D] /\ w[0] = base /\ \A i \in 1..n : w[i] = F[w[i - 1]]
      /\ g[{}] = base
  BY DEF Iterating, Agreeing
<1> DEFINE C == {m \in 0..n : g[1..m] # w[m]}
<1> SUFFICES ASSUME C # {} PROVE FALSE
  OBVIOUS
<1> DEFINE m == Min(C)
<1>1. C \subseteq Nat
  OBVIOUS
<1>2. m \in C /\ \A i \in C : m <= i
  <2> HIDE DEF C
  <2> QED
    BY <1>1, MinOfSet
<1> HIDE DEF m
<1>3. m \in 0..n /\ g[1..m] # w[m]
  BY <1>2
<1>4. m # 0
  <2>1. 1..0 = {}
    OBVIOUS
  <2> QED
    BY <1>0, <1>3, <2>1
<1>5. m - 1 \in 0..n /\ g[1..(m - 1)] = w[m - 1]
  <2>1. m - 1 \in 0..n /\ m - 1 \notin C
    BY <1>2, <1>3, <1>4
  <2> QED
    BY <2>1
<1>6. 1..m \in SUBSET (1..n) /\ 1..m # {}
  BY <1>3, <1>4
<1>7. Max(1..m) = m
  <2>1. Max(1..m) \in 1..m /\ \A i \in 1..m : i <= Max(1..m)
    BY <1>6, MaxOfSet
  <2>2. m \in 1..m
    BY <1>3, <1>4
  <2> QED
    BY <1>3, <2>1, <2>2
<1>8. (1..m) \ {m} = 1..(m - 1)
  BY <1>3
<1>9. g[1..m] = F[w[m - 1]]
  <2>1. (1..m) \ {Max(1..m)} = 1..(m - 1)
    BY <1>7, <1>8
  <2>2. w[m - 1] \in D
    BY <1>0, <1>5
  <2>3. g[1..m] = F[g[1..(m - 1)]]
    BY <1>5, <1>6, <2>1, <2>2 DEF Agreeing
  <2> QED
    BY <1>5, <2>3
<1>10. w[m] = F[w[m - 1]]
  BY <1>0, <1>3, <1>4
<1> QED
  BY <1>3, <1>9, <1>10
=============================================================================
