------------------------------ MODULE DataLemmas ------------------------------
(***************************************************************************)
(* Facts about the data the models are made of.  The free list, the block  *)
(* tables, the scheduler's two queues and its work list are sequences      *)
(* without repetition: each lemma says what an operation does to the set   *)
(* of elements, so that the proofs that cite it can argue about sets.  The *)
(* metrics are sums over finite sets, by induction on their size.          *)
(***************************************************************************)
EXTENDS Integers, Sequences, SequencesExt, SequenceTheorems, FiniteSetTheorems,
        WellFoundedInduction, TLAPS

(* ToSet and IsInjective in terms of positions. *)
LEMMA InToSet ==
  ASSUME NEW S, NEW s \in Seq(S), NEW x
  PROVE  x \in ToSet(s) <=> \E i \in 1 .. Len(s) : s[i] = x
  BY DEF ToSet

LEMMA ToSetOfSeq ==
  ASSUME NEW S, NEW s \in Seq(S)
  PROVE  ToSet(s) \subseteq S
  BY InToSet

LEMMA InjectiveSeq ==
  ASSUME NEW S, NEW s \in Seq(S)
  PROVE  IsInjective(s) <=> \A i, j \in 1 .. Len(s) : s[i] = s[j] => i = j
  BY DEF IsInjective

(* A table and what is left when its blocks are popped split the free list. *)
LEMMA SplitSeq ==
  ASSUME NEW S, NEW s \in Seq(S), NEW n \in 0 .. Len(s)
  PROVE  /\ SubSeq(s, 1, n) \in Seq(S)
         /\ Len(SubSeq(s, 1, n)) = n
         /\ \A i \in 1 .. n : SubSeq(s, 1, n)[i] = s[i]
         /\ SubSeq(s, n + 1, Len(s)) \in Seq(S)
         /\ Len(SubSeq(s, n + 1, Len(s))) = Len(s) - n
         /\ \A i \in 1 .. Len(s) - n : SubSeq(s, n + 1, Len(s))[i] = s[n + i]
<1>1. \A i \in 1 .. Len(s) : s[i] \in S
  OBVIOUS
<1>2. Len(s) \in Nat
  OBVIOUS
<1>3. /\ SubSeq(s, 1, n) \in Seq(S)
      /\ Len(SubSeq(s, 1, n)) = IF 1 <= n THEN n - 1 + 1 ELSE 0
      /\ \A i \in 1 .. n - 1 + 1 : SubSeq(s, 1, n)[i] = s[1 + i - 1]
  BY <1>1, <1>2, SubSeqProperties
<1>4. /\ SubSeq(s, n + 1, Len(s)) \in Seq(S)
      /\ Len(SubSeq(s, n + 1, Len(s))) =
           IF n + 1 <= Len(s) THEN Len(s) - (n + 1) + 1 ELSE 0
      /\ \A i \in 1 .. Len(s) - (n + 1) + 1 :
            SubSeq(s, n + 1, Len(s))[i] = s[(n + 1) + i - 1]
  BY <1>1, <1>2, SubSeqProperties
<1> QED
  BY <1>2, <1>3, <1>4

(* Cutting a distinct sequence in two gives distinct, disjoint halves. *)
LEMMA SplitDistinct ==
  ASSUME NEW S, NEW s \in Seq(S), IsInjective(s), NEW n \in 0 .. Len(s)
  PROVE  LET a == SubSeq(s, 1, n)
             b == SubSeq(s, n + 1, Len(s))
         IN  /\ a \in Seq(S) /\ b \in Seq(S)
             /\ IsInjective(a) /\ IsInjective(b)
             /\ ToSet(a) \cap ToSet(b) = {}
             /\ ToSet(a) \cup ToSet(b) = ToSet(s)
             /\ Len(a) = n /\ Len(b) = Len(s) - n
<1> DEFINE a == SubSeq(s, 1, n)
           b == SubSeq(s, n + 1, Len(s))
<1>1. /\ a \in Seq(S) /\ Len(a) = n /\ \A i \in 1 .. n : a[i] = s[i]
      /\ b \in Seq(S) /\ Len(b) = Len(s) - n
      /\ \A i \in 1 .. Len(s) - n : b[i] = s[n + i]
  BY SplitSeq
<1>2. Len(s) \in Nat /\ n \in Nat /\ n <= Len(s)
  OBVIOUS
<1> HIDE DEF a, b
<1>3. \A i, j \in 1 .. Len(s) : s[i] = s[j] => i = j
  BY InjectiveSeq
<1>4. IsInjective(a)
  <2>1. \A i, j \in 1 .. Len(a) : a[i] = a[j] => i = j
    BY <1>1, <1>2, <1>3
  <2> QED
    BY <1>1, <2>1, InjectiveSeq
<1>5. IsInjective(b)
  <2>1. \A i, j \in 1 .. Len(b) : b[i] = b[j] => i = j
    <3> SUFFICES ASSUME NEW i \in 1 .. Len(b), NEW j \in 1 .. Len(b), b[i] = b[j]
                 PROVE  i = j
      OBVIOUS
    <3>1. n + i \in 1 .. Len(s) /\ n + j \in 1 .. Len(s) /\ s[n + i] = s[n + j]
      BY <1>1, <1>2
    <3> QED
      BY <3>1, <1>2, <1>3
  <2> QED
    BY <1>1, <2>1, InjectiveSeq
<1>6. ToSet(a) \cap ToSet(b) = {}
  <2> SUFFICES ASSUME NEW i \in 1 .. Len(a), NEW j \in 1 .. Len(b), a[i] = b[j]
               PROVE  FALSE
    BY <1>1 DEF ToSet
  <2>1. i \in 1 .. Len(s) /\ n + j \in 1 .. Len(s) /\ s[i] = s[n + j] /\ i # n + j
    BY <1>1, <1>2
  <2> QED
    BY <2>1, <1>3
<1>7. ToSet(a) \cup ToSet(b) = ToSet(s)
  <2>1. ASSUME NEW x \in ToSet(a) \cup ToSet(b) PROVE x \in ToSet(s)
    <3>1. CASE x \in ToSet(a)
      <4>1. PICK i \in 1 .. Len(a) : a[i] = x
        BY <3>1, <1>1, InToSet
      <4>2. i \in 1 .. Len(s) /\ s[i] = x
        BY <4>1, <1>1, <1>2
      <4> QED
        BY <4>2, InToSet
    <3>2. CASE x \in ToSet(b)
      <4>1. PICK i \in 1 .. Len(b) : b[i] = x
        BY <3>2, <1>1, InToSet
      <4>2. n + i \in 1 .. Len(s) /\ s[n + i] = x
        BY <4>1, <1>1, <1>2
      <4> QED
        BY <4>2, InToSet
    <3> QED
      BY <2>1, <3>1, <3>2
  <2>2. ASSUME NEW x \in ToSet(s) PROVE x \in ToSet(a) \cup ToSet(b)
    <3>1. PICK i \in 1 .. Len(s) : s[i] = x
      BY <2>2, InToSet
    <3>2. CASE i <= n
      <4>1. i \in 1 .. Len(a) /\ a[i] = x
        BY <3>1, <3>2, <1>1, <1>2
      <4> QED
        BY <4>1, <1>1, InToSet
    <3>3. CASE i > n
      <4>1. i - n \in 1 .. Len(b) /\ b[i - n] = x
        BY <3>1, <3>3, <1>1, <1>2
      <4> QED
        BY <4>1, <1>1, InToSet
    <3> QED
      BY <3>1, <3>2, <3>3, <1>2
  <2> QED
    BY <2>1, <2>2
<1> QED
  BY <1>1, <1>4, <1>5, <1>6, <1>7 DEF a, b

(* Two distinct, disjoint sequences make a distinct one. *)
LEMMA ConcatDistinct ==
  ASSUME NEW S, NEW s \in Seq(S), NEW t \in Seq(S), IsInjective(s), IsInjective(t),
         ToSet(s) \cap ToSet(t) = {}
  PROVE  /\ s \o t \in Seq(S)
         /\ IsInjective(s \o t)
         /\ ToSet(s \o t) = ToSet(s) \cup ToSet(t)
         /\ Len(s \o t) = Len(s) + Len(t)
<1> DEFINE u == s \o t
<1>1. /\ u \in Seq(S) /\ Len(u) = Len(s) + Len(t)
      /\ \A i \in 1 .. Len(s) + Len(t) :
            u[i] = IF i <= Len(s) THEN s[i] ELSE t[i - Len(s)]
  BY ConcatProperties
<1>2. Len(s) \in Nat /\ Len(t) \in Nat
  OBVIOUS
<1> HIDE DEF u
<1>3. /\ \A i, j \in 1 .. Len(s) : s[i] = s[j] => i = j
      /\ \A i, j \in 1 .. Len(t) : t[i] = t[j] => i = j
  BY InjectiveSeq
<1>4. \A i \in 1 .. Len(s), j \in 1 .. Len(t) : s[i] # t[j]
  BY DEF ToSet
<1>5. IsInjective(u)
  <2> SUFFICES ASSUME NEW i \in 1 .. Len(u), NEW j \in 1 .. Len(u), u[i] = u[j]
               PROVE  i = j
    BY <1>1, InjectiveSeq
  <2>1. CASE i <= Len(s) /\ j <= Len(s)
    BY <2>1, <1>1, <1>2, <1>3
  <2>2. CASE i > Len(s) /\ j > Len(s)
    <3>1. /\ i - Len(s) \in 1 .. Len(t) /\ j - Len(s) \in 1 .. Len(t)
          /\ t[i - Len(s)] = t[j - Len(s)]
      BY <2>2, <1>1, <1>2
    <3> QED
      BY <3>1, <1>2, <1>3
  <2>3. CASE i <= Len(s) /\ j > Len(s)
    <3>1. i \in 1 .. Len(s) /\ j - Len(s) \in 1 .. Len(t) /\ s[i] = t[j - Len(s)]
      BY <2>3, <1>1, <1>2
    <3> QED
      BY <3>1, <1>4
  <2>4. CASE i > Len(s) /\ j <= Len(s)
    <3>1. j \in 1 .. Len(s) /\ i - Len(s) \in 1 .. Len(t) /\ s[j] = t[i - Len(s)]
      BY <2>4, <1>1, <1>2
    <3> QED
      BY <3>1, <1>4
  <2> QED
    BY <1>1, <1>2, <2>1, <2>2, <2>3, <2>4
<1>6. ToSet(u) = ToSet(s) \cup ToSet(t)
  <2>1. ASSUME NEW x \in ToSet(u) PROVE x \in ToSet(s) \cup ToSet(t)
    <3>1. PICK i \in 1 .. Len(u) : u[i] = x
      BY <2>1, <1>1, InToSet
    <3>2. CASE i <= Len(s)
      BY <3>1, <3>2, <1>1, <1>2, InToSet
    <3>3. CASE i > Len(s)
      <4>1. i - Len(s) \in 1 .. Len(t) /\ t[i - Len(s)] = x
        BY <3>1, <3>3, <1>1, <1>2
      <4> QED
        BY <4>1, InToSet
    <3> QED
      BY <3>1, <3>2, <3>3, <1>1, <1>2
  <2>2. ASSUME NEW x \in ToSet(s) PROVE x \in ToSet(u)
    <3>1. PICK i \in 1 .. Len(s) : s[i] = x
      BY <2>2, InToSet
    <3>2. i \in 1 .. Len(u) /\ u[i] = x
      BY <3>1, <1>1, <1>2
    <3> QED
      BY <3>2, <1>1, InToSet
  <2>3. ASSUME NEW x \in ToSet(t) PROVE x \in ToSet(u)
    <3>1. PICK i \in 1 .. Len(t) : t[i] = x
      BY <2>3, InToSet
    <3>2. /\ Len(s) + i \in 1 .. Len(s) + Len(t)
          /\ ~(Len(s) + i <= Len(s)) /\ (Len(s) + i) - Len(s) = i
      BY <1>2
    <3>3. Len(s) + i \in 1 .. Len(u) /\ u[Len(s) + i] = x
      BY <3>1, <3>2, <1>1
    <3> QED
      BY <3>3, <1>1, InToSet
  <2> QED
    BY <2>1, <2>2, <2>3
<1> QED
  BY <1>1, <1>5, <1>6 DEF u

(* append() of a new element. *)
LEMMA AppendDistinct ==
  ASSUME NEW S, NEW s \in Seq(S), IsInjective(s), NEW x \in S, x \notin ToSet(s)
  PROVE  /\ Append(s, x) \in Seq(S)
         /\ IsInjective(Append(s, x))
         /\ ToSet(Append(s, x)) = ToSet(s) \cup {x}
         /\ Len(Append(s, x)) = Len(s) + 1
<1> DEFINE t == <<x>>
<1>1. Append(s, x) = s \o t
  BY AppendIsConcat
<1>2. t \in Seq(S) /\ Len(t) = 1 /\ IsInjective(t) /\ ToSet(t) = {x}
  BY DEF IsInjective, ToSet
<1> HIDE DEF t
<1>3. ToSet(s) \cap ToSet(t) = {}
  BY <1>2
<1> QED
  BY <1>1, <1>2, <1>3, ConcatDistinct

(* appendleft() of a new element. *)
LEMMA ConsDistinct ==
  ASSUME NEW S, NEW s \in Seq(S), IsInjective(s), NEW x \in S, x \notin ToSet(s)
  PROVE  /\ Cons(x, s) \in Seq(S)
         /\ IsInjective(Cons(x, s))
         /\ ToSet(Cons(x, s)) = ToSet(s) \cup {x}
<1> DEFINE t == <<x>>
<1>1. t \in Seq(S) /\ IsInjective(t) /\ ToSet(t) = {x}
  BY DEF IsInjective, ToSet
<1>2. Cons(x, s) = t \o s
  BY DEF Cons
<1> HIDE DEF t
<1>3. ToSet(t) \cap ToSet(s) = {}
  BY <1>1
<1> QED
  BY <1>1, <1>2, <1>3, ConcatDistinct

(* popleft(): what is left is everything but the head. *)
LEMMA TailDistinct ==
  ASSUME NEW S, NEW s \in Seq(S), IsInjective(s), s # << >>
  PROVE  /\ Head(s) \in S /\ Head(s) \in ToSet(s)
         /\ Tail(s) \in Seq(S)
         /\ IsInjective(Tail(s))
         /\ ToSet(Tail(s)) = ToSet(s) \ {Head(s)}
<1>1. /\ Head(s) = s[1] /\ Head(s) \in S /\ Tail(s) \in Seq(S)
      /\ Len(Tail(s)) = Len(s) - 1
      /\ \A i \in 1 .. Len(s) - 1 : Tail(s)[i] = s[i + 1]
  BY HeadTailProperties
<1>2. Len(s) \in Nat /\ Len(s) >= 1
  BY EmptySeq
<1>3. \A i, j \in 1 .. Len(s) : s[i] = s[j] => i = j
  BY InjectiveSeq
<1> DEFINE t == Tail(s)
<1> HIDE DEF t
<1>4. /\ t \in Seq(S) /\ Len(t) = Len(s) - 1 /\ \A i \in 1 .. Len(s) - 1 : t[i] = s[i + 1]
  BY <1>1 DEF t
<1>5. IsInjective(t)
  <2> SUFFICES ASSUME NEW i \in 1 .. Len(t), NEW j \in 1 .. Len(t), t[i] = t[j]
               PROVE  i = j
    BY <1>4, InjectiveSeq
  <2>1. i + 1 \in 1 .. Len(s) /\ j + 1 \in 1 .. Len(s) /\ s[i + 1] = s[j + 1]
    BY <1>2, <1>4
  <2> QED
    BY <1>2, <1>3, <2>1
<1>6. ASSUME NEW x \in ToSet(t) PROVE x \in ToSet(s) /\ x # s[1]
  <2>1. PICK i \in 1 .. Len(t) : t[i] = x
    BY <1>4, <1>6, InToSet
  <2>2. i + 1 \in 1 .. Len(s) /\ s[i + 1] = x /\ 1 \in 1 .. Len(s) /\ i + 1 # 1
    BY <1>2, <1>4, <2>1
  <2> QED
    BY <1>3, <2>2, InToSet
<1>7. ASSUME NEW x \in ToSet(s), x # s[1] PROVE x \in ToSet(t)
  <2>1. PICK i \in 1 .. Len(s) : s[i] = x
    BY <1>7, InToSet
  <2>2. i - 1 \in 1 .. Len(t) /\ (i - 1) + 1 = i
    BY <1>2, <1>4, <1>7, <2>1
  <2>3. t[i - 1] = x
    BY <1>4, <2>1, <2>2
  <2> QED
    BY <1>4, <2>2, <2>3, InToSet
<1>8. s[1] \in ToSet(s)
  <2>1. 1 \in 1 .. Len(s)
    BY <1>2
  <2> QED
    BY <2>1, InToSet
<1> QED
  BY <1>1, <1>5, <1>6, <1>7, <1>8 DEF t

(* list.remove() of an element the list has. *)
LEMMA RemoveFirstPosition ==
  ASSUME NEW S, NEW s \in Seq(S), IsInjective(s), NEW x \in ToSet(s)
  PROVE  \E k \in 1 .. Len(s) : s[k] = x /\ RemoveFirst(s, x) = RemoveAt(s, k)
<1>1. PICK k \in 1 .. Len(s) : s[k] = x
  BY InToSet
<1>2. \A i, j \in 1 .. Len(s) : s[i] = s[j] => i = j
  BY InjectiveSeq
<1>3. {i \in 1 .. Len(s) : s[i] = x} = {k}
  BY <1>1, <1>2
<1>4. Min({k}) = k
  BY <1>1 DEF Min
<1>5. SelectInSeq(s, LAMBDA v : v = x) = k
  BY <1>3, <1>4 DEF SelectInSeq
<1> QED
  BY <1>1, <1>5 DEF RemoveFirst

LEMMA RemoveFirstDistinct ==
  ASSUME NEW S, NEW s \in Seq(S), IsInjective(s), NEW x \in ToSet(s)
  PROVE  /\ RemoveFirst(s, x) \in Seq(S)
         /\ IsInjective(RemoveFirst(s, x))
         /\ ToSet(RemoveFirst(s, x)) = ToSet(s) \ {x}
         /\ Len(RemoveFirst(s, x)) = Len(s) - 1
<1>1. PICK k \in 1 .. Len(s) : s[k] = x /\ RemoveFirst(s, x) = RemoveAt(s, k)
  BY RemoveFirstPosition
<1>2. \A i, j \in 1 .. Len(s) : s[i] = s[j] => i = j
  BY InjectiveSeq
<1>3. Len(s) \in Nat /\ k - 1 \in 0 .. Len(s) /\ k \in 0 .. Len(s) /\ (k - 1) + 1 = k
  OBVIOUS
<1>4. RemoveFirst(s, x) = SubSeq(s, 1, k - 1) \o SubSeq(s, k + 1, Len(s))
  BY <1>1 DEF RemoveAt
<1> DEFINE a == SubSeq(s, 1, k - 1)
           b == SubSeq(s, k, Len(s))
           c == SubSeq(s, k + 1, Len(s))
<1>5. /\ a \in Seq(S) /\ b \in Seq(S) /\ IsInjective(a) /\ IsInjective(b)
      /\ ToSet(a) \cap ToSet(b) = {} /\ ToSet(a) \cup ToSet(b) = ToSet(s)
      /\ Len(a) = k - 1 /\ Len(b) = Len(s) - (k - 1)
  BY <1>3, SplitDistinct
<1>6. b # << >> /\ Head(b) = x /\ Tail(b) = c
  <2>1. k \in 1 .. Len(s) /\ Len(s) \in k .. Len(s)
    BY <1>1
  <2>2. Head(b) = s[k] /\ Tail(b) = c
    BY <2>1, HeadTailOfSubSeq
  <2>3. Len(b) # 0
    BY <1>3, <1>5
  <2> QED
    BY <1>1, <2>2, <2>3, EmptySeq
<1> HIDE DEF a, b, c
<1>7. /\ c \in Seq(S) /\ IsInjective(c) /\ ToSet(c) = ToSet(b) \ {x}
      /\ x \in ToSet(b) /\ Len(c) = Len(b) - 1
  BY <1>5, <1>6, TailDistinct, HeadTailProperties
<1>8. /\ a \o c \in Seq(S) /\ IsInjective(a \o c)
      /\ ToSet(a \o c) = ToSet(a) \cup ToSet(c) /\ Len(a \o c) = Len(a) + Len(c)
  <2>1. ToSet(a) \cap ToSet(c) = {}
    BY <1>5, <1>7
  <2>2. a \in Seq(S) /\ IsInjective(a)
    BY <1>5
  <2>3. c \in Seq(S) /\ IsInjective(c)
    BY <1>7
  <2> QED
    BY <2>1, <2>2, <2>3, ConcatDistinct
<1>9. RemoveFirst(s, x) = a \o c
  BY <1>4 DEF a, c
<1> QED
  BY <1>3, <1>5, <1>7, <1>8, <1>9

-----------------------------------------------------------------------------
(***************************************************************************)
(* The order of a queue: x is somewhere ahead of y.  What an operation     *)
(* does to the order, so that an ordering invariant can be argued about    *)
(* pairs of elements instead of positions.                                 *)
(***************************************************************************)
Ahead(s, x, y) == \E i, j \in DOMAIN s : i < j /\ s[i] = x /\ s[j] = y

LEMMA AheadPositions ==
  ASSUME NEW S, NEW s \in Seq(S), NEW x, NEW y
  PROVE  Ahead(s, x, y) <=> \E i, j \in 1 .. Len(s) : i < j /\ s[i] = x /\ s[j] = y
  BY DEF Ahead

LEMMA AheadMembers ==
  ASSUME NEW S, NEW s \in Seq(S), NEW x, NEW y, Ahead(s, x, y)
  PROVE  x \in ToSet(s) /\ y \in ToSet(s) /\ x \in S /\ y \in S
  BY AheadPositions, InToSet

LEMMA AheadInAppend ==
  ASSUME NEW S, NEW s \in Seq(S), NEW e \in S, NEW x, NEW y, Ahead(Append(s, e), x, y)
  PROVE  Ahead(s, x, y) \/ (x \in ToSet(s) /\ y = e)
<1>1. /\ Append(s, e) \in Seq(S) /\ Len(Append(s, e)) = Len(s) + 1 /\ Len(s) \in Nat
      /\ \A i \in 1 .. Len(s) : Append(s, e)[i] = s[i]
      /\ Append(s, e)[Len(s) + 1] = e
  BY AppendProperties
<1> DEFINE t == Append(s, e)
<1>2. PICK i, j \in 1 .. Len(t) : i < j /\ t[i] = x /\ t[j] = y
  <2>1. t \in Seq(S) /\ Ahead(t, x, y)
    BY <1>1
  <2> HIDE DEF t
  <2> QED
    BY <2>1, AheadPositions
<1> HIDE DEF t
<1>3. i \in 1 .. Len(s) /\ t[i] = s[i]
  BY <1>1, <1>2 DEF t
<1>4. CASE j \in 1 .. Len(s)
  <2>1. t[j] = s[j]
    BY <1>1, <1>4 DEF t
  <2> QED
    BY <1>2, <1>3, <1>4, <2>1, AheadPositions
<1>5. CASE j = Len(s) + 1
  BY <1>1, <1>2, <1>3, <1>5, InToSet DEF t
<1> QED
  BY <1>1, <1>2, <1>4, <1>5 DEF t

LEMMA AheadInCons ==
  ASSUME NEW S, NEW s \in Seq(S), NEW e \in S, NEW x, NEW y, Ahead(Cons(e, s), x, y)
  PROVE  Ahead(s, x, y) \/ (x = e /\ y \in ToSet(s))
<1> DEFINE t == Cons(e, s)
<1>1. /\ t \in Seq(S) /\ Len(t) = Len(s) + 1 /\ Len(s) \in Nat
      /\ \A i \in 1 .. Len(t) : t[i] = IF i <= 1 THEN e ELSE s[i - 1]
  <2>1. <<e>> \in Seq(S) /\ Len(<<e>>) = 1 /\ <<e>>[1] = e
    OBVIOUS
  <2>2. /\ <<e>> \o s \in Seq(S) /\ Len(<<e>> \o s) = 1 + Len(s)
        /\ \A i \in 1 .. 1 + Len(s) : (<<e>> \o s)[i] = IF i <= 1 THEN <<e>>[i] ELSE s[i - 1]
    BY <2>1, ConcatProperties
  <2>3. t = <<e>> \o s /\ Len(s) \in Nat
    BY DEF Cons
  <2> HIDE DEF t
  <2>4. ASSUME NEW i \in 1 .. Len(t) PROVE t[i] = IF i <= 1 THEN e ELSE s[i - 1]
    <3>1. i \in 1 .. 1 + Len(s) /\ (i <= 1 => i = 1)
      BY <2>2, <2>3
    <3> QED
      BY <2>1, <2>2, <2>3, <3>1
  <2> QED
    BY <2>2, <2>3, <2>4
<1>2. PICK i, j \in 1 .. Len(t) : i < j /\ t[i] = x /\ t[j] = y
  <2>1. Ahead(t, x, y)
    OBVIOUS
  <2> HIDE DEF t
  <2> QED
    BY <1>1, <2>1, AheadPositions
<1> HIDE DEF t
<1>3. j - 1 \in 1 .. Len(s) /\ ~(j <= 1) /\ t[j] = s[j - 1]
  BY <1>1, <1>2
<1>4. CASE i = 1
  BY <1>1, <1>2, <1>3, <1>4, InToSet
<1>5. CASE i # 1
  <2>1. i - 1 \in 1 .. Len(s) /\ ~(i <= 1) /\ t[i] = s[i - 1] /\ i - 1 < j - 1
    BY <1>1, <1>2, <1>5
  <2> QED
    BY <1>2, <1>3, <2>1, AheadPositions
<1> QED
  BY <1>4, <1>5

LEMMA AheadInTail ==
  ASSUME NEW S, NEW s \in Seq(S), s # << >>, NEW x, NEW y
  PROVE  /\ Ahead(Tail(s), x, y) => Ahead(s, x, y)
         /\ y \in ToSet(Tail(s)) => Ahead(s, Head(s), y)
<1> DEFINE t == Tail(s)
<1>1. /\ t \in Seq(S) /\ Len(t) = Len(s) - 1 /\ Len(s) \in Nat /\ Len(s) >= 1
      /\ Head(s) = s[1] /\ \A i \in 1 .. Len(t) : t[i] = s[i + 1]
  BY HeadTailProperties, EmptySeq
<1> HIDE DEF t
<1>2. ASSUME Ahead(t, x, y) PROVE Ahead(s, x, y)
  <2>1. PICK i, j \in 1 .. Len(t) : i < j /\ t[i] = x /\ t[j] = y
    BY <1>1, <1>2, AheadPositions
  <2>2. i + 1 \in 1 .. Len(s) /\ j + 1 \in 1 .. Len(s) /\ i + 1 < j + 1
    BY <1>1, <2>1
  <2> QED
    BY <1>1, <2>1, <2>2, AheadPositions
<1>3. ASSUME y \in ToSet(t) PROVE Ahead(s, s[1], y)
  <2>1. PICK i \in 1 .. Len(t) : t[i] = y
    BY <1>1, <1>3, InToSet
  <2>2. 1 \in 1 .. Len(s) /\ i + 1 \in 1 .. Len(s) /\ 1 < i + 1
    BY <1>1, <2>1
  <2> QED
    BY <1>1, <2>1, <2>2, AheadPositions
<1> QED
  BY <1>1, <1>2, <1>3 DEF t

LEMMA AheadInRemoveFirst ==
  ASSUME NEW S, NEW s \in Seq(S), IsInjective(s), NEW e \in ToSet(s), NEW x, NEW y,
         Ahead(RemoveFirst(s, e), x, y)
  PROVE  Ahead(s, x, y)
<1>1. PICK k \in 1 .. Len(s) : s[k] = e /\ RemoveFirst(s, e) = RemoveAt(s, k)
  BY RemoveFirstPosition
<1> DEFINE a == SubSeq(s, 1, k - 1)
           b == SubSeq(s, k + 1, Len(s))
           t == a \o b
<1>2. Len(s) \in Nat /\ k - 1 \in 0 .. Len(s) /\ k \in 0 .. Len(s)
  OBVIOUS
<1>3. /\ a \in Seq(S) /\ Len(a) = k - 1 /\ \A i \in 1 .. k - 1 : a[i] = s[i]
  BY <1>2, SplitSeq
<1>4. /\ b \in Seq(S) /\ Len(b) = Len(s) - k
      /\ \A i \in 1 .. Len(s) - k : b[i] = s[i + k]
  BY <1>2, SplitSeq
<1>5. Ahead(t, x, y)
  BY <1>1 DEF RemoveAt
<1> HIDE DEF a, b
<1>6. /\ t \in Seq(S) /\ Len(t) = Len(a) + Len(b)
      /\ \A i \in 1 .. Len(a) + Len(b) : t[i] = IF i <= Len(a) THEN a[i] ELSE b[i - Len(a)]
  BY <1>3, <1>4, ConcatProperties
<1> HIDE DEF t
<1>7. ASSUME NEW i \in 1 .. Len(t)
      PROVE  t[i] = s[IF i < k THEN i ELSE i + 1] /\ i + 1 \in 1 .. Len(s)
  <2>1. i + 1 \in 1 .. Len(s) /\ i \in 1 .. Len(a) + Len(b)
    BY <1>2, <1>3, <1>4, <1>6
  <2>2. CASE i < k
    <3>1. i <= Len(a) /\ i \in 1 .. k - 1
      BY <1>3, <2>2
    <3> QED
      BY <1>3, <1>6, <2>1, <2>2, <3>1
  <2>3. CASE ~(i < k)
    <3>1. /\ ~(i <= Len(a)) /\ i - Len(a) \in 1 .. Len(s) - k
          /\ (i - Len(a)) + k = i + 1
      BY <1>2, <1>3, <2>1, <2>3
    <3> QED
      BY <1>4, <1>6, <2>1, <2>3, <3>1
  <2> QED
    BY <2>2, <2>3
<1>8. PICK i, j \in 1 .. Len(t) : i < j /\ t[i] = x /\ t[j] = y
  BY <1>5, <1>6, AheadPositions
<1> DEFINE p == IF i < k THEN i ELSE i + 1
           q == IF j < k THEN j ELSE j + 1
<1>9. s[p] = x /\ s[q] = y
  BY <1>7, <1>8
<1>10. p \in 1 .. Len(s) /\ q \in 1 .. Len(s) /\ p < q
  BY <1>2, <1>7, <1>8
<1> HIDE DEF p, q
<1> QED
  BY <1>9, <1>10, AheadPositions

-----------------------------------------------------------------------------
(* The natural numbers are well ordered. *)
LEMMA LeastNumber ==
  ASSUME NEW T, T \subseteq Nat, T # {}
  PROVE  \E x \in T : \A y \in T : x <= y
<1>1. PICK x \in T : \A y \in T : ~ (<<y, x>> \in OpToRel(<, Nat))
  BY NatLessThanWellFounded, WFMin
<1> SUFFICES ASSUME NEW y \in T, y < x PROVE FALSE
  OBVIOUS
<1>2. <<y, x>> \in OpToRel(<, Nat)
  BY DEF OpToRel
<1> QED
  BY <1>1, <1>2

(* Induction over finite sets, with a set of sets for the property. *)
LEMMA SetInduction ==
  ASSUME NEW S, IsFiniteSet(S), NEW P,
         {} \in P,
         \A s \in SUBSET S, x \in S : s \in P /\ x \notin s => s \cup {x} \in P
  PROVE  S \in P
<1> DEFINE T == {n \in Nat : \E s \in SUBSET S : Cardinality(s) = n /\ s \notin P}
<1> SUFFICES ASSUME S \notin P PROVE FALSE
  OBVIOUS
<1>1. Cardinality(S) \in T
  BY FS_CardinalityType
<1>2. PICK n \in T : \A m \in T : n <= m
  <2>1. T \subseteq Nat
    OBVIOUS
  <2> HIDE DEF T
  <2> QED
    BY <1>1, <2>1, LeastNumber
<1>3. PICK s \in SUBSET S : Cardinality(s) = n /\ s \notin P
  BY <1>2
<1>4. IsFiniteSet(s) /\ s # {}
  BY <1>3, FS_Subset
<1>5. PICK x \in s : TRUE
  BY <1>4
<1>6. IsFiniteSet(s \ {x}) /\ Cardinality(s \ {x}) = n - 1
  BY <1>3, <1>4, <1>5, FS_RemoveElement
<1>7. n - 1 \in Nat
  BY <1>6, FS_CardinalityType
<1>8. s \ {x} \in P
  BY <1>2, <1>6, <1>7
<1>9. s = (s \ {x}) \cup {x}
  BY <1>5
<1> QED
  BY <1>3, <1>5, <1>8, <1>9

-----------------------------------------------------------------------------
(* The recursion of MapThenFoldSet, for the sum of a function. *)
SumRule(g, h, s) ==
  h[s] = IF s = {} THEN 0
         ELSE g[CHOOSE x \in s : TRUE] + h[s \ {CHOOSE x \in s : TRUE}]

LEMMA PickOne ==
  ASSUME NEW s, s # {}
  PROVE  (CHOOSE x \in s : TRUE) \in s
  OBVIOUS

(* It has a solution, ... *)
LEMMA SumExists ==
  ASSUME NEW S, IsFiniteSet(S), NEW g, \A x \in S : g[x] \in Int
  PROVE  \E h \in [SUBSET S -> Int] : \A s \in SUBSET S : SumRule(g, h, s)
<1> DEFINE Upto(n) == \E h \in [SUBSET S -> Int] :
                        \A s \in SUBSET S : Cardinality(s) <= n => SumRule(g, h, s)
           T == {n \in Nat : ~Upto(n)}
<1>1. \A s \in SUBSET S : IsFiniteSet(s) /\ Cardinality(s) \in Nat
                          /\ Cardinality(s) <= Cardinality(S)
  BY FS_Subset, FS_CardinalityType
<1>a. \A s \in SUBSET S : \A x \in s :
        s \ {x} \in SUBSET S /\ Cardinality(s \ {x}) = Cardinality(s) - 1
  BY <1>1, FS_RemoveElement
<1>2. Upto(0)
  <2> DEFINE h == [s \in SUBSET S |-> 0]
  <2>1. \A s \in SUBSET S : Cardinality(s) <= 0 => s = {}
    BY <1>1, FS_EmptySet
  <2>2. h \in [SUBSET S -> Int]
    OBVIOUS
  <2>3. SumRule(g, h, {})
    BY DEF SumRule
  <2> HIDE DEF h
  <2> QED
    BY <2>1, <2>2, <2>3
<1>3. ASSUME NEW n \in Nat, Upto(n)
      PROVE  Upto(n + 1)
  <2>1. PICK h \in [SUBSET S -> Int] :
          \A s \in SUBSET S : Cardinality(s) <= n => SumRule(g, h, s)
    BY <1>3
  <2> DEFINE c(s) == CHOOSE x \in s : TRUE
             k == [s \in SUBSET S |->
                     IF Cardinality(s) = n + 1 THEN g[c(s)] + h[s \ {c(s)}] ELSE h[s]]
  <2>2. ASSUME NEW s \in SUBSET S, Cardinality(s) = n + 1
        PROVE  /\ s # {} /\ c(s) \in S /\ s \ {c(s)} \in SUBSET S
               /\ Cardinality(s \ {c(s)}) = n
    <3>1. s # {}
      BY <1>1, <2>2, FS_EmptySet
    <3>2. c(s) \in s
      BY <3>1
    <3> HIDE DEF c
    <3>3. s \ {c(s)} \in SUBSET S /\ Cardinality(s \ {c(s)}) = n + 1 - 1
      BY <1>a, <2>2, <3>2
    <3> QED
      BY <3>1, <3>2, <3>3
  <2>3. k \in [SUBSET S -> Int]
    BY <2>2
  <2>4. ASSUME NEW s \in SUBSET S, Cardinality(s) <= n + 1
        PROVE  SumRule(g, k, s)
    <3>1. CASE Cardinality(s) = n + 1
      <4>1. k[s] = g[c(s)] + h[s \ {c(s)}]
        BY <3>1
      <4>2. k[s \ {c(s)}] = h[s \ {c(s)}]
        BY <2>2, <3>1
      <4> HIDE DEF k
      <4> QED
        BY <2>2, <3>1, <4>1, <4>2 DEF SumRule
    <3>2. CASE Cardinality(s) # n + 1
      <4>1. Cardinality(s) <= n /\ Cardinality(s) \in Nat
        BY <1>1, <2>4, <3>2
      <4>2. k[s] = h[s] /\ SumRule(g, h, s)
        BY <2>1, <3>2, <4>1
      <4>3. CASE s = {}
        BY <4>2, <4>3 DEF SumRule
      <4>4. CASE s # {}
        <5>1. c(s) \in s
          BY <4>4
        <5> HIDE DEF c
        <5>2. /\ s \ {c(s)} \in SUBSET S
              /\ Cardinality(s \ {c(s)}) = Cardinality(s) - 1
          BY <1>a, <5>1
        <5>3. Cardinality(s \ {c(s)}) # n + 1
          BY <4>1, <5>2
        <5>4. k[s \ {c(s)}] = h[s \ {c(s)}]
          BY <5>2, <5>3
        <5> HIDE DEF k
        <5> USE DEF c
        <5> QED
          BY <4>2, <4>4, <5>4 DEF SumRule
      <4> QED
        BY <4>3, <4>4
    <3> QED
      BY <3>1, <3>2
  <2> HIDE DEF k
  <2> QED
    BY <2>3, <2>4
<1>4. \A n \in Nat : Upto(n)
  <2> SUFFICES ASSUME T # {} PROVE FALSE
    OBVIOUS
  <2>1. T \subseteq Nat
    OBVIOUS
  <2>2. PICK n \in T : \A m \in T : n <= m
    <3> HIDE DEF T
    <3> QED
      BY <2>1, LeastNumber
  <2>3. n \in Nat /\ ~Upto(n)
    OBVIOUS
  <2>4. n # 0
    BY <1>2, <2>3
  <2>5. n - 1 \in Nat /\ ~(n <= n - 1)
    BY <2>3, <2>4
  <2>6. Upto(n - 1)
    <3>1. n - 1 \notin T
      <4> HIDE DEF T
      <4> QED
        BY <2>2, <2>5
    <3> HIDE DEF Upto
    <3> QED
      BY <2>5, <3>1
  <2> HIDE DEF Upto, T
  <2>7. Upto(n - 1 + 1)
    BY <1>3, <2>5, <2>6
  <2>8. n - 1 + 1 = n
    BY <2>3
  <2> QED
    BY <2>3, <2>7, <2>8
<1> HIDE DEF T
<1>5. Cardinality(S) \in Nat
  BY <1>1
<1>6. Upto(Cardinality(S))
  BY <1>4, <1>5
<1> QED
  BY <1>1, <1>6

(* ... only one, ... *)
LEMMA SumIsUnique ==
  ASSUME NEW T, IsFiniteSet(T), NEW g, NEW h, NEW k,
         \A s \in SUBSET T : SumRule(g, h, s) /\ SumRule(g, k, s)
  PROVE  h[T] = k[T]
<1> DEFINE Bad == {n \in Nat : \E s \in SUBSET T : Cardinality(s) = n /\ h[s] # k[s]}
<1> SUFFICES ASSUME h[T] # k[T] PROVE FALSE
  OBVIOUS
<1>1. \A s \in SUBSET T : IsFiniteSet(s) /\ Cardinality(s) \in Nat
  BY FS_Subset, FS_CardinalityType
<1>2. Cardinality(T) \in Bad
  BY <1>1
<1>3. Bad \subseteq Nat
  OBVIOUS
<1>4. PICK n \in Bad : \A m \in Bad : n <= m
  <2> HIDE DEF Bad
  <2> QED
    BY <1>2, <1>3, LeastNumber
<1>5. PICK s \in SUBSET T : Cardinality(s) = n /\ h[s] # k[s]
  OBVIOUS
<1>6. s # {}
  BY <1>5 DEF SumRule
<1>7. PICK x \in s : x = CHOOSE y \in s : TRUE
  BY <1>6
<1>8. Cardinality(s \ {x}) = n - 1
  BY <1>1, <1>5, <1>7, FS_RemoveElement
<1>9. n - 1 \in Nat
  BY <1>1, <1>5, <1>8
<1>10. n - 1 \notin Bad
  <2>1. ~(n <= n - 1)
    BY <1>9
  <2> HIDE DEF Bad
  <2> QED
    BY <1>4, <2>1
<1>11. h[s \ {x}] = k[s \ {x}]
  BY <1>5, <1>8, <1>9, <1>10
<1>12. h[s] = g[x] + h[s \ {x}] /\ k[s] = g[x] + k[s \ {x}]
  BY <1>5, <1>6, <1>7 DEF SumRule
<1> QED
  BY <1>5, <1>11, <1>12

(* ... and that is what SumFunctionOnSet chooses. *)
LEMMA SumIsRule ==
  ASSUME NEW S, IsFiniteSet(S), NEW g, \A x \in S : g[x] \in Int
  PROVE  \E h \in [SUBSET S -> Int] :
           /\ SumFunctionOnSet(g, S) = h[S]
           /\ \A s \in SUBSET S : SumRule(g, h, s)
<1> DEFINE F == CHOOSE h : h = [s \in SUBSET S |->
                  IF s = {} THEN 0
                  ELSE g[CHOOSE x \in s : TRUE] + h[s \ {CHOOSE x \in s : TRUE}]]
<1>1. SumFunctionOnSet(g, S) = F[S]
  BY Zenon DEF SumFunctionOnSet, FoldFunctionOnSet, MapThenFoldSet
<1>2. PICK h \in [SUBSET S -> Int] : \A s \in SUBSET S : SumRule(g, h, s)
  BY SumExists
<1>3. h = [s \in SUBSET S |->
             IF s = {} THEN 0
             ELSE g[CHOOSE x \in s : TRUE] + h[s \ {CHOOSE x \in s : TRUE}]]
  BY <1>2 DEF SumRule
<1>4. F = [s \in SUBSET S |->
             IF s = {} THEN 0
             ELSE g[CHOOSE x \in s : TRUE] + F[s \ {CHOOSE x \in s : TRUE}]]
  BY <1>3
<1> HIDE DEF F
<1>5. \A s \in SUBSET S : SumRule(g, F, s)
  BY <1>4 DEF SumRule
<1>6. F[S] = h[S]
  <2>1. \A s \in SUBSET S : SumRule(g, F, s) /\ SumRule(g, h, s)
    BY <1>2, <1>5
  <2> QED
    BY <2>1, SumIsUnique
<1> QED
  BY <1>1, <1>2, <1>6

LEMMA SumEmpty ==
  ASSUME NEW g
  PROVE  SumFunctionOnSet(g, {}) = 0
<1>1. IsFiniteSet({})
  BY FS_EmptySet
<1> QED
  BY <1>1, SumIsRule DEF SumRule

(* One element of the set, whichever CHOOSE takes first. *)
LEMMA SumOne ==
  ASSUME NEW S, IsFiniteSet(S), NEW g, \A x \in S : g[x] \in Int
  PROVE  \A x \in S : SumFunctionOnSet(g, S) = g[x] + SumFunctionOnSet(g, S \ {x})
<1>1. PICK h \in [SUBSET S -> Int] :
               /\ SumFunctionOnSet(g, S) = h[S]
               /\ \A s \in SUBSET S : SumRule(g, h, s)
  BY SumIsRule
<1>2. \A s \in SUBSET S : SumFunctionOnSet(g, s) = h[s]
  <2> SUFFICES ASSUME NEW s \in SUBSET S PROVE SumFunctionOnSet(g, s) = h[s]
    OBVIOUS
  <2>1. IsFiniteSet(s)
    BY FS_Subset
  <2>2. PICK k \in [SUBSET s -> Int] :
          /\ SumFunctionOnSet(g, s) = k[s]
          /\ \A t \in SUBSET s : SumRule(g, k, t)
    BY <2>1, SumIsRule
  <2>3. h[s] = k[s]
    <3>1. \A t \in SUBSET s : SumRule(g, h, t) /\ SumRule(g, k, t)
      BY <1>1, <2>2
    <3> QED
      BY <2>1, <3>1, SumIsUnique
  <2> QED
    BY <2>2, <2>3
<1> DEFINE Fine(s) == \A x \in s : h[s] = g[x] + h[s \ {x}]
           Bad == {n \in Nat : \E s \in SUBSET S : Cardinality(s) = n /\ ~Fine(s)}
<1>3. \A s \in SUBSET S : IsFiniteSet(s) /\ Cardinality(s) \in Nat
  BY FS_Subset, FS_CardinalityType
<1>4. Fine(S)
  <2> SUFFICES ASSUME ~Fine(S) PROVE FALSE
    OBVIOUS
  <2>1. Cardinality(S) \in Bad
    BY <1>3
  <2>2. Bad \subseteq Nat
    OBVIOUS
  <2>3. PICK n \in Bad : \A m \in Bad : n <= m
    <3> HIDE DEF Bad
    <3> QED
      BY <2>1, <2>2, LeastNumber
  <2>4. PICK s \in SUBSET S : Cardinality(s) = n /\ ~Fine(s)
    OBVIOUS
  <2>5. \A x \in s : Fine(s \ {x})
    <3> SUFFICES ASSUME NEW x \in s PROVE Fine(s \ {x})
      OBVIOUS
    <3>1. s \ {x} \in SUBSET S /\ Cardinality(s \ {x}) = n - 1
      BY <1>3, <2>4, FS_RemoveElement
    <3>2. n - 1 \in Nat /\ ~(n <= n - 1)
      BY <1>3, <3>1
    <3>3. n - 1 \notin Bad
      <4> HIDE DEF Bad
      <4> QED
        BY <2>3, <3>2
    <3> HIDE DEF Fine
    <3> QED
      BY <3>1, <3>2, <3>3
  <2>6. s # {}
    <3>1. h[{}] = 0
      BY <1>1 DEF SumRule
    <3> QED
      BY <2>4, <3>1
  <2>7. PICK c \in s : h[s] = g[c] + h[s \ {c}]
    BY <1>1, <2>4, <2>6 DEF SumRule
  <2>9. ASSUME NEW x \in s PROVE h[s] = g[x] + h[s \ {x}]
    <3>1. CASE x = c
      BY <2>7, <3>1
    <3>2. CASE x # c
      <4>1. h[s \ {c}] = g[x] + h[(s \ {c}) \ {x}] /\ h[s \ {x}] = g[c] + h[(s \ {x}) \ {c}]
        BY <2>5, <3>2
      <4>2. (s \ {c}) \ {x} = (s \ {x}) \ {c}
        OBVIOUS
      <4>3. h[(s \ {c}) \ {x}] \in Int
        BY (s \ {c}) \ {x} \in SUBSET S
      <4>4. g[x] \in Int /\ g[c] \in Int
        OBVIOUS
      <4>5. h[(s \ {c}) \ {x}] = h[(s \ {x}) \ {c}]
        BY <4>2
      <4> HIDE DEF Fine, Bad
      <4> QED
        BY <2>7, <4>1, <4>3, <4>4, <4>5
    <3> QED
      BY <3>1, <3>2
  <2> QED
    BY <2>4, <2>9
<1> QED
  BY <1>2, <1>4

LEMMA SumIsInt ==
  ASSUME NEW S, IsFiniteSet(S), NEW g, \A x \in S : g[x] \in Int
  PROVE  SumFunctionOnSet(g, S) \in Int
<1>1. PICK h \in [SUBSET S -> Int] : SumFunctionOnSet(g, S) = h[S]
  BY SumIsRule
<1>2. S \in SUBSET S
  OBVIOUS
<1> QED
  BY <1>1, <1>2

LEMMA SumAdd ==
  ASSUME NEW S, IsFiniteSet(S), NEW x, x \notin S,
         NEW g, \A y \in S \cup {x} : g[y] \in Int
  PROVE  SumFunctionOnSet(g, S \cup {x}) = g[x] + SumFunctionOnSet(g, S)
<1>1. IsFiniteSet(S \cup {x}) /\ (S \cup {x}) \ {x} = S /\ x \in S \cup {x}
  BY FS_AddElement
<1> QED
  BY <1>1, SumOne

LEMMA SumIsNat ==
  ASSUME NEW S, IsFiniteSet(S), NEW g, \A x \in S : g[x] \in Nat
  PROVE  SumFunctionOnSet(g, S) \in Nat
<1> DEFINE P == {s \in SUBSET S : SumFunctionOnSet(g, s) \in Nat}
<1>1. {} \in P
  BY SumEmpty
<1>2. ASSUME NEW s \in SUBSET S, NEW x \in S, s \in P, x \notin s
      PROVE  s \cup {x} \in P
  <2>1. IsFiniteSet(s) /\ \A y \in s \cup {x} : g[y] \in Int
    BY FS_Subset
  <2>2. SumFunctionOnSet(g, s \cup {x}) = g[x] + SumFunctionOnSet(g, s)
    BY <1>2, <2>1, SumAdd
  <2>3. SumFunctionOnSet(g, s) \in Nat /\ g[x] \in Nat
    BY <1>2
  <2> QED
    BY <2>2, <2>3
<1> HIDE DEF P
<1>3. S \in P
  BY <1>1, <1>2, SetInduction
<1> QED
  BY <1>3 DEF P

LEMMA SumSame ==
  ASSUME NEW S, IsFiniteSet(S), NEW g, NEW h,
         \A x \in S : g[x] \in Int /\ h[x] = g[x]
  PROVE  SumFunctionOnSet(h, S) = SumFunctionOnSet(g, S)
<1> DEFINE P == {s \in SUBSET S : SumFunctionOnSet(h, s) = SumFunctionOnSet(g, s)}
<1>1. {} \in P
  BY SumEmpty
<1>2. ASSUME NEW s \in SUBSET S, NEW x \in S, s \in P, x \notin s
      PROVE  s \cup {x} \in P
  <2>1. IsFiniteSet(s) /\ \A y \in s \cup {x} : g[y] \in Int /\ h[y] \in Int
    BY FS_Subset
  <2>2. /\ SumFunctionOnSet(g, s \cup {x}) = g[x] + SumFunctionOnSet(g, s)
        /\ SumFunctionOnSet(h, s \cup {x}) = h[x] + SumFunctionOnSet(h, s)
    BY <1>2, <2>1, SumAdd
  <2> QED
    BY <1>2, <2>2
<1> HIDE DEF P
<1>3. S \in P
  BY <1>1, <1>2, SetInduction
<1> QED
  BY <1>3 DEF P

LEMMA SumUnion ==
  ASSUME NEW S, IsFiniteSet(S), NEW T, IsFiniteSet(T), S \cap T = {},
         NEW g, \A x \in S \cup T : g[x] \in Int
  PROVE  SumFunctionOnSet(g, S \cup T) = SumFunctionOnSet(g, S) + SumFunctionOnSet(g, T)
<1> DEFINE P == {s \in SUBSET T : SumFunctionOnSet(g, S \cup s)
                                    = SumFunctionOnSet(g, S) + SumFunctionOnSet(g, s)}
<1>1. {} \in P
  <2>1. SumFunctionOnSet(g, S) \in Int /\ SumFunctionOnSet(g, {}) = 0 /\ S \cup {} = S
    BY SumEmpty, SumIsInt
  <2> QED
    BY <2>1
<1>2. ASSUME NEW s \in SUBSET T, NEW x \in T, s \in P, x \notin s
      PROVE  s \cup {x} \in P
  <2>1. IsFiniteSet(s)
    BY FS_Subset
  <2>2. IsFiniteSet(S \cup s) /\ (S \cup s) \cup {x} = S \cup (s \cup {x}) /\ x \notin S \cup s
    BY <1>2, <2>1, FS_Union
  <2>3. /\ SumFunctionOnSet(g, s \cup {x}) = g[x] + SumFunctionOnSet(g, s)
        /\ SumFunctionOnSet(g, (S \cup s) \cup {x}) = g[x] + SumFunctionOnSet(g, S \cup s)
    BY <1>2, <2>1, <2>2, SumAdd
  <2>4. /\ g[x] \in Int /\ SumFunctionOnSet(g, s) \in Int /\ SumFunctionOnSet(g, S) \in Int
        /\ SumFunctionOnSet(g, S \cup s) = SumFunctionOnSet(g, S) + SumFunctionOnSet(g, s)
    BY <1>2, <2>1, SumIsInt
  <2>5. SumFunctionOnSet(g, S \cup (s \cup {x}))
          = SumFunctionOnSet(g, S) + SumFunctionOnSet(g, s \cup {x})
    <3>1. SumFunctionOnSet(g, S \cup (s \cup {x}))
            = SumFunctionOnSet(g, (S \cup s) \cup {x})
      BY <2>2
    <3> QED
      BY <2>3, <2>4, <3>1
  <2> QED
    BY <2>5
<1> HIDE DEF P
<1>3. T \in P
  BY <1>1, <1>2, SetInduction
<1> QED
  BY <1>3 DEF P

(* The same numbers under other names: the order of a sum is immaterial. *)
LEMMA SumRenamed ==
  ASSUME NEW S, IsFiniteSet(S), NEW g, NEW h, NEW r,
         \A x \in S : g[x] \in Int /\ h[r[x]] = g[x],
         \A x, y \in S : r[x] = r[y] => x = y
  PROVE  SumFunctionOnSet(g, S) = SumFunctionOnSet(h, {r[x] : x \in S})
<1> DEFINE P == {s \in SUBSET S : /\ IsFiniteSet({r[x] : x \in s})
                                 /\ SumFunctionOnSet(g, s)
                                      = SumFunctionOnSet(h, {r[x] : x \in s})}
<1>1. {} \in P
  <2>1. {r[x] : x \in {}} = {}
    OBVIOUS
  <2> QED
    BY <2>1, FS_EmptySet, SumEmpty
<1>2. ASSUME NEW s \in SUBSET S, NEW x \in S, s \in P, x \notin s
      PROVE  s \cup {x} \in P
  <2> DEFINE named == {r[y] : y \in s}
  <2>1. IsFiniteSet(s) /\ \A y \in s \cup {x} : g[y] \in Int
    BY FS_Subset
  <2>2. r[x] \notin named /\ {r[y] : y \in s \cup {x}} = named \cup {r[x]}
    BY <1>2
  <2>3. IsFiniteSet(named) /\ SumFunctionOnSet(g, s) = SumFunctionOnSet(h, named)
    BY <1>2
  <2>4. \A z \in named \cup {r[x]} : h[z] \in Int
    OBVIOUS
  <2>5. h[r[x]] = g[x]
    OBVIOUS
  <2> HIDE DEF named, P
  <2>6. IsFiniteSet(named \cup {r[x]})
    BY <2>3, FS_AddElement
  <2>7. SumFunctionOnSet(g, s \cup {x}) = g[x] + SumFunctionOnSet(g, s)
    BY <1>2, <2>1, SumAdd
  <2>8. SumFunctionOnSet(h, named \cup {r[x]}) = h[r[x]] + SumFunctionOnSet(h, named)
    BY <2>2, <2>3, <2>4, SumAdd
  <2>9. SumFunctionOnSet(g, s \cup {x}) = SumFunctionOnSet(h, named \cup {r[x]})
    BY <2>3, <2>5, <2>7, <2>8
  <2> QED
    BY <2>2, <2>6, <2>9 DEF P
<1> HIDE DEF P
<1>3. S \in P
  BY <1>1, <1>2, SetInduction
<1> QED
  BY <1>3 DEF P

(* A sequence of numbers that gets one more. *)
LEMMA SumLonger ==
  ASSUME NEW n \in Nat, NEW g \in [1 .. n -> Int], NEW h \in [1 .. n + 1 -> Int],
         \A i \in 1 .. n : h[i] = g[i]
  PROVE  SumFunction(h) = SumFunction(g) + h[n + 1]
<1>1. IsFiniteSet(1 .. n) /\ n + 1 \notin 1 .. n /\ 1 .. n + 1 = (1 .. n) \cup {n + 1}
  <2>1. IsFiniteSet(1 .. n)
    BY FS_Interval
  <2>2. 1 .. n + 1 = (1 .. n) \cup {n + 1} /\ n + 1 \notin 1 .. n
    OBVIOUS
  <2> QED
    BY <2>1, <2>2
<1>2. DOMAIN g = 1 .. n /\ DOMAIN h = 1 .. n + 1
  OBVIOUS
<1>3. SumFunctionOnSet(h, 1 .. n) = SumFunctionOnSet(g, 1 .. n)
  BY <1>1, SumSame
<1>4. SumFunctionOnSet(h, (1 .. n) \cup {n + 1}) = h[n + 1] + SumFunctionOnSet(h, 1 .. n)
  <2>1. \A i \in (1 .. n) \cup {n + 1} : h[i] \in Int
    OBVIOUS
  <2> QED
    BY <1>1, <2>1, SumAdd
<1>5. SumFunctionOnSet(g, 1 .. n) \in Int /\ h[n + 1] \in Int
  BY <1>1, SumIsInt
<1>6. /\ SumFunction(g) = SumFunctionOnSet(g, 1 .. n)
      /\ SumFunction(h) = SumFunctionOnSet(h, (1 .. n) \cup {n + 1})
  BY <1>1, <1>2 DEF SumFunction
<1> QED
  BY <1>3, <1>4, <1>5, <1>6
===============================================================================
