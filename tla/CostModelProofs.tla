---------------------------- MODULE CostModelProofs ----------------------------
(***************************************************************************)
(* What crossover_tokens() and crossover_band() return, for every fit and  *)
(* tier.  The bisection only compares two neighbours; that its answer is   *)
(* the smallest or the last length of all rests on the difference of the   *)
(* two costs being a polynomial of degree two in the length, which changes *)
(* sign once between a negative start and a nonnegative end, whatever the  *)
(* signs of its coefficients.  The session that prices a measured fit has  *)
(* the same exactness, gates its fits and keeps its files to itself.       *)
(***************************************************************************)
EXTENDS GpuDay, SequenceTheorems, WellFoundedInduction, TLAPS

quad(A, B, C, n) == A + B * n + C * n * n

LEMMA QuadInt ==
  ASSUME NEW A \in Int, NEW B \in Int, NEW C \in Int, NEW n \in Int
  PROVE  quad(A, B, C, n) \in Int
  BY DEF quad

(* A value between p and r, against the chord. *)
LEMMA Chord ==
  ASSUME NEW A \in Int, NEW B \in Int, NEW C \in Int,
         NEW p \in Int, NEW q \in Int, NEW r \in Int
  PROVE  (r - p) * quad(A, B, C, q)
           = (r - q) * quad(A, B, C, p) + (q - p) * quad(A, B, C, r)
             - C * ((r - q) * (q - p) * (r - p))
  BY DEF quad

LEMMA SignOfProduct ==
  ASSUME NEW x \in Int, NEW y \in Int
  PROVE  /\ x > 0 /\ y >= 0 => x * y >= 0
         /\ x > 0 /\ y > 0 => x * y > 0
         /\ x > 0 /\ y < 0 => x * y < 0
         /\ x >= 0 /\ y >= 0 => x * y >= 0
         /\ x <= 0 /\ y >= 0 => x * y <= 0
  OBVIOUS

(* Between two negative values a convex one is negative, and between two   *)
(* nonnegative values a concave one is nonnegative.                        *)
LEMMA ConvexBelow ==
  ASSUME NEW A \in Int, NEW B \in Int, NEW C \in Int, C >= 0,
         NEW p \in Int, NEW q \in Int, NEW r \in Int, p < q, q < r,
         quad(A, B, C, p) < 0, quad(A, B, C, r) < 0
  PROVE  quad(A, B, C, q) < 0
<1> DEFINE fp == quad(A, B, C, p)
           fq == quad(A, B, C, q)
           fr == quad(A, B, C, r)
           w == (r - q) * (q - p) * (r - p)
<1>1. fp \in Int /\ fq \in Int /\ fr \in Int
  BY QuadInt
<1>2. (r - p) * fq = (r - q) * fp + (q - p) * fr - C * w
  BY Chord
<1>3. w \in Int /\ w >= 0
  <2>1. (r - q) * (q - p) > 0
    BY SignOfProduct
  <2> QED
    BY <2>1, SignOfProduct
<1> HIDE DEF fp, fq, fr, w
<1>4. C * w \in Int /\ C * w >= 0
  BY <1>3, SignOfProduct
<1>5. (r - q) * fp < 0 /\ (q - p) * fr < 0
  BY <1>1, SignOfProduct DEF fp, fr
<1>6. (r - p) * fq < 0
  BY <1>1, <1>2, <1>3, <1>4, <1>5
<1>7. ~(fq >= 0)
  BY <1>1, <1>6, SignOfProduct
<1> QED
  BY <1>1, <1>7 DEF fq

LEMMA ConcaveAbove ==
  ASSUME NEW A \in Int, NEW B \in Int, NEW C \in Int, C <= 0,
         NEW p \in Int, NEW q \in Int, NEW r \in Int, p < q, q < r,
         quad(A, B, C, p) >= 0, quad(A, B, C, r) >= 0
  PROVE  quad(A, B, C, q) >= 0
<1> DEFINE fp == quad(A, B, C, p)
           fq == quad(A, B, C, q)
           fr == quad(A, B, C, r)
           w == (r - q) * (q - p) * (r - p)
<1>1. fp \in Int /\ fq \in Int /\ fr \in Int
  BY QuadInt
<1>2. (r - p) * fq = (r - q) * fp + (q - p) * fr - C * w
  BY Chord
<1>3. w \in Int /\ w >= 0
  <2>1. (r - q) * (q - p) > 0
    BY SignOfProduct
  <2> QED
    BY <2>1, SignOfProduct
<1> HIDE DEF fp, fq, fr, w
<1>4. C * w \in Int /\ C * w <= 0
  BY <1>3, SignOfProduct
<1>5. (r - q) * fp >= 0 /\ (q - p) * fr >= 0
  BY <1>1, SignOfProduct DEF fp, fr
<1>6. (r - p) * fq >= 0
  BY <1>1, <1>2, <1>3, <1>4, <1>5
<1>7. ~(fq < 0)
  BY <1>1, <1>6, SignOfProduct
<1> QED
  BY <1>1, <1>7 DEF fq

(* Two neighbours of different sign between a negative start and a         *)
(* nonnegative end are the only change of sign.                            *)
LEMMA OneSignChange ==
  ASSUME NEW A \in Int, NEW B \in Int, NEW C \in Int,
         NEW s \in Int, NEW x \in Int, NEW m \in Int, s < x, x <= m,
         quad(A, B, C, s) < 0, quad(A, B, C, x - 1) < 0,
         quad(A, B, C, x) >= 0, quad(A, B, C, m) >= 0
  PROVE  /\ \A n \in s .. x - 1 : quad(A, B, C, n) < 0
         /\ \A n \in x .. m : quad(A, B, C, n) >= 0
<1> DEFINE f(n) == quad(A, B, C, n)
<1>0. \A n \in Int : f(n) \in Int
  BY QuadInt
<1>1. ASSUME NEW n \in s .. x - 1, f(n) >= 0 PROVE FALSE
  <2>1. s < n /\ n < x - 1
    <3>1. n # s /\ n # x - 1
      BY <1>0, <1>1
    <3> QED
      BY <3>1
  <2>2. CASE C >= 0
    <3>1. x - 1 \in Int
      OBVIOUS
    <3>2. f(n) < 0
      BY <2>1, <2>2, <3>1, ConvexBelow
    <3> QED
      BY <1>0, <1>1, <3>2
  <2>3. CASE C <= 0
    <3>1. x - 1 < m /\ x - 1 \in Int
      OBVIOUS
    <3>2. f(x - 1) >= 0
      BY <1>1, <2>1, <2>3, <3>1, ConcaveAbove
    <3> QED
      BY <1>0, <3>2
  <2> QED
    BY <2>2, <2>3
<1>2. ASSUME NEW n \in x .. m, f(n) < 0 PROVE FALSE
  <2>1. x < n /\ n < m
    <3>1. n # x /\ n # m
      BY <1>0, <1>2
    <3> QED
      BY <3>1
  <2>2. CASE C >= 0
    <3>1. x - 1 < x /\ x - 1 \in Int
      OBVIOUS
    <3>2. f(x) < 0
      BY <1>2, <2>1, <2>2, <3>1, ConvexBelow
    <3> QED
      BY <1>0, <3>2
  <2>3. CASE C <= 0
    <3>1. f(n) >= 0
      BY <2>1, <2>3, ConcaveAbove
    <3> QED
      BY <1>0, <1>2, <3>1
  <2> QED
    BY <2>2, <2>3
<1>3. \A n \in s .. x - 1 : f(n) < 0
  BY <1>0, <1>1
<1>4. \A n \in x .. m : f(n) >= 0
  BY <1>0, <1>2
<1> QED
  BY <1>3, <1>4

-----------------------------------------------------------------------------
(* The three predicates are signs of such polynomials. *)
LEMMA ConfigInts ==
  ASSUME config \in Config
  PROVE  /\ config.a \in Int /\ config.b \in Int /\ config.c \in Int
         /\ config.latency \in Nat /\ config.per_token \in Nat
  BY CostAssumption DEF Config

LEMMA CostsAreInts ==
  ASSUME config \in Config, NEW n \in Int
  PROVE  recompute(n) \in Int /\ migrate(n) \in Int
  BY ConfigInts DEF recompute, migrate

LEMMA WinsIsSign ==
  ASSUME config \in Config, NEW n \in Int
  PROVE  Wins(n) <=> quad(config.a - config.latency, config.b - config.per_token,
                          config.c, n) >= 0
  BY ConfigInts DEF Wins, recompute, migrate, quad

LEMMA NearLoIsSign ==
  ASSUME config \in Config, NEW n \in Int
  PROVE  NearLo(n) <=> quad(RatioNum * config.a - RatioDen * config.latency,
                            RatioNum * config.b - RatioDen * config.per_token,
                            RatioNum * config.c, n) >= 0
<1> DEFINE a == config.a
           b == config.b
           c == config.c
           l == config.latency
           p == config.per_token
<1>1. a \in Int /\ b \in Int /\ c \in Int /\ l \in Int /\ p \in Int
      /\ RatioNum \in Int /\ RatioDen \in Int
  BY ConfigInts, CostAssumption
<1>2. NearLo(n) <=> RatioDen * (l + p * n) <= RatioNum * (a + b * n + c * n * n)
  BY DEF NearLo, recompute, migrate
<1> HIDE DEF a, b, c, l, p
<1>3. RatioNum * (a + b * n + c * n * n) - RatioDen * (l + p * n)
        = quad(RatioNum * a - RatioDen * l, RatioNum * b - RatioDen * p, RatioNum * c, n)
  BY <1>1 DEF quad
<1>4. RatioNum * (a + b * n + c * n * n) \in Int /\ RatioDen * (l + p * n) \in Int
  BY <1>1
<1> QED
  BY <1>2, <1>3, <1>4 DEF a, b, c, l, p

LEMMA PastHiIsSign ==
  ASSUME config \in Config, NEW n \in Int
  PROVE  PastHi(n) <=> quad(RatioDen * config.a - RatioNum * config.latency - 1,
                            RatioDen * config.b - RatioNum * config.per_token,
                            RatioDen * config.c, n) >= 0
<1> DEFINE a == config.a
           b == config.b
           c == config.c
           l == config.latency
           p == config.per_token
<1>1. a \in Int /\ b \in Int /\ c \in Int /\ l \in Int /\ p \in Int
      /\ RatioNum \in Int /\ RatioDen \in Int
  BY ConfigInts, CostAssumption
<1>2. PastHi(n) <=> RatioDen * (a + b * n + c * n * n) > RatioNum * (l + p * n)
  BY DEF PastHi, recompute, migrate
<1> HIDE DEF a, b, c, l, p
<1>3. RatioDen * (a + b * n + c * n * n) - RatioNum * (l + p * n) - 1
        = quad(RatioDen * a - RatioNum * l - 1, RatioDen * b - RatioNum * p, RatioDen * c, n)
  BY <1>1 DEF quad
<1>4. RatioDen * (a + b * n + c * n * n) \in Int /\ RatioNum * (l + p * n) \in Int
  BY <1>1
<1> QED
  BY <1>2, <1>3, <1>4 DEF a, b, c, l, p

(* Neighbours found by the bisection split the whole range. *)
LEMMA WinsChangesOnce ==
  ASSUME config \in Config, NEW x \in 2 .. MaxTokens,
         ~Wins(1), ~Wins(x - 1), Wins(x), Wins(MaxTokens)
  PROVE  \A n \in Lengths : n < x => ~Wins(n)
<1> DEFINE A == config.a - config.latency
           B == config.b - config.per_token
           C == config.c
<1>1. A \in Int /\ B \in Int /\ C \in Int /\ MaxTokens \in Int
  BY ConfigInts, CostAssumption
<1>2. \A n \in Int : /\ quad(A, B, C, n) \in Int
                     /\ Wins(n) <=> quad(A, B, C, n) >= 0
  BY <1>1, WinsIsSign, QuadInt
<1> HIDE DEF A, B, C
<1>3. 1 < x /\ x <= MaxTokens /\ x \in Int /\ x - 1 \in Int
  BY <1>1
<1>4. /\ quad(A, B, C, 1) < 0 /\ quad(A, B, C, x - 1) < 0
      /\ quad(A, B, C, x) >= 0 /\ quad(A, B, C, MaxTokens) >= 0
  BY <1>1, <1>2, <1>3
<1>5. \A n \in 1 .. x - 1 : quad(A, B, C, n) < 0
  BY <1>1, <1>3, <1>4, OneSignChange
<1> QED
  BY <1>1, <1>2, <1>3, <1>5 DEF Lengths

LEMMA NearLoChangesOnce ==
  ASSUME config \in Config, NEW m \in 1 .. MaxTokens, NEW x \in 2 .. m,
         ~NearLo(1), ~NearLo(x - 1), NearLo(x), NearLo(m)
  PROVE  \A n \in Lengths : n < x => ~NearLo(n)
<1> DEFINE A == RatioNum * config.a - RatioDen * config.latency
           B == RatioNum * config.b - RatioDen * config.per_token
           C == RatioNum * config.c
<1>1. A \in Int /\ B \in Int /\ C \in Int /\ MaxTokens \in Int
  BY ConfigInts, CostAssumption
<1>2. \A n \in Int : /\ quad(A, B, C, n) \in Int
                     /\ NearLo(n) <=> quad(A, B, C, n) >= 0
  BY <1>1, NearLoIsSign, QuadInt
<1> HIDE DEF A, B, C
<1>3. 1 < x /\ x <= m /\ x \in Int /\ x - 1 \in Int /\ m \in Int
  BY <1>1
<1>4. /\ quad(A, B, C, 1) < 0 /\ quad(A, B, C, x - 1) < 0
      /\ quad(A, B, C, x) >= 0 /\ quad(A, B, C, m) >= 0
  BY <1>1, <1>2, <1>3
<1>5. \A n \in 1 .. x - 1 : quad(A, B, C, n) < 0
  BY <1>1, <1>3, <1>4, OneSignChange
<1> QED
  BY <1>1, <1>2, <1>3, <1>5 DEF Lengths

LEMMA PastHiChangesOnce ==
  ASSUME config \in Config, NEW s \in 1 .. MaxTokens, NEW x \in s + 1 .. MaxTokens,
         ~PastHi(s), ~PastHi(x - 1), PastHi(x), PastHi(MaxTokens)
  PROVE  /\ \A n \in s .. x - 1 : ~PastHi(n)
         /\ \A n \in x .. MaxTokens : PastHi(n)
<1> DEFINE A == RatioDen * config.a - RatioNum * config.latency - 1
           B == RatioDen * config.b - RatioNum * config.per_token
           C == RatioDen * config.c
<1>1. A \in Int /\ B \in Int /\ C \in Int /\ MaxTokens \in Int
  BY ConfigInts, CostAssumption
<1>2. \A n \in Int : /\ quad(A, B, C, n) \in Int
                     /\ PastHi(n) <=> quad(A, B, C, n) >= 0
  BY <1>1, PastHiIsSign, QuadInt
<1> HIDE DEF A, B, C
<1>3. s < x /\ x <= MaxTokens /\ x \in Int /\ x - 1 \in Int /\ s \in Int
  BY <1>1
<1>4. /\ quad(A, B, C, s) < 0 /\ quad(A, B, C, x - 1) < 0
      /\ quad(A, B, C, x) >= 0 /\ quad(A, B, C, MaxTokens) >= 0
  BY <1>1, <1>2, <1>3
<1>5. /\ \A n \in s .. x - 1 : quad(A, B, C, n) < 0
      /\ \A n \in x .. MaxTokens : quad(A, B, C, n) >= 0
  BY <1>1, <1>3, <1>4, OneSignChange
<1> QED
  BY <1>1, <1>2, <1>3, <1>5

(* A convex difference below the ratio at both ends is below it throughout. *)
LEMMA NeverPastHi ==
  ASSUME config \in Config, config.c >= 0, NEW s \in 1 .. MaxTokens,
         ~PastHi(s), ~PastHi(MaxTokens)
  PROVE  \A n \in s .. MaxTokens : ~PastHi(n)
<1> DEFINE A == RatioDen * config.a - RatioNum * config.latency - 1
           B == RatioDen * config.b - RatioNum * config.per_token
           C == RatioDen * config.c
<1>1. A \in Int /\ B \in Int /\ C \in Int /\ MaxTokens \in Int
  BY ConfigInts, CostAssumption
<1>2. C >= 0
  BY ConfigInts, CostAssumption, SignOfProduct
<1>3. \A n \in Int : /\ quad(A, B, C, n) \in Int
                     /\ PastHi(n) <=> quad(A, B, C, n) >= 0
  BY <1>1, PastHiIsSign, QuadInt
<1> HIDE DEF A, B, C
<1>4. ASSUME NEW n \in s .. MaxTokens, PastHi(n) PROVE FALSE
  <2>1. s < n /\ n < MaxTokens /\ s \in Int /\ n \in Int
    <3>1. n # s /\ n # MaxTokens
      BY <1>4
    <3> QED
      BY <1>1, <3>1
  <2>2. quad(A, B, C, s) < 0 /\ quad(A, B, C, MaxTokens) < 0
    BY <1>1, <1>3, <2>1
  <2>3. quad(A, B, C, n) < 0
    BY <1>1, <1>2, <2>1, <2>2, ConvexBelow
  <2> QED
    BY <1>3, <1>4, <2>1, <2>3
<1> QED
  BY <1>4

(* Where moving is no dearer it is near, since the ratio is at least one. *)
LEMMA WinsIsNear ==
  ASSUME config \in Config, NEW n \in Lengths, Wins(n)
  PROVE  NearLo(n)
<1> DEFINE R == recompute(n)
           M == migrate(n)
<1>1. R \in Int /\ M \in Int /\ M <= R /\ M >= 0
  <2>1. n \in Nat /\ config.per_token \in Nat /\ config.latency \in Nat
    BY ConfigInts DEF Lengths
  <2>2. config.per_token * n >= 0 /\ config.per_token * n \in Int
    BY <2>1, SignOfProduct
  <2> QED
    BY <2>1, <2>2, CostsAreInts DEF Wins, migrate
<1>2. RatioNum \in Int /\ RatioDen \in Int /\ RatioDen > 0 /\ RatioNum >= RatioDen
  BY CostAssumption
<1>3. NearLo(n) <=> RatioDen * M <= RatioNum * R
  BY DEF NearLo
<1> HIDE DEF R, M
<1>4. (RatioNum - RatioDen) * R >= 0 /\ RatioDen * (R - M) >= 0
  BY <1>1, <1>2, SignOfProduct
<1>5. RatioNum * R - RatioDen * M = (RatioNum - RatioDen) * R + RatioDen * (R - M)
  BY <1>1, <1>2
<1> QED
  BY <1>1, <1>2, <1>3, <1>4, <1>5

-----------------------------------------------------------------------------
(* What the range of a search knows of its two ends.  The lower end of the *)
(* last one is known only when recomputing is not past the ratio at the    *)
(* crossover: the caller does not guarantee it.                            *)
SearchFits ==
  /\ pc = "search_crossover" =>
       /\ 1 <= lo /\ lo < hi /\ hi <= MaxTokens
       /\ ~Wins(1) /\ ~Wins(lo) /\ Wins(hi) /\ Wins(MaxTokens)
  /\ pc = "search_lo" =>
       /\ 1 <= lo /\ lo < hi /\ hi <= crossover
       /\ ~NearLo(1) /\ ~NearLo(lo) /\ NearLo(hi)
  /\ pc = "search_hi" =>
       /\ crossover <= lo /\ lo <= hi
       /\ PastHi(hi) /\ PastHi(MaxTokens)
       /\ ~PastHi(crossover) => lo < hi /\ ~PastHi(lo)

(* Which results there are at each point of the call. *)
ResultsSoFar ==
  /\ pc \in {"crossover", "search_crossover"} => crossover = None
  /\ pc \in {"lo", "search_lo", "hi", "search_hi"} => crossover # None
  /\ crossover = None \/ pc \in {"lo", "search_lo"} => band.lo = None
  /\ crossover = None \/ pc # "done" => band.hi = None /\ ~band.clamped

CostInv ==
  /\ TypeOK /\ SearchFits /\ ResultsSoFar
  /\ CrossoverIsSmallest /\ LowerEdgeIsSmallest /\ UpperEdgeIsLast

LEMMA SamePredicates ==
  ASSUME config' = config
  PROVE  \A n : /\ Wins(n)' <=> Wins(n)
                /\ NearLo(n)' <=> NearLo(n)
                /\ PastHi(n)' <=> PastHi(n)
  BY DEF Wins, NearLo, PastHi, recompute, migrate

LEMMA SameResults ==
  ASSUME CostInv, config' = config, crossover' = crossover
  PROVE  /\ CrossoverIsSmallest'
         /\ band'.lo = band.lo => LowerEdgeIsSmallest'
         /\ band'.hi = None => UpperEdgeIsLast'
  BY SamePredicates DEF CostInv, CrossoverIsSmallest, LowerEdgeIsSmallest, UpperEdgeIsLast

LEMMA InitCostInv ==
  ASSUME Init
  PROVE  CostInv
<1>1. TypeOK
  BY CostAssumption DEF Init, TypeOK, None
<1>2. SearchFits /\ ResultsSoFar
  BY DEF Init, SearchFits, ResultsSoFar
<1>3. CrossoverIsSmallest /\ LowerEdgeIsSmallest /\ UpperEdgeIsLast
  BY DEF Init, CrossoverIsSmallest, LowerEdgeIsSmallest, UpperEdgeIsLast
<1> QED
  BY <1>1, <1>2, <1>3 DEF CostInv

LEMMA BisectKeepsInv ==
  ASSUME CostInv, Bisect
  PROVE  CostInv'
<1>1. /\ UNCHANGED <<config, pc, crossover, band>> /\ Searching /\ lo + 1 < hi
      /\ \/ Pred(Mid) /\ hi' = Mid /\ lo' = lo
         \/ ~Pred(Mid) /\ lo' = Mid /\ hi' = hi
  BY DEF Bisect, Narrowed
<1>2. lo \in 0 .. MaxTokens /\ hi \in 0 .. MaxTokens /\ MaxTokens \in Nat /\ crossover \in Nat
  BY CostAssumption DEF CostInv, TypeOK
<1>3. Mid \in Int /\ lo < Mid /\ Mid < hi
  BY <1>1, <1>2 DEF Mid
<1> HIDE DEF Mid
<1>4. TypeOK'
  BY <1>1, <1>2, <1>3 DEF CostInv, TypeOK
<1>5. ResultsSoFar'
  BY <1>1 DEF CostInv, ResultsSoFar
<1>6. SearchFits'
  <2>1. CASE pc = "search_crossover"
    <3>1. Pred(Mid) <=> Wins(Mid)
      BY <2>1 DEF Pred
    <3> QED
      BY <1>1, <1>2, <1>3, <2>1, <3>1, SamePredicates DEF CostInv, SearchFits
  <2>2. CASE pc = "search_lo"
    <3>1. Pred(Mid) <=> NearLo(Mid)
      BY <2>2 DEF Pred
    <3> QED
      BY <1>1, <1>2, <1>3, <2>2, <3>1, SamePredicates DEF CostInv, SearchFits
  <2>3. CASE pc = "search_hi"
    <3>1. Pred(Mid) <=> PastHi(Mid)
      BY <2>3 DEF Pred
    <3> QED
      BY <1>1, <1>2, <1>3, <2>3, <3>1, SamePredicates DEF CostInv, SearchFits
  <2> QED
    BY <1>1, <2>1, <2>2, <2>3 DEF Searching
<1>7. CrossoverIsSmallest' /\ LowerEdgeIsSmallest'
  BY <1>1, SameResults
<1>8. UpperEdgeIsLast'
  BY <1>1, SameResults DEF Searching, CostInv, ResultsSoFar
<1> QED
  BY <1>4, <1>5, <1>6, <1>7, <1>8 DEF CostInv

(* crossover_tokens() *)
LEMMA CrossoverKeepsInv ==
  ASSUME CostInv, NoCrossover \/ WinsFromTheStart \/ SearchCrossover \/ FoundCrossover
  PROVE  CostInv'
<1>0. MaxTokens \in Nat /\ MaxTokens >= 1 /\ config \in Config
      /\ lo \in Int /\ hi \in 0 .. MaxTokens
  BY CostAssumption DEF CostInv, TypeOK
<1>1. /\ config' = config /\ band' = band /\ crossover = None
      /\ band.lo = None /\ band.hi = None /\ ~band.clamped
      /\ pc' \in {"done", "lo", "search_crossover"}
  BY DEF CostInv, ResultsSoFar, NoCrossover, WinsFromTheStart, SearchCrossover,
         FoundCrossover, Search
<1>2. LowerEdgeIsSmallest' /\ UpperEdgeIsLast'
  BY <1>1 DEF LowerEdgeIsSmallest, UpperEdgeIsLast
<1>3. CASE NoCrossover
  <2>1. UNCHANGED <<lo, hi, crossover>> /\ pc' = "done"
    BY <1>3 DEF NoCrossover
  <2>2. TypeOK' /\ SearchFits' /\ ResultsSoFar'
    BY <1>1, <2>1 DEF CostInv, TypeOK, SearchFits, ResultsSoFar
  <2> QED
    BY <1>1, <1>2, <2>1, <2>2, SameResults DEF CostInv
<1>4. CASE WinsFromTheStart
  <2>1. UNCHANGED <<lo, hi>> /\ crossover' = 1 /\ pc' = "lo" /\ Wins(1)
    BY <1>4 DEF WinsFromTheStart
  <2>2. TypeOK' /\ SearchFits' /\ ResultsSoFar'
    BY <1>0, <1>1, <2>1 DEF CostInv, TypeOK, SearchFits, ResultsSoFar, None
  <2>3. CrossoverIsSmallest'
    BY <1>1, <2>1, SamePredicates DEF CrossoverIsSmallest, Lengths
  <2> QED
    BY <1>2, <2>2, <2>3 DEF CostInv
<1>5. CASE SearchCrossover
  <2>1. /\ lo' = 1 /\ hi' = MaxTokens /\ crossover' = crossover /\ pc' = "search_crossover"
        /\ ~Wins(1) /\ Wins(MaxTokens)
    BY <1>5 DEF SearchCrossover, Search
  <2>2. MaxTokens # 1
    BY <2>1
  <2>3. TypeOK' /\ SearchFits' /\ ResultsSoFar'
    BY <1>0, <1>1, <2>1, <2>2, SamePredicates DEF CostInv, TypeOK, SearchFits, ResultsSoFar
  <2> QED
    BY <1>1, <1>2, <2>1, <2>3, SameResults DEF CostInv
<1>6. CASE FoundCrossover
  <2>1. /\ UNCHANGED <<lo, hi>> /\ crossover' = hi /\ pc' = "lo" /\ ~(lo + 1 < hi)
        /\ pc = "search_crossover"
    BY <1>6 DEF FoundCrossover, Narrowed
  <2>2. /\ hi \in 2 .. MaxTokens /\ lo = hi - 1
        /\ ~Wins(1) /\ ~Wins(hi - 1) /\ Wins(hi) /\ Wins(MaxTokens)
    BY <1>0, <2>1 DEF CostInv, SearchFits
  <2>3. TypeOK' /\ SearchFits' /\ ResultsSoFar'
    BY <1>0, <1>1, <2>1, <2>2 DEF CostInv, TypeOK, SearchFits, ResultsSoFar, None
  <2>4. \A n \in Lengths : n < hi => ~Wins(n)
    BY <1>0, <2>2, WinsChangesOnce
  <2>5. CrossoverIsSmallest'
    BY <1>1, <2>1, <2>2, <2>4, SamePredicates DEF CrossoverIsSmallest, Lengths
  <2> QED
    BY <1>2, <2>3, <2>5 DEF CostInv
<1> QED
  BY <1>3, <1>4, <1>5, <1>6

(* The lower edge of the band. *)
LEMMA LowerEdgeKeepsInv ==
  ASSUME CostInv, NearFromTheStart \/ SearchLo \/ FoundLo
  PROVE  CostInv'
<1>0. /\ MaxTokens \in Nat /\ config \in Config /\ crossover \in 0 .. MaxTokens
      /\ lo \in Int /\ hi \in 0 .. MaxTokens
      /\ band \in [lo : 0 .. MaxTokens, hi : 0 .. MaxTokens, clamped : BOOLEAN]
  BY CostAssumption DEF CostInv, TypeOK
<1>1. /\ config' = config /\ crossover' = crossover /\ crossover # None
      /\ pc \in {"lo", "search_lo"} /\ band.lo = None /\ band.hi = None /\ ~band.clamped
  BY DEF CostInv, ResultsSoFar, NearFromTheStart, SearchLo, FoundLo, Search
<1>2. crossover \in Lengths /\ crossover >= 1 /\ Wins(crossover)
  BY <1>0, <1>1 DEF CostInv, CrossoverIsSmallest, Lengths, None
<1>3. NearLo(crossover)
  BY <1>0, <1>2, WinsIsNear
<1>4. CrossoverIsSmallest'
  BY <1>1, SameResults
<1>5. CASE NearFromTheStart
  <2>1. /\ band' = [band EXCEPT !.lo = 1] /\ pc' = "hi" /\ UNCHANGED <<lo, hi>> /\ NearLo(1)
    BY <1>5 DEF NearFromTheStart
  <2>2. band'.lo = 1 /\ band'.hi = None /\ ~band'.clamped
    BY <1>0, <1>1, <2>1
  <2>3. TypeOK' /\ SearchFits' /\ ResultsSoFar'
    BY <1>0, <1>1, <1>2, <2>1, <2>2 DEF CostInv, TypeOK, SearchFits, ResultsSoFar
  <2>4. LowerEdgeIsSmallest'
    BY <1>1, <1>2, <2>1, <2>2, SamePredicates DEF LowerEdgeIsSmallest, Lengths
  <2>5. UpperEdgeIsLast'
    BY <1>1, <2>2, SameResults
  <2> QED
    BY <1>4, <2>3, <2>4, <2>5 DEF CostInv
<1>6. CASE SearchLo
  <2>1. /\ lo' = 1 /\ hi' = crossover /\ pc' = "search_lo" /\ band' = band /\ ~NearLo(1)
    BY <1>6 DEF SearchLo, Search
  <2>2. 1 < crossover
    BY <1>0, <1>2, <1>3, <2>1 DEF Lengths
  <2>3. TypeOK'
    BY <1>0, <1>1, <1>2, <2>1 DEF CostInv, TypeOK, Lengths
  <2>4. SearchFits'
    BY <1>0, <1>1, <1>3, <2>1, <2>2, SamePredicates DEF SearchFits
  <2>5. ResultsSoFar'
    BY <1>1, <2>1 DEF ResultsSoFar
  <2>6. LowerEdgeIsSmallest' /\ UpperEdgeIsLast'
    BY <1>1, <2>1, SameResults
  <2> QED
    BY <1>4, <2>3, <2>4, <2>5, <2>6 DEF CostInv
<1>7. CASE FoundLo
  <2>1. /\ band' = [band EXCEPT !.lo = hi] /\ pc' = "hi" /\ UNCHANGED <<lo, hi>>
        /\ ~(lo + 1 < hi) /\ pc = "search_lo"
    BY <1>7 DEF FoundLo, Narrowed
  <2>2. band'.lo = hi /\ band'.hi = None /\ ~band'.clamped
    BY <1>0, <1>1, <2>1
  <2>3. /\ hi \in 2 .. crossover /\ lo = hi - 1
        /\ ~NearLo(1) /\ ~NearLo(hi - 1) /\ NearLo(hi)
    BY <1>0, <2>1 DEF CostInv, SearchFits
  <2>4. TypeOK'
    BY <1>0, <1>1, <2>1 DEF CostInv, TypeOK
  <2>5. SearchFits' /\ ResultsSoFar'
    BY <1>1, <2>1, <2>2 DEF SearchFits, ResultsSoFar
  <2>6. \A n \in Lengths : n < hi => ~NearLo(n)
    BY <1>0, <1>2, <1>3, <2>3, NearLoChangesOnce DEF Lengths
  <2>7. LowerEdgeIsSmallest'
    BY <1>0, <1>1, <2>2, <2>3, <2>6, SamePredicates DEF LowerEdgeIsSmallest, Lengths
  <2>8. UpperEdgeIsLast'
    BY <1>1, <2>2, SameResults
  <2> QED
    BY <1>4, <2>4, <2>5, <2>7, <2>8 DEF CostInv
<1> QED
  BY <1>5, <1>6, <1>7

(* The upper edge of the band. *)
LEMMA UpperEdgeKeepsInv ==
  ASSUME CostInv, Clamp \/ SearchHi \/ FoundHi
  PROVE  CostInv'
<1>0. /\ MaxTokens \in Nat /\ MaxTokens >= 1 /\ config \in Config
      /\ crossover \in 0 .. MaxTokens /\ lo \in Int /\ hi \in 0 .. MaxTokens
      /\ band \in [lo : 0 .. MaxTokens, hi : 0 .. MaxTokens, clamped : BOOLEAN]
  BY CostAssumption DEF CostInv, TypeOK
<1>1. /\ config' = config /\ crossover' = crossover /\ crossover # None
      /\ pc \in {"hi", "search_hi"} /\ band.hi = None /\ band.clamped = FALSE
  BY <1>0 DEF CostInv, ResultsSoFar, Clamp, SearchHi, FoundHi, Search
<1>2. crossover \in 1 .. MaxTokens
  BY <1>0, <1>1 DEF None
<1>3. CrossoverIsSmallest'
  BY <1>1, SameResults
<1>4. CASE Clamp
  <2>1. /\ band' = [band EXCEPT !.hi = MaxTokens, !.clamped = TRUE] /\ pc' = "done"
        /\ UNCHANGED <<lo, hi>> /\ ~PastHi(MaxTokens)
    BY <1>4 DEF Clamp
  <2>2. band'.lo = band.lo /\ band'.hi = MaxTokens /\ band'.clamped = TRUE
    BY <1>0, <2>1
  <2>3. TypeOK' /\ SearchFits' /\ ResultsSoFar'
    <3> DEFINE Bands == [lo : 0 .. MaxTokens, hi : 0 .. MaxTokens, clamped : BOOLEAN]
    <3>0. [[band EXCEPT !.hi = MaxTokens] EXCEPT !.clamped = TRUE] \in Bands
      <4>1. [band EXCEPT !.hi = MaxTokens] \in Bands
        BY <1>0
      <4> QED
        BY <4>1
    <3>1. TypeOK'
      BY <1>0, <1>1, <2>1, <3>0 DEF CostInv, TypeOK
    <3> QED
      BY <1>1, <2>1, <2>2, <3>1 DEF SearchFits, ResultsSoFar
  <2>4. ~PastHi(crossover) /\ config.c >= 0 => \A n \in crossover .. MaxTokens : ~PastHi(n)
    BY <1>0, <1>2, <2>1, NeverPastHi
  <2>5. UpperEdgeIsLast'
    BY <1>1, <2>2, <2>4, SamePredicates DEF UpperEdgeIsLast
  <2> QED
    BY <1>1, <1>3, <2>2, <2>3, <2>5, SameResults DEF CostInv
<1>5. CASE SearchHi
  <2>1. /\ lo' = crossover /\ hi' = MaxTokens /\ pc' = "search_hi" /\ band' = band
        /\ PastHi(MaxTokens)
    BY <1>5 DEF SearchHi, Search
  <2>2. ~PastHi(crossover) => crossover < MaxTokens
    <3>1. ~PastHi(crossover) => crossover # MaxTokens
      BY <2>1, Zenon
    <3> QED
      BY <1>0, <1>2, <3>1
  <2>3. TypeOK'
    BY <1>0, <1>1, <2>1 DEF CostInv, TypeOK
  <2>4. SearchFits'
    BY <1>0, <1>1, <1>2, <2>1, <2>2, SamePredicates DEF SearchFits
  <2>5. ResultsSoFar'
    BY <1>1, <2>1 DEF ResultsSoFar
  <2>6. LowerEdgeIsSmallest' /\ UpperEdgeIsLast'
    BY <1>1, <2>1, SameResults
  <2> QED
    BY <1>3, <2>3, <2>4, <2>5, <2>6 DEF CostInv
<1>6. CASE FoundHi
  <2>1. /\ band' = [band EXCEPT !.hi = hi - 1] /\ pc' = "done" /\ UNCHANGED <<lo, hi>>
        /\ ~(lo + 1 < hi) /\ pc = "search_hi"
    BY <1>6 DEF FoundHi, Narrowed, UpperEdge
  <2>2. band'.lo = band.lo /\ band'.hi = hi - 1 /\ band'.clamped = FALSE
    BY <1>0, <1>1, <2>1
  <2>3. /\ crossover <= lo /\ lo <= hi /\ PastHi(hi) /\ PastHi(MaxTokens)
        /\ ~PastHi(crossover) => lo < hi /\ ~PastHi(lo)
    BY <2>1 DEF CostInv, SearchFits
  <2>4. hi - 1 \in 0 .. MaxTokens
    BY <1>0, <1>2, <2>3
  <2>5. TypeOK'
    BY <1>0, <1>1, <2>1, <2>4 DEF CostInv, TypeOK
  <2>6. SearchFits' /\ ResultsSoFar'
    BY <1>1, <2>1, <2>2 DEF SearchFits, ResultsSoFar
  <2>7. ASSUME ~PastHi(crossover)
        PROVE  /\ hi \in crossover + 1 .. MaxTokens
               /\ \A n \in crossover .. hi - 1 : ~PastHi(n)
               /\ \A n \in hi .. MaxTokens : PastHi(n)
    <3>1. hi \in crossover + 1 .. MaxTokens /\ lo = hi - 1
      BY <1>0, <1>2, <2>1, <2>3, <2>7
    <3>2. ~PastHi(hi - 1)
      BY <2>3, <2>7, <3>1
    <3> QED
      BY <1>0, <1>2, <2>3, <2>7, <3>1, <3>2, PastHiChangesOnce
  <2>8. UpperEdgeIsLast'
    <3> SUFFICES ASSUME ~PastHi(crossover)
                 PROVE  /\ \A n \in crossover .. hi - 1 : ~PastHi(n)
                        /\ \E n \in crossover .. MaxTokens : PastHi(n)
                        /\ \A n \in hi - 1 + 1 .. MaxTokens : PastHi(n)
      BY <1>1, <2>2, SamePredicates DEF UpperEdgeIsLast
    <3>1. hi \in crossover .. MaxTokens /\ hi - 1 + 1 = hi
      BY <1>0, <1>2, <2>7
    <3> QED
      BY <2>3, <2>7, <3>1
  <2>9. LowerEdgeIsSmallest'
    BY <1>1, <2>2, SameResults
  <2> QED
    BY <1>3, <2>5, <2>6, <2>8, <2>9 DEF CostInv
<1> QED
  BY <1>4, <1>5, <1>6

LEMMA CostNextKeeps ==
  ASSUME CostInv, [Next]_vars
  PROVE  CostInv'
<1>1. CASE UNCHANGED vars
  <2>1. UNCHANGED <<config, pc, lo, hi, crossover, band>>
    BY <1>1 DEF vars
  <2>2. TypeOK' /\ ResultsSoFar'
    BY <2>1 DEF CostInv, TypeOK, ResultsSoFar
  <2>3. SearchFits' /\ CrossoverIsSmallest' /\ LowerEdgeIsSmallest' /\ UpperEdgeIsLast'
    BY <2>1, SamePredicates DEF CostInv, SearchFits, CrossoverIsSmallest,
                                LowerEdgeIsSmallest, UpperEdgeIsLast
  <2> QED
    BY <2>2, <2>3 DEF CostInv
<1> QED
  BY <1>1, BisectKeepsInv, CrossoverKeepsInv, LowerEdgeKeepsInv, UpperEdgeKeepsInv DEF Next

LEMMA CostInvHolds == Spec => []CostInv
<1>1. Init => CostInv
  BY InitCostInv
<1>2. CostInv /\ [Next]_vars => CostInv'
  BY CostNextKeeps
<1> QED
  BY <1>1, <1>2, PTL DEF Spec

-----------------------------------------------------------------------------
(***************************************************************************)
(* crossover_tokens() returns the smallest length from which moving is no  *)
(* dearer, for every fit, tier and range.                                  *)
(***************************************************************************)
THEOREM CrossoverIsExact == Spec => []CrossoverIsSmallest
<1>1. CostInv => CrossoverIsSmallest
  BY DEF CostInv
<1> QED
  BY <1>1, CostInvHolds, PTL

(***************************************************************************)
(* The lower edge of the band is the smallest length of all from which     *)
(* moving is at most ratio times as dear.                                  *)
(***************************************************************************)
THEOREM LowerEdgeIsExact == Spec => []LowerEdgeIsSmallest
<1>1. CostInv => LowerEdgeIsSmallest
  BY DEF CostInv
<1> QED
  BY <1>1, CostInvHolds, PTL

(***************************************************************************)
(* The upper edge is the last length of all at which recomputing is at     *)
(* most ratio times as dear, where the ratio is not passed at the          *)
(* crossover already and the fit is not concave.                           *)
(***************************************************************************)
THEOREM UpperEdgeIsExact == Spec => []UpperEdgeIsLast
<1>1. CostInv => UpperEdgeIsLast
  BY DEF CostInv
<1> QED
  BY <1>1, CostInvHolds, PTL

(* The rest of the call: the lengths a search has still to look at, and as *)
(* many as there are for each search that may follow.                      *)
PricingLeft ==
  LET rest == hi - lo + 1
      search == MaxTokens + 2
  IN  CASE pc = "done"             -> 0
        [] pc = "search_hi"        -> rest
        [] pc = "hi"               -> search
        [] pc = "search_lo"        -> search + rest
        [] pc = "lo"               -> 2 * search
        [] pc = "search_crossover" -> 2 * search + rest
        [] pc = "crossover"        -> 3 * search

LEMMA PricingBounds ==
  ASSUME CostInv
  PROVE  /\ lo \in Nat /\ hi \in Nat /\ crossover \in Nat /\ MaxTokens \in Nat
         /\ hi <= MaxTokens /\ lo <= MaxTokens /\ crossover <= MaxTokens
         /\ Searching => lo <= hi
         /\ pc \in {"crossover", "search_crossover", "lo", "search_lo", "hi", "search_hi", "done"}
<1>1. /\ {lo, hi, crossover} \subseteq 0 .. MaxTokens /\ MaxTokens \in Nat
      /\ pc \in {"crossover", "search_crossover", "lo", "search_lo", "hi", "search_hi", "done"}
  BY CostAssumption DEF CostInv, TypeOK
<1>2. lo \in 0 .. MaxTokens /\ hi \in 0 .. MaxTokens /\ crossover \in 0 .. MaxTokens
  BY <1>1
<1>3. Searching => lo <= hi
  BY <1>1, <1>2 DEF CostInv, SearchFits, Searching
<1> QED
  BY <1>1, <1>2, <1>3

LEMMA PricingLeftIsNat ==
  ASSUME CostInv
  PROVE  PricingLeft \in Nat
  BY PricingBounds DEF PricingLeft, Searching

LEMMA PricingGoesOn ==
  ASSUME CostInv, Next
  PROVE  PricingLeft' < PricingLeft /\ (pc' = pc => 2 * (hi' - lo') <= hi - lo + 1)
<1>1. CASE Bisect
  <2>1. /\ Searching /\ lo + 1 < hi /\ pc' = pc
        /\ \/ hi' = Mid /\ lo' = lo
           \/ lo' = Mid /\ hi' = hi
    <3>1. IF Pred(Mid) THEN hi' = Mid /\ UNCHANGED lo ELSE lo' = Mid /\ UNCHANGED hi
      BY <1>1 DEF Bisect
    <3> HIDE DEF Mid
    <3>2. Searching /\ ~Narrowed /\ pc' = pc
      BY <1>1 DEF Bisect
    <3> QED
      BY <3>1, <3>2, PricingBounds DEF Narrowed
  <2>2. Mid \in Int /\ 2 * Mid <= lo + hi /\ lo + hi <= 2 * Mid + 1
    BY PricingBounds DEF Mid
  <2> HIDE DEF Mid
  <2>3. hi' - lo' < hi - lo /\ 2 * (hi' - lo') <= hi - lo + 1
    BY <2>1, <2>2, PricingBounds
  <2>4. hi' \in Int /\ lo' \in Int
    BY <2>1, <2>2, PricingBounds
  <2> QED
    BY <2>1, <2>3, <2>4, PricingBounds DEF PricingLeft, Searching
<1>2. CASE pc = "crossover" /\ pc' \in {"done", "lo"}
  BY <1>2, PricingBounds DEF PricingLeft
<1>3. CASE pc = "crossover" /\ Search(1, MaxTokens, "search_crossover")
  BY <1>3, PricingBounds DEF PricingLeft, Search
<1>4. CASE pc = "search_crossover" /\ pc' = "lo"
  BY <1>4, PricingBounds DEF PricingLeft, Searching
<1>5. CASE pc = "lo" /\ pc' = "hi"
  BY <1>5, PricingBounds DEF PricingLeft
<1>6. CASE pc = "lo" /\ Search(1, crossover, "search_lo")
  BY <1>6, PricingBounds DEF PricingLeft, Search
<1>7. CASE pc = "search_lo" /\ pc' = "hi"
  BY <1>7, PricingBounds DEF PricingLeft, Searching
<1>8. CASE pc = "hi" /\ pc' = "done"
  BY <1>8, PricingBounds DEF PricingLeft
<1>9. CASE pc = "hi" /\ Search(crossover, MaxTokens, "search_hi")
  BY <1>9, PricingBounds DEF PricingLeft, Search
<1>10. CASE pc = "search_hi" /\ pc' = "done"
  BY <1>10, PricingBounds DEF PricingLeft, Searching
<1> QED
  BY <1>1, <1>2, <1>3, <1>4, <1>5, <1>6, <1>7, <1>8, <1>9, <1>10
     DEF Next, NoCrossover, WinsFromTheStart, SearchCrossover, FoundCrossover,
         NearFromTheStart, SearchLo, FoundLo, Clamp, SearchHi, FoundHi

(***************************************************************************)
(* Pricing a tier returns, also where the caller of _bisect_first() does   *)
(* not keep what costmodel.py:106-107 asks of it: whatever the predicate   *)
(* says, a round of a search leaves half of what it had to look at, and    *)
(* three searches are the most there are.                                  *)
(***************************************************************************)
THEOREM PricingReturns ==
  Spec => /\ [](PricingLeft \in Nat)
          /\ [][PricingLeft' < PricingLeft /\ (pc' = pc => 2 * (hi' - lo') <= hi - lo + 1)]_vars
<1>1. CostInv => PricingLeft \in Nat
  BY PricingLeftIsNat
<1>2. CostInv /\ [Next]_vars =>
        [PricingLeft' < PricingLeft /\ (pc' = pc => 2 * (hi' - lo') <= hi - lo + 1)]_vars
  BY PricingGoesOn
<1> QED
  BY <1>1, <1>2, CostInvHolds, PTL DEF Spec

-----------------------------------------------------------------------------
(***************************************************************************)
(* The session around the band.  Until the configuration is assembled the  *)
(* call of crossover_band() has not begun; from then on CostInv holds of   *)
(* it.  What main() has behind it is on the disk, its own.                 *)
(***************************************************************************)
Stages == {"log", "prefill", "gate", "decode", "transfer", "read back", "activation",
           "assemble", "bands", "spot"}

(* The files a session has written when it is at a stage. *)
WrittenAt(s) ==
  CASE s = "log" -> {}
    [] s = "prefill" -> {"session.log"}
    [] s \in {"gate", "decode"} -> {"session.log", "prefill.json"}
    [] s = "transfer" -> {"session.log", "prefill.json", "decode.json"}
    [] s \in {"read back", "activation"} ->
         {"session.log", "prefill.json", "decode.json", "transfer.json"}
    [] s = "assemble" ->
         {"session.log", "prefill.json", "decode.json", "transfer.json",
          "activation_peak.json"}
    [] s \in {"bands", "spot"} ->
         {"session.log", "prefill.json", "decode.json", "transfer.json",
          "activation_peak.json", "cost_model.json"}

FileNames == {"session.log", "prefill.json", "decode.json", "transfer.json",
              "activation_peak.json", "cost_model.json", "spot_validation.json"}

DayTypes ==
  /\ stage \in Stages
  /\ outcome \in {"running", "exit", "raised", "complete"}
  /\ disk \in [FileNames -> {"none", "old", "new"}]

PricingNotBegun ==
  /\ pc = "crossover" /\ lo = None /\ hi = None /\ crossover = None
  /\ band = [lo |-> None, hi |-> None, clamped |-> FALSE]

(* The edges of the band stand in order, or the upper one is the empty     *)
(* range above a crossover at max_tokens.                                  *)
EdgesInOrder ==
  /\ pc = "search_hi" => lo < hi \/ (crossover = MaxTokens /\ hi = MaxTokens)
  /\ pc \in {"hi", "search_hi"} => band.lo # None
  /\ pc = "done" /\ crossover # None =>
       /\ band.lo # None
       /\ \/ band.clamped
          \/ band.hi >= crossover
          \/ crossover = MaxTokens /\ band.hi = MaxTokens - 1

Pricing ==
  IF stage \in {"bands", "spot"} THEN CostInv /\ EdgesInOrder ELSE PricingNotBegun

DiskIsOurs ==
  /\ \A f \in WrittenAt(stage) : disk[f] = "new"
  /\ outcome = "complete" => \A f \in FileNames : disk[f] = "new"
  /\ disk["cost_model.json"] = "new" => stage \in {"bands", "spot"}

GatePassed ==
  /\ stage \in {"decode", "transfer", "read back", "activation", "assemble", "bands", "spot"}
       => fit.acceptable
  /\ fit.acceptable => ~fit.structured
  /\ stage \in {"activation", "assemble", "bands", "spot"} => transfer = "new"

JudgedByDefinition ==
  stage = "gate" /\ residuals # << >> =>
    (fit.acceptable <=> fit.error <= 5 /\ ~FourAlike(residuals))

PointsOfBand ==
  /\ stage = "spot" => pc = "done"
  /\ points # << >> =>
       stage = "spot" /\ crossover # None /\ points = <<band.lo, crossover, ThirdPoint>>

DayInv ==
  /\ DayTypes /\ Pricing /\ DiskIsOurs /\ GatePassed /\ JudgedByDefinition /\ PointsOfBand

-----------------------------------------------------------------------------
LEMMA LeastNumber ==
  ASSUME NEW T, T \subseteq Nat, T # {}
  PROVE  \E x \in T : \A y \in T : x <= y
<1>1. PICK x \in T : \A y \in T : ~ (<<y, x>> \in OpToRel(<, Nat))
  BY NatLessThanWellFounded, WFMin
<1> SUFFICES ASSUME NEW y \in T, y < x PROVE FALSE
  OBVIOUS
<1>2. <<y, x>> \in OpToRel(<, Nat)
  BY DEF OpToRel
<1> QED
  BY <1>1, <1>2

(* Each residual has a place at which the run it is in begins, ... *)
Begins(signs, i, j) ==
  /\ j \in 1 .. i
  /\ ~Continues(signs, j)
  /\ \A k \in j + 1 .. i : Continues(signs, k)

LEMMA RunsBegin ==
  ASSUME NEW n \in Nat, NEW signs \in [1 .. n -> {-1, 0, 1}], NEW i \in 1 .. n
  PROVE  \E j \in 1 .. i : Begins(signs, i, j)
<1> DEFINE T == {k \in 0 .. i - 1 : ~Continues(signs, i - k)}
<1>1. i - 1 \in T
  BY DEF Continues
<1>2. T \subseteq Nat
  OBVIOUS
<1>3. PICK k \in T : \A m \in T : k <= m
  BY <1>1, <1>2, LeastNumber
<1>4. i - k \in 1 .. i /\ ~Continues(signs, i - k)
  BY <1>3
<1>5. ASSUME NEW l \in i - k + 1 .. i, ~Continues(signs, l)
      PROVE  FALSE
  <2>1. i - l \in 0 .. i - 1 /\ i - (i - l) = l /\ i - l < k
    BY <1>3, <1>5
  <2>2. i - l \in T
    BY <1>5, <2>1
  <2>3. k \in Int /\ i - l \in Int
    BY <1>3, <2>1
  <2> HIDE DEF T
  <2>4. k <= i - l
    BY <1>3, <2>2
  <2> QED
    BY <2>1, <2>3, <2>4
<1> QED
  BY <1>4, <1>5 DEF Begins

LEMMA RunsBeginOnce ==
  ASSUME NEW i \in Nat, NEW signs, NEW j, NEW k, Begins(signs, i, j), Begins(signs, i, k)
  PROVE  j = k
  BY DEF Begins

(* ... so the running count of _residual_structure() exists, ... *)
Counts(signs, f) ==
  f = [i \in DOMAIN signs |->
         IF Continues(signs, i) THEN f[i - 1] + 1 ELSE IF signs[i] # 0 THEN 1 ELSE 0]

LEMMA CountExists ==
  ASSUME NEW n \in Nat, NEW signs \in [1 .. n -> {-1, 0, 1}]
  PROVE  \E f : Counts(signs, f)
<1> DEFINE start(i) == CHOOSE j \in 1 .. i : Begins(signs, i, j)
           f == [i \in 1 .. n |-> IF signs[i] = 0 THEN 0 ELSE i - start(i) + 1]
<1>1. \A i \in 1 .. n : start(i) \in 1 .. i /\ Begins(signs, i, start(i))
  BY RunsBegin
<1> HIDE DEF start
<1>2. ASSUME NEW i \in 1 .. n, ~Continues(signs, i)
      PROVE  f[i] = IF signs[i] # 0 THEN 1 ELSE 0
  <2>1. start(i) = i
    BY <1>1, <1>2 DEF Begins
  <2> QED
    BY <2>1
<1>3. ASSUME NEW i \in 1 .. n, Continues(signs, i)
      PROVE  f[i] = f[i - 1] + 1
  <2>1. i - 1 \in 1 .. n /\ signs[i] # 0 /\ signs[i - 1] # 0
    BY <1>3 DEF Continues
  <2>2. Begins(signs, i, start(i - 1))
    BY <1>1, <1>3, <2>1 DEF Begins
  <2>3. start(i) = start(i - 1)
    BY <1>1, <2>2, RunsBeginOnce
  <2>4. start(i - 1) \in Int
    BY <1>1, <2>1
  <2>5. f[i] = i - start(i) + 1 /\ f[i - 1] = i - 1 - start(i - 1) + 1
    BY <2>1
  <2> HIDE DEF f
  <2> QED
    BY <2>3, <2>4, <2>5
<1>4. f = [i \in 1 .. n |->
             IF Continues(signs, i) THEN f[i - 1] + 1 ELSE IF signs[i] # 0 THEN 1 ELSE 0]
  <2>1. \A i \in 1 .. n :
          f[i] = IF Continues(signs, i) THEN f[i - 1] + 1 ELSE IF signs[i] # 0 THEN 1 ELSE 0
    BY <1>2, <1>3
  <2>2. f = [i \in 1 .. n |-> f[i]]
    OBVIOUS
  <2> HIDE DEF f
  <2> QED
    BY <2>1, <2>2
<1> HIDE DEF f
<1>5. DOMAIN signs = 1 .. n
  OBVIOUS
<1> QED
  BY <1>4, <1>5 DEF Counts

(* ... and is what its recursion says, a number everywhere. *)
LEMMA ResidualCount ==
  ASSUME NEW n \in Nat, NEW signs \in [1 .. n -> {-1, 0, 1}]
  PROVE  \E f \in [1 .. n -> Nat] :
           /\ ResidualStructure(signs) <=> \E i \in 1 .. n : f[i] >= 4
           /\ \A i \in 1 .. n :
                f[i] = IF Continues(signs, i) THEN f[i - 1] + 1
                       ELSE IF signs[i] # 0 THEN 1 ELSE 0
<1> DEFINE F == CHOOSE f : Counts(signs, f)
<1>1. Counts(signs, F)
  BY CountExists
<1>2. ResidualStructure(signs) <=> \E i \in DOMAIN signs : F[i] >= 4
  BY Zenon DEF ResidualStructure, Counts
<1> HIDE DEF F
<1>3. DOMAIN signs = 1 .. n
  OBVIOUS
<1>4. /\ F = [i \in 1 .. n |-> F[i]]
      /\ \A i \in 1 .. n :
           F[i] = IF Continues(signs, i) THEN F[i - 1] + 1 ELSE IF signs[i] # 0 THEN 1 ELSE 0
  <2>1. F = [i \in 1 .. n |->
               IF Continues(signs, i) THEN F[i - 1] + 1 ELSE IF signs[i] # 0 THEN 1 ELSE 0]
    BY <1>1, <1>3 DEF Counts
  <2> QED
    BY <2>1
<1>5. \A i \in 1 .. n : F[i] \in Nat
  <2> DEFINE T == {i \in 1 .. n : F[i] \notin Nat}
  <2> SUFFICES ASSUME T # {} PROVE FALSE
    OBVIOUS
  <2>1. PICK x \in T : \A y \in T : x <= y
    <3>1. T \subseteq Nat
      OBVIOUS
    <3> QED
      BY <3>1, LeastNumber
  <2>2. Continues(signs, x)
    <3> SUFFICES ASSUME ~Continues(signs, x) PROVE FALSE
      OBVIOUS
    <3>1. F[x] = IF signs[x] # 0 THEN 1 ELSE 0
      BY <1>4, <2>1
    <3> QED
      BY <2>1, <3>1
  <2>3. x - 1 \in 1 .. n /\ x - 1 \notin T
    BY <2>1, <2>2 DEF Continues
  <2>4. F[x - 1] \in Nat
    BY <2>3
  <2>5. F[x] = F[x - 1] + 1
    BY <1>4, <2>1, <2>2
  <2> QED
    BY <2>1, <2>4, <2>5
<1>6. F \in [1 .. n -> Nat]
  BY <1>4, <1>5
<1> QED
  BY <1>2, <1>3, <1>4, <1>6

(* It reaches four just where four neighbours are on one side. *)
LEMMA StructureIsFourAlike ==
  ASSUME NEW n \in Nat, NEW signs \in [1 .. n -> {-1, 0, 1}]
  PROVE  ResidualStructure(signs) <=> FourAlike(signs)
<1>1. PICK f \in [1 .. n -> Nat] :
        /\ ResidualStructure(signs) <=> \E i \in 1 .. n : f[i] >= 4
        /\ \A i \in 1 .. n :
             f[i] = IF Continues(signs, i) THEN f[i - 1] + 1
                    ELSE IF signs[i] # 0 THEN 1 ELSE 0
  BY ResidualCount
<1>2. Len(signs) = n
  <2>1. signs \in Seq({-1, 0, 1})
    BY SeqDef
  <2> QED
    BY <2>1, LenProperties
<1>3. ASSUME NEW i \in 1 .. n, f[i] >= 4
      PROVE  FourAlike(signs)
  <2>1. ASSUME NEW k \in 1 .. n, f[k] >= 2
        PROVE  /\ k - 1 \in 1 .. n /\ f[k - 1] = f[k] - 1
               /\ signs[k] = signs[k - 1] /\ signs[k] # 0
    <3>1. Continues(signs, k)
      <4> SUFFICES ASSUME ~Continues(signs, k) PROVE FALSE
        OBVIOUS
      <4>1. f[k] = IF signs[k] # 0 THEN 1 ELSE 0
        BY <1>1
      <4> QED
        BY <2>1, <4>1
    <3> QED
      BY <1>1, <2>1, <3>1 DEF Continues
  <2>2. i - 1 \in 1 .. n /\ f[i - 1] >= 3 /\ signs[i] = signs[i - 1] /\ signs[i] # 0
    BY <1>3, <2>1
  <2>3. i - 2 \in 1 .. n /\ f[i - 2] >= 2 /\ signs[i - 1] = signs[i - 2]
    <3>1. i - 1 - 1 = i - 2
      OBVIOUS
    <3> QED
      BY <2>1, <2>2, <3>1
  <2>4. i - 3 \in 1 .. n /\ signs[i - 2] = signs[i - 3]
    <3>1. i - 2 - 1 = i - 3
      OBVIOUS
    <3> QED
      BY <2>1, <2>3, <3>1
  <2>5. \A j \in i - 3 .. i - 3 + 3 : j = i - 3 \/ j = i - 2 \/ j = i - 1 \/ j = i
    OBVIOUS
  <2>6. i - 3 \in 1 .. n - 3
    BY <2>4
  <2>7. signs[i - 3] # 0 /\ \A j \in i - 3 .. i - 3 + 3 : signs[j] = signs[i - 3]
    BY <2>2, <2>3, <2>4, <2>5
  <2> QED
    BY <1>2, <2>6, <2>7 DEF FourAlike
<1>4. ASSUME NEW i \in 1 .. n - 3, signs[i] # 0,
             \A j \in i .. i + 3 : signs[j] = signs[i]
      PROVE  f[i + 3] >= 4 /\ i + 3 \in 1 .. n
  <2>1. /\ i \in 1 .. n /\ i + 1 \in 1 .. n /\ i + 2 \in 1 .. n /\ i + 3 \in 1 .. n
        /\ i + 1 - 1 = i /\ i + 2 - 1 = i + 1 /\ i + 3 - 1 = i + 2
    OBVIOUS
  <2>2. signs[i + 1] = signs[i] /\ signs[i + 2] = signs[i] /\ signs[i + 3] = signs[i]
    BY <1>4
  <2>3. Continues(signs, i + 1) /\ Continues(signs, i + 2) /\ Continues(signs, i + 3)
    BY <1>4, <2>1, <2>2 DEF Continues
  <2>4. f[i] >= 1
    <3>1. CASE Continues(signs, i)
      <4>1. i - 1 \in 1 .. n
        BY <2>1, <3>1 DEF Continues
      <4>2. f[i] = f[i - 1] + 1 /\ f[i - 1] \in Nat
        BY <1>1, <2>1, <3>1, <4>1
      <4> QED
        BY <4>2
    <3>2. CASE ~Continues(signs, i)
      BY <1>1, <1>4, <2>1, <3>2
    <3> QED
      BY <3>1, <3>2
  <2>5. f[i + 1] = f[i] + 1 /\ f[i + 2] = f[i + 1] + 1 /\ f[i + 3] = f[i + 2] + 1
    BY <1>1, <2>1, <2>3
  <2> QED
    BY <2>1, <2>4, <2>5
<1>5. FourAlike(signs) => \E i \in 1 .. n : f[i] >= 4
  BY <1>2, <1>4 DEF FourAlike
<1> QED
  BY <1>1, <1>3, <1>5

-----------------------------------------------------------------------------
LEMMA FilesNamed == ToSet(Files) = FileNames
<1>1. ToSet(Files) = {Files[i] : i \in DOMAIN Files}
  BY DEF ToSet
<1>2. DOMAIN Files = 1 .. 7
  BY DEF Files
<1>3. /\ Files[1] = "session.log" /\ Files[2] = "prefill.json" /\ Files[3] = "decode.json"
      /\ Files[4] = "transfer.json" /\ Files[5] = "activation_peak.json"
      /\ Files[6] = "cost_model.json" /\ Files[7] = "spot_validation.json"
  BY DEF Files
<1>4. \A i \in 1 .. 7 : i = 1 \/ i = 2 \/ i = 3 \/ i = 4 \/ i = 5 \/ i = 6 \/ i = 7
  OBVIOUS
<1> HIDE DEF Files
<1> QED
  BY <1>1, <1>2, <1>3, <1>4 DEF FileNames

LEMMA DayInitKeeps ==
  ASSUME DayInit
  PROVE  DayInv
<1>1. stage = "log" /\ outcome = "running" /\ fit = Unfitted /\ points = << >>
      /\ residuals = << >> /\ PricingNotBegun
  BY DEF DayInit, PricingNotBegun
<1>2. disk \in [FileNames -> {"none", "old", "new"}] /\ disk["cost_model.json"] # "new"
  <2>1. PICK k \in 0 .. Len(Files) : disk = LeftBy(k)
    BY DEF DayInit
  <2>2. \A f \in FileNames : disk[f] \in {"none", "old"}
    BY <2>1, FilesNamed DEF LeftBy
  <2>3. disk = [f \in FileNames |-> disk[f]]
    BY <2>1, FilesNamed DEF LeftBy
  <2>4. "cost_model.json" \in FileNames
    BY DEF FileNames
  <2> QED
    BY <2>2, <2>3, <2>4
<1>3. DayTypes
  BY <1>1, <1>2 DEF DayTypes, Stages
<1>4. Pricing
  BY <1>1 DEF Pricing
<1>5. DiskIsOurs
  BY <1>1, <1>2 DEF DiskIsOurs, WrittenAt
<1>6. GatePassed
  BY <1>1 DEF GatePassed, Unfitted
<1>7. JudgedByDefinition /\ PointsOfBand
  BY <1>1 DEF JudgedByDefinition, PointsOfBand
<1> QED
  BY <1>3, <1>4, <1>5, <1>6, <1>7 DEF DayInv

(* The stages before the configuration is assembled. *)
LEMMA WrittenDisk ==
  ASSUME disk \in [FileNames -> {"none", "old", "new"}], NEW f \in FileNames,
         disk' = Written(f)
  PROVE  /\ disk' \in [FileNames -> {"none", "old", "new"}]
         /\ disk'[f] = "new"
         /\ \A g \in FileNames : g # f => disk'[g] = disk[g]
  BY DEF Written

LEMMA PricingUnchanged ==
  ASSUME UNCHANGED <<pc, lo, hi, crossover, band>>
  PROVE  PricingNotBegun => PricingNotBegun'
  BY DEF PricingNotBegun

LEMMA EarlyStagesKeep ==
  ASSUME DayInv,
         OpenLog \/ CurveA \/ Gate \/ CurveB \/ CurveC \/ ReadTransfer \/ ActivationPeaks
  PROVE  DayInv'
<1>1. /\ UNCHANGED <<config, pc, lo, hi, crossover, band, points>>
      /\ outcome = "running"
      /\ stage \notin {"bands", "spot"} /\ stage' \notin {"bands", "spot"}
  BY DEF OpenLog, CurveA, Gate, CurveB, CurveC, ReadTransfer, ActivationPeaks, Running,
         Writes, vars
<1>2. /\ disk \in [FileNames -> {"none", "old", "new"}] /\ stage \in Stages
      /\ disk["cost_model.json"] # "new" /\ points = << >>
  BY <1>1 DEF DayInv, DayTypes, DiskIsOurs, PointsOfBand
<1>3. Pricing'
  BY <1>1, PricingUnchanged DEF DayInv, Pricing
<1>4. PointsOfBand'
  BY <1>1, <1>2 DEF PointsOfBand
<1>5. CASE OpenLog \/ CurveB \/ CurveC \/ ActivationPeaks
  <2>1. PICK f \in FileNames \ {"cost_model.json"} :
          /\ disk' = Written(f)
          /\ stage' \in Stages
          /\ WrittenAt(stage') = WrittenAt(stage) \cup {f}
          /\ \/ stage = "log" /\ stage' = "prefill"
             \/ stage = "decode" /\ stage' = "transfer"
             \/ stage = "transfer" /\ stage' = "read back"
             \/ stage = "activation" /\ stage' = "assemble"
    <3>1. CASE OpenLog
      BY <3>1 DEF OpenLog, Running, Writes, FileNames, WrittenAt, Stages
    <3>2. CASE CurveB
      BY <3>2 DEF CurveB, Running, Writes, FileNames, WrittenAt, Stages
    <3>3. CASE CurveC
      BY <3>3 DEF CurveC, TransferFile, Running, FileNames, WrittenAt, Stages
    <3>4. CASE ActivationPeaks
      BY <3>4 DEF ActivationPeaks, Running, Writes, FileNames, WrittenAt, Stages
    <3> QED
      BY <1>5, <3>1, <3>2, <3>3, <3>4
  <2>2. UNCHANGED <<outcome, residuals, fit, transfer>>
    BY <1>5 DEF OpenLog, CurveB, CurveC, ActivationPeaks, Writes
  <2>3. /\ disk' \in [FileNames -> {"none", "old", "new"}] /\ disk'[f] = "new"
        /\ \A g \in FileNames : g # f => disk'[g] = disk[g]
    BY <1>2, <2>1, WrittenDisk
  <2>4. DayTypes'
    BY <2>1, <2>2, <2>3 DEF DayInv, DayTypes
  <2>5. \A g \in WrittenAt(stage) : g \in FileNames /\ disk[g] = "new"
    BY <1>2 DEF DayInv, DiskIsOurs, WrittenAt, FileNames, Stages
  <2>6. \A g \in WrittenAt(stage') : disk'[g] = "new"
    BY <2>1, <2>3, <2>5
  <2>7. "cost_model.json" \in FileNames
    BY DEF FileNames
  <2>8. DiskIsOurs'
    BY <1>1, <1>2, <2>1, <2>2, <2>3, <2>6, <2>7 DEF DiskIsOurs
  <2>9. GatePassed'
    BY <2>1, <2>2 DEF DayInv, GatePassed
  <2>10. JudgedByDefinition'
    BY <2>1 DEF JudgedByDefinition
  <2> QED
    BY <1>3, <1>4, <2>4, <2>8, <2>9, <2>10 DEF DayInv
<1>6. CASE CurveA
  <2>1. /\ stage = "prefill" /\ stage' = "gate" /\ disk' = Written("prefill.json")
        /\ UNCHANGED <<outcome, transfer>>
    BY <1>6 DEF CurveA, Running
  <2>2. PICK lin, fall \in Errors, signs \in [1 .. GridSize -> {-1, 0, 1}] :
          residuals' = signs /\ fit' = FitCurves(lin, fall, signs)
    BY <1>6 DEF CurveA
  <2>3. /\ fit'.structured = ResidualStructure(signs)
        /\ fit'.acceptable = Acceptable(fit'.error, fit'.structured)
    BY <2>2 DEF FitCurves
  <2>4. fit'.acceptable <=> fit'.error <= 5 /\ ~fit'.structured
    BY <2>3 DEF Acceptable
  <2>5. ResidualStructure(signs) <=> FourAlike(signs)
    BY GridAssumption, StructureIsFourAlike
  <2>6. JudgedByDefinition'
    <3>1. residuals' = signs
      BY <2>2
    <3> QED
      BY <2>3, <2>4, <2>5, <3>1 DEF JudgedByDefinition, FourAlike
  <2>7. "prefill.json" \in FileNames /\ "cost_model.json" \in FileNames
    BY DEF FileNames
  <2>8. /\ disk' \in [FileNames -> {"none", "old", "new"}] /\ disk'["prefill.json"] = "new"
        /\ \A g \in FileNames : g # "prefill.json" => disk'[g] = disk[g]
    BY <1>2, <2>1, <2>7, WrittenDisk
  <2>9. DayTypes'
    BY <2>1, <2>8 DEF DayInv, DayTypes, Stages
  <2>10. disk["session.log"] = "new" /\ "session.log" \in FileNames
    BY <2>1 DEF DayInv, DiskIsOurs, WrittenAt, FileNames
  <2>11. \A g \in WrittenAt("gate") : disk'[g] = "new"
    BY <2>8, <2>10 DEF WrittenAt
  <2>12. DiskIsOurs'
    BY <1>1, <1>2, <2>1, <2>7, <2>8, <2>11 DEF DiskIsOurs
  <2>13. GatePassed'
    BY <2>1, <2>4 DEF GatePassed
  <2> QED
    BY <1>3, <1>4, <2>6, <2>9, <2>12, <2>13 DEF DayInv
<1>7. CASE Gate
  <2>1. /\ stage = "gate" /\ UNCHANGED <<disk, fit, transfer>> /\ residuals' = << >>
        /\ \/ fit.acceptable /\ stage' = "decode" /\ outcome' = outcome
           \/ outcome' = "exit" /\ stage' = stage
    BY <1>7 DEF Gate, Running
  <2>2. DayTypes'
    BY <2>1 DEF DayInv, DayTypes, Stages
  <2>3. WrittenAt(stage') = WrittenAt(stage)
    BY <2>1 DEF WrittenAt
  <2>4. DiskIsOurs'
    BY <1>1, <2>1, <2>3 DEF DayInv, DiskIsOurs
  <2>5. GatePassed' /\ JudgedByDefinition'
    BY <2>1 DEF DayInv, GatePassed, JudgedByDefinition
  <2> QED
    BY <1>3, <1>4, <2>2, <2>4, <2>5 DEF DayInv
<1>8. CASE ReadTransfer
  <2>1. /\ stage = "read back" /\ stage' = "activation" /\ transfer' = disk["transfer.json"]
        /\ UNCHANGED <<outcome, disk, residuals, fit>>
    BY <1>8 DEF ReadTransfer, Running
  <2>2. transfer' = "new"
    BY <2>1 DEF DayInv, DiskIsOurs, WrittenAt
  <2>3. DayTypes'
    BY <2>1 DEF DayInv, DayTypes, Stages
  <2>4. WrittenAt(stage') = WrittenAt(stage)
    BY <2>1 DEF WrittenAt
  <2>5. DiskIsOurs'
    BY <1>1, <2>1, <2>4 DEF DayInv, DiskIsOurs
  <2>6. GatePassed' /\ JudgedByDefinition'
    BY <2>1, <2>2 DEF DayInv, GatePassed, JudgedByDefinition
  <2> QED
    BY <1>3, <1>4, <2>3, <2>5, <2>6 DEF DayInv
<1> QED
  BY <1>5, <1>6, <1>7, <1>8

-----------------------------------------------------------------------------
(* From the assembled configuration to the three points. *)
LEMMA AssembleKeeps ==
  ASSUME DayInv, Assemble
  PROVE  DayInv'
<1>1. /\ stage = "assemble" /\ outcome = "running" /\ PricingNotBegun
      /\ UNCHANGED <<pc, lo, hi, crossover, band, residuals, fit, transfer, points>>
  BY DEF Assemble, Running, DayInv, Pricing
<1>2. /\ disk \in [FileNames -> {"none", "old", "new"}] /\ fit.acceptable
      /\ points = << >>
  BY <1>1 DEF DayInv, DayTypes, GatePassed, PointsOfBand
<1>3. config' \in Config /\ disk' = Written("cost_model.json") /\ stage' = "bands"
      /\ outcome' = outcome
  BY <1>2 DEF Assemble, Emits
<1>4. "cost_model.json" \in FileNames
  BY DEF FileNames
<1>5. /\ disk' \in [FileNames -> {"none", "old", "new"}] /\ disk'["cost_model.json"] = "new"
      /\ \A g \in FileNames : g # "cost_model.json" => disk'[g] = disk[g]
  BY <1>2, <1>3, <1>4, WrittenDisk
<1>6. DayTypes'
  BY <1>1, <1>3, <1>5 DEF DayTypes, Stages
<1>7. Pricing'
  <2>1. Init'
    BY <1>1, <1>3 DEF PricingNotBegun, Init
  <2>2. CostInv'
    <3>1. CostAssumption => CostInv'
      <4>1. TypeOK'
        BY <2>1, CostAssumption DEF Init, TypeOK, None
      <4>2. SearchFits' /\ ResultsSoFar'
        BY <2>1 DEF Init, SearchFits, ResultsSoFar
      <4>3. CrossoverIsSmallest' /\ LowerEdgeIsSmallest' /\ UpperEdgeIsLast'
        BY <2>1 DEF Init, CrossoverIsSmallest, LowerEdgeIsSmallest, UpperEdgeIsLast
      <4> QED
        BY <4>1, <4>2, <4>3 DEF CostInv
    <3> QED
      BY <3>1, CostAssumption
  <2>3. EdgesInOrder'
    BY <2>1 DEF Init, EdgesInOrder
  <2> QED
    BY <1>3, <2>2, <2>3 DEF Pricing
<1>8. DiskIsOurs'
  <2>1. \A g \in WrittenAt(stage) : g \in FileNames /\ disk[g] = "new"
    BY <1>1 DEF DayInv, DiskIsOurs, WrittenAt, FileNames
  <2>2. WrittenAt(stage') = WrittenAt(stage) \cup {"cost_model.json"}
    BY <1>1, <1>3 DEF WrittenAt
  <2>3. \A g \in WrittenAt(stage') : disk'[g] = "new"
    BY <1>5, <2>1, <2>2
  <2> QED
    BY <1>1, <1>3, <2>3 DEF DiskIsOurs
<1>9. GatePassed' /\ JudgedByDefinition' /\ PointsOfBand'
  BY <1>1, <1>2, <1>3 DEF DayInv, GatePassed, JudgedByDefinition, PointsOfBand
<1> QED
  BY <1>6, <1>7, <1>8, <1>9 DEF DayInv

(* Every halving keeps the order of the edges to come. *)
LEMMA EdgesKeepOrder ==
  ASSUME CostInv, EdgesInOrder, Next
  PROVE  EdgesInOrder'
<1>1. /\ MaxTokens \in Nat /\ MaxTokens >= 1
      /\ lo \in 0 .. MaxTokens /\ hi \in 0 .. MaxTokens /\ crossover \in 0 .. MaxTokens
      /\ band \in [lo : 0 .. MaxTokens, hi : 0 .. MaxTokens, clamped : BOOLEAN]
  BY CostAssumption DEF CostInv, TypeOK
<1>2. CASE Bisect
  <2>1. /\ UNCHANGED <<config, pc, crossover, band>> /\ Searching /\ lo + 1 < hi
        /\ \/ hi' = Mid /\ lo' = lo
           \/ lo' = Mid /\ hi' = hi
    BY <1>2 DEF Bisect, Narrowed
  <2>2. lo < Mid /\ Mid < hi /\ Mid \in Int
    BY <1>1, <2>1 DEF Mid
  <2>3. lo' < hi'
    <3> HIDE DEF Mid
    <3> QED
      BY <2>1, <2>2
  <2> QED
    BY <2>1, <2>3 DEF EdgesInOrder, Searching
<1>3. CASE NoCrossover \/ WinsFromTheStart \/ SearchCrossover \/ FoundCrossover
  <2>1. \/ pc' = "done" /\ crossover' = crossover /\ crossover = None
        \/ pc' \in {"lo", "search_crossover"}
    BY <1>3 DEF NoCrossover, WinsFromTheStart, SearchCrossover, FoundCrossover, Search,
                CostInv, ResultsSoFar
  <2> QED
    BY <2>1 DEF EdgesInOrder
<1>4. CASE SearchLo
  <2>1. pc' = "search_lo"
    BY <1>4 DEF SearchLo, Search
  <2> QED
    BY <2>1 DEF EdgesInOrder
<1>5. CASE NearFromTheStart
  <2>1. band' = [band EXCEPT !.lo = 1] /\ pc' = "hi"
    BY <1>5 DEF NearFromTheStart
  <2>2. band'.lo = 1
    BY <1>1, <2>1
  <2> QED
    BY <2>1, <2>2 DEF EdgesInOrder, None
<1>6. CASE FoundLo
  <2>1. band' = [band EXCEPT !.lo = hi] /\ pc' = "hi" /\ pc = "search_lo"
    BY <1>6 DEF FoundLo
  <2>2. band'.lo = hi /\ hi > 0
    BY <1>1, <2>1 DEF CostInv, SearchFits
  <2>3. band'.lo # None
    BY <2>2, <1>1 DEF None
  <2> QED
    BY <2>1, <2>3 DEF EdgesInOrder
<1>7. CASE Clamp
  <2>1. /\ band' = [band EXCEPT !.hi = MaxTokens, !.clamped = TRUE]
        /\ pc' = "done" /\ pc = "hi" /\ crossover' = crossover
    BY <1>7 DEF Clamp
  <2>2. band'.lo = band.lo /\ band'.clamped = TRUE
    BY <1>1, <2>1
  <2> QED
    BY <2>1, <2>2 DEF EdgesInOrder
<1>8. CASE SearchHi
  <2>1. /\ lo' = crossover /\ hi' = MaxTokens /\ pc' = "search_hi" /\ pc = "hi"
        /\ UNCHANGED <<crossover, band>>
    BY <1>8 DEF SearchHi, Search
  <2>2. lo' < hi' \/ (crossover' = MaxTokens /\ hi' = MaxTokens)
    BY <1>1, <2>1
  <2> QED
    BY <2>1, <2>2 DEF EdgesInOrder
<1>9. CASE FoundHi
  <2>1. /\ band' = [band EXCEPT !.hi = hi - 1] /\ pc' = "done" /\ pc = "search_hi"
        /\ crossover' = crossover
    BY <1>9 DEF FoundHi, UpperEdge
  <2>2. band'.lo = band.lo /\ band'.hi = hi - 1
    BY <1>1, <2>1
  <2>3. crossover <= lo
    BY <2>1 DEF CostInv, SearchFits
  <2>4. hi - 1 >= crossover \/ (crossover = MaxTokens /\ hi - 1 = MaxTokens - 1)
    BY <1>1, <2>1, <2>3 DEF EdgesInOrder
  <2>5. band.lo # None
    BY <2>1 DEF EdgesInOrder
  <2> QED
    BY <2>1, <2>2, <2>4, <2>5 DEF EdgesInOrder
<1> QED
  BY <1>2, <1>3, <1>4, <1>5, <1>6, <1>7, <1>8, <1>9 DEF Next

LEMMA LateStagesKeep ==
  ASSUME DayInv, BandStep \/ BandDone \/ SpotValidate
  PROVE  DayInv'
<1>1. CASE BandStep
  <2>1. /\ stage = "bands" /\ Next /\ CostInv /\ EdgesInOrder
        /\ UNCHANGED <<stage, outcome, disk, residuals, fit, transfer, points>>
    BY <1>1 DEF BandStep, Running, session_vars, DayInv, Pricing
  <2>2. Pricing'
    BY <2>1, CostNextKeeps, EdgesKeepOrder DEF Pricing
  <2>3. DayTypes' /\ DiskIsOurs' /\ GatePassed'
    BY <2>1 DEF DayInv, DayTypes, DiskIsOurs, WrittenAt, GatePassed
  <2>4. JudgedByDefinition' /\ PointsOfBand'
    BY <2>1 DEF DayInv, JudgedByDefinition, PointsOfBand
  <2> QED
    BY <2>2, <2>3, <2>4 DEF DayInv
<1>2. CASE BandDone \/ SpotValidate
  <2>1. /\ UNCHANGED <<config, pc, lo, hi, crossover, band>>
        /\ UNCHANGED <<residuals, fit, transfer>>
        /\ stage \in {"bands", "spot"} /\ stage' = "spot" /\ pc = "done"
    BY <1>2 DEF BandDone, SpotValidate, Running, vars, DayInv, PointsOfBand
  <2>2. Pricing'
    <3>1. CostInv /\ EdgesInOrder
      BY <2>1 DEF DayInv, Pricing
    <3>2. CostInv' /\ EdgesInOrder'
      BY <2>1, <3>1, CostNextKeeps DEF vars, EdgesInOrder
    <3> QED
      BY <2>1, <3>2 DEF Pricing
  <2>3. GatePassed' /\ JudgedByDefinition'
    BY <2>1 DEF DayInv, GatePassed, JudgedByDefinition
  <2>4. WrittenAt(stage) = WrittenAt("spot") /\ WrittenAt(stage') = WrittenAt("spot")
    BY <2>1 DEF WrittenAt
  <2>5. CASE BandDone
    <3>1. UNCHANGED <<outcome, disk, points>> /\ points = << >>
      BY <2>5 DEF BandDone, Running, DayInv, PointsOfBand
    <3>2. DayTypes' /\ DiskIsOurs' /\ PointsOfBand'
      BY <2>1, <2>4, <3>1 DEF DayInv, DayTypes, Stages, DiskIsOurs, PointsOfBand
    <3> QED
      BY <2>2, <2>3, <3>2 DEF DayInv
  <2>6. CASE SpotValidate
    <3>1. /\ points' = SelectPoints /\ disk' = Written("spot_validation.json")
          /\ outcome' = "complete" /\ stage = "spot"
      BY <2>6 DEF SpotValidate, Running
    <3>2. "spot_validation.json" \in FileNames
      BY DEF FileNames
    <3>3. disk \in [FileNames -> {"none", "old", "new"}]
      BY DEF DayInv, DayTypes
    <3>4. /\ disk' \in [FileNames -> {"none", "old", "new"}]
          /\ disk'["spot_validation.json"] = "new"
          /\ \A g \in FileNames : g # "spot_validation.json" => disk'[g] = disk[g]
      BY <3>1, <3>2, <3>3, WrittenDisk
    <3>5. /\ \A g \in WrittenAt("spot") : g \in FileNames /\ disk[g] = "new"
          /\ FileNames = WrittenAt("spot") \cup {"spot_validation.json"}
      BY <3>1 DEF DayInv, DiskIsOurs, WrittenAt, FileNames
    <3>6. \A g \in FileNames : disk'[g] = "new"
      BY <3>4, <3>5
    <3>7. DiskIsOurs'
      BY <2>1, <2>4, <3>5, <3>6 DEF DiskIsOurs
    <3>8. DayTypes'
      BY <2>1, <3>1, <3>4 DEF DayTypes, Stages
    <3>9. PointsOfBand'
      <4>1. ThirdPoint' = ThirdPoint
        BY <2>1 DEF ThirdPoint
      <4> QED
        BY <2>1, <3>1, <4>1 DEF PointsOfBand, SelectPoints
    <3> QED
      BY <2>2, <2>3, <3>7, <3>8, <3>9 DEF DayInv
  <2> QED
    BY <1>2, <2>5, <2>6
<1> QED
  BY <1>1, <1>2

LEMMA OtherwiseDayKeeps ==
  ASSUME DayInv, Raises \/ UNCHANGED day_vars
  PROVE  DayInv'
<1>1. /\ UNCHANGED <<config, pc, lo, hi, crossover, band>>
      /\ UNCHANGED <<stage, disk, residuals, fit, transfer, points>>
      /\ outcome' = outcome \/ outcome' = "raised"
  BY DEF Raises, day_vars, session_vars, vars
<1>2. DayTypes' /\ DiskIsOurs' /\ GatePassed' /\ JudgedByDefinition'
  BY <1>1 DEF DayInv, DayTypes, DiskIsOurs, GatePassed, JudgedByDefinition
<1>3. Pricing'
  <2>1. CASE stage \in {"bands", "spot"}
    <3>1. CostInv' /\ EdgesInOrder'
      BY <1>1, <2>1, CostNextKeeps DEF DayInv, Pricing, vars, EdgesInOrder
    <3> QED
      BY <1>1, <2>1, <3>1 DEF Pricing
  <2>2. CASE stage \notin {"bands", "spot"}
    BY <1>1, <2>2 DEF DayInv, Pricing, PricingNotBegun
  <2> QED
    BY <2>1, <2>2
<1>4. PointsOfBand'
  <2>1. ThirdPoint' = ThirdPoint
    BY <1>1 DEF ThirdPoint
  <2> QED
    BY <1>1, <2>1 DEF DayInv, PointsOfBand
<1> QED
  BY <1>2, <1>3, <1>4 DEF DayInv

LEMMA DayInvHolds == DaySpec => []DayInv
<1>1. DayInit => DayInv
  BY DayInitKeeps
<1>2. DayInv /\ [Stage \/ Raises]_day_vars => DayInv'
  BY EarlyStagesKeep, AssembleKeeps, LateStagesKeep, OtherwiseDayKeeps DEF Stage
<1> QED
  BY <1>1, <1>2, PTL DEF DaySpec

(***************************************************************************)
(* What a session reports of its band is exact: the theorems above hold in *)
(* the middle of it, whatever was fitted and whichever tier is priced.     *)
(***************************************************************************)
THEOREM SessionsBandIsExact ==
  DaySpec => [](CrossoverIsSmallest /\ LowerEdgeIsSmallest /\ UpperEdgeIsLast)
<1>1. DayInv => CrossoverIsSmallest /\ LowerEdgeIsSmallest /\ UpperEdgeIsLast
  BY DEF DayInv, Pricing, PricingNotBegun, CostInv, CrossoverIsSmallest,
         LowerEdgeIsSmallest, UpperEdgeIsLast
<1> QED
  BY <1>1, DayInvHolds, PTL

(***************************************************************************)
(* The gate judges by the definition of "four alike", for any number of    *)
(* prompt lengths, and no session writes a cost_model.json around a fit    *)
(* that failed it.                                                         *)
(***************************************************************************)
THEOREM GateIsSound == DaySpec => []NoConfigAroundABadFit
<1>1. DayInv => NoConfigAroundABadFit
  <2> SUFFICES ASSUME DayInv PROVE NoConfigAroundABadFit
    OBVIOUS
  <2>1. disk["cost_model.json"] = "new" => fit.acceptable /\ ~fit.structured
    BY DEF DayInv, DiskIsOurs, GatePassed
  <2> QED
    BY <2>1 DEF DayInv, JudgedByDefinition, NoConfigAroundABadFit
<1> QED
  BY <1>1, DayInvHolds, PTL

(***************************************************************************)
(* What a complete session leaves on the disk is its own, and so are the   *)
(* tiers in the configuration, whatever an earlier session left there.     *)
(***************************************************************************)
THEOREM SessionsDoNotMix == DaySpec => []CommitIsOneSession
<1>1. DayInv => CommitIsOneSession
  <2> SUFFICES ASSUME DayInv PROVE CommitIsOneSession
    OBVIOUS
  <2>1. DOMAIN disk = FileNames
    BY DEF DayInv, DayTypes
  <2>2. disk["cost_model.json"] = "new" => transfer = "new"
    BY DEF DayInv, DiskIsOurs, GatePassed
  <2> QED
    BY <2>1, <2>2 DEF DayInv, DiskIsOurs, CommitIsOneSession
<1> QED
  BY <1>1, DayInvHolds, PTL

(***************************************************************************)
(* The three points that validate a band are in order, except above a      *)
(* crossover at max_tokens.                                                *)
(***************************************************************************)
THEOREM PointsAreInOrder == DaySpec => []SpotPointsAscend
<1>1. DayInv => SpotPointsAscend
  <2> SUFFICES ASSUME DayInv, points # << >>
               PROVE  /\ points[1] <= points[2]
                      /\ \/ points[2] <= points[3]
                         \/ crossover = MaxTokens /\ points[3] = MaxTokens - 1
    BY DEF SpotPointsAscend
  <2>1. /\ stage = "spot" /\ pc = "done" /\ crossover # None
        /\ points = <<band.lo, crossover, ThirdPoint>>
    BY DEF DayInv, PointsOfBand
  <2>2. points[1] = band.lo /\ points[2] = crossover /\ points[3] = ThirdPoint
    BY <2>1
  <2>3. CostInv /\ EdgesInOrder
    BY <2>1 DEF DayInv, Pricing
  <2>4. band.lo <= crossover
    BY <2>1, <2>3 DEF EdgesInOrder, CostInv, LowerEdgeIsSmallest
  <2>5. crossover \in Nat
    BY <2>3, CostAssumption DEF CostInv, TypeOK
  <2>6. CASE band.clamped
    <3>1. ThirdPoint = crossover * 2
      BY <2>6 DEF ThirdPoint
    <3> QED
      BY <2>2, <2>4, <2>5, <3>1
  <2>7. CASE ~band.clamped
    <3>1. ThirdPoint = band.hi
      BY <2>7 DEF ThirdPoint
    <3>2. band.hi >= crossover \/ (crossover = MaxTokens /\ band.hi = MaxTokens - 1)
      BY <2>1, <2>3, <2>7 DEF EdgesInOrder
    <3>3. band.hi \in Nat
      BY <2>3, CostAssumption DEF CostInv, TypeOK
    <3> QED
      BY <2>2, <2>4, <2>5, <3>1, <3>2, <3>3
  <2> QED
    BY <2>6, <2>7
<1> QED
  BY <1>1, DayInvHolds, PTL
================================================================================
