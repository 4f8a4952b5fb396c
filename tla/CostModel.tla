------------------------------- MODULE CostModel -------------------------------
(***************************************************************************)
(* crossover_tokens() and crossover_band() of miniserve/bench/costmodel.py *)
(* with the bisection both rest on: from which prefix length moving KV is  *)
(* cheaper than recomputing it, and over which range the two costs are     *)
(* within a ratio of each other.                                           *)
(*                                                                         *)
(* One behaviour is one call of crossover_band() on one configuration.     *)
(* Costs are integers in some unit of time, so the comparisons are exact;  *)
(* the program computes them in floating point.                            *)
(***************************************************************************)
EXTENDS Integers, FiniteSets

CONSTANTS Intercepts, Slopes, Curvatures,   \* a, b, c of the prefill fit
          Latencies, PerToken,              \* of the transfer tier
          RatioNum, RatioDen,               \* ratio
          MaxTokens                         \* max_tokens

ASSUME CostAssumption ==
  /\ Intercepts \cup Slopes \cup Curvatures \subseteq Int
  /\ Latencies \cup PerToken \subseteq Nat
  /\ RatioDen \in Nat \ {0} /\ RatioNum \in Nat /\ RatioNum >= RatioDen
  /\ MaxTokens \in Nat \ {0}

VARIABLES config,      \* the prefill fit and one transfer tier
          pc,          \* what crossover_band() decides next
          lo, hi,      \* _bisect_first's range while it runs
          crossover,   \* crossover_tokens()'s result
          band         \* the returned range

vars == <<config, pc, lo, hi, crossover, band>>

None == 0    \* no prefix length is 0

(* A linear fit is a quadratic one with no curvature. *)
Config == [a : Intercepts, b : Slopes, c : Curvatures, latency : Latencies, per_token : PerToken]

recompute(n) == config.a + config.b * n + config.c * n * n

migrate(n) == config.latency + config.per_token * n

Init ==
  /\ config \in Config
  /\ pc = "crossover"
  /\ lo = None /\ hi = None /\ crossover = None
  /\ band = [lo |-> None, hi |-> None, clamped |-> FALSE]

-----------------------------------------------------------------------------
(***************************************************************************)
(* Mutated forms, each one the bug a definition below is checked against.  *)
(***************************************************************************)
BugNearTheOtherWay(n) == RatioNum * migrate(n) <= RatioDen * recompute(n)
BugStopsLate == lo + 2 >= hi
BugNarrowsToNothing == lo >= hi
BugFirstPast(first) == first

(* migrate_wins, near_lo and past_hi *)
Wins(n) == migrate(n) <= recompute(n)

NearLo(n) == RatioDen * migrate(n) <= RatioNum * recompute(n)

PastHi(n) == RatioDen * recompute(n) > RatioNum * migrate(n)

(* The predicate of the search under way. *)
Pred(n) == CASE pc = "search_crossover" -> Wins(n)
             [] pc = "search_lo" -> NearLo(n)
             [] pc = "search_hi" -> PastHi(n)

Searching == pc \in {"search_crossover", "search_lo", "search_hi"}

(***************************************************************************)
(* _bisect_first(): halve (lo, hi] until it holds one length.              *)
(***************************************************************************)
Mid == (lo + hi) \div 2

Narrowed == ~(lo + 1 < hi)

Search(from, to, what) == lo' = from /\ hi' = to /\ pc' = what

Bisect ==
  /\ Searching
  /\ ~Narrowed
  /\ IF Pred(Mid) THEN hi' = Mid /\ UNCHANGED lo ELSE lo' = Mid /\ UNCHANGED hi
  /\ UNCHANGED <<config, pc, crossover, band>>

(***************************************************************************)
(* crossover_tokens()                                                      *)
(***************************************************************************)
NoCrossover ==
  /\ pc = "crossover" /\ ~Wins(MaxTokens)
  /\ pc' = "done"
  /\ UNCHANGED <<config, lo, hi, crossover, band>>

WinsFromTheStart ==
  /\ pc = "crossover" /\ Wins(MaxTokens) /\ Wins(1)
  /\ crossover' = 1 /\ pc' = "lo"
  /\ UNCHANGED <<config, lo, hi, band>>

SearchCrossover ==
  /\ pc = "crossover" /\ Wins(MaxTokens) /\ ~Wins(1)
  /\ Search(1, MaxTokens, "search_crossover")
  /\ UNCHANGED <<config, crossover, band>>

FoundCrossover ==
  /\ pc = "search_crossover" /\ Narrowed
  /\ crossover' = hi /\ pc' = "lo"
  /\ UNCHANGED <<config, lo, hi, band>>

(***************************************************************************)
(* crossover_band(): the lower edge, then the upper one.                   *)
(***************************************************************************)
NearFromTheStart ==
  /\ pc = "lo" /\ NearLo(1)
  /\ band' = [band EXCEPT !.lo = 1] /\ pc' = "hi"
  /\ UNCHANGED <<config, lo, hi, crossover>>

SearchLo ==
  /\ pc = "lo" /\ ~NearLo(1)
  /\ Search(1, crossover, "search_lo")
  /\ UNCHANGED <<config, crossover, band>>

FoundLo ==
  /\ pc = "search_lo" /\ Narrowed
  /\ band' = [band EXCEPT !.lo = hi] /\ pc' = "hi"
  /\ UNCHANGED <<config, lo, hi, crossover>>

Clamp ==
  /\ pc = "hi" /\ ~PastHi(MaxTokens)
  /\ band' = [band EXCEPT !.hi = MaxTokens, !.clamped = TRUE] /\ pc' = "done"
  /\ UNCHANGED <<config, lo, hi, crossover>>

SearchHi ==
  /\ pc = "hi" /\ PastHi(MaxTokens)
  /\ Search(crossover, MaxTokens, "search_hi")
  /\ UNCHANGED <<config, crossover, band>>

(* The last length that is not past the ratio. *)
UpperEdge(first) == first - 1

FoundHi ==
  /\ pc = "search_hi" /\ Narrowed
  /\ band' = [band EXCEPT !.hi = UpperEdge(hi)] /\ pc' = "done"
  /\ UNCHANGED <<config, lo, hi, crossover>>

Next ==
  \/ Bisect
  \/ NoCrossover \/ WinsFromTheStart \/ SearchCrossover \/ FoundCrossover
  \/ NearFromTheStart \/ SearchLo \/ FoundLo
  \/ Clamp \/ SearchHi \/ FoundHi

Spec == Init /\ [][Next]_vars

-----------------------------------------------------------------------------
Lengths == 1 .. MaxTokens

TypeOK ==
  /\ config \in Config
  /\ pc \in {"crossover", "search_crossover", "lo", "search_lo", "hi", "search_hi", "done"}
  /\ {lo, hi, crossover} \subseteq 0 .. MaxTokens
  /\ band \in [lo : 0 .. MaxTokens, hi : 0 .. MaxTokens, clamped : BOOLEAN]

(***************************************************************************)
(* crossover_tokens() returns the smallest prefix length at which moving   *)
(* is no dearer, whatever the signs of the fitted coefficients: with wins  *)
(* at the end and none at the start the predicate changes once.            *)
(***************************************************************************)
CrossoverIsSmallest ==
  crossover # None =>
    Wins(crossover) /\ \A n \in Lengths : n < crossover => ~Wins(n)

(***************************************************************************)
(* The lower edge is the smallest length from which moving is at most      *)
(* ratio times as dear, and it is not beyond the crossover.                *)
(***************************************************************************)
LowerEdgeIsSmallest ==
  band.lo # None =>
    /\ band.lo <= crossover
    /\ NearLo(band.lo) /\ \A n \in Lengths : n < band.lo => ~NearLo(n)

(***************************************************************************)
(* From the crossover to the upper edge recomputing is at most ratio times *)
(* as dear, and the edge is the last such length, provided it has not      *)
(* passed the ratio at the crossover already and the fit is not concave.   *)
(***************************************************************************)
UpperEdgeIsLast ==
  band.hi # None /\ ~PastHi(crossover) /\ config.c >= 0 =>
    /\ \A n \in crossover .. band.hi : ~PastHi(n)
    /\ band.clamped <=> ~\E n \in crossover .. MaxTokens : PastHi(n)
    /\ ~band.clamped => \A n \in band.hi + 1 .. MaxTokens : PastHi(n)

(***************************************************************************)
(* costmodel.py:135-140: the band is "the range where the two costs are    *)
(* within ratio of each other", which assumes the ratio monotone, "which   *)
(* holds for the linear and quadratic forms this module emits".            *)
(***************************************************************************)
BandHasNoGap ==
  pc = "done" /\ crossover # None /\ ~PastHi(crossover) =>
    \A n \in band.lo .. band.hi : NearLo(n) /\ ~PastHi(n)
================================================================================
