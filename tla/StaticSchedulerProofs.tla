------------------------- MODULE StaticSchedulerProofs -------------------------
(***************************************************************************)
(* Safety of the static batching baseline.  The admission hook moves pc    *)
(* and nothing else, so SchedInv and OrderInv of SchedulerProofs are kept  *)
(* as they stand.                                                          *)
(***************************************************************************)
EXTENDS StaticScheduler, SchedulerProofs

LEMMA StaticBeginsKeepsInv ==
  ASSUME SchedInv, StaticStepBegins
  PROVE  SchedInv'
<1>1. /\ UNCHANGED <<kv_vars, waiting, running, seqs, seq_counter, work, tokens>>
      /\ pc' \in {"idle", "admit", "forward"} /\ ~Growing
  BY DEF StaticStepBegins, Growing
<1>2. work' \in Seq(ReqId) /\ IsInjective(work')
  BY <1>1 DEF SchedInv, TypeOK
<1> QED
  BY <1>1, <1>2, MoveOnKeepsInv

LEMMA StaticBeginsKeepsOrder ==
  ASSUME SchedInv, OrderInv, StaticStepBegins
  PROVE  OrderInv'
<1>1. /\ UNCHANGED <<waiting, running, seqs, seq_counter>> /\ work' = work
      /\ pc' \in {"idle", "admit", "forward"}
  BY DEF StaticStepBegins
<1> QED
  BY <1>1, MovesKeepOrder DEF Serving, Growing

(* Apart from the hook, every step of the baseline is a step of Scheduler. *)
LEMMA StaticStepCases ==
  ASSUME [StaticNext]_static_vars
  PROVE  StaticStepBegins \/ [Next]_vars
<1>1. CASE UNCHANGED static_vars
  BY <1>1 DEF static_vars
<1>2. CASE SetFlush \/ TimePasses
  BY <1>2 DEF SetFlush, TimePasses
<1>3. CASE StaticStep
  BY <1>3 DEF StaticStep, Next, Step
<1>4. CASE StaticSubmit
  BY <1>4 DEF StaticSubmit, Next
<1> QED
  BY <1>1, <1>2, <1>3, <1>4 DEF StaticNext

LEMMA StaticInvHolds == StaticSpec => []SchedInv /\ []OrderInv
<1>1. StaticInit => SchedInv /\ OrderInv
  BY InitInv, InitOrder DEF StaticInit
<1>2. SchedInv /\ OrderInv /\ [StaticNext]_static_vars => SchedInv' /\ OrderInv'
  BY StaticStepCases, StaticBeginsKeepsInv, NextKeepsInv, StaticBeginsKeepsOrder,
     NextKeepsOrder
<1> QED
  BY <1>1, <1>2, PTL DEF StaticSpec

-----------------------------------------------------------------------------
(***************************************************************************)
(* What is proved of continuous batching holds of the static baseline:     *)
(* no block lost, no raise, a KV slot for every token, each token streamed *)
(* once.  The comparison of the two isolates the policy.                   *)
(***************************************************************************)
THEOREM StaticKeepsSafety ==
  StaticSpec => [](BlockConservation /\ NoCallRaises /\ SlotForEveryToken /\ StreamedOnce)
<1>1. SchedInv => BlockConservation /\ NoCallRaises /\ SlotForEveryToken /\ StreamedOnce
  BY InvNeverRaises, InvGivesSlots DEF SchedInv
<1> QED
  BY <1>1, StaticInvHolds, PTL

(***************************************************************************)
(* The current batch runs to completion first (static.py:25): no request   *)
(* is ever admitted beside one that is already decoding.                   *)
(***************************************************************************)
THEOREM BatchesDoNotMix == StaticSpec => []BatchAdmittedTogether
<1>1. StaticInit => BatchAdmittedTogether
  BY DEF StaticInit, Init, BatchAdmittedTogether
<1>2. SchedInv /\ BatchAdmittedTogether /\ [StaticNext]_static_vars => BatchAdmittedTogether'
  <2> SUFFICES ASSUME SchedInv, BatchAdmittedTogether, [StaticNext]_static_vars,
                      pc' = "admit", NEW q \in Running'
               PROVE  seqs'[q].status = "PREFILL"
    BY DEF BatchAdmittedTogether
  <2>1. CASE StaticStepBegins
    <3>1. running = << >> /\ running' = running
      BY <2>1 DEF StaticStepBegins, AdmissionOpen
    <3> QED
      BY <3>1 DEF Running, ToSet
  <2>2. CASE UNCHANGED vars
    BY <2>2 DEF vars, sched_vars, BatchAdmittedTogether, Running
  <2>3. CASE AdmitHead
    <3> DEFINE r == Head(waiting)
    <3>1. /\ running' = Append(running, r) /\ pc = "admit" /\ waiting # << >>
          /\ seqs' = [seqs EXCEPT ![r].status = "PREFILL"]
      BY <2>3 DEF AdmitHead, CanAdmit, SetStatus
    <3>2. /\ r \in ReqId /\ r \in Waiting /\ running \in Seq(ReqId) /\ IsInjective(running)
          /\ seqs \in [ReqId -> SeqRecord]
      BY <3>1, TailDistinct DEF Waiting, SchedInv, TypeOK
    <3> HIDE DEF r
    <3>3. r \notin Running
      BY <3>2, QueuesDisjoint
    <3>4. Running' = Running \cup {r}
      BY <3>1, <3>2, <3>3, AppendDistinct DEF Running
    <3>5. q \in ReqId
      BY <3>2, <3>4, QueuesDisjoint
    <3>6. CASE q = r
      BY <3>1, <3>2, <3>6 DEF SeqRecord
    <3>7. CASE q # r
      BY <3>1, <3>2, <3>4, <3>5, <3>7 DEF BatchAdmittedTogether, SeqRecord
    <3> QED
      BY <3>6, <3>7
  <2>4. StaticStepBegins \/ AdmitHead \/ UNCHANGED vars
    BY DEF StaticNext, StaticStep, StaticSubmit, SetFlush, TimePasses, static_vars, vars,
           sched_vars, Submit, CloseAdmission, Forward, SkipPreempted, Sample, SampleLast,
           SampleNext, LoopOn, Grow, MakeRoom, Retry, StepEnds
  <2> QED
    BY <2>1, <2>2, <2>3, <2>4
<1> QED
  BY <1>1, <1>2, StaticInvHolds, PTL DEF StaticSpec

(***************************************************************************)
(* Static batching is as fair as continuous batching: first tokens come in *)
(* submission order, no request is preempted before its first token, and   *)
(* the head of the queue fits whenever nothing runs.                       *)
(***************************************************************************)
THEOREM StaticKeepsOrder ==
  StaticSpec => [](StrictFifo /\ FreshNotPreempted /\ HeadFitsEmptyCache)
<1>1. SchedInv /\ OrderInv => StrictFifo /\ FreshNotPreempted /\ HeadFitsEmptyCache
  BY FifoByPairs, HeadAlwaysFits DEF OrderInv
<1> QED
  BY <1>1, StaticInvHolds, PTL

(***************************************************************************)
(* The callbacks of the baseline are those of RequestLifecycle too: what   *)
(* is shown of the engine on top of it does not depend on the policy.      *)
(***************************************************************************)
THEOREM StaticImplementsLifecycle == StaticSpec => LifecycleSafety
<1>1. StaticInit => Life!LifeInit
  BY InitIsLifeInit DEF StaticInit
<1>2. SchedInv /\ OrderInv /\ SchedInv' /\ [StaticNext]_static_vars
        => [Life!LifeNext]_(Life!life_vars)
  <2> SUFFICES ASSUME SchedInv, OrderInv, SchedInv', [StaticNext]_static_vars
               PROVE  [Life!LifeNext]_(Life!life_vars)
    OBVIOUS
  <2>1. CASE StaticStepBegins
    BY <2>1, QuietStepsAreHidden DEF StaticStepBegins
  <2>2. CASE [Next]_vars
    BY <2>2, NextIsLifeStep
  <2> QED
    BY <2>1, <2>2, StaticStepCases
<1> QED
  BY <1>1, <1>2, StaticInvHolds, PTL DEF StaticSpec, LifecycleSafety, Life!LifeSafety
================================================================================
