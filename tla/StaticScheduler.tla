---------------------------- MODULE StaticScheduler ----------------------------
(***************************************************************************)
(* The static batching baseline of miniserve/bench/static.py: Scheduler    *)
(* with another _admission_open().  The hook decides at the head of step() *)
(* whether the admission loop runs at all; the rest of step() is as it is, *)
(* preemption included.                                                    *)
(*                                                                         *)
(* flush is a plain store from the driver thread, so it may come between   *)
(* any two actions.  The clock is seen through the one question asked of   *)
(* it, whether the head has waited max_wait_s: arrival times follow seq_no *)
(* and time does not run back, so "expired" counts the submissions, oldest *)
(* first, that have.                                                       *)
(***************************************************************************)
EXTENDS Scheduler

VARIABLES max_wait_s,    \* whether the driver set it when it made the scheduler
          flush, expired

static_vars == <<vars, max_wait_s, flush, expired>>

StaticInit == Init /\ max_wait_s \in BOOLEAN /\ flush = FALSE /\ expired = 0

-----------------------------------------------------------------------------
(***************************************************************************)
(* Mutated forms, each one the bug a definition below is checked against.  *)
(***************************************************************************)
BugJoinsRunningBatch == waiting # << >> /\ (Len(waiting) >= MaxBatch \/ flush)
BugFlushNeedsFullBatch == running = << >> /\ Len(waiting) >= MaxBatch
BugFlushIsRequired == running = << >> /\ waiting # << >> /\ flush
BugWaitOfYoungest == max_wait_s /\ seqs[Last(waiting)].seq_no + 1 < expired

(* clock() - waiting[0].arrival_time >= max_wait_s *)
WaitExpired == max_wait_s /\ seqs[Head(waiting)].seq_no < expired

AdmissionOpen ==
  /\ running = << >>
  /\ waiting # << >>
  /\ Len(waiting) >= MaxBatch \/ flush \/ WaitExpired

StaticStepBegins ==
  /\ pc = "idle"
  /\ pc' = IF AdmissionOpen THEN "admit"
           ELSE IF running = << >> THEN "idle" ELSE "forward"
  /\ UNCHANGED <<kv_vars, waiting, running, seqs, seq_counter, work, tokens>>

SetFlush == ~flush /\ flush' = TRUE /\ UNCHANGED <<vars, max_wait_s, expired>>

TimePasses ==
  /\ max_wait_s /\ expired < seq_counter
  /\ expired' = expired + 1
  /\ UNCHANGED <<vars, max_wait_s, flush>>

StaticStep ==
  \/ StaticStepBegins \/ AdmitHead \/ CloseAdmission \/ Forward
  \/ \E r \in ReqId : SkipPreempted(r) \/ Sample(r)
  \/ Grow \/ MakeRoom \/ Retry \/ StepEnds

StaticSubmit == \E r \in ReqId, p \in PromptLens, m \in TokenLimits : Submit(r, p, m)

StaticNext ==
  \/ (StaticStep \/ StaticSubmit) /\ UNCHANGED <<max_wait_s, flush, expired>>
  \/ SetFlush
  \/ TimePasses

StaticSpec == StaticInit /\ [][StaticNext]_static_vars

(***************************************************************************)
(* step() goes on while a request is live, and time passes.  Nobody has to *)
(* set flush.                                                              *)
(***************************************************************************)
StaticFairSpec ==
  /\ StaticSpec
  /\ WF_static_vars(StaticStep /\ UNCHANGED <<max_wait_s, flush, expired>>)
  /\ WF_static_vars(TimePasses)

-----------------------------------------------------------------------------
(***************************************************************************)
(* "The current batch runs to completion first" (static.py:26): a request  *)
(* is only ever admitted beside others admitted in the same step, never    *)
(* beside one that is decoding, even when preemption has made the batch    *)
(* smaller than max_batch.                                                 *)
(***************************************************************************)
BatchAdmittedTogether ==
  pc = "admit" => \A r \in Running : seqs[r].status = "PREFILL"

(***************************************************************************)
(* "So partial batches drain instead of waiting forever" (static.py:12)    *)
(* and "so low arrival rates do not stall forever" (static.py:20-21): once *)
(* flush is set, or with the partial-batch timer, every live request is    *)
(* finished, those included that were preempted or come after flush.       *)
(***************************************************************************)
PartialBatchesDrain ==
  \A r \in ReqId :
    (flush \/ max_wait_s) /\ r \in Live ~> seqs[r].status = "FINISHED"

(***************************************************************************)
(* Without flush and timer only an unfilled batch may stall: a queue as    *)
(* long as the batch is always served.                                     *)
(***************************************************************************)
FullBatchIsServed == Len(waiting) >= MaxBatch ~> running # << >>
================================================================================
