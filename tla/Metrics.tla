------------------------------- MODULE Metrics -------------------------------
(***************************************************************************)
(* miniserve/metrics.py as the scheduler feeds it, and the thread that     *)
(* reads it: GET /metrics of server.py.                                    *)
(*                                                                         *)
(* The actions of Scheduler.tla with what they record.  The log of steps   *)
(* is kept as its length, its sums and its last entry.  _finish() is cut   *)
(* once more, between the record it writes and the callback that lets the  *)
(* client see the FINISH: a scrape may fall between the two.               *)
(***************************************************************************)
EXTENDS Scheduler

VARIABLES preempted_count,    \* per request: preemptions in its lifetime
          preemptions_total,  \* Scheduler.preemptions_total
          lost,               \* KV entries of real tokens dropped by preemptions
          partition,          \* the work of the running step, as step() counts it
          steps,              \* metrics.steps: count, sums and last record
          requests,           \* metrics.requests
          retiring,           \* what is left of a _finish() call
          finished,           \* the on_finish calls: output lengths, in order
          scrape              \* the GET /metrics request of a client

metrics_vars == <<preempted_count, preemptions_total, lost, partition, steps, requests,
                  retiring, finished, scrape>>
all_vars == <<vars, metrics_vars>>

NoWork == [n_prefill |-> 0, n_decode |-> 0, fresh |-> 0, recompute |-> 0]

MetricsInit ==
  /\ Init
  /\ preempted_count = [r \in ReqId |-> 0]
  /\ preemptions_total = 0
  /\ lost = 0
  /\ partition = NoWork
  /\ steps = [total |-> 0, fresh |-> 0, recompute |-> 0, last |-> NoWork]
  /\ requests = << >>
  /\ retiring = << >>
  /\ finished = << >>
  /\ scrape = [at |-> "none"]

(* Tokens of all contents in a set of requests. *)
TotalLens(S) == SumFunctionOnSet([r \in ReqId |-> TotalLen(r)], S)

(***************************************************************************)
(* Mutated forms, each one the bug a definition below is checked against.  *)
(***************************************************************************)
BugFreshIfShortOutput(r) == seqs[r].outputs <= 1
BugForgetsCount(r) == preempted_count
BugFinishThenRecord == <<"on_finish", "record_request">>
BugStepsFirst == <<"steps_total", "preemptions_total", "requests_finished">>

-----------------------------------------------------------------------------
(* The scheduler's actions that record nothing. *)
Quiet ==
  /\ retiring = << >>
  /\ AdmitHead \/ CloseAdmission \/ Grow \/ Retry \/ \E r \in ReqId : SkipPreempted(r)
  /\ UNCHANGED metrics_vars

(* A new Sequence object: its preempted_count is 0. *)
MSubmit(r, p, m) ==
  /\ retiring = << >>
  /\ Submit(r, p, m)
  /\ preempted_count' = [preempted_count EXCEPT ![r] = 0]
  /\ UNCHANGED <<preemptions_total, lost, partition, steps, requests, retiring, finished, scrape>>

MStepBegins ==
  /\ retiring = << >>
  /\ StepBegins
  /\ UNCHANGED metrics_vars

Prefills == {r \in Running : seqs[r].status = "PREFILL"}
IsFresh(r) == preempted_count[r] = 0

(***************************************************************************)
(* "2. Partition this iteration's work": counted before the forward pass,  *)
(* recorded after the loop.                                                *)
(***************************************************************************)
MForward ==
  /\ Forward
  /\ partition' =
       [n_prefill |-> Cardinality(Prefills), n_decode |-> Cardinality(Running \ Prefills),
        fresh |-> TotalLens({r \in Prefills : IsFresh(r)}),
        recompute |-> TotalLens({r \in Prefills : ~IsFresh(r)})]
  /\ UNCHANGED <<preempted_count, preemptions_total, lost, steps, requests, retiring,
                 finished, scrape>>

MSampleNext(r, eos) ==
  /\ retiring = << >>
  /\ SampleNext(r, eos)
  /\ UNCHANGED metrics_vars

(* The last two statements of _finish(), in their order. *)
FinishOrder == <<"record_request", "on_finish">>

MSampleLast(r, eos) ==
  /\ retiring = << >>
  /\ SampleLast(r, eos)
  /\ retiring' = [i \in DOMAIN FinishOrder |-> [req |-> r, does |-> FinishOrder[i]]]
  /\ UNCHANGED <<preempted_count, preemptions_total, lost, partition, steps, requests,
                 finished, scrape>>

(* RequestRecord(...) of a Sequence. *)
Record(r) == [req |-> r, prompt_len |-> seqs[r].prompt, output_len |-> seqs[r].outputs,
              preempted_count |-> preempted_count[r]]

Retire ==
  /\ retiring # << >>
  /\ LET r == Head(retiring).req
     IN  IF Head(retiring).does = "record_request"
         THEN requests' = Append(requests, Record(r)) /\ UNCHANGED finished
         ELSE finished' = Append(finished, seqs[r].outputs) /\ UNCHANGED requests
  /\ retiring' = Tail(retiring)
  /\ UNCHANGED <<vars, preempted_count, preemptions_total, lost, partition, steps, scrape>>

Counted(r) == [preempted_count EXCEPT ![r] = @ + 1]

(***************************************************************************)
(* _preempt().  The forward pass of this step wrote the KV of all tokens   *)
(* there were at the time, so a victim sampled since then has one token    *)
(* more than it loses.                                                     *)
(***************************************************************************)
MMakeRoom ==
  /\ MakeRoom
  /\ preempted_count' = Counted(Victim)
  /\ preemptions_total' = preemptions_total + 1
  /\ lost' = lost + TotalLen(Victim) - IF Victim \in ToSet(Tail(work)) THEN 0 ELSE 1
  /\ UNCHANGED <<partition, steps, requests, retiring, finished, scrape>>

(* metrics.record_step(); a step with nothing to run returned before it. *)
MStepEnds ==
  /\ retiring = << >>
  /\ StepEnds
  /\ steps' = [total |-> steps.total + 1, fresh |-> steps.fresh + partition.fresh,
               recompute |-> steps.recompute + partition.recompute, last |-> partition]
  /\ partition' = NoWork
  /\ UNCHANGED <<preempted_count, preemptions_total, lost, requests, retiring, finished, scrape>>

(***************************************************************************)
(* All of a step but its begin.  No EOS is sampled here (eos_id = -1 in    *)
(* the probes; elsewhere it retires a request as a smaller limit would).   *)
(***************************************************************************)
StepGoesOn ==
  \/ Quiet \/ MForward \/ Retire \/ MMakeRoom \/ MStepEnds
  \/ \E r \in ReqId : MSampleNext(r, FALSE) \/ MSampleLast(r, FALSE)

-----------------------------------------------------------------------------
(***************************************************************************)
(* do_GET() of /metrics in a handler thread: reads of one field each, in   *)
(* the order of the dict display, between any two statements of a step.    *)
(* (num_running, num_waiting and the KV use come first: three more single  *)
(* reads, unrelated to these.)                                             *)
(***************************************************************************)
ScrapeOrder == <<"preemptions_total", "requests_finished", "steps_total">>

Field(f) == CASE f = "preemptions_total" -> preemptions_total
              [] f = "requests_finished" -> Len(requests)
              [] f = "steps_total" -> steps.total

(* The client sends the request, having seen some requests' FINISH. *)
ScrapeBegins ==
  /\ scrape.at = "none"
  /\ scrape' = [at |-> "reading", seen |-> finished, got |-> << >>]
  /\ UNCHANGED <<vars, preempted_count, preemptions_total, lost, partition, steps, requests,
                 retiring, finished>>

ScrapeReads ==
  /\ scrape.at = "reading"
  /\ IF Len(scrape.got) < Len(ScrapeOrder)
     THEN scrape' = [scrape EXCEPT !.got = Append(@, Field(ScrapeOrder[Len(@) + 1]))]
     ELSE scrape' = [at |-> "none"]
  /\ UNCHANGED <<vars, preempted_count, preemptions_total, lost, partition, steps, requests,
                 retiring, finished>>

-----------------------------------------------------------------------------
(***************************************************************************)
(* "Exactly one record per request LIFETIME": whatever is neither waiting  *)
(* nor running has its record, with the tokens that were streamed to it;   *)
(* preemptions make no records of their own, but every one of them is in   *)
(* the preempted_count of one record or one live request.                  *)
(***************************************************************************)
RecordsAccount ==
  retiring = << >> =>
    /\ Len(requests) = seq_counter - Cardinality(Live)
    /\ Len(finished) = Len(requests)
    /\ \A i \in DOMAIN finished : requests[i].output_len = finished[i]
    /\ preemptions_total =
         SumFunction([i \in DOMAIN requests |-> requests[i].preempted_count])
           + SumFunctionOnSet(preempted_count, Live)

(***************************************************************************)
(* The fresh/recompute split the cost model is built on.  Over any whole   *)
(* number of steps the fresh tokens are the prompts that were ever         *)
(* admitted, each counted once, whatever was preempted in between; and the *)
(* recomputed tokens are those whose KV a preemption threw away, plus at   *)
(* most one token per preemption (the one just sampled, never written).    *)
(***************************************************************************)
PrefillTokensAccounted ==
  pc = "idle" =>
    LET admitted == {r \in Live : seqs[r].outputs > 0 \/ preempted_count[r] > 0}
        resuming == {r \in Waiting : preempted_count[r] > 0}
        owed == steps.recompute + TotalLens(resuming)
    IN  /\ steps.fresh = SumFunction([i \in DOMAIN requests |-> requests[i].prompt_len])
                           + SumFunctionOnSet([r \in ReqId |-> seqs[r].prompt], admitted)
        /\ lost <= owed /\ owed <= lost + preemptions_total

(***************************************************************************)
(* What a client may conclude from GET /metrics, read without a lock: the  *)
(* requests whose FINISH it has seen are counted as finished, and so are   *)
(* the steps that made their tokens, but for the one still running; and    *)
(* there are never more finished requests than the steps reported, and the *)
(* running one, could have retired.                                        *)
(***************************************************************************)
ScrapeCoversFinished ==
  scrape.at = "reading" /\ Len(scrape.got) = 3 =>
    LET got(f) == scrape.got[CHOOSE i \in DOMAIN ScrapeOrder : ScrapeOrder[i] = f]
    IN  /\ got("requests_finished") >= Len(scrape.seen)
        /\ \A i \in DOMAIN scrape.seen : got("steps_total") >= scrape.seen[i] - 1
        /\ got("requests_finished") <= MaxBatch * (got("steps_total") + 1)
=============================================================================
