---------------------------- MODULE MetricsProofs ----------------------------
(***************************************************************************)
(* The accounts of miniserve/metrics.py balance, for any number of         *)
(* requests, any cache and any batch size, whoever drives the scheduler.   *)
(*                                                                         *)
(* The properties of Metrics.tla speak of the points between two           *)
(* _finish() calls or of a finished scrape; MetricsInv extends them to all *)
(* points of a step, and with the invariants of the scheduler (SchedInv,   *)
(* OrderInv) it is inductive.  CallerSpec is a caller who may do anything  *)
(* between two steps; the drivers of Probes.tla are such callers.          *)
(***************************************************************************)
EXTENDS Probes, SchedulerProofs

(* The request whose _finish() has not written its record yet. *)
Unrecorded ==
  IF retiring # << >> /\ Head(retiring).does = "record_request"
  THEN {Head(retiring).req} ELSE {}

Unaccounted == Live \cup Unrecorded

(* Its record is written, its on_finish call still to come. *)
Calling == retiring # << >> /\ Head(retiring).does = "on_finish"

(* What a _finish() call has to do, and the one that is being done. *)
Calls(r) == [i \in DOMAIN FinishOrder |-> [req |-> r, does |-> FinishOrder[i]]]

RetiresOne ==
  retiring # << >> =>
    /\ pc = "loop"
    /\ \E r \in ReqId : /\ r \notin Live /\ seqs[r].outputs > 0
                        /\ retiring = Calls(r) \/ retiring = Tail(Calls(r))

StepRecord == [n_prefill : Int, n_decode : Int, fresh : Int, recompute : Int]

RequestRecord == [req : ReqId, prompt_len : Nat, output_len : Nat, preempted_count : Nat]

MetricsTypes ==
  /\ preempted_count \in [ReqId -> Nat]
  /\ preemptions_total \in Nat /\ lost \in Int
  /\ partition \in StepRecord
  /\ steps \in [total : Nat, fresh : Int, recompute : Int, last : StepRecord]
  /\ requests \in Seq(RequestRecord)
  /\ finished \in Seq(Nat)

(* The scheduler's flag and the count in the request's record agree. *)
CountsAgree == \A r \in ReqId : seqs[r].preempted <=> preempted_count[r] > 0

(* Sums over the request records. *)
PreemptionsOf(s) == SumFunction([i \in DOMAIN s |-> s[i].preempted_count])
PromptsOf(s) == SumFunction([i \in DOMAIN s |-> s[i].prompt_len])

(* RecordsAccount at every point. *)
Accounts ==
  /\ Len(requests) = seq_counter - Cardinality(Unaccounted)
  /\ Len(finished) = IF Calling THEN Len(requests) - 1 ELSE Len(requests)
  /\ \A i \in 1 .. Len(finished) : requests[i].output_len = finished[i]
  /\ Calling => requests[Len(requests)].output_len = seqs[Head(retiring).req].outputs
  /\ preemptions_total
       = PreemptionsOf(requests) + SumFunctionOnSet(preempted_count, Unaccounted)

(* Who is in prefill, and why. *)
PrefillsKnown ==
  /\ \A r \in Live : seqs[r].outputs > 0 /\ seqs[r].status # "DECODE" => seqs[r].preempted
  /\ Serving => \A r \in Running : seqs[r].status = "PREFILL" => r \in ToSet(work)
  /\ pc = "idle" => \A r \in Running : seqs[r].status # "PREFILL"
  /\ Growing => seqs[Head(work)].status = "DECODE"

(* Those whose prompt a forward pass has seen. *)
Forwarded ==
  {r \in Unaccounted : seqs[r].outputs > 0 \/ (Serving /\ r \in Running)}

PromptLen == [r \in ReqId |-> seqs[r].prompt]

(* PrefillTokensAccounted at every point, first part: each forwarded prompt *)
(* is counted once, in the steps before or in the running one.             *)
FreshAccounted ==
  /\ ~Serving => partition = NoWork
  /\ steps.fresh + partition.fresh
       = PromptsOf(requests) + SumFunctionOnSet(PromptLen, Forwarded)

(* Those that will be recomputed by a forward pass to come. *)
Resuming ==
  {r \in Live : /\ preempted_count[r] > 0
                /\ seqs[r].status = "WAITING" \/ (~Serving /\ seqs[r].status = "PREFILL")}

(* Second part: the tokens preemptions dropped are recomputed or owed, and *)
(* with each preemption at most one more, the token just sampled.          *)
RecomputeOwed == steps.recompute + partition.recompute + TotalLens(Resuming)

RecomputeAccounted ==
  lost <= RecomputeOwed /\ RecomputeOwed <= lost + preemptions_total

(* Those whose token of this step is still to be sampled. *)
ToCome ==
  IF pc = "loop" THEN ToSet(work) ELSE IF Growing THEN ToSet(Tail(work)) ELSE {}

(* A step samples at most one token for each request. *)
OutputsInSteps ==
  /\ \A r \in ReqId : seqs[r].outputs <= steps.total + 1
  /\ \A r \in Live : ~Serving \/ r \in ToCome => seqs[r].outputs <= steps.total
  /\ \A i \in 1 .. Len(finished) : finished[i] <= steps.total + 1

(* ... and retires at most the batch. *)
RetiredInSteps ==
  Len(requests) + Cardinality(Unrecorded) + (IF Serving THEN Len(work) ELSE 0)
    <= MaxBatch * (steps.total + (IF Serving THEN 1 ELSE 0))

(* The reads a scrape has made bound each other and what came before it. *)
ScrapeAgrees ==
  \/ scrape = [at |-> "none"]
  \/ /\ scrape \in [at : {"reading"}, seen : Seq(Nat), got : Seq(Nat)]
     /\ Len(scrape.got) <= 3 /\ Len(scrape.seen) <= Len(finished)
     /\ \A i \in 1 .. Len(scrape.seen) : scrape.seen[i] = finished[i]
     /\ Len(scrape.got) >= 2 =>
          scrape.got[2] >= Len(scrape.seen) /\ scrape.got[2] <= Len(requests)
     /\ Len(scrape.got) = 3 =>
          /\ \A i \in 1 .. Len(scrape.seen) : scrape.got[3] >= scrape.seen[i] - 1
          /\ scrape.got[2] <= MaxBatch * (scrape.got[3] + 1)

MetricsInv ==
  /\ MetricsTypes /\ RetiresOne /\ CountsAgree /\ Accounts
  /\ PrefillsKnown /\ FreshAccounted /\ RecomputeAccounted
  /\ OutputsInSteps /\ RetiredInSteps /\ ScrapeAgrees

-----------------------------------------------------------------------------
LEMMA FiniteToSet ==
  ASSUME NEW S, NEW s \in Seq(S)
  PROVE  IsFiniteSet(ToSet(s))
<1>1. IsFiniteSet(1 .. Len(s))
  BY FS_Interval
<1>2. s \in Surjection(1 .. Len(s), ToSet(s))
  BY InToSet DEF Surjection
<1> QED
  BY <1>1, <1>2, FS_Surjection

LEMMA CallsShape ==
  ASSUME NEW r
  PROVE  /\ Calls(r) # << >> /\ Head(Calls(r)) = [req |-> r, does |-> "record_request"]
         /\ Tail(Calls(r)) # << >>
         /\ Head(Tail(Calls(r))) = [req |-> r, does |-> "on_finish"]
         /\ Tail(Tail(Calls(r))) = << >>
<1>1. Calls(r) = <<[req |-> r, does |-> "record_request"], [req |-> r, does |-> "on_finish"]>>
  BY DEF Calls, FinishOrder
<1> QED
  BY <1>1

(* Between two _finish() calls nothing is owed. *)
LEMMA NothingOwed ==
  ASSUME retiring = << >>
  PROVE  Unrecorded = {} /\ Unaccounted = Live /\ ~Calling
  BY DEF Unrecorded, Unaccounted, Calling

LEMMA UnaccountedFinite ==
  ASSUME SchedInv, RetiresOne
  PROVE  /\ IsFiniteSet(Live) /\ Live \subseteq ReqId
         /\ IsFiniteSet(Unaccounted) /\ Unaccounted \subseteq ReqId
         /\ Unrecorded \cap Live = {}
         /\ Cardinality(Live) \in Nat /\ Cardinality(Unaccounted) \in Nat
<1>1. IsFiniteSet(Live) /\ Live \subseteq ReqId
  <2>1. IsFiniteSet(Waiting) /\ IsFiniteSet(Running)
    BY FiniteToSet DEF SchedInv, TypeOK, Waiting, Running
  <2> QED
    BY <2>1, FS_Union, LiveAreIds DEF Live
<1>2. Unrecorded = {} \/ \E r \in ReqId : r \notin Live /\ Unrecorded = {r}
  BY CallsShape DEF RetiresOne, Unrecorded
<1>3. IsFiniteSet(Unaccounted) /\ Unaccounted \subseteq ReqId
  BY <1>1, <1>2, FS_AddElement, FS_EmptySet DEF Unaccounted
<1> QED
  BY <1>1, <1>2, <1>3, FS_CardinalityType

(* What the scheduler's actions do to what the metrics count. *)
SameFields(q) ==
  /\ seqs'[q].outputs = seqs[q].outputs /\ seqs'[q].prompt = seqs[q].prompt
  /\ seqs'[q].preempted = seqs[q].preempted

LEMMA SubmitEffect ==
  ASSUME SchedInv, NEW r \in ReqId, NEW p \in Int, NEW m \in Int, Submit(r, p, m)
  PROVE  /\ r \notin Live /\ ~Serving /\ ~Serving' /\ pc = "idle" /\ pc' = "idle"
         /\ Live' = Live \cup {r} /\ Running' = Running /\ work' = work
         /\ running' = running
         /\ \A q \in ReqId : q # r => seqs'[q] = seqs[q]
         /\ seqs'[r].outputs = 0 /\ seqs'[r].prompt \in Nat /\ seqs'[r].preempted = FALSE
         /\ seqs'[r].status = "WAITING"
         /\ seq_counter' = seq_counter + 1
<1>1. /\ pc = "idle" /\ pc' = "idle" /\ r \notin Live /\ p \in Nat
      /\ seqs' = [seqs EXCEPT ![r] = [Absent EXCEPT !.prompt = p, !.max_tokens = m,
                                        !.seq_no = seq_counter, !.status = "WAITING"]]
      /\ waiting' = Append(waiting, r) /\ running' = running /\ work' = work
      /\ seq_counter' = seq_counter + 1
  BY DEF Submit, Refused
<1>2. seqs'[r] = [Absent EXCEPT !.prompt = p, !.max_tokens = m,
                                !.seq_no = seq_counter, !.status = "WAITING"]
      /\ \A q \in ReqId : q # r => seqs'[q] = seqs[q]
  BY <1>1 DEF SchedInv, TypeOK
<1>3. /\ seqs'[r].outputs = 0 /\ seqs'[r].prompt = p /\ seqs'[r].preempted = FALSE
      /\ seqs'[r].status = "WAITING"
  BY <1>2 DEF Absent
<1>4. Waiting' = Waiting \cup {r} /\ Running' = Running
  BY <1>1, AppendDistinct DEF SchedInv, TypeOK, Waiting, Running, Live
<1> QED
  BY <1>1, <1>2, <1>3, <1>4 DEF Live, Serving, Growing

LEMMA AdmitEffect ==
  ASSUME SchedInv, AdmitHead
  PROVE  \E r \in Waiting :
           /\ ~Serving /\ ~Serving' /\ pc = "admit" /\ pc' = "admit"
           /\ Live' = Live /\ Running' = Running \cup {r} /\ work' = work
           /\ \A q \in ReqId : SameFields(q) /\ (q # r => seqs'[q] = seqs[q])
           /\ seqs'[r].status = "PREFILL" /\ seq_counter' = seq_counter
<1> DEFINE r == Head(waiting)
<1>1. /\ pc = "admit" /\ pc' = pc /\ waiting # << >> /\ running' = Append(running, r)
      /\ seqs' = [seqs EXCEPT ![r].status = "PREFILL"] /\ waiting' = Tail(waiting)
      /\ work' = work /\ seq_counter' = seq_counter
  BY DEF AdmitHead, CanAdmit, SetStatus
<1>2. r \in Waiting /\ r \in ReqId /\ Waiting' = Waiting \ {r}
  BY <1>1, TailDistinct DEF SchedInv, TypeOK, Waiting
<1>3. Running' = Running \cup {r}
  BY <1>1, <1>2, QueuesDisjoint, AppendDistinct DEF SchedInv, TypeOK, Running
<1> HIDE DEF r
<1>4. /\ seqs'[r] = [seqs[r] EXCEPT !.status = "PREFILL"]
      /\ \A q \in ReqId : q # r => seqs'[q] = seqs[q]
  BY <1>1, <1>2 DEF SchedInv, TypeOK
<1>5. SameFields(r) /\ seqs'[r].status = "PREFILL"
  BY <1>2, <1>4, LiveAreIds DEF SameFields, SeqRecord
<1>6. \A q \in ReqId : SameFields(q) /\ (q # r => seqs'[q] = seqs[q])
  BY <1>4, <1>5 DEF SameFields
<1>7. Live' = Live
  BY <1>2, <1>3 DEF Live
<1> QED
  BY <1>1, <1>2, <1>3, <1>5, <1>6, <1>7 DEF Serving, Growing

LEMMA ForwardEffect ==
  ASSUME SchedInv, Forward
  PROVE  /\ ~Serving /\ Serving' /\ ~Growing' /\ pc = "forward" /\ pc' = "loop"
         /\ Live' = Live /\ Running' = Running /\ seqs' = seqs /\ seq_counter' = seq_counter
         /\ ToSet(work') = Running /\ Len(work') = Len(running)
<1>1. PICK w \in [1 .. Len(running) -> Running] : PrefillThenDecode(w) /\ work' = w
  BY DEF Forward
<1>2. ToSet(w) = Running
  BY <1>1, SnapshotIsWhole DEF PrefillThenDecode
<1>3. Len(w) = Len(running)
  <2>1. Len(running) \in Nat
    BY DEF SchedInv, TypeOK
  <2>2. w \in Seq(Running)
    BY <2>1, SeqDef
  <2> QED
    BY <2>1, <2>2, LenProperties
<1> QED
  BY <1>1, <1>2, <1>3 DEF Forward, Serving, Growing, Live, Waiting, Running

LEMMA SampleNextEffect ==
  ASSUME SchedInv, NEW r \in ReqId, NEW eos \in BOOLEAN, SampleNext(r, eos)
  PROVE  /\ r \in Running /\ r \notin Waiting /\ pc = "loop" /\ Serving /\ Serving'
         /\ work # << >> /\ r = Head(work)
         /\ Live' = Live /\ Running' = Running /\ seq_counter' = seq_counter
         /\ \A q \in ReqId : q # r => seqs'[q] = seqs[q]
         /\ seqs'[r].outputs = seqs[r].outputs + 1 /\ seqs'[r].prompt = seqs[r].prompt
         /\ seqs'[r].preempted = seqs[r].preempted /\ seqs'[r].status = "DECODE"
         /\ \/ pc' = "grow" /\ work' = work
            \/ pc' = "loop" /\ work' = Tail(work)
<1> DEFINE new == Sampled(seqs[r])
<1>1. /\ AtHead(r) /\ seqs[r].status # "WAITING"
      /\ seqs' = [seqs EXCEPT ![r] = new] /\ running' = running
      /\ waiting' = waiting /\ seq_counter' = seq_counter
      /\ pc = "loop" /\ work # << >> /\ r = Head(work)
      /\ \/ pc' = "grow" /\ work' = work
         \/ pc' = "loop" /\ work' = Tail(work)
  BY DEF SampleNext, AtHead, LoopOn
<1>2. r \in Running /\ r \notin Waiting /\ seqs[r] \in SeqRecord
  BY <1>1, SampledRuns
<1>3. /\ new.outputs = seqs[r].outputs + 1 /\ new.prompt = seqs[r].prompt
      /\ new.preempted = seqs[r].preempted /\ new.status = "DECODE"
  BY <1>2 DEF SeqRecord, Sampled
<1> HIDE DEF new
<1>4. seqs'[r] = new /\ \A q \in ReqId : q # r => seqs'[q] = seqs[q]
  BY <1>1 DEF SchedInv, TypeOK
<1>5. Live' = Live /\ Running' = Running
  BY <1>1 DEF Live, Waiting, Running
<1> QED
  BY <1>1, <1>2, <1>3, <1>4, <1>5 DEF Serving, Growing

LEMMA SampleLastEffect ==
  ASSUME SchedInv, NEW r \in ReqId, NEW eos \in BOOLEAN, SampleLast(r, eos)
  PROVE  /\ r \in Running /\ r \notin Waiting /\ pc = "loop" /\ pc' = "loop"
         /\ Serving /\ Serving' /\ work # << >> /\ r = Head(work) /\ work' = Tail(work)
         /\ Live' = Live \ {r} /\ Running' = Running \ {r} /\ seq_counter' = seq_counter
         /\ \A q \in ReqId : q # r => seqs'[q] = seqs[q]
         /\ seqs'[r].outputs = seqs[r].outputs + 1 /\ seqs'[r].prompt = seqs[r].prompt
         /\ seqs'[r].preempted = seqs[r].preempted
<1> DEFINE new == [Sampled(seqs[r]) EXCEPT !.status = "FINISHED"]
<1>1. /\ AtHead(r) /\ seqs[r].status # "WAITING" /\ running' = RemoveFirst(running, r)
      /\ seqs' = [seqs EXCEPT ![r] = new]
      /\ waiting' = waiting /\ seq_counter' = seq_counter
      /\ pc = "loop" /\ pc' = "loop" /\ work # << >> /\ r = Head(work) /\ work' = Tail(work)
  BY DEF SampleLast, AtHead, LoopOn
<1>2. r \in Running /\ r \notin Waiting /\ seqs[r] \in SeqRecord
  BY <1>1, SampledRuns
<1>3. /\ new.outputs = seqs[r].outputs + 1 /\ new.prompt = seqs[r].prompt
      /\ new.preempted = seqs[r].preempted
  BY <1>2 DEF SeqRecord, Sampled
<1> HIDE DEF new
<1>4. seqs'[r] = new /\ \A q \in ReqId : q # r => seqs'[q] = seqs[q]
  BY <1>1 DEF SchedInv, TypeOK
<1>5. Running' = Running \ {r} /\ Waiting' = Waiting
  BY <1>1, <1>2, RemoveFirstDistinct DEF SchedInv, TypeOK, Running, Waiting
<1>6. Live' = Live \ {r}
  BY <1>2, <1>5 DEF Live
<1> QED
  BY <1>1, <1>2, <1>3, <1>4, <1>5, <1>6 DEF Serving

LEMMA MakeRoomEffect ==
  ASSUME SchedInv, OrderInv, MakeRoom
  PROVE  /\ Victim \in Running /\ Victim \in ReqId /\ Victim \notin Waiting
         /\ seqs[Victim].outputs > 0 /\ Serving /\ Serving' /\ Growing /\ work # << >>
         /\ Live' = Live /\ Running' = Running \ {Victim} /\ seq_counter' = seq_counter
         /\ \A q \in ReqId : /\ q # Victim => seqs'[q] = seqs[q]
                             /\ seqs'[q].outputs = seqs[q].outputs
                             /\ seqs'[q].prompt = seqs[q].prompt
         /\ seqs'[Victim].preempted = TRUE /\ seqs'[Victim].status = "WAITING"
         /\ \/ Victim = Head(work) /\ pc' = "loop" /\ work' = Tail(work)
            \/ Victim # Head(work) /\ pc' = "retry" /\ work' = work
<1> DEFINE v == Victim
<1>1. /\ pc = "make_room" /\ Growing /\ Serving
      /\ seqs' = [seqs EXCEPT ![v] = Preempted(seqs[v])]
      /\ running' = RemoveFirst(running, v) /\ waiting' = Cons(v, waiting)
      /\ seq_counter' = seq_counter
      /\ \/ v = Head(work) /\ pc' = "loop" /\ work' = Tail(work)
         \/ v # Head(work) /\ pc' = "retry" /\ work' = work
  BY DEF MakeRoom, LoopOn, Requeued, Growing, Serving
<1>2. work # << >> /\ Head(work) \in Running /\ ~Fresh(Head(work))
  BY <1>1 DEF SchedInv, HeadGrows, OrderInv, HeadHasToken
<1>3. v \in Running /\ v \in ReqId /\ v \notin Waiting /\ seqs[v].outputs > 0
  <2>1. Head(work) \in Decoded
    BY <1>2, LiveAreIds DEF Decoded, Fresh
  <2>2. v \in Running /\ v \in Decoded
    BY <1>2, <2>1, VictimRuns DEF Candidates
  <2> QED
    BY <2>2, QueuesDisjoint DEF Decoded
<1> HIDE DEF v
<1>4. seqs'[v] = Preempted(seqs[v]) /\ \A q \in ReqId : q # v => seqs'[q] = seqs[q]
  BY <1>1, <1>3 DEF SchedInv, TypeOK
<1>5. /\ seqs'[v].outputs = seqs[v].outputs /\ seqs'[v].prompt = seqs[v].prompt
      /\ seqs'[v].preempted = TRUE /\ seqs'[v].status = "WAITING"
  BY <1>3, <1>4, LiveAreIds DEF SeqRecord, Preempted
<1>6. Running' = Running \ {v} /\ Waiting' = Waiting \cup {v}
  <2>1. Running' = Running \ {v}
    BY <1>1, <1>3, RemoveFirstDistinct DEF SchedInv, TypeOK, Running
  <2>2. Waiting' = Waiting \cup {v}
    BY <1>1, <1>3, ConsDistinct DEF SchedInv, TypeOK, Waiting
  <2> QED
    BY <2>1, <2>2
<1>7. Live' = Live
  BY <1>3, <1>6 DEF Live
<1>8. Serving'
  BY <1>1 DEF Serving, Growing
<1> USE DEF v
<1> QED
  BY <1>1, <1>2, <1>3, <1>4, <1>5, <1>6, <1>7, <1>8

LEMMA StepEndsEffect ==
  ASSUME SchedInv, OrderInv, StepEnds
  PROVE  /\ Serving /\ ~Serving' /\ pc = "loop" /\ pc' = "idle" /\ work = << >>
         /\ Live' = Live /\ Running' = Running /\ seqs' = seqs /\ seq_counter' = seq_counter
         /\ ToSet(work) = {} /\ \A r \in Running : seqs[r].outputs > 0
<1>1. /\ pc = "loop" /\ pc' = "idle" /\ work = << >>
      /\ UNCHANGED <<waiting, running, seqs, seq_counter>>
  BY DEF StepEnds
<1>2. ToSet(work) = {}
  BY <1>1 DEF ToSet
<1>3. \A r \in Running : seqs[r].outputs > 0
  BY <1>1, <1>2, LiveAreIds DEF OrderInv, FreshInWork, Serving, Fresh
<1> QED
  BY <1>1, <1>2, <1>3 DEF Live, Waiting, Running, Serving, Growing

(* The work list, from its head on. *)
LEMMA WorkParts ==
  ASSUME SchedInv
  PROVE  /\ Len(work) \in Nat
         /\ work # << >> => /\ ToSet(work) = {Head(work)} \cup ToSet(Tail(work))
                           /\ Head(work) \notin ToSet(Tail(work))
                           /\ Len(Tail(work)) = Len(work) - 1 /\ Len(work) >= 1
<1>1. work \in Seq(ReqId) /\ IsInjective(work)
  BY DEF SchedInv, TypeOK
<1>2. work # << >> => /\ Head(work) \in ToSet(work)
                      /\ ToSet(Tail(work)) = ToSet(work) \ {Head(work)}
  BY <1>1, TailDistinct
<1>3. work # << >> => Len(Tail(work)) = Len(work) - 1 /\ Len(work) >= 1
  BY <1>1, HeadTailProperties, EmptySeq
<1> QED
  BY <1>1, <1>2, <1>3

(* Everything else: nothing that is counted changes. *)
LEMMA MovesEffect ==
  ASSUME SchedInv, PrefillsKnown,
         \/ StepBegins \/ CloseAdmission \/ Grow \/ Retry
         \/ \E r \in ReqId : SkipPreempted(r)
  PROVE  /\ Live' = Live /\ Running' = Running /\ seqs' = seqs /\ seq_counter' = seq_counter
         /\ Serving' <=> Serving
         /\ ToCome' \subseteq ToCome
         /\ Serving => Len(work') \in Nat /\ Len(work') <= Len(work)
         /\ PrefillsKnown'
<1>1. UNCHANGED <<waiting, running, seqs, seq_counter>>
  BY DEF StepBegins, CloseAdmission, Grow, Retry, SkipPreempted
<1>2. Live' = Live /\ Running' = Running
  BY <1>1 DEF Live, Waiting, Running
<1>3. CASE StepBegins \/ CloseAdmission
  <2>1. /\ ~Serving /\ ~Serving' /\ ToCome' = {} /\ ~Growing'
        /\ pc' = "idle" => running = << >>
    BY <1>3 DEF StepBegins, CloseAdmission, Serving, Growing, ToCome
  <2>2. pc' = "idle" => Running = {}
    BY <2>1 DEF Running, ToSet
  <2> QED
    BY <1>1, <1>2, <2>1, <2>2 DEF PrefillsKnown
<1>4. CASE Grow \/ Retry
  <2>1. /\ Growing /\ Serving /\ Serving'
        /\ \/ pc' = "loop" /\ work' = Tail(work)
           \/ pc' = "make_room" /\ work' = work
    BY <1>4 DEF Grow, Retry, LoopOn, Growing, Serving
  <2>2. work # << >>
    BY <2>1 DEF SchedInv, HeadGrows
  <2>3. seqs[Head(work)].status = "DECODE"
    BY <2>1 DEF PrefillsKnown
  <2>4. ToCome' = ToCome
    BY <2>1 DEF ToCome, Growing
  <2>5. Len(work') \in Nat /\ Len(work') <= Len(work)
    BY <2>1, <2>2, WorkParts
  <2>6. \A r \in Running : seqs[r].status = "PREFILL" => r \in ToSet(work')
    BY <2>1, <2>2, <2>3, WorkParts DEF PrefillsKnown
  <2> QED
    BY <1>1, <1>2, <2>1, <2>3, <2>4, <2>5, <2>6 DEF PrefillsKnown, Growing
<1>5. CASE \E r \in ReqId : SkipPreempted(r)
  <2>1. /\ pc = "loop" /\ pc' = "loop" /\ work # << >> /\ work' = Tail(work)
        /\ seqs[Head(work)].status = "WAITING"
    BY <1>5 DEF SkipPreempted, AtHead, LoopOn
  <2>2. ToCome' \subseteq ToCome /\ Len(work') \in Nat /\ Len(work') <= Len(work)
    BY <2>1, WorkParts DEF ToCome
  <2>3. \A r \in Running : seqs[r].status = "PREFILL" => r \in ToSet(work')
    BY <2>1, WorkParts DEF PrefillsKnown, Serving
  <2> QED
    BY <1>1, <1>2, <2>1, <2>2, <2>3 DEF PrefillsKnown, Serving, Growing
<1> QED
  BY <1>1, <1>2, <1>3, <1>4, <1>5

-----------------------------------------------------------------------------
LEMMA FieldSums ==
  ASSUME NEW s \in Seq(RequestRecord), NEW x \in RequestRecord
  PROVE  /\ PreemptionsOf(s) \in Int /\ PromptsOf(s) \in Int
         /\ PreemptionsOf(Append(s, x)) = PreemptionsOf(s) + x.preempted_count
         /\ PromptsOf(Append(s, x)) = PromptsOf(s) + x.prompt_len
<1> DEFINE n == Len(s)
           t == Append(s, x)
<1>1. n \in Nat /\ DOMAIN s = 1 .. n /\ DOMAIN t = 1 .. n + 1
  BY AppendProperties, LenProperties
<1>2. /\ \A i \in 1 .. n : t[i] = s[i] /\ s[i] \in RequestRecord
      /\ t[n + 1] = x
  BY AppendProperties, ElementOfSeq
<1> HIDE DEF n, t
<1>3. /\ \A i \in 1 .. n : s[i].preempted_count \in Int /\ s[i].prompt_len \in Int
      /\ \A i \in 1 .. n + 1 : t[i].preempted_count \in Int /\ t[i].prompt_len \in Int
      /\ \A i \in 1 .. n : /\ t[i].preempted_count = s[i].preempted_count
                           /\ t[i].prompt_len = s[i].prompt_len
  <2>1. \A i \in 1 .. n + 1 : i \in 1 .. n \/ i = n + 1
    BY <1>1
  <2>2. \A e \in RequestRecord : e.preempted_count \in Int /\ e.prompt_len \in Int
    BY DEF RequestRecord
  <2>3. \A i \in 1 .. n + 1 : t[i] \in RequestRecord
    BY <1>2, <2>1
  <2>4. \A i \in 1 .. n : i \in 1 .. n + 1
    BY <1>1
  <2> QED
    BY <1>2, <2>2, <2>3, <2>4
<1>4. PreemptionsOf(t) = PreemptionsOf(s) + x.preempted_count
  <2> DEFINE g == [i \in 1 .. n |-> s[i].preempted_count]
             h == [i \in 1 .. n + 1 |-> t[i].preempted_count]
  <2>1. g \in [1 .. n -> Int] /\ h \in [1 .. n + 1 -> Int] /\ \A i \in 1 .. n : h[i] = g[i]
    BY <1>1, <1>3
  <2>2. h[n + 1] = x.preempted_count
    BY <1>1, <1>2
  <2>3. PreemptionsOf(t) = SumFunction(h) /\ PreemptionsOf(s) = SumFunction(g)
    BY <1>1 DEF PreemptionsOf
  <2> HIDE DEF g, h
  <2> QED
    BY <1>1, <2>1, <2>2, <2>3, SumLonger
<1>5. PromptsOf(t) = PromptsOf(s) + x.prompt_len
  <2> DEFINE g == [i \in 1 .. n |-> s[i].prompt_len]
             h == [i \in 1 .. n + 1 |-> t[i].prompt_len]
  <2>1. g \in [1 .. n -> Int] /\ h \in [1 .. n + 1 -> Int] /\ \A i \in 1 .. n : h[i] = g[i]
    BY <1>1, <1>3
  <2>2. h[n + 1] = x.prompt_len
    BY <1>1, <1>2
  <2>3. PromptsOf(t) = SumFunction(h) /\ PromptsOf(s) = SumFunction(g)
    BY <1>1 DEF PromptsOf
  <2> HIDE DEF g, h
  <2> QED
    BY <1>1, <2>1, <2>2, <2>3, SumLonger
<1>6. PreemptionsOf(s) \in Int /\ PromptsOf(s) \in Int
  <2> DEFINE g == [i \in 1 .. n |-> s[i].preempted_count]
             h == [i \in 1 .. n |-> s[i].prompt_len]
  <2>1. IsFiniteSet(1 .. n) /\ \A i \in 1 .. n : g[i] \in Int /\ h[i] \in Int
    BY <1>1, <1>3, FS_Interval
  <2>2. /\ PreemptionsOf(s) = SumFunctionOnSet(g, 1 .. n)
        /\ PromptsOf(s) = SumFunctionOnSet(h, 1 .. n)
    BY <1>1 DEF PreemptionsOf, PromptsOf, SumFunction
  <2> HIDE DEF g, h
  <2> QED
    BY <2>1, <2>2, SumIsInt
<1> QED
  BY <1>4, <1>5, <1>6 DEF t

LEMMA RecordSumsAreInts ==
  ASSUME MetricsTypes
  PROVE  PreemptionsOf(requests) \in Int /\ PromptsOf(requests) \in Int
<1>1. requests \in Seq(RequestRecord)
  BY DEF MetricsTypes
<1>2. CASE requests = << >>
  <2>1. DOMAIN requests = {}
    BY <1>2
  <2> QED
    BY <2>1, SumEmpty DEF PreemptionsOf, PromptsOf, SumFunction
<1>3. CASE requests # << >>
  BY <1>1, <1>3, FieldSums, EmptySeq
<1> QED
  BY <1>2, <1>3

(* Actions that leave the accounts alone. *)
LEMMA AccountsKept ==
  ASSUME Accounts, retiring = << >>, retiring' = << >>, Live' = Live,
         UNCHANGED <<seq_counter, requests, finished, preempted_count, preemptions_total>>
  PROVE  Accounts'
<1>1. Unaccounted' = Unaccounted /\ ~Calling /\ ~Calling'
  BY DEF Unrecorded, Unaccounted, Calling
<1> QED
  BY <1>1 DEF Accounts

LEMMA FreshKept ==
  ASSUME SchedInv, RetiresOne, FreshAccounted, Forwarded' = Forwarded,
         \A q \in Forwarded : seqs'[q].prompt = seqs[q].prompt,
         ~Serving' => ~Serving, UNCHANGED <<requests, steps, partition>>
  PROVE  FreshAccounted'
<1>1. /\ IsFiniteSet(Forwarded) /\ Forwarded \subseteq ReqId
      /\ \A q \in Forwarded : PromptLen[q] \in Int /\ PromptLen'[q] = PromptLen[q]
  BY UnaccountedFinite, FS_Subset, LiveAreIds DEF Forwarded, PromptLen
<1>2. SumFunctionOnSet(PromptLen', Forwarded) = SumFunctionOnSet(PromptLen, Forwarded)
  BY <1>1, SumSame
<1> QED
  BY <1>2 DEF FreshAccounted

LEMMA RecomputeKept ==
  ASSUME SchedInv, RetiresOne, RecomputeAccounted, Resuming' = Resuming,
         \A q \in Resuming : TotalLen(q)' = TotalLen(q),
         UNCHANGED <<steps, partition, lost, preemptions_total>>
  PROVE  RecomputeAccounted'
<1> DEFINE f == [r \in ReqId |-> TotalLen(r)]
<1>1. PICK g : g = [r \in ReqId |-> TotalLen(r)']
  OBVIOUS
<1>2. /\ IsFiniteSet(Resuming) /\ Resuming \subseteq ReqId
      /\ \A q \in Resuming : f[q] \in Int /\ g[q] = f[q]
  BY <1>1, UnaccountedFinite, FS_Subset, LiveAreIds DEF Resuming, TotalLen
<1> HIDE DEF f
<1>3. SumFunctionOnSet(g, Resuming) = SumFunctionOnSet(f, Resuming)
  BY <1>2, SumSame
<1>4. TotalLens(Resuming)' = SumFunctionOnSet(g, Resuming)
  BY <1>1 DEF TotalLens
<1>5. TotalLens(Resuming) = SumFunctionOnSet(f, Resuming)
  BY DEF TotalLens, f
<1> QED
  BY <1>3, <1>4, <1>5 DEF RecomputeAccounted, RecomputeOwed

(* A scrape sees more of both lists later, never less. *)
LEMMA ScrapeKept ==
  ASSUME ScrapeAgrees, scrape' = scrape, MetricsTypes, MetricsTypes',
         Len(finished') >= Len(finished), Len(requests') >= Len(requests),
         \A i \in 1 .. Len(finished) : finished'[i] = finished[i]
  PROVE  ScrapeAgrees'
<1>1. Len(finished) \in Nat /\ Len(finished') \in Nat /\ Len(requests) \in Nat /\ Len(requests') \in Nat
  BY DEF MetricsTypes
<1>2. CASE scrape = [at |-> "none"]
  BY <1>2 DEF ScrapeAgrees
<1>3. CASE scrape # [at |-> "none"]
  <2>1. /\ scrape \in [at : {"reading"}, seen : Seq(Nat), got : Seq(Nat)]
        /\ Len(scrape.got) <= 3 /\ Len(scrape.seen) <= Len(finished)
        /\ \A i \in 1 .. Len(scrape.seen) : scrape.seen[i] = finished[i]
        /\ Len(scrape.got) >= 2 =>
             scrape.got[2] >= Len(scrape.seen) /\ scrape.got[2] <= Len(requests)
    BY <1>3 DEF ScrapeAgrees
  <2>2. Len(scrape.seen) \in Nat /\ scrape.got \in Seq(Nat) /\ Len(scrape.got) \in Nat
    BY <2>1
  <2>3. \A i \in 1 .. Len(scrape.seen) : scrape.seen[i] = finished'[i]
    BY <1>1, <2>1, <2>2
  <2>4. Len(scrape.seen) <= Len(finished')
    BY <1>1, <2>1, <2>2
  <2>5. Len(scrape.got) >= 2 =>
             scrape.got[2] >= Len(scrape.seen) /\ scrape.got[2] <= Len(requests')
    <3>1. Len(scrape.got) >= 2 => scrape.got[2] \in Nat
      BY <2>2
    <3> QED
      BY <1>1, <2>1, <2>2, <3>1
  <2> QED
    BY <1>3, <2>1, <2>3, <2>4, <2>5 DEF ScrapeAgrees
<1> QED
  BY <1>2, <1>3

-----------------------------------------------------------------------------
(* Every action keeps MetricsInv. *)
LEMMA MSubmitKeeps ==
  ASSUME SchedInv, MetricsInv, NEW r \in ReqId, NEW p \in Int, NEW m \in Int,
         MSubmit(r, p, m)
  PROVE  MetricsInv'
<1>1. /\ retiring = << >> /\ retiring' = << >> /\ Submit(r, p, m)
      /\ preempted_count' = [preempted_count EXCEPT ![r] = 0]
      /\ UNCHANGED <<preemptions_total, lost, partition, steps, requests, finished, scrape>>
  BY DEF MSubmit
<1>2. /\ r \notin Live /\ ~Serving /\ ~Serving' /\ pc = "idle" /\ pc' = "idle"
      /\ Live' = Live \cup {r} /\ Running' = Running /\ work' = work
      /\ \A q \in ReqId : q # r => seqs'[q] = seqs[q]
      /\ seqs'[r].outputs = 0 /\ seqs'[r].prompt \in Nat /\ seqs'[r].preempted = FALSE
      /\ seqs'[r].status = "WAITING" /\ seq_counter' = seq_counter + 1
  BY <1>1, SubmitEffect
<1>3. /\ preempted_count'[r] = 0 /\ preempted_count' \in [ReqId -> Nat]
      /\ \A q \in ReqId : q # r => preempted_count'[q] = preempted_count[q]
  BY <1>1 DEF MetricsInv, MetricsTypes
<1>4. /\ IsFiniteSet(Live) /\ Live \subseteq ReqId /\ Cardinality(Live) \in Nat
      /\ Unaccounted = Live /\ Unaccounted' = Live' /\ ~Calling /\ ~Calling'
      /\ Unrecorded = {} /\ Unrecorded' = {}
  BY <1>1, UnaccountedFinite DEF MetricsInv, Unaccounted, Unrecorded, Calling
<1>5. MetricsTypes'
  BY <1>1, <1>3 DEF MetricsInv, MetricsTypes
<1>6. RetiresOne'
  BY <1>1 DEF RetiresOne
<1>7. CountsAgree'
  BY <1>2, <1>3 DEF MetricsInv, CountsAgree
<1>8. Accounts'
  <2>1. Cardinality(Live') = Cardinality(Live) + 1
    BY <1>2, <1>4, FS_AddElement
  <2>2. Len(requests') = seq_counter' - Cardinality(Unaccounted')
    <3>1. Len(requests) = seq_counter - Cardinality(Live) /\ seq_counter \in Nat
      BY <1>4 DEF MetricsInv, Accounts, SchedInv, TypeOK
    <3> QED
      BY <1>1, <1>2, <1>4, <2>1, <3>1
  <2>3. SumFunctionOnSet(preempted_count', Live') = SumFunctionOnSet(preempted_count, Live)
    <3>1. /\ \A q \in Live : /\ preempted_count[q] \in Int
                             /\ preempted_count'[q] = preempted_count[q]
          /\ \A q \in Live \cup {r} : preempted_count'[q] \in Int
      BY <1>2, <1>3, <1>4 DEF MetricsInv, MetricsTypes
    <3>2. SumFunctionOnSet(preempted_count', Live) = SumFunctionOnSet(preempted_count, Live)
      BY <1>4, <3>1, SumSame
    <3>3. SumFunctionOnSet(preempted_count', Live \cup {r})
            = preempted_count'[r] + SumFunctionOnSet(preempted_count', Live)
      BY <1>2, <1>4, <3>1, SumAdd
    <3>4. SumFunctionOnSet(preempted_count, Live) \in Int
      BY <1>4, <3>1, SumIsInt
    <3> QED
      BY <1>2, <1>3, <3>2, <3>3, <3>4
  <2> QED
    BY <1>1, <1>4, <2>2, <2>3 DEF MetricsInv, Accounts
<1>9. PrefillsKnown'
  <2>1. Running \subseteq Live /\ ~Growing'
    BY <1>2 DEF Live, Growing
  <2>2. \A q \in Running : q \in ReqId /\ q # r /\ seqs'[q] = seqs[q]
    BY <1>2, <1>4, <2>1
  <2>3. \A q \in Live' : q = r \/ (q \in Live /\ seqs'[q] = seqs[q])
    BY <1>2, <1>4
  <2> QED
    BY <1>2, <2>1, <2>2, <2>3 DEF MetricsInv, PrefillsKnown
<1>10. FreshAccounted'
  <2>1. Forwarded' = Forwarded /\ \A q \in Forwarded : seqs'[q].prompt = seqs[q].prompt
    BY <1>2, <1>4 DEF Forwarded
  <2> QED
    BY <1>1, <1>2, <2>1, FreshKept DEF MetricsInv
<1>11. RecomputeAccounted'
  <2>1. Resuming' = Resuming
    BY <1>2, <1>3, <1>4 DEF Resuming
  <2>2. \A q \in Resuming : TotalLen(q)' = TotalLen(q)
    BY <1>2, <1>4 DEF Resuming, TotalLen
  <2> QED
    BY <1>1, <2>1, <2>2, RecomputeKept DEF MetricsInv
<1>12. OutputsInSteps'
  <2>1. steps.total \in Nat
    BY DEF MetricsInv, MetricsTypes
  <2>2. \A q \in ReqId : q = r \/ seqs'[q] = seqs[q]
    BY <1>2
  <2>3. Live' \subseteq ReqId
    BY <1>2, <1>4
  <2> QED
    BY <1>1, <1>2, <2>1, <2>2, <2>3 DEF MetricsInv, OutputsInSteps
<1>13. RetiredInSteps'
  BY <1>1, <1>2, <1>4 DEF MetricsInv, RetiredInSteps
<1>14. ScrapeAgrees'
  BY <1>1, <1>5, ScrapeKept DEF MetricsInv, MetricsTypes
<1> QED
  BY <1>5, <1>6, <1>7, <1>8, <1>9, <1>10, <1>11, <1>12, <1>13, <1>14 DEF MetricsInv

LEMMA AdmitKeeps ==
  ASSUME SchedInv, MetricsInv, AdmitHead, retiring = << >>, UNCHANGED metrics_vars
  PROVE  MetricsInv'
<1>1. /\ retiring' = << >>
      /\ UNCHANGED <<preempted_count, preemptions_total, lost, partition, steps, requests,
                     finished, scrape>>
  BY DEF metrics_vars
<1>2. PICK r \in Waiting :
        /\ ~Serving /\ ~Serving' /\ pc = "admit" /\ pc' = "admit"
        /\ Live' = Live /\ Running' = Running \cup {r} /\ work' = work
        /\ \A q \in ReqId : SameFields(q) /\ (q # r => seqs'[q] = seqs[q])
        /\ seqs'[r].status = "PREFILL" /\ seq_counter' = seq_counter
  BY AdmitEffect
<1>3. r \in ReqId /\ r \in Live /\ seqs[r].status = "WAITING" /\ Live \subseteq ReqId
  BY <1>2, LiveAreIds DEF Live, SchedInv, StatusMatchesQueue
<1>4. MetricsTypes'
  BY <1>1 DEF MetricsInv, MetricsTypes
<1>5. RetiresOne'
  BY <1>1 DEF RetiresOne
<1>6. CountsAgree'
  BY <1>1, <1>2 DEF MetricsInv, CountsAgree, SameFields
<1>7. Accounts'
  BY <1>1, <1>2, AccountsKept DEF MetricsInv
<1>8. PrefillsKnown'
  <2>1. \A q \in Live : seqs'[q].outputs > 0 /\ seqs'[q].status # "DECODE" => seqs'[q].preempted
    <3> SUFFICES ASSUME NEW q \in Live, seqs'[q].outputs > 0, seqs'[q].status # "DECODE"
                 PROVE  seqs'[q].preempted
      OBVIOUS
    <3>1. SameFields(q) /\ (q # r => seqs'[q] = seqs[q])
      BY <1>2, <1>3
    <3>2. seqs[q].outputs > 0 /\ seqs[q].status # "DECODE"
      BY <1>3, <3>1 DEF SameFields
    <3>3. seqs[q].preempted
      BY <3>2 DEF MetricsInv, PrefillsKnown
    <3> QED
      BY <3>1, <3>3 DEF SameFields
  <2> QED
    BY <1>2, <2>1 DEF PrefillsKnown, Growing
<1>9. FreshAccounted'
  <2>1. Unaccounted' = Unaccounted /\ Unaccounted \subseteq ReqId
    BY <1>1, <1>2, UnaccountedFinite DEF Unaccounted, Unrecorded, MetricsInv
  <2>2. Forwarded' = Forwarded /\ \A q \in Forwarded : seqs'[q].prompt = seqs[q].prompt
    BY <1>2, <2>1 DEF Forwarded, SameFields
  <2> QED
    BY <1>1, <1>2, <2>2, FreshKept DEF MetricsInv
<1>10. RecomputeAccounted'
  <2>1. Resuming' = Resuming
    BY <1>1, <1>2, <1>3 DEF Resuming
  <2>2. \A q \in Resuming : TotalLen(q)' = TotalLen(q)
    BY <1>2, <1>3 DEF Resuming, TotalLen, SameFields
  <2> QED
    BY <1>1, <2>1, <2>2, RecomputeKept DEF MetricsInv
<1>11. OutputsInSteps'
  BY <1>1, <1>2, <1>3 DEF MetricsInv, OutputsInSteps, SameFields
<1>12. RetiredInSteps'
  BY <1>1, <1>2 DEF MetricsInv, RetiredInSteps, Unrecorded
<1>13. ScrapeAgrees'
  BY <1>1, <1>4, ScrapeKept DEF MetricsInv, MetricsTypes
<1> QED
  BY <1>4, <1>5, <1>6, <1>7, <1>8, <1>9, <1>10, <1>11, <1>12, <1>13 DEF MetricsInv

LEMMA MovesKeep ==
  ASSUME SchedInv, MetricsInv, retiring = << >>, UNCHANGED metrics_vars,
         \/ StepBegins \/ CloseAdmission \/ Grow \/ Retry
         \/ \E r \in ReqId : SkipPreempted(r)
  PROVE  MetricsInv'
<1>1. /\ retiring' = << >>
      /\ UNCHANGED <<preempted_count, preemptions_total, lost, partition, steps, requests,
                     finished, scrape>>
  BY DEF metrics_vars
<1>2. /\ Live' = Live /\ Running' = Running /\ seqs' = seqs /\ seq_counter' = seq_counter
      /\ Serving' <=> Serving
      /\ ToCome' \subseteq ToCome
      /\ Serving => Len(work') <= Len(work)
      /\ PrefillsKnown'
  BY MovesEffect DEF MetricsInv
<1>3. MetricsTypes'
  BY <1>1 DEF MetricsInv, MetricsTypes
<1>4. RetiresOne'
  BY <1>1 DEF RetiresOne
<1>5. CountsAgree'
  BY <1>1, <1>2 DEF MetricsInv, CountsAgree
<1>6. Accounts'
  BY <1>1, <1>2, AccountsKept DEF MetricsInv
<1>7. FreshAccounted'
  <2>1. Unaccounted' = Unaccounted
    BY <1>1, <1>2 DEF Unaccounted, Unrecorded
  <2>2. Forwarded' = Forwarded
    BY <1>2, <2>1 DEF Forwarded
  <2> QED
    BY <1>1, <1>2, <2>2, FreshKept DEF MetricsInv
<1>8. RecomputeAccounted'
  <2>1. Resuming' = Resuming
    BY <1>1, <1>2 DEF Resuming
  <2>2. \A q \in Resuming : TotalLen(q)' = TotalLen(q)
    BY <1>2 DEF TotalLen
  <2> QED
    BY <1>1, <2>1, <2>2, RecomputeKept DEF MetricsInv
<1>9. OutputsInSteps'
  BY <1>1, <1>2 DEF MetricsInv, OutputsInSteps
<1>10. RetiredInSteps'
  <2>1. Unrecorded' = Unrecorded
    BY <1>1 DEF Unrecorded
  <2>2. Cardinality(Unrecorded) = 0
    BY NothingOwed, FS_EmptySet
  <2>3. Len(requests) \in Nat /\ Len(work) \in Nat /\ (Serving => Len(work') \in Nat)
    BY <1>2, WorkParts DEF MetricsInv, MetricsTypes
  <2>4. MaxBatch * (steps.total + 1) \in Int /\ MaxBatch * (steps.total + 0) \in Int
    BY SchedulerAssumption DEF MetricsInv, MetricsTypes
  <2> QED
    BY <1>1, <1>2, <2>1, <2>2, <2>3, <2>4 DEF MetricsInv, RetiredInSteps
<1>11. ScrapeAgrees'
  BY <1>1, <1>3, ScrapeKept DEF MetricsInv, MetricsTypes
<1> QED
  BY <1>2, <1>3, <1>4, <1>5, <1>6, <1>7, <1>8, <1>9, <1>10, <1>11 DEF MetricsInv

(* The batch of a forward pass splits as step() counts it. *)
LEMMA FreshOnesAreFirst ==
  ASSUME SchedInv, OrderInv, MetricsTypes, CountsAgree, PrefillsKnown
  PROVE  {r \in Prefills : IsFresh(r)} = {r \in Running : seqs[r].outputs = 0}
<1> SUFFICES ASSUME NEW r \in Running
             PROVE  seqs[r].status = "PREFILL" /\ IsFresh(r) <=> seqs[r].outputs = 0
  BY DEF Prefills
<1>1. r \in ReqId /\ r \in Live /\ seqs[r].outputs \in Nat
  BY LiveAreIds DEF Live
<1>2. seqs[r].preempted <=> ~IsFresh(r)
  BY <1>1 DEF MetricsTypes, CountsAgree, IsFresh
<1>3. seqs[r].outputs = 0 => seqs[r].status = "PREFILL" /\ ~seqs[r].preempted
  BY <1>1 DEF OrderInv, FreshIsPrefill, FreshNotPreempted, Fresh
<1>4. seqs[r].outputs > 0 /\ seqs[r].status = "PREFILL" => seqs[r].preempted
  BY <1>1 DEF PrefillsKnown
<1> QED
  BY <1>1, <1>2, <1>3, <1>4

LEMMA MForwardKeeps ==
  ASSUME SchedInv, OrderInv, MetricsInv, MForward
  PROVE  MetricsInv'
<1> DEFINE fresh == {r \in Prefills : IsFresh(r)}
           again == {r \in Prefills : ~IsFresh(r)}
           lens == [r \in ReqId |-> TotalLen(r)]
<1>1. /\ Forward
      /\ partition' = [n_prefill |-> Cardinality(Prefills),
                       n_decode |-> Cardinality(Running \ Prefills),
                       fresh |-> TotalLens(fresh), recompute |-> TotalLens(again)]
      /\ UNCHANGED <<preempted_count, preemptions_total, lost, steps, requests, retiring,
                     finished, scrape>>
  BY DEF MForward
<1>2. /\ ~Serving /\ Serving' /\ ~Growing' /\ pc = "forward" /\ pc' = "loop"
      /\ Live' = Live /\ Running' = Running /\ seqs' = seqs /\ seq_counter' = seq_counter
      /\ ToSet(work') = Running /\ Len(work') = Len(running)
  BY <1>1, ForwardEffect
<1>3. retiring = << >> /\ retiring' = << >>
  BY <1>1, <1>2 DEF MetricsInv, RetiresOne
<1>4. /\ IsFiniteSet(Live) /\ Live \subseteq ReqId /\ Running \subseteq Live
      /\ Unaccounted = Live /\ Unaccounted' = Live
      /\ Unrecorded = {} /\ Unrecorded' = {}
  BY <1>2, <1>3, UnaccountedFinite DEF MetricsInv, Unaccounted, Unrecorded, Live
<1>5. \A q \in ReqId : /\ lens[q] \in Int /\ PromptLen[q] \in Int
                       /\ lens[q] = seqs[q].prompt + seqs[q].outputs
                       /\ PromptLen[q] = seqs[q].prompt
                       /\ seqs[q].outputs \in Nat
  BY LiveAreIds DEF TotalLen, PromptLen
<1>6. fresh = {r \in Running : seqs[r].outputs = 0}
  BY FreshOnesAreFirst DEF MetricsInv
<1>7. /\ IsFiniteSet(Prefills) /\ IsFiniteSet(Running \ Prefills)
      /\ IsFiniteSet(fresh) /\ IsFiniteSet(again)
      /\ Prefills \subseteq Live /\ fresh \subseteq Live /\ again \subseteq Live
  BY <1>4, FS_Subset DEF Prefills
<1>8. TotalLens(fresh) = SumFunctionOnSet(lens, fresh) /\ TotalLens(again) = SumFunctionOnSet(lens, again)
  BY DEF TotalLens
<1> HIDE DEF fresh, again, lens
<1>9. TotalLens(fresh) \in Int /\ TotalLens(again) \in Int
  <2>1. SumFunctionOnSet(lens, fresh) \in Int
    BY <1>4, <1>5, <1>7, SumIsInt
  <2>2. SumFunctionOnSet(lens, again) \in Int
    BY <1>4, <1>5, <1>7, SumIsInt
  <2> QED
    BY <1>8, <2>1, <2>2
<1>10. MetricsTypes'
  <2>1. Cardinality(Prefills) \in Int /\ Cardinality(Running \ Prefills) \in Int
    BY <1>7, FS_CardinalityType
  <2>2. partition' \in StepRecord
    BY <1>1, <1>9, <2>1 DEF StepRecord
  <2> QED
    BY <1>1, <2>2 DEF MetricsInv, MetricsTypes
<1>11. RetiresOne'
  BY <1>3 DEF RetiresOne
<1>12. CountsAgree'
  BY <1>1, <1>2 DEF MetricsInv, CountsAgree
<1>13. Accounts'
  BY <1>1, <1>2, <1>3, AccountsKept DEF MetricsInv
<1>14. PrefillsKnown'
  BY <1>2 DEF MetricsInv, PrefillsKnown
<1>15. FreshAccounted'
  <2>1. Forwarded' = Forwarded \cup fresh /\ Forwarded \cap fresh = {}
    <3>1. Forwarded = {q \in Live : seqs[q].outputs > 0}
      BY <1>2, <1>4 DEF Forwarded
    <3>2. Forwarded' = {q \in Live : seqs[q].outputs > 0 \/ q \in Running}
      BY <1>2, <1>4 DEF Forwarded
    <3>3. \A q \in Live : seqs[q].outputs \in Nat
      BY <1>4, <1>5
    <3> QED
      BY <1>4, <1>6, <3>1, <3>2, <3>3
  <2>2. IsFiniteSet(Forwarded) /\ Forwarded \subseteq ReqId
    BY <1>4, FS_Subset DEF Forwarded
  <2>3. SumFunctionOnSet(PromptLen, Forwarded \cup fresh)
          = SumFunctionOnSet(PromptLen, Forwarded) + SumFunctionOnSet(PromptLen, fresh)
    <3>1. \A q \in Forwarded \cup fresh : PromptLen[q] \in Int
      BY <1>4, <1>5, <1>7, <2>2
    <3> QED
      BY <1>7, <2>1, <2>2, <3>1, SumUnion
  <2>4. SumFunctionOnSet(PromptLen, fresh) = SumFunctionOnSet(lens, fresh)
    <3>1. \A q \in fresh : lens[q] \in Int /\ PromptLen[q] = lens[q]
      BY <1>4, <1>5, <1>6
    <3> QED
      BY <1>7, <3>1, SumSame
  <2>5. PromptLen' = PromptLen
    BY <1>2 DEF PromptLen
  <2>6. SumFunctionOnSet(PromptLen, Forwarded) \in Int
    BY <1>5, <2>2, SumIsInt
  <2>7. partition = NoWork /\ partition.fresh = 0
    BY <1>2 DEF MetricsInv, FreshAccounted, NoWork
  <2>8. steps.fresh + partition.fresh
          = PromptsOf(requests) + SumFunctionOnSet(PromptLen, Forwarded)
    BY DEF MetricsInv, FreshAccounted
  <2>9. steps.fresh \in Int
    BY DEF MetricsInv, MetricsTypes
  <2>10. partition'.fresh = TotalLens(fresh)
    BY <1>1
  <2>11. PromptsOf(requests) + SumFunctionOnSet(PromptLen, Forwarded) = steps.fresh
    BY <2>7, <2>8, <2>9
  <2>12. PromptsOf(requests) \in Int
    BY RecordSumsAreInts DEF MetricsInv
  <2>13. SumFunctionOnSet(PromptLen', Forwarded')
           = SumFunctionOnSet(PromptLen, Forwarded) + TotalLens(fresh)
    BY <1>8, <2>1, <2>3, <2>4, <2>5
  <2>14. steps'.fresh + partition'.fresh
           = PromptsOf(requests') + SumFunctionOnSet(PromptLen', Forwarded')
    BY <1>1, <1>9, <2>6, <2>9, <2>10, <2>11, <2>12, <2>13
  <2> QED
    BY <1>2, <2>14 DEF FreshAccounted
<1>16. RecomputeAccounted'
  <2>1. Resuming = Resuming' \cup again /\ Resuming' \cap again = {}
    <3>1. \A q \in ReqId : preempted_count[q] > 0 <=> ~IsFresh(q)
      BY DEF MetricsInv, MetricsTypes, IsFresh
    <3>2. \A q \in Live : seqs[q].status = "PREFILL" => q \in Running
      BY <1>4 DEF SchedInv, StatusMatchesQueue
    <3>3. Resuming = {q \in Live : /\ preempted_count[q] > 0
                                   /\ seqs[q].status = "WAITING" \/ seqs[q].status = "PREFILL"}
      BY <1>2 DEF Resuming
    <3>4. Resuming' = {q \in Live : preempted_count[q] > 0 /\ seqs[q].status = "WAITING"}
      BY <1>1, <1>2 DEF Resuming
    <3>5. again = {q \in Live : seqs[q].status = "PREFILL" /\ preempted_count[q] > 0}
      BY <1>4, <3>1, <3>2 DEF again, Prefills
    <3> QED
      BY <3>3, <3>4, <3>5
  <2>2. IsFiniteSet(Resuming') /\ Resuming' \subseteq ReqId
    BY <1>2, <1>4, FS_Subset DEF Resuming
  <2>3. SumFunctionOnSet(lens, Resuming' \cup again)
          = SumFunctionOnSet(lens, Resuming') + SumFunctionOnSet(lens, again)
    <3>1. \A q \in Resuming' \cup again : lens[q] \in Int
      BY <1>4, <1>5, <1>7, <2>2
    <3> QED
      BY <1>7, <2>1, <2>2, <3>1, SumUnion
  <2>4. /\ TotalLens(Resuming) = SumFunctionOnSet(lens, Resuming' \cup again)
        /\ TotalLens(Resuming)' = SumFunctionOnSet(lens, Resuming')
    BY <1>2, <2>1 DEF TotalLens, TotalLen, lens
  <2>5. SumFunctionOnSet(lens, Resuming') \in Int
    BY <1>5, <2>2, SumIsInt
  <2>6. partition.recompute = 0
    BY <1>2 DEF MetricsInv, FreshAccounted, NoWork
  <2>7. steps.recompute \in Int
    BY DEF MetricsInv, MetricsTypes
  <2>8. partition'.recompute = TotalLens(again)
    BY <1>1
  <2>9. RecomputeOwed' = RecomputeOwed
    BY <1>1, <1>8, <1>9, <2>3, <2>4, <2>5, <2>6, <2>7, <2>8 DEF RecomputeOwed
  <2> QED
    BY <1>1, <2>9 DEF MetricsInv, RecomputeAccounted
<1>17. OutputsInSteps'
  BY <1>1, <1>2 DEF MetricsInv, OutputsInSteps
<1>18. RetiredInSteps'
  <2>1. Cardinality(Unrecorded) = 0 /\ Cardinality(Unrecorded') = 0
    BY <1>4, FS_EmptySet
  <2>2. /\ Len(requests) \in Nat /\ Len(running) \in Nat /\ Len(running) <= MaxBatch
        /\ steps.total \in Nat /\ MaxBatch \in Nat
    BY SchedulerAssumption DEF MetricsInv, MetricsTypes, SchedInv, TypeOK
  <2>3. MaxBatch * (steps.total + 0) + MaxBatch = MaxBatch * (steps.total + 1)
    BY <2>2
  <2>4. MaxBatch * (steps.total + 0) \in Int /\ MaxBatch * (steps.total + 1) \in Int
    BY <2>2
  <2>5. Len(requests) + 0 + 0 <= MaxBatch * (steps.total + 0)
    BY <1>2, <2>1 DEF MetricsInv, RetiredInSteps
  <2>6. Len(requests) + 0 + Len(running) <= MaxBatch * (steps.total + 1)
    BY <2>2, <2>3, <2>4, <2>5
  <2> QED
    BY <1>1, <1>2, <2>1, <2>6 DEF RetiredInSteps
<1>19. ScrapeAgrees'
  BY <1>1, <1>10, ScrapeKept DEF MetricsInv, MetricsTypes
<1> QED
  BY <1>10, <1>11, <1>12, <1>13, <1>14, <1>15, <1>16, <1>17, <1>18, <1>19 DEF MetricsInv

LEMMA MSampleNextKeeps ==
  ASSUME SchedInv, MetricsInv, NEW r \in ReqId, NEW eos \in BOOLEAN, MSampleNext(r, eos)
  PROVE  MetricsInv'
<1>1. /\ SampleNext(r, eos) /\ retiring = << >> /\ retiring' = << >>
      /\ UNCHANGED <<preempted_count, preemptions_total, lost, partition, steps, requests,
                     finished, scrape>>
  BY DEF MSampleNext, metrics_vars
<1>2. /\ r \in Running /\ r \notin Waiting /\ pc = "loop" /\ Serving /\ Serving'
      /\ work # << >> /\ r = Head(work)
      /\ Live' = Live /\ Running' = Running /\ seq_counter' = seq_counter
      /\ \A q \in ReqId : q # r => seqs'[q] = seqs[q]
      /\ seqs'[r].outputs = seqs[r].outputs + 1 /\ seqs'[r].prompt = seqs[r].prompt
      /\ seqs'[r].preempted = seqs[r].preempted /\ seqs'[r].status = "DECODE"
      /\ \/ pc' = "grow" /\ work' = work
         \/ pc' = "loop" /\ work' = Tail(work)
  BY <1>1, SampleNextEffect
<1>3. /\ ToCome = ToSet(work) /\ ToCome' = ToSet(Tail(work)) /\ ~Growing
      /\ ToSet(work) = {r} \cup ToSet(Tail(work)) /\ r \notin ToSet(Tail(work))
      /\ Len(work) \in Nat /\ Len(work') \in Nat /\ Len(work') <= Len(work)
  <2>1. ToCome = ToSet(work) /\ ToCome' = ToSet(Tail(work)) /\ ~Growing
    BY <1>2 DEF ToCome, Growing
  <2>2. /\ ToSet(work) = {r} \cup ToSet(Tail(work)) /\ r \notin ToSet(Tail(work))
        /\ Len(work) \in Nat /\ Len(Tail(work)) = Len(work) - 1 /\ Len(work) >= 1
    BY <1>2, WorkParts
  <2>3. Len(work') \in Nat /\ Len(work') <= Len(work)
    BY <1>2, <2>2
  <2> QED
    BY <2>1, <2>2, <2>3
<1>4. /\ Live \subseteq ReqId /\ r \in Live /\ seqs[r].status # "WAITING"
      /\ seqs[r].outputs \in Nat
  BY <1>2, LiveAreIds DEF Live, SchedInv, StatusMatchesQueue
<1>5. MetricsTypes'
  BY <1>1 DEF MetricsInv, MetricsTypes
<1>6. RetiresOne'
  BY <1>1 DEF RetiresOne
<1>7. CountsAgree'
  BY <1>1, <1>2 DEF MetricsInv, CountsAgree
<1>8. Accounts'
  BY <1>1, <1>2, AccountsKept DEF MetricsInv
<1>9. PrefillsKnown'
  <2>1. \A q \in Running : q \in ReqId
    BY LiveAreIds
  <2>2. \A q \in Running : seqs'[q].status = "PREFILL" => q \in ToSet(work')
    BY <1>2, <1>3, <2>1 DEF MetricsInv, PrefillsKnown
  <2>3. Growing' => seqs'[Head(work')].status = "DECODE"
    BY <1>2 DEF Growing
  <2>4. \A q \in Live : seqs'[q].outputs > 0 /\ seqs'[q].status # "DECODE" => seqs'[q].preempted
    BY <1>2, <1>4 DEF MetricsInv, PrefillsKnown
  <2>5. pc' # "idle"
    BY <1>2
  <2> QED
    BY <1>2, <2>2, <2>3, <2>4, <2>5 DEF PrefillsKnown
<1>10. FreshAccounted'
  <2>1. Unaccounted' = Unaccounted /\ Unaccounted \subseteq ReqId
    BY <1>1, <1>2, UnaccountedFinite DEF Unaccounted, Unrecorded, MetricsInv
  <2>2. \A q \in ReqId : \/ seqs'[q].outputs = seqs[q].outputs
                         \/ q \in Running /\ q \in Running'
    BY <1>2
  <2>3. Forwarded' = Forwarded
    BY <1>2, <2>1, <2>2 DEF Forwarded
  <2>4. \A q \in Forwarded : seqs'[q].prompt = seqs[q].prompt
    BY <1>2, <2>1 DEF Forwarded
  <2> QED
    BY <1>1, <1>2, <2>3, <2>4, FreshKept DEF MetricsInv
<1>11. RecomputeAccounted'
  <2>1. Resuming' = Resuming /\ r \notin Resuming
    BY <1>1, <1>2, <1>4 DEF Resuming
  <2>2. \A q \in Resuming : TotalLen(q)' = TotalLen(q)
    BY <1>2, <1>4, <2>1 DEF Resuming, TotalLen
  <2> QED
    BY <1>1, <2>1, <2>2, RecomputeKept DEF MetricsInv
<1>12. OutputsInSteps'
  <2>1. steps.total \in Nat
    BY DEF MetricsInv, MetricsTypes
  <2>2. seqs[r].outputs <= steps.total
    BY <1>3, <1>4 DEF MetricsInv, OutputsInSteps
  <2>3. \A q \in ReqId : seqs'[q].outputs <= steps.total + 1
    BY <1>2, <1>4, <2>1, <2>2 DEF MetricsInv, OutputsInSteps
  <2>4. \A q \in Live : q \in ToCome' => seqs'[q].outputs <= steps.total
    BY <1>2, <1>3, <1>4 DEF MetricsInv, OutputsInSteps
  <2> QED
    BY <1>1, <1>2, <2>3, <2>4 DEF MetricsInv, OutputsInSteps
<1>13. RetiredInSteps'
  <2>1. Cardinality(Unrecorded) = 0 /\ Unrecorded' = Unrecorded
    BY <1>1, NothingOwed, FS_EmptySet DEF Unrecorded
  <2>2. Len(requests) \in Nat /\ MaxBatch * (steps.total + 1) \in Int
    BY SchedulerAssumption DEF MetricsInv, MetricsTypes
  <2> QED
    BY <1>1, <1>2, <1>3, <2>1, <2>2 DEF MetricsInv, RetiredInSteps
<1>14. ScrapeAgrees'
  BY <1>1, <1>5, ScrapeKept DEF MetricsInv, MetricsTypes
<1> QED
  BY <1>5, <1>6, <1>7, <1>8, <1>9, <1>10, <1>11, <1>12, <1>13, <1>14 DEF MetricsInv

LEMMA MSampleLastKeeps ==
  ASSUME SchedInv, MetricsInv, NEW r \in ReqId, NEW eos \in BOOLEAN, MSampleLast(r, eos)
  PROVE  MetricsInv'
<1>1. /\ SampleLast(r, eos) /\ retiring = << >> /\ retiring' = Calls(r)
      /\ UNCHANGED <<preempted_count, preemptions_total, lost, partition, steps, requests,
                     finished, scrape>>
  BY DEF MSampleLast, Calls
<1>2. /\ r \in Running /\ r \notin Waiting /\ pc = "loop" /\ pc' = "loop"
      /\ Serving /\ Serving' /\ work # << >> /\ r = Head(work) /\ work' = Tail(work)
      /\ Live' = Live \ {r} /\ Running' = Running \ {r} /\ seq_counter' = seq_counter
      /\ \A q \in ReqId : q # r => seqs'[q] = seqs[q]
      /\ seqs'[r].outputs = seqs[r].outputs + 1 /\ seqs'[r].prompt = seqs[r].prompt
      /\ seqs'[r].preempted = seqs[r].preempted
  BY <1>1, SampleLastEffect
<1>3. /\ ToCome = ToSet(work) /\ ToCome' = ToSet(Tail(work)) /\ ~Growing /\ ~Growing'
      /\ ToSet(work) = {r} \cup ToSet(Tail(work)) /\ r \notin ToSet(Tail(work))
      /\ Len(work) \in Nat /\ Len(work') = Len(work) - 1
  BY <1>2, WorkParts DEF ToCome, Growing
<1>4. /\ Live \subseteq ReqId /\ r \in Live /\ seqs[r].status # "WAITING"
      /\ seqs[r].outputs \in Nat
  BY <1>2, LiveAreIds DEF Live, SchedInv, StatusMatchesQueue
<1>5. /\ Unrecorded = {} /\ Unrecorded' = {r} /\ Unaccounted = Live /\ Unaccounted' = Live
      /\ ~Calling /\ ~Calling'
  BY <1>1, <1>2, <1>4, CallsShape DEF Unrecorded, Unaccounted, Calling
<1>6. MetricsTypes'
  BY <1>1 DEF MetricsInv, MetricsTypes
<1>7. RetiresOne'
  BY <1>1, <1>2, <1>4 DEF RetiresOne
<1>8. CountsAgree'
  BY <1>1, <1>2 DEF MetricsInv, CountsAgree
<1>9. Accounts'
  BY <1>1, <1>2, <1>5 DEF MetricsInv, Accounts
<1>10. PrefillsKnown'
  <2>1. \A q \in Live' : q \in Live /\ seqs'[q] = seqs[q]
    BY <1>2, <1>4
  <2>2. \A q \in Running' : q \in Running /\ q # r /\ seqs'[q] = seqs[q]
    BY <1>2, LiveAreIds
  <2>3. \A q \in Running' : seqs'[q].status = "PREFILL" => q \in ToSet(work')
    BY <1>2, <1>3, <2>2 DEF MetricsInv, PrefillsKnown
  <2> QED
    BY <1>2, <1>3, <2>1, <2>3 DEF MetricsInv, PrefillsKnown
<1>11. FreshAccounted'
  <2>1. \A q \in Live : \/ /\ q # r /\ seqs'[q].outputs = seqs[q].outputs
                           /\ q \in Running' <=> q \in Running
                        \/ q = r /\ q \in Running /\ seqs'[q].outputs > 0
    BY <1>2, <1>4
  <2>2. Forwarded' = Forwarded
    BY <1>2, <1>5, <2>1 DEF Forwarded
  <2>3. \A q \in Forwarded : seqs'[q].prompt = seqs[q].prompt
    BY <1>2, <1>4, <1>5 DEF Forwarded
  <2> QED
    BY <1>1, <1>2, <2>2, <2>3, FreshKept DEF MetricsInv
<1>12. RecomputeAccounted'
  <2>1. r \notin Resuming
    BY <1>2, <1>4 DEF Resuming
  <2>2. Resuming' = Resuming
    BY <1>1, <1>2, <1>4, <2>1 DEF Resuming
  <2>3. \A q \in Resuming : TotalLen(q)' = TotalLen(q)
    BY <1>2, <1>4, <2>1 DEF Resuming, TotalLen
  <2> QED
    BY <1>1, <2>2, <2>3, RecomputeKept DEF MetricsInv
<1>13. OutputsInSteps'
  <2>1. steps.total \in Nat
    BY DEF MetricsInv, MetricsTypes
  <2>2. seqs[r].outputs <= steps.total
    BY <1>3, <1>4 DEF MetricsInv, OutputsInSteps
  <2>3. \A q \in ReqId : seqs'[q].outputs <= steps.total + 1
    BY <1>2, <1>4, <2>1, <2>2 DEF MetricsInv, OutputsInSteps
  <2>4. \A q \in Live' : q \in ToCome' => seqs'[q].outputs <= steps.total
    BY <1>2, <1>3, <1>4 DEF MetricsInv, OutputsInSteps
  <2> QED
    BY <1>1, <1>2, <2>3, <2>4 DEF MetricsInv, OutputsInSteps
<1>14. RetiredInSteps'
  <2>1. Cardinality(Unrecorded) = 0 /\ Cardinality(Unrecorded') = 1
    BY <1>5, FS_EmptySet, FS_Singleton
  <2>2. Len(requests) \in Nat /\ MaxBatch * (steps.total + 1) \in Int
    BY SchedulerAssumption DEF MetricsInv, MetricsTypes
  <2> QED
    BY <1>1, <1>2, <1>3, <2>1, <2>2 DEF MetricsInv, RetiredInSteps
<1>15. ScrapeAgrees'
  BY <1>1, <1>6, ScrapeKept DEF MetricsInv, MetricsTypes
<1> QED
  BY <1>6, <1>7, <1>8, <1>9, <1>10, <1>11, <1>12, <1>13, <1>14, <1>15 DEF MetricsInv

LEMMA MMakeRoomKeeps ==
  ASSUME SchedInv, OrderInv, MetricsInv, MMakeRoom
  PROVE  MetricsInv'
<1> DEFINE v == Victim
           lens == [r \in ReqId |-> TotalLen(r)]
<1>1. /\ MakeRoom
      /\ preempted_count' = [preempted_count EXCEPT ![v] = @ + 1]
      /\ preemptions_total' = preemptions_total + 1
      /\ \/ lost' = lost + TotalLen(v) \/ lost' = lost + TotalLen(v) - 1
      /\ UNCHANGED <<partition, steps, requests, retiring, finished, scrape>>
  <2>1. lost' = lost + TotalLen(v) - IF v \in ToSet(Tail(work)) THEN 0 ELSE 1
    BY DEF MMakeRoom
  <2>2. TotalLen(v) \in Int /\ lost \in Int
    BY MakeRoomEffect, LiveAreIds DEF TotalLen, MetricsInv, MetricsTypes, MMakeRoom
  <2> QED
    BY <2>1, <2>2 DEF MMakeRoom, Counted
<1>2. /\ v \in Running /\ v \in ReqId /\ v \notin Waiting
      /\ seqs[v].outputs > 0 /\ Serving /\ Serving' /\ Growing /\ work # << >>
      /\ Live' = Live /\ Running' = Running \ {v} /\ seq_counter' = seq_counter
      /\ \A q \in ReqId : /\ q # v => seqs'[q] = seqs[q]
                          /\ seqs'[q].outputs = seqs[q].outputs
                          /\ seqs'[q].prompt = seqs[q].prompt
      /\ seqs'[v].preempted = TRUE /\ seqs'[v].status = "WAITING"
      /\ \/ v = Head(work) /\ pc' = "loop" /\ work' = Tail(work)
         \/ v # Head(work) /\ pc' = "retry" /\ work' = work
  BY <1>1, MakeRoomEffect
<1> HIDE DEF v
<1>3. retiring = << >> /\ retiring' = << >>
  BY <1>1, <1>2 DEF MetricsInv, RetiresOne, Growing
<1>4. /\ IsFiniteSet(Live) /\ Live \subseteq ReqId /\ v \in Live
      /\ Unaccounted = Live /\ Unaccounted' = Live /\ ~Calling /\ ~Calling'
      /\ Unrecorded = {} /\ Unrecorded' = {}
  BY <1>2, <1>3, UnaccountedFinite DEF MetricsInv, Unaccounted, Unrecorded, Live, Calling
<1>5. /\ preempted_count'[v] = preempted_count[v] + 1 /\ preempted_count' \in [ReqId -> Nat]
      /\ \A q \in ReqId : /\ q # v => preempted_count'[q] = preempted_count[q]
                          /\ preempted_count[q] \in Nat /\ preempted_count'[q] \in Nat
  BY <1>1, <1>2 DEF MetricsInv, MetricsTypes
<1>6. /\ \A q \in ReqId : lens[q] \in Int /\ lens[q] = TotalLen(q) /\ TotalLen(q)' = TotalLen(q)
      /\ lens' = lens
  BY <1>2, LiveAreIds DEF TotalLen
<1> HIDE DEF lens
<1>7. ToCome' = ToCome
  BY <1>2 DEF ToCome, Growing
<1>8. /\ Len(work) \in Nat /\ Len(work') \in Nat /\ Len(work') <= Len(work)
      /\ ToSet(work) = {Head(work)} \cup ToSet(Tail(work))
  BY <1>2, WorkParts
<1>9. MetricsTypes'
  <2>1. TotalLen(v) \in Int /\ lost \in Int /\ preemptions_total \in Int
    BY <1>2, <1>6 DEF MetricsInv, MetricsTypes
  <2> QED
    BY <1>1, <1>5, <2>1 DEF MetricsInv, MetricsTypes
<1>10. RetiresOne'
  BY <1>3 DEF RetiresOne
<1>11. CountsAgree'
  BY <1>2, <1>5 DEF MetricsInv, CountsAgree
<1>12. Accounts'
  <2>1. SumFunctionOnSet(preempted_count, Live)
          = preempted_count[v] + SumFunctionOnSet(preempted_count, Live \ {v})
    <3>1. \A q \in Live : preempted_count[q] \in Int
      BY <1>4, <1>5
    <3> QED
      BY <1>4, <3>1, SumOne
  <2>2. SumFunctionOnSet(preempted_count', Live)
          = preempted_count'[v] + SumFunctionOnSet(preempted_count', Live \ {v})
    <3>1. \A q \in Live : preempted_count'[q] \in Int
      BY <1>4, <1>5
    <3> QED
      BY <1>4, <3>1, SumOne
  <2>3. IsFiniteSet(Live \ {v}) /\ \A q \in Live \ {v} : /\ preempted_count[q] \in Int
                                 /\ preempted_count'[q] = preempted_count[q]
    BY <1>4, <1>5, FS_Subset
  <2>4. SumFunctionOnSet(preempted_count', Live \ {v})
          = SumFunctionOnSet(preempted_count, Live \ {v})
    BY <2>3, SumSame
  <2>5. SumFunctionOnSet(preempted_count, Live \ {v}) \in Int
    BY <2>3, SumIsInt
  <2>6. SumFunctionOnSet(preempted_count', Live) = SumFunctionOnSet(preempted_count, Live) + 1
    BY <1>2, <1>5, <2>1, <2>2, <2>4, <2>5
  <2>7. SumFunctionOnSet(preempted_count, Live) \in Int
    BY <1>2, <1>5, <2>1, <2>5
  <2>8. PreemptionsOf(requests) \in Int
    BY RecordSumsAreInts DEF MetricsInv
  <2>9. preemptions_total' = PreemptionsOf(requests) + SumFunctionOnSet(preempted_count', Live)
    BY <1>1, <1>4, <2>6, <2>7, <2>8 DEF MetricsInv, Accounts
  <2> QED
    BY <1>1, <1>2, <1>4, <2>9 DEF MetricsInv, Accounts
<1>13. PrefillsKnown'
  <2>1. \A q \in Live : seqs'[q].outputs > 0 /\ seqs'[q].status # "DECODE" => seqs'[q].preempted
    BY <1>2, <1>4 DEF MetricsInv, PrefillsKnown
  <2>2. \A q \in Running' : q \in Running /\ q # v /\ seqs'[q] = seqs[q]
    BY <1>2, LiveAreIds
  <2>3. \A q \in Running' : seqs'[q].status = "PREFILL" => q \in ToSet(work')
    BY <1>2, <1>8, <2>2 DEF MetricsInv, PrefillsKnown
  <2>4. Growing' => seqs'[Head(work')].status = "DECODE"
    <3>1. seqs[Head(work)].status = "DECODE" /\ Head(work) \in ReqId
      BY <1>2, RestOfWork DEF MetricsInv, PrefillsKnown
    <3> QED
      BY <1>2, <3>1 DEF Growing
  <2> QED
    BY <1>2, <2>1, <2>3, <2>4 DEF PrefillsKnown
<1>14. FreshAccounted'
  <2>1. \A q \in Live : \/ q \in Running' <=> q \in Running
                        \/ seqs[q].outputs > 0
    BY <1>2
  <2>2. Forwarded' = Forwarded
    BY <1>2, <1>4, <2>1 DEF Forwarded
  <2>3. \A q \in Forwarded : seqs'[q].prompt = seqs[q].prompt
    BY <1>2, <1>4 DEF Forwarded
  <2> QED
    BY <1>1, <1>2, <2>2, <2>3, FreshKept DEF MetricsInv
<1>15. RecomputeAccounted'
  <2>1. v \notin Resuming
    BY <1>2 DEF Resuming, SchedInv, StatusMatchesQueue
  <2>2. Resuming' = Resuming \cup {v}
    BY <1>2, <1>4, <1>5 DEF Resuming
  <2>3. IsFiniteSet(Resuming) /\ Resuming \subseteq ReqId
    BY <1>4, FS_Subset DEF Resuming
  <2>4. SumFunctionOnSet(lens, Resuming \cup {v}) = lens[v] + SumFunctionOnSet(lens, Resuming)
    <3>1. \A q \in Resuming \cup {v} : lens[q] \in Int
      BY <1>2, <1>6, <2>3
    <3> QED
      BY <2>1, <2>3, <3>1, SumAdd
  <2>5. SumFunctionOnSet(lens, Resuming) \in Int
    BY <1>6, <2>3, SumIsInt
  <2>6. /\ TotalLens(Resuming) = SumFunctionOnSet(lens, Resuming)
        /\ TotalLens(Resuming)' = SumFunctionOnSet(lens, Resuming \cup {v})
    BY <1>6, <2>2 DEF TotalLens, lens
  <2>7. /\ steps.recompute \in Int /\ partition.recompute \in Int /\ lens[v] \in Int
        /\ lost \in Int /\ preemptions_total \in Int
    BY <1>2, <1>6 DEF MetricsInv, MetricsTypes, StepRecord
  <2>8. RecomputeOwed \in Int /\ RecomputeOwed' = RecomputeOwed + lens[v]
    BY <1>1, <2>4, <2>5, <2>6, <2>7 DEF RecomputeOwed
  <2>9. lost' = lost + lens[v] \/ lost' = lost + lens[v] - 1
    BY <1>1, <1>2, <1>6
  <2>10. lost <= RecomputeOwed /\ RecomputeOwed <= lost + preemptions_total
    BY DEF MetricsInv, RecomputeAccounted
  <2>11. lost' <= RecomputeOwed' /\ RecomputeOwed' <= lost' + preemptions_total'
    BY <1>1, <2>7, <2>8, <2>9, <2>10
  <2> QED
    BY <2>11 DEF RecomputeAccounted
<1>16. OutputsInSteps'
  BY <1>1, <1>2, <1>4, <1>7 DEF MetricsInv, OutputsInSteps
<1>17. RetiredInSteps'
  <2>1. Cardinality(Unrecorded) = 0
    BY <1>4, FS_EmptySet
  <2>2. Len(requests) \in Nat /\ MaxBatch * (steps.total + 1) \in Int
    BY SchedulerAssumption DEF MetricsInv, MetricsTypes
  <2> QED
    BY <1>1, <1>2, <1>4, <1>8, <2>1, <2>2 DEF MetricsInv, RetiredInSteps
<1>18. ScrapeAgrees'
  BY <1>1, <1>9, ScrapeKept DEF MetricsInv, MetricsTypes
<1> QED
  BY <1>9, <1>10, <1>11, <1>12, <1>13, <1>14, <1>15, <1>16, <1>17, <1>18 DEF MetricsInv

(* The record, and then the callback, of a _finish() call. *)
LEMMA RetireKeeps ==
  ASSUME SchedInv, MetricsInv, Retire
  PROVE  MetricsInv'
<1> DEFINE record == Head(retiring).does = "record_request"
<1>1. /\ retiring # << >> /\ retiring' = Tail(retiring)
      /\ UNCHANGED <<vars, preempted_count, preemptions_total, lost, partition, steps, scrape>>
  BY DEF Retire
<1>2. UNCHANGED <<waiting, running, seqs, seq_counter, pc, work>>
  BY <1>1 DEF vars, sched_vars
<1>3. PICK r \in ReqId : /\ r \notin Live /\ seqs[r].outputs > 0 /\ pc = "loop"
                         /\ retiring = Calls(r) \/ retiring = Tail(Calls(r))
  BY <1>1 DEF MetricsInv, RetiresOne
<1>4. /\ Live' = Live /\ Running' = Running /\ Waiting' = Waiting
      /\ Serving /\ Serving' /\ ~Growing /\ ~Growing' /\ ToCome' = ToCome
  BY <1>2, <1>3 DEF Live, Waiting, Running, Serving, Growing, ToCome
<1>5. /\ IsFiniteSet(Live) /\ Live \subseteq ReqId /\ Cardinality(Live) \in Nat
  BY UnaccountedFinite DEF MetricsInv
<1>6. /\ seqs[r].outputs \in Nat /\ seqs[r].prompt \in Nat /\ steps.total \in Nat
      /\ requests \in Seq(RequestRecord) /\ finished \in Seq(Nat)
      /\ preempted_count \in [ReqId -> Nat] /\ seq_counter \in Nat
  BY <1>3, LiveAreIds DEF MetricsInv, MetricsTypes, SchedInv, TypeOK
<1>7. CountsAgree'
  BY <1>1, <1>2 DEF MetricsInv, CountsAgree
<1>8. PrefillsKnown'
  BY <1>2, <1>4 DEF MetricsInv, PrefillsKnown
<1>9. RecomputeAccounted'
  <2>1. Resuming' = Resuming
    BY <1>1, <1>2, <1>4 DEF Resuming
  <2>2. \A q \in Resuming : TotalLen(q)' = TotalLen(q)
    BY <1>2 DEF TotalLen
  <2> QED
    BY <1>1, <2>1, <2>2, RecomputeKept DEF MetricsInv
<1>10. CASE retiring = Calls(r)
  <2>1. /\ retiring' = Tail(Calls(r)) /\ Head(retiring) = [req |-> r, does |-> "record_request"]
        /\ retiring' # << >> /\ Head(retiring') = [req |-> r, does |-> "on_finish"]
    BY <1>1, <1>10, CallsShape
  <2>2. /\ Unrecorded = {r} /\ Unrecorded' = {} /\ Unaccounted = Live \cup {r}
        /\ Unaccounted' = Live /\ ~Calling /\ Calling'
    BY <1>1, <1>4, <2>1 DEF Unrecorded, Unaccounted, Calling
  <2> DEFINE x == Record(r)
  <2>3. requests' = Append(requests, x) /\ finished' = finished
    BY <2>1 DEF Retire
  <2>4. /\ x \in RequestRecord /\ x.output_len = seqs[r].outputs /\ x.prompt_len = seqs[r].prompt
        /\ x.preempted_count = preempted_count[r]
    BY <1>3, <1>6 DEF Record, RequestRecord
  <2> HIDE DEF x
  <2>5. /\ requests' \in Seq(RequestRecord) /\ Len(requests') = Len(requests) + 1
        /\ Len(requests) \in Nat /\ requests'[Len(requests) + 1] = x
        /\ \A i \in 1 .. Len(requests) : requests'[i] = requests[i]
    BY <1>6, <2>3, <2>4, AppendProperties
  <2>6. /\ PreemptionsOf(requests') = PreemptionsOf(requests) + preempted_count[r]
        /\ PromptsOf(requests') = PromptsOf(requests) + seqs[r].prompt
        /\ PreemptionsOf(requests) \in Int /\ PromptsOf(requests) \in Int
    BY <1>6, <2>3, <2>4, FieldSums
  <2>7. MetricsTypes'
    BY <1>1, <2>3, <2>5 DEF MetricsInv, MetricsTypes
  <2>8. RetiresOne'
    BY <1>2, <1>3, <1>4, <2>1 DEF RetiresOne, Calls
  <2>9. Accounts'
    <3>1. Cardinality(Live \cup {r}) = Cardinality(Live) + 1
      BY <1>3, <1>5, FS_AddElement
    <3>2. Len(requests) = seq_counter - Cardinality(Live \cup {r})
      BY <2>2 DEF MetricsInv, Accounts
    <3>3. Len(requests') = seq_counter' - Cardinality(Unaccounted')
      BY <1>2, <1>5, <1>6, <2>2, <2>5, <3>1, <3>2
    <3>4. Len(finished') = Len(requests') - 1
      <4>1. Len(finished) = Len(requests)
        BY <2>2 DEF MetricsInv, Accounts
      <4> QED
        BY <2>3, <2>5, <4>1
    <3>5. \A i \in 1 .. Len(finished') : requests'[i].output_len = finished'[i]
      <4>1. Len(finished) = Len(requests)
        BY <2>2 DEF MetricsInv, Accounts
      <4> QED
        BY <2>3, <2>5, <4>1 DEF MetricsInv, Accounts
    <3>6. requests'[Len(requests')].output_len = seqs'[Head(retiring').req].outputs
      BY <1>2, <2>1, <2>4, <2>5
    <3>7. SumFunctionOnSet(preempted_count, Live \cup {r})
            = preempted_count[r] + SumFunctionOnSet(preempted_count, Live)
      <4>1. \A q \in Live \cup {r} : preempted_count[q] \in Int
        BY <1>3, <1>5, <1>6
      <4> QED
        BY <1>3, <1>5, <4>1, SumAdd
    <3>8. SumFunctionOnSet(preempted_count, Live) \in Int
      BY <1>5, <1>6, SumIsInt
    <3>9. preemptions_total = PreemptionsOf(requests)
                                + SumFunctionOnSet(preempted_count, Live \cup {r})
      BY <2>2 DEF MetricsInv, Accounts
    <3>10. preempted_count[r] \in Int
      BY <1>3, <1>6
    <3>11. preemptions_total = PreemptionsOf(requests') + SumFunctionOnSet(preempted_count, Live)
      BY <2>6, <3>7, <3>8, <3>9, <3>10
    <3> QED
      BY <1>1, <2>2, <3>3, <3>4, <3>5, <3>6, <3>11 DEF Accounts
  <2>10. FreshAccounted'
    <3>1. Forwarded = Forwarded' \cup {r} /\ r \notin Forwarded'
      BY <1>2, <1>3, <1>4, <2>2 DEF Forwarded
    <3>2. IsFiniteSet(Forwarded') /\ Forwarded' \subseteq ReqId
      BY <1>5, <2>2, FS_Subset DEF Forwarded
    <3>3. /\ \A q \in ReqId : PromptLen[q] \in Int
          /\ PromptLen[r] = seqs[r].prompt /\ PromptLen' = PromptLen
      BY <1>2, <1>3, LiveAreIds DEF PromptLen
    <3>4. SumFunctionOnSet(PromptLen, Forwarded' \cup {r})
            = PromptLen[r] + SumFunctionOnSet(PromptLen, Forwarded')
      <4>1. \A q \in Forwarded' \cup {r} : PromptLen[q] \in Int
        BY <1>3, <3>2, <3>3
      <4> QED
        BY <3>1, <3>2, <4>1, SumAdd
    <3>5. SumFunctionOnSet(PromptLen, Forwarded') \in Int
      BY <3>2, <3>3, SumIsInt
    <3>6. steps.fresh + partition.fresh
            = PromptsOf(requests) + SumFunctionOnSet(PromptLen, Forwarded' \cup {r})
      BY <3>1 DEF MetricsInv, FreshAccounted
    <3>7. steps.fresh + partition.fresh
            = PromptsOf(requests') + SumFunctionOnSet(PromptLen, Forwarded')
      BY <1>6, <2>6, <3>3, <3>4, <3>5, <3>6
    <3> QED
      BY <1>1, <1>4, <3>3, <3>7 DEF FreshAccounted
  <2>11. OutputsInSteps'
    BY <1>1, <1>2, <1>4, <2>3 DEF MetricsInv, OutputsInSteps
  <2>12. RetiredInSteps'
    <3>1. Cardinality(Unrecorded) = 1 /\ Cardinality(Unrecorded') = 0
      BY <2>2, FS_EmptySet, FS_Singleton
    <3>2. Len(work) \in Nat /\ MaxBatch * (steps.total + 1) \in Int
      BY <1>6, WorkParts, SchedulerAssumption
    <3> QED
      BY <1>1, <1>2, <1>4, <2>5, <3>1, <3>2 DEF MetricsInv, RetiredInSteps
  <2>13. ScrapeAgrees'
    <3>1. Len(requests') >= Len(requests) /\ Len(finished') >= Len(finished)
      BY <1>6, <2>3, <2>5
    <3> QED
      BY <1>1, <2>3, <2>7, <3>1, ScrapeKept DEF MetricsInv
  <2> QED
    BY <1>7, <1>8, <1>9, <2>7, <2>8, <2>9, <2>10, <2>11, <2>12, <2>13 DEF MetricsInv
<1>11. CASE retiring = Tail(Calls(r))
  <2>1. Head(retiring) = [req |-> r, does |-> "on_finish"] /\ retiring' = << >>
    BY <1>1, <1>11, CallsShape
  <2>2. /\ Unrecorded = {} /\ Unrecorded' = {} /\ Unaccounted = Live
        /\ Unaccounted' = Live /\ Calling /\ ~Calling'
    BY <1>1, <1>4, <2>1 DEF Unrecorded, Unaccounted, Calling
  <2>3. finished' = Append(finished, seqs[r].outputs) /\ requests' = requests
    BY <2>1 DEF Retire
  <2>4. /\ finished' \in Seq(Nat) /\ Len(finished') = Len(finished) + 1
        /\ Len(finished) \in Nat /\ finished'[Len(finished) + 1] = seqs[r].outputs
        /\ \A i \in 1 .. Len(finished) : finished'[i] = finished[i]
    BY <1>6, <2>3, AppendProperties
  <2>5. MetricsTypes'
    BY <1>1, <2>3, <2>4 DEF MetricsInv, MetricsTypes
  <2>6. RetiresOne'
    BY <2>1 DEF RetiresOne
  <2>7. Accounts'
    <3>1. Len(finished) = Len(requests) - 1 /\ Len(requests) \in Nat
      BY <1>6, <2>2 DEF MetricsInv, Accounts
    <3>2. requests[Len(requests)].output_len = seqs[r].outputs
      BY <2>1, <2>2 DEF MetricsInv, Accounts
    <3>3. \A i \in 1 .. Len(finished) : requests[i].output_len = finished[i]
      BY DEF MetricsInv, Accounts
    <3>4. \A i \in 1 .. Len(finished') : i \in 1 .. Len(finished) \/ i = Len(finished) + 1
      BY <2>4
    <3>5. \A i \in 1 .. Len(finished') : requests'[i].output_len = finished'[i]
      BY <2>3, <2>4, <3>1, <3>2, <3>3, <3>4
    <3> QED
      BY <1>1, <1>2, <2>2, <2>3, <2>4, <3>1, <3>5 DEF MetricsInv, Accounts
  <2>8. FreshAccounted'
    <3>1. Forwarded' = Forwarded
      BY <1>2, <1>4, <2>2 DEF Forwarded
    <3> QED
      BY <1>1, <1>2, <1>4, <2>3, <3>1, FreshKept DEF MetricsInv
  <2>9. OutputsInSteps'
    <3>1. \A i \in 1 .. Len(finished') : finished'[i] <= steps.total + 1
      <4>1. \A i \in 1 .. Len(finished') : i \in 1 .. Len(finished) \/ i = Len(finished) + 1
        BY <2>4
      <4>2. seqs[r].outputs <= steps.total + 1
        BY <1>3 DEF MetricsInv, OutputsInSteps
      <4> QED
        BY <2>4, <4>1, <4>2 DEF MetricsInv, OutputsInSteps
    <3> QED
      BY <1>1, <1>2, <1>4, <3>1 DEF MetricsInv, OutputsInSteps
  <2>10. RetiredInSteps'
    BY <1>1, <1>2, <1>4, <2>2, <2>3 DEF MetricsInv, RetiredInSteps
  <2>11. ScrapeAgrees'
    <3>1. Len(requests') >= Len(requests) /\ Len(finished') >= Len(finished)
      BY <1>6, <2>3, <2>4
    <3> QED
      BY <1>1, <2>4, <2>5, <3>1, ScrapeKept DEF MetricsInv
  <2> QED
    BY <1>7, <1>8, <1>9, <2>5, <2>6, <2>7, <2>8, <2>9, <2>10, <2>11 DEF MetricsInv
<1> QED
  BY <1>3, <1>10, <1>11

LEMMA MStepEndsKeeps ==
  ASSUME SchedInv, OrderInv, MetricsInv, MStepEnds
  PROVE  MetricsInv'
<1>1. /\ retiring = << >> /\ retiring' = << >> /\ StepEnds
      /\ steps' = [total |-> steps.total + 1, fresh |-> steps.fresh + partition.fresh,
                   recompute |-> steps.recompute + partition.recompute, last |-> partition]
      /\ partition' = NoWork
      /\ UNCHANGED <<preempted_count, preemptions_total, lost, requests, finished, scrape>>
  BY DEF MStepEnds
<1>2. /\ Serving /\ ~Serving' /\ pc = "loop" /\ pc' = "idle" /\ work = << >>
      /\ Live' = Live /\ Running' = Running /\ seqs' = seqs /\ seq_counter' = seq_counter
      /\ ToSet(work) = {} /\ \A r \in Running : seqs[r].outputs > 0
  BY <1>1, StepEndsEffect
<1>3. /\ IsFiniteSet(Live) /\ Live \subseteq ReqId
      /\ Unaccounted = Live /\ Unaccounted' = Live
      /\ Unrecorded = {} /\ Unrecorded' = {} /\ ~Growing'
  BY <1>1, <1>2, UnaccountedFinite DEF MetricsInv, Unaccounted, Unrecorded, Growing
<1>4. /\ steps.total \in Nat /\ steps.fresh \in Int /\ steps.recompute \in Int
      /\ partition \in StepRecord /\ partition.fresh \in Int /\ partition.recompute \in Int
      /\ Len(requests) \in Nat
  BY DEF MetricsInv, MetricsTypes, StepRecord
<1>5. /\ NoWork \in StepRecord /\ NoWork.fresh = 0 /\ NoWork.recompute = 0
  BY DEF NoWork, StepRecord
<1>6. MetricsTypes'
  <2>1. steps' \in [total : Nat, fresh : Int, recompute : Int, last : StepRecord]
    BY <1>1, <1>4
  <2> QED
    BY <1>1, <1>5, <2>1 DEF MetricsInv, MetricsTypes
<1>7. RetiresOne'
  BY <1>1 DEF RetiresOne
<1>8. CountsAgree'
  BY <1>1, <1>2 DEF MetricsInv, CountsAgree
<1>9. Accounts'
  BY <1>1, <1>2, AccountsKept DEF MetricsInv
<1>10. \A r \in Running : seqs[r].status # "PREFILL"
  BY <1>2 DEF MetricsInv, PrefillsKnown
<1>11. PrefillsKnown'
  BY <1>2, <1>3, <1>10 DEF MetricsInv, PrefillsKnown
<1>12. FreshAccounted'
  <2>1. Forwarded' = Forwarded
    BY <1>2, <1>3 DEF Forwarded
  <2>2. PromptLen' = PromptLen
    BY <1>2 DEF PromptLen
  <2>3. steps'.fresh + partition'.fresh = steps.fresh + partition.fresh
    BY <1>1, <1>4, <1>5
  <2> QED
    BY <1>1, <2>1, <2>2, <2>3 DEF MetricsInv, FreshAccounted
<1>13. RecomputeAccounted'
  <2>1. \A r \in Live : seqs[r].status # "PREFILL"
    BY <1>3, <1>10 DEF SchedInv, StatusMatchesQueue
  <2>2. Resuming' = Resuming
    BY <1>1, <1>2, <2>1 DEF Resuming
  <2>3. TotalLens(Resuming)' = TotalLens(Resuming)
    BY <1>2, <2>2 DEF TotalLens, TotalLen
  <2>4. steps'.recompute + partition'.recompute = steps.recompute + partition.recompute
    BY <1>1, <1>4, <1>5
  <2> QED
    BY <1>1, <2>3, <2>4 DEF MetricsInv, RecomputeAccounted, RecomputeOwed
<1>14. OutputsInSteps'
  <2>1. steps'.total = steps.total + 1
    BY <1>1
  <2>2. \A r \in ReqId : seqs[r].outputs <= steps.total + 1 /\ seqs[r].outputs \in Nat
    BY LiveAreIds DEF MetricsInv, OutputsInSteps
  <2>3. \A i \in 1 .. Len(finished) : finished[i] <= steps.total + 1 /\ finished[i] \in Nat
    BY DEF MetricsInv, OutputsInSteps, MetricsTypes
  <2> QED
    BY <1>1, <1>2, <1>3, <1>4, <2>1, <2>2, <2>3 DEF OutputsInSteps
<1>15. RetiredInSteps'
  <2>1. Cardinality(Unrecorded) = 0 /\ Cardinality(Unrecorded') = 0
    BY <1>3, FS_EmptySet
  <2>2. Len(work) = 0
    BY <1>2
  <2>3. Len(requests) + 0 + 0 <= MaxBatch * (steps.total + 1)
    BY <1>2, <2>1, <2>2 DEF MetricsInv, RetiredInSteps
  <2>4. steps'.total + 0 = steps.total + 1
    BY <1>1, <1>4
  <2> QED
    BY <1>1, <1>2, <2>1, <2>3, <2>4 DEF RetiredInSteps
<1>16. ScrapeAgrees'
  BY <1>1, <1>6, ScrapeKept DEF MetricsInv, MetricsTypes
<1> QED
  BY <1>6, <1>7, <1>8, <1>9, <1>11, <1>12, <1>13, <1>14, <1>15, <1>16 DEF MetricsInv

(* Whatever leaves the scheduler and its records alone. *)
LEMMA ReadersKeep ==
  ASSUME MetricsInv, ScrapeAgrees',
         UNCHANGED <<vars, preempted_count, preemptions_total, lost, partition, steps,
                     requests, retiring, finished>>
  PROVE  MetricsInv'
<1>1. UNCHANGED <<waiting, running, seqs, seq_counter, pc, work>>
  BY DEF vars, sched_vars
<1>2. /\ Live' = Live /\ Running' = Running /\ Waiting' = Waiting
      /\ Serving' = Serving /\ Growing' = Growing /\ ToCome' = ToCome
  BY <1>1 DEF Live, Waiting, Running, Serving, Growing, ToCome
<1>3. /\ Unaccounted' = Unaccounted /\ Unrecorded' = Unrecorded /\ Calling' = Calling
  BY <1>2 DEF Unaccounted, Unrecorded, Calling
<1>4. Forwarded' = Forwarded /\ PromptLen' = PromptLen
  BY <1>1, <1>2, <1>3 DEF Forwarded, PromptLen
<1>5. TotalLens(Resuming)' = TotalLens(Resuming)
  BY <1>1, <1>2 DEF Resuming, TotalLens, TotalLen
<1>6. MetricsTypes' /\ RetiresOne'
  BY <1>1, <1>2 DEF MetricsInv, MetricsTypes, RetiresOne, Calls
<1>7. CountsAgree'
  BY <1>1 DEF MetricsInv, CountsAgree
<1>8. Accounts'
  BY <1>1, <1>3 DEF MetricsInv, Accounts
<1>9. PrefillsKnown'
  BY <1>1, <1>2 DEF MetricsInv, PrefillsKnown
<1>10. FreshAccounted'
  BY <1>2, <1>4 DEF MetricsInv, FreshAccounted
<1>11. RecomputeAccounted'
  BY <1>5 DEF MetricsInv, RecomputeAccounted, RecomputeOwed
<1>12. OutputsInSteps'
  BY <1>1, <1>2 DEF MetricsInv, OutputsInSteps
<1>13. RetiredInSteps'
  BY <1>1, <1>2, <1>3 DEF MetricsInv, RetiredInSteps
<1> QED
  BY <1>6, <1>7, <1>8, <1>9, <1>10, <1>11, <1>12, <1>13 DEF MetricsInv

LEMMA ScrapeBeginsKeeps ==
  ASSUME MetricsInv, ScrapeBegins
  PROVE  MetricsInv'
<1>1. /\ scrape' = [at |-> "reading", seen |-> finished, got |-> << >>]
      /\ UNCHANGED <<vars, preempted_count, preemptions_total, lost, partition, steps,
                     requests, retiring, finished>>
  BY DEF ScrapeBegins
<1>2. finished \in Seq(Nat) /\ Len(finished) \in Nat
  BY DEF MetricsInv, MetricsTypes
<1>3. /\ scrape'.at = "reading" /\ scrape'.seen = finished /\ scrape'.got = << >>
      /\ scrape' \in [at : {"reading"}, seen : Seq(Nat), got : Seq(Nat)]
  BY <1>1, <1>2
<1>4. ScrapeAgrees'
  BY <1>1, <1>2, <1>3 DEF ScrapeAgrees
<1> QED
  BY <1>1, <1>4, ReadersKeep

(* What the reads may rely on at any point. *)
LEMMA RecordsInSteps ==
  ASSUME SchedInv, MetricsInv
  PROVE  /\ Len(requests) <= MaxBatch * (steps.total + 1)
         /\ Len(requests) >= Len(finished)
<1>1. /\ Len(requests) \in Nat /\ Len(work) \in Nat /\ MaxBatch \in Nat
      /\ steps.total \in Nat
  BY WorkParts, SchedulerAssumption DEF MetricsInv, MetricsTypes
<1>2. Cardinality(Unrecorded) \in Nat
  <2>1. IsFiniteSet(Unrecorded)
    BY FS_EmptySet, FS_Singleton DEF Unrecorded
  <2> QED
    BY <2>1, FS_CardinalityType
<1>3. /\ MaxBatch * (steps.total + 0) + MaxBatch = MaxBatch * (steps.total + 1)
      /\ MaxBatch * (steps.total + 0) \in Int /\ MaxBatch * (steps.total + 1) \in Int
  BY <1>1
<1>4. Len(requests) >= Len(finished)
  <2>1. Len(finished) = Len(requests) - 1 \/ Len(finished) = Len(requests)
    BY DEF MetricsInv, Accounts
  <2> QED
    BY <1>1, <2>1
<1>5. CASE Serving
  <2>1. Len(requests) + Cardinality(Unrecorded) + Len(work) <= MaxBatch * (steps.total + 1)
    BY <1>5 DEF MetricsInv, RetiredInSteps
  <2>2. \A a, b, c \in Nat, d \in Int : a + b + c <= d => a <= d
    OBVIOUS
  <2> QED
    BY <1>1, <1>2, <1>3, <1>4, <2>1, <2>2
<1>6. CASE ~Serving
  <2>1. Len(requests) + Cardinality(Unrecorded) + 0 <= MaxBatch * (steps.total + 0)
    BY <1>6 DEF MetricsInv, RetiredInSteps
  <2>2. \A a, b, c \in Nat, d, e \in Int : a + b + 0 <= d /\ d + c = e => a <= e
    OBVIOUS
  <2> QED
    BY <1>1, <1>2, <1>3, <1>4, <2>1, <2>2
<1> QED
  BY <1>5, <1>6

LEMMA ScrapeReadsKeeps ==
  ASSUME SchedInv, MetricsInv, ScrapeReads
  PROVE  MetricsInv'
<1>1. /\ scrape.at = "reading"
      /\ IF Len(scrape.got) < Len(ScrapeOrder)
         THEN scrape' = [scrape EXCEPT !.got = Append(@, Field(ScrapeOrder[Len(@) + 1]))]
         ELSE scrape' = [at |-> "none"]
      /\ UNCHANGED <<vars, preempted_count, preemptions_total, lost, partition, steps,
                     requests, retiring, finished>>
  BY DEF ScrapeReads
<1>2. Len(ScrapeOrder) = 3 /\ ScrapeOrder[2] = "requests_finished" /\ ScrapeOrder[3] = "steps_total"
      /\ ScrapeOrder[1] = "preemptions_total"
  BY DEF ScrapeOrder
<1>3. /\ finished \in Seq(Nat) /\ Len(finished) \in Nat /\ Len(requests) \in Nat
      /\ steps.total \in Nat /\ preemptions_total \in Nat
  BY DEF MetricsInv, MetricsTypes
<1> DEFINE n == Len(scrape.got)
           x == Field(ScrapeOrder[n + 1])
<1>4. CASE ~(n < 3)
  <2>1. scrape' = [at |-> "none"]
    BY <1>1, <1>2, <1>4
  <2>2. ScrapeAgrees'
    BY <2>1 DEF ScrapeAgrees
  <2> QED
    BY <1>1, <2>2, ReadersKeep
<1>5. CASE n < 3
  <2>1. /\ scrape \in [at : {"reading"}, seen : Seq(Nat), got : Seq(Nat)]
        /\ Len(scrape.got) <= 3 /\ Len(scrape.seen) <= Len(finished)
        /\ \A i \in 1 .. Len(scrape.seen) : scrape.seen[i] = finished[i]
        /\ Len(scrape.got) >= 2 =>
             scrape.got[2] >= Len(scrape.seen) /\ scrape.got[2] <= Len(requests)
    BY <1>1 DEF MetricsInv, ScrapeAgrees
  <2>2. n \in 0 .. 2 /\ scrape.got \in Seq(Nat) /\ Len(scrape.seen) \in Nat
    <3>1. scrape.got \in Seq(Nat) /\ scrape.seen \in Seq(Nat)
      BY <2>1
    <3>2. n \in Nat /\ Len(scrape.seen) \in Nat
      BY <3>1
    <3> HIDE DEF n
    <3>3. n \in 0 .. 2
      BY <1>5, <3>2
    <3> QED
      BY <3>1, <3>2, <3>3
  <2>3. /\ n = 0 => x = preemptions_total
        /\ n = 1 => x = Len(requests)
        /\ n = 2 => x = steps.total
    <3>1. /\ Field("preemptions_total") = preemptions_total
          /\ Field("requests_finished") = Len(requests)
          /\ Field("steps_total") = steps.total
      BY DEF Field
    <3>2. /\ n = 0 => ScrapeOrder[n + 1] = "preemptions_total"
          /\ n = 1 => ScrapeOrder[n + 1] = "requests_finished"
          /\ n = 2 => ScrapeOrder[n + 1] = "steps_total"
      <4> HIDE DEF n
      <4>1. 0 + 1 = 1 /\ 1 + 1 = 2 /\ 2 + 1 = 3
        OBVIOUS
      <4> QED
        BY <1>2, <4>1
    <3> QED
      BY <3>1, <3>2
  <2>4. x \in Nat
    BY <1>3, <2>2, <2>3
  <2>5. scrape' = [scrape EXCEPT !.got = Append(scrape.got, x)]
    BY <1>1, <1>2, <1>5
  <2> HIDE DEF x
  <2>6. /\ scrape'.at = "reading" /\ scrape'.seen = scrape.seen
        /\ scrape'.got = Append(scrape.got, x)
    BY <2>1, <2>5
  <2>7. /\ scrape'.got \in Seq(Nat) /\ Len(scrape'.got) = n + 1 /\ scrape'.got[n + 1] = x
        /\ \A i \in 1 .. n : scrape'.got[i] = scrape.got[i]
    BY <2>2, <2>4, <2>6, AppendProperties
  <2>8. scrape' \in [at : {"reading"}, seen : Seq(Nat), got : Seq(Nat)]
    <3>1. scrape' \in [at : {"reading"}, seen : Seq(Nat), got : {scrape'.got}]
      BY <2>1, <2>5, <2>6
    <3> QED
      BY <2>7, <3>1
  <2>9. n + 1 >= 2 => scrape'.got[2] >= Len(scrape'.seen) /\ scrape'.got[2] <= Len(requests)
    <3>1. CASE n = 1
      <4>1. Len(requests) >= Len(finished)
        BY RecordsInSteps
      <4> QED
        BY <1>3, <2>1, <2>2, <2>3, <2>6, <2>7, <3>1, <4>1
    <3>2. CASE n = 2
      BY <2>1, <2>6, <2>7, <3>2
    <3> QED
      BY <2>2, <3>1, <3>2
  <2>10. n + 1 = 3 => /\ \A i \in 1 .. Len(scrape'.seen) : scrape'.got[3] >= scrape'.seen[i] - 1
                      /\ scrape'.got[2] <= MaxBatch * (scrape'.got[3] + 1)
    <3> SUFFICES ASSUME n = 2
                 PROVE  /\ \A i \in 1 .. Len(scrape.seen) : steps.total >= scrape.seen[i] - 1
                        /\ scrape.got[2] <= MaxBatch * (steps.total + 1)
      BY <2>2, <2>3, <2>6, <2>7
    <3>1. \A i \in 1 .. Len(scrape.seen) : scrape.seen[i] \in Nat /\ scrape.seen[i] <= steps.total + 1
      <4>1. \A i \in 1 .. Len(scrape.seen) : i \in 1 .. Len(finished) /\ scrape.seen[i] = finished[i]
        BY <1>3, <2>1, <2>2
      <4>2. \A i \in 1 .. Len(finished) : finished[i] \in Nat /\ finished[i] <= steps.total + 1
        <5>1. \A i \in 1 .. Len(finished) : finished[i] \in Nat
          BY <1>3
        <5> QED
          BY <5>1 DEF MetricsInv, OutputsInSteps
      <4> QED
        BY <4>1, <4>2
    <3>2. Len(requests) <= MaxBatch * (steps.total + 1)
      BY RecordsInSteps
    <3>3. scrape.got[2] \in Nat /\ MaxBatch * (steps.total + 1) \in Int
      BY <1>3, <2>2, SchedulerAssumption
    <3>4. \A i \in 1 .. Len(scrape.seen) : steps.total >= scrape.seen[i] - 1
      <4>1. \A a, b \in Nat : a <= b + 1 => b >= a - 1
        OBVIOUS
      <4> QED
        BY <1>3, <3>1, <4>1
    <3>5. scrape.got[2] <= Len(requests)
      BY <2>1
    <3> QED
      BY <1>3, <3>2, <3>3, <3>4, <3>5
  <2>11. Len(scrape'.seen) <= Len(finished') /\ \A i \in 1 .. Len(scrape'.seen) : scrape'.seen[i] = finished'[i]
    BY <1>1, <2>1, <2>6
  <2>12. ScrapeAgrees'
    <3> HIDE DEF n
    <3>1. Len(scrape'.got) <= 3 /\ Len(scrape'.got) = n + 1 /\ requests' = requests
      BY <1>1, <2>2, <2>7
    <3> QED
      BY <2>8, <2>9, <2>10, <2>11, <3>1 DEF ScrapeAgrees
  <2> QED
    BY <1>1, <2>12, ReadersKeep
<1> QED
  BY <1>4, <1>5

-----------------------------------------------------------------------------
(***************************************************************************)
(* Any caller: it submits whatever it likes between two steps, any sampled *)
(* token may be EOS, and a client may scrape at any time.                  *)
(***************************************************************************)
CallerNext ==
  \/ \E r \in ReqId, p \in Int, m \in Int : MSubmit(r, p, m)
  \/ MStepBegins \/ StepGoesOn
  \/ \E r \in ReqId, eos \in BOOLEAN : MSampleNext(r, eos) \/ MSampleLast(r, eos)
  \/ ScrapeBegins \/ ScrapeReads

CallerSpec == MetricsInit /\ [][CallerNext]_all_vars

CallerInv == SchedInv /\ OrderInv /\ MetricsInv

LEMMA MetricsInitInv ==
  ASSUME MetricsInit
  PROVE  CallerInv
<1>1. /\ Init /\ preempted_count = [r \in ReqId |-> 0] /\ preemptions_total = 0 /\ lost = 0
      /\ partition = NoWork
      /\ steps = [total |-> 0, fresh |-> 0, recompute |-> 0, last |-> NoWork]
      /\ requests = << >> /\ retiring = << >> /\ finished = << >>
      /\ scrape = [at |-> "none"]
  BY DEF MetricsInit
<1>2. SchedInv /\ OrderInv
  BY <1>1, InitInv, InitOrder
<1>3. /\ waiting = << >> /\ running = << >> /\ work = << >> /\ pc = "idle"
      /\ seqs = [r \in ReqId |-> Absent] /\ seq_counter = 0
  BY <1>1 DEF Init
<1>4. /\ Live = {} /\ Running = {} /\ Unaccounted = {} /\ Unrecorded = {} /\ ~Calling
      /\ ~Serving /\ ~Growing
  BY <1>1, <1>3 DEF Live, Waiting, Running, ToSet, Unaccounted, Unrecorded, Calling,
                    Serving, Growing
<1>5. \A r \in ReqId : /\ seqs[r].outputs = 0 /\ seqs[r].preempted = FALSE
                       /\ preempted_count[r] = 0
  BY <1>1, <1>3 DEF Absent
<1>6. MetricsTypes
  <2>1. NoWork \in StepRecord
    BY DEF NoWork, StepRecord
  <2> QED
    BY <1>1, <2>1 DEF MetricsTypes
<1>7. RetiresOne /\ CountsAgree
  BY <1>1, <1>5 DEF RetiresOne, CountsAgree
<1>8. PreemptionsOf(requests) = 0 /\ PromptsOf(requests) = 0
  <2>1. DOMAIN requests = {}
    BY <1>1
  <2> QED
    BY <2>1, SumEmpty DEF PreemptionsOf, PromptsOf, SumFunction
<1>9. Accounts
  <2>1. Cardinality(Unaccounted) = 0 /\ SumFunctionOnSet(preempted_count, Unaccounted) = 0
    BY <1>4, FS_EmptySet, SumEmpty
  <2>2. Len(requests) = 0 /\ Len(finished) = 0
    BY <1>1
  <2> QED
    BY <1>1, <1>3, <1>4, <1>8, <2>1, <2>2 DEF Accounts
<1>10. PrefillsKnown
  BY <1>4 DEF PrefillsKnown
<1>11. FreshAccounted
  <2>1. Forwarded = {} /\ SumFunctionOnSet(PromptLen, Forwarded) = 0
    BY <1>4, SumEmpty DEF Forwarded
  <2>2. steps.fresh = 0 /\ partition.fresh = 0
    BY <1>1 DEF NoWork
  <2> QED
    BY <1>1, <1>8, <2>1, <2>2 DEF FreshAccounted
<1>12. RecomputeAccounted
  <2>1. TotalLens(Resuming) = 0
    BY <1>4, SumEmpty DEF Resuming, TotalLens
  <2>2. steps.recompute = 0 /\ partition.recompute = 0
    BY <1>1 DEF NoWork
  <2> QED
    BY <1>1, <2>1, <2>2 DEF RecomputeAccounted, RecomputeOwed
<1>13. OutputsInSteps
  BY <1>1, <1>4, <1>5 DEF OutputsInSteps
<1>14. RetiredInSteps
  <2>1. Cardinality(Unrecorded) = 0 /\ Len(requests) = 0 /\ steps.total = 0
    BY <1>1, <1>4, FS_EmptySet
  <2>2. MaxBatch * (0 + 0) = 0
    BY SchedulerAssumption
  <2> QED
    BY <1>4, <2>1, <2>2 DEF RetiredInSteps
<1>15. ScrapeAgrees
  BY <1>1 DEF ScrapeAgrees
<1> QED
  BY <1>2, <1>6, <1>7, <1>9, <1>10, <1>11, <1>12, <1>13, <1>14, <1>15 DEF CallerInv, MetricsInv

(* The scheduler's part of a caller's step. *)
LEMMA CallerStepsTheScheduler ==
  ASSUME SchedInv, OrderInv, [CallerNext]_all_vars
  PROVE  SchedInv' /\ OrderInv'
<1>1. CASE Step \/ UNCHANGED vars
  BY <1>1, NextKeepsInv, NextKeepsOrder DEF Next
<1>2. CASE \E r \in ReqId, p \in Int, m \in Int : Submit(r, p, m)
  BY <1>2, SubmitKeepsInv, SubmitKeepsOrder
<1>3. \/ UNCHANGED vars \/ Step
      \/ \E r \in ReqId, p \in Int, m \in Int : Submit(r, p, m)
  BY DEF CallerNext, all_vars, MSubmit, MStepBegins, StepGoesOn, Quiet, MForward, Retire,
         MMakeRoom, MStepEnds, MSampleNext, MSampleLast, ScrapeBegins, ScrapeReads, Step, Sample
<1> QED
  BY <1>1, <1>2, <1>3

LEMMA CallerNextKeeps ==
  ASSUME CallerInv, [CallerNext]_all_vars
  PROVE  CallerInv'
<1> USE DEF CallerInv
<1>1. SchedInv' /\ OrderInv'
  BY CallerStepsTheScheduler
<1>2. CASE UNCHANGED all_vars
  <2>1. ScrapeAgrees'
    BY <1>2, ScrapeKept DEF all_vars, metrics_vars, MetricsInv, MetricsTypes
  <2> QED
    BY <1>1, <1>2, <2>1, ReadersKeep DEF all_vars, metrics_vars
<1>3. CASE \E r \in ReqId, p \in Int, m \in Int : MSubmit(r, p, m)
  BY <1>1, <1>3, MSubmitKeeps
<1>4. CASE MStepBegins
  BY <1>1, <1>4, MovesKeep DEF MStepBegins
<1>5. CASE StepGoesOn
  <2>1. CASE Quiet
    BY <1>1, <2>1, MovesKeep, AdmitKeeps DEF Quiet
  <2>2. CASE MForward
    BY <1>1, <2>2, MForwardKeeps
  <2>3. CASE Retire
    BY <1>1, <2>3, RetireKeeps
  <2>4. CASE MMakeRoom
    BY <1>1, <2>4, MMakeRoomKeeps
  <2>5. CASE MStepEnds
    BY <1>1, <2>5, MStepEndsKeeps
  <2>6. CASE \E r \in ReqId : MSampleNext(r, FALSE) \/ MSampleLast(r, FALSE)
    BY <1>1, <2>6, MSampleNextKeeps, MSampleLastKeeps
  <2> QED
    BY <1>5, <2>1, <2>2, <2>3, <2>4, <2>5, <2>6 DEF StepGoesOn
<1>6. CASE \E r \in ReqId, eos \in BOOLEAN : MSampleNext(r, eos) \/ MSampleLast(r, eos)
  BY <1>1, <1>6, MSampleNextKeeps, MSampleLastKeeps
<1>7. CASE ScrapeBegins \/ ScrapeReads
  BY <1>1, <1>7, ScrapeBeginsKeeps, ScrapeReadsKeeps
<1> QED
  BY <1>2, <1>3, <1>4, <1>5, <1>6, <1>7 DEF CallerNext

LEMMA CallerInvHolds == CallerSpec => []CallerInv
<1>1. MetricsInit => CallerInv
  BY MetricsInitInv
<1>2. CallerInv /\ [CallerNext]_all_vars => CallerInv'
  BY CallerNextKeeps
<1> QED
  BY <1>1, <1>2, PTL DEF CallerSpec

LEMMA InvAccounts ==
  ASSUME CallerInv
  PROVE  RecordsAccount
<1> SUFFICES ASSUME retiring = << >>
             PROVE  /\ Len(requests) = seq_counter - Cardinality(Live)
                    /\ Len(finished) = Len(requests)
                    /\ \A i \in DOMAIN finished : requests[i].output_len = finished[i]
                    /\ preemptions_total =
                         SumFunction([i \in DOMAIN requests |-> requests[i].preempted_count])
                           + SumFunctionOnSet(preempted_count, Live)
  BY DEF RecordsAccount
<1>1. Unaccounted = Live /\ ~Calling
  BY NothingOwed
<1>2. finished \in Seq(Nat) /\ DOMAIN finished = 1 .. Len(finished)
  BY DEF CallerInv, MetricsInv, MetricsTypes
<1> QED
  BY <1>1, <1>2 DEF CallerInv, MetricsInv, Accounts, PreemptionsOf

LEMMA InvTokensAccounted ==
  ASSUME CallerInv
  PROVE  PrefillTokensAccounted
<1> DEFINE admitted == {r \in Live : seqs[r].outputs > 0 \/ preempted_count[r] > 0}
           resuming == {r \in Waiting : preempted_count[r] > 0}
<1> SUFFICES ASSUME pc = "idle"
             PROVE  /\ steps.fresh = SumFunction([i \in DOMAIN requests |-> requests[i].prompt_len])
                                       + SumFunctionOnSet([r \in ReqId |-> seqs[r].prompt], admitted)
                    /\ lost <= steps.recompute + TotalLens(resuming)
                    /\ steps.recompute + TotalLens(resuming) <= lost + preemptions_total
  BY DEF PrefillTokensAccounted
<1>1. retiring = << >> /\ ~Serving
  BY DEF CallerInv, MetricsInv, RetiresOne, Serving, Growing
<1>2. Unaccounted = Live /\ Live \subseteq ReqId
  BY <1>1, NothingOwed, LiveAreIds DEF CallerInv
<1>3. /\ steps.fresh \in Int /\ steps.recompute \in Int
      /\ partition.fresh = 0 /\ partition.recompute = 0
  BY <1>1 DEF CallerInv, MetricsInv, MetricsTypes, FreshAccounted, NoWork
<1>4. Forwarded = admitted
  <2>1. \A r \in Live : preempted_count[r] > 0 => seqs[r].outputs > 0
    <3> SUFFICES ASSUME NEW r \in Live, preempted_count[r] > 0 PROVE seqs[r].outputs > 0
      OBVIOUS
    <3>1. seqs[r].preempted /\ seqs[r].outputs \in Nat
      BY <1>2, LiveAreIds DEF CallerInv, MetricsInv, CountsAgree
    <3> QED
      BY <1>2, <3>1 DEF CallerInv, OrderInv, FreshNotPreempted
  <2> QED
    BY <1>1, <1>2, <2>1 DEF Forwarded
<1>5. Resuming = resuming
  <2>1. \A r \in Live : seqs[r].status # "PREFILL"
    BY <1>2 DEF CallerInv, MetricsInv, PrefillsKnown, SchedInv, StatusMatchesQueue
  <2>2. \A r \in Live : seqs[r].status = "WAITING" <=> r \in Waiting
    BY <1>2 DEF CallerInv, SchedInv, StatusMatchesQueue
  <2>3. Waiting \subseteq Live
    BY DEF Live
  <2> QED
    BY <2>1, <2>2, <2>3 DEF Resuming
<1> HIDE DEF admitted, resuming
<1>6. steps.fresh = PromptsOf(requests) + SumFunctionOnSet(PromptLen, admitted)
  BY <1>3, <1>4 DEF CallerInv, MetricsInv, FreshAccounted
<1>7. TotalLens(Resuming) \in Int
  <2> DEFINE f == [r \in ReqId |-> TotalLen(r)]
  <2>1. IsFiniteSet(Resuming) /\ \A r \in Resuming : f[r] \in Int
    <3>1. IsFiniteSet(Live) /\ Resuming \subseteq Live
      BY UnaccountedFinite DEF CallerInv, MetricsInv, Resuming
    <3> QED
      BY <1>2, <3>1, FS_Subset, LiveAreIds DEF CallerInv, TotalLen
  <2>2. TotalLens(Resuming) = SumFunctionOnSet(f, Resuming)
    BY DEF TotalLens
  <2> HIDE DEF f
  <2> QED
    BY <2>1, <2>2, SumIsInt
<1>8. RecomputeOwed = steps.recompute + TotalLens(resuming)
  BY <1>3, <1>5, <1>7 DEF RecomputeOwed
<1> QED
  BY <1>6, <1>8 DEF CallerInv, MetricsInv, RecomputeAccounted, PromptsOf, PromptLen

LEMMA InvScrapes ==
  ASSUME CallerInv
  PROVE  ScrapeCoversFinished
<1> DEFINE got(f) == scrape.got[CHOOSE i \in DOMAIN ScrapeOrder : ScrapeOrder[i] = f]
<1> SUFFICES ASSUME scrape.at = "reading", Len(scrape.got) = 3
             PROVE  /\ got("requests_finished") >= Len(scrape.seen)
                    /\ \A i \in DOMAIN scrape.seen : got("steps_total") >= scrape.seen[i] - 1
                    /\ got("requests_finished") <= MaxBatch * (got("steps_total") + 1)
  BY DEF ScrapeCoversFinished
<1>1. /\ DOMAIN ScrapeOrder = 1 .. 3
      /\ ScrapeOrder[1] = "preemptions_total" /\ ScrapeOrder[2] = "requests_finished"
      /\ ScrapeOrder[3] = "steps_total"
  BY DEF ScrapeOrder
<1>2. /\ (CHOOSE i \in DOMAIN ScrapeOrder : ScrapeOrder[i] = "requests_finished") = 2
      /\ (CHOOSE i \in DOMAIN ScrapeOrder : ScrapeOrder[i] = "steps_total") = 3
  <2>1. \A i \in DOMAIN ScrapeOrder : i = 1 \/ i = 2 \/ i = 3
    BY <1>1
  <2>2. /\ \A i \in DOMAIN ScrapeOrder : ScrapeOrder[i] = "requests_finished" <=> i = 2
        /\ \A i \in DOMAIN ScrapeOrder : ScrapeOrder[i] = "steps_total" <=> i = 3
        /\ 2 \in DOMAIN ScrapeOrder /\ 3 \in DOMAIN ScrapeOrder
    BY <1>1, <2>1
  <2> QED
    BY <2>2
<1>3. got("requests_finished") = scrape.got[2] /\ got("steps_total") = scrape.got[3]
  BY <1>2
<1>4. /\ scrape \in [at : {"reading"}, seen : Seq(Nat), got : Seq(Nat)]
      /\ scrape.got[2] >= Len(scrape.seen)
      /\ \A i \in 1 .. Len(scrape.seen) : scrape.got[3] >= scrape.seen[i] - 1
      /\ scrape.got[2] <= MaxBatch * (scrape.got[3] + 1)
  BY DEF CallerInv, MetricsInv, ScrapeAgrees
<1>5. DOMAIN scrape.seen = 1 .. Len(scrape.seen)
  BY <1>4
<1> HIDE DEF got
<1> QED
  BY <1>3, <1>4, <1>5

-----------------------------------------------------------------------------
(***************************************************************************)
(* The drivers are callers: what they submit are numbers under ids that    *)
(* exist, and they call step() and the scrape as any caller may.           *)
(***************************************************************************)
Labels == {"prefill", "decode", "joins", "together", "first", "smoke"}

Commands ==
  [do : {"submit"}, len : Int, limit : Int] \cup [do : {"fill", "drain"}]
    \cup [do : {"step", "drain"}, label : Labels]
    \cup [do : {"drain"}, label : Labels, len : Int]
    \cup [do : {"step"}, label : Labels, context : Int]

ScriptInv == script \in Seq(Commands)

(* The longest of some lengths is one of them. *)
LEMMA LongestIsALength ==
  ASSUME NEW S \in SUBSET Nat, IsFiniteSet(S), S # {}
  PROVE  Max(S) \in S /\ \A y \in S : Max(S) >= y
<1> DEFINE P == {s \in SUBSET S : s = {} \/ \E x \in s : \A y \in s : x >= y}
<1>1. {} \in P
  OBVIOUS
<1>2. \A s \in SUBSET S, x \in S : s \in P /\ x \notin s => s \cup {x} \in P
  <2> SUFFICES ASSUME NEW s \in SUBSET S, NEW x \in S, s \in P
               PROVE  s \cup {x} \in P
    OBVIOUS
  <2>1. CASE s = {}
    BY <2>1
  <2>2. CASE s # {}
    <3>1. PICK z \in s : \A y \in s : z >= y
      BY <2>2
    <3>2. CASE x >= z
      BY <3>1, <3>2
    <3>3. CASE z >= x
      BY <3>1, <3>3
    <3>4. x \in Nat /\ z \in Nat
      OBVIOUS
    <3>5. x \in S /\ s \cup {x} \in SUBSET S
      OBVIOUS
    <3>6. \E w \in s \cup {x} : \A y \in s \cup {x} : w >= y
      BY <3>2, <3>3, <3>4
    <3> QED
      BY <3>5, <3>6
  <2> QED
    BY <2>1, <2>2
<1>3. S \in P
  <2> HIDE DEF P
  <2> QED
    BY <1>1, <1>2, SetInduction
<1>4. \E x \in S : \A y \in S : x >= y
  BY <1>3
<1> QED
  BY <1>4 DEF Max

LEMMA SubIsCommand ==
  ASSUME NEW len \in Int, NEW limit \in Int
  PROVE  Sub(len, limit) \in Commands
  BY DEF Sub, Commands

(* Every script a driver starts with is a sequence of such commands. *)
LEMMA ScriptsAreCommands ==
  ASSUME NEW m \in Modes
  PROVE  Script(m) \in Seq(Commands)
<1>1. /\ Lengths \in Seq(Nat) /\ Lengths # << >> /\ K \in Nat /\ Target \in Nat
      /\ Context \in Nat /\ Joining \in Nat /\ Batch \in 1 .. MaxBatch
  BY ProbeAssumption
<1>2. Batch \in Nat
  BY <1>1, SchedulerAssumption
<1>3. << >> \in Seq(Commands)
  OBVIOUS
<1>4. PrefillScript \in Seq(Commands)
  <2> DEFINE lengths == <<Longest>> \o Lengths
  <2>1. Longest \in Nat
    <3>1. IsFiniteSet(ToSet(Lengths)) /\ ToSet(Lengths) \in SUBSET Nat
      BY <1>1, FiniteToSet, ToSetOfSeq
    <3>2. ToSet(Lengths) # {}
      <4>1. 1 \in 1 .. Len(Lengths)
        BY <1>1
      <4> QED
        BY <1>1, <4>1, InToSet
    <3> QED
      BY <3>1, <3>2, LongestIsALength DEF Longest
  <2>2. lengths \in Seq(Nat)
    <3>1. <<Longest>> \in Seq(Nat)
      BY <2>1
    <3> QED
      BY <1>1, <3>1, ConcatProperties
  <2>3. \A i \in 1 .. 2 * Len(lengths) :
          PrefillProbe(lengths[(i + 1) \div 2])[IF i % 2 = 1 THEN 1 ELSE 2] \in Commands
    <3> SUFFICES ASSUME NEW i \in 1 .. 2 * Len(lengths)
                 PROVE PrefillProbe(lengths[(i + 1) \div 2])[IF i % 2 = 1 THEN 1 ELSE 2]
                         \in Commands
      OBVIOUS
    <3> DEFINE len == lengths[(i + 1) \div 2]
    <3>1. len \in Nat
      <4>1. Len(lengths) \in Nat
        BY <2>2
      <4>2. \A n \in Nat : \A j \in 1 .. 2 * n : (j + 1) \div 2 \in 1 .. n
        OBVIOUS
      <4> HIDE DEF lengths
      <4>3. (i + 1) \div 2 \in 1 .. Len(lengths)
        BY <4>1, <4>2
      <4> QED
        BY <2>2, <4>3, ElementOfSeq
    <3> HIDE DEF len
    <3>2. /\ PrefillProbe(len)[1] = Sub(len, 1)
          /\ PrefillProbe(len)[2] = [do |-> "drain", label |-> "prefill", len |-> len]
      BY DEF PrefillProbe
    <3>3. PrefillProbe(len)[1] \in Commands
      BY <3>1, <3>2, SubIsCommand
    <3>4. PrefillProbe(len)[2] \in Commands
      BY <3>1, <3>2 DEF Commands, Labels
    <3>5. PrefillProbe(len)[IF i % 2 = 1 THEN 1 ELSE 2] \in Commands
      <4>1. CASE i % 2 = 1
        BY <3>3, <4>1
      <4>2. CASE i % 2 # 1
        BY <3>4, <4>2
      <4> QED
        BY <4>1, <4>2
    <3> QED
      BY <3>5 DEF len
  <2>4. 2 * Len(lengths) \in Nat
    BY <2>2
  <2> HIDE DEF lengths
  <2> DEFINE n == 2 * Len(lengths)
             s == [i \in 1 .. n |->
                     PrefillProbe(lengths[(i + 1) \div 2])[IF i % 2 = 1 THEN 1 ELSE 2]]
  <2>5. s \in [1 .. n -> Commands]
    BY <2>3
  <2>6. s \in Seq(Commands)
    <3> HIDE DEF s
    <3> HIDE DEF n
    <3> QED
      BY <2>4, <2>5 DEF n
  <2> QED
    BY <2>6 DEF PrefillScript, lengths
<1>5. DecodeScript \in Seq(Commands)
  <2> DEFINE prompts == Times(Batch, Sub(DecodePrompt, DecodeTokens))
             steps_ == [i \in 1 .. K |-> [do |-> "step", label |-> "decode",
                                          context |-> Target - K + i]]
  <2>1. prompts \in Seq(Commands)
    <3>1. Sub(DecodePrompt, DecodeTokens) \in Commands
      BY <1>1, SubIsCommand DEF DecodePrompt, DecodeTokens
    <3>2. prompts \in [1 .. Batch -> Commands]
      BY <3>1 DEF Times
    <3> QED
      BY <1>2, <3>2
  <2>2. steps_ \in Seq(Commands)
    <3>1. \A i \in 1 .. K : [do |-> "step", label |-> "decode", context |-> Target - K + i]
                              \in Commands
      BY <1>1 DEF Commands, Labels
    <3>2. steps_ \in [1 .. K -> Commands]
      BY <3>1
    <3> HIDE DEF steps_
    <3> QED
      BY <1>1, <3>2
  <2>3. <<[do |-> "fill"]>> \in Seq(Commands) /\ <<[do |-> "drain"]>> \in Seq(Commands)
    BY DEF Commands, Labels
  <2> HIDE DEF prompts, steps_
  <2>4. prompts \o <<[do |-> "fill"]>> \o steps_ \o <<[do |-> "drain"]>> \in Seq(Commands)
    BY <2>1, <2>2, <2>3, ConcatProperties
  <2> QED
    BY <2>4 DEF DecodeScript, prompts, steps_
<1>6. MixedScript \in Seq(Commands)
  <2> DEFINE steps_ == [i \in 1 .. 4 |-> [do |-> "step",
                                          label |-> IF i = 1 THEN "joins" ELSE "together"]]
             first == <<Sub(Context, 64), [do |-> "fill"], Sub(Joining, 8)>>
  <2>1. steps_ \in Seq(Commands)
    <3>1. \A i \in 1 .. 4 : [do |-> "step", label |-> IF i = 1 THEN "joins" ELSE "together"]
                              \in Commands
      BY DEF Commands, Labels
    <3>2. steps_ \in [1 .. 4 -> Commands]
      BY <3>1
    <3> QED
      BY <3>2
  <2>2. first \in Seq(Commands)
    <3>1. [do |-> "fill"] \in Commands
      BY DEF Commands, Labels
    <3>2. Sub(Context, 64) \in Commands /\ Sub(Joining, 8) \in Commands
      BY <1>1, SubIsCommand
    <3> QED
      BY <3>1, <3>2
  <2> HIDE DEF first, steps_
  <2>3. first \o steps_ \in Seq(Commands)
    BY <2>1, <2>2, ConcatProperties
  <2> QED
    BY <2>3 DEF MixedScript, first, steps_
<1>7. SmokeScript \in Seq(Commands)
  <2>1. Sub(17, 3) \in Commands
    BY SubIsCommand
  <2>2. /\ [do |-> "step", label |-> "first"] \in Commands
        /\ [do |-> "drain", label |-> "smoke"] \in Commands
    BY DEF Commands, Labels
  <2>3. \A a, b, c \in Commands : <<a, b, c>> \in Seq(Commands)
    OBVIOUS
  <2> QED
    BY <2>1, <2>2, <2>3 DEF SmokeScript
<1>8. m \in {"server", "prefill", "decode", "mixed", "smoke"}
  BY ProbeAssumption
<1> QED
  BY <1>3, <1>4, <1>5, <1>6, <1>7, <1>8 DEF Script

(* A driver submits under an id that exists, the script runs to its end. *)
LEMMA DriverMoves ==
  ASSUME ScriptInv, [DrivenNext]_driven_vars
  PROVE  ScriptInv' /\ [CallerNext]_all_vars
<1>1. script \in Seq(Commands)
  BY DEF ScriptInv
<1>2. script # << >> => Head(script) \in Commands /\ Tail(script) \in Seq(Commands)
  BY <1>1, HeadTailProperties
<1>3. Unused # {} => FreshId \in ReqId
  <2>1. \A S : S # {} => (CHOOSE r \in S : TRUE) \in S
    OBVIOUS
  <2> QED
    BY <2>1 DEF FreshId, Unused
<1>4. CASE UNCHANGED driven_vars
  BY <1>1, <1>4 DEF driven_vars, probe_vars, ScriptInv
<1>5. CASE ServerDrives
  <2>1. script' = script
    BY <1>5 DEF ServerDrives, probe_vars
  <2>2. CallerNext
    <3>1. CASE MStepBegins \/ ScrapeBegins \/ ScrapeReads
      BY <3>1 DEF CallerNext
    <3>2. CASE \E p \in PromptLens, m \in TokenLimits : Unused # {} /\ MSubmit(FreshId, p, m)
      <4>1. PICK p \in PromptLens, m \in TokenLimits : Unused # {} /\ MSubmit(FreshId, p, m)
        BY <3>2
      <4>2. p \in Int /\ m \in Int
        BY SchedulerAssumption
      <4> QED
        BY <1>3, <4>1, <4>2 DEF CallerNext
    <3> QED
      BY <1>5, <3>1, <3>2 DEF ServerDrives
  <2> QED
    BY <1>1, <2>1, <2>2 DEF ScriptInv
<1>6. CASE ProbeSubmits
  <2>1. /\ script # << >> /\ Head(script).do = "submit" /\ script' = Tail(script)
        /\ Unused # {} /\ MSubmit(FreshId, Head(script).len, Head(script).limit)
    BY <1>6 DEF ProbeSubmits, Doing
  <2>2. Head(script).len \in Int /\ Head(script).limit \in Int
    <3>1. Head(script) \in [do : {"submit"}, len : Int, limit : Int]
      BY <1>2, <2>1 DEF Commands
    <3> QED
      BY <3>1
  <2>3. CallerNext
    BY <1>3, <2>1, <2>2 DEF CallerNext
  <2> QED
    BY <1>2, <2>1, <2>3 DEF ScriptInv
<1>7. CASE ProbeStepsOnce
  <2>1. script # << >> /\ script' = Tail(script) /\ MStepBegins
    BY <1>7 DEF ProbeStepsOnce, Doing
  <2> QED
    BY <1>2, <2>1 DEF ScriptInv, CallerNext
<1>8. CASE ProbeLoops
  <2>1. script' = script /\ MStepBegins
    BY <1>8 DEF ProbeLoops
  <2> QED
    BY <1>1, <2>1 DEF ScriptInv, CallerNext
<1>9. CASE ProbeLeavesLoop
  <2>1. script # << >> /\ script' = Tail(script) /\ UNCHANGED all_vars
    BY <1>9 DEF ProbeLeavesLoop, Doing
  <2> QED
    BY <1>2, <2>1 DEF ScriptInv
<1>10. CASE StepRuns
  <2>1. script' = script /\ StepGoesOn
    BY <1>10 DEF StepRuns, probe_vars
  <2> QED
    BY <1>1, <2>1 DEF ScriptInv, CallerNext
<1> QED
  BY <1>4, <1>5, <1>6, <1>7, <1>8, <1>9, <1>10 DEF DrivenNext, Probe

(* The server and every probe use the scheduler as any caller may: what    *)
(* they submit are numbers, under ids that exist, and all else they do to  *)
(* it is to call step() and to read the metrics.                           *)
THEOREM DriversAreCallers == DrivenSpec => CallerSpec
<1>1. ProbeInit => MetricsInit /\ ScriptInv
  BY ScriptsAreCommands DEF ProbeInit, ScriptInv
<1>2. ScriptInv /\ [DrivenNext]_driven_vars => ScriptInv'
  BY DriverMoves
<1>3. ScriptInv /\ [DrivenNext]_driven_vars => [CallerNext]_all_vars
  BY DriverMoves
<1> QED
  BY <1>1, <1>2, <1>3, PTL DEF DrivenSpec, CallerSpec

(* Whoever drives it: between two retirements the records, the requests    *)
(* alive and the on_finish calls account for every request ever accepted,  *)
(* and the running total for every request's own preemptions.              *)
THEOREM RecordsAlwaysAccount == CallerSpec => []RecordsAccount
<1>1. CallerInv => RecordsAccount
  BY InvAccounts
<1> QED
  BY <1>1, CallerInvHolds, PTL

(* Whoever drives it: the fresh prompt tokens of all steps are the prompts *)
(* admitted so far, each once; the tokens recomputed or still owed to a    *)
(* request alive are those whose KV the preemptions dropped, and at most   *)
(* one more for each of them.                                              *)
THEOREM PrefillTokensAlwaysAccounted == CallerSpec => []PrefillTokensAccounted
<1>1. CallerInv => PrefillTokensAccounted
  BY InvTokensAccounted
<1> QED
  BY <1>1, CallerInvHolds, PTL

(* A scrape that reads the totals one by one while the engine thread runs  *)
(* covers every FINISH its client had seen, and its totals fit each other. *)
THEOREM ScrapesCoverFinished == CallerSpec => []ScrapeCoversFinished
<1>1. CallerInv => ScrapeCoversFinished
  BY InvScrapes
<1> QED
  BY <1>1, CallerInvHolds, PTL

(* So the server and every probe have the three.                           *)
THEOREM DriversKeepAccounts ==
  DrivenSpec => [](RecordsAccount /\ PrefillTokensAccounted /\ ScrapeCoversFinished)
<1>1. CallerInv => RecordsAccount /\ PrefillTokensAccounted /\ ScrapeCoversFinished
  BY InvAccounts, InvTokensAccounted, InvScrapes
<1> QED
  BY <1>1, DriversAreCallers, CallerInvHolds, PTL
=============================================================================
