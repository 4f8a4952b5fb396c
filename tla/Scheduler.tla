------------------------------ MODULE Scheduler ------------------------------
(***************************************************************************)
(* The iteration-level scheduler of miniserve/scheduler.py.  One call of   *)
(* step() is the sequence of actions                                       *)
(*                                                                         *)
(*   StepBegins  AdmitHead*  CloseAdmission  Forward                       *)
(*   ( SkipPreempted | SampleLast | SampleNext [Grow [MakeRoom [Retry]]] )* *)
(*   StepEnds                                                              *)
(*                                                                         *)
(* cut where step() calls the allocator, so that every action makes at     *)
(* most one allocator call.  The engine thread owns all of this state and  *)
(* calls submit() only between two steps, so Submit needs pc = "idle".     *)
(*                                                                         *)
(* A Sequence object is a record kept under its req_id.  A token is its    *)
(* position in the output; whether a sampled token is EOS is a choice.     *)
(*                                                                         *)
(* Where the code would raise (a second table for a request, a free or a   *)
(* growth without a table, a make_room that freed nothing) step() dies     *)
(* half way and no action is enabled; NoCallRaises says that this never    *)
(* comes up.                                                               *)
(***************************************************************************)
EXTENDS PagedKVCache

CONSTANTS BlockSize,       \* PagedKVCache.block_size
          MaxBatch,        \* Scheduler.max_batch
          PromptLens,      \* lengths of the prompts callers submit
          TokenLimits,     \* the max_tokens callers submit
          MaxSubmissions   \* bound: how many requests are ever accepted

ASSUME SchedulerAssumption ==
  /\ BlockSize \in Nat \ {0}
  /\ MaxBatch \in Nat
  /\ PromptLens \subseteq Nat
  /\ TokenLimits \subseteq Int
  /\ MaxSubmissions \in Nat

VARIABLES waiting,       \* deque of request ids, head first
          running,       \* list of request ids in admission order
          seqs,          \* the Sequence object last submitted under each id
          seq_counter,   \* _seq_counter: how many requests were accepted
          pc,            \* where step() is
          work,          \* what is left of "for s in prefill + decode"
          tokens         \* the on_token calls made for the object in seqs

sched_vars == <<waiting, running, seqs, seq_counter, pc, work, tokens>>
vars == <<kv_vars, sched_vars>>

Absent == [prompt |-> 0, max_tokens |-> 0, seq_no |-> 0, outputs |-> 0,
           emitted |-> 0, preempted |-> FALSE, status |-> "ABSENT"]

Init ==
  /\ KVInit
  /\ waiting = << >> /\ running = << >> /\ work = << >>
  /\ seqs = [r \in ReqId |-> Absent]
  /\ seq_counter = 0
  /\ pc = "idle"
  /\ tokens = [r \in ReqId |-> << >>]

-----------------------------------------------------------------------------
Waiting == ToSet(waiting)
Running == ToSet(running)
Live == Waiting \cup Running

(* _blocks_for: ceil(n_tokens / block_size) *)
BlocksFor(n) == (n + BlockSize - 1) \div BlockSize

TotalLen(r) == seqs[r].prompt + seqs[r].outputs

SetStatus(r, status) == [seqs EXCEPT ![r].status = status]

(***************************************************************************)
(* Mutated forms, each one the bug a definition below is checked against.  *)
(***************************************************************************)
BugAcceptsLiveId(r, p, m) == p < 1 \/ m < 1 \/ BlocksFor(p + m) > NumBlocks
BugHeadroomOfPrompt(r) == BlocksFor(seqs[r].prompt + 1)
BugReservesLimitAgain(r) == BlocksFor(TotalLen(r) + seqs[r].max_tokens)
BugNeedPlusOne(r) == BlocksFor(TotalLen(r)) + 1
BugGrowOneLate(r, n) == BlocksFor(n - 1) > Len(block_tables[r])
BugYoungestOverall == Running
BugVictimAmongLive == {r \in Live : seqs[r].outputs > 0}
BugRequeueAtBack(r) == Append(waiting, r)
BugKeepsStatus(s) == [s EXCEPT !.preempted = TRUE]
BugRestreams(s) == [s EXCEPT !.status = "WAITING", !.preempted = TRUE, !.emitted = 0]

(***************************************************************************)
(* submit().  A refusal (ValueError or CapacityError) changes nothing, and *)
(* neither does the OverflowError of a limit no float holds the blocks of: *)
(* what that does to the thread that called is in Engine.tla.              *)
(***************************************************************************)
Refused(r, p, m) ==
  p < 1 \/ m < 1 \/ r \in Live \/ BlocksFor(p + m) > NumBlocks

Submit(r, p, m) ==
  /\ pc = "idle"
  /\ ~Refused(r, p, m)
  /\ seq_counter < MaxSubmissions
  /\ seqs' = [seqs EXCEPT ![r] =
                [Absent EXCEPT !.prompt = p, !.max_tokens = m,
                               !.seq_no = seq_counter, !.status = "WAITING"]]
  /\ tokens' = [tokens EXCEPT ![r] = << >>]
  /\ seq_counter' = seq_counter + 1
  /\ waiting' = Append(waiting, r)
  /\ UNCHANGED <<kv_vars, running, pc, work>>

-----------------------------------------------------------------------------
(***************************************************************************)
(* 1. Admission.  _admission_open() is evaluated once, here; continuous    *)
(* batching is always open.                                                *)
(***************************************************************************)
StepBegins ==
  /\ pc = "idle"
  /\ pc' = "admit"
  /\ UNCHANGED <<kv_vars, waiting, running, seqs, seq_counter, work, tokens>>

(* Blocks that must be free to admit r: its content plus one token. *)
Headroom(r) == BlocksFor(TotalLen(r) + 1)

CanAdmit ==
  /\ waiting # << >>
  /\ Len(running) < MaxBatch
  /\ free_count >= Headroom(Head(waiting))

(* allocate()'s return value is ignored, as in the code. *)
AdmitHead ==
  /\ pc = "admit"
  /\ CanAdmit
  /\ LET r == Head(waiting)
     IN  /\ Allocate(r, BlocksFor(TotalLen(r)))
         /\ running' = Append(running, r)
         /\ seqs' = SetStatus(r, "PREFILL")
  /\ waiting' = Tail(waiting)
  /\ UNCHANGED <<seq_counter, pc, work, tokens>>

CloseAdmission ==
  /\ pc = "admit"
  /\ ~CanAdmit
  /\ pc' = IF running = << >> THEN "idle" ELSE "forward"
  /\ UNCHANGED <<kv_vars, waiting, running, seqs, seq_counter, work, tokens>>

(***************************************************************************)
(* 2, 3. The partition and the forward pass over it: prefills first, then  *)
(* decodes, each in the order of running.  The list is a snapshot.         *)
(***************************************************************************)
Before(r, q) ==
  \/ seqs[r].status = "PREFILL" /\ seqs[q].status = "DECODE"
  \/ /\ seqs[r].status = seqs[q].status
     /\ \E i, j \in DOMAIN running : i < j /\ running[i] = r /\ running[j] = q

PrefillThenDecode(w) ==
  IsInjective(w) /\ \A i, j \in DOMAIN w : i < j => Before(w[i], w[j])

Forward ==
  /\ pc = "forward"
  /\ \E w \in [1 .. Len(running) -> Running] : PrefillThenDecode(w) /\ work' = w
  /\ pc' = "loop"
  /\ UNCHANGED <<kv_vars, waiting, running, seqs, seq_counter, tokens>>

-----------------------------------------------------------------------------
(***************************************************************************)
(* 4. The loop over work: sample, emit, retire or grow.                    *)
(***************************************************************************)
AtHead(r) == pc = "loop" /\ work # << >> /\ r = Head(work)

LoopOn == pc' = "loop" /\ work' = Tail(work)

SkipPreempted(r) ==
  /\ AtHead(r)
  /\ seqs[r].status = "WAITING"
  /\ LoopOn
  /\ UNCHANGED <<kv_vars, waiting, running, seqs, seq_counter, tokens>>

(* The object after its token was appended and streamed. *)
Sampled(s) == [s EXCEPT !.outputs = @ + 1, !.emitted = s.outputs + 1, !.status = "DECODE"]

(* "while s.emitted_count < len(s.output_ids): on_token(...)" *)
Emit(r) ==
  LET s == seqs[r]
  IN  tokens' = [tokens EXCEPT ![r] =
                   @ \o [i \in 1 .. s.outputs + 1 - s.emitted |-> s.emitted + i]]

(* is_finished() after one more token. *)
IsFinished(s, eos) == eos \/ s.outputs + 1 >= s.max_tokens

(* _finish(): the blocks are back on the free list before the next sample. *)
SampleLast(r, eos) ==
  /\ AtHead(r)
  /\ seqs[r].status # "WAITING"
  /\ IsFinished(seqs[r], eos)
  /\ Emit(r)
  /\ seqs' = [seqs EXCEPT ![r] = [Sampled(@) EXCEPT !.status = "FINISHED"]]
  /\ Free(r)
  /\ running' = RemoveFirst(running, r)
  /\ LoopOn
  /\ UNCHANGED <<waiting, seq_counter>>

(* The slot of the token just sampled is written by the next forward. *)
NeedsBlock(r, n) == BlocksFor(n) > Len(block_tables[r])

SampleNext(r, eos) ==
  /\ AtHead(r)
  /\ seqs[r].status # "WAITING"
  /\ ~IsFinished(seqs[r], eos)
  /\ HasTable(r)
  /\ Emit(r)
  /\ seqs' = [seqs EXCEPT ![r] = Sampled(@)]
  /\ IF NeedsBlock(r, TotalLen(r) + 1)
     THEN pc' = "grow" /\ UNCHANGED work
     ELSE LoopOn
  /\ UNCHANGED <<kv_vars, waiting, running, seq_counter>>

Grow ==
  /\ pc = "grow"
  /\ AppendBlock(Head(work))
  /\ IF free_count > 0 THEN LoopOn ELSE pc' = "make_room" /\ UNCHANGED work
  /\ UNCHANGED <<waiting, running, seqs, seq_counter, tokens>>

(***************************************************************************)
(* _make_room() and _preempt(): the youngest of the running sequences that *)
(* have a token, the requester included, or of all when none has one.      *)
(***************************************************************************)
Decoded == {r \in Running : seqs[r].outputs > 0}

Candidates == IF Decoded # {} THEN Decoded ELSE Running

Victim == CHOOSE v \in Candidates :
            \A r \in Candidates : seqs[r].seq_no <= seqs[v].seq_no

Preempted(s) == [s EXCEPT !.status = "WAITING", !.preempted = TRUE]

Requeued(r) == Cons(r, waiting)

MakeRoom ==
  /\ pc = "make_room"
  /\ Free(Victim)
  /\ seqs' = [seqs EXCEPT ![Victim] = Preempted(@)]
  /\ running' = RemoveFirst(running, Victim)
  /\ waiting' = Requeued(Victim)
  /\ IF Victim = Head(work) THEN LoopOn ELSE pc' = "retry" /\ UNCHANGED work
  /\ UNCHANGED <<seq_counter, tokens>>

(* The requester gets its block in the same step, or step() raises. *)
Retry ==
  /\ pc = "retry"
  /\ free_count > 0
  /\ AppendBlock(Head(work))
  /\ LoopOn
  /\ UNCHANGED <<waiting, running, seqs, seq_counter, tokens>>

StepEnds ==
  /\ pc = "loop"
  /\ work = << >>
  /\ pc' = "idle"
  /\ UNCHANGED <<kv_vars, waiting, running, seqs, seq_counter, work, tokens>>

-----------------------------------------------------------------------------
Sample(r) == \E eos \in BOOLEAN : SampleLast(r, eos) \/ SampleNext(r, eos)

Step ==
  \/ StepBegins \/ AdmitHead \/ CloseAdmission \/ Forward
  \/ \E r \in ReqId : SkipPreempted(r) \/ Sample(r)
  \/ Grow \/ MakeRoom \/ Retry \/ StepEnds

Next ==
  \/ \E r \in ReqId, p \in PromptLens, m \in TokenLimits : Submit(r, p, m)
  \/ Step

Spec == Init /\ [][Next]_vars

(* Engine.run() calls step() again and again while a request is live. *)
FairSpec == Spec /\ WF_vars(Step)

-----------------------------------------------------------------------------
SeqRecord ==
  [prompt : Nat, max_tokens : Nat, seq_no : Nat, outputs : Nat, emitted : Nat,
   preempted : BOOLEAN,
   status : {"ABSENT", "WAITING", "PREFILL", "DECODE", "FINISHED"}]

TypeOK ==
  /\ KVTypeOK
  /\ waiting \in Seq(ReqId) /\ IsInjective(waiting)
  /\ running \in Seq(ReqId) /\ IsInjective(running)
  /\ Len(running) <= MaxBatch
  /\ seqs \in [ReqId -> SeqRecord]
  /\ seq_counter \in Nat
  /\ pc \in {"idle", "admit", "forward", "loop", "grow", "make_room", "retry"}
  /\ work \in Seq(ReqId) /\ IsInjective(work)
  /\ tokens \in [ReqId -> Seq(Nat)]

(***************************************************************************)
(* A request is in one of the two queues exactly while its status says so: *)
(* in waiting when WAITING, in running when PREFILL or DECODE, in neither  *)
(* when it finished or was never accepted.                                 *)
(***************************************************************************)
StatusMatchesQueue ==
  \A r \in ReqId :
    /\ r \in Waiting <=> seqs[r].status = "WAITING"
    /\ r \in Running <=> seqs[r].status \in {"PREFILL", "DECODE"}

(***************************************************************************)
(* No leak and no loss: a request holds blocks exactly while it runs, over *)
(* admissions, retirements, preemptions and growth in one step.            *)
(***************************************************************************)
TablesMatchRunning == \A r \in ReqId : HasTable(r) <=> r \in Running

(***************************************************************************)
(* Nothing step() calls raises: the head being admitted has no table yet   *)
(* and needs at least one block, the sequence being sampled or grown has a *)
(* table, the victim has one, and after a preemption the block the         *)
(* requester asks for is there (scheduler.py:215-218 raises otherwise).    *)
(***************************************************************************)
NoCallRaises ==
  /\ pc = "admit" /\ CanAdmit =>
       ~HasTable(Head(waiting)) /\ BlocksFor(TotalLen(Head(waiting))) >= 1
  /\ pc = "loop" /\ work # << >> /\ seqs[Head(work)].status # "WAITING"
       => HasTable(Head(work))
  /\ pc \in {"grow", "make_room", "retry"} => HasTable(Head(work))
  /\ pc = "make_room" => HasTable(Victim)
  /\ pc = "retry" => free_count > 0

(***************************************************************************)
(* Write-before-read (kv_cache.py:44-46, model.py:131-133): when forward   *)
(* runs, each sequence's table has a slot for every position forward       *)
(* writes and reads, the newest token's included, and no block more.       *)
(***************************************************************************)
SlotForEveryToken ==
  pc = "forward" =>
    \A r \in Running : Len(block_tables[r]) = BlocksFor(TotalLen(r))

(***************************************************************************)
(* Resume is not restart: over any number of preemptions the stream got    *)
(* every output token exactly once and in order.                           *)
(***************************************************************************)
StreamedOnce ==
  \A r \in ReqId :
    /\ tokens[r] = [i \in 1 .. seqs[r].outputs |-> i]
    /\ seqs[r].emitted = seqs[r].outputs

(***************************************************************************)
(* Strict FIFO: requests that have no token yet are ahead of every younger *)
(* one, wherever the two are; a request that was preempted waits ahead of  *)
(* those never admitted.  So first tokens come in submission order.        *)
(***************************************************************************)
StrictFifo ==
  /\ \A i, j \in DOMAIN waiting : i < j =>
       \/ seqs[waiting[i]].outputs > 0
       \/ /\ seqs[waiting[j]].outputs = 0
          /\ seqs[waiting[i]].seq_no < seqs[waiting[j]].seq_no
  /\ \A r, q \in Live :
       seqs[r].outputs = 0 /\ seqs[q].outputs > 0 => seqs[q].seq_no < seqs[r].seq_no

(***************************************************************************)
(* Admission implies progress for a fresh request: it is never preempted   *)
(* before its first token.  So the all-fresh fallback of _make_room is not *)
(* reached from step(), a preempted request always has output to resume,   *)
(* and the fresh/recompute split of the step record (preempted_count = 0   *)
(* or not) agrees with whether there was anything to recompute.            *)
(***************************************************************************)
FreshNotPreempted ==
  /\ \A r \in Live : seqs[r].preempted => seqs[r].outputs > 0
  /\ \A r \in Waiting : seqs[r].outputs > 0 => seqs[r].preempted

(***************************************************************************)
(* No wedge at admission: when nothing runs, the head of the queue always  *)
(* fits, however long its output has become (phase1-engine.md:210-215).    *)
(***************************************************************************)
HeadFitsEmptyCache ==
  running = << >> /\ waiting # << >> => free_count >= Headroom(Head(waiting))

(***************************************************************************)
(* phase1-engine.md:208-210 of every admitted sequence: it completes at    *)
(* least one decode step before it can face preemption.                    *)
(***************************************************************************)
AdmissionImpliesProgress ==
  [][\A r \in ReqId : seqs[r].status = "PREFILL" => seqs'[r].status # "WAITING"]_vars

(***************************************************************************)
(* The mechanism terminates (phase1-engine.md:183-186): every accepted     *)
(* request is eventually finished, under any load and preemption pattern.  *)
(***************************************************************************)
EveryRequestFinishes ==
  \A r \in ReqId : r \in Live ~> seqs[r].status = "FINISHED"

(***************************************************************************)
(* The scheduler implements RequestLifecycle: seen through on_token and    *)
(* on_finish a preemption is invisible, a step serves one request at a     *)
(* time, the last token and the end come together, and every live request  *)
(* keeps being served.                                                     *)
(***************************************************************************)
Phase(r) == CASE r \in Live -> "live"
              [] seqs[r].status = "FINISHED" -> "done"
              [] OTHER -> "none"

Life == INSTANCE RequestLifecycle WITH
          phase <- [r \in ReqId |-> Phase(r)],
          limit <- [r \in ReqId |-> seqs[r].max_tokens],
          delivered <- [r \in ReqId |-> Len(tokens[r])]

Lifecycle == Life!LifeSpec

(***************************************************************************)
(* The part of it that owes nothing to scheduling, which any policy of     *)
(* admission keeps: no callback for a request that is not live, no token   *)
(* past max_tokens, an end that comes with a token, an id taken up again   *)
(* only after its end.                                                     *)
(***************************************************************************)
LifecycleSafety == Life!LifeSafety
==============================================================================
