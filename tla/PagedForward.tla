----------------------------- MODULE PagedForward ------------------------------
(***************************************************************************)
(* The KV contents of the paged cache: PagedModel.forward (model.py) under *)
(* the scheduler, and free() with its poisoning (kv_cache.py).             *)
(*                                                                         *)
(* Scheduler knows which blocks a request holds; here every slot of every  *)
(* block also has a content: the key and value of one position of one      *)
(* accepted request, the zeros it was created with, or the NaN of a        *)
(* poisoned block.  forward() serves the sequences of the batch one after  *)
(* the other, each writing its new positions and then gathering its whole  *)
(* past.  Layers are alike and their arithmetic is left out.               *)
(***************************************************************************)
EXTENDS Scheduler

VARIABLES poison_on_free,   \* a constructor argument: on in tests, off in serving
          kv,               \* the content of each slot, k_cache and v_cache alike
          left              \* sequences forward() has still to serve

paged_vars == <<vars, poison_on_free, kv, left>>

Slots == BlockId \X (0 .. BlockSize - 1)

Zeros == [seq |-> -1, pos |-> 0]
NaN == [seq |-> -2, pos |-> 0]

PagedInit ==
  /\ Init
  /\ poison_on_free \in BOOLEAN
  /\ kv = [c \in Slots |-> Zeros]
  /\ left = << >>

-----------------------------------------------------------------------------
(* positions // block_size through the table, positions % block_size *)
Slot(r, p) == <<block_tables[r][p \div BlockSize + 1], p % BlockSize>>

(* What r's object keeps at position p. *)
Own(r, p) == [seq |-> seqs[r].seq_no, pos |-> p]

Past(r) == 0 .. TotalLen(r) - 1

(***************************************************************************)
(* Mutated forms, each one the bug a definition below is checked against.  *)
(***************************************************************************)
BugPromptOnly(r) ==
  IF seqs[r].status = "PREFILL" THEN 0 .. seqs[r].prompt - 1 ELSE {TotalLen(r) - 1}
BugDecodeOneLate(r) ==
  IF seqs[r].status = "PREFILL" THEN Past(r) ELSE {TotalLen(r) - 2}
BugPoisonsAllButLast(r) ==
  [c \in Slots |->
     IF poison_on_free /\ c[1] \in ToSet(Front(block_tables[r])) THEN NaN ELSE kv[c]]

(* Prefill covers all content, generated tokens included; decode the newest. *)
Positions(r) == IF seqs[r].status = "PREFILL" THEN Past(r) ELSE {TotalLen(r) - 1}

Written(r) ==
  [c \in Slots |->
     IF \E p \in Positions(r) : Slot(r, p) = c
     THEN Own(r, CHOOSE p \in Positions(r) : Slot(r, p) = c)
     ELSE kv[c]]

(* The keys and values the attention of r sees, position by position. *)
Gathered(r, contents) == [p \in Past(r) |-> contents[Slot(r, p)]]

ForwardBegins ==
  /\ Forward
  /\ left' = work'
  /\ UNCHANGED <<poison_on_free, kv>>

ForwardOne ==
  /\ left # << >>
  /\ kv' = Written(Head(left))
  /\ left' = Tail(left)
  /\ UNCHANGED <<vars, poison_on_free>>

(* free() poisons the blocks before it puts them on the free list. *)
Poisoned(r) ==
  [c \in Slots |->
     IF poison_on_free /\ c[1] \in ToSet(block_tables[r]) THEN NaN ELSE kv[c]]

(* The steps of Scheduler that free a table, and those that do not. *)
FreeingStep ==
  \/ \E r \in ReqId, eos \in BOOLEAN : SampleLast(r, eos) /\ kv' = Poisoned(r)
  \/ MakeRoom /\ kv' = Poisoned(Victim)

OtherStep ==
  /\ \/ \E r \in ReqId, p \in PromptLens, m \in TokenLimits : Submit(r, p, m)
     \/ StepBegins \/ AdmitHead \/ CloseAdmission
     \/ \E r \in ReqId : SkipPreempted(r) \/ \E eos \in BOOLEAN : SampleNext(r, eos)
     \/ Grow \/ Retry \/ StepEnds
  /\ UNCHANGED kv

PagedNext ==
  \/ ForwardBegins
  \/ ForwardOne
  \/ left = << >> /\ (FreeingStep \/ OtherStep) /\ UNCHANGED <<poison_on_free, left>>

PagedSpec == PagedInit /\ [][PagedNext]_paged_vars

-----------------------------------------------------------------------------
(***************************************************************************)
(* Write-before-read, of the contents: whatever a block held before and    *)
(* whether or not it was poisoned, the attention of a request sees the KV  *)
(* of its own positions and nothing else, after any number of preemptions, *)
(* and although freed blocks are not zeroed (kv_cache.py:44-46).           *)
(***************************************************************************)
GathersOwnKV ==
  [][\A r \in ReqId : left # left' /\ left # << >> /\ r = Head(left)
       => Gathered(r, kv') = [p \in Past(r) |-> Own(r, p)]]_paged_vars

(***************************************************************************)
(* Between two passes a decoding request has the KV of all its positions   *)
(* but the newest, in its own blocks: decode writes one position only and  *)
(* relies on the earlier passes for the rest.                              *)
(***************************************************************************)
PastIsInPlace ==
  \A r \in Running : seqs[r].status = "DECODE" =>
    \A p \in 0 .. TotalLen(r) - 2 : kv[Slot(r, p)] = Own(r, p)

(***************************************************************************)
(* With poison_on_free no block on the free list keeps anybody's KV, so a  *)
(* read after free shows (kv_cache.py:46-48).                              *)
(***************************************************************************)
FreeKeepsNoKV ==
  poison_on_free =>
    \A b \in ToSet(free_blocks), o \in 0 .. BlockSize - 1 : kv[<<b, o>>] \in {Zeros, NaN}
================================================================================
