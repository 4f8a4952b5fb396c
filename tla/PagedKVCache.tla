---------------------------- MODULE PagedKVCache ----------------------------
(***************************************************************************)
(* The block allocator of miniserve/kv_cache.py: a FIFO free list of       *)
(* physical block ids and one block table per request.  Only block ids     *)
(* move here; the K/V tensors they index are not part of this module.      *)
(*                                                                         *)
(* The dict block_tables is a total function in which << >> stands for "no *)
(* entry": allocate() refuses to make an empty table and append_block()    *)
(* only lengthens one, so the dict never holds an empty list.              *)
(*                                                                         *)
(* The three mutators are guard-then-mutate and single threaded, so each   *)
(* is one action.  A call the code answers with an exception changes no    *)
(* state and is outside the action's first conjunct; callers that could    *)
(* make one (Scheduler.tla) say what they do then.                         *)
(***************************************************************************)
EXTENDS Integers, Sequences, SequencesExt

CONSTANTS ReqId,      \* the request ids a caller may use
          NumBlocks   \* PagedKVCache.num_blocks

ASSUME NumBlocksAssumption == NumBlocks \in Nat

VARIABLES free_blocks,    \* deque of block ids, leftmost first
          block_tables    \* block ids held by each request, in logical order

kv_vars == <<free_blocks, block_tables>>

BlockId == 0 .. NumBlocks - 1

KVInit ==
  /\ free_blocks = [i \in 1 .. NumBlocks |-> i - 1]
  /\ block_tables = [r \in ReqId |-> << >>]

-----------------------------------------------------------------------------
free_count == Len(free_blocks)

(* "req_id in self.block_tables" *)
HasTable(r) == block_tables[r] # << >>

(***************************************************************************)
(* Mutated forms, each one the bug a definition below is checked against.  *)
(***************************************************************************)
BugReturnsAllButLast(r) == free_blocks \o Front(block_tables[r])

(* The free list after n popleft()s, and after a table is handed back. *)
AfterPop(n) == SubSeq(free_blocks, n + 1, Len(free_blocks))
AfterReturn(r) == free_blocks \o block_tables[r]

(***************************************************************************)
(* allocate(req_id, num_blocks): all or nothing.  Too few free blocks is a *)
(* False return without a state change; a second table for the same        *)
(* request or a request for no block at all is an exception.               *)
(***************************************************************************)
Allocate(r, n) ==
  /\ ~HasTable(r) /\ n >= 1
  /\ IF free_count < n
     THEN UNCHANGED kv_vars
     ELSE /\ block_tables' = [block_tables EXCEPT ![r] = SubSeq(free_blocks, 1, n)]
          /\ free_blocks' = AfterPop(n)

(* append_block(req_id): one more block, or False when none is free. *)
AppendBlock(r) ==
  /\ HasTable(r)
  /\ IF free_count = 0
     THEN UNCHANGED kv_vars
     ELSE /\ block_tables' = [block_tables EXCEPT ![r] = Append(@, Head(free_blocks))]
          /\ free_blocks' = AfterPop(1)

(* free(req_id): the whole table goes back, behind the blocks already free. *)
Free(r) ==
  /\ HasTable(r)
  /\ free_blocks' = AfterReturn(r)
  /\ block_tables' = [block_tables EXCEPT ![r] = << >>]

KVNext ==
  \E r \in ReqId : \/ \E n \in 1 .. NumBlocks + 1 : Allocate(r, n)
                   \/ AppendBlock(r)
                   \/ Free(r)

KVSpec == KVInit /\ [][KVNext]_kv_vars

-----------------------------------------------------------------------------
KVTypeOK ==
  /\ free_blocks \in Seq(BlockId)
  /\ block_tables \in [ReqId -> Seq(BlockId)]

(***************************************************************************)
(* Block conservation, the invariant check_invariants() recomputes after   *)
(* every mutation sequence of the tests: free + held = total and no id     *)
(* twice.  "As many ids as blocks, all different" is stated here as every  *)
(* block id being in exactly one place: once on the free list, or once in  *)
(* one request's table.                                                    *)
(***************************************************************************)
FreeListDistinct == IsInjective(free_blocks)

TablesDistinct == \A r \in ReqId : IsInjective(block_tables[r])

HeldByOne ==
  \A r, q \in ReqId : r # q =>
    ToSet(block_tables[r]) \cap ToSet(block_tables[q]) = {}

FreeOrHeld ==
  \A r \in ReqId : ToSet(block_tables[r]) \cap ToSet(free_blocks) = {}

NoneLost ==
  \A b \in BlockId : b \in ToSet(free_blocks)
                     \/ \E r \in ReqId : b \in ToSet(block_tables[r])

BlockConservation ==
  FreeListDistinct /\ TablesDistinct /\ HeldByOne /\ FreeOrHeld /\ NoneLost
=============================================================================
