---------------------------- MODULE SchedulerProofs ----------------------------
(***************************************************************************)
(* Safety of the allocator and of scheduler.step(), and the order in which *)
(* step() serves requests, for any number of requests, blocks, slots per   *)
(* block and batch size.                                                   *)
(*                                                                         *)
(* The allocator keeps its types and conserves its blocks; the lemmas are  *)
(* about one call each, and the scheduler's steps cite them.  The          *)
(* properties of Scheduler.tla speak of single points of a step; SchedInv  *)
(* extends them to all points in between, and is inductive.  OrderInv does *)
(* the same for the order of service: strict FIFO among requests without a *)
(* token, no preemption before the first token, a head that always fits an *)
(* empty cache, and the steps of RequestLifecycle seen through callbacks.  *)
(***************************************************************************)
EXTENDS Scheduler, DataLemmas

KVInv == KVTypeOK /\ BlockConservation

-----------------------------------------------------------------------------
(***************************************************************************)
(* One call: the blocks a table gains are those the free list loses, and   *)
(* the other way round.                                                    *)
(***************************************************************************)
LEMMA KVStutterInv ==
  ASSUME KVInv, UNCHANGED kv_vars
  PROVE  KVInv'
  BY DEF KVInv, KVTypeOK, kv_vars, BlockConservation, FreeListDistinct, TablesDistinct,
         HeldByOne, FreeOrHeld, NoneLost

LEMMA AllocateKeepsInv ==
  ASSUME KVInv, NEW r \in ReqId, NEW n \in Nat, Allocate(r, n)
  PROVE  KVInv'
<1> USE DEF KVInv, KVTypeOK
<1>1. CASE free_count < n
  BY <1>1, KVStutterInv DEF Allocate
<1>2. CASE ~(free_count < n)
  <2> DEFINE a == SubSeq(free_blocks, 1, n)
             b == SubSeq(free_blocks, n + 1, Len(free_blocks))
  <2>1. n \in 0 .. Len(free_blocks)
    BY <1>2 DEF free_count
  <2>2. /\ a \in Seq(BlockId) /\ b \in Seq(BlockId)
        /\ IsInjective(a) /\ IsInjective(b)
        /\ ToSet(a) \cap ToSet(b) = {}
        /\ ToSet(a) \cup ToSet(b) = ToSet(free_blocks)
    BY <2>1, SplitDistinct DEF BlockConservation, FreeListDistinct
  <2>3. free_blocks' = b /\ block_tables' = [block_tables EXCEPT ![r] = a]
    BY <1>2 DEF Allocate, AfterPop
  <2>4. ToSet(block_tables[r]) = {}
    BY DEF Allocate, HasTable, ToSet
  <2> HIDE DEF a, b
  <2>5. KVTypeOK'
    BY <2>2, <2>3
  <2>6. \A q \in ReqId : block_tables'[q] = IF q = r THEN a ELSE block_tables[q]
    BY <2>3
  <2>7. FreeListDistinct' /\ TablesDistinct'
    BY <2>2, <2>3, <2>6 DEF BlockConservation, FreeListDistinct, TablesDistinct
  <2>8. HeldByOne' /\ FreeOrHeld'
    BY <2>2, <2>3, <2>6 DEF BlockConservation, HeldByOne, FreeOrHeld
  <2>9. NoneLost'
    BY <2>2, <2>3, <2>4, <2>6 DEF BlockConservation, NoneLost
  <2> QED
    BY <2>5, <2>7, <2>8, <2>9 DEF BlockConservation
<1> QED
  BY <1>1, <1>2

LEMMA AppendBlockKeepsInv ==
  ASSUME KVInv, NEW r \in ReqId, AppendBlock(r)
  PROVE  KVInv'
<1> USE DEF KVInv, KVTypeOK
<1>1. CASE free_count = 0
  BY <1>1, KVStutterInv DEF AppendBlock
<1>2. CASE free_count # 0
  <2> DEFINE a == SubSeq(free_blocks, 1, 1)
             b == SubSeq(free_blocks, 1 + 1, Len(free_blocks))
             t == block_tables[r]
  <2>1. 1 \in 0 .. Len(free_blocks) /\ free_blocks # << >>
    BY <1>2 DEF free_count
  <2>2. /\ a \in Seq(BlockId) /\ b \in Seq(BlockId)
        /\ IsInjective(a) /\ IsInjective(b)
        /\ ToSet(a) \cap ToSet(b) = {}
        /\ ToSet(a) \cup ToSet(b) = ToSet(free_blocks)
    BY <2>1, SplitDistinct DEF BlockConservation, FreeListDistinct
  <2>3. Append(t, Head(free_blocks)) = t \o a
    <3>1. Head(free_blocks) = free_blocks[1] /\ free_blocks[1] \in BlockId
      BY <2>1
    <3>2. Len(a) = 1 /\ a[1] = free_blocks[1]
      BY <2>1
    <3>3. a = <<free_blocks[1]>>
      <4> HIDE DEF a
      <4> QED
        BY <2>2, <3>1, <3>2, SeqEqual
    <3> HIDE DEF a
    <3> QED
      BY <3>1, <3>3, AppendIsConcat
  <2>4. free_blocks' = b /\ block_tables' = [block_tables EXCEPT ![r] = t \o a]
    BY <1>2, <2>3 DEF AppendBlock, AfterPop
  <2> HIDE DEF a, b
  <2>5. t \in Seq(BlockId) /\ IsInjective(t) /\ ToSet(t) \cap ToSet(a) = {}
    BY <2>2 DEF BlockConservation, TablesDistinct, FreeOrHeld
  <2> HIDE DEF t
  <2>6. /\ t \o a \in Seq(BlockId) /\ IsInjective(t \o a)
        /\ ToSet(t \o a) = ToSet(t) \cup ToSet(a)
    BY <2>2, <2>5, ConcatDistinct
  <2>7. KVTypeOK'
    BY <2>2, <2>4, <2>6
  <2>8. \A q \in ReqId : block_tables'[q] = IF q = r THEN t \o a ELSE block_tables[q]
    BY <2>4
  <2>9. FreeListDistinct' /\ TablesDistinct'
    BY <2>2, <2>4, <2>6, <2>8 DEF BlockConservation, FreeListDistinct, TablesDistinct
  <2>10. HeldByOne' /\ FreeOrHeld'
    BY <2>2, <2>4, <2>6, <2>8 DEF BlockConservation, HeldByOne, FreeOrHeld, t
  <2>11. NoneLost'
    BY <2>2, <2>4, <2>6, <2>8 DEF BlockConservation, NoneLost, t
  <2> QED
    BY <2>7, <2>9, <2>10, <2>11 DEF BlockConservation
<1> QED
  BY <1>1, <1>2

LEMMA FreeKeepsInv ==
  ASSUME KVInv, NEW r \in ReqId, Free(r)
  PROVE  KVInv'
<1> USE DEF KVInv, KVTypeOK
<1> DEFINE t == block_tables[r]
<1>1. t \in Seq(BlockId) /\ IsInjective(t) /\ ToSet(free_blocks) \cap ToSet(t) = {}
  BY DEF BlockConservation, TablesDistinct, FreeOrHeld
<1>2. /\ free_blocks \o t \in Seq(BlockId) /\ IsInjective(free_blocks \o t)
      /\ ToSet(free_blocks \o t) = ToSet(free_blocks) \cup ToSet(t)
  BY <1>1, ConcatDistinct DEF BlockConservation, FreeListDistinct
<1>3. free_blocks' = free_blocks \o t /\ block_tables' = [block_tables EXCEPT ![r] = << >>]
  BY DEF Free, AfterReturn
<1>4. IsInjective(<< >>) /\ ToSet(<< >>) = {}
  BY DEF IsInjective, ToSet
<1>5. KVTypeOK'
  BY <1>2, <1>3
<1> HIDE DEF t
<1>6. \A q \in ReqId : block_tables'[q] = IF q = r THEN << >> ELSE block_tables[q]
  BY <1>3
<1>7. FreeListDistinct' /\ TablesDistinct'
  BY <1>2, <1>3, <1>4, <1>6 DEF BlockConservation, FreeListDistinct, TablesDistinct
<1>8. HeldByOne' /\ FreeOrHeld'
  BY <1>2, <1>3, <1>4, <1>6 DEF BlockConservation, HeldByOne, FreeOrHeld, t
<1>9. NoneLost'
  BY <1>2, <1>3, <1>4, <1>6 DEF BlockConservation, NoneLost, t
<1> QED
  BY <1>5, <1>7, <1>8, <1>9 DEF BlockConservation

LEMMA KVInitInv ==
  ASSUME KVInit
  PROVE  KVInv
<1> USE NumBlocksAssumption DEF KVInit, BlockId
<1>1. KVTypeOK
  BY DEF KVTypeOK
<1>2. FreeListDistinct
  BY DEF FreeListDistinct, IsInjective
<1>3. TablesDistinct /\ HeldByOne /\ FreeOrHeld
  BY DEF TablesDistinct, HeldByOne, FreeOrHeld, IsInjective, ToSet
<1>4. NoneLost
  <2> SUFFICES ASSUME NEW k \in BlockId PROVE k \in ToSet(free_blocks)
    BY DEF NoneLost
  <2>1. k + 1 \in DOMAIN free_blocks /\ free_blocks[k + 1] = k
    OBVIOUS
  <2> QED
    BY <2>1 DEF ToSet
<1> QED
  BY <1>1, <1>2, <1>3, <1>4 DEF KVInv, BlockConservation

(***************************************************************************)
(* Under any sequence of legal calls, by any set of requests and for any   *)
(* number of blocks, each block is on the free list once or in one table   *)
(* once: what check_invariants() tests after the mutations of one run.     *)
(***************************************************************************)
THEOREM KVConserves == KVSpec => [](KVTypeOK /\ BlockConservation)
<1>1. KVInit => KVInv
  BY KVInitInv
<1>2. KVInv /\ [KVNext]_kv_vars => KVInv'
  <2> SUFFICES ASSUME KVInv, [KVNext]_kv_vars PROVE KVInv'
    OBVIOUS
  <2>1. CASE UNCHANGED kv_vars
    BY <2>1, KVStutterInv
  <2>2. CASE \E r \in ReqId : \E n \in 1 .. NumBlocks + 1 : Allocate(r, n)
    BY <2>2, NumBlocksAssumption, AllocateKeepsInv
  <2>3. CASE \E r \in ReqId : AppendBlock(r)
    BY <2>3, AppendBlockKeepsInv
  <2>4. CASE \E r \in ReqId : Free(r)
    BY <2>4, FreeKeepsInv
  <2> QED
    BY <2>1, <2>2, <2>3, <2>4 DEF KVNext
<1>3. KVInv => KVTypeOK /\ BlockConservation
  BY DEF KVInv
<1> QED
  BY <1>1, <1>2, <1>3, PTL DEF KVSpec

-----------------------------------------------------------------------------
(* Between the sample that outgrows a table and the block that is added. *)
Growing == pc \in {"grow", "make_room", "retry"}

Owed(r) == IF Growing /\ r = Head(work) THEN 1 ELSE 0

(* The tables fit the contents at every point, up to the block owed. *)
TablesFit ==
  \A r \in Running : Len(block_tables[r]) = BlocksFor(TotalLen(r)) - Owed(r)

(* What is left of the snapshot runs or was preempted in this very loop. *)
WorkIsLive == pc = "loop" \/ Growing => ToSet(work) \subseteq Live

HeadGrows == Growing => work # << >> /\ Head(work) \in Running

RoomMade == pc = "retry" => free_count > 0

LiveHasContent == \A r \in Live : seqs[r].prompt >= 1

SeqNosBelow == \A r \in ReqId : seqs[r].seq_no <= seq_counter

SchedInv ==
  /\ TypeOK /\ BlockConservation
  /\ StatusMatchesQueue /\ TablesMatchRunning /\ StreamedOnce
  /\ TablesFit /\ WorkIsLive /\ HeadGrows /\ RoomMade
  /\ LiveHasContent /\ SeqNosBelow

-----------------------------------------------------------------------------
(* Division, by its quotient and remainder. *)
LEMMA DivBounds ==
  ASSUME NEW a \in Nat, NEW d \in Nat \ {0}
  PROVE  a \div d \in Nat /\ d * (a \div d) <= a /\ a < d * (a \div d) + d
  OBVIOUS

LEMMA NextMultiple ==
  ASSUME NEW q \in Nat, NEW p \in Nat, NEW d \in Nat \ {0}, q > p
  PROVE  d * q >= d * p + d
<1>1. PICK k \in Nat : q = p + 1 + k
  <2>1. q - p - 1 \in Nat /\ q = p + 1 + (q - p - 1)
    OBVIOUS
  <2> QED
    BY <2>1
<1>2. d * q = d * p + d + d * k
  BY <1>1
<1>3. d * k >= 0
  OBVIOUS
<1> QED
  BY <1>2, <1>3

(* One token more needs the same number of blocks or one more. *)
LEMMA BlocksForStep ==
  ASSUME NEW n \in Nat
  PROVE  /\ BlocksFor(n) \in Nat
         /\ BlocksFor(n + 1) \in BlocksFor(n) .. BlocksFor(n) + 1
         /\ n >= 1 => BlocksFor(n) >= 1
<1> DEFINE d == BlockSize
           p == (n + d - 1) \div d
           q == (n + 1 + d - 1) \div d
<1>1. d \in Nat \ {0}
  BY SchedulerAssumption
<1>2. n + d - 1 \in Nat /\ n + 1 + d - 1 \in Nat
  BY <1>1
<1>3. /\ p \in Nat /\ d * p <= n + d - 1 /\ n + d - 1 < d * p + d
      /\ q \in Nat /\ d * q <= n + d /\ n + d < d * q + d
  BY <1>1, <1>2, DivBounds
<1>4. BlocksFor(n) = p /\ BlocksFor(n + 1) = q
  BY DEF BlocksFor
<1> HIDE DEF d, p, q
<1>5. d * p \in Int /\ d * q \in Int
  BY <1>1, <1>3
<1>6. p <= q
  <2>1. p > q => d * p >= d * q + d
    BY <1>1, <1>3, NextMultiple
  <2> QED
    BY <1>1, <1>3, <1>5, <2>1
<1>7. q <= p + 1
  <2>1. q > p + 1 => d * q >= d * (p + 1) + d
    BY <1>1, <1>3, NextMultiple
  <2>2. d * (p + 1) = d * p + d
    BY <1>1, <1>3
  <2> QED
    BY <1>1, <1>3, <1>5, <2>1, <2>2
<1>8. n >= 1 => p >= 1
  <2>1. p = 0 => d * p = 0
    BY <1>1
  <2> QED
    BY <1>1, <1>3, <1>5, <2>1
<1> QED
  BY <1>3, <1>4, <1>6, <1>7, <1>8

(* The stream after one on_token() call more. *)
LEMMA OneTokenMore ==
  ASSUME NEW n \in Nat
  PROVE  [i \in 1 .. n |-> i] \o [i \in 1 .. n + 1 - n |-> n + i] = [i \in 1 .. n + 1 |-> i]
<1> DEFINE s == [i \in 1 .. n |-> i]
           t == [i \in 1 .. 1 |-> n + i]
           u == [i \in 1 .. n + 1 |-> i]
<1>0. n + 1 - n = 1
  OBVIOUS
<1>1. s \in Seq(Nat) /\ Len(s) = n /\ \A i \in 1 .. n : s[i] = i
  OBVIOUS
<1>2. t \in Seq(Nat) /\ Len(t) = 1 /\ t[1] = n + 1
  OBVIOUS
<1>3. u \in Seq(Nat) /\ Len(u) = n + 1 /\ \A i \in 1 .. n + 1 : u[i] = i
  OBVIOUS
<1> HIDE DEF s, t, u
<1>4. s \in Seq(Nat) /\ t \in Seq(Nat)
  BY <1>1, <1>2
<1>5. /\ s \o t \in Seq(Nat) /\ Len(s \o t) = Len(s) + Len(t)
      /\ \A i \in 1 .. Len(s) + Len(t) : (s \o t)[i] = IF i <= Len(s) THEN s[i] ELSE t[i - Len(s)]
  BY <1>4, ConcatProperties
<1> DEFINE w == s \o t
<1>6. w \in Seq(Nat) /\ Len(w) = n + 1
  BY <1>1, <1>2, <1>5
<1>7. ASSUME NEW i \in 1 .. n + 1 PROVE w[i] = i
  <2>1. w[i] = IF i <= n THEN s[i] ELSE t[i - n]
    BY <1>1, <1>2, <1>5
  <2>2. CASE i <= n
    <3>1. i \in 1 .. n
      BY <2>2
    <3> QED
      BY <2>1, <2>2, <3>1, <1>1
  <2>3. CASE ~(i <= n)
    <3>1. i - n = 1 /\ i = n + 1
      BY <2>3
    <3> QED
      BY <2>1, <2>3, <3>1, <1>2
  <2> QED
    BY <2>2, <2>3
<1> HIDE DEF w
<1>8. w = u
  BY <1>3, <1>6, <1>7, SeqEqual
<1> QED
  BY <1>0, <1>8 DEF s, t, u, w

(* max() over a nonempty set has a result: the victim is a running request. *)
LEMMA VictimRuns ==
  ASSUME SchedInv, Running # {}
  PROVE  Victim \in Running /\ Victim \in Candidates
<1> DEFINE no(r) == seq_counter - seqs[r].seq_no
           T == {no(r) : r \in Candidates}
<1>1. Candidates \subseteq Running /\ Candidates # {}
  BY DEF Candidates, Decoded
<1>2. Candidates \subseteq ReqId
  BY <1>1, InToSet, ToSetOfSeq DEF Running, SchedInv, TypeOK
<1>3. seq_counter \in Nat /\ \A r \in ReqId : seqs[r].seq_no \in Nat /\ no(r) \in Nat
  BY DEF SchedInv, SeqNosBelow, TypeOK, SeqRecord
<1>4. T \subseteq Nat /\ T # {}
  BY <1>1, <1>2, <1>3
<1>5. PICK x \in T : \A y \in T : x <= y
  <2> HIDE DEF T
  <2> QED
    BY <1>4, LeastNumber
<1>6. PICK v \in Candidates : x = no(v)
  OBVIOUS
<1>7. ASSUME NEW r \in Candidates PROVE seqs[r].seq_no <= seqs[v].seq_no
  <2>1. no(v) <= no(r)
    BY <1>5, <1>6
  <2> QED
    BY <1>2, <1>3, <2>1
<1>8. Victim \in Candidates
  BY <1>6, <1>7 DEF Victim
<1> QED
  BY <1>1, <1>8
-----------------------------------------------------------------------------
(* What the allocator calls do to the lengths of the tables. *)
LEMMA AllocateEffect ==
  ASSUME KVTypeOK, NEW r \in ReqId, NEW n \in Nat, Allocate(r, n), free_count >= n
  PROVE  /\ block_tables'[r] # << >> /\ Len(block_tables'[r]) = n
         /\ \A q \in ReqId : q # r => block_tables'[q] = block_tables[q]
<1>1. n \in 0 .. Len(free_blocks) /\ n >= 1 /\ ~(free_count < n)
  BY DEF KVTypeOK, free_count, Allocate
<1>2. block_tables' = [block_tables EXCEPT ![r] = SubSeq(free_blocks, 1, n)]
  BY <1>1 DEF Allocate
<1> DEFINE a == SubSeq(free_blocks, 1, n)
<1>3. a \in Seq(BlockId) /\ Len(a) = n
  BY <1>1, SplitSeq DEF KVTypeOK
<1> HIDE DEF a
<1>4. block_tables' = [block_tables EXCEPT ![r] = a] /\ a # << >>
  BY <1>1, <1>2, <1>3, EmptySeq DEF a
<1> QED
  BY <1>3, <1>4 DEF KVTypeOK

LEMMA AppendEffect ==
  ASSUME KVTypeOK, NEW r \in ReqId, AppendBlock(r), free_count > 0
  PROVE  /\ block_tables'[r] # << >> /\ Len(block_tables'[r]) = Len(block_tables[r]) + 1
         /\ \A q \in ReqId : q # r => block_tables'[q] = block_tables[q]
<1>1. free_blocks # << >> /\ block_tables[r] \in Seq(BlockId) /\ Head(free_blocks) \in BlockId
  BY EmptySeq DEF KVTypeOK, free_count
<1>2. block_tables' = [block_tables EXCEPT ![r] = Append(block_tables[r], Head(free_blocks))]
  BY DEF AppendBlock
<1> QED
  BY <1>1, <1>2, AppendProperties DEF KVTypeOK

LEMMA FreeEffect ==
  ASSUME KVTypeOK, NEW r \in ReqId, Free(r)
  PROVE  /\ block_tables'[r] = << >> /\ Len(free_blocks') > 0
         /\ \A q \in ReqId : q # r => block_tables'[q] = block_tables[q]
<1>1. /\ free_blocks \in Seq(BlockId) /\ block_tables[r] \in Seq(BlockId)
      /\ block_tables[r] # << >>
  BY DEF KVTypeOK, Free, HasTable
<1>2. /\ free_blocks' = free_blocks \o block_tables[r]
      /\ block_tables' = [block_tables EXCEPT ![r] = << >>]
  BY DEF Free, AfterReturn
<1>3. Len(free_blocks \o block_tables[r]) = Len(free_blocks) + Len(block_tables[r])
  BY <1>1, ConcatProperties
<1>4. Len(free_blocks) \in Nat /\ Len(block_tables[r]) \in Nat \ {0}
  BY <1>1, EmptySeq
<1> QED
  BY <1>2, <1>3, <1>4 DEF KVTypeOK

-----------------------------------------------------------------------------
(***************************************************************************)
(* Each action of step() keeps SchedInv.                                   *)
(***************************************************************************)
LEMMA SubmitKeepsInv ==
  ASSUME SchedInv, NEW r \in ReqId, NEW p \in Int, NEW m \in Int,
         Submit(r, p, m)
  PROVE  SchedInv'
<1> DEFINE new == [Absent EXCEPT !.prompt = p, !.max_tokens = m,
                                 !.seq_no = seq_counter, !.status = "WAITING"]
<1>1. /\ pc = "idle" /\ pc' = "idle" /\ r \notin Waiting /\ r \notin Running
      /\ p \in Nat /\ m \in Nat /\ p >= 1 /\ seq_counter \in Nat
      /\ seq_counter' = seq_counter + 1
      /\ seqs' = [seqs EXCEPT ![r] = new] /\ tokens' = [tokens EXCEPT ![r] = << >>]
      /\ waiting' = Append(waiting, r) /\ running' = running /\ work' = work
      /\ block_tables' = block_tables /\ free_blocks' = free_blocks
  BY SchedulerAssumption DEF Submit, Refused, Live, SchedInv, TypeOK, kv_vars
<1>2. /\ new \in SeqRecord /\ new.status = "WAITING" /\ new.outputs = 0 /\ new.emitted = 0
      /\ new.prompt = p /\ new.seq_no = seq_counter
  BY <1>1 DEF Absent, SeqRecord
<1>3. /\ waiting' \in Seq(ReqId) /\ IsInjective(waiting')
      /\ Waiting' = Waiting \cup {r} /\ Running' = Running
  BY <1>1, AppendDistinct DEF SchedInv, TypeOK, Waiting, Running
<1> HIDE DEF new
<1>4. \A q \in ReqId : seqs'[q] = IF q = r THEN new ELSE seqs[q]
  BY <1>1 DEF SchedInv, TypeOK
<1>5. KVTypeOK' /\ BlockConservation'
  BY <1>1, KVStutterInv DEF SchedInv, TypeOK, KVInv, kv_vars
<1>6. TypeOK'
  BY <1>1, <1>2, <1>3, <1>5 DEF SchedInv, TypeOK
<1>7. StatusMatchesQueue'
  <2> SUFFICES ASSUME NEW q \in ReqId
               PROVE  /\ q \in Waiting' <=> seqs'[q].status = "WAITING"
                      /\ q \in Running' <=> seqs'[q].status \in {"PREFILL", "DECODE"}
    BY DEF StatusMatchesQueue
  <2>1. CASE q = r
    BY <2>1, <1>1, <1>2, <1>3, <1>4
  <2>2. CASE q # r
    BY <2>2, <1>3, <1>4 DEF SchedInv, StatusMatchesQueue
  <2> QED
    BY <2>1, <2>2
<1>8. TablesMatchRunning'
  BY <1>1, <1>3 DEF SchedInv, TablesMatchRunning, HasTable
<1>9. StreamedOnce'
  <2>1. << >> = [i \in 1 .. 0 |-> i]
    OBVIOUS
  <2>2. \A q \in ReqId : tokens'[q] = IF q = r THEN << >> ELSE tokens[q]
    BY <1>1 DEF SchedInv, TypeOK
  <2> QED
    BY <1>2, <1>4, <2>1, <2>2 DEF SchedInv, StreamedOnce
<1>10. TablesFit'
  <2>1. \A q \in Running : q \in ReqId /\ q # r
    BY <1>1, ToSetOfSeq DEF Running, SchedInv, TypeOK
  <2> QED
    BY <1>1, <1>3, <1>4, <2>1 DEF SchedInv, TablesFit, TotalLen, Owed, Growing
<1>11. WorkIsLive' /\ HeadGrows' /\ RoomMade'
  BY <1>1 DEF WorkIsLive, HeadGrows, RoomMade, Growing
<1>12. LiveHasContent'
  <2>1. \A q \in Live' : q = r \/ (q \in Live /\ q \in ReqId)
    BY <1>3, ToSetOfSeq DEF Live, Waiting, Running, SchedInv, TypeOK
  <2> QED
    BY <1>1, <1>2, <1>4, <2>1 DEF SchedInv, LiveHasContent
<1>13. SeqNosBelow'
  <2> SUFFICES ASSUME NEW q \in ReqId PROVE seqs'[q].seq_no <= seq_counter'
    BY DEF SeqNosBelow
  <2>1. seqs[q].seq_no \in Nat /\ seqs[q].seq_no <= seq_counter
    BY DEF SchedInv, SeqNosBelow, TypeOK, SeqRecord
  <2> QED
    BY <1>1, <1>2, <1>4, <2>1
<1> QED
  BY <1>5, <1>6, <1>7, <1>8, <1>9, <1>10, <1>11, <1>12, <1>13 DEF SchedInv

(* An action that moves pc and the work list only, outside the growth window. *)
LEMMA MoveOnKeepsInv ==
  ASSUME SchedInv, UNCHANGED <<kv_vars, waiting, running, seqs, seq_counter, tokens>>,
         ~Growing, pc' \in {"idle", "admit", "forward", "loop"},
         work' \in Seq(ReqId), IsInjective(work'),
         pc' = "loop" => ToSet(work') \subseteq Live
  PROVE  SchedInv'
<1>1. KVTypeOK' /\ BlockConservation'
  BY KVStutterInv DEF SchedInv, TypeOK, KVInv
<1>2. TypeOK'
  BY <1>1 DEF SchedInv, TypeOK
<1>3. StatusMatchesQueue' /\ LiveHasContent' /\ SeqNosBelow' /\ StreamedOnce'
  BY DEF SchedInv, StatusMatchesQueue, LiveHasContent, SeqNosBelow, StreamedOnce,
         Live, Waiting, Running
<1>4. TablesMatchRunning'
  BY DEF SchedInv, TablesMatchRunning, Running, HasTable, kv_vars
<1>5. TablesFit'
  BY DEF SchedInv, TablesFit, Running, TotalLen, Owed, Growing, kv_vars
<1>6. WorkIsLive' /\ HeadGrows' /\ RoomMade'
  BY DEF WorkIsLive, HeadGrows, RoomMade, Growing, Live, Waiting, Running
<1> QED
  BY <1>1, <1>2, <1>3, <1>4, <1>5, <1>6 DEF SchedInv

LEMMA BracketsKeepInv ==
  ASSUME SchedInv, StepBegins \/ CloseAdmission \/ StepEnds
  PROVE  SchedInv'
<1>1. /\ UNCHANGED <<kv_vars, waiting, running, seqs, seq_counter, work, tokens>>
      /\ pc' \in {"idle", "admit", "forward"} /\ ~Growing
  BY DEF StepBegins, CloseAdmission, StepEnds, Growing
<1>2. work' \in Seq(ReqId) /\ IsInjective(work')
  BY <1>1 DEF SchedInv, TypeOK
<1> QED
  BY <1>1, <1>2, MoveOnKeepsInv

LEMMA ForwardKeepsInv ==
  ASSUME SchedInv, Forward
  PROVE  SchedInv'
<1>1. PICK w \in [1 .. Len(running) -> Running] : IsInjective(w) /\ work' = w
  BY DEF Forward, PrefillThenDecode
<1>2. /\ UNCHANGED <<kv_vars, waiting, running, seqs, seq_counter, tokens>>
      /\ pc' = "loop" /\ ~Growing
  BY DEF Forward, Growing
<1>3. Running \subseteq ReqId /\ Running \subseteq Live /\ Len(running) \in Nat
  BY ToSetOfSeq DEF Running, Live, SchedInv, TypeOK
<1>4. w \in Seq(Running) /\ w \in Seq(ReqId)
  BY <1>3
<1>5. ToSet(w) \subseteq Live
  BY <1>3, <1>4, ToSetOfSeq
<1> QED
  BY <1>1, <1>2, <1>4, <1>5, MoveOnKeepsInv

(* The rest of the work list, once its head was dealt with. *)
LEMMA RestOfWork ==
  ASSUME SchedInv, work # << >>, pc = "loop" \/ Growing
  PROVE  /\ Head(work) \in ReqId /\ Head(work) \in Live
         /\ Tail(work) \in Seq(ReqId) /\ IsInjective(Tail(work))
         /\ ToSet(Tail(work)) \subseteq Live \ {Head(work)}
<1>1. work \in Seq(ReqId) /\ IsInjective(work) /\ ToSet(work) \subseteq Live
  BY DEF SchedInv, TypeOK, WorkIsLive
<1> QED
  BY <1>1, TailDistinct

LEMMA SkipPreemptedKeepsInv ==
  ASSUME SchedInv, NEW r \in ReqId, SkipPreempted(r)
  PROVE  SchedInv'
<1>1. /\ UNCHANGED <<kv_vars, waiting, running, seqs, seq_counter, tokens>>
      /\ pc = "loop" /\ pc' = "loop" /\ work # << >> /\ work' = Tail(work) /\ ~Growing
  BY DEF SkipPreempted, AtHead, LoopOn, Growing
<1>2. work' \in Seq(ReqId) /\ IsInjective(work') /\ ToSet(work') \subseteq Live
  BY <1>1, RestOfWork
<1> QED
  BY <1>1, <1>2, MoveOnKeepsInv

(* Requests of the two queues: ids, and never in both. *)
LEMMA QueuesDisjoint ==
  ASSUME SchedInv
  PROVE  /\ Waiting \subseteq ReqId /\ Running \subseteq ReqId
         /\ Waiting \cap Running = {}
<1>1. Waiting \subseteq ReqId /\ Running \subseteq ReqId
  BY ToSetOfSeq DEF Waiting, Running, SchedInv, TypeOK
<1> QED
  BY <1>1 DEF SchedInv, StatusMatchesQueue

LEMMA AdmitHeadKeepsInv ==
  ASSUME SchedInv, AdmitHead
  PROVE  SchedInv'
<1> DEFINE r == Head(waiting)
           n == BlocksFor(TotalLen(r))
           new == [seqs[r] EXCEPT !.status = "PREFILL"]
<1>1. /\ pc = "admit" /\ pc' = "admit" /\ work' = work /\ waiting # << >>
      /\ Len(running) < MaxBatch /\ free_count >= Headroom(r)
      /\ Allocate(r, n) /\ running' = Append(running, r) /\ waiting' = Tail(waiting)
      /\ seqs' = [seqs EXCEPT ![r].status = "PREFILL"]
      /\ seq_counter' = seq_counter /\ tokens' = tokens
  BY DEF AdmitHead, CanAdmit, SetStatus
<1>2. r \in ReqId /\ r \in Waiting /\ r \notin Running
  <2>1. r \in ReqId /\ r \in Waiting
    BY <1>1, TailDistinct DEF Waiting, SchedInv, TypeOK
  <2> QED
    BY <2>1, QueuesDisjoint
<1> HIDE DEF r
<1>3. /\ waiting' \in Seq(ReqId) /\ IsInjective(waiting') /\ Waiting' = Waiting \ {r}
      /\ running' \in Seq(ReqId) /\ IsInjective(running') /\ Running' = Running \cup {r}
      /\ Len(running') <= MaxBatch
  <2>1. /\ waiting' \in Seq(ReqId) /\ IsInjective(waiting') /\ Waiting' = Waiting \ {r}
    BY <1>1, TailDistinct DEF SchedInv, TypeOK, Waiting, r
  <2>2. /\ running' \in Seq(ReqId) /\ IsInjective(running') /\ Running' = Running \cup {r}
        /\ Len(running') = Len(running) + 1
    BY <1>1, <1>2, AppendDistinct DEF SchedInv, TypeOK, Running
  <2>3. Len(running) \in Nat /\ MaxBatch \in Nat
    BY SchedulerAssumption DEF SchedInv, TypeOK
  <2> QED
    BY <1>1, <2>1, <2>2, <2>3
<1>4. seqs[r] \in SeqRecord /\ TotalLen(r) \in Nat
  BY <1>2 DEF SchedInv, TypeOK, SeqRecord, TotalLen
<1>5. n \in Nat /\ free_count >= n
  <2>1. Headroom(r) \in BlocksFor(TotalLen(r)) .. BlocksFor(TotalLen(r)) + 1 /\ n \in Nat
    BY <1>4, BlocksForStep DEF Headroom
  <2>2. free_count \in Nat
    BY DEF free_count, SchedInv, TypeOK, KVTypeOK
  <2> QED
    BY <1>1, <2>1, <2>2
<1>6. /\ new \in SeqRecord /\ new.status = "PREFILL" /\ new.outputs = seqs[r].outputs
      /\ new.emitted = seqs[r].emitted /\ new.prompt = seqs[r].prompt
      /\ new.seq_no = seqs[r].seq_no
  BY <1>4 DEF SeqRecord
<1>7. seqs' = [seqs EXCEPT ![r] = new]
  BY <1>1
<1> HIDE DEF n, new
<1>8. \A q \in ReqId : seqs'[q] = IF q = r THEN new ELSE seqs[q]
  BY <1>7 DEF SchedInv, TypeOK
<1>9. KVTypeOK' /\ BlockConservation'
  BY <1>1, <1>2, <1>5, AllocateKeepsInv DEF SchedInv, TypeOK, KVInv
<1>10. /\ block_tables'[r] # << >> /\ Len(block_tables'[r]) = n
       /\ \A q \in ReqId : q # r => block_tables'[q] = block_tables[q]
  BY <1>1, <1>2, <1>5, AllocateEffect DEF SchedInv, TypeOK
<1>11. TypeOK'
  BY <1>1, <1>2, <1>3, <1>6, <1>7, <1>9 DEF SchedInv, TypeOK
<1>12. StatusMatchesQueue'
  <2> SUFFICES ASSUME NEW q \in ReqId
               PROVE  /\ q \in Waiting' <=> seqs'[q].status = "WAITING"
                      /\ q \in Running' <=> seqs'[q].status \in {"PREFILL", "DECODE"}
    BY DEF StatusMatchesQueue
  <2>1. CASE q = r
    BY <2>1, <1>3, <1>6, <1>8
  <2>2. CASE q # r
    BY <2>2, <1>3, <1>8 DEF SchedInv, StatusMatchesQueue
  <2> QED
    BY <2>1, <2>2
<1>13. TablesMatchRunning'
  BY <1>3, <1>10 DEF SchedInv, TablesMatchRunning, HasTable
<1>14. StreamedOnce'
  BY <1>1, <1>6, <1>8 DEF SchedInv, StreamedOnce
<1>15. TablesFit'
  <2> SUFFICES ASSUME NEW q \in Running'
               PROVE  Len(block_tables'[q]) = BlocksFor(TotalLen(q)') - 0
    BY <1>1 DEF TablesFit, Owed, Growing, BlocksFor
  <2>1. q \in ReqId
    BY <1>2, <1>3, QueuesDisjoint
  <2>2. TotalLen(q)' = TotalLen(q)
    BY <1>6, <1>8, <2>1 DEF TotalLen
  <2>3. CASE q = r
    BY <1>5, <1>10, <2>2, <2>3 DEF n
  <2>4. CASE q # r
    BY <1>1, <1>3, <1>10, <2>1, <2>2, <2>4 DEF SchedInv, TablesFit, Owed, Growing
  <2> QED
    BY <2>3, <2>4
<1>16. WorkIsLive' /\ HeadGrows' /\ RoomMade'
  BY <1>1 DEF WorkIsLive, HeadGrows, RoomMade, Growing
<1>17. LiveHasContent'
  <2>1. \A q \in Live' : q \in Live /\ q \in ReqId
    BY <1>2, <1>3, QueuesDisjoint DEF Live
  <2> QED
    BY <1>6, <1>8, <2>1 DEF SchedInv, LiveHasContent
<1>18. SeqNosBelow'
  BY <1>1, <1>6, <1>8 DEF SchedInv, SeqNosBelow
<1> QED
  BY <1>9, <1>11, <1>12, <1>13, <1>14, <1>15, <1>16, <1>17, <1>18 DEF SchedInv

(***************************************************************************)
(* Sampling: the head of the work list runs, and gets one token more.      *)
(***************************************************************************)
LEMMA SampledRuns ==
  ASSUME SchedInv, NEW r \in ReqId, AtHead(r), seqs[r].status # "WAITING"
  PROVE  /\ r \in Running /\ r \notin Waiting /\ work # << >> /\ r = Head(work)
         /\ seqs[r] \in SeqRecord /\ Sampled(seqs[r]) \in SeqRecord
         /\ TotalLen(r) \in Nat /\ seqs[r].emitted = seqs[r].outputs
<1>1. r \in Live /\ work # << >> /\ r = Head(work)
  BY RestOfWork DEF AtHead
<1>2. r \in Running /\ r \notin Waiting
  BY <1>1 DEF Live, SchedInv, StatusMatchesQueue
<1>3. seqs[r] \in SeqRecord /\ seqs[r].emitted = seqs[r].outputs
  BY DEF SchedInv, TypeOK, StreamedOnce
<1>4. seqs[r].outputs \in Nat /\ seqs[r].prompt \in Nat
  BY <1>3 DEF SeqRecord
<1>5. Sampled(seqs[r]) \in SeqRecord
  <2> DEFINE n == seqs[r].outputs + 1
             a == [seqs[r] EXCEPT !.outputs = n]
             b == [a EXCEPT !.emitted = n]
             c == [b EXCEPT !.status = "DECODE"]
  <2>1. n \in Nat
    BY <1>4
  <2> HIDE DEF n
  <2>2. a \in SeqRecord
    BY <1>3, <2>1 DEF SeqRecord
  <2> HIDE DEF a
  <2>3. b \in SeqRecord
    BY <2>1, <2>2 DEF SeqRecord
  <2> HIDE DEF b
  <2>4. c \in SeqRecord
    BY <2>3 DEF SeqRecord
  <2>5. Sampled(seqs[r]) = c
    BY DEF Sampled, a, b, n
  <2> QED
    BY <2>4, <2>5
<1>6. TotalLen(r) \in Nat
  BY <1>4 DEF TotalLen
<1> QED
  BY <1>1, <1>2, <1>3, <1>5, <1>6

LEMMA EmitEffect ==
  ASSUME SchedInv, NEW r \in ReqId, Emit(r),
         \A q \in ReqId : seqs'[q].outputs = IF q = r THEN seqs[r].outputs + 1
                                                      ELSE seqs[q].outputs,
         \A q \in ReqId : seqs'[q].emitted = seqs'[q].outputs
  PROVE  tokens' \in [ReqId -> Seq(Nat)] /\ StreamedOnce'
<1> DEFINE n == seqs[r].outputs
<1>1. /\ n \in Nat /\ seqs[r].emitted = n /\ tokens \in [ReqId -> Seq(Nat)]
      /\ tokens[r] = [i \in 1 .. n |-> i]
  BY DEF SchedInv, TypeOK, SeqRecord, StreamedOnce
<1>2. tokens' = [tokens EXCEPT ![r] = tokens[r] \o [i \in 1 .. n + 1 - n |-> n + i]]
  BY <1>1 DEF Emit
<1> HIDE DEF n
<1>3. tokens' = [tokens EXCEPT ![r] = [i \in 1 .. n + 1 |-> i]]
  BY <1>1, <1>2, OneTokenMore
<1>4. [i \in 1 .. n + 1 |-> i] \in Seq(Nat)
  BY <1>1
<1>5. tokens' \in [ReqId -> Seq(Nat)]
  BY <1>1, <1>3, <1>4
<1>6. ASSUME NEW q \in ReqId PROVE tokens'[q] = [i \in 1 .. seqs'[q].outputs |-> i]
  <2>1. CASE q = r
    BY <2>1, <1>1, <1>3 DEF n
  <2>2. CASE q # r
    <3>1. tokens'[q] = tokens[q] /\ seqs'[q].outputs = seqs[q].outputs
      BY <2>2, <1>1, <1>3
    <3> QED
      BY <3>1 DEF SchedInv, StreamedOnce
  <2> QED
    BY <2>1, <2>2
<1> QED
  BY <1>5, <1>6 DEF StreamedOnce

LEMMA SampleLastKeepsInv ==
  ASSUME SchedInv, NEW r \in ReqId, NEW eos \in BOOLEAN, SampleLast(r, eos)
  PROVE  SchedInv'
<1> DEFINE new == [Sampled(seqs[r]) EXCEPT !.status = "FINISHED"]
<1>1. /\ AtHead(r) /\ seqs[r].status # "WAITING" /\ Emit(r) /\ Free(r)
      /\ seqs' = [seqs EXCEPT ![r] = new] /\ running' = RemoveFirst(running, r)
      /\ waiting' = waiting /\ seq_counter' = seq_counter
      /\ pc = "loop" /\ pc' = "loop" /\ work' = Tail(work)
  BY DEF SampleLast, AtHead, LoopOn
<1>2. /\ r \in Running /\ r \notin Waiting /\ work # << >> /\ r = Head(work)
      /\ seqs[r] \in SeqRecord /\ Sampled(seqs[r]) \in SeqRecord
      /\ seqs[r].emitted = seqs[r].outputs
  BY <1>1, SampledRuns
<1>3. /\ new \in SeqRecord /\ new.status = "FINISHED" /\ new.outputs = seqs[r].outputs + 1
      /\ new.emitted = new.outputs /\ new.prompt = seqs[r].prompt
      /\ new.seq_no = seqs[r].seq_no
  BY <1>2 DEF SeqRecord, Sampled
<1> HIDE DEF new
<1>4. \A q \in ReqId : seqs'[q] = IF q = r THEN new ELSE seqs[q]
  BY <1>1 DEF SchedInv, TypeOK
<1>5. /\ running' \in Seq(ReqId) /\ IsInjective(running') /\ Running' = Running \ {r}
      /\ Len(running') <= MaxBatch /\ Waiting' = Waiting
  <2>1. /\ running' \in Seq(ReqId) /\ IsInjective(running') /\ Running' = Running \ {r}
        /\ Len(running') = Len(running) - 1
    BY <1>1, <1>2, RemoveFirstDistinct DEF SchedInv, TypeOK, Running
  <2>2. Len(running) \in Nat /\ MaxBatch \in Nat /\ Len(running) <= MaxBatch
    BY SchedulerAssumption DEF SchedInv, TypeOK
  <2> QED
    BY <1>1, <2>1, <2>2 DEF Waiting
<1>6. KVTypeOK' /\ BlockConservation'
  BY <1>1, FreeKeepsInv DEF SchedInv, TypeOK, KVInv
<1>7. /\ block_tables'[r] = << >>
      /\ \A q \in ReqId : q # r => block_tables'[q] = block_tables[q]
  BY <1>1, FreeEffect DEF SchedInv, TypeOK
<1>8. tokens' \in [ReqId -> Seq(Nat)] /\ StreamedOnce'
  <2>1. \A q \in ReqId : seqs'[q].outputs = IF q = r THEN seqs[r].outputs + 1
                                                     ELSE seqs[q].outputs
    BY <1>3, <1>4
  <2>2. \A q \in ReqId : seqs'[q].emitted = seqs'[q].outputs
    BY <1>3, <1>4 DEF SchedInv, StreamedOnce
  <2> QED
    BY <1>1, <2>1, <2>2, EmitEffect
<1>9. /\ work' \in Seq(ReqId) /\ IsInjective(work')
      /\ ToSet(work') \subseteq Live \ {r}
  BY <1>1, <1>2, RestOfWork
<1>10. TypeOK'
  BY <1>1, <1>3, <1>5, <1>6, <1>8, <1>9 DEF SchedInv, TypeOK
<1>11. StatusMatchesQueue'
  <2> SUFFICES ASSUME NEW q \in ReqId
               PROVE  /\ q \in Waiting' <=> seqs'[q].status = "WAITING"
                      /\ q \in Running' <=> seqs'[q].status \in {"PREFILL", "DECODE"}
    BY DEF StatusMatchesQueue
  <2>1. CASE q = r
    BY <2>1, <1>2, <1>3, <1>4, <1>5
  <2>2. CASE q # r
    BY <2>2, <1>4, <1>5 DEF SchedInv, StatusMatchesQueue
  <2> QED
    BY <2>1, <2>2
<1>12. TablesMatchRunning'
  BY <1>5, <1>7 DEF SchedInv, TablesMatchRunning, HasTable
<1>13. TablesFit'
  <2> SUFFICES ASSUME NEW q \in Running'
               PROVE  Len(block_tables'[q]) = BlocksFor(TotalLen(q)') - 0
    BY <1>1 DEF TablesFit, Owed, Growing, BlocksFor
  <2>1. q \in ReqId /\ q # r /\ q \in Running
    BY <1>5, QueuesDisjoint
  <2>2. TotalLen(q)' = TotalLen(q)
    BY <1>4, <2>1 DEF TotalLen
  <2> QED
    BY <1>1, <1>7, <2>1, <2>2 DEF SchedInv, TablesFit, Owed, Growing
<1>14. WorkIsLive' /\ HeadGrows' /\ RoomMade'
  BY <1>1, <1>5, <1>9 DEF WorkIsLive, HeadGrows, RoomMade, Growing, Live
<1>15. LiveHasContent'
  <2>1. \A q \in Live' : q \in Live /\ q \in ReqId /\ q # r
    BY <1>2, <1>5, QueuesDisjoint DEF Live
  <2> QED
    BY <1>4, <2>1 DEF SchedInv, LiveHasContent
<1>16. SeqNosBelow'
  BY <1>1, <1>3, <1>4 DEF SchedInv, SeqNosBelow
<1> QED
  BY <1>6, <1>8, <1>10, <1>11, <1>12, <1>13, <1>14, <1>15, <1>16 DEF SchedInv

LEMMA SampleNextKeepsInv ==
  ASSUME SchedInv, NEW r \in ReqId, NEW eos \in BOOLEAN, SampleNext(r, eos)
  PROVE  SchedInv'
<1> DEFINE new == Sampled(seqs[r])
           need == NeedsBlock(r, TotalLen(r) + 1)
<1>1. /\ AtHead(r) /\ seqs[r].status # "WAITING" /\ Emit(r)
      /\ seqs' = [seqs EXCEPT ![r] = new] /\ running' = running
      /\ waiting' = waiting /\ seq_counter' = seq_counter
      /\ free_blocks' = free_blocks /\ block_tables' = block_tables /\ pc = "loop"
      /\ need => pc' = "grow" /\ work' = work
      /\ ~need => pc' = "loop" /\ work' = Tail(work)
  BY DEF SampleNext, AtHead, LoopOn, kv_vars
<1>2. /\ r \in Running /\ r \notin Waiting /\ work # << >> /\ r = Head(work)
      /\ seqs[r] \in SeqRecord /\ new \in SeqRecord /\ TotalLen(r) \in Nat
      /\ seqs[r].emitted = seqs[r].outputs
  BY <1>1, SampledRuns
<1>3. /\ new.status = "DECODE" /\ new.outputs = seqs[r].outputs + 1
      /\ new.emitted = new.outputs /\ new.prompt = seqs[r].prompt
      /\ new.seq_no = seqs[r].seq_no
  BY <1>2 DEF SeqRecord, Sampled
<1> HIDE DEF new
<1>4. \A q \in ReqId : seqs'[q] = IF q = r THEN new ELSE seqs[q]
  BY <1>1 DEF SchedInv, TypeOK
<1>5. Running' = Running /\ Waiting' = Waiting /\ Live' = Live
  BY <1>1 DEF Running, Waiting, Live
<1>6. KVTypeOK' /\ BlockConservation'
  BY <1>1, KVStutterInv DEF SchedInv, TypeOK, KVInv, kv_vars
<1>7. tokens' \in [ReqId -> Seq(Nat)] /\ StreamedOnce'
  <2>1. \A q \in ReqId : seqs'[q].outputs = IF q = r THEN seqs[r].outputs + 1
                                                     ELSE seqs[q].outputs
    BY <1>3, <1>4
  <2>2. \A q \in ReqId : seqs'[q].emitted = seqs'[q].outputs
    BY <1>3, <1>4 DEF SchedInv, StreamedOnce
  <2> QED
    BY <1>1, <2>1, <2>2, EmitEffect
<1>8. /\ work' \in Seq(ReqId) /\ IsInjective(work') /\ ToSet(work') \subseteq Live
      /\ ~need => r \notin ToSet(work')
  <2>1. CASE need
    BY <1>1, <2>1 DEF SchedInv, TypeOK, WorkIsLive
  <2>2. CASE ~need
    BY <1>1, <1>2, <2>2, RestOfWork
  <2> QED
    BY <2>1, <2>2
<1>9. TypeOK'
  <2>1. pc' \in {"loop", "grow"}
    BY <1>1
  <2> QED
    BY <1>1, <1>2, <1>6, <1>7, <1>8, <2>1 DEF SchedInv, TypeOK
<1>10. StatusMatchesQueue'
  <2> SUFFICES ASSUME NEW q \in ReqId
               PROVE  /\ q \in Waiting' <=> seqs'[q].status = "WAITING"
                      /\ q \in Running' <=> seqs'[q].status \in {"PREFILL", "DECODE"}
    BY DEF StatusMatchesQueue
  <2>1. CASE q = r
    BY <2>1, <1>2, <1>3, <1>4, <1>5
  <2>2. CASE q # r
    BY <2>2, <1>4, <1>5 DEF SchedInv, StatusMatchesQueue
  <2> QED
    BY <2>1, <2>2
<1>11. TablesMatchRunning'
  BY <1>1, <1>5 DEF SchedInv, TablesMatchRunning, HasTable
<1>12. TablesFit'
  <2>1. TotalLen(r)' = TotalLen(r) + 1
    <3>1. seqs[r].outputs \in Nat /\ seqs[r].prompt \in Nat
      BY <1>2 DEF SeqRecord
    <3>2. TotalLen(r)' = seqs[r].prompt + (seqs[r].outputs + 1)
      BY <1>3, <1>4 DEF TotalLen
    <3> QED
      BY <3>1, <3>2 DEF TotalLen
  <2>2. /\ BlocksFor(TotalLen(r)) \in Nat
        /\ BlocksFor(TotalLen(r) + 1) \in BlocksFor(TotalLen(r)) .. BlocksFor(TotalLen(r)) + 1
    BY <1>2, BlocksForStep
  <2>3. Len(block_tables[r]) = BlocksFor(TotalLen(r))
    <3>1. Owed(r) = 0
      BY <1>1 DEF Owed, Growing
    <3> QED
      BY <1>2, <2>2, <3>1 DEF SchedInv, TablesFit
  <2>4. need <=> BlocksFor(TotalLen(r) + 1) = BlocksFor(TotalLen(r)) + 1
    BY <2>3, <2>2 DEF NeedsBlock
  <2>5. ~need <=> BlocksFor(TotalLen(r) + 1) = BlocksFor(TotalLen(r))
    BY <2>3, <2>2 DEF NeedsBlock
  <2>6. Owed(r)' = IF need THEN 1 ELSE 0
    BY <1>1, <1>2 DEF Owed, Growing
  <2>7. \A q \in ReqId : q # r => Owed(q)' = 0 /\ Owed(q) = 0 /\ TotalLen(q)' = TotalLen(q)
    BY <1>1, <1>2, <1>4 DEF Owed, Growing, TotalLen
  <2> HIDE DEF need
  <2> SUFFICES ASSUME NEW q \in Running
               PROVE  Len(block_tables[q]) = BlocksFor(TotalLen(q)') - Owed(q)'
    BY <1>1, <1>5 DEF TablesFit, BlocksFor
  <2>8. CASE q = r
    BY <2>1, <2>3, <2>2, <2>4, <2>5, <2>6, <2>8
  <2>9. CASE q # r
    <3>1. q \in ReqId
      BY QueuesDisjoint
    <3>2. Len(block_tables[q]) = BlocksFor(TotalLen(q)) - Owed(q)
      BY DEF SchedInv, TablesFit
    <3> QED
      BY <2>7, <2>9, <3>1, <3>2
  <2> QED
    BY <2>8, <2>9
<1>13. WorkIsLive' /\ HeadGrows' /\ RoomMade'
  <2>1. WorkIsLive'
    BY <1>5, <1>8 DEF WorkIsLive
  <2>2. HeadGrows' /\ RoomMade'
    BY <1>1, <1>2, <1>5 DEF HeadGrows, RoomMade, Growing
  <2> QED
    BY <2>1, <2>2
<1>14. LiveHasContent'
  <2>1. \A q \in Live : q \in ReqId
    BY QueuesDisjoint DEF Live
  <2> QED
    BY <1>2, <1>3, <1>4, <1>5, <2>1 DEF SchedInv, LiveHasContent, Live
<1>15. SeqNosBelow'
  BY <1>1, <1>3, <1>4 DEF SchedInv, SeqNosBelow
<1> QED
  BY <1>6, <1>7, <1>9, <1>10, <1>11, <1>12, <1>13, <1>14, <1>15 DEF SchedInv

(***************************************************************************)
(* Growth: the block owed is added, at once or after room was made.        *)
(***************************************************************************)
LEMMA AddBlockKeepsInv ==
  ASSUME SchedInv, Growing, AppendBlock(Head(work)), free_count > 0, LoopOn,
         UNCHANGED <<waiting, running, seqs, seq_counter, tokens>>
  PROVE  SchedInv'
<1> DEFINE h == Head(work)
<1>1. /\ h \in ReqId /\ h \in Running /\ work # << >>
      /\ pc' = "loop" /\ work' = Tail(work)
  BY RestOfWork DEF SchedInv, HeadGrows, LoopOn
<1>2. work' \in Seq(ReqId) /\ IsInjective(work') /\ ToSet(work') \subseteq Live
  BY <1>1, RestOfWork
<1>3. KVTypeOK' /\ BlockConservation'
  BY <1>1, AppendBlockKeepsInv DEF SchedInv, TypeOK, KVInv
<1>4. /\ block_tables'[h] # << >> /\ Len(block_tables'[h]) = Len(block_tables[h]) + 1
      /\ \A q \in ReqId : q # h => block_tables'[q] = block_tables[q]
  BY <1>1, AppendEffect DEF SchedInv, TypeOK
<1>5. TypeOK'
  BY <1>1, <1>2, <1>3 DEF SchedInv, TypeOK
<1>6. StatusMatchesQueue' /\ LiveHasContent' /\ SeqNosBelow' /\ StreamedOnce'
  BY DEF SchedInv, StatusMatchesQueue, LiveHasContent, SeqNosBelow, StreamedOnce,
         Live, Waiting, Running
<1>7. TablesMatchRunning'
  BY <1>1, <1>4 DEF SchedInv, TablesMatchRunning, HasTable, Running
<1>8. TablesFit'
  <2> SUFFICES ASSUME NEW q \in Running
               PROVE  Len(block_tables'[q]) = BlocksFor(TotalLen(q)) - 0
    BY <1>1 DEF TablesFit, Owed, Growing, BlocksFor, TotalLen, Running
  <2>1. /\ q \in ReqId /\ Len(block_tables[q]) = BlocksFor(TotalLen(q)) - Owed(q)
        /\ Owed(q) = IF q = h THEN 1 ELSE 0
    BY QueuesDisjoint DEF SchedInv, TablesFit, Owed
  <2>2. TotalLen(q) \in Nat
    <3>1. seqs[q].outputs \in Nat /\ seqs[q].prompt \in Nat
      BY <2>1 DEF SchedInv, TypeOK, SeqRecord
    <3> QED
      BY <3>1 DEF TotalLen
  <2>3. BlocksFor(TotalLen(q)) \in Nat
    BY <2>2, BlocksForStep
  <2> HIDE DEF h
  <2> QED
    BY <1>4, <2>1, <2>3
<1>9. WorkIsLive' /\ HeadGrows' /\ RoomMade'
  BY <1>1, <1>2 DEF WorkIsLive, HeadGrows, RoomMade, Growing, Live, Waiting, Running
<1> QED
  BY <1>3, <1>5, <1>6, <1>7, <1>8, <1>9 DEF SchedInv

LEMMA GrowKeepsInv ==
  ASSUME SchedInv, Grow
  PROVE  SchedInv'
<1>1. /\ pc = "grow" /\ Growing /\ AppendBlock(Head(work))
      /\ UNCHANGED <<waiting, running, seqs, seq_counter, tokens>>
  BY DEF Grow, Growing
<1>2. CASE free_count > 0
  BY <1>1, <1>2, AddBlockKeepsInv DEF Grow
<1>3. CASE ~(free_count > 0)
  <2>1. pc' = "make_room" /\ work' = work /\ UNCHANGED kv_vars
    <3>1. free_count = 0
      BY <1>3 DEF free_count, SchedInv, TypeOK, KVTypeOK
    <3> QED
      BY <1>1, <1>3, <3>1 DEF Grow, AppendBlock
  <2>2. KVTypeOK' /\ BlockConservation'
    BY <2>1, KVStutterInv DEF SchedInv, TypeOK, KVInv
  <2>3. TypeOK'
    BY <1>1, <2>1, <2>2 DEF SchedInv, TypeOK
  <2>4. StatusMatchesQueue' /\ LiveHasContent' /\ SeqNosBelow' /\ StreamedOnce'
    BY <1>1 DEF SchedInv, StatusMatchesQueue, LiveHasContent, SeqNosBelow, StreamedOnce,
           Live, Waiting, Running
  <2>5. TablesMatchRunning' /\ TablesFit'
    BY <1>1, <2>1 DEF SchedInv, TablesMatchRunning, TablesFit, Running, TotalLen, Owed,
                      Growing, HasTable, kv_vars
  <2>6. WorkIsLive' /\ HeadGrows' /\ RoomMade'
    BY <1>1, <2>1 DEF SchedInv, WorkIsLive, HeadGrows, RoomMade, Growing, Live, Waiting,
                      Running
  <2> QED
    BY <2>2, <2>3, <2>4, <2>5, <2>6 DEF SchedInv
<1> QED
  BY <1>2, <1>3

LEMMA RetryKeepsInv ==
  ASSUME SchedInv, Retry
  PROVE  SchedInv'
  BY AddBlockKeepsInv DEF Retry, Growing

(* Preemption: the victim changes queues and gives its blocks back. *)
LEMMA MakeRoomKeepsInv ==
  ASSUME SchedInv, MakeRoom
  PROVE  SchedInv'
<1> DEFINE v == Victim
           h == Head(work)
           new == Preempted(seqs[v])
<1>1. pc = "make_room" /\ Growing /\ h \in Running /\ work # << >>
  BY DEF MakeRoom, Growing, SchedInv, HeadGrows
<1>2. v \in Running /\ v \in ReqId /\ v \notin Waiting
  <2>1. v \in Running
    BY <1>1, VictimRuns
  <2> QED
    BY <2>1, QueuesDisjoint
<1>3. /\ Free(v) /\ seqs' = [seqs EXCEPT ![v] = new]
      /\ running' = RemoveFirst(running, v) /\ waiting' = Cons(v, waiting)
      /\ seq_counter' = seq_counter /\ tokens' = tokens
      /\ v = h => pc' = "loop" /\ work' = Tail(work)
      /\ v # h => pc' = "retry" /\ work' = work
  BY DEF MakeRoom, LoopOn, Requeued
<1> HIDE DEF v
<1>4. /\ new \in SeqRecord /\ new.status = "WAITING" /\ new.outputs = seqs[v].outputs
      /\ new.emitted = seqs[v].emitted /\ new.prompt = seqs[v].prompt
      /\ new.seq_no = seqs[v].seq_no
  BY <1>2 DEF SchedInv, TypeOK, SeqRecord, Preempted
<1> HIDE DEF new
<1>5. \A q \in ReqId : seqs'[q] = IF q = v THEN new ELSE seqs[q]
  BY <1>3 DEF SchedInv, TypeOK
<1>6. /\ waiting' \in Seq(ReqId) /\ IsInjective(waiting') /\ Waiting' = Waiting \cup {v}
      /\ running' \in Seq(ReqId) /\ IsInjective(running') /\ Running' = Running \ {v}
      /\ Len(running') <= MaxBatch
  <2>1. waiting' \in Seq(ReqId) /\ IsInjective(waiting') /\ Waiting' = Waiting \cup {v}
    BY <1>2, <1>3, ConsDistinct DEF SchedInv, TypeOK, Waiting
  <2>2. /\ running' \in Seq(ReqId) /\ IsInjective(running') /\ Running' = Running \ {v}
        /\ Len(running') = Len(running) - 1
    BY <1>2, <1>3, RemoveFirstDistinct DEF SchedInv, TypeOK, Running
  <2>3. Len(running) \in Nat /\ MaxBatch \in Nat /\ Len(running) <= MaxBatch
    BY SchedulerAssumption DEF SchedInv, TypeOK
  <2> QED
    BY <2>1, <2>2, <2>3
<1>7. Live' = Live
  BY <1>2, <1>6 DEF Live
<1>8. KVTypeOK' /\ BlockConservation'
  BY <1>2, <1>3, FreeKeepsInv DEF SchedInv, TypeOK, KVInv
<1>9. /\ block_tables'[v] = << >> /\ Len(free_blocks') > 0
      /\ \A q \in ReqId : q # v => block_tables'[q] = block_tables[q]
  BY <1>2, <1>3, FreeEffect DEF SchedInv, TypeOK
<1>10. work' \in Seq(ReqId) /\ IsInjective(work') /\ ToSet(work') \subseteq Live
  <2>1. CASE v = h
    BY <1>1, <1>3, <2>1, RestOfWork
  <2>2. CASE v # h
    BY <1>1, <1>3, <2>2 DEF SchedInv, TypeOK, WorkIsLive
  <2> QED
    BY <2>1, <2>2
<1>11. TypeOK'
  <2>1. pc' \in {"loop", "retry"}
    BY <1>3
  <2> QED
    BY <1>2, <1>3, <1>4, <1>6, <1>8, <1>10, <2>1 DEF SchedInv, TypeOK
<1>12. StatusMatchesQueue'
  <2> SUFFICES ASSUME NEW q \in ReqId
               PROVE  /\ q \in Waiting' <=> seqs'[q].status = "WAITING"
                      /\ q \in Running' <=> seqs'[q].status \in {"PREFILL", "DECODE"}
    BY DEF StatusMatchesQueue
  <2>1. CASE q = v
    BY <2>1, <1>4, <1>5, <1>6
  <2>2. CASE q # v
    BY <2>2, <1>5, <1>6 DEF SchedInv, StatusMatchesQueue
  <2> QED
    BY <2>1, <2>2
<1>13. TablesMatchRunning'
  BY <1>6, <1>9 DEF SchedInv, TablesMatchRunning, HasTable
<1>14. StreamedOnce'
  BY <1>3, <1>4, <1>5 DEF SchedInv, StreamedOnce
<1>15. TablesFit'
  <2> SUFFICES ASSUME NEW q \in Running'
               PROVE  Len(block_tables'[q]) = BlocksFor(TotalLen(q)') - Owed(q)'
    BY DEF TablesFit, BlocksFor
  <2>1. q \in ReqId /\ q # v /\ q \in Running
    BY <1>6, QueuesDisjoint
  <2>2. TotalLen(q)' = TotalLen(q)
    BY <1>5, <2>1 DEF TotalLen
  <2>3. Owed(q)' = Owed(q)
    BY <1>1, <1>3, <2>1 DEF Owed, Growing
  <2> QED
    BY <1>9, <2>1, <2>2, <2>3 DEF SchedInv, TablesFit
<1>16. WorkIsLive' /\ HeadGrows' /\ RoomMade'
  <2>1. WorkIsLive'
    BY <1>7, <1>10 DEF WorkIsLive
  <2>2. HeadGrows' /\ RoomMade'
    BY <1>1, <1>3, <1>6, <1>9 DEF HeadGrows, RoomMade, Growing, free_count
  <2> QED
    BY <2>1, <2>2
<1>17. LiveHasContent'
  <2>1. \A q \in Live : q \in ReqId
    BY QueuesDisjoint DEF Live
  <2> QED
    BY <1>4, <1>5, <1>7, <2>1 DEF SchedInv, LiveHasContent
<1>18. SeqNosBelow'
  BY <1>3, <1>4, <1>5 DEF SchedInv, SeqNosBelow
<1> QED
  BY <1>8, <1>11, <1>12, <1>13, <1>14, <1>15, <1>16, <1>17, <1>18 DEF SchedInv

-----------------------------------------------------------------------------
LEMMA InitInv ==
  ASSUME Init
  PROVE  SchedInv
<1>1. KVTypeOK /\ BlockConservation
  BY KVInitInv DEF Init, KVInv
<1>2. /\ waiting = << >> /\ running = << >> /\ work = << >> /\ pc = "idle"
      /\ seqs = [r \in ReqId |-> Absent] /\ seq_counter = 0
      /\ tokens = [r \in ReqId |-> << >>] /\ block_tables = [r \in ReqId |-> << >>]
  BY DEF Init, KVInit
<1>3. Absent \in SeqRecord /\ Absent.status = "ABSENT" /\ Absent.outputs = 0
      /\ Absent.emitted = 0 /\ Absent.seq_no = 0
  BY DEF Absent, SeqRecord
<1>4. IsInjective(<< >>) /\ Waiting = {} /\ Running = {}
  BY <1>2 DEF IsInjective, Waiting, Running, ToSet
<1>5. TypeOK
  BY <1>1, <1>2, <1>3, <1>4, SchedulerAssumption DEF TypeOK
<1>6. StatusMatchesQueue /\ TablesMatchRunning
  BY <1>2, <1>3, <1>4 DEF StatusMatchesQueue, TablesMatchRunning, HasTable
<1>7. StreamedOnce
  <2>1. << >> = [i \in 1 .. 0 |-> i]
    OBVIOUS
  <2> QED
    BY <1>2, <1>3, <2>1 DEF StreamedOnce
<1>8. TablesFit /\ WorkIsLive /\ HeadGrows /\ RoomMade /\ LiveHasContent /\ SeqNosBelow
  BY <1>2, <1>3, <1>4 DEF TablesFit, WorkIsLive, HeadGrows, RoomMade, Growing,
                          LiveHasContent, Live, SeqNosBelow
<1> QED
  BY <1>1, <1>5, <1>6, <1>7, <1>8 DEF SchedInv

LEMMA StutterKeepsInv ==
  ASSUME SchedInv, UNCHANGED vars
  PROVE  SchedInv'
<1>1. /\ UNCHANGED kv_vars
      /\ UNCHANGED <<waiting, running, seqs, seq_counter, pc, work, tokens>>
  BY DEF vars, sched_vars
<1>2. KVTypeOK' /\ BlockConservation'
  BY <1>1, KVStutterInv DEF SchedInv, TypeOK, KVInv
<1>3. TypeOK'
  BY <1>1, <1>2 DEF SchedInv, TypeOK
<1>4. /\ StatusMatchesQueue' /\ TablesMatchRunning' /\ StreamedOnce' /\ TablesFit'
      /\ LiveHasContent' /\ SeqNosBelow'
  BY <1>1 DEF SchedInv, StatusMatchesQueue, TablesMatchRunning, StreamedOnce, TablesFit,
              LiveHasContent, SeqNosBelow, Live, Waiting, Running, HasTable, TotalLen,
              Owed, Growing, kv_vars
<1>5. WorkIsLive' /\ HeadGrows' /\ RoomMade'
  BY <1>1 DEF SchedInv, WorkIsLive, HeadGrows, RoomMade, Growing, Live, Waiting, Running,
              free_count, kv_vars
<1> QED
  BY <1>2, <1>3, <1>4, <1>5 DEF SchedInv

LEMMA NextKeepsInv ==
  ASSUME SchedInv, [Next]_vars
  PROVE  SchedInv'
<1>1. CASE UNCHANGED vars
  BY <1>1, StutterKeepsInv
<1>2. CASE \E r \in ReqId, p \in PromptLens, m \in TokenLimits : Submit(r, p, m)
  BY <1>2, SubmitKeepsInv, SchedulerAssumption
<1>3. CASE StepBegins \/ CloseAdmission \/ StepEnds
  BY <1>3, BracketsKeepInv
<1>4. CASE AdmitHead
  BY <1>4, AdmitHeadKeepsInv
<1>5. CASE Forward
  BY <1>5, ForwardKeepsInv
<1>6. CASE \E r \in ReqId : SkipPreempted(r)
  BY <1>6, SkipPreemptedKeepsInv
<1>7. CASE \E r \in ReqId : Sample(r)
  BY <1>7, SampleLastKeepsInv, SampleNextKeepsInv DEF Sample
<1>8. CASE Grow
  BY <1>8, GrowKeepsInv
<1>9. CASE MakeRoom
  BY <1>9, MakeRoomKeepsInv
<1>10. CASE Retry
  BY <1>10, RetryKeepsInv
<1> QED
  BY <1>1, <1>2, <1>3, <1>4, <1>5, <1>6, <1>7, <1>8, <1>9, <1>10 DEF Next, Step

LEMMA SchedInvHolds == Spec => []SchedInv
<1>1. Init => SchedInv
  BY InitInv
<1>2. SchedInv /\ [Next]_vars => SchedInv'
  BY NextKeepsInv
<1> QED
  BY <1>1, <1>2, PTL DEF Spec

(* The two state properties below follow from the invariant alone, so they *)
(* hold of any specification that keeps it.                                *)
LEMMA InvNeverRaises ==
  ASSUME SchedInv
  PROVE  NoCallRaises
<1>1. ASSUME CanAdmit
      PROVE  ~HasTable(Head(waiting)) /\ BlocksFor(TotalLen(Head(waiting))) >= 1
  <2> DEFINE r == Head(waiting)
  <2>1. r \in Waiting
    BY <1>1, TailDistinct DEF CanAdmit, Waiting, SchedInv, TypeOK
  <2> HIDE DEF r
  <2>2. r \in ReqId /\ r \notin Running
    BY <2>1, QueuesDisjoint
  <2>3. seqs[r].outputs \in Nat /\ seqs[r].prompt \in Nat /\ seqs[r].prompt >= 1
    BY <2>1, <2>2 DEF SchedInv, TypeOK, SeqRecord, LiveHasContent, Live
  <2>4. TotalLen(r) \in Nat /\ TotalLen(r) >= 1
    BY <2>3 DEF TotalLen
  <2>5. BlocksFor(TotalLen(r)) >= 1
    BY <2>4, BlocksForStep
  <2>6. ~HasTable(r)
    BY <2>2 DEF SchedInv, TablesMatchRunning
  <2> QED
    BY <2>5, <2>6 DEF r
<1>2. ASSUME pc = "loop", work # << >>, seqs[Head(work)].status # "WAITING"
      PROVE  HasTable(Head(work))
  <2>1. Head(work) \in ReqId /\ Head(work) \in Live
    BY <1>2, RestOfWork
  <2> QED
    BY <1>2, <2>1 DEF Live, SchedInv, StatusMatchesQueue, TablesMatchRunning
<1>3. ASSUME Growing PROVE HasTable(Head(work)) /\ Running # {}
  BY <1>3, QueuesDisjoint DEF SchedInv, HeadGrows, TablesMatchRunning
<1>4. ASSUME pc = "make_room" PROVE HasTable(Victim)
  <2>1. Victim \in Running
    BY <1>3, <1>4, VictimRuns DEF Growing
  <2> QED
    BY <2>1, QueuesDisjoint DEF SchedInv, TablesMatchRunning
<1> QED
  BY <1>1, <1>2, <1>3, <1>4 DEF NoCallRaises, SchedInv, RoomMade, Growing

LEMMA InvGivesSlots ==
  ASSUME SchedInv
  PROVE  SlotForEveryToken
<1> SUFFICES ASSUME pc = "forward", NEW r \in Running
             PROVE  Len(block_tables[r]) = BlocksFor(TotalLen(r))
  BY DEF SlotForEveryToken
<1>1. seqs[r].outputs \in Nat /\ seqs[r].prompt \in Nat
  BY QueuesDisjoint DEF SchedInv, TypeOK, SeqRecord
<1>2. TotalLen(r) \in Nat
  BY <1>1 DEF TotalLen
<1>3. BlocksFor(TotalLen(r)) \in Nat
  BY <1>2, BlocksForStep
<1>4. Owed(r) = 0
  BY DEF Owed, Growing
<1>5. Len(block_tables[r]) = BlocksFor(TotalLen(r)) - Owed(r)
  BY DEF SchedInv, TablesFit
<1> QED
  BY <1>3, <1>4, <1>5

-----------------------------------------------------------------------------
(***************************************************************************)
(* The scheduler keeps its types: in particular no queue and no work list  *)
(* ever holds a request twice and the batch stays within max_batch.        *)
(***************************************************************************)
THEOREM SchedulerTypes == Spec => []TypeOK
<1>1. SchedInv => TypeOK
  BY DEF SchedInv
<1> QED
  BY <1>1, SchedInvHolds, PTL

(***************************************************************************)
(* No block is lost or owned twice, a request has blocks exactly while it  *)
(* runs, and it is in the queue its status names: through admission,       *)
(* growth, preemption and retirement, for every size of cache and batch.   *)
(***************************************************************************)
THEOREM BlocksFollowRequests ==
  Spec => [](BlockConservation /\ TablesMatchRunning /\ StatusMatchesQueue)
<1>1. SchedInv => BlockConservation /\ TablesMatchRunning /\ StatusMatchesQueue
  BY DEF SchedInv
<1> QED
  BY <1>1, SchedInvHolds, PTL

(***************************************************************************)
(* No call step() makes raises: no second table, no zero-block allocation, *)
(* no growth or free without a table, and after a preemption the requester *)
(* gets its block in the same step (scheduler.py:215-218).                 *)
(***************************************************************************)
THEOREM StepNeverRaises == Spec => []NoCallRaises
<1>1. SchedInv => NoCallRaises
  BY InvNeverRaises
<1> QED
  BY <1>1, SchedInvHolds, PTL

(***************************************************************************)
(* Write-before-read: whenever forward runs, every sequence of the batch   *)
(* has a slot for each of its tokens, the newest included, whatever the    *)
(* block size and however often it was preempted.                          *)
(***************************************************************************)
THEOREM WriteBeforeRead == Spec => []SlotForEveryToken
<1>1. SchedInv => SlotForEveryToken
  BY InvGivesSlots
<1> QED
  BY <1>1, SchedInvHolds, PTL

(***************************************************************************)
(* Resume is not restart: the stream of a request is its output tokens,    *)
(* each once and in order, over any number of preemptions.                 *)
(***************************************************************************)
THEOREM ResumeIsNotRestart == Spec => []StreamedOnce
<1>1. SchedInv => StreamedOnce
  BY DEF SchedInv
<1> QED
  BY <1>1, SchedInvHolds, PTL

-----------------------------------------------------------------------------
(***************************************************************************)
(* The order of service, and the promise kept to each request.             *)
(***************************************************************************)
Fresh(r) == seqs[r].outputs = 0

(* StrictFifo, on pairs of requests. *)
WaitingInOrder ==
  \A r, q \in ReqId :
    Ahead(waiting, r, q) => ~Fresh(r) \/ (Fresh(q) /\ seqs[r].seq_no < seqs[q].seq_no)

TokensToTheOlder ==
  \A r, q \in Live : Fresh(r) /\ ~Fresh(q) => seqs[q].seq_no < seqs[r].seq_no

(* A snapshot is being served, so the work list means something. *)
Serving == pc = "loop" \/ Growing

(* Admission kept submission order, and so does whatever is left of it. *)
RunningInOrder ==
  \A r, q \in ReqId :
    Ahead(running, r, q) /\ Fresh(r) /\ Fresh(q) => seqs[r].seq_no < seqs[q].seq_no

FreshRunFirst ==
  \A r \in Running, q \in Waiting :
    Fresh(r) /\ Fresh(q) => seqs[r].seq_no < seqs[q].seq_no

FreshIsPrefill == \A r \in Running : Fresh(r) => seqs[r].status = "PREFILL"

(* The snapshot still holds every request that waits for its first token, *)
(* in submission order, so the head of the list is the oldest of them.    *)
FreshInWork == Serving => \A r \in Running : Fresh(r) => r \in ToSet(work)

WorkInOrder ==
  Serving =>
    \A r, q \in ReqId :
      Ahead(work, r, q) /\ Fresh(r) /\ Fresh(q) => seqs[r].seq_no < seqs[q].seq_no

(* Whoever asks for a block was sampled: max() has a decoded candidate. *)
HeadHasToken == Growing => ~Fresh(Head(work))

LiveAreNumbered == \A r \in Live : seqs[r].seq_no < seq_counter

(* submit() refused what could never fit, and sampling stops at the limit. *)
LiveFits ==
  \A r \in Live :
    /\ seqs[r].outputs < seqs[r].max_tokens
    /\ BlocksFor(seqs[r].prompt + seqs[r].max_tokens) <= NumBlocks

OrderInv ==
  /\ WaitingInOrder /\ TokensToTheOlder /\ FreshNotPreempted
  /\ RunningInOrder /\ FreshRunFirst /\ FreshIsPrefill
  /\ FreshInWork /\ WorkInOrder /\ HeadHasToken
  /\ LiveAreNumbered /\ LiveFits

-----------------------------------------------------------------------------
LEMMA LiveAreIds ==
  ASSUME SchedInv
  PROVE  /\ Live \subseteq ReqId /\ Waiting \subseteq ReqId /\ Running \subseteq ReqId
         /\ \A r \in ReqId : /\ seqs[r] \in SeqRecord
                            /\ seqs[r].prompt \in Nat /\ seqs[r].outputs \in Nat
                            /\ seqs[r].max_tokens \in Nat /\ seqs[r].seq_no \in Nat
                            /\ seqs[r].preempted \in BOOLEAN
  BY QueuesDisjoint DEF Live, SchedInv, TypeOK, SeqRecord

(* Of two positions in a queue the lower is ahead. *)
LEMMA FifoByPairs ==
  ASSUME SchedInv, WaitingInOrder, TokensToTheOlder
  PROVE  StrictFifo
<1>1. ASSUME NEW i \in DOMAIN waiting, NEW j \in DOMAIN waiting, i < j
      PROVE  \/ seqs[waiting[i]].outputs > 0
             \/ /\ seqs[waiting[j]].outputs = 0
                /\ seqs[waiting[i]].seq_no < seqs[waiting[j]].seq_no
  <2>1. Ahead(waiting, waiting[i], waiting[j])
    BY <1>1 DEF Ahead
  <2>2. waiting[i] \in ReqId /\ waiting[j] \in ReqId
    BY DEF SchedInv, TypeOK
  <2>3. seqs[waiting[i]].outputs \in Nat
    BY <2>2, LiveAreIds
  <2> QED
    BY <2>1, <2>2, <2>3 DEF WaitingInOrder, Fresh
<1>2. ASSUME NEW r \in Live, NEW q \in Live, seqs[r].outputs = 0, seqs[q].outputs > 0
      PROVE  seqs[q].seq_no < seqs[r].seq_no
  BY <1>2 DEF TokensToTheOlder, Fresh
<1> QED
  BY <1>1, <1>2 DEF StrictFifo

LEMMA InitOrder ==
  ASSUME Init
  PROVE  OrderInv
<1>1. waiting = << >> /\ running = << >> /\ work = << >> /\ pc = "idle"
  BY DEF Init
<1>2. Waiting = {} /\ Running = {} /\ Live = {}
  BY <1>1 DEF Waiting, Running, Live, ToSet
<1>3. \A r, q : ~Ahead(<< >>, r, q)
  BY DEF Ahead
<1> QED
  BY <1>1, <1>2, <1>3 DEF OrderInv, WaitingInOrder, TokensToTheOlder, FreshNotPreempted,
     RunningInOrder, FreshRunFirst, FreshIsPrefill, FreshInWork, WorkInOrder, HeadHasToken,
     Serving, Growing, LiveAreNumbered, LiveFits

(* An action that moves pc and drops served requests from the work list. *)
LEMMA MovesKeepOrder ==
  ASSUME SchedInv, OrderInv, UNCHANGED <<waiting, running, seqs, seq_counter>>,
         Serving' => Serving, Growing' => Growing /\ work' = work,
         \/ work' = work
         \/ /\ Serving /\ work # << >> /\ work' = Tail(work)
            /\ Head(work) \in Running => ~Fresh(Head(work))
  PROVE  OrderInv'
<1>1. Waiting' = Waiting /\ Running' = Running /\ Live' = Live
  BY DEF Waiting, Running, Live
<1>2. \A r : Fresh(r)' <=> Fresh(r)
  BY DEF Fresh
<1>3. WaitingInOrder' /\ RunningInOrder'
  BY <1>2 DEF OrderInv, WaitingInOrder, RunningInOrder, Ahead
<1>4. /\ TokensToTheOlder' /\ FreshNotPreempted' /\ FreshRunFirst' /\ FreshIsPrefill'
      /\ LiveAreNumbered'
  BY <1>1, <1>2 DEF OrderInv, TokensToTheOlder, FreshNotPreempted, FreshRunFirst,
                    FreshIsPrefill, LiveAreNumbered
<1>5. LiveFits'
  BY <1>1 DEF OrderInv, LiveFits, BlocksFor
<1>6. HeadHasToken'
  BY <1>2 DEF OrderInv, HeadHasToken
<1>7. FreshInWork' /\ WorkInOrder'
  <2>1. CASE work' = work
    BY <1>1, <1>2, <2>1 DEF OrderInv, FreshInWork, WorkInOrder, Ahead
  <2>2. CASE /\ Serving /\ work # << >> /\ work' = Tail(work)
             /\ Head(work) \in Running => ~Fresh(Head(work))
    <3>1. /\ ToSet(Tail(work)) = ToSet(work) \ {Head(work)}
          /\ \A r, q : Ahead(Tail(work), r, q) => Ahead(work, r, q)
      BY <2>2, TailDistinct, AheadInTail DEF SchedInv, TypeOK
    <3> QED
      BY <1>1, <1>2, <2>2, <3>1 DEF OrderInv, FreshInWork, WorkInOrder
  <2> QED
    BY <2>1, <2>2
<1> QED
  BY <1>3, <1>4, <1>5, <1>6, <1>7 DEF OrderInv

LEMMA BracketsKeepOrder ==
  ASSUME SchedInv, OrderInv, StepBegins \/ CloseAdmission \/ StepEnds
  PROVE  OrderInv'
<1>1. /\ UNCHANGED <<waiting, running, seqs, seq_counter>> /\ work' = work
      /\ pc' \in {"idle", "admit", "forward"}
  BY DEF StepBegins, CloseAdmission, StepEnds
<1> QED
  BY <1>1, MovesKeepOrder DEF Serving, Growing

LEMMA SkipPreemptedKeepsOrder ==
  ASSUME SchedInv, OrderInv, NEW r \in ReqId, SkipPreempted(r)
  PROVE  OrderInv'
<1>1. /\ UNCHANGED <<waiting, running, seqs, seq_counter>> /\ work # << >>
      /\ r = Head(work) /\ work' = Tail(work) /\ pc = "loop" /\ pc' = "loop"
      /\ seqs[r].status = "WAITING"
  BY DEF SkipPreempted, AtHead, LoopOn
<1>2. r \notin Running
  BY <1>1 DEF SchedInv, StatusMatchesQueue
<1> QED
  BY <1>1, <1>2, MovesKeepOrder DEF Serving, Growing

LEMMA GrowthKeepsOrder ==
  ASSUME SchedInv, OrderInv, Grow \/ Retry
  PROVE  OrderInv'
<1>1. /\ UNCHANGED <<waiting, running, seqs, seq_counter>> /\ Growing
      /\ \/ pc' = "loop" /\ work' = Tail(work)
         \/ pc' = "make_room" /\ work' = work
  BY DEF Grow, Retry, LoopOn, Growing
<1>2. work # << >> /\ ~Fresh(Head(work))
  BY <1>1 DEF SchedInv, HeadGrows, OrderInv, HeadHasToken
<1> QED
  BY <1>1, <1>2, MovesKeepOrder DEF Serving, Growing

LEMMA SubmitKeepsOrder ==
  ASSUME SchedInv, OrderInv, NEW r \in ReqId, NEW p \in Int, NEW m \in Int,
         Submit(r, p, m)
  PROVE  OrderInv'
<1> DEFINE new == [Absent EXCEPT !.prompt = p, !.max_tokens = m,
                                 !.seq_no = seq_counter, !.status = "WAITING"]
<1>1. /\ pc = "idle" /\ pc' = "idle" /\ r \notin Live
      /\ p \in Nat /\ m \in Int /\ p >= 1 /\ m >= 1 /\ seq_counter \in Nat
      /\ ~(BlocksFor(p + m) > NumBlocks)
      /\ seq_counter' = seq_counter + 1 /\ seqs' = [seqs EXCEPT ![r] = new]
      /\ waiting' = Append(waiting, r) /\ running' = running
  BY SchedulerAssumption DEF Submit, Refused, SchedInv, TypeOK
<1>2. /\ new.outputs = 0 /\ new.prompt = p /\ new.max_tokens = m
      /\ new.seq_no = seq_counter /\ new.preempted = FALSE
  BY DEF Absent
<1> HIDE DEF new
<1>3. \A q \in ReqId : seqs'[q] = IF q = r THEN new ELSE seqs[q]
  BY <1>1 DEF SchedInv, TypeOK
<1>4. Waiting' = Waiting \cup {r} /\ Running' = Running /\ Live' = Live \cup {r}
  <2>1. Waiting' = Waiting \cup {r}
    BY <1>1, AppendDistinct DEF SchedInv, TypeOK, Waiting, Live
  <2> QED
    BY <1>1, <2>1 DEF Running, Live
<1>5. /\ Fresh(r)' /\ seqs'[r].seq_no = seq_counter
      /\ \A q \in ReqId : q # r => (Fresh(q)' <=> Fresh(q)) /\ seqs'[q] = seqs[q]
  BY <1>2, <1>3 DEF Fresh
<1>6. \A q \in Live : q \in ReqId /\ q # r /\ seqs[q].seq_no < seq_counter
  BY <1>1, LiveAreIds DEF OrderInv, LiveAreNumbered
<1>7. WaitingInOrder'
  <2> SUFFICES ASSUME NEW a \in ReqId, NEW b \in ReqId, Ahead(waiting', a, b)
               PROVE  ~Fresh(a)' \/ (Fresh(b)' /\ seqs'[a].seq_no < seqs'[b].seq_no)
    BY DEF WaitingInOrder
  <2>1. Ahead(waiting, a, b) \/ (a \in ToSet(waiting) /\ b = r)
    BY <1>1, AheadInAppend DEF SchedInv, TypeOK
  <2>2. CASE Ahead(waiting, a, b)
    <3>1. a \in Live /\ b \in Live
      BY <2>2, AheadMembers DEF SchedInv, TypeOK, Live, Waiting
    <3> QED
      BY <1>5, <1>6, <2>2, <3>1 DEF OrderInv, WaitingInOrder
  <2>3. CASE a \in ToSet(waiting) /\ b = r
    BY <1>5, <1>6, <2>3 DEF Live, Waiting
  <2> QED
    BY <2>1, <2>2, <2>3
<1>8. TokensToTheOlder'
  BY <1>4, <1>5, <1>6 DEF OrderInv, TokensToTheOlder
<1>9. FreshNotPreempted'
  <2>1. \A q \in Waiting : q \in Live
    BY DEF Live
  <2> QED
    BY <1>2, <1>3, <1>4, <1>6, <2>1 DEF OrderInv, FreshNotPreempted
<1>10. RunningInOrder'
  <2> SUFFICES ASSUME NEW a \in ReqId, NEW b \in ReqId, Ahead(running, a, b),
                      Fresh(a)', Fresh(b)'
               PROVE  seqs'[a].seq_no < seqs'[b].seq_no
    BY <1>1 DEF RunningInOrder
  <2>1. a \in Live /\ b \in Live
    BY AheadMembers DEF SchedInv, TypeOK, Live, Running
  <2> QED
    BY <1>5, <1>6, <2>1 DEF OrderInv, RunningInOrder
<1>11. FreshRunFirst'
  <2>1. \A q \in Running : q \in Live
    BY DEF Live
  <2>2. \A q \in Waiting : q \in Live
    BY DEF Live
  <2> QED
    BY <1>4, <1>5, <1>6, <2>1, <2>2 DEF OrderInv, FreshRunFirst
<1>12. FreshIsPrefill'
  <2>1. \A q \in Running : q \in Live
    BY DEF Live
  <2> QED
    BY <1>4, <1>5, <1>6, <2>1 DEF OrderInv, FreshIsPrefill
<1>13. FreshInWork' /\ WorkInOrder' /\ HeadHasToken'
  BY <1>1 DEF FreshInWork, WorkInOrder, HeadHasToken, Serving, Growing
<1>14. LiveAreNumbered'
  <2>1. \A q \in Live : seqs[q].seq_no \in Nat
    BY LiveAreIds
  <2> QED
    BY <1>1, <1>4, <1>5, <1>6, <2>1 DEF LiveAreNumbered
<1>15. LiveFits'
  <2>1. p + m \in Nat
    BY <1>1
  <2>2. BlocksFor(p + m) <= NumBlocks
    <3>1. BlocksFor(p + m) \in Nat
      BY <2>1, BlocksForStep
    <3> QED
      BY <1>1, <3>1, NumBlocksAssumption
  <2> QED
    BY <1>1, <1>2, <1>3, <1>4, <1>6, <2>2 DEF OrderInv, LiveFits, BlocksFor
<1> QED
  BY <1>7, <1>8, <1>9, <1>10, <1>11, <1>12, <1>13, <1>14, <1>15 DEF OrderInv

LEMMA AdmitHeadKeepsOrder ==
  ASSUME SchedInv, OrderInv, AdmitHead
  PROVE  OrderInv'
<1> DEFINE r == Head(waiting)
<1>1. /\ pc = "admit" /\ pc' = "admit" /\ waiting # << >>
      /\ running' = Append(running, r) /\ waiting' = Tail(waiting)
      /\ seqs' = [seqs EXCEPT ![r].status = "PREFILL"] /\ seq_counter' = seq_counter
  BY DEF AdmitHead, CanAdmit, SetStatus
<1>2. r \in ReqId /\ r \in Waiting /\ r \notin Running /\ ToSet(waiting') = Waiting \ {r}
  <2>1. r \in ReqId /\ r \in Waiting /\ ToSet(Tail(waiting)) = Waiting \ {r}
    BY <1>1, TailDistinct DEF Waiting, SchedInv, TypeOK
  <2> QED
    BY <1>1, <2>1, QueuesDisjoint
<1>3. \A q \in ReqId : Ahead(waiting', r, q) => FALSE
  BY <1>1, <1>2, AheadMembers, TailDistinct DEF SchedInv, TypeOK
<1>4. \A q \in Waiting' : Ahead(waiting, r, q)
  BY <1>1, AheadInTail DEF SchedInv, TypeOK, Waiting
<1>5. \A a, b : Ahead(waiting', a, b) => Ahead(waiting, a, b)
  BY <1>1, AheadInTail DEF SchedInv, TypeOK
<1>6. \A a, b : Ahead(running', a, b) => Ahead(running, a, b) \/ (a \in Running /\ b = r)
  BY <1>1, <1>2, AheadInAppend DEF SchedInv, TypeOK, Running
<1> HIDE DEF r
<1>7. Waiting' = Waiting \ {r} /\ Running' = Running \cup {r} /\ Live' = Live
  <2>1. Running' = Running \cup {r}
    BY <1>1, <1>2, AppendDistinct DEF SchedInv, TypeOK, Running
  <2> QED
    BY <1>2, <2>1 DEF Waiting, Live
<1>8. /\ \A q \in ReqId : /\ seqs'[q].outputs = seqs[q].outputs
                          /\ seqs'[q].seq_no = seqs[q].seq_no
                          /\ seqs'[q].prompt = seqs[q].prompt
                          /\ seqs'[q].max_tokens = seqs[q].max_tokens
                          /\ seqs'[q].preempted = seqs[q].preempted
                          /\ Fresh(q)' <=> Fresh(q)
                          /\ q # r => seqs'[q].status = seqs[q].status
      /\ seqs'[r].status = "PREFILL"
  BY <1>1, <1>2 DEF Fresh, SchedInv, TypeOK, SeqRecord
<1>9. WaitingInOrder'
  BY <1>5, <1>8 DEF OrderInv, WaitingInOrder
<1>10. TokensToTheOlder' /\ FreshNotPreempted' /\ LiveAreNumbered'
  BY <1>1, <1>7, <1>8, LiveAreIds DEF OrderInv, TokensToTheOlder, FreshNotPreempted,
                                      LiveAreNumbered
<1>11. RunningInOrder'
  <2> SUFFICES ASSUME NEW a \in ReqId, NEW b \in ReqId, Ahead(running', a, b),
                      Fresh(a), Fresh(b)
               PROVE  seqs[a].seq_no < seqs[b].seq_no
    BY <1>8 DEF RunningInOrder
  <2> QED
    BY <1>2, <1>6 DEF OrderInv, RunningInOrder, FreshRunFirst
<1>12. FreshRunFirst'
  <2> SUFFICES ASSUME NEW a \in Running', NEW b \in Waiting', Fresh(a), Fresh(b)
               PROVE  seqs[a].seq_no < seqs[b].seq_no
    BY <1>2, <1>7, <1>8, LiveAreIds DEF FreshRunFirst
  <2>1. CASE a = r
    BY <1>2, <1>4, <1>7, <2>1, LiveAreIds DEF OrderInv, WaitingInOrder
  <2>2. CASE a # r
    BY <1>7, <2>2 DEF OrderInv, FreshRunFirst
  <2> QED
    BY <2>1, <2>2
<1>13. FreshIsPrefill'
  BY <1>7, <1>8, LiveAreIds DEF OrderInv, FreshIsPrefill
<1>14. FreshInWork' /\ WorkInOrder' /\ HeadHasToken'
  BY <1>1 DEF FreshInWork, WorkInOrder, HeadHasToken, Serving, Growing
<1>15. LiveFits'
  BY <1>7, <1>8, LiveAreIds DEF OrderInv, LiveFits, BlocksFor
<1> QED
  BY <1>9, <1>10, <1>11, <1>12, <1>13, <1>14, <1>15 DEF OrderInv

(* The snapshot is a permutation of the batch. *)
LEMMA SnapshotIsWhole ==
  ASSUME SchedInv, NEW w \in [1 .. Len(running) -> Running], IsInjective(w)
  PROVE  ToSet(w) = Running
<1> DEFINE n == Len(running)
<1>1. running \in Seq(ReqId) /\ IsInjective(running) /\ n \in Nat
  BY DEF SchedInv, TypeOK
<1> HIDE DEF n
<1>2. IsFiniteSet(1 .. n) /\ Cardinality(1 .. n) = n
  <2>1. 1 \in Int /\ n \in Int
    BY <1>1
  <2>2. IsFiniteSet(1 .. n) /\ Cardinality(1 .. n) = IF 1 > n THEN 0 ELSE n - 1 + 1
    BY <2>1, FS_Interval
  <2> QED
    BY <1>1, <2>2
<1>3. running \in Bijection(1 .. n, Running)
  BY <1>1, InToSet, InjectiveSeq DEF Bijection, Injection, Surjection, Running, n
<1>4. IsFiniteSet(Running) /\ Cardinality(Running) = n
  BY <1>2, <1>3, FS_Bijection DEF ExistsBijection
<1>5. w \in Injection(1 .. n, Running)
  BY DEF Injection, IsInjective, n
<1>6. w \in Surjection(1 .. n, Running)
  BY <1>2, <1>4, <1>5, FS_Injection
<1> QED
  BY <1>1, <1>6 DEF Surjection, ToSet, n

LEMMA ForwardKeepsOrder ==
  ASSUME SchedInv, OrderInv, Forward
  PROVE  OrderInv'
<1>1. PICK w \in [1 .. Len(running) -> Running] : PrefillThenDecode(w) /\ work' = w
  BY DEF Forward
<1>2. /\ UNCHANGED <<waiting, running, seqs, seq_counter>> /\ pc' = "loop"
  BY DEF Forward
<1>3. Waiting' = Waiting /\ Running' = Running /\ Live' = Live /\ \A r : Fresh(r)' <=> Fresh(r)
  BY <1>2 DEF Waiting, Running, Live, Fresh
<1>4. WaitingInOrder' /\ RunningInOrder'
  BY <1>2, <1>3 DEF OrderInv, WaitingInOrder, RunningInOrder, Ahead
<1>5. /\ TokensToTheOlder' /\ FreshNotPreempted' /\ FreshRunFirst' /\ FreshIsPrefill'
      /\ LiveAreNumbered'
  BY <1>2, <1>3 DEF OrderInv, TokensToTheOlder, FreshNotPreempted, FreshRunFirst,
                    FreshIsPrefill, LiveAreNumbered
<1>6. LiveFits'
  BY <1>2, <1>3 DEF OrderInv, LiveFits, BlocksFor
<1>7. FreshInWork'
  <2>1. ToSet(w) = Running
    BY <1>1, SnapshotIsWhole DEF PrefillThenDecode
  <2> QED
    BY <1>1, <1>3, <2>1 DEF FreshInWork
<1>8. WorkInOrder'
  <2> SUFFICES ASSUME NEW a \in ReqId, NEW b \in ReqId, Ahead(w, a, b), Fresh(a), Fresh(b)
               PROVE  seqs[a].seq_no < seqs[b].seq_no
    BY <1>1, <1>2, <1>3 DEF WorkInOrder
  <2>1. PICK i, j \in DOMAIN w : i < j /\ w[i] = a /\ w[j] = b
    BY DEF Ahead
  <2>2. Before(a, b) /\ a \in Running /\ b \in Running
    BY <1>1, <2>1 DEF PrefillThenDecode
  <2>3. seqs[a].status = "PREFILL" /\ seqs[b].status = "PREFILL"
    BY <2>2 DEF OrderInv, FreshIsPrefill
  <2>4. Ahead(running, a, b)
    BY <2>2, <2>3 DEF Before, Ahead
  <2> QED
    BY <2>4 DEF OrderInv, RunningInOrder
<1>9. HeadHasToken'
  BY <1>2 DEF HeadHasToken, Growing
<1> QED
  BY <1>4, <1>5, <1>6, <1>7, <1>8, <1>9 DEF OrderInv

(* The request sampled is as old as any without a token: first tokens come *)
(* in submission order.                                                    *)
LEMMA HeadIsOldestFresh ==
  ASSUME SchedInv, OrderInv, Serving, work # << >>, Head(work) \in Running,
         Fresh(Head(work)), NEW q \in Live, Fresh(q), q # Head(work)
  PROVE  seqs[Head(work)].seq_no < seqs[q].seq_no
<1>1. CASE q \in Waiting
  BY <1>1 DEF OrderInv, FreshRunFirst
<1>2. CASE q \in Running
  <2>1. q \in ToSet(work) /\ q \in ReqId /\ Head(work) \in ReqId
    BY <1>2, LiveAreIds DEF OrderInv, FreshInWork
  <2>2. q \in ToSet(Tail(work))
    BY <2>1, TailDistinct DEF SchedInv, TypeOK
  <2>3. Ahead(work, Head(work), q)
    BY <2>2, AheadInTail DEF SchedInv, TypeOK
  <2> QED
    BY <2>1, <2>3 DEF OrderInv, WorkInOrder
<1> QED
  BY <1>1, <1>2 DEF Live

LEMMA SampleLastKeepsOrder ==
  ASSUME SchedInv, OrderInv, NEW r \in ReqId, NEW eos \in BOOLEAN, SampleLast(r, eos)
  PROVE  OrderInv'
<1>1. /\ AtHead(r) /\ seqs[r].status # "WAITING" /\ running' = RemoveFirst(running, r)
      /\ seqs' = [seqs EXCEPT ![r] = [Sampled(seqs[r]) EXCEPT !.status = "FINISHED"]]
      /\ waiting' = waiting /\ seq_counter' = seq_counter
      /\ pc = "loop" /\ pc' = "loop" /\ work # << >> /\ r = Head(work) /\ work' = Tail(work)
  BY DEF SampleLast, AtHead, LoopOn
<1>2. r \in Running /\ r \notin Waiting
  BY <1>1, SampledRuns
<1>3. \A q \in ReqId : q # r => seqs'[q] = seqs[q] /\ (Fresh(q)' <=> Fresh(q))
  BY <1>1 DEF SchedInv, TypeOK, Fresh
<1>4. Running' = Running \ {r} /\ Waiting' = Waiting /\ Live' = Live \ {r}
  <2>1. Running' = Running \ {r}
    BY <1>1, <1>2, RemoveFirstDistinct DEF SchedInv, TypeOK, Running
  <2> QED
    BY <1>1, <1>2, <2>1 DEF Waiting, Live
<1>5. \A a, b : Ahead(running', a, b) => Ahead(running, a, b)
  BY <1>1, <1>2, AheadInRemoveFirst DEF SchedInv, TypeOK, Running
<1>6. \A a, b : Ahead(running', a, b) => a # r /\ b # r
  <2>1. running' \in Seq(ReqId)
    BY <1>1, <1>2, RemoveFirstDistinct DEF SchedInv, TypeOK, Running
  <2> QED
    BY <1>4, <2>1, AheadMembers DEF Running
<1>7. WaitingInOrder'
  <2>1. \A a, b : Ahead(waiting, a, b) => a # r /\ b # r
    BY <1>2, AheadMembers DEF SchedInv, TypeOK, Waiting
  <2> QED
    BY <1>1, <1>3, <2>1 DEF OrderInv, WaitingInOrder
<1>8. TokensToTheOlder' /\ FreshNotPreempted' /\ LiveAreNumbered'
  BY <1>1, <1>2, <1>3, <1>4, LiveAreIds DEF OrderInv, TokensToTheOlder, FreshNotPreempted,
                                            LiveAreNumbered
<1>9. RunningInOrder'
  BY <1>3, <1>5, <1>6 DEF OrderInv, RunningInOrder
<1>10. FreshRunFirst' /\ FreshIsPrefill'
  BY <1>2, <1>3, <1>4, LiveAreIds DEF OrderInv, FreshRunFirst, FreshIsPrefill
<1>11. FreshInWork' /\ WorkInOrder' /\ HeadHasToken'
  <2>1. ToSet(work') = ToSet(work) \ {r} /\ work' \in Seq(ReqId)
    BY <1>1, TailDistinct DEF SchedInv, TypeOK
  <2>2. \A a, b : Ahead(work', a, b) => Ahead(work, a, b)
    BY <1>1, AheadInTail DEF SchedInv, TypeOK
  <2>3. \A a, b : Ahead(work', a, b) => a # r /\ b # r
    BY <2>1, AheadMembers
  <2> QED
    BY <1>1, <1>3, <1>4, <2>1, <2>2, <2>3, LiveAreIds DEF OrderInv, FreshInWork,
       WorkInOrder, HeadHasToken, Serving, Growing
<1>12. LiveFits'
  BY <1>3, <1>4, LiveAreIds DEF OrderInv, LiveFits, BlocksFor
<1> QED
  BY <1>7, <1>8, <1>9, <1>10, <1>11, <1>12 DEF OrderInv

LEMMA SampleNextKeepsOrder ==
  ASSUME SchedInv, OrderInv, NEW r \in ReqId, NEW eos \in BOOLEAN, SampleNext(r, eos)
  PROVE  OrderInv'
<1> DEFINE new == Sampled(seqs[r])
<1>1. /\ AtHead(r) /\ seqs[r].status # "WAITING" /\ ~IsFinished(seqs[r], eos)
      /\ seqs' = [seqs EXCEPT ![r] = new] /\ running' = running
      /\ waiting' = waiting /\ seq_counter' = seq_counter
      /\ pc = "loop" /\ work # << >> /\ r = Head(work)
      /\ \/ pc' = "grow" /\ work' = work
         \/ pc' = "loop" /\ work' = Tail(work)
  BY DEF SampleNext, AtHead, LoopOn
<1>2. r \in Running /\ r \notin Waiting /\ seqs[r] \in SeqRecord
  BY <1>1, SampledRuns
<1>3. /\ new.outputs = seqs[r].outputs + 1 /\ new.prompt = seqs[r].prompt
      /\ new.max_tokens = seqs[r].max_tokens /\ new.seq_no = seqs[r].seq_no
      /\ new.preempted = seqs[r].preempted
  BY <1>2 DEF SeqRecord, Sampled
<1> HIDE DEF new
<1>4. \A q \in ReqId : seqs'[q] = IF q = r THEN new ELSE seqs[q]
  BY <1>1 DEF SchedInv, TypeOK
<1>5. /\ ~Fresh(r)' /\ seqs'[r].seq_no = seqs[r].seq_no
      /\ \A q \in ReqId : q # r => (Fresh(q)' <=> Fresh(q)) /\ seqs'[q] = seqs[q]
  BY <1>3, <1>4, LiveAreIds DEF Fresh
<1>6. Running' = Running /\ Waiting' = Waiting /\ Live' = Live /\ r \in Live
  BY <1>1, <1>2 DEF Running, Waiting, Live
<1>7. WaitingInOrder'
  <2>1. \A a, b : Ahead(waiting, a, b) => a # r /\ b # r
    BY <1>2, AheadMembers DEF SchedInv, TypeOK, Waiting
  <2> QED
    BY <1>1, <1>5, <2>1 DEF OrderInv, WaitingInOrder
<1>8. TokensToTheOlder'
  <2> SUFFICES ASSUME NEW a \in Live, NEW b \in Live, Fresh(a)', ~Fresh(b)'
               PROVE  seqs'[b].seq_no < seqs'[a].seq_no
    BY <1>6 DEF TokensToTheOlder
  <2>1. a \in ReqId /\ b \in ReqId /\ a # r /\ Fresh(a)
    BY <1>5, LiveAreIds
  <2>2. CASE b = r /\ Fresh(r)
    BY <1>1, <1>2, <1>5, <2>1, <2>2, HeadIsOldestFresh DEF Serving
  <2>3. CASE ~(b = r /\ Fresh(r))
    BY <1>5, <2>1, <2>3 DEF OrderInv, TokensToTheOlder
  <2> QED
    BY <2>2, <2>3
<1>9. FreshNotPreempted'
  <2>1. \A q \in Live : q # r => seqs'[q] = seqs[q]
    BY <1>5, LiveAreIds
  <2>2. seqs'[r].outputs > 0
    BY <1>2, <1>3, <1>4, LiveAreIds
  <2>3. \A q \in Waiting : q \in Live
    BY DEF Live
  <2> QED
    BY <1>2, <1>6, <2>1, <2>2, <2>3 DEF OrderInv, FreshNotPreempted
<1>10. RunningInOrder'
  BY <1>1, <1>5 DEF OrderInv, RunningInOrder
<1>11. FreshRunFirst' /\ FreshIsPrefill'
  BY <1>2, <1>5, <1>6, LiveAreIds DEF OrderInv, FreshRunFirst, FreshIsPrefill
<1>12. FreshInWork' /\ WorkInOrder'
  <2>1. /\ ToSet(work) \ {r} \subseteq ToSet(work')
        /\ \A a, b : Ahead(work', a, b) => Ahead(work, a, b)
    BY <1>1, TailDistinct, AheadInTail DEF SchedInv, TypeOK
  <2> QED
    BY <1>1, <1>5, <1>6, <2>1, LiveAreIds DEF OrderInv, FreshInWork, WorkInOrder,
       Serving, Growing
<1>13. HeadHasToken'
  BY <1>1, <1>5 DEF HeadHasToken, Growing
<1>14. LiveAreNumbered'
  BY <1>1, <1>5, <1>6, LiveAreIds DEF OrderInv, LiveAreNumbered
<1>15. LiveFits'
  <2>1. seqs[r].outputs + 1 < seqs[r].max_tokens
    BY <1>1, LiveAreIds DEF IsFinished
  <2> QED
    BY <1>3, <1>4, <1>6, <2>1, LiveAreIds DEF OrderInv, LiveFits, BlocksFor
<1> QED
  BY <1>7, <1>8, <1>9, <1>10, <1>11, <1>12, <1>13, <1>14, <1>15 DEF OrderInv

(* The victim has a token, since the requester, which runs too, has one. *)
LEMMA MakeRoomKeepsOrder ==
  ASSUME SchedInv, OrderInv, MakeRoom
  PROVE  OrderInv'
<1> DEFINE v == Victim
<1>1. /\ pc = "make_room" /\ Growing /\ Serving
      /\ seqs' = [seqs EXCEPT ![v] = Preempted(seqs[v])]
      /\ running' = RemoveFirst(running, v) /\ waiting' = Cons(v, waiting)
      /\ seq_counter' = seq_counter
      /\ \/ v = Head(work) /\ pc' = "loop" /\ work' = Tail(work)
         \/ v # Head(work) /\ pc' = "retry" /\ work' = work
  BY DEF MakeRoom, LoopOn, Requeued, Growing, Serving
<1>2. work # << >> /\ Head(work) \in Running /\ ~Fresh(Head(work))
  BY <1>1 DEF SchedInv, HeadGrows, OrderInv, HeadHasToken
<1>3. v \in Running /\ v \in ReqId /\ v \notin Waiting /\ ~Fresh(v)
  <2>1. Head(work) \in Decoded
    BY <1>2, LiveAreIds DEF Decoded, Fresh
  <2>2. v \in Running /\ v \in Decoded
    BY <1>2, <2>1, VictimRuns DEF Candidates
  <2> QED
    BY <2>2, QueuesDisjoint DEF Decoded, Fresh
<1> HIDE DEF v
<1>4. /\ \A q \in ReqId : /\ seqs'[q].outputs = seqs[q].outputs
                          /\ seqs'[q].seq_no = seqs[q].seq_no
                          /\ seqs'[q].prompt = seqs[q].prompt
                          /\ seqs'[q].max_tokens = seqs[q].max_tokens
                          /\ Fresh(q)' <=> Fresh(q)
                          /\ q # v => seqs'[q] = seqs[q]
      /\ seqs'[v].preempted = TRUE
  BY <1>1, <1>3 DEF Fresh, SchedInv, TypeOK, SeqRecord, Preempted
<1>5. Running' = Running \ {v} /\ Waiting' = Waiting \cup {v} /\ Live' = Live
  <2>1. Running' = Running \ {v}
    BY <1>1, <1>3, RemoveFirstDistinct DEF SchedInv, TypeOK, Running
  <2>2. Waiting' = Waiting \cup {v}
    BY <1>1, <1>3, ConsDistinct DEF SchedInv, TypeOK, Waiting
  <2> QED
    BY <1>3, <2>1, <2>2 DEF Live
<1>6. /\ \A a, b : Ahead(running', a, b) => Ahead(running, a, b)
      /\ \A a, b : Ahead(waiting', a, b) => Ahead(waiting, a, b) \/ a = v
  BY <1>1, <1>3, AheadInRemoveFirst, AheadInCons DEF SchedInv, TypeOK, Running
<1>7. WaitingInOrder'
  BY <1>3, <1>4, <1>6 DEF OrderInv, WaitingInOrder
<1>8. TokensToTheOlder' /\ LiveAreNumbered'
  BY <1>1, <1>4, <1>5, LiveAreIds DEF OrderInv, TokensToTheOlder, LiveAreNumbered
<1>9. FreshNotPreempted'
  <2>1. \A q \in Live' : q \in ReqId /\ (seqs'[q].preempted => seqs'[q].outputs > 0)
    BY <1>3, <1>4, <1>5, LiveAreIds DEF OrderInv, FreshNotPreempted, Fresh
  <2>2. \A q \in Waiting' : seqs'[q].outputs > 0 => seqs'[q].preempted
    BY <1>3, <1>4, <1>5, LiveAreIds DEF OrderInv, FreshNotPreempted
  <2> QED
    BY <2>1, <2>2 DEF FreshNotPreempted
<1>10. RunningInOrder'
  BY <1>4, <1>6 DEF OrderInv, RunningInOrder
<1>11. FreshRunFirst' /\ FreshIsPrefill'
  BY <1>3, <1>4, <1>5, LiveAreIds DEF OrderInv, FreshRunFirst, FreshIsPrefill
<1>12. FreshInWork' /\ WorkInOrder'
  <2>1. /\ ToSet(work) \ {v} \subseteq ToSet(work')
        /\ \A a, b : Ahead(work', a, b) => Ahead(work, a, b)
    BY <1>1, <1>2, TailDistinct, AheadInTail DEF SchedInv, TypeOK
  <2> QED
    BY <1>1, <1>4, <1>5, <2>1, LiveAreIds DEF OrderInv, FreshInWork, WorkInOrder, Serving
<1>13. HeadHasToken'
  BY <1>1, <1>2, <1>4, LiveAreIds DEF HeadHasToken, Growing
<1>14. LiveFits'
  BY <1>4, <1>5, LiveAreIds DEF OrderInv, LiveFits, BlocksFor
<1> QED
  BY <1>7, <1>8, <1>9, <1>10, <1>11, <1>12, <1>13, <1>14 DEF OrderInv

LEMMA NextKeepsOrder ==
  ASSUME SchedInv, OrderInv, [Next]_vars
  PROVE  OrderInv'
<1>1. CASE UNCHANGED vars
  BY <1>1, MovesKeepOrder DEF vars, sched_vars, Serving, Growing
<1>2. CASE \E r \in ReqId, p \in PromptLens, m \in TokenLimits : Submit(r, p, m)
  BY <1>2, SubmitKeepsOrder, SchedulerAssumption
<1>3. CASE StepBegins \/ CloseAdmission \/ StepEnds
  BY <1>3, BracketsKeepOrder
<1>4. CASE AdmitHead
  BY <1>4, AdmitHeadKeepsOrder
<1>5. CASE Forward
  BY <1>5, ForwardKeepsOrder
<1>6. CASE \E r \in ReqId : SkipPreempted(r)
  BY <1>6, SkipPreemptedKeepsOrder
<1>7. CASE \E r \in ReqId : Sample(r)
  BY <1>7, SampleLastKeepsOrder, SampleNextKeepsOrder DEF Sample
<1>8. CASE Grow \/ Retry
  BY <1>8, GrowthKeepsOrder
<1>9. CASE MakeRoom
  BY <1>9, MakeRoomKeepsOrder
<1> QED
  BY <1>1, <1>2, <1>3, <1>4, <1>5, <1>6, <1>7, <1>8, <1>9 DEF Next, Step

LEMMA OrderInvHolds == Spec => [](SchedInv /\ OrderInv)
<1>1. Init => SchedInv /\ OrderInv
  BY InitInv, InitOrder
<1>2. SchedInv /\ OrderInv /\ [Next]_vars => (SchedInv /\ OrderInv)'
  BY NextKeepsInv, NextKeepsOrder
<1> QED
  BY <1>1, <1>2, PTL DEF Spec

-----------------------------------------------------------------------------
(* More tokens never need fewer blocks. *)
LEMMA BlocksForMonotone ==
  ASSUME NEW a \in Nat, NEW b \in Nat, a <= b
  PROVE  BlocksFor(a) \in Nat /\ BlocksFor(b) \in Nat /\ BlocksFor(a) <= BlocksFor(b)
<1> DEFINE d == BlockSize
           p == (a + d - 1) \div d
           q == (b + d - 1) \div d
<1>1. d \in Nat \ {0} /\ a + d - 1 \in Nat /\ b + d - 1 \in Nat
  BY SchedulerAssumption
<1>2. /\ p \in Nat /\ d * p <= a + d - 1
      /\ q \in Nat /\ b + d - 1 < d * q + d
  BY <1>1, DivBounds
<1>3. BlocksFor(a) = p /\ BlocksFor(b) = q
  BY DEF BlocksFor
<1> HIDE DEF d, p, q
<1>4. p > q => d * p >= d * q + d
  BY <1>1, <1>2, NextMultiple
<1>5. d * p \in Int /\ d * q \in Int
  BY <1>1, <1>2
<1> QED
  BY <1>1, <1>2, <1>3, <1>4, <1>5

(* When nothing runs every block is free. *)
LEMMA IdleCacheIsEmpty ==
  ASSUME SchedInv, Running = {}
  PROVE  free_count = NumBlocks
<1> DEFINE n == Len(free_blocks)
<1>1. free_blocks \in Seq(BlockId) /\ IsInjective(free_blocks) /\ n \in Nat
  BY DEF SchedInv, TypeOK, KVTypeOK, BlockConservation, FreeListDistinct
<1>2. \A r \in ReqId : ToSet(block_tables[r]) = {}
  BY DEF SchedInv, TablesMatchRunning, HasTable, ToSet
<1>3. ToSet(free_blocks) = BlockId
  BY <1>1, <1>2, ToSetOfSeq DEF SchedInv, BlockConservation, NoneLost
<1> HIDE DEF n
<1>4. IsFiniteSet(1 .. n) /\ Cardinality(1 .. n) = n
  <2>1. 1 \in Int /\ n \in Int
    BY <1>1
  <2>2. IsFiniteSet(1 .. n) /\ Cardinality(1 .. n) = IF 1 > n THEN 0 ELSE n - 1 + 1
    BY <2>1, FS_Interval
  <2> QED
    BY <1>1, <2>2
<1>5. IsFiniteSet(BlockId) /\ Cardinality(BlockId) = NumBlocks
  <2>1. 0 \in Int /\ NumBlocks - 1 \in Int
    BY NumBlocksAssumption
  <2>2. /\ IsFiniteSet(BlockId)
        /\ Cardinality(BlockId) = IF 0 > NumBlocks - 1 THEN 0 ELSE NumBlocks - 1 - 0 + 1
    BY <2>1, FS_Interval DEF BlockId
  <2> QED
    BY <2>2, NumBlocksAssumption
<1>6. free_blocks \in Bijection(1 .. n, BlockId)
  BY <1>1, <1>3, InToSet, InjectiveSeq DEF Bijection, Injection, Surjection, n
<1>7. Cardinality(BlockId) = n
  BY <1>4, <1>6, FS_Bijection DEF ExistsBijection
<1> QED
  BY <1>5, <1>7 DEF free_count, n

LEMMA HeadAlwaysFits ==
  ASSUME SchedInv, OrderInv
  PROVE  HeadFitsEmptyCache
<1> SUFFICES ASSUME running = << >>, waiting # << >>
             PROVE  free_count >= Headroom(Head(waiting))
  BY DEF HeadFitsEmptyCache
<1> DEFINE r == Head(waiting)
           total == TotalLen(r) + 1
           most == seqs[r].prompt + seqs[r].max_tokens
<1>1. r \in Live /\ r \in ReqId
  BY TailDistinct DEF Live, Waiting, SchedInv, TypeOK
<1>2. free_count = NumBlocks
  BY IdleCacheIsEmpty DEF Running, ToSet
<1> HIDE DEF r
<1>3. /\ seqs[r].outputs < seqs[r].max_tokens /\ seqs[r].outputs \in Nat
      /\ seqs[r].max_tokens \in Nat /\ seqs[r].prompt \in Nat
      /\ BlocksFor(most) <= NumBlocks
  BY <1>1, LiveAreIds DEF OrderInv, LiveFits
<1>4. total \in Nat /\ most \in Nat /\ total <= most
  BY <1>3 DEF TotalLen
<1> HIDE DEF total, most
<1>5. BlocksFor(total) \in Nat /\ BlocksFor(most) \in Nat /\ BlocksFor(total) <= BlocksFor(most)
  BY <1>4, BlocksForMonotone
<1>6. Headroom(r) = BlocksFor(total)
  BY DEF Headroom, total
<1> QED
  BY <1>2, <1>3, <1>5, <1>6, NumBlocksAssumption DEF r

-----------------------------------------------------------------------------
(***************************************************************************)
(* The steps of RequestLifecycle.                                          *)
(***************************************************************************)
PhaseMap == [r \in ReqId |-> Phase(r)]
LimitMap == [r \in ReqId |-> seqs[r].max_tokens]
DeliveredMap == [r \in ReqId |-> Len(tokens[r])]

LEMMA PhaseOfLive ==
  ASSUME SchedInv, NEW r \in ReqId
  PROVE  /\ PhaseMap[r] = "live" <=> r \in Live
         /\ LimitMap[r] = seqs[r].max_tokens /\ DeliveredMap[r] = Len(tokens[r])
<1>1. r \in Live => seqs[r].status # "FINISHED"
  BY DEF Live, SchedInv, StatusMatchesQueue
<1>2. Phase(r) = "live" <=> r \in Live
  BY <1>1 DEF Phase
<1> QED
  BY <1>2 DEF PhaseMap, LimitMap, DeliveredMap

LEMMA DeliveredAreOutputs ==
  ASSUME SchedInv, NEW r \in ReqId
  PROVE  Len(tokens[r]) = seqs[r].outputs
<1>1. seqs[r].outputs \in Nat /\ tokens[r] = [i \in 1 .. seqs[r].outputs |-> i]
  BY LiveAreIds DEF SchedInv, StreamedOnce
<1> QED
  BY <1>1

(* What the callbacks do not show: queues, blocks, statuses of live requests. *)
LEMMA HiddenStep ==
  ASSUME Live' = Live, tokens' = tokens, seqs' \in [ReqId -> SeqRecord],
         \A q \in ReqId : /\ seqs'[q].max_tokens = seqs[q].max_tokens
                          /\ q \in Live \/ seqs'[q].status = seqs[q].status
  PROVE  UNCHANGED Life!life_vars
<1>1. \A q \in ReqId : Phase(q)' = Phase(q)
  BY DEF Phase
<1> QED
  BY <1>1 DEF Life!life_vars

LEMMA SubmitIsAccept ==
  ASSUME SchedInv, NEW r \in ReqId, NEW p \in PromptLens, NEW m \in TokenLimits,
         Submit(r, p, m)
  PROVE  Life!Accept(r, m)
<1> DEFINE new == [Absent EXCEPT !.prompt = p, !.max_tokens = m,
                                 !.seq_no = seq_counter, !.status = "WAITING"]
<1>1. /\ r \notin Live /\ m \in Int /\ m >= 1
      /\ seqs' = [seqs EXCEPT ![r] = new] /\ tokens' = [tokens EXCEPT ![r] = << >>]
      /\ waiting' = Append(waiting, r) /\ running' = running
  BY SchedulerAssumption DEF Submit, Refused, SchedInv, TypeOK
<1>2. new.max_tokens = m /\ new.status = "WAITING"
  BY DEF Absent
<1> HIDE DEF new
<1>3. /\ \A q \in ReqId : seqs'[q] = IF q = r THEN new ELSE seqs[q]
      /\ \A q \in ReqId : tokens'[q] = IF q = r THEN << >> ELSE tokens[q]
  BY <1>1 DEF SchedInv, TypeOK
<1>4. Live' = Live \cup {r}
  <2>1. ToSet(Append(waiting, r)) = Waiting \cup {r}
    BY <1>1, AppendDistinct DEF SchedInv, TypeOK, Waiting, Live
  <2> QED
    BY <1>1, <2>1 DEF Live, Waiting, Running
<1>5. PhaseMap' = [PhaseMap EXCEPT ![r] = "live"]
  <2>1. \A q \in ReqId : Phase(q)' = IF q = r THEN "live" ELSE Phase(q)
    <3> SUFFICES ASSUME NEW q \in ReqId
                 PROVE  Phase(q)' = IF q = r THEN "live" ELSE Phase(q)
      OBVIOUS
    <3>1. CASE q = r
      BY <1>2, <1>3, <1>4, <3>1 DEF Phase
    <3>2. CASE q # r
      <4>1. seqs'[q] = seqs[q] /\ (q \in Live' <=> q \in Live)
        BY <1>3, <1>4, <3>2
      <4> QED
        BY <3>2, <4>1 DEF Phase
    <3> QED
      BY <3>1, <3>2
  <2> QED
    BY <2>1 DEF PhaseMap
<1>6. LimitMap' = [LimitMap EXCEPT ![r] = m]
  BY <1>2, <1>3 DEF LimitMap
<1>7. DeliveredMap' = [DeliveredMap EXCEPT ![r] = 0]
  <2>1. \A q \in ReqId : Len(tokens'[q]) = IF q = r THEN 0 ELSE Len(tokens[q])
    BY <1>3
  <2> QED
    BY <2>1 DEF DeliveredMap
<1>8. PhaseMap[r] # "live"
  BY <1>1, PhaseOfLive
<1> QED
  BY <1>1, <1>5, <1>6, <1>7, <1>8 DEF Life!Accept, PhaseMap, LimitMap, DeliveredMap

(* One on_token() call: one more delivered, and nobody else is served. *)
LEMMA OneMoreDelivered ==
  ASSUME SchedInv, SchedInv', NEW r \in ReqId,
         \A q \in ReqId : seqs'[q].outputs = IF q = r THEN seqs[r].outputs + 1
                                                      ELSE seqs[q].outputs
  PROVE  /\ DeliveredMap' = [DeliveredMap EXCEPT ![r] = DeliveredMap[r] + 1]
         /\ DeliveredMap[r] = seqs[r].outputs
<1>1. \A q \in ReqId : Len(tokens[q]) = seqs[q].outputs
  BY DeliveredAreOutputs
<1>2. \A q \in ReqId : Len(tokens[q])' = seqs'[q].outputs
  <2> SUFFICES ASSUME NEW q \in ReqId PROVE Len(tokens'[q]) = seqs'[q].outputs
    OBVIOUS
  <2>1. /\ seqs'[q].outputs \in Nat
        /\ tokens'[q] = [i \in 1 .. seqs'[q].outputs |-> i]
    BY DEF SchedInv, TypeOK, SeqRecord, StreamedOnce
  <2> QED
    BY <2>1
<1> QED
  BY <1>1, <1>2 DEF DeliveredMap

LEMMA SampleNextIsDeliver ==
  ASSUME SchedInv, SchedInv', NEW r \in ReqId, NEW eos \in BOOLEAN, SampleNext(r, eos)
  PROVE  Life!Deliver(r)
<1> DEFINE new == Sampled(seqs[r])
<1>1. /\ AtHead(r) /\ seqs[r].status # "WAITING" /\ ~IsFinished(seqs[r], eos)
      /\ seqs' = [seqs EXCEPT ![r] = new] /\ running' = running /\ waiting' = waiting
  BY DEF SampleNext
<1>2. r \in Running /\ seqs[r] \in SeqRecord
  BY <1>1, SampledRuns
<1>3. new.outputs = seqs[r].outputs + 1 /\ new.max_tokens = seqs[r].max_tokens
  BY <1>2 DEF SeqRecord, Sampled
<1> HIDE DEF new
<1>4. \A q \in ReqId : seqs'[q] = IF q = r THEN new ELSE seqs[q]
  BY <1>1 DEF SchedInv, TypeOK
<1>5. Live' = Live /\ r \in Live
  BY <1>1, <1>2 DEF Live, Waiting, Running
<1>6. PhaseMap' = PhaseMap
  <2>1. \A q \in ReqId : Phase(q)' = Phase(q)
    BY <1>4, <1>5 DEF Phase
  <2> QED
    BY <2>1 DEF PhaseMap
<1>7. LimitMap' = LimitMap
  BY <1>3, <1>4 DEF LimitMap
<1>8. /\ DeliveredMap' = [DeliveredMap EXCEPT ![r] = DeliveredMap[r] + 1]
      /\ DeliveredMap[r] = seqs[r].outputs
  BY <1>3, <1>4, OneMoreDelivered
<1>9. seqs[r].outputs + 1 < seqs[r].max_tokens
  BY <1>1, LiveAreIds DEF IsFinished
<1>10. PhaseMap[r] = "live" /\ DeliveredMap[r] + 1 < LimitMap[r]
  BY <1>5, <1>8, <1>9, PhaseOfLive
<1> QED
  BY <1>6, <1>7, <1>8, <1>10 DEF Life!Deliver, PhaseMap, LimitMap, DeliveredMap

LEMMA SampleLastIsFinish ==
  ASSUME SchedInv, SchedInv', OrderInv, NEW r \in ReqId, NEW eos \in BOOLEAN,
         SampleLast(r, eos)
  PROVE  Life!Finish(r)
<1> DEFINE new == [Sampled(seqs[r]) EXCEPT !.status = "FINISHED"]
<1>1. /\ AtHead(r) /\ seqs[r].status # "WAITING" /\ running' = RemoveFirst(running, r)
      /\ seqs' = [seqs EXCEPT ![r] = new] /\ waiting' = waiting
  BY DEF SampleLast
<1>2. r \in Running /\ r \notin Waiting /\ seqs[r] \in SeqRecord
  BY <1>1, SampledRuns
<1>3. /\ new.outputs = seqs[r].outputs + 1 /\ new.max_tokens = seqs[r].max_tokens
      /\ new.status = "FINISHED"
  BY <1>2 DEF SeqRecord, Sampled
<1> HIDE DEF new
<1>4. \A q \in ReqId : seqs'[q] = IF q = r THEN new ELSE seqs[q]
  BY <1>1 DEF SchedInv, TypeOK
<1>5. Live' = Live \ {r} /\ r \in Live
  <2>1. Running' = Running \ {r}
    BY <1>1, <1>2, RemoveFirstDistinct DEF SchedInv, TypeOK, Running
  <2> QED
    BY <1>1, <1>2, <2>1 DEF Waiting, Live
<1>6. PhaseMap' = [PhaseMap EXCEPT ![r] = "done"]
  <2>1. \A q \in ReqId : Phase(q)' = IF q = r THEN "done" ELSE Phase(q)
    BY <1>3, <1>4, <1>5 DEF Phase
  <2> QED
    BY <2>1 DEF PhaseMap
<1>7. LimitMap' = LimitMap
  BY <1>3, <1>4 DEF LimitMap
<1>8. /\ DeliveredMap' = [DeliveredMap EXCEPT ![r] = DeliveredMap[r] + 1]
      /\ DeliveredMap[r] = seqs[r].outputs
  BY <1>3, <1>4, OneMoreDelivered
<1>9. PhaseMap[r] = "live" /\ DeliveredMap[r] < LimitMap[r]
  BY <1>5, <1>8, PhaseOfLive DEF OrderInv, LiveFits
<1> QED
  BY <1>6, <1>7, <1>8, <1>9 DEF Life!Finish, PhaseMap, LimitMap, DeliveredMap

(* Admission and preemption move a request between the queues only. *)
LEMMA QueueMovesAreHidden ==
  ASSUME SchedInv, SchedInv', AdmitHead \/ MakeRoom
  PROVE  UNCHANGED Life!life_vars
<1>1. CASE AdmitHead
  <2> DEFINE r == Head(waiting)
  <2>1. /\ waiting # << >> /\ running' = Append(running, r) /\ waiting' = Tail(waiting)
        /\ seqs' = [seqs EXCEPT ![r].status = "PREFILL"] /\ tokens' = tokens
    BY <1>1 DEF AdmitHead, CanAdmit, SetStatus
  <2>2. r \in ReqId /\ r \in Waiting /\ r \notin Running /\ ToSet(waiting') = Waiting \ {r}
    <3>1. r \in ReqId /\ r \in Waiting /\ ToSet(Tail(waiting)) = Waiting \ {r}
      BY <2>1, TailDistinct DEF Waiting, SchedInv, TypeOK
    <3> QED
      BY <2>1, <3>1, QueuesDisjoint
  <2> HIDE DEF r
  <2>3. Running' = Running \cup {r}
    BY <2>1, <2>2, AppendDistinct DEF SchedInv, TypeOK, Running
  <2>4. Live' = Live /\ r \in Live
    BY <2>2, <2>3 DEF Live, Waiting
  <2>5. \A q \in ReqId : /\ seqs'[q].max_tokens = seqs[q].max_tokens
                         /\ q # r => seqs'[q] = seqs[q]
    BY <2>1, <2>2 DEF SchedInv, TypeOK, SeqRecord
  <2> QED
    BY <2>1, <2>4, <2>5, HiddenStep DEF SchedInv, TypeOK
<1>2. CASE MakeRoom
  <2> DEFINE v == Victim
  <2>1. /\ seqs' = [seqs EXCEPT ![v] = Preempted(seqs[v])] /\ tokens' = tokens
        /\ running' = RemoveFirst(running, v) /\ waiting' = Cons(v, waiting)
        /\ pc = "make_room"
    BY <1>2 DEF MakeRoom, Requeued
  <2>2. v \in Running /\ v \in ReqId /\ v \notin Waiting
    BY <2>1, VictimRuns, QueuesDisjoint DEF SchedInv, HeadGrows, Growing
  <2> HIDE DEF v
  <2>3. Running' = Running \ {v} /\ Waiting' = Waiting \cup {v}
    <3>1. Running' = Running \ {v}
      BY <2>1, <2>2, RemoveFirstDistinct DEF SchedInv, TypeOK, Running
    <3>2. Waiting' = Waiting \cup {v}
      BY <2>1, <2>2, ConsDistinct DEF SchedInv, TypeOK, Waiting
    <3> QED
      BY <3>1, <3>2
  <2>4. Live' = Live /\ v \in Live
    BY <2>2, <2>3 DEF Live
  <2>5. \A q \in ReqId : /\ seqs'[q].max_tokens = seqs[q].max_tokens
                         /\ q # v => seqs'[q] = seqs[q]
    BY <2>1, <2>2 DEF SchedInv, TypeOK, SeqRecord, Preempted
  <2> QED
    BY <2>1, <2>4, <2>5, HiddenStep DEF SchedInv, TypeOK
<1> QED
  BY <1>1, <1>2

LEMMA QuietStepsAreHidden ==
  ASSUME SchedInv', UNCHANGED <<waiting, running, seqs, tokens>>
  PROVE  UNCHANGED Life!life_vars
<1>1. Live' = Live
  BY DEF Live, Waiting, Running
<1> QED
  BY <1>1, HiddenStep DEF SchedInv, TypeOK

LEMMA NextIsLifeStep ==
  ASSUME SchedInv, SchedInv', OrderInv, [Next]_vars
  PROVE  [Life!LifeNext]_(Life!life_vars)
<1>1. CASE UNCHANGED <<waiting, running, seqs, tokens>>
  BY <1>1, QuietStepsAreHidden
<1>2. CASE \E r \in ReqId, p \in PromptLens, m \in TokenLimits : Submit(r, p, m)
  BY <1>2, SubmitIsAccept DEF Life!LifeNext
<1>3. CASE AdmitHead \/ MakeRoom
  BY <1>3, QueueMovesAreHidden
<1>4. CASE \E r \in ReqId : Sample(r)
  BY <1>4, SampleNextIsDeliver, SampleLastIsFinish DEF Sample, Life!LifeNext
<1>5. \/ UNCHANGED <<waiting, running, seqs, tokens>>
      \/ \E r \in ReqId, p \in PromptLens, m \in TokenLimits : Submit(r, p, m)
      \/ AdmitHead \/ MakeRoom \/ \E r \in ReqId : Sample(r)
  BY DEF Next, Step, vars, sched_vars, StepBegins, CloseAdmission, Forward, SkipPreempted,
         Grow, Retry, StepEnds
<1> QED
  BY <1>1, <1>2, <1>3, <1>4, <1>5

LEMMA InitIsLifeInit ==
  ASSUME Init
  PROVE  Life!LifeInit
<1>1. /\ Live = {} /\ seqs = [r \in ReqId |-> Absent]
      /\ tokens = [r \in ReqId |-> << >>]
  BY DEF Init, Live, Waiting, Running, ToSet
<1>2. Absent.status = "ABSENT" /\ Absent.max_tokens = 0
  BY DEF Absent
<1>3. \A r \in ReqId : Phase(r) = "none" /\ seqs[r].max_tokens = 0 /\ Len(tokens[r]) = 0
  BY <1>1, <1>2 DEF Phase
<1> QED
  BY <1>3 DEF Life!LifeInit

-----------------------------------------------------------------------------
(***************************************************************************)
(* Strict FIFO (scheduler.py:17-21): a request without a token is ahead of *)
(* every younger one in the queue, and whoever has a token is older than   *)
(* whoever has none, for every size of cache and batch, through any        *)
(* preemptions: first tokens come in submission order.                     *)
(***************************************************************************)
THEOREM FirstTokensInOrder == Spec => []StrictFifo
<1>1. SchedInv /\ OrderInv => StrictFifo
  BY FifoByPairs DEF OrderInv
<1> QED
  BY <1>1, OrderInvHolds, PTL

(***************************************************************************)
(* _make_room() never takes a request that has no token yet: its fallback  *)
(* to all of running is dead code under step(), and preempted_count = 0    *)
(* tells a fresh prefill from a recomputation.                             *)
(***************************************************************************)
THEOREM OnlyDecodedPreempted == Spec => []FreshNotPreempted
<1>1. OrderInv => FreshNotPreempted
  BY DEF OrderInv
<1> QED
  BY <1>1, OrderInvHolds, PTL

(***************************************************************************)
(* No wedge at admission: what submit() let in fits the empty cache with   *)
(* one token to spare, however long its output has become.                 *)
(***************************************************************************)
THEOREM HeadNeverWedged == Spec => []HeadFitsEmptyCache
<1>1. SchedInv /\ OrderInv => HeadFitsEmptyCache
  BY HeadAlwaysFits
<1> QED
  BY <1>1, OrderInvHolds, PTL

(***************************************************************************)
(* Every step of the scheduler is a step of RequestLifecycle or none: the  *)
(* callbacks Engine.tla is built on are made as that module says.          *)
(***************************************************************************)
THEOREM ImplementsLifecycle == Spec => LifecycleSafety
<1>1. Init => Life!LifeInit
  BY InitIsLifeInit
<1>2. SchedInv /\ OrderInv /\ SchedInv' /\ [Next]_vars => [Life!LifeNext]_(Life!life_vars)
  BY NextIsLifeStep
<1> QED
  BY <1>1, <1>2, OrderInvHolds, PTL DEF Spec, LifecycleSafety, Life!LifeSafety

-----------------------------------------------------------------------------
(***************************************************************************)
(* A step is finite and serves somebody.                                   *)
(***************************************************************************)
(* What a step can still do: admit whoever waits, then for each request of *)
(* its batch sample, ask for a block, preempt and ask again, each once.    *)
StepLeft ==
  CASE pc = "idle"      -> 0
    [] pc = "admit"     -> Len(waiting) + 4 * MaxBatch + 3
    [] pc = "forward"   -> 4 * Len(running) + 2
    [] pc = "loop"      -> 4 * Len(work) + 1
    [] pc = "grow"      -> 4 * Len(work)
    [] pc = "make_room" -> 4 * Len(work) - 1
    [] pc = "retry"     -> 4 * Len(work) - 2

LEMMA QueueLengths ==
  ASSUME SchedInv
  PROVE  /\ Len(waiting) \in Nat /\ Len(running) \in Nat /\ Len(work) \in Nat
         /\ Len(running) <= MaxBatch /\ MaxBatch \in Nat
         /\ waiting # << >> => Len(Tail(waiting)) = Len(waiting) - 1 /\ Len(waiting) >= 1
         /\ work # << >> => Len(Tail(work)) = Len(work) - 1 /\ Len(work) >= 1
         /\ pc \in {"idle", "admit", "forward", "loop", "grow", "make_room", "retry"}
<1>1. waiting \in Seq(ReqId) /\ running \in Seq(ReqId) /\ work \in Seq(ReqId)
  BY DEF SchedInv, TypeOK
<1>2. \A s \in Seq(ReqId) : s # << >> => Len(Tail(s)) = Len(s) - 1 /\ Len(s) >= 1
  OBVIOUS
<1> QED
  BY <1>1, <1>2, SchedulerAssumption DEF SchedInv, TypeOK

LEMMA StepLeftIsNat ==
  ASSUME SchedInv
  PROVE  StepLeft \in Nat
<1>1. Growing => Len(work) >= 1
  BY QueueLengths DEF SchedInv, HeadGrows
<1> QED
  BY <1>1, QueueLengths DEF StepLeft, Growing

LEMMA LoopOnLess ==
  ASSUME SchedInv, work # << >>, LoopOn, pc = "loop" \/ Growing
  PROVE  StepLeft' < StepLeft
<1>1. StepLeft' = 4 * (Len(work) - 1) + 1
  BY QueueLengths DEF LoopOn, StepLeft
<1>2. /\ pc = "loop" => StepLeft = 4 * Len(work) + 1
      /\ pc = "grow" => StepLeft = 4 * Len(work)
      /\ pc = "make_room" => StepLeft = 4 * Len(work) - 1
      /\ pc = "retry" => StepLeft = 4 * Len(work) - 2
  BY DEF StepLeft
<1> QED
  BY <1>1, <1>2, QueueLengths DEF Growing

LEMMA EveryActionLess ==
  ASSUME SchedInv, pc # "idle", Next
  PROVE  StepLeft' < StepLeft
<1>1. Step
  BY DEF Next, Submit
<1>2. CASE AdmitHead
  <2>1. waiting # << >> /\ waiting' = Tail(waiting) /\ pc = "admit" /\ pc' = "admit"
    BY <1>2 DEF AdmitHead, CanAdmit
  <2>2. /\ StepLeft = Len(waiting) + 4 * MaxBatch + 3
        /\ StepLeft' = Len(Tail(waiting)) + 4 * MaxBatch + 3
    BY <2>1 DEF StepLeft
  <2> QED
    BY <2>1, <2>2, QueueLengths
<1>3. CASE CloseAdmission
  <2>1. pc = "admit" /\ pc' \in {"idle", "forward"} /\ running' = running
    BY <1>3 DEF CloseAdmission
  <2>2. /\ StepLeft = Len(waiting) + 4 * MaxBatch + 3
        /\ StepLeft' \in {0, 4 * Len(running) + 2}
    BY <2>1 DEF StepLeft
  <2> QED
    BY <2>2, QueueLengths
<1>4. CASE Forward
  <2>1. PICK w \in [1 .. Len(running) -> Running] : work' = w
    BY <1>4 DEF Forward
  <2>2. pc = "forward" /\ pc' = "loop" /\ Len(work') = Len(running)
    BY <1>4, <2>1, QueueLengths DEF Forward
  <2>3. StepLeft = 4 * Len(running) + 2 /\ StepLeft' = 4 * Len(running) + 1
    BY <2>2 DEF StepLeft
  <2> QED
    BY <2>3, QueueLengths
<1>5. ASSUME NEW r \in ReqId, SkipPreempted(r) PROVE StepLeft' < StepLeft
  BY <1>5, LoopOnLess DEF SkipPreempted, AtHead
<1>6. ASSUME NEW r \in ReqId, NEW eos \in BOOLEAN, SampleLast(r, eos) PROVE StepLeft' < StepLeft
  BY <1>6, LoopOnLess DEF SampleLast, AtHead
<1>7. ASSUME NEW r \in ReqId, NEW eos \in BOOLEAN, SampleNext(r, eos) PROVE StepLeft' < StepLeft
  <2>1. work # << >> /\ pc = "loop"
    BY <1>7 DEF SampleNext, AtHead
  <2>2. CASE LoopOn
    BY <2>1, <2>2, LoopOnLess
  <2>3. CASE pc' = "grow" /\ UNCHANGED work
    <3>1. StepLeft = 4 * Len(work) + 1 /\ StepLeft' = 4 * Len(work)
      BY <2>1, <2>3 DEF StepLeft
    <3> QED
      BY <3>1, QueueLengths
  <2> QED
    BY <1>7, <2>2, <2>3 DEF SampleNext
<1>8. CASE Grow
  <2>1. pc = "grow" /\ work # << >> /\ Growing
    BY <1>8 DEF Grow, SchedInv, HeadGrows, Growing
  <2>2. CASE LoopOn
    BY <2>1, <2>2, LoopOnLess
  <2>3. CASE pc' = "make_room" /\ UNCHANGED work
    <3>1. StepLeft = 4 * Len(work) /\ StepLeft' = 4 * Len(work) - 1
      BY <2>1, <2>3 DEF StepLeft
    <3> QED
      BY <3>1, QueueLengths
  <2> QED
    BY <1>8, <2>2, <2>3 DEF Grow
<1>9. CASE MakeRoom
  <2>1. pc = "make_room" /\ work # << >> /\ Growing
    BY <1>9 DEF MakeRoom, SchedInv, HeadGrows, Growing
  <2>2. CASE LoopOn
    BY <2>1, <2>2, LoopOnLess
  <2>3. CASE pc' = "retry" /\ UNCHANGED work
    <3>1. StepLeft = 4 * Len(work) - 1 /\ StepLeft' = 4 * Len(work) - 2
      BY <2>1, <2>3 DEF StepLeft
    <3> QED
      BY <3>1, QueueLengths
  <2> QED
    BY <1>9, <2>2, <2>3 DEF MakeRoom
<1>10. CASE Retry
  <2>1. pc = "retry" /\ work # << >> /\ Growing
    BY <1>10 DEF Retry, SchedInv, HeadGrows, Growing
  <2> QED
    BY <1>10, <2>1, LoopOnLess DEF Retry
<1>11. CASE StepEnds
  <2>1. pc = "loop" /\ pc' = "idle"
    BY <1>11 DEF StepEnds
  <2>2. StepLeft = 4 * Len(work) + 1 /\ StepLeft' = 0
    BY <2>1 DEF StepLeft
  <2> QED
    BY <2>2, QueueLengths
<1>12. ~StepBegins
  BY DEF StepBegins
<1> QED
  BY <1>1, <1>2, <1>3, <1>4, <1>5, <1>6, <1>7, <1>8, <1>9, <1>10, <1>11, <1>12
     DEF Step, Sample

(* Admission ends without a batch only when nobody is left.                *)
LEMMA NoBatchNobodyLive ==
  ASSUME SchedInv, OrderInv, CloseAdmission, running = << >>, MaxBatch >= 1
  PROVE  Live = {}
<1>1. Running = {}
  BY InToSet DEF Running, ToSet
<1>2. Len(running) < MaxBatch
  <2>1. Len(<< >>) = 0
    OBVIOUS
  <2> QED
    BY <2>1, SchedulerAssumption
<1>3. waiting # << >> => FALSE
  <2>1. waiting # << >> => free_count >= Headroom(Head(waiting))
    BY HeadAlwaysFits DEF HeadFitsEmptyCache
  <2> QED
    BY <1>2, <2>1 DEF CloseAdmission, CanAdmit
<1>4. Waiting = {}
  BY <1>3 DEF Waiting, ToSet
<1> QED
  BY <1>1, <1>4 DEF Live

(* The batch is served from its head, which runs. *)
LEMMA BatchHasHead ==
  ASSUME SchedInv, Forward, running # << >>
  PROVE  work' # << >> /\ Head(work') \in Running'
<1>1. PICK w \in [1 .. Len(running) -> Running] : work' = w
  BY DEF Forward
<1>2. running \in Seq(ReqId) /\ Len(running) \in Nat /\ Len(running) >= 1
  BY QueueLengths DEF SchedInv, TypeOK
<1>3. w \in Seq(Running) /\ Len(w) = Len(running)
  BY <1>1, <1>2
<1>4. w # << >> /\ Head(w) \in Running
  BY <1>2, <1>3
<1>5. Running' = Running
  BY DEF Forward, Running
<1> QED
  BY <1>1, <1>4, <1>5

(***************************************************************************)
(* step() returns, whatever it meets: each action of a step leaves less to *)
(* do than there was, and a step that begins has at most the queue, four   *)
(* actions for each place in the batch and three more ahead of it.  A      *)
(* request that needs a block is the cause of one preemption at most.      *)
(***************************************************************************)
THEOREM StepReturns ==
  Spec => /\ [](StepLeft \in Nat)
          /\ [][pc # "idle" => StepLeft' < StepLeft]_vars
<1>1. SchedInv => StepLeft \in Nat
  BY StepLeftIsNat
<1>2. SchedInv /\ [Next]_vars => [pc # "idle" => StepLeft' < StepLeft]_vars
  BY EveryActionLess
<1> QED
  BY <1>1, <1>2, SchedInvHolds, PTL DEF Spec

(* Between admission and the forward pass somebody runs. *)
BatchForForward == pc = "forward" => running # << >>

(***************************************************************************)
(* No step is in vain: one that returns from admission had nobody to       *)
(* serve, and any other goes over a batch whose first request runs, so     *)
(* that it is sampled before anything can preempt it.  With StepReturns    *)
(* this is why the mechanism terminates (phase1-engine.md:183-186); with a *)
(* max_batch of 0, which the constructor takes, it does not.               *)
(***************************************************************************)
THEOREM NoStepInVain ==
  ASSUME MaxBatch >= 1
  PROVE  Spec =>
           [][/\ pc = "admit" /\ pc' = "idle" => Live = {}
              /\ pc = "forward" => work' # << >> /\ Head(work') \in Running']_vars
<1>1. Init => BatchForForward
  BY DEF Init, BatchForForward
<1>2. ASSUME BatchForForward, [Next]_vars PROVE BatchForForward'
  <2>1. CASE UNCHANGED vars
    BY <1>2, <2>1 DEF vars, sched_vars, BatchForForward
  <2>2. CASE Next
    <3>1. pc' = "forward" => CloseAdmission
      BY <2>2 DEF Next, Submit, Step, StepBegins, AdmitHead, Forward, SkipPreempted, Sample,
                  SampleLast, SampleNext, LoopOn, Grow, MakeRoom, Retry, StepEnds
    <3>2. CloseAdmission => (pc' = "forward" => running' # << >>)
      BY DEF CloseAdmission
    <3> QED
      BY <3>1, <3>2 DEF BatchForForward
  <2> QED
    BY <1>2, <2>1, <2>2
<1>3. ASSUME SchedInv, OrderInv, BatchForForward, Next
      PROVE  /\ pc = "admit" /\ pc' = "idle" => Live = {}
             /\ pc = "forward" => work' # << >> /\ Head(work') \in Running'
  <2>1. pc = "admit" /\ pc' = "idle" => CloseAdmission /\ running = << >>
    BY <1>3 DEF Next, Submit, Step, StepBegins, AdmitHead, CloseAdmission, Forward,
                SkipPreempted, Sample, SampleLast, SampleNext, AtHead, Grow, MakeRoom, Retry,
                StepEnds
  <2>2. pc = "forward" => Forward
    BY <1>3 DEF Next, Submit, Step, StepBegins, AdmitHead, CloseAdmission,
                SkipPreempted, Sample, SampleLast, SampleNext, AtHead, Grow, MakeRoom, Retry,
                StepEnds
  <2> QED
    BY <1>3, <2>1, <2>2, NoBatchNobodyLive, BatchHasHead DEF BatchForForward
<1>4. SchedInv /\ OrderInv /\ BatchForForward /\ [Next]_vars =>
        [/\ pc = "admit" /\ pc' = "idle" => Live = {}
         /\ pc = "forward" => work' # << >> /\ Head(work') \in Running']_vars
  BY <1>3
<1> QED
  BY <1>1, <1>2, <1>4, OrderInvHolds, PTL DEF Spec
===============================================================================
