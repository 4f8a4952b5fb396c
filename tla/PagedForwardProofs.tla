-------------------------- MODULE PagedForwardProofs --------------------------
(***************************************************************************)
(* The contents of the paged cache, for every number of requests, blocks   *)
(* and slots per block.  The scheduler part is SchedInv, which the forward *)
(* pass keeps because its steps are scheduler steps or none.               *)
(*                                                                         *)
(* What must be in place for a request depends on where the step is: all   *)
(* its positions between its turn in forward() and the sample, all but the *)
(* newest once it was sampled, none after its admission.  Filled says how  *)
(* many, and KVInPlace is inductive together with the bound that keeps     *)
(* those positions inside the table while it is being grown.               *)
(***************************************************************************)
EXTENDS PagedForward, SchedulerProofs

(* forward() goes down the batch, which is the whole work list. *)
LeftIsBatch ==
  /\ left \in Seq(ReqId) /\ IsInjective(left)
  /\ ToSet(left) \subseteq Running \cap ToSet(work)
  /\ left # << >> => pc = "loop"

(* A table that is being grown fits the content before the last sample. *)
GrowsByOne ==
  Growing => /\ Len(block_tables[Head(work)]) = BlocksFor(TotalLen(Head(work)) - 1)
             /\ seqs[Head(work)].status = "DECODE"

(* Those whose token of this step is still to be sampled. *)
Unsampled ==
  IF pc = "loop" THEN ToSet(work) ELSE IF Growing THEN ToSet(Tail(work)) ELSE {}

(* How many positions of r have their KV in r's blocks. *)
Filled(r) ==
  IF r \in Unsampled /\ r \notin ToSet(left) THEN TotalLen(r)
  ELSE IF seqs[r].status = "DECODE" THEN TotalLen(r) - 1 ELSE 0

InPlace(r, n) == \A p \in 0 .. n - 1 : kv[Slot(r, p)] = Own(r, p)

KVInPlace == \A r \in Running : InPlace(r, Filled(r))

PagedInv ==
  /\ SchedInv
  /\ LeftIsBatch /\ GrowsByOne /\ KVInPlace
  /\ poison_on_free \in BOOLEAN /\ FreeKeepsNoKV

-----------------------------------------------------------------------------
(* Slots: where a position goes, and that no two positions share a slot. *)
LEMMA PositionInBlock ==
  ASSUME NEW p \in Nat, NEW d \in Nat \ {0}
  PROVE  /\ p \div d \in Nat /\ p % d \in 0 .. d - 1
         /\ p = d * (p \div d) + (p % d)
  OBVIOUS

LEMMA PositionFits ==
  ASSUME NEW p \in Nat, NEW n \in Nat, p < BlockSize * n
  PROVE  p \div BlockSize + 1 \in 1 .. n
<1> DEFINE d == BlockSize
           q == p \div d
<1>1. d \in Nat \ {0}
  BY SchedulerAssumption
<1>2. q \in Nat /\ d * q <= p
  BY <1>1, DivBounds
<1> HIDE DEF d, q
<1>3. q < n
  <2>1. q > n => d * q >= d * n + d
    BY <1>1, <1>2, NextMultiple
  <2>2. d * q \in Int /\ d * n \in Int /\ p < d * n
    BY <1>1, <1>2 DEF d
  <2>3. q # n
    BY <1>2, <2>2
  <2> QED
    BY <1>1, <1>2, <2>1, <2>2, <2>3
<1> QED
  BY <1>2, <1>3 DEF q, d

LEMMA BlocksAreEnough ==
  ASSUME NEW n \in Nat
  PROVE  BlockSize * BlocksFor(n) \in Nat /\ n <= BlockSize * BlocksFor(n)
<1> DEFINE d == BlockSize
           q == (n + d - 1) \div d
<1>1. d \in Nat \ {0}
  BY SchedulerAssumption
<1>2. n + d - 1 \in Nat
  BY <1>1
<1>3. q \in Nat /\ n + d - 1 < d * q + d
  BY <1>1, <1>2, DivBounds
<1>4. BlocksFor(n) = q
  BY DEF BlocksFor
<1> HIDE DEF q
<1>5. d * q \in Nat
  BY <1>1, <1>3
<1> QED
  BY <1>1, <1>3, <1>4, <1>5

LEMMA SlotInTable ==
  ASSUME SchedInv, NEW r \in ReqId, NEW p \in Nat,
         p < BlockSize * Len(block_tables[r])
  PROVE  /\ p \div BlockSize + 1 \in 1 .. Len(block_tables[r])
         /\ Slot(r, p) \in Slots
         /\ Slot(r, p)[1] \in ToSet(block_tables[r])
         /\ Slot(r, p)[1] = block_tables[r][p \div BlockSize + 1]
         /\ Slot(r, p)[2] = p % BlockSize
<1> DEFINE t == block_tables[r]
           i == p \div BlockSize + 1
           o == p % BlockSize
<1>1. t \in Seq(BlockId) /\ Len(t) \in Nat
  BY DEF SchedInv, TypeOK, KVTypeOK
<1>2. i \in 1 .. Len(t)
  BY <1>1, PositionFits
<1>3. o \in 0 .. BlockSize - 1
  BY SchedulerAssumption, PositionInBlock
<1>4. Slot(r, p) = <<t[i], o>>
  BY DEF Slot
<1> HIDE DEF t, i, o
<1>5. t[i] \in BlockId /\ t[i] \in ToSet(t)
  BY <1>1, <1>2, InToSet
<1>6. Slot(r, p) \in Slots
  BY <1>3, <1>4, <1>5 DEF Slots
<1> QED
  BY <1>2, <1>4, <1>5, <1>6 DEF t, i, o

LEMMA SlotsDiffer ==
  ASSUME SchedInv, NEW r \in ReqId, NEW p \in Nat, NEW n \in Nat,
         p < BlockSize * Len(block_tables[r]), n < BlockSize * Len(block_tables[r]),
         Slot(r, p) = Slot(r, n)
  PROVE  p = n
<1> DEFINE t == block_tables[r]
           d == BlockSize
<1>1. t \in Seq(BlockId) /\ IsInjective(t)
  BY DEF SchedInv, TypeOK, KVTypeOK, BlockConservation, TablesDistinct
<1>2. /\ p \div d + 1 \in 1 .. Len(t) /\ n \div d + 1 \in 1 .. Len(t)
      /\ t[p \div d + 1] = t[n \div d + 1]
      /\ p % d = n % d
  BY SlotInTable
<1>3. p \div d + 1 = n \div d + 1
  BY <1>1, <1>2, InjectiveSeq
<1>4. d \in Nat \ {0}
  BY SchedulerAssumption
<1> HIDE DEF d
<1>5. /\ p \div d \in Nat /\ p = d * (p \div d) + (p % d)
      /\ n \div d \in Nat /\ n = d * (n \div d) + (n % d)
  BY <1>4, PositionInBlock
<1>6. p \div d = n \div d
  BY <1>3, <1>5
<1> QED
  BY <1>2, <1>5, <1>6, Zenon

LEMMA TablesApart ==
  ASSUME SchedInv, NEW r \in ReqId, NEW q \in ReqId, r # q
  PROVE  ToSet(block_tables[r]) \cap ToSet(block_tables[q]) = {}
  BY DEF SchedInv, BlockConservation, HeldByOne

(* The filled positions of a running request lie inside its table. *)
LEMMA FilledFits ==
  ASSUME SchedInv, GrowsByOne, NEW r \in Running
  PROVE  /\ r \in ReqId /\ TotalLen(r) \in Nat /\ TotalLen(r) >= 1
         /\ Filled(r) \in Nat /\ Filled(r) <= TotalLen(r)
         /\ Filled(r) <= BlockSize * Len(block_tables[r])
         /\ BlockSize * Len(block_tables[r]) \in Nat
         /\ ~Growing => TotalLen(r) <= BlockSize * Len(block_tables[r])
<1>1. r \in ReqId /\ r \in Live
  BY QueuesDisjoint DEF Live
<1>2. TotalLen(r) \in Nat /\ TotalLen(r) >= 1
  BY <1>1 DEF SchedInv, TypeOK, SeqRecord, LiveHasContent, TotalLen
<1>3. Filled(r) \in Nat /\ Filled(r) <= TotalLen(r)
  BY <1>2 DEF Filled
<1>4. CASE Owed(r) = 0
  <2>1. BlocksFor(TotalLen(r)) \in Nat
    BY <1>2, BlocksForStep
  <2>2. Len(block_tables[r]) = BlocksFor(TotalLen(r))
    BY <1>4, <2>1 DEF SchedInv, TablesFit
  <2>3. TotalLen(r) <= BlockSize * Len(block_tables[r])
        /\ BlockSize * Len(block_tables[r]) \in Nat
    BY <1>2, <2>2, BlocksAreEnough
  <2> QED
    BY <1>1, <1>2, <1>3, <2>3
<1>5. CASE Owed(r) # 0
  <2>1. Growing /\ r = Head(work)
    BY <1>5 DEF Owed
  <2>2. r \notin ToSet(Tail(work)) /\ pc # "loop"
    <3>1. work \in Seq(ReqId) /\ IsInjective(work) /\ work # << >>
      BY <2>1 DEF SchedInv, TypeOK, HeadGrows
    <3>2. ToSet(Tail(work)) = ToSet(work) \ {Head(work)}
      BY <3>1, TailDistinct
    <3> QED
      BY <2>1, <3>2 DEF Growing
  <2>3. Filled(r) <= TotalLen(r) - 1
    BY <1>2, <2>1, <2>2 DEF Filled, Unsampled
  <2>4. Len(block_tables[r]) = BlocksFor(TotalLen(r) - 1) /\ TotalLen(r) - 1 \in Nat
    BY <1>2, <2>1 DEF GrowsByOne
  <2>5. TotalLen(r) - 1 <= BlockSize * Len(block_tables[r])
        /\ BlockSize * Len(block_tables[r]) \in Nat
    BY <2>4, BlocksAreEnough
  <2> QED
    BY <1>1, <1>2, <1>3, <2>1, <2>3, <2>5
<1> QED
  BY <1>4, <1>5

-----------------------------------------------------------------------------
(* What keeps the contents in place: a request that goes on running keeps  *)
(* its blocks in order, nothing else is written to them, and it has no     *)
(* more positions to find there than before.                               *)
LEMMA ContentsStay ==
  ASSUME PagedInv,
         \A r \in Running' :
           \/ Filled(r)' = 0
           \/ InPlace(r, Filled(r))'
           \/ /\ r \in Running
              /\ Filled(r)' \in Nat /\ Filled(r)' <= Filled(r)
              /\ seqs'[r].seq_no = seqs[r].seq_no
              /\ \A i \in 1 .. Len(block_tables[r]) : block_tables'[r][i] = block_tables[r][i]
              /\ \A c \in Slots : c[1] \in ToSet(block_tables[r]) => kv'[c] = kv[c]
  PROVE  KVInPlace'
<1> SUFFICES ASSUME NEW r \in Running', NEW p \in 0 .. Filled(r)' - 1
             PROVE  kv'[Slot(r, p)'] = Own(r, p)'
  BY DEF KVInPlace, InPlace
<1> DEFINE m == Filled(r)'
<1>1. CASE m = 0 \/ InPlace(r, Filled(r))'
  BY <1>1 DEF InPlace
<1>2. CASE /\ r \in Running /\ m \in Nat /\ m <= Filled(r)
           /\ seqs'[r].seq_no = seqs[r].seq_no
           /\ \A i \in 1 .. Len(block_tables[r]) : block_tables'[r][i] = block_tables[r][i]
           /\ \A c \in Slots : c[1] \in ToSet(block_tables[r]) => kv'[c] = kv[c]
  <2> HIDE DEF m
  <2>1. /\ r \in ReqId /\ Filled(r) \in Nat
        /\ Filled(r) <= BlockSize * Len(block_tables[r])
        /\ BlockSize * Len(block_tables[r]) \in Nat
    BY <1>2, FilledFits DEF PagedInv
  <2>2. p \in Nat /\ p < Filled(r) /\ p < BlockSize * Len(block_tables[r])
    BY <1>2, <2>1 DEF m
  <2>3. /\ p \div BlockSize + 1 \in 1 .. Len(block_tables[r])
        /\ Slot(r, p) \in Slots /\ Slot(r, p)[1] \in ToSet(block_tables[r])
    BY <2>1, <2>2, SlotInTable DEF PagedInv
  <2>4. Slot(r, p)' = Slot(r, p)
    BY <1>2, <2>3 DEF Slot
  <2>5. kv'[Slot(r, p)] = kv[Slot(r, p)]
    BY <1>2, <2>3
  <2>6. kv[Slot(r, p)] = Own(r, p)
    BY <1>2, <2>1, <2>2 DEF PagedInv, KVInPlace, InPlace
  <2>7. Own(r, p)' = Own(r, p)
    BY <1>2 DEF Own
  <2> QED
    BY <2>4, <2>5, <2>6, <2>7
<1> QED
  BY <1>1, <1>2

LEMMA NothingLeft ==
  ASSUME left' = << >>
  PROVE  LeftIsBatch'
  BY DEF LeftIsBatch, IsInjective, ToSet

(* The free list only gains what is poisoned. *)
LEMMA FreeStaysClean ==
  ASSUME PagedInv, UNCHANGED poison_on_free,
         poison_on_free =>
           \A b \in ToSet(free_blocks'), o \in 0 .. BlockSize - 1 :
             \/ kv'[<<b, o>>] \in {Zeros, NaN}
             \/ b \in ToSet(free_blocks) /\ kv'[<<b, o>>] = kv[<<b, o>>]
  PROVE  FreeKeepsNoKV'
  BY DEF PagedInv, FreeKeepsNoKV, Zeros, NaN

(* The steps that change neither a table nor the contents. *)
LEMMA QuietKeeps ==
  ASSUME PagedInv, SchedInv', UNCHANGED <<kv_vars, poison_on_free, kv>>,
         LeftIsBatch', GrowsByOne',
         \A r \in Running' : /\ r \in Running
                             /\ Filled(r)' = Filled(r)
                             /\ seqs'[r].seq_no = seqs[r].seq_no
  PROVE  PagedInv'
<1>1. FreeKeepsNoKV'
  BY FreeStaysClean DEF kv_vars
<1>2. KVInPlace'
  <2> SUFFICES ASSUME NEW r \in Running'
               PROVE  /\ r \in Running
                      /\ Filled(r)' \in Nat /\ Filled(r)' <= Filled(r)
                      /\ seqs'[r].seq_no = seqs[r].seq_no
                      /\ block_tables' = block_tables /\ kv' = kv
    BY ContentsStay
  <2>1. r \in Running /\ Filled(r) \in Nat /\ Filled(r)' = Filled(r)
    BY FilledFits DEF PagedInv
  <2> QED
    BY <2>1 DEF kv_vars
<1> QED
  BY <1>1, <1>2 DEF PagedInv

-----------------------------------------------------------------------------
(* One lemma per action. *)
LEMMA PagedSubmitKeeps ==
  ASSUME PagedInv, SchedInv', left = << >>, UNCHANGED <<poison_on_free, kv, left>>,
         NEW r \in ReqId, NEW p \in PromptLens, NEW m \in TokenLimits, Submit(r, p, m)
  PROVE  PagedInv'
<1>1. /\ UNCHANGED <<kv_vars, running, work, pc>> /\ pc = "idle"
      /\ Running' = Running /\ r \notin Running
  BY DEF Submit, Refused, Live, Running
<1>2. LeftIsBatch' /\ GrowsByOne'
  BY <1>1, NothingLeft DEF GrowsByOne, Growing
<1>3. \A q \in Running : seqs'[q] = seqs[q]
  <2>1. Running \subseteq ReqId /\ seqs \in [ReqId -> SeqRecord]
    BY QueuesDisjoint DEF PagedInv, SchedInv, TypeOK
  <2> QED
    BY <1>1, <2>1 DEF Submit
<1>4. Unsampled' = {} /\ Unsampled = {}
  BY <1>1 DEF Unsampled, Growing
<1>5. \A q \in Running' : Filled(q)' = Filled(q)
  BY <1>1, <1>3, <1>4 DEF Filled, TotalLen
<1> QED
  BY <1>1, <1>2, <1>3, <1>5, QuietKeeps

LEMMA PagedBracketsKeep ==
  ASSUME PagedInv, SchedInv', left = << >>, UNCHANGED <<poison_on_free, kv, left>>,
         StepBegins \/ CloseAdmission \/ StepEnds
  PROVE  PagedInv'
<1>1. /\ UNCHANGED <<kv_vars, running, seqs, work>>
      /\ pc \in {"idle", "admit"} \/ work = << >>
      /\ pc \in {"idle", "admit", "loop"} /\ pc' \in {"idle", "admit", "forward"}
      /\ Running' = Running
  BY DEF StepBegins, CloseAdmission, StepEnds, Running
<1>2. LeftIsBatch' /\ GrowsByOne'
  BY <1>1, NothingLeft DEF GrowsByOne, Growing
<1>3. Unsampled' = {} /\ Unsampled = {}
  BY <1>1 DEF Unsampled, Growing, ToSet
<1>4. \A q \in Running' : Filled(q)' = Filled(q)
  BY <1>1, <1>3 DEF Filled, TotalLen
<1> QED
  BY <1>1, <1>2, <1>4, QuietKeeps

LEMMA PagedSkipKeeps ==
  ASSUME PagedInv, SchedInv', left = << >>, UNCHANGED <<poison_on_free, kv, left>>,
         NEW r \in ReqId, SkipPreempted(r)
  PROVE  PagedInv'
<1>1. /\ UNCHANGED <<kv_vars, running, seqs>> /\ pc = "loop" /\ pc' = "loop"
      /\ work # << >> /\ r = Head(work) /\ work' = Tail(work) /\ Running' = Running
      /\ seqs[r].status = "WAITING"
  BY DEF SkipPreempted, AtHead, LoopOn, Running
<1>2. LeftIsBatch' /\ GrowsByOne'
  BY <1>1, NothingLeft DEF GrowsByOne, Growing
<1>3. Unsampled' = Unsampled \ {r}
  BY <1>1, TailDistinct DEF Unsampled, PagedInv, SchedInv, TypeOK
<1>4. r \notin Running
  BY <1>1 DEF PagedInv, SchedInv, StatusMatchesQueue
<1>5. \A q \in Running' : Filled(q)' = Filled(q)
  BY <1>1, <1>3, <1>4 DEF Filled, TotalLen
<1> QED
  BY <1>1, <1>2, <1>5, QuietKeeps

LEMMA PagedForwardBeginsKeeps ==
  ASSUME PagedInv, SchedInv', left = << >>, ForwardBegins
  PROVE  PagedInv'
<1>1. /\ UNCHANGED <<kv_vars, running, seqs, poison_on_free, kv>> /\ left' = work'
      /\ pc = "forward" /\ pc' = "loop" /\ Running' = Running
  BY DEF ForwardBegins, Forward, Running
<1>2. GrowsByOne'
  BY <1>1 DEF GrowsByOne, Growing
<1>3. LeftIsBatch'
  <2>1. work' \in Seq(ReqId) /\ IsInjective(work')
    BY DEF SchedInv, TypeOK
  <2>2. ToSet(work') \subseteq Running
    <3>1. PICK w \in [1 .. Len(running) -> Running] : work' = w
      BY DEF ForwardBegins, Forward
    <3> QED
      BY <3>1 DEF ToSet
  <2> QED
    BY <1>1, <2>1, <2>2 DEF LeftIsBatch
<1>4. Unsampled = {} /\ Unsampled' = ToSet(left')
  BY <1>1 DEF Unsampled, Growing
<1>5. \A q \in Running' : Filled(q)' = Filled(q)
  BY <1>1, <1>4 DEF Filled, TotalLen
<1> QED
  BY <1>1, <1>2, <1>3, <1>5, QuietKeeps

(* The token just sampled is the newest position, and its KV is not there. *)
LEMMA PagedSampleNextKeeps ==
  ASSUME PagedInv, SchedInv', left = << >>, UNCHANGED <<poison_on_free, kv, left>>,
         NEW r \in ReqId, NEW eos \in BOOLEAN, SampleNext(r, eos)
  PROVE  PagedInv'
<1> DEFINE new == Sampled(seqs[r])
<1>1. /\ UNCHANGED <<kv_vars, running>> /\ Running' = Running /\ pc = "loop"
      /\ AtHead(r) /\ seqs[r].status # "WAITING"
      /\ seqs' = [seqs EXCEPT ![r] = new]
      /\ \/ pc' = "grow" /\ work' = work
         \/ pc' = "loop" /\ work' = Tail(work)
  BY DEF SampleNext, AtHead, LoopOn, Running
<1>2. /\ r \in Running /\ work # << >> /\ r = Head(work)
      /\ seqs[r] \in SeqRecord /\ TotalLen(r) \in Nat
  BY <1>1, SampledRuns DEF PagedInv
<1>3. /\ new.outputs = seqs[r].outputs + 1 /\ new.prompt = seqs[r].prompt
      /\ new.seq_no = seqs[r].seq_no /\ new.status = "DECODE"
  BY <1>2 DEF Sampled, SeqRecord
<1> HIDE DEF new
<1>4. \A q \in ReqId : seqs'[q] = IF q = r THEN new ELSE seqs[q]
  BY <1>1 DEF PagedInv, SchedInv, TypeOK
<1>5. seqs[r].outputs \in Nat /\ seqs[r].prompt \in Nat /\ Running \subseteq ReqId
  BY <1>2, QueuesDisjoint DEF SeqRecord, PagedInv
<1>6. TotalLen(r)' = TotalLen(r) + 1
  BY <1>3, <1>4, <1>5 DEF TotalLen
<1>7. Unsampled = ToSet(work) /\ Unsampled' = ToSet(work) \ {r} /\ r \in ToSet(work)
  <2>1. ToSet(Tail(work)) = ToSet(work) \ {r} /\ r \in ToSet(work)
    BY <1>2, TailDistinct DEF PagedInv, SchedInv, TypeOK
  <2> QED
    BY <1>1, <2>1 DEF Unsampled, Growing
<1>8. ToSet(left) = {} /\ ToSet(left') = {}
  BY DEF ToSet
<1>9. Filled(r)' = Filled(r)
  BY <1>2, <1>3, <1>4, <1>6, <1>7, <1>8 DEF Filled
<1>10. \A q \in Running' : q # r => Filled(q)' = Filled(q)
  BY <1>1, <1>4, <1>5, <1>7, <1>8 DEF Filled, TotalLen
<1>11. GrowsByOne'
  <2> SUFFICES ASSUME Growing'
               PROVE  Len(block_tables'[r]) = BlocksFor(TotalLen(r)' - 1)
                      /\ seqs'[r].status = "DECODE" /\ Head(work') = r
    BY <1>3 DEF GrowsByOne, BlocksFor
  <2>1. work' = work
    BY <1>1 DEF Growing
  <2>2. Len(block_tables[r]) = BlocksFor(TotalLen(r))
    <3>1. Owed(r) = 0
      BY <1>1 DEF Owed, Growing
    <3>2. BlocksFor(TotalLen(r)) \in Nat
      BY <1>2, BlocksForStep
    <3> QED
      BY <1>2, <3>1, <3>2 DEF PagedInv, SchedInv, TablesFit
  <2>3. TotalLen(r)' - 1 = TotalLen(r)
    BY <1>2, <1>6
  <2> QED
    BY <1>1, <1>2, <1>3, <1>4, <2>1, <2>2, <2>3 DEF kv_vars
<1> QED
  BY <1>1, <1>3, <1>4, <1>5, <1>9, <1>10, <1>11, NothingLeft, QuietKeeps

LEMMA PoppedIsSubset ==
  ASSUME SchedInv, NEW n \in 0 .. Len(free_blocks)
  PROVE  ToSet(SubSeq(free_blocks, n + 1, Len(free_blocks))) \subseteq ToSet(free_blocks)
<1> DEFINE s == free_blocks
           a == SubSeq(s, 1, n)
           b == SubSeq(s, n + 1, Len(s))
<1>1. s \in Seq(BlockId) /\ IsInjective(s)
  BY DEF SchedInv, TypeOK, KVTypeOK, BlockConservation, FreeListDistinct
<1>2. ToSet(a) \cup ToSet(b) = ToSet(s)
  BY <1>1, SplitDistinct
<1> HIDE DEF a, b
<1>3. ToSet(b) \subseteq ToSet(s)
  BY <1>2
<1> QED
  BY <1>3 DEF b

(* The head that is admitted has nothing in place yet, and its new blocks  *)
(* are nobody else's.                                                      *)
LEMMA PagedAdmitKeeps ==
  ASSUME PagedInv, SchedInv', left = << >>, UNCHANGED <<poison_on_free, kv, left>>,
         AdmitHead
  PROVE  PagedInv'
<1>0. Head(waiting) \in ReqId /\ Head(waiting) \in Waiting
  BY TailDistinct DEF AdmitHead, CanAdmit, Waiting, PagedInv, SchedInv, TypeOK
<1> PICK r \in ReqId : r = Head(waiting)
  BY <1>0
<1> DEFINE n == BlocksFor(TotalLen(r))
<1>1. /\ pc = "admit" /\ pc' = "admit"
      /\ free_count >= Headroom(r) /\ Allocate(r, n)
      /\ running' = Append(running, r)
      /\ seqs' = [seqs EXCEPT ![r].status = "PREFILL"]
  BY DEF AdmitHead, CanAdmit, SetStatus
<1>2. r \in ReqId /\ r \notin Running
  BY <1>0, QueuesDisjoint DEF PagedInv
<1>3. Running' = Running \cup {r} /\ Running \subseteq ReqId
  <2>1. Running' = Running \cup {r}
    BY <1>1, <1>2, AppendDistinct DEF PagedInv, SchedInv, TypeOK, Running
  <2> QED
    BY <2>1, QueuesDisjoint DEF PagedInv
<1>4. n \in Nat /\ free_count >= n /\ free_count \in Nat
  <2>1. TotalLen(r) \in Nat
    <3>1. seqs[r] \in SeqRecord
      BY DEF PagedInv, SchedInv, TypeOK
    <3> QED
      BY <3>1 DEF SeqRecord, TotalLen
  <2>2. Headroom(r) \in BlocksFor(TotalLen(r)) .. BlocksFor(TotalLen(r)) + 1 /\ n \in Nat
    BY <2>1, BlocksForStep DEF Headroom
  <2>3. free_count \in Nat
    BY DEF free_count, PagedInv, SchedInv, TypeOK, KVTypeOK
  <2> QED
    BY <1>1, <2>2, <2>3
<1> HIDE DEF n
<1>5. \A q \in ReqId : q # r => block_tables'[q] = block_tables[q]
  BY <1>1, <1>2, <1>4, AllocateEffect DEF PagedInv, SchedInv, TypeOK
<1>6. ToSet(free_blocks') \subseteq ToSet(free_blocks)
  <2>1. free_blocks' = SubSeq(free_blocks, n + 1, Len(free_blocks)) /\ n \in 0 .. Len(free_blocks)
    BY <1>1, <1>4 DEF Allocate, AfterPop, free_count
  <2> QED
    BY <2>1, PoppedIsSubset DEF PagedInv
<1>7. FreeKeepsNoKV'
  BY <1>6, FreeStaysClean
<1>8. LeftIsBatch' /\ GrowsByOne'
  BY <1>1, NothingLeft DEF GrowsByOne, Growing
<1>9. /\ seqs'[r].status = "PREFILL"
      /\ \A q \in ReqId : q # r => seqs'[q] = seqs[q]
  BY <1>1, <1>2 DEF PagedInv, SchedInv, TypeOK, SeqRecord
<1>10. Unsampled = {} /\ Unsampled' = {}
  BY <1>1 DEF Unsampled, Growing
<1>11. KVInPlace'
  <2>1. Filled(r)' = 0
    BY <1>9, <1>10 DEF Filled
  <2>2. ASSUME NEW q \in Running', q # r
        PROVE  /\ q \in Running /\ Filled(q)' \in Nat /\ Filled(q)' <= Filled(q)
               /\ seqs'[q].seq_no = seqs[q].seq_no /\ block_tables'[q] = block_tables[q]
    <3>1. q \in Running /\ q \in ReqId
      BY <1>3, <2>2
    <3>2. Filled(q)' = Filled(q)
      BY <3>1, <2>2, <1>9, <1>10 DEF Filled, TotalLen
    <3>3. Filled(q) \in Nat
      BY <3>1, FilledFits DEF PagedInv
    <3> QED
      BY <3>1, <3>2, <3>3, <2>2, <1>5, <1>9
  <2> QED
    BY <2>1, <2>2, ContentsStay
<1> QED
  BY <1>7, <1>8, <1>11 DEF PagedInv

(* A table grows at its end: what it held stays where it was. *)
LEMMA PagedAddBlockKeeps ==
  ASSUME PagedInv, SchedInv', left = << >>, UNCHANGED <<poison_on_free, kv, left>>,
         Growing, AppendBlock(Head(work)), free_count > 0, LoopOn,
         UNCHANGED <<running, seqs>>
  PROVE  PagedInv'
<1> DEFINE h == Head(work)
<1>1. /\ h \in ReqId /\ work # << >> /\ Running' = Running /\ Running \subseteq ReqId
      /\ pc' = "loop" /\ work' = Tail(work) /\ pc # "loop"
  BY RestOfWork, QueuesDisjoint DEF PagedInv, SchedInv, HeadGrows, LoopOn, Growing, Running
<1> HIDE DEF h
<1>2. free_blocks \in Seq(BlockId) /\ free_blocks # << >> /\ IsInjective(free_blocks)
  BY EmptySeq DEF PagedInv, SchedInv, TypeOK, KVTypeOK, free_count, BlockConservation,
                  FreeListDistinct
<1>3. /\ free_blocks' = SubSeq(free_blocks, 1 + 1, Len(free_blocks))
      /\ block_tables' = [block_tables EXCEPT ![h] = Append(@, Head(free_blocks))]
  BY DEF AppendBlock, AfterPop, h
<1>4. ToSet(free_blocks') \subseteq ToSet(free_blocks)
  <2>1. 1 \in 0 .. Len(free_blocks)
    BY DEF free_count, PagedInv, SchedInv, TypeOK, KVTypeOK
  <2> QED
    BY <1>3, <2>1, PoppedIsSubset DEF PagedInv
<1>5. \A q \in ReqId : \A i \in 1 .. Len(block_tables[q]) :
        block_tables'[q][i] = block_tables[q][i]
  <2> SUFFICES ASSUME NEW q \in ReqId, NEW i \in 1 .. Len(block_tables[q])
               PROVE  block_tables'[q][i] = block_tables[q][i]
    OBVIOUS
  <2>1. block_tables \in [ReqId -> Seq(BlockId)] /\ Head(free_blocks) \in BlockId
    <3>1. Head(free_blocks) \in BlockId
      BY <1>2, TailDistinct
    <3> QED
      BY <3>1 DEF PagedInv, SchedInv, TypeOK, KVTypeOK
  <2>2. CASE q = h
    <3>1. block_tables'[q] = Append(block_tables[q], Head(free_blocks))
      BY <1>1, <1>3, <2>1, <2>2
    <3>2. block_tables[q] \in Seq(BlockId)
      BY <2>1
    <3> QED
      BY <2>1, <3>1, <3>2, AppendProperties
  <2>3. CASE q # h
    BY <1>3, <2>1, <2>3
  <2> QED
    BY <2>2, <2>3
<1>6. FreeKeepsNoKV'
  BY <1>4, FreeStaysClean
<1>7. LeftIsBatch' /\ GrowsByOne'
  BY <1>1, NothingLeft DEF GrowsByOne, Growing
<1>8. Unsampled' = Unsampled
  BY <1>1 DEF Unsampled
<1>9. KVInPlace'
  <2> SUFFICES ASSUME NEW q \in Running'
               PROVE  /\ q \in Running /\ q \in ReqId
                      /\ Filled(q)' \in Nat /\ Filled(q)' <= Filled(q)
    BY <1>5, ContentsStay
  <2>1. Filled(q)' = Filled(q)
    BY <1>8 DEF Filled, TotalLen
  <2>2. q \in Running /\ Filled(q) \in Nat
    BY <1>1, FilledFits DEF PagedInv
  <2> QED
    BY <1>1, <2>1, <2>2
<1> QED
  BY <1>6, <1>7, <1>9 DEF PagedInv

LEMMA PagedGrowKeeps ==
  ASSUME PagedInv, SchedInv', left = << >>, UNCHANGED <<poison_on_free, kv, left>>,
         Grow \/ Retry
  PROVE  PagedInv'
<1>1. Growing /\ AppendBlock(Head(work)) /\ UNCHANGED <<running, seqs>>
  BY DEF Grow, Retry, Growing
<1>2. CASE free_count > 0
  <2>1. LoopOn
    BY <1>2 DEF Grow, Retry
  <2> QED
    BY <1>1, <1>2, <2>1, PagedAddBlockKeeps
<1>3. CASE ~(free_count > 0)
  <2>1. pc' = "make_room" /\ work' = work /\ pc = "grow"
    BY <1>3 DEF Grow, Retry
  <2>2. UNCHANGED kv_vars
    <3>1. free_count = 0
      BY <1>3 DEF free_count, PagedInv, SchedInv, TypeOK, KVTypeOK
    <3> QED
      BY <1>1, <3>1 DEF AppendBlock
  <2>3. LeftIsBatch'
    BY NothingLeft
  <2>4. GrowsByOne'
    BY <1>1, <2>1, <2>2 DEF PagedInv, GrowsByOne, Growing, BlocksFor, TotalLen, kv_vars
  <2>5. Unsampled' = Unsampled
    BY <2>1 DEF Unsampled, Growing
  <2>6. Running' = Running /\ \A q \in Running' : Filled(q)' = Filled(q)
    BY <1>1, <2>5 DEF Filled, TotalLen, Running
  <2> QED
    BY <1>1, <2>2, <2>3, <2>4, <2>6, QuietKeeps
<1> QED
  BY <1>2, <1>3

(* Freed blocks are poisoned and nobody else's contents are touched. *)
LEMMA PagedFreeKeeps ==
  ASSUME PagedInv, SchedInv', left = << >>, UNCHANGED <<poison_on_free, left>>,
         NEW v \in ReqId, Free(v), kv' = Poisoned(v), GrowsByOne',
         \A q \in Running' : /\ q \in Running /\ q # v
                             /\ Filled(q)' = Filled(q)
                             /\ seqs'[q].seq_no = seqs[q].seq_no
  PROVE  PagedInv'
<1>1. \A c \in Slots : kv'[c] = IF poison_on_free /\ c[1] \in ToSet(block_tables[v])
                               THEN NaN ELSE kv[c]
  BY DEF Poisoned
<1>2. ToSet(free_blocks') = ToSet(free_blocks) \cup ToSet(block_tables[v])
  <2>1. /\ free_blocks \in Seq(BlockId) /\ IsInjective(free_blocks)
        /\ block_tables[v] \in Seq(BlockId) /\ IsInjective(block_tables[v])
        /\ ToSet(free_blocks) \cap ToSet(block_tables[v]) = {}
    BY DEF PagedInv, SchedInv, TypeOK, KVTypeOK, BlockConservation, FreeListDistinct,
           TablesDistinct, FreeOrHeld
  <2>2. free_blocks' = free_blocks \o block_tables[v]
    BY DEF Free, AfterReturn
  <2> QED
    BY <2>1, <2>2, ConcatDistinct
<1>3. FreeKeepsNoKV'
  <2> SUFFICES ASSUME poison_on_free, NEW b \in ToSet(free_blocks'), NEW o \in 0 .. BlockSize - 1
               PROVE  \/ kv'[<<b, o>>] \in {Zeros, NaN}
                      \/ b \in ToSet(free_blocks) /\ kv'[<<b, o>>] = kv[<<b, o>>]
    BY FreeStaysClean
  <2>1. <<b, o>> \in Slots /\ <<b, o>>[1] = b
    <3>1. free_blocks' \in Seq(BlockId)
      BY DEF SchedInv, TypeOK, KVTypeOK
    <3>2. b \in BlockId
      BY <3>1, ToSetOfSeq
    <3> QED
      BY <3>2 DEF Slots
  <2> QED
    BY <1>1, <1>2, <2>1
<1>4. KVInPlace'
  <2> SUFFICES ASSUME NEW q \in Running'
               PROVE  /\ q \in Running /\ Filled(q)' \in Nat /\ Filled(q)' <= Filled(q)
                      /\ seqs'[q].seq_no = seqs[q].seq_no
                      /\ block_tables'[q] = block_tables[q]
                      /\ \A c \in Slots : c[1] \in ToSet(block_tables[q]) => kv'[c] = kv[c]
    BY ContentsStay
  <2>1. q \in Running /\ q \in ReqId /\ q # v /\ Filled(q) \in Nat /\ Filled(q)' = Filled(q)
    BY FilledFits DEF PagedInv
  <2>2. block_tables'[q] = block_tables[q]
    BY <2>1, FreeEffect DEF PagedInv, SchedInv, TypeOK
  <2>3. \A c \in Slots : c[1] \in ToSet(block_tables[q]) => kv'[c] = kv[c]
    BY <1>1, <2>1, TablesApart DEF PagedInv
  <2> QED
    BY <2>1, <2>2, <2>3
<1> QED
  BY <1>3, <1>4, NothingLeft DEF PagedInv

LEMMA PagedSampleLastKeeps ==
  ASSUME PagedInv, SchedInv', left = << >>, UNCHANGED <<poison_on_free, left>>,
         NEW r \in ReqId, NEW eos \in BOOLEAN, SampleLast(r, eos), kv' = Poisoned(r)
  PROVE  PagedInv'
<1>1. /\ AtHead(r) /\ seqs[r].status # "WAITING" /\ Free(r)
      /\ running' = RemoveFirst(running, r)
      /\ pc = "loop" /\ pc' = "loop" /\ work' = Tail(work)
      /\ seqs' = [seqs EXCEPT ![r] = [Sampled(@) EXCEPT !.status = "FINISHED"]]
  BY DEF SampleLast, AtHead, LoopOn
<1>2. r \in Running /\ work # << >> /\ r = Head(work)
  BY <1>1, SampledRuns DEF PagedInv
<1>3. Running' = Running \ {r} /\ Running \subseteq ReqId
  BY <1>1, <1>2, RemoveFirstDistinct, QueuesDisjoint DEF PagedInv, SchedInv, TypeOK, Running
<1>4. \A q \in ReqId : q # r => seqs'[q] = seqs[q]
  BY <1>1 DEF PagedInv, SchedInv, TypeOK
<1>5. Unsampled' = Unsampled \ {r}
  BY <1>1, <1>2, TailDistinct DEF Unsampled, PagedInv, SchedInv, TypeOK
<1>6. GrowsByOne'
  BY <1>1 DEF GrowsByOne, Growing
<1>7. \A q \in Running' : Filled(q)' = Filled(q)
  BY <1>3, <1>4, <1>5 DEF Filled, TotalLen
<1> QED
  BY <1>1, <1>3, <1>4, <1>6, <1>7, PagedFreeKeeps

LEMMA PagedMakeRoomKeeps ==
  ASSUME PagedInv, SchedInv', left = << >>, UNCHANGED <<poison_on_free, left>>,
         MakeRoom, kv' = Poisoned(Victim)
  PROVE  PagedInv'
<1>1. pc = "make_room" /\ Growing /\ Head(work) \in Running /\ work # << >>
  BY DEF MakeRoom, Growing, PagedInv, SchedInv, HeadGrows
<1>2. Victim \in Running /\ Victim \in ReqId
  BY <1>1, VictimRuns, QueuesDisjoint DEF PagedInv
<1> PICK v \in ReqId : v = Victim
  BY <1>2
<1>3. /\ Free(v) /\ running' = RemoveFirst(running, v)
      /\ seqs' = [seqs EXCEPT ![v] = Preempted(@)]
      /\ \/ v = Head(work) /\ pc' = "loop" /\ work' = Tail(work)
         \/ v # Head(work) /\ pc' = "retry" /\ work' = work
  BY DEF MakeRoom, LoopOn
<1>4. v \in Running /\ kv' = Poisoned(v)
  BY <1>2
<1>5. Running' = Running \ {v} /\ Running \subseteq ReqId
  BY <1>3, <1>4, RemoveFirstDistinct, QueuesDisjoint DEF PagedInv, SchedInv, TypeOK, Running
<1>6. \A q \in ReqId : q # v => seqs'[q] = seqs[q] /\ block_tables'[q] = block_tables[q]
  <2>1. \A q \in ReqId : q # v => seqs'[q] = seqs[q]
    BY <1>3 DEF PagedInv, SchedInv, TypeOK
  <2> QED
    BY <1>3, <2>1, FreeEffect DEF PagedInv, SchedInv, TypeOK
<1>7. Unsampled' = Unsampled
  BY <1>1, <1>3 DEF Unsampled, Growing
<1>8. GrowsByOne'
  <2> SUFFICES ASSUME Growing' PROVE GrowsByOne'
    BY DEF GrowsByOne
  <2>1. v # Head(work) /\ work' = work /\ Head(work) \in ReqId
    BY <1>1, <1>3, <1>5 DEF Growing
  <2>2. /\ Len(block_tables[Head(work)]) = BlocksFor(TotalLen(Head(work)) - 1)
        /\ seqs[Head(work)].status = "DECODE"
    BY <1>1 DEF PagedInv, GrowsByOne
  <2>3. seqs'[Head(work)] = seqs[Head(work)] /\ block_tables'[Head(work)] = block_tables[Head(work)]
    BY <1>6, <2>1
  <2> QED
    BY <2>1, <2>2, <2>3 DEF GrowsByOne, BlocksFor, TotalLen
<1>9. \A q \in Running' : Filled(q)' = Filled(q)
  BY <1>5, <1>6, <1>7 DEF Filled, TotalLen
<1> QED
  BY <1>3, <1>4, <1>5, <1>6, <1>8, <1>9, PagedFreeKeeps

-----------------------------------------------------------------------------
(* One sequence's turn in forward(): its whole past is in its own blocks   *)
(* when it is done, and no other block was written.                        *)
LEMMA TurnFills ==
  ASSUME PagedInv, NEW r \in ReqId, left # << >>, r = Head(left)
  PROVE  /\ r \in Running /\ r \in ToSet(left)
         /\ \A p \in Past(r) : Written(r)[Slot(r, p)] = Own(r, p)
         /\ \A c \in Slots : c[1] \notin ToSet(block_tables[r]) => Written(r)[c] = kv[c]
<1>1. r \in Running /\ r \in ToSet(left) /\ pc = "loop"
  BY TailDistinct DEF PagedInv, LeftIsBatch
<1>2. /\ TotalLen(r) \in Nat /\ TotalLen(r) >= 1
      /\ BlockSize * Len(block_tables[r]) \in Nat
      /\ TotalLen(r) <= BlockSize * Len(block_tables[r])
  BY <1>1, FilledFits DEF PagedInv, Growing
<1>3. \A p \in Past(r) : p \in Nat /\ p < BlockSize * Len(block_tables[r])
  BY <1>2 DEF Past
<1>4. seqs[r].status # "PREFILL" => seqs[r].status = "DECODE"
  BY <1>1 DEF PagedInv, SchedInv, StatusMatchesQueue
<1>5. Positions(r) \subseteq Past(r)
  BY <1>2 DEF Positions, Past
<1>6. \A p \in Past(r) : Slot(r, p) \in Slots /\ Slot(r, p)[1] \in ToSet(block_tables[r])
  BY <1>3, SlotInTable DEF PagedInv
<1>7. \A p, n \in Past(r) : Slot(r, p) = Slot(r, n) => p = n
  BY <1>3, SlotsDiffer DEF PagedInv
<1>8. ASSUME NEW p \in Past(r) PROVE Written(r)[Slot(r, p)] = Own(r, p)
  <2> DEFINE c == Slot(r, p)
             y == CHOOSE n \in Positions(r) : Slot(r, n) = c
  <2>1. c \in Slots
    BY <1>6
  <2>2. CASE p \in Positions(r)
    <3>1. y \in Positions(r) /\ Slot(r, y) = c
      BY <2>2
    <3>2. y = p
      BY <3>1, <1>5, <1>7
    <3>3. Written(r)[c] = Own(r, y)
      BY <2>1, <2>2 DEF Written
    <3> QED
      BY <3>2, <3>3
  <2>3. CASE p \notin Positions(r)
    <3>1. ~\E n \in Positions(r) : Slot(r, n) = c
      BY <2>3, <1>5, <1>7
    <3>2. Written(r)[c] = kv[c]
      BY <2>1, <3>1 DEF Written
    <3>3. seqs[r].status = "DECODE" /\ p \in 0 .. (TotalLen(r) - 1) - 1
      BY <2>3, <1>2, <1>4 DEF Positions, Past
    <3>4. Filled(r) = TotalLen(r) - 1
      BY <3>3, <1>1 DEF Filled
    <3>5. kv[c] = Own(r, p)
      BY <3>3, <3>4, <1>1 DEF PagedInv, KVInPlace, InPlace
    <3> QED
      BY <3>2, <3>5
  <2> QED
    BY <2>2, <2>3
<1>9. ASSUME NEW c \in Slots, c[1] \notin ToSet(block_tables[r])
      PROVE  Written(r)[c] = kv[c]
  <2>1. ~\E n \in Positions(r) : Slot(r, n) = c
    BY <1>5, <1>6, <1>9
  <2> QED
    BY <2>1 DEF Written
<1> QED
  BY <1>1, <1>8, <1>9

LEMMA PagedForwardOneKeeps ==
  ASSUME PagedInv, SchedInv', ForwardOne
  PROVE  PagedInv'
<1>1. left # << >> /\ left \in Seq(ReqId) /\ IsInjective(left) /\ Head(left) \in ReqId
  BY TailDistinct DEF ForwardOne, PagedInv, LeftIsBatch
<1> PICK r \in ReqId : r = Head(left)
  BY <1>1
<1>2. /\ kv' = Written(r) /\ left' = Tail(left)
      /\ UNCHANGED <<kv_vars, running, seqs, pc, work, poison_on_free>>
      /\ Running' = Running
  BY DEF ForwardOne, vars, sched_vars, Running
<1>3. /\ r \in Running /\ r \in ToSet(left) /\ pc = "loop"
      /\ \A p \in Past(r) : kv'[Slot(r, p)] = Own(r, p)
      /\ \A c \in Slots : c[1] \notin ToSet(block_tables[r]) => kv'[c] = kv[c]
  BY <1>1, <1>2, TurnFills DEF PagedInv, LeftIsBatch
<1>4. /\ left' \in Seq(ReqId) /\ IsInjective(left')
      /\ ToSet(left') = ToSet(left) \ {r}
  BY <1>1, <1>2, TailDistinct
<1>5. LeftIsBatch'
  BY <1>2, <1>3, <1>4 DEF PagedInv, LeftIsBatch
<1>6. GrowsByOne'
  BY <1>2, <1>3 DEF GrowsByOne, Growing
<1>7. /\ Unsampled' = Unsampled /\ Running \subseteq ReqId
      /\ \A q \in ReqId : TotalLen(q)' = TotalLen(q)
  BY <1>2, QueuesDisjoint DEF Unsampled, Growing, TotalLen, PagedInv
<1>8. InPlace(r, Filled(r))'
  <2>1. Filled(r)' = TotalLen(r)
    <3>1. r \in Unsampled
      BY <1>3 DEF Unsampled, PagedInv, LeftIsBatch
    <3> QED
      BY <1>4, <1>7, <3>1 DEF Filled
  <2>2. \A p : Slot(r, p)' = Slot(r, p) /\ Own(r, p)' = Own(r, p)
    BY <1>2 DEF Slot, Own, kv_vars
  <2> QED
    BY <1>3, <2>1, <2>2 DEF InPlace, Past
<1>9. KVInPlace'
  <2> SUFFICES ASSUME NEW q \in Running', q # r
               PROVE  /\ q \in Running /\ Filled(q)' \in Nat /\ Filled(q)' <= Filled(q)
                      /\ seqs'[q].seq_no = seqs[q].seq_no
                      /\ block_tables'[q] = block_tables[q]
                      /\ \A c \in Slots : c[1] \in ToSet(block_tables[q]) => kv'[c] = kv[c]
    BY <1>8, ContentsStay
  <2>1. q \in Running /\ q \in ReqId
    BY <1>2, <1>7
  <2>2. Filled(q)' = Filled(q) /\ Filled(q) \in Nat
    BY <1>2, <1>4, <1>7, <2>1, FilledFits DEF Filled, PagedInv
  <2>3. \A c \in Slots : c[1] \in ToSet(block_tables[q]) => kv'[c] = kv[c]
    BY <1>3, <2>1, TablesApart DEF PagedInv
  <2> QED
    BY <1>2, <2>1, <2>2, <2>3 DEF kv_vars
<1>10. FreeKeepsNoKV'
  <2> SUFFICES ASSUME NEW b \in ToSet(free_blocks), NEW o \in 0 .. BlockSize - 1
               PROVE  kv'[<<b, o>>] = kv[<<b, o>>]
    BY <1>2, FreeStaysClean DEF kv_vars
  <2>1. <<b, o>> \in Slots /\ <<b, o>>[1] = b
    <3>1. b \in BlockId
      BY ToSetOfSeq DEF PagedInv, SchedInv, TypeOK, KVTypeOK
    <3> QED
      BY <3>1 DEF Slots
  <2>2. b \notin ToSet(block_tables[r])
    BY DEF PagedInv, SchedInv, BlockConservation, FreeOrHeld
  <2> QED
    BY <1>3, <2>1, <2>2
<1> QED
  BY <1>2, <1>5, <1>6, <1>9, <1>10 DEF PagedInv

-----------------------------------------------------------------------------
LEMMA PagedStepsAreSteps ==
  ASSUME PagedNext
  PROVE  [Next]_vars
<1>1. CASE ForwardBegins \/ ForwardOne
  BY <1>1 DEF ForwardBegins, ForwardOne, Next, Step
<1>2. CASE FreeingStep
  BY <1>2 DEF FreeingStep, Next, Step, Sample
<1>3. CASE OtherStep
  BY <1>3 DEF OtherStep, Next, Step, Sample
<1> QED
  BY <1>1, <1>2, <1>3 DEF PagedNext

LEMMA PagedInvHolds == PagedSpec => []PagedInv
<1>1. PagedInit => PagedInv
  <2> SUFFICES ASSUME PagedInit PROVE PagedInv
    OBVIOUS
  <2>1. SchedInv
    BY InitInv DEF PagedInit
  <2>2. LeftIsBatch
    BY DEF PagedInit, LeftIsBatch, IsInjective, ToSet
  <2>3. GrowsByOne /\ KVInPlace
    BY DEF PagedInit, Init, GrowsByOne, Growing, KVInPlace, Running, ToSet
  <2>4. poison_on_free \in BOOLEAN /\ FreeKeepsNoKV
    <3> SUFFICES ASSUME NEW b \in ToSet(free_blocks), NEW o \in 0 .. BlockSize - 1
                 PROVE  kv[<<b, o>>] \in {Zeros, NaN}
      BY DEF PagedInit, FreeKeepsNoKV
    <3>1. b \in BlockId
      BY <2>1, ToSetOfSeq DEF SchedInv, TypeOK, KVTypeOK
    <3>2. <<b, o>> \in Slots
      BY <3>1 DEF Slots
    <3> QED
      BY <3>2 DEF PagedInit
  <2> QED
    BY <2>1, <2>2, <2>3, <2>4 DEF PagedInv
<1>2. PagedInv /\ [PagedNext]_paged_vars => PagedInv'
  <2> SUFFICES ASSUME PagedInv, [PagedNext]_paged_vars PROVE PagedInv'
    OBVIOUS
  <2>1. SchedInv'
    BY PagedStepsAreSteps, NextKeepsInv DEF PagedInv, paged_vars
  <2>2. CASE UNCHANGED paged_vars
    <3>1. UNCHANGED <<free_blocks, block_tables, running, seqs, pc, work, kv, left, poison_on_free>>
      BY <2>2 DEF paged_vars, vars, kv_vars, sched_vars
    <3>2. LeftIsBatch' /\ GrowsByOne'
      BY <3>1 DEF PagedInv, LeftIsBatch, GrowsByOne, Growing, Running, BlocksFor, TotalLen
    <3>3. Running' = Running /\ \A q \in Running : Filled(q)' = Filled(q)
      BY <3>1 DEF Running, Filled, Unsampled, Growing, TotalLen
    <3> QED
      BY <2>1, <3>1, <3>2, <3>3, QuietKeeps DEF kv_vars
  <2>3. CASE ForwardBegins
    <3>1. left = << >>
      BY <2>3 DEF ForwardBegins, Forward, PagedInv, LeftIsBatch
    <3> QED
      BY <2>1, <2>3, <3>1, PagedForwardBeginsKeeps
  <2>4. CASE ForwardOne
    BY <2>1, <2>4, PagedForwardOneKeeps
  <2>5. CASE left = << >> /\ FreeingStep /\ UNCHANGED <<poison_on_free, left>>
    BY <2>1, <2>5, PagedSampleLastKeeps, PagedMakeRoomKeeps DEF FreeingStep
  <2>6. CASE left = << >> /\ OtherStep /\ UNCHANGED <<poison_on_free, left>>
    <3> USE <2>1, <2>6
    <3>1. UNCHANGED kv
      BY DEF OtherStep
    <3>2. CASE \E r \in ReqId, p \in PromptLens, m \in TokenLimits : Submit(r, p, m)
      BY <3>1, <3>2, PagedSubmitKeeps
    <3>3. CASE StepBegins \/ CloseAdmission \/ StepEnds
      BY <3>1, <3>3, PagedBracketsKeep
    <3>4. CASE AdmitHead
      BY <3>1, <3>4, PagedAdmitKeeps
    <3>5. CASE \E r \in ReqId : SkipPreempted(r)
      BY <3>1, <3>5, PagedSkipKeeps
    <3>6. CASE \E r \in ReqId, eos \in BOOLEAN : SampleNext(r, eos)
      BY <3>1, <3>6, PagedSampleNextKeeps
    <3>7. CASE Grow \/ Retry
      BY <3>1, <3>7, PagedGrowKeeps
    <3> QED
      BY <3>2, <3>3, <3>4, <3>5, <3>6, <3>7 DEF OtherStep
  <2> QED
    BY <2>2, <2>3, <2>4, <2>5, <2>6 DEF PagedNext
<1> QED
  BY <1>1, <1>2, PTL DEF PagedSpec

(***************************************************************************)
(* A decoding request has its past in its own blocks but for the newest    *)
(* position, whatever was admitted, preempted, grown or freed around it.   *)
(***************************************************************************)
THEOREM DecodePastInPlace == PagedSpec => []PastIsInPlace
<1>1. PagedInv => PastIsInPlace
  <2> SUFFICES ASSUME PagedInv, NEW r \in Running, seqs[r].status = "DECODE",
                      NEW p \in 0 .. TotalLen(r) - 2
               PROVE  kv[Slot(r, p)] = Own(r, p)
    BY DEF PastIsInPlace
  <2>1. TotalLen(r) \in Nat
    BY FilledFits DEF PagedInv
  <2>2. p \in 0 .. Filled(r) - 1
    BY <2>1 DEF Filled
  <2> QED
    BY <2>2 DEF PagedInv, KVInPlace, InPlace
<1> QED
  BY <1>1, PagedInvHolds, PTL

(***************************************************************************)
(* With poisoning on, a block on the free list holds nobody's KV.          *)
(***************************************************************************)
THEOREM FreedIsPoisoned == PagedSpec => []FreeKeepsNoKV
<1>1. PagedInv => FreeKeepsNoKV
  BY DEF PagedInv
<1> QED
  BY <1>1, PagedInvHolds, PTL

(***************************************************************************)
(* Write-before-read: in its turn of forward() every request attends to    *)
(* the KV of its own positions and nothing else, for every batch, block    *)
(* size and history of preemptions, and with or without poisoning.         *)
(***************************************************************************)
THEOREM AttentionSeesOwnKV == PagedSpec => GathersOwnKV
<1>1. PagedInv /\ [PagedNext]_paged_vars =>
        [\A r \in ReqId : left # left' /\ left # << >> /\ r = Head(left)
           => Gathered(r, kv') = [p \in Past(r) |-> Own(r, p)]]_paged_vars
  <2> SUFFICES ASSUME PagedInv, PagedNext, NEW r \in ReqId,
                      left # left', left # << >>, r = Head(left)
               PROVE  Gathered(r, kv') = [p \in Past(r) |-> Own(r, p)]
    OBVIOUS
  <2>1. ForwardOne
    BY DEF PagedNext, ForwardBegins, Forward, PagedInv, LeftIsBatch
  <2>2. \A p \in Past(r) : kv'[Slot(r, p)] = Own(r, p)
    BY <2>1, TurnFills DEF ForwardOne
  <2> QED
    BY <2>2 DEF Gathered
<1> QED
  BY <1>1, PagedInvHolds, PTL DEF PagedSpec, GathersOwnKV

(***************************************************************************)
(* forward() and the poisoning are invisible to the scheduler: what is     *)
(* proved of it holds of the scheduler that runs the model.                *)
(***************************************************************************)
THEOREM PagedRunsTheScheduler == PagedSpec => Spec
<1>1. PagedInit => Init
  BY DEF PagedInit
<1>2. [PagedNext]_paged_vars => [Next]_vars
  BY PagedStepsAreSteps DEF paged_vars
<1> QED
  BY <1>1, <1>2, PTL DEF PagedSpec, Spec
===============================================================================
