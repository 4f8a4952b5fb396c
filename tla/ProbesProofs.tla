----------------------------- MODULE ProbesProofs -----------------------------
(***************************************************************************)
(* The measuring loops of bench/ and smoke.py measure what their figures   *)
(* are filed under, for every choice of prompt lengths, contexts, batch    *)
(* and steps, every block size and every limit on the batch that lets the  *)
(* probe's own requests run together.                                      *)
(*                                                                         *)
(* The argument: what a probe asks of its cache has room for all its       *)
(* requests at their longest (Roomy), so the next step admits whatever     *)
(* waits and nothing is ever preempted; then every live request gets one   *)
(* token per step and its output is as long as the steps since it came     *)
(* (Paced); and where the script stands tells how many steps were run and  *)
(* how many requests came (Clock), so the partition of a step is known     *)
(* before it runs (StepIs).                                                *)
(***************************************************************************)
EXTENDS MetricsProofs

Probing == mode # "server"

(* Commands carried out; those that are left are the rest of the script. *)
Done == Len(Script(mode)) - Len(script)

ScriptLeft ==
  /\ Done >= 0
  /\ \A i \in 1 .. Len(script) : script[i] = Script(mode)[Done + i]

(* The lengths the prefill probe runs, the warm-up first. *)
Lens == <<Longest>> \o Lengths

-----------------------------------------------------------------------------
(* Every live request is one of the script's. *)
Asked ==
  \A r \in Live :
    LET s == seqs[r]
    IN  /\ mode = "prefill" =>
             s.seq_no < Len(Lens) /\ s.prompt = Lens[s.seq_no + 1] /\ s.max_tokens = 1
        /\ mode = "decode" => s.prompt = DecodePrompt /\ s.max_tokens = DecodeTokens
        /\ mode = "mixed" =>
             \/ s.seq_no = 0 /\ s.prompt = Context /\ s.max_tokens = 64
             \/ s.seq_no = 1 /\ s.prompt = Joining /\ s.max_tokens = 8
        /\ mode = "smoke" => s.prompt = 17 /\ s.max_tokens = 3

Numbered == \A r, q \in Live : seqs[r].seq_no = seqs[q].seq_no => r = q

(* The step at which a request joined: all at once, or one more each time. *)
JoinedAt(r) == IF mode \in {"prefill", "mixed"} THEN seqs[r].seq_no ELSE 0

(* One token for every live request in every step since. *)
Paced ==
  \A r \in Live :
    seqs[r].outputs = steps.total - JoinedAt(r) + IF Serving /\ r \notin ToCome THEN 1 ELSE 0

NeverPreempted ==
  /\ pc \notin {"make_room", "retry"}
  /\ preemptions_total = 0
  /\ \A r \in Live : ~seqs[r].preempted

(* A step has something to run, and it runs everything there is. *)
AllJoin ==
  /\ pc \in {"admit", "forward"} => Live # {}
  /\ pc = "forward" \/ Serving => waiting = << >>

(* Whatever is live has room, and one token more, next to all others. *)
Roomy ==
  \E b \in 1 .. MaxBatch, m \in Nat :
    /\ b * m <= NumBlocks /\ Cardinality(Live) <= b
    /\ \A r \in Live : BlocksFor(TotalLen(r) + 1) <= m

-----------------------------------------------------------------------------
(* How many steps were run and how many requests came, by script position. *)
PrefillClock ==
  /\ seq_counter <= Len(Lens)
  /\ \/ pc = "idle" /\ Done = 2 * seq_counter /\ steps.total = seq_counter
     \/ /\ seq_counter >= 1 /\ Done = 2 * seq_counter - 1
        /\ \/ steps.total = seq_counter - 1 /\ (Serving \/ Live # {})
           \/ steps.total = seq_counter /\ pc = "idle"

DecodeClock ==
  \/ pc = "idle" /\ Done = seq_counter /\ seq_counter <= Batch /\ steps.total = 0
  \/ /\ seq_counter = Batch
     /\ \/ Done = Batch /\ steps.total = 0
        \/ Done = Batch /\ steps.total = 1 /\ pc = "idle"
        \/ Done \in Batch + 1 .. Batch + 1 + K /\ steps.total = Done - Batch /\ pc = "idle"
        \/ Done \in Batch + 2 .. Batch + 1 + K /\ steps.total = Done - Batch - 1 /\ pc # "idle"
        \/ Done = Batch + K + 2 /\ steps.total = K + 1 /\ pc = "idle"

MixedClock ==
  \/ pc = "idle" /\ Done = 0 /\ seq_counter = 0 /\ steps.total = 0
  \/ /\ seq_counter = 1
     /\ \/ Done = 1 /\ steps.total = 0
        \/ Done \in {1, 2} /\ steps.total = 1 /\ pc = "idle"
  \/ /\ seq_counter = 2
     /\ \/ Done \in 3 .. 7 /\ steps.total = Done - 2 /\ pc = "idle"
        \/ Done \in 4 .. 7 /\ steps.total = Done - 3 /\ pc # "idle"

SmokeClock ==
  \/ Done \in {0, 1} /\ seq_counter = Done /\ steps.total = 0 /\ pc = "idle"
  \/ /\ Done = 2 /\ seq_counter = 1
     /\ label # Unlabelled => steps.total = IF pc = "idle" THEN 1 ELSE 0
  \/ Done = 3 /\ seq_counter = 1 /\ pc = "idle" /\ Live = {}

Clock ==
  /\ mode = "prefill" => PrefillClock
  /\ mode = "decode" => DecodeClock
  /\ mode = "mixed" => MixedClock
  /\ mode = "smoke" => SmokeClock

(* Before its last token nobody is done, and a mixed cell never gets there. *)
Early ==
  \/ mode = "decode" /\ (steps.total < K \/ (steps.total = K /\ ~Serving))
  \/ mode = "mixed"
  \/ mode = "smoke" /\ steps.total < 2

NobodyDone == Early => requests = << >> /\ retiring = << >>

(* The record of step number t, which is t + 1 to whoever counts from 1. *)
StepIs(t, p) ==
  /\ p.recompute = 0
  /\ mode = "prefill" =>
       t < Len(Lens) /\ p = [NoWork EXCEPT !.n_prefill = 1, !.fresh = Lens[t + 1]]
  /\ mode = "decode" /\ t >= 1 => p = [NoWork EXCEPT !.n_decode = Batch]
  /\ mode = "mixed" /\ t = 1 =>
       p = [n_prefill |-> 1, n_decode |-> 1, fresh |-> Joining, recompute |-> 0]
  /\ mode = "mixed" /\ t >= 2 => p = [NoWork EXCEPT !.n_decode = 2]

StepsKnown ==
  /\ Serving => StepIs(steps.total, partition)
  /\ IF steps.total = 0 THEN steps.last = NoWork ELSE StepIs(steps.total - 1, steps.last)

(* The command whose record is about to be read, or was. *)
LabelKnown ==
  LET command == label.command
      name == label.command.label
  IN  label # Unlabelled =>
        /\ mode = "prefill" => /\ name = "prefill" /\ command.len = Lens[steps.total]
                               /\ steps.total >= 1 /\ pc = "idle"
        /\ mode = "decode" => /\ name = "decode" /\ Done \in Batch + 2 .. Batch + K + 1
                              /\ label.before = Done - Batch - 1
                              /\ label.contexts = {command.context}
        /\ mode = "mixed" => /\ name = IF Done = 4 THEN "joins" ELSE "together"
                             /\ Done \in 4 .. 7 /\ label.before = Done - 3
        /\ mode = "smoke" => \/ Done = 2 /\ name = "first" /\ label.before = 0
                             \/ Done = 3 /\ name = "smoke"

(* The server reads no record. *)
ServerReadsNothing == mode = "server" => script = << >> /\ label = Unlabelled

PaceInv == Numbered /\ Paced /\ NeverPreempted /\ AllJoin

PlanInv == Asked /\ Clock /\ NobodyDone /\ StepsKnown /\ LabelKnown

ProbeInv ==
  /\ mode \in Modes /\ ScriptInv /\ ServerReadsNothing
  /\ Probing => ScriptLeft /\ PaceInv /\ PlanInv

-----------------------------------------------------------------------------
(***************************************************************************)
(* Room: blocks are counted by the requests that hold them.                *)
(***************************************************************************)
Held(S) == UNION {ToSet(block_tables[r]) : r \in S}

(* A sequence has at most as many elements as positions. *)
LEMMA FewerElements ==
  ASSUME NEW S, NEW s \in Seq(S)
  PROVE  IsFiniteSet(ToSet(s)) /\ Cardinality(ToSet(s)) \in Nat /\ Cardinality(ToSet(s)) <= Len(s)
<1>1. Len(s) \in Nat
  OBVIOUS
<1>2. IsFiniteSet(1 .. Len(s)) /\ Cardinality(1 .. Len(s)) <= Len(s)
  BY <1>1, FS_Interval
<1>3. s \in Surjection(1 .. Len(s), ToSet(s))
  BY InToSet DEF Surjection
<1>4. IsFiniteSet(ToSet(s)) /\ Cardinality(ToSet(s)) <= Cardinality(1 .. Len(s))
  BY <1>2, <1>3, FS_Surjection
<1> QED
  BY <1>1, <1>2, <1>4, FS_CardinalityType

(* ... and exactly as many when they differ. *)
LEMMA DistinctElements ==
  ASSUME NEW S, NEW s \in Seq(S), IsInjective(s)
  PROVE  IsFiniteSet(ToSet(s)) /\ Cardinality(ToSet(s)) = Len(s)
<1>1. Len(s) \in Nat
  OBVIOUS
<1>2. IsFiniteSet(1 .. Len(s)) /\ Cardinality(1 .. Len(s)) = Len(s)
  BY <1>1, FS_Interval
<1>3. s \in Surjection(1 .. Len(s), ToSet(s)) /\ s \in Injection(1 .. Len(s), ToSet(s))
  BY InToSet, InjectiveSeq DEF Surjection, Injection
<1> QED
  BY <1>2, <1>3, FS_Surjection

LEMMA TwoSets ==
  ASSUME NEW A, NEW B, IsFiniteSet(A), IsFiniteSet(B)
  PROVE  /\ IsFiniteSet(A \cup B) /\ Cardinality(A \cup B) \in Nat
         /\ Cardinality(A) \in Nat /\ Cardinality(B) \in Nat
         /\ Cardinality(A \cup B) <= Cardinality(A) + Cardinality(B)
<1>1. IsFiniteSet(A \cap B) /\ Cardinality(A \cap B) \in Nat
  BY FS_Intersection, FS_CardinalityType
<1>2. IsFiniteSet(A \cup B) /\ Cardinality(A \cup B)
        = Cardinality(A) + Cardinality(B) - Cardinality(A \cap B)
  BY FS_Union
<1> QED
  BY <1>1, <1>2, FS_CardinalityType

(* Requests with at most m blocks each hold at most m times their number. *)
LEMMA HeldBound ==
  ASSUME KVTypeOK, NEW S \in SUBSET ReqId, IsFiniteSet(S), NEW m \in Nat,
         \A r \in S : Len(block_tables[r]) <= m
  PROVE  /\ IsFiniteSet(Held(S)) /\ Cardinality(Held(S)) \in Nat
         /\ Cardinality(S) \in Nat /\ Cardinality(Held(S)) <= Cardinality(S) * m
<1> DEFINE P == {s \in SUBSET S : /\ IsFiniteSet(s) /\ IsFiniteSet(Held(s))
                                  /\ Cardinality(Held(s)) <= Cardinality(s) * m}
<1>1. {} \in P
  <2>1. Held({}) = {}
    BY DEF Held
  <2>2. 0 <= 0 * m
    OBVIOUS
  <2> QED
    BY <2>1, <2>2, FS_EmptySet
<1>2. ASSUME NEW s \in SUBSET S, NEW x \in S, s \in P, x \notin s
      PROVE  s \cup {x} \in P
  <2> DEFINE t == ToSet(block_tables[x])
  <2>1. Held(s \cup {x}) = Held(s) \cup t
    BY DEF Held
  <2>2. IsFiniteSet(t) /\ Cardinality(t) \in Nat /\ Cardinality(t) <= m
    <3>1. block_tables[x] \in Seq(BlockId) /\ Len(block_tables[x]) \in Nat
      BY DEF KVTypeOK
    <3> QED
      BY <3>1, FewerElements
  <2> HIDE DEF t
  <2>3. IsFiniteSet(s \cup {x}) /\ Cardinality(s \cup {x}) = Cardinality(s) + 1
    BY <1>2, FS_AddElement
  <2>4. /\ IsFiniteSet(Held(s)) /\ IsFiniteSet(s)
        /\ Cardinality(Held(s)) <= Cardinality(s) * m /\ Cardinality(s) \in Nat
    BY <1>2, FS_CardinalityType
  <2>5. /\ IsFiniteSet(Held(s) \cup t) /\ Cardinality(Held(s) \cup t) \in Nat
        /\ Cardinality(Held(s)) \in Nat
        /\ Cardinality(Held(s) \cup t) <= Cardinality(Held(s)) + Cardinality(t)
    BY <2>2, <2>4, TwoSets
  <2>6. \A a, b, c, n, u \in Nat : a <= n * u /\ b <= u /\ c <= a + b => c <= (n + 1) * u
    <3> SUFFICES ASSUME NEW a \in Nat, NEW b \in Nat, NEW c \in Nat, NEW n \in Nat, NEW u \in Nat,
                        a <= n * u, b <= u, c <= a + b
                 PROVE  c <= (n + 1) * u
      OBVIOUS
    <3>1. (n + 1) * u = n * u + u /\ n * u \in Nat
      OBVIOUS
    <3> QED
      BY <3>1
  <2>7. Cardinality(Held(s) \cup t) <= (Cardinality(s) + 1) * m
    BY <2>2, <2>4, <2>5, <2>6
  <2> QED
    BY <2>1, <2>3, <2>5, <2>7
<1>3. S \in P
  <2> HIDE DEF P
  <2> QED
    BY <1>1, <1>2, SetInduction
<1> QED
  BY <1>3, FS_CardinalityType

(* What is not held by a running request is on the free list. *)
LEMMA FreeOrRunning ==
  ASSUME SchedInv, IsFiniteSet(Held(Running))
  PROVE  free_count \in Nat /\ NumBlocks <= free_count + Cardinality(Held(Running))
<1>1. KVTypeOK /\ NoneLost /\ \A r \in ReqId : r \in Running \/ block_tables[r] = << >>
  BY DEF SchedInv, TypeOK, BlockConservation, TablesMatchRunning, HasTable
<1>2. /\ IsFiniteSet(ToSet(free_blocks)) /\ Cardinality(ToSet(free_blocks)) \in Nat
      /\ free_count \in Nat /\ Cardinality(ToSet(free_blocks)) <= free_count
  <2>1. free_blocks \in Seq(BlockId)
    BY <1>1 DEF KVTypeOK
  <2> QED
    BY <2>1, FewerElements DEF free_count
<1>3. BlockId \subseteq ToSet(free_blocks) \cup Held(Running)
  <2>1. ToSet(<< >>) = {}
    BY DEF ToSet
  <2> QED
    BY <1>1, <2>1 DEF NoneLost, Held
<1>4. IsFiniteSet(BlockId) /\ Cardinality(BlockId) = NumBlocks
  <2>1. 0 \in Int /\ NumBlocks - 1 \in Int
    BY NumBlocksAssumption
  <2>2. /\ IsFiniteSet(BlockId)
        /\ Cardinality(BlockId) = IF 0 > NumBlocks - 1 THEN 0 ELSE NumBlocks - 1 - 0 + 1
    BY <2>1, FS_Interval DEF BlockId
  <2> QED
    BY <2>2, NumBlocksAssumption
<1> DEFINE all == ToSet(free_blocks) \cup Held(Running)
<1>5. /\ IsFiniteSet(all) /\ Cardinality(all) \in Nat /\ Cardinality(Held(Running)) \in Nat
      /\ Cardinality(all) <= Cardinality(ToSet(free_blocks)) + Cardinality(Held(Running))
  BY <1>2, TwoSets
<1>6. Cardinality(BlockId) <= Cardinality(all)
  <2>1. BlockId \in SUBSET all
    BY <1>3
  <2> QED
    BY <1>5, <2>1, FS_Subset
<1> HIDE DEF all
<1> QED
  BY <1>2, <1>4, <1>5, <1>6, NumBlocksAssumption

LEMMA RunningRoom ==
  ASSUME SchedInv, NEW m \in Nat, \A r \in Live : BlocksFor(TotalLen(r) + 1) <= m
  PROVE  /\ IsFiniteSet(Live) /\ IsFiniteSet(Running) /\ Cardinality(Live) \in Nat
         /\ Cardinality(Running) = Len(running) /\ Len(running) \in Nat
         /\ \A r \in Running : /\ Len(block_tables[r]) \in Nat
                               /\ Len(block_tables[r]) <= m - Owed(r)
<1>1. /\ running \in Seq(ReqId) /\ IsInjective(running) /\ waiting \in Seq(ReqId)
      /\ KVTypeOK /\ TablesFit
  BY DEF SchedInv, TypeOK
<1>2. IsFiniteSet(Running) /\ Cardinality(Running) = Len(running) /\ Len(running) \in Nat
  BY <1>1, DistinctElements DEF Running
<1>3. IsFiniteSet(Live) /\ Cardinality(Live) \in Nat
  BY <1>1, <1>2, FiniteToSet, FS_Union, FS_CardinalityType DEF Live, Waiting
<1>4. ASSUME NEW r \in Running
      PROVE  Len(block_tables[r]) \in Nat /\ Len(block_tables[r]) <= m - Owed(r)
  <2>1. r \in ReqId /\ r \in Live /\ TotalLen(r) \in Nat
    BY LiveAreIds DEF Live, TotalLen
  <2>2. BlocksFor(TotalLen(r)) \in Nat /\ BlocksFor(TotalLen(r) + 1) \in Nat
        /\ BlocksFor(TotalLen(r)) <= BlocksFor(TotalLen(r) + 1)
    BY <2>1, BlocksForMonotone
  <2>3. Len(block_tables[r]) = BlocksFor(TotalLen(r)) - Owed(r) /\ Owed(r) \in {0, 1}
    BY <1>1 DEF TablesFit, Owed
  <2>4. Len(block_tables[r]) \in Nat
    BY <1>1, <2>1 DEF KVTypeOK
  <2>5. BlocksFor(TotalLen(r) + 1) <= m
    BY <2>1
  <2> QED
    BY <2>2, <2>3, <2>4, <2>5
<1> QED
  BY <1>2, <1>3, <1>4

(* Whoever waits at admission has a slot in the batch and its blocks. *)
LEMMA RoomToAdmit ==
  ASSUME SchedInv, Roomy, pc = "admit", waiting # << >>
  PROVE  CanAdmit
<1> DEFINE h == Head(waiting)
<1>1. PICK b \in 1 .. MaxBatch, m \in Nat :
        /\ b * m <= NumBlocks /\ Cardinality(Live) <= b
        /\ \A r \in Live : BlocksFor(TotalLen(r) + 1) <= m
  BY DEF Roomy
<1>2. /\ IsFiniteSet(Live) /\ IsFiniteSet(Running) /\ Cardinality(Live) \in Nat
      /\ Cardinality(Running) = Len(running) /\ Len(running) \in Nat
      /\ \A r \in Running : /\ Len(block_tables[r]) \in Nat
                            /\ Len(block_tables[r]) <= m - Owed(r)
  BY <1>1, RunningRoom
<1>3. h \in Waiting /\ h \in Live /\ h \notin Running
  <2>1. waiting \in Seq(ReqId) /\ IsInjective(waiting)
    BY DEF SchedInv, TypeOK
  <2>2. h \in ToSet(waiting)
    BY <2>1, TailDistinct
  <2> QED
    BY <2>2, QueuesDisjoint DEF Waiting, Live
<1>4. TotalLen(h) \in Nat
  BY <1>3, LiveAreIds DEF TotalLen
<1> HIDE DEF h
<1>5. Len(running) + 1 <= b
  <2>1. Running \cup {h} \in SUBSET Live
    BY <1>3 DEF Live
  <2>2. Cardinality(Running \cup {h}) = Cardinality(Running) + 1
    BY <1>2, <1>3, FS_AddElement
  <2>3. Cardinality(Running \cup {h}) <= Cardinality(Live)
    BY <1>2, <2>1, FS_Subset
  <2> QED
    BY <1>1, <1>2, <2>2, <2>3
<1>6. \A r \in Running : Len(block_tables[r]) <= m
  <2>1. \A r \in Running : Owed(r) = 0
    BY DEF Owed, Growing
  <2> SUFFICES ASSUME NEW r \in Running PROVE Len(block_tables[r]) <= m
    OBVIOUS
  <2>2. Len(block_tables[r]) <= m - Owed(r) /\ Owed(r) = 0
    BY <1>2, <2>1
  <2> QED
    BY <2>2
<1>7. /\ IsFiniteSet(Held(Running)) /\ Cardinality(Held(Running)) \in Nat
      /\ Cardinality(Held(Running)) <= Len(running) * m
  <2>1. Running \in SUBSET ReqId /\ KVTypeOK
    BY LiveAreIds DEF SchedInv, TypeOK
  <2> QED
    BY <1>2, <1>6, <2>1, HeldBound
<1>8. free_count \in Nat /\ NumBlocks <= free_count + Cardinality(Held(Running))
  BY <1>7, FreeOrRunning
<1>9. BlocksFor(TotalLen(h) + 1) <= m /\ BlocksFor(TotalLen(h) + 1) \in Nat
  <2>1. TotalLen(h) + 1 \in Nat
    BY <1>4
  <2> QED
    BY <1>1, <1>3, <2>1, BlocksForMonotone
<1>10. \A f, c, n, k, u, w \in Nat : /\ w * u <= n /\ n <= f + c /\ c <= k * u /\ k + 1 <= w
                                     => u <= f
  <2> SUFFICES ASSUME NEW f \in Nat, NEW c \in Nat, NEW n \in Nat, NEW k \in Nat,
                      NEW u \in Nat, NEW w \in Nat,
                      w * u <= n, n <= f + c, c <= k * u, k + 1 <= w
               PROVE  u <= f
    OBVIOUS
  <2>1. PICK d \in Nat : w = k + 1 + d
    <3>1. w - k - 1 \in Nat /\ w = k + 1 + (w - k - 1)
      OBVIOUS
    <3> QED
      BY <3>1
  <2>2. w * u = k * u + u + d * u
    BY <2>1
  <2>3. d * u \in Nat /\ k * u \in Nat
    OBVIOUS
  <2> QED
    BY <2>2, <2>3
<1>11. b \in Nat
  BY SchedulerAssumption
<1>12. m <= free_count
  BY <1>1, <1>2, <1>5, <1>7, <1>8, <1>10, <1>11, NumBlocksAssumption
<1>13. free_count >= Headroom(h)
  BY <1>8, <1>9, <1>12 DEF Headroom
<1>14. Len(running) < MaxBatch
  BY <1>2, <1>5, SchedulerAssumption
<1> QED
  BY <1>13, <1>14 DEF CanAdmit, h

(* Whoever outgrows its table gets a block at once. *)
LEMMA RoomToGrow ==
  ASSUME SchedInv, Roomy, pc = "grow"
  PROVE  free_count > 0
<1> DEFINE h == Head(work)
           others == Running \ {h}
           t == ToSet(block_tables[h])
<1>1. PICK b \in 1 .. MaxBatch, m \in Nat :
        /\ b * m <= NumBlocks /\ Cardinality(Live) <= b
        /\ \A r \in Live : BlocksFor(TotalLen(r) + 1) <= m
  BY DEF Roomy
<1>2. /\ IsFiniteSet(Live) /\ IsFiniteSet(Running) /\ Cardinality(Live) \in Nat
      /\ Cardinality(Running) = Len(running) /\ Len(running) \in Nat
      /\ \A r \in Running : /\ Len(block_tables[r]) \in Nat
                            /\ Len(block_tables[r]) <= m - Owed(r)
  BY <1>1, RunningRoom
<1>3. h \in Running /\ Owed(h) = 1 /\ \A r \in others : Owed(r) = 0
  BY DEF SchedInv, HeadGrows, Growing, Owed
<1>4. KVTypeOK /\ h \in ReqId /\ others \in SUBSET ReqId
  BY <1>3, LiveAreIds DEF SchedInv, TypeOK
<1>5. /\ IsFiniteSet(t) /\ Cardinality(t) \in Nat /\ Cardinality(t) <= Len(block_tables[h])
      /\ Len(block_tables[h]) \in Nat
  <2>1. block_tables[h] \in Seq(BlockId)
    BY <1>4 DEF KVTypeOK
  <2> QED
    BY <2>1, FewerElements
<1>6. Cardinality(t) + 1 <= m
  <2>1. Len(block_tables[h]) <= m - 1
    BY <1>2, <1>3
  <2> QED
    BY <1>5, <2>1
<1>7. /\ IsFiniteSet(others) /\ Cardinality(others) \in Nat
      /\ Cardinality(others) + 1 = Cardinality(Running)
      /\ Cardinality(Running) <= Cardinality(Live)
  <2>1. IsFiniteSet(others) /\ Cardinality(others) = Cardinality(Running) - 1
    BY <1>2, <1>3, FS_RemoveElement
  <2>2. Running \in SUBSET Live
    BY DEF Live
  <2> QED
    BY <1>2, <2>1, <2>2, FS_Subset, FS_CardinalityType
<1>8. \A r \in others : Len(block_tables[r]) <= m
  <2> SUFFICES ASSUME NEW r \in others PROVE Len(block_tables[r]) <= m
    OBVIOUS
  <2>1. Len(block_tables[r]) <= m - Owed(r) /\ Owed(r) = 0
    BY <1>2, <1>3
  <2> QED
    BY <2>1
<1>9. Held(Running) = Held(others) \cup t
  BY <1>3 DEF Held
<1> HIDE DEF others, t
<1>10. /\ IsFiniteSet(Held(others)) /\ Cardinality(Held(others)) \in Nat
       /\ Cardinality(Held(others)) <= Cardinality(others) * m
  BY <1>4, <1>7, <1>8, HeldBound
<1>11. /\ IsFiniteSet(Held(Running)) /\ Cardinality(Held(Running)) \in Nat
       /\ Cardinality(Held(Running)) <= Cardinality(Held(others)) + Cardinality(t)
  BY <1>5, <1>9, <1>10, TwoSets
<1>12. free_count \in Nat /\ NumBlocks <= free_count + Cardinality(Held(Running))
  BY <1>11, FreeOrRunning
<1>13. \A f, c, n, a, k, u, w, x \in Nat :
         /\ w * u <= n /\ n <= f + c /\ c <= a + x /\ a <= k * u /\ x + 1 <= u /\ k + 1 <= w
         => f >= 1
  <2> SUFFICES ASSUME NEW f \in Nat, NEW c \in Nat, NEW n \in Nat, NEW a \in Nat,
                      NEW k \in Nat, NEW u \in Nat, NEW w \in Nat, NEW x \in Nat,
                      w * u <= n, n <= f + c, c <= a + x, a <= k * u, x + 1 <= u, k + 1 <= w
               PROVE  f >= 1
    OBVIOUS
  <2>1. PICK d \in Nat : w = k + 1 + d
    <3>1. w - k - 1 \in Nat /\ w = k + 1 + (w - k - 1)
      OBVIOUS
    <3> QED
      BY <3>1
  <2>2. w * u = k * u + u + d * u
    BY <2>1
  <2>3. d * u \in Nat /\ k * u \in Nat
    OBVIOUS
  <2> QED
    BY <2>2, <2>3
<1>14. b \in Nat /\ Cardinality(others) + 1 <= b
  BY <1>1, <1>2, <1>7, SchedulerAssumption
<1>15. free_count >= 1
  <2> DEFINE c == Cardinality(Held(Running))
             a == Cardinality(Held(others))
             k == Cardinality(others)
             x == Cardinality(t)
  <2>1. c \in Nat /\ a \in Nat /\ k \in Nat /\ x \in Nat /\ free_count \in Nat /\ NumBlocks \in Nat
    BY <1>5, <1>7, <1>10, <1>11, <1>12, NumBlocksAssumption
  <2>2. /\ b * m <= NumBlocks /\ NumBlocks <= free_count + c /\ c <= a + x /\ a <= k * m
        /\ x + 1 <= m /\ k + 1 <= b
    BY <1>1, <1>6, <1>10, <1>11, <1>12, <1>14
  <2> HIDE DEF c, a, k, x
  <2> QED
    BY <1>13, <1>14, <2>1, <2>2
<1> QED
  BY <1>12, <1>15

-----------------------------------------------------------------------------
(***************************************************************************)
(* Pace: with room a step runs everything, preempts nothing and gives each *)
(* live request one token.                                                 *)
(***************************************************************************)
SameRequest(q) ==
  /\ seqs'[q].prompt = seqs[q].prompt /\ seqs'[q].max_tokens = seqs[q].max_tokens
  /\ seqs'[q].seq_no = seqs[q].seq_no

(* step() never touches what the caller asked for. *)
LEMMA RequestsKept ==
  ASSUME SchedInv, OrderInv, StepGoesOn
  PROVE  \A q \in ReqId : SameRequest(q)
<1>0. \A q \in ReqId : seqs[q] \in SeqRecord
  BY LiveAreIds
<1>1. CASE UNCHANGED seqs
  BY <1>1 DEF SameRequest
<1>2. CASE AdmitHead
  <2> DEFINE r == Head(waiting)
  <2>1. seqs' = [seqs EXCEPT ![r].status = "PREFILL"] /\ waiting # << >>
    BY <1>2 DEF AdmitHead, CanAdmit, SetStatus
  <2>2. r \in ReqId
    BY <2>1, TailDistinct DEF SchedInv, TypeOK
  <2> HIDE DEF r
  <2>3. /\ seqs'[r] = [seqs[r] EXCEPT !.status = "PREFILL"]
        /\ \A q \in ReqId : q # r => seqs'[q] = seqs[q]
    BY <2>1, <2>2 DEF SchedInv, TypeOK
  <2>4. SameRequest(r)
    BY <1>0, <2>2, <2>3 DEF SameRequest, SeqRecord
  <2> QED
    BY <2>3, <2>4 DEF SameRequest
<1>3. ASSUME NEW r \in ReqId, SampleNext(r, FALSE)
      PROVE  \A q \in ReqId : SameRequest(q)
  <2>1. seqs' = [seqs EXCEPT ![r] = Sampled(seqs[r])]
    BY <1>3 DEF SampleNext
  <2>2. seqs'[r] = Sampled(seqs[r]) /\ \A q \in ReqId : q # r => seqs'[q] = seqs[q]
    BY <2>1 DEF SchedInv, TypeOK
  <2>3. SameRequest(r)
    BY <1>0, <2>2 DEF SameRequest, SeqRecord, Sampled
  <2> QED
    BY <2>2, <2>3 DEF SameRequest
<1>4. ASSUME NEW r \in ReqId, SampleLast(r, FALSE)
      PROVE  \A q \in ReqId : SameRequest(q)
  <2> DEFINE new == [Sampled(seqs[r]) EXCEPT !.status = "FINISHED"]
  <2>1. seqs' = [seqs EXCEPT ![r] = new]
    BY <1>4 DEF SampleLast
  <2>2. /\ new.prompt = seqs[r].prompt /\ new.max_tokens = seqs[r].max_tokens
        /\ new.seq_no = seqs[r].seq_no
    BY <1>0 DEF SeqRecord, Sampled
  <2> HIDE DEF new
  <2>3. seqs'[r] = new /\ \A q \in ReqId : q # r => seqs'[q] = seqs[q]
    BY <2>1 DEF SchedInv, TypeOK
  <2> QED
    BY <2>2, <2>3 DEF SameRequest
<1>5. CASE MakeRoom
  <2> DEFINE r == Victim
  <2>1. r \in ReqId /\ seqs' = [seqs EXCEPT ![r] = Preempted(seqs[r])]
    BY <1>5, MakeRoomEffect DEF MakeRoom
  <2> HIDE DEF r
  <2>2. seqs'[r] = Preempted(seqs[r]) /\ \A q \in ReqId : q # r => seqs'[q] = seqs[q]
    BY <2>1 DEF SchedInv, TypeOK
  <2>3. SameRequest(r)
    BY <1>0, <2>1, <2>2 DEF SameRequest, SeqRecord, Preempted
  <2> QED
    BY <2>2, <2>3 DEF SameRequest
<1> QED
  BY <1>1, <1>2, <1>3, <1>4, <1>5 DEF StepGoesOn, Quiet, CloseAdmission, Grow, Retry, SkipPreempted,
     MForward, Forward, Retire, vars, sched_vars, MMakeRoom, MStepEnds, StepEnds, MSampleNext,
     MSampleLast

LEMMA StillNumbered ==
  ASSUME SchedInv, Numbered, Live' \subseteq Live, \A q \in ReqId : SameRequest(q), mode' = mode
  PROVE  Numbered' /\ \A r \in ReqId : JoinedAt(r)' = JoinedAt(r)
<1>1. Live \subseteq ReqId
  BY LiveAreIds
<1>2. \A r \in ReqId : JoinedAt(r)' = JoinedAt(r)
  BY DEF JoinedAt, SameRequest
<1>3. Numbered'
  BY <1>1 DEF Numbered, SameRequest
<1> QED
  BY <1>2, <1>3

(* A request that waits has no token, and one with a token is decoding. *)
LEMMA FreshOrDecoding ==
  ASSUME CallerInv, NeverPreempted
  PROVE  /\ \A r \in Waiting : seqs[r].outputs = 0
         /\ \A r \in Running : /\ seqs[r].outputs = 0 => seqs[r].status = "PREFILL"
                               /\ seqs[r].outputs > 0 => seqs[r].status = "DECODE"
<1>1. \A r \in Live : r \in ReqId /\ seqs[r].outputs \in Nat /\ ~seqs[r].preempted
  BY LiveAreIds DEF CallerInv, NeverPreempted
<1>2. ASSUME NEW r \in Waiting PROVE seqs[r].outputs = 0
  BY <1>1, <1>2 DEF Live, CallerInv, OrderInv, FreshNotPreempted
<1>3. ASSUME NEW r \in Running, seqs[r].outputs = 0 PROVE seqs[r].status = "PREFILL"
  BY <1>3 DEF CallerInv, OrderInv, FreshIsPrefill, Fresh
<1>4. ASSUME NEW r \in Running, seqs[r].outputs > 0 PROVE seqs[r].status = "DECODE"
  BY <1>1, <1>4 DEF Live, CallerInv, MetricsInv, PrefillsKnown
<1> QED
  BY <1>2, <1>3, <1>4

(* What a step without preemption does, as far as the pace goes. *)
LEMMA AdmitPaced ==
  ASSUME CallerInv, PaceInv, AdmitHead, UNCHANGED metrics_vars,
         \A q \in ReqId : SameRequest(q), mode' = mode
  PROVE  PaceInv' /\ Live' = Live /\ ~Serving /\ ~Serving' /\ pc # "idle" /\ pc' # "idle"
         /\ UNCHANGED seq_counter
<1>1. PICK r \in Waiting :
           /\ ~Serving /\ ~Serving' /\ pc = "admit" /\ pc' = "admit"
           /\ Live' = Live /\ Running' = Running \cup {r} /\ work' = work
           /\ \A q \in ReqId : SameFields(q) /\ (q # r => seqs'[q] = seqs[q])
           /\ seqs'[r].status = "PREFILL" /\ seq_counter' = seq_counter
  BY AdmitEffect DEF CallerInv
<1>2. Live \subseteq ReqId
  BY LiveAreIds DEF CallerInv
<1>3. Numbered' /\ \A q \in ReqId : JoinedAt(q)' = JoinedAt(q)
  BY <1>1, StillNumbered DEF CallerInv, PaceInv
<1>4. steps' = steps /\ preemptions_total' = preemptions_total
  BY DEF metrics_vars
<1>5. Paced'
  BY <1>1, <1>2, <1>3, <1>4 DEF PaceInv, Paced, SameFields
<1>6. NeverPreempted'
  BY <1>1, <1>2, <1>4 DEF PaceInv, NeverPreempted, SameFields
<1>7. AllJoin'
  BY <1>1 DEF PaceInv, AllJoin
<1> QED
  BY <1>1, <1>3, <1>5, <1>6, <1>7 DEF PaceInv

LEMMA ClosePaced ==
  ASSUME CallerInv, PaceInv, Roomy, CloseAdmission, UNCHANGED metrics_vars,
         \A q \in ReqId : SameRequest(q), mode' = mode
  PROVE  PaceInv' /\ Live' = Live /\ ~Serving /\ ~Serving' /\ pc # "idle" /\ pc' # "idle"
         /\ UNCHANGED seq_counter
<1>1. /\ pc = "admit" /\ ~CanAdmit /\ pc' = IF running = << >> THEN "idle" ELSE "forward"
      /\ UNCHANGED <<waiting, running, seqs, seq_counter>>
  BY DEF CloseAdmission
<1>2. waiting = << >>
  BY <1>1, RoomToAdmit DEF CallerInv
<1>3. Live # {}
  BY <1>1 DEF PaceInv, AllJoin
<1>4. pc' = "forward" /\ waiting' = << >>
  BY <1>1, <1>2, <1>3 DEF Live, Waiting, Running, ToSet
<1>5. Live' = Live /\ Live \subseteq ReqId
  BY <1>1, LiveAreIds DEF CallerInv, Live, Waiting, Running
<1>6. Numbered' /\ \A q \in ReqId : JoinedAt(q)' = JoinedAt(q)
  BY <1>5, StillNumbered DEF CallerInv, PaceInv
<1>7. steps' = steps /\ preemptions_total' = preemptions_total
  BY DEF metrics_vars
<1>8. ~Serving /\ ~Serving'
  BY <1>1, <1>4 DEF Serving, Growing
<1>9. Paced'
  BY <1>1, <1>5, <1>6, <1>7, <1>8 DEF PaceInv, Paced
<1>10. NeverPreempted'
  BY <1>1, <1>4, <1>5, <1>7 DEF PaceInv, NeverPreempted
<1>11. AllJoin'
  BY <1>3, <1>4, <1>5 DEF AllJoin
<1> QED
  BY <1>1, <1>4, <1>5, <1>6, <1>8, <1>9, <1>10, <1>11 DEF PaceInv

LEMMA ForwardPaced ==
  ASSUME CallerInv, PaceInv, Forward, UNCHANGED <<preemptions_total, steps>>,
         \A q \in ReqId : SameRequest(q), mode' = mode
  PROVE  PaceInv' /\ Live' = Live /\ Live = Running /\ Live # {} /\ ~Serving /\ Serving'
         /\ pc' = "loop" /\ pc = "forward" /\ UNCHANGED seq_counter
<1>1. /\ ~Serving /\ Serving' /\ ~Growing' /\ pc = "forward" /\ pc' = "loop"
      /\ Live' = Live /\ Running' = Running /\ seqs' = seqs /\ seq_counter' = seq_counter
      /\ ToSet(work') = Running
  BY ForwardEffect DEF CallerInv
<1>2. waiting = << >> /\ waiting' = waiting /\ Live # {}
  BY <1>1 DEF PaceInv, AllJoin, Forward
<1>3. Live = Running /\ Live \subseteq ReqId
  BY <1>2, LiveAreIds DEF CallerInv, Live, Waiting, ToSet
<1>4. Numbered' /\ \A q \in ReqId : JoinedAt(q)' = JoinedAt(q)
  BY <1>1, StillNumbered DEF CallerInv, PaceInv
<1>5. ToCome' = Live
  BY <1>1, <1>3 DEF ToCome
<1>6. Paced'
  BY <1>1, <1>3, <1>4, <1>5 DEF PaceInv, Paced
<1>7. NeverPreempted'
  BY <1>1 DEF PaceInv, NeverPreempted
<1>8. AllJoin'
  BY <1>1, <1>2 DEF AllJoin
<1> QED
  BY <1>1, <1>2, <1>3, <1>4, <1>6, <1>7, <1>8 DEF PaceInv

LEMMA SampleNextPaced ==
  ASSUME CallerInv, PaceInv, NEW r \in ReqId, SampleNext(r, FALSE), UNCHANGED metrics_vars,
         \A q \in ReqId : SameRequest(q), mode' = mode
  PROVE  PaceInv' /\ Live' = Live /\ Serving /\ Serving' /\ pc # "idle" /\ pc' # "idle"
         /\ UNCHANGED seq_counter
<1>1. /\ r \in Running /\ pc = "loop" /\ Serving /\ Serving'
      /\ work # << >> /\ r = Head(work)
      /\ Live' = Live /\ Running' = Running /\ seq_counter' = seq_counter
      /\ \A q \in ReqId : q # r => seqs'[q] = seqs[q]
      /\ seqs'[r].outputs = seqs[r].outputs + 1
      /\ seqs'[r].preempted = seqs[r].preempted
      /\ \/ pc' = "grow" /\ work' = work
         \/ pc' = "loop" /\ work' = Tail(work)
  BY SampleNextEffect DEF CallerInv
<1>2. Live \subseteq ReqId /\ r \in Live /\ waiting' = waiting
  BY <1>1, LiveAreIds DEF CallerInv, Live, SampleNext
<1>3. Numbered' /\ \A q \in ReqId : JoinedAt(q)' = JoinedAt(q)
  BY <1>1, StillNumbered DEF CallerInv, PaceInv
<1>4. steps' = steps /\ preemptions_total' = preemptions_total
  BY DEF metrics_vars
<1>5. ToCome = {r} \cup ToCome' /\ r \notin ToCome'
  BY <1>1, WorkParts DEF CallerInv, ToCome, Growing
<1>6. /\ steps.total \in Nat /\ \A q \in Live : /\ JoinedAt(q) \in Nat /\ seqs[q].outputs \in Nat
  <2>1. steps.total \in Nat
    BY DEF CallerInv, MetricsInv, MetricsTypes
  <2> QED
    BY <1>2, <2>1, LiveAreIds DEF CallerInv, JoinedAt
<1>7. Paced'
  <2> SUFFICES ASSUME NEW q \in Live
               PROVE  seqs'[q].outputs = steps.total - JoinedAt(q)
                                           + IF q \notin ToCome' THEN 1 ELSE 0
    BY <1>1, <1>2, <1>3, <1>4 DEF Paced
  <2>1. seqs[q].outputs = steps.total - JoinedAt(q) + IF q \notin ToCome THEN 1 ELSE 0
    BY <1>1 DEF PaceInv, Paced
  <2>2. CASE q = r
    BY <1>1, <1>5, <1>6, <2>1, <2>2
  <2>3. CASE q # r
    BY <1>1, <1>2, <1>5, <2>1, <2>3
  <2> QED
    BY <2>2, <2>3
<1>8. NeverPreempted'
  BY <1>1, <1>2, <1>4 DEF PaceInv, NeverPreempted
<1>9. AllJoin'
  BY <1>1, <1>2 DEF PaceInv, AllJoin
<1> QED
  BY <1>1, <1>3, <1>7, <1>8, <1>9 DEF PaceInv

LEMMA SampleLastPaced ==
  ASSUME CallerInv, PaceInv, NEW r \in ReqId, SampleLast(r, FALSE),
         UNCHANGED <<preemptions_total, steps>>,
         \A q \in ReqId : SameRequest(q), mode' = mode
  PROVE  PaceInv' /\ Live' = Live \ {r} /\ Serving /\ Serving' /\ pc # "idle" /\ pc' # "idle"
         /\ UNCHANGED seq_counter
         /\ r \in Live /\ seqs[r].outputs + 1 >= seqs[r].max_tokens
         /\ seqs[r].outputs = steps.total - JoinedAt(r)
<1>1. /\ r \in Running /\ pc = "loop" /\ pc' = "loop"
      /\ Serving /\ Serving' /\ work # << >> /\ r = Head(work) /\ work' = Tail(work)
      /\ Live' = Live \ {r} /\ seq_counter' = seq_counter
      /\ \A q \in ReqId : q # r => seqs'[q] = seqs[q]
  BY SampleLastEffect DEF CallerInv
<1>2. Live \subseteq ReqId /\ r \in Live /\ waiting' = waiting
  BY <1>1, LiveAreIds DEF CallerInv, Live, SampleLast
<1>3. Live' \subseteq Live
  BY <1>1
<1>4. Numbered' /\ \A q \in ReqId : JoinedAt(q)' = JoinedAt(q)
  BY <1>3, StillNumbered DEF CallerInv, PaceInv
<1>5. ToCome = {r} \cup ToCome' /\ r \notin ToCome'
  BY <1>1, WorkParts DEF CallerInv, ToCome, Growing
<1>6. /\ steps.total \in Nat /\ \A q \in Live : JoinedAt(q) \in Nat /\ seqs[q].outputs \in Nat
  <2>1. steps.total \in Nat
    BY DEF CallerInv, MetricsInv, MetricsTypes
  <2> QED
    BY <1>2, <2>1, LiveAreIds DEF CallerInv, JoinedAt
<1>7. Paced'
  <2> SUFFICES ASSUME NEW q \in Live, q # r
               PROVE  seqs'[q].outputs = steps.total - JoinedAt(q)
                                           + IF q \notin ToCome' THEN 1 ELSE 0
    BY <1>1, <1>2, <1>4 DEF Paced
  <2>1. seqs[q].outputs = steps.total - JoinedAt(q) + IF q \notin ToCome THEN 1 ELSE 0
    BY <1>1 DEF PaceInv, Paced
  <2> QED
    BY <1>1, <1>2, <1>5, <2>1
<1>8. NeverPreempted'
  BY <1>1, <1>2 DEF PaceInv, NeverPreempted
<1>9. AllJoin'
  BY <1>1, <1>2 DEF PaceInv, AllJoin
<1>10. seqs[r].outputs + 1 >= seqs[r].max_tokens
  BY DEF SampleLast, IsFinished
<1>11. seqs[r].outputs = steps.total - JoinedAt(r)
  <2>1. seqs[r].outputs = steps.total - JoinedAt(r) + 0
    BY <1>1, <1>2, <1>5 DEF PaceInv, Paced
  <2> QED
    BY <1>2, <1>6, <2>1
<1> QED
  BY <1>1, <1>2, <1>4, <1>7, <1>8, <1>9, <1>10, <1>11 DEF PaceInv

LEMMA GrowPaced ==
  ASSUME CallerInv, PaceInv, Roomy, Grow, UNCHANGED metrics_vars,
         \A q \in ReqId : SameRequest(q), mode' = mode
  PROVE  PaceInv' /\ Live' = Live /\ Serving /\ Serving' /\ pc # "idle" /\ pc' # "idle"
         /\ UNCHANGED seq_counter
<1>1. pc = "grow" /\ free_count > 0
  BY RoomToGrow DEF CallerInv, Grow
<1>2. /\ pc' = "loop" /\ work' = Tail(work)
      /\ UNCHANGED <<waiting, running, seqs, seq_counter>>
  BY <1>1 DEF Grow, LoopOn
<1>3. Live' = Live /\ Live \subseteq ReqId
  BY <1>2, LiveAreIds DEF CallerInv, Live, Waiting, Running
<1>4. Numbered' /\ \A q \in ReqId : JoinedAt(q)' = JoinedAt(q)
  BY <1>3, StillNumbered DEF CallerInv, PaceInv
<1>5. steps' = steps /\ preemptions_total' = preemptions_total
  BY DEF metrics_vars
<1>6. Serving /\ Serving' /\ ToCome' = ToCome
  BY <1>1, <1>2 DEF Serving, Growing, ToCome
<1>7. Paced'
  BY <1>2, <1>3, <1>4, <1>5, <1>6 DEF PaceInv, Paced
<1>8. NeverPreempted'
  BY <1>2, <1>3, <1>5 DEF PaceInv, NeverPreempted
<1>9. AllJoin'
  BY <1>2, <1>3, <1>6 DEF PaceInv, AllJoin
<1> QED
  BY <1>1, <1>2, <1>3, <1>4, <1>6, <1>7, <1>8, <1>9 DEF PaceInv

LEMMA StepEndsPaced ==
  ASSUME CallerInv, PaceInv, MStepEnds, \A q \in ReqId : SameRequest(q), mode' = mode
  PROVE  PaceInv' /\ Live' = Live /\ Serving /\ ~Serving' /\ pc # "idle" /\ pc' = "idle"
         /\ UNCHANGED seq_counter
<1>1. /\ Serving /\ ~Serving' /\ pc = "loop" /\ pc' = "idle" /\ work = << >>
      /\ Live' = Live /\ Running' = Running /\ seqs' = seqs /\ seq_counter' = seq_counter
      /\ ToSet(work) = {}
  BY StepEndsEffect DEF CallerInv, MStepEnds
<1>2. /\ steps'.total = steps.total + 1 /\ preemptions_total' = preemptions_total
      /\ steps.total \in Nat
  BY DEF MStepEnds, CallerInv, MetricsInv, MetricsTypes
<1>3. Live \subseteq ReqId /\ \A q \in Live : JoinedAt(q) \in Nat
  BY LiveAreIds DEF CallerInv, JoinedAt
<1>4. Numbered' /\ \A q \in ReqId : JoinedAt(q)' = JoinedAt(q)
  BY <1>1, StillNumbered DEF CallerInv, PaceInv
<1>5. Paced'
  <2> SUFFICES ASSUME NEW q \in Live
               PROVE  seqs[q].outputs = steps.total + 1 - JoinedAt(q) + 0
    BY <1>1, <1>2, <1>3, <1>4 DEF Paced
  <2>1. seqs[q].outputs = steps.total - JoinedAt(q) + 1
    BY <1>1 DEF PaceInv, Paced, ToCome
  <2> QED
    BY <1>2, <1>3, <2>1
<1>6. NeverPreempted'
  BY <1>1, <1>2 DEF PaceInv, NeverPreempted
<1>7. AllJoin'
  BY <1>1 DEF AllJoin
<1> QED
  BY <1>1, <1>4, <1>5, <1>6, <1>7 DEF PaceInv

LEMMA RetirePaced ==
  ASSUME CallerInv, PaceInv, Retire, \A q \in ReqId : SameRequest(q), mode' = mode
  PROVE  PaceInv' /\ Live' = Live /\ Serving /\ Serving' /\ pc # "idle" /\ pc' # "idle"
         /\ UNCHANGED seq_counter
<1>1. /\ UNCHANGED <<pc, work, waiting, running, seqs, seq_counter, preemptions_total, steps>>
      /\ retiring # << >>
  BY DEF Retire, vars, sched_vars
<1>2. pc = "loop" /\ Serving /\ Serving' /\ ToCome' = ToCome
  BY <1>1 DEF CallerInv, MetricsInv, RetiresOne, Serving, Growing, ToCome
<1>3. Live' = Live /\ Live \subseteq ReqId
  BY <1>1, LiveAreIds DEF CallerInv, Live, Waiting, Running
<1>4. Numbered' /\ \A q \in ReqId : JoinedAt(q)' = JoinedAt(q)
  BY <1>3, StillNumbered DEF CallerInv, PaceInv
<1>5. Paced'
  BY <1>1, <1>2, <1>3, <1>4 DEF PaceInv, Paced
<1>6. NeverPreempted' /\ AllJoin'
  BY <1>1, <1>2, <1>3 DEF PaceInv, NeverPreempted, AllJoin
<1> QED
  BY <1>1, <1>2, <1>3, <1>4, <1>5, <1>6 DEF PaceInv

(* No preempted request is met in the loop, and none is made. *)
LEMMA NoOtherMoves ==
  ASSUME CallerInv, PaceInv
  PROVE  /\ ~Retry /\ ~MakeRoom
         /\ \A r \in ReqId : ~SkipPreempted(r)
<1>1. ~Retry /\ ~MakeRoom
  BY DEF PaceInv, NeverPreempted, Retry, MakeRoom
<1>2. ASSUME NEW r \in ReqId, SkipPreempted(r) PROVE FALSE
  <2>1. pc = "loop" /\ seqs[r].status = "WAITING"
    BY <1>2 DEF SkipPreempted, AtHead
  <2>2. Waiting = {}
    BY <2>1 DEF PaceInv, AllJoin, Serving, Waiting, ToSet
  <2> QED
    BY <2>1, <2>2 DEF CallerInv, SchedInv, StatusMatchesQueue
<1> QED
  BY <1>1, <1>2

-----------------------------------------------------------------------------
(***************************************************************************)
(* The partition of a step, before it runs.                                *)
(***************************************************************************)
LEMMA LiveCount ==
  ASSUME CallerInv
  PROVE  /\ IsFiniteSet(Live) /\ Cardinality(Live) \in Nat /\ seq_counter \in Nat
         /\ Cardinality(Live) <= seq_counter
         /\ requests = << >> /\ retiring = << >> => Cardinality(Live) = seq_counter
         /\ retiring = << >> => Len(requests) = seq_counter - Cardinality(Live)
<1>1. /\ IsFiniteSet(Live) /\ IsFiniteSet(Unaccounted)
      /\ Cardinality(Live) \in Nat /\ Cardinality(Unaccounted) \in Nat
  BY UnaccountedFinite DEF CallerInv, MetricsInv
<1>2. /\ Len(requests) = seq_counter - Cardinality(Unaccounted) /\ Len(requests) \in Nat
      /\ seq_counter \in Nat
  BY DEF CallerInv, MetricsInv, Accounts, MetricsTypes, SchedInv, TypeOK
<1>3. Cardinality(Live) <= Cardinality(Unaccounted)
  <2>1. Live \in SUBSET Unaccounted
    BY DEF Unaccounted
  <2> QED
    BY <1>1, <2>1, FS_Subset
<1>4. requests = << >> => Len(requests) = 0
  OBVIOUS
<1> QED
  BY <1>1, <1>2, <1>3, <1>4, NothingOwed

LEMMA AtMostOne ==
  ASSUME NEW S, IsFiniteSet(S), \A x, y \in S : x = y
  PROVE  /\ S = {} \/ \E x \in S : S = {x}
         /\ Cardinality(S) \in {0, 1}
<1>1. CASE S = {}
  BY <1>1, FS_EmptySet
<1>2. CASE S # {}
  <2>1. PICK x \in S : S = {x}
    BY <1>2
  <2> QED
    BY <2>1, FS_Singleton
<1> QED
  BY <1>1, <1>2

LEMMA TotalOfOne ==
  ASSUME CallerInv, NEW r \in ReqId
  PROVE  TotalLens({}) = 0 /\ TotalLens({r}) = TotalLen(r)
<1> DEFINE g == [q \in ReqId |-> TotalLen(q)]
<1>1. \A q \in {} \cup {r} : g[q] \in Int
  BY LiveAreIds DEF CallerInv, TotalLen
<1>2. g[r] = TotalLen(r) /\ TotalLen(r) \in Int
  BY LiveAreIds DEF CallerInv, TotalLen
<1> HIDE DEF g
<1>3. SumFunctionOnSet(g, {}) = 0
  BY SumEmpty
<1>4. SumFunctionOnSet(g, {} \cup {r}) = g[r] + SumFunctionOnSet(g, {})
  BY <1>1, SumAdd, FS_EmptySet
<1> USE DEF g
<1>5. TotalLens({}) = SumFunctionOnSet(g, {}) /\ TotalLens({r}) = SumFunctionOnSet(g, {r})
  BY DEF TotalLens
<1>6. {} \cup {r} = {r}
  OBVIOUS
<1> HIDE DEF g
<1> QED
  BY <1>2, <1>3, <1>4, <1>5, <1>6

(* Those that wait for their first token are prefilled, the others decode. *)
Starting == {r \in Live : seqs[r].outputs = 0}

LEMMA ForwardParts ==
  ASSUME CallerInv, PaceInv, MForward
  PROVE  /\ IsFiniteSet(Starting) /\ IsFiniteSet(Live \ Starting)
         /\ Cardinality(Starting) + Cardinality(Live \ Starting) = Cardinality(Live)
         /\ Cardinality(Starting) \in Nat /\ Cardinality(Live \ Starting) \in Nat
         /\ partition' = [n_prefill |-> Cardinality(Starting),
                          n_decode |-> Cardinality(Live \ Starting),
                          fresh |-> TotalLens(Starting), recompute |-> 0]
         /\ \A r \in Live : /\ r \in ReqId /\ JoinedAt(r) \in Nat
                            /\ seqs[r].outputs = steps.total - JoinedAt(r)
                            /\ seqs[r].outputs < seqs[r].max_tokens
         /\ steps.total \in Nat
<1>1. pc = "forward" /\ ~Serving /\ waiting = << >>
  BY DEF MForward, Forward, Serving, Growing, PaceInv, AllJoin
<1>2. Running = Live /\ Live \subseteq ReqId
  BY <1>1, LiveAreIds DEF CallerInv, Live, Waiting, ToSet
<1>3. Prefills = Starting /\ Running \ Prefills = Live \ Starting
  BY <1>2, FreshOrDecoding, LiveAreIds DEF CallerInv, PaceInv, Prefills, Starting
<1>4. \A r \in Live : IsFresh(r)
  <2>1. \A r \in Live : preempted_count[r] \in Nat /\ ~(preempted_count[r] > 0)
    BY <1>2 DEF CallerInv, PaceInv, NeverPreempted, MetricsInv, CountsAgree, MetricsTypes
  <2> QED
    BY <2>1 DEF IsFresh
<1>5. /\ {r \in Prefills : IsFresh(r)} = Starting
      /\ {r \in Prefills : ~IsFresh(r)} = {}
  BY <1>3, <1>4 DEF Starting
<1>6. TotalLens({}) = 0
  BY SumEmpty DEF TotalLens
<1>7. partition' = [n_prefill |-> Cardinality(Starting),
                    n_decode |-> Cardinality(Live \ Starting),
                    fresh |-> TotalLens(Starting), recompute |-> 0]
  BY <1>3, <1>5, <1>6 DEF MForward
<1>8. /\ IsFiniteSet(Starting) /\ IsFiniteSet(Live \ Starting)
      /\ Cardinality(Starting) \in Nat /\ Cardinality(Live \ Starting) \in Nat
      /\ Cardinality(Starting) + Cardinality(Live \ Starting) = Cardinality(Live)
  <2>1. IsFiniteSet(Live) /\ Cardinality(Live) \in Nat
    BY LiveCount
  <2>2. Starting \in SUBSET Live
    BY DEF Starting
  <2>3. IsFiniteSet(Starting) /\ Cardinality(Starting) \in Nat
    BY <2>1, <2>2, FS_Subset, FS_CardinalityType
  <2>4. /\ IsFiniteSet(Live \ Starting)
        /\ Cardinality(Live \ Starting) = Cardinality(Live) - Cardinality(Live \cap Starting)
    BY <2>1, FS_Difference
  <2>5. Live \cap Starting = Starting
    BY <2>2
  <2>6. Cardinality(Live \ Starting) \in Nat
    BY <2>4, FS_CardinalityType
  <2> QED
    BY <2>1, <2>3, <2>4, <2>5, <2>6
<1>9. steps.total \in Nat
  BY DEF CallerInv, MetricsInv, MetricsTypes
<1>10. ASSUME NEW r \in Live
       PROVE  /\ r \in ReqId /\ JoinedAt(r) \in Nat
              /\ seqs[r].outputs = steps.total - JoinedAt(r)
              /\ seqs[r].outputs < seqs[r].max_tokens
  <2>1. r \in ReqId /\ JoinedAt(r) \in Nat
    BY <1>2, LiveAreIds DEF CallerInv, JoinedAt
  <2>2. seqs[r].outputs = steps.total - JoinedAt(r) + 0
    BY <1>1 DEF PaceInv, Paced
  <2>3. seqs[r].outputs < seqs[r].max_tokens
    BY DEF CallerInv, OrderInv, LiveFits
  <2> QED
    BY <1>9, <2>1, <2>2, <2>3
<1> QED
  BY <1>7, <1>8, <1>9, <1>10

LEMMA PrefillRecord ==
  ASSUME NEW x \in Int
  PROVE  [n_prefill |-> 1, n_decode |-> 0, fresh |-> x, recompute |-> 0]
           = [NoWork EXCEPT !.n_prefill = 1, !.fresh = x]
<1> DEFINE a == [NoWork EXCEPT !.n_prefill = 1]
<1>1. a = [n_prefill |-> 1, n_decode |-> 0, fresh |-> 0, recompute |-> 0]
  BY DEF NoWork
<1>2. a \in StepRecord
  BY <1>1 DEF StepRecord
<1>3. [NoWork EXCEPT !.n_prefill = 1, !.fresh = x] = [a EXCEPT !.fresh = x]
  OBVIOUS
<1> HIDE DEF a
<1>4. [a EXCEPT !.fresh = x] \in StepRecord
  BY <1>2 DEF StepRecord
<1>5. [a EXCEPT !.fresh = x] = [n_prefill |-> 1, n_decode |-> 0, fresh |-> x, recompute |-> 0]
  BY <1>1, <1>4 DEF StepRecord
<1> QED
  BY <1>3, <1>5

LEMMA ForwardInPrefill ==
  ASSUME CallerInv, PaceInv, PlanInv, MForward, mode = "prefill"
  PROVE  /\ steps.total < Len(Lens)
         /\ partition' = [NoWork EXCEPT !.n_prefill = 1, !.fresh = Lens[steps.total + 1]]
<1>1. /\ IsFiniteSet(Starting)
      /\ partition' = [n_prefill |-> Cardinality(Starting),
                       n_decode |-> Cardinality(Live \ Starting),
                       fresh |-> TotalLens(Starting), recompute |-> 0]
      /\ \A r \in Live : /\ r \in ReqId /\ JoinedAt(r) \in Nat
                         /\ seqs[r].outputs = steps.total - JoinedAt(r)
                         /\ seqs[r].outputs < seqs[r].max_tokens
      /\ steps.total \in Nat
  BY ForwardParts
<1>2. ASSUME NEW r \in Live
      PROVE  /\ seqs[r].outputs = 0 /\ seqs[r].seq_no = steps.total /\ seqs[r].prompt \in Nat
             /\ steps.total < Len(Lens) /\ seqs[r].prompt = Lens[steps.total + 1]
  <2>1. /\ seqs[r].seq_no < Len(Lens) /\ seqs[r].prompt = Lens[seqs[r].seq_no + 1]
        /\ seqs[r].max_tokens = 1
    BY DEF PlanInv, Asked
  <2>2. JoinedAt(r) = seqs[r].seq_no /\ seqs[r].outputs \in Nat /\ seqs[r].prompt \in Nat
    BY <1>1, LiveAreIds DEF CallerInv, JoinedAt
  <2>3. seqs[r].outputs < 1 /\ seqs[r].outputs = steps.total - seqs[r].seq_no
        /\ seqs[r].seq_no \in Nat
    BY <1>1, <2>1, <2>2
  <2>4. seqs[r].outputs = 0 /\ seqs[r].seq_no = steps.total
    BY <1>1, <2>2, <2>3
  <2> QED
    BY <2>1, <2>2, <2>4
<1>3. Starting = Live
  BY <1>2 DEF Starting
<1>4. PICK r \in Live : Live = {r}
  <2>1. Live # {}
    BY DEF MForward, Forward, PaceInv, AllJoin
  <2>2. \A x, y \in Live : x = y
    BY <1>2 DEF PaceInv, Numbered
  <2> QED
    BY <2>1, <2>2
<1>5. Cardinality(Starting) = 1 /\ Cardinality(Live \ Starting) = 0
  <2>1. Live \ Starting = {}
    BY <1>3
  <2> QED
    BY <1>3, <1>4, <2>1, FS_Singleton, FS_EmptySet
<1>6. TotalLens(Starting) = Lens[steps.total + 1]
  <2>1. TotalLens({r}) = TotalLen(r)
    BY <1>1, TotalOfOne
  <2>2. TotalLen(r) = Lens[steps.total + 1]
    BY <1>2 DEF TotalLen
  <2> QED
    BY <1>3, <1>4, <2>1, <2>2
<1>7. steps.total < Len(Lens)
  BY <1>2, <1>4
<1>8. Lens[steps.total + 1] \in Int
  BY <1>2, <1>4
<1> QED
  BY <1>1, <1>5, <1>6, <1>7, <1>8, PrefillRecord

LEMMA AllDecode ==
  ASSUME CallerInv, PaceInv, MForward, \A r \in Live : seqs[r].outputs # 0
  PROVE  partition' = [NoWork EXCEPT !.n_decode = Cardinality(Live)]
<1>1. partition' = [n_prefill |-> Cardinality(Starting),
                    n_decode |-> Cardinality(Live \ Starting),
                    fresh |-> TotalLens(Starting), recompute |-> 0]
  BY ForwardParts
<1>2. Starting = {} /\ Live \ Starting = Live
  BY DEF Starting
<1>3. Cardinality(Starting) = 0 /\ TotalLens(Starting) = 0
  BY <1>2, FS_EmptySet, SumEmpty DEF TotalLens
<1>4. \A n \in Int : [n_prefill |-> 0, n_decode |-> n, fresh |-> 0, recompute |-> 0]
                       = [NoWork EXCEPT !.n_decode = n]
  BY DEF NoWork
<1>5. Cardinality(Live) \in Int
  BY LiveCount
<1> QED
  BY <1>1, <1>2, <1>3, <1>4, <1>5

LEMMA Parameters ==
  /\ K \in Nat /\ Target \in Nat /\ Context \in Nat /\ Joining \in Nat /\ K < Target
  /\ Batch \in Nat /\ Batch >= 1 /\ Batch <= MaxBatch /\ MaxBatch \in Nat
  /\ Lengths \in Seq(Nat) /\ Lengths # << >>
  BY ProbeAssumption, SchedulerAssumption

LEMMA ForwardInDecode ==
  ASSUME CallerInv, PaceInv, PlanInv, MForward, mode = "decode", steps.total >= 1
  PROVE  partition' = [NoWork EXCEPT !.n_decode = Batch]
<1>1. pc = "forward" /\ ~Serving /\ steps.total \in Nat
  BY ForwardParts DEF MForward, Forward, Serving, Growing
<1>2. seq_counter = Batch /\ steps.total <= K
  BY <1>1, Parameters DEF PlanInv, Clock, DecodeClock
<1>3. requests = << >> /\ retiring = << >>
  BY <1>1, <1>2, Parameters DEF PlanInv, NobodyDone, Early
<1>4. Cardinality(Live) = Batch
  BY <1>2, <1>3, LiveCount
<1>5. \A r \in Live : seqs[r].outputs # 0
  <2>1. \A r \in Live : JoinedAt(r) = 0 /\ seqs[r].outputs = steps.total - JoinedAt(r)
    BY ForwardParts DEF JoinedAt
  <2> QED
    BY <1>1, <2>1
<1> QED
  BY <1>4, <1>5, AllDecode

LEMMA ForwardInMixed ==
  ASSUME CallerInv, PaceInv, PlanInv, MForward, mode = "mixed", steps.total >= 1
  PROVE  /\ steps.total = 1 =>
              partition' = [n_prefill |-> 1, n_decode |-> 1, fresh |-> Joining, recompute |-> 0]
         /\ steps.total >= 2 => partition' = [NoWork EXCEPT !.n_decode = 2]
<1>1. pc = "forward" /\ ~Serving /\ steps.total \in Nat
  BY ForwardParts DEF MForward, Forward, Serving, Growing
<1>2. seq_counter = 2
  BY <1>1 DEF PlanInv, Clock, MixedClock
<1>3. requests = << >> /\ retiring = << >>
  BY DEF PlanInv, NobodyDone, Early
<1>4. Cardinality(Live) = 2 /\ IsFiniteSet(Live)
  BY <1>2, <1>3, LiveCount
<1>5. ASSUME NEW r \in Live
      PROVE  /\ r \in ReqId /\ seqs[r].outputs = steps.total - seqs[r].seq_no
             /\ \/ seqs[r].seq_no = 0
                \/ seqs[r].seq_no = 1 /\ seqs[r].prompt = Joining
  BY ForwardParts DEF JoinedAt, PlanInv, Asked
<1>6. CASE steps.total >= 2
  <2>1. \A r \in Live : seqs[r].outputs # 0
    BY <1>1, <1>5, <1>6
  <2> QED
    BY <1>4, <1>6, <2>1, AllDecode
<1>7. CASE steps.total = 1
  <2>1. /\ IsFiniteSet(Starting) /\ IsFiniteSet(Live \ Starting)
        /\ Cardinality(Starting) + Cardinality(Live \ Starting) = Cardinality(Live)
        /\ partition' = [n_prefill |-> Cardinality(Starting),
                         n_decode |-> Cardinality(Live \ Starting),
                         fresh |-> TotalLens(Starting), recompute |-> 0]
    BY ForwardParts
  <2>2. /\ \A r \in Starting : r \in Live /\ seqs[r].seq_no = 1 /\ seqs[r].outputs = 0
        /\ \A r \in Live \ Starting : seqs[r].seq_no = 0
    BY <1>5, <1>7 DEF Starting
  <2>3. /\ \A x, y \in Starting : x = y
        /\ \A x, y \in Live \ Starting : x = y
    BY <2>2 DEF PaceInv, Numbered
  <2>4. /\ Starting = {} \/ \E x \in Starting : Starting = {x}
        /\ Cardinality(Starting) \in {0, 1} /\ Cardinality(Live \ Starting) \in {0, 1}
    BY <2>1, <2>3, AtMostOne
  <2>5. Cardinality(Starting) = 1 /\ Cardinality(Live \ Starting) = 1
    BY <1>4, <2>1, <2>4
  <2>6. PICK r \in Starting : Starting = {r}
    BY <2>4, <2>5, FS_EmptySet
  <2>7. TotalLens(Starting) = Joining
    <3>1. r \in ReqId /\ seqs[r].prompt = Joining /\ seqs[r].outputs = 0
      BY <1>5, <2>2
    <3>2. TotalLens({r}) = TotalLen(r)
      BY <3>1, TotalOfOne
    <3>3. TotalLen(r) = Joining
      BY <3>1, Parameters DEF TotalLen
    <3> QED
      BY <2>6, <3>2, <3>3
  <2> QED
    BY <1>7, <2>1, <2>5, <2>7
<1> QED
  BY <1>6, <1>7

LEMMA ForwardIsPlanned ==
  ASSUME CallerInv, PaceInv, PlanInv, MForward
  PROVE  StepIs(steps.total, partition')
<1>1. partition'.recompute = 0
  <2>1. partition' = [n_prefill |-> Cardinality(Starting),
                      n_decode |-> Cardinality(Live \ Starting),
                      fresh |-> TotalLens(Starting), recompute |-> 0]
    BY ForwardParts
  <2> QED
    BY <2>1
<1>2. steps.total \in Nat
  BY ForwardParts
<1> QED
  BY <1>1, <1>2, ForwardInPrefill, ForwardInDecode, ForwardInMixed DEF StepIs

-----------------------------------------------------------------------------
(***************************************************************************)
(* Room in every cache a probe asks for.                                   *)
(***************************************************************************)
LEMMA LiveNeeds ==
  ASSUME CallerInv, NEW r \in Live
  PROVE  /\ r \in ReqId /\ TotalLen(r) \in Nat
         /\ BlocksFor(TotalLen(r) + 1) \in Nat /\ BlocksFor(TotalLen(r) + 1) <= NumBlocks
         /\ TotalLen(r) + 1 <= seqs[r].prompt + seqs[r].max_tokens
<1> DEFINE total == TotalLen(r) + 1
           most == seqs[r].prompt + seqs[r].max_tokens
<1>1. /\ r \in ReqId /\ seqs[r].outputs < seqs[r].max_tokens /\ seqs[r].outputs \in Nat
      /\ seqs[r].max_tokens \in Nat /\ seqs[r].prompt \in Nat
      /\ BlocksFor(most) <= NumBlocks
  BY LiveAreIds DEF CallerInv, OrderInv, LiveFits
<1>2. total \in Nat /\ most \in Nat /\ total <= most /\ TotalLen(r) \in Nat
  BY <1>1 DEF TotalLen
<1> HIDE DEF total, most
<1>3. BlocksFor(total) \in Nat /\ BlocksFor(most) \in Nat /\ BlocksFor(total) <= BlocksFor(most)
  BY <1>2, BlocksForMonotone
<1>4. BlocksFor(total) <= NumBlocks
  BY <1>1, <1>3, NumBlocksAssumption
<1> QED
  BY <1>1, <1>2, <1>3, <1>4 DEF total, most

(* One request at a time has the whole cache. *)
LEMMA RoomForOne ==
  ASSUME CallerInv, Cardinality(Live) <= 1
  PROVE  Roomy
<1>1. 1 \in 1 .. MaxBatch /\ 1 * NumBlocks <= NumBlocks /\ NumBlocks \in Nat
  BY Parameters, NumBlocksAssumption
<1>2. \A r \in Live : BlocksFor(TotalLen(r) + 1) <= NumBlocks
  BY LiveNeeds
<1> QED
  BY <1>1, <1>2 DEF Roomy

LEMMA RoomForAll ==
  ASSUME CallerInv, NEW b \in 1 .. MaxBatch, NEW n \in Nat, Cardinality(Live) <= b,
         NumBlocks = b * BlocksFor(n) + 4, \A r \in Live : TotalLen(r) + 1 <= n
  PROVE  Roomy
<1> DEFINE m == BlocksFor(n)
<1>1. m \in Nat
  BY BlocksForMonotone
<1>2. \A r \in Live : BlocksFor(TotalLen(r) + 1) <= m
  <2> SUFFICES ASSUME NEW r \in Live PROVE BlocksFor(TotalLen(r) + 1) <= m
    OBVIOUS
  <2>1. TotalLen(r) + 1 \in Nat /\ TotalLen(r) + 1 <= n
    BY LiveNeeds
  <2> QED
    BY <2>1, BlocksForMonotone
<1>3. b * m <= NumBlocks
  <2>1. NumBlocks = b * m + 4
    OBVIOUS
  <2> HIDE DEF m
  <2>2. b \in Nat
    BY Parameters
  <2>3. b * m \in Nat
    BY <1>1, <2>2
  <2> QED
    BY <2>1, <2>3
<1> HIDE DEF m
<1> QED
  BY <1>1, <1>2, <1>3 DEF Roomy

LEMMA OneByOne ==
  ASSUME CallerInv, PaceInv, PlanInv, mode = "prefill", pc # "idle"
  PROVE  /\ \A r \in Live : seqs[r].seq_no = steps.total
         /\ Cardinality(Live) <= 1
<1>1. steps.total = seq_counter - 1 /\ seq_counter \in Nat
  BY LiveCount DEF PlanInv, Clock, PrefillClock
<1>2. ASSUME NEW r \in Live PROVE seqs[r].seq_no = steps.total
  <2>1. /\ r \in ReqId /\ seqs[r].outputs \in Nat /\ seqs[r].seq_no \in Nat
        /\ seqs[r].seq_no < seq_counter /\ seqs[r].outputs < seqs[r].max_tokens
    BY LiveAreIds DEF CallerInv, OrderInv, LiveFits, LiveAreNumbered
  <2>2. seqs[r].max_tokens = 1 /\ JoinedAt(r) = seqs[r].seq_no
    BY DEF PlanInv, Asked, JoinedAt
  <2>3. \/ seqs[r].outputs = steps.total - seqs[r].seq_no + 0
        \/ seqs[r].outputs = steps.total - seqs[r].seq_no + 1
    BY <2>2 DEF PaceInv, Paced
  <2> QED
    BY <1>1, <2>1, <2>2, <2>3
<1>3. \A x, y \in Live : x = y
  BY <1>2 DEF PaceInv, Numbered
<1>4. IsFiniteSet(Live)
  BY LiveCount
<1> QED
  BY <1>2, <1>3, <1>4, AtMostOne

LEMMA PlanIsRoomy ==
  ASSUME CallerInv, PaceInv, PlanInv, Probing, mode \in Modes, pc # "idle"
  PROVE  Roomy
<1>1. Cardinality(Live) \in Nat /\ seq_counter \in Nat /\ Cardinality(Live) <= seq_counter
  BY LiveCount
<1>2. CASE mode = "prefill"
  BY <1>2, OneByOne, RoomForOne
<1>3. CASE mode = "smoke"
  <2>1. seq_counter = 1
    BY <1>3 DEF PlanInv, Clock, SmokeClock
  <2> QED
    BY <1>1, <2>1, RoomForOne
<1>4. CASE mode = "decode"
  <2>1. seq_counter = Batch
    BY <1>4 DEF PlanInv, Clock, DecodeClock
  <2>2. NumBlocks = Batch * BlocksFor(Target + 2) + 4
    BY <1>4, ProbeAssumption DEF DecodeBlocks
  <2>3. ASSUME NEW r \in Live PROVE TotalLen(r) + 1 <= Target + 2
    <3>1. TotalLen(r) + 1 <= seqs[r].prompt + seqs[r].max_tokens /\ TotalLen(r) \in Nat
      BY LiveNeeds
    <3>2. seqs[r].prompt = Target - K /\ seqs[r].max_tokens = K + 1
      BY <1>4 DEF PlanInv, Asked, DecodePrompt, DecodeTokens
    <3> QED
      BY <3>1, <3>2, Parameters
  <2>4. Batch \in 1 .. MaxBatch /\ Target + 2 \in Nat
    BY Parameters
  <2> QED
    BY <1>1, <2>1, <2>2, <2>3, <2>4, RoomForAll
<1>5. CASE mode = "mixed"
  <2>1. seq_counter <= 2 /\ steps.total \in 0 .. 4
    BY <1>5 DEF PlanInv, Clock, MixedClock
  <2>2. NumBlocks = 2 * BlocksFor(Context + Joining + 8) + 4 /\ 2 \in 1 .. MaxBatch
    <3>1. NumBlocks = (1 + 1) * BlocksFor(Context + Joining + 8) + 4 /\ MaxBatch >= 2
      BY <1>5, ProbeAssumption DEF ActivationBlocks
    <3>2. 1 + 1 = 2
      OBVIOUS
    <3> QED
      BY <3>1, <3>2, Parameters
  <2>3. ASSUME NEW r \in Live PROVE TotalLen(r) + 1 <= Context + Joining + 8
    <3>1. r \in ReqId /\ seqs[r].outputs \in Nat /\ seqs[r].seq_no \in Nat
      BY LiveAreIds DEF CallerInv
    <3>2. \/ seqs[r].outputs = steps.total - seqs[r].seq_no + 0
          \/ seqs[r].outputs = steps.total - seqs[r].seq_no + 1
      BY <1>5 DEF PaceInv, Paced, JoinedAt
    <3>3. seqs[r].prompt = Context \/ seqs[r].prompt = Joining
      BY <1>5 DEF PlanInv, Asked
    <3>4. seqs[r].outputs <= 5
      BY <2>1, <3>1, <3>2
    <3> QED
      BY <3>1, <3>3, <3>4, Parameters DEF TotalLen
  <2>4. Context + Joining + 8 \in Nat
    BY Parameters
  <2>5. Cardinality(Live) <= 2
    BY <1>1, <2>1
  <2> QED
    BY <2>2, <2>3, <2>4, <2>5, RoomForAll
<1> QED
  BY <1>2, <1>3, <1>4, <1>5, ProbeAssumption DEF Probing

-----------------------------------------------------------------------------
(***************************************************************************)
(* A step of a probe goes as planned.                                      *)
(***************************************************************************)
LEMMA AskedKept ==
  ASSUME SchedInv, Asked, Live' \subseteq Live, \A q \in ReqId : SameRequest(q), mode' = mode
  PROVE  Asked'
<1>1. \A r \in Live' : r \in Live /\ r \in ReqId /\ SameRequest(r)
  BY LiveAreIds
<1> QED
  BY <1>1 DEF Asked, SameRequest

LEMMA InsideStep ==
  ASSUME CallerInv, PlanInv, UNCHANGED probe_vars, pc # "idle", pc' # "idle",
         steps' = steps, seq_counter' = seq_counter, Live' \subseteq Live,
         Serving' \/ (Live' = Live /\ ~Serving), \A q \in ReqId : SameRequest(q)
  PROVE  /\ Asked' /\ Clock' /\ LabelKnown'
         /\ UNCHANGED <<requests, retiring>> => NobodyDone'
         /\ UNCHANGED partition /\ (Serving' => Serving) => StepsKnown'
<1>1. mode' = mode /\ script' = script /\ label' = label
  BY DEF probe_vars
<1>2. Done' = Done
  BY <1>1 DEF Done
<1>3. Asked'
  BY <1>1, AskedKept DEF CallerInv, PlanInv
<1>4. Clock'
  <2>1. PrefillClock => PrefillClock'
    BY <1>2 DEF PrefillClock
  <2>2. DecodeClock => DecodeClock'
    BY <1>2 DEF DecodeClock
  <2>3. MixedClock => MixedClock'
    BY <1>2 DEF MixedClock
  <2>4. SmokeClock => SmokeClock'
    BY <1>1, <1>2 DEF SmokeClock
  <2> QED
    BY <1>1, <2>1, <2>2, <2>3, <2>4 DEF PlanInv, Clock
<1>5. LabelKnown'
  BY <1>1, <1>2 DEF PlanInv, LabelKnown
<1>6. Early' => Early
  BY <1>1 DEF Early
<1>7. UNCHANGED <<requests, retiring>> => NobodyDone'
  BY <1>6 DEF PlanInv, NobodyDone
<1>8. ASSUME UNCHANGED partition, Serving' => Serving PROVE StepsKnown'
  <2>1. /\ StepIs(steps.total, partition)' <=> StepIs(steps.total, partition)
        /\ StepIs(steps.total - 1, steps.last)' <=> StepIs(steps.total - 1, steps.last)
    BY <1>1, <1>8 DEF StepIs
  <2> QED
    BY <1>8, <2>1 DEF PlanInv, StepsKnown
<1> QED
  BY <1>3, <1>4, <1>5, <1>7, <1>8

LEMMA SampleLastPlanned ==
  ASSUME CallerInv, PaceInv, PlanInv, Probing, mode \in Modes, UNCHANGED probe_vars,
         NEW r \in ReqId, MSampleLast(r, FALSE), \A q \in ReqId : SameRequest(q)
  PROVE  PaceInv' /\ PlanInv'
<1>1. /\ SampleLast(r, FALSE) /\ UNCHANGED <<preemptions_total, steps, partition>>
      /\ mode' = mode
  BY DEF MSampleLast, probe_vars
<1>2. /\ PaceInv' /\ Live' = Live \ {r} /\ Serving /\ Serving' /\ pc # "idle" /\ pc' # "idle"
      /\ seq_counter' = seq_counter /\ r \in Live
      /\ seqs[r].outputs + 1 >= seqs[r].max_tokens
      /\ seqs[r].outputs = steps.total - JoinedAt(r)
  BY <1>1, SampleLastPaced
<1>3. Asked' /\ Clock' /\ LabelKnown' /\ StepsKnown'
  BY <1>1, <1>2, InsideStep
<1>4. ~Early'
  <2>1. steps.total \in Nat /\ seqs[r].seq_no \in Nat
    BY LiveAreIds DEF CallerInv, MetricsInv, MetricsTypes
  <2>2. CASE mode = "decode"
    <3>1. seqs[r].max_tokens = K + 1 /\ JoinedAt(r) = 0
      BY <1>2, <2>2 DEF PlanInv, Asked, DecodeTokens, JoinedAt
    <3>2. steps.total >= K
      BY <1>2, <2>1, <3>1, Parameters
    <3> QED
      BY <1>1, <1>2, <2>1, <2>2, <3>2, Parameters DEF Early
  <2>3. CASE mode = "mixed"
    <3>1. seqs[r].max_tokens >= 8 /\ JoinedAt(r) = seqs[r].seq_no
      BY <1>2, <2>3 DEF PlanInv, Asked, JoinedAt
    <3>2. steps.total <= 4
      BY <1>2, <2>3 DEF PlanInv, Clock, MixedClock
    <3>3. seqs[r].max_tokens \in Nat
      BY LiveAreIds DEF CallerInv
    <3> QED
      BY <1>2, <2>1, <3>1, <3>2, <3>3
  <2>4. CASE mode = "smoke"
    <3>1. seqs[r].max_tokens = 3 /\ JoinedAt(r) = 0
      BY <1>2, <2>4 DEF PlanInv, Asked, JoinedAt
    <3>2. steps.total >= 2
      BY <1>2, <2>1, <3>1
    <3> QED
      BY <1>1, <2>1, <2>4, <3>2 DEF Early
  <2> QED
    BY <1>1, <2>2, <2>3, <2>4 DEF Early
<1> QED
  BY <1>2, <1>3, <1>4 DEF PlanInv, NobodyDone

LEMMA StepEndsPlanned ==
  ASSUME CallerInv, PaceInv, PlanInv, UNCHANGED probe_vars, MStepEnds,
         \A q \in ReqId : SameRequest(q)
  PROVE  PaceInv' /\ PlanInv'
<1>1. mode' = mode /\ script' = script /\ label' = label
  BY DEF probe_vars
<1>2. /\ PaceInv' /\ Live' = Live /\ Serving /\ ~Serving' /\ pc # "idle" /\ pc' = "idle"
      /\ seq_counter' = seq_counter
  BY <1>1, StepEndsPaced
<1>3. /\ steps'.total = steps.total + 1 /\ steps'.last = partition /\ retiring = << >>
      /\ requests' = requests /\ retiring' = retiring /\ steps.total \in Nat
  BY DEF MStepEnds, CallerInv, MetricsInv, MetricsTypes
<1>4. Done' = Done
  BY <1>1 DEF Done
<1>5. Asked'
  BY <1>1, <1>2, AskedKept DEF CallerInv, PlanInv
<1>6. Clock'
  <2>1. PrefillClock => PrefillClock'
    <3>1. seq_counter \in Nat
      BY LiveCount
    <3> QED
      BY <1>2, <1>3, <1>4, <3>1 DEF PrefillClock
  <2>2. DecodeClock => DecodeClock'
    BY <1>2, <1>3, <1>4, Parameters DEF DecodeClock
  <2>3. MixedClock => MixedClock'
    BY <1>2, <1>3, <1>4 DEF MixedClock
  <2>4. SmokeClock => SmokeClock'
    BY <1>1, <1>2, <1>3, <1>4 DEF SmokeClock
  <2> QED
    BY <1>1, <2>1, <2>2, <2>3, <2>4 DEF PlanInv, Clock
<1>7. LabelKnown'
  BY <1>1, <1>2, <1>4 DEF PlanInv, LabelKnown
<1>8. NobodyDone'
  <2>1. Early' => Early
    BY <1>1, <1>3, Parameters DEF Early
  <2> QED
    BY <1>3, <2>1 DEF PlanInv, NobodyDone
<1>9. StepsKnown'
  <2>1. StepIs(steps.total, partition)
    BY <1>2 DEF PlanInv, StepsKnown
  <2>2. steps'.total # 0 /\ steps'.total - 1 = steps.total
    BY <1>3
  <2>3. StepIs(steps.total - 1, steps.last)'
    BY <1>1, <1>3, <2>1, <2>2 DEF StepIs
  <2> QED
    BY <1>2, <2>2, <2>3 DEF StepsKnown
<1> QED
  BY <1>2, <1>5, <1>6, <1>7, <1>8, <1>9 DEF PlanInv

LEMMA StepRunsPlanned ==
  ASSUME CallerInv, PaceInv, PlanInv, Probing, mode \in Modes, StepRuns
  PROVE  PaceInv' /\ PlanInv'
<1>1. /\ StepGoesOn /\ UNCHANGED probe_vars /\ mode' = mode
      /\ \A q \in ReqId : SameRequest(q)
  BY RequestsKept DEF StepRuns, probe_vars, CallerInv
<1>2. pc # "idle" => Roomy
  BY PlanIsRoomy
<1>3. CASE Quiet \/ \E r \in ReqId : MSampleNext(r, FALSE)
  <2>1. /\ steps' = steps /\ partition' = partition /\ requests' = requests
        /\ retiring' = retiring /\ UNCHANGED metrics_vars
    BY <1>3 DEF Quiet, MSampleNext, metrics_vars
  <2>2. /\ PaceInv' /\ Live' = Live /\ pc # "idle" /\ pc' # "idle" /\ seq_counter' = seq_counter
        /\ (Serving /\ Serving') \/ (~Serving /\ ~Serving')
    <3>1. CASE AdmitHead
      BY <1>1, <2>1, <3>1, AdmitPaced
    <3>2. CASE CloseAdmission
      BY <1>1, <1>2, <2>1, <3>2, ClosePaced DEF CloseAdmission
    <3>3. CASE Grow
      BY <1>1, <1>2, <2>1, <3>3, GrowPaced DEF Grow
    <3>4. ASSUME NEW r \in ReqId, SampleNext(r, FALSE)
          PROVE  /\ PaceInv' /\ Live' = Live /\ pc # "idle" /\ pc' # "idle"
                 /\ seq_counter' = seq_counter /\ Serving /\ Serving'
      BY <1>1, <2>1, <3>4, SampleNextPaced
    <3> QED
      BY <1>3, <3>1, <3>2, <3>3, <3>4, NoOtherMoves DEF Quiet, MSampleNext
  <2>3. Asked' /\ Clock' /\ LabelKnown' /\ NobodyDone' /\ StepsKnown'
    BY <1>1, <2>1, <2>2, InsideStep
  <2> QED
    BY <2>2, <2>3 DEF PlanInv
<1>4. CASE MForward
  <2>1. /\ Forward /\ steps' = steps /\ requests' = requests /\ retiring' = retiring
        /\ preemptions_total' = preemptions_total
    BY <1>4 DEF MForward
  <2>2. /\ PaceInv' /\ Live' = Live /\ ~Serving /\ Serving' /\ pc # "idle" /\ pc' # "idle"
        /\ seq_counter' = seq_counter
    BY <1>1, <2>1, ForwardPaced
  <2>3. Asked' /\ Clock' /\ LabelKnown' /\ NobodyDone'
    BY <1>1, <2>1, <2>2, InsideStep
  <2>4. StepsKnown'
    <3>1. StepIs(steps.total, partition')
      BY <1>4, ForwardIsPlanned
    <3>2. StepIs(steps.total, partition)'
      BY <1>1, <2>1, <3>1 DEF StepIs
    <3>3. StepIs(steps.total - 1, steps.last)' <=> StepIs(steps.total - 1, steps.last)
      BY <1>1, <2>1 DEF StepIs
    <3> QED
      BY <2>1, <3>2, <3>3 DEF PlanInv, StepsKnown
  <2> QED
    BY <2>2, <2>3, <2>4 DEF PlanInv
<1>5. CASE Retire
  <2>1. /\ steps' = steps /\ partition' = partition /\ retiring # << >>
    BY <1>5 DEF Retire
  <2>2. /\ PaceInv' /\ Live' = Live /\ Serving /\ Serving' /\ pc # "idle" /\ pc' # "idle"
        /\ seq_counter' = seq_counter
    BY <1>1, <1>5, RetirePaced
  <2>3. Asked' /\ Clock' /\ LabelKnown' /\ StepsKnown'
    BY <1>1, <2>1, <2>2, InsideStep
  <2>4. ~Early'
    <3>1. ~Early
      BY <2>1 DEF PlanInv, NobodyDone
    <3>2. Early' => Early
      BY <1>1, <2>1, <2>2 DEF Early
    <3> QED
      BY <3>1, <3>2
  <2> QED
    BY <2>2, <2>3, <2>4 DEF PlanInv, NobodyDone
<1>6. ASSUME NEW r \in ReqId, MSampleLast(r, FALSE) PROVE PaceInv' /\ PlanInv'
  BY <1>1, <1>6, SampleLastPlanned
<1>7. CASE MStepEnds
  BY <1>1, <1>7, StepEndsPlanned
<1> QED
  BY <1>1, <1>3, <1>4, <1>5, <1>6, <1>7, NoOtherMoves DEF StepGoesOn, MMakeRoom

-----------------------------------------------------------------------------
(***************************************************************************)
(* The scripts, command by command.                                        *)
(***************************************************************************)
LEMMA Pops ==
  ASSUME ScriptInv, ScriptLeft, mode \in Modes
  PROVE  /\ Len(script) \in Nat /\ Len(Script(mode)) \in Nat /\ Done \in Nat
         /\ Len(script) = Len(Script(mode)) - Done
         /\ script # << >> => /\ Head(script) = Script(mode)[Done + 1]
                              /\ Done < Len(Script(mode))
         /\ script # << >> /\ script' = Tail(script) /\ mode' = mode =>
              Done' = Done + 1 /\ ScriptLeft'
         /\ script' = script /\ mode' = mode => Done' = Done /\ ScriptLeft'
<1>1. /\ script \in Seq(Commands) /\ Len(script) \in Nat
      /\ Script(mode) \in Seq(Commands) /\ Len(Script(mode)) \in Nat
  BY ScriptsAreCommands DEF ScriptInv
<1>2. Done \in Nat /\ Len(script) = Len(Script(mode)) - Done
  BY <1>1 DEF ScriptLeft, Done
<1>3. ASSUME script # << >>
      PROVE  /\ Head(script) = Script(mode)[Done + 1] /\ Done < Len(Script(mode))
             /\ script' = Tail(script) /\ mode' = mode => Done' = Done + 1 /\ ScriptLeft'
  <2>1. Len(script) >= 1 /\ Head(script) = script[1]
    BY <1>1, <1>3
  <2>2. Head(script) = Script(mode)[Done + 1] /\ Done < Len(Script(mode))
    BY <1>1, <1>2, <2>1 DEF ScriptLeft
  <2>3. ASSUME script' = Tail(script), mode' = mode PROVE Done' = Done + 1 /\ ScriptLeft'
    <3>1. Len(script') = Len(script) - 1 /\ \A i \in 1 .. Len(script') : script'[i] = script[i + 1]
      BY <1>1, <1>3, <2>3
    <3>2. Done' = Done + 1
      <4>1. Done' = Len(Script(mode)) - Len(script') /\ Done = Len(Script(mode)) - Len(script)
        BY <2>3 DEF Done
      <4> QED
        BY <1>1, <3>1, <4>1
    <3>3. \A i \in 1 .. Len(script') : script'[i] = Script(mode)[Done + 1 + i]
      <4> SUFFICES ASSUME NEW i \in 1 .. Len(script')
                   PROVE  script'[i] = Script(mode)[Done + 1 + i]
        OBVIOUS
      <4>1. i + 1 \in 1 .. Len(script) /\ Done + (i + 1) = Done + 1 + i
        BY <1>1, <1>2, <3>1
      <4>2. script[i + 1] = Script(mode)[Done + (i + 1)]
        BY <4>1 DEF ScriptLeft
      <4> QED
        BY <3>1, <4>1, <4>2
    <3> QED
      BY <1>2, <2>3, <3>2, <3>3 DEF ScriptLeft
  <2> QED
    BY <2>2, <2>3
<1>4. script' = script /\ mode' = mode => Done' = Done /\ ScriptLeft'
  BY DEF Done, ScriptLeft
<1> QED
  BY <1>1, <1>2, <1>3, <1>4

LEMMA LensAreLengths ==
  Lens \in Seq(Nat) /\ Len(Lens) \in Nat /\ Len(Lens) >= 1
<1>1. Lengths \in Seq(Nat) /\ Lengths # << >>
  BY ProbeAssumption
<1>2. Longest \in Nat
  <2>1. IsFiniteSet(ToSet(Lengths)) /\ ToSet(Lengths) \in SUBSET Nat
    BY <1>1, FiniteToSet, ToSetOfSeq
  <2>2. 1 \in 1 .. Len(Lengths)
    BY <1>1
  <2>3. ToSet(Lengths) # {}
    BY <1>1, <2>2, InToSet
  <2> QED
    BY <2>1, <2>3, LongestIsALength DEF Longest
<1>3. <<Longest>> \in Seq(Nat) /\ Len(<<Longest>>) = 1
  BY <1>2
<1> QED
  BY <1>1, <1>3, ConcatProperties DEF Lens

LEMMA PrefillCommands ==
  /\ Len(PrefillScript) = 2 * Len(Lens)
  /\ \A c \in Nat : c < Len(Lens) =>
       /\ PrefillScript[2 * c + 1] = Sub(Lens[c + 1], 1)
       /\ PrefillScript[2 * c + 2] = [do |-> "drain", label |-> "prefill", len |-> Lens[c + 1]]
<1> DEFINE n == 2 * Len(Lens)
           at(i) == PrefillProbe(Lens[(i + 1) \div 2])[IF (i % 2) = 1 THEN 1 ELSE 2]
<1>1. PrefillScript = [i \in 1 .. n |-> at(i)]
  BY DEF PrefillScript, Lens
<1>2. n \in Nat
  BY LensAreLengths
<1>3. Len(PrefillScript) = n /\ \A i \in 1 .. n : PrefillScript[i] = at(i)
  <2> HIDE DEF n, at
  <2> QED
    BY <1>1, <1>2
<1>4. \A c, l \in Nat : c < l =>
        /\ 2 * c + 1 \in 1 .. 2 * l /\ (2 * c + 1 + 1) \div 2 = c + 1 /\ ((2 * c + 1) % 2) = 1
        /\ 2 * c + 2 \in 1 .. 2 * l /\ (2 * c + 2 + 1) \div 2 = c + 1 /\ ((2 * c + 2) % 2) = 0
  OBVIOUS
<1>5. ASSUME NEW c \in Nat, c < Len(Lens)
      PROVE  /\ PrefillScript[2 * c + 1] = Sub(Lens[c + 1], 1)
             /\ PrefillScript[2 * c + 2]
                  = [do |-> "drain", label |-> "prefill", len |-> Lens[c + 1]]
  <2>1. /\ 2 * c + 1 \in 1 .. n /\ (2 * c + 1 + 1) \div 2 = c + 1 /\ ((2 * c + 1) % 2) = 1
        /\ 2 * c + 2 \in 1 .. n /\ (2 * c + 2 + 1) \div 2 = c + 1 /\ ((2 * c + 2) % 2) = 0
    BY <1>4, <1>5, LensAreLengths
  <2>2. /\ PrefillProbe(Lens[c + 1])[1] = Sub(Lens[c + 1], 1)
        /\ PrefillProbe(Lens[c + 1])[2]
             = [do |-> "drain", label |-> "prefill", len |-> Lens[c + 1]]
    BY DEF PrefillProbe
  <2>3. /\ at(2 * c + 1) = PrefillProbe(Lens[c + 1])[1]
        /\ at(2 * c + 2) = PrefillProbe(Lens[c + 1])[2]
    BY <2>1
  <2> HIDE DEF n, at
  <2> QED
    BY <1>3, <2>1, <2>2, <2>3
<1> QED
  BY <1>3, <1>5

LEMMA Joined ==
  ASSUME NEW S, NEW s \in Seq(S), NEW t \in Seq(S)
  PROVE  /\ s \o t \in Seq(S) /\ Len(s \o t) = Len(s) + Len(t)
         /\ \A i \in 1 .. Len(s) : (s \o t)[i] = s[i]
         /\ \A i \in 1 .. Len(t) : (s \o t)[Len(s) + i] = t[i]
<1>1. Len(s) \in Nat /\ Len(t) \in Nat
  OBVIOUS
<1>2. /\ s \o t \in Seq(S) /\ Len(s \o t) = Len(s) + Len(t)
      /\ \A i \in 1 .. Len(s) + Len(t) : (s \o t)[i] = IF i <= Len(s) THEN s[i] ELSE t[i - Len(s)]
  BY ConcatProperties
<1>3. ASSUME NEW i \in 1 .. Len(s) PROVE (s \o t)[i] = s[i]
  BY <1>1, <1>2
<1>4. ASSUME NEW i \in 1 .. Len(t) PROVE (s \o t)[Len(s) + i] = t[i]
  <2>1. Len(s) + i \in 1 .. Len(s) + Len(t) /\ ~(Len(s) + i <= Len(s)) /\ Len(s) + i - Len(s) = i
    BY <1>1
  <2> QED
    BY <1>2, <2>1
<1> QED
  BY <1>2, <1>3, <1>4

LEMMA DecodeCommands ==
  /\ Len(DecodeScript) = Batch + K + 2
  /\ \A i \in 1 .. Batch : DecodeScript[i] = Sub(DecodePrompt, DecodeTokens)
  /\ DecodeScript[Batch + 1] = [do |-> "fill"]
  /\ \A i \in 1 .. K :
       DecodeScript[Batch + 1 + i] = [do |-> "step", label |-> "decode", context |-> Target - K + i]
  /\ DecodeScript[Batch + K + 2] = [do |-> "drain"]
<1> DEFINE a == Times(Batch, Sub(DecodePrompt, DecodeTokens))
           b == <<[do |-> "fill"]>>
           c == [i \in 1 .. K |-> [do |-> "step", label |-> "decode", context |-> Target - K + i]]
           d == <<[do |-> "drain"]>>
           S == Commands
<1>1. K \in Nat /\ Batch \in Nat /\ Target \in Nat
  BY Parameters
<1>2. a \in Seq(S) /\ Len(a) = Batch /\ \A i \in 1 .. Batch : a[i] = Sub(DecodePrompt, DecodeTokens)
  <2>1. Sub(DecodePrompt, DecodeTokens) \in Commands
    BY <1>1, SubIsCommand DEF DecodePrompt, DecodeTokens
  <2>2. /\ a \in [1 .. Batch -> Commands] /\ a \in Seq(Commands)
        /\ \A i \in 1 .. Batch : a[i] = Sub(DecodePrompt, DecodeTokens)
    BY <1>1, <2>1 DEF Times
  <2> QED
    BY <1>1, <2>2
<1>3. b \in Seq(S) /\ Len(b) = 1 /\ b[1] = [do |-> "fill"]
  BY DEF Commands
<1>4. c \in Seq(S) /\ Len(c) = K
      /\ \A i \in 1 .. K : c[i] = [do |-> "step", label |-> "decode", context |-> Target - K + i]
  <2>1. ASSUME NEW i \in 1 .. K
        PROVE  [do |-> "step", label |-> "decode", context |-> Target - K + i] \in Commands
    <3>1. Target - K + i \in Int
      BY <1>1
    <3> QED
      BY <3>1 DEF Commands, Labels
  <2>2. /\ c \in [1 .. K -> Commands]
        /\ \A i \in 1 .. K : c[i] = [do |-> "step", label |-> "decode", context |-> Target - K + i]
    BY <2>1
  <2> HIDE DEF c
  <2>3. c \in Seq(Commands) /\ Len(c) = K
    BY <1>1, <2>2
  <2> QED
    BY <2>2, <2>3
<1>5. d \in Seq(S) /\ Len(d) = 1 /\ d[1] = [do |-> "drain"]
  BY DEF Commands
<1>6. DecodeScript = ((a \o b) \o c) \o d
  BY DEF DecodeScript
<1> HIDE DEF a, b, c, d, S
<1> DEFINE ab == a \o b
           abc == ab \o c
<1>7. /\ ab \in Seq(S) /\ Len(ab) = Batch + 1
      /\ \A i \in 1 .. Batch : ab[i] = a[i]
      /\ ab[Batch + 1] = b[1]
  <2>1. /\ ab \in Seq(S) /\ Len(ab) = Len(a) + Len(b)
        /\ \A i \in 1 .. Len(a) : ab[i] = a[i]
        /\ \A i \in 1 .. Len(b) : ab[Len(a) + i] = b[i]
    <3>1. a \in Seq(S) /\ b \in Seq(S)
      BY <1>2, <1>3
    <3> QED
      BY <3>1, Joined
  <2> HIDE DEF ab
  <2> QED
    BY <1>1, <1>2, <1>3, <2>1
<1> HIDE DEF ab
<1>8. /\ abc \in Seq(S) /\ Len(abc) = Batch + 1 + K
      /\ \A i \in 1 .. Batch + 1 : abc[i] = ab[i]
      /\ \A i \in 1 .. K : abc[Batch + 1 + i] = c[i]
  <2>1. /\ abc \in Seq(S) /\ Len(abc) = Len(ab) + Len(c)
        /\ \A i \in 1 .. Len(ab) : abc[i] = ab[i]
        /\ \A i \in 1 .. Len(c) : abc[Len(ab) + i] = c[i]
    <3>1. ab \in Seq(S) /\ c \in Seq(S)
      BY <1>4, <1>7
    <3> QED
      BY <3>1, Joined
  <2> HIDE DEF abc
  <2> QED
    BY <1>1, <1>4, <1>7, <2>1
<1>9. /\ Len(DecodeScript) = Batch + 1 + K + 1
      /\ \A i \in 1 .. Batch + 1 + K : DecodeScript[i] = abc[i]
      /\ DecodeScript[Batch + 1 + K + 1] = d[1]
  <2>1. DecodeScript = abc \o d
    BY <1>6 DEF ab
  <2> HIDE DEF abc
  <2>2. /\ Len(abc \o d) = Len(abc) + Len(d)
        /\ \A i \in 1 .. Len(abc) : (abc \o d)[i] = abc[i]
        /\ \A i \in 1 .. Len(d) : (abc \o d)[Len(abc) + i] = d[i]
    <3>1. abc \in Seq(S) /\ d \in Seq(S)
      BY <1>5, <1>8
    <3> QED
      BY <3>1, Joined
  <2>3. 1 \in 1 .. Len(d)
    BY <1>5
  <2> QED
    BY <1>1, <1>5, <1>8, <2>1, <2>2, <2>3
<1> HIDE DEF abc
<1>10. \A i \in 1 .. Batch : DecodeScript[i] = Sub(DecodePrompt, DecodeTokens)
  BY <1>1, <1>2, <1>7, <1>8, <1>9
<1>11. DecodeScript[Batch + 1] = [do |-> "fill"]
  BY <1>1, <1>3, <1>7, <1>8, <1>9
<1>12. ASSUME NEW i \in 1 .. K
       PROVE  DecodeScript[Batch + 1 + i]
                = [do |-> "step", label |-> "decode", context |-> Target - K + i]
  <2>1. Batch + 1 + i \in 1 .. Batch + 1 + K
    BY <1>1
  <2> QED
    BY <1>4, <1>8, <1>9, <2>1
<1>13. Batch + 1 + K + 1 = Batch + K + 2
  BY <1>1
<1> QED
  BY <1>5, <1>9, <1>10, <1>11, <1>12, <1>13

LEMMA MixedCommands ==
  /\ Len(MixedScript) = 7
  /\ MixedScript[1] = Sub(Context, 64) /\ MixedScript[2] = [do |-> "fill"]
  /\ MixedScript[3] = Sub(Joining, 8)
  /\ MixedScript[4] = [do |-> "step", label |-> "joins"]
  /\ \A i \in 5 .. 7 : MixedScript[i] = [do |-> "step", label |-> "together"]
<1> DEFINE a == <<Sub(Context, 64), [do |-> "fill"], Sub(Joining, 8)>>
           b == [i \in 1 .. 4 |-> [do |-> "step", label |-> IF i = 1 THEN "joins" ELSE "together"]]
           S == Commands
<1>1. /\ a \in Seq(S) /\ Len(a) = 3
      /\ a[1] = Sub(Context, 64) /\ a[2] = [do |-> "fill"] /\ a[3] = Sub(Joining, 8)
  <2>1. Sub(Context, 64) \in Commands /\ Sub(Joining, 8) \in Commands
    BY Parameters, SubIsCommand
  <2>2. [do |-> "fill"] \in Commands
    BY DEF Commands
  <2> QED
    BY <2>1, <2>2
<1>2. /\ b \in Seq(S) /\ Len(b) = 4
      /\ b[1] = [do |-> "step", label |-> "joins"]
      /\ \A i \in 2 .. 4 : b[i] = [do |-> "step", label |-> "together"]
  <2>1. \A i \in 1 .. 4 : [do |-> "step", label |-> IF i = 1 THEN "joins" ELSE "together"]
                            \in Commands
    BY DEF Commands, Labels
  <2>2. b \in [1 .. 4 -> Commands]
    BY <2>1
  <2>3. /\ b[1] = [do |-> "step", label |-> "joins"]
        /\ \A i \in 2 .. 4 : b[i] = [do |-> "step", label |-> "together"]
    OBVIOUS
  <2> HIDE DEF b
  <2>4. b \in Seq(Commands) /\ Len(b) = 4
    BY <2>2
  <2> QED
    BY <2>3, <2>4
<1>3. MixedScript = a \o b
  BY DEF MixedScript
<1> HIDE DEF a, b, S
<1>4. /\ Len(a \o b) = 7 /\ \A i \in 1 .. 3 : (a \o b)[i] = a[i]
      /\ \A i \in 4 .. 7 : (a \o b)[i] = b[i - 3]
  <2> DEFINE ab == a \o b
  <2>1. /\ Len(ab) = Len(a) + Len(b) /\ \A i \in 1 .. Len(a) : ab[i] = a[i]
        /\ \A i \in 1 .. Len(b) : ab[Len(a) + i] = b[i]
    <3>1. a \in Seq(S) /\ b \in Seq(S)
      BY <1>1, <1>2
    <3> QED
      BY <3>1, Joined
  <2>2. \A i \in 4 .. 7 : i - 3 \in 1 .. 4 /\ 3 + (i - 3) = i
    OBVIOUS
  <2> HIDE DEF ab
  <2>3. Len(ab) = 7 /\ \A i \in 1 .. 3 : ab[i] = a[i]
    BY <1>1, <1>2, <2>1
  <2>4. \A i \in 4 .. 7 : ab[i] = b[i - 3]
    BY <1>1, <1>2, <2>1, <2>2
  <2> QED
    BY <2>3, <2>4 DEF ab
<1>5. \A i \in 5 .. 7 : MixedScript[i] = [do |-> "step", label |-> "together"]
  <2>1. \A i \in 5 .. 7 : i - 3 \in 2 .. 4 /\ i \in 4 .. 7
    OBVIOUS
  <2> QED
    BY <1>2, <1>3, <1>4, <2>1
<1>6. MixedScript[1] = a[1] /\ MixedScript[2] = a[2] /\ MixedScript[3] = a[3]
  <2>1. 1 \in 1 .. 3 /\ 2 \in 1 .. 3 /\ 3 \in 1 .. 3
    OBVIOUS
  <2> QED
    BY <1>3, <1>4, <2>1
<1>7. MixedScript[4] = b[1]
  <2>1. 4 \in 4 .. 7 /\ 4 - 3 = 1
    OBVIOUS
  <2> QED
    BY <1>3, <1>4, <2>1
<1>8. Len(MixedScript) = 7
  BY <1>3, <1>4
<1>9. MixedScript[4] = [do |-> "step", label |-> "joins"]
  BY <1>2, <1>7
<1>10. /\ MixedScript[1] = Sub(Context, 64) /\ MixedScript[2] = [do |-> "fill"]
       /\ MixedScript[3] = Sub(Joining, 8)
  BY <1>1, <1>6
<1> QED
  BY <1>5, <1>8, <1>9, <1>10

LEMMA SmokeCommands ==
  /\ Len(SmokeScript) = 3 /\ SmokeScript[1] = Sub(17, 3)
  /\ SmokeScript[2] = [do |-> "step", label |-> "first"]
  /\ SmokeScript[3] = [do |-> "drain", label |-> "smoke"]
  BY DEF SmokeScript

LEMMA PrefillNext ==
  ASSUME ScriptInv, ScriptLeft, mode \in Modes, mode = "prefill", script # << >>, NEW c \in Nat
  PROVE  /\ Done = 2 * c => c < Len(Lens) /\ Head(script) = Sub(Lens[c + 1], 1)
         /\ Done = 2 * c + 1 =>
              /\ c < Len(Lens)
              /\ Head(script) = [do |-> "drain", label |-> "prefill", len |-> Lens[c + 1]]
<1>1. /\ Head(script) = PrefillScript[Done + 1] /\ Done \in Nat /\ Done < 2 * Len(Lens)
      /\ Len(Lens) \in Nat
  BY Pops, PrefillCommands, LensAreLengths DEF Script
<1>2. \A l \in Nat : 2 * c < 2 * l \/ 2 * c + 1 < 2 * l => c < l
  OBVIOUS
<1>3. CASE Done = 2 * c
  <2>1. c < Len(Lens) /\ Head(script) = PrefillScript[2 * c + 1] /\ Done # 2 * c + 1
    BY <1>1, <1>2, <1>3
  <2>2. PrefillScript[2 * c + 1] = Sub(Lens[c + 1], 1)
    BY <2>1, PrefillCommands
  <2> QED
    BY <2>1, <2>2
<1>4. CASE Done = 2 * c + 1
  <2>1. c < Len(Lens) /\ Done + 1 = 2 * c + 2 /\ Done # 2 * c
    BY <1>1, <1>2, <1>4
  <2>2. PrefillScript[2 * c + 2] = [do |-> "drain", label |-> "prefill", len |-> Lens[c + 1]]
    BY <2>1, PrefillCommands
  <2>3. Head(script) = PrefillScript[2 * c + 2]
    BY <1>1, <2>1
  <2> QED
    BY <2>1, <2>2, <2>3
<1> QED
  BY <1>3, <1>4

LEMMA DecodeNext ==
  ASSUME ScriptInv, ScriptLeft, mode \in Modes, mode = "decode", script # << >>
  PROVE  /\ Done < Batch + K + 2
         /\ Done < Batch => Head(script) = Sub(DecodePrompt, DecodeTokens)
         /\ Done = Batch => Head(script) = [do |-> "fill"]
         /\ Done \in Batch + 1 .. Batch + K =>
              Head(script) = [do |-> "step", label |-> "decode",
                              context |-> Target - K + (Done - Batch)]
         /\ Done = Batch + K + 1 => Head(script) = [do |-> "drain"]
<1>1. /\ Head(script) = DecodeScript[Done + 1] /\ Done \in Nat /\ Done < Batch + K + 2
      /\ Batch \in Nat /\ K \in Nat
  BY Pops, DecodeCommands, Parameters DEF Script
<1>2. CASE Done < Batch
  <2>1. Done + 1 \in 1 .. Batch /\ ~(Done \in Batch + 1 .. Batch + K) /\ Done # Batch
        /\ Done # Batch + K + 1
    BY <1>1, <1>2
  <2> QED
    BY <1>1, <2>1, DecodeCommands
<1>3. CASE Done = Batch
  <2>1. ~(Done < Batch) /\ ~(Done \in Batch + 1 .. Batch + K) /\ Done # Batch + K + 1
    BY <1>1, <1>3
  <2> QED
    BY <1>1, <1>3, <2>1, DecodeCommands
<1>4. CASE Done \in Batch + 1 .. Batch + K
  <2>1. Done - Batch \in 1 .. K /\ Batch + 1 + (Done - Batch) = Done + 1
        /\ ~(Done < Batch) /\ Done # Batch /\ Done # Batch + K + 1
    BY <1>1, <1>4
  <2> QED
    BY <1>1, <2>1, DecodeCommands
<1>5. CASE Done = Batch + K + 1
  <2>1. Done + 1 = Batch + K + 2
        /\ ~(Done < Batch) /\ Done # Batch /\ ~(Done \in Batch + 1 .. Batch + K)
    BY <1>1, <1>5
  <2> QED
    BY <1>1, <2>1, DecodeCommands
<1> QED
  BY <1>1, <1>2, <1>3, <1>4, <1>5

LEMMA MixedNext ==
  ASSUME ScriptInv, ScriptLeft, mode \in Modes, mode = "mixed", script # << >>
  PROVE  /\ Done \in 0 .. 6
         /\ Done = 0 => Head(script) = Sub(Context, 64)
         /\ Done = 1 => Head(script) = [do |-> "fill"]
         /\ Done = 2 => Head(script) = Sub(Joining, 8)
         /\ Done = 3 => Head(script) = [do |-> "step", label |-> "joins"]
         /\ Done \in 4 .. 6 => Head(script) = [do |-> "step", label |-> "together"]
<1>1. Head(script) = MixedScript[Done + 1] /\ Done \in Nat /\ Done < 7
  BY Pops, MixedCommands DEF Script
<1>2. Done \in 4 .. 6 => Done + 1 \in 5 .. 7
  BY <1>1
<1> QED
  BY <1>1, <1>2, MixedCommands

LEMMA SmokeNext ==
  ASSUME ScriptInv, ScriptLeft, mode \in Modes, mode = "smoke", script # << >>
  PROVE  /\ Done \in 0 .. 2
         /\ Done = 0 => Head(script) = Sub(17, 3)
         /\ Done = 1 => Head(script) = [do |-> "step", label |-> "first"]
         /\ Done = 2 => Head(script) = [do |-> "drain", label |-> "smoke"]
<1>1. Head(script) = SmokeScript[Done + 1] /\ Done \in Nat /\ Done < 3
  BY Pops, SmokeCommands DEF Script
<1>2. /\ Done = 0 => Head(script) = SmokeScript[1]
      /\ Done = 1 => Head(script) = SmokeScript[2]
      /\ Done = 2 => Head(script) = SmokeScript[3]
  BY <1>1
<1>3. Done \in 0 .. 2
  BY <1>1
<1> QED
  BY <1>2, <1>3, SmokeCommands

-----------------------------------------------------------------------------
(***************************************************************************)
(* Between two steps.                                                      *)
(***************************************************************************)
LEMMA AtRest ==
  ASSUME CallerInv, PaceInv, pc = "idle"
  PROVE  /\ ~Serving /\ steps.total \in Nat /\ seq_counter \in Nat
         /\ \A r \in Live :
              /\ r \in ReqId /\ JoinedAt(r) \in Nat /\ seqs[r].outputs \in Nat
              /\ seqs[r].outputs = steps.total - JoinedAt(r)
              /\ seqs[r].outputs < seqs[r].max_tokens /\ seqs[r].max_tokens \in Nat
              /\ seqs[r].seq_no < seq_counter /\ seqs[r].seq_no \in Nat
              /\ seqs[r].prompt \in Nat
<1>1. ~Serving /\ steps.total \in Nat /\ seq_counter \in Nat
  BY LiveCount DEF Serving, Growing, CallerInv, MetricsInv, MetricsTypes
<1>2. ASSUME NEW r \in Live
      PROVE  /\ r \in ReqId /\ JoinedAt(r) \in Nat /\ seqs[r].outputs \in Nat
             /\ seqs[r].outputs = steps.total - JoinedAt(r)
             /\ seqs[r].outputs < seqs[r].max_tokens /\ seqs[r].max_tokens \in Nat
             /\ seqs[r].seq_no < seq_counter /\ seqs[r].seq_no \in Nat
             /\ seqs[r].prompt \in Nat
  <2>1. /\ r \in ReqId /\ JoinedAt(r) \in Nat /\ seqs[r].outputs \in Nat
        /\ seqs[r].max_tokens \in Nat /\ seqs[r].seq_no \in Nat /\ seqs[r].prompt \in Nat
    BY LiveAreIds DEF CallerInv, JoinedAt
  <2>2. seqs[r].outputs = steps.total - JoinedAt(r) + 0
    BY <1>1 DEF PaceInv, Paced
  <2>3. seqs[r].outputs < seqs[r].max_tokens /\ seqs[r].seq_no < seq_counter
    BY DEF CallerInv, OrderInv, LiveFits, LiveAreNumbered
  <2> QED
    BY <1>1, <2>1, <2>2, <2>3
<1> QED
  BY <1>1, <1>2

LEMMA SomebodyLives ==
  ASSUME CallerInv, PlanInv, Early, seq_counter >= 1
  PROVE  Live # {} /\ Cardinality(Live) = seq_counter
<1>1. Cardinality(Live) = seq_counter
  BY LiveCount DEF PlanInv, NobodyDone
<1> QED
  BY <1>1, FS_EmptySet

(* The fill's loop ends when everybody has a token, and only then. *)
LEMMA FilledAtOnce ==
  ASSUME CallerInv, PaceInv, pc = "idle", Live # {}, \A r \in Live : JoinedAt(r) = 0
  PROVE  Filled <=> steps.total >= 1
<1>1. /\ steps.total \in Nat
      /\ \A r \in Live : seqs[r].outputs = steps.total
  BY AtRest
<1>2. /\ \A r \in Waiting : seqs[r].outputs = 0
      /\ \A r \in Running : /\ seqs[r].outputs = 0 => seqs[r].status = "PREFILL"
                            /\ seqs[r].outputs > 0 => seqs[r].status = "DECODE"
  BY FreshOrDecoding DEF PaceInv
<1>3. CASE steps.total >= 1
  <2>1. Waiting = {} /\ \A r \in Running : seqs[r].status = "DECODE"
    BY <1>1, <1>2, <1>3 DEF Live
  <2>2. waiting = << >>
    <3>1. waiting # << >> => Head(waiting) \in ToSet(waiting)
      BY TailDistinct DEF CallerInv, SchedInv, TypeOK
    <3> QED
      BY <2>1, <3>1 DEF Waiting
  <2> QED
    BY <1>3, <2>1, <2>2 DEF Filled
<1>4. CASE steps.total = 0
  <2>1. \A r \in Running : seqs[r].status = "PREFILL"
    BY <1>1, <1>2, <1>4 DEF Live
  <2>2. Filled => Waiting = {} /\ \A r \in Running : seqs[r].status = "DECODE"
    BY DEF Filled, Waiting, ToSet
  <2>3. ~Filled
    BY <2>1, <2>2 DEF Live
  <2> QED
    BY <1>4, <2>3
<1> QED
  BY <1>1, <1>3, <1>4

LEMMA SubmitPaced ==
  ASSUME CallerInv, PaceInv, NEW r \in ReqId, NEW p \in Int, NEW m \in Int, MSubmit(r, p, m),
         mode' = mode, mode \in {"prefill", "mixed"} => seq_counter = steps.total,
         mode \notin {"prefill", "mixed"} => steps.total = 0
  PROVE  /\ PaceInv' /\ Live' = Live \cup {r} /\ pc = "idle" /\ pc' = "idle" /\ ~Serving'
         /\ seq_counter' = seq_counter + 1 /\ r \notin Live /\ Live \subseteq ReqId
         /\ \A q \in Live : seqs'[q] = seqs[q]
         /\ seqs'[r].seq_no = seq_counter /\ seqs'[r].prompt = p /\ seqs'[r].max_tokens = m
         /\ UNCHANGED <<preemptions_total, requests, retiring, steps>>
<1>1. /\ Submit(r, p, m)
      /\ UNCHANGED <<preemptions_total, requests, retiring, steps>>
  BY DEF MSubmit
<1>2. /\ r \notin Live /\ ~Serving /\ ~Serving' /\ pc = "idle" /\ pc' = "idle"
      /\ Live' = Live \cup {r}
      /\ \A q \in ReqId : q # r => seqs'[q] = seqs[q]
      /\ seqs'[r].outputs = 0 /\ seqs'[r].preempted = FALSE
      /\ seq_counter' = seq_counter + 1
  BY <1>1, SubmitEffect DEF CallerInv
<1>3. seqs'[r].seq_no = seq_counter /\ seqs'[r].prompt = p /\ seqs'[r].max_tokens = m
  <2>1. seqs'[r] = [Absent EXCEPT !.prompt = p, !.max_tokens = m, !.seq_no = seq_counter,
                                  !.status = "WAITING"]
    BY <1>1 DEF Submit, CallerInv, SchedInv, TypeOK
  <2> QED
    BY <2>1 DEF Absent
<1>4. /\ Live \subseteq ReqId /\ \A q \in Live : seqs'[q] = seqs[q] /\ seqs[q].seq_no \in Nat
      /\ \A q \in Live : seqs[q].seq_no < seq_counter
      /\ steps.total \in Nat /\ seq_counter \in Nat
  BY <1>2, AtRest, LiveAreIds DEF CallerInv
<1>5. Numbered'
  BY <1>2, <1>3, <1>4 DEF PaceInv, Numbered
<1>6. Paced'
  <2> SUFFICES ASSUME NEW q \in Live'
               PROVE  seqs'[q].outputs = steps.total - JoinedAt(q)' + 0
    BY <1>1, <1>2 DEF Paced
  <2>1. CASE q = r
    <3>1. JoinedAt(q)' = steps.total
      BY <1>3, <2>1 DEF JoinedAt
    <3> QED
      BY <1>2, <1>4, <2>1, <3>1
  <2>2. CASE q # r
    <3>1. q \in Live /\ seqs'[q] = seqs[q] /\ JoinedAt(q)' = JoinedAt(q)
      BY <1>2, <1>4, <2>2 DEF JoinedAt
    <3>2. seqs[q].outputs = steps.total - JoinedAt(q) + 0
      BY <1>2, <3>1 DEF PaceInv, Paced
    <3> QED
      BY <3>1, <3>2
  <2> QED
    BY <2>1, <2>2
<1>7. NeverPreempted' /\ AllJoin'
  BY <1>1, <1>2, <1>4 DEF PaceInv, NeverPreempted, AllJoin
<1> QED
  BY <1>1, <1>2, <1>3, <1>4, <1>5, <1>6, <1>7 DEF PaceInv

(* What the next prompt is, and when it comes. *)
LEMMA PromptInPlan ==
  ASSUME CallerInv, PaceInv, PlanInv, ScriptInv, ScriptLeft, Probing, mode \in Modes,
         Doing("submit")
  PROVE  LET p == Head(script).len
             m == Head(script).limit
         IN  /\ mode = "prefill" =>
                  /\ Done = 2 * seq_counter /\ steps.total = seq_counter
                  /\ seq_counter < Len(Lens) /\ p = Lens[seq_counter + 1] /\ m = 1
             /\ mode = "decode" =>
                  /\ Done = seq_counter /\ seq_counter < Batch /\ steps.total = 0
                  /\ p = DecodePrompt /\ m = DecodeTokens
             /\ mode = "mixed" =>
                  /\ \/ /\ Done = 0 /\ seq_counter = 0 /\ steps.total = 0
                        /\ p = Context /\ m = 64
                     \/ /\ Done = 2 /\ seq_counter = 1 /\ steps.total = 1
                        /\ p = Joining /\ m = 8
             /\ mode = "smoke" =>
                  Done = 0 /\ seq_counter = 0 /\ steps.total = 0 /\ p = 17 /\ m = 3
<1>1. /\ pc = "idle" /\ script # << >> /\ Head(script).do = "submit"
      /\ Done \in Nat /\ seq_counter \in Nat
  BY Pops, LiveCount DEF Doing, BetweenSteps
<1>2. \A l, n : /\ Sub(l, n).do = "submit" /\ Sub(l, n).len = l /\ Sub(l, n).limit = n
  BY DEF Sub
<1>3. CASE mode = "prefill"
  <2>1. Done # 2 * seq_counter - 1
    <3>1. ASSUME Done = 2 * seq_counter - 1 PROVE FALSE
      <4>1. PICK c \in Nat : c = seq_counter - 1 /\ Done = 2 * c + 1
        <5>1. seq_counter - 1 \in Nat /\ Done = 2 * (seq_counter - 1) + 1
          BY <1>1, <3>1
        <5> QED
          BY <5>1
      <4>2. Head(script).do = "drain"
        BY <1>1, <1>3, <4>1, PrefillNext
      <4> QED
        BY <1>1, <4>2
    <3> QED
      BY <3>1
  <2>2. Done = 2 * seq_counter /\ steps.total = seq_counter
    BY <1>3, <2>1 DEF PlanInv, Clock, PrefillClock
  <2>3. seq_counter < Len(Lens) /\ Head(script) = Sub(Lens[seq_counter + 1], 1)
    BY <1>1, <1>3, <2>2, PrefillNext
  <2> QED
    BY <1>2, <1>3, <2>2, <2>3
<1>4. CASE mode = "decode"
  <2>1. Done < Batch
    <3>1. Done >= Batch /\ Done < Batch + K + 2 => Head(script).do \in {"fill", "step", "drain"}
      BY <1>1, <1>4, DecodeNext, Parameters
    <3>2. Done < Batch + K + 2
      BY <1>1, <1>4, DecodeNext
    <3> QED
      BY <1>1, <3>1, <3>2, Parameters
  <2>2. Head(script) = Sub(DecodePrompt, DecodeTokens)
    BY <1>1, <1>4, <2>1, DecodeNext
  <2>3. Done = seq_counter /\ seq_counter < Batch /\ steps.total = 0
    BY <1>1, <1>4, <2>1, Parameters DEF PlanInv, Clock, DecodeClock
  <2> QED
    BY <1>2, <1>4, <2>2, <2>3
<1>5. CASE mode = "mixed"
  <2>1. /\ Done \in {0, 2}
        /\ Done = 0 => Head(script) = Sub(Context, 64)
        /\ Done = 2 => Head(script) = Sub(Joining, 8)
    <3>1. Done \in {1, 3, 4, 5, 6} => Head(script).do \in {"fill", "step"}
      BY <1>1, <1>5, MixedNext
    <3> QED
      BY <1>1, <1>5, <3>1, MixedNext
  <2>2. \/ Done = 0 /\ seq_counter = 0 /\ steps.total = 0
        \/ Done = 2 /\ seq_counter = 1 /\ steps.total = 1
    BY <1>5, <2>1 DEF PlanInv, Clock, MixedClock
  <2> QED
    BY <1>2, <1>5, <2>1, <2>2
<1>6. CASE mode = "smoke"
  <2>1. Done = 0 /\ Head(script) = Sub(17, 3)
    <3>1. /\ Done \in 0 .. 2
          /\ Done = 0 => Head(script) = Sub(17, 3)
          /\ Done = 1 => Head(script) = [do |-> "step", label |-> "first"]
          /\ Done = 2 => Head(script) = [do |-> "drain", label |-> "smoke"]
      BY <1>1, <1>6, SmokeNext
    <3>2. Done # 1
      BY <1>1, <3>1
    <3>3. Done # 2
      BY <1>1, <3>1
    <3> QED
      BY <3>1, <3>2, <3>3
  <2>2. seq_counter = 0 /\ steps.total = 0
    BY <1>6, <2>1 DEF PlanInv, Clock, SmokeClock
  <2> QED
    BY <1>2, <1>6, <2>1, <2>2
<1> QED
  BY <1>3, <1>4, <1>5, <1>6

LEMMA SubmitsPlanned ==
  ASSUME CallerInv, PaceInv, PlanInv, ScriptInv, ScriptLeft, Probing, mode \in Modes, ProbeSubmits
  PROVE  PaceInv' /\ PlanInv'
<1> DEFINE r == FreshId
           p == Head(script).len
           m == Head(script).limit
<1>1. /\ Doing("submit") /\ script # << >> /\ Unused # {} /\ MSubmit(r, p, m)
      /\ script' = Tail(script) /\ mode' = mode /\ label' = label /\ pc = "idle"
  BY DEF ProbeSubmits, Doing, BetweenSteps
<1>2. r \in ReqId
  <2>1. \A S : S # {} => (CHOOSE q \in S : TRUE) \in S
    OBVIOUS
  <2> QED
    BY <1>1, <2>1 DEF FreshId, Unused
<1>3. p \in Int /\ m \in Int
  <2>1. Head(script) \in Commands /\ Head(script).do = "submit"
    BY <1>1, HeadTailProperties DEF ScriptInv, Doing
  <2>2. Head(script) \in [do : {"submit"}, len : Int, limit : Int]
    BY <2>1 DEF Commands
  <2> QED
    BY <2>2
<1>4. /\ mode = "prefill" =>
           /\ Done = 2 * seq_counter /\ steps.total = seq_counter
           /\ seq_counter < Len(Lens) /\ p = Lens[seq_counter + 1] /\ m = 1
      /\ mode = "decode" =>
           /\ Done = seq_counter /\ seq_counter < Batch /\ steps.total = 0
           /\ p = DecodePrompt /\ m = DecodeTokens
      /\ mode = "mixed" =>
           /\ \/ Done = 0 /\ seq_counter = 0 /\ steps.total = 0 /\ p = Context /\ m = 64
              \/ Done = 2 /\ seq_counter = 1 /\ steps.total = 1 /\ p = Joining /\ m = 8
      /\ mode = "smoke" => Done = 0 /\ seq_counter = 0 /\ steps.total = 0 /\ p = 17 /\ m = 3
  BY <1>1, PromptInPlan
<1> HIDE DEF r, p, m
<1>5. mode \in {"prefill", "decode", "mixed", "smoke"}
  BY ProbeAssumption DEF Probing
<1>6. /\ PaceInv' /\ Live' = Live \cup {r} /\ pc' = "idle" /\ ~Serving'
      /\ seq_counter' = seq_counter + 1 /\ r \notin Live /\ Live \subseteq ReqId
      /\ \A q \in Live : seqs'[q] = seqs[q]
      /\ seqs'[r].seq_no = seq_counter /\ seqs'[r].prompt = p /\ seqs'[r].max_tokens = m
      /\ requests' = requests /\ retiring' = retiring /\ steps' = steps
  <2>1. mode \in {"prefill", "mixed"} => seq_counter = steps.total
    BY <1>4
  <2>2. mode \notin {"prefill", "mixed"} => steps.total = 0
    BY <1>4, <1>5
  <2> QED
    BY <1>1, <1>2, <1>3, <2>1, <2>2, SubmitPaced
<1>7. Done' = Done + 1 /\ Done \in Nat /\ seq_counter \in Nat
  BY <1>1, Pops, LiveCount
<1>8. Asked'
  <2> SUFFICES ASSUME NEW q \in Live'
               PROVE  /\ mode = "prefill" => /\ seqs'[q].seq_no < Len(Lens)
                                             /\ seqs'[q].prompt = Lens[seqs'[q].seq_no + 1]
                                             /\ seqs'[q].max_tokens = 1
                      /\ mode = "decode" => /\ seqs'[q].prompt = DecodePrompt
                                            /\ seqs'[q].max_tokens = DecodeTokens
                      /\ mode = "mixed" =>
                           \/ /\ seqs'[q].seq_no = 0 /\ seqs'[q].prompt = Context
                              /\ seqs'[q].max_tokens = 64
                           \/ /\ seqs'[q].seq_no = 1 /\ seqs'[q].prompt = Joining
                              /\ seqs'[q].max_tokens = 8
                      /\ mode = "smoke" => seqs'[q].prompt = 17 /\ seqs'[q].max_tokens = 3
    BY <1>1 DEF Asked
  <2>1. CASE q = r
    BY <1>4, <1>6, <2>1
  <2>2. CASE q # r
    BY <1>6, <2>2 DEF PlanInv, Asked
  <2> QED
    BY <2>1, <2>2
<1>9. Clock'
  <2>1. mode = "prefill" => PrefillClock'
    <3> SUFFICES ASSUME mode = "prefill" PROVE PrefillClock'
      OBVIOUS
    <3>1. seq_counter' <= Len(Lens) /\ seq_counter' >= 1 /\ Done' = 2 * seq_counter' - 1
          /\ steps'.total = seq_counter' - 1 /\ Live' # {}
      BY <1>4, <1>6, <1>7, LensAreLengths
    <3> QED
      BY <3>1 DEF PrefillClock
  <2>2. mode = "decode" => DecodeClock'
    BY <1>4, <1>6, <1>7, Parameters DEF DecodeClock
  <2>3. mode = "mixed" => MixedClock'
    BY <1>4, <1>6, <1>7 DEF MixedClock
  <2>4. mode = "smoke" => SmokeClock'
    BY <1>4, <1>6, <1>7 DEF SmokeClock
  <2> QED
    BY <1>1, <2>1, <2>2, <2>3, <2>4 DEF Clock
<1>10. NobodyDone'
  <2>1. Early' => Early
    BY <1>1, <1>4, <1>5, <1>6, AtRest DEF Early
  <2> QED
    BY <1>6, <2>1 DEF PlanInv, NobodyDone
<1>11. StepsKnown'
  <2>1. StepIs(steps.total - 1, steps.last)' <=> StepIs(steps.total - 1, steps.last)
    BY <1>1, <1>6 DEF StepIs
  <2> QED
    BY <1>6, <2>1 DEF PlanInv, StepsKnown
<1>12. LabelKnown'
  <2>1. mode # "prefill" => label = Unlabelled
    <3>1. CASE mode = "decode"
      <4>1. ~(Done \in Batch + 2 .. Batch + K + 1)
        BY <1>4, <1>7, <3>1, Parameters
      <4> QED
        BY <3>1, <4>1 DEF PlanInv, LabelKnown
    <3>2. CASE mode = "mixed"
      <4>1. ~(Done \in 4 .. 7)
        BY <1>4, <3>2
      <4> QED
        BY <3>2, <4>1 DEF PlanInv, LabelKnown
    <3>3. CASE mode = "smoke"
      <4>1. Done # 2 /\ Done # 3
        BY <1>4, <3>3
      <4> QED
        BY <3>3, <4>1 DEF PlanInv, LabelKnown
    <3> QED
      BY <1>5, <3>1, <3>2, <3>3
  <2> QED
    BY <1>1, <1>6, <2>1 DEF PlanInv, LabelKnown
<1> QED
  BY <1>6, <1>8, <1>9, <1>10, <1>11, <1>12 DEF PlanInv

(* Another step, with something to run. *)
LEMMA BeginPaced ==
  ASSUME CallerInv, PaceInv, MStepBegins, mode' = mode, Live # {}
  PROVE  /\ PaceInv' /\ Live' = Live /\ pc = "idle" /\ pc' = "admit" /\ ~Serving /\ ~Serving'
         /\ seqs' = seqs /\ \A r \in Live : JoinedAt(r)' = JoinedAt(r)
         /\ UNCHANGED <<seq_counter, waiting, running, steps, requests, retiring>>
<1>1. /\ pc = "idle" /\ pc' = "admit"
      /\ UNCHANGED <<seq_counter, waiting, running, seqs, steps, requests, retiring,
                     preemptions_total>>
  BY DEF MStepBegins, StepBegins, metrics_vars
<1>2. Live' = Live /\ ~Serving /\ ~Serving'
  BY <1>1 DEF Live, Waiting, Running, Serving, Growing
<1>3. \A r : JoinedAt(r)' = JoinedAt(r)
  BY <1>1 DEF JoinedAt
<1>4. Numbered'
  BY <1>1, <1>2 DEF PaceInv, Numbered
<1>5. Paced'
  BY <1>1, <1>2, <1>3 DEF PaceInv, Paced
<1>6. NeverPreempted' /\ AllJoin'
  BY <1>1, <1>2 DEF PaceInv, NeverPreempted, AllJoin
<1> QED
  BY <1>1, <1>2, <1>3, <1>4, <1>5, <1>6 DEF PaceInv

LEMMA BeginPlanned ==
  ASSUME PlanInv, mode' = mode, Live' = Live, seqs' = seqs, ~Serving, ~Serving',
         UNCHANGED <<steps, requests, retiring>>
  PROVE  Asked' /\ NobodyDone' /\ StepsKnown'
<1>1. Asked'
  BY DEF PlanInv, Asked
<1>2. NobodyDone'
  <2>1. Early' => Early
    BY DEF Early
  <2> QED
    BY <2>1 DEF PlanInv, NobodyDone
<1>3. StepsKnown'
  <2>1. StepIs(steps.total - 1, steps.last)' <=> StepIs(steps.total - 1, steps.last)
    BY DEF StepIs
  <2> QED
    BY <2>1 DEF PlanInv, StepsKnown
<1> QED
  BY <1>1, <1>2, <1>3

(* Where in its script a probe calls step() once, with what in the batch. *)
LEMMA StepInPlan ==
  ASSUME CallerInv, PaceInv, PlanInv, ScriptInv, ScriptLeft, Probing, mode \in Modes,
         Doing("step")
  PROVE  /\ mode # "prefill" /\ Early /\ seq_counter >= 1
         /\ mode = "decode" =>
              /\ Done \in Batch + 1 .. Batch + K /\ steps.total = Done - Batch
              /\ seq_counter = Batch
              /\ Head(script) = [do |-> "step", label |-> "decode",
                                 context |-> Target - K + steps.total]
         /\ mode = "mixed" =>
              /\ Done \in 3 .. 6 /\ steps.total = Done - 2 /\ seq_counter = 2
              /\ Head(script) = [do |-> "step",
                                 label |-> IF Done = 3 THEN "joins" ELSE "together"]
         /\ mode = "smoke" =>
              /\ Done = 1 /\ steps.total = 0 /\ seq_counter = 1
              /\ Head(script) = [do |-> "step", label |-> "first"]
<1>1. /\ pc = "idle" /\ script # << >> /\ Head(script).do = "step"
      /\ Done \in Nat /\ seq_counter \in Nat /\ ~Serving
  BY Pops, AtRest DEF Doing, BetweenSteps
<1>2. \A l, n : Sub(l, n).do = "submit"
  BY DEF Sub
<1>3. mode # "prefill"
  <2> SUFFICES ASSUME mode = "prefill" PROVE FALSE
    OBVIOUS
  <2>1. Done = 2 * seq_counter \/ (seq_counter >= 1 /\ Done = 2 * seq_counter - 1)
    BY DEF PlanInv, Clock, PrefillClock
  <2>2. CASE Done = 2 * seq_counter
    BY <1>1, <1>2, <2>2, PrefillNext
  <2>3. CASE seq_counter >= 1 /\ Done = 2 * seq_counter - 1
    <3>1. seq_counter - 1 \in Nat /\ Done = 2 * (seq_counter - 1) + 1
      BY <1>1, <2>3
    <3> DEFINE c == seq_counter - 1
    <3> HIDE DEF c
    <3>2. c \in Nat /\ Done = 2 * c + 1
      BY <3>1 DEF c
    <3>3. Head(script).do = "drain"
      BY <1>1, <3>2, PrefillNext
    <3> QED
      BY <1>1, <3>3
  <2> QED
    BY <2>1, <2>2, <2>3
<1>4. CASE mode = "decode"
  <2>1. /\ Done < Batch + K + 2
        /\ Done < Batch => Head(script) = Sub(DecodePrompt, DecodeTokens)
        /\ Done = Batch => Head(script) = [do |-> "fill"]
        /\ Done \in Batch + 1 .. Batch + K =>
             Head(script) = [do |-> "step", label |-> "decode",
                             context |-> Target - K + (Done - Batch)]
        /\ Done = Batch + K + 1 => Head(script) = [do |-> "drain"]
    BY <1>1, <1>4, DecodeNext
  <2>2. Done \in Batch + 1 .. Batch + K
    BY <1>1, <1>2, <2>1, Parameters
  <2>3. steps.total = Done - Batch /\ seq_counter = Batch
    BY <1>1, <1>4, <2>2, Parameters DEF PlanInv, Clock, DecodeClock
  <2>4. steps.total < K \/ steps.total = K
    BY <1>1, <2>2, <2>3, Parameters
  <2>5. Head(script) = [do |-> "step", label |-> "decode", context |-> Target - K + steps.total]
    BY <2>1, <2>2, <2>3
  <2> QED
    BY <1>1, <1>4, <2>2, <2>3, <2>4, <2>5, Parameters DEF Early
<1>5. CASE mode = "mixed"
  <2>1. /\ Done \in 0 .. 6
        /\ Done = 0 => Head(script) = Sub(Context, 64)
        /\ Done = 1 => Head(script) = [do |-> "fill"]
        /\ Done = 2 => Head(script) = Sub(Joining, 8)
        /\ Done = 3 => Head(script) = [do |-> "step", label |-> "joins"]
        /\ Done \in 4 .. 6 => Head(script) = [do |-> "step", label |-> "together"]
    BY <1>1, <1>5, MixedNext
  <2>2. Done # 0 /\ Done # 1 /\ Done # 2
    BY <1>1, <1>2, <2>1
  <2>3. Done \in 3 .. 6
    BY <2>1, <2>2
  <2>4. Head(script) = [do |-> "step", label |-> IF Done = 3 THEN "joins" ELSE "together"]
    BY <2>1, <2>3
  <2>5. steps.total = Done - 2 /\ seq_counter = 2
    BY <1>1, <1>5, <2>3 DEF PlanInv, Clock, MixedClock
  <2> QED
    BY <1>5, <2>3, <2>4, <2>5 DEF Early
<1>6. CASE mode = "smoke"
  <2>1. /\ Done \in 0 .. 2
        /\ Done = 0 => Head(script) = Sub(17, 3)
        /\ Done = 1 => Head(script) = [do |-> "step", label |-> "first"]
        /\ Done = 2 => Head(script) = [do |-> "drain", label |-> "smoke"]
    BY <1>1, <1>6, SmokeNext
  <2>2. Done # 0 /\ Done # 2
    BY <1>1, <1>2, <2>1
  <2>3. Done = 1
    BY <2>1, <2>2
  <2>4. steps.total = 0 /\ seq_counter = 1
    BY <1>6, <2>3 DEF PlanInv, Clock, SmokeClock
  <2> QED
    BY <1>6, <2>1, <2>3, <2>4 DEF Early
<1> QED
  BY <1>3, <1>4, <1>5, <1>6, ProbeAssumption DEF Probing

LEMMA LabelsWhatItReads ==
  ASSUME NEW command, "label" \in DOMAIN command
  PROVE  /\ Labelled(command).command = command /\ Labelled(command).before = steps.total
         /\ Labelled(command).contexts = {TotalLen(r) : r \in Running}
  BY DEF Labelled

(* All of a decode batch is as far as the label says. *)
LEMMA ContextsAsPlanned ==
  ASSUME CallerInv, PaceInv, PlanInv, pc = "idle", mode = "decode", steps.total >= 1, Live # {}
  PROVE  {TotalLen(r) : r \in Running} = {Target - K + steps.total}
<1>1. \A r \in Live : seqs[r].outputs = steps.total /\ seqs[r].prompt = Target - K
  BY AtRest DEF JoinedAt, PlanInv, Asked, DecodePrompt
<1>2. Waiting = {}
  <2>1. \A r \in Waiting : seqs[r].outputs = 0
    BY FreshOrDecoding DEF PaceInv
  <2>2. steps.total # 0
    BY AtRest
  <2> QED
    BY <1>1, <2>1, <2>2 DEF Live
<1>3. Running = Live
  BY <1>2 DEF Live
<1>4. \A r \in Running : TotalLen(r) = Target - K + steps.total
  BY <1>1, <1>3 DEF TotalLen
<1> QED
  BY <1>3, <1>4

LEMMA StepsOncePlanned ==
  ASSUME CallerInv, PaceInv, PlanInv, ScriptInv, ScriptLeft, Probing, mode \in Modes,
         ProbeStepsOnce
  PROVE  PaceInv' /\ PlanInv'
<1>1. /\ Doing("step") /\ script # << >> /\ MStepBegins
      /\ script' = Tail(script) /\ mode' = mode /\ label' = Labelled(Head(script))
  BY DEF ProbeStepsOnce, Doing
<1>2. /\ mode # "prefill" /\ Early /\ seq_counter >= 1
      /\ mode = "decode" =>
           /\ Done \in Batch + 1 .. Batch + K /\ steps.total = Done - Batch
           /\ seq_counter = Batch
           /\ Head(script) = [do |-> "step", label |-> "decode",
                              context |-> Target - K + steps.total]
      /\ mode = "mixed" =>
           /\ Done \in 3 .. 6 /\ steps.total = Done - 2 /\ seq_counter = 2
           /\ Head(script) = [do |-> "step", label |-> IF Done = 3 THEN "joins" ELSE "together"]
      /\ mode = "smoke" =>
           /\ Done = 1 /\ steps.total = 0 /\ seq_counter = 1
           /\ Head(script) = [do |-> "step", label |-> "first"]
  BY <1>1, StepInPlan
<1>3. Live # {}
  BY <1>2, SomebodyLives
<1>4. /\ PaceInv' /\ Live' = Live /\ pc = "idle" /\ pc' = "admit" /\ ~Serving /\ ~Serving'
      /\ seqs' = seqs /\ seq_counter' = seq_counter
      /\ steps' = steps /\ requests' = requests /\ retiring' = retiring
  BY <1>1, <1>3, BeginPaced
<1>5. Asked' /\ NobodyDone' /\ StepsKnown'
  BY <1>1, <1>4, BeginPlanned
<1>6. Done' = Done + 1 /\ Done \in Nat
  BY <1>1, Pops
<1>7. mode \in {"decode", "mixed", "smoke"}
  BY <1>2, ProbeAssumption DEF Probing
<1>8. Clock'
  <2>1. mode = "decode" => DecodeClock'
    <3> SUFFICES ASSUME mode = "decode" PROVE DecodeClock'
      OBVIOUS
    <3>1. /\ Done' \in Batch + 2 .. Batch + 1 + K /\ steps'.total = Done' - Batch - 1
          /\ seq_counter' = Batch /\ pc' # "idle"
      BY <1>2, <1>4, <1>6, Parameters
    <3> QED
      BY <3>1 DEF DecodeClock
  <2>2. mode = "mixed" => MixedClock'
    BY <1>2, <1>4, <1>6 DEF MixedClock
  <2>3. mode = "smoke" => SmokeClock'
    BY <1>2, <1>4, <1>6 DEF SmokeClock
  <2> QED
    BY <1>1, <1>2, <2>1, <2>2, <2>3 DEF Clock
<1>9. LabelKnown'
  <2>1. CASE mode = "decode"
    <3> DEFINE command == [do |-> "step", label |-> "decode", context |-> Target - K + steps.total]
    <3>1. /\ "label" \in DOMAIN command
          /\ command.label = "decode" /\ command.context = Target - K + steps.total
      OBVIOUS
    <3>2. label' = Labelled(command)
      BY <1>1, <1>2, <2>1
    <3> HIDE DEF command
    <3>3. /\ label'.command = command /\ label'.before = steps.total
          /\ label'.contexts = {TotalLen(r) : r \in Running}
      BY <3>1, <3>2, LabelsWhatItReads
    <3>4. steps.total >= 1 /\ Done' \in Batch + 2 .. Batch + K + 1
          /\ steps.total = Done' - Batch - 1
      BY <1>2, <1>6, <2>1, Parameters
    <3>5. {TotalLen(r) : r \in Running} = {Target - K + steps.total}
      BY <1>3, <1>4, <2>1, <3>4, ContextsAsPlanned
    <3>6. /\ label'.command.label = "decode" /\ label'.before = Done' - Batch - 1
          /\ label'.contexts = {label'.command.context}
      BY <3>1, <3>3, <3>4, <3>5
    <3> QED
      BY <1>1, <2>1, <3>4, <3>6 DEF LabelKnown
  <2>2. CASE mode = "mixed"
    <3> DEFINE command == [do |-> "step", label |-> IF Done = 3 THEN "joins" ELSE "together"]
    <3>1. /\ "label" \in DOMAIN command
          /\ command.label = IF Done = 3 THEN "joins" ELSE "together"
      OBVIOUS
    <3>2. label' = Labelled(command)
      BY <1>1, <1>2, <2>2
    <3> HIDE DEF command
    <3>3. label'.command = command /\ label'.before = steps.total
      BY <3>1, <3>2, LabelsWhatItReads
    <3>4. Done' \in 4 .. 7 /\ steps.total = Done' - 3 /\ (Done = 3 <=> Done' = 4)
      BY <1>2, <1>6, <2>2
    <3>5. label'.command.label = IF Done' = 4 THEN "joins" ELSE "together"
      BY <3>1, <3>3, <3>4
    <3> QED
      BY <1>1, <2>2, <3>3, <3>4, <3>5 DEF LabelKnown
  <2>3. CASE mode = "smoke"
    <3> DEFINE command == [do |-> "step", label |-> "first"]
    <3>1. "label" \in DOMAIN command /\ command.label = "first"
      OBVIOUS
    <3>2. label' = Labelled(command)
      BY <1>1, <1>2, <2>3
    <3> HIDE DEF command
    <3>3. label'.command = command /\ label'.before = steps.total
      BY <3>1, <3>2, LabelsWhatItReads
    <3> QED
      BY <1>1, <1>2, <1>6, <2>3, <3>1, <3>3 DEF LabelKnown
  <2> QED
    BY <1>7, <2>1, <2>2, <2>3
<1> QED
  BY <1>4, <1>5, <1>8, <1>9 DEF PlanInv

LEMMA EmptyFilled ==
  ASSUME CallerInv, Live = {}
  PROVE  Filled
<1>1. waiting # << >> => Head(waiting) \in ToSet(waiting)
  BY TailDistinct DEF CallerInv, SchedInv, TypeOK
<1> QED
  BY <1>1 DEF Filled, Live, Waiting

(* Where in its script a probe calls step() until something holds. *)
LEMMA LoopInPlan ==
  ASSUME CallerInv, PaceInv, PlanInv, ScriptInv, ScriptLeft, Probing, mode \in Modes,
         Doing("fill") \/ Doing("drain")
  PROVE  /\ mode = "prefill" =>
              /\ Doing("drain") /\ seq_counter >= 1 /\ seq_counter - 1 < Len(Lens)
              /\ Done = 2 * seq_counter - 1
              /\ steps.total \in {seq_counter - 1, seq_counter}
              /\ Live = {} <=> steps.total = seq_counter
              /\ Head(script) = [do |-> "drain", label |-> "prefill", len |-> Lens[seq_counter]]
         /\ mode = "decode" =>
              \/ /\ Doing("fill") /\ Done = Batch /\ seq_counter = Batch
                 /\ steps.total \in {0, 1} /\ (Filled <=> steps.total = 1)
                 /\ (steps.total = 0 => Live # {}) /\ Head(script) = [do |-> "fill"]
              \/ /\ Doing("drain") /\ Done = Batch + K + 1 /\ seq_counter = Batch
                 /\ steps.total = K + 1 /\ Live = {} /\ Head(script) = [do |-> "drain"]
         /\ mode = "mixed" =>
              /\ Doing("fill") /\ Done = 1 /\ seq_counter = 1 /\ Live # {}
              /\ steps.total \in {0, 1} /\ (Filled <=> steps.total = 1)
              /\ Head(script) = [do |-> "fill"]
         /\ mode = "smoke" =>
              /\ Doing("drain") /\ Done = 2 /\ seq_counter = 1
              /\ Head(script) = [do |-> "drain", label |-> "smoke"]
<1>1. /\ pc = "idle" /\ script # << >> /\ Head(script).do \in {"fill", "drain"}
      /\ Doing("fill") <=> Head(script).do = "fill"
      /\ Doing("drain") <=> Head(script).do = "drain"
      /\ Done \in Nat /\ seq_counter \in Nat /\ ~Serving /\ steps.total \in Nat
  BY Pops, AtRest DEF Doing, BetweenSteps
<1>2. \A l, n : Sub(l, n).do = "submit"
  BY DEF Sub
<1>3. ASSUME mode = "prefill"
      PROVE  /\ Doing("drain") /\ seq_counter >= 1 /\ seq_counter - 1 < Len(Lens)
             /\ Done = 2 * seq_counter - 1
             /\ steps.total \in {seq_counter - 1, seq_counter}
             /\ Live = {} <=> steps.total = seq_counter
             /\ Head(script) = [do |-> "drain", label |-> "prefill", len |-> Lens[seq_counter]]
  <2>1. Done # 2 * seq_counter
    <3>1. Done = 2 * seq_counter => Head(script).do = "submit"
      BY <1>1, <1>2, <1>3, PrefillNext
    <3> QED
      BY <1>1, <3>1
  <2>2. /\ seq_counter >= 1 /\ Done = 2 * seq_counter - 1
        /\ \/ steps.total = seq_counter - 1 /\ Live # {}
           \/ steps.total = seq_counter
    BY <1>1, <1>3, <2>1 DEF PlanInv, Clock, PrefillClock
  <2>3. steps.total = seq_counter => Live = {}
    <3> SUFFICES ASSUME steps.total = seq_counter, NEW r \in Live PROVE FALSE
      OBVIOUS
    <3>1. /\ seqs[r].outputs = steps.total - seqs[r].seq_no /\ seqs[r].seq_no < seq_counter
          /\ seqs[r].seq_no \in Nat /\ seqs[r].outputs < 1
      BY <1>1, <1>3, AtRest DEF JoinedAt, PlanInv, Asked
    <3> QED
      BY <1>1, <3>1
  <2>4. Live = {} <=> steps.total = seq_counter
    BY <1>1, <2>2, <2>3
  <2> DEFINE c == seq_counter - 1
  <2>5. c \in Nat /\ Done = 2 * c + 1 /\ c + 1 = seq_counter
    BY <1>1, <2>2
  <2> HIDE DEF c
  <2>6. c < Len(Lens) /\ Head(script) = [do |-> "drain", label |-> "prefill", len |-> Lens[c + 1]]
    BY <1>1, <1>3, <2>5, PrefillNext
  <2>7. Head(script) = [do |-> "drain", label |-> "prefill", len |-> Lens[seq_counter]]
    BY <2>5, <2>6
  <2>8. Doing("drain")
    BY <1>1, <2>7
  <2> QED
    BY <2>2, <2>4, <2>6, <2>7, <2>8 DEF c
<1>4. ASSUME mode = "decode"
      PROVE  \/ /\ Doing("fill") /\ Done = Batch /\ seq_counter = Batch
                /\ steps.total \in {0, 1} /\ (Filled <=> steps.total = 1)
                /\ (steps.total = 0 => Live # {}) /\ Head(script) = [do |-> "fill"]
             \/ /\ Doing("drain") /\ Done = Batch + K + 1 /\ seq_counter = Batch
                /\ steps.total = K + 1 /\ Live = {} /\ Head(script) = [do |-> "drain"]
  <2>1. /\ Done < Batch + K + 2
        /\ Done < Batch => Head(script) = Sub(DecodePrompt, DecodeTokens)
        /\ Done = Batch => Head(script) = [do |-> "fill"]
        /\ Done \in Batch + 1 .. Batch + K =>
             Head(script) = [do |-> "step", label |-> "decode",
                             context |-> Target - K + (Done - Batch)]
        /\ Done = Batch + K + 1 => Head(script) = [do |-> "drain"]
    BY <1>1, <1>4, DecodeNext
  <2>2. Done = Batch \/ Done = Batch + K + 1
    BY <1>1, <1>2, <2>1, Parameters
  <2>3. \A r \in Live : JoinedAt(r) = 0
    BY <1>4 DEF JoinedAt
  <2>4. CASE Done = Batch
    <3>1. seq_counter = Batch /\ steps.total \in {0, 1}
      BY <1>1, <1>4, <2>4, Parameters DEF PlanInv, Clock, DecodeClock
    <3>2. steps.total = 0 => Live # {}
      <4>1. steps.total = 0 => Early
        BY <1>1, <1>4, Parameters DEF Early
      <4> QED
        BY <3>1, <4>1, SomebodyLives, Parameters
    <3>3. Filled <=> steps.total = 1
      <4>1. CASE Live = {}
        <5>1. Filled
          BY <4>1, EmptyFilled
        <5> QED
          BY <3>1, <3>2, <4>1, <5>1
      <4>2. CASE Live # {}
        <5>1. Filled <=> steps.total >= 1
          BY <1>1, <2>3, <4>2, FilledAtOnce
        <5> QED
          BY <3>1, <5>1
      <4> QED
        BY <4>1, <4>2
    <3>4. Head(script) = [do |-> "fill"] /\ Doing("fill")
      BY <1>1, <2>1, <2>4
    <3> QED
      BY <2>4, <3>1, <3>2, <3>3, <3>4
  <2>5. CASE Done = Batch + K + 1
    <3>1. seq_counter = Batch /\ steps.total = K + 1
      BY <1>1, <1>4, <2>5, Parameters DEF PlanInv, Clock, DecodeClock
    <3>2. Live = {}
      <4> SUFFICES ASSUME NEW r \in Live PROVE FALSE
        OBVIOUS
      <4>1. seqs[r].outputs = steps.total /\ seqs[r].outputs < K + 1
        BY <1>1, <1>4, AtRest DEF JoinedAt, PlanInv, Asked, DecodeTokens
      <4> QED
        BY <3>1, <4>1, Parameters
    <3>3. Head(script) = [do |-> "drain"] /\ Doing("drain")
      BY <1>1, <2>1, <2>5
    <3> QED
      BY <2>5, <3>1, <3>2, <3>3
  <2> QED
    BY <2>2, <2>4, <2>5
<1>5. ASSUME mode = "mixed"
      PROVE  /\ Doing("fill") /\ Done = 1 /\ seq_counter = 1 /\ Live # {}
             /\ steps.total \in {0, 1} /\ (Filled <=> steps.total = 1)
             /\ Head(script) = [do |-> "fill"]
  <2>1. /\ Done \in 0 .. 6
        /\ Done = 0 => Head(script) = Sub(Context, 64)
        /\ Done = 1 => Head(script) = [do |-> "fill"]
        /\ Done = 2 => Head(script) = Sub(Joining, 8)
        /\ Done = 3 => Head(script) = [do |-> "step", label |-> "joins"]
        /\ Done \in 4 .. 6 => Head(script) = [do |-> "step", label |-> "together"]
    BY <1>1, <1>5, MixedNext
  <2>2. Done # 0 /\ Done # 2 /\ Done # 3
    BY <1>1, <1>2, <2>1
  <2>3. ~(Done \in 4 .. 6)
    BY <1>1, <2>1
  <2>4. Done = 1
    BY <2>1, <2>2, <2>3
  <2>5. seq_counter = 1 /\ steps.total \in {0, 1}
    BY <1>5, <2>4 DEF PlanInv, Clock, MixedClock
  <2>6. Live # {} /\ Cardinality(Live) = seq_counter
    BY <1>5, <2>5, SomebodyLives DEF Early
  <2>7. \A r \in Live : JoinedAt(r) = 0
    BY <1>1, <1>5, <2>5, AtRest DEF JoinedAt
  <2>8. Filled <=> steps.total = 1
    BY <1>1, <2>5, <2>6, <2>7, FilledAtOnce
  <2>9. Head(script) = [do |-> "fill"] /\ Doing("fill")
    BY <1>1, <2>1, <2>4
  <2> QED
    BY <2>4, <2>5, <2>6, <2>8, <2>9
<1>6. ASSUME mode = "smoke"
      PROVE  /\ Doing("drain") /\ Done = 2 /\ seq_counter = 1
             /\ Head(script) = [do |-> "drain", label |-> "smoke"]
  <2>1. /\ Done \in 0 .. 2
        /\ Done = 0 => Head(script) = Sub(17, 3)
        /\ Done = 1 => Head(script) = [do |-> "step", label |-> "first"]
        /\ Done = 2 => Head(script) = [do |-> "drain", label |-> "smoke"]
    BY <1>1, <1>6, SmokeNext
  <2>2. Done # 0 /\ Done # 1
    BY <1>1, <1>2, <2>1
  <2>3. Done = 2
    BY <2>1, <2>2
  <2>4. seq_counter = 1
    BY <1>6, <2>3 DEF PlanInv, Clock, SmokeClock
  <2>5. Head(script) = [do |-> "drain", label |-> "smoke"] /\ Doing("drain")
    BY <1>1, <2>1, <2>3
  <2> QED
    BY <2>3, <2>4, <2>5
<1> QED
  BY <1>3, <1>4, <1>5, <1>6

LEMMA LoopsPlanned ==
  ASSUME CallerInv, PaceInv, PlanInv, ScriptInv, ScriptLeft, Probing, mode \in Modes, ProbeLoops
  PROVE  PaceInv' /\ PlanInv'
<1>1. /\ \/ Doing("fill") /\ ~Filled
         \/ Doing("drain") /\ Live # {}
      /\ MStepBegins /\ mode' = mode /\ script' = script /\ label' = Unlabelled
  BY DEF ProbeLoops, Drained
<1>2. ~(Doing("fill") /\ Doing("drain"))
  BY DEF Doing
<1>3. /\ mode = "prefill" =>
           /\ Done = 2 * seq_counter - 1 /\ seq_counter >= 1 /\ seq_counter - 1 < Len(Lens)
           /\ steps.total = seq_counter - 1 /\ Live # {}
      /\ mode = "decode" =>
           Done = Batch /\ seq_counter = Batch /\ steps.total = 0 /\ Live # {}
      /\ mode = "mixed" => Done = 1 /\ seq_counter = 1 /\ steps.total = 0 /\ Live # {}
      /\ mode = "smoke" => Done = 2 /\ seq_counter = 1 /\ Live # {}
  BY <1>1, <1>2, LoopInPlan
<1>4. mode \in {"prefill", "decode", "mixed", "smoke"}
  BY ProbeAssumption DEF Probing
<1>5. /\ PaceInv' /\ Live' = Live /\ pc = "idle" /\ pc' = "admit" /\ ~Serving /\ ~Serving'
      /\ seqs' = seqs /\ seq_counter' = seq_counter
      /\ steps' = steps /\ requests' = requests /\ retiring' = retiring
  BY <1>1, <1>3, <1>4, BeginPaced
<1>6. Asked' /\ NobodyDone' /\ StepsKnown'
  BY <1>1, <1>5, BeginPlanned
<1>7. Done' = Done
  BY <1>1 DEF Done
<1>8. Clock'
  <2>1. mode = "prefill" => PrefillClock'
    <3>1. mode = "prefill" => seq_counter <= Len(Lens)
      BY <1>3, LensAreLengths, LiveCount
    <3> QED
      BY <1>3, <1>5, <1>7, <3>1 DEF PrefillClock
  <2>2. mode = "decode" => DecodeClock'
    BY <1>3, <1>5, <1>7 DEF DecodeClock
  <2>3. mode = "mixed" => MixedClock'
    BY <1>3, <1>5, <1>7 DEF MixedClock
  <2>4. mode = "smoke" => SmokeClock'
    BY <1>1, <1>3, <1>5, <1>7 DEF SmokeClock
  <2> QED
    BY <1>1, <2>1, <2>2, <2>3, <2>4 DEF Clock
<1>9. LabelKnown'
  BY <1>1 DEF LabelKnown, Unlabelled
<1> QED
  BY <1>5, <1>6, <1>8, <1>9 DEF PlanInv

LEMMA LeavesPlanned ==
  ASSUME CallerInv, PaceInv, PlanInv, ScriptInv, ScriptLeft, Probing, mode \in Modes,
         ProbeLeavesLoop
  PROVE  PaceInv' /\ PlanInv'
<1>1. /\ \/ Doing("fill") /\ Filled
         \/ Doing("drain") /\ Live = {}
      /\ script # << >> /\ script' = Tail(script) /\ label' = Labelled(Head(script))
      /\ mode' = mode /\ UNCHANGED all_vars /\ pc = "idle"
  BY DEF ProbeLeavesLoop, Drained, Doing, BetweenSteps
<1>2. ~(Doing("fill") /\ Doing("drain"))
  BY DEF Doing
<1>3. /\ mode = "prefill" =>
           /\ Done = 2 * seq_counter - 1 /\ seq_counter >= 1 /\ seq_counter - 1 < Len(Lens)
           /\ steps.total = seq_counter
           /\ Head(script) = [do |-> "drain", label |-> "prefill", len |-> Lens[seq_counter]]
      /\ mode = "decode" =>
           /\ seq_counter = Batch
           /\ \/ Done = Batch /\ steps.total = 1 /\ Head(script) = [do |-> "fill"]
              \/ Done = Batch + K + 1 /\ steps.total = K + 1 /\ Head(script) = [do |-> "drain"]
      /\ mode = "mixed" =>
           Done = 1 /\ seq_counter = 1 /\ steps.total = 1 /\ Head(script) = [do |-> "fill"]
      /\ mode = "smoke" =>
           /\ Done = 2 /\ seq_counter = 1 /\ Live = {}
           /\ Head(script) = [do |-> "drain", label |-> "smoke"]
  BY <1>1, <1>2, LoopInPlan
<1>4. mode \in {"prefill", "decode", "mixed", "smoke"}
  BY ProbeAssumption DEF Probing
<1>5. /\ UNCHANGED <<pc, work, waiting, running, seqs, seq_counter, steps, requests, retiring,
                     partition, preemptions_total>>
      /\ Live' = Live
  <2>1. UNCHANGED <<pc, work, waiting, running, seqs, seq_counter, steps, requests, retiring,
                    partition, preemptions_total>>
    BY <1>1 DEF all_vars, vars, sched_vars, metrics_vars
  <2> QED
    BY <2>1 DEF Live, Waiting, Running
<1>6. ~Serving /\ ~Serving'
  BY <1>1, <1>5 DEF Serving, Growing
<1>7. PaceInv'
  <2>1. \A r : JoinedAt(r)' = JoinedAt(r)
    BY <1>1, <1>5 DEF JoinedAt
  <2>2. Numbered'
    BY <1>5 DEF PaceInv, Numbered
  <2>3. Paced'
    BY <1>5, <1>6, <2>1 DEF PaceInv, Paced
  <2>4. NeverPreempted' /\ AllJoin'
    BY <1>5, <1>6 DEF PaceInv, NeverPreempted, AllJoin
  <2> QED
    BY <2>2, <2>3, <2>4 DEF PaceInv
<1>8. Asked' /\ NobodyDone' /\ StepsKnown'
  BY <1>1, <1>5, <1>6, BeginPlanned
<1>9. Done' = Done + 1 /\ Done \in Nat /\ seq_counter \in Nat
  BY <1>1, Pops, LiveCount
<1>10. Clock'
  <2>1. mode = "prefill" => PrefillClock'
    <3> SUFFICES ASSUME mode = "prefill" PROVE PrefillClock'
      OBVIOUS
    <3>1. Done' = 2 * seq_counter /\ seq_counter <= Len(Lens)
      BY <1>3, <1>9, LensAreLengths
    <3> QED
      BY <1>1, <1>3, <1>5, <3>1 DEF PrefillClock
  <2>2. mode = "decode" => DecodeClock'
    BY <1>1, <1>3, <1>5, <1>9, Parameters DEF DecodeClock
  <2>3. mode = "mixed" => MixedClock'
    BY <1>1, <1>3, <1>5, <1>9 DEF MixedClock
  <2>4. mode = "smoke" => SmokeClock'
    BY <1>1, <1>3, <1>5, <1>9 DEF SmokeClock
  <2> QED
    BY <1>1, <2>1, <2>2, <2>3, <2>4 DEF Clock
<1>11. LabelKnown'
  <2>1. CASE mode = "prefill"
    <3> DEFINE command == [do |-> "drain", label |-> "prefill", len |-> Lens[seq_counter]]
    <3>1. /\ "label" \in DOMAIN command
          /\ command.label = "prefill" /\ command.len = Lens[seq_counter]
      OBVIOUS
    <3>2. label' = Labelled(command)
      BY <1>1, <1>3, <2>1
    <3> HIDE DEF command
    <3>3. label'.command = command
      BY <3>1, <3>2, LabelsWhatItReads
    <3> QED
      BY <1>1, <1>3, <1>5, <2>1, <3>1, <3>3 DEF LabelKnown
  <2>2. CASE mode \in {"decode", "mixed"}
    <3>1. /\ "label" \notin DOMAIN [do |-> "fill"]
          /\ "label" \notin DOMAIN [do |-> "drain"]
      OBVIOUS
    <3>2. Head(script) = [do |-> "fill"] \/ Head(script) = [do |-> "drain"]
      BY <1>3, <2>2
    <3>3. label' = Unlabelled
      BY <1>1, <3>1, <3>2 DEF Labelled
    <3> QED
      BY <3>3 DEF LabelKnown, Unlabelled
  <2>3. CASE mode = "smoke"
    <3> DEFINE command == [do |-> "drain", label |-> "smoke"]
    <3>1. "label" \in DOMAIN command /\ command.label = "smoke"
      OBVIOUS
    <3>2. label' = Labelled(command)
      BY <1>1, <1>3, <2>3
    <3> HIDE DEF command
    <3>3. label'.command = command
      BY <3>1, <3>2, LabelsWhatItReads
    <3> QED
      BY <1>1, <1>3, <1>9, <2>3, <3>1, <3>3 DEF LabelKnown
  <2> QED
    BY <1>4, <2>1, <2>2, <2>3
<1> QED
  BY <1>7, <1>8, <1>10, <1>11 DEF PlanInv

-----------------------------------------------------------------------------
(***************************************************************************)
(* The invariant, and what it says of the figures.                         *)
(***************************************************************************)
LEMMA ProbeInitInv ==
  ASSUME ProbeInit
  PROVE  CallerInv /\ ProbeInv
<1>1. /\ MetricsInit /\ mode \in Modes /\ script = Script(mode) /\ label = Unlabelled
  BY DEF ProbeInit
<1>2. /\ Init /\ preemptions_total = 0 /\ requests = << >> /\ retiring = << >>
      /\ steps = [total |-> 0, fresh |-> 0, recompute |-> 0, last |-> NoWork]
  BY <1>1 DEF MetricsInit
<1>3. waiting = << >> /\ running = << >> /\ seq_counter = 0 /\ pc = "idle"
  BY <1>2 DEF Init
<1>4. CallerInv
  BY <1>1, MetricsInitInv
<1>5. ScriptInv /\ Done = 0 /\ ScriptLeft
  <2>1. Script(mode) \in Seq(Commands) /\ Len(Script(mode)) \in Nat
    BY <1>1, ScriptsAreCommands
  <2>2. Done = 0
    BY <1>1, <2>1 DEF Done
  <2> QED
    BY <1>1, <2>1, <2>2 DEF ScriptInv, ScriptLeft
<1>6. Live = {} /\ steps.total = 0 /\ steps.last = NoWork /\ ~Serving
  <2>1. Live = {}
    BY <1>3 DEF Live, Waiting, Running, ToSet
  <2> QED
    BY <1>2, <1>3, <2>1 DEF Serving, Growing
<1>7. PaceInv
  BY <1>2, <1>3, <1>6 DEF PaceInv, Numbered, Paced, NeverPreempted, AllJoin
<1>8. Asked /\ NobodyDone /\ LabelKnown
  BY <1>1, <1>2, <1>6 DEF Asked, NobodyDone, LabelKnown
<1>9. StepsKnown
  BY <1>6 DEF StepsKnown
<1>10. Clock
  BY <1>3, <1>5, <1>6, LensAreLengths, Parameters
     DEF Clock, PrefillClock, DecodeClock, MixedClock, SmokeClock
<1>11. ServerReadsNothing
  <2>1. mode = "server" => Script(mode) = << >>
    BY DEF Script
  <2> QED
    BY <1>1, <2>1 DEF ServerReadsNothing
<1> QED
  BY <1>1, <1>4, <1>5, <1>7, <1>8, <1>9, <1>10, <1>11 DEF PlanInv, ProbeInv

LEMMA ProbeNextKeeps ==
  ASSUME CallerInv, ProbeInv, [DrivenNext]_driven_vars
  PROVE  ProbeInv'
<1>1. ScriptInv /\ ScriptInv' /\ mode \in Modes /\ ServerReadsNothing
  BY DriverMoves DEF ProbeInv
<1>2. CASE UNCHANGED driven_vars
  <2>1. UNCHANGED <<pc, work, waiting, running, seqs, seq_counter, steps, requests, retiring,
                    partition, preemptions_total, mode, script, label>>
    BY <1>2 DEF driven_vars, all_vars, vars, sched_vars, metrics_vars, probe_vars
  <2>2. Live' = Live /\ Done' = Done
    BY <2>1 DEF Live, Waiting, Running, Done
  <2>3. Serving' = Serving /\ ToCome' = ToCome
    BY <2>1 DEF Serving, ToCome, Growing
  <2>4. \A r : JoinedAt(r)' = JoinedAt(r)
    BY <2>1 DEF JoinedAt
  <2>5. PaceInv => PaceInv'
    BY <2>1, <2>2, <2>3, <2>4 DEF PaceInv, Numbered, Paced, NeverPreempted, AllJoin
  <2>6. Asked => Asked'
    BY <2>1, <2>2 DEF Asked
  <2>7. Clock => Clock'
    BY <2>1, <2>2, <2>3 DEF Clock, PrefillClock, DecodeClock, MixedClock, SmokeClock
  <2>8. NobodyDone => NobodyDone'
    BY <2>1, <2>3 DEF NobodyDone, Early
  <2>9. StepsKnown => StepsKnown'
    BY <2>1, <2>3 DEF StepsKnown, StepIs
  <2>10. LabelKnown => LabelKnown'
    BY <2>1, <2>2 DEF LabelKnown
  <2>11. ScriptLeft => ScriptLeft'
    BY <2>1, <2>2 DEF ScriptLeft
  <2> QED
    BY <1>1, <2>1, <2>5, <2>6, <2>7, <2>8, <2>9, <2>10, <2>11
       DEF ProbeInv, PlanInv, Probing, ServerReadsNothing
<1>3. CASE mode = "server"
  <2>1. script = << >> /\ label = Unlabelled
    BY <1>1, <1>3 DEF ServerReadsNothing
  <2>2. ~Probe
    BY <2>1 DEF Probe, ProbeSubmits, ProbeStepsOnce, ProbeLoops, ProbeLeavesLoop, Doing
  <2>3. UNCHANGED probe_vars
    BY <2>2 DEF DrivenNext, ServerDrives, StepRuns, driven_vars
  <2> QED
    BY <1>1, <1>3, <2>1, <2>3 DEF probe_vars, ProbeInv, Probing, ServerReadsNothing
<1>4. CASE mode # "server" /\ DrivenNext
  <2>1. ScriptLeft /\ PaceInv /\ PlanInv /\ Probing
    BY <1>4 DEF ProbeInv, Probing
  <2>2. /\ mode' = mode
        /\ \/ script' = script
           \/ script # << >> /\ script' = Tail(script)
    BY <1>4 DEF DrivenNext, ServerDrives, Probe, ProbeSubmits, ProbeStepsOnce, ProbeLoops,
       ProbeLeavesLoop, Doing, StepRuns, probe_vars
  <2>3. ScriptLeft'
    BY <1>1, <2>1, <2>2, Pops
  <2>4. PaceInv' /\ PlanInv'
    BY <1>1, <1>4, <2>1, StepRunsPlanned, SubmitsPlanned, StepsOncePlanned, LoopsPlanned,
       LeavesPlanned DEF DrivenNext, Probe, ServerDrives
  <2> QED
    BY <1>1, <1>4, <2>2, <2>3, <2>4 DEF ProbeInv, ServerReadsNothing
<1> QED
  BY <1>2, <1>3, <1>4

(* Each figure is read when the plan says what it is the figure of. *)
LEMMA FiguresAsPlanned ==
  ASSUME CallerInv, ProbeInv
  PROVE  ProbesMeasureAsLabelled
<1> SUFFICES ASSUME BetweenSteps, label # Unlabelled PROVE ProbesMeasureAsLabelled
  BY DEF ProbesMeasureAsLabelled
<1> DEFINE name == label.command.label
           new == steps.total = label.before + 1
<1>1. pc = "idle" /\ retiring = << >>
  BY DEF BetweenSteps
<1>2. Probing /\ PaceInv /\ PlanInv /\ mode \in {"prefill", "decode", "mixed", "smoke"}
  BY ProbeAssumption DEF ProbeInv, ServerReadsNothing, Probing
<1>3. /\ ~Serving /\ steps.total \in Nat
      /\ \A r \in Live : seqs[r].outputs = steps.total - JoinedAt(r)
  BY <1>1, <1>2, AtRest
<1>4. preemptions_total = 0
  BY <1>2 DEF PaceInv, NeverPreempted
<1>5. IF steps.total = 0 THEN steps.last = NoWork ELSE StepIs(steps.total - 1, steps.last)
  BY <1>2 DEF PlanInv, StepsKnown
<1>6. steps.last.recompute = 0
  <2>1. NoWork.recompute = 0
    BY DEF NoWork
  <2> QED
    BY <1>5, <2>1 DEF StepIs
<1>7. ASSUME mode = "prefill"
      PROVE  /\ name = "prefill"
             /\ steps.last = [NoWork EXCEPT !.n_prefill = 1, !.fresh = label.command.len]
  <2>1. name = "prefill" /\ label.command.len = Lens[steps.total] /\ steps.total >= 1
    BY <1>2, <1>7 DEF PlanInv, LabelKnown
  <2>2. steps.last = [NoWork EXCEPT !.n_prefill = 1, !.fresh = Lens[steps.total - 1 + 1]]
    BY <1>3, <1>5, <1>7, <2>1 DEF StepIs
  <2>3. steps.total - 1 + 1 = steps.total
    BY <1>3
  <2> QED
    BY <2>1, <2>2, <2>3
<1>8. ASSUME mode = "decode"
      PROVE  /\ name = "decode" /\ new /\ steps.last = [NoWork EXCEPT !.n_decode = Batch]
             /\ label.contexts = {label.command.context}
  <2>1. /\ name = "decode" /\ Done \in Batch + 2 .. Batch + K + 1
        /\ label.before = Done - Batch - 1 /\ label.contexts = {label.command.context}
    BY <1>2, <1>8 DEF PlanInv, LabelKnown
  <2>2. steps.total = Done - Batch
    BY <1>1, <1>2, <1>8, <2>1, Parameters DEF PlanInv, Clock, DecodeClock
  <2>3. steps.total - 1 >= 1 /\ steps.total # 0 /\ new
    BY <2>1, <2>2, Parameters
  <2>4. steps.last = [NoWork EXCEPT !.n_decode = Batch]
    BY <1>5, <1>8, <2>3 DEF StepIs
  <2> QED
    BY <2>1, <2>3, <2>4
<1>9. ASSUME mode = "mixed"
      PROVE  /\ new
             /\ \/ /\ name = "joins"
                   /\ steps.last = [n_prefill |-> 1, n_decode |-> 1,
                                    fresh |-> Joining, recompute |-> 0]
                \/ name = "together" /\ steps.last = [NoWork EXCEPT !.n_decode = 2]
  <2>1. /\ name = IF Done = 4 THEN "joins" ELSE "together"
        /\ Done \in 4 .. 7 /\ label.before = Done - 3
    BY <1>2, <1>9 DEF PlanInv, LabelKnown
  <2>2. steps.total = Done - 2
    BY <1>1, <1>2, <1>9, <2>1 DEF PlanInv, Clock, MixedClock
  <2>3. new /\ StepIs(steps.total - 1, steps.last)
    BY <1>5, <2>1, <2>2
  <2>4. CASE Done = 4
    <3>1. steps.total - 1 = 1
      BY <2>2, <2>4
    <3> QED
      BY <1>9, <2>1, <2>3, <2>4, <3>1 DEF StepIs
  <2>5. CASE Done # 4
    <3>1. steps.total - 1 >= 2
      BY <2>1, <2>2, <2>5
    <3> QED
      BY <1>9, <2>1, <2>3, <2>5, <3>1 DEF StepIs
  <2> QED
    BY <2>4, <2>5
<1>10. ASSUME mode = "smoke"
       PROVE  \/ /\ name = "first" /\ new
                 /\ \E r \in Running : seqs[r].status = "DECODE" /\ seqs[r].outputs = 1
              \/ name = "smoke" /\ Len(requests) = 1
  <2>1. \/ Done = 2 /\ name = "first" /\ label.before = 0
        \/ Done = 3 /\ name = "smoke"
    BY <1>2, <1>10 DEF PlanInv, LabelKnown
  <2>2. CASE Done = 2 /\ name = "first" /\ label.before = 0
    <3>1. steps.total = 1 /\ seq_counter = 1
      BY <1>1, <1>2, <1>10, <2>2 DEF PlanInv, Clock, SmokeClock
    <3>2. PICK r \in Live : TRUE
      BY <1>2, <1>10, <3>1, SomebodyLives DEF Early
    <3>3. seqs[r].outputs = 1
      BY <1>3, <1>10, <3>1 DEF JoinedAt
    <3>4. /\ \A q \in Waiting : seqs[q].outputs = 0
          /\ \A q \in Running : seqs[q].outputs > 0 => seqs[q].status = "DECODE"
      BY <1>2, FreshOrDecoding DEF PaceInv
    <3>5. r \in Running
      BY <3>3, <3>4 DEF Live
    <3>6. seqs[r].status = "DECODE"
      BY <3>3, <3>4, <3>5
    <3> QED
      BY <2>2, <3>1, <3>3, <3>5, <3>6
  <2>3. CASE Done = 3 /\ name = "smoke"
    <3>1. seq_counter = 1 /\ Live = {}
      BY <1>2, <1>10, <2>3 DEF PlanInv, Clock, SmokeClock
    <3>2. Len(requests) = seq_counter - Cardinality(Live) /\ Cardinality(Live) = 0
      BY <1>1, <3>1, LiveCount, FS_EmptySet
    <3> QED
      BY <2>3, <3>1, <3>2
  <2> QED
    BY <2>1, <2>2, <2>3
<1> HIDE DEF new
<1>11. CASE mode = "prefill"
  BY <1>4, <1>6, <1>7, <1>11 DEF ProbesMeasureAsLabelled
<1>12. CASE mode = "decode"
  BY <1>4, <1>6, <1>8, <1>12 DEF ProbesMeasureAsLabelled, new
<1>13. CASE mode = "mixed"
  BY <1>4, <1>6, <1>9, <1>13 DEF ProbesMeasureAsLabelled, new
<1>14. CASE mode = "smoke"
  BY <1>4, <1>6, <1>10, <1>14 DEF ProbesMeasureAsLabelled, new
<1> QED
  BY <1>2, <1>11, <1>12, <1>13, <1>14

-----------------------------------------------------------------------------
LEMMA ProbeInvHolds == DrivenSpec => [](CallerInv /\ ProbeInv)
<1>1. ProbeInit => CallerInv /\ ProbeInv
  BY ProbeInitInv
<1>2. CallerInv /\ ProbeInv /\ [DrivenNext]_driven_vars => CallerInv' /\ ProbeInv'
  <2> SUFFICES ASSUME CallerInv, ProbeInv, [DrivenNext]_driven_vars
               PROVE  CallerInv' /\ ProbeInv'
    OBVIOUS
  <2>1. [CallerNext]_all_vars
    BY DriverMoves DEF ProbeInv
  <2> QED
    BY <2>1, CallerNextKeeps, ProbeNextKeeps
<1> QED
  BY <1>1, <1>2, PTL DEF DrivenSpec

(* Whatever lengths, contexts, batch and number of steps a probe is run    *)
(* with, each figure it reads between two steps is the figure of what it   *)
(* is filed under: of the step the command ran, with that prefill, that    *)
(* batch and those contexts, and of nothing recomputed.                    *)
THEOREM ProbesAlwaysMeasureAsLabelled == DrivenSpec => []ProbesMeasureAsLabelled
<1>1. CallerInv /\ ProbeInv => ProbesMeasureAsLabelled
  BY FiguresAsPlanned
<1> QED
  BY <1>1, ProbeInvHolds, PTL

(* The cache each probe asks for is enough, for every choice of its        *)
(* parameters: none of its requests is ever preempted, a step that begins  *)
(* has something to run, and it runs everything that waits.                *)
THEOREM ProbesHaveRoom ==
  DrivenSpec => [](mode # "server" =>
                     /\ preemptions_total = 0 /\ pc \notin {"make_room", "retry"}
                     /\ pc \in {"admit", "forward"} => Live # {}
                     /\ pc = "forward" => waiting = << >>)
<1>1. CallerInv /\ ProbeInv =>
        (mode # "server" =>
           /\ preemptions_total = 0 /\ pc \notin {"make_room", "retry"}
           /\ pc \in {"admit", "forward"} => Live # {}
           /\ pc = "forward" => waiting = << >>)
  BY DEF ProbeInv, Probing, PaceInv, NeverPreempted, AllJoin
<1> QED
  BY <1>1, ProbeInvHolds, PTL

-----------------------------------------------------------------------------
(***************************************************************************)
(* submit() takes every prompt of a probe.                                 *)
(***************************************************************************)
LEMMA NoLengthIsLonger ==
  /\ Longest \in Nat /\ Len(Lens) = Len(Lengths) + 1
  /\ \A i \in 1 .. Len(Lens) : Lens[i] <= Longest /\ Lens[i] \in ToSet(Lengths)
<1> DEFINE S == ToSet(Lengths)
<1>1. Lengths \in Seq(Nat) /\ Lengths # << >> /\ Len(Lengths) \in Nat
  BY ProbeAssumption
<1>2. IsFiniteSet(S) /\ S \in SUBSET Nat /\ S # {}
  <2>1. 1 \in 1 .. Len(Lengths)
    BY <1>1
  <2> QED
    BY <1>1, <2>1, FiniteToSet, ToSetOfSeq, InToSet
<1>3. \A i \in 1 .. Len(Lengths) : Lengths[i] \in S
  BY <1>1, InToSet
<1> HIDE DEF S
<1>4. Longest \in S /\ \A y \in S : Longest >= y
  BY <1>2, LongestIsALength DEF Longest, S
<1> DEFINE one == <<Longest>>
<1>5. one \in Seq(Nat) /\ Len(one) = 1 /\ one[1] = Longest
  BY <1>2, <1>4
<1>6. Lens = one \o Lengths
  BY DEF Lens
<1> HIDE DEF one
<1>7. /\ Len(one \o Lengths) = Len(one) + Len(Lengths)
      /\ \A i \in 1 .. Len(one) : (one \o Lengths)[i] = one[i]
      /\ \A i \in 1 .. Len(Lengths) : (one \o Lengths)[Len(one) + i] = Lengths[i]
  <2>1. one \in Seq(Nat)
    BY <1>5
  <2>2. Lengths \in Seq(Nat)
    BY <1>1
  <2> QED
    BY <2>1, <2>2, Joined
<1>8. ASSUME NEW i \in 1 .. Len(Lens) PROVE Lens[i] \in S
  <2>1. CASE i = 1
    BY <1>4, <1>5, <1>6, <1>7, <2>1
  <2>2. CASE i # 1
    <3>1. i - 1 \in 1 .. Len(Lengths) /\ 1 + (i - 1) = i
      BY <1>1, <1>5, <1>6, <1>7, <2>2
    <3>2. Lens[i] = Lengths[i - 1]
      BY <1>5, <1>6, <1>7, <3>1
    <3> QED
      BY <1>3, <3>1, <3>2
  <2> QED
    BY <2>1, <2>2
<1>9. \A x, y \in Nat : x >= y => y <= x
  OBVIOUS
<1>10. ASSUME NEW i \in 1 .. Len(Lens) PROVE Lens[i] <= Longest
  <2>1. Lens[i] \in S /\ Lens[i] \in Nat /\ Longest \in Nat /\ Longest >= Lens[i]
    BY <1>2, <1>4, <1>8
  <2> QED
    BY <1>9, <2>1
<1>11. Len(Lens) = Len(Lengths) + 1
  BY <1>1, <1>5, <1>6, <1>7
<1> QED
  BY <1>2, <1>4, <1>8, <1>10, <1>11 DEF S

LEMMA FourBlocksMore ==
  ASSUME NEW n \in Nat, BlockSize >= 16
  PROVE  BlocksFor(n) \in Nat /\ BlocksFor(n + 64) \in Nat /\ BlocksFor(n + 64) <= BlocksFor(n) + 4
<1> DEFINE d == BlockSize
           p == (n + d - 1) \div d
           q == (n + 64 + d - 1) \div d
<1>1. d \in Nat \ {0} /\ d >= 16 /\ n + d - 1 \in Nat /\ n + 64 + d - 1 \in Nat
  BY SchedulerAssumption
<1>2. /\ p \in Nat /\ n + d - 1 < d * p + d
      /\ q \in Nat /\ d * q <= n + 64 + d - 1
  BY <1>1, DivBounds
<1>3. BlocksFor(n) = p /\ BlocksFor(n + 64) = q
  BY DEF BlocksFor
<1> HIDE DEF d, p, q
<1>4. q > p + 4 => d * q >= d * p + 5 * d
  <2> SUFFICES ASSUME q > p + 4 PROVE d * q >= d * p + 5 * d
    OBVIOUS
  <2>1. PICK k \in Nat : q = p + 5 + k
    <3>1. q - p - 5 \in Nat /\ q = p + 5 + (q - p - 5)
      BY <1>2
    <3> QED
      BY <3>1
  <2>2. d * q = d * p + 5 * d + d * k
    BY <1>1, <1>2, <2>1
  <2>3. d * k \in Nat /\ d * p \in Nat
    BY <1>1, <1>2
  <2> QED
    BY <1>1, <2>2, <2>3
<1>5. d * p \in Nat /\ d * q \in Nat
  BY <1>1, <1>2
<1>6. q <= p + 4
  BY <1>1, <1>2, <1>4, <1>5
<1> QED
  BY <1>2, <1>3, <1>6

(* Each cache holds the longest of the requests it is asked for. *)
LEMMA PromptsFit ==
  ASSUME CallerInv, ProbeInv, Probing, Doing("submit"), BlockSize >= 16
  PROVE  LET p == Head(script).len
             m == Head(script).limit
         IN  /\ BlocksFor(p + m) <= NumBlocks
             /\ m >= 1 /\ m \in Nat
             /\ p \in {Context, Joining} \cup ToSet(Lengths) \/ p >= 1
             /\ p \in Nat
<1> DEFINE p == Head(script).len
           m == Head(script).limit
<1>1. /\ mode = "prefill" =>
           seq_counter < Len(Lens) /\ p = Lens[seq_counter + 1] /\ m = 1
      /\ mode = "decode" => p = DecodePrompt /\ m = DecodeTokens
      /\ mode = "mixed" => \/ p = Context /\ m = 64
                           \/ p = Joining /\ m = 8
      /\ mode = "smoke" => p = 17 /\ m = 3
  BY PromptInPlan DEF ProbeInv
<1>2. mode \in {"prefill", "decode", "mixed", "smoke"} /\ mode \in Modes
  BY ProbeAssumption DEF ProbeInv, Probing
<1> HIDE DEF p, m
<1>3. ASSUME mode = "prefill"
      PROVE  p \in Nat /\ p \in ToSet(Lengths) /\ m = 1 /\ BlocksFor(p + m) <= NumBlocks
  <2>1. seq_counter + 1 \in 1 .. Len(Lens) /\ p = Lens[seq_counter + 1] /\ m = 1
    BY <1>1, <1>3, LiveCount, LensAreLengths
  <2>2. /\ p \in Nat /\ p <= Longest /\ p \in ToSet(Lengths) /\ Longest \in Nat
    BY <2>1, LensAreLengths, NoLengthIsLonger, ElementOfSeq
  <2>3. /\ BlocksFor(p) \in Nat /\ BlocksFor(Longest) \in Nat /\ BlocksFor(p) <= BlocksFor(Longest)
        /\ BlocksFor(p + 1) <= BlocksFor(p) + 1 /\ BlocksFor(p + 1) \in Nat
    <3>1. BlocksFor(p) \in Nat /\ BlocksFor(Longest) \in Nat /\ BlocksFor(p) <= BlocksFor(Longest)
      BY <2>2, BlocksForMonotone
    <3>2. BlocksFor(p + 1) \in BlocksFor(p) .. BlocksFor(p) + 1
      BY <2>2, BlocksForStep
    <3> QED
      BY <3>1, <3>2
  <2>4. NumBlocks = BlocksFor(Longest) + 4
    BY <1>2, <1>3, ProbeAssumption DEF PrefillBlocks
  <2> QED
    BY <2>1, <2>2, <2>3, <2>4
<1>4. ASSUME mode = "decode"
      PROVE  p \in Nat /\ p >= 1 /\ m \in Nat /\ m >= 1 /\ BlocksFor(p + m) <= NumBlocks
  <2>1. p = Target - K /\ m = K + 1 /\ p + m = Target + 1
    BY <1>1, <1>4, Parameters DEF DecodePrompt, DecodeTokens
  <2> DEFINE x == BlocksFor(Target + 2)
  <2>2. x \in Nat /\ BlocksFor(Target + 1) \in Nat /\ BlocksFor(Target + 1) <= x
    <3>1. Target + 1 \in Nat /\ Target + 2 \in Nat /\ Target + 1 <= Target + 2
      BY Parameters
    <3> QED
      BY <3>1, BlocksForMonotone
  <2>3. NumBlocks = Batch * x + 4
    BY <1>2, <1>4, ProbeAssumption DEF DecodeBlocks
  <2> HIDE DEF x
  <2>4. \A b, y \in Nat : b >= 1 => y <= b * y
    <3> SUFFICES ASSUME NEW b \in Nat, NEW y \in Nat, b >= 1 PROVE y <= b * y
      OBVIOUS
    <3>1. PICK c \in Nat : b = c + 1
      <4>1. b - 1 \in Nat /\ b = b - 1 + 1
        OBVIOUS
      <4> QED
        BY <4>1
    <3>2. b * y = c * y + y /\ c * y \in Nat
      BY <3>1
    <3> QED
      BY <3>2
  <2>5. x <= Batch * x /\ Batch * x \in Nat
    BY <2>2, <2>4, Parameters
  <2> DEFINE y == Batch * x
  <2>6. p \in Nat /\ p >= 1 /\ m \in Nat /\ m >= 1
    BY <2>1, Parameters
  <2>7. BlocksFor(p + m) \in Nat /\ BlocksFor(p + m) <= x
    BY <2>1, <2>2
  <2>8. NumBlocks = y + 4 /\ x <= y /\ y \in Nat
    BY <2>3, <2>5
  <2> HIDE DEF y
  <2> QED
    BY <2>2, <2>6, <2>7, <2>8
<1>5. ASSUME mode = "mixed"
      PROVE  p \in Nat /\ p \in {Context, Joining} /\ m \in {64, 8} /\ BlocksFor(p + m) <= NumBlocks
  <2> DEFINE n == Context + Joining + 8
  <2>1. NumBlocks = (1 + 1) * BlocksFor(n) + 4
    BY <1>2, <1>5, ProbeAssumption DEF ActivationBlocks
  <2>2. n \in Nat /\ Context <= n /\ Joining + 8 <= n
    BY Parameters
  <2> HIDE DEF n
  <2>3. BlocksFor(n) \in Nat
    BY <2>2, BlocksForMonotone
  <2>4. CASE p = Context /\ m = 64
    <3>1. /\ BlocksFor(Context) \in Nat /\ BlocksFor(Context + 64) \in Nat
          /\ BlocksFor(Context + 64) <= BlocksFor(Context) + 4 /\ BlocksFor(Context) <= BlocksFor(n)
      BY <2>2, FourBlocksMore, BlocksForMonotone, Parameters
    <3> QED
      BY <2>1, <2>3, <2>4, <3>1, Parameters
  <2>5. CASE p = Joining /\ m = 8
    <3>1. Joining + 8 \in Nat
      BY Parameters
    <3>2. BlocksFor(Joining + 8) \in Nat /\ BlocksFor(Joining + 8) <= BlocksFor(n)
      BY <2>2, <3>1, BlocksForMonotone
    <3> QED
      BY <2>1, <2>3, <2>5, <3>2, Parameters
  <2> QED
    BY <1>1, <1>5, <2>4, <2>5
<1>6. ASSUME mode = "smoke"
      PROVE  p = 17 /\ m = 3 /\ BlocksFor(p + m) <= NumBlocks
  <2>1. p = 17 /\ m = 3 /\ p + m = 20
    BY <1>1, <1>6
  <2>2. BlocksFor(0) = 0
    <3> DEFINE d == BlockSize
               q == (0 + d - 1) \div d
    <3>1. d \in Nat \ {0} /\ 0 + d - 1 \in Nat
      BY SchedulerAssumption
    <3>2. q \in Nat /\ d * q <= 0 + d - 1
      BY <3>1, DivBounds
    <3>3. BlocksFor(0) = q
      BY DEF BlocksFor
    <3> HIDE DEF d, q
    <3>4. ASSUME q > 0 PROVE FALSE
      <4>1. d * q >= d * 0 + d
        BY <3>1, <3>2, <3>4, NextMultiple
      <4>2. d * 0 + d = d
        BY <3>1
      <4> DEFINE w == d * q
      <4>3. w >= d /\ w <= 0 + d - 1 /\ w \in Nat
        BY <3>1, <3>2, <4>1, <4>2
      <4> HIDE DEF w
      <4> QED
        BY <3>1, <4>3
    <3> QED
      BY <3>2, <3>3, <3>4
  <2>3. /\ BlocksFor(20) \in Nat /\ BlocksFor(64) \in Nat /\ BlocksFor(20) <= BlocksFor(64)
        /\ BlocksFor(0 + 64) <= BlocksFor(0) + 4
    <3>1. BlocksFor(20) \in Nat /\ BlocksFor(64) \in Nat /\ BlocksFor(20) <= BlocksFor(64)
      <4>1. 20 \in Nat /\ 64 \in Nat /\ 20 <= 64
        OBVIOUS
      <4> QED
        BY <4>1, BlocksForMonotone
    <3>2. BlocksFor(0 + 64) <= BlocksFor(0) + 4
      <4>1. 0 \in Nat
        OBVIOUS
      <4> QED
        BY <4>1, FourBlocksMore
    <3> QED
      BY <3>1, <3>2
  <2>4. 0 + 64 = 64 /\ NumBlocks = 8
    BY <1>2, <1>6, ProbeAssumption DEF SmokeBlocks
  <2> QED
    BY <2>1, <2>2, <2>3, <2>4
<1>7. BlocksFor(p + m) <= NumBlocks /\ m >= 1 /\ m \in Nat /\ p \in Nat
  BY <1>2, <1>3, <1>4, <1>5, <1>6
<1>8. p \in {Context, Joining} \cup ToSet(Lengths) \/ p >= 1
  BY <1>2, <1>3, <1>4, <1>5, <1>6
<1> QED
  BY <1>7, <1>8 DEF p, m

(* With blocks of the 16 tokens the probes default to, and no length that  *)
(* is 0, submit() refuses nothing a probe submits: each cache holds the    *)
(* longest request it is asked for (the 64 tokens of the mixed cell's      *)
(* first request need the four spare blocks), and no id is taken.          *)
THEOREM ProbePromptsAreAccepted ==
  ASSUME BlockSize >= 16, 0 \notin {Context, Joining} \cup ToSet(Lengths)
  PROVE  DrivenSpec =>
           [](mode # "server" /\ Doing("submit") /\ Unused # {} =>
                ~Refused(FreshId, Head(script).len, Head(script).limit))
<1>1. CallerInv /\ ProbeInv =>
        (mode # "server" /\ Doing("submit") /\ Unused # {} =>
           ~Refused(FreshId, Head(script).len, Head(script).limit))
  <2> SUFFICES ASSUME CallerInv, ProbeInv, Probing, Doing("submit"), Unused # {}
               PROVE  ~Refused(FreshId, Head(script).len, Head(script).limit)
    BY DEF Probing
  <2> DEFINE p == Head(script).len
             m == Head(script).limit
  <2>1. /\ BlocksFor(p + m) <= NumBlocks /\ m >= 1 /\ m \in Nat
        /\ p \in {Context, Joining} \cup ToSet(Lengths) \/ p >= 1
        /\ p \in Nat
    BY PromptsFit
  <2>2. FreshId \in ReqId /\ seqs[FreshId].status = "ABSENT"
    <3>1. \A S : S # {} => (CHOOSE q \in S : TRUE) \in S
      OBVIOUS
    <3> QED
      BY <3>1 DEF FreshId, Unused
  <2>3. FreshId \notin Live
    BY <2>2 DEF CallerInv, SchedInv, StatusMatchesQueue, Live
  <2> HIDE DEF p, m
  <2>4. p >= 1
    <3>1. p # 0 \/ p >= 1
      BY <2>1
    <3> QED
      BY <2>1, <3>1
  <2>5. BlocksFor(p + m) \in Nat
    <3>1. p + m \in Nat
      BY <2>1
    <3> QED
      BY <3>1, BlocksForMonotone
  <2>6. ~(p < 1) /\ ~(m < 1) /\ ~(BlocksFor(p + m) > NumBlocks)
    BY <2>1, <2>4, <2>5, NumBlocksAssumption
  <2> QED
    BY <2>3, <2>6 DEF Refused, p, m
<1> QED
  BY <1>1, ProbeInvHolds, PTL

-----------------------------------------------------------------------------
(***************************************************************************)
(* The loops around step() are short.                                      *)
(***************************************************************************)
(* One step for each prefill; fill and drain of a decode cell with the     *)
(* measured ones between them; fill and four of a mixed cell; one for each *)
(* token of the smoke request.                                             *)
FewSteps ==
  /\ mode = "prefill" => steps.total < Len(Lengths) + 1
  /\ mode = "decode" => steps.total < K + 1
  /\ mode = "mixed" => steps.total < 5
  /\ mode = "smoke" => steps.total < 3

LEMMA StepsAreFew ==
  ASSUME CallerInv, ProbeInv, Probing, pc \in {"admit", "forward"}
  PROVE  FewSteps
<1>1. ~Serving /\ pc # "idle" /\ Live # {} /\ steps.total \in Nat
  <2>1. steps.total \in Nat
    BY DEF CallerInv, MetricsInv, MetricsTypes
  <2>2. Live # {}
    BY DEF ProbeInv, PaceInv, AllJoin
  <2> QED
    BY <2>1, <2>2 DEF Serving, Growing
<1>2. Clock /\ Asked /\ Paced
  BY DEF ProbeInv, PlanInv, PaceInv
<1>3. ASSUME mode = "prefill" PROVE steps.total < Len(Lengths) + 1
  <2>1. seq_counter <= Len(Lens) /\ steps.total = seq_counter - 1 /\ seq_counter \in Nat
    BY <1>1, <1>2, <1>3 DEF Clock, PrefillClock, CallerInv, SchedInv, TypeOK
  <2>2. Len(Lens) = Len(Lengths) + 1 /\ Len(Lens) \in Nat /\ Len(Lengths) \in Nat
    BY NoLengthIsLonger, LensAreLengths, Parameters
  <2> QED
    BY <2>1, <2>2
<1>4. ASSUME mode = "decode" PROVE steps.total < K + 1
  BY <1>1, <1>2, <1>4, Parameters DEF Clock, DecodeClock
<1>5. ASSUME mode = "mixed" PROVE steps.total < 5
  BY <1>1, <1>2, <1>5 DEF Clock, MixedClock
<1>6. ASSUME mode = "smoke" PROVE steps.total < 3
  <2>1. PICK r \in Live : TRUE
    BY <1>1
  <2>2. seqs[r].max_tokens = 3
    BY <1>2, <1>6, <2>1 DEF Asked
  <2>3. seqs[r].outputs = steps.total - 0 + 0
    BY <1>1, <1>2, <1>6, <2>1 DEF Paced, JoinedAt
  <2>4. seqs[r].outputs < seqs[r].max_tokens
    BY <2>1 DEF CallerInv, OrderInv, LiveFits
  <2> QED
    BY <1>1, <2>2, <2>3, <2>4
<1> QED
  BY <1>3, <1>4, <1>5, <1>6 DEF FewSteps

(* No loop of a probe can go round for long: every step that begins is one *)
(* of the first Len(Lengths) + 1, K + 1, five or three.                    *)
THEOREM ProbesRunFewSteps ==
  DrivenSpec => [](mode # "server" /\ pc \in {"admit", "forward"} => FewSteps)
<1>1. CallerInv /\ ProbeInv => (mode # "server" /\ pc \in {"admit", "forward"} => FewSteps)
  BY StepsAreFew DEF Probing
<1> QED
  BY <1>1, ProbeInvHolds, PTL
===============================================================================
