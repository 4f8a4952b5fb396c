------------------------------- MODULE Probes -------------------------------
(***************************************************************************)
(* Who drives a scheduler and reads its metrics: the server (requests and  *)
(* scrapes at any time, engine.py and server.py) or one of the synchronous *)
(* measuring loops of bench/ - measure_prefill() of calibrate.py,          *)
(* measure_decode_cell() of decode_probe.py, measure_cell() of             *)
(* activation_probe.py, main() of smoke.py.                                *)
(*                                                                         *)
(* A measuring loop is a script of commands: submit a prompt, call step()  *)
(* once, or call it until a condition holds.  A command with a label is    *)
(* one whose step record the probe reads, and the label is what it is      *)
(* filed under.                                                            *)
(***************************************************************************)
EXTENDS Metrics

CONSTANTS Modes,           \* "server" and the probes this instance runs
          Batch,           \* decode probe: sequences that decode together
          Target,          \* decode probe: target_context
          K,               \* decode probe: K_MEASURED_STEPS
          Lengths,         \* calibrate: prompt lengths, in order
          Context, Joining \* activation probe: context and prefill_len of a mixed cell

VARIABLES mode,      \* who drives
          script,    \* commands the probe has left
          label      \* the last command with a label, and what it saw

probe_vars == <<mode, script, label>>
driven_vars == <<all_vars, probe_vars>>

Sub(len, max_tokens) == [do |-> "submit", len |-> len, limit |-> max_tokens]
Times(n, command) == [i \in 1 .. n |-> command]

(***************************************************************************)
(* Mutated forms, each one the bug a definition below is checked against.  *)
(***************************************************************************)
BugFilledIgnoresWaiting == \A r \in Running : seqs[r].status = "DECODE"
BugPromptOfTarget == Target
BugTokensOfCell == K
BugAsksForWholeCache == NumBlocks * BlockSize

-----------------------------------------------------------------------------
Longest == Max(ToSet(Lengths))

(* Blocks each probe gives its cache; the instance must have as many. *)
PrefillBlocks == BlocksFor(Longest) + 4
DecodeBlocks == Batch * BlocksFor(Target + 2) + 4
ActivationBlocks == (1 + 1) * BlocksFor(Context + Joining + 8) + 4
SmokeBlocks == 8

ASSUME ProbeAssumption ==
  /\ Modes \subseteq {"server", "prefill", "decode", "mixed", "smoke"}
  /\ Lengths \in Seq(Nat) \ {<< >>}
  /\ {K, Target, Context, Joining} \subseteq Nat
  /\ Batch \in 1 .. MaxBatch /\ K < Target
  /\ "prefill" \in Modes => NumBlocks = PrefillBlocks
  /\ "decode" \in Modes => NumBlocks = DecodeBlocks
  /\ "mixed" \in Modes => NumBlocks = ActivationBlocks /\ MaxBatch >= 2
  /\ "smoke" \in Modes => NumBlocks = SmokeBlocks

(* probe(): one request of one token, stepped to retirement. *)
PrefillProbe(len) ==
  <<Sub(len, 1), [do |-> "drain", label |-> "prefill", len |-> len]>>

(* One warm-up at the largest length, then the lengths round-robin. *)
PrefillScript ==
  LET lengths == <<Longest>> \o Lengths
      probe(i) == PrefillProbe(lengths[(i + 1) \div 2])
  IN  [i \in 1 .. 2 * Len(lengths) |-> probe(i)[IF i % 2 = 1 THEN 1 ELSE 2]]

DecodePrompt == Target - K
DecodeTokens == K + 1

(* prompts of target - k tokens; the fill; k measured steps; the drain. *)
DecodeScript ==
  Times(Batch, Sub(DecodePrompt, DecodeTokens))
    \o <<[do |-> "fill"]>>
    \o [i \in 1 .. K |-> [do |-> "step", label |-> "decode", context |-> Target - K + i]]
    \o <<[do |-> "drain"]>>

(* A running batch of one, a long prefill that joins it, four steps. *)
MixedScript ==
  <<Sub(Context, 64), [do |-> "fill"], Sub(Joining, 8)>>
    \o [i \in 1 .. 4 |-> [do |-> "step", label |-> IF i = 1 THEN "joins" ELSE "together"]]

SmokeScript ==
  <<Sub(17, 3), [do |-> "step", label |-> "first"],
    [do |-> "drain", label |-> "smoke"]>>

Script(m) ==
  CASE m = "server" -> << >>
    [] m = "prefill" -> PrefillScript
    [] m = "decode" -> DecodeScript
    [] m = "mixed" -> MixedScript
    [] m = "smoke" -> SmokeScript

Unlabelled == [do |-> "none"]

ProbeInit ==
  /\ MetricsInit
  /\ mode \in Modes
  /\ script = Script(mode)
  /\ label = Unlabelled

-----------------------------------------------------------------------------
(* step() has returned to its caller. *)
BetweenSteps == pc = "idle" /\ retiring = << >>

Doing(what) == BetweenSteps /\ script # << >> /\ Head(script).do = what

(* Requests are numbered: the next id that was never used, of the finitely *)
(* many an instance has.                                                   *)
Unused == {r \in ReqId : seqs[r].status = "ABSENT"}
FreshId == CHOOSE r \in Unused : TRUE

ProbeSubmits ==
  /\ Doing("submit")
  /\ Unused # {}
  /\ MSubmit(FreshId, Head(script).len, Head(script).limit)
  /\ script' = Tail(script)
  /\ UNCHANGED <<mode, label>>

(* "while any(status is not DECODE) or sched.waiting: step()" *)
Filled == waiting = << >> /\ \A r \in Running : seqs[r].status = "DECODE"

(* "while sched.waiting or sched.running: step()" *)
Drained == Live = {}

(* What the probe computes of the scheduler before it calls step(). *)
Labelled(command) ==
  IF "label" \in DOMAIN command
  THEN [command |-> command, before |-> steps.total,
        contexts |-> {TotalLen(r) : r \in Running}, do |-> "read"]
  ELSE Unlabelled

ProbeStepsOnce ==
  /\ Doing("step")
  /\ MStepBegins
  /\ label' = Labelled(Head(script))
  /\ script' = Tail(script)
  /\ UNCHANGED mode

ProbeLoops ==
  /\ \/ Doing("fill") /\ ~Filled
     \/ Doing("drain") /\ ~Drained
  /\ MStepBegins
  /\ label' = Unlabelled
  /\ UNCHANGED <<mode, script>>

ProbeLeavesLoop ==
  /\ \/ Doing("fill") /\ Filled
     \/ Doing("drain") /\ Drained
  /\ label' = Labelled(Head(script))
  /\ script' = Tail(script)
  /\ UNCHANGED <<all_vars, mode>>

(* The engine thread submits between steps and calls step() all the time. *)
ServerDrives ==
  /\ mode = "server"
  /\ \/ BetweenSteps /\ MStepBegins /\ Live # {}
     \/ \E p \in PromptLens, m \in TokenLimits : Unused # {} /\ MSubmit(FreshId, p, m)
     \/ ScrapeBegins
     \/ ScrapeReads
  /\ UNCHANGED probe_vars

Probe == ProbeSubmits \/ ProbeStepsOnce \/ ProbeLoops \/ ProbeLeavesLoop

StepRuns ==
  /\ StepGoesOn
  /\ UNCHANGED probe_vars

DrivenNext == ServerDrives \/ Probe \/ StepRuns

(* A probe is one thread that runs to its end; so is a step. *)
DrivenSpec ==
  ProbeInit /\ [][DrivenNext]_driven_vars /\ WF_driven_vars(Probe) /\ WF_driven_vars(StepRuns)

-----------------------------------------------------------------------------
(***************************************************************************)
(* The assertions of the probes, and what their figures are filed under:   *)
(* a prefill time belongs to one fresh prompt of that length, in a step of *)
(* its own; a decode time to a step of the whole batch, decoding, every    *)
(* context as long as labelled; the mixed peak to a step in which the long *)
(* prompt joins the batch, then to steps of all of them; the smoke request *)
(* has one token after one step and one record in the end.  Nothing is     *)
(* preempted and no record is read that the step did not write.            *)
(***************************************************************************)
ProbesMeasureAsLabelled ==
  BetweenSteps /\ label # Unlabelled =>
    LET name == label.command.label
        new == steps.total = label.before + 1
    IN  /\ preemptions_total = 0 /\ steps.last.recompute = 0
        /\ name = "prefill" =>
             steps.last = [NoWork EXCEPT !.n_prefill = 1, !.fresh = label.command.len]
        /\ name = "decode" =>
             /\ new /\ steps.last = [NoWork EXCEPT !.n_decode = Batch]
             /\ label.contexts = {label.command.context}
        /\ name = "joins" =>
             new /\ steps.last = [n_prefill |-> 1, n_decode |-> 1,
                                  fresh |-> Joining, recompute |-> 0]
        /\ name = "together" => new /\ steps.last = [NoWork EXCEPT !.n_decode = 2]
        /\ name = "first" =>
             new /\ \E r \in Running : seqs[r].status = "DECODE" /\ seqs[r].outputs = 1
        /\ name = "smoke" => Len(requests) = 1

(***************************************************************************)
(* Every probe comes to its end: each of its prompts is accepted by a      *)
(* cache of the size it asks for, and its loops around step() terminate.   *)
(***************************************************************************)
ProbesEnd == (mode # "server") ~> (BetweenSteps /\ script = << >>)
=============================================================================
