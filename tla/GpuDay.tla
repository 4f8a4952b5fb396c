------------------------------- MODULE GpuDay -------------------------------
(***************************************************************************)
(* miniserve/bench/gpu_day.py: the calibration session on the rented GPU.  *)
(* One behaviour is one session: it measures, gates the prefill fit, reads *)
(* the transfer tiers back from the file another probe wrote, assembles    *)
(* the configuration, computes its crossover band (the steps of            *)
(* CostModel.tla) and validates the band at three points.                  *)
(*                                                                         *)
(* Every stage leaves its file in the same directory as the session before *)
(* and may raise (device, memory, disk); a session may therefore start     *)
(* among the files of an earlier one that ended anywhere.                  *)
(***************************************************************************)
EXTENDS CostModel, SequencesExt

CONSTANTS Errors,       \* mean relative errors a fit may have, in percent
          GridSize      \* number of prompt lengths measured

ASSUME GridAssumption == GridSize \in Nat

VARIABLES stage,      \* where main() is
          outcome,    \* "running", or how the session ended
          disk,       \* per file: whose session wrote it
          residuals,  \* signs of the preferred fit's residuals, while it is judged
          fit,        \* what fit_curves() returned
          transfer,   \* whose transfer tiers main() has read back
          points      \* the points the band was validated at

session_vars == <<stage, outcome, disk, residuals, fit, transfer, points>>
day_vars == <<vars, session_vars>>

(* In the order in which a session writes them. *)
Files == <<"session.log", "prefill.json", "decode.json", "transfer.json",
           "activation_peak.json", "cost_model.json", "spot_validation.json">>

LeftBy(n) == [f \in ToSet(Files) |-> IF IndexFirstSubSeq(<<f>>, Files) <= n THEN "old" ELSE "none"]

Unfitted == [preferred |-> "none", error |-> 0, structured |-> FALSE, acceptable |-> FALSE]

DayInit ==
  /\ config = CHOOSE c \in Config : TRUE
  /\ pc = "crossover"
  /\ lo = None /\ hi = None /\ crossover = None
  /\ band = [lo |-> None, hi |-> None, clamped |-> FALSE]
  /\ stage = "log" /\ outcome = "running"
  /\ \E n \in 0 .. Len(Files) : disk = LeftBy(n)
  /\ residuals = << >>
  /\ fit = Unfitted
  /\ transfer = "none"
  /\ points = << >>

-----------------------------------------------------------------------------
(***************************************************************************)
(* Mutated forms, each one the bug a definition below is checked against.  *)
(***************************************************************************)
BugRunSurvivesChange(signs, i) == signs[i] # 0 /\ i > 1
BugThirdFromLowerEdge == IF band.clamped THEN band.lo * 2 ELSE band.hi
BugTrustsOldTransfer == disk
BugLenient(preferred_err, structured) == preferred_err <= 5

(***************************************************************************)
(* _residual_structure(): four consecutive residuals of one sign, those    *)
(* within one percent having none.  run_sign is the residual before.       *)
(***************************************************************************)
Continues(signs, i) == signs[i] # 0 /\ i > 1 /\ signs[i] = signs[i - 1]

ResidualStructure(signs) ==
  LET run_len[i \in DOMAIN signs] ==
        IF Continues(signs, i) THEN run_len[i - 1] + 1 ELSE IF signs[i] # 0 THEN 1 ELSE 0
  IN  \E i \in DOMAIN signs : run_len[i] >= 4

(* The acceptance gate: FIT_GATE_REL_ERR and structureless residuals. *)
Acceptable(preferred_err, structured) == preferred_err <= 5 /\ ~structured

(* fit_curves() on errors and residual signs it may come to. *)
FitCurves(lin_err, quad_err, signs) ==
  LET preferred == IF 10 * quad_err < 8 * lin_err THEN "quadratic" ELSE "linear"
      preferred_err == IF preferred = "quadratic" THEN quad_err ELSE lin_err
      structured == ResidualStructure(signs)
  IN  [preferred |-> preferred, error |-> preferred_err, structured |-> structured,
       acceptable |-> Acceptable(preferred_err, structured)]

-----------------------------------------------------------------------------
Running(s) == outcome = "running" /\ stage = s

Written(file) == [disk EXCEPT ![file] = "new"]

(* A stage that measures, writes its file and goes on. *)
Writes(file, next) ==
  /\ disk' = Written(file)
  /\ stage' = next
  /\ UNCHANGED <<vars, outcome, residuals, fit, transfer, points>>

OpenLog == Running("log") /\ Writes("session.log", "prefill")

(* Curve A: the fit is written out whatever its gate will say. *)
CurveA ==
  /\ Running("prefill")
  /\ \E lin, quad \in Errors, signs \in [1 .. GridSize -> {-1, 0, 1}] :
       residuals' = signs /\ fit' = FitCurves(lin, quad, signs)
  /\ disk' = Written("prefill.json")
  /\ stage' = "gate"
  /\ UNCHANGED <<vars, outcome, transfer, points>>

(* "curve A failed its gate ...: do not proceed on a bad fit" *)
Gate ==
  /\ Running("gate")
  /\ IF fit.acceptable
     THEN stage' = "decode" /\ UNCHANGED outcome
     ELSE outcome' = "exit" /\ UNCHANGED stage
  /\ residuals' = << >>
  /\ UNCHANGED <<vars, disk, fit, transfer, points>>

CurveB == Running("decode") /\ Writes("decode.json", "transfer")

(* transfer_probe.main(): the tiers get to main() through the file only. *)
TransferFile == Written("transfer.json")

CurveC ==
  /\ Running("transfer")
  /\ disk' = TransferFile
  /\ stage' = "read back"
  /\ UNCHANGED <<vars, outcome, residuals, fit, transfer, points>>

(* json.loads((out_dir / "transfer.json").read_text()) *)
ReadTransfer ==
  /\ Running("read back")
  /\ transfer' = disk["transfer.json"]
  /\ stage' = "activation"
  /\ UNCHANGED <<vars, outcome, disk, residuals, fit, points>>

ActivationPeaks == Running("activation") /\ Writes("activation_peak.json", "assemble")

(* emit_config(): it refuses a fit that failed its gate.  Its field checks  *)
(* pass: the stages before it supply every field.                           *)
Emits == fit.acceptable

(* The configuration and its file; the coefficients are whatever was fitted. *)
Assemble ==
  /\ Running("assemble")
  /\ IF Emits
     THEN /\ config' \in {c \in Config : fit.preferred = "linear" => c.c = 0}
          /\ disk' = Written("cost_model.json")
          /\ stage' = "bands" /\ UNCHANGED outcome
     ELSE outcome' = "raised" /\ UNCHANGED <<config, disk, stage>>
  /\ UNCHANGED <<pc, lo, hi, crossover, band, residuals, fit, transfer, points>>

(* crossover_band() of a tier, statement by statement. *)
BandStep ==
  /\ Running("bands")
  /\ Next
  /\ UNCHANGED session_vars

BandDone ==
  /\ Running("bands")
  /\ pc = "done"
  /\ stage' = "spot"
  /\ UNCHANGED <<vars, outcome, disk, residuals, fit, transfer, points>>

(* select_points(): "a clamped band substitutes 2x crossover for the missing edge" *)
ThirdPoint == IF band.clamped THEN crossover * 2 ELSE band.hi

SelectPoints == IF crossover = None THEN << >> ELSE <<band.lo, crossover, ThirdPoint>>

(***************************************************************************)
(* spot_validate.main(): measures at each point and writes its verdict     *)
(* (evaluate_contract(), two of three), which does not stop the session.   *)
(***************************************************************************)
SpotValidate ==
  /\ Running("spot")
  /\ points' = SelectPoints
  /\ disk' = Written("spot_validation.json")
  /\ outcome' = "complete"
  /\ UNCHANGED <<vars, stage, residuals, fit, transfer>>

(* Anything a stage calls may raise before its file is written. *)
Raises ==
  /\ outcome = "running"
  /\ outcome' = "raised"
  /\ UNCHANGED <<vars, stage, disk, residuals, fit, transfer, points>>

Stage ==
  \/ OpenLog \/ CurveA \/ Gate \/ CurveB \/ CurveC \/ ReadTransfer \/ ActivationPeaks
  \/ Assemble \/ BandStep \/ BandDone \/ SpotValidate

(* main() runs on until it returns or raises; it need not raise. *)
DaySpec == DayInit /\ [][Stage \/ Raises]_day_vars /\ WF_day_vars(Stage)

-----------------------------------------------------------------------------
(* A run of four residuals on one side, by its definition. *)
FourAlike(signs) ==
  \E i \in 1 .. Len(signs) - 3 :
    signs[i] # 0 /\ \A j \in i .. i + 3 : signs[j] = signs[i]

(***************************************************************************)
(* "A config cannot be emitted around a failed fit": the fit is accepted   *)
(* exactly when the preferred curve is within five percent and no four     *)
(* neighbouring residuals lie on one side of it, and where this session    *)
(* wrote a cost_model.json its fit was accepted.                           *)
(***************************************************************************)
NoConfigAroundABadFit ==
  /\ stage = "gate" /\ residuals # << >> =>
       (fit.acceptable <=> fit.error <= 5 /\ ~FourAlike(residuals))
  /\ disk["cost_model.json"] = "new" => fit.acceptable /\ ~fit.structured

(***************************************************************************)
(* What the operator is told to commit is one session: when main() comes   *)
(* to its end every file in the directory is its own, and no config was    *)
(* put together with the tiers an earlier session left on the disk.        *)
(***************************************************************************)
CommitIsOneSession ==
  /\ outcome = "complete" => \A f \in DOMAIN disk : disk[f] = "new"
  /\ disk["cost_model.json"] = "new" => transfer = "new"

(***************************************************************************)
(* The three points are the band from its lower edge up, through the       *)
(* crossover, to its upper edge or beyond; except for a crossover at       *)
(* max_tokens, where an unclamped upper edge is the length before it.      *)
(***************************************************************************)
SpotPointsAscend ==
  points # << >> =>
    /\ points[1] <= points[2]
    /\ points[2] <= points[3] \/ (crossover = MaxTokens /\ points[3] = MaxTokens - 1)

(***************************************************************************)
(* The session comes to an end, complete or not: every bisection of the    *)
(* band shrinks to one length, the empty one above a crossover at          *)
(* max_tokens included.                                                    *)
(***************************************************************************)
SessionEnds == <>(outcome # "running")
=============================================================================
