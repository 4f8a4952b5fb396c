---------------------------- MODULE MCScheduler ----------------------------
(* Small instances of the scheduler for TLC. *)
EXTENDS Scheduler

(***************************************************************************)
(* Liveness cannot be checked under symmetry.  Ids that were never used    *)
(* are interchangeable, so an unused id is taken up in a fixed order; a    *)
(* retired id is submitted again at any time.                              *)
(***************************************************************************)
NextUnused == SelectSeq(SetToSeq(ReqId), LAMBDA r : seqs[r].status = "ABSENT")

OrderedNext ==
  /\ Next
  /\ seq_counter' # seq_counter =>
       LET r == Last(waiting') IN seqs[r].status = "ABSENT" => r = Head(NextUnused)

OrderedSpec == Init /\ [][OrderedNext]_vars /\ WF_vars(Step)
=============================================================================
