----------------------------- MODULE MCBenchRun -----------------------------
(* A small instance of a benchmark cell for TLC. *)
EXTENDS BenchRun

MCSchedule == <<"req-0000", "req-0001", "req-0002">>
MCCall == 1..3
MCReqId == {"req-0000", "req-0001", "req-0002"}
=============================================================================
