------------------------------ MODULE BenchRun ------------------------------
(***************************************************************************)
(* miniserve/bench/run.py under run_cell() of sweep.py: a cell starts an   *)
(* engine of its own, submits the arrivals of its schedule in order,       *)
(* collects every stream in a thread of its own, joins the collectors with *)
(* a timeout, stops the engine whatever happened, and writes a row.  A     *)
(* sweep is a sequence of such cells that share nothing but the file.      *)
(*                                                                         *)
(* The driver throws the futures away: what became of a request it learns  *)
(* from the FINISH of its stream alone.  Arrival times only delay a        *)
(* submission, so every action of the driver may come at any time.         *)
(***************************************************************************)
EXTENDS Engine

CONSTANT Schedule    \* the requests of the cell, in the order of their arrival

(* generate() numbers its arrivals: their req_ids are distinct. *)
ASSUME ScheduleAssumption ==
  /\ Schedule \in Seq(ReqId) /\ IsInjective(Schedule)
  /\ Call = DOMAIN Schedule

VARIABLES driver,       \* where the driver thread is
          joined,       \* how many collectors it has joined
          collected,    \* per arrival: events its collector has taken
          results,      \* "results": what the collectors appended
          rows          \* the rows this cell adds to the output file

bench_vars == <<driver, joined, collected, results, rows>>
cell_vars == <<vars, bench_vars>>

CellInit ==
  /\ Init
  /\ driver = "submitting"
  /\ joined = 0
  /\ collected = [c \in Call |-> 0]
  /\ results = << >>
  /\ rows = << >>

Arrivals == Len(Schedule)
AllReturned == \A c \in Call : call[c].at = "returned"

(***************************************************************************)
(* Mutated forms, each one the bug a definition below is checked against.  *)
(***************************************************************************)
BugJoinsForEver == FALSE
BugCountsEvents(c, e) == [req |-> c, output_tokens |-> e.n + 1, aborted |-> e.aborted]
BugRowBeforeStop == driver = "returned"

-----------------------------------------------------------------------------
(* The body of "for a in schedule": the submit, then the collector's start. *)
SubmitNext(c) ==
  /\ driver = "submitting"
  /\ \A d \in Call : d < c => call[d].at = "returned"
  /\ \E m \in TokenLimits : SubmitEnters(c, Schedule[c], m)
  /\ UNCHANGED bench_vars

(* on_all_submitted() only sets a flag of the static scheduler. *)
AllSubmitted ==
  /\ driver = "submitting"
  /\ AllReturned
  /\ driver' = "joining"
  /\ UNCHANGED <<vars, joined, collected, results, rows>>

(* RequestResult(...) *)
Result(c, e) == [req |-> c, output_tokens |-> e.n, aborted |-> e.aborted]

(* collect(): one event off the stream; the FINISH ends the thread. *)
Collect(c) ==
  /\ call[c].at = "returned"
  /\ collected[c] < Len(stream[c])
  /\ collected' = [collected EXCEPT ![c] = @ + 1]
  /\ LET e == stream[c][collected[c] + 1]
     IN  results' = IF e.kind = "finish" THEN Append(results, Result(c, e)) ELSE results
  /\ UNCHANGED <<vars, driver, joined, rows>>

HasResult(c) == \E i \in DOMAIN results : results[i].req = c

Join ==
  /\ driver = "joining"
  /\ IF joined = Arrivals
     THEN driver' = "returned" /\ UNCHANGED joined
     ELSE HasResult(joined + 1) /\ joined' = joined + 1 /\ UNCHANGED driver
  /\ UNCHANGED <<vars, collected, results, rows>>

(* th.join(timeout=collect_timeout_s) came back and the thread is alive. *)
Hung == driver = "joining" /\ joined < Arrivals /\ ~HasResult(joined + 1)

(* raise RuntimeError("collector hung: a stream never terminated") *)
JoinTimesOut ==
  /\ Hung
  /\ driver' = "hung"
  /\ UNCHANGED <<vars, joined, collected, results, rows>>

(* "finally: engine.stop()": it sets the event, then joins the thread. *)
StopEngine ==
  /\ driver \in {"returned", "hung"}
  /\ ~stop /\ SetStop
  /\ UNCHANGED <<life_vars, client_vars, submissions, future, stream, engine_vars, bench_vars>>

(* "engine thread did not stop": a step that outlasts the join's timeout. *)
StopTimesOut ==
  /\ driver \in {"returned", "hung"}
  /\ stop /\ epc # "dead"
  /\ driver' = "raised"
  /\ UNCHANGED <<vars, joined, collected, results, rows>>

(***************************************************************************)
(* summarize(): the figures of a list of results, and whether they may be  *)
(* charted.                                                                *)
(***************************************************************************)
Finished(rs) == {i \in DOMAIN rs : ~rs[i].aborted}
CutShort(rs) == {i \in DOMAIN rs : rs[i].aborted}
Summary(rs) ==
  [n_finished |-> Cardinality(Finished(rs)),
   n_aborted |-> Cardinality(CutShort(rs)),
   total_output_tokens |->
     SumFunctionOnSet([i \in DOMAIN rs |-> rs[i].output_tokens], Finished(rs)),
   run_valid_for_chart |-> CutShort(rs) = {} /\ Cardinality(Finished(rs)) = Len(rs)]

EngineJoined == stop /\ epc = "dead"

(* run_cell() goes on behind the finally clause: the row is written. *)
WriteRow ==
  /\ driver = "returned"
  /\ EngineJoined
  /\ rows' = Append(rows, Summary(results))
  /\ driver' = "done"
  /\ UNCHANGED <<vars, joined, collected, results>>

(* The error leaves the cell, and with it the sweep. *)
Reraise ==
  /\ driver = "hung"
  /\ EngineJoined
  /\ driver' = "raised"
  /\ UNCHANGED <<vars, joined, collected, results, rows>>

DriverStep ==
  \/ \E c \in Call : SubmitNext(c)
  \/ AllSubmitted \/ Join \/ JoinTimesOut \/ StopEngine \/ StopTimesOut \/ WriteRow \/ Reraise

EngineRuns ==
  /\ Start \/ EngineStep \/ Crash \/ \E c \in Call : SubmitPuts(c)
  /\ UNCHANGED bench_vars

CellNext == DriverStep \/ EngineRuns \/ \E c \in Call : Collect(c)

(***************************************************************************)
(* The driver, the engine and every collector are threads that go on       *)
(* whenever they can; timeouts bound the driver's waits.  The model (a     *)
(* step of the engine) may crash, but need not.                            *)
(***************************************************************************)
CellSpec ==
  /\ CellInit /\ [][CellNext]_cell_vars
  /\ WF_cell_vars(DriverStep)
  /\ WF_cell_vars(Start /\ UNCHANGED bench_vars)
  /\ WF_cell_vars(EngineStep /\ UNCHANGED bench_vars)
  /\ \A c \in Call :
       /\ WF_cell_vars(Collect(c))
       /\ WF_cell_vars(SubmitPuts(c) /\ UNCHANGED bench_vars)

-----------------------------------------------------------------------------
(***************************************************************************)
(* "A chart must never quietly average over a partially failed run": a row *)
(* that says run_valid_for_chart comes from a cell whose every arrival was *)
(* admitted and ran to its own end, although nobody looked at a future,    *)
(* and counts every token of it.                                           *)
(***************************************************************************)
ValidRunsAreWhole ==
  \A i \in DOMAIN rows :
    rows[i].run_valid_for_chart =>
      /\ \A c \in Call : future[c] = "admitted" /\ phase[Schedule[c]] = "done"
      /\ rows[i].n_finished = Arrivals
      /\ rows[i].total_output_tokens = SumFunction([c \in Call |-> delivered[Schedule[c]]])

(***************************************************************************)
(* A row speaks for the whole cell and for it alone: when it is written    *)
(* there is one result per arrival, with the number of tokens streamed to  *)
(* it, and the engine of the cell is dead and every future it was given    *)
(* resolved, so that the next cell is timed alone.                         *)
(***************************************************************************)
RowIsTheWholeCell ==
  rows # << >> =>
    /\ Len(results) = Arrivals
    /\ \A c \in Call : HasResult(c) /\ future[c] # "pending"
    /\ \A i \in DOMAIN results :
         results[i].output_tokens = Len(stream[results[i].req]) - 1
    /\ epc = "dead"

(***************************************************************************)
(* The driver never waits for a lost FINISH for ever: a cell ends, with    *)
(* its row or with an error, although a crash leaves the streams of the    *)
(* submissions that were never drained without one.                        *)
(***************************************************************************)
CellEnds == <>(driver \in {"done", "raised"})
=============================================================================
