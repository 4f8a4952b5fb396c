------------------------------- MODULE Engine -------------------------------
(***************************************************************************)
(* miniserve/engine.py: the engine thread, the doorway through which the   *)
(* server threads hand it requests, the futures and token streams it       *)
(* answers with, and its two ways to end: stop() and an exception, out of  *)
(* a scheduler step or out of the admission of a request.                  *)
(*                                                                         *)
(* Each Engine.submit() call is a Call with a req_id of its choice.  The   *)
(* scheduler is seen through RequestLifecycle, which Scheduler.tla         *)
(* implements: a step serves some of the live requests, one token each.    *)
(*                                                                         *)
(* The doorway lock makes two shared accesses one critical section, so     *)
(* submit() takes two actions here.  The engine thread alone touches the   *)
(* scheduler and _streams; its actions are cut at the accesses to what it  *)
(* shares (stop event, submission queue, doorway) and at every sampled     *)
(* token, where a crash may come.                                          *)
(***************************************************************************)
EXTENDS RequestLifecycle, Sequences, SequencesExt

CONSTANTS Call,         \* calls of Engine.submit()
          HugeLimits,   \* limits so large that no float holds their block count
          None          \* no call: the doorway is free, the req_id has no stream

ASSUME EngineAssumption ==
  None \notin Call /\ TokenLimits \subseteq Int /\ HugeLimits \subseteq TokenLimits

VARIABLES call,          \* per call: where it is, its req_id and max_tokens
          doorway,       \* the call inside "with self._doorway", or None
          stop,          \* the _stop event
          submissions,   \* the queue _submissions
          future,        \* state of each call's Future
          stream,        \* events ever put on each call's stream
          streams,       \* _streams: the call whose stream a req_id feeds
          epc,           \* where the engine thread is
          todo           \* requests the running step still has to sample

client_vars == <<call, doorway>>
engine_vars == <<streams, epc, todo>>
vars == <<life_vars, client_vars, stop, submissions, future, stream, engine_vars>>

Token(n) == [kind |-> "token", n |-> n]

(* FinishSummary(output_tokens = n, aborted) *)
FinishEvent(n, aborted) == [kind |-> "finish", n |-> n, aborted |-> aborted]

Init ==
  /\ LifeInit
  /\ call = [c \in Call |-> [at |-> "start", id |-> None, limit |-> 0]]
  /\ doorway = None
  /\ stop = FALSE
  /\ submissions = << >>
  /\ future = [c \in Call |-> "pending"]
  /\ stream = [c \in Call |-> << >>]
  /\ streams = [r \in ReqId |-> None]
  /\ epc = "new"
  /\ todo = {}

LiveReqs == {r \in ReqId : phase[r] = "live"}

Put(c, event) == [stream EXCEPT ![c] = Append(@, event)]
Resolve(c, how) == [future EXCEPT ![c] = how]

(* Calls that returned, have no answer and are no longer on the queue. *)
Lost ==
  {c \in Call :
     call[c].at = "returned" /\ future[c] = "pending" /\ c \notin ToSet(submissions)}

-----------------------------------------------------------------------------
(***************************************************************************)
(* Mutated forms, each one the bug a definition below is checked against.  *)
(***************************************************************************)
BugStopOutsideDoorway == stop' = TRUE
BugRegisterBeforeSubmit(c, accepted) == [streams EXCEPT ![call[c].id] = c]
BugKeepsStream(r) == streams
BugForgetsCount(r) == FinishEvent(0, TRUE)
BugAbortNotMarked(r) == FinishEvent(delivered[r], FALSE)
BugNoRefusalSentinel(c) == stream
BugWaitsForEver == FALSE    \* the blocking get without its timeout
BugSwallowed == epc' = "drain"    \* a wider except that answers nobody

(* "with self._doorway: self._stop.set()" *)
SetStop == doorway = None /\ stop' = TRUE

(* _refusal_sentinel() *)
RefusalSentinel(c) == Put(c, FinishEvent(0, TRUE))

(***************************************************************************)
(* submit(), in a server thread: under the doorway lock the stop event is  *)
(* read, and the request is refused at once or put on the queue.           *)
(***************************************************************************)
SubmitEnters(c, r, m) ==
  /\ call[c].at = "start"
  /\ doorway = None
  /\ IF stop
     THEN /\ call' = [call EXCEPT ![c] = [at |-> "returned", id |-> r, limit |-> m]]
          /\ future' = Resolve(c, "stopped")
          /\ stream' = RefusalSentinel(c)
          /\ UNCHANGED doorway
     ELSE /\ call' = [call EXCEPT ![c] = [at |-> "doorway", id |-> r, limit |-> m]]
          /\ doorway' = c
          /\ UNCHANGED <<future, stream>>
  /\ UNCHANGED <<life_vars, stop, submissions, engine_vars>>

SubmitPuts(c) ==
  /\ call[c].at = "doorway"
  /\ submissions' = Append(submissions, c)
  /\ call' = [call EXCEPT ![c].at = "returned"]
  /\ doorway' = None
  /\ UNCHANGED <<life_vars, stop, future, stream, engine_vars>>

(* stop(), in any thread and at any time; the join only waits. *)
Stop ==
  /\ ~stop
  /\ SetStop
  /\ UNCHANGED <<life_vars, client_vars, submissions, future, stream, engine_vars>>

Start ==
  /\ epc = "new"
  /\ epc' = "top"
  /\ UNCHANGED <<life_vars, client_vars, stop, submissions, future, stream, streams, todo>>

-----------------------------------------------------------------------------
(* run(): "while not self._stop.is_set()" and the choice to idle or to step. *)
LoopTop ==
  /\ epc = "top"
  /\ epc' = IF stop THEN "finalize"
            ELSE IF LiveReqs = {} /\ submissions = << >> THEN "idle" ELSE "drain"
  /\ UNCHANGED <<life_vars, client_vars, stop, submissions, future, stream, streams, todo>>

(* "self._streams[req_id] = stream", only after scheduler.submit() accepted. *)
Registered(c, accepted) == IF accepted THEN [streams EXCEPT ![call[c].id] = c] ELSE streams

(* scheduler.submit() takes c: its id is not live and its size fits (a limit *)
(* below 1 stands for every request refused for its own sake).               *)
Acceptable(c) == phase[call[c].id] # "live" /\ call[c].limit >= 1

(***************************************************************************)
(* Behind these two checks scheduler.submit() computes the blocks of the   *)
(* worst case, ceil(n_tokens / block_size): for an integer such as 10**400 *)
(* the division raises OverflowError, which is no ValueError.  Everything  *)
(* else it raises is one (CapacityError included).                         *)
(***************************************************************************)
Overflows(c) == Acceptable(c) /\ call[c].limit \in HugeLimits

(* _admit(), coming back: the call is accepted, or refused on a ValueError. *)
Admit(c) ==
  LET r == call[c].id
      accepted == Acceptable(c)
  IN  /\ ~Overflows(c)
      /\ submissions' = Tail(submissions)
      /\ IF accepted
         THEN /\ Accept(r, call[c].limit)
              /\ future' = Resolve(c, "admitted")
              /\ UNCHANGED stream
         ELSE /\ future' = Resolve(c, "refused")
              /\ stream' = RefusalSentinel(c)
              /\ UNCHANGED life_vars
      /\ streams' = Registered(c, accepted)

(* The blocking get of an idle engine, and step_once()'s non-blocking ones. *)
Take ==
  /\ epc \in {"idle", "drain"}
  /\ submissions # << >>
  /\ Admit(Head(submissions))
  /\ epc' = "drain"
  /\ UNCHANGED <<client_vars, stop, todo>>

(* "except BaseException" of run(), whatever it was that raised. *)
ThreadRaises == epc' = "crashed"

(***************************************************************************)
(* _admit(), not coming back: its "except ValueError" lets the error of    *)
(* scheduler.submit() through, with the item popped off the queue, its     *)
(* future pending and its stream not registered, and the thread goes down. *)
(***************************************************************************)
TakeRaises ==
  /\ epc \in {"idle", "drain"}
  /\ submissions # << >>
  /\ Overflows(Head(submissions))
  /\ submissions' = Tail(submissions)
  /\ ThreadRaises
  /\ UNCHANGED <<life_vars, client_vars, stop, future, stream, streams, todo>>

IdleTimeout ==
  /\ epc = "idle"
  /\ submissions = << >>
  /\ epc' = "top"
  /\ UNCHANGED <<life_vars, client_vars, stop, submissions, future, stream, streams, todo>>

(***************************************************************************)
(* scheduler.step() over the abstract scheduler: it samples at least one   *)
(* live request if there is any, each at most once, and calls back.        *)
(***************************************************************************)
StepBegins ==
  /\ epc = "drain"
  /\ submissions = << >>
  /\ \E batch \in SUBSET LiveReqs :
       (batch = {} => LiveReqs = {}) /\ todo' = batch
  /\ epc' = "step"
  /\ UNCHANGED <<life_vars, client_vars, stop, submissions, future, stream, streams>>

Served(r) == epc = "step" /\ r \in todo /\ todo' = todo \ {r}

(* _on_token() *)
StepToken(r) ==
  /\ Served(r)
  /\ Deliver(r)
  /\ streams[r] # None
  /\ stream' = Put(streams[r], Token(delivered'[r]))
  /\ UNCHANGED <<client_vars, stop, submissions, future, streams, epc>>

Unregistered(r) == [streams EXCEPT ![r] = None]

(* _on_token() for the last token, then _on_finish(), which pops the stream. *)
StepFinish(r) ==
  /\ Served(r)
  /\ Finish(r)
  /\ streams[r] # None
  /\ stream' = [stream EXCEPT ![streams[r]] =
                  @ \o <<Token(delivered'[r]), FinishEvent(delivered'[r], FALSE)>>]
  /\ streams' = Unregistered(r)
  /\ UNCHANGED <<client_vars, stop, submissions, future, epc>>

StepEnds ==
  /\ epc = "step"
  /\ todo = {}
  /\ epc' = "top"
  /\ UNCHANGED <<life_vars, client_vars, stop, submissions, future, stream, streams, todo>>

(***************************************************************************)
(* The model, or anything else step() calls, raises; TakeRaises is the     *)
(* other way down.  run() then closes the door under its lock and goes on  *)
(* to the final drain.                                                     *)
(***************************************************************************)
Crash ==
  /\ epc = "step"
  /\ ThreadRaises
  /\ UNCHANGED <<life_vars, client_vars, stop, submissions, future, stream, streams, todo>>

CrashClosesDoor ==
  /\ epc = "crashed"
  /\ SetStop
  /\ epc' = "finalize"
  /\ UNCHANGED <<life_vars, client_vars, submissions, future, stream, streams, todo>>

-----------------------------------------------------------------------------
(***************************************************************************)
(* _finalize_shutdown(): undrained submissions have their future failed    *)
(* (and nothing put on their stream), then every registered stream gets an *)
(* aborted FINISH with the count of the tokens its request produced.       *)
(***************************************************************************)
FailUndrained ==
  /\ epc = "finalize"
  /\ submissions # << >>
  /\ future' = Resolve(Head(submissions), "stopped")
  /\ submissions' = Tail(submissions)
  /\ UNCHANGED <<life_vars, client_vars, stop, stream, engine_vars>>

AbortEvent(r) == FinishEvent(delivered[r], TRUE)

Aborted ==
  [c \in Call |->
     IF \E r \in ReqId : streams[r] = c
     THEN Append(stream[c], AbortEvent(CHOOSE r \in ReqId : streams[r] = c))
     ELSE stream[c]]

AbortStreams ==
  /\ epc = "finalize"
  /\ submissions = << >>
  /\ stream' = Aborted
  /\ streams' = [r \in ReqId |-> None]
  /\ epc' = "dead"
  /\ UNCHANGED <<life_vars, client_vars, stop, submissions, future, todo>>

EngineStep ==
  \/ LoopTop \/ Take \/ TakeRaises \/ IdleTimeout \/ StepBegins \/ StepEnds
  \/ \E r \in ReqId : StepToken(r) \/ StepFinish(r)
  \/ CrashClosesDoor \/ FailUndrained \/ AbortStreams

ClientStep ==
  \E c \in Call : (\E r \in ReqId, m \in TokenLimits : SubmitEnters(c, r, m)) \/ SubmitPuts(c)

Next == ClientStep \/ Stop \/ Start \/ EngineStep \/ Crash

Spec == Init /\ [][Next]_vars

(***************************************************************************)
(* The engine thread is started and scheduled; a thread inside the doorway *)
(* leaves it.  Nobody has to call submit() or stop(), or to crash.         *)
(***************************************************************************)
FairSpec ==
  /\ Spec
  /\ WF_vars(Start)
  /\ WF_vars(EngineStep)
  /\ \A c \in Call : WF_vars(SubmitPuts(c))

-----------------------------------------------------------------------------
Ended(c) == stream[c] # << >> /\ Last(stream[c]).kind = "finish"

(***************************************************************************)
(* "The stream yields token tuples then exactly one finish" (engine.py:    *)
(* 88-89): on every stream, whatever shares its req_id, the tokens of one  *)
(* request in order, then at most one FINISH and nothing after it, whose   *)
(* output_tokens is the number of tokens before it: for a normal end, a    *)
(* refusal, a stop and a crash in mid-step.                                *)
(***************************************************************************)
TokensThenOneFinish ==
  \A c \in Call : \A i \in DOMAIN stream[c] :
    LET e == stream[c][i]
    IN  IF e.kind = "token" THEN e.n = i ELSE i = Len(stream[c]) /\ e.n = i - 1

(***************************************************************************)
(* While the engine thread is alive a req_id has a stream exactly while    *)
(* its request is live, and it is the unfinished stream of an admitted     *)
(* call for that id that got all its tokens: _on_token and _on_finish find *)
(* their stream, and a refused duplicate does not take it over.            *)
(***************************************************************************)
LiveHasItsStream ==
  epc # "dead" =>
    \A r \in ReqId :
      /\ phase[r] = "live" <=> streams[r] # None
      /\ phase[r] = "live" =>
           LET c == streams[r]
           IN  /\ call[c].id = r /\ future[c] = "admitted"
               /\ ~Ended(c) /\ Len(stream[c]) = delivered[r]

(***************************************************************************)
(* "A put landing after _finalize_shutdown's final drain leaves a future   *)
(* that never resolves" (engine.py:68-72): it cannot happen.  When the     *)
(* thread is dead the queue is empty for good and nobody is in the         *)
(* doorway.  At no time is a call lost but the one, if any, whose own      *)
(* admission brought the thread down, and nothing is on its stream.        *)
(***************************************************************************)
NoPutAfterFinalDrain ==
  /\ epc = "dead" => submissions = << >> /\ doorway = None
  /\ Lost # {} => epc \in {"crashed", "finalize", "dead"}
  /\ \A c \in Lost :
       Lost = {c} /\ call[c].limit \in HugeLimits /\ stream[c] = << >>

(***************************************************************************)
(* engine.py:49-50: "the stream contract is unconditional: every stream    *)
(* submit() ever returns terminates with exactly one FINISH".              *)
(***************************************************************************)
StreamContract ==
  \A c \in Call : call[c].at = "returned" ~> Ended(c)

(***************************************************************************)
(* engine.py:47-48: "shutdown and engine-thread crashes both resolve every *)
(* pending future".                                                        *)
(***************************************************************************)
EveryFutureResolves ==
  \A c \in Call : call[c].at = "returned" ~> future[c] # "pending"

(***************************************************************************)
(* What holds of it: the future of every call that returned is resolved,   *)
(* by an admission, a refusal, a stop or a crash, whoever else's request   *)
(* brought the thread down.  Only a call that the admission itself raised  *)
(* for stays without an answer, the one such call of a dead engine.        *)
(***************************************************************************)
OnlyTheRaisingCallHangs ==
  \A c \in Call :
    call[c].at = "returned"
      ~> \/ future[c] # "pending"
         \/ epc = "dead" /\ Lost = {c} /\ call[c].limit \in HugeLimits

(***************************************************************************)
(* Every admitted or refused call sees the end of its stream: the request  *)
(* runs to its end, or the engine's own end aborts it.                     *)
(***************************************************************************)
EveryAnsweredStreamEnds ==
  \A c \in Call : future[c] \in {"admitted", "refused"} ~> Ended(c)

(***************************************************************************)
(* stop() gets what it joins for: once the event is set the thread ends,   *)
(* with whatever was live or queued at the time.                           *)
(***************************************************************************)
StopEndsThread == stop ~> epc = "dead"
=============================================================================
