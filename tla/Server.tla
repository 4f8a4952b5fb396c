------------------------------- MODULE Server -------------------------------
(***************************************************************************)
(* miniserve/server.py: one handler thread per POST /generate.  It submits *)
(* through the engine's doorway, waits for the future with a timeout, and  *)
(* then either answers with one JSON body or streams what its queue yields *)
(* until FINISH, while the client may hang up at any moment.               *)
(*                                                                         *)
(* A handler is a Call of Engine.tla; req_id is the head of a uuid, so two *)
(* handlers may, however seldom, pick the same one.  Handlers are cut at   *)
(* their waits and at every write to the socket.  A write to a client that *)
(* has left may still succeed (the kernel buffers it) or raise.            *)
(***************************************************************************)
EXTENDS Engine

VARIABLE handler   \* per call: where its thread is, what it has written

server_vars == <<vars, handler>>

(* status 0: nothing written.  sent: the events of its stream written out.  *)
ServerInit ==
  /\ Init
  /\ handler = [c \in Call |-> [at |-> "new", status |-> 0, sent |-> 0, left |-> FALSE]]

At(c, place) == handler[c].at = place

(* The thread that waits for its future: engine.submit() has returned. *)
Waiting(c) == At(c, "waiting") /\ call[c].at = "returned"

Goes(c, place) == handler' = [handler EXCEPT ![c].at = place]

-----------------------------------------------------------------------------
(***************************************************************************)
(* Mutated forms, each one the bug a definition below is checked against.  *)
(***************************************************************************)
BugStreamsAtOnce(c) == future[c] # "stopped"
BugRefusalStreams(c) == future[c] \in {"admitted", "refused"}

BugDisconnectCancels(c) ==
  /\ At(c, "streaming")
  /\ handler[c].left
  /\ handler[c].sent < Len(stream[c])
  /\ Goes(c, "closed")
  /\ streams' = [r \in ReqId |-> IF streams[r] = c THEN None ELSE streams[r]]
  /\ UNCHANGED <<life_vars, client_vars, stop, submissions, future, stream, epc, todo>>

(***************************************************************************)
(* _json(): status, headers and body.  If the client has left one of the   *)
(* writes may raise, outside every try: the handler ends all the same.     *)
(***************************************************************************)
Json(c, status) ==
  \E wrote \in {TRUE, ~handler[c].left} :
    handler' = [handler EXCEPT ![c].at = "closed", ![c].status = IF wrote THEN status ELSE 0]

(* A wrong path (its 404 is counted as a 400 here), a body that is no JSON  *)
(* object, fields of the wrong type or sampling parameters that are not     *)
(* greedy: nothing reaches the engine.                                      *)
Invalid(c) ==
  /\ At(c, "new")
  /\ Json(c, 400)
  /\ UNCHANGED vars

(* A Content-Length, a number or a prompt whose conversion raises something *)
(* the handler does not catch: the connection closes without an answer.     *)
Unparsable(c) ==
  /\ At(c, "new")
  /\ Goes(c, "closed")
  /\ UNCHANGED vars

(* "fut, stream = engine.submit(...)"; SubmitPuts is its second half. *)
Post(c) ==
  /\ At(c, "new")
  /\ \E r \in ReqId, m \in TokenLimits : SubmitEnters(c, r, m)
  /\ Goes(c, "waiting")

(* "except (CapacityError, ValueError)": "exactly one client-visible error" *)
AnswerRefused(c) ==
  /\ Waiting(c)
  /\ future[c] = "refused"
  /\ Json(c, 400)
  /\ UNCHANGED vars

AnswerStopped(c) ==
  /\ Waiting(c)
  /\ future[c] = "stopped"
  /\ Json(c, 503)
  /\ UNCHANGED vars

(* submit_timeout_s has passed: "the request stays queued and may still     *)
(* execute server-side; v1 has no cancel".  For a request whose admission   *)
(* raised in the engine thread this is the only answer there is.            *)
TimesOut(c) ==
  /\ Waiting(c)
  /\ future[c] = "pending"
  /\ Json(c, 503)
  /\ UNCHANGED vars

AdmissionKnown(c) == future[c] = "admitted"

(* The 200 and its headers, written outside the try. *)
StartStream(c) ==
  /\ Waiting(c)
  /\ AdmissionKnown(c)
  /\ \/ handler' = [handler EXCEPT ![c].at = "streaming", ![c].status = 200]
     \/ handler[c].left /\ Goes(c, "closed")
  /\ UNCHANGED vars

(* stream.get(), one write and flush; FINISH is the last of them. *)
WriteEvent(c) ==
  /\ At(c, "streaming")
  /\ handler[c].sent < Len(stream[c])
  /\ LET event == stream[c][handler[c].sent + 1]
     IN  handler' = [handler EXCEPT ![c].sent = @ + 1,
                                    ![c].at = IF event.kind = "finish" THEN "closed" ELSE @]
  /\ UNCHANGED vars

(* BrokenPipeError or ConnectionResetError: "stop writing and stop draining, *)
(* but the sequence completes server-side".  The event taken is lost.        *)
Disconnected(c) ==
  /\ At(c, "streaming")
  /\ handler[c].left
  /\ handler[c].sent < Len(stream[c])
  /\ Goes(c, "closed")
  /\ UNCHANGED vars

HandlerStep(c) ==
  AnswerRefused(c) \/ AnswerStopped(c) \/ StartStream(c) \/ WriteEvent(c) \/ Disconnected(c)

(* The client, outside src/: it hangs up whenever it likes. *)
HangsUp(c) ==
  /\ handler[c].at \in {"waiting", "streaming"}
  /\ ~handler[c].left
  /\ handler' = [handler EXCEPT ![c].left = TRUE]
  /\ UNCHANGED vars

EngineSide ==
  /\ Start \/ EngineStep \/ Crash \/ Stop \/ \E c \in Call : SubmitPuts(c)
  /\ UNCHANGED handler

ServerNext ==
  \/ EngineSide
  \/ \E c \in Call :
       Invalid(c) \/ Unparsable(c) \/ Post(c) \/ TimesOut(c) \/ HandlerStep(c) \/ HangsUp(c)

(***************************************************************************)
(* The engine is started and scheduled, a thread leaves the doorway, and a *)
(* handler that can go on does: its client reads what is written or hangs  *)
(* up.  The wait for a future is bounded by submit_timeout_s.  Nobody has  *)
(* to send a request, to hang up, to stop the engine or to crash it.       *)
(***************************************************************************)
ServerSpec ==
  /\ ServerInit /\ [][ServerNext]_server_vars
  /\ WF_server_vars(Start /\ UNCHANGED handler)
  /\ WF_server_vars(EngineStep /\ UNCHANGED handler)
  /\ \A c \in Call :
       /\ WF_server_vars(SubmitPuts(c) /\ UNCHANGED handler)
       /\ WF_server_vars(HandlerStep(c) \/ TimesOut(c))

-----------------------------------------------------------------------------
(***************************************************************************)
(* What the client was told is what happened to its request.  A 200 is     *)
(* given to admitted requests alone, and one that stayed got its stream to *)
(* the FINISH; a 400 went to a request the engine never accepted, a 503 to one *)
(* it was given.  After an error nothing is streamed, and who got no       *)
(* answer had left or had sent nothing the engine saw.                     *)
(***************************************************************************)
AnswerMatchesOutcome ==
  \A c \in Call :
    LET h == handler[c]
        submitted == call[c].at # "start"
    IN  /\ h.status = 200 => future[c] = "admitted"
        /\ h.status = 200 /\ h.at = "closed" /\ ~h.left => Ended(c) /\ h.sent = Len(stream[c])
        /\ h.status = 400 => ~submitted \/ future[c] = "refused"
        /\ h.status = 503 => submitted
        /\ h.status # 200 => h.sent = 0
        /\ h.at = "closed" /\ h.status = 0 => h.left \/ ~submitted

(***************************************************************************)
(* "Nothing hangs, period", seen from the socket: every handler that       *)
(* submitted ends, with its answer written or its client gone, even when   *)
(* the engine stops or crashes in mid-stream, and even though the stream   *)
(* of a request the final drain failed has no FINISH: no handler reads it. *)
(***************************************************************************)
EveryClientAnswered ==
  \A c \in Call : At(c, "waiting") ~> At(c, "closed")

(***************************************************************************)
(* The two "no cancel in v1" policies: a request whose handler gave up on  *)
(* its admission, or whose client hung up, still runs to its retirement    *)
(* once it is admitted (or is aborted by the engine's own end), so that it *)
(* does not hold its slot and its blocks for ever.                         *)
(***************************************************************************)
AbandonedRequestsRetire ==
  \A c \in Call :
    (At(c, "closed") /\ future[c] = "admitted")
      ~> (Ended(c) /\ \A r \in ReqId : streams[r] # c)
=============================================================================
