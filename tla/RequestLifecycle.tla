-------------------------- MODULE RequestLifecycle --------------------------
(***************************************************************************)
(* What the scheduler promises about each request, seen through its two    *)
(* callbacks: an accepted request is delivered its tokens one on_token     *)
(* call at a time, at most max_tokens of them, and ends with one on_finish *)
(* call that comes with its last token.  Waiting, batching, preemption and *)
(* the KV cache are not visible here.                                      *)
(*                                                                         *)
(* Scheduler.tla implements this module (PROPERTY Lifecycle there) and     *)
(* Engine.tla is built on it.                                              *)
(***************************************************************************)
EXTENDS Integers

CONSTANTS ReqId, TokenLimits

VARIABLES phase,      \* "none", "live" or "done"
          limit,      \* max_tokens of the request last accepted under an id
          delivered   \* how many on_token calls were made for it

life_vars == <<phase, limit, delivered>>

LifeInit ==
  /\ phase = [r \in ReqId |-> "none"]
  /\ limit = [r \in ReqId |-> 0]
  /\ delivered = [r \in ReqId |-> 0]

(* submit() accepts r: an id that is live is refused, a retired one is not. *)
Accept(r, m) ==
  /\ phase[r] # "live"
  /\ m >= 1
  /\ phase' = [phase EXCEPT ![r] = "live"]
  /\ limit' = [limit EXCEPT ![r] = m]
  /\ delivered' = [delivered EXCEPT ![r] = 0]

(* on_token(), the request goes on. *)
Deliver(r) ==
  /\ phase[r] = "live"
  /\ delivered[r] + 1 < limit[r]
  /\ delivered' = [delivered EXCEPT ![r] = @ + 1]
  /\ UNCHANGED <<phase, limit>>

(* on_token() for the last token, EOS or the max_tokens-th, and on_finish(). *)
Finish(r) ==
  /\ phase[r] = "live"
  /\ delivered[r] < limit[r]
  /\ delivered' = [delivered EXCEPT ![r] = @ + 1]
  /\ phase' = [phase EXCEPT ![r] = "done"]
  /\ UNCHANGED limit

LifeNext ==
  \E r \in ReqId : (\E m \in TokenLimits : Accept(r, m)) \/ Deliver(r) \/ Finish(r)

LifeSafety == LifeInit /\ [][LifeNext]_life_vars

LifeSpec ==
  /\ LifeSafety
  /\ \A r \in ReqId : WF_life_vars(Deliver(r) \/ Finish(r))
=============================================================================
