----------------------------- MODULE EngineProofs -----------------------------
(***************************************************************************)
(* The safety of the engine, of the handlers around it and of a benchmark  *)
(* cell around it, for every set of calls, ids and token limits.           *)
(*                                                                         *)
(* None of the properties is inductive.  That a stream is well formed      *)
(* needs that only the request it is registered for feeds it, that this    *)
(* request has delivered exactly what is on it, and that a call which      *)
(* waits in the queue has had nothing put on its stream; that the final    *)
(* drain misses nobody needs that the queue holds the calls that returned  *)
(* unanswered, but for the one whose admission raised, and that a set stop *)
(* event has shut the doorway.  EngineInv says all of this at once.        *)
(***************************************************************************)
EXTENDS Server, BenchRun, DataLemmas, FiniteSetTheorems

Phases == {"none", "live", "done"}
CallPlaces == {"start", "doorway", "returned"}
Answers == {"pending", "admitted", "refused", "stopped"}
EnginePlaces ==
  {"new", "top", "idle", "drain", "step", "crashed", "finalize", "dead"}

Event ==
  [kind : {"token"}, n : Int] \cup [kind : {"finish"}, n : Int, aborted : BOOLEAN]

EngineTypes ==
  /\ phase \in [ReqId -> Phases]
  /\ limit \in [ReqId -> Int]
  /\ delivered \in [ReqId -> Int]
  /\ call \in [Call -> [at : CallPlaces, id : ReqId \cup {None}, limit : Int]]
  /\ doorway \in Call \cup {None}
  /\ stop \in BOOLEAN
  /\ submissions \in Seq(Call)
  /\ future \in [Call -> Answers]
  /\ stream \in [Call -> Seq(Event)]
  /\ streams \in [ReqId -> Call \cup {None}]
  /\ epc \in EnginePlaces
  /\ todo \subseteq ReqId

(* A stream that keeps the contract so far, and one that has its FINISH. *)
Shaped(s) ==
  \A i \in 1 .. Len(s) :
    IF s[i].kind = "token" THEN s[i].n = i ELSE i = Len(s) /\ s[i].n = i - 1

Over(s) == s # << >> /\ Last(s).kind = "finish"

(* The doorway lock and the thread that holds it. *)
DoorwayIsItsCall == \A c \in Call : doorway = c <=> call[c].at = "doorway"

DoorShut ==
  /\ stop => doorway = None
  /\ epc \in {"finalize", "dead"} => stop
  /\ epc = "dead" => submissions = << >>

CallsKnow ==
  \A c \in Call :
    /\ call[c].at # "start" => call[c].id \in ReqId
    /\ call[c].at = "doorway" => future[c] = "pending"
    /\ call[c].at = "start" => future[c] = "pending"

(* The queue holds calls that returned without an answer, each once. *)
QueueIsUnanswered ==
  /\ IsInjective(submissions)
  /\ \A c \in Call :
       c \in ToSet(submissions) => call[c].at = "returned" /\ future[c] = "pending"

(* It holds all of them but one, whose admission has raised. *)
Ending == {"crashed", "finalize", "dead"}

LostRaised ==
  /\ \A c \in Lost : call[c].limit \in HugeLimits
  /\ \A c, d \in Lost : c = d
  /\ Lost # {} => epc \in Ending

UnansweredIsSilent == \A c \in Call : future[c] = "pending" => stream[c] = << >>

AllShaped == \A c \in Call : Shaped(stream[c])

StreamOfLive ==
  \A r \in ReqId :
    /\ epc # "dead" => (phase[r] = "live" <=> streams[r] # None)
    /\ epc = "dead" => streams[r] = None

(* A registered stream is open and has what its request delivered. *)
RegisteredIsOpen ==
  \A r \in ReqId : streams[r] # None =>
    /\ call[streams[r]].at = "returned"
    /\ call[streams[r]].id = r
    /\ future[streams[r]] = "admitted"
    /\ ~Over(stream[streams[r]])
    /\ Len(stream[streams[r]]) = delivered[r]

BatchIsLive == epc = "step" => todo \subseteq LiveReqs

EngineInv ==
  /\ EngineTypes
  /\ DoorwayIsItsCall /\ DoorShut /\ CallsKnow
  /\ QueueIsUnanswered /\ LostRaised /\ UnansweredIsSilent
  /\ AllShaped /\ StreamOfLive /\ RegisteredIsOpen
  /\ BatchIsLive

-----------------------------------------------------------------------------
(* What is put on a stream. *)
LEMMA TokenIsEvent ==
  ASSUME NEW n \in Int
  PROVE  Token(n) \in Event /\ Token(n).kind = "token" /\ Token(n).n = n
  BY DEF Token, Event

LEMMA FinishIsEvent ==
  ASSUME NEW n \in Int, NEW b \in BOOLEAN
  PROVE  FinishEvent(n, b) \in Event /\ FinishEvent(n, b).kind = "finish"
         /\ FinishEvent(n, b).n = n
  BY DEF FinishEvent, Event

LEMMA EventKinds ==
  ASSUME NEW e \in Event
  PROVE  e.kind \in {"token", "finish"}
  BY DEF Event

LEMMA EmptyIsShaped == Shaped(<< >>) /\ ~Over(<< >>)
  BY DEF Shaped, Over

(* A stream without its FINISH is nothing but numbered tokens. *)
LEMMA OpenIsTokens ==
  ASSUME NEW s \in Seq(Event), Shaped(s), ~Over(s)
  PROVE  \A i \in 1 .. Len(s) : s[i].kind = "token" /\ s[i].n = i
<1> SUFFICES ASSUME NEW i \in 1 .. Len(s) PROVE s[i].kind = "token" /\ s[i].n = i
  OBVIOUS
<1>1. s[i] \in Event /\ Len(s) \in Nat /\ s # << >>
  OBVIOUS
<1>2. ~(Last(s).kind = "finish")
  BY <1>1 DEF Over
<1>3. s[Len(s)].kind # "finish"
  BY <1>2 DEF Last
<1>4. CASE s[i].kind = "token"
  BY <1>4 DEF Shaped
<1>5. CASE s[i].kind # "token"
  <2>1. i = Len(s)
    BY <1>5 DEF Shaped
  <2> QED
    BY <2>1, <1>1, <1>3, <1>5, EventKinds
<1> QED
  BY <1>4, <1>5

(* The next token and the FINISH go on an open stream. *)
LEMMA AppendToken ==
  ASSUME NEW s \in Seq(Event), Shaped(s), ~Over(s)
  PROVE  LET t == Append(s, Token(Len(s) + 1))
         IN  t \in Seq(Event) /\ Len(t) = Len(s) + 1 /\ Shaped(t) /\ ~Over(t)
<1> DEFINE e == Token(Len(s) + 1)
           t == Append(s, e)
<1>1. Len(s) \in Nat
  OBVIOUS
<1>2. e \in Event /\ e.kind = "token" /\ e.n = Len(s) + 1
  BY <1>1, TokenIsEvent
<1> HIDE DEF e
<1>3. /\ t \in Seq(Event) /\ Len(t) = Len(s) + 1
      /\ \A i \in 1 .. Len(s) : t[i] = s[i]
      /\ t[Len(s) + 1] = e
  BY <1>2, AppendProperties
<1> HIDE DEF t
<1>4. \A i \in 1 .. Len(s) : s[i].kind = "token" /\ s[i].n = i
  BY OpenIsTokens
<1>5. \A i \in 1 .. Len(t) : t[i].kind = "token" /\ t[i].n = i
  BY <1>1, <1>2, <1>3, <1>4
<1>6. Shaped(t)
  BY <1>5 DEF Shaped
<1>7. ~Over(t)
  BY <1>1, <1>2, <1>3 DEF Over, Last
<1> QED
  BY <1>3, <1>6, <1>7 DEF t, e

LEMMA AppendFinish ==
  ASSUME NEW s \in Seq(Event), Shaped(s), ~Over(s), NEW b \in BOOLEAN
  PROVE  LET t == Append(s, FinishEvent(Len(s), b))
         IN  t \in Seq(Event) /\ Len(t) = Len(s) + 1 /\ Shaped(t) /\ Over(t)
<1> DEFINE e == FinishEvent(Len(s), b)
           t == Append(s, e)
<1>1. Len(s) \in Nat
  OBVIOUS
<1>2. e \in Event /\ e.kind = "finish" /\ e.n = Len(s)
  BY <1>1, FinishIsEvent
<1> HIDE DEF e
<1>3. /\ t \in Seq(Event) /\ Len(t) = Len(s) + 1
      /\ \A i \in 1 .. Len(s) : t[i] = s[i]
      /\ t[Len(s) + 1] = e
  BY <1>2, AppendProperties
<1> HIDE DEF t
<1>4. \A i \in 1 .. Len(s) : s[i].kind = "token" /\ s[i].n = i
  BY OpenIsTokens
<1>5. \A i \in 1 .. Len(t) : i = Len(t) \/ (t[i].kind = "token" /\ t[i].n = i)
  BY <1>1, <1>3, <1>4
<1>6. t[Len(t)].kind = "finish" /\ t[Len(t)].n = Len(t) - 1
  BY <1>1, <1>2, <1>3
<1>7. Shaped(t)
  BY <1>5, <1>6 DEF Shaped
<1>8. Over(t)
  BY <1>1, <1>3, <1>6 DEF Over, Last
<1> QED
  BY <1>3, <1>7, <1>8 DEF t, e

(* One stream gets a new value that keeps the contract. *)
LEMMA PutOnOne ==
  ASSUME EngineInv, NEW c \in Call, NEW t \in Seq(Event), Shaped(t),
         stream' = [stream EXCEPT ![c] = t]
  PROVE  /\ stream' \in [Call -> Seq(Event)]
         /\ \A d \in Call : stream'[d] = IF d = c THEN t ELSE stream[d]
         /\ AllShaped'
<1>1. stream \in [Call -> Seq(Event)] /\ AllShaped
  BY DEF EngineInv, EngineTypes
<1>2. /\ stream' \in [Call -> Seq(Event)]
      /\ \A d \in Call : stream'[d] = IF d = c THEN t ELSE stream[d]
  BY <1>1
<1> QED
  BY <1>1, <1>2 DEF AllShaped

LEMMA RefusalPut ==
  ASSUME EngineInv, NEW c \in Call, future[c] = "pending", stream' = RefusalSentinel(c)
  PROVE  /\ stream' \in [Call -> Seq(Event)]
         /\ \A d \in Call : d # c => stream'[d] = stream[d]
         /\ AllShaped'
<1> DEFINE t == Append(stream[c], FinishEvent(0, TRUE))
<1>1. stream[c] = << >>
  BY DEF EngineInv, UnansweredIsSilent
<1>2. t \in Seq(Event) /\ Shaped(t)
  <2>1. << >> \in Seq(Event) /\ Len(<< >>) = 0
    OBVIOUS
  <2>2. Append(<< >>, FinishEvent(Len(<< >>), TRUE)) \in Seq(Event)
        /\ Shaped(Append(<< >>, FinishEvent(Len(<< >>), TRUE)))
    BY <2>1, EmptyIsShaped, AppendFinish
  <2> QED
    BY <1>1, <2>1, <2>2
<1>3. stream' = [stream EXCEPT ![c] = t]
  BY DEF RefusalSentinel, Put
<1> HIDE DEF t
<1> QED
  BY <1>2, <1>3, PutOnOne

-----------------------------------------------------------------------------
(* A step that loses no call keeps what is known of the lost one. *)
LEMMA NothingIsLost ==
  ASSUME EngineInv, epc \in Ending => epc' \in Ending,
         \A d \in Call : d \in Lost' => d \in Lost /\ call'[d].limit = call[d].limit
  PROVE  LostRaised'
<1>1. LostRaised
  BY DEF EngineInv
<1>2. Lost' \subseteq Lost
  BY DEF Lost
<1>3. \A d \in Lost' : call'[d].limit = call[d].limit
  BY DEF Lost
<1> HIDE DEF Lost
<1> QED
  BY <1>1, <1>2, <1>3 DEF LostRaised

LEMMA LostIsLeftAlone ==
  ASSUME EngineInv, UNCHANGED <<call, future, submissions>>,
         epc \in Ending => epc' \in Ending
  PROVE  LostRaised'
<1>1. Lost' = Lost
  BY DEF Lost
<1> QED
  BY <1>1, NothingIsLost

(* One lemma per action. *)
LEMMA InitKeeps ==
  ASSUME Init
  PROVE  EngineInv
<1> USE DEF Init, LifeInit
<1>1. EngineTypes
  <2>1. [at |-> "start", id |-> None, limit |-> 0]
          \in [at : CallPlaces, id : ReqId \cup {None}, limit : Int]
    BY DEF CallPlaces
  <2>2. call \in [Call -> [at : CallPlaces, id : ReqId \cup {None}, limit : Int]]
    BY <2>1
  <2>3. << >> \in Seq(Event) /\ << >> \in Seq(Call)
    OBVIOUS
  <2>4. stream \in [Call -> Seq(Event)] /\ submissions \in Seq(Call)
    BY <2>3
  <2>5. /\ phase \in [ReqId -> Phases] /\ future \in [Call -> Answers]
        /\ epc \in EnginePlaces
    BY DEF Phases, Answers, EnginePlaces
  <2>6. limit \in [ReqId -> Int] /\ delivered \in [ReqId -> Int]
    OBVIOUS
  <2>7. streams \in [ReqId -> Call \cup {None}]
    OBVIOUS
  <2>8. doorway \in Call \cup {None} /\ stop \in BOOLEAN /\ todo \subseteq ReqId
    OBVIOUS
  <2> HIDE DEF Init, LifeInit
  <2> QED
    BY <2>2, <2>4, <2>5, <2>6, <2>7, <2>8 DEF EngineTypes
<1>2. DoorwayIsItsCall /\ DoorShut /\ CallsKnow
  BY EngineAssumption DEF DoorwayIsItsCall, DoorShut, CallsKnow
<1>3. QueueIsUnanswered /\ LostRaised
  <2>1. Lost = {}
    BY DEF Lost
  <2> QED
    BY <2>1 DEF QueueIsUnanswered, LostRaised, IsInjective, ToSet
<1>4. UnansweredIsSilent /\ AllShaped
  BY EmptyIsShaped DEF UnansweredIsSilent, AllShaped
<1>5. StreamOfLive /\ RegisteredIsOpen /\ BatchIsLive
  BY DEF StreamOfLive, RegisteredIsOpen, BatchIsLive
<1> QED
  BY <1>1, <1>2, <1>3, <1>4, <1>5 DEF EngineInv

LEMMA SubmitEntersKeeps ==
  ASSUME EngineInv, NEW c \in Call, NEW r \in ReqId, NEW m \in TokenLimits,
         SubmitEnters(c, r, m)
  PROVE  EngineInv'
<1>1. UNCHANGED <<phase, limit, delivered, stop, submissions, streams, epc, todo>>
  BY DEF SubmitEnters, life_vars, engine_vars
<1>2. call[c].at = "start" /\ doorway = None /\ future[c] = "pending"
  BY DEF SubmitEnters, EngineInv, CallsKnow
<1>3. m \in Int
  BY EngineAssumption
<1> DEFINE moved(p) == [at |-> p, id |-> r, limit |-> m]
<1>4. \A p \in CallPlaces :
        /\ moved(p) \in [at : CallPlaces, id : ReqId \cup {None}, limit : Int]
        /\ moved(p).at = p /\ moved(p).id = r
  BY <1>3
<1>5. /\ call \in [Call -> [at : CallPlaces, id : ReqId \cup {None}, limit : Int]]
      /\ future \in [Call -> Answers]
  BY DEF EngineInv, EngineTypes
<1>6. CASE stop
  <2>1. /\ call' = [call EXCEPT ![c] = moved("returned")]
        /\ future' = [future EXCEPT ![c] = "stopped"]
        /\ stream' = RefusalSentinel(c)
        /\ doorway' = doorway
    BY <1>6 DEF SubmitEnters, Resolve
  <2>2. "returned" \in CallPlaces /\ "stopped" \in Answers
    BY DEF CallPlaces, Answers
  <2> HIDE DEF moved
  <2>3. /\ call' \in [Call -> [at : CallPlaces, id : ReqId \cup {None}, limit : Int]]
        /\ \A d \in Call : call'[d] = IF d = c THEN moved("returned") ELSE call[d]
        /\ future' \in [Call -> Answers]
        /\ \A d \in Call : future'[d] = IF d = c THEN "stopped" ELSE future[d]
    BY <2>1, <2>2, <1>4, <1>5
  <2>4. /\ stream' \in [Call -> Seq(Event)]
        /\ \A d \in Call : d # c => stream'[d] = stream[d]
        /\ AllShaped'
    BY <1>2, <2>1, RefusalPut
  <2>5. EngineTypes'
    BY <1>1, <2>1, <2>3, <2>4 DEF EngineInv, EngineTypes
  <2>6. moved("returned").at = "returned" /\ moved("returned").id = r
    BY <1>4, <2>2
  <2>7. DoorwayIsItsCall' /\ DoorShut' /\ CallsKnow'
    BY <1>1, <1>2, <2>1, <2>3, <2>6, EngineAssumption
       DEF EngineInv, DoorwayIsItsCall, DoorShut, CallsKnow
  <2>8. QueueIsUnanswered' /\ LostRaised'
    <3>1. QueueIsUnanswered'
      BY <1>1, <1>2, <2>3, <2>6 DEF EngineInv, QueueIsUnanswered
    <3>2. \A d \in Call : d \in Lost' => d \in Lost /\ call'[d] = call[d]
      BY <1>1, <2>3 DEF Lost
    <3> QED
      BY <3>1, <3>2, <1>1, NothingIsLost
  <2>9. UnansweredIsSilent'
    BY <2>3, <2>4 DEF EngineInv, UnansweredIsSilent
  <2>10. StreamOfLive' /\ BatchIsLive'
    BY <1>1 DEF EngineInv, StreamOfLive, BatchIsLive, LiveReqs
  <2>11. RegisteredIsOpen'
    <3>1. \A q \in ReqId : streams[q] # None => streams[q] \in Call /\ streams[q] # c
      BY <1>2 DEF EngineInv, EngineTypes, RegisteredIsOpen
    <3> QED
      BY <3>1, <1>1, <2>3, <2>4 DEF EngineInv, RegisteredIsOpen
  <2> QED
    BY <2>4, <2>5, <2>7, <2>8, <2>9, <2>10, <2>11 DEF EngineInv
<1>7. CASE ~stop
  <2>1. /\ call' = [call EXCEPT ![c] = moved("doorway")]
        /\ UNCHANGED <<future, stream>>
        /\ doorway' = c
    BY <1>7 DEF SubmitEnters
  <2>2. "doorway" \in CallPlaces
    BY DEF CallPlaces
  <2> HIDE DEF moved
  <2>3. /\ call' \in [Call -> [at : CallPlaces, id : ReqId \cup {None}, limit : Int]]
        /\ \A d \in Call : call'[d] = IF d = c THEN moved("doorway") ELSE call[d]
    BY <2>1, <2>2, <1>4, <1>5
  <2>4. moved("doorway").at = "doorway" /\ moved("doorway").id = r
    BY <1>4, <2>2
  <2>5. EngineTypes'
    BY <1>1, <2>1, <2>3 DEF EngineInv, EngineTypes
  <2>6. DoorwayIsItsCall' /\ DoorShut' /\ CallsKnow'
    BY <1>1, <1>2, <1>7, <2>1, <2>3, <2>4, EngineAssumption
       DEF EngineInv, DoorwayIsItsCall, DoorShut, CallsKnow
  <2>7. QueueIsUnanswered' /\ LostRaised'
    <3>1. QueueIsUnanswered'
      BY <1>1, <1>2, <2>1, <2>3, <2>4 DEF EngineInv, QueueIsUnanswered
    <3>2. \A d \in Call : d \in Lost' => d \in Lost /\ call'[d] = call[d]
      BY <1>1, <2>1, <2>3, <2>4 DEF Lost
    <3> QED
      BY <3>1, <3>2, <1>1, NothingIsLost
  <2>8. UnansweredIsSilent' /\ AllShaped' /\ StreamOfLive' /\ BatchIsLive'
    BY <1>1, <2>1
       DEF EngineInv, UnansweredIsSilent, AllShaped, StreamOfLive, BatchIsLive, LiveReqs
  <2>9. RegisteredIsOpen'
    <3>1. \A q \in ReqId : streams[q] # None => streams[q] \in Call /\ streams[q] # c
      BY <1>2 DEF EngineInv, EngineTypes, RegisteredIsOpen
    <3> QED
      BY <3>1, <1>1, <2>1, <2>3 DEF EngineInv, RegisteredIsOpen
  <2> QED
    BY <2>5, <2>6, <2>7, <2>8, <2>9 DEF EngineInv
<1> QED
  BY <1>6, <1>7

LEMMA SubmitPutsKeeps ==
  ASSUME EngineInv, NEW c \in Call, SubmitPuts(c)
  PROVE  EngineInv'
<1>1. UNCHANGED <<phase, limit, delivered, stop, future, stream, streams, epc, todo>>
  BY DEF SubmitPuts, life_vars, engine_vars
<1>2. /\ call[c].at = "doorway" /\ doorway = c /\ future[c] = "pending"
      /\ doorway' = None /\ ~stop /\ call[c].id \in ReqId
  BY EngineAssumption DEF SubmitPuts, EngineInv, DoorwayIsItsCall, CallsKnow, DoorShut
<1> DEFINE Calls == [at : CallPlaces, id : ReqId \cup {None}, limit : Int]
           now == [call[c] EXCEPT !.at = "returned"]
<1>3. call \in [Call -> Calls]
  BY DEF EngineInv, EngineTypes
<1>4. now \in Calls /\ now.at = "returned" /\ now.id = call[c].id
  BY <1>3 DEF CallPlaces
<1>5. call' = [call EXCEPT ![c] = now]
  BY DEF SubmitPuts
<1> HIDE DEF now, Calls
<1>6. /\ call' \in [Call -> Calls]
      /\ \A d \in Call : call'[d] = IF d = c THEN now ELSE call[d]
  BY <1>3, <1>4, <1>5
<1>7. /\ submissions \in Seq(Call) /\ IsInjective(submissions)
      /\ c \notin ToSet(submissions)
  BY <1>2 DEF EngineInv, EngineTypes, QueueIsUnanswered
<1>8. /\ submissions' \in Seq(Call) /\ IsInjective(submissions')
      /\ ToSet(submissions') = ToSet(submissions) \cup {c}
  BY <1>7, AppendDistinct DEF SubmitPuts
<1>9. EngineTypes'
  BY <1>1, <1>2, <1>6, <1>8 DEF EngineInv, EngineTypes, Calls
<1>10. DoorwayIsItsCall' /\ DoorShut' /\ CallsKnow'
  BY <1>1, <1>2, <1>4, <1>6, EngineAssumption
     DEF EngineInv, DoorwayIsItsCall, DoorShut, CallsKnow
<1>11. QueueIsUnanswered' /\ LostRaised'
  <2>1. QueueIsUnanswered'
    BY <1>1, <1>2, <1>4, <1>6, <1>8 DEF EngineInv, QueueIsUnanswered
  <2>2. \A d \in Call : d \in Lost' => d \in Lost /\ call'[d] = call[d]
    BY <1>1, <1>6, <1>8 DEF Lost
  <2> QED
    BY <2>1, <2>2, <1>1, NothingIsLost
<1>12. UnansweredIsSilent' /\ AllShaped' /\ StreamOfLive' /\ BatchIsLive'
  BY <1>1
     DEF EngineInv, UnansweredIsSilent, AllShaped, StreamOfLive, BatchIsLive, LiveReqs
<1>13. RegisteredIsOpen'
  <2>1. \A q \in ReqId : streams[q] # None => streams[q] \in Call /\ streams[q] # c
    BY <1>2 DEF EngineInv, EngineTypes, RegisteredIsOpen
  <2> QED
    BY <2>1, <1>1, <1>6 DEF EngineInv, RegisteredIsOpen
<1> QED
  BY <1>9, <1>10, <1>11, <1>12, <1>13 DEF EngineInv

(* The actions that only move the engine thread or set the stop event. *)
LEMMA MovesKeep ==
  ASSUME EngineInv,
         UNCHANGED <<life_vars, client_vars, submissions, future, stream, streams>>,
         stop' \in BOOLEAN, stop' => doorway = None,
         epc' \in EnginePlaces, epc' = "dead" <=> epc = "dead",
         epc \in Ending => epc' \in Ending,
         epc' \in {"finalize", "dead"} => stop',
         todo' \subseteq ReqId, epc' = "step" => todo' \subseteq LiveReqs
  PROVE  EngineInv'
<1>1. UNCHANGED <<phase, limit, delivered, call, doorway, submissions, future, stream, streams>>
  BY DEF life_vars, client_vars
<1>2. EngineTypes'
  BY <1>1 DEF EngineInv, EngineTypes
<1>3. DoorwayIsItsCall' /\ DoorShut' /\ CallsKnow'
  BY <1>1 DEF EngineInv, DoorwayIsItsCall, DoorShut, CallsKnow
<1>4. QueueIsUnanswered' /\ UnansweredIsSilent' /\ AllShaped'
  BY <1>1 DEF EngineInv, QueueIsUnanswered, UnansweredIsSilent, AllShaped
<1>5. StreamOfLive' /\ RegisteredIsOpen'
  BY <1>1 DEF EngineInv, StreamOfLive, RegisteredIsOpen
<1>6. BatchIsLive'
  BY <1>1 DEF BatchIsLive, LiveReqs
<1>7. LostRaised'
  BY <1>1, LostIsLeftAlone
<1> QED
  BY <1>2, <1>3, <1>4, <1>5, <1>6, <1>7 DEF EngineInv

LEMMA MovingActionsKeep ==
  ASSUME EngineInv,
         \/ Stop \/ Start \/ LoopTop \/ IdleTimeout \/ StepBegins \/ StepEnds
         \/ Crash \/ CrashClosesDoor \/ UNCHANGED vars
  PROVE  EngineInv'
<1>1. UNCHANGED <<life_vars, client_vars, submissions, future, stream, streams>>
  BY DEF Stop, Start, LoopTop, IdleTimeout, StepBegins, StepEnds, Crash, CrashClosesDoor,
         vars, engine_vars, client_vars
<1>2. /\ stop \in BOOLEAN /\ epc \in EnginePlaces /\ todo \subseteq ReqId
      /\ stop => doorway = None
      /\ epc \in {"finalize", "dead"} => stop
      /\ epc = "step" => todo \subseteq LiveReqs
  BY DEF EngineInv, EngineTypes, DoorShut, BatchIsLive
<1>3. stop' \in BOOLEAN /\ (stop' => doorway = None)
  <2>1. CASE Stop \/ CrashClosesDoor
    BY <2>1, Zenon DEF Stop, CrashClosesDoor, SetStop
  <2>2. CASE stop' = stop
    BY <2>2, <1>2, Zenon
  <2> QED
    BY <2>1, <2>2 DEF Start, LoopTop, IdleTimeout, StepBegins, StepEnds, Crash, vars
<1>4. /\ epc' \in EnginePlaces
      /\ epc' = "dead" <=> epc = "dead"
      /\ epc \in Ending => epc' \in Ending
      /\ epc' \in {"finalize", "dead"} => stop'
  BY <1>2 DEF Stop, Start, LoopTop, IdleTimeout, StepBegins, StepEnds, Crash,
              ThreadRaises, CrashClosesDoor, SetStop, vars, engine_vars, EnginePlaces,
              Ending
<1>5. todo' \subseteq ReqId /\ (epc' = "step" => todo' \subseteq LiveReqs)
  <2>1. CASE StepBegins
    BY <2>1 DEF StepBegins, LiveReqs
  <2>2. CASE ~StepBegins
    BY <2>2, <1>2 DEF Stop, Start, LoopTop, IdleTimeout, StepEnds, Crash,
              CrashClosesDoor, vars, engine_vars
  <2> QED
    BY <2>1, <2>2
<1> QED
  BY <1>1, <1>3, <1>4, <1>5, MovesKeep

(* What taking the head of the queue does to it. *)
LEMMA HeadTaken ==
  ASSUME EngineInv, submissions # << >>
  PROVE  LET c == Head(submissions)
         IN  /\ c \in Call /\ call[c].at = "returned" /\ future[c] = "pending"
             /\ call[c].id \in ReqId /\ call[c].limit \in Int /\ stream[c] = << >>
             /\ Tail(submissions) \in Seq(Call) /\ IsInjective(Tail(submissions))
             /\ ToSet(Tail(submissions)) = ToSet(submissions) \ {c}
             /\ \A r \in ReqId : streams[r] # c
<1> DEFINE c == Head(submissions)
<1>1. submissions \in Seq(Call) /\ IsInjective(submissions)
  BY DEF EngineInv, EngineTypes, QueueIsUnanswered
<1>2. /\ c \in Call /\ c \in ToSet(submissions)
      /\ Tail(submissions) \in Seq(Call) /\ IsInjective(Tail(submissions))
      /\ ToSet(Tail(submissions)) = ToSet(submissions) \ {c}
  BY <1>1, TailDistinct
<1> HIDE DEF c
<1>3. call[c].at = "returned" /\ future[c] = "pending"
  BY <1>2 DEF EngineInv, QueueIsUnanswered
<1>4. call[c].id \in ReqId /\ call[c].limit \in Int /\ stream[c] = << >>
  BY <1>2, <1>3 DEF EngineInv, EngineTypes, CallsKnow, UnansweredIsSilent
<1>5. \A r \in ReqId : streams[r] # c
  <2> SUFFICES ASSUME NEW r \in ReqId, streams[r] = c PROVE FALSE
    OBVIOUS
  <2>1. streams[r] # None
    BY <1>2, EngineAssumption
  <2>2. future[c] = "admitted"
    BY <2>1 DEF EngineInv, RegisteredIsOpen
  <2> QED
    BY <1>3, <2>2
<1> QED
  BY <1>2, <1>3, <1>4, <1>5 DEF c

LEMMA TakeKeeps ==
  ASSUME EngineInv, Take
  PROVE  EngineInv'
<1> DEFINE c == Head(submissions)
           r == call[c].id
<1>1. /\ c \in Call /\ call[c].at = "returned" /\ future[c] = "pending"
      /\ r \in ReqId /\ call[c].limit \in Int /\ stream[c] = << >>
      /\ Tail(submissions) \in Seq(Call) /\ IsInjective(Tail(submissions))
      /\ ToSet(Tail(submissions)) = ToSet(submissions) \ {c}
      /\ \A q \in ReqId : streams[q] # c
  BY HeadTaken DEF Take
<1>2. /\ UNCHANGED <<call, doorway, stop, todo>>
      /\ epc \in {"idle", "drain"} /\ epc' = "drain"
      /\ submissions' = Tail(submissions)
  BY DEF Take, Admit, client_vars
<1> DEFINE accepted == Acceptable(c)
<1>3. CASE accepted
  <2>1. /\ phase' = [phase EXCEPT ![r] = "live"]
        /\ limit' = [limit EXCEPT ![r] = call[c].limit]
        /\ delivered' = [delivered EXCEPT ![r] = 0]
        /\ future' = [future EXCEPT ![c] = "admitted"]
        /\ stream' = stream
        /\ streams' = [streams EXCEPT ![r] = c]
    BY <1>3 DEF Take, Admit, Accept, Resolve, Registered
  <2> HIDE DEF c, accepted
  <2> HIDE DEF r
  <2>2. /\ phase' \in [ReqId -> Phases] /\ limit' \in [ReqId -> Int]
        /\ delivered' \in [ReqId -> Int] /\ future' \in [Call -> Answers]
        /\ streams' \in [ReqId -> Call \cup {None}]
    BY <2>1, <1>1 DEF EngineInv, EngineTypes, Phases, Answers, r
  <2>3. /\ \A q \in ReqId : phase'[q] = IF q = r THEN "live" ELSE phase[q]
        /\ \A q \in ReqId : delivered'[q] = IF q = r THEN 0 ELSE delivered[q]
        /\ \A q \in ReqId : streams'[q] = IF q = r THEN c ELSE streams[q]
        /\ \A d \in Call : future'[d] = IF d = c THEN "admitted" ELSE future[d]
    BY <2>1 DEF EngineInv, EngineTypes
  <2>4. EngineTypes'
    BY <1>1, <1>2, <2>1, <2>2 DEF EngineInv, EngineTypes, EnginePlaces
  <2>5. DoorwayIsItsCall' /\ DoorShut' /\ CallsKnow'
    BY <1>1, <1>2, <2>3 DEF EngineInv, DoorwayIsItsCall, DoorShut, CallsKnow
  <2>6. QueueIsUnanswered' /\ LostRaised' /\ UnansweredIsSilent' /\ AllShaped'
    <3>1. QueueIsUnanswered' /\ UnansweredIsSilent' /\ AllShaped'
      BY <1>1, <1>2, <2>1, <2>3
         DEF EngineInv, QueueIsUnanswered, UnansweredIsSilent, AllShaped
    <3>2. \A d \in Call : d \in Lost' => d \in Lost /\ call'[d] = call[d]
      BY <1>1, <1>2, <2>3 DEF Lost
    <3> QED
      BY <3>1, <3>2, <1>2, NothingIsLost DEF Ending
  <2>7. StreamOfLive'
    BY <1>1, <1>2, <2>3, EngineAssumption DEF EngineInv, StreamOfLive
  <2>8. RegisteredIsOpen'
    <3> SUFFICES ASSUME NEW q \in ReqId, streams'[q] # None
                 PROVE  /\ call'[streams'[q]].at = "returned"
                        /\ call'[streams'[q]].id = q
                        /\ future'[streams'[q]] = "admitted"
                        /\ ~Over(stream'[streams'[q]])
                        /\ Len(stream'[streams'[q]]) = delivered'[q]
      BY DEF RegisteredIsOpen
    <3>1. CASE q = r
      <4>1. streams'[q] = c /\ delivered'[q] = 0 /\ stream'[c] = << >>
        BY <3>1, <2>1, <2>3, <1>1
      <4>2. Len(<< >>) = 0
        OBVIOUS
      <4> QED
        BY <3>1, <4>1, <4>2, <1>1, <1>2, <2>3, EmptyIsShaped DEF r
    <3>2. CASE q # r
      <4>1. streams'[q] = streams[q] /\ streams[q] \in Call /\ streams[q] # c
            /\ delivered'[q] = delivered[q]
        BY <3>2, <2>3, <1>1 DEF EngineInv, EngineTypes
      <4> QED
        BY <4>1, <1>2, <2>1, <2>3 DEF EngineInv, RegisteredIsOpen
    <3> QED
      BY <3>1, <3>2
  <2>9. BatchIsLive'
    BY <1>2 DEF BatchIsLive
  <2> QED
    BY <2>4, <2>5, <2>6, <2>7, <2>8, <2>9 DEF EngineInv
<1>4. CASE ~accepted
  <2>1. /\ UNCHANGED <<phase, limit, delivered, streams>>
        /\ future' = [future EXCEPT ![c] = "refused"]
        /\ stream' = RefusalSentinel(c)
    BY <1>4 DEF Take, Admit, Resolve, Registered, life_vars
  <2> HIDE DEF c, r, accepted
  <2>2. /\ stream' \in [Call -> Seq(Event)]
        /\ \A d \in Call : d # c => stream'[d] = stream[d]
        /\ AllShaped'
    BY <1>1, <2>1, RefusalPut
  <2>3. /\ future' \in [Call -> Answers]
        /\ \A d \in Call : future'[d] = IF d = c THEN "refused" ELSE future[d]
    BY <2>1, <1>1 DEF EngineInv, EngineTypes, Answers
  <2>4. EngineTypes'
    BY <1>1, <1>2, <2>1, <2>2, <2>3 DEF EngineInv, EngineTypes, EnginePlaces
  <2>5. DoorwayIsItsCall' /\ DoorShut' /\ CallsKnow'
    BY <1>1, <1>2, <2>3 DEF EngineInv, DoorwayIsItsCall, DoorShut, CallsKnow
  <2>6. QueueIsUnanswered' /\ LostRaised' /\ UnansweredIsSilent'
    <3>1. QueueIsUnanswered' /\ UnansweredIsSilent'
      BY <1>1, <1>2, <2>2, <2>3 DEF EngineInv, QueueIsUnanswered, UnansweredIsSilent
    <3>2. \A d \in Call : d \in Lost' => d \in Lost /\ call'[d] = call[d]
      BY <1>1, <1>2, <2>3 DEF Lost
    <3> QED
      BY <3>1, <3>2, <1>2, NothingIsLost DEF Ending
  <2>7. StreamOfLive' /\ BatchIsLive'
    BY <1>2, <2>1 DEF EngineInv, StreamOfLive, BatchIsLive
  <2>8. RegisteredIsOpen'
    <3>1. \A q \in ReqId : streams[q] # None => streams[q] \in Call /\ streams[q] # c
      BY <1>1 DEF EngineInv, EngineTypes
    <3> QED
      BY <3>1, <1>2, <2>1, <2>2, <2>3 DEF EngineInv, RegisteredIsOpen
  <2> QED
    BY <2>2, <2>4, <2>5, <2>6, <2>7, <2>8 DEF EngineInv
<1> QED
  BY <1>3, <1>4

(* The one step that loses a call is the thread's last before its end. *)
LEMMA TakeRaisesKeeps ==
  ASSUME EngineInv, TakeRaises
  PROVE  EngineInv'
<1> DEFINE c == Head(submissions)
<1>1. /\ c \in Call /\ call[c].limit \in Int
      /\ Tail(submissions) \in Seq(Call) /\ IsInjective(Tail(submissions))
      /\ ToSet(Tail(submissions)) = ToSet(submissions) \ {c}
  BY HeadTaken DEF TakeRaises
<1>2. /\ UNCHANGED <<phase, limit, delivered, call, doorway, stop, future, stream,
                     streams, todo>>
      /\ epc \in {"idle", "drain"} /\ epc' = "crashed"
      /\ submissions' = Tail(submissions)
      /\ call[c].limit \in HugeLimits
  BY DEF TakeRaises, ThreadRaises, Overflows, life_vars, client_vars
<1> HIDE DEF c
<1>3. EngineTypes'
  BY <1>1, <1>2 DEF EngineInv, EngineTypes, EnginePlaces
<1>4. DoorwayIsItsCall' /\ DoorShut' /\ CallsKnow'
  BY <1>2 DEF EngineInv, DoorwayIsItsCall, DoorShut, CallsKnow
<1>5. QueueIsUnanswered' /\ UnansweredIsSilent' /\ AllShaped'
  BY <1>1, <1>2 DEF EngineInv, QueueIsUnanswered, UnansweredIsSilent, AllShaped
<1>6. LostRaised'
  <2>1. Lost = {}
    BY <1>2 DEF EngineInv, LostRaised, Ending
  <2>2. Lost' \subseteq {c}
    BY <2>1, <1>1, <1>2 DEF Lost
  <2> QED
    BY <2>2, <1>2 DEF LostRaised, Ending
<1>7. StreamOfLive' /\ BatchIsLive'
  BY <1>2 DEF EngineInv, StreamOfLive, BatchIsLive
<1>8. RegisteredIsOpen'
  BY <1>2 DEF EngineInv, RegisteredIsOpen
<1> QED
  BY <1>3, <1>4, <1>5, <1>6, <1>7, <1>8 DEF EngineInv

LEMMA FailUndrainedKeeps ==
  ASSUME EngineInv, FailUndrained
  PROVE  EngineInv'
<1> DEFINE c == Head(submissions)
<1>1. /\ c \in Call /\ call[c].at = "returned" /\ future[c] = "pending"
      /\ Tail(submissions) \in Seq(Call) /\ IsInjective(Tail(submissions))
      /\ ToSet(Tail(submissions)) = ToSet(submissions) \ {c}
      /\ \A q \in ReqId : streams[q] # c
  BY HeadTaken DEF FailUndrained
<1>2. /\ UNCHANGED <<phase, limit, delivered, call, doorway, stop, stream, streams, epc, todo>>
      /\ epc = "finalize"
      /\ submissions' = Tail(submissions)
      /\ future' = [future EXCEPT ![c] = "stopped"]
  BY DEF FailUndrained, Resolve, life_vars, client_vars, engine_vars
<1> HIDE DEF c
<1>3. /\ future' \in [Call -> Answers]
      /\ \A d \in Call : future'[d] = IF d = c THEN "stopped" ELSE future[d]
  BY <1>1, <1>2 DEF EngineInv, EngineTypes, Answers
<1>4. EngineTypes'
  BY <1>1, <1>2, <1>3 DEF EngineInv, EngineTypes
<1>5. DoorwayIsItsCall' /\ DoorShut' /\ CallsKnow'
  BY <1>1, <1>2, <1>3 DEF EngineInv, DoorwayIsItsCall, DoorShut, CallsKnow
<1>6. QueueIsUnanswered' /\ LostRaised' /\ UnansweredIsSilent' /\ AllShaped'
  <2>1. QueueIsUnanswered' /\ UnansweredIsSilent' /\ AllShaped'
    BY <1>1, <1>2, <1>3 DEF EngineInv, QueueIsUnanswered, UnansweredIsSilent, AllShaped
  <2>2. \A d \in Call : d \in Lost' => d \in Lost /\ call'[d] = call[d]
    BY <1>1, <1>2, <1>3 DEF Lost
  <2> QED
    BY <2>1, <2>2, <1>2, NothingIsLost
<1>7. StreamOfLive' /\ BatchIsLive'
  BY <1>2 DEF EngineInv, StreamOfLive, BatchIsLive
<1>8. RegisteredIsOpen'
  <2>1. \A q \in ReqId : streams[q] # None => streams[q] \in Call /\ streams[q] # c
    BY <1>1 DEF EngineInv, EngineTypes
  <2> QED
    BY <2>1, <1>2, <1>3 DEF EngineInv, RegisteredIsOpen
<1> QED
  BY <1>4, <1>5, <1>6, <1>7, <1>8 DEF EngineInv

(* The call a served request answers, and nobody else's stream. *)
LEMMA ServedStream ==
  ASSUME EngineInv, NEW r \in ReqId, streams[r] # None
  PROVE  LET c == streams[r]
         IN  /\ c \in Call /\ c # None /\ call[c].at = "returned" /\ call[c].id = r
             /\ future[c] = "admitted"
             /\ stream[c] \in Seq(Event) /\ Shaped(stream[c]) /\ ~Over(stream[c])
             /\ Len(stream[c]) = delivered[r] /\ delivered[r] \in Nat
             /\ \A q \in ReqId : streams[q] = c => q = r
<1> DEFINE c == streams[r]
<1>1. c \in Call /\ c # None
  BY DEF EngineInv, EngineTypes
<1>2. /\ call[c].at = "returned" /\ call[c].id = r /\ future[c] = "admitted"
      /\ ~Over(stream[c]) /\ Len(stream[c]) = delivered[r]
      /\ \A q \in ReqId : streams[q] # None => call[streams[q]].id = q
  BY DEF EngineInv, RegisteredIsOpen
<1>3. stream[c] \in Seq(Event) /\ Shaped(stream[c])
  BY <1>1 DEF EngineInv, EngineTypes, AllShaped
<1>4. \A q \in ReqId : streams[q] = c => q = r
  BY <1>1, <1>2
<1> QED
  BY <1>1, <1>2, <1>3, <1>4

LEMMA StepTokenKeeps ==
  ASSUME EngineInv, NEW r \in ReqId, StepToken(r)
  PROVE  EngineInv'
<1> DEFINE c == streams[r]
           t == Append(stream[c], Token(Len(stream[c]) + 1))
<1>1. /\ c \in Call /\ c # None /\ call[c].at = "returned" /\ call[c].id = r
      /\ future[c] = "admitted" /\ Len(stream[c]) = delivered[r] /\ delivered[r] \in Nat
      /\ stream[c] \in Seq(Event) /\ Shaped(stream[c]) /\ ~Over(stream[c])
      /\ \A q \in ReqId : streams[q] = c => q = r
  BY ServedStream DEF StepToken
<1>2. /\ UNCHANGED <<phase, limit, call, doorway, stop, submissions, future, streams, epc>>
      /\ epc = "step" /\ phase[r] = "live"
      /\ todo' = todo \ {r}
      /\ delivered' = [delivered EXCEPT ![r] = @ + 1]
      /\ stream' = [stream EXCEPT ![c] = Append(@, Token(delivered'[r]))]
  BY DEF StepToken, Served, Deliver, Put, client_vars
<1>3. /\ delivered' \in [ReqId -> Int]
      /\ \A q \in ReqId : delivered'[q] = IF q = r THEN delivered[r] + 1 ELSE delivered[q]
  BY <1>1, <1>2 DEF EngineInv, EngineTypes
<1>4. t \in Seq(Event) /\ Len(t) = Len(stream[c]) + 1 /\ Shaped(t) /\ ~Over(t)
  BY <1>1, AppendToken
<1>5. stream' = [stream EXCEPT ![c] = t]
  BY <1>1, <1>2, <1>3
<1> HIDE DEF c, t
<1>6. /\ stream' \in [Call -> Seq(Event)]
      /\ \A d \in Call : stream'[d] = IF d = c THEN t ELSE stream[d]
      /\ AllShaped'
  BY <1>1, <1>4, <1>5, PutOnOne
<1>7. EngineTypes'
  BY <1>2, <1>3, <1>6 DEF EngineInv, EngineTypes
<1>8. DoorwayIsItsCall' /\ DoorShut' /\ CallsKnow'
  BY <1>2 DEF EngineInv, DoorwayIsItsCall, DoorShut, CallsKnow
<1>9. QueueIsUnanswered' /\ LostRaised' /\ UnansweredIsSilent'
  <2>1. QueueIsUnanswered' /\ UnansweredIsSilent'
    BY <1>1, <1>2, <1>6 DEF EngineInv, QueueIsUnanswered, UnansweredIsSilent
  <2> QED
    BY <2>1, <1>2, LostIsLeftAlone
<1>10. StreamOfLive' /\ BatchIsLive'
  BY <1>2 DEF EngineInv, StreamOfLive, BatchIsLive, LiveReqs
<1>11. RegisteredIsOpen'
  <2> SUFFICES ASSUME NEW q \in ReqId, streams[q] # None
               PROVE  ~Over(stream'[streams[q]]) /\ Len(stream'[streams[q]]) = delivered'[q]
    BY <1>2 DEF EngineInv, RegisteredIsOpen
  <2>1. CASE q = r
    BY <2>1, <1>1, <1>3, <1>4, <1>6 DEF c
  <2>2. CASE q # r
    <3>1. streams[q] \in Call /\ streams[q] # c
      BY <2>2, <1>1 DEF EngineInv, EngineTypes
    <3> QED
      BY <3>1, <2>2, <1>3, <1>6 DEF EngineInv, RegisteredIsOpen
  <2> QED
    BY <2>1, <2>2
<1> QED
  BY <1>6, <1>7, <1>8, <1>9, <1>10, <1>11 DEF EngineInv

LEMMA StepFinishKeeps ==
  ASSUME EngineInv, NEW r \in ReqId, StepFinish(r)
  PROVE  EngineInv'
<1> DEFINE c == streams[r]
           s == stream[c]
           last == Token(Len(s) + 1)
           t == Append(s, last)
           end == FinishEvent(Len(t), FALSE)
           u == Append(t, end)
<1>1. /\ c \in Call /\ c # None /\ call[c].at = "returned" /\ call[c].id = r
      /\ future[c] = "admitted" /\ Len(s) = delivered[r] /\ delivered[r] \in Nat
      /\ s \in Seq(Event) /\ Shaped(s) /\ ~Over(s)
      /\ \A q \in ReqId : streams[q] = c => q = r
  BY ServedStream DEF StepFinish
<1>2. /\ UNCHANGED <<limit, call, doorway, stop, submissions, future, epc>>
      /\ epc = "step" /\ phase[r] = "live"
      /\ todo' = todo \ {r}
      /\ delivered' = [delivered EXCEPT ![r] = @ + 1]
      /\ phase' = [phase EXCEPT ![r] = "done"]
      /\ streams' = [streams EXCEPT ![r] = None]
      /\ stream' = [stream EXCEPT ![c] =
                      @ \o <<Token(delivered'[r]), FinishEvent(delivered'[r], FALSE)>>]
  BY DEF StepFinish, Served, Finish, Unregistered, client_vars
<1>3. /\ delivered' \in [ReqId -> Int] /\ phase' \in [ReqId -> Phases]
      /\ streams' \in [ReqId -> Call \cup {None}]
      /\ \A q \in ReqId : delivered'[q] = IF q = r THEN delivered[r] + 1 ELSE delivered[q]
      /\ \A q \in ReqId : phase'[q] = IF q = r THEN "done" ELSE phase[q]
      /\ \A q \in ReqId : streams'[q] = IF q = r THEN None ELSE streams[q]
  BY <1>1, <1>2 DEF EngineInv, EngineTypes, Phases
<1>4. t \in Seq(Event) /\ Len(t) = Len(s) + 1 /\ Shaped(t) /\ ~Over(t)
  BY <1>1, AppendToken
<1>5. u \in Seq(Event) /\ Shaped(u)
  <2> HIDE DEF t
  <2> QED
    BY <1>4, AppendFinish
<1>6. stream' = [stream EXCEPT ![c] = u]
  <2>1. delivered'[r] = Len(s) + 1 /\ Len(t) = delivered'[r]
    BY <1>1, <1>3, <1>4
  <2>2. stream' = [stream EXCEPT ![c] = s \o <<last, end>>]
    BY <1>2, <2>1
  <2>3. last \in Event /\ end \in Event
    <3>1. Len(s) + 1 \in Int /\ Len(t) \in Int
      BY <1>1, <1>4
    <3> HIDE DEF s, t
    <3> QED
      BY <3>1, TokenIsEvent, FinishIsEvent
  <2>4. s \o <<last, end>> = u
    <3>1. ASSUME NEW x \in Seq(Event), NEW a \in Event, NEW b \in Event
          PROVE  x \o <<a, b>> = Append(Append(x, a), b)
      OBVIOUS
    <3> HIDE DEF last, end, s
    <3> QED
      BY <1>1, <2>3, <3>1
  <2> QED
    BY <2>2, <2>4
<1> HIDE DEF c, s, t, u, last, end
<1>7. /\ stream' \in [Call -> Seq(Event)]
      /\ \A d \in Call : stream'[d] = IF d = c THEN u ELSE stream[d]
      /\ AllShaped'
  BY <1>1, <1>5, <1>6, PutOnOne
<1>8. EngineTypes'
  BY <1>2, <1>3, <1>7 DEF EngineInv, EngineTypes
<1>9. DoorwayIsItsCall' /\ DoorShut' /\ CallsKnow'
  BY <1>2 DEF EngineInv, DoorwayIsItsCall, DoorShut, CallsKnow
<1>10. QueueIsUnanswered' /\ LostRaised' /\ UnansweredIsSilent'
  <2>1. QueueIsUnanswered' /\ UnansweredIsSilent'
    BY <1>1, <1>2, <1>7 DEF EngineInv, QueueIsUnanswered, UnansweredIsSilent
  <2> QED
    BY <2>1, <1>2, LostIsLeftAlone
<1>11. StreamOfLive' /\ BatchIsLive'
  BY <1>2, <1>3 DEF EngineInv, StreamOfLive, BatchIsLive, LiveReqs
<1>12. RegisteredIsOpen'
  <2> SUFFICES ASSUME NEW q \in ReqId, streams'[q] # None
               PROVE  /\ call'[streams'[q]].at = "returned"
                      /\ call'[streams'[q]].id = q
                      /\ future'[streams'[q]] = "admitted"
                      /\ ~Over(stream'[streams'[q]])
                      /\ Len(stream'[streams'[q]]) = delivered'[q]
    BY DEF RegisteredIsOpen
  <2>1. q # r /\ streams'[q] = streams[q] /\ streams[q] \in Call /\ streams[q] # c
    BY <1>1, <1>3 DEF EngineInv, EngineTypes
  <2> QED
    BY <2>1, <1>2, <1>3, <1>7 DEF EngineInv, RegisteredIsOpen
<1> QED
  BY <1>7, <1>8, <1>9, <1>10, <1>11, <1>12 DEF EngineInv

(* The final drain ends the registered streams and touches no other. *)
LEMMA AbortedStream ==
  ASSUME EngineInv, NEW c \in Call
  PROVE  /\ Aborted[c] \in Seq(Event) /\ Shaped(Aborted[c])
         /\ Over(stream[c]) => Aborted[c] = stream[c]
         /\ future[c] # "admitted" => Aborted[c] = stream[c]
<1>1. CASE \E r \in ReqId : streams[r] = c
  <2> DEFINE r == CHOOSE q \in ReqId : streams[q] = c
  <2>1. r \in ReqId /\ streams[r] = c
    BY <1>1
  <2>2. Aborted[c] = Append(stream[c], FinishEvent(delivered[r], TRUE))
    BY <1>1 DEF Aborted, AbortEvent
  <2> HIDE DEF r
  <2>3. streams[r] # None
    BY <2>1, EngineAssumption
  <2>4. /\ stream[c] \in Seq(Event) /\ Shaped(stream[c]) /\ ~Over(stream[c])
        /\ Len(stream[c]) = delivered[r] /\ future[c] = "admitted"
    BY <2>1, <2>3, ServedStream
  <2>5. Aborted[c] = Append(stream[c], FinishEvent(Len(stream[c]), TRUE))
    BY <2>2, <2>4
  <2> QED
    BY <2>4, <2>5, AppendFinish
<1>2. CASE ~\E r \in ReqId : streams[r] = c
  BY <1>2 DEF Aborted, EngineInv, EngineTypes, AllShaped
<1> QED
  BY <1>1, <1>2

LEMMA AbortStreamsKeeps ==
  ASSUME EngineInv, AbortStreams
  PROVE  EngineInv'
<1>1. /\ UNCHANGED <<phase, limit, delivered, call, doorway, stop, submissions, future, todo>>
      /\ epc = "finalize" /\ epc' = "dead" /\ submissions = << >>
      /\ stream' = Aborted
      /\ streams' = [r \in ReqId |-> None]
  BY DEF AbortStreams, life_vars, client_vars
<1>2. /\ stream' \in [Call -> Seq(Event)] /\ AllShaped'
      /\ \A c \in Call : future[c] # "admitted" => stream'[c] = stream[c]
  <2>1. Aborted \in [Call -> Seq(Event)]
    <3>1. \A c \in Call : Aborted[c] \in Seq(Event)
      BY AbortedStream
    <3>2. Aborted = [c \in Call |-> Aborted[c]]
      BY DEF Aborted
    <3> HIDE DEF Aborted
    <3> QED
      BY <3>1, <3>2
  <2> HIDE DEF Aborted
  <2> QED
    BY <1>1, <2>1, AbortedStream DEF AllShaped
<1>3. streams' \in [ReqId -> Call \cup {None}] /\ \A r \in ReqId : streams'[r] = None
  BY <1>1
<1>4. EngineTypes'
  BY <1>1, <1>2, <1>3 DEF EngineInv, EngineTypes, EnginePlaces
<1>5. DoorwayIsItsCall' /\ DoorShut' /\ CallsKnow'
  BY <1>1 DEF EngineInv, DoorwayIsItsCall, DoorShut, CallsKnow
<1>6. QueueIsUnanswered' /\ LostRaised' /\ UnansweredIsSilent'
  <2>1. QueueIsUnanswered' /\ UnansweredIsSilent'
    BY <1>1, <1>2 DEF EngineInv, QueueIsUnanswered, UnansweredIsSilent
  <2> QED
    BY <2>1, <1>1, LostIsLeftAlone DEF Ending
<1>7. StreamOfLive' /\ RegisteredIsOpen' /\ BatchIsLive'
  BY <1>1, <1>3 DEF StreamOfLive, RegisteredIsOpen, BatchIsLive
<1> QED
  BY <1>2, <1>4, <1>5, <1>6, <1>7 DEF EngineInv

LEMMA NextKeeps ==
  ASSUME EngineInv, [Next]_vars
  PROVE  EngineInv'
<1>1. CASE ClientStep
  <2>1. CASE \E c \in Call, r \in ReqId, m \in TokenLimits : SubmitEnters(c, r, m)
    BY <2>1, SubmitEntersKeeps
  <2>2. CASE \E c \in Call : SubmitPuts(c)
    BY <2>2, SubmitPutsKeeps
  <2> QED
    BY <1>1, <2>1, <2>2 DEF ClientStep
<1>2. CASE EngineStep
  <2>1. CASE \E r \in ReqId : StepToken(r)
    BY <2>1, StepTokenKeeps
  <2>2. CASE \E r \in ReqId : StepFinish(r)
    BY <2>2, StepFinishKeeps
  <2> QED
    BY <1>2, <2>1, <2>2, TakeKeeps, TakeRaisesKeeps, FailUndrainedKeeps,
       AbortStreamsKeeps, MovingActionsKeep DEF EngineStep
<1> QED
  BY <1>1, <1>2, MovingActionsKeep DEF Next

LEMMA EngineInvHolds == Spec => []EngineInv
<1>1. Init => EngineInv
  BY InitKeeps
<1>2. EngineInv /\ [Next]_vars => EngineInv'
  BY NextKeeps
<1> QED
  BY <1>1, <1>2, PTL DEF Spec

(* The invariant says what the runs check, and so do its parts. *)
LEMMA EngineInvIsEnough ==
  ASSUME EngineInv
  PROVE  TokensThenOneFinish /\ LiveHasItsStream /\ NoPutAfterFinalDrain
<1>1. TokensThenOneFinish
  <2> SUFFICES ASSUME NEW c \in Call, NEW i \in DOMAIN stream[c]
               PROVE  IF stream[c][i].kind = "token" THEN stream[c][i].n = i
                      ELSE i = Len(stream[c]) /\ stream[c][i].n = i - 1
    BY DEF TokensThenOneFinish
  <2>1. stream[c] \in Seq(Event) /\ Shaped(stream[c])
    BY DEF EngineInv, EngineTypes, AllShaped
  <2>2. i \in 1 .. Len(stream[c])
    BY <2>1
  <2> QED
    BY <2>1, <2>2 DEF Shaped
<1>2. LiveHasItsStream
  BY DEF EngineInv, StreamOfLive, RegisteredIsOpen, LiveHasItsStream, Ended, Over
<1>3. NoPutAfterFinalDrain
  <2>1. epc = "dead" => submissions = << >> /\ doorway = None
    BY DEF EngineInv, DoorShut
  <2>2. ASSUME NEW c \in Lost
        PROVE  Lost = {c} /\ call[c].limit \in HugeLimits /\ stream[c] = << >>
    <3>1. c \in Call /\ future[c] = "pending"
      BY <2>2 DEF Lost
    <3>2. stream[c] = << >>
      BY <3>1 DEF EngineInv, UnansweredIsSilent
    <3> HIDE DEF Lost
    <3> QED
      BY <2>2, <3>2 DEF EngineInv, LostRaised
  <2>3. Lost # {} => epc \in {"crashed", "finalize", "dead"}
    BY DEF EngineInv, LostRaised, Ending
  <2> QED
    BY <2>1, <2>2, <2>3 DEF NoPutAfterFinalDrain
<1> QED
  BY <1>1, <1>2, <1>3

-----------------------------------------------------------------------------
(***************************************************************************)
(* Every stream is tokens numbered from 1, then at most one FINISH that    *)
(* counts them, whatever calls share a req_id and however the engine ends. *)
(***************************************************************************)
THEOREM StreamsKeepTheContract == Spec => []TokensThenOneFinish
  BY EngineInvHolds, EngineInvIsEnough, PTL

(***************************************************************************)
(* Until the engine is dead a request is live exactly while its req_id has *)
(* a stream, the open one of the call that was admitted for it, holding    *)
(* just the tokens delivered: the look-ups of the callbacks never fail.    *)
(***************************************************************************)
THEOREM CallbacksFindTheirStream == Spec => []LiveHasItsStream
  BY EngineInvHolds, EngineInvIsEnough, PTL

(***************************************************************************)
(* No submission is left behind by the final drain, however submit(),      *)
(* stop() and a crash interleave: the doorway's lock is enough.  The one   *)
(* call an engine can lose is not on the queue then: its own admission has *)
(* raised, behind an empty stream, and was the thread's last.              *)
(***************************************************************************)
THEOREM FinalDrainIsFinal == Spec => []NoPutAfterFinalDrain
  BY EngineInvHolds, EngineInvIsEnough, PTL

-----------------------------------------------------------------------------
(***************************************************************************)
(* An answer stands: a resolved future keeps its state and a stream that   *)
(* has its FINISH is never put on again, so what a handler once read of    *)
(* either is still so when it acts on it.                                  *)
(***************************************************************************)
AnswerStands(c) ==
  /\ future[c] # "pending" => future'[c] = future[c]
  /\ Over(stream[c]) => stream'[c] = stream[c]

LEMMA AnswersStand ==
  ASSUME EngineInv, [Next]_vars, NEW d \in Call
  PROVE  AnswerStands(d)
<1> USE DEF AnswerStands
<1>1. stream \in [Call -> Seq(Event)] /\ future \in [Call -> Answers]
  BY DEF EngineInv, EngineTypes
<1>2. future[d] = "pending" => ~Over(stream[d])
  BY EmptyIsShaped DEF EngineInv, UnansweredIsSilent
<1>3. CASE UNCHANGED <<future, stream>>
  BY <1>3
<1>4. ASSUME NEW c \in Call, NEW r \in ReqId, NEW m \in TokenLimits, SubmitEnters(c, r, m)
      PROVE  AnswerStands(d)
  <2>1. future[c] = "pending"
    BY <1>4 DEF SubmitEnters, EngineInv, CallsKnow
  <2>2. \/ UNCHANGED <<future, stream>>
        \/ /\ future' = [future EXCEPT ![c] = "stopped"]
           /\ stream' = RefusalSentinel(c)
    BY <1>4 DEF SubmitEnters, Resolve
  <2>3. d # c => future'[d] = future[d] /\ stream'[d] = stream[d]
    BY <2>2, <1>1 DEF RefusalSentinel, Put
  <2> QED
    BY <2>1, <2>3, <1>2
<1>5. CASE Take
  <2> DEFINE c == Head(submissions)
  <2>1. c \in Call /\ future[c] = "pending"
    BY <1>5, HeadTaken DEF Take
  <2>2. /\ \/ future' = [future EXCEPT ![c] = "admitted"]
           \/ future' = [future EXCEPT ![c] = "refused"]
        /\ stream' = stream \/ stream' = RefusalSentinel(c)
    BY <1>5 DEF Take, Admit, Resolve
  <2> HIDE DEF c
  <2>3. d # c => future'[d] = future[d] /\ stream'[d] = stream[d]
    BY <2>2, <1>1 DEF RefusalSentinel, Put
  <2> QED
    BY <2>1, <2>3, <1>2
<1>6. CASE FailUndrained
  <2> DEFINE c == Head(submissions)
  <2>1. c \in Call /\ future[c] = "pending"
    BY <1>6, HeadTaken DEF FailUndrained
  <2>2. future' = [future EXCEPT ![c] = "stopped"] /\ stream' = stream
    BY <1>6 DEF FailUndrained, Resolve
  <2> HIDE DEF c
  <2> QED
    BY <2>1, <2>2, <1>1
<1>7. ASSUME NEW r \in ReqId, StepToken(r) \/ StepFinish(r)
      PROVE  AnswerStands(d)
  <2> DEFINE c == streams[r]
  <2>1. ~Over(stream[c])
    BY <1>7, ServedStream DEF StepToken, StepFinish
  <2>2. future' = future
    BY <1>7 DEF StepToken, StepFinish
  <2>3. d # c => stream'[d] = stream[d]
    BY <1>7, <1>1 DEF StepToken, StepFinish, Put
  <2> QED
    BY <2>1, <2>2, <2>3
<1>8. CASE AbortStreams
  <2>1. future' = future /\ stream' = Aborted
    BY <1>8 DEF AbortStreams
  <2> QED
    BY <2>1, AbortedStream
<1> QED
  BY <1>3, <1>4, <1>5, <1>6, <1>7, <1>8
  DEF Next, ClientStep, EngineStep, SubmitPuts, Stop, Start, LoopTop, TakeRaises,
      IdleTimeout, StepBegins, StepEnds, Crash, CrashClosesDoor, vars

(***************************************************************************)
(* No step takes an answer back: no future is resolved twice (the second   *)
(* set_result would raise in the engine thread), and nothing follows a     *)
(* FINISH, at any moment at which a handler may look.                      *)
(***************************************************************************)
THEOREM AnswersAreFinal == Spec => [][\A c \in Call : AnswerStands(c)]_vars
<1>1. EngineInv /\ [Next]_vars => [\A c \in Call : AnswerStands(c)]_vars
  BY AnswersStand
<1> QED
  BY <1>1, EngineInvHolds, PTL DEF Spec

-----------------------------------------------------------------------------
(***************************************************************************)
(* The handlers.  What a handler has written agrees with its future and    *)
(* its stream, at every place of its thread and not only at its end.       *)
(***************************************************************************)
HandlerPlaces == {"new", "waiting", "streaming", "closed"}
Statuses == {0, 200, 400, 503}

HandlerTypes ==
  handler \in [Call -> [at : HandlerPlaces, status : Statuses, sent : Nat, left : BOOLEAN]]

Unsubmitted(c) == call[c].at = "start"

HandlerAgrees(c) ==
  LET h == handler[c]
  IN  /\ h.at \in {"new", "waiting"} => h.status = 0
      /\ h.at = "new" => Unsubmitted(c)
      /\ h.at = "waiting" => ~Unsubmitted(c)
      /\ h.at = "streaming" => h.status = 200
      /\ h.status = 200 => future[c] = "admitted"
      /\ h.status = 200 => ~Unsubmitted(c)
      /\ h.at = "closed" /\ h.status = 200 /\ ~h.left =>
           Over(stream[c]) /\ h.sent = Len(stream[c])
      /\ h.status = 400 => Unsubmitted(c) \/ future[c] = "refused"
      /\ h.status = 503 => ~Unsubmitted(c)
      /\ h.status # 200 => h.sent = 0
      /\ h.at = "closed" /\ h.status = 0 => h.left \/ Unsubmitted(c)

HandlerInv == HandlerTypes /\ \A c \in Call : HandlerAgrees(c)

(* What the engine's own steps leave of what a handler relies on. *)
LEMMA EngineLeavesHandlers ==
  ASSUME EngineInv, HandlerInv, EngineSide \/ UNCHANGED server_vars
  PROVE  HandlerInv'
<1>1. [Next]_vars /\ UNCHANGED handler
  BY DEF EngineSide, Next, ClientStep, server_vars
<1>2. \A c \in Call : Unsubmitted(c)' <=> Unsubmitted(c)
  <2>1. CASE UNCHANGED call
    BY <2>1 DEF Unsubmitted
  <2>2. ASSUME NEW d \in Call, SubmitPuts(d)
        PROVE  \A c \in Call : Unsubmitted(c)' <=> Unsubmitted(c)
    <3>1. /\ call \in [Call -> [at : CallPlaces, id : ReqId \cup {None}, limit : Int]]
          /\ call' = [call EXCEPT ![d].at = "returned"]
          /\ call[d].at = "doorway"
      BY <2>2 DEF SubmitPuts, EngineInv, EngineTypes
    <3>2. \A c \in Call : call'[c].at = IF c = d THEN "returned" ELSE call[c].at
      BY <3>1
    <3> QED
      BY <3>1, <3>2 DEF Unsubmitted
  <2>3. UNCHANGED call \/ \E d \in Call : SubmitPuts(d)
    BY DEF EngineSide, Start, EngineStep, Crash, Stop, LoopTop, Take, TakeRaises,
           IdleTimeout, StepBegins, StepEnds, StepToken, StepFinish, CrashClosesDoor,
           FailUndrained, AbortStreams, client_vars, server_vars, vars
  <2> QED
    BY <2>1, <2>2, <2>3
<1> SUFFICES ASSUME NEW c \in Call PROVE HandlerAgrees(c)'
  BY <1>1 DEF HandlerInv, HandlerTypes
<1>3. HandlerAgrees(c) /\ AnswerStands(c) /\ handler'[c] = handler[c]
  BY <1>1, AnswersStand DEF HandlerInv
<1> QED
  BY <1>2, <1>3 DEF HandlerAgrees, AnswerStands, Unsubmitted

(* One handler moves to a record that agrees with what it relies on. *)
LEMMA OneHandlerMoves ==
  ASSUME HandlerInv, NEW c \in Call,
         NEW new \in [at : HandlerPlaces, status : Statuses, sent : Nat, left : BOOLEAN],
         handler' = [handler EXCEPT ![c] = new],
         HandlerAgrees(c)',
         \A d \in Call : d # c => /\ Unsubmitted(d)' <=> Unsubmitted(d)
                                  /\ future'[d] = future[d]
                                  /\ stream'[d] = stream[d]
  PROVE  HandlerInv'
<1>1. /\ HandlerTypes'
      /\ \A d \in Call : d # c => handler'[d] = handler[d]
  BY DEF HandlerInv, HandlerTypes
<1>2. ASSUME NEW d \in Call, d # c PROVE HandlerAgrees(d)'
  <2>1. HandlerAgrees(d) /\ handler'[d] = handler[d]
    BY <1>1, <1>2 DEF HandlerInv
  <2> QED
    BY <1>2, <2>1 DEF HandlerAgrees, Unsubmitted
<1> QED
  BY <1>1, <1>2 DEF HandlerInv

LEMMA PostKeeps ==
  ASSUME EngineInv, HandlerInv, NEW c \in Call, Post(c)
  PROVE  HandlerInv'
<1> DEFINE new == [handler[c] EXCEPT !.at = "waiting"]
<1>1. PICK r \in ReqId, m \in TokenLimits : SubmitEnters(c, r, m)
  BY DEF Post
<1>2. handler[c] \in [at : HandlerPlaces, status : Statuses, sent : Nat, left : BOOLEAN]
  BY DEF HandlerInv, HandlerTypes
<1>3. /\ new \in [at : HandlerPlaces, status : Statuses, sent : Nat, left : BOOLEAN]
      /\ new.at = "waiting" /\ new.status = handler[c].status
      /\ new.sent = handler[c].sent /\ new.left = handler[c].left
  BY <1>2 DEF HandlerPlaces
<1>4. handler' = [handler EXCEPT ![c] = new]
  BY DEF Post, Goes
<1> HIDE DEF new
<1>5. handler'[c] = new /\ handler[c].at = "new" /\ HandlerAgrees(c)
  BY <1>4 DEF HandlerInv, HandlerTypes, Post, At
<1>6. /\ call'[c].at # "start"
      /\ \A d \in Call : d # c => /\ call'[d] = call[d]
                                  /\ future'[d] = future[d] /\ stream'[d] = stream[d]
  <2>1. /\ \/ call' = [call EXCEPT ![c] = [at |-> "returned", id |-> r, limit |-> m]]
           \/ call' = [call EXCEPT ![c] = [at |-> "doorway", id |-> r, limit |-> m]]
        /\ future' = [future EXCEPT ![c] = "stopped"] \/ future' = future
        /\ stream' = RefusalSentinel(c) \/ stream' = stream
    BY <1>1 DEF SubmitEnters, Resolve
  <2>2. /\ DOMAIN call = Call /\ DOMAIN future = Call /\ DOMAIN stream = Call
        /\ call = [d \in Call |-> call[d]]
        /\ future = [d \in Call |-> future[d]]
        /\ stream = [d \in Call |-> stream[d]]
    BY DEF EngineInv, EngineTypes
  <2>3. call'[c].at # "start"
    BY <2>1, <2>2
  <2>4. \A d \in Call : d # c => call'[d] = call[d] /\ future'[d] = future[d]
    BY <2>1, <2>2
  <2>5. \A d \in Call : d # c => stream'[d] = stream[d]
    BY <2>1, <2>2 DEF RefusalSentinel, Put
  <2> QED
    BY <2>3, <2>4, <2>5
<1>7. HandlerAgrees(c)'
  BY <1>3, <1>5, <1>6 DEF HandlerAgrees, Unsubmitted
<1> QED
  BY <1>3, <1>4, <1>6, <1>7, OneHandlerMoves DEF Unsubmitted

LEMMA WriteEventKeeps ==
  ASSUME EngineInv, HandlerInv, NEW c \in Call, WriteEvent(c)
  PROVE  HandlerInv'
<1> DEFINE event == stream[c][handler[c].sent + 1]
           place == IF event.kind = "finish" THEN "closed" ELSE "streaming"
           new == [handler[c] EXCEPT !.sent = @ + 1, !.at = place]
<1>1. /\ handler[c] \in [at : HandlerPlaces, status : Statuses, sent : Nat, left : BOOLEAN]
      /\ HandlerAgrees(c) /\ handler[c].at = "streaming"
  BY DEF HandlerInv, HandlerTypes, WriteEvent, At
<1>2. UNCHANGED <<call, future, stream>>
  BY DEF WriteEvent, vars, client_vars
<1>3. handler[c].sent < Len(stream[c])
  BY DEF WriteEvent
<1>4. /\ stream[c] \in Seq(Event) /\ Shaped(stream[c])
  BY DEF EngineInv, EngineTypes, AllShaped
<1>5. handler' = [handler EXCEPT ![c] = new]
  BY <1>1 DEF WriteEvent
<1>6. event.kind = "finish" => handler[c].sent + 1 = Len(stream[c]) /\ Over(stream[c])
  <2>1. handler[c].sent + 1 \in 1 .. Len(stream[c]) /\ Len(stream[c]) \in Nat
    BY <1>1, <1>3, <1>4
  <2>2. ASSUME event.kind = "finish" PROVE handler[c].sent + 1 = Len(stream[c])
    BY <2>1, <2>2, <1>4 DEF Shaped
  <2>3. ASSUME event.kind = "finish" PROVE Over(stream[c])
    <3>1. stream[c][Len(stream[c])].kind = "finish"
      BY <2>2, <2>3
    <3>2. stream[c] # << >>
      BY <2>1
    <3> QED
      BY <3>1, <3>2 DEF Over, Last
  <2> QED
    BY <2>2, <2>3
<1>7. place \in {"closed", "streaming"} /\ (place = "closed" => event.kind = "finish")
  OBVIOUS
<1> HIDE DEF event, place
<1>8. /\ new \in [at : HandlerPlaces, status : Statuses, sent : Nat, left : BOOLEAN]
      /\ new.at = place /\ new.status = handler[c].status
      /\ new.sent = handler[c].sent + 1 /\ new.left = handler[c].left
  <2> DEFINE h == handler[c]
             k == h.sent + 1
  <2>1. place \in HandlerPlaces /\ k \in Nat
    BY <1>1, <1>7 DEF HandlerPlaces
  <2>2. new = [[h EXCEPT !.sent = k] EXCEPT !.at = place]
    OBVIOUS
  <2> HIDE DEF h, k
  <2>3. h \in [at : HandlerPlaces, status : Statuses, sent : Nat, left : BOOLEAN]
    BY <1>1 DEF h
  <2> HIDE DEF new
  <2>4. /\ new \in [at : HandlerPlaces, status : Statuses, sent : Nat, left : BOOLEAN]
        /\ new.at = place /\ new.status = h.status /\ new.sent = k /\ new.left = h.left
    BY <2>1, <2>2, <2>3
  <2> QED
    BY <2>4 DEF h, k
<1> HIDE DEF new
<1>9. handler'[c] = new
  BY <1>5 DEF HandlerInv, HandlerTypes
<1>10. HandlerAgrees(c)'
  BY <1>1, <1>2, <1>6, <1>7, <1>8, <1>9 DEF HandlerAgrees, Unsubmitted
<1> QED
  BY <1>2, <1>5, <1>8, <1>10, OneHandlerMoves DEF Unsubmitted

LEMMA HandlerActionsKeep ==
  ASSUME EngineInv, HandlerInv, NEW c \in Call,
         \/ Invalid(c) \/ Unparsable(c) \/ AnswerRefused(c) \/ AnswerStopped(c)
         \/ TimesOut(c) \/ StartStream(c) \/ Disconnected(c) \/ HangsUp(c)
  PROVE  HandlerInv'
<1> DEFINE HandlerRecord == [at : HandlerPlaces, status : Statuses, sent : Nat, left : BOOLEAN]
           h == handler[c]
<1>1. h \in HandlerRecord /\ HandlerAgrees(c) /\ handler \in [Call -> HandlerRecord]
  BY DEF HandlerInv, HandlerTypes
<1>2. UNCHANGED <<call, future, stream>>
  BY DEF Invalid, Unparsable, AnswerRefused, AnswerStopped, TimesOut, StartStream,
         Disconnected, HangsUp, vars, client_vars
<1>3. ASSUME NEW new \in HandlerRecord, handler' = [handler EXCEPT ![c] = new],
             handler'[c] = new => HandlerAgrees(c)'
      PROVE  HandlerInv'
  <2>1. handler'[c] = new
    BY <1>1, <1>3
  <2> QED
    BY <1>2, <1>3, <2>1, OneHandlerMoves DEF Unsubmitted
<1>4. ASSUME NEW answer \in {400, 503}, Json(c, answer),
             h.at \in {"new", "waiting"},
             answer = 400 => Unsubmitted(c) \/ future[c] = "refused",
             answer = 503 => ~Unsubmitted(c)
      PROVE  HandlerInv'
  <2>1. PICK status \in Statuses :
          /\ status \in {answer, 0} /\ (status = 0 => h.left)
          /\ handler' = [handler EXCEPT ![c].at = "closed", ![c].status = status]
    <3>1. answer \in Statuses /\ 0 \in Statuses /\ h.left \in BOOLEAN /\ answer # 0
      BY <1>1, <1>4 DEF Statuses
    <3>2. PICK wrote \in {TRUE, ~h.left} :
            handler' = [handler EXCEPT ![c].at = "closed",
                                       ![c].status = IF wrote THEN answer ELSE 0]
      BY <1>4 DEF Json
    <3>3. CASE wrote
      <4>1. handler' = [handler EXCEPT ![c].at = "closed", ![c].status = answer]
        BY <3>2, <3>3, Zenon
      <4> QED
        BY <3>1, <4>1, Zenon
    <3>4. CASE ~wrote
      <4>1. handler' = [handler EXCEPT ![c].at = "closed", ![c].status = 0]
        BY <3>2, <3>4, Zenon
      <4>2. h.left
        BY <3>1, <3>2, <3>4, Zenon
      <4> QED
        BY <3>1, <4>1, <4>2, Zenon
    <3> QED
      BY <3>3, <3>4, Zenon
  <2> DEFINE new == [h EXCEPT !.at = "closed", !.status = status]
  <2>3. handler' = [handler EXCEPT ![c] = new]
    <3>1. ASSUME NEW x
          PROVE  [handler EXCEPT ![c].at = "closed", ![c].status = x]
                   = [handler EXCEPT ![c] = [h EXCEPT !.at = "closed", !.status = x]]
      <4> DEFINE h1 == [h EXCEPT !.at = "closed"]
                 h2 == [h1 EXCEPT !.status = x]
                 g == [handler EXCEPT ![c] = h1]
      <4>1. [handler EXCEPT ![c].at = "closed"] = g
        BY <1>1
      <4>2. DOMAIN g = Call /\ g[c] = h1
        BY <1>1
      <4>3. [g EXCEPT ![c].status = x] = [g EXCEPT ![c] = h2]
        BY <4>2, Zenon
      <4>4. [g EXCEPT ![c] = h2] = [handler EXCEPT ![c] = h2]
        <5> HIDE DEF h1, h2
        <5> QED
          BY <1>1
      <4> HIDE DEF g
      <4> QED
        BY <4>1, <4>3, <4>4, Zenon
    <3> QED
      BY <2>1, <3>1, Zenon
  <2>4. /\ new \in HandlerRecord /\ new.at = "closed" /\ new.status = status
        /\ new.sent = h.sent /\ new.left = h.left
    BY <1>1, <2>1 DEF HandlerPlaces
  <2> HIDE DEF new
  <2>5. handler'[c] = new => HandlerAgrees(c)'
    BY <1>1, <1>2, <1>4, <2>1, <2>4 DEF HandlerAgrees, Unsubmitted
  <2> QED
    BY <1>3, <2>3, <2>4, <2>5
<1>5. CASE Invalid(c)
  BY <1>1, <1>4, <1>5 DEF Invalid, At, HandlerAgrees
<1>6. CASE AnswerRefused(c)
  BY <1>1, <1>4, <1>6 DEF AnswerRefused, Waiting, At
<1>7. CASE AnswerStopped(c) \/ TimesOut(c)
  BY <1>1, <1>4, <1>7 DEF AnswerStopped, TimesOut, Waiting, At, HandlerAgrees
<1>8. ASSUME Goes(c, "closed"), h.left \/ h.at = "new", h.at \in HandlerPlaces
      PROVE  HandlerInv'
  <2> DEFINE new == [h EXCEPT !.at = "closed"]
  <2>1. handler' = [handler EXCEPT ![c] = new]
    BY <1>1, <1>8 DEF Goes
  <2>2. /\ new \in HandlerRecord /\ new.at = "closed" /\ new.status = h.status
        /\ new.sent = h.sent /\ new.left = h.left
    BY <1>1 DEF HandlerPlaces
  <2> HIDE DEF new
  <2>3. handler'[c] = new => HandlerAgrees(c)'
    BY <1>1, <1>2, <1>8, <2>2 DEF HandlerAgrees, Unsubmitted
  <2> QED
    BY <1>3, <2>1, <2>2, <2>3
<1>9. CASE Unparsable(c) \/ Disconnected(c)
  BY <1>1, <1>8, <1>9 DEF Unparsable, Disconnected, At
<1>10. CASE StartStream(c)
  <2>1. CASE handler' = [handler EXCEPT ![c].at = "streaming", ![c].status = 200]
    <3> DEFINE new == [h EXCEPT !.at = "streaming", !.status = 200]
    <3>1. handler' = [handler EXCEPT ![c] = new]
      BY <1>1, <2>1
    <3>2. /\ new \in HandlerRecord /\ new.at = "streaming" /\ new.status = 200
          /\ new.sent = h.sent /\ new.left = h.left
      BY <1>1 DEF HandlerPlaces, Statuses
    <3> HIDE DEF new
    <3>3. future[c] = "admitted" /\ ~Unsubmitted(c)
      BY <1>10 DEF StartStream, AdmissionKnown, Waiting, Unsubmitted
    <3>4. handler'[c] = new => HandlerAgrees(c)'
      BY <1>1, <1>2, <3>2, <3>3 DEF HandlerAgrees, Unsubmitted
    <3> QED
      BY <1>3, <3>1, <3>2, <3>4
  <2>2. CASE h.left /\ Goes(c, "closed")
    BY <1>1, <1>8, <2>2
  <2> QED
    BY <1>10, <2>1, <2>2 DEF StartStream
<1>11. CASE HangsUp(c)
  <2> DEFINE new == [h EXCEPT !.left = TRUE]
  <2>1. handler' = [handler EXCEPT ![c] = new] /\ h.at \in {"waiting", "streaming"}
    BY <1>1, <1>11 DEF HangsUp
  <2>2. /\ new \in HandlerRecord /\ new.at = h.at /\ new.status = h.status
        /\ new.sent = h.sent /\ new.left
    BY <1>1
  <2> HIDE DEF new
  <2>3. handler'[c] = new => HandlerAgrees(c)'
    BY <1>1, <1>2, <2>1, <2>2 DEF HandlerAgrees, Unsubmitted
  <2> QED
    BY <1>3, <2>1, <2>2, <2>3
<1> QED
  BY <1>5, <1>6, <1>7, <1>9, <1>10, <1>11

LEMMA ServerInvHolds == ServerSpec => [](EngineInv /\ HandlerInv)
<1>1. ServerInit => EngineInv /\ HandlerInv
  <2> SUFFICES ASSUME ServerInit PROVE EngineInv /\ HandlerInv
    OBVIOUS
  <2>1. EngineInv
    BY InitKeeps DEF ServerInit
  <2> DEFINE fresh == [at |-> "new", status |-> 0, sent |-> 0, left |-> FALSE]
  <2>2. /\ fresh \in [at : HandlerPlaces, status : Statuses, sent : Nat, left : BOOLEAN]
        /\ fresh.at = "new" /\ fresh.status = 0 /\ fresh.sent = 0
    BY DEF HandlerPlaces, Statuses
  <2>3. handler = [c \in Call |-> fresh]
    BY DEF ServerInit
  <2> HIDE DEF fresh
  <2>4. HandlerTypes
    BY <2>2, <2>3 DEF HandlerTypes
  <2>5. \A c \in Call : handler[c] = fresh /\ Unsubmitted(c)
    BY <2>3 DEF ServerInit, Init, Unsubmitted
  <2>6. \A c \in Call : HandlerAgrees(c)
    BY <2>2, <2>5 DEF HandlerAgrees
  <2> QED
    BY <2>1, <2>4, <2>6 DEF HandlerInv
<1>2. EngineInv /\ HandlerInv /\ [ServerNext]_server_vars => EngineInv' /\ HandlerInv'
  <2> SUFFICES ASSUME EngineInv, HandlerInv, [ServerNext]_server_vars
               PROVE  EngineInv' /\ HandlerInv'
    OBVIOUS
  <2>1. CASE EngineSide \/ UNCHANGED server_vars
    <3>1. [Next]_vars
      BY <2>1 DEF EngineSide, Next, ClientStep, server_vars
    <3> QED
      BY <2>1, <3>1, NextKeeps, EngineLeavesHandlers
  <2>2. ASSUME NEW c \in Call, Post(c) PROVE EngineInv' /\ HandlerInv'
    <3>1. EngineInv'
      BY <2>2, SubmitEntersKeeps DEF Post
    <3> QED
      BY <2>2, <3>1, PostKeeps
  <2>3. ASSUME NEW c \in Call,
               \/ Invalid(c) \/ Unparsable(c) \/ AnswerRefused(c) \/ AnswerStopped(c)
               \/ TimesOut(c) \/ StartStream(c) \/ Disconnected(c) \/ HangsUp(c)
        PROVE  EngineInv' /\ HandlerInv'
    <3>1. UNCHANGED vars
      BY <2>3 DEF Invalid, Unparsable, AnswerRefused, AnswerStopped, TimesOut, StartStream,
                  Disconnected, HangsUp
    <3> QED
      BY <2>3, <3>1, NextKeeps, HandlerActionsKeep
  <2>4. ASSUME NEW c \in Call, WriteEvent(c) PROVE EngineInv' /\ HandlerInv'
    <3>1. UNCHANGED vars
      BY <2>4 DEF WriteEvent
    <3> QED
      BY <2>4, <3>1, NextKeeps, WriteEventKeeps
  <2> QED
    BY <2>1, <2>2, <2>3, <2>4 DEF ServerNext, HandlerStep
<1> QED
  BY <1>1, <1>2, PTL DEF ServerSpec

(***************************************************************************)
(* What a client was told agrees with what became of its request, whatever *)
(* the interleaving of handlers, engine, stop, crash and hang-ups.         *)
(***************************************************************************)
THEOREM AnswersAreTrue == ServerSpec => []AnswerMatchesOutcome
<1>1. HandlerInv => AnswerMatchesOutcome
  <2> SUFFICES ASSUME HandlerInv, NEW c \in Call
               PROVE  LET h == handler[c]
                          submitted == call[c].at # "start"
                      IN  /\ h.status = 200 => future[c] = "admitted"
                          /\ h.status = 200 /\ h.at = "closed" /\ ~h.left =>
                               Ended(c) /\ h.sent = Len(stream[c])
                          /\ h.status = 400 => ~submitted \/ future[c] = "refused"
                          /\ h.status = 503 => submitted
                          /\ h.status # 200 => h.sent = 0
                          /\ h.at = "closed" /\ h.status = 0 => h.left \/ ~submitted
    BY DEF AnswerMatchesOutcome
  <2>1. HandlerAgrees(c)
    BY DEF HandlerInv
  <2> QED
    BY <2>1 DEF HandlerAgrees, Unsubmitted, Ended, Over
<1> QED
  BY <1>1, ServerInvHolds, PTL

(***************************************************************************)
(* The server drives the engine and does nothing else to it: a timeout, a  *)
(* hang-up or an abandoned stream is no step of the engine, so whatever    *)
(* holds of the engine holds of it behind the handlers.                    *)
(***************************************************************************)
THEOREM ServerRunsTheEngine == ServerSpec => Spec
<1>1. ServerInit => Init
  BY DEF ServerInit
<1>2. [ServerNext]_server_vars => [Next]_vars
  BY DEF ServerNext, EngineSide, Next, ClientStep, Post, Invalid, Unparsable, TimesOut,
         HandlerStep, AnswerRefused, AnswerStopped, StartStream, WriteEvent, Disconnected,
         HangsUp, server_vars
<1> QED
  BY <1>1, <1>2, PTL DEF ServerSpec, Spec

-----------------------------------------------------------------------------
(***************************************************************************)
(* The benchmark cell.  A collector has its result exactly when it has     *)
(* taken a FINISH, the last event there will ever be; so a result, once    *)
(* there, speaks for a whole stream, and one that is not aborted for a     *)
(* request that was admitted and ran to its own end.                       *)
(***************************************************************************)
DriverPlaces == {"submitting", "joining", "returned", "hung", "done", "raised"}

ResultType == [req : Call, output_tokens : Int, aborted : BOOLEAN]

CellTypes ==
  /\ driver \in DriverPlaces
  /\ joined \in 0 .. Arrivals
  /\ collected \in [Call -> Nat]
  /\ results \in Seq(ResultType)

CallsAreArrivals == \A c \in Call : call[c].at # "start" => call[c].id = Schedule[c]

CollectedIsThere == \A c \in Call : collected[c] <= Len(stream[c])

(* A result is made of the FINISH at the end of a stream, once. *)
ResultsAreEnds ==
  /\ \A i \in 1 .. Len(results) :
       LET s == stream[results[i].req]
       IN  /\ Over(s) /\ collected[results[i].req] = Len(s)
           /\ call[results[i].req].at = "returned"
           /\ results[i].output_tokens = Len(s) - 1
           /\ results[i].aborted = s[Len(s)].aborted
  /\ \A i, j \in 1 .. Len(results) : results[i].req = results[j].req => i = j

(* A FINISH that is not aborted comes from _on_finish() alone. *)
EndedIsDone ==
  \A c \in Call : Over(stream[c]) /\ ~stream[c][Len(stream[c])].aborted =>
    /\ future[c] = "admitted" /\ phase[Schedule[c]] = "done"
    /\ delivered[Schedule[c]] = Len(stream[c]) - 1

JoinedHaveResults == \A c \in 1 .. joined : HasResult(c)

RowsAreLast ==
  /\ driver \in {"returned", "done"} => joined = Arrivals
  /\ rows # << >> => driver = "done"
  /\ driver = "done" => epc = "dead"

CellInv ==
  /\ EngineInv
  /\ CellTypes /\ CallsAreArrivals /\ CollectedIsThere
  /\ ResultsAreEnds /\ EndedIsDone /\ JoinedHaveResults /\ RowsAreLast

-----------------------------------------------------------------------------
LEMMA CallsAreNumbers ==
  /\ Arrivals \in Nat /\ Call = 1 .. Arrivals
  /\ \A c \in Call : Schedule[c] \in ReqId
  /\ \A c, d \in Call : Schedule[c] = Schedule[d] => c = d
<1>1. Schedule \in Seq(ReqId) /\ IsInjective(Schedule) /\ Call = DOMAIN Schedule
  BY ScheduleAssumption
<1>2. Arrivals \in Nat /\ Call = 1 .. Arrivals /\ \A c \in Call : Schedule[c] \in ReqId
  BY <1>1 DEF Arrivals
<1> QED
  BY <1>1, <1>2, InjectiveSeq DEF Arrivals

(* An arrival each has one result: there are as many as arrivals. *)
LEMMA OneResultEach ==
  ASSUME NEW n \in Nat, NEW s \in Seq(1 .. n), \A i, j \in 1 .. Len(s) : s[i] = s[j] => i = j,
         \A c \in 1 .. n : \E i \in 1 .. Len(s) : s[i] = c
  PROVE  Len(s) = n
<1>1. Len(s) \in Nat /\ s \in [1 .. Len(s) -> 1 .. n]
  BY LenProperties
<1>2. s \in Bijection(1 .. Len(s), 1 .. n)
  BY <1>1 DEF Bijection, Injection, Surjection, IsInjective
<1>3. ExistsBijection(1 .. Len(s), 1 .. n)
  BY <1>2 DEF ExistsBijection
<1>4. Cardinality(1 .. n) = Len(s)
  BY <1>1, <1>3, FS_CountingElements
<1>5. Cardinality(1 .. n) = n
  BY FS_Interval
<1> QED
  BY <1>4, <1>5

(* What a step of the engine, or of a server thread, does to a stream. *)
LEMMA AbortedIs ==
  ASSUME EngineInv, NEW c \in Call
  PROVE  \/ Aborted[c] = stream[c]
         \/ \E n \in Int : Aborted[c] = Append(stream[c], FinishEvent(n, TRUE))
<1>1. CASE \E r \in ReqId : streams[r] = c
  <2> DEFINE r == CHOOSE q \in ReqId : streams[q] = c
  <2>1. r \in ReqId
    BY <1>1
  <2>2. Aborted[c] = Append(stream[c], FinishEvent(delivered[r], TRUE))
    BY <1>1 DEF Aborted, AbortEvent
  <2> HIDE DEF r
  <2>3. delivered[r] \in Int
    BY <2>1 DEF EngineInv, EngineTypes
  <2> QED
    BY <2>2, <2>3
<1>2. CASE ~\E r \in ReqId : streams[r] = c
  BY <1>2 DEF Aborted
<1> QED
  BY <1>1, <1>2

LEMMA StreamSteps ==
  ASSUME EngineInv, [Next]_vars, NEW d \in Call
  PROVE  \/ stream'[d] = stream[d]
         \/ \E n \in Int : stream'[d] = Append(stream[d], Token(n))
         \/ \E n \in Int : stream'[d] = Append(stream[d], FinishEvent(n, TRUE))
         \/ \E r \in ReqId : StepFinish(r) /\ streams[r] = d
<1> DEFINE Grown == \/ stream'[d] = stream[d]
                    \/ \E n \in Int : stream'[d] = Append(stream[d], Token(n))
                    \/ \E n \in Int : stream'[d] = Append(stream[d], FinishEvent(n, TRUE))
                    \/ \E r \in ReqId : StepFinish(r) /\ streams[r] = d
<1>1. stream \in [Call -> Seq(Event)] /\ delivered \in [ReqId -> Int]
  BY DEF EngineInv, EngineTypes
<1>2. ASSUME NEW c \in Call, stream' = RefusalSentinel(c)
      PROVE  Grown
  <2>1. d # c => stream'[d] = stream[d]
    BY <1>1, <1>2 DEF RefusalSentinel, Put
  <2>2. d = c => stream'[d] = Append(stream[d], FinishEvent(0, TRUE))
    BY <1>1, <1>2 DEF RefusalSentinel, Put
  <2>3. 0 \in Int
    OBVIOUS
  <2> QED
    BY <2>1, <2>2, <2>3
<1>3. CASE UNCHANGED stream
  BY <1>3
<1>4. ASSUME NEW c \in Call, NEW r \in ReqId, NEW m \in TokenLimits, SubmitEnters(c, r, m)
      PROVE  Grown
  <2>1. UNCHANGED stream \/ stream' = RefusalSentinel(c)
    BY <1>4 DEF SubmitEnters
  <2> QED
    BY <2>1, <1>2, <1>3
<1>5. CASE Take
  <2>1. Head(submissions) \in Call
    BY <1>5, HeadTaken DEF Take
  <2>2. UNCHANGED stream \/ stream' = RefusalSentinel(Head(submissions))
    BY <1>5 DEF Take, Admit
  <2> QED
    BY <2>1, <2>2, <1>2, <1>3
<1>6. ASSUME NEW r \in ReqId, StepToken(r)
      PROVE  Grown
  <2>1. stream' = [stream EXCEPT ![streams[r]] = Append(@, Token(delivered'[r]))]
    BY <1>6 DEF StepToken, Put
  <2>2. delivered'[r] = delivered[r] + 1 /\ delivered[r] \in Int
    BY <1>1, <1>6 DEF StepToken, Deliver
  <2>3. delivered'[r] \in Int
    BY <2>2
  <2>4. streams[r] # d => stream'[d] = stream[d]
    BY <1>1, <2>1
  <2>5. streams[r] = d => stream'[d] = Append(stream[d], Token(delivered'[r]))
    BY <1>1, <2>1
  <2> QED
    BY <2>3, <2>4, <2>5
<1>7. ASSUME NEW r \in ReqId, StepFinish(r)
      PROVE  Grown
  <2>1. streams[r] # d => stream'[d] = stream[d]
    BY <1>1, <1>7 DEF StepFinish
  <2> QED
    BY <2>1, <1>7
<1>8. CASE AbortStreams
  <2>1. stream' = Aborted
    BY <1>8 DEF AbortStreams
  <2> QED
    BY <2>1, AbortedIs
<1> QED
  BY <1>3, <1>4, <1>5, <1>6, <1>7, <1>8
  DEF Next, ClientStep, EngineStep, SubmitPuts, Stop, Start, LoopTop, TakeRaises,
      IdleTimeout, StepBegins, StepEnds, Crash, CrashClosesDoor, FailUndrained, vars

LEMMA LastOfAppend ==
  ASSUME NEW s \in Seq(Event), NEW e \in Event
  PROVE  LET t == Append(s, e)
         IN  t \in Seq(Event) /\ Len(t) = Len(s) + 1 /\ t[Len(t)] = e /\ Last(t) = e /\ t # << >>
  BY DEF Last

(* The stream of a request that ends. *)
LEMMA FinishedStream ==
  ASSUME EngineInv, NEW r \in ReqId, StepFinish(r)
  PROVE  LET c == streams[r]
         IN  /\ Len(stream'[c]) = Len(stream[c]) + 2
             /\ future'[c] = "admitted" /\ phase'[r] = "done"
             /\ delivered'[r] = Len(stream'[c]) - 1
<1> DEFINE c == streams[r]
<1>1. /\ c \in Call /\ future[c] = "admitted" /\ stream[c] \in Seq(Event)
      /\ Len(stream[c]) = delivered[r]
  BY ServedStream DEF StepFinish
<1>2. /\ stream \in [Call -> Seq(Event)] /\ delivered \in [ReqId -> Int]
      /\ phase \in [ReqId -> Phases]
  BY DEF EngineInv, EngineTypes
<1>3. /\ future' = future /\ delivered' = [delivered EXCEPT ![r] = @ + 1]
      /\ phase' = [phase EXCEPT ![r] = "done"]
      /\ stream' = [stream EXCEPT ![c] =
                      @ \o <<Token(delivered'[r]), FinishEvent(delivered'[r], FALSE)>>]
  BY DEF StepFinish, Finish
<1>4. stream'[c] = stream[c] \o <<Token(delivered'[r]), FinishEvent(delivered'[r], FALSE)>>
  BY <1>1, <1>2, <1>3
<1>5. delivered'[r] = delivered[r] + 1 /\ phase'[r] = "done"
  BY <1>2, <1>3
<1>6. ASSUME NEW s \in Seq(Event), NEW a \in Event, NEW b \in Event
      PROVE  Len(s \o <<a, b>>) = Len(s) + 2
  OBVIOUS
<1>7. Token(delivered'[r]) \in Event /\ FinishEvent(delivered'[r], FALSE) \in Event
  <2>1. delivered'[r] \in Int
    BY <1>2, <1>5
  <2> QED
    BY <2>1, TokenIsEvent, FinishIsEvent
<1>8. Len(stream'[c]) = Len(stream[c]) + 2
  BY <1>1, <1>4, <1>6, <1>7
<1>9. Len(stream[c]) \in Nat
  BY <1>1
<1> HIDE DEF c
<1> QED
  BY <1>1, <1>3, <1>5, <1>8, <1>9 DEF c

LEMMA StreamsGrow ==
  ASSUME EngineInv, [Next]_vars, NEW d \in Call
  PROVE  Len(stream[d]) <= Len(stream'[d])
<1>1. stream[d] \in Seq(Event) /\ Len(stream[d]) \in Nat
  BY DEF EngineInv, EngineTypes
<1>2. CASE stream'[d] = stream[d]
  BY <1>1, <1>2
<1>3. ASSUME NEW e \in Event, stream'[d] = Append(stream[d], e)
      PROVE  Len(stream'[d]) = Len(stream[d]) + 1
  BY <1>1, <1>3, LastOfAppend
<1>4. ASSUME NEW r \in ReqId, StepFinish(r), streams[r] = d
      PROVE  Len(stream'[d]) = Len(stream[d]) + 2
  BY <1>4, FinishedStream
<1>5. \A n \in Int : Token(n) \in Event /\ FinishEvent(n, TRUE) \in Event
  BY TokenIsEvent, FinishIsEvent
<1>6. ASSUME NEW n \in Int,
             stream'[d] = Append(stream[d], Token(n))
               \/ stream'[d] = Append(stream[d], FinishEvent(n, TRUE))
      PROVE  Len(stream'[d]) = Len(stream[d]) + 1
  BY <1>3, <1>5, <1>6
<1>7. \/ Len(stream'[d]) = Len(stream[d])
      \/ Len(stream'[d]) = Len(stream[d]) + 1
      \/ Len(stream'[d]) = Len(stream[d]) + 2
  <2>1. CASE \E r \in ReqId : StepFinish(r) /\ streams[r] = d
    BY <2>1, <1>4
  <2> QED
    BY <2>1, <1>2, <1>6, StreamSteps
<1> QED
  BY <1>1, <1>7

(* Only the admission of a new request under an id touches a finished one. *)
LEMMA DoneStays ==
  ASSUME EngineInv, [Next]_vars, NEW r \in ReqId, phase[r] = "done",
         ~(Take /\ call[Head(submissions)].id = r)
  PROVE  phase'[r] = "done" /\ delivered'[r] = delivered[r]
<1>1. phase \in [ReqId -> Phases] /\ delivered \in [ReqId -> Int]
  BY DEF EngineInv, EngineTypes
<1>2. CASE UNCHANGED <<phase, delivered>>
  BY <1>2
<1>3. CASE Take
  <2>1. call[Head(submissions)].id # r
    BY <1>3
  <2>2. UNCHANGED <<phase, limit, delivered>>
        \/ Accept(call[Head(submissions)].id, call[Head(submissions)].limit)
    BY <1>3 DEF Take, Admit, life_vars
  <2> QED
    BY <1>1, <2>1, <2>2 DEF Accept
<1>4. ASSUME NEW q \in ReqId, StepToken(q) \/ StepFinish(q)
      PROVE  phase'[r] = "done" /\ delivered'[r] = delivered[r]
  <2>1. phase[q] = "live"
    BY <1>4 DEF StepToken, StepFinish, Deliver, Finish
  <2>2. q # r
    BY <2>1
  <2> QED
    BY <1>1, <1>4, <2>2 DEF StepToken, StepFinish, Deliver, Finish
<1> QED
  BY <1>2, <1>3, <1>4
  DEF Next, ClientStep, EngineStep, SubmitEnters, SubmitPuts, Stop, Start, LoopTop,
      TakeRaises, IdleTimeout, StepBegins, StepEnds, Crash, CrashClosesDoor, FailUndrained,
      AbortStreams, vars, life_vars

LEMMA ReturnedStays ==
  ASSUME EngineInv, [Next]_vars, NEW c \in Call, call[c].at = "returned"
  PROVE  call'[c] = call[c]
<1>1. call \in [Call -> [at : CallPlaces, id : ReqId \cup {None}, limit : Int]]
  BY DEF EngineInv, EngineTypes
<1>2. ASSUME NEW d \in Call, NEW r \in ReqId, NEW m \in TokenLimits, SubmitEnters(d, r, m)
      PROVE  call'[c] = call[c]
  BY <1>1, <1>2 DEF SubmitEnters
<1>3. ASSUME NEW d \in Call, SubmitPuts(d)
      PROVE  call'[c] = call[c]
  BY <1>1, <1>3 DEF SubmitPuts
<1> QED
  BY <1>2, <1>3
  DEF Next, ClientStep, EngineStep, Stop, Start, LoopTop, Take, TakeRaises, IdleTimeout,
      StepBegins, StepToken, StepFinish, StepEnds, Crash, CrashClosesDoor, FailUndrained,
      AbortStreams, vars, client_vars

LEMMA DeadStays ==
  ASSUME [Next]_vars, epc = "dead"
  PROVE  epc' = "dead"
  BY DEF Next, ClientStep, EngineStep, SubmitEnters, SubmitPuts, Stop, Start, LoopTop, Take,
         TakeRaises, IdleTimeout, StepBegins, StepToken, StepFinish, Served, StepEnds,
         Crash, CrashClosesDoor, FailUndrained, AbortStreams, vars, engine_vars

-----------------------------------------------------------------------------
(* A step of the engine or of submit(), seen from the cell. *)
LEMMA EndedStaysDone ==
  ASSUME EngineInv, [Next]_vars, CallsAreArrivals, EndedIsDone
  PROVE  EndedIsDone'
<1> SUFFICES ASSUME NEW c \in Call, Over(stream'[c]), ~stream'[c][Len(stream'[c])].aborted
             PROVE  /\ future'[c] = "admitted" /\ phase'[Schedule[c]] = "done"
                    /\ delivered'[Schedule[c]] = Len(stream'[c]) - 1
  BY DEF EndedIsDone, Over
<1>1. stream[c] \in Seq(Event)
  BY DEF EngineInv, EngineTypes
<1>2. CASE stream'[c] = stream[c]
  <2>1. /\ future[c] = "admitted" /\ phase[Schedule[c]] = "done"
        /\ delivered[Schedule[c]] = Len(stream[c]) - 1
    BY <1>2 DEF EndedIsDone
  <2>2. ~(Take /\ call[Head(submissions)].id = Schedule[c])
    <3> SUFFICES ASSUME Take, call[Head(submissions)].id = Schedule[c] PROVE FALSE
      OBVIOUS
    <3> DEFINE d == Head(submissions)
    <3>1. d \in Call /\ call[d].at = "returned" /\ future[d] = "pending"
      BY HeadTaken DEF Take
    <3> HIDE DEF d
    <3>2. Schedule[d] = Schedule[c]
      BY <3>1 DEF CallsAreArrivals, d
    <3>3. d = c
      BY <3>1, <3>2, CallsAreNumbers
    <3> QED
      BY <2>1, <3>1, <3>3
  <2>3. Schedule[c] \in ReqId
    BY CallsAreNumbers
  <2>4. phase'[Schedule[c]] = "done" /\ delivered'[Schedule[c]] = delivered[Schedule[c]]
    BY <2>1, <2>2, <2>3, DoneStays
  <2>5. future'[c] = future[c]
    BY <2>1, AnswersStand DEF AnswerStands
  <2> QED
    BY <1>2, <2>1, <2>4, <2>5
<1>3. ASSUME NEW n \in Int, stream'[c] = Append(stream[c], Token(n))
      PROVE  FALSE
  <2>1. Last(stream'[c]) = Token(n) /\ Token(n).kind = "token"
    BY <1>1, <1>3, TokenIsEvent, LastOfAppend
  <2>2. Last(stream'[c]).kind = "finish"
    BY DEF Over
  <2> QED
    BY <2>1, <2>2
<1>4. ASSUME NEW n \in Int, stream'[c] = Append(stream[c], FinishEvent(n, TRUE))
      PROVE  FALSE
  <2>1. FinishEvent(n, TRUE) \in Event
    BY FinishIsEvent
  <2>2. stream'[c][Len(stream'[c])] = FinishEvent(n, TRUE)
    BY <1>1, <1>4, <2>1, LastOfAppend
  <2>3. FinishEvent(n, TRUE).aborted
    BY DEF FinishEvent
  <2> QED
    BY <2>2, <2>3
<1>5. ASSUME NEW r \in ReqId, StepFinish(r), streams[r] = c
      PROVE  /\ future'[c] = "admitted" /\ phase'[Schedule[c]] = "done"
             /\ delivered'[Schedule[c]] = Len(stream'[c]) - 1
  <2>1. call[c].at = "returned" /\ call[c].id = r
    BY <1>5, ServedStream DEF StepFinish
  <2>2. Schedule[c] = r
    BY <2>1 DEF CallsAreArrivals
  <2> QED
    BY <1>5, <2>2, FinishedStream
<1> QED
  BY <1>2, <1>3, <1>4, <1>5, StreamSteps

LEMMA CellSeesEngine ==
  ASSUME CellInv, EngineInv', [Next]_vars, CallsAreArrivals', UNCHANGED bench_vars
  PROVE  CellInv'
<1>1. UNCHANGED <<driver, joined, collected, results, rows>>
  BY DEF bench_vars
<1>2. EngineInv
  BY DEF CellInv
<1>3. CellTypes'
  BY <1>1 DEF CellInv, CellTypes
<1>4. CollectedIsThere'
  <2> SUFFICES ASSUME NEW c \in Call PROVE collected[c] <= Len(stream'[c])
    BY <1>1 DEF CollectedIsThere
  <2>1. stream[c] \in Seq(Event) /\ stream'[c] \in Seq(Event)
    BY <1>2 DEF EngineInv, EngineTypes
  <2>2. collected[c] \in Nat /\ Len(stream[c]) \in Nat /\ Len(stream'[c]) \in Nat
    BY <2>1 DEF CellInv, CellTypes
  <2>3. collected[c] <= Len(stream[c]) /\ Len(stream[c]) <= Len(stream'[c])
    BY <1>2, StreamsGrow DEF CellInv, CollectedIsThere
  <2> QED
    BY <2>2, <2>3
<1>5. ResultsAreEnds'
  <2>1. ASSUME NEW i \in 1 .. Len(results)
        PROVE  /\ stream'[results[i].req] = stream[results[i].req]
               /\ call'[results[i].req] = call[results[i].req]
    <3>1. results[i] \in ResultType
      BY DEF CellInv, CellTypes
    <3>2. results[i].req \in Call
      BY <3>1 DEF ResultType
    <3>3. Over(stream[results[i].req]) /\ call[results[i].req].at = "returned"
      BY DEF CellInv, ResultsAreEnds
    <3> QED
      BY <1>2, <3>2, <3>3, AnswersStand, ReturnedStays DEF AnswerStands
  <2>2. ASSUME NEW i \in 1 .. Len(results)
        PROVE  LET s == stream'[results[i].req]
               IN  /\ Over(s) /\ collected[results[i].req] = Len(s)
                   /\ call'[results[i].req].at = "returned"
                   /\ results[i].output_tokens = Len(s) - 1
                   /\ results[i].aborted = s[Len(s)].aborted
    BY <2>1 DEF CellInv, ResultsAreEnds
  <2> QED
    BY <1>1, <2>2 DEF CellInv, ResultsAreEnds, Over
<1>6. EndedIsDone'
  BY EndedStaysDone DEF CellInv
<1>7. JoinedHaveResults'
  BY <1>1 DEF CellInv, JoinedHaveResults, HasResult
<1>8. RowsAreLast'
  BY <1>1, DeadStays DEF CellInv, RowsAreLast
<1> QED
  BY <1>3, <1>4, <1>5, <1>6, <1>7, <1>8 DEF CellInv

(* The collector takes an event; a FINISH becomes the result. *)
LEMMA CollectKeeps ==
  ASSUME CellInv, NEW c \in Call, Collect(c)
  PROVE  CellInv'
<1> DEFINE s == stream[c]
           k == collected[c] + 1
           e == s[k]
<1>1. /\ UNCHANGED <<vars, driver, joined, rows>>
      /\ call[c].at = "returned" /\ collected[c] < Len(s)
      /\ collected' = [collected EXCEPT ![c] = @ + 1]
      /\ results' = IF e.kind = "finish" THEN Append(results, Result(c, e)) ELSE results
  BY DEF Collect
<1>2. UNCHANGED <<phase, limit, delivered, call, doorway, stop, submissions, future, stream,
                  streams, epc, todo>>
  BY <1>1 DEF vars, life_vars, client_vars, engine_vars
<1>3. /\ s \in Seq(Event) /\ Shaped(s) /\ Len(s) \in Nat
      /\ collected \in [Call -> Nat] /\ results \in Seq(ResultType)
  BY DEF CellInv, EngineInv, EngineTypes, AllShaped, CellTypes
<1>4. /\ collected[c] \in Nat /\ k \in 1 .. Len(s) /\ e \in Event
      /\ collected' \in [Call -> Nat]
      /\ \A d \in Call : collected'[d] = IF d = c THEN k ELSE collected[d]
  BY <1>1, <1>3
<1>5. EngineInv' /\ CallsAreArrivals' /\ EndedIsDone'
  <2>1. EngineInv'
    BY <1>1, MovingActionsKeep DEF CellInv
  <2> QED
    BY <2>1, <1>2 DEF CellInv, CallsAreArrivals, EndedIsDone
<1>6. CollectedIsThere'
  BY <1>2, <1>4 DEF CellInv, CollectedIsThere
<1>7. \A i \in 1 .. Len(results) : results[i].req \in Call /\ results[i].req # c
  <2> SUFFICES ASSUME NEW i \in 1 .. Len(results)
               PROVE  results[i].req \in Call /\ results[i].req # c
    OBVIOUS
  <2>1. results[i] \in ResultType
    BY <1>3
  <2>2. collected[results[i].req] = Len(stream[results[i].req])
    BY DEF CellInv, ResultsAreEnds
  <2> QED
    BY <1>1, <1>3, <1>4, <2>1, <2>2 DEF ResultType
<1>8. \A i \in 1 .. Len(results) :
        LET t == stream'[results[i].req]
        IN  /\ Over(t) /\ collected'[results[i].req] = Len(t)
            /\ call'[results[i].req].at = "returned"
            /\ results[i].output_tokens = Len(t) - 1
            /\ results[i].aborted = t[Len(t)].aborted
  <2> SUFFICES ASSUME NEW i \in 1 .. Len(results)
               PROVE  LET t == stream'[results[i].req]
                      IN  /\ Over(t) /\ collected'[results[i].req] = Len(t)
                          /\ call'[results[i].req].at = "returned"
                          /\ results[i].output_tokens = Len(t) - 1
                          /\ results[i].aborted = t[Len(t)].aborted
    OBVIOUS
  <2>1. collected'[results[i].req] = collected[results[i].req]
    BY <1>4, <1>7
  <2> QED
    BY <1>2, <2>1 DEF CellInv, ResultsAreEnds
<1>9. RowsAreLast'
  BY <1>1, <1>2 DEF CellInv, RowsAreLast
<1>10. CASE e.kind # "finish"
  <2>1. results' = results
    BY <1>1, <1>10
  <2>2. CellTypes'
    BY <1>1, <1>4, <2>1 DEF CellInv, CellTypes
  <2>3. ResultsAreEnds'
    BY <1>8, <2>1 DEF CellInv, ResultsAreEnds, Over
  <2>4. JoinedHaveResults'
    BY <1>1, <2>1 DEF CellInv, JoinedHaveResults, HasResult
  <2> QED
    BY <1>5, <1>6, <1>9, <2>2, <2>3, <2>4 DEF CellInv
<1>11. CASE e.kind = "finish"
  <2> DEFINE new == Result(c, e)
  <2>1. k = Len(s) /\ e.n = Len(s) - 1 /\ e.aborted \in BOOLEAN /\ e.n \in Int
    BY <1>3, <1>4, <1>11 DEF Shaped, Event
  <2>2. Over(s) /\ e = s[Len(s)]
    BY <1>3, <1>11, <2>1, <1>4 DEF Over, Last
  <2>3. /\ new \in ResultType
        /\ new.req = c /\ new.output_tokens = e.n /\ new.aborted = e.aborted
    BY <2>1 DEF Result, ResultType
  <2>4. results' = Append(results, new)
    BY <1>1, <1>11
  <2> HIDE DEF new
  <2>5. /\ results' \in Seq(ResultType) /\ Len(results') = Len(results) + 1
        /\ Len(results) \in Nat
        /\ \A i \in 1 .. Len(results) : results'[i] = results[i]
        /\ results'[Len(results) + 1] = new
    BY <1>3, <2>3, <2>4, AppendProperties
  <2>6. CellTypes'
    BY <1>1, <1>4, <2>5 DEF CellInv, CellTypes
  <2>7. LET t == stream'[new.req]
        IN  /\ Over(t) /\ collected'[new.req] = Len(t)
            /\ call'[new.req].at = "returned"
            /\ new.output_tokens = Len(t) - 1
            /\ new.aborted = t[Len(t)].aborted
    BY <1>1, <1>2, <1>4, <2>1, <2>2, <2>3
  <2>8. ResultsAreEnds'
    <3>1. \A i \in 1 .. Len(results') :
            LET t == stream'[results'[i].req]
            IN  /\ Over(t) /\ collected'[results'[i].req] = Len(t)
                /\ call'[results'[i].req].at = "returned"
                /\ results'[i].output_tokens = Len(t) - 1
                /\ results'[i].aborted = t[Len(t)].aborted
      <4> SUFFICES ASSUME NEW i \in 1 .. Len(results')
                   PROVE  LET t == stream'[results'[i].req]
                          IN  /\ Over(t) /\ collected'[results'[i].req] = Len(t)
                              /\ call'[results'[i].req].at = "returned"
                              /\ results'[i].output_tokens = Len(t) - 1
                              /\ results'[i].aborted = t[Len(t)].aborted
        OBVIOUS
      <4>1. CASE i \in 1 .. Len(results)
        BY <1>8, <2>5, <4>1
      <4>2. CASE i = Len(results) + 1
        BY <2>5, <2>7, <4>2
      <4> QED
        BY <2>5, <4>1, <4>2
    <3>2. \A i, j \in 1 .. Len(results') : results'[i].req = results'[j].req => i = j
      <4>1. \A i, j \in 1 .. Len(results) : results[i].req = results[j].req => i = j
        BY DEF CellInv, ResultsAreEnds
      <4> QED
        BY <1>7, <2>3, <2>5, <4>1
    <3> QED
      BY <3>1, <3>2 DEF ResultsAreEnds, Over
  <2>9. JoinedHaveResults'
    <3>1. \A d \in Call : HasResult(d) => HasResult(d)'
      BY <2>5, <1>3 DEF HasResult
    <3>2. joined' = joined /\ joined \in 0 .. Arrivals /\ Arrivals \in Nat
      BY <1>1, CallsAreNumbers DEF CellInv, CellTypes
    <3> QED
      BY <3>1, <3>2, CallsAreNumbers DEF CellInv, JoinedHaveResults
  <2> QED
    BY <1>5, <1>6, <1>9, <2>6, <2>8, <2>9 DEF CellInv
<1> QED
  BY <1>10, <1>11

(* The driver's own steps leave the engine and the results alone. *)
LEMMA DriverKeeps ==
  ASSUME CellInv, AllSubmitted \/ Join \/ JoinTimesOut \/ StopTimesOut \/ WriteRow \/ Reraise
  PROVE  CellInv'
<1>1. UNCHANGED <<vars, collected, results>>
  BY DEF AllSubmitted, Join, JoinTimesOut, StopTimesOut, WriteRow, Reraise
<1>2. UNCHANGED <<phase, limit, delivered, call, doorway, stop, submissions, future, stream,
                  streams, epc, todo>>
  BY <1>1 DEF vars, life_vars, client_vars, engine_vars
<1>3. EngineInv' /\ CallsAreArrivals' /\ CollectedIsThere' /\ EndedIsDone'
  <2>1. EngineInv'
    BY <1>1, MovingActionsKeep DEF CellInv
  <2> QED
    BY <2>1, <1>1, <1>2 DEF CellInv, CallsAreArrivals, CollectedIsThere, EndedIsDone
<1>4. ResultsAreEnds'
  BY <1>1, <1>2 DEF CellInv, ResultsAreEnds, Over
<1>5. /\ driver \in DriverPlaces /\ joined \in 0 .. Arrivals /\ Arrivals \in Nat
      /\ JoinedHaveResults /\ RowsAreLast
  BY CallsAreNumbers DEF CellInv, CellTypes
<1>6. CASE Join /\ joined # Arrivals
  <2>1. joined' = joined + 1 /\ driver' = driver /\ driver = "joining" /\ HasResult(joined + 1)
    BY <1>6 DEF Join
  <2>2. rows' = rows
    BY <1>6 DEF Join
  <2>3. joined' \in 0 .. Arrivals
    BY <1>5, <1>6, <2>1
  <2>4. CellTypes'
    BY <1>1, <2>1, <2>3 DEF CellInv, CellTypes
  <2>5. JoinedHaveResults'
    <3>1. \A c \in 1 .. joined + 1 : HasResult(c)
      BY <1>5, <2>1 DEF JoinedHaveResults
    <3> QED
      BY <1>1, <2>1, <3>1 DEF JoinedHaveResults, HasResult
  <2>6. RowsAreLast'
    BY <1>5, <2>1, <2>2 DEF RowsAreLast
  <2> QED
    BY <1>3, <1>4, <2>4, <2>5, <2>6 DEF CellInv
<1>7. CASE ~(Join /\ joined # Arrivals)
  <2>1. joined' = joined /\ driver' \in DriverPlaces
    BY <1>7 DEF AllSubmitted, Join, JoinTimesOut, StopTimesOut, WriteRow, Reraise, DriverPlaces
  <2>2. CellTypes'
    BY <1>1, <1>5, <2>1 DEF CellInv, CellTypes
  <2>3. JoinedHaveResults'
    BY <1>1, <1>5, <2>1 DEF JoinedHaveResults, HasResult
  <2>4. RowsAreLast'
    <3>1. CASE WriteRow
      <4>1. driver = "returned" /\ driver' = "done" /\ epc = "dead"
        BY <3>1 DEF WriteRow, EngineJoined
      <4> QED
        BY <1>2, <1>5, <2>1, <4>1 DEF RowsAreLast
    <3>2. CASE Join
      <4>1. joined = Arrivals /\ driver = "joining" /\ driver' = "returned" /\ rows' = rows
        BY <1>7, <3>2 DEF Join
      <4> QED
        BY <1>2, <1>5, <2>1, <4>1 DEF RowsAreLast
    <3>3. CASE AllSubmitted \/ JoinTimesOut \/ StopTimesOut \/ Reraise
      <4>1. /\ driver \in {"submitting", "joining", "returned", "hung"} /\ rows' = rows
            /\ driver' \in {"joining", "hung", "raised"}
        BY <3>3 DEF AllSubmitted, JoinTimesOut, Hung, StopTimesOut, Reraise
      <4> QED
        BY <1>2, <1>5, <2>1, <4>1 DEF RowsAreLast
    <3> QED
      BY <3>1, <3>2, <3>3
  <2> QED
    BY <1>3, <1>4, <2>2, <2>3, <2>4 DEF CellInv
<1> QED
  BY <1>6, <1>7

LEMMA CellInitKeeps ==
  ASSUME CellInit
  PROVE  CellInv
<1>1. EngineInv
  BY InitKeeps DEF CellInit
<1>2. /\ driver = "submitting" /\ joined = 0 /\ collected = [c \in Call |-> 0]
      /\ results = << >> /\ rows = << >>
      /\ call = [c \in Call |-> [at |-> "start", id |-> None, limit |-> 0]]
      /\ stream = [c \in Call |-> << >>] /\ epc = "new"
  BY DEF CellInit, Init
<1>3. Arrivals \in Nat
  BY CallsAreNumbers
<1>4. CellTypes
  <2>1. << >> \in Seq(ResultType)
    OBVIOUS
  <2> QED
    BY <1>2, <1>3, <2>1 DEF CellTypes, DriverPlaces
<1>5. CallsAreArrivals /\ CollectedIsThere /\ EndedIsDone
  BY <1>2, EmptyIsShaped DEF CallsAreArrivals, CollectedIsThere, EndedIsDone
<1>6. ResultsAreEnds /\ JoinedHaveResults /\ RowsAreLast
  BY <1>2 DEF ResultsAreEnds, JoinedHaveResults, RowsAreLast
<1> QED
  BY <1>1, <1>4, <1>5, <1>6 DEF CellInv

(* What the cell does to the engine, the engine could do on its own. *)
LEMMA CellStepsAreSteps ==
  ASSUME [CellNext]_cell_vars
  PROVE  [Next]_vars
<1>1. CASE \E c \in Call : SubmitNext(c)
  <2>1. PICK c \in Call, m \in TokenLimits : SubmitEnters(c, Schedule[c], m)
    BY <1>1 DEF SubmitNext
  <2>2. Schedule[c] \in ReqId
    BY CallsAreNumbers
  <2> QED
    BY <2>1, <2>2 DEF Next, ClientStep
<1>2. CASE StopEngine
  BY <1>2 DEF StopEngine, Stop, Next, client_vars
<1>3. CASE EngineRuns
  BY <1>3 DEF EngineRuns, Next, ClientStep
<1>4. CASE UNCHANGED vars
  BY <1>4
<1> QED
  BY <1>1, <1>2, <1>3, <1>4
  DEF CellNext, DriverStep, Collect, AllSubmitted, Join, JoinTimesOut, StopTimesOut, WriteRow,
      Reraise, cell_vars

LEMMA CellNextKeeps ==
  ASSUME CellInv, [CellNext]_cell_vars
  PROVE  CellInv'
<1>1. [Next]_vars /\ EngineInv'
  BY CellStepsAreSteps, NextKeeps DEF CellInv
<1>2. call \in [Call -> [at : CallPlaces, id : ReqId \cup {None}, limit : Int]]
  BY DEF CellInv, EngineInv, EngineTypes
<1>3. CASE UNCHANGED call /\ UNCHANGED bench_vars
  <2>1. CallsAreArrivals'
    BY <1>3 DEF CellInv, CallsAreArrivals
  <2> QED
    BY <1>1, <1>3, <2>1, CellSeesEngine
<1>4. ASSUME NEW c \in Call, SubmitNext(c)
      PROVE  CellInv'
  <2>1. PICK m \in TokenLimits : SubmitEnters(c, Schedule[c], m)
    BY <1>4 DEF SubmitNext
  <2>2. \/ call' = [call EXCEPT ![c] = [at |-> "returned", id |-> Schedule[c], limit |-> m]]
        \/ call' = [call EXCEPT ![c] = [at |-> "doorway", id |-> Schedule[c], limit |-> m]]
    BY <2>1 DEF SubmitEnters
  <2>3. CallsAreArrivals'
    BY <1>2, <2>2 DEF CellInv, CallsAreArrivals
  <2> QED
    BY <1>1, <1>4, <2>3, CellSeesEngine DEF SubmitNext
<1>5. ASSUME NEW c \in Call, SubmitPuts(c), UNCHANGED bench_vars
      PROVE  CellInv'
  <2>1. call' = [call EXCEPT ![c].at = "returned"] /\ call[c].at = "doorway"
    BY <1>5 DEF SubmitPuts
  <2>2. \A d \in Call : call'[d].id = call[d].id /\ (d # c => call'[d] = call[d])
    BY <1>2, <2>1
  <2>3. CallsAreArrivals'
    BY <2>1, <2>2 DEF CellInv, CallsAreArrivals
  <2> QED
    BY <1>1, <1>5, <2>3, CellSeesEngine
<1>6. CASE EngineRuns
  <2>1. CASE \E c \in Call : SubmitPuts(c)
    BY <1>5, <1>6, <2>1 DEF EngineRuns
  <2>2. CASE Start \/ EngineStep \/ Crash
    <3>1. UNCHANGED call
      BY <2>2
      DEF Start, Crash, EngineStep, LoopTop, Take, TakeRaises, IdleTimeout, StepBegins,
          StepToken, StepFinish, StepEnds, CrashClosesDoor, FailUndrained, AbortStreams,
          client_vars
    <3> QED
      BY <1>3, <1>6, <3>1 DEF EngineRuns
  <2> QED
    BY <1>6, <2>1, <2>2 DEF EngineRuns
<1>7. CASE StopEngine
  BY <1>3, <1>7 DEF StopEngine, client_vars
<1>8. CASE UNCHANGED cell_vars
  BY <1>3, <1>8 DEF cell_vars, vars, client_vars
<1> QED
  BY <1>4, <1>6, <1>7, <1>8, DriverKeeps, CollectKeeps DEF CellNext, DriverStep

LEMMA CellInvHolds == CellSpec => []CellInv
<1>1. CellInit => CellInv
  BY CellInitKeeps
<1>2. CellInv /\ [CellNext]_cell_vars => CellInv'
  BY CellNextKeeps
<1> QED
  BY <1>1, <1>2, PTL DEF CellSpec

LEMMA CellInvRows ==
  ASSUME CellInv
  PROVE  RowIsTheWholeCell
<1> SUFFICES ASSUME rows # << >>
             PROVE  /\ Len(results) = Arrivals
                    /\ \A c \in Call : HasResult(c) /\ future[c] # "pending"
                    /\ \A i \in DOMAIN results :
                         results[i].output_tokens = Len(stream[results[i].req]) - 1
                    /\ epc = "dead"
  BY DEF RowIsTheWholeCell
<1>1. joined = Arrivals /\ epc = "dead"
  BY DEF CellInv, RowsAreLast
<1>2. /\ results \in Seq(ResultType) /\ Len(results) \in Nat
      /\ DOMAIN results = 1 .. Len(results)
  BY DEF CellInv, CellTypes
<1>3. \A i \in 1 .. Len(results) : results[i].req \in Call
  <2>1. \A x \in ResultType : x.req \in Call
    BY DEF ResultType
  <2> QED
    BY <1>2, <2>1
<1>4. \A c \in Call : HasResult(c)
  BY <1>1, CallsAreNumbers DEF CellInv, JoinedHaveResults
<1>5. \A c \in Call : future[c] # "pending"
  <2>1. \A c \in Call : Over(stream[c])
    BY <1>2, <1>4 DEF CellInv, ResultsAreEnds, HasResult
  <2> QED
    BY <2>1, EmptyIsShaped DEF CellInv, EngineInv, UnansweredIsSilent
<1>6. Len(results) = Arrivals
  <2> DEFINE who == [i \in 1 .. Len(results) |-> results[i].req]
  <2>1. who \in Seq(1 .. Arrivals) /\ Len(who) = Len(results)
    BY <1>2, <1>3, CallsAreNumbers
  <2>2. \A i \in 1 .. Len(results) : who[i] = results[i].req
    OBVIOUS
  <2> HIDE DEF who
  <2>3. \A i, j \in 1 .. Len(who) : who[i] = who[j] => i = j
    BY <2>1, <2>2 DEF CellInv, ResultsAreEnds
  <2>4. \A c \in 1 .. Arrivals : \E i \in 1 .. Len(who) : who[i] = c
    BY <1>2, <1>4, <2>1, <2>2, CallsAreNumbers DEF HasResult
  <2> QED
    BY <2>1, <2>3, <2>4, CallsAreNumbers, OneResultEach
<1> QED
  BY <1>1, <1>2, <1>4, <1>5, <1>6 DEF CellInv, ResultsAreEnds

(***************************************************************************)
(* When a row is written there is one result per arrival, with the number  *)
(* of tokens of its whole stream, every future of the cell is resolved and *)
(* its engine is dead: for every schedule, any order in which the          *)
(* collectors get their FINISH, timeouts of the joins and crashes.         *)
(***************************************************************************)
THEOREM RowsAreWholeCells == CellSpec => []RowIsTheWholeCell
<1>1. CellInv => RowIsTheWholeCell
  BY CellInvRows
<1> QED
  BY <1>1, CellInvHolds, PTL

(***************************************************************************)
(* A result that is not aborted is that of an arrival which was admitted   *)
(* and ran to its own end, and counts all the tokens that were delivered   *)
(* to it, although the driver never looks at a future.                     *)
(***************************************************************************)
ResultsAreWhole ==
  \A i \in DOMAIN results : ~results[i].aborted =>
    LET c == results[i].req
    IN  /\ future[c] = "admitted" /\ phase[Schedule[c]] = "done"
        /\ results[i].output_tokens = delivered[Schedule[c]]

LEMMA ResultsOfWholeRequests ==
  ASSUME CellInv
  PROVE  ResultsAreWhole
<1> SUFFICES ASSUME NEW i \in 1 .. Len(results), ~results[i].aborted
             PROVE  LET c == results[i].req
                    IN  /\ future[c] = "admitted" /\ phase[Schedule[c]] = "done"
                        /\ results[i].output_tokens = delivered[Schedule[c]]
  BY DEF ResultsAreWhole, CellInv, CellTypes
<1>1. results[i] \in ResultType
  BY DEF CellInv, CellTypes
<1>2. results[i].req \in Call
  BY <1>1 DEF ResultType
<1> QED
  BY <1>2 DEF CellInv, ResultsAreEnds, EndedIsDone

THEOREM UnabortedIsWhole == CellSpec => []ResultsAreWhole
<1>1. CellInv => ResultsAreWhole
  BY ResultsOfWholeRequests
<1> QED
  BY <1>1, CellInvHolds, PTL

(* The row of a cell is of its results, to which nothing is added later. *)
RowIsSummary == rows # << >> => rows = <<Summary(results)>>

LEMMA RowStays ==
  ASSUME CellInv, RowIsSummary, [CellNext]_cell_vars
  PROVE  RowIsSummary'
<1>1. CASE UNCHANGED <<results, rows>>
  BY <1>1 DEF RowIsSummary, Summary, Finished, CutShort
<1>2. CASE WriteRow
  <2>1. driver = "returned" /\ rows' = Append(rows, Summary(results)) /\ results' = results
    BY <1>2 DEF WriteRow
  <2>2. rows = << >>
    BY <2>1 DEF CellInv, RowsAreLast
  <2>3. rows' = <<Summary(results)>>
    BY <2>1, <2>2
  <2> QED
    BY <2>1, <2>3 DEF RowIsSummary, Summary, Finished, CutShort
<1>3. CASE \E c \in Call : Collect(c)
  <2>1. PICK c \in Call : Collect(c)
    BY <1>3
  <2>2. rows' = rows /\ collected[c] < Len(stream[c])
    BY <2>1 DEF Collect
  <2>3. CASE rows # << >>
    <3>1. HasResult(c) /\ results \in Seq(ResultType)
      BY <2>3, CellInvRows DEF RowIsTheWholeCell, CellInv, CellTypes
    <3>2. collected[c] = Len(stream[c])
      BY <3>1 DEF HasResult, CellInv, ResultsAreEnds
    <3>3. Len(stream[c]) \in Nat
      BY DEF CellInv, EngineInv, EngineTypes, CellTypes
    <3> QED
      BY <2>2, <3>2, <3>3
  <2> QED
    BY <2>2, <2>3 DEF RowIsSummary
<1>4. UNCHANGED <<results, rows>> \/ WriteRow \/ \E c \in Call : Collect(c)
  BY DEF CellNext, DriverStep, EngineRuns, SubmitNext, AllSubmitted, Join, JoinTimesOut,
         StopEngine, StopTimesOut, Reraise, cell_vars, bench_vars
<1> QED
  BY <1>1, <1>2, <1>3, <1>4

(* Each arrival has one result, so a sum over results is one over arrivals. *)
LEMMA ValidRowIsWhole ==
  ASSUME CellInv, RowIsSummary
  PROVE  ValidRunsAreWhole
<1> SUFFICES ASSUME NEW i \in DOMAIN rows, rows[i].run_valid_for_chart
             PROVE  /\ \A c \in Call : future[c] = "admitted" /\ phase[Schedule[c]] = "done"
                    /\ rows[i].n_finished = Arrivals
                    /\ rows[i].total_output_tokens
                         = SumFunction([c \in Call |-> delivered[Schedule[c]]])
  BY DEF ValidRunsAreWhole
<1>1. rows # << >>
  OBVIOUS
<1>2. rows[i] = Summary(results)
  <2>1. rows = <<Summary(results)>>
    BY <1>1 DEF RowIsSummary
  <2> QED
    BY <2>1
<1>3. /\ Len(results) = Arrivals /\ \A c \in Call : HasResult(c)
      /\ results \in Seq(ResultType) /\ DOMAIN results = 1 .. Len(results)
  BY <1>1, CellInvRows DEF RowIsTheWholeCell, CellInv, CellTypes
<1>4. Arrivals \in Nat /\ Call = 1 .. Arrivals
  BY CallsAreNumbers
<1> DEFINE who == [k \in Call |-> results[k].req]
           counted == [k \in DOMAIN results |-> results[k].output_tokens]
           made == [c \in Call |-> delivered[Schedule[c]]]
<1>5. \A k \in Call : results[k].req \in Call /\ results[k].output_tokens \in Int
  <2>1. \A x \in ResultType : x.req \in Call /\ x.output_tokens \in Int
    BY DEF ResultType
  <2> QED
    BY <1>3, <1>4, <2>1
<1>6. Finished(results) = Call
  <2>1. Summary(results).run_valid_for_chart
    BY <1>2
  <2>2. CutShort(results) = {}
    BY <2>1, Zenon DEF Summary
  <2> QED
    BY <1>3, <1>4, <2>2 DEF CutShort, Finished
<1>7. \A k \in Call : LET c == results[k].req
                      IN  /\ future[c] = "admitted" /\ phase[Schedule[c]] = "done"
                          /\ results[k].output_tokens = delivered[Schedule[c]]
  BY <1>3, <1>4, <1>6, ResultsOfWholeRequests DEF ResultsAreWhole, Finished
<1>8. \A c \in Call : \E k \in Call : results[k].req = c
  BY <1>3, <1>4 DEF HasResult
<1>9. rows[i].n_finished = Arrivals
  <2>1. Cardinality(1 .. Arrivals) = Arrivals
    BY <1>4, FS_Interval
  <2> QED
    BY <1>2, <1>4, <1>6, <2>1 DEF Summary
<1>10. SumFunctionOnSet(counted, Call) = SumFunctionOnSet(made, Call)
  <2>1. IsFiniteSet(Call)
    BY <1>4, FS_Interval
  <2>2. \A k \in Call : counted[k] \in Int /\ made[who[k]] = counted[k]
    BY <1>3, <1>4, <1>5, <1>7
  <2>3. \A k, l \in Call : who[k] = who[l] => k = l
    BY <1>3, <1>4 DEF CellInv, ResultsAreEnds
  <2>4. {who[k] : k \in Call} = Call
    BY <1>5, <1>8
  <2> HIDE DEF who, counted, made
  <2> QED
    BY <2>1, <2>2, <2>3, <2>4, SumRenamed
<1>11. rows[i].total_output_tokens = SumFunctionOnSet(counted, Call)
  BY <1>2, <1>6 DEF Summary
<1>12. SumFunction(made) = SumFunctionOnSet(made, Call)
  <2>1. DOMAIN made = Call
    OBVIOUS
  <2> HIDE DEF made
  <2> QED
    BY <2>1 DEF SumFunction, SumFunctionOnSet, FoldFunction
<1> QED
  BY <1>7, <1>8, <1>9, <1>10, <1>11, <1>12

(***************************************************************************)
(* A row that may be charted is of a whole run: every arrival was admitted *)
(* and ran to its own end, and the row counts every token delivered, for   *)
(* every schedule, in whatever order the collectors come to their FINISH.  *)
(***************************************************************************)
THEOREM ChartedRunsAreWhole == CellSpec => []ValidRunsAreWhole
<1>1. CellInit => RowIsSummary
  BY DEF CellInit, RowIsSummary
<1>2. CellInv /\ RowIsSummary /\ [CellNext]_cell_vars => RowIsSummary'
  BY RowStays
<1>3. CellInv /\ RowIsSummary => ValidRunsAreWhole
  BY ValidRowIsWhole
<1> QED
  BY <1>1, <1>2, <1>3, CellInvHolds, PTL DEF CellSpec

(***************************************************************************)
(* The driver and its collectors ask nothing of the engine that its        *)
(* clients could not: what is proved of the engine holds in every cell.    *)
(***************************************************************************)
THEOREM CellRunsTheEngine == CellSpec => Spec
<1>1. CellInit => Init
  BY DEF CellInit
<1> QED
  BY <1>1, CellStepsAreSteps, PTL DEF CellSpec, Spec
=============================================================================
