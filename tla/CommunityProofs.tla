--------------------------- MODULE CommunityProofs ---------------------------
(***************************************************************************)
(* What holds of Community and Client for every number of calls, slots,    *)
(* clicks, comments and accounts: the types, the slots, the cooldown, the  *)
(* searches, and that a comment is sent once and never denied.             *)
(***************************************************************************)
EXTENDS Community, FiniteSetTheorems, TLAPS

(* Every slot that is taken is held by one call.                           *)
SlotsTrue == IsFiniteSet(Holding) /\ slots = Cardinality(Holding) /\ slots \in 0..Slots

(* What the service does with a call, and where its request is.            *)
InStep ==
  \A c \in Call :
    /\ op[c].stage = "admitted" <=> call[c].phase = "idle"
    /\ op[c].kind = "none" => op[c].stage = "admitted"
    /\ op[c].kind # "none" => op[c].epoch \in 1..epoch
    /\ Comments(c) => op[c].click \in Click
    /\ call[c].phase \notin {"idle", "done"} => call[c].host \in Host
    /\ call[c].phase = "backoff" => call[c].attempt + 1 < Attempts

EpochsPast == commentEpoch <= epoch /\ readEpoch <= epoch /\ searchEpoch <= epoch

TypeInv == TypeOK /\ SlotsTrue /\ InStep /\ EpochsPast

---------------------------------------------------------------------------
(* One call of the client takes a step: what that means for the calls and  *)
(* the slots.                                                              *)
Held == {"ready", "clear", "wire", "backoff"}

Turns(c, new) == new \in Request /\ call' = [call EXCEPT ![c] = new]

Balanced(c, new) ==
  \/ slots' = slots /\ (call[c].phase \in Held <=> new.phase \in Held)
  \/ slots' = slots + 1 /\ slots < Slots /\ call[c].phase \notin Held /\ new.phase \in Held
  \/ slots' = slots - 1 /\ call[c].phase \in Held /\ new.phase \notin Held

LEMMA TurnedCalls ==
  ASSUME TypeInv, NEW c \in Call, NEW new, Turns(c, new)
  PROVE  /\ call' \in [Call -> Request] /\ call'[c] = new
         /\ \A d \in Call \ {c} : call'[d] = call[d]
BY DEF TypeInv, TypeOK, ClientTypeOK, Turns

LEMMA TurnedSlots ==
  ASSUME TypeInv, NEW c \in Call, NEW new, Turns(c, new), Balanced(c, new)
  PROVE  SlotsTrue'
<1>. DEFINE H == Holding
<1>1. IsFiniteSet(H) /\ slots = Cardinality(H) /\ slots \in 0..Slots /\ Slots \in Nat
  BY ClientAssumption DEF TypeInv, SlotsTrue
<1>2. call' \in [Call -> Request] /\ call'[c] = new /\ \A d \in Call \ {c} : call'[d] = call[d]
  BY TurnedCalls
<1>3. (c \in H <=> call[c].phase \in Held) /\ (c \in H' <=> new.phase \in Held)
  BY <1>2 DEF Holding, Held
<1>4. \A d \in Call \ {c} : d \in H' <=> d \in H
  BY <1>2 DEF Holding
<1>5. H \subseteq Call /\ H' \subseteq Call
  BY DEF Holding
<1>6. Cardinality(H) \in Nat
  BY <1>1, FS_CardinalityType
<1>. HIDE DEF H
<1>7. CASE slots' = slots /\ (call[c].phase \in Held <=> new.phase \in Held)
  <2>1. H' = H
    BY <1>3, <1>4, <1>5, <1>7
  <2>. QED  BY <1>1, <1>7, <2>1 DEF SlotsTrue, H
<1>8. CASE slots' = slots + 1 /\ slots < Slots /\ call[c].phase \notin Held /\ new.phase \in Held
  <2>1. H' = H \cup {c} /\ c \notin H
    BY <1>3, <1>4, <1>5, <1>8
  <2>2. IsFiniteSet(H') /\ Cardinality(H') = Cardinality(H) + 1
    BY <1>1, <2>1, FS_AddElement
  <2>. QED  BY <1>1, <1>6, <1>8, <2>2 DEF SlotsTrue, H
<1>9. CASE slots' = slots - 1 /\ call[c].phase \in Held /\ new.phase \notin Held
  <2>1. H' = H \ {c} /\ c \in H
    BY <1>3, <1>4, <1>5, <1>9
  <2>2. IsFiniteSet(H') /\ Cardinality(H') = Cardinality(H) - 1
    BY <1>1, <2>1, FS_RemoveElement
  <2>3. Cardinality(H') \in Nat
    BY <2>2, FS_CardinalityType
  <2>. QED  BY <1>1, <1>6, <1>9, <2>2, <2>3 DEF SlotsTrue, H
<1>. QED  BY <1>7, <1>8, <1>9 DEF Balanced

---------------------------------------------------------------------------
(* The steps of the client, each as a turn of its call.                    *)

(* Nothing has happened to the cooldown of any host.                       *)
Calm == UNCHANGED <<cooldown, exempt>>

LEMMA Shapes ==
  ASSUME NEW old \in Request, NEW phase, NEW code
  PROVE  /\ phase \in {"idle", "queued", "ready", "clear", "wire", "backoff", "done"}
              => [old EXCEPT !.phase = phase] \in Request
         /\ code \in Code => [old EXCEPT !.phase = "done", !.code = code] \in Request
         /\ [old EXCEPT !.cancelled = TRUE] \in Request
         /\ NoRequest \in Request
<1>1. 0 \in 0..(Attempts - 1)
  BY ClientAssumption
<1>2. NoRequest \in Request
  BY <1>1 DEF NoRequest, Request, Code
<1>3. code \in Code => [old EXCEPT !.phase = "done", !.code = code] \in Request
  BY DEF Request
<1>4. phase \in {"idle", "queued", "ready", "clear", "wire", "backoff", "done"}
        => [old EXCEPT !.phase = phase] \in Request
  BY DEF Request
<1>5. [old EXCEPT !.cancelled = TRUE] \in Request
  BY DEF Request
<1>. QED  BY <1>2, <1>3, <1>4, <1>5

(* What every turn of a request that is under way keeps.                   *)
Keeps(c, new) ==
  /\ call[c].phase \notin {"idle", "done"} /\ new.phase # "idle"
  /\ new.host = call[c].host /\ new.read = call[c].read
  /\ new.phase = "backoff" => new.attempt = call[c].attempt

LEMMA BeganTurn ==
  ASSUME TypeInv, NEW c \in Call, NEW host \in Host, NEW read \in BOOLEAN, RequestBegins(c, host, read)
  PROVE  /\ Calm
         /\ \E new :
              /\ Turns(c, new) /\ Balanced(c, new)
              /\ call[c].phase = "idle"
              /\ \/ new.phase = "queued" /\ new.host = host /\ new.read = read
                 \/ new.phase = "done" /\ new.code = "RATE_LIMIT" /\ ~new.read
<1>1. call \in [Call -> Request]
  BY DEF TypeInv, TypeOK, ClientTypeOK
<1>. DEFINE queued == [NoRequest EXCEPT !.phase = "queued", !.host = host, !.read = read]
            refused == [NoRequest EXCEPT !.phase = "done", !.code = "RATE_LIMIT"]
<1>2. /\ queued \in Request /\ queued.phase = "queued" /\ queued.host = host /\ queued.read = read
      /\ refused \in Request /\ refused.phase = "done" /\ refused.code = "RATE_LIMIT" /\ ~refused.read
  <2>1. NoRequest \in Request /\ ~NoRequest.read
    BY <1>1, Shapes DEF NoRequest
  <2>2. queued \in Request /\ queued.phase = "queued" /\ queued.host = host /\ queued.read = read
    BY <2>1 DEF Request
  <2>3. refused \in Request /\ refused.phase = "done" /\ refused.code = "RATE_LIMIT" /\ ~refused.read
    BY <2>1 DEF Request, Code
  <2>. QED  BY <2>2, <2>3
<1>3. /\ call[c].phase = "idle" /\ UNCHANGED <<slots, cooldown, exempt>>
      /\ call' = [call EXCEPT ![c] = queued] \/ call' = [call EXCEPT ![c] = refused]
  BY DEF RequestBegins
<1>. HIDE DEF queued, refused
<1>4. CASE call' = [call EXCEPT ![c] = queued]
  <2>1. Turns(c, queued) /\ Balanced(c, queued)
    BY <1>2, <1>3, <1>4 DEF Turns, Balanced, Held
  <2>. QED  BY <1>2, <1>3, <2>1 DEF Calm
<1>5. CASE call' = [call EXCEPT ![c] = refused]
  <2>1. Turns(c, refused) /\ Balanced(c, refused)
    BY <1>2, <1>3, <1>5 DEF Turns, Balanced, Held
  <2>. QED  BY <1>2, <1>3, <2>1 DEF Calm
<1>. QED  BY <1>3, <1>4, <1>5

(* The call goes on to another phase.                                      *)
LEMMA PhaseTurn ==
  ASSUME TypeInv, NEW c \in Call, NEW phase \in {"ready", "clear", "wire", "backoff"},
         call[c].phase \notin {"idle", "done"},
         call' = [call EXCEPT ![c].phase = phase]
  PROVE  \E new : Turns(c, new) /\ Keeps(c, new) /\ new.phase = phase /\ new.code = call[c].code
<1>1. call \in [Call -> Request]
  BY DEF TypeInv, TypeOK, ClientTypeOK
<1>. DEFINE new == [call[c] EXCEPT !.phase = phase]
<1>2. new \in Request
  BY <1>1, Shapes
<1>3. call' = [call EXCEPT ![c] = new]
  BY <1>1
<1>4. /\ new.phase = phase /\ new.host = call[c].host /\ new.read = call[c].read /\ new.code = call[c].code
      /\ new.attempt = call[c].attempt
  BY <1>1 DEF Request
<1>. QED  BY <1>2, <1>3, <1>4 DEF Turns, Keeps

LEMMA EndTurn ==
  ASSUME TypeInv, NEW c \in Call, NEW code \in Code, Refuse(c, code), call[c].phase \notin {"idle", "done"}
  PROVE  \E new : Turns(c, new) /\ Keeps(c, new) /\ new.phase = "done" /\ new.code = code
<1>1. call \in [Call -> Request]
  BY DEF TypeInv, TypeOK, ClientTypeOK
<1>. DEFINE new == [call[c] EXCEPT !.phase = "done", !.code = code]
<1>2. new \in Request
  BY <1>1, Shapes
<1>3. call' = [call EXCEPT ![c] = new]
  BY <1>1 DEF Refuse
<1>4. new.phase = "done" /\ new.host = call[c].host /\ new.read = call[c].read /\ new.code = code
  BY <1>1 DEF Request
<1>. QED  BY <1>2, <1>3, <1>4 DEF Turns, Keeps

(* A step the client takes by itself.  It sends nothing, takes no answer   *)
(* and does not back off, and only a call that looked when there was no    *)
(* cooldown comes to be past its look.                                     *)
Alone(c, new) ==
  /\ Turns(c, new) /\ Balanced(c, new) /\ Keeps(c, new)
  /\ new.phase = "clear" => (call[c].phase = "clear" \/ ~Limited(call[c].host))
  /\ new.phase \in {"wire", "backoff"} => call[c].phase = new.phase
  /\ call[c].phase = "wire" => new.phase = "wire"
  /\ new.phase = "done" => new.code # "OK"

LEMMA ClientTurn ==
  ASSUME TypeInv, NEW c \in Call, ClientStep(c)
  PROVE  Calm /\ \E new : Alone(c, new)
<1>1. call \in [Call -> Request]
  BY DEF TypeInv, TypeOK, ClientTypeOK
<1>2. Calm
  BY DEF ClientStep, Acquire, GiveUpWaiting, LookAgain, Wake, CancelRequest, Calm
<1>3. CASE Acquire(c)
  <2>1. /\ call[c].phase = "queued" /\ call' = [call EXCEPT ![c].phase = "ready"]
        /\ slots < Slots /\ slots' = slots + 1
    BY <1>3 DEF Acquire
  <2>2. PICK new : Turns(c, new) /\ Keeps(c, new) /\ new.phase = "ready"
    BY <2>1, PhaseTurn
  <2>. QED  BY <1>2, <2>1, <2>2 DEF Alone, Balanced, Held
<1>4. CASE GiveUpWaiting(c)
  <2>1. call[c].phase = "queued" /\ Refuse(c, "CANCELLED") /\ slots' = slots /\ "CANCELLED" \in Code
    BY <1>4 DEF GiveUpWaiting, Code
  <2>2. PICK new : Turns(c, new) /\ Keeps(c, new) /\ new.phase = "done" /\ new.code = "CANCELLED"
    BY <2>1, EndTurn
  <2>. QED  BY <1>2, <2>1, <2>2 DEF Alone, Balanced, Held
<1>5. CASE LookAgain(c)
  <2>1. call[c].phase = "ready" /\ "RATE_LIMIT" \in Code
    BY <1>5 DEF LookAgain, Code
  <2>2. CASE Limited(call[c].host)
    <3>1. Refuse(c, "RATE_LIMIT") /\ slots' = slots - 1
      BY <1>5, <2>2 DEF LookAgain, Finish
    <3>2. PICK new : Turns(c, new) /\ Keeps(c, new) /\ new.phase = "done" /\ new.code = "RATE_LIMIT"
      BY <2>1, <3>1, EndTurn
    <3>. QED  BY <1>2, <2>1, <3>1, <3>2 DEF Alone, Balanced, Held
  <2>3. CASE ~Limited(call[c].host)
    <3>1. call' = [call EXCEPT ![c].phase = "clear"] /\ slots' = slots
      BY <1>5, <2>3 DEF LookAgain
    <3>2. PICK new : Turns(c, new) /\ Keeps(c, new) /\ new.phase = "clear"
      BY <2>1, <3>1, PhaseTurn
    <3>. QED  BY <1>2, <2>1, <2>3, <3>1, <3>2 DEF Alone, Balanced, Held
  <2>. QED  BY <2>2, <2>3
<1>6. CASE Wake(c)
  <2>1. call[c].phase = "backoff" /\ "CANCELLED" \in Code
    BY <1>6 DEF Wake, Code
  <2>2. CASE Finish(c, "CANCELLED")
    <3>1. Refuse(c, "CANCELLED") /\ slots' = slots - 1
      BY <2>2 DEF Finish
    <3>2. PICK new : Turns(c, new) /\ Keeps(c, new) /\ new.phase = "done" /\ new.code = "CANCELLED"
      BY <2>1, <3>1, EndTurn
    <3>. QED  BY <1>2, <2>1, <3>1, <3>2 DEF Alone, Balanced, Held
  <2>3. CASE call' = [call EXCEPT ![c].phase = "ready", ![c].attempt = @ + 1] /\ slots' = slots
    <3>. DEFINE new == [call[c] EXCEPT !.phase = "ready", !.attempt = @ + 1]
    <3>1. call' = [call EXCEPT ![c] = new]
      BY <1>1, <2>3
    <3>2. new.phase = "ready" /\ new.host = call[c].host /\ new.read = call[c].read
      BY <1>1 DEF Request
    <3>3. new \in Request
      <4>1. call[c].attempt + 1 \in 0..(Attempts - 1)
        <5>1. call[c].attempt \in Nat /\ call[c].attempt + 1 < Attempts /\ Attempts \in Nat
          BY <1>1, <2>1, ClientAssumption DEF Request, TypeInv, InStep
        <5>. QED  BY <5>1
      <4>2. call[c] \in Request
        BY <1>1
      <4>. QED  BY <4>1, <4>2 DEF Request
    <3>. HIDE DEF new
    <3>. QED  BY <1>2, <2>1, <2>3, <3>1, <3>2, <3>3 DEF Alone, Turns, Keeps, Balanced, Held
  <2>. QED  BY <1>6, <2>2, <2>3 DEF Wake
<1>7. CASE CancelRequest(c)
  <2>. DEFINE new == [call[c] EXCEPT !.cancelled = TRUE]
  <2>1. call' = [call EXCEPT ![c] = new] /\ slots' = slots /\ call[c].phase \notin {"idle", "done"}
    BY <1>1, <1>7 DEF CancelRequest
  <2>2. /\ new.phase = call[c].phase /\ new.host = call[c].host /\ new.read = call[c].read
        /\ new.attempt = call[c].attempt
    BY <1>1 DEF Request
  <2>3. new \in Request
    BY <1>1, Shapes
  <2>. HIDE DEF new
  <2>. QED  BY <1>2, <2>1, <2>2, <2>3 DEF Alone, Turns, Keeps, Balanced, Held
<1>. QED  BY <1>3, <1>4, <1>5, <1>6, <1>7 DEF ClientStep

(* The answer, or its absence.  Only a read backs off, and only once more  *)
(* than it may; nothing is accepted that was not answered so.              *)
Heard(c, new, code) ==
  /\ Turns(c, new) /\ Balanced(c, new) /\ Keeps(c, new)
  /\ call[c].phase = "wire"
  /\ \/ new.phase = "backoff" /\ call[c].read /\ call[c].attempt + 1 < Attempts
     \/ new.phase = "done" /\ new.code = code

LEMMA FinishTurn ==
  ASSUME TypeInv, NEW c \in Call, call[c].phase = "wire", NEW code \in Code, Finish(c, code)
  PROVE  \E new : Heard(c, new, code)
<1>1. Refuse(c, code) /\ slots' = slots - 1
  BY DEF Finish
<1>2. PICK new : Turns(c, new) /\ Keeps(c, new) /\ new.phase = "done" /\ new.code = code
  BY <1>1, EndTurn
<1>. QED  BY <1>1, <1>2 DEF Heard, Balanced, Held

LEMMA RetryTurn ==
  ASSUME TypeInv, NEW c \in Call, call[c].phase = "wire", ~LastAttempt(c), Retry(c), NEW code
  PROVE  \E new : Heard(c, new, code)
<1>1. call' = [call EXCEPT ![c].phase = "backoff"] /\ slots' = slots
  BY DEF Retry
<1>2. PICK new : Turns(c, new) /\ Keeps(c, new) /\ new.phase = "backoff"
  BY <1>1, PhaseTurn
<1>3. call[c].read /\ call[c].attempt + 1 < Attempts
  <2>1. call[c].attempt \in Nat /\ Attempts \in Nat
    BY ClientAssumption DEF TypeInv, TypeOK, ClientTypeOK, Request
  <2>. QED  BY <2>1 DEF LastAttempt
<1>. QED  BY <1>1, <1>2, <1>3 DEF Heard, Balanced, Held

LEMMA LostTurn ==
  ASSUME TypeInv, NEW c \in Call, Lost(c) \/ ServerError(c)
  PROVE  Calm /\ \E code \in {"CANCELLED", "NETWORK", "UPSTREAM"} : \E new : Heard(c, new, code)
<1>1. call[c].phase = "wire" /\ Calm
  BY DEF Lost, ServerError, Calm
<1>2. {"CANCELLED", "NETWORK", "UPSTREAM"} \subseteq Code
  BY DEF Code
<1>3. ASSUME NEW code \in {"CANCELLED", "NETWORK", "UPSTREAM"}, Finish(c, code) \/ (~LastAttempt(c) /\ Retry(c))
      PROVE  \E new : Heard(c, new, code)
  BY <1>1, <1>2, <1>3, FinishTurn, RetryTurn
<1>4. \E code \in {"CANCELLED", "NETWORK", "UPSTREAM"} : Finish(c, code) \/ (~LastAttempt(c) /\ Retry(c))
  BY DEF Lost, ServerError
<1>. QED  BY <1>1, <1>3, <1>4

LEMMA AnswerTurn ==
  ASSUME TypeInv, NEW c \in Call, NEW verdict, Answer(c, verdict)
  PROVE  Calm /\ verdict \in Verdicts /\ \E new : Heard(c, new, verdict)
<1>1. call[c].phase = "wire" /\ Calm /\ Finish(c, verdict) /\ verdict \in Code /\ verdict \in Verdicts
  BY DEF Answer, Calm, Code, Verdicts
<1>. QED  BY <1>1, FinishTurn

LEMMA RetryAfterBounds ==
  ASSUME NEW header \in Header
  PROVE  RetryAfter(header) \in 1..MaxWait
BY ClientAssumption DEF RetryAfter

LEMMA TooManyTurn ==
  ASSUME TypeInv, NEW c \in Call, TooMany(c)
  PROVE  /\ call[c].host \in Host
         /\ \E new : Heard(c, new, "RATE_LIMIT")
         /\ \E wait \in 1..MaxWait : cooldown' = [cooldown EXCEPT ![call[c].host] = wait]
         /\ exempt' = [exempt EXCEPT ![call[c].host] =
              {d \in Call : call[d].phase = "clear" /\ call[d].host = call[c].host}]
<1>1. call[c].phase = "wire" /\ Finish(c, "RATE_LIMIT") /\ "RATE_LIMIT" \in Code
  BY DEF TooMany, Code
<1>2. call[c].host \in Host
  BY <1>1 DEF TypeInv, InStep
<1>. QED  BY <1>1, <1>2, FinishTurn, RetryAfterBounds DEF TooMany

(* A request goes out.                                                     *)
LEMMA SendTurn ==
  ASSUME TypeInv, NEW c \in Call, Send(c)
  PROVE  /\ Calm /\ call[c].phase = "clear"
         /\ \E new : Turns(c, new) /\ Balanced(c, new) /\ Keeps(c, new) /\ new.phase = "wire"
<1>1. /\ call[c].phase = "clear" /\ call' = [call EXCEPT ![c].phase = "wire"] /\ slots' = slots /\ Calm
  BY DEF Send, Calm
<1>2. PICK new : Turns(c, new) /\ Keeps(c, new) /\ new.phase = "wire"
  BY <1>1, PhaseTurn
<1>. QED  BY <1>1, <1>2 DEF Balanced, Held

---------------------------------------------------------------------------
(* The types.                                                              *)

(* What a step of call c leaves of the other calls, and what it needs to   *)
(* leave its own in step.                                                  *)
LEMMA StepInStep ==
  ASSUME TypeInv, NEW c \in Call, NEW new, Turns(c, new), epoch' = epoch,
         NEW o \in Op, op' = [op EXCEPT ![c] = o],
         o.stage = "admitted" <=> new.phase = "idle",
         o.kind = "none" => o.stage = "admitted",
         o.kind # "none" => o.epoch \in 1..epoch,
         o.kind = "comment" => o.click \in Click,
         new.phase \notin {"idle", "done"} => new.host \in Host,
         new.phase = "backoff" => new.attempt + 1 < Attempts
  PROVE  op' \in [Call -> Op] /\ call' \in [Call -> Request] /\ InStep'
<1>1. op \in [Call -> Op]
  BY DEF TypeInv, TypeOK
<1>2. call' \in [Call -> Request] /\ call'[c] = new /\ \A d \in Call \ {c} : call'[d] = call[d]
  BY TurnedCalls
<1>3. op' \in [Call -> Op] /\ op'[c] = o /\ \A d \in Call \ {c} : op'[d] = op[d]
  BY <1>1
<1>4. ASSUME NEW d \in Call
      PROVE  /\ op'[d].stage = "admitted" <=> call'[d].phase = "idle"
             /\ op'[d].kind = "none" => op'[d].stage = "admitted"
             /\ op'[d].kind # "none" => op'[d].epoch \in 1..epoch'
             /\ op'[d].kind = "comment" => op'[d].click \in Click
             /\ call'[d].phase \notin {"idle", "done"} => call'[d].host \in Host
             /\ call'[d].phase = "backoff" => call'[d].attempt + 1 < Attempts
  <2>1. CASE d = c
    BY <1>2, <1>3, <2>1
  <2>2. CASE d # c
    <3>1. op'[d] = op[d] /\ call'[d] = call[d]
      BY <1>2, <1>3, <2>2
    <3>. QED  BY <3>1 DEF TypeInv, InStep, Comments
  <2>. QED  BY <2>1, <2>2
<1>. QED  BY <1>2, <1>3, <1>4 DEF InStep, Comments

LEMMA NoOpShape ==
  /\ NoOp \in Op /\ NoOp.kind = "none" /\ NoOp.stage = "admitted"
  /\ NoRequest \in Request /\ NoRequest.phase = "idle" /\ ~NoRequest.read
<1>1. 0 \in 0..(Attempts - 1)
  BY ClientAssumption
<1>2. NoRequest \in Request /\ NoRequest.phase = "idle" /\ ~NoRequest.read
  BY <1>1 DEF NoRequest, Request, Code
<1>. QED  BY <1>2 DEF NoOp, Op

(* What an operation does to the variables of the client.                  *)
ClientKept == UNCHANGED <<slots, cooldown, exempt>>

(* A call that is done, or was never made, is forgotten.                   *)
LEMMA DoneTurn ==
  ASSUME TypeInv, NEW c \in Call, call[c].phase \in {"idle", "done"}, Done(c), ClientKept, epoch' = epoch
  PROVE  /\ op' \in [Call -> Op] /\ call' \in [Call -> Request] /\ InStep' /\ SlotsTrue'
         /\ op'[c].kind = "none" /\ call'[c] = NoRequest
         /\ \A d \in Call \ {c} : op'[d] = op[d] /\ call'[d] = call[d]
<1>1. Turns(c, NoRequest) /\ Balanced(c, NoRequest)
  BY NoOpShape DEF Done, Turns, Balanced, Held, ClientKept
<1>2. op' = [op EXCEPT ![c] = NoOp] /\ op \in [Call -> Op]
  BY DEF Done, TypeInv, TypeOK
<1>3. op' \in [Call -> Op] /\ call' \in [Call -> Request] /\ InStep'
  BY <1>1, <1>2, NoOpShape, StepInStep
<1>4. call'[c] = NoRequest /\ \A d \in Call \ {c} : call'[d] = call[d]
  BY <1>1, TurnedCalls
<1>5. op'[c] = NoOp /\ \A d \in Call \ {c} : op'[d] = op[d]
  BY <1>2
<1>. QED  BY <1>1, <1>3, <1>4, <1>5, NoOpShape, TurnedSlots

(* A call is admitted: op has the free place, no request is made yet.      *)
LEMMA AdmitTurn ==
  ASSUME TypeInv, NEW c \in Call, op[c].kind = "none", UNCHANGED <<call, slots, epoch>>,
         NEW o \in Op, op' = [op EXCEPT ![c] = o], o.stage = "admitted", o.kind # "none",
         o.epoch = epoch, o.kind = "comment" => o.click \in Click
  PROVE  /\ op' \in [Call -> Op] /\ call' \in [Call -> Request] /\ InStep' /\ SlotsTrue'
         /\ op'[c] = o /\ \A d \in Call \ {c} : op'[d] = op[d]
<1>1. call \in [Call -> Request] /\ op \in [Call -> Op] /\ call[c].phase = "idle" /\ epoch \in 1..epoch
  BY CommunityAssumption DEF TypeInv, TypeOK, ClientTypeOK, InStep
<1>2. Turns(c, call[c])
  BY <1>1 DEF Turns
<1>3. op' \in [Call -> Op] /\ call' \in [Call -> Request] /\ InStep'
  BY <1>1, <1>2, StepInStep
<1>4. SlotsTrue'
  BY DEF TypeInv, SlotsTrue, Holding
<1>. QED  BY <1>1, <1>3, <1>4

(* The request of an admitted call begins.                                 *)
MadeFor(c, o) ==
  /\ o \in Op /\ op' = [op EXCEPT ![c] = o] /\ o.stage = "calling" /\ o.kind # "none"
  /\ o.epoch \in 1..epoch /\ (o.kind = "comment" => o.click \in Click)

LEMMA CallTurn ==
  ASSUME TypeInv, NEW c \in Call, call[c].phase = "idle", epoch' = epoch,
         NEW read \in BOOLEAN, RequestBegins(c, Api, read), NEW o, MadeFor(c, o)
  PROVE  /\ op' \in [Call -> Op] /\ call' \in [Call -> Request] /\ InStep' /\ SlotsTrue' /\ Calm
         /\ op'[c] = o /\ \A d \in Call \ {c} : op'[d] = op[d] /\ call'[d] = call[d]
         /\ \/ call'[c].phase = "queued" /\ call'[c].read = read
            \/ call'[c].phase = "done" /\ call'[c].code = "RATE_LIMIT" /\ ~call'[c].read
<1>1. Api \in Host
  BY CommunityAssumption
<1>2. Calm /\ \E new :
              /\ Turns(c, new) /\ Balanced(c, new)
              /\ call[c].phase = "idle"
              /\ \/ new.phase = "queued" /\ new.host = Api /\ new.read = read
                 \/ new.phase = "done" /\ new.code = "RATE_LIMIT" /\ ~new.read
  BY <1>1, BeganTurn
<1>3. PICK new :
              /\ Turns(c, new) /\ Balanced(c, new)
              /\ \/ new.phase = "queued" /\ new.host = Api /\ new.read = read
                 \/ new.phase = "done" /\ new.code = "RATE_LIMIT" /\ ~new.read
  BY <1>2
<1>4. op' \in [Call -> Op] /\ call' \in [Call -> Request] /\ InStep'
  BY <1>1, <1>3, StepInStep DEF MadeFor
<1>5. SlotsTrue'
  BY <1>3, TurnedSlots
<1>6. call'[c] = new /\ \A d \in Call \ {c} : call'[d] = call[d]
  BY <1>3, TurnedCalls
<1>7. op'[c] = o /\ \A d \in Call \ {c} : op'[d] = op[d]
  BY DEF MadeFor, TypeInv, TypeOK
<1>. QED  BY <1>2, <1>3, <1>4, <1>5, <1>6, <1>7

(* The request under way goes on, the operation stays.                     *)
LEMMA OnTurn ==
  ASSUME TypeInv, NEW c \in Call, NEW new, Turns(c, new), Balanced(c, new), Keeps(c, new),
         new.phase = "backoff" => call[c].attempt + 1 < Attempts,
         UNCHANGED <<op, epoch>>
  PROVE  /\ call' \in [Call -> Request] /\ InStep' /\ SlotsTrue'
         /\ call'[c] = new /\ \A d \in Call \ {c} : call'[d] = call[d]
         /\ op[c].stage = "calling" /\ op[c].kind # "none"
<1>1. op \in [Call -> Op] /\ op[c] \in Op /\ op' = [op EXCEPT ![c] = op[c]]
  BY DEF TypeInv, TypeOK
<1>2. /\ op[c].stage # "admitted" /\ op[c].kind # "none" /\ op[c].epoch \in 1..epoch
      /\ op[c].kind = "comment" => op[c].click \in Click
      /\ call[c].host \in Host
  BY DEF TypeInv, InStep, Comments, Keeps
<1>3. call' \in [Call -> Request] /\ InStep'
  <2>. DEFINE o == op[c]
  <2>1. o \in Op /\ op' = [op EXCEPT ![c] = o]
    BY <1>1
  <2>2. /\ o.stage = "admitted" <=> new.phase = "idle"
        /\ o.kind = "none" => o.stage = "admitted"
        /\ o.kind # "none" => o.epoch \in 1..epoch
        /\ o.kind = "comment" => o.click \in Click
        /\ new.phase \notin {"idle", "done"} => new.host \in Host
        /\ new.phase = "backoff" => new.attempt + 1 < Attempts
    BY <1>2 DEF Keeps
  <2>. HIDE DEF o
  <2>. QED  BY <2>1, <2>2, StepInStep
<1>4. SlotsTrue'
  BY TurnedSlots
<1>5. op[c].stage = "calling"
  BY <1>1, <1>2 DEF Op
<1>. QED  BY <1>2, <1>3, <1>4, <1>5, TurnedCalls

(* The types of what is not a call.                                        *)
ServiceTypes ==
  /\ epoch \in 1..MaxEpoch /\ account \in Account \cup {Guest}
  /\ commentEpoch \in 0..MaxEpoch /\ attempts \subseteq Click /\ busy \in BOOLEAN
  /\ readEpoch \in 0..MaxEpoch /\ targets \subseteq Comment
  /\ searchEpoch \in 0..MaxEpoch /\ generation \in 0..MaxGeneration
  /\ clicked \in [Click -> 0..MaxEpoch]
  /\ sent \in [Click -> Nat] /\ posted \subseteq Click
  /\ told \in [Click -> {"nothing", "posted", "uncertain", "refused"}]
  /\ seen \subseteq Comment /\ given \in 0..MaxGeneration
  /\ EpochsPast

Cooldowns == cooldown \in [Host -> 0..MaxWait] /\ exempt \in [Host -> SUBSET Call]

LEMMA TypeParts ==
  TypeInv <=>
    /\ call \in [Call -> Request] /\ op \in [Call -> Op] /\ InStep /\ SlotsTrue
    /\ Cooldowns /\ ServiceTypes
BY DEF TypeInv, TypeOK, ClientTypeOK, Cooldowns, ServiceTypes, SlotsTrue

LEMMA TypePartsNext ==
  TypeInv' <=>
    /\ call' \in [Call -> Request] /\ op' \in [Call -> Op] /\ InStep' /\ SlotsTrue'
    /\ Cooldowns' /\ ServiceTypes'
BY DEF TypeInv, TypeOK, ClientTypeOK, Cooldowns, ServiceTypes, SlotsTrue

LEMMA Epochs ==
  ASSUME TypeInv
  PROVE  /\ epoch \in Nat /\ epoch >= 1 /\ epoch \in 1..epoch /\ MaxEpoch \in Nat
         /\ commentEpoch \in Nat /\ readEpoch \in Nat /\ searchEpoch \in Nat
         /\ given \in Nat /\ generation \in Nat /\ MaxGeneration \in Nat
         /\ commentEpoch <= epoch /\ readEpoch <= epoch /\ searchEpoch <= epoch
         /\ \A c \in Call : op[c] \in Op /\ op[c].epoch \in Nat
BY CommunityAssumption DEF TypeInv, TypeOK, EpochsPast, Op

LEMMA CalmTypes ==
  ASSUME TypeInv, Calm
  PROVE  Cooldowns'
BY DEF TypeInv, TypeOK, ClientTypeOK, Cooldowns, Calm

LEMMA ServiceStays ==
  ASSUME TypeInv, UNCHANGED serviceVars, UNCHANGED historyVars
  PROVE  ServiceTypes'
BY TypeParts DEF ServiceTypes, serviceVars, historyVars, EpochsPast

LEMMA ClientTypes ==
  ASSUME TypeInv, UNCHANGED <<serviceVars, op, historyVars>>,
         (\E c \in Call : ClientStep(c)) \/ Second
  PROVE  TypeInv'
<1>0. UNCHANGED serviceVars /\ UNCHANGED historyVars /\ UNCHANGED op
  OBVIOUS
<1>1. ServiceTypes' /\ UNCHANGED <<op, epoch>> /\ op' \in [Call -> Op]
  BY <1>0, ServiceStays DEF serviceVars, TypeInv, TypeOK
<1>2. ASSUME NEW c \in Call, ClientStep(c)
      PROVE  TypeInv'
  <2>1. PICK new : Alone(c, new)
    BY <1>2, ClientTurn
  <2>2. new.phase = "backoff" => call[c].attempt + 1 < Attempts
    BY <2>1 DEF Alone, TypeInv, InStep
  <2>3. call' \in [Call -> Request] /\ InStep' /\ SlotsTrue'
    BY <1>1, <2>1, <2>2, OnTurn DEF Alone
  <2>. QED  BY <1>1, <1>2, <2>3, ClientTurn, CalmTypes, TypePartsNext
<1>3. CASE Second
  <2>1. UNCHANGED <<call, slots>>
    BY <1>3 DEF Second
  <2>2. Cooldowns'
    <3>1. cooldown \in [Host -> 0..MaxWait] /\ exempt \in [Host -> SUBSET Call] /\ MaxWait \in Nat
      BY ClientAssumption DEF TypeInv, TypeOK, ClientTypeOK
    <3>2. /\ cooldown' = [h \in Host |-> IF Limited(h) THEN cooldown[h] - 1 ELSE 0]
          /\ exempt' = [h \in Host |-> IF cooldown[h] > 1 THEN exempt[h] ELSE {}]
      BY <1>3 DEF Second
    <3>3. \A h \in Host : (IF Limited(h) THEN cooldown[h] - 1 ELSE 0) \in 0..MaxWait
      BY <3>1 DEF Limited
    <3>4. \A h \in Host : (IF cooldown[h] > 1 THEN exempt[h] ELSE {}) \in SUBSET Call
      BY <3>1
    <3>. QED  BY <3>2, <3>3, <3>4 DEF Cooldowns
  <2>3. call' \in [Call -> Request] /\ InStep' /\ SlotsTrue'
    BY <1>1, <2>1, TypeParts DEF InStep, SlotsTrue, Holding, Comments
  <2>. QED  BY <1>1, <2>2, <2>3, TypePartsNext
<1>. QED  BY <1>2, <1>3

(* What the platform may have done, as far as the call is concerned.       *)
LEMMA PlatformTurn ==
  ASSUME TypeInv, NEW c \in Call, PlatformAnswers(c)
  PROVE  \E new, code :
           /\ Heard(c, new, code)
           /\ \/ code \in {"CANCELLED", "NETWORK", "UPSTREAM"} \cup MayPost /\ (Post(c) \/ UNCHANGED posted)
              \/ code = "OK" /\ Post(c)
              \/ UNCHANGED posted /\ code # "OK"
<1>1. CASE (Lost(c) \/ ServerError(c)) /\ (Post(c) \/ UNCHANGED posted)
  BY <1>1, LostTurn
<1>2. CASE TooMany(c) /\ UNCHANGED posted
  BY <1>2, TooManyTurn
<1>3. ASSUME NEW verdict \in Verdicts, Answer(c, verdict),
             (verdict \in MayPost \cup {"OK"} /\ Post(c)) \/ (verdict # "OK" /\ UNCHANGED posted)
      PROVE  \E new, code :
           /\ Heard(c, new, code)
           /\ \/ code \in {"CANCELLED", "NETWORK", "UPSTREAM"} \cup MayPost /\ (Post(c) \/ UNCHANGED posted)
              \/ code = "OK" /\ Post(c)
              \/ UNCHANGED posted /\ code # "OK"
  <2>1. PICK new : Heard(c, new, verdict)
    BY <1>3, AnswerTurn
  <2>. QED  BY <1>3, <2>1
<1>. QED  BY <1>1, <1>2, <1>3 DEF PlatformAnswers

LEMMA OutTypes ==
  ASSUME TypeInv, NEW c \in Call, GoOut(c) \/ PlatformAnswers(c)
  PROVE  TypeInv'
<1>1. UNCHANGED <<serviceVars, op, clicked, told, seen, given>>
  BY DEF GoOut, PlatformAnswers
<1>2. UNCHANGED <<op, epoch>> /\ op' \in [Call -> Op]
  BY <1>1 DEF serviceVars, TypeInv, TypeOK
<1>3. CASE GoOut(c)
  <2>1. Send(c) /\ posted' = posted
    BY <1>3 DEF GoOut
  <2>2. Calm /\ \E new : Turns(c, new) /\ Balanced(c, new) /\ Keeps(c, new) /\ new.phase = "wire"
    BY <2>1, SendTurn
  <2>3. PICK new : Turns(c, new) /\ Balanced(c, new) /\ Keeps(c, new) /\ new.phase = "wire"
    BY <2>2
  <2>4. call' \in [Call -> Request] /\ InStep' /\ SlotsTrue'
    BY <1>2, <2>3, OnTurn
  <2>5. sent' \in [Click -> Nat]
    <3>1. sent' = sent \/ sent' = [sent EXCEPT ![op[c].click] = @ + 1]
      BY <1>3 DEF GoOut
    <3>. QED  BY <3>1 DEF TypeInv, TypeOK
  <2>6. ServiceTypes'
    BY <1>1, <2>1, <2>5, TypeParts DEF ServiceTypes, serviceVars, EpochsPast
  <2>. QED  BY <1>2, <2>2, <2>4, <2>6, CalmTypes, TypePartsNext
<1>4. CASE PlatformAnswers(c)
  <2>1. PICK new, code : Heard(c, new, code) /\ (Post(c) \/ UNCHANGED posted)
    BY <1>4, PlatformTurn
  <2>2. new.phase = "backoff" => call[c].attempt + 1 < Attempts
    BY <2>1 DEF Heard
  <2>3. /\ call' \in [Call -> Request] /\ InStep' /\ SlotsTrue'
        /\ op[c].stage = "calling" /\ op[c].kind # "none"
    BY <1>2, <2>1, <2>2, OnTurn DEF Heard
  <2>4. Comments(c) => op[c].click \in Click
    BY DEF TypeInv, InStep
  <2>5. posted' \subseteq Click
    BY <2>1, <2>4 DEF Post, TypeInv, TypeOK
  <2>6. sent' = sent
    BY <1>4 DEF PlatformAnswers
  <2>7. ServiceTypes'
    BY <1>1, <2>5, <2>6, TypeParts DEF ServiceTypes, serviceVars, EpochsPast
  <2>8. Cooldowns'
    <3>1. CASE Calm
      BY <3>1, CalmTypes
    <3>2. CASE TooMany(c)
      <4>1. /\ call[c].host \in Host
            /\ \E wait \in 1..MaxWait : cooldown' = [cooldown EXCEPT ![call[c].host] = wait]
            /\ exempt' = [exempt EXCEPT ![call[c].host] =
                 {d \in Call : call[d].phase = "clear" /\ call[d].host = call[c].host}]
        BY <3>2, TooManyTurn
      <4>2. \A wait \in 1..MaxWait : wait \in 0..MaxWait
        BY ClientAssumption
      <4>3. cooldown \in [Host -> 0..MaxWait] /\ exempt \in [Host -> SUBSET Call]
        BY DEF TypeInv, TypeOK, ClientTypeOK
      <4>4. cooldown' \in [Host -> 0..MaxWait]
        BY <4>1, <4>2, <4>3
      <4>. QED  BY <4>1, <4>3, <4>4 DEF Cooldowns
    <3>3. Calm \/ TooMany(c)
      BY <1>4, LostTurn, AnswerTurn DEF PlatformAnswers
    <3>. QED  BY <3>1, <3>2, <3>3
  <2>. QED  BY <1>2, <2>3, <2>7, <2>8, TypePartsNext
<1>. QED  BY <1>3, <1>4

LEMMA AdmitTypes ==
  ASSUME TypeInv, NEW c \in Call,
         \/ \E click \in Click, target \in Comment \cup {None} : AdmitComment(c, click, target)
         \/ \E g \in 1..MaxGeneration : AdmitSearch(c, g)
  PROVE  TypeInv'
<1>1. CASE \E click \in Click, target \in Comment \cup {None} : AdmitComment(c, click, target)
  <2>1. PICK click \in Click, target \in Comment \cup {None} : AdmitComment(c, click, target)
    BY <1>1
  <2>. DEFINE o == [NoOp EXCEPT !.kind = "comment", !.epoch = epoch, !.click = click, !.target = target]
  <2>2. /\ op[c].kind = "none" /\ op' = [op EXCEPT ![c] = o] /\ UNCHANGED clientVars /\ epoch' = epoch
    BY <2>1 DEF AdmitComment
  <2>3. o \in Op /\ o.stage = "admitted" /\ o.kind = "comment" /\ o.epoch = epoch /\ o.click = click
    BY NoOpShape, Epochs DEF Op
  <2>. HIDE DEF o
  <2>4. UNCHANGED <<call, slots, epoch>> /\ UNCHANGED <<cooldown, exempt>>
    BY <2>2 DEF clientVars
  <2>5. op' \in [Call -> Op] /\ call' \in [Call -> Request] /\ InStep' /\ SlotsTrue'
    BY <2>2, <2>3, <2>4, AdmitTurn
  <2>6. ServiceTypes'
    <3>1. /\ UNCHANGED <<epoch, account, readEpoch, targets, searchEpoch, generation, sent, posted, told, seen, given>>
          /\ commentEpoch' = epoch /\ attempts' = OfEpoch(attempts) \cup {click} /\ busy' = TRUE
          /\ clicked' = [clicked EXCEPT ![click] = epoch]
      BY <2>1 DEF AdmitComment
    <3>2. epoch \in 0..MaxEpoch
      BY Epochs, TypeParts DEF ServiceTypes
    <3>3. EpochsPast'
      BY <3>1, Epochs DEF EpochsPast
    <3>4. attempts' \subseteq Click /\ clicked' \in [Click -> 0..MaxEpoch]
      BY <3>1, <3>2, TypeParts DEF ServiceTypes, OfEpoch
    <3>. QED  BY <3>1, <3>2, <3>3, <3>4, TypeParts DEF ServiceTypes
  <2>7. Cooldowns'
    BY <2>4, CalmTypes DEF Calm
  <2>. QED  BY <2>5, <2>6, <2>7, TypePartsNext
<1>2. CASE \E g \in 1..MaxGeneration : AdmitSearch(c, g)
  <2>1. PICK g \in 1..MaxGeneration : AdmitSearch(c, g)
    BY <1>2
  <2>. DEFINE o == [NoOp EXCEPT !.kind = "search", !.epoch = epoch, !.generation = g]
  <2>2. /\ op[c].kind = "none" /\ op' = [op EXCEPT ![c] = o] /\ UNCHANGED clientVars /\ epoch' = epoch
    BY <2>1 DEF AdmitSearch
  <2>0. g \in Nat /\ g \in 0..MaxGeneration
    BY Epochs
  <2>3. o \in Op /\ o.stage = "admitted" /\ o.kind = "search" /\ o.epoch = epoch
    BY <2>0, NoOpShape, Epochs DEF Op
  <2>. HIDE DEF o
  <2>4. UNCHANGED <<call, slots, epoch>> /\ UNCHANGED <<cooldown, exempt>>
    BY <2>2 DEF clientVars
  <2>5. op' \in [Call -> Op] /\ call' \in [Call -> Request] /\ InStep' /\ SlotsTrue'
    BY <2>2, <2>3, <2>4, AdmitTurn
  <2>6. ServiceTypes'
    <3>1. /\ UNCHANGED <<epoch, account, commentEpoch, attempts, busy, readEpoch, targets>>
          /\ UNCHANGED historyVars /\ searchEpoch' = epoch /\ generation' = g
      BY <2>1 DEF AdmitSearch
    <3>2. epoch \in 0..MaxEpoch
      BY Epochs, TypeParts DEF ServiceTypes
    <3>3. EpochsPast'
      BY <3>1, Epochs DEF EpochsPast
    <3>. QED  BY <2>0, <3>1, <3>2, <3>3, TypeParts DEF ServiceTypes, historyVars
  <2>7. Cooldowns'
    BY <2>4, CalmTypes DEF Calm
  <2>. QED  BY <2>5, <2>6, <2>7, TypePartsNext
<1>. QED  BY <1>1, <1>2

LEMMA CallingShape ==
  ASSUME TypeInv, NEW c \in Call, Calling(c)
  PROVE  LET o == [op[c] EXCEPT !.stage = "calling"] IN
         /\ o \in Op /\ op' = [op EXCEPT ![c] = o] /\ o.stage = "calling"
         /\ o.kind = op[c].kind /\ o.epoch = op[c].epoch /\ o.click = op[c].click
         /\ o.target = op[c].target /\ o.generation = op[c].generation
<1>1. op[c] \in Op /\ op \in [Call -> Op]
  BY DEF TypeInv, TypeOK
<1>. QED  BY <1>1 DEF Calling, Op

LEMMA BeginTypes ==
  ASSUME TypeInv, NEW c \in Call, epoch' = epoch, NEW read \in BOOLEAN,
         op[c].kind # "none", op[c].stage = "admitted", Calling(c), RequestBegins(c, Api, read)
  PROVE  /\ op' \in [Call -> Op] /\ call' \in [Call -> Request] /\ InStep' /\ SlotsTrue' /\ Cooldowns'
         /\ op'[c].kind = op[c].kind /\ op'[c].epoch = op[c].epoch /\ op'[c].click = op[c].click
         /\ op'[c].generation = op[c].generation
         /\ \A d \in Call \ {c} : op'[d] = op[d] /\ call'[d] = call[d]
         /\ \/ call'[c].phase = "queued" /\ call'[c].read = read
            \/ call'[c].phase = "done" /\ call'[c].code = "RATE_LIMIT" /\ ~call'[c].read
<1>. DEFINE o == [op[c] EXCEPT !.stage = "calling"]
<1>1. /\ o \in Op /\ op' = [op EXCEPT ![c] = o] /\ o.stage = "calling"
      /\ o.kind = op[c].kind /\ o.epoch = op[c].epoch /\ o.click = op[c].click
      /\ o.generation = op[c].generation
  BY CallingShape
<1>2. /\ call[c].phase = "idle" /\ op[c].epoch \in 1..epoch
      /\ op[c].kind = "comment" => op[c].click \in Click
  BY DEF TypeInv, InStep, Comments
<1>. HIDE DEF o
<1>3. o.kind # "none" /\ o.epoch \in 1..epoch /\ (o.kind = "comment" => o.click \in Click)
  BY <1>1, <1>2
<1>4. MadeFor(c, o)
  BY <1>1, <1>3 DEF MadeFor
<1>5. call[c].phase = "idle"
  BY <1>2
<1>6. /\ op' \in [Call -> Op] /\ call' \in [Call -> Request] /\ InStep' /\ SlotsTrue' /\ Calm
      /\ op'[c] = o /\ \A d \in Call \ {c} : op'[d] = op[d] /\ call'[d] = call[d]
      /\ \/ call'[c].phase = "queued" /\ call'[c].read = read
         \/ call'[c].phase = "done" /\ call'[c].code = "RATE_LIMIT" /\ ~call'[c].read
  BY <1>4, <1>5, CallTurn
<1>7. Cooldowns'
  BY <1>6, CalmTypes
<1>8. /\ op'[c].kind = op[c].kind /\ op'[c].epoch = op[c].epoch /\ op'[c].click = op[c].click
      /\ op'[c].generation = op[c].generation
  <2>1. op'[c] = o
    BY <1>6
  <2>. QED  BY <1>1, <2>1
<1>. QED  BY <1>6, <1>7, <1>8

LEMMA CallTypes ==
  ASSUME TypeInv, NEW c \in Call, CallComment(c) \/ CallSearch(c)
  PROVE  TypeInv'
<1>1. op[c].kind # "none" /\ op[c].stage = "admitted" /\ call[c].phase = "idle" /\ epoch' = epoch
  BY DEF CallComment, CallSearch, TypeInv, InStep, serviceVars
<1>2. ServiceTypes'
  <2>1. UNCHANGED <<epoch, account, commentEpoch, attempts, readEpoch, targets, searchEpoch, generation>>
        /\ UNCHANGED historyVars
    BY DEF CallComment, CallSearch, serviceVars
  <2>2. busy' \in BOOLEAN
    BY DEF CallComment, CallSearch, ReleaseComment, serviceVars, TypeInv, TypeOK
  <2>. QED  BY <2>1, <2>2, TypeParts DEF ServiceTypes, historyVars, EpochsPast
<1>3. CASE \E read \in BOOLEAN : Calling(c) /\ RequestBegins(c, Api, read)
  BY <1>1, <1>2, <1>3, BeginTypes, TypePartsNext
<1>4. CASE Done(c) /\ ClientKept
  <2>1. op' \in [Call -> Op] /\ call' \in [Call -> Request] /\ InStep' /\ SlotsTrue'
    BY <1>1, <1>4, DoneTurn
  <2>2. Cooldowns'
    BY <1>4, CalmTypes DEF ClientKept, Calm
  <2>. QED  BY <1>2, <2>1, <2>2, TypePartsNext
<1>. QED  BY <1>3, <1>4 DEF CallComment, CallSearch, ClientKept

LEMMA FinishTypes ==
  ASSUME TypeInv, NEW c \in Call, FinishComment(c) \/ FinishSearch(c) \/ FinishRead(c)
  PROVE  TypeInv'
<1>1. call[c].phase = "done" /\ Done(c) /\ ClientKept
  BY DEF FinishComment, FinishSearch, FinishRead, ClientKept
<1>2. epoch' = epoch
  BY DEF FinishComment, FinishSearch, FinishRead, serviceVars
<1>3. op' \in [Call -> Op] /\ call' \in [Call -> Request] /\ InStep' /\ SlotsTrue'
  BY <1>1, <1>2, DoneTurn
<1>4. Cooldowns'
  BY <1>1, CalmTypes DEF ClientKept, Calm
<1>5. CASE FinishComment(c)
  <2>1. told' \in [Click -> {"nothing", "posted", "uncertain", "refused"}]
    <3>1. told' = told \/ \E outcome \in {"posted", "uncertain", "refused"} : told' = [told EXCEPT ![op[c].click] = outcome]
      BY <1>5 DEF FinishComment, Outcomes
    <3>. QED  BY <3>1 DEF TypeInv, TypeOK
  <2>2. busy' \in BOOLEAN
    BY <1>5 DEF FinishComment, ReleaseComment, TypeInv, TypeOK
  <2>3. ServiceTypes'
    BY <1>5, <2>1, <2>2, TypeParts DEF FinishComment, ServiceTypes, EpochsPast
  <2>. QED  BY <1>3, <1>4, <2>3, TypePartsNext
<1>6. CASE FinishSearch(c)
  <2>1. given' \in 0..MaxGeneration
    BY <1>6 DEF FinishSearch, Wanted, TypeInv, TypeOK
  <2>2. ServiceTypes'
    BY <1>6, <2>1, TypeParts DEF FinishSearch, ServiceTypes, EpochsPast, serviceVars
  <2>. QED  BY <1>3, <1>4, <2>2, TypePartsNext
<1>7. CASE FinishRead(c)
  <2>1. /\ readEpoch' \in {readEpoch, epoch} /\ targets' \subseteq Comment /\ seen' \subseteq Comment
    BY <1>7 DEF FinishRead, Index, PageOf, TypeInv, TypeOK
  <2>2. ServiceTypes'
    BY <1>7, <2>1, TypeParts, Epochs DEF FinishRead, ServiceTypes, EpochsPast
  <2>. QED  BY <1>3, <1>4, <2>2, TypePartsNext
<1>. QED  BY <1>5, <1>6, <1>7

LEMMA ReadTypes ==
  ASSUME TypeInv, NEW c \in Call, NEW target \in Comment \cup {None}, ReadComments(c, target)
  PROVE  /\ TypeInv'
         /\ op'[c].kind = "read" /\ \A d \in Call \ {c} : op'[d] = op[d] /\ call'[d] = call[d]
         /\ call'[c].phase \in {"queued", "done"}
<1>. DEFINE o == [NoOp EXCEPT !.kind = "read", !.stage = "calling", !.epoch = epoch, !.target = target]
<1>1. /\ op[c].kind = "none" /\ op' = [op EXCEPT ![c] = o] /\ RequestBegins(c, Api, TRUE)
      /\ UNCHANGED serviceVars /\ UNCHANGED historyVars
  BY DEF ReadComments
<1>2. o \in Op /\ o.stage = "calling" /\ o.kind = "read" /\ o.epoch = epoch
  BY NoOpShape, Epochs DEF Op
<1>3. call[c].phase = "idle" /\ epoch' = epoch
  BY <1>1 DEF TypeInv, InStep, serviceVars
<1>4. MadeFor(c, o)
  BY <1>1, <1>2, Epochs DEF MadeFor
<1>. HIDE DEF o
<1>5. /\ op' \in [Call -> Op] /\ call' \in [Call -> Request] /\ InStep' /\ SlotsTrue' /\ Calm
      /\ op'[c] = o /\ \A d \in Call \ {c} : op'[d] = op[d] /\ call'[d] = call[d]
      /\ \/ call'[c].phase = "queued" /\ call'[c].read = TRUE
         \/ call'[c].phase = "done" /\ call'[c].code = "RATE_LIMIT" /\ ~call'[c].read
  BY <1>1, <1>3, <1>4, CallTurn
<1>. QED  BY <1>1, <1>2, <1>5, ServiceStays, CalmTypes, TypePartsNext

LEMMA LedgerFresh ==
  ASSUME TypeInv, Leave \/ \E who \in Account : Join(who)
  PROVE  /\ epoch' = epoch + 1 /\ seen' = {} /\ given' = 0
         /\ UNCHANGED clientVars /\ UNCHANGED <<op, clicked, sent, posted, told>>
         /\ commentEpoch' # epoch' /\ readEpoch' # epoch' /\ searchEpoch' # epoch'
         /\ ServiceTypes'
<1>1. /\ epoch' = epoch + 1 /\ seen' = {} /\ given' = 0 /\ epoch < MaxEpoch
      /\ UNCHANGED clientVars /\ UNCHANGED <<op, clicked, sent, posted, told>>
      /\ account' \in Account \cup {Guest}
  BY DEF Leave, Join, NewEpoch
<1>2. \/ UNCHANGED <<commentEpoch, attempts, busy, readEpoch, targets, searchEpoch, generation>>
      \/ /\ commentEpoch' = 0 /\ attempts' = {} /\ busy' = FALSE
         /\ readEpoch' = 0 /\ targets' = {}
         /\ searchEpoch' = 0 /\ generation' = 0
  BY DEF Leave, Join
<1>3. /\ commentEpoch' \in {0, commentEpoch} /\ readEpoch' \in {0, readEpoch}
      /\ searchEpoch' \in {0, searchEpoch} /\ generation' \in {0, generation}
      /\ attempts' \in {{}, attempts} /\ busy' \in {FALSE, busy} /\ targets' \in {{}, targets}
  BY <1>2
<1>4. epoch' \in 1..MaxEpoch
  BY <1>1, Epochs
<1>5. /\ EpochsPast'
      /\ commentEpoch' # epoch' /\ readEpoch' # epoch' /\ searchEpoch' # epoch'
  BY <1>1, <1>3, Epochs DEF EpochsPast
<1>6. /\ commentEpoch' \in 0..MaxEpoch /\ readEpoch' \in 0..MaxEpoch /\ searchEpoch' \in 0..MaxEpoch
      /\ generation' \in 0..MaxGeneration /\ given' \in 0..MaxGeneration
  BY <1>1, <1>3, Epochs DEF TypeInv, TypeOK
<1>7. /\ attempts' \subseteq Click /\ busy' \in BOOLEAN /\ targets' \subseteq Comment /\ seen' \subseteq Comment
  BY <1>1, <1>3 DEF TypeInv, TypeOK
<1>8. /\ clicked' \in [Click -> 0..MaxEpoch] /\ sent' \in [Click -> Nat] /\ posted' \subseteq Click
      /\ told' \in [Click -> {"nothing", "posted", "uncertain", "refused"}]
  BY <1>1 DEF TypeInv, TypeOK
<1>. QED  BY <1>1, <1>4, <1>5, <1>6, <1>7, <1>8 DEF ServiceTypes

LEMMA EpochTypes ==
  ASSUME TypeInv, Leave \/ \E who \in Account : Join(who)
  PROVE  TypeInv'
<1>1. UNCHANGED clientVars /\ op' = op /\ epoch' = epoch + 1 /\ ServiceTypes'
  BY LedgerFresh
<1>2. Cooldowns' /\ call' \in [Call -> Request] /\ SlotsTrue' /\ op' \in [Call -> Op]
  BY <1>1, TypeParts DEF clientVars, Cooldowns, SlotsTrue, Holding
<1>3. \A e \in 1..epoch : e \in 1..epoch'
  BY <1>1, Epochs
<1>4. InStep'
  BY <1>1, <1>3 DEF TypeInv, InStep, Comments, clientVars
<1>. QED  BY <1>1, <1>2, <1>4, TypePartsNext

LEMMA StepTypes == TypeInv /\ [Next]_vars => TypeInv'
<1>. SUFFICES ASSUME TypeInv, [Next]_vars PROVE TypeInv'
  OBVIOUS
<1>1. CASE UNCHANGED vars
  BY <1>1 DEF vars, clientVars, serviceVars, historyVars, TypeInv, TypeOK, ClientTypeOK, SlotsTrue, Holding,
              InStep, Comments, EpochsPast
<1>2. CASE \E c \in Call : ServiceStep(c)
  BY <1>2, AdmitTypes, ReadTypes, CallTypes, FinishTypes, OutTypes DEF ServiceStep
<1>3. CASE \/ \E c \in Call : ClientStep(c) /\ UNCHANGED <<serviceVars, op, historyVars>>
           \/ Second /\ UNCHANGED <<serviceVars, op, historyVars>>
  BY <1>3, ClientTypes
<1>4. CASE Leave \/ \E who \in Account : Join(who)
  BY <1>4, EpochTypes
<1>. QED  BY <1>1, <1>2, <1>3, <1>4 DEF Next

LEMMA InitTypes == Init => TypeInv
<1>. SUFFICES ASSUME Init PROVE TypeInv
  OBVIOUS
<1>1. /\ call = [c \in Call |-> NoRequest] /\ slots = 0
      /\ cooldown = [h \in Host |-> 0] /\ exempt = [h \in Host |-> {}]
      /\ op = [c \in Call |-> NoOp]
  BY DEF Init, ClientInit
<1>2. call \in [Call -> Request] /\ op \in [Call -> Op] /\ Cooldowns
  BY <1>1, NoOpShape, ClientAssumption DEF Cooldowns
<1>3. InStep
  BY <1>1, NoOpShape DEF InStep, Comments
<1>4. SlotsTrue
  <2>1. Holding = {}
    BY <1>1, NoOpShape DEF Holding
  <2>2. IsFiniteSet({}) /\ Cardinality({}) = 0
    BY FS_EmptySet
  <2>3. Slots \in Nat
    BY ClientAssumption
  <2>. QED  BY <1>1, <2>1, <2>2, <2>3 DEF SlotsTrue
<1>5. ServiceTypes
  <2>1. 1 \in 1..MaxEpoch /\ 0 \in 0..MaxEpoch /\ 0 \in 0..MaxGeneration
    BY CommunityAssumption
  <2>2. /\ epoch = 1 /\ account \in Account /\ commentEpoch = 0 /\ attempts = {} /\ busy = FALSE
        /\ readEpoch = 0 /\ targets = {} /\ searchEpoch = 0 /\ generation = 0
        /\ posted = {} /\ seen = {} /\ given = 0
    BY DEF Init
  <2>3. /\ clicked \in [Click -> 0..MaxEpoch] /\ sent \in [Click -> Nat]
        /\ told \in [Click -> {"nothing", "posted", "uncertain", "refused"}]
    BY <2>1 DEF Init
  <2>4. EpochsPast
    BY <2>2 DEF EpochsPast
  <2>. QED  BY <2>1, <2>2, <2>3, <2>4 DEF ServiceTypes
<1>. QED  BY <1>2, <1>3, <1>4, <1>5, TypeParts

(* Every slot that is taken is held by one call that is under way, in      *)
(* whatever order calls are limited, retried, cancelled or lost.           *)
THEOREM CommunitySlotsAreReturned == Spec => []SlotsAreReturned
<1>1. TypeInv => SlotsAreReturned
  BY DEF TypeInv, SlotsTrue, SlotsAreReturned
<1>. QED  BY <1>1, InitTypes, StepTypes, PTL DEF Spec

(* Every variable keeps its type; the epochs of the ledgers are none that  *)
(* have not begun, and there are never more slots taken than there are.    *)
THEOREM CommunityTypes == Spec => []TypeOK
<1>1. TypeInv => TypeOK
  BY DEF TypeInv
<1>. QED  BY <1>1, InitTypes, StepTypes, PTL DEF Spec

---------------------------------------------------------------------------
(* What the steps of the service do to the calls.                          *)

LEMMA AdmitCommentOutcome ==
  ASSUME TypeInv, NEW c \in Call, NEW click \in Click, NEW target, AdmitComment(c, click, target)
  PROVE  /\ op[c].kind = "none" /\ call[c].phase = "idle"
         /\ UNCHANGED clientVars /\ Calm
         /\ op'[c].kind = "comment" /\ op'[c].epoch = epoch /\ op'[c].click = click
         /\ \A d \in Call \ {c} : op'[d] = op[d]
<1>. DEFINE o == [NoOp EXCEPT !.kind = "comment", !.epoch = epoch, !.click = click, !.target = target]
<1>1. /\ op[c].kind = "none" /\ op' = [op EXCEPT ![c] = o] /\ UNCHANGED clientVars
  BY DEF AdmitComment
<1>2. o.kind = "comment" /\ o.epoch = epoch /\ o.click = click
  BY DEF NoOp
<1>. HIDE DEF o
<1>3. op \in [Call -> Op] /\ call[c].phase = "idle"
  BY <1>1 DEF TypeInv, TypeOK, InStep
<1>. QED  BY <1>1, <1>2, <1>3 DEF Calm, clientVars

LEMMA AdmitSearchOutcome ==
  ASSUME TypeInv, NEW c \in Call, NEW g, AdmitSearch(c, g)
  PROVE  /\ op[c].kind = "none" /\ UNCHANGED clientVars /\ Calm /\ UNCHANGED historyVars
         /\ op'[c].kind = "search"
         /\ \A d \in Call \ {c} : op'[d] = op[d]
<1>. DEFINE o == [NoOp EXCEPT !.kind = "search", !.epoch = epoch, !.generation = g]
<1>1. /\ op[c].kind = "none" /\ op' = [op EXCEPT ![c] = o] /\ UNCHANGED clientVars /\ UNCHANGED historyVars
  BY DEF AdmitSearch
<1>2. o.kind = "search"
  BY DEF NoOp
<1>. HIDE DEF o
<1>3. op \in [Call -> Op]
  BY DEF TypeInv, TypeOK
<1>. QED  BY <1>1, <1>2, <1>3 DEF Calm, clientVars

(* An admitted call makes its request or is dropped, a finished one is     *)
(* forgotten.                                                              *)
LEMMA CallOutcome ==
  ASSUME TypeInv, NEW c \in Call, CallComment(c) \/ CallSearch(c)
  PROVE  /\ Calm /\ epoch' = epoch /\ UNCHANGED historyVars /\ call[c].phase = "idle"
         /\ op[c].kind = (IF CallComment(c) THEN "comment" ELSE "search")
         /\ \A d \in Call \ {c} : op'[d] = op[d] /\ call'[d] = call[d]
         /\ \/ /\ op'[c].kind = op[c].kind /\ op'[c].epoch = op[c].epoch /\ op'[c].click = op[c].click
               /\ call'[c].phase \in {"queued", "done"}
               /\ CallComment(c) => ~call'[c].read /\ busy' = busy
               /\ call'[c].phase = "done" => call'[c].code = "RATE_LIMIT"
            \/ /\ op'[c].kind = "none" /\ call'[c].phase = "idle"
               /\ CallComment(c) => ReleaseComment(c)
<1>1. /\ epoch' = epoch /\ UNCHANGED historyVars
      /\ op[c].kind = (IF CallComment(c) THEN "comment" ELSE "search")
      /\ op[c].kind # "none" /\ op[c].stage = "admitted"
  BY DEF CallComment, CallSearch, serviceVars
<1>2. call[c].phase = "idle"
  BY <1>1 DEF TypeInv, InStep
<1>3. CASE Calling(c) /\ \E read \in BOOLEAN :
             RequestBegins(c, Api, read) /\ (CallComment(c) => ~read /\ busy' = busy)
  <2>1. PICK read \in BOOLEAN : Calling(c) /\ RequestBegins(c, Api, read) /\ (CallComment(c) => ~read /\ busy' = busy)
    BY <1>3
  <2>2. Calm
    BY <2>1 DEF RequestBegins, Calm
  <2>3. /\ op'[c].kind = op[c].kind /\ op'[c].epoch = op[c].epoch /\ op'[c].click = op[c].click
        /\ \A d \in Call \ {c} : op'[d] = op[d] /\ call'[d] = call[d]
        /\ \/ call'[c].phase = "queued" /\ call'[c].read = read
           \/ call'[c].phase = "done" /\ call'[c].code = "RATE_LIMIT" /\ ~call'[c].read
    BY <1>1, <2>1, BeginTypes
  <2>. QED  BY <1>1, <1>2, <2>1, <2>2, <2>3
<1>4. CASE Done(c) /\ ClientKept /\ (CallComment(c) => ReleaseComment(c))
  <2>1. /\ op'[c].kind = "none" /\ call'[c] = NoRequest
        /\ \A d \in Call \ {c} : op'[d] = op[d] /\ call'[d] = call[d]
    BY <1>1, <1>2, <1>4, DoneTurn
  <2>. QED  BY <1>1, <1>2, <1>4, <2>1, NoOpShape DEF ClientKept, Calm
<1>5. \/ Calling(c) /\ \E read \in BOOLEAN :
           RequestBegins(c, Api, read) /\ (CallComment(c) => ~read /\ busy' = busy)
      \/ Done(c) /\ ClientKept /\ (CallComment(c) => ReleaseComment(c))
  <2>1. ~(CallComment(c) /\ CallSearch(c))
    BY DEF CallComment, CallSearch
  <2>2. CASE CallComment(c)
    BY <2>2 DEF CallComment, ClientKept
  <2>3. CASE CallSearch(c)
    BY <2>1, <2>3 DEF CallSearch, ClientKept
  <2>. QED  BY <2>2, <2>3
<1>. QED  BY <1>3, <1>4, <1>5

LEMMA FinishOutcome ==
  ASSUME TypeInv, NEW c \in Call, FinishComment(c) \/ FinishSearch(c) \/ FinishRead(c)
  PROVE  /\ Calm /\ epoch' = epoch /\ call[c].phase = "done" /\ op[c].kind # "none"
         /\ UNCHANGED <<clicked, sent, posted>>
         /\ op'[c].kind = "none" /\ call'[c].phase = "idle"
         /\ \A d \in Call \ {c} : op'[d] = op[d] /\ call'[d] = call[d]
<1>1. call[c].phase = "done" /\ Done(c) /\ ClientKept /\ op[c].kind # "none"
      /\ UNCHANGED <<clicked, sent, posted>>
  BY DEF FinishComment, FinishSearch, FinishRead, ClientKept
<1>2. epoch' = epoch
  BY DEF FinishComment, FinishSearch, FinishRead, serviceVars
<1>3. /\ op'[c].kind = "none" /\ call'[c] = NoRequest
      /\ \A d \in Call \ {c} : op'[d] = op[d] /\ call'[d] = call[d]
  BY <1>1, <1>2, DoneTurn
<1>. QED  BY <1>1, <1>2, <1>3, NoOpShape DEF ClientKept, Calm

(* What the steps of a request under way do.                               *)
LEMMA RequestOutcome ==
  ASSUME TypeInv, NEW c \in Call, NEW new, Turns(c, new), Balanced(c, new), Keeps(c, new), UNCHANGED op
  PROVE  /\ call'[c] = new /\ \A d \in Call \ {c} : call'[d] = call[d]
         /\ op[c].kind # "none"
BY TurnedCalls DEF TypeInv, InStep, Keeps

---------------------------------------------------------------------------
(* Silence in a cooldown.                                                  *)

(* A call past its look either looked when there was no cooldown, or is    *)
(* one of those the 429 came too late for.                                 *)
LookedTrue ==
  \A c \in Call : call[c].phase = "clear" /\ Limited(call[c].host) => c \in exempt[call[c].host]

LEMMA LookedTurn ==
  ASSUME LookedTrue, Calm, NEW c \in Call, \A d \in Call \ {c} : call'[d] = call[d],
         call'[c].phase = "clear" =>
           /\ call[c].phase = "clear" \/ ~Limited(call[c].host)
           /\ call'[c].host = call[c].host
  PROVE  LookedTrue'
<1>1. ASSUME NEW d \in Call, call'[d].phase = "clear", cooldown'[call'[d].host] > 0
      PROVE  d \in exempt'[call'[d].host]
  <2>1. Limited(call'[d].host) /\ exempt' = exempt
    BY <1>1 DEF Limited, Calm
  <2>2. CASE d = c
    BY <1>1, <2>1, <2>2 DEF LookedTrue
  <2>3. CASE d # c
    BY <1>1, <2>1, <2>3 DEF LookedTrue
  <2>. QED  BY <2>2, <2>3
<1>. QED  BY <1>1 DEF LookedTrue, Limited

LEMMA StepLooked == TypeInv /\ LookedTrue /\ [Next]_vars => LookedTrue'
<1>. SUFFICES ASSUME TypeInv, LookedTrue, [Next]_vars PROVE LookedTrue'
  OBVIOUS
<1>1. CASE UNCHANGED clientVars
  BY <1>1 DEF clientVars, LookedTrue, Limited
<1>2. ASSUME NEW c \in Call, CallComment(c) \/ CallSearch(c)
      PROVE  LookedTrue'
  BY <1>2, CallOutcome, LookedTurn
<1>3. ASSUME NEW c \in Call, FinishComment(c) \/ FinishSearch(c) \/ FinishRead(c)
      PROVE  LookedTrue'
  BY <1>3, FinishOutcome, LookedTurn
<1>4. ASSUME NEW c \in Call, NEW target \in Comment \cup {None}, ReadComments(c, target)
      PROVE  LookedTrue'
  <2>1. Calm
    BY <1>4 DEF ReadComments, RequestBegins, Calm
  <2>. QED  BY <1>4, <2>1, ReadTypes, LookedTurn
<1>5. ASSUME NEW c \in Call, ClientStep(c), UNCHANGED op
      PROVE  LookedTrue'
  <2>1. PICK new : Alone(c, new)
    BY <1>5, ClientTurn
  <2>2. call'[c] = new /\ \A d \in Call \ {c} : call'[d] = call[d]
    BY <1>5, <2>1, RequestOutcome DEF Alone
  <2>. QED  BY <1>5, <2>1, <2>2, ClientTurn, LookedTurn DEF Alone, Keeps
<1>6. ASSUME NEW c \in Call, GoOut(c)
      PROVE  LookedTrue'
  <2>1. Send(c) /\ UNCHANGED op
    BY <1>6 DEF GoOut
  <2>2. PICK new : Turns(c, new) /\ Balanced(c, new) /\ Keeps(c, new) /\ new.phase = "wire"
    BY <2>1, SendTurn
  <2>3. call'[c] = new /\ \A d \in Call \ {c} : call'[d] = call[d]
    BY <2>1, <2>2, RequestOutcome
  <2>. QED  BY <2>1, <2>2, <2>3, SendTurn, LookedTurn
<1>7. ASSUME NEW c \in Call, PlatformAnswers(c)
      PROVE  LookedTrue'
  <2>1. PICK new, code : Heard(c, new, code)
    BY <1>7, PlatformTurn
  <2>2. UNCHANGED op
    BY <1>7 DEF PlatformAnswers
  <2>3. /\ call'[c] = new /\ new.phase \in {"backoff", "done"} /\ call[c].phase = "wire"
        /\ \A d \in Call \ {c} : call'[d] = call[d]
    BY <2>1, <2>2, RequestOutcome DEF Heard
  <2>4. CASE Calm
    BY <2>3, <2>4, LookedTurn
  <2>5. CASE TooMany(c)
    <3>. DEFINE host == call[c].host
    <3>1. /\ host \in Host
          /\ \E wait \in 1..MaxWait : cooldown' = [cooldown EXCEPT ![host] = wait]
          /\ exempt' = [exempt EXCEPT ![host] = {d \in Call : call[d].phase = "clear" /\ call[d].host = host}]
      BY <2>5, TooManyTurn
    <3>2. cooldown \in [Host -> 0..MaxWait] /\ exempt \in [Host -> SUBSET Call]
      BY DEF TypeInv, TypeOK, ClientTypeOK
    <3>3. ASSUME NEW d \in Call, call'[d].phase = "clear", cooldown'[call'[d].host] > 0
          PROVE  d \in exempt'[call'[d].host]
      <4>1. d # c /\ call'[d] = call[d] /\ call[d].phase = "clear"
        BY <2>3, <3>3
      <4>2. call[d].host \in Host
        BY <4>1 DEF TypeInv, InStep
      <4>3. CASE call[d].host = host
        BY <3>1, <3>2, <4>1, <4>3
      <4>4. CASE call[d].host # host
        <5>1. cooldown'[call[d].host] = cooldown[call[d].host] /\ exempt'[call[d].host] = exempt[call[d].host]
          BY <3>1, <3>2, <4>2, <4>4
        <5>2. Limited(call[d].host)
          BY <3>3, <4>1, <5>1 DEF Limited
        <5>. QED  BY <4>1, <5>1, <5>2 DEF LookedTrue
      <4>. QED  BY <4>3, <4>4
    <3>. QED  BY <3>3 DEF LookedTrue, Limited
  <2>. QED  BY <1>7, <2>4, <2>5, LostTurn, AnswerTurn DEF PlatformAnswers
<1>8. CASE Second
  <2>1. /\ call' = call
        /\ cooldown' = [h \in Host |-> IF Limited(h) THEN cooldown[h] - 1 ELSE 0]
        /\ exempt' = [h \in Host |-> IF cooldown[h] > 1 THEN exempt[h] ELSE {}]
    BY <1>8 DEF Second
  <2>2. ASSUME NEW d \in Call, call[d].phase = "clear", cooldown'[call[d].host] > 0
        PROVE  d \in exempt'[call[d].host]
    <3>. DEFINE host == call[d].host
    <3>1. host \in Host /\ cooldown[host] \in Nat
      BY <2>2, ClientAssumption DEF TypeInv, TypeOK, ClientTypeOK, InStep
    <3>2. Limited(host) /\ cooldown[host] > 1
      BY <2>1, <2>2, <3>1 DEF Limited
    <3>. QED  BY <2>1, <2>2, <3>1, <3>2 DEF LookedTrue
  <2>. QED  BY <2>1, <2>2 DEF LookedTrue, Limited
<1>9. ASSUME NEW c \in Call, ServiceStep(c)
      PROVE  LookedTrue'
  <2>1. CASE \/ \E click \in Click, target \in Comment \cup {None} : AdmitComment(c, click, target)
             \/ \E g \in 1..MaxGeneration : AdmitSearch(c, g)
    BY <1>1, <2>1 DEF AdmitComment, AdmitSearch
  <2>. QED  BY <1>2, <1>3, <1>4, <1>6, <1>7, <1>9, <2>1 DEF ServiceStep
<1>10. CASE UNCHANGED vars \/ Leave \/ \E who \in Account : Join(who)
  <2>1. UNCHANGED clientVars
    BY <1>10, LedgerFresh DEF vars
  <2>. QED  BY <1>1, <2>1
<1>. QED  BY <1>5, <1>8, <1>9, <1>10 DEF Next

LEMMA InitLooked == Init => LookedTrue
<1>. SUFFICES ASSUME Init, NEW c \in Call PROVE call[c].phase # "clear"
  BY DEF LookedTrue
<1>1. call[c] = NoRequest
  BY DEF Init, ClientInit
<1>. QED  BY <1>1, NoOpShape

(* Nothing goes out to a host in its cooldown, except what had looked just *)
(* before the 429 that began it came.                                      *)
THEOREM CommunityQuietInCooldown == Spec => QuietInCooldown
<1>1. LookedTrue /\ [Next]_vars =>
        [\A c \in Call :
           call[c].phase = "clear" /\ call'[c].phase = "wire" /\ Limited(call[c].host)
             => c \in exempt[call[c].host]]_clientVars
  BY DEF LookedTrue
<1>. QED  BY <1>1, InitTypes, StepTypes, InitLooked, StepLooked, PTL DEF Spec, QuietInCooldown

---------------------------------------------------------------------------
(* Searches and replies.                                                   *)

(* The last search that was answered is none, or one of this epoch that is *)
(* no newer than the page wants.                                           *)
GivenTrue == given = 0 \/ (searchEpoch = epoch /\ given <= generation)

LEMMA GivenFrame ==
  ASSUME GivenTrue, UNCHANGED <<given, searchEpoch, epoch, generation>>
  PROVE  GivenTrue'
BY DEF GivenTrue

(* What the steps that are not of a search leave alone.                    *)
LEMMA SearchKept ==
  ASSUME [Next]_vars
  PROVE  \/ UNCHANGED <<given, searchEpoch, epoch, generation>>
         \/ \E c \in Call : FinishSearch(c) \/ \E g \in 1..MaxGeneration : AdmitSearch(c, g)
         \/ Leave \/ \E who \in Account : Join(who)
<1>1. CASE UNCHANGED vars
  BY <1>1 DEF vars, serviceVars, historyVars
<1>2. ASSUME NEW c \in Call, ServiceStep(c), ~FinishSearch(c), ~\E g \in 1..MaxGeneration : AdmitSearch(c, g)
      PROVE  UNCHANGED <<given, searchEpoch, epoch, generation>>
  BY <1>2 DEF ServiceStep, AdmitComment, ReadComments, CallComment, FinishComment, CallSearch, FinishRead,
              GoOut, PlatformAnswers, serviceVars, historyVars
<1>3. CASE UNCHANGED <<serviceVars, op, historyVars>>
  BY <1>3 DEF serviceVars, historyVars
<1>. QED  BY <1>1, <1>2, <1>3 DEF Next

LEMMA StepGiven == TypeInv /\ GivenTrue /\ [Next]_vars => GivenTrue' /\ (epoch' = epoch => given' >= given)
<1>. SUFFICES ASSUME TypeInv, GivenTrue, [Next]_vars
              PROVE  GivenTrue' /\ (epoch' = epoch => given' >= given)
  OBVIOUS
<1>1. CASE UNCHANGED <<given, searchEpoch, epoch, generation>>
  BY <1>1, Epochs, GivenFrame
<1>2. ASSUME NEW c \in Call, FinishSearch(c)
      PROVE  GivenTrue' /\ given' >= given
  <2>1. UNCHANGED <<searchEpoch, epoch, generation>>
        /\ (given' = given \/ (given' = generation /\ searchEpoch = epoch))
    BY <1>2 DEF FinishSearch, Wanted, serviceVars
  <2>. QED  BY <2>1, Epochs DEF GivenTrue
<1>3. ASSUME NEW c \in Call, NEW g \in 1..MaxGeneration, AdmitSearch(c, g)
      PROVE  GivenTrue' /\ given' >= given
  <2>1. /\ given' = given /\ searchEpoch' = epoch /\ epoch' = epoch /\ generation' = g
        /\ searchEpoch # epoch \/ g > generation
    BY <1>3 DEF AdmitSearch, Newer, historyVars
  <2>. QED  BY <2>1, Epochs DEF GivenTrue
<1>4. CASE Leave \/ \E who \in Account : Join(who)
  BY <1>4, LedgerFresh, Epochs DEF GivenTrue
<1>. QED  BY <1>1, <1>2, <1>3, <1>4, SearchKept

(* A page of results never replaces that of a newer search of the epoch.   *)
THEOREM CommunitySearchesAnswerInOrder == Spec => SearchesAnswerInOrder
<1>1. Init => GivenTrue
  BY DEF Init, GivenTrue
<1>2. TypeInv /\ GivenTrue /\ [Next]_vars => [epoch' = epoch => given' >= given]_vars
  BY StepGiven
<1>. QED  BY <1>1, <1>2, InitTypes, StepTypes, StepGiven, PTL DEF Spec, SearchesAnswerInOrder

LEMMA StepTargets == TypeInv /\ TargetsWereRead /\ [Next]_vars => TargetsWereRead'
<1>. SUFFICES ASSUME TypeInv, TargetsWereRead, [Next]_vars PROVE TargetsWereRead'
  OBVIOUS
<1>1. CASE UNCHANGED <<readEpoch, epoch, targets, seen>>
  BY <1>1 DEF TargetsWereRead
<1>2. ASSUME NEW c \in Call, FinishRead(c)
      PROVE  TargetsWereRead'
  <2>1. CASE UNCHANGED <<readEpoch, targets, seen>>
    BY <1>2, <2>1 DEF FinishRead, TargetsWereRead
  <2>2. CASE \E page : targets' = Index(page) /\ seen' = seen \cup page
    BY <2>2 DEF Index, TargetsWereRead
  <2>. QED  BY <1>2, <2>1, <2>2 DEF FinishRead
<1>3. CASE Leave \/ \E who \in Account : Join(who)
  BY <1>3, LedgerFresh DEF TargetsWereRead
<1>4. \/ UNCHANGED <<readEpoch, epoch, targets, seen>>
      \/ \E c \in Call : FinishRead(c)
      \/ Leave \/ \E who \in Account : Join(who)
  <2>1. CASE UNCHANGED vars
    BY <2>1 DEF vars, serviceVars, historyVars
  <2>2. ASSUME NEW c \in Call, ServiceStep(c), ~FinishRead(c)
        PROVE  UNCHANGED <<readEpoch, epoch, targets, seen>>
    BY <2>2 DEF ServiceStep, AdmitComment, AdmitSearch, ReadComments, CallComment, FinishComment, CallSearch,
                FinishSearch, GoOut, PlatformAnswers, serviceVars, historyVars
  <2>3. CASE UNCHANGED <<serviceVars, op, historyVars>>
    BY <2>3 DEF serviceVars, historyVars
  <2>. QED  BY <2>1, <2>2, <2>3 DEF Next
<1>. QED  BY <1>1, <1>2, <1>3, <1>4

---------------------------------------------------------------------------
(* One comment at a time, and each once.                                   *)

(* Who is at work on a comment of this epoch.                              *)
AtWork == {c \in Call : Comments(c) /\ AtEpoch(c)}

BusyTrue == IF commentEpoch = epoch /\ busy THEN \E c \in Call : AtWork = {c} ELSE AtWork = {}

(* A click is admitted once: later deliveries find it in the ledger while  *)
(* the epoch lasts, and belong to another epoch after it.                  *)
ClicksTrue ==
  /\ \A k \in Click : clicked[k] <= epoch
  /\ \A k \in Click : clicked[k] = epoch => commentEpoch = epoch /\ k \in attempts
  /\ \A k \in Click : clicked[k] = 0 => sent[k] = 0 /\ k \notin posted /\ told[k] = "nothing"
  /\ \A c \in Call : Comments(c) => clicked[op[c].click] = op[c].epoch
  /\ \A c, d \in Call : Comments(c) /\ Comments(d) /\ op[c].click = op[d].click => c = d

(* What has become of the comment a call is at work on: it is not a read,  *)
(* so it is never tried again, and it has gone out only when it has left.  *)
Before == {"idle", "queued", "ready", "clear"}
Denied == Code \ (Uncertain \cup {"OK"})

CommentTrue(c) ==
  LET k == op[c].click IN
  /\ call[c].phase # "idle" => ~call[c].read
  /\ call[c].phase # "backoff"
  /\ told[k] = "nothing"
  /\ call[c].phase \in Before => sent[k] = 0
  /\ call[c].phase # "done" => k \notin posted
  /\ call[c].phase = "done" /\ call[c].code = "OK" => k \in posted
  /\ call[c].phase = "done" /\ call[c].code \in Denied => k \notin posted

CommentsTrue == \A c \in Call : Comments(c) => CommentTrue(c)

PostsInv == ClicksTrue /\ CommentsTrue /\ SentOnce /\ NeverDeniesWhatWasPosted

(* What a step leaves of the calls at work on a comment.                   *)
SameWork(c) ==
  /\ op'[c].kind = "comment" <=> Comments(c)
  /\ Comments(c) => op'[c].click = op[c].click /\ op'[c].epoch = op[c].epoch

WorkKept ==
  /\ UNCHANGED <<epoch, commentEpoch, busy, attempts, clicked, sent, posted, told>>
  /\ \A c \in Call : SameWork(c) /\ (Comments(c) => call'[c] = call[c])

(* A step of a call that is at no comment.                                 *)
LEMMA OtherWork ==
  ASSUME NEW c \in Call, ~Comments(c), op'[c].kind # "comment",
         \A d \in Call \ {c} : op'[d] = op[d] /\ call'[d] = call[d],
         UNCHANGED <<epoch, commentEpoch, busy, attempts, clicked, sent, posted, told>>
  PROVE  WorkKept
<1>1. ASSUME NEW d \in Call
      PROVE  SameWork(d) /\ (Comments(d) => call'[d] = call[d])
  BY <1>1 DEF SameWork, Comments
<1>. QED  BY <1>1 DEF WorkKept

(* What the request under way of a call does to its comment, if it is at   *)
(* one: all but the type of the operation stays.                           *)
RequestStep(c) ==
  \/ ClientStep(c) /\ UNCHANGED <<serviceVars, op, historyVars>>
  \/ GoOut(c)
  \/ PlatformAnswers(c)

LEMMA RequestWork ==
  ASSUME TypeInv, NEW c \in Call, RequestStep(c)
  PROVE  /\ UNCHANGED <<epoch, commentEpoch, busy, attempts, clicked, told, op>>
         /\ \A d \in Call \ {c} : call'[d] = call[d]
         /\ ~Comments(c) => UNCHANGED <<sent, posted>>
<1>1. UNCHANGED <<epoch, commentEpoch, busy, attempts, clicked, told, op>>
  BY DEF RequestStep, GoOut, PlatformAnswers, serviceVars, historyVars
<1>2. ~Comments(c) => UNCHANGED <<sent, posted>>
  BY DEF RequestStep, GoOut, PlatformAnswers, Post, historyVars
<1>3. UNCHANGED op
  BY <1>1
<1>4. \A d \in Call \ {c} : call'[d] = call[d]
  <2>1. CASE ClientStep(c)
    BY <1>3, <2>1, ClientTurn, RequestOutcome DEF Alone
  <2>2. CASE GoOut(c)
    BY <1>3, <2>2, SendTurn, RequestOutcome DEF GoOut
  <2>3. CASE PlatformAnswers(c)
    BY <1>3, <2>3, PlatformTurn, RequestOutcome DEF Heard
  <2>. QED  BY <2>1, <2>2, <2>3 DEF RequestStep
<1>. QED  BY <1>1, <1>2, <1>4

(* Every step, as far as comments are concerned.                           *)
LEMMA WorkSteps ==
  ASSUME TypeInv, [Next]_vars
  PROVE  \/ \E c \in Call, click \in Click, target \in Comment \cup {None} : AdmitComment(c, click, target)
         \/ \E c \in Call : CallComment(c) \/ FinishComment(c)
         \/ \E c \in Call : Comments(c) /\ RequestStep(c)
         \/ Leave \/ \E who \in Account : Join(who)
         \/ WorkKept
<1>1. CASE UNCHANGED vars \/ (Second /\ UNCHANGED <<serviceVars, op, historyVars>>)
  <2>1. UNCHANGED <<epoch, commentEpoch, busy, attempts, clicked, sent, posted, told>> /\ UNCHANGED <<op, call>>
    BY <1>1 DEF vars, clientVars, serviceVars, historyVars, Second
  <2>. QED  BY <2>1 DEF WorkKept, SameWork, Comments
<1>2. ASSUME NEW c \in Call, CallSearch(c)
      PROVE  WorkKept
  <2>1. op[c].kind = "search" /\ ~CallComment(c)
        /\ UNCHANGED <<epoch, commentEpoch, busy, attempts, clicked, sent, posted, told>>
    BY <1>2 DEF CallSearch, CallComment, serviceVars, historyVars
  <2>. QED  BY <1>2, <2>1, CallOutcome, OtherWork DEF Comments
<1>3. ASSUME NEW c \in Call, FinishSearch(c) \/ FinishRead(c)
      PROVE  WorkKept
  <2>1. op[c].kind \in {"search", "read"}
        /\ UNCHANGED <<epoch, commentEpoch, busy, attempts, clicked, sent, posted, told>>
    BY <1>3 DEF FinishSearch, FinishRead, serviceVars
  <2>. QED  BY <1>3, <2>1, FinishOutcome, OtherWork DEF Comments
<1>4. ASSUME NEW c \in Call, NEW g \in 1..MaxGeneration, AdmitSearch(c, g)
      PROVE  WorkKept
  <2>1. UNCHANGED <<epoch, commentEpoch, busy, attempts, clicked, sent, posted, told>> /\ call' = call
    BY <1>4 DEF AdmitSearch, historyVars, clientVars
  <2>. QED  BY <1>4, <2>1, AdmitSearchOutcome, OtherWork DEF Comments
<1>5. ASSUME NEW c \in Call, NEW target \in Comment \cup {None}, ReadComments(c, target)
      PROVE  WorkKept
  <2>1. op[c].kind = "none" /\ UNCHANGED <<epoch, commentEpoch, busy, attempts, clicked, sent, posted, told>>
    BY <1>5 DEF ReadComments, serviceVars, historyVars
  <2>. QED  BY <1>5, <2>1, ReadTypes, OtherWork DEF Comments
<1>6. ASSUME NEW c \in Call, RequestStep(c), ~Comments(c)
      PROVE  WorkKept
  <2>1. /\ UNCHANGED <<epoch, commentEpoch, busy, attempts, clicked, told, op>>
        /\ \A d \in Call \ {c} : call'[d] = call[d]
        /\ UNCHANGED <<sent, posted>>
    BY <1>6, RequestWork
  <2>2. UNCHANGED <<epoch, commentEpoch, busy, attempts, clicked, sent, posted, told>> /\ op' = op
    BY <2>1
  <2>. QED  BY <1>6, <2>1, <2>2, OtherWork DEF Comments
<1>. QED  BY <1>1, <1>2, <1>3, <1>4, <1>5, <1>6 DEF Next, ServiceStep, RequestStep

LEMMA BusySame ==
  ASSUME BusyTrue, UNCHANGED <<epoch, commentEpoch, busy>>, \A c \in Call : SameWork(c)
  PROVE  BusyTrue'
<1>1. AtWork' = AtWork
  BY DEF AtWork, SameWork, Comments, AtEpoch
<1>. QED  BY <1>1 DEF BusyTrue

LEMMA BusyGone ==
  ASSUME TypeInv, BusyTrue, UNCHANGED <<epoch, commentEpoch>>, NEW c \in Call, Comments(c), ReleaseComment(c),
         op'[c].kind = "none", \A d \in Call \ {c} : op'[d] = op[d]
  PROVE  BusyTrue'
<1>1. AtWork' = AtWork \ {c}
  BY DEF AtWork, Comments, AtEpoch
<1>2. c \in AtWork <=> op[c].epoch = epoch
  BY DEF AtWork, AtEpoch
<1>3. CASE op[c].epoch = epoch
  <2>1. AtWork = {c} /\ commentEpoch = epoch
    BY <1>2, <1>3 DEF BusyTrue
  <2>2. busy' = FALSE
    BY <1>3, <2>1 DEF ReleaseComment
  <2>. QED  BY <1>1, <2>1, <2>2 DEF BusyTrue
<1>4. CASE op[c].epoch # epoch
  <2>1. AtWork' = AtWork
    BY <1>1, <1>2, <1>4
  <2>2. commentEpoch = epoch => busy' = busy
    BY <1>4 DEF ReleaseComment
  <2>. QED  BY <2>1, <2>2 DEF BusyTrue
<1>. QED  BY <1>3, <1>4

LEMMA StepBusy == TypeInv /\ BusyTrue /\ [Next]_vars => BusyTrue'
<1>. SUFFICES ASSUME TypeInv, BusyTrue, [Next]_vars PROVE BusyTrue'
  OBVIOUS
<1>1. CASE WorkKept
  BY <1>1, BusySame DEF WorkKept
<1>2. ASSUME NEW c \in Call, RequestStep(c)
      PROVE  BusyTrue'
  <2>1. UNCHANGED <<epoch, commentEpoch, busy>> /\ op' = op
    BY <1>2, RequestWork
  <2>. QED  BY <2>1, BusySame DEF SameWork, Comments
<1>3. ASSUME NEW c \in Call, NEW click \in Click, NEW target, AdmitComment(c, click, target)
      PROVE  BusyTrue'
  <2>1. epoch' = epoch /\ commentEpoch' = epoch /\ busy' = TRUE /\ ~(commentEpoch = epoch /\ busy)
    BY <1>3 DEF AdmitComment, Admits
  <2>2. AtWork = {}
    BY <2>1 DEF BusyTrue
  <2>3. AtWork' = {c}
    BY <1>3, <2>1, <2>2, AdmitCommentOutcome DEF AtWork, Comments, AtEpoch
  <2>. QED  BY <2>1, <2>3 DEF BusyTrue
<1>4. ASSUME NEW c \in Call, CallComment(c) \/ FinishComment(c)
      PROVE  BusyTrue'
  <2>1. Comments(c) /\ UNCHANGED <<epoch, commentEpoch>>
    BY <1>4 DEF CallComment, FinishComment, Comments
  <2>2. \A d \in Call \ {c} : op'[d] = op[d]
    BY <1>4, CallOutcome, FinishOutcome
  <2>3. \/ op'[c].kind = op[c].kind /\ op'[c].epoch = op[c].epoch /\ op'[c].click = op[c].click /\ busy' = busy
        \/ op'[c].kind = "none" /\ ReleaseComment(c)
    BY <1>4, CallOutcome, FinishOutcome DEF FinishComment
  <2>4. CASE op'[c].kind = op[c].kind /\ op'[c].epoch = op[c].epoch /\ op'[c].click = op[c].click /\ busy' = busy
    <3>1. \A d \in Call : SameWork(d)
      BY <2>2, <2>4 DEF SameWork, Comments
    <3>. QED  BY <2>1, <2>4, <3>1, BusySame
  <2>5. CASE op'[c].kind = "none" /\ ReleaseComment(c)
    BY <2>1, <2>2, <2>5, BusyGone
  <2>. QED  BY <2>3, <2>4, <2>5
<1>5. CASE Leave \/ \E who \in Account : Join(who)
  <2>1. epoch' = epoch + 1 /\ op' = op /\ commentEpoch' # epoch'
    BY <1>5, LedgerFresh
  <2>2. \A c \in Call : Comments(c) => op[c].epoch # epoch'
    <3>1. \A c \in Call : Comments(c) => op[c].epoch \in 1..epoch
      BY DEF Comments, TypeInv, InStep
    <3>. QED  BY <2>1, <3>1, Epochs
  <2>3. AtWork' = {}
    BY <2>1, <2>2 DEF AtWork, Comments, AtEpoch
  <2>. QED  BY <2>1, <2>3 DEF BusyTrue
<1>. QED  BY <1>1, <1>2, <1>3, <1>4, <1>5, WorkSteps

(* The ledger says that it is busy exactly while one call of this epoch is.*)
LEMMA BusyCounts == BusyTrue => BusyIsAtWork
<1>. SUFFICES ASSUME BusyTrue PROVE Cardinality(AtWork) = IF commentEpoch = epoch /\ busy THEN 1 ELSE 0
  BY DEF BusyIsAtWork, AtWork
<1>. QED  BY FS_Singleton, FS_EmptySet DEF BusyTrue

LEMMA PostParts ==
  ASSUME TypeInv, PostsInv
  PROVE  /\ \A k \in Click : clicked[k] \in Nat /\ clicked[k] <= epoch /\ sent[k] \in Nat /\ sent[k] <= 1
         /\ \A c \in Call : Comments(c) =>
              /\ op[c].click \in Click /\ op[c].epoch \in 1..epoch
              /\ clicked[op[c].click] = op[c].epoch /\ clicked[op[c].click] # 0
              /\ CommentTrue(c)
<1>1. \A k \in Click : clicked[k] \in Nat /\ clicked[k] <= epoch /\ sent[k] \in Nat /\ sent[k] <= 1
  BY CommunityAssumption DEF TypeInv, TypeOK, PostsInv, ClicksTrue, SentOnce
<1>2. \A c \in Call : Comments(c) => op[c].click \in Click /\ op[c].epoch \in 1..epoch
  BY DEF TypeInv, InStep, Comments
<1>3. \A c \in Call : Comments(c) => clicked[op[c].click] = op[c].epoch /\ CommentTrue(c)
  BY DEF PostsInv, ClicksTrue, CommentsTrue
<1>. QED  BY <1>1, <1>2, <1>3, Epochs

LEMMA PostsKept == PostsInv /\ WorkKept => PostsInv'
<1>. SUFFICES ASSUME PostsInv, WorkKept PROVE PostsInv'
  OBVIOUS
<1>1. ClicksTrue' /\ SentOnce' /\ NeverDeniesWhatWasPosted'
  BY DEF PostsInv, WorkKept, SameWork, ClicksTrue, SentOnce, NeverDeniesWhatWasPosted, Comments
<1>2. ASSUME NEW d \in Call, Comments(d)'
      PROVE  CommentTrue(d)'
  <2>1. Comments(d) /\ op'[d].click = op[d].click /\ call'[d] = call[d] /\ CommentTrue(d)
    BY <1>2 DEF PostsInv, CommentsTrue, WorkKept, SameWork, Comments
  <2>. QED  BY <2>1 DEF WorkKept, CommentTrue
<1>. QED  BY <1>1, <1>2 DEF PostsInv, CommentsTrue

(* A step of the request for one comment.                                  *)
LEMMA OneComment ==
  ASSUME TypeInv, PostsInv, NEW c \in Call, Comments(c), Comments(c)',
         op'[c].click = op[c].click, op'[c].epoch = op[c].epoch,
         \A d \in Call \ {c} : op'[d] = op[d] /\ call'[d] = call[d],
         UNCHANGED <<epoch, commentEpoch, attempts, clicked, told>>,
         \A k \in Click \ {op[c].click} : sent'[k] = sent[k] /\ (k \in posted' <=> k \in posted),
         sent'[op[c].click] <= 1, CommentTrue(c)'
  PROVE  PostsInv'
<1>. DEFINE k == op[c].click
<1>1. k \in Click /\ clicked[k] # 0 /\ told[k] = "nothing"
  BY PostParts DEF CommentTrue
<1>2. \A d \in Call \ {c} : Comments(d) => op[d].click # k
  BY DEF PostsInv, ClicksTrue
<1>3. \A d \in Call : (Comments(d)' <=> Comments(d)) /\ (Comments(d) => op'[d].click = op[d].click /\ op'[d].epoch = op[d].epoch)
  BY DEF Comments
<1>4. ClicksTrue'
  <2>1. /\ \A j \in Click : clicked'[j] <= epoch'
        /\ \A j \in Click : clicked'[j] = epoch' => commentEpoch' = epoch' /\ j \in attempts'
    BY DEF PostsInv, ClicksTrue
  <2>2. \A j \in Click : clicked'[j] = 0 => sent'[j] = 0 /\ j \notin posted' /\ told'[j] = "nothing"
    BY <1>1 DEF PostsInv, ClicksTrue
  <2>3. \A d \in Call : Comments(d)' => clicked'[op'[d].click] = op'[d].epoch
    BY <1>3 DEF PostsInv, ClicksTrue
  <2>4. \A d, e \in Call : Comments(d)' /\ Comments(e)' /\ op'[d].click = op'[e].click => d = e
    BY <1>3 DEF PostsInv, ClicksTrue
  <2>. QED  BY <2>1, <2>2, <2>3, <2>4 DEF ClicksTrue
<1>5. SentOnce'
  BY DEF PostsInv, SentOnce
<1>6. NeverDeniesWhatWasPosted'
  BY <1>1 DEF PostsInv, NeverDeniesWhatWasPosted
<1>7. ASSUME NEW d \in Call, Comments(d)'
      PROVE  CommentTrue(d)'
  <2>1. CASE d # c
    <3>1. Comments(d) /\ op'[d] = op[d] /\ call'[d] = call[d] /\ CommentTrue(d) /\ op[d].click \in Click \ {k}
      BY <1>2, <1>3, <1>7, <2>1, PostParts
    <3>2. sent'[op[d].click] = sent[op[d].click] /\ (op[d].click \in posted' <=> op[d].click \in posted)
          /\ told' = told
      BY <3>1
    <3>. QED  BY <3>1, <3>2 DEF CommentTrue
  <2>. QED  BY <2>1
<1>. QED  BY <1>4, <1>5, <1>6, <1>7 DEF PostsInv, CommentsTrue

(* A call that was at a comment is gone, and may have told how it ended.   *)
LEMMA CommentGone ==
  ASSUME TypeInv, PostsInv, NEW c \in Call, Comments(c), op'[c].kind = "none",
         \A d \in Call \ {c} : op'[d] = op[d] /\ call'[d] = call[d],
         UNCHANGED <<epoch, commentEpoch, attempts, clicked, sent, posted>>,
         NEW outcome \in {"nothing", "posted", "uncertain", "refused"},
         told' = told \/ told' = [told EXCEPT ![op[c].click] = outcome],
         outcome = "refused" => op[c].click \notin posted,
         outcome = "posted" => op[c].click \in posted
  PROVE  PostsInv'
<1>. DEFINE k == op[c].click
<1>1. k \in Click /\ clicked[k] # 0
  BY PostParts
<1>2. \A j \in Click \ {k} : told'[j] = told[j]
  BY DEF TypeInv, TypeOK
<1>3. told'[k] = told[k] \/ told'[k] = outcome
  BY <1>1 DEF TypeInv, TypeOK
<1>4. \A d \in Call : Comments(d)' => d # c /\ Comments(d) /\ op'[d] = op[d] /\ call'[d] = call[d]
  BY DEF Comments
<1>5. \A d \in Call \ {c} : Comments(d) => op[d].click # k
  BY DEF PostsInv, ClicksTrue
<1>6. ClicksTrue'
  <2>1. /\ \A j \in Click : clicked'[j] <= epoch'
        /\ \A j \in Click : clicked'[j] = epoch' => commentEpoch' = epoch' /\ j \in attempts'
    BY DEF PostsInv, ClicksTrue
  <2>2. \A j \in Click : clicked'[j] = 0 => sent'[j] = 0 /\ j \notin posted' /\ told'[j] = "nothing"
    BY <1>1, <1>2 DEF PostsInv, ClicksTrue
  <2>3. \A d \in Call : Comments(d)' => clicked'[op'[d].click] = op'[d].epoch
    BY <1>4 DEF PostsInv, ClicksTrue
  <2>4. \A d, e \in Call : Comments(d)' /\ Comments(e)' /\ op'[d].click = op'[e].click => d = e
    BY <1>4 DEF PostsInv, ClicksTrue
  <2>. QED  BY <2>1, <2>2, <2>3, <2>4 DEF ClicksTrue
<1>7. SentOnce'
  BY DEF PostsInv, SentOnce
<1>8. NeverDeniesWhatWasPosted'
  <2>1. \A j \in Click : (told[j] = "refused" => j \notin posted) /\ (told[j] = "posted" => j \in posted)
    BY DEF PostsInv, NeverDeniesWhatWasPosted
  <2>2. \A j \in Click : (told'[j] = "refused" => j \notin posted) /\ (told'[j] = "posted" => j \in posted)
    BY <1>2, <1>3, <2>1
  <2>. QED  BY <2>2 DEF NeverDeniesWhatWasPosted
<1>9. ASSUME NEW d \in Call, Comments(d)'
      PROVE  CommentTrue(d)'
  <2>1. Comments(d) /\ op'[d] = op[d] /\ call'[d] = call[d] /\ CommentTrue(d) /\ op[d].click \in Click \ {k}
    BY <1>4, <1>5, <1>9, PostParts
  <2>2. told'[op[d].click] = told[op[d].click] /\ sent' = sent /\ posted' = posted
    BY <1>2, <2>1
  <2>. QED  BY <2>1, <2>2 DEF CommentTrue
<1>. QED  BY <1>6, <1>7, <1>8, <1>9 DEF PostsInv, CommentsTrue

LEMMA AdmitPosts ==
  ASSUME TypeInv, PostsInv, NEW c \in Call, NEW k \in Click, NEW target, AdmitComment(c, k, target)
  PROVE  PostsInv'
<1>1. /\ clicked[k] \in {0, epoch} /\ k \notin OfEpoch(attempts)
      /\ epoch' = epoch /\ commentEpoch' = epoch /\ attempts' = OfEpoch(attempts) \cup {k}
      /\ clicked' = [clicked EXCEPT ![k] = epoch]
      /\ UNCHANGED clientVars /\ UNCHANGED <<sent, posted, told>>
  BY DEF AdmitComment, Admits
<1>2. /\ op[c].kind = "none" /\ call[c].phase = "idle" /\ call' = call
      /\ op'[c].kind = "comment" /\ op'[c].epoch = epoch /\ op'[c].click = k
      /\ \A d \in Call \ {c} : op'[d] = op[d]
  BY <1>1, AdmitCommentOutcome DEF clientVars
<1>3. clicked[k] = 0
  BY <1>1 DEF OfEpoch, PostsInv, ClicksTrue
<1>4. sent[k] = 0 /\ k \notin posted /\ told[k] = "nothing"
  BY <1>3 DEF PostsInv, ClicksTrue
<1>5. clicked'[k] = epoch /\ \A j \in Click \ {k} : clicked'[j] = clicked[j]
  BY <1>1 DEF TypeInv, TypeOK
<1>6. \A d \in Call : Comments(d) => d # c /\ op[d].click \in Click /\ op[d].click # k /\ clicked[op[d].click] = op[d].epoch
  BY <1>2, <1>3, PostParts DEF Comments
<1>7. \A d \in Call \ {c} : Comments(d)' <=> Comments(d)
  BY <1>2 DEF Comments
<1>8. ClicksTrue'
  <2>1. \A j \in Click : clicked'[j] <= epoch'
    BY <1>1, <1>5, Epochs DEF PostsInv, ClicksTrue
  <2>2. \A j \in Click : clicked'[j] = epoch' => commentEpoch' = epoch' /\ j \in attempts'
    BY <1>1, <1>5 DEF OfEpoch, PostsInv, ClicksTrue
  <2>3. \A j \in Click : clicked'[j] = 0 => sent'[j] = 0 /\ j \notin posted' /\ told'[j] = "nothing"
    BY <1>1, <1>4, <1>5 DEF PostsInv, ClicksTrue
  <2>4. \A d \in Call : Comments(d)' => clicked'[op'[d].click] = op'[d].epoch
    BY <1>2, <1>5, <1>6, <1>7
  <2>5. ASSUME NEW d \in Call, NEW e \in Call, Comments(d)', Comments(e)', op'[d].click = op'[e].click
        PROVE  d = e
    <3>1. CASE d = c \/ e = c
      BY <1>2, <1>6, <1>7, <2>5, <3>1
    <3>2. CASE d # c /\ e # c
      BY <1>2, <1>7, <2>5, <3>2 DEF PostsInv, ClicksTrue
    <3>. QED  BY <3>1, <3>2
  <2>. QED  BY <2>1, <2>2, <2>3, <2>4, <2>5 DEF ClicksTrue
<1>9. SentOnce' /\ NeverDeniesWhatWasPosted'
  BY <1>1 DEF PostsInv, SentOnce, NeverDeniesWhatWasPosted
<1>10. ASSUME NEW d \in Call, Comments(d)'
       PROVE  CommentTrue(d)'
  <2>1. CASE d = c
    BY <1>1, <1>2, <1>4, <2>1 DEF CommentTrue
  <2>2. CASE d # c
    <3>1. CommentTrue(d) /\ op'[d] = op[d]
      BY <1>2, <1>7, <1>10, <2>2 DEF PostsInv, CommentsTrue
    <3>. QED  BY <1>1, <1>2, <3>1 DEF CommentTrue
  <2>. QED  BY <2>1, <2>2
<1>. QED  BY <1>8, <1>9, <1>10 DEF PostsInv, CommentsTrue

LEMMA CallPosts ==
  ASSUME TypeInv, PostsInv, NEW c \in Call, CallComment(c)
  PROVE  PostsInv'
<1>1. Comments(c) /\ UNCHANGED <<epoch, commentEpoch, attempts>> /\ UNCHANGED <<clicked, sent, posted, told>>
  BY DEF CallComment, Comments, historyVars
<1>2. call[c].phase = "idle" /\ \A d \in Call \ {c} : op'[d] = op[d] /\ call'[d] = call[d]
  BY CallOutcome
<1>3. /\ told[op[c].click] = "nothing" /\ sent[op[c].click] = 0 /\ op[c].click \notin posted
      /\ op[c].click \in Click
  BY <1>1, <1>2, PostParts DEF CommentTrue, Before
<1>4. CASE /\ op'[c].kind = op[c].kind /\ op'[c].epoch = op[c].epoch /\ op'[c].click = op[c].click
           /\ call'[c].phase \in {"queued", "done"} /\ ~call'[c].read
           /\ call'[c].phase = "done" => call'[c].code = "RATE_LIMIT"
  <2>1. CommentTrue(c)' /\ Comments(c)'
    BY <1>1, <1>3, <1>4 DEF CommentTrue, Before, Comments
  <2>2. sent' = sent /\ posted' = posted
    BY <1>1
  <2>3. \A k \in Click \ {op[c].click} : sent'[k] = sent[k] /\ (k \in posted' <=> k \in posted)
    BY <2>2
  <2>4. sent'[op[c].click] <= 1
    BY <1>3, <2>2
  <2>5. UNCHANGED <<epoch, commentEpoch, attempts, clicked, told>>
    BY <1>1
  <2>. QED  BY <1>1, <1>2, <1>4, <2>1, <2>3, <2>4, <2>5, OneComment
<1>5. CASE op'[c].kind = "none"
  <2>1. UNCHANGED <<epoch, commentEpoch, attempts, clicked, sent, posted>> /\ told' = told
    BY <1>1
  <2>. QED  BY <1>1, <1>2, <1>5, <2>1, CommentGone
<1>. QED  BY <1>4, <1>5, CallOutcome

LEMMA FinishPosts ==
  ASSUME TypeInv, PostsInv, NEW c \in Call, FinishComment(c)
  PROVE  PostsInv'
<1>1. /\ Comments(c) /\ call[c].phase = "done"
      /\ UNCHANGED <<epoch, commentEpoch, attempts, clicked, sent, posted>>
  BY DEF FinishComment, Comments
<1>2. op'[c].kind = "none" /\ \A d \in Call \ {c} : op'[d] = op[d] /\ call'[d] = call[d]
  BY FinishOutcome
<1>3. CASE told' = told
  BY <1>1, <1>2, <1>3, CommentGone
<1>4. ASSUME NEW outcome \in Outcomes(call[c].code), told' = [told EXCEPT ![op[c].click] = outcome]
      PROVE  PostsInv'
  <2>1. call[c].code \in Code /\ CommentTrue(c)
    BY <1>1, PostParts DEF TypeInv, TypeOK, ClientTypeOK, Request
  <2>2. outcome \in {"nothing", "posted", "uncertain", "refused"}
    BY <1>4 DEF Outcomes
  <2>3. outcome = "refused" => op[c].click \notin posted
    BY <1>1, <1>4, <2>1 DEF Outcomes, CommentTrue, Denied
  <2>4. outcome = "posted" => op[c].click \in posted
    BY <1>1, <1>4, <2>1 DEF Outcomes, CommentTrue
  <2>. QED  BY <1>1, <1>2, <1>4, <2>2, <2>3, <2>4, CommentGone
<1>. QED  BY <1>3, <1>4 DEF FinishComment

(* A request goes on: out once, answered once.                             *)
LEMMA RequestPosts ==
  ASSUME TypeInv, PostsInv, NEW c \in Call, Comments(c), RequestStep(c)
  PROVE  PostsInv'
<1>. DEFINE k == op[c].click
<1>1. /\ UNCHANGED <<epoch, commentEpoch, busy, attempts, clicked, told, op>>
      /\ \A d \in Call \ {c} : call'[d] = call[d]
  BY RequestWork
<1>2. UNCHANGED <<epoch, commentEpoch, attempts, clicked, told>> /\ op' = op
  BY <1>1
<1>3. k \in Click /\ CommentTrue(c) /\ sent[k] \in Nat /\ sent[k] <= 1
  BY PostParts
<1>4. /\ \A j \in Click \ {k} : sent'[j] = sent[j] /\ (j \in posted' <=> j \in posted)
      /\ sent'[k] <= 1 /\ CommentTrue(c)'
  <2>1. CASE ClientStep(c) /\ UNCHANGED <<serviceVars, op, historyVars>>
    <3>1. sent' = sent /\ posted' = posted
      BY <2>1 DEF historyVars
    <3>2. PICK new : Alone(c, new)
      BY <2>1, ClientTurn
    <3>3. call'[c] = new /\ new.code \in Code
      BY <1>2, <3>2, RequestOutcome DEF Alone, Turns, Request
    <3>4. /\ call[c].phase \in {"idle", "queued", "ready", "clear", "wire", "backoff", "done"}
          /\ new.phase \in {"idle", "queued", "ready", "clear", "wire", "backoff", "done"}
      BY <3>2 DEF Alone, Turns, Request, TypeInv, TypeOK, ClientTypeOK
    <3>5. /\ call[c].phase \in Before \cup {"wire"} /\ k \notin posted /\ ~new.read
          /\ new.phase \notin {"idle", "backoff"}
          /\ new.phase \in Before => call[c].phase \in Before
          /\ new.phase = "done" => new.code # "OK"
      BY <1>3, <3>2, <3>4 DEF CommentTrue, Alone, Keeps, Before
    <3>6. CommentTrue(c)'
      BY <1>2, <1>3, <3>1, <3>3, <3>5 DEF CommentTrue
    <3>. QED  BY <1>3, <3>1, <3>6
  <2>2. CASE GoOut(c)
    <3>1. Send(c) /\ posted' = posted /\ sent' = [sent EXCEPT ![k] = @ + 1]
      BY <2>2 DEF GoOut
    <3>2. PICK new : Turns(c, new) /\ Balanced(c, new) /\ Keeps(c, new) /\ new.phase = "wire"
      BY <3>1, SendTurn
    <3>3. call'[c] = new /\ call[c].phase = "clear"
      BY <1>2, <3>1, <3>2, RequestOutcome, SendTurn
    <3>4. sent[k] = 0 /\ sent'[k] = 1 /\ \A j \in Click \ {k} : sent'[j] = sent[j]
      BY <1>3, <3>1, <3>3 DEF CommentTrue, Before, TypeInv, TypeOK
    <3>5. CommentTrue(c)'
      BY <1>2, <1>3, <3>1, <3>2, <3>3 DEF CommentTrue, Keeps, Before
    <3>. QED  BY <3>1, <3>4, <3>5
  <2>3. CASE PlatformAnswers(c)
    <3>1. sent' = sent
      BY <2>3 DEF PlatformAnswers
    <3>2. PICK new, code :
           /\ Heard(c, new, code)
           /\ \/ code \in {"CANCELLED", "NETWORK", "UPSTREAM"} \cup MayPost /\ (Post(c) \/ UNCHANGED posted)
              \/ code = "OK" /\ Post(c)
              \/ UNCHANGED posted /\ code # "OK"
      BY <2>3, PlatformTurn
    <3>3. call'[c] = new /\ new.phase = "done" /\ new.code = code /\ new.read = call[c].read /\ call[c].phase = "wire"
      BY <1>2, <1>3, <3>2, RequestOutcome DEF Heard, Keeps, CommentTrue
    <3>4. k \notin posted
      BY <1>3, <3>3 DEF CommentTrue
    <3>5. posted' = posted \/ posted' = posted \cup {k}
      BY <3>2 DEF Post
    <3>6. /\ code = "OK" => k \in posted'
          /\ code \in Denied => k \notin posted'
      BY <3>2, <3>4 DEF Post, Denied, Uncertain, MayPost
    <3>7. CommentTrue(c)'
      BY <1>2, <1>3, <3>3, <3>6 DEF CommentTrue, Before
    <3>. QED  BY <1>3, <3>1, <3>5, <3>7
  <2>. QED  BY <2>1, <2>2, <2>3 DEF RequestStep
<1>. HIDE DEF k
<1>5. Comments(c)' /\ op'[c].click = op[c].click /\ op'[c].epoch = op[c].epoch
      /\ \A d \in Call \ {c} : op'[d] = op[d] /\ call'[d] = call[d]
  BY <1>1, <1>2 DEF Comments
<1>. QED  BY <1>2, <1>4, <1>5, OneComment DEF k

LEMMA StepPosts == TypeInv /\ PostsInv /\ [Next]_vars => PostsInv'
<1>. SUFFICES ASSUME TypeInv, PostsInv, [Next]_vars PROVE PostsInv'
  OBVIOUS
<1>1. CASE Leave \/ \E who \in Account : Join(who)
  <2>1. epoch' = epoch + 1 /\ UNCHANGED clientVars /\ UNCHANGED <<op, clicked, sent, posted, told>>
    BY <1>1, LedgerFresh
  <2>2. \A k \in Click : clicked[k] <= epoch' /\ clicked[k] # epoch'
    BY <2>1, PostParts, Epochs
  <2>3. ClicksTrue' /\ SentOnce' /\ NeverDeniesWhatWasPosted'
    BY <2>1, <2>2 DEF PostsInv, ClicksTrue, SentOnce, NeverDeniesWhatWasPosted, Comments
  <2>4. CommentsTrue'
    BY <2>1 DEF PostsInv, CommentsTrue, CommentTrue, Comments, clientVars
  <2>. QED  BY <2>3, <2>4 DEF PostsInv
<1>. QED  BY <1>1, AdmitPosts, CallPosts, FinishPosts, RequestPosts, PostsKept, WorkSteps

LEMMA InitPosts == Init => PostsInv /\ BusyTrue /\ TargetsWereRead
<1>. SUFFICES ASSUME Init PROVE PostsInv /\ BusyTrue /\ TargetsWereRead
  OBVIOUS
<1>1. \A c \in Call : ~Comments(c)
  BY NoOpShape DEF Init, Comments
<1>. QED  BY <1>1 DEF Init, PostsInv, ClicksTrue, CommentsTrue, SentOnce, NeverDeniesWhatWasPosted, BusyTrue, AtWork,
                      TargetsWereRead

(* A comment goes out once per click whatever is retried or delivered      *)
(* twice, one at a time, and answers only what this account has read.      *)
THEOREM CommunityCommentsAreOrderly == Spec => []CommentsAreOrderly
<1>1. PostsInv => SentOnce
  BY DEF PostsInv
<1>2. PostsInv /\ BusyTrue /\ TargetsWereRead => CommentsAreOrderly
  BY <1>1, BusyCounts DEF CommentsAreOrderly
<1>. QED  BY <1>2, InitTypes, StepTypes, InitPosts, StepPosts, StepBusy, StepTargets, PTL DEF Spec

(* Nobody is told that a comment was refused when it is there, nor that it *)
(* is posted when it is not.                                               *)
THEOREM CommunityNeverDeniesWhatWasPosted == Spec => []NeverDeniesWhatWasPosted
<1>1. PostsInv => NeverDeniesWhatWasPosted
  BY DEF PostsInv
<1>. QED  BY <1>1, InitTypes, StepTypes, InitPosts, StepPosts, PTL DEF Spec
=============================================================================
