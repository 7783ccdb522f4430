------------------------------- MODULE Client -------------------------------
(***************************************************************************)
(* The platform client: request of internal/provider/client.go.  Every     *)
(* call of the adapter goes through it: a few slots shared by all calls, a *)
(* cooldown per host after a 429, three attempts for a read and one for    *)
(* anything else.  A call is where its goroutine is: waiting for a slot,   *)
(* about to look at the cooldown, past it, on the wire or backing off.     *)
(***************************************************************************)
EXTENDS Integers, FiniteSets

CONSTANTS
  Call,        \* calls of request that may run at once
  Host,        \* hosts of the platform
  Slots,       \* 3 in the code
  Attempts,    \* 3 in the code, for reads
  Header,      \* whole numbers a Retry-After may carry
  MaxWait,     \* 86400 seconds in the code
  DefaultWait, \* 60 seconds in the code
  None         \* no host

ASSUME ClientAssumption ==
  /\ Slots \in Nat \ {0} /\ Attempts \in Nat \ {0}
  /\ Header \subseteq Int /\ MaxWait \in Nat \ {0} /\ DefaultWait \in 1..MaxWait
  /\ None \notin Host

VARIABLES
  call,      \* each call of request
  slots,     \* Client.slots: how many are taken
  cooldown,  \* Client.cooldown, as the seconds that are left
  exempt     \* history: calls past their look when the host was last limited

clientVars == <<call, slots, cooldown, exempt>>

Code == {"none", "OK", "RATE_LIMIT", "CANCELLED", "NETWORK", "BAD_RESPONSE", "REDIRECT_BLOCKED",
         "UNAUTHORIZED", "FORBIDDEN", "UPSTREAM", "REQUEST_REJECTED"}

(* attempt counts from 0, as in the code.  cancelled: the context is done. *)
Request ==
  [phase : {"idle", "queued", "ready", "clear", "wire", "backoff", "done"},
   host : Host \cup {None}, read : BOOLEAN, attempt : 0..(Attempts - 1), cancelled : BOOLEAN,
   code : Code]

NoRequest ==
  [phase |-> "idle", host |-> None, read |-> FALSE, attempt |-> 0, cancelled |-> FALSE,
   code |-> "none"]

ClientTypeOK ==
  /\ call \in [Call -> Request]
  /\ slots \in 0..Slots
  /\ cooldown \in [Host -> 0..MaxWait]
  /\ exempt \in [Host -> SUBSET Call]

ClientInit ==
  /\ call = [c \in Call |-> NoRequest]
  /\ slots = 0
  /\ cooldown = [h \in Host |-> 0]
  /\ exempt = [h \in Host |-> {}]

---------------------------------------------------------------------------
Limited(host) == cooldown[host] > 0

(* Without a slot, nothing has been taken that must be given back.         *)
Refuse(c, code) == call' = [call EXCEPT ![c].phase = "done", ![c].code = code]

(* Deferred: the slot is held through every attempt and then given back.   *)
Finish(c, code) == Refuse(c, code) /\ slots' = slots - 1

RequestBegins(c, host, read) ==
  /\ call[c].phase = "idle"
  /\ call' = [call EXCEPT ![c] =
       IF Limited(host)
       THEN [NoRequest EXCEPT !.phase = "done", !.code = "RATE_LIMIT"]
       ELSE [NoRequest EXCEPT !.phase = "queued", !.host = host, !.read = read]]
  /\ UNCHANGED <<slots, cooldown, exempt>>

Acquire(c) ==
  /\ call[c].phase = "queued"
  /\ slots < Slots
  /\ slots' = slots + 1
  /\ call' = [call EXCEPT ![c].phase = "ready"]
  /\ UNCHANGED <<cooldown, exempt>>

GiveUpWaiting(c) ==
  /\ call[c].phase = "queued" /\ call[c].cancelled
  /\ Refuse(c, "CANCELLED")
  /\ UNCHANGED <<slots, cooldown, exempt>>

(* Only a call's first look counts.                                        *)
LookOnce(c) ==
  /\ call[c].phase = "ready"
  /\ call' = [call EXCEPT ![c].phase = "clear"]
  /\ UNCHANGED <<slots, cooldown, exempt>>

(* Another call may have been limited while this one waited for its slot   *)
(* or backed off.  The lock is released before the request goes out.       *)
LookAgain(c) ==
  /\ call[c].phase = "ready"
  /\ IF Limited(call[c].host)
     THEN Finish(c, "RATE_LIMIT")
     ELSE call' = [call EXCEPT ![c].phase = "clear"] /\ UNCHANGED slots
  /\ UNCHANGED <<cooldown, exempt>>

Send(c) ==
  /\ call[c].phase = "clear"
  /\ call' = [call EXCEPT ![c].phase = "wire"]
  /\ UNCHANGED <<slots, cooldown, exempt>>

(* Whatever the request does.                                              *)
LastOfThree(c) == call[c].attempt + 1 >= Attempts

LastAttempt(c) == ~call[c].read \/ call[c].attempt + 1 >= Attempts

Retry(c) == call' = [call EXCEPT ![c].phase = "backoff"] /\ UNCHANGED slots

(* No answer: the connection failed, timed out or the context is done.     *)
Lost(c) ==
  /\ call[c].phase = "wire"
  /\ IF call[c].cancelled THEN Finish(c, "CANCELLED")
     ELSE IF LastAttempt(c) THEN Finish(c, "NETWORK")
     ELSE Retry(c)
  /\ UNCHANGED <<cooldown, exempt>>

ServerError(c) ==
  /\ call[c].phase = "wire"
  /\ IF LastAttempt(c) THEN Finish(c, "UPSTREAM") ELSE Retry(c)
  /\ UNCHANGED <<cooldown, exempt>>

(* A whole number is kept within 1 and the largest wait; a date, which     *)
(* comes to a number, and everything else are the default here.            *)
RetryAfter(header) ==
  IF header < 0 THEN DefaultWait
  ELSE IF header > MaxWait THEN MaxWait
  ELSE IF header = 0 THEN 1 ELSE header

(* The last 429 sets the cooldown, whatever was left of the one before.    *)
TooMany(c) ==
  /\ call[c].phase = "wire"
  /\ \E header \in Header : cooldown' = [cooldown EXCEPT ![call[c].host] = RetryAfter(header)]
  /\ exempt' = [exempt EXCEPT ![call[c].host] =
       {d \in Call : call[d].phase = "clear" /\ call[d].host = call[c].host}]
  /\ Finish(c, "RATE_LIMIT")

(* Answers that are not tried again: what they say and what the call       *)
(* returns for it.  A body too long or not what it should be is BAD.       *)
Verdicts == {"OK", "BAD_RESPONSE", "REDIRECT_BLOCKED", "UNAUTHORIZED", "FORBIDDEN", "REQUEST_REJECTED"}

Answer(c, verdict) ==
  /\ call[c].phase = "wire"
  /\ verdict \in Verdicts
  /\ Finish(c, verdict)
  /\ UNCHANGED <<cooldown, exempt>>

(* Leaves its slot taken when it is cancelled.                             *)
WakeHolding(c) ==
  /\ call[c].phase = "backoff"
  /\ \/ call' = [call EXCEPT ![c].phase = "ready", ![c].attempt = @ + 1]
     \/ call[c].cancelled /\ Refuse(c, "CANCELLED")
  /\ UNCHANGED <<slots, cooldown, exempt>>

Wake(c) ==
  /\ call[c].phase = "backoff"
  /\ \/ /\ call' = [call EXCEPT ![c].phase = "ready", ![c].attempt = @ + 1]
        /\ UNCHANGED slots
     \/ call[c].cancelled /\ Finish(c, "CANCELLED")
  /\ UNCHANGED <<cooldown, exempt>>

CancelRequest(c) ==
  /\ call[c].phase \notin {"idle", "done"} /\ ~call[c].cancelled
  /\ call' = [call EXCEPT ![c].cancelled = TRUE]
  /\ UNCHANGED <<slots, cooldown, exempt>>

Second ==
  /\ \E h \in Host : Limited(h)
  /\ cooldown' = [h \in Host |-> IF Limited(h) THEN cooldown[h] - 1 ELSE 0]
  /\ exempt' = [h \in Host |-> IF cooldown[h] > 1 THEN exempt[h] ELSE {}]
  /\ UNCHANGED <<call, slots>>

(* Everything request does by itself between its beginning and its return, *)
(* except what the platform says.                                          *)
ClientStep(c) ==
  \/ Acquire(c) \/ GiveUpWaiting(c) \/ LookAgain(c) \/ Wake(c) \/ CancelRequest(c)

---------------------------------------------------------------------------
(* Nothing goes out to a host in its cooldown, except what had looked at   *)
(* it just before the 429 came.                                            *)
QuietInCooldown ==
  [][\A c \in Call :
       call[c].phase = "clear" /\ call'[c].phase = "wire" /\ Limited(call[c].host)
         => c \in exempt[call[c].host]]_clientVars

(* Every slot that is taken is held by a call that is under way, and every *)
(* way a call ends gives its slot back.                                    *)
Holding == {c \in Call : call[c].phase \in {"ready", "clear", "wire", "backoff"}}

SlotsAreReturned == slots = Cardinality(Holding)
=============================================================================
