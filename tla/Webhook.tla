------------------------------ MODULE Webhook ------------------------------
(***************************************************************************)
(* WebhooksService.processPaymentWebhook: every call checks the headers,   *)
(* claims the event id in Redis, and only then checks the signature.  The  *)
(* claim is an await, so calls interleave around it.  The provider signs   *)
(* deliveries, retries and signs anew; the network delays, repeats and     *)
(* drops them.                                                             *)
(***************************************************************************)
EXTENDS Integers

CONSTANTS Events,   \* event ids
          Calls,    \* POST /webhooks/payment requests
          Window,   \* largest age of a timestamp: five minutes
          Ttl,      \* life of a claimed id in Redis: ten minutes
          Skew,     \* how far the provider's clock runs ahead, at most
          Delay,    \* time Redis takes to answer, at most
          Failures, \* what may fail in this behaviour
          Horizon   \* bound on the clock

ASSUME WebhookAssumption ==
    /\ Events # {}
    /\ Window \in Nat /\ Ttl \in Nat /\ Skew \in Nat /\ Delay \in Nat
    /\ Horizon \in Nat /\ Failures \subseteq {"redis", "crash"}

VARIABLES
    now,      \* Date.now(), and the clock of Redis
    expires,  \* event id -> when its key is gone; 0 if never claimed
    pc,       \* call -> idle, claim (awaits SET NX), compare, done
    got,      \* call -> the delivery it received
    at,       \* call -> when it checked the age, then when Redis had its claim
    claimed,  \* calls whose SET NX answered OK
    answer    \* call -> its outcome

vars == <<now, expires, pc, got, at, claimed, answer>>

\* "signed": the signature fits the body and the timestamp.  It does not when
\* the provider signed the bytes of a body JSON.stringify writes otherwise, or
\* with another secret.
Delivery == [event : Events, timestamp : Nat, signed : BOOLEAN]

Answers == {"none", "verified", "malformed", "stale", "duplicate",
            "badSignature", "failed", "lost"}

Init == /\ now = 0
        /\ expires = [e \in Events |-> 0]
        /\ pc = [c \in Calls |-> "idle"]
        /\ got = [c \in Calls |-> [event |-> CHOOSE e \in Events : TRUE,
                               timestamp |-> 0, signed |-> FALSE]]
        /\ at = [c \in Calls |-> 0]
        /\ claimed = {}
        /\ answer = [c \in Calls |-> "none"]

Goto(c, p)      == pc' = [pc EXCEPT ![c] = p]
Answer(c, what) == answer' = [answer EXCEPT ![c] = what] /\ Goto(c, "done")

\* Redis forgets a key once its time to live is over.
NoExpirySlip(e) == expires[e] = 0
Free(e) == expires[e] <= now

Distance(x, y) == IF x > y THEN x - y ELSE y - x

-----------------------------------------------------------------------------
OneSidedSlip(d) == d.timestamp - now <= Window
Fresh(d)        == Distance(now, d.timestamp) <= Window

\* A header is missing, or the timestamp is not a number.
RejectMalformed(c) ==
    /\ pc[c] = "idle"
    /\ Answer(c, "malformed")
    /\ UNCHANGED <<now, expires, got, at, claimed>>

\* The checks before the await.  The delivery may have been under way for any
\* time, and may be a copy of one that arrived before.
Receive(c, d) ==
    /\ pc[c] = "idle"
    /\ d.timestamp - now <= Skew
    /\ \/ /\ Fresh(d) /\ Goto(c, "claim")
          /\ got' = [got EXCEPT ![c] = d]
          /\ at' = [at EXCEPT ![c] = now]
          /\ UNCHANGED answer
       \/ /\ ~Fresh(d) /\ Answer(c, "stale")
          /\ UNCHANGED <<got, at>>
    /\ UNCHANGED <<now, expires, claimed>>

\* SET webhook:payment:<id> 1 EX 600 NX.
OverwriteSlip(c) ==
    /\ pc[c] = "claim"
    /\ expires' = [expires EXCEPT ![got[c].event] = now + Ttl]
    /\ claimed' = claimed \cup {c} /\ Goto(c, "compare")
    /\ at' = [at EXCEPT ![c] = now]
    /\ UNCHANGED <<answer, now, got>>
Claim(c) ==
    /\ pc[c] = "claim"
    /\ at' = [at EXCEPT ![c] = now]
    /\ \/ /\ Free(got[c].event)
          /\ expires' = [expires EXCEPT ![got[c].event] = now + Ttl]
          /\ claimed' = claimed \cup {c} /\ Goto(c, "compare")
          /\ UNCHANGED answer
       \/ /\ ~Free(got[c].event) /\ Answer(c, "duplicate")
          /\ UNCHANGED <<expires, claimed>>
    /\ UNCHANGED <<now, got>>

\* Redis fails, before or after it stored the key: the call throws.
ClaimFails(c) ==
    /\ "redis" \in Failures
    /\ pc[c] = "claim"
    /\ at' = [at EXCEPT ![c] = now]
    /\ \/ /\ Free(got[c].event)
          /\ expires' = [expires EXCEPT ![got[c].event] = now + Ttl]
       \/ UNCHANGED expires
    /\ Answer(c, "failed")
    /\ UNCHANGED <<now, got, claimed>>

Compare(c) ==
    /\ pc[c] = "compare"
    /\ Answer(c, IF got[c].signed THEN "verified" ELSE "badSignature")
    /\ UNCHANGED <<now, expires, got, at, claimed>>

\* The process ends: its calls are never answered, the keys stay in Redis.
Crash ==
    /\ "crash" \in Failures
    /\ \E c \in Calls : pc[c] \in {"claim", "compare"}
    /\ pc' = [c \in Calls |-> IF pc[c] = "idle" THEN "idle" ELSE "done"]
    /\ answer' = [c \in Calls |->
                    IF pc[c] \in {"claim", "compare"} THEN "lost" ELSE answer[c]]
    /\ UNCHANGED <<now, expires, got, at, claimed>>

Tick ==
    /\ now < Horizon
    /\ \A c \in Calls : pc[c] = "claim" => now - at[c] < Delay
    /\ now' = now + 1
    /\ UNCHANGED <<expires, pc, got, at, claimed, answer>>

Next == \/ \E c \in Calls :
              \/ RejectMalformed(c)
              \/ \E e \in Events, t \in 0..(now + Skew), s \in BOOLEAN :
                    Receive(c, [event |-> e, timestamp |-> t, signed |-> s])
              \/ Claim(c) \/ ClaimFails(c) \/ Compare(c)
        \/ Crash
        \/ Tick

Spec == Init /\ [][Next]_vars

-----------------------------------------------------------------------------
TypeOK ==
    /\ now \in Nat
    /\ expires \in [Events -> Nat]
    /\ pc \in [Calls -> {"idle", "claim", "compare", "done"}]
    /\ got \in [Calls -> Delivery]
    /\ at \in [Calls -> Nat]
    /\ claimed \subseteq Calls
    /\ answer \in [Calls -> Answers]

\* However many calls run together and however long after it arrived a call
\* makes its claim, two claims of one event id are a whole Ttl apart.
ClaimsApart ==
    \A c, d \in claimed :
        c # d /\ got[c].event = got[d].event => Distance(at[c], at[d]) >= Ttl

\* A delivery the network repeats is processed once, however late the copy
\* arrives: the id outlives the window in which its timestamp is accepted.
DeliveryOnce ==
    \A c, d \in Calls :
        answer[c] = "verified" /\ answer[d] = "verified" /\ got[c] = got[d] => c = d

\* No event id is locked out for good: a call that is told "Duplicate webhook
\* event" comes within a Ttl of another call that took the id, or that lost
\* Redis while it did, and the refused calls do not prolong it.
Took(d) == d \in claimed \/ answer[d] = "failed"
RefusalsExpire ==
    \A c \in Calls : answer[c] = "duplicate" =>
        \E d \in Calls \ {c} : /\ Took(d) /\ got[d].event = got[c].event
                               /\ at[d] <= at[c] /\ at[c] < at[d] + Ttl
=============================================================================
