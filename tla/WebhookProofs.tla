--------------------------- MODULE WebhookProofs ---------------------------
(***************************************************************************)
(* The replay protection of the webhook, for every number of calls, every  *)
(* clock and every order of their steps (Webhook).                         *)
(***************************************************************************)
EXTENDS Webhook, TLAPS

\* What is known of a claim: its key lives for Ttl after it was made, and
\* whoever was verified made one.
ClaimInv ==
    /\ \A c \in claimed : /\ pc[c] \in {"compare", "done"}
                          /\ at[c] <= now
                          /\ expires[got[c].event] >= at[c] + Ttl
    /\ \A c \in Calls : pc[c] = "compare" \/ answer[c] = "verified" => c \in claimed

\* When a claim is made: the provider's clock bounds it from below, the age
\* check and the answer time of Redis from above.
TimeInv ==
    /\ \A c \in Calls : pc[c] = "claim" =>
          /\ at[c] <= now /\ now <= at[c] + Delay
          /\ got[c].timestamp <= at[c] + Skew
          /\ at[c] <= got[c].timestamp + Window
    /\ \A c \in claimed :
          /\ got[c].timestamp <= at[c] + Skew
          /\ at[c] <= got[c].timestamp + Window + Delay

IInv == TypeOK /\ ClaimInv /\ TimeInv /\ ClaimsApart

\* Every key is the trace of a call that took it, which is not under way.
KeyInv ==
    /\ \A c \in Calls : pc[c] \in {"idle", "claim", "compare"} => answer[c] = "none"
    /\ \A e \in Events : expires[e] # 0 =>
          \E d \in Calls : /\ Took(d) /\ got[d].event = e
                          /\ at[d] <= now /\ expires[e] = at[d] + Ttl

\* The shape of the state is inductive by itself.
LEMMA Types == TypeOK /\ [Next]_vars => TypeOK'
  <1> SUFFICES ASSUME TypeOK, [Next]_vars PROVE TypeOK'
    OBVIOUS
  <1> USE WebhookAssumption DEF TypeOK, Answers
  <1>1. CASE UNCHANGED vars
    BY <1>1 DEF vars
  <1>2. ASSUME NEW c \in Calls, RejectMalformed(c)
        PROVE  TypeOK'
    BY <1>2 DEF RejectMalformed, Answer, Goto
  <1>3. ASSUME NEW c \in Calls, NEW e \in Events, NEW t \in 0..(now + Skew),
               NEW s \in BOOLEAN,
               Receive(c, [event |-> e, timestamp |-> t, signed |-> s])
        PROVE  TypeOK'
    <2>1. [event |-> e, timestamp |-> t, signed |-> s] \in Delivery
      BY DEF Delivery
    <2> QED
      BY <1>3, <2>1 DEF Receive, Answer, Goto
  <1>4. ASSUME NEW c \in Calls, Claim(c)
        PROVE  TypeOK'
    <2>1. now + Ttl \in Nat
      OBVIOUS
    <2> QED
      BY <1>4, <2>1 DEF Claim, Answer, Goto
  <1>5. ASSUME NEW c \in Calls, Compare(c)
        PROVE  TypeOK'
    BY <1>5 DEF Compare, Answer, Goto
  <1>6. CASE Crash
    BY <1>6 DEF Crash
  <1>7. CASE Tick
    BY <1>7 DEF Tick
  <1>8. ASSUME NEW c \in Calls, ClaimFails(c)
        PROVE  TypeOK'
    <2>1. now + Ttl \in Nat
      OBVIOUS
    <2> QED
      BY <1>8, <2>1 DEF ClaimFails, Answer, Goto
  <1> QED
    BY <1>1, <1>2, <1>3, <1>4, <1>5, <1>6, <1>7, <1>8 DEF Next

\* Only Claim adds a claim, at the moment of the step and for a free id;
\* nothing else disturbs one.
LEMMA Claims == IInv /\ [Next]_vars => ClaimInv' /\ ClaimsApart'
  <1> SUFFICES ASSUME IInv, [Next]_vars PROVE ClaimInv' /\ ClaimsApart'
    OBVIOUS
  <1> USE WebhookAssumption DEF IInv, TypeOK, ClaimInv, ClaimsApart, Distance
  <1>1. CASE UNCHANGED vars
    BY <1>1 DEF vars
  <1>2. ASSUME NEW c \in Calls, RejectMalformed(c)
        PROVE  ClaimInv' /\ ClaimsApart'
    BY <1>2 DEF RejectMalformed, Answer, Goto
  <1>3. ASSUME NEW c \in Calls, NEW d, Receive(c, d)
        PROVE  ClaimInv' /\ ClaimsApart'
    <2>1. c \notin claimed
      BY <1>3 DEF Receive
    <2>2. ClaimInv'
      BY <1>3, <2>1 DEF Receive, Answer, Goto
    <2>3. \A x \in claimed : got'[x] = got[x] /\ at'[x] = at[x]
      BY <1>3, <2>1 DEF Receive
    <2>4. ClaimsApart'
      BY <1>3, <2>3 DEF Receive
    <2> QED
      BY <2>2, <2>4
  <1>4. ASSUME NEW c \in Calls, Claim(c)
        PROVE  ClaimInv' /\ ClaimsApart'
    <2>1. c \notin claimed
      BY <1>4 DEF Claim
    <2>2. CASE ~Free(got[c].event)
      BY <1>4, <2>2 DEF Claim, Answer, Goto
    <2>3. CASE Free(got[c].event)
      <3>1. /\ expires' = [expires EXCEPT ![got[c].event] = now + Ttl]
            /\ claimed' = claimed \cup {c}
            /\ at' = [at EXCEPT ![c] = now]
            /\ pc' = [pc EXCEPT ![c] = "compare"]
            /\ UNCHANGED <<now, got, answer>>
        BY <1>4, <2>3 DEF Claim, Goto
      <3>2. got[c].event \in Events /\ expires[got[c].event] <= now
        BY <2>3 DEF Free, Delivery
      <3>3. \A d \in claimed : /\ at[d] \in Nat /\ at'[d] = at[d]
                               /\ got[d].event \in Events
        BY <2>1, <3>1 DEF Delivery
      <3>4. \A d \in claimed : got[d].event = got[c].event => now >= at[d] + Ttl
        BY <3>2, <3>3
      <3>5. ClaimInv'
        BY <2>1, <3>1, <3>2, <3>3, <3>4
      <3>6. at'[c] = now
        BY <3>1
      <3>7. ClaimsApart'
        BY <2>1, <3>1, <3>3, <3>4, <3>6
      <3> QED
        BY <3>5, <3>7
    <2> QED
      BY <2>2, <2>3
  <1>5. ASSUME NEW c \in Calls, Compare(c)
        PROVE  ClaimInv' /\ ClaimsApart'
    BY <1>5 DEF Compare, Answer, Goto
  <1>6. CASE Crash
    BY <1>6 DEF Crash
  <1>7. CASE Tick
    BY <1>7 DEF Tick
  <1>8. ASSUME NEW c \in Calls, ClaimFails(c)
        PROVE  ClaimInv' /\ ClaimsApart'
    <2>1. /\ UNCHANGED <<now, got, claimed>> /\ c \notin claimed
          /\ \A d \in claimed : at'[d] = at[d]
      BY <1>8 DEF ClaimFails
    <2>2. ASSUME NEW d \in claimed
          PROVE  expires'[got[d].event] >= at[d] + Ttl
      <3>1. got[d].event \in Events /\ at[d] \in Nat
        BY DEF Delivery
      <3> QED
        BY <1>8, <3>1 DEF ClaimFails, Free
    <2> QED
      BY <1>8, <2>1, <2>2 DEF ClaimFails, Answer, Goto
  <1> QED
    BY <1>1, <1>2, <1>3, <1>4, <1>5, <1>6, <1>7, <1>8 DEF Next

\* The age check dates the claim, and no tick passes a claim that Redis has
\* kept waiting for Delay.
LEMMA Times == IInv /\ [Next]_vars => TimeInv'
  <1> SUFFICES ASSUME IInv, [Next]_vars PROVE TimeInv'
    OBVIOUS
  <1> USE WebhookAssumption DEF IInv, TypeOK, TimeInv
  <1>1. CASE UNCHANGED vars
    BY <1>1 DEF vars
  <1>2. ASSUME NEW c \in Calls, RejectMalformed(c)
        PROVE  TimeInv'
    BY <1>2 DEF RejectMalformed, Answer, Goto
  <1>3. ASSUME NEW c \in Calls, NEW d \in Delivery, Receive(c, d)
        PROVE  TimeInv'
    <2>1. c \notin claimed
      BY <1>3 DEF Receive, ClaimInv
    <2>2. CASE Fresh(d)
      <3>1. d.timestamp \in Nat /\ d.timestamp <= now + Skew
            /\ now <= d.timestamp + Window
        BY <1>3, <2>2 DEF Receive, Fresh, Distance, Delivery
      <3>2. /\ got' = [got EXCEPT ![c] = d]
            /\ at' = [at EXCEPT ![c] = now]
            /\ pc' = [pc EXCEPT ![c] = "claim"]
            /\ UNCHANGED <<now, claimed>>
        BY <1>3, <2>2 DEF Receive, Goto
      <3>3. ASSUME NEW x \in Calls, x # c
            PROVE  got'[x] = got[x] /\ at'[x] = at[x] /\ pc'[x] = pc[x]
        BY <3>2, <3>3
      <3>4. got'[c] = d /\ at'[c] = now
        BY <3>2
      <3> QED
        BY <2>1, <3>1, <3>2, <3>3, <3>4
    <2>3. CASE ~Fresh(d)
      BY <1>3, <2>3 DEF Receive, Answer, Goto
    <2> QED
      BY <2>2, <2>3
  <1>4. ASSUME NEW c \in Calls, Claim(c)
        PROVE  TimeInv'
    <2>1. CASE ~Free(got[c].event)
      <3>1. c \notin claimed
        BY <1>4 DEF Claim, ClaimInv
      <3>2. \A x \in Calls \ {c} : at'[x] = at[x] /\ pc'[x] = pc[x]
        BY <1>4, <2>1 DEF Claim, Answer, Goto
      <3>3. pc'[c] = "done" /\ UNCHANGED <<now, got, claimed>>
        BY <1>4, <2>1 DEF Claim, Answer, Goto
      <3> QED
        BY <3>1, <3>2, <3>3
    <2>2. CASE Free(got[c].event)
      <3>1. /\ claimed' = claimed \cup {c}
            /\ at' = [at EXCEPT ![c] = now]
            /\ pc' = [pc EXCEPT ![c] = "compare"]
            /\ UNCHANGED <<now, got>>
        BY <1>4, <2>2 DEF Claim, Goto
      <3>2. /\ pc[c] = "claim" /\ c \notin claimed
            /\ got[c].timestamp \in Nat /\ at[c] \in Nat
        BY <1>4 DEF Claim, ClaimInv, Delivery
      <3>3. /\ got[c].timestamp <= now + Skew
            /\ now <= got[c].timestamp + Window + Delay
        BY <3>2
      <3>4. at'[c] = now /\ \A x \in Calls \ {c} : at'[x] = at[x] /\ pc'[x] = pc[x]
        BY <3>1
      <3> QED
        BY <3>1, <3>2, <3>3, <3>4
    <2> QED
      BY <2>1, <2>2
  <1>5. ASSUME NEW c \in Calls, Compare(c)
        PROVE  TimeInv'
    BY <1>5 DEF Compare, Answer, Goto
  <1>6. CASE Crash
    BY <1>6 DEF Crash
  <1>7. CASE Tick
    <2>1. \A c \in Calls : pc[c] = "claim" => now + 1 <= at[c] + Delay
      BY <1>7 DEF Tick
    <2> QED
      BY <1>7, <2>1 DEF Tick
  <1>8. ASSUME NEW e \in Events, NEW t \in 0..(now + Skew), NEW s \in BOOLEAN
        PROVE  [event |-> e, timestamp |-> t, signed |-> s] \in Delivery
    BY DEF Delivery
  <1>9. ASSUME NEW c \in Calls, ClaimFails(c)
        PROVE  TimeInv'
    <2>1. c \notin claimed
      BY <1>9 DEF ClaimFails, ClaimInv
    <2>2. \A x \in Calls \ {c} : at'[x] = at[x] /\ pc'[x] = pc[x]
      BY <1>9 DEF ClaimFails, Answer, Goto
    <2>3. pc'[c] = "done" /\ UNCHANGED <<now, got, claimed>>
      BY <1>9 DEF ClaimFails, Answer, Goto
    <2> QED
      BY <2>1, <2>2, <2>3
  <1> QED
    BY <1>1, <1>2, <1>3, <1>4, <1>5, <1>6, <1>7, <1>8, <1>9 DEF Next

\* The inductive invariant holds in every reachable state.
THEOREM Invariance == Spec => []IInv
  <1>1. Init => IInv
    <2> SUFFICES ASSUME Init PROVE IInv
      OBVIOUS
    <2>1. [event |-> CHOOSE e \in Events : TRUE, timestamp |-> 0, signed |-> FALSE]
            \in Delivery
      BY WebhookAssumption DEF Delivery
    <2>2. TypeOK
      BY <2>1 DEF Init, TypeOK, Answers
    <2> QED
      BY <2>2 DEF Init, IInv, ClaimInv, TimeInv, ClaimsApart
  <1>2. IInv /\ [Next]_vars => IInv'
    BY Types, Claims, Times DEF IInv
  <1> QED
    BY <1>1, <1>2, PTL DEF Spec

\* A key is stored by the call that takes it, or by one that fails while it
\* does; afterwards neither moves.
LEMMA Keys == IInv /\ KeyInv /\ RefusalsExpire /\ [Next]_vars => KeyInv' /\ RefusalsExpire'
  <1> SUFFICES ASSUME IInv, KeyInv, RefusalsExpire, [Next]_vars
               PROVE  KeyInv' /\ RefusalsExpire'
    OBVIOUS
  <1> USE WebhookAssumption DEF IInv, TypeOK, KeyInv, RefusalsExpire, Took
  <1>1. CASE UNCHANGED vars
    BY <1>1 DEF vars
  <1>2. ASSUME NEW c \in Calls, RejectMalformed(c)
        PROVE  KeyInv' /\ RefusalsExpire'
    BY <1>2 DEF RejectMalformed, Answer, Goto, ClaimInv
  <1>3. ASSUME NEW c \in Calls, NEW d, Receive(c, d)
        PROVE  KeyInv' /\ RefusalsExpire'
    <2>1. ~Took(c) /\ answer[c] # "duplicate"
      BY <1>3 DEF Receive, ClaimInv
    <2>2. /\ answer'[c] # "duplicate" /\ (pc'[c] = "claim" => answer'[c] = "none")
          /\ pc'[c] \in {"claim", "done"} /\ UNCHANGED <<now, expires, claimed>>
      BY <1>3, <2>1 DEF Receive, Answer, Goto
    <2>3. \A x \in Calls \ {c} : /\ got'[x] = got[x] /\ at'[x] = at[x]
                                /\ pc'[x] = pc[x] /\ answer'[x] = answer[x]
      BY <1>3 DEF Receive, Answer, Goto
    <2>4. \A x \in Calls : Took(x) => x # c /\ Took(x)'
      BY <2>1, <2>2, <2>3
    <2>5. KeyInv'
      BY <2>2, <2>3, <2>4
    <2>6. RefusalsExpire'
      BY <2>2, <2>3, <2>4
    <2> QED
      BY <2>5, <2>6
  <1>4. ASSUME NEW c \in Calls, Claim(c) \/ ClaimFails(c)
        PROVE  KeyInv' /\ RefusalsExpire'
    <2>1. /\ pc[c] = "claim" /\ ~Took(c) /\ answer[c] = "none"
          /\ at' = [at EXCEPT ![c] = now] /\ UNCHANGED <<now, got>>
          /\ got[c].event \in Events
      BY <1>4 DEF Claim, ClaimFails, ClaimInv, Delivery
    <2>2. \A x \in Calls \ {c} : /\ at'[x] = at[x] /\ pc'[x] = pc[x]
                                /\ answer'[x] = answer[x]
      BY <1>4 DEF Claim, ClaimFails, Answer, Goto
    <2>3. pc'[c] \in {"compare", "done"} /\ (pc'[c] = "compare" => answer'[c] = "none")
      BY <1>4, <2>1 DEF Claim, ClaimFails, Answer, Goto
    <2>4. claimed \subseteq claimed' /\ \A x \in Calls : Took(x) => x # c /\ Took(x)'
      BY <1>4, <2>1, <2>2 DEF Claim, ClaimFails
    <2>5. \/ /\ expires' = expires
             /\ answer'[c] = "duplicate" => ~Free(got[c].event)
          \/ /\ expires' = [expires EXCEPT ![got[c].event] = now + Ttl]
             /\ Took(c)' /\ answer'[c] # "duplicate"
      BY <1>4, <2>1 DEF Claim, ClaimFails, Answer, Goto
    <2>6. ASSUME NEW e \in Events, expires'[e] # 0
          PROVE  \E d \in Calls : /\ Took(d)' /\ got'[d].event = e
                                 /\ at'[d] <= now' /\ expires'[e] = at'[d] + Ttl
      <3>1. CASE expires'[e] = expires[e]
        BY <2>1, <2>2, <2>4, <2>6, <3>1
      <3>2. CASE expires'[e] # expires[e]
        BY <2>1, <2>5, <3>2
      <3> QED
        BY <3>1, <3>2
    <2>7. answer'[c] = "duplicate" =>
             \E d \in Calls \ {c} : /\ Took(d)' /\ got'[d].event = got'[c].event
                                    /\ at'[d] <= at'[c] /\ at'[c] < at'[d] + Ttl
      <3>1. HAVE answer'[c] = "duplicate"
      <3>2. ~Free(got[c].event)
        BY <2>5, <3>1
      <3>3. PICK d \in Calls : /\ Took(d) /\ got[d].event = got[c].event
                               /\ at[d] <= now /\ expires[got[c].event] = at[d] + Ttl
        BY <2>1, <3>2 DEF Free
      <3>4. d # c /\ Took(d)' /\ got'[d].event = got'[c].event
        BY <2>1, <2>4, <3>3
      <3>5. at'[d] = at[d] /\ at'[c] = now /\ now < at[d] + Ttl
        BY <2>1, <2>2, <3>2, <3>3, <3>4 DEF Free
      <3>6. d \in Calls \ {c} /\ at'[d] <= at'[c] /\ at'[c] < at'[d] + Ttl
        BY <3>3, <3>4, <3>5
      <3> QED
        BY <3>4, <3>6
    <2>8. RefusalsExpire'
      BY <2>1, <2>2, <2>4, <2>7
    <2> QED
      BY <2>1, <2>2, <2>3, <2>6, <2>8
  <1>5. ASSUME NEW c \in Calls, Compare(c)
        PROVE  KeyInv' /\ RefusalsExpire'
    <2>1. /\ answer'[c] \notin {"duplicate", "failed"} /\ answer[c] = "none"
          /\ pc'[c] = "done"
          /\ UNCHANGED <<now, expires, got, at, claimed>>
      BY <1>5 DEF Compare, Answer, Goto
    <2>2. \A x \in Calls \ {c} : pc'[x] = pc[x] /\ answer'[x] = answer[x]
      BY <1>5 DEF Compare, Answer, Goto
    <2>3. \A x \in Calls : Took(x) => Took(x)'
      BY <2>1, <2>2
    <2> QED
      BY <2>1, <2>2, <2>3
  <1>6. CASE Crash
    <2>1. \A x \in Calls : IF answer[x] = "none"
                            THEN answer'[x] \in {"none", "lost"}
                            ELSE answer'[x] = answer[x]
      BY <1>6 DEF Crash
    <2>2. \A x \in Calls : pc'[x] # "done" => answer'[x] = "none"
      BY <1>6 DEF Crash
    <2>3. UNCHANGED <<now, expires, got, at, claimed>>
      BY <1>6 DEF Crash
    <2>4. \A x \in Calls : Took(x) => Took(x)'
      BY <2>1, <2>3
    <2>5. \A x \in Calls : answer'[x] = "duplicate" => answer[x] = "duplicate"
      BY <2>1
    <2>6. KeyInv'
      BY <2>2, <2>3, <2>4
    <2>7. RefusalsExpire'
      BY <2>3, <2>4, <2>5
    <2> QED
      BY <2>6, <2>7
  <1>7. CASE Tick
    BY <1>7 DEF Tick
  <1> HIDE DEF IInv, TypeOK, KeyInv, RefusalsExpire, Took
  <1> QED
    BY <1>1, <1>2, <1>3, <1>4, <1>5, <1>6, <1>7 DEF Next

\* RefusalsExpire: a refused call has a call to blame that is younger than Ttl.
THEOREM NoLockout == Spec => []RefusalsExpire
  <1>1. Init => KeyInv /\ RefusalsExpire
    BY DEF Init, KeyInv, RefusalsExpire
  <1> QED
    BY <1>1, Keys, Invariance, PTL DEF Spec

\* ClaimsApart: two claims of one event id are at least Ttl apart.
THEOREM OneClaimPerTtl == Spec => []ClaimsApart
  <1>1. IInv => ClaimsApart
    BY DEF IInv
  <1> QED
    BY <1>1, Invariance, PTL

\* DeliveryOnce, with keys that live for two windows as those of the code do:
\* the claims of one delivery all fall into a window that opens Skew early and
\* closes Delay late.
THEOREM ProcessedOnce ==
    ASSUME Ttl >= 2 * Window, Skew + Delay < Window
    PROVE  Spec => []DeliveryOnce
  <1>1. IInv => DeliveryOnce
    <2> SUFFICES ASSUME IInv, NEW c \in Calls, NEW d \in Calls, c # d,
                        answer[c] = "verified", answer[d] = "verified", got[c] = got[d]
                 PROVE  FALSE
      BY DEF DeliveryOnce
    <2>1. c \in claimed /\ d \in claimed
      BY DEF IInv, ClaimInv
    <2>2. Distance(at[c], at[d]) >= Ttl
      BY <2>1 DEF IInv, ClaimsApart
    <2>3. at[c] \in Nat /\ at[d] \in Nat /\ got[c].timestamp \in Nat
      BY DEF IInv, TypeOK, Delivery
    <2>4. /\ got[c].timestamp <= at[c] + Skew /\ got[c].timestamp <= at[d] + Skew
          /\ at[c] <= got[c].timestamp + Window + Delay
          /\ at[d] <= got[c].timestamp + Window + Delay
      BY <2>1 DEF IInv, TimeInv
    <2> QED
      BY <2>2, <2>3, <2>4, WebhookAssumption DEF Distance
  <1> QED
    BY <1>1, Invariance, PTL
=============================================================================
