------------------------ MODULE NotificationsProofs ------------------------
(***************************************************************************)
(* Proofs about Notifications, for any number of events and every failure. *)
(***************************************************************************)
EXTENDS Notifications, FiniteSetTheorems, TLAPS

LogRow == [event : Events, status : {"SUCCESS", "FAILED"}]

TypeOK == /\ stage \in [Events -> Stages]
          /\ mails \in [Events -> Nat]
          /\ texts \in [Events -> Nat]
          /\ log \subseteq LogRow

Row(e, s) == [event |-> e, status |-> s]

\* What has gone out for an event is what its stage says: no mail before
\* "mail" is over, exactly one when it succeeded, no text before "text".
SentInv(e) ==
    /\ mails[e] <= 1 /\ texts[e] <= 1
    /\ stage[e] \in {"none", "queued", "mail"} => mails[e] = 0
    /\ stage[e] = "logSuccess" => mails[e] = 1
    /\ stage[e] \in {"none", "queued"} \cup Handling => texts[e] = 0

\* So is what has been logged, while the database answers.
LogInv(e) ==
    /\ stage[e] \in {"none", "queued", "mail", "logSuccess"} =>
          \A s \in {"SUCCESS", "FAILED"} : Row(e, s) \notin log
    /\ Row(e, "SUCCESS") \in log => mails[e] = 1
    /\ e \notin Unlogged =>
          /\ stage[e] = "logFailed" =>
                \A s \in {"SUCCESS", "FAILED"} : Row(e, s) \notin log
          /\ stage[e] \in {"text", "done"} =>
                (Row(e, "SUCCESS") \in log) # (Row(e, "FAILED") \in log)

IInv == TypeOK /\ \A e \in Events : SentInv(e) /\ LogInv(e)

LEMMA InitInv == Init => IInv
  BY DEF Init, IInv, TypeOK, SentInv, LogInv, Stages, Handling

\* An event none of whose parts changed keeps its invariants.
LEMMA Untouched ==
    ASSUME IInv, NEW e \in Events,
           stage'[e] = stage[e], mails'[e] = mails[e], texts'[e] = texts[e],
           \A s \in {"SUCCESS", "FAILED"} : Row(e, s) \in log' <=> Row(e, s) \in log
    PROVE  (SentInv(e) /\ LogInv(e))'
  BY DEF IInv, SentInv, LogInv

\* A saved row is a row of its event alone.
LEMMA OtherRows ==
    ASSUME NEW e \in Events, NEW f \in Events, e # f, NEW s, NEW x,
           log' = log \cup {[event |-> e, status |-> s]}
    PROVE  Row(f, x) \in log' <=> Row(f, x) \in log
  BY DEF Row

LEMMA EmitInv == ASSUME IInv, NEW e \in Events, Emit(e) \/ Deliver(e)
                 PROVE  IInv'
  <1> USE DEF Emit, Deliver, Goto
  <1>1. TypeOK'
    BY DEF IInv, TypeOK, Stages, Handling
  <1>2. (SentInv(e) /\ LogInv(e))'
    BY DEF IInv, TypeOK, SentInv, LogInv, Handling
  <1>3. ASSUME NEW f \in Events \ {e} PROVE (SentInv(f) /\ LogInv(f))'
    <2>1. stage'[f] = stage[f]
      BY DEF IInv, TypeOK
    <2> QED BY <2>1, Untouched
  <1> QED BY <1>1, <1>2, <1>3 DEF IInv

LEMMA SendMailInv == ASSUME IInv, NEW e \in Events, SendMail(e) PROVE IInv'
  <1> USE DEF SendMail, Goto, Mailed
  <1>1. TypeOK'
    BY DEF IInv, TypeOK, Stages, Handling
  <1>2. SentInv(e)'
    BY DEF IInv, TypeOK, SentInv, Handling
  <1>3. LogInv(e)'
    BY DEF IInv, TypeOK, SentInv, LogInv, Handling
  <1>4. ASSUME NEW f \in Events \ {e} PROVE (SentInv(f) /\ LogInv(f))'
    <2>1. stage'[f] = stage[f] /\ mails'[f] = mails[f]
      BY DEF IInv, TypeOK
    <2> QED BY <2>1, Untouched
  <1> QED BY <1>1, <1>2, <1>3, <1>4 DEF IInv

LEMMA LogSuccessInv == ASSUME IInv, NEW e \in Events, LogSuccess(e) PROVE IInv'
  <1> USE DEF LogSuccess, Goto, AfterMail, Save
  <1>1. stage' \in [Events -> Stages]
    BY DEF IInv, TypeOK, Stages, Handling
  <1>2. TypeOK'
    BY <1>1 DEF IInv, TypeOK, LogRow
  <1>3. SentInv(e)'
    BY DEF IInv, TypeOK, SentInv, Handling
  <1>4. mails[e] = 1 /\ stage[e] = "logSuccess"
        /\ Row(e, "SUCCESS") \notin log /\ Row(e, "FAILED") \notin log
    BY DEF IInv, SentInv, LogInv
  <1>5. Row(e, "FAILED") \notin log'
    BY <1>4 DEF Row
  <1>6. ASSUME log' = log \cup {[event |-> e, status |-> "SUCCESS"]}, AfterMail(e)
        PROVE  LogInv(e)'
    <2>1. stage'[e] \in {"text", "done"} /\ Row(e, "SUCCESS") \in log'
      BY <1>6 DEF IInv, TypeOK, Row
    <2> QED BY <2>1, <1>4, <1>5 DEF LogInv
  <1>7. ASSUME e \in Unlogged, Goto(e, "logFailed")
        PROVE  LogInv(e)'
    <2>1. stage'[e] = "logFailed"
      BY <1>7 DEF IInv, TypeOK
    <2> QED BY <2>1, <1>4, <1>7 DEF LogInv
  <1>8. ASSUME NEW f \in Events \ {e} PROVE (SentInv(f) /\ LogInv(f))'
    <2>1. stage'[f] = stage[f]
      BY DEF IInv, TypeOK
    <2>2. \A s \in {"SUCCESS", "FAILED"} : Row(f, s) \in log' <=> Row(f, s) \in log
      BY OtherRows
    <2> QED BY <2>1, <2>2, Untouched
  <1> QED BY <1>2, <1>3, <1>6, <1>7, <1>8 DEF IInv

LEMMA LogFailedInv == ASSUME IInv, NEW e \in Events, LogFailed(e) PROVE IInv'
  <1> USE DEF LogFailed, Goto, AfterMail, Save
  <1>1. TypeOK'
    <2>1. stage' \in [Events -> Stages]
      BY DEF IInv, TypeOK, Stages, Handling
    <2> QED BY <2>1 DEF IInv, TypeOK, LogRow
  <1>2. stage'[e] \in {"text", "done"}
    BY DEF IInv, TypeOK
  <1>3. SentInv(e)'
    BY <1>2 DEF IInv, TypeOK, SentInv, Handling
  <1>4. Row(e, "SUCCESS") \in log' <=> Row(e, "SUCCESS") \in log
    BY DEF Row
  <1>5. e \notin Unlogged => Row(e, "SUCCESS") \notin log /\ Row(e, "FAILED") \in log'
    BY DEF IInv, LogInv, Row
  <1>6. LogInv(e)'
    BY <1>2, <1>4, <1>5 DEF IInv, LogInv
  <1>7. ASSUME NEW f \in Events \ {e} PROVE (SentInv(f) /\ LogInv(f))'
    <2>1. stage'[f] = stage[f]
      BY DEF IInv, TypeOK
    <2>2. \A s \in {"SUCCESS", "FAILED"} : Row(f, s) \in log' <=> Row(f, s) \in log
      BY OtherRows
    <2> QED BY <2>1, <2>2, Untouched
  <1> QED BY <1>1, <1>3, <1>6, <1>7 DEF IInv

LEMMA TextInv == ASSUME IInv, NEW e \in Events, Text(e) PROVE IInv'
  <1> USE DEF Text, Goto
  <1>1. TypeOK'
    BY DEF IInv, TypeOK, Stages, Handling
  <1>2. (SentInv(e) /\ LogInv(e))'
    BY DEF IInv, TypeOK, SentInv, LogInv, Handling
  <1>3. ASSUME NEW f \in Events \ {e} PROVE (SentInv(f) /\ LogInv(f))'
    <2>1. stage'[f] = stage[f] /\ texts'[f] = texts[f]
      BY DEF IInv, TypeOK
    <2> QED BY <2>1, Untouched
  <1> QED BY <1>1, <1>2, <1>3 DEF IInv

\* The end of the process and of the broker lose events for good.
LEMMA LossInv == ASSUME IInv, Crash \/ BrokerRestart PROVE IInv'
  <1>1. TypeOK'
    BY DEF IInv, TypeOK, Crash, BrokerRestart, Stages
  <1>2. ASSUME NEW e \in Events PROVE (SentInv(e) /\ LogInv(e))'
    <2>1. CASE Crash
      <3>1. /\ stage'[e] = IF stage[e] \in Handling THEN "lost" ELSE stage[e]
            /\ \/ mails'[e] = mails[e]
               \/ stage[e] = "mail" /\ mails'[e] = mails[e] + 1
            /\ texts' = texts /\ log' = log
        BY <2>1 DEF Crash
      <3> QED BY <3>1 DEF IInv, TypeOK, SentInv, LogInv, Handling
    <2>2. CASE BrokerRestart
      <3>1. /\ stage'[e] = IF stage[e] = "queued" THEN "lost" ELSE stage[e]
            /\ mails' = mails /\ texts' = texts /\ log' = log
        BY <2>2 DEF BrokerRestart
      <3> QED BY <3>1 DEF IInv, TypeOK, SentInv, LogInv, Handling
    <2> QED BY <2>1, <2>2
  <1> QED BY <1>1, <1>2 DEF IInv

LEMMA Invariance == Spec => []IInv
  <1>1. IInv /\ [Next]_vars => IInv'
    <2> SUFFICES ASSUME IInv, [Next]_vars PROVE IInv'
      OBVIOUS
    <2>1. CASE UNCHANGED vars
      BY <2>1 DEF vars, IInv, TypeOK, SentInv, LogInv
    <2>2. ASSUME NEW e \in Events, Emit(e) \/ Handle(e) PROVE IInv'
      BY <2>2, EmitInv, SendMailInv, LogSuccessInv, LogFailedInv, TextInv DEF Handle
    <2> QED BY <2>1, <2>2, LossInv DEF Next
  <1> QED BY <1>1, InitInv, PTL DEF Spec

-----------------------------------------------------------------------------
\* Nobody is mailed or texted twice for one event, whatever fails.
THEOREM NothingTwice == Spec => []AtMostOneEach
  <1>1. IInv => AtMostOneEach
    BY DEF IInv, SentInv, AtMostOneEach
  <1> QED BY <1>1, Invariance, PTL

\* The log claims no mail that was not sent.
THEOREM LogTrue == Spec => []SuccessIsSent
  <1>1. IInv => SuccessIsSent
    <2> SUFFICES ASSUME IInv, NEW e \in Events, NEW r \in Rows(e, "SUCCESS")
                 PROVE  mails[e] = 1
      BY DEF SuccessIsSent
    <2>1. r = Row(e, "SUCCESS") /\ r \in log
      BY DEF Rows, IInv, TypeOK, LogRow, Row
    <2> QED BY <2>1 DEF IInv, LogInv
  <1> QED BY <1>1, Invariance, PTL

\* Every event that was handled while the database answered left one row.
THEOREM LogComplete == Spec => []OneRowEach
  <1>1. IInv => OneRowEach
    <2> SUFFICES ASSUME IInv, NEW e \in Events \ Unlogged, stage[e] \in {"text", "done"}
                 PROVE  Cardinality(Rows(e, "SUCCESS") \cup Rows(e, "FAILED")) = 1
      BY DEF OneRowEach
    <2>1. (Row(e, "SUCCESS") \in log) # (Row(e, "FAILED") \in log)
      BY DEF IInv, LogInv
    <2>2. \A s \in {"SUCCESS", "FAILED"} : Rows(e, s) = {Row(e, s)} \cap log
      BY DEF Rows, Row, IInv, TypeOK, LogRow
    <2>3. PICK s \in {"SUCCESS", "FAILED"} :
             Rows(e, "SUCCESS") \cup Rows(e, "FAILED") = {Row(e, s)}
      BY <2>1, <2>2
    <2> QED BY <2>3, FS_Singleton
  <1> QED BY <1>1, Invariance, PTL
=============================================================================
