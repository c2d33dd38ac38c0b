--------------------------- MODULE Notifications ---------------------------
(***************************************************************************)
(* What follows a transfer or a registration: EventsService emits an event *)
(* to RabbitMQ, EventsConsumer takes it, NotificationsService mails and    *)
(* logs, SmsService texts.  Handlers run together, every await may fail,   *)
(* and the consumer does not acknowledge, so an event is delivered at most *)
(* once.                                                                   *)
(***************************************************************************)
EXTENDS Integers, FiniteSets

CONSTANTS Transfers,     \* transfer.completed events
          Registrations, \* user.registered events
          WithPhone,     \* events whose payload has a phone
          Unlogged,      \* events during whose handling the database may fail
          Failures       \* what else may fail in this behaviour

Events == Transfers \cup Registrations

ASSUME NotificationsAssumption ==
    /\ Transfers \cap Registrations = {}
    /\ WithPhone \subseteq Events /\ Unlogged \subseteq Events
    /\ Failures \subseteq {"mail", "broker", "crash"}

VARIABLES stage,    \* event -> where it stands
          mails,    \* event -> mails the provider accepted for it
          texts,    \* event -> calls of SmsService.send for it
          log       \* the notification_log table

vars == <<stage, mails, texts, log>>

Handling == {"mail", "logSuccess", "logFailed", "text"}
Stages   == {"none", "queued", "done", "lost"} \cup Handling

Init == /\ stage = [e \in Events |-> "none"]
        /\ mails = [e \in Events |-> 0]
        /\ texts = [e \in Events |-> 0]
        /\ log = {}

Goto(e, s)   == stage' = [stage EXCEPT ![e] = s]
Mailed(e)    == mails' = [mails EXCEPT ![e] = @ + 1]
Save(e, s)   == log' = log \cup {[event |-> e, status |-> s]}

\* Both handlers catch what the mail throws and go on to the SMS; only that of
\* user.registered asks whether there is a phone.
GiveUpSlip(e) == Goto(e, "done")
AfterMail(e)  == Goto(e, IF e \in Registrations \ WithPhone THEN "done" ELSE "text")

-----------------------------------------------------------------------------
Emit(e) == /\ stage[e] = "none"
           /\ Goto(e, "queued")
           /\ UNCHANGED <<mails, texts, log>>

Deliver(e) == /\ stage[e] = "queued"
              /\ Goto(e, "mail")
              /\ UNCHANGED <<mails, texts, log>>

\* SMTP or Brevo.  When the call throws, the mail may be under way all the same.
UncheckedSlip(e) ==
    /\ stage[e] = "mail"
    /\ Goto(e, "logSuccess")
    /\ \/ Mailed(e)
       \/ "mail" \in Failures /\ UNCHANGED mails
    /\ UNCHANGED <<texts, log>>
UnloggedSlip(e) ==
    /\ stage[e] = "mail"
    /\ \/ Goto(e, "logSuccess") /\ Mailed(e)
       \/ "mail" \in Failures /\ AfterMail(e) /\ UNCHANGED mails
    /\ UNCHANGED <<texts, log>>
SendMail(e) ==
    /\ stage[e] = "mail"
    /\ \/ Goto(e, "logSuccess") /\ Mailed(e)
       \/ /\ "mail" \in Failures
          /\ Goto(e, "logFailed")
          /\ Mailed(e) \/ UNCHANGED mails
    /\ UNCHANGED <<texts, log>>

\* The row is saved inside the try block of the mail, so that a save that
\* throws, with or without a row, is taken for a mail that failed.
LogSuccess(e) ==
    /\ stage[e] = "logSuccess"
    /\ \/ Save(e, "SUCCESS") /\ AfterMail(e)
       \/ /\ e \in Unlogged
          /\ Save(e, "SUCCESS") \/ UNCHANGED log
          /\ Goto(e, "logFailed")
    /\ UNCHANGED <<mails, texts>>

LogFailed(e) ==
    /\ stage[e] = "logFailed"
    /\ \/ Save(e, "FAILED")
       \/ e \in Unlogged /\ UNCHANGED log
    /\ AfterMail(e)
    /\ UNCHANGED <<mails, texts>>

\* What the SMS provider throws is caught.
Text(e) == /\ stage[e] = "text"
           /\ texts' = [texts EXCEPT ![e] = @ + 1]
           /\ Goto(e, "done")
           /\ UNCHANGED <<mails, log>>

\* The process ends: the events it took are gone, the mails it was sending may
\* go out.
RequeueSlip ==
    /\ "crash" \in Failures
    /\ \E e \in Events : stage[e] \in Handling
    /\ stage' = [e \in Events |->
                   IF stage[e] \in Handling THEN "queued" ELSE stage[e]]
    /\ UNCHANGED <<mails, texts, log>>
Crash ==
    /\ "crash" \in Failures
    /\ \E e \in Events : stage[e] \in Handling
    /\ \E out \in SUBSET {e \in Events : stage[e] = "mail"} :
          mails' = [e \in Events |-> IF e \in out THEN mails[e] + 1 ELSE mails[e]]
    /\ stage' = [e \in Events |->
                   IF stage[e] \in Handling THEN "lost" ELSE stage[e]]
    /\ UNCHANGED <<texts, log>>

\* The broker restarts: the queue is durable, the messages in it are not.
BrokerRestart ==
    /\ "broker" \in Failures
    /\ \E e \in Events : stage[e] = "queued"
    /\ stage' = [e \in Events |-> IF stage[e] = "queued" THEN "lost" ELSE stage[e]]
    /\ UNCHANGED <<mails, texts, log>>

Handle(e) == Deliver(e) \/ SendMail(e) \/ LogSuccess(e) \/ LogFailed(e) \/ Text(e)

Next == \/ \E e \in Events : Emit(e) \/ Handle(e)
        \/ Crash \/ BrokerRestart

Spec == Init /\ [][Next]_vars

\* The broker delivers, and every await settles.
FairSpec == Spec /\ \A e \in Events : WF_vars(Handle(e))

-----------------------------------------------------------------------------
Rows(e, s) == {r \in log : r.event = e /\ r.status = s}

\* A customer gets one receipt and one text at most, whatever failed: nothing
\* is delivered twice or sent again.
AtMostOneEach == \A e \in Events : mails[e] <= 1 /\ texts[e] <= 1

\* The log claims no mail that was not sent.
SuccessIsSent == \A e \in Events : Rows(e, "SUCCESS") # {} => mails[e] = 1

\* While the database answers, every handled event leaves one row.
OneRowEach ==
    \A e \in Events \ Unlogged : stage[e] \in {"text", "done"} =>
        Cardinality(Rows(e, "SUCCESS") \cup Rows(e, "FAILED")) = 1

\* A mail that fails, or its row, does not cost the customer the text; only
\* the end of the process does.
TextFollows ==
    \A e \in Events : e \in WithPhone /\ stage[e] = "mail"
                        ~> texts[e] = 1 \/ stage[e] = "lost"
=============================================================================
