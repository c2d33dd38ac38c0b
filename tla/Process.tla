------------------------------ MODULE Process ------------------------------
(***************************************************************************)
(* One Node process of FinBank: it serves transfers (Transfer), consumes   *)
(* the events they publish (Notifications), whose rows it saves through    *)
(* the same pool, and counts the responses it finished (Metrics).  When it *)
(* dies all three stop at once: requests under way are lost, events taken  *)
(* are gone, and the counters start again from nothing.                    *)
(***************************************************************************)
EXTENDS TransferProperties

CONSTANTS ConsumerFailures,  \* what may fail in the consumer
          Unsaved,           \* requests during whose event rows may fail to save
          Window,            \* durations the metrics keep
          Latencies          \* milliseconds a response may take

ASSUME ProcessAssumption == /\ Window \in Nat \ {0}
                            /\ ConsumerFailures \subseteq {"mail", "broker", "crash"}
                            /\ Unsaved \subseteq Requests

VARIABLES stage, mails, texts, log,       \* of the events (Notifications)
          counters, durations, finished,  \* of the responses (Metrics)
          closed   \* requests whose response was finished or will never be

N == INSTANCE Notifications WITH
        Transfers <- Requests, Registrations <- {}, WithPhone <- Requests,
        Unlogged <- Unsaved, Failures <- ConsumerFailures

\* The status the framework answers with.  Of the checks that threw, the rows
\* the request found tell which.
Created == 201
BadRequest == 400
Forbidden == 403
NotFound == 404
ServerError == 500
StatusOf(r) ==
    CASE reply[r] \in {"success", "replay"} -> Created
      [] reply[r] = "rejected" ->
            IF From(r) = To(r) THEN BadRequest
            ELSE IF ~({From(r), To(r)} \subseteq Found(r)) THEN NotFound
            ELSE IF seen[r][From(r)].owner # dto[r].user THEN Forbidden
            ELSE BadRequest
      [] OTHER -> ServerError

M == INSTANCE Metrics WITH
        Labels <- {Created, BadRequest, Forbidden, NotFound, ServerError}

eventVars   == <<stage, mails, texts, log>>
metricsVars == <<counters, durations, finished>>
processVars == <<vars, eventVars, metricsVars, closed>>

ProcessInit == Init /\ N!Init /\ M!Init /\ closed = {}

-----------------------------------------------------------------------------
\* The event that a step of the service hands over is in the queue.
Hand == IF published' = published
        THEN UNCHANGED eventVars
        ELSE \E r \in published' \ published : N!Emit(r)

Serve(r) == /\ Submit(r) \/ RejectSelfTransfer(r) \/ Step(r) \/ Failure(r)
            /\ Hand
            /\ UNCHANGED <<metricsVars, closed>>

BesideTransfers ==
    /\ \/ \E o \in Openings : OpenAccount(o)
       \/ \E a \in Accounts, s \in AdminStatuses : SetStatus(a, s)
    /\ UNCHANGED <<eventVars, metricsVars, closed>>

\* The handlers run between the awaits of the requests; their saves want a
\* connection of the pool.
Consume(r) == /\ stage[r] \in {"logSuccess", "logFailed"} => PoolFree
              /\ N!Handle(r)
              /\ UNCHANGED <<vars, metricsVars, closed>>

\* The response is written, and its 'finish' listener runs.
Respond(r) == /\ At(r, "done") /\ r \notin closed
              /\ \E v \in Latencies : M!Finish(StatusOf(r), v)
              /\ closed' = closed \cup {r}
              /\ UNCHANGED <<vars, eventVars>>

\* The process ends and is started again.
Die == /\ {"crash"} \subseteq Failures \cap ConsumerFailures
       /\ \/ Crash
          \/ InFlight = {} /\ UNCHANGED vars
       /\ \/ N!Crash
          \/ /\ \A r \in Requests : stage[r] \notin N!Handling
             /\ UNCHANGED eventVars
       /\ M!Reset
       /\ closed' = {r \in Requests : ~At(r, "idle")}

RestartBroker == N!BrokerRestart /\ UNCHANGED <<vars, metricsVars, closed>>

ProcessNext == \/ \E r \in Requests : Serve(r) \/ Consume(r) \/ Respond(r)
               \/ BesideTransfers \/ Die \/ RestartBroker

ProcessSpec == ProcessInit /\ [][ProcessNext]_processVars

\* As in Transfer and Notifications: every await settles, the broker delivers.
FairProcessSpec ==
    /\ ProcessSpec
    /\ \A r \in Requests :
          /\ WF_processVars(Step(r) /\ Serve(r))
          /\ WF_processVars(Consume(r))

-----------------------------------------------------------------------------
\* The receipt of r, as the service composed it.
NoticeOf(r, n) == [to |-> account[From(r)].owner, reference |-> ref[r],
                   amount |-> dto[r].amount, copies |-> n]

R == INSTANCE Receipts WITH
        mailed <- {NoticeOf(r, mails[r]) : r \in {q \in Requests : mails[q] > 0}},
        texted <- {NoticeOf(r, texts[r]) : r \in {q \in Requests : texts[q] > 0}}

\* Through every interleaving of service and consumer and every failure of
\* either, mails and texts go to the owner of the account that was debited,
\* for a transfer that is booked under the reference and with the amount they
\* name, and once.
CustomersSpec == R!ReceiptsSpec

\* Whoever was told of a failure, or given the answer of an earlier request,
\* gets no receipt for it: an error and a receipt never contradict each other.
ErrorsAreSilent ==
    \A r \in Requests : reply[r] \in {"failed", "rejected", "replay"} =>
        stage[r] = "none"

\* The metrics are true to the answers of this process (Metrics).
WindowIsRecent == M!WindowIsRecent

\* Requests whose BEGIN failed took every connection of the pool along, so
\* that no query of the process is answered any more (NothingLeftOpen).
PoolLeaked == Cardinality({r \in conns : At(r, "done")}) = PoolSize

\* A booked transfer is texted to its customer, unless its request failed or
\* was lost before the event was handed over, the event was lost with the
\* process or the broker, or the pool ran dry for good.
BookedIsTold ==
    \A r \in Requests :
        (\E t \in transactions : t.by = r) ~>
            \/ texts[r] = 1
            \/ stage[r] = "lost"
            \/ At(r, "done") /\ r \notin published
            \/ PoolLeaked
=============================================================================
