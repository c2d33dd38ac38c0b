--------------------------- MODULE ProcessProofs ---------------------------
(***************************************************************************)
(* What the parts of a FinBank process guarantee together (Process), for   *)
(* any number of requests and any window of the metrics.                   *)
(***************************************************************************)
EXTENDS Process, TransferProofs, SequenceTheorems

-----------------------------------------------------------------------------
(* The service, as the composition sees it.                                *)

\* Every step of the process is a step of the service or leaves it alone, so
\* that all that was proved of transfers (TransferProofs) holds here too.
LEMMA ServiceStep == [ProcessNext]_processVars => [Next]_vars
  <1> SUFFICES ASSUME [ProcessNext]_processVars PROVE [Next]_vars
    OBVIOUS
  <1>1. ASSUME NEW r \in Requests, Serve(r)
        PROVE  Next
    BY <1>1 DEF Serve, Next
  <1>2. ASSUME NEW r \in Requests, Consume(r) \/ Respond(r)
        PROVE  UNCHANGED vars
    BY <1>2 DEF Consume, Respond
  <1>3. CASE BesideTransfers
    BY <1>3 DEF BesideTransfers, Next
  <1>4. CASE Die
    BY <1>4 DEF Die, Next
  <1>5. CASE RestartBroker \/ UNCHANGED processVars
    BY <1>5 DEF RestartBroker, processVars
  <1> QED
    BY <1>1, <1>2, <1>3, <1>4, <1>5 DEF ProcessNext

LEMMA ServiceInvariant == ProcessSpec => []IInv
  <1>1. ProcessInit => IInv
    BY InitIInv DEF ProcessInit
  <1>2. IInv /\ [ProcessNext]_processVars => IInv'
    BY ServiceStep, IInvStep
  <1> QED
    BY <1>1, <1>2, PTL DEF ProcessSpec

-----------------------------------------------------------------------------
(* The metrics.                                                            *)

Recent(s) == SubSeq(s, IF Len(s) > Window THEN Len(s) - Window + 1 ELSE 1, Len(s))

LEMMA RecentOf ==
    ASSUME NEW S, NEW s \in Seq(S), NEW k \in Nat,
           k = IF Len(s) > Window THEN Window ELSE Len(s)
    PROVE  /\ Recent(s) \in Seq(S) /\ Len(Recent(s)) = k
           /\ \A i \in 1..k : Recent(s)[i] = s[Len(s) - k + i]
  <1>1. Len(s) \in Nat
    BY LenProperties
  <1>2. PICK n \in Nat : n = Len(s)
    BY <1>1
  <1>3. PICK m \in Nat : m = n - k + 1
    BY <1>2, ProcessAssumption
  <1>4. 1 <= m /\ Recent(s) = SubSeq(s, m, n)
    <2>1. 1 <= m /\ m = IF Len(s) > Window THEN Len(s) - Window + 1 ELSE 1
      BY <1>2, <1>3, ProcessAssumption
    <2> QED
      BY <1>2, <2>1 DEF Recent
  <1>5. \A i \in m..n : s[i] \in S
    BY <1>2, <1>4, ElementOfSeq
  <1> m \in Int /\ n \in Int
    OBVIOUS
  <1>6. /\ SubSeq(s, m, n) \in Seq(S)
        /\ Len(SubSeq(s, m, n)) = IF m <= n THEN n - m + 1 ELSE 0
        /\ \A i \in 1..(n - m + 1) : SubSeq(s, m, n)[i] = s[m + i - 1]
    BY <1>5, SubSeqProperties
  <1>7. n - m + 1 = k /\ \A i \in 1..k : m + i - 1 = n - k + i
    BY <1>3
  <1>8. Len(SubSeq(s, m, n)) = k
    BY <1>3, <1>6, <1>7
  <1>9. ASSUME NEW i \in 1..k PROVE SubSeq(s, m, n)[i] = s[n - k + i]
    BY <1>6, <1>7
  <1> QED
    BY <1>2, <1>4, <1>6, <1>8, <1>9

\* Pushing to the latest values, and shifting once there are too many, gives
\* the latest values again.
LEMMA PushedRecent ==
    ASSUME NEW S, NEW s \in Seq(S), NEW v \in S
    PROVE  M!Pushed(Recent(s), v) = Recent(Append(s, v))
  <1>1. Len(s) \in Nat
    BY LenProperties
  <1>2. PICK n \in Nat : n = Len(s)
    BY <1>1
  <1>3. PICK k \in Nat : k = IF n > Window THEN Window ELSE n
    BY ProcessAssumption
  <1>4. PICK j \in Nat : j = IF n + 1 > Window THEN Window ELSE n + 1
    BY ProcessAssumption
  <1>5. PICK t : t = Append(s, v)
    OBVIOUS
  <1>6. /\ t \in Seq(S) /\ Len(t) = n + 1
        /\ \A i \in 1..n : t[i] = s[i]
        /\ t[n + 1] = v
    BY <1>2, <1>5, AppendProperties
  <1>7. PICK u : u = Recent(s)
    OBVIOUS
  <1>8. /\ u \in Seq(S) /\ Len(u) = k
        /\ \A i \in 1..k : u[i] = s[n - k + i]
    BY <1>2, <1>3, <1>7, RecentOf
  <1>9. PICK w : w = Recent(t)
    OBVIOUS
  <1>10. /\ w \in Seq(S) /\ Len(w) = j
         /\ \A i \in 1..j : w[i] = t[n + 1 - j + i]
    <2>1. j = IF Len(t) > Window THEN Window ELSE Len(t)
      BY <1>4, <1>6
    <2>2. /\ w \in Seq(S) /\ Len(w) = j
          /\ \A i \in 1..j : w[i] = t[Len(t) - j + i]
      BY <1>6, <1>9, <2>1, RecentOf
    <2> QED
      BY <1>6, <2>2
  <1>11. PICK all : all = Append(u, v)
    OBVIOUS
  <1>12. /\ all \in Seq(S) /\ Len(all) = k + 1
         /\ \A i \in 1..k : all[i] = s[n - k + i]
         /\ all[k + 1] = v
    BY <1>8, <1>11, AppendProperties
  <1>13. PICK p : p = M!Pushed(u, v)
    OBVIOUS
  <1>14. p \in Seq(S) /\ Len(p) = j /\ \A i \in 1..j : p[i] = w[i]
    <2>1. CASE n >= Window
      <3>1. k = Window /\ j = Window /\ Window \in Nat \ {0}
        BY <1>3, <1>4, <2>1, ProcessAssumption
      <3>2. p = Tail(all) /\ all # <<>>
        BY <1>11, <1>12, <1>13, <3>1 DEF M!Pushed
      <3>3. p \in Seq(S) /\ Len(p) = k /\ \A i \in 1..k : p[i] = all[i + 1]
        BY <1>12, <3>2, HeadTailProperties
      <3>4. ASSUME NEW i \in 1..k PROVE p[i] = w[i]
        <4>1. w[i] = t[n + 1 - k + i]
          BY <1>10, <3>1
        <4>2. CASE i = k
          BY <1>6, <1>12, <3>3, <4>1, <4>2
        <4>3. CASE i < k
          <5>1. /\ i + 1 \in 1..k /\ n + 1 - k + i \in 1..n
                /\ n - k + (i + 1) = n + 1 - k + i
            BY <1>2, <2>1, <3>1, <4>3
          <5> QED
            BY <1>6, <1>12, <3>3, <4>1, <5>1
        <4> QED
          BY <4>2, <4>3
      <3> QED
        BY <3>1, <3>3, <3>4
    <2>2. CASE n < Window
      <3>1. k = n /\ j = n + 1
        BY <1>3, <1>4, <2>2, ProcessAssumption
      <3>2. p = all
        BY <1>11, <1>12, <1>13, <2>2, <3>1, ProcessAssumption DEF M!Pushed
      <3>3. ASSUME NEW i \in 1..j PROVE all[i] = w[i]
        <4>1. w[i] = t[i]
          BY <1>10, <3>1
        <4>2. CASE i = n + 1
          BY <1>6, <1>12, <3>1, <4>1, <4>2
        <4>3. CASE i # n + 1
          BY <1>6, <1>12, <3>1, <4>1, <4>3
        <4> QED
          BY <4>2, <4>3
      <3> QED
        BY <1>12, <3>1, <3>2, <3>3
    <2> QED
      BY <2>1, <2>2, ProcessAssumption
  <1>15. p = w
    BY <1>10, <1>14, SeqEqual
  <1> QED
    BY <1>5, <1>7, <1>9, <1>13, <1>15

\* The labels of a response, and what the metrics hold of them.
Codes == {Created, BadRequest, Forbidden, NotFound, ServerError}
MetricsInv ==
    /\ counters \in [Codes -> Nat]
    /\ finished \in [Codes -> Seq(Latencies)]
    /\ durations \in [Codes -> Seq(Latencies)]
    /\ \A l \in Codes : /\ counters[l] = Len(finished[l])
                            /\ durations[l] = Recent(finished[l])

LEMMA MetricsStep == MetricsInv /\ [ProcessNext]_processVars => MetricsInv'
  <1> SUFFICES ASSUME MetricsInv, [ProcessNext]_processVars PROVE MetricsInv'
    OBVIOUS
  <1>1. CASE UNCHANGED metricsVars
    BY <1>1 DEF MetricsInv, metricsVars
  <1>2. ASSUME NEW r \in Requests, Respond(r)
        PROVE  MetricsInv'
    <2>1. StatusOf(r) \in Codes
      BY DEF StatusOf, Codes
    <2>2. PICK v \in Latencies : M!Finish(StatusOf(r), v)
      BY <1>2 DEF Respond
    <2> DEFINE l == StatusOf(r)
    <2>3. /\ counters[l] \in Nat /\ finished[l] \in Seq(Latencies)
          /\ counters[l] = Len(finished[l]) /\ durations[l] = Recent(finished[l])
      BY <2>1 DEF MetricsInv
    <2>4. /\ Append(finished[l], v) \in Seq(Latencies)
          /\ Len(Append(finished[l], v)) = Len(finished[l]) + 1
      BY <2>3, AppendProperties
    <2>5. M!Pushed(durations[l], v) = Recent(Append(finished[l], v))
      BY <2>3, PushedRecent
    <2>6. Recent(Append(finished[l], v)) \in Seq(Latencies)
      <3> DEFINE t == Append(finished[l], v)
                 m == IF Len(t) > Window THEN Len(t) - Window + 1 ELSE 1
      <3>1. m \in Int /\ 1 <= m /\ Len(t) \in Int
        BY <2>4, LenProperties, ProcessAssumption
      <3>2. \A i \in m..Len(t) : t[i] \in Latencies
        BY <2>4, <3>1, ElementOfSeq
      <3>3. SubSeq(t, m, Len(t)) \in Seq(Latencies)
        BY <3>1, <3>2, SubSeqProperties
      <3> QED
        BY <3>3 DEF Recent
    <2>7. /\ counters' = [counters EXCEPT ![l] = @ + 1]
          /\ durations' = [durations EXCEPT ![l] = Recent(Append(finished[l], v))]
          /\ finished' = [finished EXCEPT ![l] = Append(finished[l], v)]
      BY <2>2, <2>5 DEF M!Finish
    <2> HIDE DEF l
    <2>8. l \in Codes
      BY <2>1 DEF l
    <2> QED
      BY <2>3, <2>4, <2>6, <2>7, <2>8 DEF MetricsInv
  <1>3. CASE Die
    <2>1. /\ <<>> \in Seq(Latencies) /\ Len(<<>>) = 0
          /\ Recent(<<>>) = <<>>
      BY ProcessAssumption, EmptySeq, SubSeqEmpty DEF Recent
    <2> QED
      BY <1>3, <2>1 DEF Die, M!Reset, MetricsInv, Codes
  <1> QED
    BY <1>1, <1>2, <1>3
       DEF ProcessNext, processVars, Serve, Consume, BesideTransfers, RestartBroker

\* WindowIsRecent, for every window: the averages are over the latest answers,
\* all of them and no other, since the process started.
THEOREM MetricsTrue == ProcessSpec => []WindowIsRecent
  <1>1. ProcessInit => MetricsInv
    <2>1. /\ <<>> \in Seq(Latencies) /\ Len(<<>>) = 0
          /\ Recent(<<>>) = <<>>
      BY ProcessAssumption, EmptySeq, SubSeqEmpty DEF Recent
    <2> QED
      BY <2>1 DEF ProcessInit, M!Init, MetricsInv, Codes
  <1>2. MetricsInv => WindowIsRecent
    BY DEF MetricsInv, WindowIsRecent, M!WindowIsRecent, M!Counter, M!Gauge, Recent, Codes
  <1> QED
    BY <1>1, <1>2, MetricsStep, PTL DEF ProcessSpec

-----------------------------------------------------------------------------
(* The events.                                                             *)

\* A success is the answer, or would have been.
Answering(r) == \/ At(r, "audit")
                \/ At(r, "done") /\ reply[r] \in {"success", "lost"}

\* An event is in the queue, or beyond it, if and only if its request handed
\* it over; a request that did is about to answer with a success, unless the
\* process ends first.  Each notice goes out at its own stage, once.
EventInv ==
    /\ stage \in [Requests -> N!Stages]
    /\ mails \in [Requests -> Nat] /\ texts \in [Requests -> Nat]
    /\ \A r \in Requests :
          /\ stage[r] # "none" <=> r \in published
          /\ r \in published => Answering(r)
          /\ mails[r] <= 1 /\ (stage[r] \in {"none", "queued", "mail"} => mails[r] = 0)
          /\ texts[r] <= 1 /\ (stage[r] # "done" => texts[r] = 0)

\* Only the two outcomes of the publish hand an event over.
LEMMA OnlyPublish ==
    ASSUME TypeOK, NEW r \in Requests, Submit(r) \/ RejectSelfTransfer(r) \/ Step(r) \/ Failure(r)
    PROVE  \/ published' = published
           \/ /\ At(r, "publish") /\ At(r, "audit")'
              /\ published' = published \cup {r} /\ r \notin published
  <1> USE DEF At, Goto, TypeOK, effects
  <1>1. CASE Publish(r) \/ PublishFails(r)
    <2>1. /\ pc[r] = "publish" /\ pc'[r] = "audit"
          /\ published' \in {published, published \cup {r}}
      BY <1>1 DEF Publish, PublishFails
    <2>2. r \in published => published \cup {r} = published
      OBVIOUS
    <2> QED
      BY <2>1, <2>2
  <1>2. CASE Submit(r) \/ RejectSelfTransfer(r) \/ FindKey(r) \/ Connect(r) \/ Begin(r)
    BY <1>2 DEF Submit, RejectSelfTransfer, FindKey, Connect, Begin
  <1>3. CASE Select(r) \/ (\E a \in Accounts : LockRow(r, a)) \/ Validate(r) \/ SaveSender(r)
    BY <1>3 DEF Select, LockRow, Validate, SaveSender
  <1>4. CASE SaveReceiver(r) \/ Insert(r) \/ SaveEntry(r) \/ Commit(r) \/ Rollback(r)
    BY <1>4 DEF SaveReceiver, Insert, SaveEntry, Commit, Rollback
  <1>5. CASE DelAccount(r) \/ Release(r) \/ FindOwner(r) \/ Audit(r)
    BY <1>5 DEF DelAccount, Release, FindOwner, Audit
  <1>6. CASE \/ LookupFails(r) \/ BeginFails(r) \/ StatementFails(r) \/ CommitAckLost(r)
             \/ DelFails(r) \/ AuditFails(r)
    BY <1>6 DEF LookupFails, BeginFails, StatementFails, CommitAckLost, DelFails, AuditFails
  <1> QED
    BY <1>1, <1>2, <1>3, <1>4, <1>5, <1>6 DEF Step, Failure

\* A request that handed its event over only moves on to its answer.
LEMMA PublishedMoves ==
    ASSUME TypeOK, NEW r \in Requests, Submit(r) \/ RejectSelfTransfer(r) \/ Step(r) \/ Failure(r),
           NEW q \in Requests, q \in published,
           Answering(q)
    PROVE  Answering(q)'
  <1> USE DEF Answering, At, Goto, Answer, TypeOK
  <1>1. CASE Publish(r) \/ PublishFails(r)
    BY <1>1 DEF Publish, PublishFails
  <1>2. CASE Submit(r) \/ RejectSelfTransfer(r) \/ FindKey(r) \/ Connect(r) \/ Begin(r)
    BY <1>2 DEF Submit, RejectSelfTransfer, FindKey, Connect, Begin
  <1>3. CASE Select(r) \/ (\E a \in Accounts : LockRow(r, a)) \/ Validate(r) \/ SaveSender(r)
    BY <1>3 DEF Select, LockRow, Validate, SaveSender
  <1>4. CASE SaveReceiver(r) \/ Insert(r) \/ SaveEntry(r) \/ Commit(r) \/ Rollback(r)
    BY <1>4 DEF SaveReceiver, Insert, SaveEntry, Commit, Rollback
  <1>5. CASE DelAccount(r) \/ Release(r) \/ FindOwner(r) \/ Audit(r)
    BY <1>5 DEF DelAccount, Release, FindOwner, Audit
  <1>6. CASE \/ LookupFails(r) \/ BeginFails(r) \/ StatementFails(r) \/ CommitAckLost(r)
             \/ DelFails(r) \/ AuditFails(r)
    BY <1>6 DEF LookupFails, BeginFails, StatementFails, CommitAckLost, DelFails, AuditFails, InTx
  <1> QED
    BY <1>1, <1>2, <1>3, <1>4, <1>5, <1>6 DEF Step, Failure

LEMMA EventStep == IInv /\ EventInv /\ [ProcessNext]_processVars => EventInv'
  <1> SUFFICES ASSUME IInv, EventInv, [ProcessNext]_processVars PROVE EventInv'
    OBVIOUS
  <1> TypeOK
    BY DEF IInv
  <1> USE DEF N!Stages, N!Handling, N!Events, Answering
  <1>1. ASSUME NEW r \in Requests, Serve(r)
        PROVE  EventInv'
    <2>1. Submit(r) \/ RejectSelfTransfer(r) \/ Step(r) \/ Failure(r)
      BY <1>1 DEF Serve
    <2>2. \A q \in published : Answering(q)'
      <3>1. published \subseteq Requests
        BY DEF TypeOK
      <3> QED
        BY <2>1, <3>1, PublishedMoves DEF EventInv
    <2>3. CASE published' = published
      <3>1. UNCHANGED eventVars
        BY <1>1, <2>3 DEF Serve, Hand
      <3> QED
        BY <2>2, <2>3, <3>1 DEF EventInv, eventVars
    <2>4. CASE published' # published
      <3>1. /\ At(r, "audit")' /\ published' = published \cup {r} /\ r \notin published
        BY <2>1, <2>4, OnlyPublish
      <3>2. N!Emit(r)
        BY <1>1, <2>4, <3>1 DEF Serve, Hand
      <3>3. /\ stage' = [stage EXCEPT ![r] = "queued"] /\ stage[r] = "none"
            /\ UNCHANGED <<mails, texts>>
        BY <3>2 DEF N!Emit, N!Goto
      <3>4. /\ stage' \in [Requests -> N!Stages]
            /\ stage'[r] = "queued" /\ \A q \in Requests \ {r} : stage'[q] = stage[q]
        BY <3>3 DEF EventInv
      <3>5. \A q \in Requests : /\ stage'[q] # "none" <=> q \in published'
                                /\ q \in published' => q = r \/ q \in published
        BY <3>1, <3>4 DEF EventInv
      <3>6. mails[r] = 0 /\ texts[r] = 0
        BY <3>3 DEF EventInv
      <3>7. \A q \in Requests : q \in published' => Answering(q)'
        BY <2>2, <3>1, <3>5
      <3>8. ASSUME NEW q \in Requests
            PROVE  /\ mails'[q] <= 1
                   /\ stage'[q] \in {"none", "queued", "mail"} => mails'[q] = 0
                   /\ texts'[q] <= 1 /\ (stage'[q] # "done" => texts'[q] = 0)
        <4>1. CASE q = r
          BY <3>3, <3>6, <4>1
        <4>2. CASE q # r
          BY <3>3, <3>4, <4>2 DEF EventInv
        <4> QED
          BY <4>1, <4>2
      <3>9. mails' \in [Requests -> Nat] /\ texts' \in [Requests -> Nat]
        BY <3>3 DEF EventInv
      <3> HIDE DEF N!Stages
      <3> QED
        BY <3>4, <3>5, <3>7, <3>8, <3>9 DEF EventInv
    <2> QED
      BY <2>3, <2>4
  <1>2. ASSUME NEW r \in Requests, Consume(r)
        PROVE  EventInv'
    <2>1. UNCHANGED <<published, pc, reply>> /\ N!Handle(r)
      BY <1>2 DEF Consume, vars, local, effects
    <2>2. CASE N!Deliver(r)
      BY <2>1, <2>2 DEF N!Deliver, N!Goto, EventInv, At
    <2>3. CASE N!SendMail(r)
      BY <2>1, <2>3 DEF N!SendMail, N!Goto, N!Mailed, EventInv, At
    <2>4. CASE N!LogSuccess(r)
      BY <2>1, <2>4 DEF N!LogSuccess, N!Goto, N!AfterMail, EventInv, At
    <2>5. CASE N!LogFailed(r)
      BY <2>1, <2>5 DEF N!LogFailed, N!Goto, N!AfterMail, EventInv, At
    <2>6. CASE N!Text(r)
      BY <2>1, <2>6 DEF N!Text, N!Goto, EventInv, At
    <2> QED
      BY <2>1, <2>2, <2>3, <2>4, <2>5, <2>6 DEF N!Handle
  <1>3. CASE BesideTransfers
    BY <1>3 DEF BesideTransfers, OpenAccount, SetStatus, beside, effects, local, eventVars,
                EventInv, At
  <1>4. CASE Die
    <2>1. /\ published' = published
          /\ \A r \in Requests :
                \/ pc'[r] = pc[r] /\ reply'[r] = reply[r]
                \/ pc'[r] = "done" /\ reply'[r] = "lost"
      BY <1>4 DEF Die, Crash, effects, local, vars, TypeOK
    <2>2. CASE N!Crash
      BY <2>1, <2>2 DEF N!Crash, EventInv, At
    <2>3. CASE UNCHANGED eventVars
      BY <2>1, <2>3 DEF eventVars, EventInv, At
    <2> QED
      BY <1>4, <2>2, <2>3 DEF Die
  <1>5. CASE RestartBroker
    BY <1>5 DEF RestartBroker, N!BrokerRestart, vars, effects, EventInv, At
  <1>6. ASSUME NEW r \in Requests, Respond(r)
        PROVE  EventInv'
    BY <1>6 DEF Respond, vars, effects, eventVars, EventInv, At
  <1>7. CASE UNCHANGED processVars
    BY <1>7 DEF processVars, vars, effects, eventVars, EventInv, At
  <1> QED
    BY <1>1, <1>2, <1>3, <1>4, <1>5, <1>6, <1>7 DEF ProcessNext

LEMMA EventInvariance == ProcessSpec => [](IInv /\ EventInv)
  <1>1. ProcessInit => EventInv
    BY DEF ProcessInit, Init, N!Init, N!Events, N!Stages, N!Handling, EventInv
  <1> QED
    BY <1>1, EventStep, ServiceInvariant, PTL DEF ProcessSpec

\* ErrorsAreSilent: no request that was answered otherwise than with a new
\* success has an event.
THEOREM SilentErrors == ProcessSpec => []ErrorsAreSilent
  <1>1. IInv /\ EventInv => ErrorsAreSilent
    BY DEF IInv, ReplyInv, Committed, EventInv, Answering, ErrorsAreSilent, At
  <1> QED
    BY <1>1, EventInvariance, PTL

-----------------------------------------------------------------------------
(* The customers.                                                          *)

\* The account a transfer debited is there, and keeps its owner.
BookedInv == \A t \in transactions : account[t.fromAccount] # NoRow

LEMMA BookedStep == IInv /\ BookedInv /\ [Next]_vars => BookedInv'
  <1> SUFFICES ASSUME IInv, BookedInv, [Next]_vars, NEW t \in transactions'
               PROVE  account'[t.fromAccount] # NoRow
    BY DEF BookedInv
  <1>1. CASE t \in transactions
    <2>1. t.fromAccount \in Accounts
      BY <1>1 DEF IInv, TypeOK, TransactionRow
    <2> QED
      BY <1>1, <2>1, RowsStay DEF BookedInv
  <1>2. CASE t \notin transactions
    <2>1. PICK r \in Requests : Applies(r)
      BY <1>2, OnlyCommits
    <2>2. t = NewTxn(r) /\ From(r) \in Accounts /\ pc[r] = "commit"
      BY <1>2, <2>1, AppliesEffect
    <2>3. account[From(r)].status = "ACTIVE"
      BY <2>2 DEF IInv, CheckedInv, Writing
    <2>4. account[From(r)] # NoRow
      BY <2>3 DEF NoRow
    <2>5. t.fromAccount = From(r)
      BY <2>2 DEF NewTxn
    <2> QED
      BY <2>2, <2>4, <2>5, RowsStay
  <1> QED
    BY <1>1, <1>2

LEMMA OwnerStays ==
    ASSUME IInv, [Next]_vars, NEW a \in Accounts, account[a] # NoRow
    PROVE  account'[a].owner = account[a].owner
  <1>1. \A b \in Accounts : account[b] \in AccountRow
    BY DEF IInv, TypeOK
  <1>2. ASSUME NEW r \in Requests, Applies(r)
        PROVE  account'[a].owner = account[a].owner
    <2>1. /\ From(r) \in Accounts /\ To(r) \in Accounts
          /\ \E x : account'[From(r)] = [account[From(r)] EXCEPT !.balance = x]
          /\ \E x : account'[To(r)] = [account[To(r)] EXCEPT !.balance = x]
          /\ \A b \in Accounts \ {From(r), To(r)} : account'[b] = account[b]
      BY <1>2, AppliesEffect
    <2>2. /\ account'[From(r)].owner = account[From(r)].owner
          /\ account'[To(r)].owner = account[To(r)].owner
      BY <1>1, <2>1 DEF AccountRow
    <2> QED
      BY <2>1, <2>2
  <1>3. CASE Beside
    <2>1. ASSUME NEW o \in Openings, OpenAccount(o)
          PROVE  account'[a] = account[a]
      BY <2>1 DEF OpenAccount, IInv, TypeOK
    <2>2. ASSUME NEW b \in Accounts, NEW s \in AdminStatuses, SetStatus(b, s)
          PROVE  account'[a].owner = account[a].owner
      BY <1>1, <2>2 DEF SetStatus, IInv, TypeOK, AccountRow
    <2> QED
      BY <1>3, <2>1, <2>2 DEF Beside
  <1> QED
    BY <1>2, <1>3, OnlyCommits

\* The notices that went out, in numbers f.
Told(f) == {NoticeOf(r, f[r]) : r \in {q \in Requests : f[q] > 0}}

\* What was published is in the tables, and its notice says so for ever.
LEMMA NoticeStays ==
    ASSUME IInv, IInv', BookedInv, [Next]_vars, NEW r \in published, NEW n
    PROVE  /\ account'[dto'[r].fromAccount].owner = account[From(r)].owner
           /\ ref'[r] = ref[r] /\ dto' = dto
  <1>1. NewTxn(r) \in transactions /\ r \in Requests
    BY DEF IInv, ReplyInv, TypeOK
  <1>2. transactions \subseteq transactions' /\ dto' = dto /\ NewTxn(r)' \in transactions'
    BY <1>1, TransactionsGrow
  <1>3. NewTxn(r).by = r /\ NewTxn(r)'.by = r
    BY DEF NewTxn
  <1>4. NewTxn(r)' = NewTxn(r)
    <2>1. NewTxn(r) \in transactions'
      BY <1>1, <1>2
    <2>2. \A t \in transactions' : t = NewTxn(t.by)'
      BY DEF IInv, UniqueInv
    <2> QED
      BY <1>3, <2>1, <2>2
  <1>5. ref'[r] = ref[r]
    BY <1>4 DEF NewTxn
  <1>6. account[From(r)] # NoRow /\ From(r) \in Accounts
    <2>1. NewTxn(r).fromAccount = From(r)
      BY DEF NewTxn
    <2> QED
      BY <1>1, <2>1 DEF BookedInv, IInv, TypeOK, TransactionRow
  <1>7. account'[From(r)].owner = account[From(r)].owner
    BY <1>6, OwnerStays
  <1> QED
    BY <1>2, <1>5, <1>7 DEF From

\* When new notices go out, those of the requests in out are added.
LEMMA ToldGrows ==
    ASSUME WholeCents, IInv, NEW f \in [Requests -> Nat], NEW g \in [Requests -> Nat],
           NEW out \in SUBSET Requests,
           \A r \in out : f[r] = 0 /\ g[r] = 1,
           \A r \in Requests \ out : g[r] = f[r]
    PROVE  Told(g) = Told(f) \cup {R!Notice(t) : t \in {NewTxn(r) : r \in out}}
  <1>1. ASSUME NEW r \in Requests
        PROVE  R!Notice(NewTxn(r)) = NoticeOf(r, 1)
    <2>1. dto[r].amount \in Nat /\ dto[r].amount % 10 = 0
      BY SchemaAssumption DEF WholeCents, IInv, TypeOK, Dto
    <2>2. Stored(dto[r].amount) = dto[r].amount
      BY <2>1, StoredCents
    <2> QED
      BY <2>2 DEF R!Notice, NewTxn, NoticeOf
  <1>2. {R!Notice(t) : t \in {NewTxn(r) : r \in out}} = {NoticeOf(r, 1) : r \in out}
    BY <1>1
  <1>3. ASSUME NEW r \in Requests
        PROVE  g[r] > 0 <=> f[r] > 0 \/ r \in out
    <2>1. CASE r \in out
      <3>1. g[r] = 1
        BY <2>1
      <3> QED
        BY <2>1, <3>1
    <2>2. CASE r \notin out
      BY <2>2
    <2> QED
      BY <2>1, <2>2
  <1>4. \A r \in Requests \ out : NoticeOf(r, g[r]) = NoticeOf(r, f[r])
    OBVIOUS
  <1>5. ASSUME NEW r \in out
        PROVE  NoticeOf(r, g[r]) = NoticeOf(r, 1) /\ ~(f[r] > 0)
    <2>1. g[r] = 1 /\ f[r] = 0
      OBVIOUS
    <2> QED
      BY <2>1
  <1> QED
    BY <1>2, <1>3, <1>4, <1>5 DEF Told

\* The two abstractions speak of one bank.
LEMMA SameBank == /\ B!Init => R!Init
                  /\ B!Next \/ UNCHANGED B!bankVars => R!Next \/ UNCHANGED R!bankVars
  BY DEF B!Init, R!Init, B!Next, R!Next, B!bankVars, R!bankVars, B!OpenAccount, R!OpenAccount,
         B!SetStatus, R!SetStatus, B!Permitted, R!Permitted, B!Row, R!Row, B!Post, R!Post,
         B!NoRow, R!NoRow, B!OpenedRow, R!OpenedRow, B!Stored, R!Stored, B!Clashes, R!Clashes,
         B!Entries, R!Entries, B!DebitOf, R!DebitOf, B!CreditOf, R!CreditOf, B!Entry, R!Entry

\* What the mapping of CustomersSpec sees of a step.
Bystanders == [R!Next]_(R!bankVars) /\ Told(mails)' = Told(mails) /\ Told(texts)' = Told(texts)
PostsMail(sent) == /\ Told(mails)' = Told(mails) \cup {R!Notice(t) : t \in sent}
                   /\ Told(texts)' = Told(texts) /\ UNCHANGED R!bankVars
PostsText(t) == /\ Told(texts)' = Told(texts) \cup {R!Notice(t)}
                /\ Told(mails)' = Told(mails) /\ UNCHANGED R!bankVars

LEMMA CustomerStep ==
    ASSUME WholeCents, IInv, IInv', BookedInv, EventInv, [ProcessNext]_processVars
    PROVE  \/ Bystanders
           \/ \E sent \in SUBSET transactions : PostsMail(sent)
           \/ \E t \in transactions : PostsText(t)
  <1> [Next]_vars
    BY ServiceStep
  <1>1. R!Next \/ UNCHANGED R!bankVars
    BY BankStep, SameBank
  <1>2. /\ mails \in [Requests -> Nat] /\ texts \in [Requests -> Nat]
        /\ \A r \in Requests : mails[r] > 0 \/ texts[r] > 0 => r \in published
    BY DEF EventInv
  <1>3. ASSUME UNCHANGED mails
        PROVE  Told(mails)' = Told(mails)
    <2>1. Told(mails)' = {NoticeOf(r, mails[r])' : r \in {q \in Requests : mails[q] > 0}}
      BY <1>3 DEF Told
    <2> QED
      BY <1>2, <1>3, <2>1, NoticeStays DEF Told, NoticeOf, From
  <1>4. ASSUME UNCHANGED texts
        PROVE  Told(texts)' = Told(texts)
    <2>1. Told(texts)' = {NoticeOf(r, texts[r])' : r \in {q \in Requests : texts[q] > 0}}
      BY <1>4 DEF Told
    <2> QED
      BY <1>2, <1>4, <2>1, NoticeStays DEF Told, NoticeOf, From
  <1>5. CASE UNCHANGED <<mails, texts>>
    BY <1>1, <1>3, <1>4, <1>5 DEF Bystanders
  <1>6. ASSUME UNCHANGED <<account, transactions, ledger, ref, dto, texts>>,
               NEW out \in SUBSET Requests,
               \A r \in out : stage[r] = "mail",
               mails' = [r \in Requests |-> IF r \in out THEN mails[r] + 1 ELSE mails[r]]
        PROVE  \E sent \in SUBSET transactions : PostsMail(sent)
    <2>1. \A r \in out : mails[r] = 0 /\ mails'[r] = 1
      BY <1>6 DEF EventInv
    <2>2. mails' \in [Requests -> Nat] /\ \A r \in Requests \ out : mails'[r] = mails[r]
      BY <1>2, <1>6
    <2>3. Told(mails') = Told(mails) \cup {R!Notice(t) : t \in {NewTxn(r) : r \in out}}
      BY <1>2, <2>1, <2>2, ToldGrows
    <2>4. Told(mails)' = Told(mails')
      BY <1>6 DEF Told, NoticeOf, From
    <2>5. {NewTxn(r) : r \in out} \subseteq transactions
      BY <1>6 DEF EventInv, IInv, ReplyInv
    <2>6. UNCHANGED R!bankVars
      BY <1>6 DEF R!bankVars
    <2> QED
      BY <1>4, <1>6, <2>3, <2>4, <2>5, <2>6 DEF PostsMail
  <1>7. ASSUME NEW r \in Requests, Consume(r)
        PROVE  \/ UNCHANGED <<mails, texts>>
               \/ \E sent \in SUBSET transactions : PostsMail(sent)
               \/ \E t \in transactions : PostsText(t)
    <2>1. UNCHANGED <<account, transactions, ledger, ref, dto>>
      BY <1>7 DEF Consume, vars, tables, local
    <2>2. CASE N!SendMail(r)
      <3>1. stage[r] = "mail" /\ UNCHANGED texts
            /\ \/ UNCHANGED mails
               \/ mails' = [q \in Requests |-> IF q \in {r} THEN mails[q] + 1 ELSE mails[q]]
        BY <1>2, <2>2 DEF N!SendMail, N!Mailed
      <3> QED
        BY <1>6, <2>1, <3>1
    <2>3. CASE N!Text(r)
      <3>1. /\ stage[r] = "text" /\ UNCHANGED mails
            /\ texts' = [texts EXCEPT ![r] = @ + 1]
        BY <2>3 DEF N!Text
      <3>2. texts[r] = 0 /\ r \in published
        BY <3>1 DEF EventInv
      <3>3. PICK out \in SUBSET Requests : out = {r}
        OBVIOUS
      <3>4. /\ \A q \in out : texts[q] = 0 /\ texts'[q] = 1
            /\ \A q \in Requests \ out : texts'[q] = texts[q]
            /\ texts' \in [Requests -> Nat]
        BY <1>2, <3>1, <3>2, <3>3
      <3>5. Told(texts') = Told(texts) \cup {R!Notice(NewTxn(r))}
        <4>1. Told(texts') = Told(texts) \cup {R!Notice(t) : t \in {NewTxn(q) : q \in out}}
          BY <1>2, <3>4, ToldGrows
        <4>2. {NewTxn(q) : q \in out} = {NewTxn(r)}
          BY <3>3
        <4>3. {R!Notice(t) : t \in {NewTxn(r)}} = {R!Notice(NewTxn(r))}
          OBVIOUS
        <4> QED
          BY <4>1, <4>2, <4>3
      <3>6. Told(texts)' = Told(texts')
        BY <2>1 DEF Told, NoticeOf, From
      <3>7. NewTxn(r) \in transactions
        BY <3>2 DEF IInv, ReplyInv
      <3> QED
        BY <1>3, <2>1, <3>1, <3>5, <3>6, <3>7 DEF PostsText, R!bankVars
    <2>4. CASE N!Deliver(r) \/ N!LogSuccess(r) \/ N!LogFailed(r)
      BY <2>4 DEF N!Deliver, N!LogSuccess, N!LogFailed
    <2> QED
      BY <1>7, <2>2, <2>3, <2>4 DEF Consume, N!Handle
  <1>8. CASE Die
    <2>1. UNCHANGED <<account, transactions, ledger, ref, dto>>
      BY <1>8 DEF Die, Crash, vars, tables, local
    <2>2. CASE N!Crash
      <3>1. /\ UNCHANGED texts
            /\ \E out \in SUBSET {r \in Requests : stage[r] = "mail"} :
                  mails' = [r \in Requests |-> IF r \in out THEN mails[r] + 1 ELSE mails[r]]
        BY <2>2 DEF N!Crash, N!Events
      <3> QED
        BY <1>6, <2>1, <3>1
    <2>3. CASE UNCHANGED eventVars
      BY <1>5, <2>3 DEF eventVars
    <2> QED
      BY <1>8, <2>2, <2>3 DEF Die
  <1>9. ASSUME NEW r \in Requests, Serve(r) \/ Respond(r)
        PROVE  UNCHANGED <<mails, texts>>
    BY <1>9 DEF Serve, Respond, Hand, eventVars, N!Emit
  <1>10. CASE BesideTransfers \/ RestartBroker \/ UNCHANGED processVars
    <2>1. UNCHANGED <<mails, texts>>
      BY <1>10 DEF BesideTransfers, RestartBroker, N!BrokerRestart, processVars, eventVars
    <2> QED
      BY <1>5, <2>1
  <1> QED
    BY <1>5, <1>7, <1>8, <1>9, <1>10 DEF ProcessNext

\* CustomersSpec, for every instance whose amounts are whole cents: what goes
\* out to customers is what was booked, to whom it was debited, once.
THEOREM CustomersServed ==
    ASSUME WholeCents
    PROVE  ProcessSpec => CustomersSpec
  <1>1. ProcessInit => R!ReceiptsInit /\ BookedInv
    <2> SUFFICES ASSUME ProcessInit PROVE R!ReceiptsInit /\ BookedInv
      OBVIOUS
    <2>1. R!Init
      BY DEF ProcessInit, Init, R!Init, NoRow, R!NoRow
    <2>2. \A r \in Requests : mails[r] = 0 /\ texts[r] = 0
      BY DEF ProcessInit, N!Init, N!Events
    <2>3. transactions = {}
      BY DEF ProcessInit, Init
    <2> QED
      BY <2>1, <2>2, <2>3 DEF R!ReceiptsInit, BookedInv
  <1>2. IInv /\ BookedInv /\ [ProcessNext]_processVars => BookedInv'
    BY ServiceStep, BookedStep
  <1>3. /\ IInv /\ IInv' /\ BookedInv /\ EventInv /\ [ProcessNext]_processVars
        => [R!ReceiptsNext]_(R!receiptsVars)
    BY CustomerStep
       DEF Bystanders, PostsMail, PostsText, Told, R!ReceiptsNext, R!receiptsVars, R!Mail, R!Text
  <1> QED
    BY <1>1, <1>2, <1>3, EventInvariance, PTL DEF ProcessSpec, CustomersSpec, R!ReceiptsSpec
=============================================================================
