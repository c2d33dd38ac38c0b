---------------------------- MODULE ReadersProofs ----------------------------
(***************************************************************************)
(* What those see who read the tables of the transfer service beside it,   *)
(* for any number of transfers and readers: how old a cached account row   *)
(* can be, and whose fault it is (AccountCache); that reconciliation       *)
(* raises no false alarm, that settlement sums nothing that is not posted, *)
(* and that the windows of the daily reports tile the time, in every zone  *)
(* (Reports).                                                              *)
(***************************************************************************)
EXTENDS AccountCache, Reports, TransferProofs

-----------------------------------------------------------------------------
(* Cached accounts.                                                        *)

\* A row that is the committed row of a, or was until some moment not earlier
\* than since.
Known(a, row, since) ==
    row = account[a] \/ \E h \in recent[a] : h.row = row /\ since <= h.left

\* The same, once a step is over.
KnownAfter(a, row, since) ==
    row = account'[a] \/ \E h \in recent'[a] : h.row = row /\ since <= h.left

\* What a reader carries is known since it was read ...
CarriedInv ==
    \A k \in Readers :
        /\ reader[k].stage = "find" => reader[k].number \in Accounts
        /\ reader[k].stage = "set" =>
              /\ reader[k].number \in Accounts
              /\ reader[k].at \in Nat
              /\ reader[k].at <= now /\ now <= reader[k].at + Delay
              /\ Known(reader[k].number, reader[k].row, reader[k].at)

\* ... and what the cache holds since Ttl + Delay before its end.
CachedInv ==
    \A a \in Accounts : cache[a] # NoEntry =>
        /\ cache[a].until \in Nat
        /\ now < cache[a].until /\ cache[a].until <= now + Ttl
        /\ Known(a, cache[a].row, cache[a].until - (Ttl + Delay))

HistoryInv ==
    /\ now \in Nat
    /\ cache = [a \in Accounts |-> cache[a]]
    /\ recent = [a \in Accounts |-> recent[a]]
    /\ reader = [k \in Readers |-> reader[k]]
    /\ \A a \in Accounts : \A h \in recent[a] : h.left \in Nat

Inv == HistoryInv /\ CarriedInv /\ CachedInv

\* A step of the service may make the committed row of a number history: it
\* stays known from any moment up to now.
LEMMA StaysKnown ==
    ASSUME Inv, TransferStep, NEW a \in Accounts, NEW row, NEW since \in Int,
           since <= now, Known(a, row, since)
    PROVE  KnownAfter(a, row, since)
  <1>1. \A h \in recent[a] : h \in recent'[a]
    BY DEF TransferStep, Inv, HistoryInv
  <1>2. CASE account'[a] = account[a]
    BY <1>1, <1>2 DEF Known, KnownAfter
  <1>3. CASE account'[a] # account[a]
    <2> DEFINE gone == [row |-> account[a], left |-> now]
    <2>1. gone \in recent'[a]
      BY <1>3 DEF TransferStep
    <2>2. gone.row = account[a] /\ since <= gone.left
      OBVIOUS
    <2> QED
      BY <1>1, <2>1, <2>2 DEF Known, KnownAfter
  <1> QED
    BY <1>2, <1>3

\* Steps of the transfer service keep the invariant.
LEMMA TransferKeeps == Inv /\ TransferStep => Inv'
  <1> SUFFICES ASSUME Inv, TransferStep PROVE Inv'
    OBVIOUS
  <1> USE CacheAssumption DEF Inv
  <1>1. HistoryInv'
    <2>1. ASSUME NEW a \in Accounts, NEW h \in recent'[a]
          PROVE  h.left \in Nat
      <3>1. h \in recent[a] \/ h = [row |-> account[a], left |-> now]
        BY <2>1 DEF TransferStep
      <3> QED
        BY <3>1 DEF HistoryInv
    <2> QED
      BY <2>1 DEF TransferStep, HistoryInv
  <1>2. CarriedInv'
    <2> SUFFICES ASSUME NEW k \in Readers, reader[k].stage = "set"
                 PROVE  KnownAfter(reader[k].number, reader[k].row, reader[k].at)
      BY DEF TransferStep, CarriedInv, Known, KnownAfter
    <2>1. /\ reader[k].number \in Accounts /\ reader[k].at \in Int
          /\ reader[k].at <= now
          /\ Known(reader[k].number, reader[k].row, reader[k].at)
      BY DEF CarriedInv
    <2> QED
      BY <2>1, StaysKnown
  <1>3. CachedInv'
    <2> SUFFICES ASSUME NEW a \in Accounts, cache'[a] # NoEntry
                 PROVE  /\ cache'[a].until \in Nat
                        /\ now' < cache'[a].until /\ cache'[a].until <= now' + Ttl
                        /\ KnownAfter(a, cache'[a].row, cache'[a].until - (Ttl + Delay))
      BY DEF CachedInv, Known, KnownAfter
    <2>1. cache'[a] = cache[a] /\ now' = now
      BY DEF TransferStep
    <2>2. /\ cache[a].until \in Nat
          /\ now < cache[a].until /\ cache[a].until <= now + Ttl
          /\ Known(a, cache[a].row, cache[a].until - (Ttl + Delay))
      BY <2>1 DEF CachedInv
    <2>3. /\ cache[a].until - (Ttl + Delay) \in Int
          /\ cache[a].until - (Ttl + Delay) <= now
      BY <2>2 DEF HistoryInv
    <2>4. KnownAfter(a, cache[a].row, cache[a].until - (Ttl + Delay))
      BY <2>2, <2>3, StaysKnown
    <2> QED
      BY <2>1, <2>2, <2>4
  <1> QED
    BY <1>1, <1>2, <1>3

\* Reads keep it: a row is known up to now when it is read, and for Delay
\* more when it is set.
LEMMA ReadsKeep ==
    ASSUME Inv, NEW k \in Readers,
           \/ (\E a \in Accounts : Get(k, a)) \/ Find(k) \/ Set(k) \/ ReadFails(k)
    PROVE  Inv'
  <1> USE CacheAssumption DEF Inv
  <1>0. UNCHANGED <<now, account, recent>>
    BY DEF Get, Find, Set, ReadFails, vars, tables
  <1>1. ASSUME NEW a \in Accounts, NEW row, NEW since
        PROVE  Known(a, row, since) <=> KnownAfter(a, row, since)
    BY <1>0 DEF Known, KnownAfter
  <1>2. ASSUME NEW a \in Accounts, Get(k, a)
        PROVE  Inv'
    BY <1>2 DEF Get, HistoryInv, CarriedInv, CachedInv, Known, vars, tables
  <1>3. CASE Find(k)
    <2>1. cache' = cache /\ \A q \in Readers \ {k} : reader'[q] = reader[q]
      BY <1>3 DEF Find
    <2>2. reader[k].number \in Accounts
      BY <1>3 DEF Find, CarriedInv
    <2>3. \/ reader'[k] = Idle
          \/ reader'[k] = [stage |-> "set", number |-> reader[k].number,
                           row |-> account[reader[k].number], at |-> now]
      BY <1>3 DEF Find, HistoryInv
    <2>4. HistoryInv' /\ CachedInv'
      BY <1>0, <1>3, <2>1 DEF HistoryInv, CachedInv, Known, Find
    <2>5. CarriedInv'
      BY <1>0, <2>1, <2>2, <2>3 DEF CarriedInv, HistoryInv, Known, Idle
    <2> QED
      BY <2>4, <2>5
  <1>4. CASE Set(k)
    <2> DEFINE n == reader[k].number
               new == [row |-> reader[k].row, until |-> now + Ttl,
                       late |-> reader[k].row # account[n]]
    <2>1. /\ n \in Accounts /\ reader[k].at \in Nat /\ now <= reader[k].at + Delay
          /\ Known(n, reader[k].row, reader[k].at)
      BY <1>4 DEF Set, CarriedInv
    <2>2. cache' = [cache EXCEPT ![n] = new] /\ reader' = [reader EXCEPT ![k] = Idle]
      BY <1>4 DEF Set
    <2>3. \/ reader[k].row = account[n]
          \/ \E h \in recent[n] : h.row = reader[k].row /\ now <= h.left + Delay
      BY <2>1 DEF Known, HistoryInv
    <2>4. HistoryInv' /\ CarriedInv'
      BY <1>0, <2>2 DEF HistoryInv, CarriedInv, Known, Idle
    <2>5. CachedInv'
      <3>1. cache'[n] = new /\ \A a \in Accounts \ {n} : cache'[a] = cache[a]
        BY <2>1, <2>2 DEF HistoryInv
      <3>2. /\ cache'[n].until = now + Ttl /\ cache'[n].row = reader[k].row
            /\ now + Ttl \in Nat /\ now < now + Ttl
        BY <3>1 DEF HistoryInv
      <3>3. Known(n, cache'[n].row, cache'[n].until - (Ttl + Delay))
        <4>1. CASE reader[k].row = account[n]
          BY <3>2, <4>1 DEF Known
        <4>2. ASSUME NEW h \in recent[n], h.row = reader[k].row, now <= h.left + Delay
              PROVE  Known(n, cache'[n].row, cache'[n].until - (Ttl + Delay))
          <5>1. h.left \in Nat /\ now \in Nat
            BY <2>1 DEF HistoryInv
          <5>2. cache'[n].until - (Ttl + Delay) <= h.left
            BY <3>2, <4>2, <5>1
          <5> QED
            BY <3>2, <4>2, <5>2 DEF Known
        <4> QED
          BY <2>3, <4>1, <4>2
      <3>4. ASSUME NEW a \in Accounts, cache'[a] # NoEntry
            PROVE  /\ cache'[a].until \in Nat
                   /\ now < cache'[a].until /\ cache'[a].until <= now + Ttl
                   /\ Known(a, cache'[a].row, cache'[a].until - (Ttl + Delay))
        <4>1. CASE a = n
          BY <3>1, <3>2, <3>3, <4>1
        <4>2. CASE a # n
          BY <3>1, <3>4, <4>2 DEF CachedInv
        <4> QED
          BY <4>1, <4>2
      <3> QED
        BY <1>0, <3>4 DEF CachedInv, Known
    <2> QED
      BY <2>4, <2>5
  <1>5. CASE ReadFails(k)
    BY <1>5 DEF ReadFails, HistoryInv, CarriedInv, CachedInv, Known, Idle, vars, tables
  <1> QED
    BY <1>2, <1>3, <1>4, <1>5

\* The clock keeps it: a cached row ends, and a read does, before the history
\* that explains it is forgotten.
LEMMA TickKeeps == Inv /\ Tick => Inv'
  <1> SUFFICES ASSUME Inv, Tick PROVE Inv'
    OBVIOUS
  <1> USE CacheAssumption DEF Inv
  <1>0. UNCHANGED <<account, reader>> /\ now' = now + 1 /\ now \in Nat
    BY DEF Tick, vars, tables, HistoryInv
  <1>1. HistoryInv'
    BY <1>0 DEF Tick, HistoryInv
  <1>2. ASSUME NEW a \in Accounts, NEW row, NEW since \in Int, Known(a, row, since),
               now + 1 < since + (Ttl + Delay)
        PROVE  KnownAfter(a, row, since)
    <2>1. CASE row = account[a]
      BY <1>0, <2>1 DEF KnownAfter
    <2>2. ASSUME NEW h \in recent[a], h.row = row, since <= h.left
          PROVE  h \in recent'[a]
      BY <1>0, <1>2, <2>2 DEF Tick, HistoryInv
    <2> QED
      BY <1>2, <2>1, <2>2 DEF Known, KnownAfter
  <1>3. CarriedInv'
    <2> SUFFICES ASSUME NEW k \in Readers, reader[k].stage = "set"
                 PROVE  /\ now + 1 <= reader[k].at + Delay
                        /\ KnownAfter(reader[k].number, reader[k].row, reader[k].at)
      BY <1>0 DEF CarriedInv, Known, KnownAfter
    <2>1. /\ reader[k].number \in Accounts /\ reader[k].at \in Nat
          /\ Known(reader[k].number, reader[k].row, reader[k].at)
      BY DEF CarriedInv
    <2>2. now + 1 <= reader[k].at + Delay
      BY <1>0, <2>1 DEF Tick
    <2>3. now + 1 < reader[k].at + (Ttl + Delay) /\ reader[k].at \in Int
      BY <1>0, <2>1, <2>2
    <2> QED
      BY <1>2, <2>1, <2>2, <2>3
  <1>4. CachedInv'
    <2> SUFFICES ASSUME NEW a \in Accounts, cache'[a] # NoEntry
                 PROVE  /\ cache'[a].until \in Nat
                        /\ now + 1 < cache'[a].until /\ cache'[a].until <= now + 1 + Ttl
                        /\ KnownAfter(a, cache'[a].row, cache'[a].until - (Ttl + Delay))
      BY <1>0 DEF CachedInv, Known, KnownAfter
    <2>1. cache'[a] = cache[a] /\ ~(cache[a].until <= now + 1)
      BY <1>0 DEF Tick
    <2>2. /\ cache[a].until \in Nat /\ cache[a].until <= now + Ttl
          /\ Known(a, cache[a].row, cache[a].until - (Ttl + Delay))
      BY <2>1 DEF CachedInv
    <2>3. /\ cache[a].until - (Ttl + Delay) \in Int
          /\ now + 1 < cache[a].until - (Ttl + Delay) + (Ttl + Delay)
      BY <1>0, <2>1, <2>2
    <2>4. KnownAfter(a, cache[a].row, cache[a].until - (Ttl + Delay))
      BY <1>2, <2>2, <2>3
    <2> QED
      BY <1>0, <2>1, <2>2, <2>4
  <1> QED
    BY <1>1, <1>3, <1>4

\* The invariant is inductive.
LEMMA InvKept == Inv /\ [CacheNext]_<<vars, cacheVars>> => Inv'
  <1> SUFFICES ASSUME Inv, [CacheNext]_<<vars, cacheVars>> PROVE Inv'
    OBVIOUS
  <1>1. CASE UNCHANGED <<vars, cacheVars>>
    BY <1>1 DEF Inv, HistoryInv, CarriedInv, CachedInv, Known, cacheVars, vars, tables
  <1> QED
    BY <1>1, TransferKeeps, ReadsKeep, TickKeeps DEF CacheNext

\* BoundedStaleness, for every instance: a hit is outdated by less than a
\* minute and the time its reader took.
THEOREM StalenessBounded == CacheSpec => []BoundedStaleness
  <1>1. CacheInit => Inv
    BY DEF CacheInit, Inv, HistoryInv, CarriedInv, CachedInv, Idle
  <1>2. Inv => BoundedStaleness
    BY DEF Inv, CachedInv, Known, BoundedStaleness
  <1> QED
    BY <1>1, <1>2, InvKept, PTL DEF CacheSpec
-----------------------------------------------------------------------------
(* Who left an outdated row behind.                                        *)

\* Only rows of opened accounts are carried and cached.
OpenedInv ==
    /\ \A k \in Readers : reader[k].stage = "set" => account[reader[k].number] # NoRow
    /\ \A a \in Accounts : cache[a] # NoEntry => account[a] # NoRow

BlameInv == Inv /\ IInv /\ OpenedInv /\ OnlyLateFillsStale

\* Where a request may go once its transaction is over.
LEMMA AfterTransaction ==
    ASSUME IInv, Next, NEW q \in Requests,
           pc[q] \in {"rollback", "release", "done", "delSender", "delReceiver"}
    PROVE  \/ DelAccount(q)
           \/ reply'[q] \in {"failed", "lost"}
           \/ /\ reply'[q] = reply[q]
              /\ pc'[q] = pc[q] \/ pc[q] \in {"rollback", "release"}
  <1> TypeOK
    BY DEF IInv
  <1> USE DEF At, Goto, Answer, TypeOK
  <1>1. CASE UNCHANGED <<pc, reply>>
    BY <1>1
  <1>2. ASSUME NEW r \in Requests, r = q, Rollback(r) \/ Release(r)
        PROVE  reply'[q] \in {reply[q], "failed"} /\ pc[q] \in {"rollback", "release"}
    BY <1>2 DEF Rollback, Release
  <1>3. ASSUME NEW r \in Requests, r = q, DelFails(r)
        PROVE  reply'[q] = "failed"
    BY <1>3 DEF DelFails
  <1>4. ASSUME NEW r \in Requests, r # q,
               \/ ControlMove(r) \/ Select(r) \/ (\E a \in Accounts : LockRow(r, a))
               \/ Validate(r) \/ SaveSender(r) \/ SaveReceiver(r) \/ Insert(r)
               \/ SaveEntry(r) \/ Applies(r) \/ Rollback(r)
        PROVE  reply'[q] = reply[q] /\ pc'[q] = pc[q]
    <2>1. CASE ControlMove(r)
      <3>1. pc'[q] = pc[q]
        BY <1>4, <2>1, ControlFrame
      <3>2. reply'[q] = reply[q]
        BY <1>4, <2>1 DEF ControlMove, Submit, RejectSelfTransfer, FindKey, Connect, Begin,
             DelAccount, Release, FindOwner, Publish, Audit, LookupFails, BeginFails,
             StatementFails, DelFails, PublishFails, AuditFails
      <3> QED
        BY <3>1, <3>2
    <2>2. CASE ~ControlMove(r)
      BY <1>4, <2>2 DEF Select, LockRow, Validate, SaveSender, SaveReceiver, Insert,
                        SaveEntry, Rollback, Applies, Commit, CommitAckLost
    <2> QED
      BY <2>1, <2>2
  <1>5. ASSUME NEW r \in Requests, r = q,
               ControlMove(r), ~Release(r), ~DelFails(r), ~DelAccount(r)
        PROVE  FALSE
    BY <1>5 DEF ControlMove, Submit, RejectSelfTransfer, FindKey, Connect, Begin,
         FindOwner, Publish, Audit, LookupFails, BeginFails, StatementFails,
         PublishFails, AuditFails, InTx
  <1>6. ASSUME NEW r \in Requests, r = q,
               \/ Select(r) \/ (\E a \in Accounts : LockRow(r, a))
               \/ Validate(r) \/ SaveSender(r) \/ SaveReceiver(r) \/ Insert(r)
               \/ SaveEntry(r) \/ Applies(r)
        PROVE  FALSE
    BY <1>6 DEF Select, LockRow, Validate, SaveSender, SaveReceiver, Insert, SaveEntry,
                Applies, Commit, CommitAckLost
  <1>7. CASE Crash
    BY <1>7 DEF Crash
  <1>8. CASE Beside
    BY <1>1, <1>8 DEF Beside, OpenAccount, SetStatus, beside
  <1> QED
    BY <1>2, <1>3, <1>4, <1>5, <1>6, <1>7, <1>8, NextCases

\* A delete that is owed stays owed until it is done, fails, or is lost.
LEMMA OwedOrSkipped ==
    ASSUME IInv, Next, NEW q \in Requests, NEW a \in Accounts,
           DeleteOwed(q, a) \/ MaySkip(q, a), ~(DelAccount(q) /\ a = Deletes(q))
    PROVE  DeleteOwed(q, a)' \/ MaySkip(q, a)'
  <1> TypeOK /\ ReplyInv /\ RowsInv
    BY DEF IInv
  <1>0. transactions \subseteq transactions' /\ From(q)' = From(q) /\ To(q)' = To(q)
    BY TransactionsGrow DEF From, To
  <1>1. CASE DeleteOwed(q, a)
    <2>1. \E t \in transactions : t.by = q
      BY <1>1 DEF DeleteOwed, ReplyInv, Committed, NewTxn, At
    <2>2. a \in {From(q), To(q)} /\ pc[q] \in {"delSender", "delReceiver"}
      BY <1>1 DEF DeleteOwed, At
    <2>3. CASE reply'[q] \in {"failed", "lost"}
      BY <1>0, <2>1, <2>2, <2>3 DEF MaySkip
    <2>4. CASE pc'[q] = pc[q]
      BY <1>0, <1>1, <2>4 DEF DeleteOwed, At
    <2>5. CASE DelAccount(q)
      <3>1. pc[q] = "delSender" /\ pc'[q] = "delReceiver" /\ a = To(q)
        BY <1>1, <2>5 DEF DelAccount, Deletes, DeleteOwed, At, Goto, TypeOK
      <3> QED
        BY <1>0, <3>1 DEF DeleteOwed, At
    <2> QED
      BY <2>2, <2>3, <2>4, <2>5, AfterTransaction
  <1>2. CASE MaySkip(q, a)
    <2>1. pc[q] \in PCs /\ reply[q] \in {"failed", "lost"}
      BY <1>2 DEF MaySkip, TypeOK
    <2>2. pc[q] \in {"rollback", "release", "done"}
      BY <2>1 DEF ReplyInv, BeforeCommit, Committed, PCs
    <2>3. ~DelAccount(q)
      BY <2>2 DEF DelAccount, At
    <2>4. reply'[q] \in {"failed", "lost"}
      BY <2>1, <2>2, <2>3, AfterTransaction
    <2> QED
      BY <1>0, <1>2, <2>4 DEF MaySkip
  <1> QED
    BY <1>1, <1>2

\* A step of the service keeps every outdated row excused.
LEMMA ServiceExcuses ==
    ASSUME BlameInv, TransferStep
    PROVE  OpenedInv' /\ OnlyLateFillsStale'
  <1> IInv /\ TypeOK /\ OpenedInv /\ OnlyLateFillsStale
    BY DEF BlameInv, IInv
  <1> Next /\ reader' = reader
    BY DEF TransferStep
  <1>0. \A a \in Accounts : cache'[a] # NoEntry =>
           /\ cache'[a] = cache[a]
           /\ \A r \in Requests : ~(DelAccount(r) /\ a = Deletes(r))
    BY DEF TransferStep
  <1>1. OpenedInv'
    <2>1. \A a \in Accounts : account[a] # NoRow => account'[a] # NoRow
      BY RowsStay
    <2>2. \A k \in Readers : reader[k].stage = "set" => reader[k].number \in Accounts
      BY DEF BlameInv, Inv, CarriedInv
    <2> QED
      BY <1>0, <2>1, <2>2 DEF OpenedInv
  <1>2. ASSUME NEW a \in Accounts, cache'[a] # NoEntry,
               cache'[a].row.balance # account'[a].balance, ~cache'[a].late
        PROVE  \E r \in Requests : DeleteOwed(r, a)' \/ MaySkip(r, a)'
    <2>0. /\ cache'[a] = cache[a] /\ account[a] # NoRow
          /\ \A r \in Requests : ~(DelAccount(r) /\ a = Deletes(r))
      BY <1>0, <1>2 DEF OpenedInv
    <2>1. CASE account'[a].balance = account[a].balance
      <3>1. PICK q \in Requests : DeleteOwed(q, a) \/ MaySkip(q, a)
        BY <1>2, <2>0, <2>1 DEF OnlyLateFillsStale
      <3> QED
        BY <2>0, <3>1, OwedOrSkipped
    <2>2. ASSUME NEW r \in Requests, Applies(r), account'[a] # account[a]
          PROVE  DeleteOwed(r, a)' \/ MaySkip(r, a)'
      <3>1. /\ a \in {From(r), To(r)} /\ NewTxn(r) \in transactions'
            /\ From(r)' = From(r) /\ To(r)' = To(r)
        BY <2>2, AppliesEffect DEF From, To
      <3>2. pc'[r] = "delSender" \/ reply'[r] = "failed"
        BY <2>2, AppliesEffect DEF TypeOK
      <3>3. NewTxn(r).by = r
        BY DEF NewTxn
      <3> QED
        BY <3>1, <3>2, <3>3 DEF DeleteOwed, MaySkip, At
    <2>3. CASE Beside
      <3>1. ASSUME NEW o \in Openings, OpenAccount(o)
            PROVE  account'[a] = account[a]
        BY <2>0, <3>1 DEF OpenAccount, TypeOK
      <3>2. ASSUME NEW b \in Accounts, NEW s \in AdminStatuses, SetStatus(b, s)
            PROVE  account'[a].balance = account[a].balance
        BY <3>2 DEF SetStatus, TypeOK, AccountRow
      <3>3. account'[a].balance = account[a].balance
        BY <2>3, <3>1, <3>2 DEF Beside
      <3> QED
        BY <2>1, <3>3
    <2> QED
      BY <2>1, <2>2, <2>3, OnlyCommits
  <1> QED
    BY <1>0, <1>1, <1>2 DEF OnlyLateFillsStale

\* Reads and the clock do: what a reader sets is marked if it is outdated.
LEMMA ReadsExcuse ==
    ASSUME BlameInv, Tick \/ \E k \in Readers : \/ \E a \in Accounts : Get(k, a)
                                                \/ Find(k) \/ Set(k) \/ ReadFails(k)
    PROVE  OpenedInv' /\ OnlyLateFillsStale'
  <1> OpenedInv /\ OnlyLateFillsStale /\ HistoryInv /\ CarriedInv
    BY DEF BlameInv, Inv
  <1>0. UNCHANGED vars
    BY DEF Tick, Get, Find, Set, ReadFails
  <1>a. UNCHANGED <<account, transactions, dto, pc, reply>>
    BY <1>0 DEF vars, tables, local
  <1>b. \A r \in Requests, a \in Accounts :
           DeleteOwed(r, a)' = DeleteOwed(r, a) /\ MaySkip(r, a)' = MaySkip(r, a)
    BY <1>a DEF DeleteOwed, MaySkip, At, From, To
  <1>1. ASSUME \A a \in Accounts : cache'[a] \in {cache[a], NoEntry},
               \A k \in Readers : reader'[k].stage = "set" =>
                  reader'[k] = reader[k] \/ account[reader'[k].number] # NoRow
        PROVE  OpenedInv' /\ OnlyLateFillsStale'
    BY <1>a, <1>b, <1>1 DEF OpenedInv, OnlyLateFillsStale
  <1>2. CASE Tick
    BY <1>1, <1>2 DEF Tick
  <1>3. ASSUME NEW k \in Readers, NEW a \in Accounts, Get(k, a)
        PROVE  OpenedInv' /\ OnlyLateFillsStale'
    BY <1>1, <1>3 DEF Get, HistoryInv
  <1>4. ASSUME NEW k \in Readers, Find(k)
        PROVE  OpenedInv' /\ OnlyLateFillsStale'
    BY <1>1, <1>4 DEF Find, HistoryInv, Idle
  <1>5. ASSUME NEW k \in Readers, ReadFails(k)
        PROVE  OpenedInv' /\ OnlyLateFillsStale'
    BY <1>1, <1>5 DEF ReadFails, HistoryInv, Idle
  <1>6. ASSUME NEW k \in Readers, Set(k)
        PROVE  OpenedInv' /\ OnlyLateFillsStale'
    <2> DEFINE n == reader[k].number
    <2>1. n \in Accounts /\ account[n] # NoRow
      BY <1>6 DEF Set, CarriedInv, OpenedInv
    <2>2. /\ cache'[n] = [row |-> reader[k].row, until |-> now + Ttl,
                          late |-> reader[k].row # account[n]]
          /\ \A a \in Accounts \ {n} : cache'[a] = cache[a]
          /\ \A j \in Readers : reader'[j] \in {reader[j], Idle}
      BY <1>6, <2>1 DEF Set, HistoryInv
    <2>3. OpenedInv'
      BY <1>a, <2>1, <2>2 DEF OpenedInv, Idle
    <2>4. ASSUME cache'[n].row.balance # account'[n].balance
          PROVE  cache'[n].late
      <3>1. cache'[n].row = reader[k].row /\ cache'[n].late = (reader[k].row # account[n])
        BY <2>2
      <3>2. reader[k].row # account[n]
        BY <1>a, <2>4, <3>1
      <3> QED
        BY <3>1, <3>2
    <2>5. OnlyLateFillsStale'
      BY <1>a, <1>b, <2>2, <2>4 DEF OnlyLateFillsStale
    <2> QED
      BY <2>3, <2>5
  <1> QED
    BY <1>2, <1>3, <1>4, <1>5, <1>6

\* OnlyLateFillsStale, for every instance: an outdated balance in the cache is
\* the work of a late reader or of a delete that is owed, failed or lost.
THEOREM StaleHasACause == CacheSpec => []OnlyLateFillsStale
  <1>1. CacheInit => BlameInv
    <2> SUFFICES ASSUME CacheInit PROVE BlameInv
      OBVIOUS
    <2>1. Inv
      BY DEF CacheInit, Inv, HistoryInv, CarriedInv, CachedInv, Idle
    <2>2. IInv
      BY InitIInv DEF CacheInit
    <2>3. OpenedInv /\ OnlyLateFillsStale
      BY DEF CacheInit, OpenedInv, OnlyLateFillsStale, Idle
    <2> QED
      BY <2>1, <2>2, <2>3 DEF BlameInv
  <1>2. BlameInv /\ [CacheNext]_<<vars, cacheVars>> => BlameInv'
    <2> SUFFICES ASSUME BlameInv, [CacheNext]_<<vars, cacheVars>> PROVE BlameInv'
      OBVIOUS
    <2>1. [Next]_vars
      BY DEF CacheNext, TransferStep, Get, Find, Set, ReadFails, Tick
    <2>2. Inv' /\ IInv'
      BY <2>1, InvKept, IInvStep DEF BlameInv
    <2>3. CASE UNCHANGED <<vars, cacheVars>>
      BY <2>2, <2>3 DEF BlameInv, OpenedInv, OnlyLateFillsStale, DeleteOwed, MaySkip, At, From, To,
                  cacheVars, vars, tables, local
    <2>4. CASE CacheNext
      <3>1. OpenedInv' /\ OnlyLateFillsStale'
        BY <2>4, ServiceExcuses, ReadsExcuse DEF CacheNext
      <3> QED
        BY <2>2, <3>1 DEF BlameInv
    <2> QED
      BY <2>3, <2>4
  <1>3. BlameInv => OnlyLateFillsStale
    BY DEF BlameInv
  <1> QED
    BY <1>1, <1>2, <1>3, PTL DEF CacheSpec

-----------------------------------------------------------------------------
(* Reconciliation.                                                         *)

\* Rows have a date; between the two queries the transactions found are still
\* there, and dated as they were.
BegunInv == hour \in Int /\ \A r \in Requests : begun[r] \in Int
FoundInv == stage = "ledger" => found \subseteq CreatedOn(transactions, subject)

ReportInv == IInv /\ BegunInv /\ FoundInv /\ NoFalseAlarm

\* A set of two is counted as two.
LEMMA PairCount ==
    ASSUME NEW x, NEW y, x # y
    PROVE  Cardinality({x, y}) = 2
  <1>1. IsFiniteSet({x}) /\ Cardinality({x}) = 1
    BY FS_Singleton
  <1>2. {x, y} = {x} \cup {y} /\ y \notin {x}
    OBVIOUS
  <1> QED
    BY <1>1, <1>2, FS_AddElement

\* The entries of date d under the reference of a transaction of that date are
\* its two: all are dated as it is, and no other transaction has its reference.
LEMMA TwoEntries ==
    ASSUME IInv, NEW d, NEW t \in CreatedOn(transactions, d)
    PROVE  Cardinality({e \in CreatedOn(ledger, d) : e.reference = t.reference}) = 2
  <1> DEFINE Under == {e \in CreatedOn(ledger, d) : e.reference = t.reference}
  <1> t \in transactions /\ Selects(begun[t.by], d)
    BY DEF CreatedOn
  <1>1. DebitOf(t) # CreditOf(t)
    BY DEF DebitOf, CreditOf, Entry
  <1>2. ASSUME NEW u \in transactions, NEW e \in Entries(u)
        PROVE  e.reference = u.reference /\ e.by = u.by
    BY <1>2 DEF Entries, DebitOf, CreditOf, Entry
  <1>3. ASSUME NEW e \in Under
        PROVE  e \in Entries(t)
    <2>1. PICK u \in transactions : e \in Entries(u)
      BY DEF CreatedOn, IInv, DoubleEntry
    <2>2. u.reference = t.reference
      BY <1>2, <2>1
    <2>3. u = t
      BY <2>2 DEF IInv, UniqueInv, Clashes
    <2> QED
      BY <2>1, <2>3
  <1>4. ASSUME NEW e \in Entries(t)
        PROVE  e \in Under
    <2>1. e \in ledger
      BY DEF IInv, DoubleEntry
    <2> QED
      BY <1>2, <2>1 DEF CreatedOn
  <1>5. Under = {DebitOf(t), CreditOf(t)}
    BY <1>3, <1>4 DEF Entries
  <1>6. Cardinality({DebitOf(t), CreditOf(t)}) = 2
    BY <1>1, PairCount
  <1> QED
    BY <1>5, <1>6

\* Steps of the transfer service keep what was found; a committed row is not
\* dated again, since its request is past BEGIN.
LEMMA FoundStays ==
    ASSUME ReportInv, DatedStep
    PROVE  BegunInv' /\ FoundInv'
  <1> IInv /\ BegunInv /\ FoundInv /\ TypeOK /\ UniqueInv
    BY DEF ReportInv, IInv
  <1>1. transactions \subseteq transactions'
    BY TransactionsGrow DEF DatedStep
  <1>2. BegunInv'
    BY DEF DatedStep, BegunInv
  <1>3. ASSUME NEW t \in transactions
        PROVE  begun'[t.by] = begun[t.by]
    <2>1. t.by \in Requests /\ pc[t.by] # "begin"
      BY DEF TypeOK, TransactionRow, UniqueInv, BeforeCommit
    <2> QED
      BY <2>1 DEF DatedStep, At
  <1>4. stage' = stage /\ subject' = subject /\ found' = found
    BY DEF DatedStep, reconciliation
  <1>5. FoundInv'
    BY <1>1, <1>3, <1>4 DEF FoundInv, CreatedOn
  <1> QED
    BY <1>2, <1>5

\* The inductive invariant of the reports.
LEMMA ReportInvariant == ReportsSpec => []ReportInv
  <1>1. ReportsInit => ReportInv
    BY InitIInv, ReportsAssumption
    DEF ReportsInit, ReportInv, BegunInv, FoundInv, NoFalseAlarm
  <1>2. ReportInv /\ [ReportsNext]_<<vars, reportVars>> => ReportInv'
    <2> SUFFICES ASSUME ReportInv, [ReportsNext]_<<vars, reportVars>>
                 PROVE  ReportInv'
      OBVIOUS
    <2>1. [Next]_vars
      BY DEF ReportsNext, DatedStep, ClockStep, Reconcile, Settle
    <2>2. IInv'
      BY <2>1, IInvStep DEF ReportInv
    <2>3. CASE DatedStep
      BY <2>2, <2>3, FoundStays
      DEF ReportInv, DatedStep, reconciliation, NoFalseAlarm
    <2>4. CASE ClockStep
      BY <2>2, <2>4, ReportsAssumption
      DEF ClockStep, ReportInv, BegunInv, FoundInv, CreatedOn, NoFalseAlarm,
          reconciliation, vars, tables
    <2>5. CASE Reconcile
      <3>1. CASE stage = "transactions"
        BY <2>2, <2>5, <3>1
        DEF Reconcile, CreatedOn, ReportInv, BegunInv, FoundInv, NoFalseAlarm,
            vars, tables
      <3>2. CASE stage = "ledger"
        <4>1. \A t \in found :
                 Cardinality({e \in CreatedOn(ledger, subject) :
                                e.reference = t.reference}) = 2
          BY <3>2, TwoEntries DEF ReportInv, FoundInv
        <4>2. exceptions' = Unmatched(found, CreatedOn(ledger, subject))
          BY <2>5, <3>2 DEF Reconcile
        <4>3. NoFalseAlarm'
          BY <4>1, <4>2 DEF Unmatched, NoFalseAlarm
        <4> QED
          BY <2>2, <2>5, <3>2, <4>3 DEF Reconcile, ReportInv, BegunInv, FoundInv
      <3> QED
        BY <2>5, <3>1, <3>2 DEF Reconcile
    <2>6. ASSUME NEW d \in Dates, Settle(d)
          PROVE  ReportInv'
      BY <2>2, <2>6
      DEF Settle, ReportInv, BegunInv, FoundInv, CreatedOn, NoFalseAlarm,
          reconciliation, vars, tables
    <2>7. CASE UNCHANGED <<vars, reportVars>>
      BY <2>2, <2>7
      DEF ReportInv, BegunInv, FoundInv, CreatedOn, NoFalseAlarm,
          reconciliation, reportVars, vars, tables
    <2> QED
      BY <2>3, <2>4, <2>5, <2>6, <2>7 DEF ReportsNext
  <1> QED
    BY <1>1, <1>2, PTL DEF ReportsSpec

\* NoFalseAlarm, for every instance.
THEOREM ReconciliationClean == ReportsSpec => []NoFalseAlarm
  BY ReportInvariant, PTL DEF ReportInv

-----------------------------------------------------------------------------
(* Settlements.                                                            *)

Debits(d) == {e \in CreatedOn(ledger, d) : e.type = "DEBIT"}

\* A batch has a worth, and it is no more than that of the debits of its date.
SettledInv ==
    /\ settled \in [Dates -> [made : BOOLEAN, gross : Nat]]
    /\ SettledIsPosted

\* A finite set has a finite image.
LEMMA ImageFinite ==
    ASSUME NEW S, IsFiniteSet(S), NEW f, f = [x \in S |-> f[x]]
    PROVE  IsFiniteSet({f[x] : x \in S})
  <1>1. f \in Surjection(S, {f[x] : x \in S})
    BY DEF Surjection
  <1> QED
    BY <1>1, FS_Surjection

\* A transfer is found again from either of its entries.
LEMMA FiniteTransactions ==
    ASSUME IInv, LedgerInv
    PROVE  IsFiniteSet(transactions)
  <1> DEFINE f == [e \in ledger |-> NewTxn(e.by)]
  <1>1. IsFiniteSet({f[e] : e \in ledger})
    BY ImageFinite DEF LedgerInv
  <1>2. ASSUME NEW t \in transactions
        PROVE  t \in {f[e] : e \in ledger}
    <2>1. DebitOf(t) \in ledger /\ DebitOf(t).by = t.by
      BY DEF IInv, DoubleEntry, Entries, DebitOf, Entry
    <2>2. t = NewTxn(t.by)
      BY DEF IInv, UniqueInv
    <2> QED
      BY <2>1, <2>2
  <1>3. transactions \subseteq {f[e] : e \in ledger}
    BY <1>2
  <1> QED
    BY <1>1, <1>3, FS_Subset

\* Transactions and their debit entries have one sum.
LEMMA DebitsSum ==
    ASSUME IInv, NEW S, S \subseteq transactions, IsFiniteSet(S)
    PROVE  /\ Amounts(S) /\ Amounts({DebitOf(t) : t \in S})
           /\ Amount({DebitOf(t) : t \in S}) = Amount(S)
  <1> DEFINE Of(T) == {DebitOf(t) : t \in T}
             Bad == {T \in SUBSET S : Amount(Of(T)) # Amount(T)}
             f == [t \in S |-> DebitOf(t)]
  <1>1. \A t \in S : DebitOf(t).amount = t.amount /\ DebitOf(t).by = t.by /\ t.amount \in Nat
    BY DEF DebitOf, Entry, IInv, TypeOK, TransactionRow
  <1>2. \A t, u \in S : DebitOf(t) = DebitOf(u) => t = u
    BY <1>1 DEF IInv, UniqueInv
  <1>3. IsFiniteSet(Of(S))
    <2>1. IsFiniteSet({f[t] : t \in S})
      BY ImageFinite
    <2>2. {f[t] : t \in S} = Of(S)
      OBVIOUS
    <2> QED
      BY <2>1, <2>2
  <1>4. \A T \in SUBSET S : Amounts(T) /\ Amounts(Of(T))
    <2> TAKE T \in SUBSET S
    <2>1. IsFiniteSet(T) /\ Of(T) \subseteq Of(S)
      BY FS_Subset
    <2>2. IsFiniteSet(Of(T))
      BY <1>3, <2>1, FS_Subset
    <2> QED
      BY <1>1, <2>1, <2>2 DEF Amounts
  <1>5. SUFFICES ASSUME Bad # {} PROVE FALSE
    BY <1>4
  <1>6. PICK T \in Bad : \A u \in Bad : u \subseteq T => u = T
    <2>1. Bad \subseteq SUBSET S
      OBVIOUS
    <2> HIDE DEF Bad
    <2> QED
      BY <1>5, <2>1, Smallest
  <1>7. T # {}
    <2>1. Of({}) = {}
      OBVIOUS
    <2> QED
      BY <2>1, <1>6
  <1>8. PICK t \in T : TRUE
    BY <1>7
  <1> DEFINE U == T \ {t}
  <1>9. U \in SUBSET S /\ U \notin Bad /\ DebitOf(t) \in Of(T)
    BY <1>6, <1>8
  <1>10. Of(T) \ {DebitOf(t)} = Of(U)
    BY <1>2, <1>8
  <1>11. Amount(T) = t.amount + Amount(U)
    BY <1>4, <1>8, AmountRemove
  <1>12. Amount(Of(T)) = DebitOf(t).amount + Amount(Of(U))
    <2>1. Amounts(Of(T))
      BY <1>4
    <2> HIDE DEF Of
    <2> QED
      BY <1>9, <1>10, <2>1, AmountRemove
  <1>13. Amount(Of(U)) = Amount(U)
    BY <1>9
  <1>14. Amount(Of(T)) = Amount(T)
    BY <1>1, <1>8, <1>11, <1>12, <1>13
  <1> QED
    BY <1>6, <1>14

\* The debits of a date are those of its transactions.
LEMMA DateDebits ==
    IInv => \A d : Debits(d) = {DebitOf(t) : t \in CreatedOn(transactions, d)}
  <1> SUFFICES ASSUME IInv, NEW d
               PROVE  Debits(d) = {DebitOf(t) : t \in CreatedOn(transactions, d)}
    OBVIOUS
  <1>1. \A t : /\ DebitOf(t).by = t.by /\ DebitOf(t).type = "DEBIT"
               /\ CreditOf(t).by = t.by /\ CreditOf(t).type = "CREDIT"
    BY DEF DebitOf, CreditOf, Entry
  <1>2. ledger = UNION {{DebitOf(t), CreditOf(t)} : t \in transactions}
    BY DEF IInv, DoubleEntry, Entries
  <1>3. ASSUME NEW e \in Debits(d)
        PROVE  e \in {DebitOf(t) : t \in CreatedOn(transactions, d)}
    <2>1. e \in ledger /\ e.type = "DEBIT" /\ Selects(begun[e.by], d)
      BY DEF Debits, CreatedOn
    <2>2. PICK t \in transactions : e = DebitOf(t) \/ e = CreditOf(t)
      BY <1>2, <2>1
    <2>3. e = DebitOf(t) /\ t \in CreatedOn(transactions, d)
      BY <1>1, <2>1, <2>2 DEF CreatedOn
    <2> QED
      BY <2>3
  <1>4. ASSUME NEW t \in CreatedOn(transactions, d)
        PROVE  DebitOf(t) \in Debits(d)
    <2>1. t \in transactions /\ Selects(begun[t.by], d)
      BY DEF CreatedOn
    <2>2. DebitOf(t) \in ledger
      BY <1>2, <2>1
    <2> QED
      BY <1>1, <2>1, <2>2 DEF Debits, CreatedOn
  <1> QED
    BY <1>3, <1>4

\* A batch is worth, when it is made, the debits of its date.
LEMMA SettledWhenMade ==
    IInv /\ LedgerInv => \A d :
        /\ Amounts(Debits(d))
        /\ Gross(CreatedOn(transactions, d)) \in Nat
        /\ Gross(CreatedOn(transactions, d)) = Amount(Debits(d))
  <1> SUFFICES ASSUME IInv, LedgerInv, NEW d
               PROVE  /\ Amounts(Debits(d))
                      /\ Gross(CreatedOn(transactions, d)) \in Nat
                      /\ Gross(CreatedOn(transactions, d)) = Amount(Debits(d))
    OBVIOUS
  <1> DEFINE S == CreatedOn(transactions, d)
  <1>1. S \subseteq transactions /\ IsFiniteSet(S)
    BY FiniteTransactions, FS_Subset DEF CreatedOn
  <1>2. Debits(d) = {DebitOf(t) : t \in S}
    BY DateDebits
  <1> HIDE DEF S
  <1>3. Amounts(S) /\ Amounts(Debits(d)) /\ Amount(Debits(d)) = Amount(S)
    BY <1>1, <1>2, DebitsSum
  <1> QED
    BY <1>3, AmountNat DEF Gross, S

\* Both hold after a step too.
LEMMA DateDebitsAfter ==
    IInv' => (\A d : Debits(d) = {DebitOf(t) : t \in CreatedOn(transactions, d)})'
  BY DateDebits, PTL

LEMMA SummedAfter == (IInv /\ LedgerInv)' => (\A d : Amounts(Debits(d)))'
  <1>1. IInv /\ LedgerInv => \A d : Amounts(Debits(d))
    BY SettledWhenMade
  <1> QED
    BY <1>1, PTL

\* The debits of a date stay, and stay of that date.
LEMMA DebitsStay ==
    ASSUME ReportInv, DatedStep, NEW d
    PROVE  Debits(d) \subseteq Debits(d)'
  <1> IInv /\ TypeOK /\ UniqueInv
    BY DEF ReportInv, IInv
  <1>1. transactions \subseteq transactions'
    BY TransactionsGrow DEF DatedStep
  <1>2. IInv'
    BY IInvStep DEF DatedStep
  <1>3. ASSUME NEW t \in CreatedOn(transactions, d)
        PROVE  t \in CreatedOn(transactions, d)'
    <2>1. t \in transactions /\ Selects(begun[t.by], d)
      BY DEF CreatedOn
    <2>2. t.by \in Requests /\ pc[t.by] # "begin"
      BY <2>1 DEF TypeOK, TransactionRow, UniqueInv, BeforeCommit
    <2>3. begun'[t.by] = begun[t.by]
      BY <2>2 DEF DatedStep, At
    <2> QED
      BY <1>1, <2>1, <2>3 DEF CreatedOn
  <1>4. Debits(d)' = {DebitOf(t) : t \in CreatedOn(transactions, d)'}
    BY <1>2, DateDebitsAfter
  <1> QED
    BY <1>3, <1>4, DateDebits

LEMMA SettledStep ==
    ReportInv /\ LedgerInv /\ SettledInv /\ [ReportsNext]_<<vars, reportVars>> => SettledInv'
  <1> SUFFICES ASSUME ReportInv, LedgerInv, SettledInv, [ReportsNext]_<<vars, reportVars>>
               PROVE  SettledInv'
    OBVIOUS
  <1> IInv
    BY DEF ReportInv
  <1>1. CASE DatedStep
    <2>1. settled' = settled
      BY <1>1 DEF DatedStep
    <2>2. LedgerInv' /\ IInv'
      BY <1>1, IInvStep, LedgerStep DEF DatedStep
    <2>3. ASSUME NEW d \in Dates, settled'[d].made
          PROVE  settled'[d].gross <= Gross(Debits(d)')
      <3>1. settled[d].gross <= Amount(Debits(d)) /\ settled[d].gross \in Nat
        BY <2>1, <2>3 DEF SettledInv, SettledIsPosted, Debits, Gross
      <3>2. Amounts(Debits(d)) /\ Amounts(Debits(d)')
        BY <2>2, SettledWhenMade, SummedAfter
      <3>3. Amount(Debits(d)) <= Amount(Debits(d)')
        BY <1>1, <3>2, DebitsStay, AmountGrows
      <3> QED
        BY <2>1, <3>1, <3>2, <3>3, AmountNat DEF Gross
    <2> QED
      BY <2>1, <2>3 DEF SettledInv, SettledIsPosted, Debits
  <1>2. ASSUME NEW d \in Dates, Settle(d)
        PROVE  SettledInv'
    <2>1. /\ settled' = [settled EXCEPT ![d] =
                           [made |-> TRUE, gross |-> Gross(CreatedOn(transactions, d))]]
          /\ UNCHANGED <<ledger, begun>>
      BY <1>2 DEF Settle, vars, tables
    <2>2. \A x : Debits(x)' = Debits(x)
      BY <2>1 DEF Debits, CreatedOn
    <2>3. /\ Gross(CreatedOn(transactions, d)) \in Nat
          /\ Gross(CreatedOn(transactions, d)) = Gross(Debits(d))
      BY SettledWhenMade DEF Gross
    <2>4. ASSUME NEW x \in Dates, settled'[x].made
          PROVE  settled'[x].gross <= Gross(Debits(x)')
      <3>1. CASE x = d
        <4>1. settled'[d].gross = Gross(CreatedOn(transactions, d))
          BY <2>1 DEF SettledInv
        <4> QED
          BY <2>2, <2>3, <3>1, <4>1
      <3>2. CASE x # d
        <4>1. settled'[x] = settled[x]
          BY <2>1, <3>2 DEF SettledInv
        <4> QED
          BY <2>2, <2>4, <4>1 DEF SettledInv, SettledIsPosted, Debits
      <3> QED
        BY <3>1, <3>2
    <2>5. settled' \in [Dates -> [made : BOOLEAN, gross : Nat]]
      BY <2>1, <2>3 DEF SettledInv
    <2> QED
      BY <2>4, <2>5 DEF SettledInv, SettledIsPosted, Debits
  <1>3. CASE ClockStep \/ Reconcile \/ UNCHANGED <<vars, reportVars>>
    <2>1. UNCHANGED <<settled, ledger, begun>>
      BY <1>3 DEF ClockStep, Reconcile, vars, tables, reportVars, reconciliation
    <2> QED
      BY <2>1 DEF SettledInv, SettledIsPosted, CreatedOn, Gross
  <1> QED
    BY <1>1, <1>2, <1>3 DEF ReportsNext

\* SettledIsPosted, for every instance.
THEOREM SettlementsPosted == ReportsSpec => []SettledIsPosted
  <1>1. ReportsInit => LedgerInv /\ SettledInv
    BY InitLedger DEF ReportsInit, SettledInv, SettledIsPosted, NoBatch
  <1>2. [ReportsNext]_<<vars, reportVars>> => [Next]_vars
    BY DEF ReportsNext, DatedStep, ClockStep, Reconcile, Settle, reportVars
  <1>3. ReportInv => IInv
    BY DEF ReportInv
  <1>4. SettledInv => SettledIsPosted
    BY DEF SettledInv
  <1> QED
    BY <1>1, <1>2, <1>3, <1>4, ReportInvariant, LedgerStep, SettledStep, PTL DEF ReportsSpec

-----------------------------------------------------------------------------
\* The report of date d selects the day d of the database's calendar, or the
\* one before it if the zone is behind UTC.
LEMMA SelectsADay ==
    ASSUME NEW h \in Int, NEW d \in Int
    PROVE  Selects(h, d) <=> h \div 24 = d + (Offset \div 24)
  <1>1. Offset \in Int
    BY DayWindowAssumption
  <1>2. (24 * d + Offset) \div 24 = d + (Offset \div 24)
    BY <1>1
  <1>3. Bound(Start(d)) = 24 * (d + (Offset \div 24))
    BY <1>1, <1>2 DEF Bound, Start, SetMidnight, Parsed
  <1>4. Bound(Start(d) + 24) = 24 * (d + (Offset \div 24)) + 24
    BY <1>1, <1>2 DEF Bound, Start, SetMidnight, Parsed
  <1>5. d + (Offset \div 24) \in Int
    BY <1>1
  <1>6. ASSUME NEW m \in Int
        PROVE  24 * m <= h /\ h < 24 * m + 24 <=> h \div 24 = m
    OBVIOUS
  <1> QED
    BY <1>3, <1>4, <1>5, <1>6 DEF Selects

\* RowInOneReport, for every zone, number of transfers and moment.
THEOREM ReportsTile == ReportsSpec => []RowInOneReport
  <1>1. ReportInv => RowInOneReport
    <2> SUFFICES ASSUME ReportInv, NEW t \in transactions
                 PROVE  \E d \in (begun[t.by] \div 24) - 1 .. (begun[t.by] \div 24) + 1 :
                          /\ Selects(24 * (begun[t.by] \div 24), d)
                          /\ {x \in (begun[t.by] \div 24) - 1 .. (begun[t.by] \div 24) + 1 :
                                Selects(begun[t.by], x)} = {d}
      BY DEF RowInOneReport
    <2> DEFINE h     == begun[t.by]
               today == h \div 24
               Near  == today - 1 .. today + 1
               One   == today - (Offset \div 24)
    <2>1. h \in Int
      BY DEF ReportInv, BegunInv, IInv, TypeOK, TransactionRow
    <2>2. today \in Int /\ Offset \div 24 \in {-1, 0}
      BY <2>1, DayWindowAssumption
    <2>3. One \in Near
      BY <2>2
    <2>4. \A x \in Near : Selects(h, x) <=> x = One
      <3> TAKE x \in Near
      <3>1. x \in Int
        BY <2>2
      <3>2. Selects(h, x) <=> today = x + (Offset \div 24)
        BY <2>1, <3>1, SelectsADay
      <3> HIDE DEF today
      <3> QED
        BY <2>2, <3>1, <3>2
    <2>5. Selects(24 * today, One)
      <3>1. 24 * today \in Int /\ One \in Int
        BY <2>2
      <3>2. (24 * today) \div 24 = today
        BY <2>2
      <3> HIDE DEF today
      <3>3. today = One + (Offset \div 24)
        BY <2>2
      <3> QED
        BY <3>1, <3>2, <3>3, SelectsADay
    <2> QED
      BY <2>3, <2>4, <2>5
  <1> QED
    BY <1>1, ReportInvariant, PTL
=============================================================================
