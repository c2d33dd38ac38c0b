------------------------------ MODULE Transfer ------------------------------
(***************************************************************************)
(* TransactionsService.transfer, one action per await: every request runs  *)
(* the method on its own, interleaved with the others at each await, over  *)
(* one Postgres database (READ COMMITTED) reached through a connection     *)
(* pool.  AccountsService.create and an operator's updates of              *)
(* account.status run beside them.                                         *)
(*                                                                         *)
(* An operator named ...Slip is a slip a change of the code could make; no *)
(* specification uses it (README, "Slips").                                *)
(***************************************************************************)
EXTENDS Schema, FiniteSets

CONSTANTS NoReq,        \* nobody holds the row lock
          PoolSize,     \* connections of the pg pool
          Failures      \* what may fail in this behaviour

FailureKinds == {"lookup", "begin", "statement", "commitAck", "redis",
                 "publish", "audit", "crash"}

ASSUME TransferAssumption == /\ NoReq \notin Requests
                             /\ PoolSize \in Nat \ {0}
                             /\ Failures \subseteq FailureKinds

VARIABLES
    account, transactions, ledger,  \* the committed tables
    lock,       \* account -> the request whose transaction locked its row
    work,       \* request -> what its open transaction wrote: the accounts
                \* it updated, the transaction and ledger rows it inserted
    pc,         \* request -> the await it stands at
    dto,        \* request -> its body and its user; never changes
    seen,       \* request -> the account rows its SELECT returned: the
                \* JS entities sender and receiver
    ref,        \* request -> the reference generated for it
    reply,      \* request -> what its client was answered
    conns,      \* requests that hold a connection, from connect to release
    published,  \* requests whose transfer.completed event was handed over
    audited     \* requests whose audit_log row was written

tables  == <<account, transactions, ledger>>
local   == <<dto, seen, ref>>
effects == <<published, audited>>
vars    == <<tables, lock, work, local, effects, pc, reply, conns>>

NoWork == [saved |-> {}, txns |-> {}, entries |-> {}]

InTx == {"select", "lock", "saveSender", "saveReceiver", "insert", "debit",
         "credit", "commit"}
PCs  == InTx \cup {"idle", "findKey", "connect", "begin", "rollback",
                   "delSender", "delReceiver", "release", "owner", "publish",
                   "audit", "done"}
Replies == {"none", "success", "replay", "rejected", "failed", "lost"}

Init == /\ account = [a \in Accounts |-> NoRow]
        /\ transactions = {} /\ ledger = {}
        /\ lock = [a \in Accounts |-> NoReq]
        /\ work = [r \in Requests |-> NoWork]
        /\ pc = [r \in Requests |-> "idle"]
        /\ dto \in [Requests -> Dtos]
        /\ seen = [r \in Requests |-> [a \in Accounts |-> NoRow]]
        /\ ref = [r \in Requests |-> CHOOSE x \in Refs : TRUE]
        /\ reply = [r \in Requests |-> "none"]
        /\ conns = {} /\ published = {} /\ audited = {}

-----------------------------------------------------------------------------
From(r) == dto[r].fromAccount
To(r)   == dto[r].toAccount

At(r, p)        == pc[r] = p
Goto(r, p)      == pc' = [pc EXCEPT ![r] = p]
Answer(r, what) == reply' = [reply EXCEPT ![r] = what]

PoolFree == Cardinality(conns) < PoolSize

\* The rows the SELECT found, and those of them it has locked.
Found(r)   == {a \in Accounts : seen[r][a] # NoRow}
Holding(r) == {a \in Accounts : lock[a] = r}

\* ORDER BY accountNumber ASC: the row FOR UPDATE locks next.
SenderFirstSlip(r, a) == /\ a \in Found(r) \ Holding(r)
                         /\ a = To(r) => From(r) \notin Found(r) \ Holding(r)
NextRow(r, a) == /\ a \in Found(r) \ Holding(r)
                 /\ \A b \in Found(r) \ Holding(r) : a <= b

\* Having waited for a row, READ COMMITTED returns its latest version.
StaleSlip(r, a) == seen[r][a]
Latest(r, a)    == account[a]

\* The row the service inserts, and the requests whose uncommitted rows that
\* INSERT waits for.
NewTxn(r) == [by |-> r, reference |-> ref[r], key |-> dto[r].key,
              fromAccount |-> From(r), toAccount |-> To(r),
              amount |-> Stored(dto[r].amount)]
Awaited(r) == {u \in Requests \ {r} :
                  \E t \in work[u].txns : Clashes(NewTxn(r), t)}

\* The writes of r reach the committed tables.
WriteBack(r) ==
    /\ account' = [a \in Accounts |->
         IF a \in work[r].saved
         THEN [account[a] EXCEPT !.balance = Stored(seen[r][a].balance)]
         ELSE account[a]]
    /\ transactions' = transactions \cup work[r].txns
    /\ ledger' = ledger \cup work[r].entries

\* The database ends the transaction of r.
EndTx(r) ==
    /\ lock' = [a \in Accounts |-> IF lock[a] = r THEN NoReq ELSE lock[a]]
    /\ work' = [work EXCEPT ![r] = NoWork]

-----------------------------------------------------------------------------
(* The request arrives; the idempotency lookup; the connection.            *)

Submit(r) == /\ At(r, "idle")
             /\ From(r) # To(r)
             /\ Goto(r, IF dto[r].key = NoKey THEN "connect" ELSE "findKey")
             /\ UNCHANGED <<tables, lock, work, local, effects, reply, conns>>

RejectSelfTransfer(r) ==
    /\ At(r, "idle")
    /\ From(r) = To(r)
    /\ Answer(r, "rejected") /\ Goto(r, "done")
    /\ UNCHANGED <<tables, lock, work, local, effects, conns>>

\* The answer repeats the row found, whoever sent it and whatever it moved.
FindKey(r) ==
    /\ At(r, "findKey") /\ PoolFree
    /\ IF \E t \in transactions : t.key = dto[r].key
       THEN Answer(r, "replay") /\ Goto(r, "done")
       ELSE Goto(r, "connect") /\ UNCHANGED reply
    /\ UNCHANGED <<tables, lock, work, local, effects, conns>>

Connect(r) == /\ At(r, "connect") /\ PoolFree
              /\ conns' = conns \cup {r}
              /\ Goto(r, "begin")
              /\ UNCHANGED <<tables, lock, work, local, effects, reply>>

Begin(r) == /\ At(r, "begin")
            /\ Goto(r, "select")
            /\ UNCHANGED <<tables, lock, work, local, effects, reply, conns>>

-----------------------------------------------------------------------------
(* The transaction.                                                        *)

\* SELECT ... WHERE accountNumber IN (from, to) FOR UPDATE: the statement's
\* snapshot decides which rows there are ...
Select(r) ==
    /\ At(r, "select")
    /\ seen' = [seen EXCEPT ![r] = [a \in Accounts |->
                   IF a \in {From(r), To(r)} THEN account[a] ELSE NoRow]]
    /\ Goto(r, "lock")
    /\ UNCHANGED <<tables, lock, work, dto, ref, effects, reply, conns>>

\* ... and they are locked one after the other.
LockRow(r, a) ==
    /\ At(r, "lock")
    /\ NextRow(r, a)
    /\ lock[a] = NoReq
    /\ lock' = [lock EXCEPT ![a] = r]
    /\ seen' = [seen EXCEPT ![r][a] = Latest(r, a)]
    /\ UNCHANGED <<tables, work, pc, dto, ref, effects, reply, conns>>

UncheckedReceiverSlip(r) ==
    /\ {From(r), To(r)} \subseteq Found(r)
    /\ seen[r][From(r)].owner = dto[r].user
    /\ seen[r][From(r)].status = "ACTIVE"
    /\ seen[r][From(r)].balance >= dto[r].amount
UncheckedFundsSlip(r) ==
    /\ {From(r), To(r)} \subseteq Found(r)
    /\ seen[r][From(r)].owner = dto[r].user
    /\ seen[r][From(r)].status = "ACTIVE"
    /\ seen[r][To(r)].status = "ACTIVE"
Accepts(r) ==
    /\ {From(r), To(r)} \subseteq Found(r)
    /\ seen[r][From(r)].owner = dto[r].user
    /\ seen[r][From(r)].status = "ACTIVE"
    /\ seen[r][To(r)].status = "ACTIVE"
    /\ seen[r][From(r)].balance >= dto[r].amount

\* What the sum x comes to in doubles: less than a unit off.  Only next to
\* half a cent does that change what is stored, either way.
Approx(x) == LET half == 10 * (x \div 10) + 5
             IN  IF x \in (half - 1)..(half + 1) THEN {half - 1, half} ELSE {x}

Changed(row, by) == {[row EXCEPT !.balance = x] : x \in Approx(row.balance + by)}

\* The two entities, debited and credited.
Moved(rows, d) ==
    {[rows EXCEPT ![d.fromAccount] = sender, ![d.toAccount] = receiver] :
        sender   \in Changed(rows[d.fromAccount], -d.amount),
        receiver \in Changed(rows[d.toAccount], d.amount)}

\* The checks on the rows returned, and the new balances, in memory.
Validate(r) ==
    /\ At(r, "lock")
    /\ Found(r) \subseteq Holding(r)
    /\ \/ /\ Accepts(r)
          /\ \E rows \in Moved(seen[r], dto[r]) : seen' = [seen EXCEPT ![r] = rows]
          /\ Goto(r, "saveSender")
          /\ UNCHANGED reply
       \/ /\ ~Accepts(r)
          /\ Answer(r, "rejected") /\ Goto(r, "rollback")
          /\ UNCHANGED seen
    /\ UNCHANGED <<tables, lock, work, dto, ref, effects, conns>>

SaveSender(r) ==
    /\ At(r, "saveSender")
    /\ work' = [work EXCEPT ![r].saved = @ \cup {From(r)}]
    /\ Goto(r, "saveReceiver")
    /\ UNCHANGED <<tables, lock, local, effects, reply, conns>>

\* generateReference follows: milliseconds and a random number, which may
\* repeat.
ForgottenSaveSlip(r) ==
    /\ At(r, "saveReceiver")
    /\ \E x \in Refs : ref' = [ref EXCEPT ![r] = x]
    /\ Goto(r, "insert")
    /\ UNCHANGED <<tables, lock, work, dto, seen, effects, reply, conns>>
SaveReceiver(r) ==
    /\ At(r, "saveReceiver")
    /\ work' = [work EXCEPT ![r].saved = @ \cup {To(r)}]
    /\ \E x \in Refs : ref' = [ref EXCEPT ![r] = x]
    /\ Goto(r, "insert")
    /\ UNCHANGED <<tables, lock, dto, seen, effects, reply, conns>>

\* An INSERT waits for the end of a transaction that inserted a clashing row,
\* and fails if such a row is committed.
Insert(r) ==
    /\ At(r, "insert")
    /\ Awaited(r) = {}
    /\ IF \E t \in transactions : Clashes(NewTxn(r), t)
       THEN /\ Answer(r, "failed") /\ Goto(r, "rollback")
            /\ UNCHANGED work
       ELSE /\ work' = [work EXCEPT ![r].txns = {NewTxn(r)}]
            /\ Goto(r, "debit")
            /\ UNCHANGED reply
    /\ UNCHANGED <<tables, lock, local, effects, conns>>

AutocommittedSlip(r) ==
    /\ \/ /\ At(r, "debit") /\ Goto(r, "credit")
          /\ ledger' = ledger \cup {DebitOf(NewTxn(r))}
       \/ /\ At(r, "credit") /\ Goto(r, "commit")
          /\ ledger' = ledger \cup {CreditOf(NewTxn(r))}
    /\ UNCHANGED <<account, transactions, work, lock, local, effects, reply, conns>>
SaveEntry(r) ==
    /\ \/ /\ At(r, "debit") /\ Goto(r, "credit")
          /\ work' = [work EXCEPT ![r].entries = @ \cup {DebitOf(NewTxn(r))}]
       \/ /\ At(r, "credit") /\ Goto(r, "commit")
          /\ work' = [work EXCEPT ![r].entries = @ \cup {CreditOf(NewTxn(r))}]
    /\ UNCHANGED <<tables, lock, local, effects, reply, conns>>

Commit(r) == /\ At(r, "commit")
             /\ WriteBack(r) /\ EndTx(r)
             /\ Goto(r, "delSender")
             /\ UNCHANGED <<local, effects, reply, conns>>

\* The catch block; the error is thrown again once finally has run, unless
\* ROLLBACK itself fails: its error replaces it, and the session is gone.
Rollback(r) == /\ At(r, "rollback")
               /\ EndTx(r)
               /\ Goto(r, "release")
               /\ \/ UNCHANGED reply
                  \/ "statement" \in Failures /\ Answer(r, "failed")
               /\ UNCHANGED <<tables, local, effects, conns>>

-----------------------------------------------------------------------------
(* After the commit.                                                       *)

\* redis.del of the sender's cached row, then of the receiver's.
DelAccount(r) ==
    /\ \/ At(r, "delSender") /\ Goto(r, "delReceiver")
       \/ At(r, "delReceiver") /\ Goto(r, "release")
    /\ UNCHANGED <<tables, lock, work, local, effects, reply, conns>>

\* finally, and the rethrow if there is an error.
LeakSlip(r) == IF reply[r] = "none" THEN conns \ {r} ELSE conns
Returned(r) == conns \ {r}
SwallowSlip(r)  == "owner"
AfterRelease(r) == IF reply[r] = "none" THEN "owner" ELSE "done"

Release(r) == /\ At(r, "release")
              /\ conns' = Returned(r)
              /\ Goto(r, AfterRelease(r))
              /\ UNCHANGED <<tables, lock, work, local, effects, reply>>

\* The sender's owner is read through the pool again.
FindOwner(r) == /\ At(r, "owner") /\ PoolFree
                /\ Goto(r, "publish")
                /\ UNCHANGED <<tables, lock, work, local, effects, reply, conns>>

Publish(r) == /\ At(r, "publish")
              /\ published' = published \cup {r}
              /\ Goto(r, "audit")
              /\ UNCHANGED <<tables, lock, work, local, audited, reply, conns>>

Audit(r) == /\ At(r, "audit") /\ PoolFree
            /\ audited' = audited \cup {r}
            /\ Answer(r, "success") /\ Goto(r, "done")
            /\ UNCHANGED <<tables, lock, work, local, published, conns>>

-----------------------------------------------------------------------------
(* Failures.                                                               *)

\* An await outside the try blocks throws to the client.
LookupFails(r) ==
    /\ "lookup" \in Failures
    /\ pc[r] \in {"findKey", "connect", "owner"}
    /\ Answer(r, "failed") /\ Goto(r, "done")
    /\ UNCHANGED <<tables, lock, work, local, effects, conns>>

\* So does startTransaction, and no finally releases its connection.
BeginFails(r) ==
    /\ "begin" \in Failures
    /\ At(r, "begin")
    /\ Answer(r, "failed") /\ Goto(r, "done")
    /\ UNCHANGED <<tables, lock, work, local, effects, conns>>

\* A statement of the transaction fails, and the next one is ROLLBACK.
StatementFails(r) ==
    /\ "statement" \in Failures
    /\ pc[r] \in InTx
    /\ Answer(r, "failed") /\ Goto(r, "rollback")
    /\ UNCHANGED <<tables, lock, work, local, effects, conns>>

\* COMMIT took effect but its answer was lost: the catch block finds the
\* transaction still marked active, and rolls back what no longer exists.
CommitAckLost(r) ==
    /\ "commitAck" \in Failures
    /\ At(r, "commit")
    /\ WriteBack(r) /\ EndTx(r)
    /\ Answer(r, "failed") /\ Goto(r, "rollback")
    /\ UNCHANGED <<local, effects, conns>>

\* redis.del throws inside the try block, when nothing is left to roll back.
DelFails(r) ==
    /\ "redis" \in Failures
    /\ pc[r] \in {"delSender", "delReceiver"}
    /\ Answer(r, "failed") /\ Goto(r, "release")
    /\ UNCHANGED <<tables, lock, work, local, effects, conns>>

\* A failed publish or audit is logged, and the method goes on.  What throws
\* may have been done all the same, and only its answer lost.
UncaughtSlip(r) ==
    /\ "publish" \in Failures
    /\ At(r, "publish") /\ Answer(r, "failed") /\ Goto(r, "done")
    /\ published' \in {published, published \cup {r}}
    /\ UNCHANGED <<tables, lock, work, local, audited, conns>>
PublishFails(r) ==
    /\ "publish" \in Failures
    /\ At(r, "publish") /\ Goto(r, "audit")
    /\ published' \in {published, published \cup {r}}
    /\ UNCHANGED <<tables, lock, work, local, audited, reply, conns>>

AuditFails(r) ==
    /\ "audit" \in Failures
    /\ At(r, "audit")
    /\ audited' \in {audited, audited \cup {r}}
    /\ Answer(r, "success") /\ Goto(r, "done")
    /\ UNCHANGED <<tables, lock, work, local, published, conns>>

\* The API process dies: open transactions end, clients hear nothing.
InFlight == {r \in Requests : pc[r] \notin {"idle", "done"}}
Crash ==
    /\ "crash" \in Failures
    /\ InFlight # {}
    /\ lock' = [a \in Accounts |-> NoReq]
    /\ work' = [r \in Requests |-> NoWork]
    /\ pc' = [r \in Requests |-> IF r \in InFlight THEN "done" ELSE pc[r]]
    /\ reply' = [r \in Requests |-> IF r \in InFlight THEN "lost" ELSE reply[r]]
    /\ conns' = {}
    /\ UNCHANGED <<tables, local, effects>>

-----------------------------------------------------------------------------
(* Beside the transfers.                                                   *)

beside == <<transactions, ledger, lock, work, local, effects, pc, reply, conns>>

\* AccountsService.create with a number that is free (a taken one violates
\* the unique index and changes nothing).
OpenAccount(o) ==
    /\ account[o.account] = NoRow
    /\ account' = [account EXCEPT ![o.account] = OpenedRow(o)]
    /\ UNCHANGED beside

\* No code changes a status: an operator's UPDATE, which waits for the lock.
SetStatus(a, s) ==
    /\ account[a] # NoRow
    /\ lock[a] = NoReq
    /\ account' = [account EXCEPT ![a].status = s]
    /\ UNCHANGED beside

-----------------------------------------------------------------------------
Step(r) == \/ FindKey(r) \/ Connect(r) \/ Begin(r) \/ Select(r)
           \/ (\E a \in Accounts : LockRow(r, a)) \/ Validate(r)
           \/ SaveSender(r) \/ SaveReceiver(r) \/ Insert(r) \/ SaveEntry(r)
           \/ Commit(r) \/ Rollback(r) \/ DelAccount(r) \/ Release(r)
           \/ FindOwner(r) \/ Publish(r) \/ Audit(r)

Failure(r) == \/ LookupFails(r) \/ BeginFails(r) \/ StatementFails(r)
              \/ CommitAckLost(r) \/ DelFails(r)
              \/ PublishFails(r) \/ AuditFails(r)

Next == \/ \E r \in Requests : \/ Submit(r) \/ RejectSelfTransfer(r)
                               \/ Step(r) \/ Failure(r)
        \/ Crash
        \/ \E o \in Openings : OpenAccount(o)
        \/ \E a \in Accounts, s \in AdminStatuses : SetStatus(a, s)

Spec == Init /\ [][Next]_vars

\* Every await a request stands at is answered: the event loop, the pool and
\* the database starve nobody for ever.
FairSpec == Spec /\ \A r \in Requests : WF_vars(Step(r))
=============================================================================
