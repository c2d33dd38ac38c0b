------------------------- MODULE TransferProperties -------------------------
(***************************************************************************)
(* What the transfer service has to guarantee (Transfer), stated apart     *)
(* from how it does.  MCTransfer checks these properties, TransferProofs   *)
(* proves part of them for every instance.                                 *)
(***************************************************************************)
EXTENDS Transfer, FiniteSetsExt

Work == [saved : SUBSET Accounts, txns : SUBSET TransactionRow,
         entries : SUBSET LedgerRow]

\* The rows have the shape of the schema, and a committed balance is a whole
\* number of cents, whatever the numbers the service computed with.
TypeOK ==
    /\ account \in [Accounts -> AccountRow]
    /\ \A a \in Accounts : account[a].balance % 10 = 0
    /\ transactions \subseteq TransactionRow
    /\ ledger \subseteq LedgerRow
    /\ lock \in [Accounts -> Requests \cup {NoReq}]
    /\ work \in [Requests -> Work]
    /\ pc \in [Requests -> PCs]
    /\ dto \in [Requests -> Dtos]
    /\ seen \in [Requests -> [Accounts -> AccountRow]]
    /\ ref \in [Requests -> Refs]
    /\ reply \in [Requests -> Replies]
    /\ conns \subseteq Requests
    /\ published \subseteq Requests
    /\ audited \subseteq Requests

\* A key debits at most once, although the lookup that looks for the key
\* (FindKey) is over long before the row is inserted, and the same request
\* may be running several times: no two transactions carry one key.
NoDuplicateDebit ==
    \A t, u \in transactions : t.key = u.key /\ t.key # NoKey => t = u

\* Every transfer has its debit and its credit entry and there is no other
\* entry, whichever await failed or crashed: what DailyReconciliation looks
\* for by counting entries per reference.
DoubleEntry == ledger = UNION {Entries(t) : t \in transactions}

\* A reply tells the truth about the database: after a success the request's
\* own row is there under the reference answered, after a replay a row of its
\* key, after a rejection none; and no event announces, and no audit row
\* reports, a transfer that was not committed.
RepliesHonest ==
    /\ \A r \in Requests :
          LET own == {t \in transactions : t.by = r} IN
          CASE reply[r] = "success"  -> \E t \in own : t.reference = ref[r]
            [] reply[r] = "replay"   -> \E t \in transactions : t.key = dto[r].key
            [] reply[r] = "rejected" -> own = {}
            [] OTHER -> TRUE
    /\ \A r \in published \cup audited :
          \E t \in transactions : t.by = r /\ t.reference = ref[r]

\* The requests between their checks and the end of their transaction.
Writing == {"saveSender", "saveReceiver", "insert", "debit", "credit", "commit"}

\* No update is lost and no check goes stale: from the lock to the commit the
\* rows a request computes with are the committed rows, and the balances it
\* will write are the committed ones less and plus the amount, as exactly as
\* doubles tell, however many other transfers of these accounts are under way.
Isolation ==
    /\ \A r \in Requests : At(r, "lock") =>
          \A a \in Holding(r) : seen[r][a] = account[a]
    /\ \A r \in Requests : pc[r] \in Writing =>
          /\ seen[r][From(r)] \in Changed(account[From(r)], -dto[r].amount)
          /\ seen[r][To(r)] \in Changed(account[To(r)], dto[r].amount)

\* A row is committed only while what the checks asked for still holds: the
\* debited account belongs to the caller and both accounts are active at the
\* moment of COMMIT, not only when they were looked at.
CommitAuthorised ==
    [][\A t \in transactions' \ transactions :
          /\ account[t.fromAccount].owner = dto[t.by].user
          /\ account[t.fromAccount].status = "ACTIVE"
          /\ account[t.toAccount].status = "ACTIVE"]_vars

-----------------------------------------------------------------------------
(* Waiting.                                                                *)

\* The requests r waits for: whoever locked the row it needs, whoever
\* inserted a clashing row, or those that hold the connections.
WaitsFor(r) ==
    CASE At(r, "lock")   -> {lock[a] : a \in {b \in Accounts : NextRow(r, b)}}
                              \ {NoReq}
      [] At(r, "insert") -> Awaited(r)
      [] pc[r] \in {"findKey", "connect", "owner", "audit"} ->
            IF PoolFree THEN {} ELSE conns
      [] OTHER -> {}

\* Transfers in opposite directions, transfers with one key and transfers
\* short of connections never wait for each other in a circle: in any set of
\* requests somebody waits for nobody in it.
NoWaitCycle ==
    \A S \in (SUBSET Requests) \ {{}} : \E r \in S : WaitsFor(r) \cap S = {}

\* Whichever statement threw, a request that has ended left no row locked and
\* no row uncommitted for others to wait for, and gave its connection back;
\* but for one whose BEGIN failed, before it looked at any account.
NothingLeftOpen ==
    \A r \in Requests : At(r, "done") =>
        /\ Holding(r) = {} /\ work[r] = NoWork
        /\ r \in conns => reply[r] = "failed" /\ Found(r) = {}

\* Every request that arrives is answered, although transfers wait for
\* connections while they hold none, and for rows while they hold one.
EveryRequestAnswered == \A r \in Requests : ~At(r, "idle") ~> At(r, "done")

-----------------------------------------------------------------------------
(* The ledger and the balances.                                            *)

Amount(rows)    == MapThenSumSet(LAMBDA row : row.amount, rows)
Posted(a, type) == {e \in ledger : e.account = a /\ e.type = type}

\* The account requests that can have made the row of a.
MadeBy(a) == {o \in Openings : o.account = a /\ o.user = account[a].owner}

\* What the ledger says an account that was opened by o holds.
Explained(o) == Stored(o.initial) + Amount(Posted(o.account, "CREDIT"))
                                  - Amount(Posted(o.account, "DEBIT"))

\* No update is lost and no balance is written twice: an account belongs to
\* whoever opened it and holds its first balance, plus the credits and less the
\* debits the ledger has for it, as long as amounts are whole cents.
LedgerExplainsBalance ==
    \A a \in Accounts : account[a] # NoRow =>
        \E o \in MadeBy(a) : account[a].balance = Explained(o)

\* The entries of a that transfers of an amount finer than a cent made.
Fine(a) == {e \in ledger : e.account = a /\ dto[e.by].amount % 10 # 0}

\* With amounts finer than a cent the columns round apart, and doubles tip
\* half a cent either way: an account drifts from its ledger by a cent at most
\* for each such transfer, up or down, and for no other reason.
DriftBounded ==
    \A a \in Accounts : account[a] # NoRow =>
        LET cents == 10 * Cardinality(Fine(a)) IN
        \E o \in MadeBy(a) : account[a].balance - Explained(o) \in -cents .. cents

-----------------------------------------------------------------------------
B == INSTANCE Bank

\* Seen from its tables, the service is the bank of module Bank: between any
\* two commits nothing shows, and a commit moves exactly the amount asked for
\* from and to the balances the accounts have at that moment.
BankSpec == B!Spec
=============================================================================
