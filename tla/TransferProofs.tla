--------------------------- MODULE TransferProofs ---------------------------
(***************************************************************************)
(* What holds of the transfer service for any number of requests, any      *)
(* accounts and any pool: proofs of properties of TransferProperties.      *)
(***************************************************************************)
EXTENDS TransferProperties, FiniteSetTheorems, WellFoundedInduction, TLAPS

-----------------------------------------------------------------------------
(* Money.                                                                  *)

\* A numeric(18,2) column holds whole cents, and keeps a number of whole
\* cents as it is.
LEMMA StoredCents ==
    ASSUME NEW x \in Nat
    PROVE  /\ Stored(x) \in Nat
           /\ Stored(x) % 10 = 0
           /\ x % 10 = 0 => Stored(x) = x
  BY DEF Stored

\* A sum of doubles is no less than nothing if the exact one is not, and whole
\* cents come out exactly.
LEMMA ApproxNat ==
    ASSUME NEW x \in Nat, NEW y \in Approx(x)
    PROVE  /\ y \in Nat
           /\ x % 10 = 0 => y = x
  <1> DEFINE half == 10 * (x \div 10) + 5
  <1>1. half \in Nat /\ half >= 5
    OBVIOUS
  <1>2. y \in {half - 1, half, x}
    BY DEF Approx
  <1>3. x % 10 = 0 => half = x + 5
    OBVIOUS
  <1>4. x \notin (half - 1)..(half + 1) => y = x
    BY DEF Approx
  <1> QED
    BY <1>1, <1>2, <1>3, <1>4

\* A row whose balance has changed is a row, the same but for that.
LEMMA ChangedRow ==
    ASSUME NEW row \in AccountRow, NEW by \in Int, row.balance + by \in Nat,
           NEW new \in Changed(row, by)
    PROVE  /\ new \in AccountRow
           /\ new.balance \in Approx(row.balance + by)
           /\ new = [row EXCEPT !.balance = new.balance]
  <1>1. PICK x \in Approx(row.balance + by) : new = [row EXCEPT !.balance = x]
    BY DEF Changed
  <1>2. x \in Nat
    BY ApproxNat
  <1> QED
    BY <1>1, <1>2 DEF AccountRow

\* The row a request inserts, and its two entries, have the types of their
\* columns.
LEMMA NewTxnType ==
    ASSUME TypeOK, NEW r \in Requests
    PROVE  /\ NewTxn(r) \in TransactionRow
           /\ DebitOf(NewTxn(r)) \in LedgerRow
           /\ CreditOf(NewTxn(r)) \in LedgerRow
  <1>1. dto[r] \in Dto
    BY SchemaAssumption DEF TypeOK
  <1>2. Stored(dto[r].amount) \in Nat
    BY <1>1, StoredCents DEF Dto
  <1>3. NewTxn(r) \in TransactionRow
    BY <1>1, <1>2 DEF NewTxn, TransactionRow, Dto, From, To, TypeOK
  <1> QED
    BY <1>3 DEF DebitOf, CreditOf, Entry, LedgerRow, TransactionRow

-----------------------------------------------------------------------------
(* Type correctness.                                                       *)

\* Every row of the account table keeps a whole number of cents in a commit.
LEMMA WriteBackType ==
    ASSUME TypeOK, NEW r \in Requests, WriteBack(r)
    PROVE  /\ account' \in [Accounts -> AccountRow]
           /\ \A a \in Accounts : account'[a].balance % 10 = 0
           /\ transactions' \subseteq TransactionRow
           /\ ledger' \subseteq LedgerRow
  <1>1. \A a \in Accounts : /\ Stored(seen[r][a].balance) \in Nat
                            /\ Stored(seen[r][a].balance) % 10 = 0
    <2> TAKE a \in Accounts
    <2>1. seen[r][a].balance \in Nat
      BY DEF TypeOK, AccountRow
    <2> QED BY <2>1, StoredCents
  <1>2. ASSUME NEW a \in Accounts
        PROVE  account'[a] \in AccountRow /\ account'[a].balance % 10 = 0
    BY <1>1 DEF WriteBack, TypeOK, AccountRow
  <1>3. transactions' \subseteq TransactionRow /\ ledger' \subseteq LedgerRow
    BY DEF WriteBack, TypeOK, Work
  <1> QED
    BY <1>2, <1>3 DEF WriteBack

\* The rows after the transfer was computed.
LEMMA MovedRows ==
    ASSUME TypeOK, NEW r \in Requests, NEW rows \in Moved(seen[r], dto[r]),
           seen[r][From(r)].balance >= dto[r].amount
    PROVE  /\ rows \in [Accounts -> AccountRow]
           /\ From(r) # To(r) => rows[From(r)] \in Changed(seen[r][From(r)], -dto[r].amount)
           /\ rows[To(r)] \in Changed(seen[r][To(r)], dto[r].amount)
           /\ \A a \in Accounts \ {From(r), To(r)} : rows[a] = seen[r][a]
  <1>1. /\ From(r) \in Accounts /\ To(r) \in Accounts /\ dto[r].amount \in Nat
        /\ seen[r] \in [Accounts -> AccountRow]
    BY SchemaAssumption DEF TypeOK, Dto, From, To
  <1>2. PICK sender \in Changed(seen[r][From(r)], -dto[r].amount),
             receiver \in Changed(seen[r][To(r)], dto[r].amount) :
                rows = [seen[r] EXCEPT ![From(r)] = sender, ![To(r)] = receiver]
    BY DEF Moved, From, To
  <1>3. /\ seen[r][From(r)].balance + (-dto[r].amount) \in Nat
        /\ seen[r][To(r)].balance + dto[r].amount \in Nat
    BY <1>1 DEF AccountRow
  <1>4. sender \in AccountRow /\ receiver \in AccountRow
    BY <1>1, <1>3, ChangedRow
  <1> QED
    BY <1>1, <1>2, <1>4

\* A request's new balances are no less than nothing: the checks saw to it.
LEMMA ValidateType ==
    ASSUME TypeOK, NEW r \in Requests, Validate(r)
    PROVE  seen' \in [Requests -> [Accounts -> AccountRow]]
  <1>1. dto[r] \in Dto
    BY SchemaAssumption DEF TypeOK
  <1>2. From(r) \in Accounts /\ To(r) \in Accounts /\ dto[r].amount \in Nat
    BY <1>1 DEF Dto, From, To
  <1>3. CASE UNCHANGED seen
    BY <1>3 DEF TypeOK
  <1>4. ASSUME NEW rows \in Moved(seen[r], dto[r]), Accepts(r),
               seen' = [seen EXCEPT ![r] = rows]
        PROVE  seen' \in [Requests -> [Accounts -> AccountRow]]
    <2>1. seen[r] \in [Accounts -> AccountRow]
      BY DEF TypeOK
    <2>2. rows \in [Accounts -> AccountRow]
      BY <1>2, <1>4, <2>1, MovedRows DEF Accepts
    <2> QED
      BY <1>4, <2>2 DEF TypeOK
  <1> QED
    BY <1>3, <1>4 DEF Validate

\* The transfer rows keep their types (TypeOK, in TransferProperties).
LEMMA TypeStep == TypeOK /\ [Next]_vars => TypeOK'
  <1> SUFFICES ASSUME TypeOK, [Next]_vars PROVE TypeOK'
    OBVIOUS
  <1> USE DEF At, Goto, Answer
  <1>1. CASE UNCHANGED vars
    BY <1>1 DEF TypeOK, vars, tables, local, effects
  <1>2. ASSUME NEW r \in Requests, Submit(r) \/ RejectSelfTransfer(r)
        PROVE  TypeOK'
    BY <1>2 DEF TypeOK, Submit, RejectSelfTransfer, tables, local, effects,
                PCs, Replies
  <1>3. ASSUME NEW r \in Requests, FindKey(r) \/ Connect(r) \/ Begin(r)
        PROVE  TypeOK'
    BY <1>3 DEF TypeOK, FindKey, Connect, Begin, tables, local, effects,
                PCs, InTx, Replies
  <1>4. ASSUME NEW r \in Requests, Select(r)
        PROVE  TypeOK'
    <2>1. NoRow \in AccountRow
      BY DEF NoRow, AccountRow
    <2> QED
      BY <1>4, <2>1 DEF TypeOK, Select, tables, effects, PCs, InTx
  <1>5. ASSUME NEW r \in Requests, NEW a \in Accounts, LockRow(r, a)
        PROVE  TypeOK'
    BY <1>5 DEF TypeOK, LockRow, Latest, tables, effects
  <1>6. ASSUME NEW r \in Requests, Validate(r)
        PROVE  TypeOK'
    BY <1>6, ValidateType DEF TypeOK, Validate, tables, effects, PCs, InTx, Replies
  <1>7. ASSUME NEW r \in Requests, SaveSender(r) \/ SaveReceiver(r)
        PROVE  TypeOK'
    <2>1. From(r) \in Accounts /\ To(r) \in Accounts
      BY SchemaAssumption DEF TypeOK, Dto, From, To
    <2>2. work[r] \in Work
      BY DEF TypeOK
    <2>3. [work[r] EXCEPT !.saved = @ \cup {From(r)}] \in Work
      BY <2>1, <2>2 DEF Work
    <2>4. [work[r] EXCEPT !.saved = @ \cup {To(r)}] \in Work
      BY <2>1, <2>2 DEF Work
    <2>5. work' \in [Requests -> Work]
      BY <1>7, <2>3, <2>4 DEF TypeOK, SaveSender, SaveReceiver
    <2>6. pc' \in [Requests -> PCs] /\ ref' \in [Requests -> Refs]
      BY <1>7 DEF TypeOK, SaveSender, SaveReceiver, PCs, InTx, local
    <2> QED
      BY <1>7, <2>5, <2>6 DEF TypeOK, SaveSender, SaveReceiver, tables, local, effects
  <1>8. ASSUME NEW r \in Requests, Insert(r) \/ SaveEntry(r)
        PROVE  TypeOK'
    <2>1. work[r] \in Work
      BY DEF TypeOK
    <2>2. [work[r] EXCEPT !.txns = {NewTxn(r)}] \in Work
      BY <2>1, NewTxnType DEF Work
    <2>3. [work[r] EXCEPT !.entries = @ \cup {DebitOf(NewTxn(r))}] \in Work
      BY <2>1, NewTxnType DEF Work
    <2>4. [work[r] EXCEPT !.entries = @ \cup {CreditOf(NewTxn(r))}] \in Work
      BY <2>1, NewTxnType DEF Work
    <2>5. work' \in [Requests -> Work]
      BY <1>8, <2>2, <2>3, <2>4 DEF TypeOK, Insert, SaveEntry
    <2>6. pc' \in [Requests -> PCs] /\ reply' \in [Requests -> Replies]
      BY <1>8 DEF TypeOK, Insert, SaveEntry, PCs, InTx, Replies
    <2> QED
      BY <1>8, <2>5, <2>6 DEF TypeOK, Insert, SaveEntry, tables, local, effects
  <1>9. ASSUME NEW r \in Requests, EndTx(r)
        PROVE  lock' \in [Accounts -> Requests \cup {NoReq}] /\ work' \in [Requests -> Work]
    BY <1>9 DEF TypeOK, EndTx, NoWork, Work
  <1>10. ASSUME NEW r \in Requests, Commit(r) \/ CommitAckLost(r)
         PROVE  TypeOK'
    <2>1. WriteBack(r) /\ EndTx(r)
      BY <1>10 DEF Commit, CommitAckLost
    <2>2. pc' \in [Requests -> PCs] /\ reply' \in [Requests -> Replies]
      BY <1>10 DEF TypeOK, Commit, CommitAckLost, PCs, InTx, Replies
    <2> QED
      BY <1>9, <1>10, <2>1, <2>2, WriteBackType
      DEF TypeOK, Commit, CommitAckLost, local, effects
  <1>11. ASSUME NEW r \in Requests, Rollback(r)
         PROVE  TypeOK'
    <2>1. pc' \in [Requests -> PCs] /\ reply' \in [Requests -> Replies]
      BY <1>11 DEF TypeOK, Rollback, PCs, InTx, Replies
    <2> QED
      BY <1>9, <1>11, <2>1 DEF TypeOK, Rollback, tables, local, effects
  <1>12. ASSUME NEW r \in Requests, DelAccount(r) \/ Release(r) \/ FindOwner(r)
         PROVE  TypeOK'
    BY <1>12 DEF TypeOK, DelAccount, Release, Returned, AfterRelease, FindOwner,
                 tables, local, effects, PCs, InTx
  <1>13. ASSUME NEW r \in Requests, Publish(r) \/ Audit(r)
         PROVE  TypeOK'
    BY <1>13 DEF TypeOK, Publish, Audit, tables, local, PCs, InTx, Replies
  <1>14. ASSUME NEW r \in Requests,
                LookupFails(r) \/ BeginFails(r) \/ StatementFails(r) \/ DelFails(r)
         PROVE  TypeOK'
    BY <1>14 DEF TypeOK, LookupFails, BeginFails, StatementFails, DelFails, tables,
                 local, effects, PCs, InTx, Replies
  <1>15. ASSUME NEW r \in Requests, PublishFails(r) \/ AuditFails(r)
         PROVE  TypeOK'
    BY <1>15 DEF TypeOK, PublishFails, AuditFails, tables, local, effects, PCs, InTx,
                 Replies
  <1>16. CASE Crash
    BY <1>16 DEF TypeOK, Crash, NoWork, Work, tables, local, effects, PCs, InTx, Replies
  <1>17. ASSUME NEW o \in Openings, OpenAccount(o)
         PROVE  TypeOK'
    <2>1. o \in Opening
      BY SchemaAssumption
    <2>2. OpenedRow(o) \in AccountRow /\ OpenedRow(o).balance % 10 = 0
      BY <2>1, StoredCents DEF OpenedRow, Opening, AccountRow, Statuses
    <2> QED
      BY <1>17, <2>1, <2>2 DEF TypeOK, OpenAccount, Opening, beside, local, effects
  <1>18. ASSUME NEW a \in Accounts, NEW s \in AdminStatuses, SetStatus(a, s)
         PROVE  TypeOK'
    <2>1. s \in Statuses
      BY SchemaAssumption
    <2>2. [account[a] EXCEPT !.status = s] \in AccountRow
      BY <2>1 DEF TypeOK, AccountRow
    <2> QED
      BY <1>18, <2>2 DEF TypeOK, SetStatus, beside, local, effects, AccountRow
  <1> QED
    BY <1>1, <1>2, <1>3, <1>4, <1>5, <1>6, <1>7, <1>8, <1>10, <1>11, <1>12, <1>13,
       <1>14, <1>15, <1>16, <1>17, <1>18 DEF Next, Step, Failure

LEMMA InitTypeOK == Init => TypeOK
  <1>1. NoRow \in AccountRow /\ NoRow.balance % 10 = 0
    BY DEF NoRow, AccountRow
  <1>2. (CHOOSE x \in Refs : TRUE) \in Refs
    BY SchemaAssumption
  <1>3. NoWork \in Work
    BY DEF NoWork, Work
  <1> QED
    BY <1>1, <1>2, <1>3 DEF Init, TypeOK, PCs, Replies

\* TypeOK, for every instance: the tables never hold a value their columns
\* could not, however the requests interleave and fail.
THEOREM TypeCorrect == Spec => []TypeOK
  BY InitTypeOK, TypeStep, PTL DEF Spec

-----------------------------------------------------------------------------
(* The inductive invariant.                                                *)

BeforeCommit == InTx \cup {"idle", "findKey", "connect", "begin"}
Committed    == {"delSender", "delReceiver", "owner", "publish", "audit"}

\* Only rows of the transfer are found, and the two are different.
RowsInv ==
    \A r \in Requests :
        /\ \A a \in Accounts : seen[r][a] # NoRow => a \in {From(r), To(r)}
        /\ pc[r] \notin {"idle", "done"} => From(r) # To(r)

\* A row found or locked is there.
PresentInv ==
    \A r \in Requests, a \in Accounts :
        seen[r][a] # NoRow \/ lock[a] = r => account[a] # NoRow

\* A locked row is a row of its holder's transfer, whose transaction is open.
LockInv ==
    \A a \in Accounts : lock[a] # NoReq =>
        /\ a \in {From(lock[a]), To(lock[a])}
        /\ pc[lock[a]] \in Writing \cup {"lock", "rollback"}

\* A request past its checks holds both rows, and they still pass the checks.
CheckedInv ==
    \A r \in Requests : pc[r] \in Writing =>
        /\ lock[From(r)] = r /\ lock[To(r)] = r
        /\ account[From(r)].owner = dto[r].user
        /\ account[From(r)].status = "ACTIVE"
        /\ account[To(r)].status = "ACTIVE"
        /\ account[From(r)].balance >= dto[r].amount

Wrote(r, saved, txns, entries) ==
    work[r] = [saved |-> saved, txns |-> txns, entries |-> entries]

\* What a transaction has written, by the await it stands at.
WorkInv ==
    \A r \in Requests :
        /\ work[r].txns \subseteq {NewTxn(r)}
        /\ pc[r] \notin {"saveReceiver", "insert", "debit", "credit", "commit",
                         "rollback"} => work[r] = NoWork
        /\ At(r, "saveReceiver") => Wrote(r, {From(r)}, {}, {})
        /\ At(r, "insert") => Wrote(r, {From(r), To(r)}, {}, {})
        /\ At(r, "debit") => Wrote(r, {From(r), To(r)}, {NewTxn(r)}, {})
        /\ At(r, "credit") => Wrote(r, {From(r), To(r)}, {NewTxn(r)},
                                    {DebitOf(NewTxn(r))})
        /\ At(r, "commit") => Wrote(r, {From(r), To(r)}, {NewTxn(r)},
                                    Entries(NewTxn(r)))

\* The unique indexes, over committed and uncommitted rows alike.
UniqueInv ==
    /\ \A t \in transactions : t = NewTxn(t.by) /\ pc[t.by] \notin BeforeCommit
    /\ \A t, u \in transactions : t # u => ~Clashes(t, u)
    /\ \A r \in Requests : \A t \in work[r].txns, u \in transactions : ~Clashes(t, u)
    /\ \A r, q \in Requests : r # q =>
          \A t \in work[r].txns, u \in work[q].txns : ~Clashes(t, u)

\* What a request has answered, announced or is about to, by where it stands.
ReplyInv ==
    /\ \A r \in Requests :
          /\ pc[r] \in BeforeCommit => reply[r] = "none"
          /\ At(r, "rollback") => reply[r] \in {"rejected", "failed"}
          /\ pc[r] \in Committed => reply[r] = "none" /\ NewTxn(r) \in transactions
          /\ At(r, "release") => \/ reply[r] \in {"rejected", "failed"}
                                 \/ reply[r] = "none" /\ NewTxn(r) \in transactions
          /\ reply[r] = "success" => NewTxn(r) \in transactions
          /\ reply[r] = "replay" => \E t \in transactions : t.key = dto[r].key
          /\ reply[r] = "rejected" => \A t \in transactions : t.by # r
    /\ \A r \in published \cup audited : NewTxn(r) \in transactions

IInv == /\ TypeOK /\ RowsInv /\ PresentInv /\ LockInv /\ CheckedInv /\ Isolation
        /\ WorkInv /\ UniqueInv /\ ReplyInv /\ DoubleEntry
-----------------------------------------------------------------------------
(* Frames: what the actions that move control, or end a transaction, leave  *)
(* alone.                                                                   *)

\* The actions that touch neither tables nor transactions.
ControlMove(r) ==
    \/ Submit(r) \/ RejectSelfTransfer(r) \/ FindKey(r) \/ Connect(r) \/ Begin(r)
    \/ DelAccount(r) \/ Release(r) \/ FindOwner(r) \/ Publish(r) \/ Audit(r)
    \/ LookupFails(r) \/ BeginFails(r) \/ StatementFails(r) \/ DelFails(r)
    \/ PublishFails(r) \/ AuditFails(r)

\* The two actions that apply the writes of a transaction.
Applies(r) == Commit(r) \/ CommitAckLost(r)

\* The actions on the account table alone.
Beside == \/ \E o \in Openings : OpenAccount(o)
          \/ \E a \in Accounts, s \in AdminStatuses : SetStatus(a, s)

\* Next, in the cases the proofs below distinguish.
LEMMA NextCases ==
    ASSUME Next
    PROVE  \/ \E r \in Requests :
                 \/ ControlMove(r) \/ Select(r) \/ (\E a \in Accounts : LockRow(r, a))
                 \/ Validate(r) \/ SaveSender(r) \/ SaveReceiver(r) \/ Insert(r)
                 \/ SaveEntry(r) \/ Applies(r) \/ Rollback(r)
           \/ Crash
           \/ Beside
  BY DEF Next, Step, Failure, ControlMove, Applies, Beside

LEMMA ControlFrame ==
    ASSUME TypeOK, NEW r \in Requests, ControlMove(r)
    PROVE  /\ UNCHANGED <<account, transactions, ledger, lock, work, dto, seen, ref>>
           /\ \E p \in PCs : pc' = [pc EXCEPT ![r] = p]
           /\ pc[r] \in InTx => pc'[r] = "rollback"
           /\ pc[r] \notin InTx => pc'[r] \notin (InTx \ {"select"}) \cup {"rollback"}
           /\ pc[r] \notin {"rollback", "done"}
           /\ pc[r] \notin BeforeCommit => pc'[r] \notin BeforeCommit
           /\ pc[r] = "idle" /\ pc'[r] # "done" => From(r) # To(r)
  <1> USE DEF At, Goto, Answer, TypeOK, tables, local, effects, InTx, PCs, BeforeCommit
  <1>1. CASE Submit(r) \/ RejectSelfTransfer(r) \/ FindKey(r) \/ Connect(r) \/ Begin(r)
    BY <1>1 DEF Submit, RejectSelfTransfer, FindKey, Connect, Begin
  <1>2. CASE DelAccount(r) \/ Release(r) \/ FindOwner(r) \/ Publish(r) \/ Audit(r)
    BY <1>2 DEF DelAccount, Release, AfterRelease, FindOwner, Publish, Audit
  <1>3. CASE \/ LookupFails(r) \/ BeginFails(r) \/ StatementFails(r) \/ DelFails(r)
             \/ PublishFails(r) \/ AuditFails(r)
    BY <1>3 DEF LookupFails, BeginFails, StatementFails, DelFails, PublishFails, AuditFails
  <1> QED
    BY <1>1, <1>2, <1>3 DEF ControlMove

-----------------------------------------------------------------------------
(* Rows and locks.                                                         *)

LEMMA RowsStep == IInv /\ [Next]_vars => RowsInv'
  <1> SUFFICES ASSUME IInv, [Next]_vars PROVE RowsInv'
    OBVIOUS
  <1> TypeOK /\ RowsInv
    BY DEF IInv
  <1> USE DEF At, Goto, From, To
  <1>1. CASE UNCHANGED vars
    BY <1>1 DEF RowsInv, vars, local
  <1>2. ASSUME NEW r \in Requests, ControlMove(r)
        PROVE  RowsInv'
    BY <1>2, ControlFrame DEF RowsInv, TypeOK
  <1>3. ASSUME NEW r \in Requests, Select(r)
        PROVE  RowsInv'
    BY <1>3 DEF RowsInv, TypeOK, Select
  <1>4. ASSUME NEW r \in Requests, NEW a \in Accounts, LockRow(r, a)
        PROVE  RowsInv'
    BY <1>4 DEF RowsInv, TypeOK, LockRow, NextRow, Found
  <1>5. ASSUME NEW r \in Requests, Validate(r)
        PROVE  RowsInv'
    <2>1. dto'= dto /\ \E p : pc' = [pc EXCEPT ![r] = p]
      BY <1>5 DEF Validate
    <2>2. ASSUME NEW a \in Accounts, NEW q \in Requests, a \notin {From(q), To(q)}
          PROVE  seen'[q][a] = NoRow
      <3>1. seen[q][a] = NoRow
        BY <2>2 DEF RowsInv
      <3>2. CASE q # r \/ seen' = seen
        BY <1>5, <3>1, <3>2 DEF Validate, TypeOK
      <3>3. ASSUME q = r, Accepts(r), NEW rows \in Moved(seen[r], dto[r]),
                   seen' = [seen EXCEPT ![r] = rows]
            PROVE  seen'[q][a] = NoRow
        <4>1. rows[a] = seen[r][a]
          BY <2>2, <3>3, MovedRows DEF Accepts
        <4> QED
          BY <3>1, <3>3, <4>1 DEF TypeOK
      <3> QED
        BY <1>5, <3>2, <3>3 DEF Validate
    <2> QED
      BY <1>5, <2>1, <2>2 DEF RowsInv, TypeOK, Validate
  <1>6. ASSUME NEW r \in Requests, SaveSender(r) \/ SaveReceiver(r) \/ Insert(r) \/ SaveEntry(r)
        PROVE  RowsInv'
    BY <1>6 DEF RowsInv, TypeOK, SaveSender, SaveReceiver, Insert, SaveEntry, local
  <1>7. ASSUME NEW r \in Requests, Applies(r) \/ Rollback(r)
        PROVE  RowsInv'
    BY <1>7 DEF RowsInv, TypeOK, Applies, Commit, CommitAckLost, Rollback, local
  <1>8. CASE Crash
    BY <1>8 DEF RowsInv, TypeOK, Crash, InFlight, local
  <1>9. CASE Beside
    BY <1>9 DEF RowsInv, Beside, OpenAccount, SetStatus, beside, local
  <1> QED
    BY <1>1, <1>2, <1>3, <1>4, <1>5, <1>6, <1>7, <1>8, <1>9, NextCases

LEMMA LockStep == IInv /\ [Next]_vars => LockInv'
  <1> SUFFICES ASSUME IInv, [Next]_vars PROVE LockInv'
    OBVIOUS
  <1> TypeOK /\ RowsInv /\ LockInv
    BY DEF IInv
  <1> USE DEF At, Goto, From, To, Writing, InTx
  <1>1. CASE UNCHANGED vars
    BY <1>1 DEF LockInv, vars, local
  <1>2. ASSUME NEW r \in Requests, ControlMove(r)
        PROVE  LockInv'
    BY <1>2, ControlFrame DEF LockInv, TypeOK
  <1>3. ASSUME NEW r \in Requests, Select(r)
        PROVE  LockInv'
    BY <1>3 DEF LockInv, TypeOK, Select
  <1>4. ASSUME NEW r \in Requests, NEW a \in Accounts, LockRow(r, a)
        PROVE  LockInv'
    BY <1>4 DEF LockInv, RowsInv, TypeOK, LockRow, NextRow, Found
  <1>5. ASSUME NEW r \in Requests, Validate(r)
        PROVE  LockInv'
    BY <1>5 DEF LockInv, TypeOK, Validate
  <1>6. ASSUME NEW r \in Requests, SaveSender(r) \/ SaveReceiver(r) \/ Insert(r) \/ SaveEntry(r)
        PROVE  LockInv'
    BY <1>6 DEF LockInv, TypeOK, SaveSender, SaveReceiver, Insert, SaveEntry, local
  <1>7. ASSUME NEW r \in Requests, Applies(r) \/ Rollback(r)
        PROVE  LockInv'
    BY <1>7 DEF LockInv, TypeOK, Applies, Commit, CommitAckLost, Rollback, EndTx, local
  <1>8. CASE Crash
    BY <1>8 DEF LockInv, Crash
  <1>9. CASE Beside
    BY <1>9 DEF LockInv, Beside, OpenAccount, SetStatus, beside, local
  <1> QED
    BY <1>1, <1>2, <1>3, <1>4, <1>5, <1>6, <1>7, <1>8, <1>9, NextCases
-----------------------------------------------------------------------------
(* Isolation.                                                              *)

\* What the writes of a transaction come to.
LEMMA AppliesEffect ==
    ASSUME IInv, NEW r \in Requests, Applies(r)
    PROVE  /\ From(r) \in Accounts /\ To(r) \in Accounts /\ From(r) # To(r)
           /\ account' \in [Accounts -> AccountRow]
           /\ \A a \in Accounts \ {From(r), To(r)} : account'[a] = account[a]
           /\ account[From(r)].balance - dto[r].amount \in Nat
           /\ \E x \in Approx(account[From(r)].balance - dto[r].amount) :
                 account'[From(r)] = [account[From(r)] EXCEPT !.balance = Stored(x)]
           /\ \E x \in Approx(account[To(r)].balance + dto[r].amount) :
                 account'[To(r)] = [account[To(r)] EXCEPT !.balance = Stored(x)]
           /\ transactions' = transactions \cup {NewTxn(r)}
           /\ ledger' = ledger \cup Entries(NewTxn(r))
           /\ UNCHANGED <<dto, seen, ref, published, audited>>
           /\ pc[r] = "commit"
           /\ EndTx(r)
           /\ \/ pc' = [pc EXCEPT ![r] = "delSender"] /\ reply' = reply
              \/ pc' = [pc EXCEPT ![r] = "rollback"] /\ reply' = [reply EXCEPT ![r] = "failed"]
  <1> USE DEF At
  <1>1. /\ At(r, "commit") /\ WriteBack(r) /\ EndTx(r)
        /\ UNCHANGED <<dto, seen, ref, published, audited>>
        /\ \/ pc' = [pc EXCEPT ![r] = "delSender"] /\ reply' = reply
           \/ pc' = [pc EXCEPT ![r] = "rollback"] /\ reply' = [reply EXCEPT ![r] = "failed"]
    BY DEF Applies, Commit, CommitAckLost, local, effects, Goto, Answer
  <1>2. From(r) \in Accounts /\ To(r) \in Accounts
    BY SchemaAssumption DEF IInv, TypeOK, Dto, From, To
  <1>3. From(r) # To(r)
    BY <1>1 DEF IInv, RowsInv
  <1>4. Wrote(r, {From(r), To(r)}, {NewTxn(r)}, Entries(NewTxn(r)))
    BY <1>1 DEF IInv, WorkInv
  <1>5. account' \in [Accounts -> AccountRow]
    BY <1>1, WriteBackType DEF IInv
  <1>6. /\ seen[r][From(r)] \in Changed(account[From(r)], -dto[r].amount)
        /\ seen[r][To(r)] \in Changed(account[To(r)], dto[r].amount)
        /\ account[From(r)].balance >= dto[r].amount
    BY <1>1 DEF IInv, Isolation, CheckedInv, Writing
  <1>7. /\ account[From(r)] \in AccountRow /\ account[To(r)] \in AccountRow
        /\ dto[r].amount \in Nat
    <2>1. TypeOK
      BY DEF IInv
    <2>2. dto[r] \in Dto
      BY <2>1, SchemaAssumption DEF TypeOK
    <2> QED
      BY <1>2, <2>1, <2>2 DEF TypeOK, Dto
  <1>8. /\ account[From(r)].balance - dto[r].amount \in Nat
        /\ seen[r][From(r)].balance \in Approx(account[From(r)].balance - dto[r].amount)
        /\ seen[r][To(r)].balance \in Approx(account[To(r)].balance + dto[r].amount)
    <2>1. /\ account[From(r)].balance \in Nat /\ account[To(r)].balance \in Nat
          /\ account[From(r)].balance + (-dto[r].amount)
                = account[From(r)].balance - dto[r].amount
          /\ account[From(r)].balance - dto[r].amount \in Nat
          /\ account[To(r)].balance + dto[r].amount \in Nat
      BY <1>6, <1>7 DEF AccountRow
    <2> QED
      BY <1>6, <1>7, <2>1, ChangedRow
  <1>9. /\ account' = [a \in Accounts |->
               IF a \in {From(r), To(r)}
               THEN [account[a] EXCEPT !.balance = Stored(seen[r][a].balance)]
               ELSE account[a]]
        /\ transactions' = transactions \cup {NewTxn(r)}
        /\ ledger' = ledger \cup Entries(NewTxn(r))
    BY <1>1, <1>4 DEF WriteBack, Wrote
  <1>10. /\ account'[From(r)] = [account[From(r)] EXCEPT !.balance = Stored(seen[r][From(r)].balance)]
         /\ account'[To(r)] = [account[To(r)] EXCEPT !.balance = Stored(seen[r][To(r)].balance)]
         /\ \A a \in Accounts \ {From(r), To(r)} : account'[a] = account[a]
    BY <1>2, <1>9
  <1> QED
    BY <1>1, <1>2, <1>3, <1>5, <1>8, <1>9, <1>10

\* An account once opened stays.
LEMMA RowsStay ==
    ASSUME IInv, [Next]_vars, NEW a \in Accounts, account[a] # NoRow
    PROVE  account'[a] # NoRow
  <1>1. CASE account' = account
    BY <1>1
  <1>2. ASSUME NEW r \in Requests, Applies(r)
        PROVE  account'[a] # NoRow
    <2>1. /\ account[From(r)].status = "ACTIVE" /\ account[To(r)].status = "ACTIVE"
      BY <1>2, AppliesEffect DEF IInv, CheckedInv, Writing
    <2>2. \A b \in Accounts : account[b] \in AccountRow
      BY DEF IInv, TypeOK
    <2>3. account'[From(r)].status = "ACTIVE" /\ account'[To(r)].status = "ACTIVE"
      BY <1>2, <2>1, <2>2, AppliesEffect DEF AccountRow
    <2>4. NoRow.status = "ABSENT"
      BY DEF NoRow
    <2>5. CASE a \in {From(r), To(r)}
      BY <2>3, <2>4, <2>5
    <2>6. CASE a \notin {From(r), To(r)}
      BY <1>2, <2>6, AppliesEffect
    <2> QED
      BY <2>5, <2>6
  <1>3. CASE Beside
    <2>1. \A b \in Accounts : account[b] \in AccountRow
      BY DEF IInv, TypeOK
    <2>2. \A s \in AdminStatuses : s # "ABSENT"
      BY SchemaAssumption DEF Statuses
    <2>3. NoRow.status = "ABSENT"
      BY DEF NoRow
    <2>4. ASSUME NEW o \in Openings, OpenAccount(o)
          PROVE  account'[a] = account[a] \/ account'[a].status = "ACTIVE"
      BY <2>4 DEF OpenAccount, OpenedRow, IInv, TypeOK
    <2>5. ASSUME NEW b \in Accounts, NEW s \in AdminStatuses, SetStatus(b, s)
          PROVE  account'[a] = account[a] \/ account'[a].status = s
      BY <2>1, <2>5 DEF SetStatus, AccountRow, IInv, TypeOK
    <2> QED
      BY <1>3, <2>2, <2>3, <2>4, <2>5 DEF Beside
  <1>4. ASSUME NEW r \in Requests, ControlMove(r)
        PROVE  account' = account
    BY <1>4, ControlFrame DEF IInv
  <1>5. ASSUME NEW r \in Requests,
               \/ Select(r) \/ (\E b \in Accounts : LockRow(r, b)) \/ Validate(r)
               \/ SaveSender(r) \/ SaveReceiver(r) \/ Insert(r) \/ SaveEntry(r) \/ Rollback(r)
        PROVE  account' = account
    BY <1>5 DEF Select, LockRow, Validate, SaveSender, SaveReceiver, Insert, SaveEntry,
                Rollback, tables
  <1>6. CASE Crash \/ UNCHANGED vars
    BY <1>6 DEF Crash, vars, tables
  <1> QED
    BY <1>1, <1>2, <1>3, <1>4, <1>5, <1>6, NextCases

LEMMA PresentStep == IInv /\ [Next]_vars => PresentInv'
  <1> SUFFICES ASSUME IInv, [Next]_vars,
                      NEW r \in Requests, NEW a \in Accounts,
                      seen'[r][a] # NoRow \/ lock'[a] = r
               PROVE  account'[a] # NoRow
    BY DEF PresentInv
  <1> TypeOK /\ PresentInv
    BY DEF IInv
  <1> SUFFICES ASSUME seen[r][a] = NoRow, lock[a] # r
               PROVE  account'[a] # NoRow
    BY RowsStay DEF PresentInv
  <1>1. CASE UNCHANGED vars
    BY <1>1 DEF vars, local
  <1>2. ASSUME NEW q \in Requests, Select(q)
        PROVE  account'[a] # NoRow
    BY <1>2 DEF Select, TypeOK, tables
  <1>3. ASSUME NEW q \in Requests, NEW b \in Accounts, LockRow(q, b)
        PROVE  account'[a] # NoRow
    <2>1. account' = account /\ seen[q][b] # NoRow
      BY <1>3 DEF LockRow, NextRow, Found, tables
    <2>2. account[b] # NoRow
      BY <2>1 DEF PresentInv
    <2>3. CASE a = b /\ r = q
      BY <2>1, <2>2, <2>3
    <2>4. CASE ~(a = b /\ r = q)
      BY <1>3, <2>4 DEF LockRow, TypeOK
    <2> QED
      BY <2>3, <2>4
  <1>4. ASSUME NEW q \in Requests, Validate(q)
        PROVE  account'[a] # NoRow
    <2>1. CASE seen' = seen
      BY <1>4, <2>1 DEF Validate
    <2>2. ASSUME NEW rows \in Moved(seen[q], dto[q]), Accepts(q),
                 seen' = [seen EXCEPT ![q] = rows]
          PROVE  account'[a] # NoRow
      <3>1. seen[q][From(q)] # NoRow /\ seen[q][To(q)] # NoRow
        BY <2>2 DEF Accepts, Found
      <3>2. lock' = lock /\ account' = account
        BY <1>4 DEF Validate, tables
      <3>3. CASE r = q /\ a \in {From(q), To(q)}
        BY <3>1, <3>3
      <3>4. CASE r = q /\ a \notin {From(q), To(q)}
        <4>1. rows[a] = seen[q][a]
          BY <2>2, <3>4, MovedRows DEF Accepts
        <4> QED
          BY <2>2, <3>2, <3>4, <4>1 DEF TypeOK
      <3>5. CASE r # q
        BY <2>2, <3>2, <3>5 DEF TypeOK
      <3> QED
        BY <3>3, <3>4, <3>5
    <2> QED
      BY <1>4, <2>1, <2>2 DEF Validate
  <1>5. ASSUME NEW q \in Requests, ControlMove(q)
        PROVE  account'[a] # NoRow
    BY <1>5, ControlFrame
  <1>6. ASSUME NEW q \in Requests, SaveSender(q) \/ SaveReceiver(q) \/ Insert(q) \/ SaveEntry(q)
        PROVE  account'[a] # NoRow
    BY <1>6 DEF SaveSender, SaveReceiver, Insert, SaveEntry, local
  <1>7. ASSUME NEW q \in Requests, Applies(q) \/ Rollback(q)
        PROVE  account'[a] # NoRow
    BY <1>7, TransferAssumption
    DEF Applies, Commit, CommitAckLost, Rollback, EndTx, local
  <1>8. CASE Crash
    BY <1>8, TransferAssumption DEF Crash, local
  <1>9. CASE Beside
    BY <1>9 DEF Beside, OpenAccount, SetStatus, beside, local
  <1> QED
    BY <1>1, <1>2, <1>3, <1>4, <1>5, <1>6, <1>7, <1>8, <1>9, NextCases
\* What CheckedInv and Isolation say of one request.
HeldOK(q) ==
    /\ At(q, "lock") => \A a \in Holding(q) : seen[q][a] = account[a]
    /\ pc[q] \in Writing =>
          /\ lock[From(q)] = q /\ lock[To(q)] = q
          /\ account[From(q)].owner = dto[q].user
          /\ account[From(q)].status = "ACTIVE"
          /\ account[To(q)].status = "ACTIVE"
          /\ account[From(q)].balance >= dto[q].amount
          /\ seen[q][From(q)] \in Changed(account[From(q)], -dto[q].amount)
          /\ seen[q][To(q)] \in Changed(account[To(q)], dto[q].amount)

\* A step that leaves the locks of q and the rows under them alone leaves q
\* isolated.
LEMMA Bystander ==
    ASSUME IInv, NEW q \in Requests, dto' = dto, seen'[q] = seen[q], pc'[q] = pc[q],
           \A a \in Accounts : lock'[a] = q <=> lock[a] = q,
           \A a \in Accounts : lock[a] = q => account'[a] = account[a]
    PROVE  HeldOK(q)'
  <1>1. HeldOK(q)
    BY DEF IInv, CheckedInv, Isolation, HeldOK
  <1>2. From(q) \in Accounts /\ To(q) \in Accounts
    BY SchemaAssumption DEF IInv, TypeOK, Dto, From, To
  <1>3. ASSUME At(q, "lock")', NEW a \in Holding(q)'
        PROVE  seen'[q][a] = account'[a]
    BY <1>1, <1>3 DEF HeldOK, At, Holding
  <1>4. CASE pc[q] \in Writing
    <2>1. /\ account'[From(q)] = account[From(q)] /\ account'[To(q)] = account[To(q)]
          /\ lock'[From(q)] = q /\ lock'[To(q)] = q
      BY <1>1, <1>2, <1>4 DEF HeldOK
    <2>2. From(q)' = From(q) /\ To(q)' = To(q)
      BY DEF From, To
    <2> QED
      BY <1>1, <1>3, <1>4, <2>1, <2>2 DEF HeldOK, Writing, At
  <1> QED
    BY <1>3, <1>4 DEF HeldOK

\* Having locked its rows, a request computes with the committed ones.
LEMMA ValidateHeld ==
    ASSUME IInv, NEW r \in Requests, Validate(r)
    PROVE  HeldOK(r)'
  <1>1. dto[r] \in Dto /\ From(r) # To(r)
    BY SchemaAssumption DEF IInv, TypeOK, RowsInv, Validate, At
  <1>2. From(r) \in Accounts /\ To(r) \in Accounts
    BY <1>1 DEF Dto, From, To
  <1>3. CASE Goto(r, "rollback")
    BY <1>3 DEF Goto, HeldOK, At, Writing, IInv, TypeOK
  <1>4. ASSUME NEW rows \in Moved(seen[r], dto[r]), Accepts(r),
               seen' = [seen EXCEPT ![r] = rows], Goto(r, "saveSender")
        PROVE  HeldOK(r)'
    <2>1. lock[From(r)] = r /\ lock[To(r)] = r
      BY <1>2, <1>4 DEF Validate, Accepts, Holding
    <2>2. seen[r][From(r)] = account[From(r)] /\ seen[r][To(r)] = account[To(r)]
      BY <1>2, <2>1 DEF IInv, Isolation, Validate, Holding
    <2>3. /\ seen'[r][From(r)] \in Changed(seen[r][From(r)], -dto[r].amount)
          /\ seen'[r][To(r)] \in Changed(seen[r][To(r)], dto[r].amount)
      <3>1. seen'[r] = rows
        BY <1>4 DEF IInv, TypeOK
      <3> QED
        BY <1>1, <1>4, <3>1, MovedRows DEF Accepts, IInv
    <2>4. UNCHANGED <<account, lock, dto>> /\ pc'[r] = "saveSender"
      BY <1>4 DEF Validate, Goto, tables, IInv, TypeOK
    <2>5. /\ seen[r][From(r)].owner = dto[r].user
          /\ seen[r][From(r)].status = "ACTIVE"
          /\ seen[r][To(r)].status = "ACTIVE"
          /\ seen[r][From(r)].balance >= dto[r].amount
      BY <1>4 DEF Accepts
    <2> QED
      BY <2>1, <2>2, <2>3, <2>4, <2>5 DEF HeldOK, At, From, To
  <1> QED
    BY <1>3, <1>4 DEF Validate

LEMMA HeldStep == IInv /\ [Next]_vars => (CheckedInv /\ Isolation)'
  <1> SUFFICES ASSUME IInv, [Next]_vars, NEW q \in Requests
               PROVE  HeldOK(q)'
    BY DEF HeldOK, CheckedInv, Isolation, At, From, To, Holding
  <1> TypeOK /\ LockInv /\ PresentInv
    BY DEF IInv
  <1>0. HeldOK(q)
    BY DEF IInv, CheckedInv, Isolation, HeldOK
  <1>1. CASE UNCHANGED vars
    BY <1>1, Bystander DEF vars, tables, local
  <1>2. ASSUME NEW r \in Requests, ControlMove(r)
        PROVE  HeldOK(q)'
    <2>1. CASE r = q
      BY <1>2, <2>1, ControlFrame DEF HeldOK, At, Writing, InTx, TypeOK
    <2>2. CASE r # q
      BY <1>2, <2>2, ControlFrame, Bystander DEF TypeOK
    <2> QED
      BY <2>1, <2>2
  <1>3. ASSUME NEW r \in Requests, Select(r)
        PROVE  HeldOK(q)'
    <2>1. CASE r = q
      <3>1. pc'[q] = "lock" /\ lock' = lock
        BY <1>3, <2>1 DEF Select, Goto, TypeOK
      <3>2. \A a \in Accounts : lock[a] # q
        BY <1>3, <2>1, TransferAssumption DEF Select, At, LockInv, Writing
      <3> QED
        BY <3>1, <3>2 DEF HeldOK, Holding, At, Writing
    <2>2. CASE r # q
      BY <1>3, <2>2, Bystander DEF Select, Goto, tables, TypeOK
    <2> QED
      BY <2>1, <2>2
  <1>4. ASSUME NEW r \in Requests, NEW a \in Accounts, LockRow(r, a)
        PROVE  HeldOK(q)'
    <2>1. CASE r = q
      BY <1>0, <1>4, <2>1 DEF LockRow, Latest, HeldOK, Holding, At, Writing, TypeOK, tables
    <2>2. CASE r # q
      BY <1>4, <2>2, Bystander, TransferAssumption DEF LockRow, tables, TypeOK
    <2> QED
      BY <2>1, <2>2
  <1>5. ASSUME NEW r \in Requests, Validate(r)
        PROVE  HeldOK(q)'
    <2>1. CASE r = q
      BY <1>5, <2>1, ValidateHeld
    <2>2. CASE r # q
      BY <1>5, <2>2, Bystander DEF Validate, Goto, tables, TypeOK
    <2> QED
      BY <2>1, <2>2
  <1>6. ASSUME NEW r \in Requests, SaveSender(r) \/ SaveReceiver(r) \/ Insert(r) \/ SaveEntry(r)
        PROVE  HeldOK(q)'
    <2>1. /\ UNCHANGED <<account, lock, dto, seen>>
          /\ \E p : pc' = [pc EXCEPT ![r] = p]
          /\ pc[r] \in Writing /\ pc'[r] # "lock"
      BY <1>6 DEF SaveSender, SaveReceiver, Insert, SaveEntry, At, Goto, Writing, tables, local,
                  TypeOK
    <2>2. CASE r = q
      BY <1>0, <2>1, <2>2 DEF HeldOK, At, Writing, From, To
    <2>3. CASE r # q
      BY <2>1, <2>3, Bystander DEF TypeOK
    <2> QED
      BY <2>2, <2>3
  <1>7. ASSUME NEW r \in Requests, Applies(r)
        PROVE  HeldOK(q)'
    <2>0. /\ EndTx(r) /\ UNCHANGED <<dto, seen>>
          /\ \E p \in {"delSender", "rollback"} : pc' = [pc EXCEPT ![r] = p]
      BY <1>7 DEF Applies, Commit, CommitAckLost, Goto, local
    <2>1. CASE r = q
      <3>1. pc'[q] \in {"delSender", "rollback"}
        BY <2>0, <2>1 DEF TypeOK
      <3> QED
        BY <3>1 DEF HeldOK, At, Writing
    <2>2. CASE r # q
      <3>1. lock[From(r)] = r /\ lock[To(r)] = r
        BY <1>7, AppliesEffect DEF IInv, CheckedInv, Writing
      <3>2. \A a \in Accounts : lock[a] = q => account'[a] = account[a]
        BY <1>7, <2>2, <3>1, AppliesEffect
      <3>3. \A a \in Accounts : lock'[a] = q <=> lock[a] = q
        BY <2>0, <2>2, TransferAssumption DEF EndTx
      <3>4. pc'[q] = pc[q] /\ dto' = dto /\ seen' = seen
        BY <2>0, <2>2 DEF TypeOK
      <3> QED
        BY <3>2, <3>3, <3>4, Bystander
    <2> QED
      BY <2>1, <2>2
  <1>8. ASSUME NEW r \in Requests, Rollback(r)
        PROVE  HeldOK(q)'
    <2>1. CASE r = q
      BY <1>8, <2>1 DEF Rollback, Goto, HeldOK, At, Writing, TypeOK
    <2>2. CASE r # q
      BY <1>8, <2>2, Bystander, TransferAssumption DEF Rollback, EndTx, Goto, tables, local, TypeOK
    <2> QED
      BY <2>1, <2>2
  <1>9. CASE Crash
    BY <1>9 DEF Crash, InFlight, HeldOK, At, Writing, TypeOK
  <1>10. CASE Beside
    <2>1. UNCHANGED <<lock, dto, seen, pc>>
      BY <1>10 DEF Beside, OpenAccount, SetStatus, beside, local
    <2>2. \A a \in Accounts : lock[a] = q => account'[a] = account[a]
      <3>1. \A a \in Accounts : lock[a] = q => account[a] # NoRow /\ lock[a] # NoReq
        BY TransferAssumption DEF PresentInv
      <3> QED
        BY <1>10, <3>1 DEF Beside, OpenAccount, SetStatus, TypeOK
    <2> QED
      BY <2>1, <2>2, Bystander
  <1> QED
    BY <1>1, <1>2, <1>3, <1>4, <1>5, <1>6, <1>7, <1>8, <1>9, <1>10, NextCases
-----------------------------------------------------------------------------
(* What transactions write.                                                *)

\* What WorkInv says of one request.
WorkOK(q) ==
    /\ work[q].txns \subseteq {NewTxn(q)}
    /\ pc[q] \notin {"saveReceiver", "insert", "debit", "credit", "commit",
                     "rollback"} => work[q] = NoWork
    /\ At(q, "saveReceiver") => Wrote(q, {From(q)}, {}, {})
    /\ At(q, "insert") => Wrote(q, {From(q), To(q)}, {}, {})
    /\ At(q, "debit") => Wrote(q, {From(q), To(q)}, {NewTxn(q)}, {})
    /\ At(q, "credit") => Wrote(q, {From(q), To(q)}, {NewTxn(q)}, {DebitOf(NewTxn(q))})
    /\ At(q, "commit") => Wrote(q, {From(q), To(q)}, {NewTxn(q)}, Entries(NewTxn(q)))

\* A request's row depends on its body and its reference alone.
LEMMA SameTxn ==
    ASSUME NEW r, dto' = dto, ref'[r] = ref[r]
    PROVE  NewTxn(r)' = NewTxn(r)
  BY DEF NewTxn, From, To

LEMMA WorkStep == IInv /\ [Next]_vars => WorkInv'
  <1> SUFFICES ASSUME IInv, [Next]_vars, NEW q \in Requests
               PROVE  WorkOK(q)'
    BY DEF WorkOK, WorkInv, At, Wrote, From, To
  <1> TypeOK /\ WorkOK(q)
    BY DEF IInv, WorkInv, WorkOK
  <1> USE DEF At
  <1>0. ASSUME work'[q] = work[q], dto' = dto, ref'[q] = ref[q], pc'[q] = pc[q]
        PROVE  WorkOK(q)'
    BY <1>0, SameTxn DEF WorkOK, Wrote, From, To
  <1>1. CASE UNCHANGED vars
    BY <1>0, <1>1 DEF vars, local
  <1>2. ASSUME NEW r \in Requests, ControlMove(r)
        PROVE  WorkOK(q)'
    <2>1. CASE r = q
      <3>1. UNCHANGED <<work, dto, ref>> /\ NewTxn(q)' = NewTxn(q)
        BY <1>2, ControlFrame, SameTxn
      <3>2. CASE pc[q] \in InTx
        BY <1>2, <2>1, <3>1, <3>2, ControlFrame DEF WorkOK, Wrote
      <3>3. CASE pc[q] \notin InTx
        <4>1. work[q] = NoWork
          BY <1>2, <2>1, <3>3, ControlFrame DEF WorkOK, InTx
        <4>2. pc'[q] \notin {"saveReceiver", "insert", "debit", "credit", "commit"}
          BY <1>2, <2>1, <3>3, ControlFrame DEF InTx
        <4> QED
          BY <3>1, <4>1, <4>2 DEF WorkOK, NoWork
      <3> QED
        BY <3>2, <3>3
    <2>2. CASE r # q
      BY <1>0, <1>2, <2>2, ControlFrame DEF TypeOK
    <2> QED
      BY <2>1, <2>2
  <1>3. ASSUME NEW r \in Requests, r # q,
               \/ Select(r) \/ (\E a \in Accounts : LockRow(r, a)) \/ Validate(r)
               \/ SaveSender(r) \/ SaveReceiver(r) \/ Insert(r) \/ SaveEntry(r)
               \/ Applies(r) \/ Rollback(r)
        PROVE  WorkOK(q)'
    <2>1. /\ work'[q] = work[q] /\ dto' = dto /\ ref'[q] = ref[q] /\ pc'[q] = pc[q]
      BY <1>3 DEF Select, LockRow, Validate, SaveSender, SaveReceiver, Insert, SaveEntry,
                  Applies, Commit, CommitAckLost, Rollback, EndTx, Goto, local, TypeOK
    <2> QED
      BY <1>0, <2>1
  <1>4. CASE Select(q) \/ (\E a \in Accounts : LockRow(q, a)) \/ Validate(q)
    <2>1. /\ UNCHANGED <<work, dto, ref>> /\ work[q] = NoWork
          /\ pc'[q] \in {"lock", "saveSender", "rollback"}
      BY <1>4 DEF Select, LockRow, Validate, Goto, WorkOK, TypeOK
    <2> QED
      BY <2>1 DEF WorkOK, NoWork
  <1>5. CASE SaveSender(q)
    <2>1. work[q] = NoWork /\ dto' = dto /\ pc'[q] = "saveReceiver"
      BY <1>5 DEF SaveSender, Goto, WorkOK, TypeOK, local
    <2>2. work'[q] = [work[q] EXCEPT !.saved = @ \cup {From(q)}]
      BY <1>5 DEF SaveSender, TypeOK
    <2>3. work'[q] = [saved |-> {From(q)}, txns |-> {}, entries |-> {}]
      BY <2>1, <2>2 DEF NoWork
    <2> QED
      BY <2>1, <2>3 DEF WorkOK, Wrote, From
  <1>6. CASE SaveReceiver(q)
    <2>1. /\ work[q] = [saved |-> {From(q)}, txns |-> {}, entries |-> {}]
          /\ dto' = dto /\ pc'[q] = "insert"
      BY <1>6 DEF SaveReceiver, Goto, WorkOK, Wrote, TypeOK
    <2>2. work'[q] = [work[q] EXCEPT !.saved = @ \cup {To(q)}]
      BY <1>6 DEF SaveReceiver, TypeOK
    <2>3. work'[q] = [saved |-> {From(q), To(q)}, txns |-> {}, entries |-> {}]
      BY <2>1, <2>2
    <2> QED
      BY <2>1, <2>3 DEF WorkOK, Wrote, From, To
  <1>10. CASE Insert(q)
    <2>1. /\ work[q] = [saved |-> {From(q), To(q)}, txns |-> {}, entries |-> {}]
          /\ UNCHANGED <<dto, ref>> /\ NewTxn(q)' = NewTxn(q)
      BY <1>10, SameTxn DEF Insert, WorkOK, Wrote, local
    <2>2. CASE work' = work /\ Goto(q, "rollback")
      <3>1. pc'[q] = "rollback"
        BY <2>2 DEF Goto, TypeOK
      <3> QED
        BY <2>1, <2>2, <3>1 DEF WorkOK
    <2>3. CASE work' = [work EXCEPT ![q].txns = {NewTxn(q)}] /\ Goto(q, "debit")
      <3>1. pc'[q] = "debit" /\ work'[q] = [work[q] EXCEPT !.txns = {NewTxn(q)}]
        BY <2>3 DEF Goto, TypeOK
      <3>2. work'[q] = [saved |-> {From(q), To(q)}, txns |-> {NewTxn(q)}, entries |-> {}]
        BY <2>1, <3>1
      <3> QED
        BY <2>1, <3>1, <3>2 DEF WorkOK, Wrote, From, To
    <2> QED
      BY <1>10, <2>2, <2>3 DEF Insert
  <1>11. CASE SaveEntry(q)
    <2>1. UNCHANGED <<dto, ref>> /\ NewTxn(q)' = NewTxn(q)
      BY <1>11, SameTxn DEF SaveEntry, local
    <2>2. CASE /\ pc[q] = "debit" /\ Goto(q, "credit")
               /\ work' = [work EXCEPT ![q].entries = @ \cup {DebitOf(NewTxn(q))}]
      <3>1. work[q] = [saved |-> {From(q), To(q)}, txns |-> {NewTxn(q)}, entries |-> {}]
        BY <2>2 DEF WorkOK, Wrote
      <3>2. /\ pc'[q] = "credit"
            /\ work'[q] = [work[q] EXCEPT !.entries = @ \cup {DebitOf(NewTxn(q))}]
        BY <2>2 DEF Goto, TypeOK
      <3>3. work'[q] = [saved |-> {From(q), To(q)}, txns |-> {NewTxn(q)},
                        entries |-> {DebitOf(NewTxn(q))}]
        BY <3>1, <3>2
      <3> QED
        BY <2>1, <3>2, <3>3 DEF WorkOK, Wrote, From, To
    <2>3. CASE /\ pc[q] = "credit" /\ Goto(q, "commit")
               /\ work' = [work EXCEPT ![q].entries = @ \cup {CreditOf(NewTxn(q))}]
      <3>1. work[q] = [saved |-> {From(q), To(q)}, txns |-> {NewTxn(q)},
                       entries |-> {DebitOf(NewTxn(q))}]
        BY <2>3 DEF WorkOK, Wrote
      <3>2. /\ pc'[q] = "commit"
            /\ work'[q] = [work[q] EXCEPT !.entries = @ \cup {CreditOf(NewTxn(q))}]
        BY <2>3 DEF Goto, TypeOK
      <3>3. work'[q] = [saved |-> {From(q), To(q)}, txns |-> {NewTxn(q)},
                        entries |-> Entries(NewTxn(q))]
        <4>1. {DebitOf(NewTxn(q))} \cup {CreditOf(NewTxn(q))} = Entries(NewTxn(q))
          BY DEF Entries
        <4>2. /\ work[q].saved = {From(q), To(q)} /\ work[q].txns = {NewTxn(q)}
              /\ work[q].entries = {DebitOf(NewTxn(q))}
          BY <3>1
        <4>3. work[q] \in Work
          BY DEF TypeOK
        <4>4. work'[q] = [saved |-> work[q].saved, txns |-> work[q].txns,
                          entries |-> work[q].entries \cup {CreditOf(NewTxn(q))}]
          BY <3>2, <4>3 DEF Work
        <4> QED
          BY <4>1, <4>2, <4>4
      <3>4. Entries(NewTxn(q))' = Entries(NewTxn(q))
        BY <2>1 DEF Entries, DebitOf, CreditOf, Entry
      <3> QED
        BY <2>1, <3>2, <3>3, <3>4 DEF WorkOK, Wrote, From, To
    <2> QED
      BY <1>11, <2>2, <2>3 DEF SaveEntry
  <1>7. CASE Applies(q) \/ Rollback(q)
    <2>1. work'[q] = NoWork /\ pc'[q] \in {"delSender", "rollback", "release"}
      BY <1>7 DEF Applies, Commit, CommitAckLost, Rollback, EndTx, Goto, TypeOK
    <2> QED
      BY <2>1 DEF WorkOK, NoWork
  <1>8. CASE Crash
    <2>1. work'[q] = NoWork /\ pc'[q] \in {"idle", "done"}
      BY <1>8 DEF Crash, InFlight, TypeOK
    <2> QED
      BY <2>1 DEF WorkOK, NoWork
  <1>9. CASE Beside
    BY <1>0, <1>9 DEF Beside, OpenAccount, SetStatus, beside, local
  <1> QED
    BY <1>1, <1>2, <1>3, <1>4, <1>5, <1>6, <1>7, <1>8, <1>9, <1>10, <1>11, NextCases

-----------------------------------------------------------------------------
(* Uniqueness.                                                             *)

LEMMA UniqueStep == IInv /\ [Next]_vars => UniqueInv'
  <1> SUFFICES ASSUME IInv, [Next]_vars PROVE UniqueInv'
    OBVIOUS
  <1> TypeOK /\ WorkInv /\ UniqueInv
    BY DEF IInv
  <1> USE DEF At
  <1>a. \A t \in transactions : t.by \in Requests
    BY DEF TypeOK, TransactionRow
  <1>b. \A q \in Requests : \A t \in work[q].txns : t = NewTxn(q)
    BY DEF WorkInv
  \* A step that adds no row and leaves committed transfers where they are.
  <1>0. ASSUME transactions' = transactions, dto' = dto,
               \A q \in Requests : work'[q].txns \subseteq work[q].txns,
               \A q \in Requests : pc[q] \notin BeforeCommit =>
                   pc'[q] \notin BeforeCommit /\ ref'[q] = ref[q]
        PROVE  UniqueInv'
    <2>1. \A t \in transactions' : t = NewTxn(t.by)' /\ pc'[t.by] \notin BeforeCommit
      <3> SUFFICES ASSUME NEW t \in transactions
                   PROVE  t = NewTxn(t.by)' /\ pc'[t.by] \notin BeforeCommit
        BY <1>0
      <3>1. t.by \in Requests /\ t = NewTxn(t.by) /\ pc[t.by] \notin BeforeCommit
        BY <1>a DEF UniqueInv
      <3> QED
        BY <1>0, <3>1, SameTxn
    <2> QED
      BY <1>0, <2>1 DEF UniqueInv
  <1>1. CASE UNCHANGED vars
    BY <1>0, <1>1 DEF vars, tables, local
  <1>2. ASSUME NEW r \in Requests, ControlMove(r)
        PROVE  UniqueInv'
    BY <1>0, <1>2, ControlFrame DEF TypeOK
  <1>3. ASSUME NEW r \in Requests,
               \/ Select(r) \/ (\E a \in Accounts : LockRow(r, a)) \/ Validate(r)
               \/ SaveSender(r) \/ SaveReceiver(r) \/ SaveEntry(r)
        PROVE  UniqueInv'
    <2>1. /\ transactions' = transactions /\ dto' = dto
          /\ \A q \in Requests : work'[q].txns = work[q].txns
          /\ \A q \in Requests \ {r} : pc'[q] = pc[q] /\ ref'[q] = ref[q]
          /\ pc[r] \in BeforeCommit
      BY <1>3 DEF Select, LockRow, Validate, SaveSender, SaveReceiver, SaveEntry, Goto, tables,
                  local, TypeOK, Work, BeforeCommit, InTx
    <2> QED
      BY <1>0, <2>1
  <1>4. ASSUME NEW r \in Requests, Insert(r)
        PROVE  UniqueInv'
    <2>1. CASE work' = work
      BY <1>0, <1>4, <2>1 DEF Insert, Goto, tables, local, TypeOK, BeforeCommit, InTx
    <2>2. CASE /\ \A t \in transactions : ~Clashes(NewTxn(r), t)
               /\ work' = [work EXCEPT ![r].txns = {NewTxn(r)}]
      <3>1. UNCHANGED <<transactions, dto, ref>> /\ pc[r] \in BeforeCommit
        BY <1>4 DEF Insert, tables, local, BeforeCommit, InTx
      <3>2. \A q \in Requests \ {r} : pc'[q] = pc[q] /\ work'[q] = work[q]
        BY <1>4, <2>2 DEF Insert, Goto, TypeOK
      <3>3. \A t \in transactions : t = NewTxn(t.by)' /\ pc'[t.by] \notin BeforeCommit
        BY <1>a, <3>1, <3>2, SameTxn DEF UniqueInv
      <3>4. work'[r].txns = {NewTxn(r)}
        BY <2>2 DEF TypeOK, Work
      <3>5. \A q \in Requests \ {r} : \A t \in work[q].txns :
                ~Clashes(NewTxn(r), t) /\ ~Clashes(t, NewTxn(r))
        BY <1>4 DEF Insert, Awaited, Clashes
      <3> QED
        BY <2>2, <3>1, <3>2, <3>3, <3>4, <3>5 DEF UniqueInv
    <2> QED
      BY <1>4, <2>1, <2>2 DEF Insert
  <1>5. ASSUME NEW r \in Requests, Applies(r)
        PROVE  UniqueInv'
    <2>0. /\ transactions' = transactions \cup {NewTxn(r)} /\ UNCHANGED <<dto, ref>>
          /\ pc[r] = "commit"
      BY <1>5, AppliesEffect
    <2>1. /\ transactions' = transactions \cup {NewTxn(r)} /\ UNCHANGED <<dto, ref>>
          /\ work[r].txns = {NewTxn(r)}
      <3>1. Wrote(r, {From(r), To(r)}, {NewTxn(r)}, Entries(NewTxn(r)))
        BY <2>0 DEF WorkInv
      <3> QED
        BY <2>0, <3>1 DEF Wrote
    <2>2. /\ pc[r] = "commit" /\ work' = [work EXCEPT ![r] = NoWork]
          /\ \E p \in {"delSender", "rollback"} : pc' = [pc EXCEPT ![r] = p]
      BY <1>5 DEF Applies, Commit, CommitAckLost, Goto, EndTx
    <2>3. /\ \A q \in Requests \ {r} : pc'[q] = pc[q] /\ work'[q] = work[q]
          /\ work'[r].txns = {} /\ pc'[r] \notin BeforeCommit
      BY <2>2 DEF TypeOK, NoWork, BeforeCommit, InTx
    <2>4. NewTxn(r).by = r
      BY DEF NewTxn
    <2>5. \A t \in transactions' : t = NewTxn(t.by)' /\ pc'[t.by] \notin BeforeCommit
      <3> SUFFICES ASSUME NEW t \in transactions'
                   PROVE  t = NewTxn(t.by)' /\ pc'[t.by] \notin BeforeCommit
        OBVIOUS
      <3>1. CASE t \in transactions
        <4>1. t.by \in Requests /\ t = NewTxn(t.by) /\ pc[t.by] \notin BeforeCommit
          BY <1>a, <3>1 DEF UniqueInv
        <4>2. pc'[t.by] \notin BeforeCommit
          BY <2>3, <4>1
        <4> QED
          BY <2>1, <4>1, <4>2, SameTxn
      <3>2. CASE t = NewTxn(r)
        BY <2>1, <2>3, <2>4, <3>2, SameTxn
      <3> QED
        BY <2>1, <3>1, <3>2
    <2>6. \A t \in transactions : ~Clashes(NewTxn(r), t) /\ ~Clashes(t, NewTxn(r))
      BY <2>1 DEF UniqueInv, Clashes
    <2>7. \A t, u \in transactions' : t # u => ~Clashes(t, u)
      BY <2>1, <2>6 DEF UniqueInv
    <2>8. \A q \in Requests : \A t \in work'[q].txns, u \in transactions' : ~Clashes(t, u)
      BY <2>1, <2>3 DEF UniqueInv
    <2> QED
      BY <2>3, <2>5, <2>7, <2>8 DEF UniqueInv
  <1>6. ASSUME NEW r \in Requests, Rollback(r)
        PROVE  UniqueInv'
    <2>1. /\ UNCHANGED <<transactions, dto, ref>>
          /\ work' = [work EXCEPT ![r] = NoWork] /\ pc' = [pc EXCEPT ![r] = "release"]
      BY <1>6 DEF Rollback, EndTx, Goto, tables, local
    <2>2. \A q \in Requests : work'[q].txns \subseteq work[q].txns
      BY <2>1 DEF TypeOK, NoWork
    <2>3. \A q \in Requests : pc[q] \notin BeforeCommit => pc'[q] \notin BeforeCommit
      BY <2>1 DEF TypeOK, BeforeCommit, InTx
    <2> QED
      BY <1>0, <2>1, <2>2, <2>3
  <1>7. CASE Crash
    BY <1>0, <1>7 DEF Crash, InFlight, NoWork, TypeOK, BeforeCommit, InTx, tables, local
  <1>8. CASE Beside
    BY <1>0, <1>8 DEF Beside, OpenAccount, SetStatus, beside, local
  <1> QED
    BY <1>1, <1>2, <1>3, <1>4, <1>5, <1>6, <1>7, <1>8, NextCases
-----------------------------------------------------------------------------
(* Replies.                                                                *)

\* Committed transfers stay committed.
LEMMA TransactionsGrow ==
    ASSUME IInv, [Next]_vars
    PROVE  /\ transactions \subseteq transactions'
           /\ dto' = dto
           /\ \A r \in Requests : NewTxn(r) \in transactions => NewTxn(r)' \in transactions'
  <1> TypeOK /\ UniqueInv
    BY DEF IInv
  <1>1. transactions \subseteq transactions' /\ dto' = dto
    <2>1. CASE UNCHANGED vars
      BY <2>1 DEF vars, tables, local
    <2>2. ASSUME NEW r \in Requests, ControlMove(r)
          PROVE  transactions' = transactions /\ dto' = dto
      BY <2>2, ControlFrame
    <2>3. ASSUME NEW r \in Requests,
                 \/ Select(r) \/ (\E a \in Accounts : LockRow(r, a)) \/ Validate(r)
                 \/ SaveSender(r) \/ SaveReceiver(r) \/ Insert(r) \/ SaveEntry(r)
                 \/ Rollback(r)
          PROVE  transactions' = transactions /\ dto' = dto
      BY <2>3 DEF Select, LockRow, Validate, SaveSender, SaveReceiver, Insert, SaveEntry,
                  Rollback, tables, local
    <2>4. ASSUME NEW r \in Requests, Applies(r)
          PROVE  transactions \subseteq transactions' /\ dto' = dto
      BY <2>4 DEF Applies, Commit, CommitAckLost, WriteBack, local
    <2>5. CASE Crash \/ Beside
      BY <2>5 DEF Crash, Beside, OpenAccount, SetStatus, beside, tables, local
    <2> QED
      BY <2>1, <2>2, <2>3, <2>4, <2>5, NextCases
  <1>2. ASSUME NEW r \in Requests, NewTxn(r) \in transactions
        PROVE  ref'[r] = ref[r]
    <2>1. pc[r] # "saveReceiver"
      BY <1>2 DEF UniqueInv, NewTxn, BeforeCommit, InTx
    <2>2. ASSUME NEW q \in Requests, SaveReceiver(q)
          PROVE  ref'[r] = ref[r]
      BY <2>1, <2>2 DEF SaveReceiver, At, TypeOK
    <2>3. ASSUME NEW q \in Requests,
                 \/ Select(q) \/ (\E a \in Accounts : LockRow(q, a)) \/ Validate(q)
                 \/ SaveSender(q) \/ Insert(q) \/ SaveEntry(q)
                 \/ Applies(q) \/ Rollback(q)
          PROVE  ref' = ref
      BY <2>3 DEF Select, LockRow, Validate, SaveSender, Insert, SaveEntry, Rollback,
                  Applies, Commit, CommitAckLost, local
    <2>4. ASSUME NEW q \in Requests, ControlMove(q)
          PROVE  ref' = ref
      BY <2>4, ControlFrame
    <2>5. CASE Crash \/ Beside \/ UNCHANGED vars
      BY <2>5 DEF Crash, Beside, OpenAccount, SetStatus, beside, vars, local
    <2> QED
      BY <2>2, <2>3, <2>4, <2>5, NextCases
  <1> QED
    BY <1>1, <1>2, SameTxn

\* What ReplyInv says of one request.
ReplyOK(r) ==
    /\ pc[r] \in BeforeCommit => reply[r] = "none"
    /\ At(r, "rollback") => reply[r] \in {"rejected", "failed"}
    /\ pc[r] \in Committed => reply[r] = "none" /\ NewTxn(r) \in transactions
    /\ At(r, "release") => \/ reply[r] \in {"rejected", "failed"}
                           \/ reply[r] = "none" /\ NewTxn(r) \in transactions
    /\ reply[r] = "success" => NewTxn(r) \in transactions
    /\ reply[r] = "replay" => \E t \in transactions : t.key = dto[r].key
    /\ reply[r] = "rejected" => \A t \in transactions : t.by # r
    /\ r \in published \cup audited => NewTxn(r) \in transactions

LEMMA ReplyStep == IInv /\ [Next]_vars => ReplyInv'
  <1> SUFFICES ASSUME IInv, [Next]_vars
               PROVE  ReplyInv'
    OBVIOUS
  <1>c. published' \subseteq Requests /\ audited' \subseteq Requests
    <2>1. TypeOK'
      BY TypeStep DEF IInv
    <2> QED
      BY <2>1 DEF TypeOK
  <1> SUFFICES ASSUME NEW q \in Requests
               PROVE  ReplyOK(q)'
    BY <1>c DEF ReplyOK, ReplyInv, At
  <1> TypeOK /\ UniqueInv /\ ReplyOK(q)
    BY DEF IInv, ReplyInv, ReplyOK
  <1> USE DEF At, Goto, Answer
  <1>a. /\ transactions \subseteq transactions' /\ dto' = dto
        /\ NewTxn(q) \in transactions => NewTxn(q)' \in transactions'
    BY TransactionsGrow
  <1>b. \A t \in transactions : t.by = q => pc[q] \notin BeforeCommit
    BY DEF UniqueInv
  <1>0. ASSUME reply'[q] = reply[q], pc'[q] = pc[q],
               q \in published' \cup audited' => q \in published \cup audited,
               \A t \in transactions' : t.by = q => t \in transactions
        PROVE  ReplyOK(q)'
    BY <1>0, <1>a DEF ReplyOK
  <1>1. CASE UNCHANGED vars
    BY <1>0, <1>1 DEF vars, tables, effects
  <1>2. ASSUME NEW r \in Requests, r # q, ~Applies(r),
               \/ ControlMove(r) \/ Select(r) \/ (\E a \in Accounts : LockRow(r, a))
               \/ Validate(r) \/ SaveSender(r) \/ SaveReceiver(r) \/ Insert(r)
               \/ SaveEntry(r) \/ Rollback(r)
        PROVE  ReplyOK(q)'
    <2>1. CASE ControlMove(r)
      <3>1. transactions' = transactions /\ pc'[q] = pc[q]
        BY <1>2, <2>1, ControlFrame DEF TypeOK
      <3>2. /\ reply'[q] = reply[q]
            /\ q \in published' \cup audited' => q \in published \cup audited
        BY <1>2, <2>1 DEF ControlMove, Submit, RejectSelfTransfer, FindKey, Connect, Begin,
             DelAccount, Release, FindOwner, Publish, Audit, LookupFails, BeginFails,
             StatementFails, DelFails, PublishFails, AuditFails, effects, TypeOK
      <3> QED
        BY <1>0, <3>1, <3>2
    <2>2. CASE ~ControlMove(r)
      <3>1. /\ transactions' = transactions /\ UNCHANGED <<published, audited>>
            /\ pc'[q] = pc[q] /\ reply'[q] = reply[q]
        BY <1>2, <2>2 DEF Select, LockRow, Validate, SaveSender, SaveReceiver, Insert,
                          SaveEntry, Rollback, tables, effects, TypeOK
      <3> QED
        BY <1>0, <3>1
    <2> QED
      BY <2>1, <2>2
  <1>3. ASSUME NEW r \in Requests, r # q, Applies(r)
        PROVE  ReplyOK(q)'
    <2>1. transactions' = transactions \cup {NewTxn(r)} /\ NewTxn(r).by = r
      BY <1>3, AppliesEffect DEF NewTxn
    <2>2. UNCHANGED <<published, audited>> /\ pc'[q] = pc[q] /\ reply'[q] = reply[q]
      BY <1>3 DEF Applies, Commit, CommitAckLost, effects, TypeOK
    <2> QED
      BY <1>0, <1>3, <2>1, <2>2
  <1>4. CASE \/ Submit(q) \/ RejectSelfTransfer(q) \/ FindKey(q) \/ Connect(q) \/ Begin(q)
    <2>1. UNCHANGED <<transactions, published, audited>> /\ pc[q] \in BeforeCommit
      BY <1>4 DEF Submit, RejectSelfTransfer, FindKey, Connect, Begin, BeforeCommit, InTx,
                  tables, effects
    <2>2. \/ pc'[q] \in BeforeCommit /\ reply'[q] = reply[q]
          \/ pc'[q] = "done" /\ reply'[q] = "rejected"
          \/ pc'[q] = "done" /\ reply'[q] = "replay" /\ \E t \in transactions : t.key = dto[q].key
      BY <1>4 DEF Submit, RejectSelfTransfer, FindKey, Connect, Begin, BeforeCommit, InTx, TypeOK
    <2>3. \A t \in transactions : t.by # q
      BY <1>b, <2>1
    <2> QED
      BY <1>a, <2>1, <2>2, <2>3 DEF ReplyOK, BeforeCommit, InTx, Committed
  <1>5. CASE DelAccount(q) \/ Release(q) \/ FindOwner(q)
    <2>1. /\ UNCHANGED <<transactions, published, audited, reply>>
          /\ pc[q] \in Committed \cup {"release"}
          /\ \/ pc'[q] \in Committed \cup {"release"} /\ reply[q] = "none"
             \/ pc'[q] = "done"
      BY <1>5 DEF DelAccount, Release, AfterRelease, FindOwner, tables, effects,
                  Committed, ReplyOK, TypeOK
    <2> QED
      BY <1>a, <2>1 DEF ReplyOK, BeforeCommit, InTx, Committed
  <1>6. CASE Publish(q) \/ PublishFails(q) \/ Audit(q) \/ AuditFails(q)
    <2>1. /\ UNCHANGED transactions /\ pc[q] \in Committed
          /\ \/ pc'[q] = "audit" /\ reply' = reply
             \/ pc'[q] = "done" /\ reply'[q] = "success"
      BY <1>6 DEF Publish, PublishFails, Audit, AuditFails, tables, Committed, TypeOK
    <2> QED
      BY <1>a, <2>1 DEF ReplyOK, BeforeCommit, InTx, Committed
  <1>7. CASE LookupFails(q) \/ BeginFails(q) \/ StatementFails(q) \/ DelFails(q)
    <2>1. /\ UNCHANGED <<transactions, published, audited>> /\ reply'[q] = "failed"
          /\ pc'[q] \in {"done", "rollback", "release"}
      BY <1>7 DEF LookupFails, BeginFails, StatementFails, DelFails, tables, effects, TypeOK
    <2> QED
      BY <1>a, <2>1 DEF ReplyOK, BeforeCommit, InTx, Committed
  <1>8. CASE \/ Select(q) \/ (\E a \in Accounts : LockRow(q, a)) \/ Validate(q)
             \/ SaveSender(q) \/ SaveReceiver(q) \/ Insert(q) \/ SaveEntry(q)
    <2>1. UNCHANGED <<transactions, published, audited>> /\ pc[q] \in BeforeCommit
      BY <1>8 DEF Select, LockRow, Validate, SaveSender, SaveReceiver, Insert, SaveEntry,
                  tables, effects, BeforeCommit, InTx
    <2>2. \/ pc'[q] \in BeforeCommit /\ reply'[q] = reply[q]
          \/ pc'[q] = "rollback" /\ reply'[q] \in {"rejected", "failed"}
      BY <1>8 DEF Select, LockRow, Validate, SaveSender, SaveReceiver, Insert, SaveEntry,
                  BeforeCommit, InTx, TypeOK
    <2>3. \A t \in transactions : t.by # q
      BY <1>b, <2>1
    <2> QED
      BY <1>a, <2>1, <2>2, <2>3 DEF ReplyOK, BeforeCommit, InTx, Committed
  <1>9. CASE Applies(q)
    <2>1. /\ transactions' = transactions \cup {NewTxn(q)} /\ ref' = ref
          /\ pc[q] = "commit"
      BY <1>9, AppliesEffect
    <2>2. NewTxn(q)' \in transactions'
      BY <1>a, <2>1, SameTxn
    <2>3. \/ pc'[q] = "delSender" /\ reply'[q] = reply[q]
          \/ pc'[q] = "rollback" /\ reply'[q] = "failed"
      BY <1>9 DEF Applies, Commit, CommitAckLost, TypeOK
    <2>4. UNCHANGED <<published, audited>> /\ reply[q] = "none"
      BY <1>9, <2>1 DEF Applies, Commit, CommitAckLost, effects, ReplyOK, BeforeCommit, InTx
    <2> QED
      BY <2>2, <2>3, <2>4 DEF ReplyOK, BeforeCommit, InTx, Committed
  <1>10. CASE Rollback(q)
    <2>1. /\ UNCHANGED <<transactions, published, audited>>
          /\ pc[q] = "rollback" /\ pc'[q] = "release"
          /\ reply'[q] \in {reply[q], "failed"}
      BY <1>10 DEF Rollback, tables, effects, TypeOK
    <2> QED
      BY <1>a, <2>1 DEF ReplyOK, BeforeCommit, InTx, Committed
  <1>11. CASE Crash
    <2>1. /\ UNCHANGED <<transactions, published, audited>>
          /\ \/ pc'[q] = "done" /\ reply'[q] = "lost"
             \/ pc'[q] = pc[q] /\ reply'[q] = reply[q]
      BY <1>11 DEF Crash, tables, effects, TypeOK
    <2> QED
      BY <1>0, <1>a, <2>1 DEF ReplyOK, BeforeCommit, InTx, Committed
  <1>12. CASE Beside
    BY <1>0, <1>12 DEF Beside, OpenAccount, SetStatus, beside, effects
  <1> QED
    BY <1>1, <1>2, <1>3, <1>4, <1>5, <1>6, <1>7, <1>8, <1>9, <1>10, <1>11, <1>12, NextCases
    DEF ControlMove
-----------------------------------------------------------------------------
(* The invariant, and what follows from it.                                *)

\* Only a commit changes the two tables of postings, or a balance.
LEMMA OnlyCommits ==
    ASSUME IInv, [Next]_vars, \A r \in Requests : ~Applies(r)
    PROVE  /\ UNCHANGED <<transactions, ledger>>
           /\ account' = account \/ Beside
  <1>1. CASE UNCHANGED vars
    BY <1>1 DEF vars, tables
  <1>2. ASSUME NEW r \in Requests, ControlMove(r)
        PROVE  UNCHANGED <<account, transactions, ledger>>
    BY <1>2, ControlFrame DEF IInv
  <1>3. ASSUME NEW r \in Requests,
               \/ Select(r) \/ (\E a \in Accounts : LockRow(r, a)) \/ Validate(r)
               \/ SaveSender(r) \/ SaveReceiver(r) \/ Insert(r) \/ SaveEntry(r) \/ Rollback(r)
        PROVE  UNCHANGED <<account, transactions, ledger>>
    BY <1>3 DEF Select, LockRow, Validate, SaveSender, SaveReceiver, Insert, SaveEntry,
                Rollback, tables
  <1>4. CASE Crash
    BY <1>4 DEF Crash, tables
  <1>5. CASE Beside
    BY <1>5 DEF Beside, OpenAccount, SetStatus, beside
  <1> QED
    BY <1>1, <1>2, <1>3, <1>4, <1>5, NextCases

LEMMA DoubleEntryStep == IInv /\ [Next]_vars => DoubleEntry'
  <1> SUFFICES ASSUME IInv, [Next]_vars PROVE DoubleEntry'
    OBVIOUS
  <1>1. ASSUME NEW r \in Requests, Applies(r)
        PROVE  DoubleEntry'
    <2>1. /\ transactions' = transactions \cup {NewTxn(r)}
          /\ ledger' = ledger \cup Entries(NewTxn(r))
      BY <1>1, AppliesEffect
    <2> QED
      BY <2>1 DEF IInv, DoubleEntry
  <1>2. CASE \A r \in Requests : ~Applies(r)
    BY <1>2, OnlyCommits DEF IInv, DoubleEntry
  <1> QED
    BY <1>1, <1>2

LEMMA InitIInv == Init => IInv
  <1> SUFFICES ASSUME Init PROVE IInv
    OBVIOUS
  <1>1. TypeOK
    BY InitTypeOK
  <1>2. RowsInv /\ PresentInv /\ LockInv
    BY TransferAssumption DEF Init, RowsInv, PresentInv, LockInv
  <1>3. CheckedInv /\ Isolation
    BY DEF Init, CheckedInv, Isolation, Writing, At
  <1>4. WorkInv
    BY DEF Init, WorkInv, NoWork, At
  <1>5. UniqueInv /\ DoubleEntry
    BY DEF Init, UniqueInv, DoubleEntry, NoWork
  <1>6. ReplyInv
    BY DEF Init, ReplyInv, Committed, At
  <1> QED
    BY <1>1, <1>2, <1>3, <1>4, <1>5, <1>6 DEF IInv

\* The invariant is inductive.
LEMMA IInvStep == IInv /\ [Next]_vars => IInv'
  BY TypeStep, RowsStep, PresentStep, LockStep, HeldStep, WorkStep, UniqueStep, ReplyStep,
     DoubleEntryStep DEF IInv

\* It holds in every reachable state.
THEOREM Invariance == Spec => []IInv
  BY InitIInv, IInvStep, PTL DEF Spec

\* Isolation, for every instance: no update of transfer() is lost and no check
\* of it is stale.
THEOREM NoLostUpdate == Spec => []Isolation
  <1>1. IInv => Isolation
    BY DEF IInv
  <1> QED
    BY <1>1, Invariance, PTL

\* NoDuplicateDebit, for every instance: the check of the idempotency key and
\* the insert are far apart, and still no key debits twice.
THEOREM KeysDebitOnce == Spec => []NoDuplicateDebit
  <1>1. IInv => NoDuplicateDebit
    BY DEF IInv, UniqueInv, NoDuplicateDebit, Clashes
  <1> QED
    BY <1>1, Invariance, PTL

\* DoubleEntry, for every instance: the ledger is the two entries of every
\* transfer and nothing else.
THEOREM LedgerComplete == Spec => []DoubleEntry
  <1>1. IInv => DoubleEntry
    BY DEF IInv
  <1> QED
    BY <1>1, Invariance, PTL

\* RepliesHonest, for every instance: no client is told of, and no event or
\* audit row reports, a transfer that the database does not hold.
THEOREM RepliesTrue == Spec => []RepliesHonest
  <1>1. IInv => RepliesHonest
    <2> SUFFICES ASSUME IInv PROVE RepliesHonest
      OBVIOUS
    <2>1. \A r \in Requests : NewTxn(r).by = r /\ NewTxn(r).reference = ref[r]
      BY DEF NewTxn
    <2>2. \A r \in Requests :
            /\ reply[r] = "success" => NewTxn(r) \in transactions
            /\ reply[r] = "replay" => \E t \in transactions : t.key = dto[r].key
            /\ reply[r] = "rejected" => \A t \in transactions : t.by # r
      BY DEF IInv, ReplyInv
    <2>3. \A r \in published \cup audited : r \in Requests /\ NewTxn(r) \in transactions
      BY DEF IInv, ReplyInv, TypeOK
    <2> QED
      BY <2>1, <2>2, <2>3 DEF RepliesHonest
  <1> QED
    BY <1>1, Invariance, PTL

\* CommitAuthorised, for every instance: ownership and both statuses hold at
\* the moment of the commit.
THEOREM Authorised == Spec => CommitAuthorised
  <1> DEFINE Permit ==
        \A t \in transactions' \ transactions :
            /\ account[t.fromAccount].owner = dto[t.by].user
            /\ account[t.fromAccount].status = "ACTIVE"
            /\ account[t.toAccount].status = "ACTIVE"
  <1>1. IInv /\ [Next]_vars => Permit
    <2> SUFFICES ASSUME IInv, [Next]_vars PROVE Permit
      OBVIOUS
    <2>1. ASSUME NEW r \in Requests, Applies(r)
          PROVE  Permit
      <3>1. transactions' = transactions \cup {NewTxn(r)} /\ pc[r] = "commit"
        BY <2>1, AppliesEffect
      <3>2. /\ account[From(r)].owner = dto[r].user
            /\ account[From(r)].status = "ACTIVE"
            /\ account[To(r)].status = "ACTIVE"
        BY <3>1 DEF IInv, CheckedInv, Writing
      <3> QED
        BY <3>1, <3>2 DEF NewTxn
    <2>2. CASE \A r \in Requests : ~Applies(r)
      BY <2>2, OnlyCommits
    <2> QED
      BY <2>1, <2>2
  <1> QED
    BY <1>1, Invariance, PTL DEF Spec, CommitAuthorised

-----------------------------------------------------------------------------
(* The service implements the bank.                                        *)

\* In whole cents the columns round nothing, so that a commit is the bank's
\* indivisible transfer.
LEMMA CommitPosts ==
    ASSUME WholeCents, IInv, NEW r \in Requests, Applies(r)
    PROVE  B!Permitted(dto[r]) /\ B!Post(B!Row(r, dto[r], ref[r]))
  <1> TypeOK /\ UniqueInv
    BY DEF IInv
  <1>1. dto[r] \in Dtos /\ dto[r] \in Dto /\ dto[r].amount \in Nat /\ dto[r].amount % 10 = 0
    BY SchemaAssumption DEF TypeOK, WholeCents, Dto
  <1>2. /\ From(r) \in Accounts /\ To(r) \in Accounts /\ From(r) # To(r)
        /\ pc[r] = "commit"
        /\ transactions' = transactions \cup {NewTxn(r)}
        /\ ledger' = ledger \cup Entries(NewTxn(r))
    BY AppliesEffect
  <1>3. /\ account[From(r)].owner = dto[r].user
        /\ account[From(r)].status = "ACTIVE"
        /\ account[To(r)].status = "ACTIVE"
        /\ account[From(r)].balance >= dto[r].amount
    BY <1>2 DEF IInv, CheckedInv, Writing
  <1>4. NewTxn(r) = B!Row(r, dto[r], ref[r])
    BY <1>1, StoredCents DEF NewTxn, B!Row, From, To
  <1>5. /\ account[From(r)].balance \in Nat /\ account[From(r)].balance % 10 = 0
        /\ account[To(r)].balance \in Nat /\ account[To(r)].balance % 10 = 0
    BY <1>2 DEF TypeOK, AccountRow
  <1>6. /\ account[From(r)].balance - dto[r].amount \in Nat
        /\ (account[From(r)].balance - dto[r].amount) % 10 = 0
        /\ account[To(r)].balance + dto[r].amount \in Nat
        /\ (account[To(r)].balance + dto[r].amount) % 10 = 0
    BY <1>1, <1>3, <1>5
  <1>7. /\ \A x \in Approx(account[From(r)].balance - dto[r].amount) :
              Stored(x) = account[From(r)].balance - dto[r].amount
        /\ \A x \in Approx(account[To(r)].balance + dto[r].amount) :
              Stored(x) = account[To(r)].balance + dto[r].amount
    BY <1>6, ApproxNat, StoredCents
  <1>8. account' = [account EXCEPT ![From(r)].balance = @ - dto[r].amount,
                                   ![To(r)].balance   = @ + dto[r].amount]
    <2> DEFINE posted == [account EXCEPT ![From(r)].balance = @ - dto[r].amount,
                                         ![To(r)].balance   = @ + dto[r].amount]
    <2>1. /\ account' \in [Accounts -> AccountRow]
          /\ \A a \in Accounts \ {From(r), To(r)} : account'[a] = account[a]
          /\ account'[From(r)] = [account[From(r)] EXCEPT !.balance =
                                    account[From(r)].balance - dto[r].amount]
          /\ account'[To(r)] = [account[To(r)] EXCEPT !.balance =
                                    account[To(r)].balance + dto[r].amount]
      BY <1>7, AppliesEffect
    <2>2. /\ posted[From(r)] = [account[From(r)] EXCEPT !.balance =
                                  account[From(r)].balance - dto[r].amount]
          /\ posted[To(r)] = [account[To(r)] EXCEPT !.balance =
                                  account[To(r)].balance + dto[r].amount]
          /\ \A a \in Accounts \ {From(r), To(r)} : posted[a] = account[a]
      BY <1>2 DEF TypeOK
    <2>3. \A a \in Accounts : account'[a] = posted[a]
      BY <2>1, <2>2
    <2>4. DOMAIN posted = Accounts /\ DOMAIN account' = Accounts
      BY <2>1 DEF TypeOK
    <2> QED
      BY <2>1, <2>3, <2>4 DEF TypeOK
  <1>9. \A u \in transactions : u.by # r /\ ~Clashes(NewTxn(r), u)
    <2>1. \A u \in transactions : u.by # r
      BY <1>2 DEF UniqueInv, BeforeCommit, InTx
    <2>2. NewTxn(r) \in work[r].txns
      <3>1. Wrote(r, {From(r), To(r)}, {NewTxn(r)}, Entries(NewTxn(r)))
        BY <1>2 DEF IInv, WorkInv, At
      <3> QED
        BY <3>1 DEF Wrote
    <2> QED
      BY <2>1, <2>2 DEF UniqueInv
  <1>10. B!Permitted(dto[r])
    BY <1>2, <1>3 DEF B!Permitted, From, To
  <1>11. B!Post(NewTxn(r))
    <2>1. /\ NewTxn(r).by = r /\ NewTxn(r).fromAccount = From(r)
          /\ NewTxn(r).toAccount = To(r) /\ NewTxn(r).amount = dto[r].amount
      BY <1>1, StoredCents DEF NewTxn
    <2> QED
      BY <1>2, <1>8, <1>9, <2>1
      DEF B!Post, B!Clashes, Clashes, B!Entries, B!DebitOf, B!CreditOf, B!Entry,
          Entries, DebitOf, CreditOf, Entry
  <1> QED
    BY <1>4, <1>10, <1>11

LEMMA BankStep ==
    ASSUME WholeCents, IInv, [Next]_vars
    PROVE  B!Next \/ UNCHANGED B!bankVars
  <1>1. ASSUME NEW r \in Requests, Applies(r)
        PROVE  B!Next
    <2>1. dto[r] \in Dtos /\ ref[r] \in Refs
      BY DEF IInv, TypeOK
    <2> QED
      BY <1>1, <2>1, CommitPosts DEF B!Next
  <1>2. CASE Beside
    BY <1>2 DEF Beside, OpenAccount, SetStatus, beside, B!Next, B!OpenAccount,
                   B!SetStatus, B!NoRow, NoRow, B!OpenedRow, OpenedRow, B!Stored, Stored
  <1>3. CASE (\A r \in Requests : ~Applies(r)) /\ ~Beside
    BY <1>3, OnlyCommits DEF B!bankVars
  <1> QED
    BY <1>1, <1>2, <1>3

\* BankSpec, for every instance whose amounts are whole cents: with all its
\* interleavings, failures, retries and crashes, transfer() does what the bank
\* does in one step.
THEOREM Implements ==
    ASSUME WholeCents
    PROVE  Spec => BankSpec
  <1>1. Init => B!Init
    BY DEF Init, B!Init, NoRow, B!NoRow
  <1>2. IInv /\ [Next]_vars => [B!Next]_(B!bankVars)
    BY BankStep
  <1> QED
    BY <1>1, <1>2, Invariance, PTL DEF Spec, BankSpec, B!Spec
-----------------------------------------------------------------------------
(* Waiting.                                                                *)

\* Who holds a connection is past waiting for one, and who waits for a row
\* holds none but smaller ones.
WaitInv ==
    /\ \A r \in conns :
          pc[r] \notin {"idle", "findKey", "connect", "owner", "publish", "audit"}
    /\ \A r \in Requests : At(r, "lock") =>
          \A a \in Holding(r), b \in Found(r) \ Holding(r) : a < b

LEMMA ConnsStep ==
    ASSUME IInv, WaitInv, [Next]_vars, NEW q \in conns'
    PROVE  pc'[q] \notin {"idle", "findKey", "connect", "owner", "publish", "audit"}
  <1> TypeOK /\ q \in Requests
    <2>1. TypeOK'
      BY TypeStep DEF IInv
    <2> QED
      BY <2>1 DEF TypeOK, IInv
  <1> USE DEF At, Goto, TypeOK
  <1>0. q \in conns =>
          pc[q] \notin {"idle", "findKey", "connect", "owner", "publish", "audit"}
    BY DEF WaitInv
  <1>1. CASE UNCHANGED vars
    BY <1>0, <1>1 DEF vars
  <1>2. ASSUME NEW r \in Requests, ControlMove(r)
        PROVE  pc'[q] \notin {"idle", "findKey", "connect", "owner", "publish", "audit"}
    BY <1>0, <1>2 DEF ControlMove, Submit, RejectSelfTransfer, FindKey, Connect, Begin,
       DelAccount, Release, Returned, FindOwner, Publish, Audit, LookupFails, BeginFails,
       StatementFails, DelFails, PublishFails, AuditFails
  <1>3. ASSUME NEW r \in Requests,
               \/ Select(r) \/ (\E a \in Accounts : LockRow(r, a)) \/ Validate(r)
               \/ SaveSender(r) \/ SaveReceiver(r) \/ Insert(r) \/ SaveEntry(r)
               \/ Applies(r) \/ Rollback(r)
        PROVE  pc'[q] \notin {"idle", "findKey", "connect", "owner", "publish", "audit"}
    BY <1>0, <1>3 DEF Select, LockRow, Validate, SaveSender, SaveReceiver, Insert, SaveEntry,
       Applies, Commit, CommitAckLost, Rollback
  <1>4. CASE Crash
    BY <1>4 DEF Crash
  <1>5. CASE Beside
    BY <1>0, <1>5 DEF Beside, OpenAccount, SetStatus, beside
  <1> QED
    BY <1>1, <1>2, <1>3, <1>4, <1>5, NextCases

LEMMA OrderStep ==
    ASSUME IInv, WaitInv, [Next]_vars, NEW q \in Requests, pc'[q] = "lock"
    PROVE  \A a \in Holding(q)', b \in Found(q)' \ Holding(q)' : a < b
  <1> TypeOK /\ LockInv /\ PresentInv
    BY DEF IInv
  <1> DEFINE Ordered == \A a \in Holding(q)', b \in Found(q)' \ Holding(q)' : a < b
  <1> USE DEF At, Goto
  <1>0. ASSUME pc[q] = "lock", seen'[q] = seen[q],
               \A a \in Accounts : lock'[a] = q <=> lock[a] = q
        PROVE  Ordered
    <2>1. Holding(q)' = Holding(q) /\ Found(q)' = Found(q)
      BY <1>0 DEF Holding, Found
    <2> QED
      BY <1>0, <2>1 DEF WaitInv
  <1>1. CASE UNCHANGED vars
    BY <1>0, <1>1 DEF vars, local
  <1>2. ASSUME NEW r \in Requests, ControlMove(r)
        PROVE  Ordered
    <2>1. pc[q] = "lock"
      BY <1>2, ControlFrame DEF InTx, TypeOK
    <2> QED
      BY <1>0, <1>2, <2>1, ControlFrame
  <1>3. ASSUME NEW r \in Requests, Select(r)
        PROVE  Ordered
    <2>1. CASE r = q
      <3>1. \A a \in Accounts : lock[a] # q
        BY <1>3, <2>1, TransferAssumption DEF Select, LockInv, Writing
      <3> QED
        BY <1>3, <3>1 DEF Select, Holding
    <2>2. CASE r # q
      BY <1>0, <1>3, <2>2 DEF Select, TypeOK
    <2> QED
      BY <2>1, <2>2
  <1>4. ASSUME NEW r \in Requests, NEW a \in Accounts, LockRow(r, a)
        PROVE  Ordered
    <2>1. CASE r = q
      <3>1. /\ pc[q] = "lock" /\ NextRow(q, a)
            /\ lock' = [lock EXCEPT ![a] = q]
            /\ seen' = [seen EXCEPT ![q][a] = account[a]]
        BY <1>4, <2>1 DEF LockRow, Latest
      <3>2. seen[q][a] # NoRow /\ account[a] # NoRow
        BY <3>1 DEF NextRow, Found, PresentInv
      <3>3. Holding(q)' = Holding(q) \cup {a}
        BY <3>1, TransferAssumption DEF Holding, TypeOK
      <3>4. Found(q)' = Found(q)
        BY <3>1, <3>2 DEF Found, TypeOK
      <3>5. \A b \in Holding(q), c \in Found(q) \ Holding(q) : b < c
        BY <3>1 DEF WaitInv
      <3>6. \A c \in (Found(q) \ Holding(q)) \ {a} : a < c
        BY <3>1, SchemaAssumption DEF NextRow, Found
      <3> QED
        BY <3>3, <3>4, <3>5, <3>6
    <2>2. CASE r # q
      BY <1>0, <1>4, <2>2, TransferAssumption DEF LockRow, TypeOK
    <2> QED
      BY <2>1, <2>2
  <1>5. ASSUME NEW r \in Requests,
               Validate(r) \/ SaveSender(r) \/ SaveReceiver(r) \/ Insert(r) \/ SaveEntry(r)
        PROVE  Ordered
    <2>1. r # q
      BY <1>5 DEF Validate, SaveSender, SaveReceiver, Insert, SaveEntry, TypeOK
    <2> QED
      BY <1>0, <1>5, <2>1 DEF Validate, SaveSender, SaveReceiver, Insert, SaveEntry, local,
                              TypeOK
  <1>6. ASSUME NEW r \in Requests, Applies(r) \/ Rollback(r)
        PROVE  Ordered
    <2>1. r # q
      BY <1>6 DEF Applies, Commit, CommitAckLost, Rollback, TypeOK
    <2> QED
      BY <1>0, <1>6, <2>1, TransferAssumption
      DEF Applies, Commit, CommitAckLost, Rollback, EndTx, local, TypeOK
  <1>7. CASE Crash
    BY <1>7 DEF Crash, InFlight, TypeOK
  <1>8. CASE Beside
    BY <1>0, <1>8 DEF Beside, OpenAccount, SetStatus, beside, local
  <1> QED
    BY <1>1, <1>2, <1>3, <1>4, <1>5, <1>6, <1>7, <1>8, NextCases

\* A set of numbers that are not above a bound has a greatest one.
LEMMA Greatest ==
    ASSUME NEW N \in Nat, NEW T, T \subseteq 0..N, T # {}
    PROVE  \E x \in T : \A y \in T : ~(x < y)
  <1> DEFINE Gap == {n \in Nat : N - n \in T}
  <1>1. Gap \subseteq Nat /\ Gap # {}
    <2>1. PICK x \in T : TRUE
      OBVIOUS
    <2>2. N - x \in Gap
      <3>1. x \in 0..N /\ N - (N - x) = x
        BY <2>1
      <3> QED
        BY <2>1, <3>1
    <2> QED
      BY <2>2
  <1>2. PICK m \in Gap : \A n \in Gap : <<n, m>> \notin OpToRel(<, Nat)
    BY <1>1, WFMin, NatLessThanWellFounded, Zenon
  <1>3. \A n \in Gap : ~(n < m)
    BY <1>1, <1>2, Zenon DEF OpToRel
  <1>4. N - m \in T /\ m \in Nat
    BY <1>2
  <1>5. ASSUME NEW y \in T, N - m < y
        PROVE  FALSE
    <2>1. y \in 0..N /\ N - y \in Nat /\ N - (N - y) = y
      BY <1>5
    <2>2. N - y \in Gap
      BY <1>5, <2>1
    <2>3. N - y < m
      BY <1>4, <1>5, <2>1
    <2> QED
      BY <1>3, <2>2, <2>3
  <1> QED
    BY <1>4, <1>5

\* In a set whose members all wait for members, some wait for a row, and each
\* of these waits for one that waits for a greater row.
LEMMA NobodyStuck ==
    ASSUME NEW N \in Nat, Accounts \subseteq 0..N, IInv, WaitInv
    PROVE  NoWaitCycle
  <1> TypeOK /\ WorkInv /\ LockInv
    BY DEF IInv
  <1> DEFINE Somebody(S) == \E r \in S : WaitsFor(r) \cap S = {}
  <1> SUFFICES ASSUME NEW S \in (SUBSET Requests) \ {{}}
               PROVE  Somebody(S)
    BY Zenon DEF NoWaitCycle
  <1> SUFFICES ASSUME \A r \in S : WaitsFor(r) \cap S # {}
               PROVE  FALSE
    OBVIOUS
  <1> S \in SUBSET Requests /\ S # {}
    BY Zenon
  <1> HIDE DEF Somebody
  <1> USE DEF At
  <1>1. \A r \in S : pc[r] \in {"lock", "insert", "findKey", "connect", "owner", "audit"}
    BY DEF WaitsFor
  <1>2. \A r \in S : pc[r] # "insert"
    <2> SUFFICES ASSUME NEW r \in S, pc[r] = "insert" PROVE FALSE
      OBVIOUS
    <2>1. PICK u \in S : u \in Awaited(r)
      BY DEF WaitsFor
    <2>2. work[u].txns # {}
      BY <2>1 DEF Awaited
    <2>3. pc[u] \in {"lock", "insert", "findKey", "connect", "owner", "audit"}
      BY <1>1, <2>1
    <2>4. work[u] = NoWork \/ Wrote(u, {From(u), To(u)}, {}, {})
      BY <2>1, <2>3 DEF WorkInv
    <2> QED
      BY <2>2, <2>4 DEF Wrote, NoWork
  <1>3. ASSUME NEW r \in S, pc[r] = "lock"
        PROVE  \E a \in Accounts : NextRow(r, a) /\ lock[a] \in S
    BY <1>3 DEF WaitsFor
  <1>4. \E r \in S : pc[r] = "lock"
    <2>1. ASSUME NEW r \in S, pc[r] \in {"findKey", "connect", "owner", "audit"}
          PROVE  \E u \in S : u \in conns
      BY <2>1 DEF WaitsFor
    <2>2. \A u \in S : u \in conns => pc[u] = "lock"
      BY <1>1, <1>2 DEF WaitInv
    <2> QED
      BY <1>1, <1>2, <2>1, <2>2
  <1> DEFINE Wanted == {a \in Accounts : \E r \in S :
                            pc[r] = "lock" /\ NextRow(r, a) /\ lock[a] \in S}
  <1>5. Wanted # {} /\ Wanted \subseteq 0..N
    BY <1>3, <1>4
  <1>6. ASSUME NEW a \in Wanted
        PROVE  \E b \in Wanted : a < b
    <2>1. a \in Accounts /\ lock[a] \in S /\ lock[a] # NoReq
      BY TransferAssumption
    <2>2. pc[lock[a]] = "lock"
      BY <1>1, <1>2, <2>1 DEF LockInv, Writing
    <2>3. PICK b \in Accounts : NextRow(lock[a], b) /\ lock[b] \in S
      BY <1>3, <2>1, <2>2
    <2>4. a < b
      BY <2>1, <2>2, <2>3 DEF WaitInv, NextRow, Holding
    <2> QED
      BY <2>1, <2>2, <2>3, <2>4
  <1> HIDE DEF Wanted
  <1> QED
    BY <1>5, <1>6, Greatest

\* NoWaitCycle, for every instance in which account numbers are bounded, as
\* numbers of eleven digits are: the order of the row locks, and holding
\* nothing while waiting for a connection, rule deadlock out.
THEOREM DeadlockFree ==
    ASSUME NEW N \in Nat, Accounts \subseteq 0..N
    PROVE  Spec => []NoWaitCycle
  <1>1. Init => WaitInv
    BY DEF Init, WaitInv, At
  <1>2. IInv /\ WaitInv /\ [Next]_vars => WaitInv'
    BY ConnsStep, OrderStep DEF WaitInv, At
  <1>3. IInv /\ WaitInv => NoWaitCycle
    BY NobodyStuck
  <1> QED
    BY <1>1, <1>2, <1>3, Invariance, PTL DEF Spec

-----------------------------------------------------------------------------
(* What a request leaves behind.                                           *)

\* Who has not read the accounts has found none, and a connection is lost
\* only by who has read none.
LeakInv ==
    /\ \A r \in Requests : pc[r] \in {"idle", "findKey", "connect", "begin", "select"} =>
          seen[r] = [a \in Accounts |-> NoRow]
    /\ \A r \in conns : At(r, "done") =>
          reply[r] = "failed" /\ seen[r] = [a \in Accounts |-> NoRow]

LEMMA LeakStep == IInv /\ WaitInv /\ LeakInv /\ [Next]_vars => LeakInv'
  <1> SUFFICES ASSUME IInv, WaitInv, LeakInv, [Next]_vars PROVE LeakInv'
    OBVIOUS
  <1> TypeOK /\ \A r \in conns : pc[r] \notin {"idle", "findKey", "connect", "owner",
                                            "publish", "audit"}
    BY DEF IInv, WaitInv
  <1> USE DEF At, Goto, Answer, LeakInv, TypeOK
  <1>1. CASE UNCHANGED vars
    BY <1>1 DEF vars, local
  <1>2. ASSUME NEW r \in Requests, Connect(r) \/ Begin(r)
        PROVE  LeakInv'
    BY <1>2 DEF Connect, Begin, local
  <1>3. ASSUME NEW r \in Requests, Release(r)
        PROVE  LeakInv'
    BY <1>3 DEF Release, Returned, AfterRelease, local
  <1>4. ASSUME NEW r \in Requests, RejectSelfTransfer(r) \/ FindKey(r) \/ LookupFails(r)
        PROVE  LeakInv'
    BY <1>4 DEF RejectSelfTransfer, FindKey, LookupFails, local
  <1>5. ASSUME NEW r \in Requests, BeginFails(r)
        PROVE  LeakInv'
    BY <1>5 DEF BeginFails, local
  <1>6. ASSUME NEW r \in Requests,
               Audit(r) \/ AuditFails(r) \/ Publish(r) \/ PublishFails(r) \/ FindOwner(r)
        PROVE  LeakInv'
    BY <1>6 DEF Audit, AuditFails, Publish, PublishFails, FindOwner, local
  <1>7. ASSUME NEW r \in Requests,
               Submit(r) \/ DelAccount(r) \/ StatementFails(r) \/ DelFails(r)
        PROVE  LeakInv'
    BY <1>7 DEF Submit, DelAccount, StatementFails, DelFails, local, InTx
  <1>8. ASSUME NEW r \in Requests,
               \/ Select(r) \/ (\E a \in Accounts : LockRow(r, a)) \/ Validate(r)
               \/ SaveSender(r) \/ SaveReceiver(r) \/ Insert(r) \/ SaveEntry(r)
               \/ Applies(r) \/ Rollback(r)
        PROVE  LeakInv'
    BY <1>8 DEF Select, LockRow, Validate, SaveSender, SaveReceiver, Insert, SaveEntry,
       Applies, Commit, CommitAckLost, Rollback, local
  <1>9. CASE Crash
    BY <1>9 DEF Crash, local
  <1>10. CASE Beside
    BY <1>10 DEF Beside, OpenAccount, SetStatus, beside, local
  <1> QED
    BY <1>1, <1>2, <1>3, <1>4, <1>5, <1>6, <1>7, <1>8, <1>9, <1>10, NextCases
       DEF ControlMove

\* NothingLeftOpen: whatever threw, locks and uncommitted rows go with the
\* request, and only a failed BEGIN loses a connection.
THEOREM CleanEnd == Spec => []NothingLeftOpen
  <1>1. Init => LeakInv /\ WaitInv
    BY DEF Init, LeakInv, WaitInv, At
  <1>2. IInv /\ WaitInv /\ [Next]_vars => WaitInv'
    BY ConnsStep, OrderStep DEF WaitInv, At
  <1>3. IInv /\ LeakInv => NothingLeftOpen
    <2> SUFFICES ASSUME IInv, LeakInv, NEW r \in Requests, At(r, "done")
                 PROVE  /\ Holding(r) = {} /\ work[r] = NoWork
                        /\ r \in conns => reply[r] = "failed" /\ Found(r) = {}
      BY DEF NothingLeftOpen
    <2>1. Holding(r) = {}
      BY TransferAssumption DEF IInv, LockInv, Holding, At, Writing
    <2>2. work[r] = NoWork
      BY DEF IInv, WorkInv, At
    <2> QED
      BY <2>1, <2>2 DEF LeakInv, Found
  <1> QED
    BY <1>1, <1>2, <1>3, LeakStep, Invariance, PTL DEF Spec
-----------------------------------------------------------------------------
(* Sums.                                                                   *)

\* The element MapThenSumSet takes next, and the function it recurses with.
Pick(s) == CHOOSE x \in s : TRUE
Sums(S, g) == g = [s \in SUBSET S |->
                 IF s = {} THEN 0 ELSE Pick(s).amount + g[s \ {Pick(s)}]]

\* Amount is the value at the set itself of that function.
LEMMA AmountIs == ASSUME NEW S PROVE Amount(S) = (CHOOSE g : Sums(S, g))[S]
  BY DEF Amount, MapThenSumSet, MapThenFoldSet, Sums, Pick

\* Among subsets of a finite set one is smallest: what the inductions below
\* rest on.
LEMMA Smallest ==
    ASSUME NEW S, IsFiniteSet(S), NEW T, T \subseteq SUBSET S, T # {}
    PROVE  \E x \in T : \A y \in T : y \subseteq x => y = x
  <1>1. FiniteSubsetsOf(S) = SUBSET S
    BY FS_FiniteSubsetsOfFinite
  <1>2. IsWellFoundedOn(StrictSubsetOrdering(S), SUBSET S)
    BY <1>1, FS_StrictSubsetOrderingWellFounded
  <1>3. \E x \in T : \A y \in T : ~(<<y, x>> \in StrictSubsetOrdering(S))
    BY <1>2, WFMin
  <1> QED
    BY <1>3 DEF StrictSubsetOrdering

LEMMA SumsAt ==
    ASSUME NEW S, NEW g, Sums(S, g), NEW s \in SUBSET S
    PROVE  g[s] = IF s = {} THEN 0 ELSE Pick(s).amount + g[s \ {Pick(s)}]
  BY Zenon DEF Sums

\* There is at most one such function ...
LEMMA SumsUnique ==
    ASSUME NEW S, IsFiniteSet(S), NEW g, NEW h, Sums(S, g), Sums(S, h)
    PROVE  g = h
  <1> DEFINE Differ == {s \in SUBSET S : g[s] # h[s]}
  <1>1. SUFFICES ASSUME Differ # {} PROVE FALSE
    BY DEF Sums
  <1>2. PICK s \in Differ : \A u \in Differ : u \subseteq s => u = s
    <2>1. Differ \subseteq SUBSET S
      OBVIOUS
    <2> HIDE DEF Differ
    <2> QED
      BY <1>1, <2>1, Smallest
  <1>3. CASE s = {}
    BY <1>2, <1>3, SumsAt
  <1>4. CASE s # {}
    <2>1. Pick(s) \in s
      BY <1>4 DEF Pick
    <2>2. s \ {Pick(s)} \subseteq s /\ s \ {Pick(s)} # s /\ s \ {Pick(s)} \in SUBSET S
      BY <2>1
    <2>3. g[s \ {Pick(s)}] = h[s \ {Pick(s)}]
      BY <1>2, <2>2
    <2> QED
      BY <1>2, <1>4, <2>3, SumsAt
  <1> QED
    BY <1>3, <1>4

\* ... on a subset it is the same function ...
LEMMA SumsRestrict ==
    ASSUME NEW S, NEW g, Sums(S, g), NEW U \in SUBSET S
    PROVE  Sums(U, [s \in SUBSET U |-> g[s]])
  <1> DEFINE h == [s \in SUBSET U |-> g[s]]
  <1>1. ASSUME NEW s \in SUBSET U
        PROVE  h[s] = IF s = {} THEN 0 ELSE Pick(s).amount + h[s \ {Pick(s)}]
    <2>1. g[s] = IF s = {} THEN 0 ELSE Pick(s).amount + g[s \ {Pick(s)}]
      BY SumsAt
    <2> QED
      BY <2>1
  <1> QED
    BY <1>1 DEF Sums

\* ... and there is one.
LEMMA SumsExist ==
    ASSUME NEW S, IsFiniteSet(S)
    PROVE  \E g : Sums(S, g)
  <1> DEFINE Bad == {T \in SUBSET S : ~\E g : Sums(T, g)}
  <1>1. SUFFICES ASSUME Bad # {} PROVE FALSE
    OBVIOUS
  <1>2. PICK T \in Bad : \A u \in Bad : u \subseteq T => u = T
    <2>1. Bad \subseteq SUBSET S
      OBVIOUS
    <2> HIDE DEF Bad
    <2> QED
      BY <1>1, <2>1, Smallest
  <1> DEFINE Of(u) == (CHOOSE g : Sums(u, g))[u]
             G == [s \in SUBSET T |->
                     IF s = {} THEN 0 ELSE Pick(s).amount + Of(s \ {Pick(s)})]
  <1>3. ASSUME NEW u \in SUBSET T, u # T
        PROVE  Sums(u, CHOOSE g : Sums(u, g)) /\ G[u] = Of(u)
    <2>1. \E g : Sums(u, g)
      BY <1>2, <1>3
    <2>2. PICK g : g = CHOOSE h : Sums(u, h)
      OBVIOUS
    <2>3. Sums(u, g)
      BY <2>1, <2>2
    <2>4. Of(u) = IF u = {} THEN 0 ELSE Pick(u).amount + g[u \ {Pick(u)}]
      BY <2>2, <2>3, SumsAt
    <2>5. CASE u # {}
      <3> DEFINE v == u \ {Pick(u)}
      <3>1. Pick(u) \in u
        BY <2>5 DEF Pick
      <3>2. v \in SUBSET T /\ v # T /\ v \in SUBSET u /\ v \in SUBSET S
        BY <3>1
      <3>3. Sums(v, [s \in SUBSET v |-> g[s]])
        BY <2>3, <3>2, SumsRestrict
      <3>4. Sums(v, CHOOSE h : Sums(v, h))
        BY <3>3
      <3>5. IsFiniteSet(v)
        BY <3>2, FS_Subset
      <3>6. (CHOOSE h : Sums(v, h)) = [s \in SUBSET v |-> g[s]]
        BY <3>3, <3>4, <3>5, SumsUnique
      <3>7. Of(v) = g[v]
        BY <3>6
      <3> QED
        BY <2>2, <2>3, <2>4, <2>5, <3>7
    <2>6. CASE u = {}
      BY <2>2, <2>3, <2>4, <2>6
    <2> QED
      BY <2>2, <2>3, <2>5, <2>6
  <1>4. ASSUME NEW s \in SUBSET T
        PROVE  G[s] = IF s = {} THEN 0 ELSE Pick(s).amount + G[s \ {Pick(s)}]
    <2>1. CASE s = {}
      BY <2>1
    <2>2. CASE s # {}
      <3>1. Pick(s) \in s
        BY <2>2 DEF Pick
      <3>2. s \ {Pick(s)} \in SUBSET T /\ s \ {Pick(s)} # T
        BY <3>1
      <3>3. G[s \ {Pick(s)}] = Of(s \ {Pick(s)})
        BY <1>3, <3>2
      <3> QED
        BY <2>2, <3>3
    <2> QED
      BY <2>1, <2>2
  <1>5. Sums(T, G)
    <2> HIDE DEF G
    <2>1. G = [s \in SUBSET T |-> G[s]]
      BY DEF G
    <2> QED
      BY <1>4, <2>1 DEF Sums
  <1> QED
    BY <1>5

\* So the sum takes off the element picked, and adds up the rest.
LEMMA AmountRec ==
    ASSUME NEW S, IsFiniteSet(S)
    PROVE  Amount(S) = IF S = {} THEN 0 ELSE Pick(S).amount + Amount(S \ {Pick(S)})
  <1>1. PICK g : g = CHOOSE h : Sums(S, h)
    OBVIOUS
  <1>2. Sums(S, g)
    BY <1>1, SumsExist
  <1>3. Amount(S) = IF S = {} THEN 0 ELSE Pick(S).amount + g[S \ {Pick(S)}]
    BY <1>1, <1>2, AmountIs, SumsAt
  <1>4. CASE S # {}
    <2> DEFINE v == S \ {Pick(S)}
    <2>1. IsFiniteSet(v) /\ v \in SUBSET S
      BY FS_Subset
    <2>2. Sums(v, [s \in SUBSET v |-> g[s]])
      BY <1>2, <2>1, SumsRestrict
    <2>3. Sums(v, CHOOSE h : Sums(v, h))
      BY <2>2
    <2>4. (CHOOSE h : Sums(v, h)) = [s \in SUBSET v |-> g[s]]
      BY <2>1, <2>2, <2>3, SumsUnique
    <2>5. Amount(v) = g[v]
      BY <2>4, AmountIs
    <2> QED
      BY <1>3, <1>4, <2>5
  <1> QED
    BY <1>3, <1>4

\* Rows that can be summed.
Amounts(S) == IsFiniteSet(S) /\ \A e \in S : e.amount \in Nat

LEMMA AmountNat ==
    ASSUME NEW S, Amounts(S)
    PROVE  Amount(S) \in Nat
  <1> DEFINE Bad == {T \in SUBSET S : Amount(T) \notin Nat}
  <1>1. SUFFICES ASSUME Bad # {} PROVE FALSE
    OBVIOUS
  <1>2. PICK T \in Bad : \A u \in Bad : u \subseteq T => u = T
    <2>1. Bad \subseteq SUBSET S
      OBVIOUS
    <2> HIDE DEF Bad
    <2> QED
      BY <1>1, <2>1, Smallest DEF Amounts
  <1>3. IsFiniteSet(T) /\ T \subseteq S
    BY FS_Subset DEF Amounts
  <1>4. T # {} /\ Amount(T) = Pick(T).amount + Amount(T \ {Pick(T)})
    BY <1>3, AmountRec
  <1>5. Pick(T) \in T
    BY <1>4 DEF Pick
  <1>6. Amount(T \ {Pick(T)}) \in Nat
    BY <1>2, <1>3, <1>5
  <1>7. Pick(T).amount \in Nat
    BY <1>3, <1>5 DEF Amounts
  <1>8. Amount(T) \in Nat
    BY <1>4, <1>6, <1>7
  <1> QED
    BY <1>8

\* Whichever element is taken off first, the sum is the same.
LEMMA AmountRemove ==
    ASSUME NEW S, Amounts(S), NEW x \in S
    PROVE  Amount(S) = x.amount + Amount(S \ {x})
  <1> DEFINE Bad == {T \in SUBSET S : \E y \in T : Amount(T) # y.amount + Amount(T \ {y})}
  <1>1. SUFFICES ASSUME Bad # {} PROVE FALSE
    OBVIOUS
  <1>2. PICK T \in Bad : \A u \in Bad : u \subseteq T => u = T
    <2>1. Bad \subseteq SUBSET S
      OBVIOUS
    <2> HIDE DEF Bad
    <2> QED
      BY <1>1, <2>1, Smallest DEF Amounts
  <1>3. \A U \in SUBSET S : IsFiniteSet(U) /\ Amounts(U)
    BY FS_Subset DEF Amounts
  <1>4. PICK y \in T : Amount(T) # y.amount + Amount(T \ {y})
    OBVIOUS
  <1>5. PICK p \in T : p = Pick(T)
    BY DEF Pick
  <1>6. Amount(T) = p.amount + Amount(T \ {p})
    BY <1>3, <1>5, AmountRec
  <1>7. y # p
    BY <1>4, <1>6
  <1> DEFINE U == T \ {p}
             V == T \ {y}
  <1>8. U \in SUBSET S /\ V \in SUBSET S /\ U \ {y} \in SUBSET S /\ V \ {p} = U \ {y}
    OBVIOUS
  <1>9. Amount(U) = y.amount + Amount(U \ {y})
    <2>1. U \notin Bad /\ y \in U
      BY <1>2, <1>5, <1>7
    <2> QED
      BY <1>8, <2>1
  <1>10. Amount(V) = p.amount + Amount(U \ {y})
    <2>1. V \notin Bad /\ p \in V
      BY <1>2, <1>5, <1>7
    <2> QED
      BY <1>8, <2>1
  <1>11. p.amount \in Nat /\ y.amount \in Nat
    BY <1>3 DEF Amounts
  <1>12. Amount(U \ {y}) \in Nat
    BY <1>3, <1>8, AmountNat
  <1> HIDE DEF U, V
  <1>13. Amount(T) = p.amount + (y.amount + Amount(U \ {y}))
    BY <1>6, <1>9 DEF U
  <1>14. y.amount + Amount(V) = y.amount + (p.amount + Amount(U \ {y}))
    BY <1>10
  <1> QED
    BY <1>4, <1>11, <1>12, <1>13, <1>14 DEF V

LEMMA AmountAdd ==
    ASSUME NEW S, Amounts(S), NEW x, x.amount \in Nat, x \notin S
    PROVE  Amounts(S \cup {x}) /\ Amount(S \cup {x}) = Amount(S) + x.amount
  <1>1. IsFiniteSet(S \cup {x})
    BY FS_AddElement DEF Amounts
  <1>2. Amounts(S \cup {x})
    BY <1>1 DEF Amounts
  <1>3. (S \cup {x}) \ {x} = S
    OBVIOUS
  <1> QED
    BY <1>2, <1>3, AmountRemove, AmountNat

LEMMA AmountEmpty == Amount({}) = 0
  BY FS_EmptySet, AmountRec

\* More rows, no smaller sum.
LEMMA AmountGrows ==
    ASSUME NEW S, Amounts(S), NEW T \in SUBSET S
    PROVE  Amount(T) <= Amount(S)
  <1> DEFINE Between == {U \in SUBSET S : T \subseteq U /\ ~(Amount(T) <= Amount(U))}
  <1>1. SUFFICES ASSUME Between # {} PROVE FALSE
    <2>1. Amount(T) <= Amount(S) \/ S \in Between
      OBVIOUS
    <2> QED
      BY <2>1
  <1>2. PICK U \in Between : \A u \in Between : u \subseteq U => u = U
    <2>1. Between \subseteq SUBSET S
      OBVIOUS
    <2> HIDE DEF Between
    <2> QED
      BY <1>1, <2>1, Smallest DEF Amounts
  <1>3. \A V \in SUBSET S : Amounts(V) /\ Amount(V) \in Nat
    BY FS_Subset, AmountNat DEF Amounts
  <1>4. PICK x \in U : x \notin T
    BY <1>2, <1>3
  <1>5. Amount(U) = x.amount + Amount(U \ {x})
    BY <1>3, AmountRemove
  <1>6. U \ {x} \notin Between /\ U \ {x} \in SUBSET S /\ T \subseteq U \ {x}
    BY <1>2, <1>4
  <1>7. x.amount \in Nat
    BY DEF Amounts
  <1>8. Amount(T) <= Amount(U \ {x})
    BY <1>6
  <1> HIDE DEF Between
  <1>9. Amount(T) <= Amount(U)
    BY <1>3, <1>5, <1>6, <1>7, <1>8
  <1> QED
    BY <1>9 DEF Between

-----------------------------------------------------------------------------
(* The ledger and the balances.                                            *)

\* How far the balance of a is above what the ledger says, opened by o.
Gap(a, o) == account[a].balance - Explained(o)

\* The most that rounding can have moved it, either way.
Slack(a) == 10 * Cardinality(Fine(a))

\* The ledger is finite and has no entry of an account that is not there; an
\* account's balance is the ledger's, up to what rounding gave or took.
LedgerInv ==
    /\ IsFiniteSet(ledger)
    /\ \A e \in ledger : account[e.account] # NoRow
    /\ \A a \in Accounts : account[a] # NoRow =>
          \E o \in MadeBy(a) : Gap(a, o) \in -Slack(a) .. Slack(a)

\* The entries of one account and type can be summed and counted.
LEMMA PostedAmounts ==
    ASSUME TypeOK, IsFiniteSet(ledger), NEW a, NEW type
    PROVE  /\ Amounts(Posted(a, type))
           /\ Amount(Posted(a, type)) \in Nat
  <1>1. IsFiniteSet(Posted(a, type)) /\ Posted(a, type) \subseteq ledger
    BY FS_Subset DEF Posted
  <1>2. Amounts(Posted(a, type))
    BY <1>1 DEF Amounts, TypeOK, LedgerRow
  <1> QED
    BY <1>2, AmountNat

LEMMA FineCounts ==
    ASSUME IsFiniteSet(ledger), NEW a
    PROVE  IsFiniteSet(Fine(a)) /\ Cardinality(Fine(a)) \in Nat
  <1>1. Fine(a) \subseteq ledger
    BY DEF Fine
  <1> QED
    BY <1>1, FS_Subset, FS_CardinalityType

\* The column keeps one of the two cents around a number, and around a sum
\* that doubles have tipped.
LEMMA NextCents ==
    ASSUME NEW x \in Nat, NEW y \in Approx(x)
    PROVE  /\ Stored(x) \in {10 * (x \div 10), 10 * (x \div 10) + 10}
           /\ Stored(y) \in {10 * (x \div 10), 10 * (x \div 10) + 10}
  <1>1. PICK q \in Nat, s \in 0..9 : x = 10 * q + s
    <2>1. x = 10 * (x \div 10) + (x % 10) /\ x \div 10 \in Nat /\ x % 10 \in 0..9
      OBVIOUS
    <2> QED
      BY <2>1
  <1>2. x \div 10 = q
    BY <1>1
  <1>3. \A t \in 0..9 : Stored(10 * q + t) \in {10 * q, 10 * q + 10}
    BY DEF Stored
  <1>4. y \in {10 * q + 4, 10 * q + 5, x}
    BY <1>2 DEF Approx
  <1>5. Stored(10 * q + 4) \in {10 * q, 10 * q + 10} /\ Stored(10 * q + 5) \in {10 * q, 10 * q + 10}
    BY <1>3
  <1> QED
    BY <1>1, <1>2, <1>3, <1>4, <1>5

\* Rounding a balance after a debit or a credit of m is not rounding m, but no
\* more than a cent apart from it; and it is in whole cents.
LEMMA Debited ==
    ASSUME NEW b \in Nat, b % 10 = 0, NEW m \in Nat, b - m \in Nat,
           NEW y \in Approx(b - m)
    PROVE  /\ Stored(y) - (b - Stored(m)) \in -10..10
           /\ m % 10 = 0 => Stored(y) = b - Stored(m)
  <1>1. /\ Stored(y) \in {10 * ((b - m) \div 10), 10 * ((b - m) \div 10) + 10}
        /\ Stored(m) \in {10 * (m \div 10), 10 * (m \div 10) + 10}
    <2>1. \E z : z \in Approx(m)
      BY DEF Approx
    <2> QED
      BY <2>1, NextCents
  <1>2. \/ 10 * ((b - m) \div 10) = b - 10 * (m \div 10) /\ m % 10 = 0
        \/ 10 * ((b - m) \div 10) = b - 10 * (m \div 10) - 10 /\ m % 10 # 0
    OBVIOUS
  <1>3. ASSUME m % 10 = 0
        PROVE  Stored(y) = b - m /\ Stored(m) = m
    <2>1. (b - m) % 10 = 0
      BY <1>3
    <2>2. y = b - m
      BY <2>1, ApproxNat
    <2> QED
      BY <1>3, <2>1, <2>2, StoredCents
  <1>4. m \div 10 \in Nat
    OBVIOUS
  <1> QED
    BY <1>1, <1>2, <1>3, <1>4

LEMMA Credited ==
    ASSUME NEW b \in Nat, b % 10 = 0, NEW m \in Nat, NEW y \in Approx(b + m)
    PROVE  /\ Stored(y) - (b + Stored(m)) \in -10..10
           /\ m % 10 = 0 => Stored(y) = b + Stored(m)
  <1>1. /\ Stored(y) \in {10 * ((b + m) \div 10), 10 * ((b + m) \div 10) + 10}
        /\ Stored(m) \in {10 * (m \div 10), 10 * (m \div 10) + 10}
    <2>1. \E z : z \in Approx(m)
      BY DEF Approx
    <2> QED
      BY <2>1, NextCents
  <1>2. 10 * ((b + m) \div 10) = b + 10 * (m \div 10)
    OBVIOUS
  <1>3. ASSUME m % 10 = 0
        PROVE  Stored(y) = b + m /\ Stored(m) = m
    <2>1. (b + m) % 10 = 0
      BY <1>3
    <2>2. y = b + m
      BY <2>1, ApproxNat
    <2> QED
      BY <1>3, <2>1, <2>2, StoredCents
  <1>4. m \div 10 \in Nat
    OBVIOUS
  <1> QED
    BY <1>1, <1>2, <1>3, <1>4

\* A step that leaves the ledger, the balances and the owners alone.
LEMMA LedgerUntouched ==
    ASSUME LedgerInv, ledger' = ledger, dto' = dto,
           \A a \in Accounts : /\ account'[a].owner = account[a].owner
                               /\ account'[a].balance = account[a].balance
                               /\ account'[a] = NoRow <=> account[a] = NoRow,
           \A e \in ledger : e.account \in Accounts
    PROVE  LedgerInv'
  <1>1. \A e \in ledger' : account'[e.account] # NoRow
    BY DEF LedgerInv
  <1>2. ASSUME NEW a \in Accounts, account'[a] # NoRow
        PROVE  \E o \in MadeBy(a)' : Gap(a, o)' \in -Slack(a)' .. Slack(a)'
    <2>1. PICK o \in MadeBy(a) : Gap(a, o) \in -Slack(a) .. Slack(a)
      BY <1>2 DEF LedgerInv
    <2>2. o \in MadeBy(a)'
      BY DEF MadeBy
    <2>3. Slack(a)' = Slack(a) /\ Gap(a, o)' = Gap(a, o)
      BY DEF Slack, Fine, Gap, Explained, Posted
    <2> QED
      BY <2>1, <2>2, <2>3
  <1> QED
    BY <1>1, <1>2 DEF LedgerInv

LEMMA OpenedBooks ==
    ASSUME IInv, LedgerInv, NEW o \in Openings, OpenAccount(o)
    PROVE  LedgerInv'
  <1> DEFINE n == o.account
  <1> TypeOK /\ n \in Accounts /\ o.initial \in Nat /\ o.user \in Users
    BY SchemaAssumption DEF IInv, Opening
  <1>1. /\ account[n] = NoRow /\ ledger' = ledger /\ dto' = dto
        /\ account'[n] = OpenedRow(o)
        /\ \A a \in Accounts \ {n} : account'[a] = account[a]
    BY DEF OpenAccount, beside, local, TypeOK
  <1>2. \A e \in ledger : e.account \in Accounts /\ e.account # n
    BY <1>1 DEF LedgerInv, TypeOK, LedgerRow
  <1>3. ASSUME NEW a \in Accounts, account'[a] # NoRow
        PROVE  \E p \in MadeBy(a)' : Gap(a, p)' \in -Slack(a)' .. Slack(a)'
    <2>1. CASE a # n
      <3>1. PICK p \in MadeBy(a) : Gap(a, p) \in -Slack(a) .. Slack(a)
        BY <1>1, <1>3, <2>1 DEF LedgerInv
      <3>2. p \in MadeBy(a)' /\ Gap(a, p)' = Gap(a, p)
        BY <1>1, <2>1 DEF MadeBy, Gap, Explained, Posted
      <3>3. Slack(a)' = Slack(a)
        BY <1>1 DEF Slack, Fine
      <3> QED
        BY <3>1, <3>2, <3>3
    <2>2. CASE a = n
      <3>1. \A type : Posted(n, type)' = {}
        BY <1>1, <1>2 DEF Posted
      <3>2. o \in MadeBy(n)' /\ account'[n].balance = Stored(o.initial)
        BY <1>1 DEF MadeBy, OpenedRow
      <3>3. Stored(o.initial) \in Nat
        BY StoredCents
      <3>4. Explained(o)' = Stored(o.initial) + Amount({}) - Amount({})
        BY <3>1 DEF Explained
      <3>5. Gap(n, o)' = 0
        BY <3>2, <3>3, <3>4, AmountEmpty DEF Gap
      <3>6. Slack(n)' = 0
        <4>1. Fine(n)' = {}
          BY <1>1, <1>2 DEF Fine
        <4> QED
          BY <4>1, FS_EmptySet DEF Slack
      <3> QED
        BY <2>2, <3>2, <3>5, <3>6
    <2> QED
      BY <2>1, <2>2
  <1>4. \A e \in ledger' : account'[e.account] # NoRow
    BY <1>1, <1>2 DEF LedgerInv
  <1> QED
    BY <1>1, <1>3, <1>4 DEF LedgerInv

\* The entries a commit adds to the ledger are new.
LEMMA EntriesAreNew ==
    ASSUME IInv, NEW r \in Requests, Applies(r)
    PROVE  Entries(NewTxn(r)) \cap ledger = {}
  <1>1. pc[r] \in BeforeCommit
    BY AppliesEffect DEF BeforeCommit, InTx
  <1>2. ASSUME NEW e \in ledger
        PROVE  e.by # r
    <2>1. PICK t \in transactions : e \in Entries(t)
      BY DEF IInv, DoubleEntry
    <2>2. e.by = t.by
      BY <2>1 DEF Entries, DebitOf, CreditOf, Entry
    <2> QED
      BY <1>1, <2>2 DEF IInv, UniqueInv
  <1>3. \A e \in Entries(NewTxn(r)) : e.by = r
    BY DEF Entries, DebitOf, CreditOf, Entry, NewTxn
  <1> QED
    BY <1>2, <1>3

\* What a commit adds to the entries of each account.
LEMMA PostedByCommit ==
    ASSUME IInv, NEW r \in Requests, Applies(r), NEW a \in Accounts
    PROVE  /\ Posted(a, "DEBIT")' = Posted(a, "DEBIT") \cup
                 IF a = From(r) THEN {DebitOf(NewTxn(r))} ELSE {}
           /\ Posted(a, "CREDIT")' = Posted(a, "CREDIT") \cup
                 IF a = To(r) THEN {CreditOf(NewTxn(r))} ELSE {}
  <1>1. ledger' = ledger \cup {DebitOf(NewTxn(r)), CreditOf(NewTxn(r))}
    BY AppliesEffect DEF Entries
  <1>2. /\ DebitOf(NewTxn(r)).account = From(r) /\ DebitOf(NewTxn(r)).type = "DEBIT"
        /\ CreditOf(NewTxn(r)).account = To(r) /\ CreditOf(NewTxn(r)).type = "CREDIT"
    BY DEF DebitOf, CreditOf, Entry, NewTxn
  <1> QED
    BY <1>1, <1>2 DEF Posted

\* A step of a cent keeps within a slack that grows by a cent; no step, within
\* any.
LEMMA Drifted ==
    ASSUME NEW n \in Nat, NEW g \in -(10 * n)..(10 * n), NEW x \in -10..10,
           NEW k \in {10 * n, 10 * n + 10}, x = 0 \/ k = 10 * n + 10
    PROVE  g + x \in -k..k
  OBVIOUS

LEMMA FineByCommit ==
    ASSUME IInv, NEW r \in Requests, Applies(r), NEW a \in Accounts
    PROVE  Fine(a)' = Fine(a) \cup
              IF dto[r].amount % 10 = 0 THEN {}
              ELSE {e \in Entries(NewTxn(r)) : e.account = a}
  <1>1. ledger' = ledger \cup Entries(NewTxn(r)) /\ dto' = dto
    BY AppliesEffect
  <1>2. \A e \in Entries(NewTxn(r)) : e.by = r
    BY DEF Entries, DebitOf, CreditOf, Entry, NewTxn
  <1> QED
    BY <1>1, <1>2 DEF Fine

LEMMA CommittedBooks ==
    ASSUME IInv, LedgerInv, NEW r \in Requests, Applies(r)
    PROVE  LedgerInv'
  <1> DEFINE d == DebitOf(NewTxn(r))
             c == CreditOf(NewTxn(r))
             m == dto[r].amount
  <1> TypeOK
    BY DEF IInv
  <1>1. /\ d \notin ledger /\ c \notin ledger /\ d # c
        /\ d.amount = Stored(m) /\ c.amount = Stored(m)
        /\ d.account = From(r) /\ c.account = To(r)
        /\ ledger' = ledger \cup {d, c}
    BY EntriesAreNew, AppliesEffect DEF Entries, DebitOf, CreditOf, Entry, NewTxn
  <1>2. /\ m \in Nat /\ Stored(m) \in Nat
        /\ From(r) \in Accounts /\ To(r) \in Accounts /\ From(r) # To(r)
    <2>1. dto[r] \in Dtos /\ m \in Nat
      BY SchemaAssumption DEF TypeOK, Dto
    <2> HIDE DEF m
    <2>2. Stored(m) \in Nat
      BY <2>1, StoredCents
    <2>3. From(r) \in Accounts /\ To(r) \in Accounts /\ From(r) # To(r)
      BY AppliesEffect
    <2> QED
      BY <2>1, <2>2, <2>3 DEF m
  <1>3. /\ account[From(r)].balance >= m
        /\ account[From(r)] # NoRow /\ account[To(r)] # NoRow
    <2>1. pc[r] \in Writing
      BY AppliesEffect DEF Writing
    <2> QED
      BY <1>2, <2>1 DEF IInv, CheckedInv, NoRow
  <1>4. IsFiniteSet(ledger')
    BY <1>1, FS_AddElement, (ledger \cup {d}) \cup {c} = ledger \cup {d, c} DEF LedgerInv
  <1>5. /\ \A a \in Accounts : account'[a].owner = account[a].owner
        /\ \A a \in Accounts \ {From(r), To(r)} : account'[a] = account[a]
        /\ \E x \in Approx(account[From(r)].balance - m) : account'[From(r)].balance = Stored(x)
        /\ \E x \in Approx(account[To(r)].balance + m) : account'[To(r)].balance = Stored(x)
    <2>1. /\ \A a \in Accounts \ {From(r), To(r)} : account'[a] = account[a]
          /\ \E x \in Approx(account[From(r)].balance - m) :
                account'[From(r)] = [account[From(r)] EXCEPT !.balance = Stored(x)]
          /\ \E x \in Approx(account[To(r)].balance + m) :
                account'[To(r)] = [account[To(r)] EXCEPT !.balance = Stored(x)]
      BY AppliesEffect
    <2>2. \A a \in Accounts : account[a] \in AccountRow
      BY DEF TypeOK
    <2> HIDE DEF m
    <2> QED
      BY <1>2, <2>1, <2>2 DEF AccountRow
  <1>6. \A a \in Accounts : account[a] # NoRow => account'[a] # NoRow
    <2>1. [Next]_vars
      BY DEF Next, Step, Failure, Applies
    <2> QED
      BY <2>1, RowsStay
  <1>7. \A a \in Accounts : account[a].balance \in Nat /\ account[a].balance % 10 = 0
    BY DEF TypeOK, AccountRow
  <1>8. ASSUME NEW a \in Accounts, account'[a] # NoRow
        PROVE  \E o \in MadeBy(a)' : Gap(a, o)' \in -Slack(a)' .. Slack(a)'
    <2>1. account[a] # NoRow
      BY <1>3, <1>5, <1>8
    <2>2. PICK o \in MadeBy(a) : Gap(a, o) \in -Slack(a) .. Slack(a)
      BY <2>1 DEF LedgerInv
    <2> DEFINE D == Posted(a, "DEBIT")
               C == Posted(a, "CREDIT")
               b == account[a].balance
    <2>3. o \in MadeBy(a)' /\ o.account = a /\ o.initial \in Nat
      BY <1>5, SchemaAssumption DEF MadeBy, Opening
    <2>4. /\ Amounts(D) /\ Amount(D) \in Nat
          /\ Amounts(C) /\ Amount(C) \in Nat
      BY PostedAmounts DEF LedgerInv
    <2>5. /\ Posted(a, "DEBIT")' = D \cup IF a = From(r) THEN {d} ELSE {}
          /\ Posted(a, "CREDIT")' = C \cup IF a = To(r) THEN {c} ELSE {}
      BY PostedByCommit
    <2>6. d \notin D /\ c \notin C /\ d \notin Fine(a) /\ c \notin Fine(a)
      BY <1>1 DEF Posted, Fine
    <2>7. Stored(o.initial) \in Nat
      BY <2>3, StoredCents
    <2>8. Gap(a, o) = b - (Stored(o.initial) + Amount(C) - Amount(D))
      BY <2>3 DEF Gap, Explained
    <2>9. Gap(a, o)' = account'[a].balance
                       - (Stored(o.initial) + Amount(Posted(a, "CREDIT")')
                                            - Amount(Posted(a, "DEBIT")'))
      BY <2>3 DEF Gap, Explained
    <2>10. /\ Slack(a) = 10 * Cardinality(Fine(a)) /\ Cardinality(Fine(a)) \in Nat
           /\ Slack(a)' = Slack(a) \/ Slack(a)' = Slack(a) + 10
           /\ m % 10 # 0 /\ a \in {From(r), To(r)} => Slack(a)' = Slack(a) + 10
           /\ a \notin {From(r), To(r)} => Slack(a)' = Slack(a)
      <3>1. IsFiniteSet(Fine(a)) /\ Cardinality(Fine(a)) \in Nat
        BY FineCounts DEF LedgerInv
      <3>2. Fine(a)' = Fine(a) \cup IF m % 10 = 0 THEN {} ELSE {e \in {d, c} : e.account = a}
        BY FineByCommit DEF Entries
      <3>3. {e \in {d, c} : e.account = a} = IF a = From(r) THEN {d}
                                            ELSE IF a = To(r) THEN {c} ELSE {}
        BY <1>1, <1>2
      <3> HIDE DEF d, c, m
      <3>4. CASE m % 10 # 0 /\ a = From(r)
        <4>1. Fine(a)' = Fine(a) \cup {d}
          BY <3>2, <3>3, <3>4
        <4>2. Cardinality(Fine(a)') = Cardinality(Fine(a)) + 1
          BY <2>6, <3>1, <4>1, FS_AddElement
        <4> QED
          BY <3>1, <3>4, <4>2 DEF Slack
      <3>5. CASE m % 10 # 0 /\ a = To(r)
        <4>1. Fine(a)' = Fine(a) \cup {c}
          BY <1>2, <3>2, <3>3, <3>5
        <4>2. Cardinality(Fine(a)') = Cardinality(Fine(a)) + 1
          BY <2>6, <3>1, <4>1, FS_AddElement
        <4> QED
          BY <3>1, <3>5, <4>2 DEF Slack
      <3>6. CASE m % 10 = 0 \/ a \notin {From(r), To(r)}
        <4>1. Fine(a)' = Fine(a)
          BY <3>2, <3>3, <3>6
        <4> QED
          BY <3>1, <3>6, <4>1 DEF Slack
      <3> QED
        BY <3>4, <3>5, <3>6
    <2> HIDE DEF d, c, m, D, C
    <2>11. CASE a = From(r)
      <3>1. /\ Amount(Posted(a, "DEBIT")') = Amount(D) + Stored(m)
            /\ Posted(a, "CREDIT")' = C
        BY <1>1, <1>2, <2>4, <2>5, <2>6, <2>11, AmountAdd
      <3>2. PICK y \in Approx(b - m) : account'[a].balance = Stored(y)
        BY <1>5, <2>11
      <3>3. /\ Stored(y) - (b - Stored(m)) \in -10..10
            /\ m % 10 = 0 => Stored(y) = b - Stored(m)
        <4>1. b - m \in Nat
          BY <1>2, <1>3, <1>7, <2>11
        <4> QED
          BY <1>2, <1>7, <4>1, Debited
      <3>4. Stored(y) \in Int /\ b \in Nat
        <4>1. b - m \in Nat
          BY <1>2, <1>3, <1>7, <2>11
        <4> QED
          BY <1>7, <4>1, ApproxNat, StoredCents
      <3>5. Gap(a, o)' = Gap(a, o) + (Stored(y) - (b - Stored(m)))
        BY <1>2, <2>4, <2>7, <2>8, <2>9, <3>1, <3>2, <3>4
      <3> HIDE DEF b
      <3>6. QED
        BY <1>2, <2>2, <2>3, <2>10, <2>11, <3>3, <3>4, <3>5, Drifted
    <2>12. CASE a = To(r)
      <3>1. /\ Amount(Posted(a, "CREDIT")') = Amount(C) + Stored(m)
            /\ Posted(a, "DEBIT")' = D
        BY <1>1, <1>2, <2>4, <2>5, <2>6, <2>12, AmountAdd
      <3>2. PICK y \in Approx(b + m) : account'[a].balance = Stored(y)
        BY <1>5, <2>12
      <3>3. /\ Stored(y) - (b + Stored(m)) \in -10..10
            /\ m % 10 = 0 => Stored(y) = b + Stored(m)
        BY <1>2, <1>7, Credited
      <3>4. Stored(y) \in Int /\ b \in Nat
        BY <1>2, <1>7, ApproxNat, StoredCents
      <3>5. Gap(a, o)' = Gap(a, o) + (Stored(y) - (b + Stored(m)))
        BY <1>2, <2>4, <2>7, <2>8, <2>9, <3>1, <3>2, <3>4
      <3> HIDE DEF b
      <3>6. QED
        BY <1>2, <2>2, <2>3, <2>10, <2>12, <3>3, <3>4, <3>5, Drifted
    <2>13. CASE a \notin {From(r), To(r)}
      <3>1. Posted(a, "DEBIT")' = D /\ Posted(a, "CREDIT")' = C /\ account'[a].balance = b
        BY <1>5, <2>5, <2>13
      <3> QED
        BY <2>2, <2>3, <2>8, <2>9, <2>10, <2>13, <3>1 DEF D
    <2> QED
      BY <2>11, <2>12, <2>13
  <1>9. \A e \in ledger' : account'[e.account] # NoRow
    <2>1. \A e \in ledger : e.account \in Accounts /\ account[e.account] # NoRow
      BY DEF LedgerInv, TypeOK, LedgerRow
    <2> QED
      BY <1>1, <1>2, <1>3, <1>6, <2>1
  <1> QED
    BY <1>4, <1>8, <1>9 DEF LedgerInv

LEMMA LedgerStep == IInv /\ LedgerInv /\ [Next]_vars => LedgerInv'
  <1> SUFFICES ASSUME IInv, LedgerInv, [Next]_vars PROVE LedgerInv'
    OBVIOUS
  <1> TypeOK
    BY DEF IInv
  <1>a. \A e \in ledger : e.account \in Accounts
    BY DEF TypeOK, LedgerRow
  <1>b. dto' = dto
    BY TransactionsGrow
  <1>1. ASSUME NEW r \in Requests, Applies(r)
        PROVE  LedgerInv'
    BY <1>1, CommittedBooks
  <1>2. ASSUME \A r \in Requests : ~Applies(r)
        PROVE  LedgerInv'
    <2>1. ledger' = ledger /\ (account' = account \/ Beside)
      BY <1>2, OnlyCommits
    <2>2. CASE account' = account
      BY <1>a, <1>b, <2>1, <2>2, LedgerUntouched
    <2>3. ASSUME NEW o \in Openings, OpenAccount(o)
          PROVE  LedgerInv'
      BY <2>3, OpenedBooks
    <2>4. ASSUME NEW a \in Accounts, NEW s \in AdminStatuses, SetStatus(a, s)
          PROVE  LedgerInv'
      <3>1. \A x \in Accounts : /\ account'[x].owner = account[x].owner
                                /\ account'[x].balance = account[x].balance
        BY <2>4 DEF SetStatus, TypeOK, AccountRow
      <3>2. \A x \in Accounts : account'[x] = NoRow <=> account[x] = NoRow
        <4>1. s # "ABSENT"
          BY SchemaAssumption DEF Statuses
        <4> QED
          BY <2>4, <4>1 DEF SetStatus, TypeOK, AccountRow, NoRow
      <3> QED
        BY <1>a, <1>b, <2>1, <3>1, <3>2, LedgerUntouched
    <2> QED
      BY <2>1, <2>2, <2>3, <2>4 DEF Beside
  <1> QED
    BY <1>1, <1>2

LEMMA InitLedger == Init => LedgerInv
  BY FS_EmptySet DEF Init, LedgerInv

\* LedgerExplainsBalance, for every instance whose amounts are whole cents: no
\* update of any of any number of transfers is lost.
THEOREM BalancesExplained ==
    ASSUME WholeCents
    PROVE  Spec => []LedgerExplainsBalance
  <1>1. IInv /\ LedgerInv => LedgerExplainsBalance
    <2> SUFFICES ASSUME IInv, LedgerInv, NEW a \in Accounts, account[a] # NoRow
                 PROVE  \E o \in MadeBy(a) : account[a].balance = Explained(o)
      BY DEF LedgerExplainsBalance
    <2>1. Slack(a) = 0
      <3>1. Fine(a) = {}
        BY DEF Fine, WholeCents, IInv, TypeOK, LedgerRow
      <3> QED
        BY <3>1, FS_EmptySet DEF Slack
    <2> PICK o \in MadeBy(a) : Gap(a, o) = 0
      BY <2>1 DEF LedgerInv
    <2>2. account[a].balance \in Nat /\ Explained(o) \in Int
      BY PostedAmounts, StoredCents, SchemaAssumption
      DEF LedgerInv, IInv, TypeOK, AccountRow, Explained, MadeBy, Opening
    <2> QED
      BY <2>2 DEF Gap
  <1> QED
    BY <1>1, InitLedger, LedgerStep, Invariance, InitIInv, PTL DEF Spec

\* DriftBounded, for every instance: rounding moves an account from its ledger
\* by a cent at most for each transfer of an amount finer than a cent.
THEOREM RoundingBounded == Spec => []DriftBounded
  <1>1. LedgerInv => DriftBounded
    BY DEF LedgerInv, DriftBounded, Gap, Slack
  <1> QED
    BY <1>1, InitLedger, LedgerStep, Invariance, PTL DEF Spec
=============================================================================
