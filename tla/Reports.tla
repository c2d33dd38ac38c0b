------------------------------ MODULE Reports ------------------------------
(***************************************************************************)
(* ReconciliationService.daily and SettlementsService.daily, read off the  *)
(* tables while transfers commit (Transfer).  A row's createdAt is now()   *)
(* of the database, the moment its TRANSACTION began, so the rows of one   *)
(* transfer share it; DayWindow says which date's report selects it.       *)
(***************************************************************************)
EXTENDS TransferProperties, DayWindow

CONSTANTS Dates,    \* dates reports are asked for
          Hours     \* moments at which something happens, in the database's
                    \* own zone: the bound on its clock

ASSUME ReportsAssumption == Dates \subseteq Int /\ Hours \subseteq Int

VARIABLES hour,         \* the database's clock
          begun,        \* request -> when its transaction began
          stage,        \* reconciliation: the query it does next
          subject,      \* the date it is asked for
          found,        \* the transactions its first query returned
          exceptions,   \* those it reports
          settled       \* date -> its latest settlement batch, if any

reconciliation == <<stage, subject, found, exceptions>>
reportVars == <<hour, begun, reconciliation, settled>>

NoBatch == [made |-> FALSE, gross |-> 0]

ReportsInit == /\ Init
               /\ hour \in Hours
               /\ begun = [r \in Requests |-> hour]
               /\ stage = "transactions" /\ subject \in Dates
               /\ found = {} /\ exceptions = {}
               /\ settled = [d \in Dates |-> NoBatch]

\* The rows of a table whose createdAt the report of date d selects.
CreatedOn(rows, d) == {x \in rows : Selects(begun[x.by], d)}

-----------------------------------------------------------------------------
\* A step of the transfer service; BEGIN dates the transaction.
DatedStep ==
    /\ Next
    /\ begun' = [r \in Requests |->
                   IF At(r, "begin") /\ pc'[r] = "select" THEN hour ELSE begun[r]]
    /\ UNCHANGED <<hour, reconciliation, settled>>

ClockStep == /\ \E h \in Hours : h > hour /\ hour' = h
             /\ UNCHANGED <<vars, begun, reconciliation, settled>>

Unmatched(txns, entries) ==
    {t \in txns : Cardinality({e \in entries : e.reference = t.reference}) # 2}

\* Two queries, each a snapshot of its own: the transactions of the date,
\* then its entries, counted by reference.
LedgerFirstSlip ==
    /\ \/ /\ stage = "transactions"
          /\ found' = CreatedOn(ledger, subject)
          /\ stage' = "ledger" /\ UNCHANGED exceptions
       \/ /\ stage = "ledger"
          /\ exceptions' = Unmatched(CreatedOn(transactions, subject), found)
          /\ stage' = "done" /\ UNCHANGED found
    /\ UNCHANGED <<vars, hour, begun, subject, settled>>
Reconcile ==
    /\ \/ /\ stage = "transactions"
          /\ found' = CreatedOn(transactions, subject)
          /\ stage' = "ledger" /\ UNCHANGED exceptions
       \/ /\ stage = "ledger"
          /\ exceptions' = Unmatched(found, CreatedOn(ledger, subject))
          /\ stage' = "done" /\ UNCHANGED found
    /\ UNCHANGED <<vars, hour, begun, subject, settled>>

Gross(txns) == Amount(txns)

\* One query, and the sum of what it returned.
OpenEndedSlip(d) ==
    /\ settled' = [settled EXCEPT ![d] = [made |-> TRUE, gross |->
          Gross({t \in transactions : begun[t.by] >= Bound(Start(d))})]]
    /\ UNCHANGED <<vars, hour, begun, reconciliation>>
Settle(d) ==
    /\ settled' = [settled EXCEPT ![d] =
          [made |-> TRUE, gross |-> Gross(CreatedOn(transactions, d))]]
    /\ UNCHANGED <<vars, hour, begun, reconciliation>>

ReportsNext == \/ DatedStep \/ ClockStep \/ Reconcile
               \/ \E d \in Dates : Settle(d)

ReportsSpec == ReportsInit /\ [][ReportsNext]_<<vars, reportVars>>

-----------------------------------------------------------------------------
\* Reconciliation raises no false alarm: although transfers commit between
\* its two queries and around midnight, it reports no transfer, since none is
\* half booked (DoubleEntry).
NoFalseAlarm == exceptions = {}

\* What a batch sums is in the books: no batch is worth more than the debits
\* the ledger holds for its date.
SettledIsPosted ==
    \A d \in Dates : settled[d].made =>
        settled[d].gross <= Gross({e \in CreatedOn(ledger, d) : e.type = "DEBIT"})

\* Whatever the zone, every transfer is in the report of exactly one date,
\* which covers its whole day of the database's calendar: reports of
\* successive dates leave no row out and count none twice.
RowInOneReport ==
    \A t \in transactions :
        LET today == begun[t.by] \div 24
            Near  == today - 1 .. today + 1
        IN  \E d \in Near : /\ Selects(24 * today, d)
                             /\ {x \in Near : Selects(begun[t.by], x)} = {d}
=============================================================================
