------------------------------- MODULE Schema -------------------------------
(***************************************************************************)
(* The rows FinBank keeps in Postgres for accounts, transfers and the      *)
(* ledger, and the requests that ask for them.  Both the abstract bank     *)
(* (Bank) and the transfer service (Transfer) speak of these rows.         *)
(*                                                                         *)
(* Money is counted in thousandths of a naira, so that an amount the       *)
(* columns cannot hold (numeric(18,2): one cent is 10 units) exists.  A     *)
(* finer one stands with a neighbour that the columns store alike.         *)
(***************************************************************************)
EXTENDS Integers

CONSTANTS
    Requests,       \* POST /transactions/transfer calls; a client's retry is
                    \* another request with the same body
    Users, NoUser,  \* users.id, and the owner of a row that does not exist
    Accounts,       \* account numbers; their order is the order of the sort
    Keys, NoKey,    \* idempotency keys, and a missing or blank one
    Refs,           \* references generateReference can come up with
    Dtos,           \* transfer bodies with the user the JWT names
    Openings,       \* POST /accounts calls: user, number drawn, first balance
    AdminStatuses   \* statuses an operator gives an account, in the database

Statuses == {"ACTIVE", "BLOCKED", "CLOSED"}

\* A number no row of the account table carries.
NoRow == [owner |-> NoUser, balance |-> 0, status |-> "ABSENT"]

AccountRow == [owner   : Users \cup {NoUser},
               balance : Nat,
               status  : Statuses \cup {"ABSENT"}]

\* "by" stands for the row's uuid: the request whose INSERT made it.
TransactionRow == [by          : Requests,
                   reference   : Refs,
                   key         : Keys \cup {NoKey},
                   fromAccount : Accounts,
                   toAccount   : Accounts,
                   amount      : Nat]

LedgerRow == [by        : Requests,
              account   : Accounts,
              type      : {"DEBIT", "CREDIT"},
              amount    : Nat,
              reference : Refs]

Dto == [user        : Users,
        fromAccount : Accounts,
        toAccount   : Accounts,
        amount      : Nat,
        key         : Keys \cup {NoKey}]

Opening == [account : Accounts, user : Users, initial : Nat]

\* What a numeric(18,2) column keeps of a number: the nearest cent.
UnroundedSlip(x) == x
Stored(x) == ((x + 5) \div 10) * 10

\* No request asks for a fraction of a cent.
WholeCents == /\ \A d \in Dtos : d.amount % 10 = 0
              /\ \A o \in Openings : o.initial % 10 = 0

\* The row create() inserts.
OpenedRow(o) ==
    [owner |-> o.user, balance |-> Stored(o.initial), status |-> "ACTIVE"]

\* Two rows no unique index lets stand together: Postgres counts NULL keys
\* as distinct.
ReferenceOnlySlip(t, u) == t.reference = u.reference
Clashes(t, u) == \/ t.reference = u.reference
                 \/ t.key # NoKey /\ t.key = u.key

Entry(t, a, type) == [by |-> t.by, account |-> a, type |-> type,
                      amount |-> t.amount, reference |-> t.reference]

\* The two postings of a transfer.
DebitOf(t)  == Entry(t, t.fromAccount, "DEBIT")
CreditOf(t) == Entry(t, t.toAccount, "CREDIT")
Entries(t)  == {DebitOf(t), CreditOf(t)}

\* The bodies and account requests are what validation lets through:
\* @Min(1) on the amount, @Min(0) on the first balance.
ASSUME SchemaAssumption ==
    /\ Accounts \subseteq Nat
    /\ Dtos \subseteq Dto
    /\ \A d \in Dtos : d.amount >= 1000
    /\ Openings \subseteq Opening
    /\ AdminStatuses \subseteq Statuses
    /\ Refs # {}
    /\ NoKey \notin Keys
    /\ NoUser \notin Users
=============================================================================
