-------------------------------- MODULE Bank --------------------------------
(***************************************************************************)
(* What the transfer service promises: a bank in which a transfer is one   *)
(* indivisible step that moves exactly the amount asked for, between two   *)
(* active accounts, at the order of the owner of the debited one, posts    *)
(* its two ledger entries and is never made twice under one key.           *)
(***************************************************************************)
EXTENDS Schema

VARIABLES account, transactions, ledger

bankVars == <<account, transactions, ledger>>

Init == /\ account = [a \in Accounts |-> NoRow]
        /\ transactions = {}
        /\ ledger = {}

OpenAccount(o) ==
    /\ account[o.account] = NoRow
    /\ account' = [account EXCEPT ![o.account] = OpenedRow(o)]
    /\ UNCHANGED <<transactions, ledger>>

SetStatus(a, s) ==
    /\ account[a] # NoRow
    /\ account' = [account EXCEPT ![a].status = s]
    /\ UNCHANGED <<transactions, ledger>>

\* The transfer d allows in the present state of the accounts.
Permitted(d) == /\ d.fromAccount # d.toAccount
                /\ account[d.fromAccount].owner = d.user
                /\ account[d.fromAccount].status = "ACTIVE"
                /\ account[d.toAccount].status = "ACTIVE"
                /\ account[d.fromAccount].balance >= d.amount

Row(r, d, ref) == [by |-> r, reference |-> ref, key |-> d.key,
                   fromAccount |-> d.fromAccount, toAccount |-> d.toAccount,
                   amount |-> d.amount]

Post(t) == /\ \A u \in transactions : u.by # t.by /\ ~Clashes(t, u)
           /\ account' =
                [account EXCEPT ![t.fromAccount].balance = @ - t.amount,
                                ![t.toAccount].balance   = @ + t.amount]
           /\ transactions' = transactions \cup {t}
           /\ ledger' = ledger \cup Entries(t)

Next == \/ \E o \in Openings : OpenAccount(o)
        \/ \E a \in Accounts, s \in AdminStatuses : SetStatus(a, s)
        \/ \E r \in Requests, d \in Dtos, ref \in Refs :
              Permitted(d) /\ Post(Row(r, d, ref))

Spec == Init /\ [][Next]_bankVars
=============================================================================
