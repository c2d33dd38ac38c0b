------------------------------ MODULE Receipts ------------------------------
(***************************************************************************)
(* The bank (Bank) as its customers see it: of a transfer that was made,   *)
(* the owner of the debited account may get one mail and one text, and     *)
(* nobody gets anything else.                                              *)
(***************************************************************************)
EXTENDS Bank

VARIABLES mailed, texted   \* the notices that went out, each way

receiptsVars == <<bankVars, mailed, texted>>

\* A notice says what was booked.  "copies" is how often it went out.
Notice(t) == [to |-> account[t.fromAccount].owner, reference |-> t.reference,
              amount |-> t.amount, copies |-> 1]

ReceiptsInit == Init /\ mailed = {} /\ texted = {}

\* Several mails go out at once when a process ends while it sends them.
Mail(sent) == /\ mailed' = mailed \cup {Notice(t) : t \in sent}
              /\ UNCHANGED <<bankVars, texted>>

Text(t) == /\ texted' = texted \cup {Notice(t)}
           /\ UNCHANGED <<bankVars, mailed>>

ReceiptsNext == \/ Next /\ UNCHANGED <<mailed, texted>>
                \/ \E sent \in SUBSET transactions : Mail(sent)
                \/ \E t \in transactions : Text(t)

ReceiptsSpec == ReceiptsInit /\ [][ReceiptsNext]_receiptsVars
=============================================================================
