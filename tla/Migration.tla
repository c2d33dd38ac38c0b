----------------------------- MODULE Migration -----------------------------
(***************************************************************************)
(* The migration that creates FinBank's schema, statement by statement, as *)
(* typeorm's migration:run and migration:revert execute it: in one         *)
(* transaction, with a record of it in the table "migrations".  Several    *)
(* deployments may run it at once, on an empty database, on one that       *)
(* TYPEORM_SYNC made, or after a revert.                                   *)
(***************************************************************************)
EXTENDS Integers, Sequences

CONSTANT Runners   \* migration:run and migration:revert commands, one each

\* A statement creates or drops the object "name", which belongs to the table
\* "on" (itself, for a table or a type) and needs other objects.  A lenient
\* one says IF [NOT] EXISTS, or catches duplicate_object; ALTER TABLE does not,
\* and also its DROP CONSTRAINT IF EXISTS fails when the table is missing.
Create(n, t, needed, soft) == [op |-> "create", name |-> n, on |-> t,
                               needs |-> needed, lenient |-> soft]
Type(n)           == Create(n, n, {}, TRUE)
TextSlip(n, types)    == Create(n, n, {"uuid-ossp"}, TRUE)
Table(n, types)   == Create(n, n, types \cup {"uuid-ossp"}, TRUE)
LenientSlip(n, t, to) == Create(n, t, {t, to}, TRUE)
Foreign(n, t, to) == Create(n, t, {t, to}, FALSE)
Index(n, t)       == Create(n, t, {t}, TRUE)

Types == <<"users_role_enum", "account_type_enum", "account_status_enum",
           "transaction_status_enum", "ledger_entry_type_enum">>

Tables == <<Table("users", {"users_role_enum"}),
            Table("account", {"account_type_enum", "account_status_enum"}),
            Table("transaction", {"transaction_status_enum"}),
            Table("ledger_entry", {"ledger_entry_type_enum"}),
            Table("audit_log", {}), Table("notification_log", {})>>

Foreigns == <<Foreign("FK_account_owner", "account", "users"),
              Foreign("FK_ledger_entry_account", "ledger_entry", "account")>>

Indexes == <<Index("ux_transaction_idempotency_key", "transaction"),
             Index("idx_transaction_from_created_at", "transaction"),
             Index("idx_transaction_to_created_at", "transaction"),
             Index("idx_transaction_status_created_at", "transaction"),
             Index("idx_account_owner_status", "account"),
             Index("idx_account_status_created_at", "account"),
             Index("idx_ledger_reference", "ledger_entry"),
             Index("idx_ledger_account_created_at", "ledger_entry"),
             Index("idx_audit_user_created_at", "audit_log"),
             Index("idx_audit_action_created_at", "audit_log"),
             Index("idx_audit_correlation_id", "audit_log"),
             Index("idx_notification_recipient_created_at", "notification_log"),
             Index("idx_notification_status_provider", "notification_log"),
             Index("idx_notification_correlation_id", "notification_log")>>

up == <<Type("uuid-ossp")>> \o [i \in 1..Len(Types) |-> Type(Types[i])]
      \o Tables \o Foreigns \o Indexes

\* down drops what up creates in the opposite order, but for the extension.
Drop(s)  == [s EXCEPT !.op = "drop"]
ForwardSlip == [i \in 1..(Len(up) - 1) |-> Drop(up[i + 1])]
KeptTypesSlip == [i \in 1..(Len(up) - 6) |-> Drop(up[Len(up) + 1 - i])]
down     == [i \in 1..(Len(up) - 1) |-> Drop(up[Len(up) + 1 - i])]

Script(task) == IF task = "up" THEN up ELSE down

\* What synchronize makes of the entities: the same types and tables, foreign
\* keys with names of its own, and only the indexes the entities declare.
Synchronized ==
    {"uuid-ossp", "FK_sync_account", "FK_sync_ledger_entry"}
    \cup {Types[i] : i \in 1..Len(Types)} \cup {Tables[i].name : i \in 1..Len(Tables)}
    \cup {Indexes[i].name : i \in {1, 2, 3, 4, 7, 8, 9, 10}}

Defs == {up[i] : i \in 1..Len(up)}
        \cup {Foreign("FK_sync_account", "account", "users"),
              Foreign("FK_sync_ledger_entry", "ledger_entry", "account")}
Schema == {up[i].name : i \in 1..Len(up)}

VARIABLES objects,  \* the objects of the committed schema
          records,  \* rows of this migration in the table "migrations"
          tx        \* runner -> what it runs, and what it has done so far

vars == <<objects, records, tx>>

Idle  == [task |-> "none", next |-> 0, added |-> {}, dropped |-> {},
          held |-> {}, waited |-> FALSE, alone |-> TRUE]
Ended == [Idle EXCEPT !.task = "ended"]

Init == /\ objects \in {{}, Synchronized}
        /\ records = 0
        /\ tx = [r \in Runners |-> Idle]

-----------------------------------------------------------------------------
Open(r)      == tx[r].task \in {"up", "down"}
Statement(r) == Script(tx[r].task)[tx[r].next]
Pending(r)   == Open(r) /\ tx[r].next <= Len(Script(tx[r].task))

\* The schema as the transaction of r sees it.
Sees(r) == (objects \cup tx[r].added) \ tx[r].dropped

\* A table goes with its indexes and foreign keys; nothing else may need it.
Parts(s)      == {d.name : d \in {e \in Defs : e.on = s.name}} \cup {s.name}
Dependents(s) == {d.name : d \in {e \in Defs : s.name \in e.needs}} \ Parts(s)

\* A create that finds its type or table, and a drop that finds nothing, lock
\* nothing; any other statement locks its table, and the one it refers to.
Locks(r) ==
    LET s == Statement(r) IN
    CASE s.op = "create" /\ s.on = s.name /\ s.name \in Sees(r) /\ ~tx[r].waited -> {}
      [] s.op = "drop" /\ s.name \notin Sees(r)                                  -> {}
      [] OTHER -> {s.on} \cup IF s.on = s.name THEN {} ELSE s.needs
Blocked(r) == \E q \in Runners \ {r} : tx[q].held \cap Locks(r) # {}

\* The database refuses to create what is there (a type or table that appears
\* while the statement waits violates an index of the catalogue, which no
\* leniency covers) or lacks what it needs, and to drop what others need.
Refused(r) ==
    LET s == Statement(r) IN
    IF s.op = "create"
    THEN \/ s.name \in Sees(r) /\ ~s.lenient
         \/ s.name \in Sees(r) /\ s.on = s.name /\ tx[r].waited
         \/ ~(s.needs \subseteq Sees(r))
    ELSE \/ ~s.lenient /\ s.on \notin Sees(r)
         \/ s.name \in Sees(r) /\ Dependents(s) \cap Sees(r) # {}

Set(r, t) == tx' = [tx EXCEPT ![r] = t]

-----------------------------------------------------------------------------
\* migration:run finds no record, migration:revert finds one.  "alone" is a
\* history: no other command was open at any time since this one started.
Start(r) ==
    /\ tx[r] = Idle
    /\ tx' = [q \in Runners |->
                 IF q = r
                 THEN [Idle EXCEPT !.task  = IF records = 0 THEN "up" ELSE "down",
                                   !.next  = 1,
                                   !.alone = \A p \in Runners : ~Open(p)]
                 ELSE [tx[q] EXCEPT !.alone = @ /\ ~Open(q)]]
    /\ UNCHANGED <<objects, records>>

Wait(r) == /\ Pending(r) /\ Blocked(r) /\ ~tx[r].waited
           /\ Set(r, [tx[r] EXCEPT !.waited = TRUE])
           /\ UNCHANGED <<objects, records>>

Execute(r) ==
    LET s    == Statement(r)
        gone == IF s.op = "drop" THEN Parts(s) \cap Sees(r) ELSE {}
        new  == IF s.op = "create" THEN {s.name} \ Sees(r) ELSE {}
    IN  /\ Pending(r) /\ ~Blocked(r) /\ ~Refused(r)
        /\ Set(r, [tx[r] EXCEPT !.next = @ + 1, !.waited = FALSE,
                                !.held = @ \cup Locks(r),
                                !.added = (@ \cup new) \ gone,
                                !.dropped = (@ \cup gone) \ new])
        /\ UNCHANGED <<objects, records>>

\* The record is written, or deleted, in the transaction of the script.
Commit(r) ==
    /\ Open(r) /\ ~Pending(r)
    /\ objects' = Sees(r)
    /\ records' = IF tx[r].task = "up" THEN records + 1 ELSE 0
    /\ Set(r, Ended)

\* A statement is refused, the connection breaks, or the command is killed.
Abort(r) == /\ Open(r)
            /\ Set(r, Ended)
            /\ UNCHANGED <<objects, records>>

Next == \E r \in Runners : Start(r) \/ Wait(r) \/ Execute(r) \/ Commit(r) \/ Abort(r)

Spec == Init /\ [][Next]_vars

-----------------------------------------------------------------------------
\* What is recorded as applied is there, each type, table, unique index and
\* foreign key of it, also when two deployments migrate at once, one reverts
\* while another runs, and tables were there before.
RecordedIsComplete == records > 0 => Schema \subseteq objects

\* The migration is recorded once, although nothing keeps two deployments from
\* finding no record and running it together: ADD CONSTRAINT, the one statement
\* that is not lenient, fails the second.
AppliedOnce == records <= 1

\* A migration that runs alone is refused nothing, wherever the schema came
\* from: each statement finds what it needs, and no drop meets an object that
\* is still needed.
NeverRefused ==
    \A r \in Runners : Pending(r) /\ tx[r].alone => ~Refused(r)

\* A revert leaves nothing behind that a later migration, which takes what it
\* finds for its own, could find: one that is over leaves an empty schema.
RevertIsClean == [][records > 0 /\ records' = 0 => objects' \subseteq {"uuid-ossp"}]_vars
=============================================================================
