--------------------------- MODULE MigrationProofs ---------------------------
(***************************************************************************)
(* What holds of the migration however many deployments run or revert it   *)
(* at once: it is recorded once, what is recorded is there, a revert that  *)
(* is over leaves an empty schema, and a command that runs alone is        *)
(* refused nothing.                                                        *)
(*                                                                         *)
(* Nothing but the locks of the statements keeps the commands apart: who   *)
(* commits has a lock on the table "account" (HoldsToCommit), so that the  *)
(* committed schema stands still for whoever has that lock, and what its   *)
(* earlier statements found or made is there when it commits.              *)
(***************************************************************************)
EXTENDS Migration, TLAPS

-----------------------------------------------------------------------------
(* The script, put together from its parts.                                *)

TypeStatements == [i \in 1..Len(Types) |-> Type(Types[i])]

Statements == {Type("uuid-ossp")}
    \cup {TypeStatements[i] : i \in 1..5} \cup {Tables[i] : i \in 1..6}
    \cup {Foreigns[i] : i \in 1..2} \cup {Indexes[i] : i \in 1..14}

\* The parts of up are sequences of statements.
LEMMA ScriptParts ==
    /\ TypeStatements \in Seq(Statements) /\ Len(TypeStatements) = 5
    /\ Tables \in Seq(Statements) /\ Len(Tables) = 6
    /\ Foreigns \in Seq(Statements) /\ Len(Foreigns) = 2
    /\ Indexes \in Seq(Statements) /\ Len(Indexes) = 14
  <1>1. ASSUME NEW A, NEW B, A \subseteq B, NEW s \in Seq(A)
        PROVE  s \in Seq(B)
    <2>1. Len(s) \in Nat /\ DOMAIN s = 1..Len(s) /\ \A i \in 1..Len(s) : s[i] \in B
      BY <1>1
    <2>2. s = [i \in 1..Len(s) |-> s[i]]
      BY <2>1, <1>1
    <2> QED
      BY <2>1, <2>2
  <1>2. TypeStatements \in Seq({TypeStatements[i] : i \in 1..5}) /\ Len(TypeStatements) = 5
    <2>1. Len(Types) = 5
      BY DEF Types
    <2> QED
      BY <2>1 DEF TypeStatements
  <1>3. Tables \in Seq({Tables[i] : i \in 1..6}) /\ Len(Tables) = 6
    BY DEF Tables
  <1>4. Foreigns \in Seq({Foreigns[i] : i \in 1..2}) /\ Len(Foreigns) = 2
    BY DEF Foreigns
  <1>5. Indexes \in Seq({Indexes[i] : i \in 1..14}) /\ Len(Indexes) = 14
    BY DEF Indexes
  <1>6. /\ {TypeStatements[i] : i \in 1..5} \subseteq Statements
        /\ {Tables[i] : i \in 1..6} \subseteq Statements
        /\ {Foreigns[i] : i \in 1..2} \subseteq Statements
        /\ {Indexes[i] : i \in 1..14} \subseteq Statements
    BY Zenon DEF Statements
  <1> QED
    BY <1>1, <1>2, <1>3, <1>4, <1>5, <1>6

\* Two sequences, one after the other.
LEMMA Concatenation ==
    ASSUME NEW S, NEW s \in Seq(S), NEW t \in Seq(S)
    PROVE  /\ s \o t \in Seq(S) /\ Len(s \o t) = Len(s) + Len(t)
           /\ \A i \in 1..Len(s) : (s \o t)[i] = s[i]
           /\ \A i \in 1..Len(t) : (s \o t)[Len(s) + i] = t[i]
  OBVIOUS

\* u is a, b, c, d and e, one after the other.
Joined(u, a, b, c, d, e) ==
    /\ Len(u) = Len(a) + Len(b) + Len(c) + Len(d) + Len(e)
    /\ \A i \in 1..Len(a) : u[i] = a[i]
    /\ \A i \in 1..Len(b) : u[Len(a) + i] = b[i]
    /\ \A i \in 1..Len(c) : u[Len(a) + Len(b) + i] = c[i]
    /\ \A i \in 1..Len(d) : u[Len(a) + Len(b) + Len(c) + i] = d[i]
    /\ \A i \in 1..Len(e) : u[Len(a) + Len(b) + Len(c) + Len(d) + i] = e[i]

\* Five sequences, one after the other.
LEMMA FiveParts ==
    ASSUME NEW S, NEW a \in Seq(S), NEW b \in Seq(S), NEW c \in Seq(S), NEW d \in Seq(S),
           NEW e \in Seq(S)
    PROVE  Joined(a \o b \o c \o d \o e, a, b, c, d, e)
  <1>u. PICK u : u = a \o b \o c \o d \o e
    OBVIOUS
  <1>0. /\ Len(a) \in Nat /\ Len(b) \in Nat /\ Len(c) \in Nat /\ Len(d) \in Nat
        /\ Len(e) \in Nat
    OBVIOUS
  <1>1. PICK ab : ab = a \o b
    OBVIOUS
  <1>2. ab \in Seq(S)
    BY <1>1
  <1>3. /\ Len(ab) = Len(a) + Len(b)
        /\ \A i \in 1..Len(a) : ab[i] = a[i]
        /\ \A i \in 1..Len(b) : ab[Len(a) + i] = b[i]
    BY <1>1, Concatenation
  <1>4. PICK abc : abc = ab \o c
    OBVIOUS
  <1>5. abc \in Seq(S)
    BY <1>2, <1>4
  <1>6. /\ Len(abc) = Len(ab) + Len(c)
        /\ \A i \in 1..Len(ab) : abc[i] = ab[i]
        /\ \A i \in 1..Len(c) : abc[Len(ab) + i] = c[i]
    BY <1>2, <1>4, Concatenation
  <1>7. PICK abcd : abcd = abc \o d
    OBVIOUS
  <1>8. abcd \in Seq(S)
    BY <1>5, <1>7
  <1>9. /\ Len(abcd) = Len(abc) + Len(d)
        /\ \A i \in 1..Len(abc) : abcd[i] = abc[i]
        /\ \A i \in 1..Len(d) : abcd[Len(abc) + i] = d[i]
    BY <1>5, <1>7, Concatenation
  <1>10. u = abcd \o e
    BY <1>u, <1>1, <1>4, <1>7
  <1>11. /\ Len(u) = Len(abcd) + Len(e)
         /\ \A i \in 1..Len(abcd) : u[i] = abcd[i]
         /\ \A i \in 1..Len(e) : u[Len(abcd) + i] = e[i]
    BY <1>8, <1>10, Concatenation
  <1>12. Len(u) = Len(a) + Len(b) + Len(c) + Len(d) + Len(e)
    BY <1>0, <1>3, <1>6, <1>9, <1>11
  <1>13. /\ Len(ab) \in Nat /\ Len(abc) \in Nat /\ Len(abcd) \in Nat
         /\ Len(abc) = Len(a) + Len(b) + Len(c)
         /\ Len(abcd) = Len(a) + Len(b) + Len(c) + Len(d)
    BY <1>0, <1>3, <1>6, <1>9
  <1>14. \A i \in 1..Len(a) : u[i] = a[i]
    BY <1>0, <1>3, <1>6, <1>9, <1>11
  <1>15. \A i \in 1..Len(b) : u[Len(a) + i] = b[i]
    <2> TAKE i \in 1..Len(b)
    <2>1. Len(a) + i \in 1..Len(ab)
      BY <1>0, <1>3
    <2>2. Len(a) + i \in 1..Len(abc) /\ Len(a) + i \in 1..Len(abcd)
      BY <1>0, <1>3, <1>13
    <2> QED
      BY <2>1, <2>2, <1>3, <1>6, <1>9, <1>11, Zenon
  <1>16. \A i \in 1..Len(c) : u[Len(a) + Len(b) + i] = c[i]
    <2> TAKE i \in 1..Len(c)
    <2>1. Len(ab) + i \in 1..Len(abc)
      BY <1>0, <1>3, <1>13
    <2>2. Len(ab) + i \in 1..Len(abcd)
      BY <1>0, <1>3, <1>13
    <2> QED
      BY <2>1, <2>2, <1>3, <1>6, <1>9, <1>11, Zenon
  <1>17. \A i \in 1..Len(d) : u[Len(a) + Len(b) + Len(c) + i] = d[i]
    <2> TAKE i \in 1..Len(d)
    <2>1. Len(abc) + i \in 1..Len(abcd)
      BY <1>0, <1>13
    <2> QED
      BY <2>1, <1>13, <1>9, <1>11, Zenon
  <1>18. \A i \in 1..Len(e) : u[Len(a) + Len(b) + Len(c) + Len(d) + i] = e[i]
    BY <1>13, <1>11, Zenon
  <1> QED
    BY <1>u, <1>12, <1>14, <1>15, <1>16, <1>17, <1>18 DEF Joined

\* Where in up the statements of each part stand.
LEMMA UpParts ==
    /\ Len(up) = 28
    /\ up[1] = Type("uuid-ossp")
    /\ \A i \in 1..5 : up[1 + i] = TypeStatements[i]
    /\ \A i \in 1..6 : up[6 + i] = Tables[i]
    /\ \A i \in 1..2 : up[12 + i] = Foreigns[i]
    /\ \A i \in 1..14 : up[14 + i] = Indexes[i]
  <1>1. PICK a : a = <<Type("uuid-ossp")>>
    OBVIOUS
  <1>2. Type("uuid-ossp") \in Statements
    BY Zenon DEF Statements
  <1>3. a \in Seq(Statements)
    BY <1>1, <1>2
  <1>4. Len(a) = 1 /\ a[1] = Type("uuid-ossp")
    BY <1>1
  <1>5. up = a \o TypeStatements \o Tables \o Foreigns \o Indexes
    BY <1>1, Zenon DEF up, TypeStatements
  <1>6. Joined(up, a, TypeStatements, Tables, Foreigns, Indexes)
    <2>1. /\ TypeStatements \in Seq(Statements) /\ Tables \in Seq(Statements)
          /\ Foreigns \in Seq(Statements) /\ Indexes \in Seq(Statements)
      BY ScriptParts
    <2> QED
      BY <1>3, <1>5, <2>1, FiveParts, Zenon
  <1>7. /\ Len(TypeStatements) = 5 /\ Len(Tables) = 6
        /\ Len(Foreigns) = 2 /\ Len(Indexes) = 14
    BY ScriptParts
  <1>8. Len(up) = 28
    BY <1>4, <1>6, <1>7 DEF Joined
  <1>9. up[1] = Type("uuid-ossp")
    BY <1>4, <1>6 DEF Joined
  <1>10. \A i \in 1..5 : up[1 + i] = TypeStatements[i]
    BY <1>4, <1>6, <1>7 DEF Joined
  <1>11. \A i \in 1..6 : up[6 + i] = Tables[i]
    BY <1>4, <1>6, <1>7 DEF Joined
  <1>12. \A i \in 1..2 : up[12 + i] = Foreigns[i]
    BY <1>4, <1>6, <1>7 DEF Joined
  <1>13. \A i \in 1..14 : up[14 + i] = Indexes[i]
    BY <1>4, <1>6, <1>7 DEF Joined
  <1> QED
    BY <1>8, <1>9, <1>10, <1>11, <1>12, <1>13

-----------------------------------------------------------------------------
(* What the proofs need to know of the script.                             *)

TypesAndTables == {up[i].name : i \in 2..12}
ForeignKeys    == {up[13].name, up[14].name}
TableNames     == {up[i].name : i \in 7..12}

\* up, statement by statement.
LEMMA UpScript ==
    /\ Len(up) = 28
    /\ up[1] = Type("uuid-ossp")
    /\ up[2] = Type("users_role_enum")
    /\ up[3] = Type("account_type_enum")
    /\ up[4] = Type("account_status_enum")
    /\ up[5] = Type("transaction_status_enum")
    /\ up[6] = Type("ledger_entry_type_enum")
    /\ up[7] = Table("users", {"users_role_enum"})
    /\ up[8] = Table("account", {"account_type_enum", "account_status_enum"})
    /\ up[9] = Table("transaction", {"transaction_status_enum"})
    /\ up[10] = Table("ledger_entry", {"ledger_entry_type_enum"})
    /\ up[11] = Table("audit_log", {})
    /\ up[12] = Table("notification_log", {})
    /\ up[13] = Foreign("FK_account_owner", "account", "users")
    /\ up[14] = Foreign("FK_ledger_entry_account", "ledger_entry", "account")
    /\ up[15] = Index("ux_transaction_idempotency_key", "transaction")
    /\ up[16] = Index("idx_transaction_from_created_at", "transaction")
    /\ up[17] = Index("idx_transaction_to_created_at", "transaction")
    /\ up[18] = Index("idx_transaction_status_created_at", "transaction")
    /\ up[19] = Index("idx_account_owner_status", "account")
    /\ up[20] = Index("idx_account_status_created_at", "account")
    /\ up[21] = Index("idx_ledger_reference", "ledger_entry")
    /\ up[22] = Index("idx_ledger_account_created_at", "ledger_entry")
    /\ up[23] = Index("idx_audit_user_created_at", "audit_log")
    /\ up[24] = Index("idx_audit_action_created_at", "audit_log")
    /\ up[25] = Index("idx_audit_correlation_id", "audit_log")
    /\ up[26] = Index("idx_notification_recipient_created_at", "notification_log")
    /\ up[27] = Index("idx_notification_status_provider", "notification_log")
    /\ up[28] = Index("idx_notification_correlation_id", "notification_log")
  <1>1. /\ up[2] = Type(Types[1]) /\ up[3] = Type(Types[2]) /\ up[4] = Type(Types[3])
        /\ up[5] = Type(Types[4]) /\ up[6] = Type(Types[5])
    <2>1. Len(Types) = 5
      BY DEF Types
    <2>2. \A i \in 1..5 : up[1 + i] = Type(Types[i])
      BY UpParts, <2>1 DEF TypeStatements
    <2> QED
      BY <2>2
  <1>2. /\ up[2] = Type("users_role_enum") /\ up[3] = Type("account_type_enum")
        /\ up[4] = Type("account_status_enum") /\ up[5] = Type("transaction_status_enum")
        /\ up[6] = Type("ledger_entry_type_enum")
    BY <1>1 DEF Types
  <1>3. /\ up[7] = Tables[1] /\ up[8] = Tables[2] /\ up[9] = Tables[3]
        /\ up[10] = Tables[4] /\ up[11] = Tables[5] /\ up[12] = Tables[6]
    BY UpParts
  <1>4. /\ up[7] = Table("users", {"users_role_enum"})
        /\ up[8] = Table("account", {"account_type_enum", "account_status_enum"})
        /\ up[9] = Table("transaction", {"transaction_status_enum"})
        /\ up[10] = Table("ledger_entry", {"ledger_entry_type_enum"})
        /\ up[11] = Table("audit_log", {})
        /\ up[12] = Table("notification_log", {})
    BY <1>3, Zenon DEF Tables
  <1>5. /\ up[13] = Foreigns[1] /\ up[14] = Foreigns[2]
    BY UpParts
  <1>6. /\ up[15] = Indexes[1] /\ up[16] = Indexes[2] /\ up[17] = Indexes[3]
        /\ up[18] = Indexes[4] /\ up[19] = Indexes[5] /\ up[20] = Indexes[6]
        /\ up[21] = Indexes[7] /\ up[22] = Indexes[8] /\ up[23] = Indexes[9]
        /\ up[24] = Indexes[10] /\ up[25] = Indexes[11] /\ up[26] = Indexes[12]
        /\ up[27] = Indexes[13] /\ up[28] = Indexes[14]
    BY UpParts
  <1> QED
    BY UpParts, <1>2, <1>4, <1>5, <1>6, Zenon DEF Foreigns, Indexes

\* What each kind of statement is about and needs.
LEMMA Rows ==
    /\ \A i \in 1..28 : up[i].op = "create"
    /\ up[1].name = "uuid-ossp" /\ up[1].on = "uuid-ossp" /\ up[1].needs = {} /\ up[1].lenient
    /\ \A i \in 2..6 : up[i].on = up[i].name /\ up[i].needs = {} /\ up[i].lenient
    /\ \A i \in 7..12 : /\ up[i].on = up[i].name /\ up[i].lenient
                        /\ "uuid-ossp" \in up[i].needs
                        /\ up[i].needs \subseteq {up[k].name : k \in 1..6}
    /\ \A i \in 13..28 : /\ up[i].on \in TableNames /\ up[i].on # up[i].name
                         /\ up[i].on \in up[i].needs
                         /\ up[i].needs \subseteq TableNames
    /\ \A i \in 15..28 : up[i].lenient /\ up[i].needs = {up[i].on}
  <1>1. \A i \in 1..28 : up[i].op = "create"
    BY UpScript DEF Type, Table, Foreign, Index, Create
  <1>2. /\ up[1].name = "uuid-ossp" /\ up[1].on = "uuid-ossp" /\ up[1].needs = {}
        /\ up[1].lenient
    BY UpScript DEF Type, Create
  <1>3. \A i \in 2..6 : up[i].on = up[i].name /\ up[i].needs = {} /\ up[i].lenient
    BY UpScript DEF Type, Create
  <1>4. \A i \in 7..12 : /\ up[i].on = up[i].name /\ up[i].lenient
                         /\ "uuid-ossp" \in up[i].needs
    BY UpScript DEF Table, Create
  <1>5. \A i \in 7..12 : up[i].needs \subseteq {up[k].name : k \in 1..6}
    <2>1. {up[k].name : k \in 1..6} =
              {"uuid-ossp", "users_role_enum", "account_type_enum", "account_status_enum",
               "transaction_status_enum", "ledger_entry_type_enum"}
      BY UpScript DEF Type, Create
    <2> QED
      BY UpScript, <2>1 DEF Table, Create
  <1>6. TableNames = {"users", "account", "transaction", "ledger_entry", "audit_log",
                      "notification_log"}
    BY UpScript DEF TableNames, Table, Create
  <1>7. \A i \in 13..14 : /\ up[i].on \in TableNames /\ up[i].on # up[i].name
                          /\ up[i].on \in up[i].needs
                          /\ up[i].needs \subseteq TableNames
    BY UpScript, <1>6 DEF Foreign, Create
  <1>8. \A i \in 15..28 : /\ up[i].on \in TableNames /\ up[i].on # up[i].name
                          /\ up[i].on \in up[i].needs
                          /\ up[i].needs \subseteq TableNames
                          /\ up[i].lenient /\ up[i].needs = {up[i].on}
    BY UpScript, <1>6 DEF Index, Create
  <1> QED
    BY <1>1, <1>2, <1>3, <1>4, <1>5, <1>7, <1>8

\* The statements of the proofs by name.
LEMMA Names ==
    /\ up[7].name = "users" /\ up[8].name = "account" /\ up[10].name = "ledger_entry"
    /\ up[13].name = "FK_account_owner" /\ up[13].on = "account"
    /\ up[13].needs = {"account", "users"} /\ ~up[13].lenient
    /\ up[14].name = "FK_ledger_entry_account" /\ up[14].on = "ledger_entry"
    /\ up[14].needs = {"ledger_entry", "account"} /\ ~up[14].lenient
  BY UpScript DEF Table, Foreign, Create

\* No two statements create the same object.
LEMMA NamesDiffer == \A i, j \in 1..28 : up[i].name = up[j].name => i = j
  <1>1. /\ up[1].name = "uuid-ossp" /\ up[2].name = "users_role_enum"
        /\ up[3].name = "account_type_enum" /\ up[4].name = "account_status_enum"
        /\ up[5].name = "transaction_status_enum" /\ up[6].name = "ledger_entry_type_enum"
        /\ up[7].name = "users" /\ up[8].name = "account" /\ up[9].name = "transaction"
        /\ up[10].name = "ledger_entry" /\ up[11].name = "audit_log"
        /\ up[12].name = "notification_log"
        /\ up[13].name = "FK_account_owner" /\ up[14].name = "FK_ledger_entry_account"
    BY UpScript DEF Type, Table, Foreign, Create
  <1>2. /\ up[15].name = "ux_transaction_idempotency_key"
        /\ up[16].name = "idx_transaction_from_created_at"
        /\ up[17].name = "idx_transaction_to_created_at"
        /\ up[18].name = "idx_transaction_status_created_at"
        /\ up[19].name = "idx_account_owner_status"
        /\ up[20].name = "idx_account_status_created_at"
        /\ up[21].name = "idx_ledger_reference"
        /\ up[22].name = "idx_ledger_account_created_at"
        /\ up[23].name = "idx_audit_user_created_at"
        /\ up[24].name = "idx_audit_action_created_at"
        /\ up[25].name = "idx_audit_correlation_id"
        /\ up[26].name = "idx_notification_recipient_created_at"
        /\ up[27].name = "idx_notification_status_provider"
        /\ up[28].name = "idx_notification_correlation_id"
    BY UpScript DEF Index, Create
  <1> QED
    BY <1>1, <1>2

\* down is up read backwards, but for the extension.
LEMMA DownScript ==
    /\ Len(down) = 27
    /\ \A j \in 1..27 : /\ down[j].op = "drop"
                        /\ down[j].name = up[29 - j].name
                        /\ down[j].on = up[29 - j].on
                        /\ down[j].needs = up[29 - j].needs
                        /\ down[j].lenient = up[29 - j].lenient
  <1>1. Len(up) = 28
    BY UpScript
  <1>2. down = [j \in 1..27 |-> Drop(up[29 - j])]
    BY <1>1 DEF down
  <1>3. \A i \in 1..28 : {"op", "name", "on", "needs", "lenient"} \subseteq DOMAIN up[i]
    BY UpScript DEF Type, Table, Foreign, Index, Create
  <1>4. ASSUME NEW j \in 1..27
        PROVE  /\ Drop(up[29 - j]).op = "drop"
               /\ Drop(up[29 - j]).name = up[29 - j].name
               /\ Drop(up[29 - j]).on = up[29 - j].on
               /\ Drop(up[29 - j]).needs = up[29 - j].needs
               /\ Drop(up[29 - j]).lenient = up[29 - j].lenient
    <2>1. {"op", "name", "on", "needs", "lenient"} \subseteq DOMAIN up[29 - j]
      BY <1>3, 29 - j \in 1..28
    <2> QED
      BY <2>1 DEF Drop
  <1> QED
    BY <1>2, <1>4

\* The objects the script and synchronize know, and the foreign keys that
\* synchronize names.
Known == {d.name : d \in Defs}
SyncForeigns == {Foreign("FK_sync_account", "account", "users"),
                 Foreign("FK_sync_ledger_entry", "ledger_entry", "account")}

\* The tables of those foreign keys.
LEMMA SyncRows ==
    \A d \in SyncForeigns :
        /\ d.name \in {"FK_sync_account", "FK_sync_ledger_entry"}
        /\ d.name # "uuid-ossp"
        /\ \/ d.on = up[8].name /\ d.needs = {up[7].name, up[8].name}
           \/ d.on = up[10].name /\ d.needs = {up[8].name, up[10].name}
  BY Names DEF SyncForeigns, Foreign, Create

\* There is nothing else.
LEMMA DefsAre == Defs = {up[i] : i \in 1..28} \cup SyncForeigns
  BY UpScript DEF Defs, SyncForeigns

\* Whatever belongs to a table belongs to a later table than those it needs.
LEMMA NeedsEarlierTable ==
    ASSUME NEW d \in Defs, NEW i \in 7..12, up[i].name \in d.needs
    PROVE  \E m \in i..12 : d.on = up[m].name
  <1>1. CASE d \in SyncForeigns
    <2>1. CASE d.on = up[8].name /\ d.needs = {up[7].name, up[8].name}
      <3>1. i = 7 \/ i = 8
        BY <2>1, NamesDiffer
      <3> QED
        BY <2>1, <3>1
    <2>2. CASE d.on = up[10].name /\ d.needs = {up[8].name, up[10].name}
      <3>1. i = 8 \/ i = 10
        BY <2>2, NamesDiffer
      <3> QED
        BY <2>2, <3>1
    <2> QED
      BY <1>1, <2>1, <2>2, SyncRows
  <1>2. ASSUME NEW k \in 1..28, d = up[k]
        PROVE  \E m \in i..12 : d.on = up[m].name
    <2>1. CASE k \in 1..6
      BY <1>2, <2>1, Rows
    <2>2. CASE k \in 7..12
      <3>1. \E l \in 1..6 : up[i].name = up[l].name
        BY <1>2, <2>2, Rows
      <3> QED
        BY <3>1, NamesDiffer
    <2>3. CASE k = 13
      <3>1. up[i].name = up[8].name \/ up[i].name = up[7].name
        BY <1>2, <2>3, Names
      <3>2. i = 8 \/ i = 7
        BY <3>1, NamesDiffer
      <3> QED
        BY <1>2, <2>3, <3>2, Names
    <2>4. CASE k = 14
      <3>1. up[i].name = up[8].name \/ up[i].name = up[10].name
        BY <1>2, <2>4, Names
      <3>2. i = 8 \/ i = 10
        BY <3>1, NamesDiffer
      <3> QED
        BY <1>2, <2>4, <3>2, Names
    <2>5. CASE k \in 15..28
      BY <1>2, <2>5, Rows
    <2> QED
      BY <2>1, <2>2, <2>3, <2>4, <2>5
  <1> QED
    BY <1>1, <1>2, DefsAre

\* No object but a type, a table or the extension is needed by another, and
\* nothing but the extension belongs to the extension.
LEMMA WhatIsNeeded ==
    \A d \in Defs :
        /\ d.needs \subseteq {up[k].name : k \in 1..12}
        /\ d.name # "uuid-ossp" => d.on \in TypesAndTables
        /\ d.name = "uuid-ossp" => d.on = "uuid-ossp"
  <1>1. ASSUME NEW d \in SyncForeigns
        PROVE  /\ d.needs \subseteq {up[k].name : k \in 1..12}
               /\ d.name # "uuid-ossp" /\ d.on \in TypesAndTables
    BY SyncRows DEF TypesAndTables
  <1>2. ASSUME NEW k \in 1..28
        PROVE  /\ up[k].needs \subseteq {up[l].name : l \in 1..12}
               /\ k # 1 => up[k].name # "uuid-ossp" /\ up[k].on \in TypesAndTables
               /\ k = 1 => up[k].on = "uuid-ossp"
    <2>1. TableNames \subseteq TypesAndTables /\ TableNames \subseteq {up[l].name : l \in 1..12}
      BY DEF TableNames, TypesAndTables
    <2>2. up[k].needs \subseteq {up[l].name : l \in 1..12}
      <3>1. CASE k \in 1..6
        BY <3>1, Rows
      <3>2. CASE k \in 7..12
        BY <3>2, Rows
      <3>3. CASE k \in 13..28
        BY <3>3, <2>1, Rows
      <3> QED
        BY <3>1, <3>2, <3>3
    <2>3. k # 1 => up[k].name # "uuid-ossp"
      BY Rows, NamesDiffer
    <2>4. k # 1 => up[k].on \in TypesAndTables
      <3>1. CASE k \in 2..12
        <4>1. up[k].on = up[k].name
          BY <3>1, Rows
        <4> QED
          BY <3>1, <4>1 DEF TypesAndTables
      <3>2. CASE k \in 13..28
        BY <3>2, <2>1, Rows
      <3> QED
        BY <3>1, <3>2
    <2> QED
      BY <2>2, <2>3, <2>4, Rows
  <1> TAKE d \in Defs
  <1>3. CASE d \in SyncForeigns
    BY <1>1, <1>3
  <1>4. CASE \E k \in 1..28 : d = up[k]
    <2>1. PICK k \in 1..28 : d = up[k]
      BY <1>4
    <2>2. up[k].needs \subseteq {up[l].name : l \in 1..12}
      BY <1>2
    <2>3. CASE k = 1
      BY <2>1, <2>2, <2>3, Rows
    <2>4. CASE k # 1
      BY <1>2, <2>1, <2>2, <2>4
    <2> QED
      BY <2>3, <2>4
  <1> QED
    BY <1>3, <1>4, DefsAre

\* What a drop takes along: nothing but the object, unless it is a table.
LEMMA DropsTake ==
    /\ \A j \in 1..16 : Parts(down[j]) = {down[j].name} /\ Dependents(down[j]) = {}
    /\ \A j \in 17..27 : down[j].on = down[j].name /\ down[j].name \in TypesAndTables
    /\ \A j \in 1..27 : "uuid-ossp" \notin Parts(down[j]) /\ down[j].name \in Parts(down[j])
  <1>1. ASSUME NEW j \in 1..16
        PROVE  Parts(down[j]) = {down[j].name} /\ Dependents(down[j]) = {}
    <2>1. down[j].name = up[29 - j].name /\ 29 - j \in 13..28
      BY DownScript
    <2>2. \A k \in 1..12 : up[k].name # up[29 - j].name
      BY <2>1, NamesDiffer
    <2>3. \A d \in Defs : d.on # down[j].name
      BY <2>1, <2>2, WhatIsNeeded, Rows DEF TypesAndTables
    <2>4. \A d \in Defs : down[j].name \notin d.needs
      BY <2>1, <2>2, WhatIsNeeded
    <2> QED
      BY <2>3, <2>4 DEF Parts, Dependents
  <1>2. ASSUME NEW j \in 17..27
        PROVE  down[j].on = down[j].name /\ down[j].name \in TypesAndTables
    <2>1. down[j].name = up[29 - j].name /\ 29 - j \in 2..12 /\ down[j].on = up[29 - j].on
      BY DownScript
    <2>2. up[29 - j].on = up[29 - j].name
      BY <2>1, Rows
    <2> QED
      BY <2>1, <2>2 DEF TypesAndTables
  <1>3. ASSUME NEW j \in 1..27
        PROVE  "uuid-ossp" \notin Parts(down[j]) /\ down[j].name \in Parts(down[j])
    <2>1. down[j].name = up[29 - j].name /\ 29 - j \in 2..28
      BY DownScript
    <2>2. down[j].name # "uuid-ossp"
      BY <2>1, Rows, NamesDiffer
    <2> QED
      BY <2>2, WhatIsNeeded DEF Parts
  <1> QED
    BY <1>1, <1>2, <1>3

\* What still needs an object when down drops it went with an earlier table.
LEMMA DropsInOrder ==
    ASSUME NEW j \in 17..27, NEW x \in Dependents(down[j])
    PROVE  \E k \in 17..(j - 1) : x \in Parts(down[k])
  <1>1. down[j].name = up[29 - j].name /\ 29 - j \in 2..12
    BY DownScript
  <1>2. PICK d \in Defs : d.name = x /\ down[j].name \in d.needs
    BY DEF Dependents
  <1>3. d.on # down[j].name
    BY <1>2 DEF Dependents, Parts
  <1>4. CASE j \in 17..22
    <2>1. PICK m \in (29 - j)..12 : d.on = up[m].name
      BY <1>1, <1>2, <1>4, NeedsEarlierTable
    <2>2. m # 29 - j
      BY <1>1, <1>3, <2>1
    <2>3. 29 - m \in 17..(j - 1) /\ down[29 - m].name = up[29 - (29 - m)].name /\ 29 - (29 - m) = m
      BY <1>4, <2>1, <2>2, DownScript
    <2> QED
      BY <1>2, <2>1, <2>3 DEF Parts
  <1>5. CASE j \in 23..27
    <2>1. 29 - j \in 2..6
      BY <1>5
    <2>2. PICK k \in 1..28 : d = up[k]
      <3>1. d \notin SyncForeigns
        BY <1>1, <1>2, <2>1, SyncRows, NamesDiffer
      <3> QED
        BY <3>1, DefsAre
    <2>3. k \in 7..12
      <3>1. k \notin 1..6
        BY <1>2, <2>2, Rows
      <3>2. k \notin 13..28
        BY <1>1, <1>2, <2>1, <2>2, Rows, NamesDiffer DEF TableNames
      <3> QED
        BY <3>1, <3>2
    <2>4. 29 - k \in 17..(j - 1) /\ down[29 - k].name = up[29 - (29 - k)].name /\ 29 - (29 - k) = k
      BY <1>5, <2>3, DownScript
    <2> QED
      BY <1>2, <2>2, <2>4 DEF Parts
  <1> QED
    BY <1>4, <1>5

\* Whoever drops the types and the tables drops all there is.
LEMMA DropsAll ==
    \A x \in Known : x = "uuid-ossp" \/ \E j \in 17..27 : x \in Parts(down[j])
  <1> SUFFICES ASSUME NEW d \in Defs, d.name # "uuid-ossp"
               PROVE  \E j \in 17..27 : d.name \in Parts(down[j])
    BY DEF Known
  <1>1. PICK i \in 2..12 : d.on = up[i].name
    BY WhatIsNeeded DEF TypesAndTables
  <1>2. 29 - i \in 17..27 /\ down[29 - i].name = up[29 - (29 - i)].name /\ 29 - (29 - i) = i
    BY DownScript
  <1> QED
    BY <1>1, <1>2 DEF Parts

-----------------------------------------------------------------------------
(* The invariant.                                                          *)

Row == [task : {"none", "up", "down", "ended"}, next : Nat, added : SUBSET Known,
        dropped : SUBSET Known, held : SUBSET Known, waited : BOOLEAN, alone : BOOLEAN]

TypeOK == /\ objects \in SUBSET Known
          /\ records \in Nat
          /\ tx \in [Runners -> Row]

Migrates(r) == tx[r].task = "up"
Reverts(r)  == tx[r].task = "down"

\* How far a command is, and what it can have created or dropped there.
ProgressInv(r) ==
    /\ ~Open(r) => tx[r].held = {}
    /\ Migrates(r) => /\ tx[r].next \in 1..29
                      /\ tx[r].dropped = {}
                      /\ tx[r].added \subseteq {up[i].name : i \in 1..(tx[r].next - 1)}
    /\ Reverts(r) => /\ tx[r].next \in 1..28
                     /\ tx[r].added = {}
                     /\ "uuid-ossp" \notin tx[r].dropped
                     /\ tx[r].next <= 15 => tx[r].dropped \cap ForeignKeys = {}
                     /\ tx[r].next <= 17 => tx[r].dropped \cap TypesAndTables = {}

\* No two commands hold the same lock, and to commit takes one on "account".
LocksInv(r) ==
    /\ \A q \in Runners \ {r} : tx[q].held \cap tx[r].held = {}
    /\ Migrates(r) /\ tx[r].next > 13 => "account" \in tx[r].held
    /\ Reverts(r) /\ tx[r].next > 15 => "account" \in tx[r].held

\* A migration made the types of a table that it made; from when it makes the
\* table account, or finds it and adds its foreign key, the schema stands still,
\* and what its statements found or made is there.
MakesInv(r) ==
    Migrates(r) =>
        /\ \A i \in 7..12 : up[i].name \in tx[r].added =>
                                up[i].needs \ {"uuid-ossp"} \subseteq tx[r].added
        /\ "account" \in tx[r].added => "account" \in tx[r].held /\ "account" \notin objects
        /\ "account" \in tx[r].held /\ tx[r].next <= 13 => "account" \in tx[r].added
        /\ tx[r].next > 1 => "uuid-ossp" \in Sees(r)
        /\ "account" \in tx[r].added => \A i \in 8..(tx[r].next - 1) : up[i].name \in Sees(r)
        /\ tx[r].next > 13 => /\ records = 0
                              /\ "FK_account_owner" \in tx[r].added
                              /\ \A i \in 1..(tx[r].next - 1) : up[i].name \in Sees(r)

\* What a revert dropped with a type or a table is gone.
DropsInv(r) ==
    Reverts(r) => \A j \in 17..(tx[r].next - 1) : Parts(down[j]) \cap Sees(r) = {}

\* The committed schema is whole, or has nothing of what the record stands for.
SchemaInv ==
    /\ TypesAndTables \subseteq objects \/ TypesAndTables \cap objects = {}
    /\ records <= 1
    /\ records > 0 => Schema \subseteq objects
    /\ records = 0 => ForeignKeys \cap objects = {}
    /\ (\E r \in Runners : Reverts(r)) /\ "ledger_entry" \in objects
          => "FK_ledger_entry_account" \in objects

\* A command that runs alone finds what it left, and what its start found.
AloneInv(r) ==
    Open(r) /\ tx[r].alone =>
        /\ \A q \in Runners \ {r} : ~Open(q)
        /\ ~tx[r].waited
        /\ Migrates(r) => /\ records = 0
                          /\ \A i \in 1..(tx[r].next - 1) : up[i].name \in Sees(r)
        /\ Reverts(r) => records > 0

RunnerInv(r) == /\ ProgressInv(r) /\ LocksInv(r) /\ MakesInv(r)
                /\ DropsInv(r) /\ AloneInv(r)

Inv == TypeOK /\ SchemaInv /\ \A r \in Runners : RunnerInv(r)

-----------------------------------------------------------------------------
(* What each action does.                                                  *)

\* Whatever a statement names is known.
LEMMA KnownNames ==
    /\ \A i \in 1..28 : /\ up[i].name \in Known /\ up[i].on \in Known
                        /\ up[i].needs \subseteq Known
    /\ \A s : Parts(s) \subseteq Known \cup {s.name}
    /\ TypesAndTables \subseteq Known /\ ForeignKeys \subseteq Known
    /\ Schema = {up[i].name : i \in 1..28} /\ Schema \subseteq Known
  <1>1. \A i \in 1..28 : up[i] \in Defs
    BY DefsAre
  <1>2. \A i \in 1..28 : up[i].name \in Known
    BY <1>1 DEF Known
  <1>3. TypesAndTables \subseteq Known /\ ForeignKeys \subseteq Known
    BY <1>2 DEF TypesAndTables, ForeignKeys
  <1>4. Schema = {up[i].name : i \in 1..28} /\ Schema \subseteq Known
    BY <1>2, UpScript DEF Schema
  <1>5. "uuid-ossp" \in Known
    BY <1>2, Rows
  <1>6. ASSUME NEW i \in 1..28
        PROVE  up[i].on \in Known /\ up[i].needs \subseteq Known
    <2>1. up[i].needs \subseteq {up[k].name : k \in 1..12}
      BY <1>1, WhatIsNeeded
    <2>2. up[i].needs \subseteq Known
      BY <1>2, <2>1
    <2>3. up[i].on \in TypesAndTables \/ up[i].on = "uuid-ossp"
      BY <1>1, WhatIsNeeded
    <2> QED
      BY <1>3, <1>5, <2>2, <2>3
  <1>7. \A s : Parts(s) \subseteq Known \cup {s.name}
    BY DEF Parts, Known
  <1> QED
    BY <1>2, <1>3, <1>4, <1>6, <1>7

\* What a command executes next.
LEMMA StatementNow ==
    ASSUME NEW r \in Runners, TypeOK, ProgressInv(r), Open(r)
    PROVE  /\ Migrates(r) \/ Reverts(r)
           /\ Migrates(r) => /\ Pending(r) <=> tx[r].next \in 1..28
                             /\ ~Pending(r) <=> tx[r].next = 29
                             /\ Statement(r) = up[tx[r].next]
           /\ Reverts(r) => /\ Pending(r) <=> tx[r].next \in 1..27
                            /\ ~Pending(r) <=> tx[r].next = 28
                            /\ Statement(r) = down[tx[r].next]
  <1>1. (Migrates(r) \/ Reverts(r)) /\ tx[r].next \in Nat
    BY DEF Open, Migrates, Reverts, TypeOK, Row
  <1>2. ASSUME Migrates(r)
        PROVE  Script(tx[r].task) = up /\ tx[r].next \in 1..29
    BY <1>2 DEF Migrates, Script, ProgressInv
  <1>3. ASSUME Reverts(r)
        PROVE  Script(tx[r].task) = down /\ tx[r].next \in 1..28
    BY <1>3 DEF Reverts, Script, ProgressInv
  <1>4. Len(up) = 28 /\ Len(down) = 27
    BY UpScript, DownScript
  <1>5. Pending(r) <=> tx[r].next <= Len(Script(tx[r].task))
    BY DEF Pending
  <1>6. Statement(r) = Script(tx[r].task)[tx[r].next]
    BY DEF Statement
  <1>7. CASE Migrates(r)
    <2>1. ~Reverts(r)
      BY <1>7 DEF Migrates, Reverts
    <2>2. /\ Pending(r) <=> tx[r].next <= 28
          /\ Statement(r) = up[tx[r].next] /\ tx[r].next \in 1..29
      BY <1>2, <1>4, <1>5, <1>6, <1>7
    <2> QED
      BY <1>1, <2>1, <2>2
  <1>8. CASE Reverts(r)
    <2>1. ~Migrates(r)
      BY <1>8 DEF Migrates, Reverts
    <2>2. /\ Pending(r) <=> tx[r].next <= 27
          /\ Statement(r) = down[tx[r].next] /\ tx[r].next \in 1..28
      BY <1>3, <1>4, <1>5, <1>6, <1>8
    <2> QED
      BY <1>1, <2>1, <2>2
  <1> QED
    BY <1>1, <1>7, <1>8

\* A statement of a migration.
LEMMA ExecuteUp ==
    ASSUME NEW r \in Runners, TypeOK, ProgressInv(r), Execute(r), Migrates(r)
    PROVE  LET n == tx[r].next IN
           /\ n \in 1..28
           /\ ~Refused(r) /\ ~Blocked(r) /\ Statement(r) = up[n]
           /\ tx' = [tx EXCEPT ![r] = [tx[r] EXCEPT
                        !.next = n + 1, !.waited = FALSE,
                        !.held = tx[r].held \cup Locks(r),
                        !.added = tx[r].added \cup ({up[n].name} \ Sees(r)),
                        !.dropped = {}]]
           /\ UNCHANGED <<objects, records>>
  <1> DEFINE n == tx[r].next
  <1>1. Pending(r) /\ ~Refused(r) /\ ~Blocked(r) /\ UNCHANGED <<objects, records>>
    BY DEF Execute
  <1>2. n \in 1..28 /\ Statement(r) = up[n]
    BY <1>1, StatementNow DEF Pending
  <1>3. Statement(r).op = "create"
    BY <1>2, Rows
  <1>4. tx[r].dropped = {}
    BY DEF ProgressInv
  <1>5. tx' = [tx EXCEPT ![r] = [tx[r] EXCEPT
                        !.next = @ + 1, !.waited = FALSE,
                        !.held = @ \cup Locks(r),
                        !.added = (@ \cup ({Statement(r).name} \ Sees(r))) \ {},
                        !.dropped = (@ \cup {}) \ ({Statement(r).name} \ Sees(r))]]
    BY <1>3 DEF Execute, Set
  <1>6. /\ (tx[r].added \cup ({Statement(r).name} \ Sees(r))) \ {}
              = tx[r].added \cup ({up[n].name} \ Sees(r))
        /\ (tx[r].dropped \cup {}) \ ({Statement(r).name} \ Sees(r)) = {}
    BY <1>2, <1>4
  <1> QED
    BY <1>1, <1>2, <1>5, <1>6

\* A statement of a revert.
LEMMA ExecuteDown ==
    ASSUME NEW r \in Runners, TypeOK, ProgressInv(r), Execute(r), Reverts(r)
    PROVE  LET n == tx[r].next IN
           /\ n \in 1..27
           /\ ~Refused(r) /\ ~Blocked(r) /\ Statement(r) = down[n]
           /\ tx' = [tx EXCEPT ![r] = [tx[r] EXCEPT
                        !.next = n + 1, !.waited = FALSE,
                        !.held = tx[r].held \cup Locks(r),
                        !.added = {},
                        !.dropped = tx[r].dropped \cup (Parts(down[n]) \cap Sees(r))]]
           /\ UNCHANGED <<objects, records>>
  <1> DEFINE n == tx[r].next
  <1>1. Pending(r) /\ ~Refused(r) /\ ~Blocked(r) /\ UNCHANGED <<objects, records>>
    BY DEF Execute
  <1>2. n \in 1..27 /\ Statement(r) = down[n]
    BY <1>1, StatementNow DEF Pending
  <1>3. Statement(r).op = "drop"
    BY <1>2, DownScript
  <1>4. tx[r].added = {}
    BY DEF ProgressInv
  <1>5. tx' = [tx EXCEPT ![r] = [tx[r] EXCEPT
                        !.next = @ + 1, !.waited = FALSE,
                        !.held = @ \cup Locks(r),
                        !.added = (@ \cup {}) \ (Parts(Statement(r)) \cap Sees(r)),
                        !.dropped = (@ \cup (Parts(Statement(r)) \cap Sees(r))) \ {}]]
    BY <1>3 DEF Execute, Set
  <1>6. /\ (tx[r].added \cup {}) \ (Parts(Statement(r)) \cap Sees(r)) = {}
        /\ (tx[r].dropped \cup (Parts(Statement(r)) \cap Sees(r))) \ {}
              = tx[r].dropped \cup (Parts(down[n]) \cap Sees(r))
    BY <1>2, <1>4
  <1> QED
    BY <1>1, <1>2, <1>5, <1>6

\* A statement locks names of the schema only.
LEMMA LocksKnown ==
    ASSUME NEW r \in Runners, TypeOK, ProgressInv(r), Pending(r)
    PROVE  Locks(r) \subseteq Known
  <1>1. Open(r)
    BY DEF Pending
  <1>2. Statement(r).on \in Known /\ Statement(r).needs \subseteq Known
    <2>1. CASE Migrates(r)
      BY <1>1, <2>1, StatementNow, KnownNames
    <2>2. CASE Reverts(r)
      <3>1. tx[r].next \in 1..27 /\ Statement(r) = down[tx[r].next]
        BY <1>1, <2>2, StatementNow
      <3>2. 29 - tx[r].next \in 1..28
        BY <3>1
      <3> QED
        BY <3>1, <3>2, DownScript, KnownNames
    <2> QED
      BY <1>1, <2>1, <2>2, StatementNow
  <1> QED
    BY <1>2 DEF Locks

-----------------------------------------------------------------------------
(* Every action keeps the invariant.                                       *)

\* What a command did is judged as before while its row, but for what it waits
\* for, and the committed schema stay the same.
SameWork(q) ==
    /\ tx'[q].task = tx[q].task /\ tx'[q].next = tx[q].next
    /\ tx'[q].added = tx[q].added /\ tx'[q].dropped = tx[q].dropped
    /\ tx'[q].held = tx[q].held

LEMMA WorkKept ==
    ASSUME NEW q \in Runners, RunnerInv(q), SameWork(q), UNCHANGED <<objects, records>>
    PROVE  /\ Open(q)' = Open(q) /\ Migrates(q)' = Migrates(q) /\ Reverts(q)' = Reverts(q)
           /\ Sees(q)' = Sees(q)
           /\ ProgressInv(q)' /\ MakesInv(q)' /\ DropsInv(q)'
  <1>1. /\ Open(q)' = Open(q) /\ Migrates(q)' = Migrates(q) /\ Reverts(q)' = Reverts(q)
        /\ Sees(q)' = Sees(q)
    BY DEF Open, Migrates, Reverts, Sees, SameWork
  <1>2. ProgressInv(q)'
    BY <1>1 DEF RunnerInv, ProgressInv, SameWork
  <1>3. MakesInv(q)'
    BY <1>1 DEF RunnerInv, MakesInv, SameWork
  <1>4. DropsInv(q)'
    BY <1>1 DEF RunnerInv, DropsInv, SameWork
  <1> QED
    BY <1>1, <1>2, <1>3, <1>4

\* A row at rest, or at its start, says nothing.
LEMMA AtRest ==
    ASSUME NEW q \in Runners, tx'[q] = Ended
    PROVE  /\ ~Open(q)' /\ ~Migrates(q)' /\ ~Reverts(q)' /\ tx'[q].held = {}
           /\ ProgressInv(q)' /\ MakesInv(q)' /\ DropsInv(q)' /\ AloneInv(q)'
  <1>1. ~Open(q)' /\ ~Migrates(q)' /\ ~Reverts(q)' /\ tx'[q].held = {}
    BY DEF Open, Migrates, Reverts, Ended, Idle
  <1> QED
    BY <1>1 DEF ProgressInv, MakesInv, DropsInv, AloneInv

\* The locks of one command change, the others' stay.
LEMMA LocksKept ==
    ASSUME NEW r \in Runners, \A q \in Runners : RunnerInv(q),
           \A q \in Runners \ {r} : SameWork(q),
           \A q \in Runners \ {r} : tx[q].held \cap tx'[r].held = {},
           Migrates(r)' /\ tx'[r].next > 13 => "account" \in tx'[r].held,
           Reverts(r)' /\ tx'[r].next > 15 => "account" \in tx'[r].held
    PROVE  \A q \in Runners : LocksInv(q)'
  <1>1. LocksInv(r)'
    BY DEF LocksInv, SameWork
  <1>2. ASSUME NEW q \in Runners \ {r}
        PROVE  LocksInv(q)'
    <2>1. /\ tx'[q].held = tx[q].held
          /\ Migrates(q)' = Migrates(q) /\ Reverts(q)' = Reverts(q)
          /\ tx'[q].next = tx[q].next
      BY DEF SameWork, Migrates, Reverts
    <2>2. \A p \in Runners \ {q} : tx[p].held \cap tx[q].held = {}
      BY DEF RunnerInv, LocksInv
    <2>3. ASSUME NEW p \in Runners \ {q}
          PROVE  tx'[p].held \cap tx'[q].held = {}
      <3>1. CASE p = r
        BY <2>1, <3>1
      <3>2. CASE p # r
        BY <2>1, <2>2, <3>2 DEF SameWork
      <3> QED
        BY <3>1, <3>2
    <2> QED
      BY <2>1, <2>3 DEF RunnerInv, LocksInv
  <1> QED
    BY <1>1, <1>2

\* A command starts with empty hands; a revert only on a recorded migration,
\* which has the foreign keys.
LEMMA StartStep ==
    ASSUME Inv, NEW r \in Runners, Start(r)
    PROVE  Inv'
  <1>1. /\ tx[r] = Idle /\ UNCHANGED <<objects, records>>
        /\ tx' = [q \in Runners |->
                 IF q = r
                 THEN [Idle EXCEPT !.task  = IF records = 0 THEN "up" ELSE "down",
                                   !.next  = 1,
                                   !.alone = \A p \in Runners : ~Open(p)]
                 ELSE [tx[q] EXCEPT !.alone = @ /\ ~Open(q)]]
    BY DEF Start
  <1>2. /\ tx'[r].task = IF records = 0 THEN "up" ELSE "down"
        /\ tx'[r].next = 1 /\ tx'[r].added = {} /\ tx'[r].dropped = {}
        /\ tx'[r].held = {} /\ tx'[r].waited = FALSE
        /\ tx'[r].alone = \A p \in Runners : ~Open(p)
    BY <1>1 DEF Idle
  <1>3. \A q \in Runners \ {r} : SameWork(q) /\ tx'[q].alone = (tx[q].alone /\ ~Open(q))
    BY <1>1 DEF SameWork, Inv, TypeOK, Row
  <1>4. TypeOK'
    BY <1>1 DEF Inv, TypeOK, Row, Idle
  <1>5. /\ Migrates(r)' <=> records = 0
        /\ Reverts(r)' <=> records # 0
        /\ Open(r)'
    BY <1>2 DEF Migrates, Reverts, Open
  <1>6. ProgressInv(r)' /\ MakesInv(r)' /\ DropsInv(r)'
    BY <1>2, <1>5 DEF ProgressInv, MakesInv, DropsInv
  <1>7. \A q \in Runners : LocksInv(q)'
    BY <1>2, <1>3, LocksKept DEF Inv
  <1>8. AloneInv(r)'
    <2>1. tx'[r].alone => \A q \in Runners \ {r} : ~Open(q)
      BY <1>2
    <2>2. \A q \in Runners \ {r} : Open(q)' = Open(q)
      BY <1>3 DEF SameWork, Open
    <2>3. Reverts(r)' => records > 0
      BY <1>5 DEF Inv, TypeOK
    <2>4. ~tx'[r].waited /\ records' = records /\ tx'[r].next = 1
      BY <1>1, <1>2
    <2>5. Migrates(r)' => records = 0
      BY <1>5
    <2>6. \A i \in 1..(tx'[r].next - 1) : FALSE
      BY <2>4
    <2> QED
      BY <2>1, <2>2, <2>3, <2>4, <2>5, <2>6 DEF AloneInv
  <1>9. ASSUME NEW q \in Runners \ {r}
        PROVE  ProgressInv(q)' /\ MakesInv(q)' /\ DropsInv(q)' /\ AloneInv(q)'
    <2>1. Open(q)' = Open(q) /\ ProgressInv(q)' /\ MakesInv(q)' /\ DropsInv(q)'
      BY <1>1, <1>3, WorkKept DEF Inv
    <2> QED
      BY <1>3, <2>1 DEF AloneInv
  <1>10. SchemaInv'
    <2>1. ASSUME NEW q \in Runners, Reverts(q)', "ledger_entry" \in objects
          PROVE  "FK_ledger_entry_account" \in objects
      <3>1. CASE q = r
        <4>1. records > 0
          BY <1>5, <2>1, <3>1 DEF Inv, TypeOK
        <4>2. Schema \subseteq objects
          BY <4>1 DEF Inv, SchemaInv
        <4> QED
          BY <4>2, KnownNames, Names
      <3>2. CASE q # r
        BY <1>3, <2>1, <3>2 DEF SameWork, Reverts, Inv, SchemaInv
      <3> QED
        BY <3>1, <3>2
    <2> QED
      BY <1>1, <2>1 DEF Inv, SchemaInv
  <1> QED
    BY <1>4, <1>6, <1>7, <1>8, <1>9, <1>10 DEF Inv, RunnerInv

\* Who waits is not alone.
LEMMA WaitStep ==
    ASSUME Inv, NEW r \in Runners, Wait(r)
    PROVE  Inv'
  <1>1. /\ Open(r) /\ Blocked(r) /\ UNCHANGED <<objects, records>>
        /\ tx' = [tx EXCEPT ![r] = [tx[r] EXCEPT !.waited = TRUE]]
    BY DEF Wait, Set, Pending
  <1>2. \A q \in Runners : SameWork(q) /\ tx'[q].alone = tx[q].alone
    BY <1>1 DEF SameWork, Inv, TypeOK, Row
  <1>3. \A q \in Runners \ {r} : tx'[q] = tx[q]
    BY <1>1 DEF Inv, TypeOK
  <1>4. TypeOK'
    BY <1>1 DEF Inv, TypeOK, Row
  <1>5. \A q \in Runners : /\ ProgressInv(q)' /\ MakesInv(q)' /\ DropsInv(q)'
                           /\ Open(q)' = Open(q) /\ Migrates(q)' = Migrates(q)
                           /\ Reverts(q)' = Reverts(q) /\ Sees(q)' = Sees(q)
    BY <1>1, <1>2, WorkKept DEF Inv
  <1>6. \A q \in Runners : LocksInv(q)'
    BY <1>2, <1>5 DEF Inv, RunnerInv, LocksInv, SameWork
  <1>7. ~tx[r].alone
    <2>1. PICK q \in Runners \ {r} : tx[q].held # {}
      BY <1>1 DEF Blocked
    <2>2. Open(q)
      BY <2>1 DEF Inv, RunnerInv, ProgressInv
    <2> QED
      BY <1>1, <2>1, <2>2 DEF Inv, RunnerInv, AloneInv
  <1>8. \A q \in Runners : AloneInv(q)'
    <2>1. AloneInv(r)'
      BY <1>2, <1>7 DEF AloneInv
    <2>2. ASSUME NEW q \in Runners \ {r}
          PROVE  AloneInv(q)'
      BY <1>1, <1>3, <1>5 DEF AloneInv, Inv, RunnerInv
    <2> QED
      BY <2>1, <2>2
  <1>9. SchemaInv'
    BY <1>1, <1>5 DEF Inv, SchemaInv
  <1> QED
    BY <1>4, <1>5, <1>6, <1>8, <1>9 DEF Inv, RunnerInv

\* What is rolled back was never seen.
LEMMA AbortStep ==
    ASSUME Inv, NEW r \in Runners, Abort(r)
    PROVE  Inv'
  <1>1. /\ UNCHANGED <<objects, records>> /\ tx' = [tx EXCEPT ![r] = Ended]
    BY DEF Abort, Set
  <1>2. tx'[r] = Ended /\ \A q \in Runners \ {r} : tx'[q] = tx[q] /\ SameWork(q)
    BY <1>1 DEF Inv, TypeOK, SameWork
  <1>3. TypeOK'
    BY <1>1 DEF Inv, TypeOK, Row, Ended, Idle
  <1>4. /\ ~Open(r)' /\ ~Migrates(r)' /\ ~Reverts(r)' /\ tx'[r].held = {}
        /\ ProgressInv(r)' /\ MakesInv(r)' /\ DropsInv(r)' /\ AloneInv(r)'
    BY <1>2, AtRest
  <1>5. \A q \in Runners \ {r} :
            /\ Open(q)' = Open(q) /\ Migrates(q)' = Migrates(q)
            /\ Reverts(q)' = Reverts(q) /\ Sees(q)' = Sees(q)
            /\ ProgressInv(q)' /\ MakesInv(q)' /\ DropsInv(q)'
    BY <1>1, <1>2, WorkKept DEF Inv
  <1>6. \A q \in Runners : LocksInv(q)'
    BY <1>2, <1>4, LocksKept DEF Inv
  <1>7. ASSUME NEW q \in Runners \ {r}
        PROVE  AloneInv(q)'
    <2>1. AloneInv(q)
      BY DEF Inv, RunnerInv
    <2>2. \A p \in Runners : Open(p)' => Open(p)
      BY <1>4, <1>5
    <2> QED
      BY <1>1, <1>2, <1>5, <2>1, <2>2 DEF AloneInv
  <1>8. SchemaInv'
    BY <1>1, <1>4, <1>5 DEF Inv, SchemaInv
  <1> QED
    BY <1>3, <1>4, <1>5, <1>6, <1>7, <1>8 DEF Inv, RunnerInv

\* When a migration takes the lock on "account": when it makes the table, or
\* adds a foreign key of it.
LEMMA UpLocks ==
    ASSUME TypeOK, NEW r \in Runners, ProgressInv(r), Execute(r), Migrates(r)
    PROVE  /\ tx[r].next <= 12 /\ "account" \in Locks(r)
                  => tx[r].next = 8 /\ "account" \notin Sees(r)
           /\ tx[r].next = 8 /\ "account" \notin Sees(r) => "account" \in Locks(r)
           /\ tx[r].next \in {13, 14} => "account" \in Locks(r)
  <1> DEFINE n == tx[r].next
  <1>1. n \in 1..28 /\ Statement(r) = up[n] /\ ~Refused(r)
    BY ExecuteUp
  <1>2. up[n].op = "create"
    BY <1>1, Rows
  <1>3. Locks(r) = IF up[n].on = up[n].name /\ up[n].name \in Sees(r) /\ ~tx[r].waited
                   THEN {}
                   ELSE {up[n].on} \cup IF up[n].on = up[n].name THEN {} ELSE up[n].needs
    BY <1>1, <1>2 DEF Locks
  <1>4. up[n].on = up[n].name /\ up[n].name \in Sees(r) => ~tx[r].waited
    BY <1>1, <1>2 DEF Refused
  <1>5. ASSUME n <= 12
        PROVE  Locks(r) = IF up[n].name \in Sees(r) THEN {} ELSE {up[n].name}
    <2>1. up[n].on = up[n].name
      BY <1>1, <1>5, Rows
    <2> QED
      BY <1>3, <1>4, <2>1
  <1>6. ASSUME n <= 12, "account" \in Locks(r)
        PROVE  n = 8 /\ "account" \notin Sees(r)
    <2>1. up[n].name = up[8].name /\ up[n].name \notin Sees(r)
      BY <1>5, <1>6, Names
    <2>2. n = 8
      BY <1>1, <2>1, NamesDiffer
    <2> QED
      BY <2>1, <2>2, Names
  <1>7. n = 8 /\ "account" \notin Sees(r) => "account" \in Locks(r)
    BY <1>1, <1>5, Names
  <1>8. n \in {13, 14} => "account" \in Locks(r)
    <2>1. ASSUME n \in {13, 14}
          PROVE  up[n].on # up[n].name /\ "account" \in up[n].needs
      BY <2>1, Rows, Names
    <2> QED
      BY <1>3, <2>1
  <1> QED
    BY <1>6, <1>7, <1>8

\* Every type is needed by a table.
LEMMA EveryTypeNeeded == \A k \in 2..6 : \E i \in 7..12 : up[k].name \in up[i].needs
  <1>1. /\ up[2].name \in up[7].needs /\ up[3].name \in up[8].needs
        /\ up[4].name \in up[8].needs /\ up[5].name \in up[9].needs
        /\ up[6].name \in up[10].needs
    BY UpScript DEF Type, Table, Create
  <1> QED
    BY <1>1

\* When a migration adds the first foreign key, all types and tables are there,
\* found or made.
LEMMA AllThere ==
    ASSUME Inv, NEW r \in Runners, Execute(r), Migrates(r), tx[r].next = 13
    PROVE  \A i \in 1..12 : up[i].name \in Sees(r)
  <1>1. Statement(r) = up[13] /\ ~Refused(r)
    BY ExecuteUp DEF Inv, RunnerInv
  <1>2. {"account", "users"} \subseteq Sees(r)
    BY <1>1, Rows, Names DEF Refused
  <1>3. Sees(r) = objects \cup tx[r].added
    BY DEF Sees, Inv, RunnerInv, ProgressInv
  <1>4. MakesInv(r) /\ SchemaInv
    BY DEF Inv, RunnerInv
  <1>5. up[1].name \in Sees(r)
    BY <1>4, Rows DEF MakesInv
  <1>6. \A i \in 2..12 : up[i].name \in TypesAndTables
    BY DEF TypesAndTables
  <1>7. CASE "account" \in objects
    <2>1. TypesAndTables \subseteq objects
      BY <1>4, <1>6, <1>7, Names DEF SchemaInv
    <2> QED
      BY <1>3, <1>5, <1>6, <2>1
  <1>8. CASE "account" \notin objects
    <2>1. "account" \in tx[r].added
      BY <1>2, <1>3, <1>8
    <2>2. \A i \in 8..12 : up[i].name \in Sees(r)
      BY <1>4, <2>1 DEF MakesInv
    <2>3. \A i \in 7..12 : up[i].name \in Sees(r)
      BY <1>2, <2>2, Names
    <2>4. TypesAndTables \cap objects = {}
      BY <1>4, <1>6, <1>8, Names DEF SchemaInv
    <2>5. \A i \in 7..12 : up[i].name \in tx[r].added
      BY <1>3, <1>6, <2>3, <2>4
    <2>6. \A i \in 7..12 : up[i].needs \ {"uuid-ossp"} \subseteq tx[r].added
      BY <1>4, <2>5 DEF MakesInv
    <2>7. \A k \in 2..6 : up[k].name # "uuid-ossp"
      BY Rows, NamesDiffer
    <2>8. \A k \in 2..6 : up[k].name \in Sees(r)
      BY <1>3, <2>6, <2>7, EveryTypeNeeded
    <2> QED
      BY <1>5, <2>3, <2>8
  <1> QED
    BY <1>7, <1>8

\* A statement of a migration keeps the invariant.
LEMMA ExecuteUpStep ==
    ASSUME Inv, NEW r \in Runners, Execute(r), Migrates(r)
    PROVE  Inv'
  <1> DEFINE n == tx[r].next
             name == up[n].name
  <1>1. /\ n \in 1..28 /\ ~Refused(r) /\ ~Blocked(r) /\ Statement(r) = up[n]
        /\ tx' = [tx EXCEPT ![r] = [tx[r] EXCEPT
                     !.next = n + 1, !.waited = FALSE,
                     !.held = tx[r].held \cup Locks(r),
                     !.added = tx[r].added \cup ({name} \ Sees(r)),
                     !.dropped = {}]]
        /\ UNCHANGED <<objects, records>>
    BY ExecuteUp DEF Inv, RunnerInv
  <1>2. /\ tx'[r].task = tx[r].task /\ tx'[r].next = n + 1 /\ tx'[r].waited = FALSE
        /\ tx'[r].alone = tx[r].alone
        /\ tx'[r].held = tx[r].held \cup Locks(r)
        /\ tx'[r].added = tx[r].added \cup ({name} \ Sees(r)) /\ tx'[r].dropped = {}
    BY <1>1 DEF Inv, TypeOK, Row
  <1>3. \A q \in Runners \ {r} : tx'[q] = tx[q] /\ SameWork(q)
    BY <1>1 DEF Inv, TypeOK, SameWork
  <1>4. /\ Pending(r) /\ Open(r) /\ TypeOK /\ ProgressInv(r) /\ LocksInv(r) /\ MakesInv(r)
        /\ AloneInv(r) /\ SchemaInv
    BY DEF Execute, Pending, Inv, RunnerInv
  <1>5. /\ Open(r)' /\ Migrates(r)' /\ ~Reverts(r)' /\ ~Reverts(r)
    BY <1>2, <1>4 DEF Open, Migrates, Reverts
  <1>6. /\ Sees(r) = objects \cup tx[r].added
        /\ Sees(r)' = objects \cup tx'[r].added
        /\ Sees(r)' = Sees(r) \cup {name}
    <2>1. Sees(r) = objects \cup tx[r].added
      BY <1>4 DEF Sees, ProgressInv
    <2>2. Sees(r)' = objects \cup tx'[r].added
      BY <1>1, <1>2 DEF Sees
    <2> QED
      BY <1>2, <2>1, <2>2
  <1>7. /\ n <= 12 /\ "account" \in Locks(r) => n = 8 /\ "account" \notin Sees(r)
        /\ n = 8 /\ "account" \notin Sees(r) => "account" \in Locks(r)
        /\ n \in {13, 14} => "account" \in Locks(r)
    BY <1>4, UpLocks
  <1>8. TypeOK'
    <2>1. name \in Known
      BY <1>1, KnownNames
    <2>2. Locks(r) \subseteq Known
      BY <1>4, LocksKnown
    <2>3. tx[r] \in Row
      BY <1>4 DEF TypeOK
    <2>4. tx'[r] \in Row
      <3>1. /\ n + 1 \in Nat /\ tx[r].held \cup Locks(r) \in SUBSET Known
            /\ tx[r].added \cup ({name} \ Sees(r)) \in SUBSET Known
        BY <1>1, <2>1, <2>2, <2>3 DEF Row
      <3>2. tx'[r] = [tx[r] EXCEPT !.next = n + 1, !.waited = FALSE,
                          !.held = tx[r].held \cup Locks(r),
                          !.added = tx[r].added \cup ({name} \ Sees(r)), !.dropped = {}]
        BY <1>1, <1>4 DEF TypeOK
      <3> QED
        BY <2>3, <3>1, <3>2 DEF Row
    <2> QED
      BY <1>1, <1>4, <2>4 DEF TypeOK
  <1>9. ProgressInv(r)'
    <2>1. tx'[r].added \subseteq {up[i].name : i \in 1..(n + 1 - 1)}
      BY <1>1, <1>2, <1>4 DEF ProgressInv
    <2> QED
      BY <1>1, <1>2, <1>5, <2>1 DEF ProgressInv
  <1>10. \A q \in Runners : LocksInv(q)'
    <2>1. ASSUME NEW q \in Runners \ {r}
          PROVE  tx[q].held \cap tx'[r].held = {}
      <3>1. tx[q].held \cap Locks(r) = {}
        BY <1>1 DEF Blocked
      <3>2. tx[q].held \cap tx[r].held = {}
        BY <1>4 DEF LocksInv
      <3> QED
        BY <1>2, <3>1, <3>2
    <2>2. tx'[r].next > 13 => "account" \in tx'[r].held
      <3>1. CASE n <= 12
        BY <1>1, <1>2, <3>1
      <3>2. CASE n = 13
        BY <1>2, <1>7, <3>2
      <3>3. CASE n > 13
        BY <1>2, <1>4, <3>3 DEF LocksInv
      <3> QED
        BY <1>1, <3>1, <3>2, <3>3
    <2> QED
      BY <1>3, <1>5, <2>1, <2>2, LocksKept DEF Inv
  <1>11. MakesInv(r)'
    <2>1. ASSUME NEW i \in 7..12, up[i].name \in tx'[r].added
          PROVE  up[i].needs \ {"uuid-ossp"} \subseteq tx'[r].added
      <3>1. CASE up[i].name \in tx[r].added
        BY <1>2, <1>4, <3>1 DEF MakesInv
      <3>2. CASE up[i].name \notin tx[r].added
        <4>1. up[i].name = name /\ name \notin Sees(r)
          BY <1>2, <2>1, <3>2
        <4>2. i = n
          BY <1>1, <4>1, i \in 1..28, NamesDiffer
        <4>3. up[i].needs \subseteq Sees(r)
          BY <1>1, <4>2, Rows DEF Refused
        <4>4. up[i].name \notin objects /\ up[i].name \in TypesAndTables
          BY <1>6, <4>1 DEF TypesAndTables
        <4>5. TypesAndTables \cap objects = {}
          BY <1>4, <4>4 DEF SchemaInv
        <4>6. up[i].needs \ {"uuid-ossp"} \subseteq TypesAndTables
          BY Rows DEF TypesAndTables
        <4> QED
          BY <1>2, <1>6, <4>3, <4>5, <4>6
      <3> QED
        BY <3>1, <3>2
    <2>2. name = "account" => n = 8
      BY <1>1, Names, NamesDiffer
    <2>3. ASSUME "account" \in tx'[r].added
          PROVE  "account" \in tx'[r].held /\ "account" \notin objects
      <3>1. CASE "account" \in tx[r].added
        BY <1>2, <1>4, <3>1 DEF MakesInv
      <3>2. CASE "account" \notin tx[r].added
        BY <1>2, <1>6, <1>7, <2>2, <2>3, <3>2
      <3> QED
        BY <3>1, <3>2
    <2>4. ASSUME "account" \in tx'[r].held, tx'[r].next <= 13
          PROVE  "account" \in tx'[r].added
      <3>1. n <= 12
        BY <1>1, <1>2, <2>4
      <3>2. CASE "account" \in tx[r].held
        BY <1>1, <1>2, <1>4, <3>1, <3>2 DEF MakesInv
      <3>3. CASE "account" \in Locks(r)
        BY <1>2, <1>7, <3>1, <3>3, Names
      <3> QED
        BY <1>2, <2>4, <3>2, <3>3
    <2>5. "uuid-ossp" \in Sees(r)'
      <3>1. CASE n = 1
        BY <1>6, <3>1, Rows
      <3>2. CASE n > 1
        BY <1>4, <1>6, <3>2 DEF MakesInv
      <3> QED
        BY <1>1, <3>1, <3>2
    <2>6. ASSUME "account" \in tx'[r].added, NEW i \in 8..n
          PROVE  up[i].name \in Sees(r)'
      <3>1. CASE "account" \in tx[r].added
        <4>1. CASE i = n
          BY <1>6, <4>1
        <4>2. CASE i # n
          <5>1. i \in 8..(n - 1)
            BY <1>1, <4>2
          <5> QED
            BY <1>4, <1>6, <3>1, <5>1 DEF MakesInv
        <4> QED
          BY <4>1, <4>2
      <3>2. CASE "account" \notin tx[r].added
        <4>1. name = "account"
          BY <1>2, <2>6, <3>2
        <4>2. i = n
          BY <2>2, <4>1
        <4> QED
          BY <1>6, <4>2
      <3> QED
        BY <3>1, <3>2
    <2>7. ASSUME n >= 13
          PROVE  /\ records = 0
                 /\ "FK_account_owner" \in tx'[r].added
                 /\ \A i \in 1..n : up[i].name \in Sees(r)'
      <3>1. CASE n = 13
        <4>1. "FK_account_owner" \notin Sees(r) /\ name = "FK_account_owner"
          BY <1>1, <3>1, Rows, Names DEF Refused
        <4>2. records = 0
          <5>1. "FK_account_owner" \in Schema
            BY KnownNames, Names
          <5> QED
            BY <1>4, <1>6, <4>1, <5>1 DEF SchemaInv, TypeOK
        <4>3. \A i \in 1..12 : up[i].name \in Sees(r)
          BY <3>1, AllThere
        <4> QED
          BY <1>2, <1>6, <3>1, <4>1, <4>2, <4>3
      <3>2. CASE n > 13
        <4>1. /\ records = 0 /\ "FK_account_owner" \in tx[r].added
              /\ \A i \in 1..(n - 1) : up[i].name \in Sees(r)
          BY <1>4, <3>2 DEF MakesInv
        <4> QED
          BY <1>1, <1>2, <1>6, <4>1
      <3> QED
        BY <1>1, <2>7, <3>1, <3>2
    <2>8. tx'[r].next - 1 = n /\ (tx'[r].next > 13 => n >= 13) /\ records' = records
          /\ objects' = objects
      BY <1>1, <1>2
    <2> QED
      BY <2>1, <2>3, <2>4, <2>5, <2>6, <2>7, <2>8 DEF MakesInv
  <1>12. DropsInv(r)'
    BY <1>5 DEF DropsInv
  <1>13. AloneInv(r)'
    <2>1. \A q \in Runners \ {r} : Open(q)' = Open(q)
      BY <1>3 DEF Open
    <2>2. ASSUME tx[r].alone
          PROVE  records = 0 /\ \A i \in 1..n : up[i].name \in Sees(r)'
      <3>1. records = 0 /\ \A i \in 1..(n - 1) : up[i].name \in Sees(r)
        BY <1>4, <2>2 DEF AloneInv
      <3> QED
        BY <1>1, <1>6, <3>1
    <2>3. tx'[r].next - 1 = n /\ records' = records
      BY <1>1, <1>2
    <2> QED
      BY <1>2, <1>4, <1>5, <2>1, <2>2, <2>3 DEF AloneInv
  <1>14. ASSUME NEW q \in Runners \ {r}
         PROVE  /\ ProgressInv(q)' /\ MakesInv(q)' /\ DropsInv(q)' /\ AloneInv(q)'
                /\ Reverts(q)' = Reverts(q)
    <2>1. /\ Open(q)' = Open(q) /\ Reverts(q)' = Reverts(q)
          /\ ProgressInv(q)' /\ MakesInv(q)' /\ DropsInv(q)'
      BY <1>1, <1>3, WorkKept DEF Inv
    <2>2. ~(Open(q) /\ tx[q].alone)
      BY <1>4 DEF Inv, RunnerInv, AloneInv
    <2> QED
      BY <1>3, <2>1, <2>2 DEF AloneInv
  <1>15. SchemaInv'
    <2>1. (\E q \in Runners : Reverts(q)') => \E q \in Runners : Reverts(q)
      BY <1>5, <1>14
    <2> QED
      BY <1>1, <1>4, <2>1 DEF SchemaInv
  <1> QED
    BY <1>8, <1>9, <1>10, <1>11, <1>12, <1>13, <1>14, <1>15 DEF Inv, RunnerInv

\* A statement of a revert keeps it: the first foreign key that it drops is
\* there, and brings the lock on "account".
LEMMA ExecuteDownStep ==
    ASSUME Inv, NEW r \in Runners, Execute(r), Reverts(r)
    PROVE  Inv'
  <1> DEFINE n == tx[r].next
             gone == Parts(down[n]) \cap Sees(r)
  <1>1. /\ n \in 1..27 /\ ~Refused(r) /\ ~Blocked(r) /\ Statement(r) = down[n]
        /\ tx' = [tx EXCEPT ![r] = [tx[r] EXCEPT
                     !.next = n + 1, !.waited = FALSE,
                     !.held = tx[r].held \cup Locks(r),
                     !.added = {}, !.dropped = tx[r].dropped \cup gone]]
        /\ UNCHANGED <<objects, records>>
    BY ExecuteDown DEF Inv, RunnerInv
  <1>2. /\ tx'[r].task = tx[r].task /\ tx'[r].next = n + 1 /\ tx'[r].waited = FALSE
        /\ tx'[r].alone = tx[r].alone
        /\ tx'[r].held = tx[r].held \cup Locks(r)
        /\ tx'[r].added = {} /\ tx'[r].dropped = tx[r].dropped \cup gone
    BY <1>1 DEF Inv, TypeOK, Row
  <1>3. \A q \in Runners \ {r} : tx'[q] = tx[q] /\ SameWork(q)
    BY <1>1 DEF Inv, TypeOK, SameWork
  <1>4. /\ Pending(r) /\ Open(r) /\ TypeOK /\ ProgressInv(r) /\ LocksInv(r) /\ DropsInv(r)
        /\ AloneInv(r) /\ SchemaInv
    BY DEF Execute, Pending, Inv, RunnerInv
  <1>5. /\ Open(r)' /\ ~Migrates(r)' /\ Reverts(r)'
    BY <1>2, <1>4 DEF Open, Migrates, Reverts
  <1>6. /\ Sees(r) = objects \ tx[r].dropped
        /\ Sees(r)' = Sees(r) \ Parts(down[n])
    <2>1. Sees(r) = objects \ tx[r].dropped
      BY <1>4 DEF Sees, ProgressInv
    <2>2. Sees(r)' = objects \ tx'[r].dropped
      BY <1>1, <1>2 DEF Sees
    <2> QED
      BY <1>2, <2>1, <2>2
  <1>7. n = 15 => "account" \in Locks(r)
    <2> SUFFICES ASSUME n = 15
                 PROVE  "account" \in Locks(r)
      OBVIOUS
    <2>1. /\ down[n].op = "drop" /\ ~down[n].lenient
          /\ down[n].name = "FK_ledger_entry_account" /\ down[n].on = "ledger_entry"
          /\ down[n].needs = {"ledger_entry", "account"}
      BY DownScript, Names, 29 - 15 = 14
    <2>2. "ledger_entry" \in objects
      BY <1>1, <1>6, <2>1 DEF Refused
    <2>3. "FK_ledger_entry_account" \in objects
      BY <1>4, <2>2 DEF SchemaInv
    <2>4. "FK_ledger_entry_account" \notin tx[r].dropped
      BY <1>4, Names DEF ProgressInv, ForeignKeys
    <2>5. down[n].name \in Sees(r)
      BY <1>6, <2>1, <2>3, <2>4
    <2> QED
      BY <1>1, <2>1, <2>5 DEF Locks
  <1>8. TypeOK'
    <2>1. Locks(r) \subseteq Known
      BY <1>4, LocksKnown
    <2>2. Sees(r) \subseteq Known
      BY <1>4, <1>6 DEF TypeOK
    <2>3. tx[r] \in Row
      BY <1>4 DEF TypeOK
    <2>4. /\ n + 1 \in Nat /\ tx[r].held \cup Locks(r) \in SUBSET Known
          /\ tx[r].dropped \cup gone \in SUBSET Known
      BY <1>1, <2>1, <2>2, <2>3 DEF Row
    <2>5. tx'[r] = [tx[r] EXCEPT !.next = n + 1, !.waited = FALSE,
                        !.held = tx[r].held \cup Locks(r),
                        !.added = {}, !.dropped = tx[r].dropped \cup gone]
      BY <1>1, <1>4 DEF TypeOK
    <2>6. tx'[r] \in Row
      BY <2>3, <2>4, <2>5 DEF Row
    <2> QED
      BY <1>1, <1>4, <2>6 DEF TypeOK
  <1>9. ProgressInv(r)'
    <2>1. "uuid-ossp" \notin tx'[r].dropped
      BY <1>1, <1>2, <1>4, DropsTake DEF ProgressInv
    <2>2. down[n].name = up[29 - n].name
      BY <1>1, DownScript
    <2>3. ASSUME n + 1 <= 15
          PROVE  tx'[r].dropped \cap ForeignKeys = {}
      <3>1. Parts(down[n]) = {down[n].name}
        BY <1>1, <2>3, DropsTake
      <3>2. 29 - n \in 15..28
        BY <1>1, <2>3
      <3>3. down[n].name \notin ForeignKeys
        BY <2>2, <3>2, NamesDiffer DEF ForeignKeys
      <3>4. tx[r].dropped \cap ForeignKeys = {}
        BY <1>1, <1>4, <2>3 DEF ProgressInv
      <3> QED
        BY <1>2, <3>1, <3>3, <3>4
    <2>4. ASSUME n + 1 <= 17
          PROVE  tx'[r].dropped \cap TypesAndTables = {}
      <3>1. Parts(down[n]) = {down[n].name}
        BY <1>1, <2>4, DropsTake
      <3>2. 29 - n \in 13..28
        BY <1>1, <2>4
      <3>3. down[n].name \notin TypesAndTables
        BY <2>2, <3>2, NamesDiffer DEF TypesAndTables
      <3>4. tx[r].dropped \cap TypesAndTables = {}
        BY <1>1, <1>4, <2>4 DEF ProgressInv
      <3> QED
        BY <1>2, <3>1, <3>3, <3>4
    <2> QED
      BY <1>1, <1>2, <1>5, <2>1, <2>3, <2>4 DEF ProgressInv
  <1>10. \A q \in Runners : LocksInv(q)'
    <2>1. ASSUME NEW q \in Runners \ {r}
          PROVE  tx[q].held \cap tx'[r].held = {}
      <3>1. tx[q].held \cap Locks(r) = {}
        BY <1>1 DEF Blocked
      <3>2. tx[q].held \cap tx[r].held = {}
        BY <1>4 DEF LocksInv
      <3> QED
        BY <1>2, <3>1, <3>2
    <2>2. tx'[r].next > 15 => "account" \in tx'[r].held
      <3>1. CASE n <= 14
        BY <1>1, <1>2, <3>1
      <3>2. CASE n = 15
        BY <1>2, <1>7, <3>2
      <3>3. CASE n > 15
        BY <1>2, <1>4, <3>3 DEF LocksInv
      <3> QED
        BY <1>1, <3>1, <3>2, <3>3
    <2> QED
      BY <1>3, <1>5, <2>1, <2>2, LocksKept DEF Inv
  <1>11. MakesInv(r)'
    BY <1>5 DEF MakesInv
  <1>12. DropsInv(r)'
    <2>1. ASSUME NEW j \in 17..n
          PROVE  Parts(down[j]) \cap Sees(r)' = {}
      <3>1. CASE j = n
        BY <1>6, <3>1
      <3>2. CASE j # n
        <4>1. j \in 17..(n - 1)
          BY <1>1, <3>2
        <4>2. Parts(down[j]) \cap Sees(r) = {}
          BY <1>4, <4>1 DEF DropsInv
        <4> QED
          BY <1>6, <4>2
      <3> QED
        BY <3>1, <3>2
    <2>2. tx'[r].next - 1 = n
      BY <1>1, <1>2
    <2> QED
      BY <2>1, <2>2 DEF DropsInv
  <1>13. AloneInv(r)'
    <2>1. \A q \in Runners \ {r} : Open(q)' = Open(q)
      BY <1>3 DEF Open
    <2> QED
      BY <1>1, <1>2, <1>4, <1>5, <2>1 DEF AloneInv
  <1>14. ASSUME NEW q \in Runners \ {r}
         PROVE  /\ ProgressInv(q)' /\ MakesInv(q)' /\ DropsInv(q)' /\ AloneInv(q)'
                /\ Reverts(q)' = Reverts(q)
    <2>1. /\ Open(q)' = Open(q) /\ Reverts(q)' = Reverts(q)
          /\ ProgressInv(q)' /\ MakesInv(q)' /\ DropsInv(q)'
      BY <1>1, <1>3, WorkKept DEF Inv
    <2>2. ~(Open(q) /\ tx[q].alone)
      BY <1>4 DEF Inv, RunnerInv, AloneInv
    <2> QED
      BY <1>3, <2>1, <2>2 DEF AloneInv
  <1>15. SchemaInv'
    BY <1>1, <1>4 DEF SchemaInv
  <1> QED
    BY <1>8, <1>9, <1>10, <1>11, <1>12, <1>13, <1>14, <1>15 DEF Inv, RunnerInv

-----------------------------------------------------------------------------
(* The end of a command.                                                   *)

\* The lock on "account" is all that keeps the commands apart: who commits has
\* it.
LEMMA HoldsToCommit ==
    ASSUME Inv, NEW r \in Runners, Commit(r)
    PROVE  /\ "account" \in tx[r].held
           /\ (Migrates(r) /\ tx[r].next = 29) \/ (Reverts(r) /\ tx[r].next = 28)
           /\ ~(Migrates(r) /\ Reverts(r))
  <1>1. Open(r) /\ ~Pending(r) /\ TypeOK /\ ProgressInv(r) /\ LocksInv(r)
    BY DEF Commit, Inv, RunnerInv
  <1>2. (Migrates(r) /\ tx[r].next = 29) \/ (Reverts(r) /\ tx[r].next = 28)
    <2>1. CASE Migrates(r)
      BY <1>1, <2>1, StatementNow
    <2>2. CASE Reverts(r)
      BY <1>1, <2>2, StatementNow
    <2> QED
      BY <1>1, <2>1, <2>2, StatementNow
  <1>3. "account" \in tx[r].held
    BY <1>1, <1>2 DEF LocksInv
  <1> QED
    BY <1>2, <1>3 DEF Migrates, Reverts

\* A migration that is over leaves the whole schema, and the first record.
LEMMA Migrated ==
    ASSUME Inv, NEW r \in Runners, Commit(r), Migrates(r)
    PROVE  objects' = Sees(r) /\ records' = 1 /\ Schema \subseteq objects'
  <1>1. objects' = Sees(r) /\ records' = records + 1
    BY DEF Commit, Migrates
  <1>2. tx[r].next = 29
    BY HoldsToCommit
  <1>3. records = 0 /\ \A i \in 1..28 : up[i].name \in Sees(r)
    BY <1>2 DEF Inv, RunnerInv, MakesInv
  <1> QED
    BY <1>1, <1>3, KnownNames

\* A revert that is over leaves the extension.
LEMMA Reverted ==
    ASSUME Inv, NEW r \in Runners, Commit(r), Reverts(r)
    PROVE  objects' = Sees(r) /\ records' = 0 /\ objects' \subseteq {"uuid-ossp"}
  <1>1. objects' = Sees(r) /\ records' = 0
    BY DEF Commit, Reverts
  <1>2. tx[r].next = 28
    BY HoldsToCommit
  <1>3. \A j \in 17..27 : Parts(down[j]) \cap Sees(r) = {}
    BY <1>2 DEF Inv, RunnerInv, DropsInv
  <1>4. Sees(r) \subseteq Known
    BY DEF Sees, Inv, TypeOK, Row
  <1> QED
    BY <1>1, <1>3, <1>4, DropsAll

\* Who commits changes the schema under commands that have no lock on
\* "account", and have claimed nothing yet.
LEMMA CommitStep ==
    ASSUME Inv, NEW r \in Runners, Commit(r)
    PROVE  Inv'
  <1>1. /\ Open(r) /\ objects' = Sees(r) /\ tx' = [tx EXCEPT ![r] = Ended]
        /\ Migrates(r) \/ Reverts(r)
    BY DEF Commit, Set, Open, Migrates, Reverts
  <1>2. tx'[r] = Ended /\ \A q \in Runners \ {r} : tx'[q] = tx[q] /\ SameWork(q)
    BY <1>1 DEF Inv, TypeOK, SameWork
  <1>3. /\ ~Open(r)' /\ ~Migrates(r)' /\ ~Reverts(r)' /\ tx'[r].held = {}
        /\ ProgressInv(r)' /\ MakesInv(r)' /\ DropsInv(r)' /\ AloneInv(r)'
    BY <1>2, AtRest
  <1>4. \A q \in Runners \ {r} : /\ Open(q)' = Open(q) /\ Migrates(q)' = Migrates(q)
                                 /\ Reverts(q)' = Reverts(q)
    BY <1>2 DEF Open, Migrates, Reverts
  <1>5. TypeOK'
    <2>1. Sees(r) \subseteq Known
      BY DEF Sees, Inv, TypeOK, Row
    <2>2. records' \in Nat
      BY DEF Commit, Inv, TypeOK
    <2> QED
      BY <1>1, <2>1, <2>2 DEF Inv, TypeOK, Row, Ended, Idle
  <1>6. \A q \in Runners : LocksInv(q)'
    BY <1>2, <1>3, LocksKept DEF Inv
  <1>7. SchemaInv'
    <2>1. CASE Migrates(r)
      <3>1. records' = 1 /\ Schema \subseteq objects'
        BY <2>1, Migrated
      <3>2. TypesAndTables \subseteq Schema /\ "FK_ledger_entry_account" \in Schema
        BY KnownNames, Names DEF TypesAndTables
      <3> QED
        BY <3>1, <3>2 DEF SchemaInv
    <2>2. CASE Reverts(r)
      <3>1. records' = 0 /\ objects' \subseteq {"uuid-ossp"}
        BY <2>2, Reverted
      <3>2. /\ "uuid-ossp" \notin TypesAndTables /\ "uuid-ossp" \notin ForeignKeys
            /\ "ledger_entry" # "uuid-ossp"
        BY Rows, NamesDiffer DEF TypesAndTables, ForeignKeys
      <3>3. /\ TypesAndTables \cap objects' = {} /\ ForeignKeys \cap objects' = {}
            /\ "ledger_entry" \notin objects'
        BY <3>1, <3>2
      <3> QED
        BY <3>1, <3>3 DEF SchemaInv
    <2> QED
      BY <1>1, <2>1, <2>2
  <1>8. ASSUME NEW q \in Runners \ {r}
        PROVE  ProgressInv(q)' /\ MakesInv(q)' /\ DropsInv(q)' /\ AloneInv(q)'
    <2>1. ProgressInv(q) /\ LocksInv(q) /\ MakesInv(q) /\ DropsInv(q) /\ AloneInv(q)
      BY DEF Inv, RunnerInv
    <2>2. "account" \notin tx[q].held
      BY <2>1, HoldsToCommit DEF LocksInv
    <2>3. ProgressInv(q)'
      BY <1>2, <1>4, <2>1 DEF ProgressInv
    <2>4. MakesInv(q)'
      <3> SUFFICES ASSUME Migrates(q)
                   PROVE  MakesInv(q)'
        BY <1>4 DEF MakesInv
      <3>1. /\ "account" \notin tx[q].added /\ ~(tx[q].next > 13) /\ tx[q].dropped = {}
        BY <2>1, <2>2 DEF MakesInv, LocksInv, ProgressInv
      <3>2. ASSUME tx[q].next > 1
            PROVE  "uuid-ossp" \in Sees(q)'
        <4>1. "uuid-ossp" \in objects \cup tx[q].added
          BY <2>1, <3>1, <3>2 DEF MakesInv, Sees
        <4>2. "uuid-ossp" \notin tx[r].dropped
          BY <1>1 DEF Inv, RunnerInv, ProgressInv
        <4>3. "uuid-ossp" \in objects' \cup tx'[q].added
          BY <1>1, <1>2, <4>1, <4>2 DEF Sees
        <4> QED
          BY <1>2, <3>1, <4>3 DEF Sees
      <3> QED
        BY <1>2, <2>1, <2>2, <3>1, <3>2 DEF MakesInv
    <2>5. DropsInv(q)'
      <3>1. Reverts(q) => tx[q].next \in 1..28 /\ ~(tx[q].next > 15)
        BY <2>1, <2>2 DEF LocksInv, ProgressInv
      <3>2. Reverts(q) => \A j \in 17..(tx'[q].next - 1) : FALSE
        BY <1>2, <3>1
      <3> QED
        BY <1>4, <3>2 DEF DropsInv
    <2>6. AloneInv(q)'
      BY <1>1, <1>2, <1>4, <2>1 DEF AloneInv
    <2> QED
      BY <2>3, <2>4, <2>5, <2>6
  <1> QED
    BY <1>3, <1>5, <1>6, <1>7, <1>8 DEF Inv, RunnerInv

-----------------------------------------------------------------------------
(* The theorems.                                                           *)

\* What synchronize makes are types, tables and indexes of the script, and
\* foreign keys of other names.
LEMMA SynchronizedIs ==
    /\ Synchronized \subseteq Known /\ TypesAndTables \subseteq Synchronized
    /\ Synchronized \cap ForeignKeys = {}
  <1>1. /\ Len(Types) = 5 /\ Len(Tables) = 6
        /\ \A i \in 1..5 : up[1 + i].name = Types[i]
        /\ \A i \in 1..6 : up[6 + i].name = Tables[i].name
        /\ \A i \in 1..14 : up[14 + i].name = Indexes[i].name
    <2>1. Len(Types) = 5
      BY DEF Types
    <2>2. \A i \in 1..5 : up[1 + i] = Type(Types[i])
      BY UpParts, <2>1 DEF TypeStatements
    <2>3. \A i \in 1..5 : up[1 + i].name = Types[i]
      BY <2>2 DEF Type, Create
    <2>4. \A i \in 1..6 : up[6 + i].name = Tables[i].name
      BY UpParts
    <2>5. \A i \in 1..14 : up[14 + i].name = Indexes[i].name
      BY UpParts
    <2>6. Len(Tables) = 6
      BY ScriptParts
    <2> QED
      BY <2>1, <2>3, <2>4, <2>5, <2>6
  <1>2. /\ "FK_sync_account" \in Known /\ "FK_sync_ledger_entry" \in Known
        /\ "uuid-ossp" \in Known
    <2>1. SyncForeigns \subseteq Defs
      BY DefsAre
    <2>2. \E d \in SyncForeigns : d.name = "FK_sync_account"
      BY DEF SyncForeigns, Foreign, Create
    <2>3. \E d \in SyncForeigns : d.name = "FK_sync_ledger_entry"
      BY DEF SyncForeigns, Foreign, Create
    <2> QED
      BY <2>1, <2>2, <2>3, KnownNames, Rows DEF Known
  <1>3. \A x \in Synchronized : \/ x \in {"uuid-ossp", "FK_sync_account", "FK_sync_ledger_entry"}
                                \/ \E i \in (2..12) \cup (15..28) : x = up[i].name
    <2> TAKE x \in Synchronized
    <2>1. CASE \E i \in 1..5 : x = Types[i]
      <3>1. PICK i \in 1..5 : x = Types[i]
        BY <2>1
      <3> QED
        BY <1>1, <3>1, 1 + i \in 2..12
    <2>2. CASE \E i \in 1..6 : x = Tables[i].name
      <3>1. PICK i \in 1..6 : x = Tables[i].name
        BY <2>2
      <3> QED
        BY <1>1, <3>1, 6 + i \in 2..12
    <2>3. CASE \E i \in 1..14 : x = Indexes[i].name
      <3>1. PICK i \in 1..14 : x = Indexes[i].name
        BY <2>3
      <3> QED
        BY <1>1, <3>1, 14 + i \in 15..28
    <2> QED
      BY <1>1, <2>1, <2>2, <2>3 DEF Synchronized
  <1>4. Synchronized \subseteq Known
    BY <1>2, <1>3, KnownNames
  <1>5. \A i \in 2..12 : up[i].name \in Synchronized
    <2> TAKE i \in 2..12
    <2>1. CASE i \in 2..6
      <3>1. i - 1 \in 1..5 /\ 1 + (i - 1) = i
        BY <2>1
      <3>2. up[i].name = Types[i - 1]
        BY <1>1, <3>1
      <3> QED
        BY <1>1, <3>1, <3>2 DEF Synchronized
    <2>2. CASE i \in 7..12
      <3>1. i - 6 \in 1..6 /\ 6 + (i - 6) = i
        BY <2>2
      <3>2. up[i].name = Tables[i - 6].name
        BY <1>1, <3>1
      <3> QED
        BY <1>1, <3>1, <3>2 DEF Synchronized
    <2> QED
      BY <2>1, <2>2
  <1>6. Synchronized \cap ForeignKeys = {}
    <2>1. /\ \A i \in (2..12) \cup (15..28) : up[i].name # up[13].name /\ up[i].name # up[14].name
      BY NamesDiffer
    <2>2. ForeignKeys = {"FK_account_owner", "FK_ledger_entry_account"}
      BY Names DEF ForeignKeys
    <2> QED
      BY <1>3, <2>1, <2>2, Names
  <1> QED
    BY <1>4, <1>5, <1>6 DEF TypesAndTables

\* The databases that a first command may find.
LEMMA InitInv == Init => Inv
  <1> SUFFICES ASSUME Init
               PROVE  Inv
    OBVIOUS
  <1>1. TypeOK
    BY SynchronizedIs DEF Init, TypeOK, Row, Idle
  <1>2. \A r \in Runners : RunnerInv(r)
    BY DEF Init, RunnerInv, ProgressInv, LocksInv, MakesInv, DropsInv, AloneInv, Open, Migrates,
           Reverts, Idle
  <1>3. \A r \in Runners : ~Reverts(r)
    BY DEF Init, Reverts, Idle
  <1>4. SchemaInv
    BY <1>3, SynchronizedIs DEF Init, SchemaInv
  <1> QED
    BY <1>1, <1>2, <1>4 DEF Inv

\* Every step keeps the invariant.
LEMMA StepInv == Inv /\ [Next]_vars => Inv'
  <1> SUFFICES ASSUME Inv, [Next]_vars
               PROVE  Inv'
    OBVIOUS
  <1>1. CASE UNCHANGED vars
    BY <1>1 DEF vars, Inv, TypeOK, SchemaInv, RunnerInv, ProgressInv, LocksInv, MakesInv,
                DropsInv, AloneInv, Open, Migrates, Reverts, Sees
  <1>2. ASSUME NEW r \in Runners, Execute(r)
        PROVE  Inv'
    <2>1. Migrates(r) \/ Reverts(r)
      BY <1>2 DEF Execute, Pending, Open, Migrates, Reverts
    <2> QED
      BY <1>2, <2>1, ExecuteUpStep, ExecuteDownStep
  <1> QED
    BY <1>1, <1>2, StartStep, WaitStep, CommitStep, AbortStep DEF Next

\* The invariant holds of any number of commands.
THEOREM Invariant == Spec => []Inv
  BY InitInv, StepInv, PTL DEF Spec

\* However many deployments find no record at once, one of them is recorded:
\* the foreign key that the first has added, or committed, refuses the others.
THEOREM OnceApplied == Spec => []AppliedOnce
  <1>1. Inv => AppliedOnce
    BY DEF Inv, SchemaInv, AppliedOnce
  <1> QED
    BY <1>1, Invariant, PTL

\* While the migration is recorded every object of it is there, whoever ran or
\* reverted it beside, and whatever a synchronized database had before.
THEOREM CompleteWhenRecorded == Spec => []RecordedIsComplete
  <1>1. Inv => RecordedIsComplete
    BY DEF Inv, SchemaInv, RecordedIsComplete
  <1> QED
    BY <1>1, Invariant, PTL

\* A revert that is over leaves nothing but the extension.
THEOREM CleanRevert == Spec => RevertIsClean
  <1>1. Inv /\ [Next]_vars => [records > 0 /\ records' = 0
                                  => objects' \subseteq {"uuid-ossp"}]_vars
    <2> SUFFICES ASSUME Inv, Next, records > 0, records' = 0
                 PROVE  objects' \subseteq {"uuid-ossp"}
      OBVIOUS
    <2>1. PICK r \in Runners : Start(r) \/ Wait(r) \/ Execute(r) \/ Commit(r) \/ Abort(r)
      BY DEF Next
    <2>2. Commit(r)
      <3>1. Start(r) \/ Wait(r) \/ Execute(r) \/ Abort(r) => records' = records
        BY DEF Start, Wait, Execute, Abort
      <3> QED
        BY <2>1, <3>1
    <2>3. CASE Migrates(r)
      BY <2>2, <2>3, Migrated
    <2>4. CASE Reverts(r)
      BY <2>2, <2>4, Reverted
    <2> QED
      BY <2>2, <2>3, <2>4, HoldsToCommit
  <1> QED
    BY <1>1, Invariant, PTL DEF Spec, RevertIsClean

\* A command that runs alone is refused nothing: a migration's statement finds
\* what it needs and no foreign key of its name, and nothing that is left needs
\* what a revert drops.
THEOREM AloneIsNotRefused == Spec => []NeverRefused
  <1>1. Inv => NeverRefused
    <2> SUFFICES ASSUME Inv, NEW r \in Runners, Pending(r), tx[r].alone
                 PROVE  ~Refused(r)
      BY DEF NeverRefused
    <2> DEFINE n == tx[r].next
    <2>1. /\ Open(r) /\ TypeOK /\ ProgressInv(r) /\ DropsInv(r) /\ AloneInv(r) /\ SchemaInv
          /\ ~tx[r].waited
      BY DEF Pending, Inv, RunnerInv, AloneInv
    <2>2. CASE Migrates(r)
      <3>1. n \in 1..28 /\ Statement(r) = up[n]
        BY <2>1, <2>2, StatementNow
      <3>2. records = 0 /\ \A i \in 1..(n - 1) : up[i].name \in Sees(r)
        BY <2>1, <2>2 DEF AloneInv
      <3>3. up[n].needs \subseteq Sees(r)
        <4>1. CASE n \in 1..6
          BY <4>1, Rows
        <4>2. CASE n \in 7..12
          BY <3>2, <4>2, Rows
        <4>3. CASE n \in 13..28
          BY <3>2, <4>3, Rows DEF TableNames
        <4> QED
          BY <3>1, <4>1, <4>2, <4>3
      <3>4. ASSUME ~up[n].lenient
            PROVE  up[n].name \notin Sees(r)
        <4>1. n \in {13, 14}
          BY <3>1, <3>4, Rows
        <4>2. up[n].name \notin objects
          BY <2>1, <3>2, <4>1 DEF SchemaInv, ForeignKeys
        <4>3. up[n].name \notin tx[r].added
          <5>1. \A i \in 1..(n - 1) : up[i].name # up[n].name
            <6> TAKE i \in 1..(n - 1)
            <6>1. i \in 1..28 /\ i # n
              BY <3>1
            <6> QED
              BY <3>1, <6>1, NamesDiffer
          <5> QED
            BY <2>1, <2>2, <5>1 DEF ProgressInv
        <4> QED
          BY <4>2, <4>3 DEF Sees
      <3>5. up[n].op = "create"
        BY <3>1, Rows
      <3> QED
        BY <2>1, <3>1, <3>3, <3>4, <3>5 DEF Refused
    <2>3. CASE Reverts(r)
      <3>1. n \in 1..27 /\ Statement(r) = down[n] /\ down[n].op = "drop"
        BY <2>1, <2>3, StatementNow, DownScript
      <3>2. Schema \subseteq objects
        BY <2>1, <2>3 DEF AloneInv, SchemaInv
      <3>3. ASSUME ~down[n].lenient
            PROVE  down[n].on \in Sees(r)
        <4>1. ~up[29 - n].lenient /\ 29 - n \in 2..28
          BY <3>1, <3>3, DownScript
        <4>2. 29 - n \in {13, 14}
          BY <4>1, Rows
        <4>3. n <= 17
          BY <3>1, <4>2
        <4>4. tx[r].dropped \cap TypesAndTables = {}
          BY <2>1, <2>3, <4>3 DEF ProgressInv
        <4>5. down[n].on \in TableNames
          BY <3>1, <4>2, DownScript, Rows
        <4>6. TableNames \subseteq TypesAndTables
          BY DEF TableNames, TypesAndTables
        <4>7. TypesAndTables \subseteq Schema
          BY KnownNames DEF TypesAndTables
        <4> QED
          BY <3>2, <4>4, <4>5, <4>6, <4>7 DEF Sees
      <3>4. Dependents(down[n]) \cap Sees(r) = {}
        <4>1. CASE n \in 1..16
          BY <4>1, DropsTake
        <4>2. CASE n \in 17..27
          <5>1. \A k \in 17..(n - 1) : Parts(down[k]) \cap Sees(r) = {}
            BY <2>1, <2>3 DEF DropsInv
          <5> QED
            BY <4>2, <5>1, DropsInOrder
        <4> QED
          BY <3>1, <4>1, <4>2
      <3> QED
        BY <3>1, <3>3, <3>4 DEF Refused
    <2> QED
      BY <2>1, <2>2, <2>3, StatementNow
  <1> QED
    BY <1>1, Invariant, PTL
=============================================================================
