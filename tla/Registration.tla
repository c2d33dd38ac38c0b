---------------------------- MODULE Registration ----------------------------
(***************************************************************************)
(* AuthService.register: two lookups, a hash, an INSERT and an event, each *)
(* an await of its own.  Calls run together, so a lookup proves nothing    *)
(* about the INSERT; the unique constraints of the users table decide.     *)
(***************************************************************************)
EXTENDS Integers, FiniteSets

CONSTANTS Calls,     \* POST /auth/register requests
          Typed,     \* e-mail addresses as people type them
          Phones, NoPhone,
          Email,     \* typed address -> the address trimmed, in lower case
          Phonelike, \* addresses that contain the word "phone"
          Failures   \* what may fail in this behaviour

Emails == {Email[a] : a \in Typed}

ASSUME RegistrationAssumption ==
    /\ Typed # {} /\ NoPhone \notin Phones
    /\ Phonelike \subseteq Emails
    /\ Failures \subseteq {"database", "commitAck", "broker", "crash"}

VARIABLES users,     \* the users table
          pc,        \* call -> the await it stands at
          dto,       \* call -> the address as typed, and address and phone
                     \* normalised
          reply,     \* call -> its answer
          events     \* calls whose user.registered event the broker took

vars == <<users, pc, dto, reply, events>>

User     == [by : Calls, email : Emails, phone : Phones \cup {NoPhone}]
Stages   == {"idle", "email", "phone", "insert", "publish", "done"}
Replies  == {"none", "created", "failed", "lost",
             "Email already exists", "Phone already exists"}
Dto      == [typed : Typed, email : Emails, phone : Phones \cup {NoPhone}]

Init == /\ users = {}
        /\ pc = [c \in Calls |-> "idle"]
        /\ dto = [c \in Calls |-> CHOOSE d \in Dto : d.phone = NoPhone]
        /\ reply = [c \in Calls |-> "none"]
        /\ events = {}

Goto(c, p)   == pc' = [pc EXCEPT ![c] = p] /\ UNCHANGED reply
Return(c, r) == reply' = [reply EXCEPT ![c] = r] /\ pc' = [pc EXCEPT ![c] = "done"]

\* UNIQUE (email) and UNIQUE (phone); NULLs are distinct.
NullsEqualSlip(x, y) == x.email = y.email \/ x.phone = y.phone
Clashes(x, y) == \/ x.email = y.email
                 \/ x.phone = y.phone /\ x.phone # NoPhone

-----------------------------------------------------------------------------
AsTypedSlip(a) == a
Normal(a)      == Email[a]

\* A phone that is missing or blank becomes NULL.
Submit(c, a, p) ==
    /\ pc[c] = "idle"
    /\ dto' = [dto EXCEPT ![c] = [typed |-> a, email |-> Normal(a), phone |-> p]]
    /\ Goto(c, "email")
    /\ UNCHANGED <<users, events>>

FindByEmail(c) ==
    /\ pc[c] = "email"
    /\ IF \E u \in users : u.email = dto[c].email
       THEN Return(c, "Email already exists")
       ELSE Goto(c, IF dto[c].phone = NoPhone THEN "insert" ELSE "phone")
    /\ UNCHANGED <<users, dto, events>>

FindByPhone(c) ==
    /\ pc[c] = "phone"
    /\ IF \E u \in users : u.phone = dto[c].phone
       THEN Return(c, "Phone already exists")
       ELSE Goto(c, "insert")
    /\ UNCHANGED <<users, dto, events>>

Row(c) == [by |-> c, email |-> dto[c].email, phone |-> dto[c].phone]

\* The e-mail constraint is checked first, and error.detail names the column
\* and the value that clashed; register looks for the word "phone" in it.
ConflictOf(c) ==
    IF /\ \E u \in users : u.email = dto[c].email
       /\ dto[c].email \notin Phonelike
    THEN "Email already exists" ELSE "Phone already exists"

\* bcrypt.hash, and an INSERT that commits on its own.
SwallowSlip(c) ==
    /\ pc[c] = "insert"
    /\ \/ UNCHANGED users
       \/ /\ \A u \in users : ~Clashes(Row(c), u)
          /\ users' = users \cup {Row(c)}
    /\ Goto(c, "publish")
    /\ UNCHANGED <<dto, events>>
Insert(c) ==
    /\ pc[c] = "insert"
    /\ \/ /\ \E u \in users : Clashes(Row(c), u)
          /\ Return(c, ConflictOf(c))
          /\ UNCHANGED users
       \/ /\ \A u \in users : ~Clashes(Row(c), u)
          /\ users' = users \cup {Row(c)}
          /\ \/ Goto(c, "publish")
             \/ "commitAck" \in Failures /\ Return(c, "failed")
    /\ UNCHANGED <<dto, events>>

\* A broker that fails is logged, and the answer is the same.
Publish(c) ==
    /\ pc[c] = "publish"
    /\ Return(c, "created")
    /\ \/ events' = events \cup {c}
       \/ "broker" \in Failures /\ UNCHANGED events
    /\ UNCHANGED <<users, dto>>

\* The database fails a statement: the call throws.
DatabaseFails(c) ==
    /\ "database" \in Failures
    /\ pc[c] \in {"email", "phone", "insert"}
    /\ Return(c, "failed")
    /\ UNCHANGED <<users, dto, events>>

\* The process ends with the calls under way; an event may be out already.
Crash ==
    /\ "crash" \in Failures
    /\ \E c \in Calls : pc[c] \notin {"idle", "done"}
    /\ \E out \in SUBSET {c \in Calls : pc[c] = "publish"} :
          events' = events \cup out
    /\ reply' = [c \in Calls |->
                   IF pc[c] \in {"idle", "done"} THEN reply[c] ELSE "lost"]
    /\ pc' = [c \in Calls |-> IF pc[c] = "idle" THEN "idle" ELSE "done"]
    /\ UNCHANGED <<users, dto>>

Next == \/ \E c \in Calls :
              \/ \E a \in Typed, p \in Phones \cup {NoPhone} : Submit(c, a, p)
              \/ FindByEmail(c) \/ FindByPhone(c) \/ Insert(c) \/ Publish(c)
              \/ DatabaseFails(c)
        \/ Crash

Spec == Init /\ [][Next]_vars

-----------------------------------------------------------------------------
\* However many people register at once, no address, in whatever case it was
\* typed, and no phone number has two users.
OneUserEach ==
    \A u, v \in users : u # v =>
        /\ Email[dto[u.by].typed] # Email[dto[v.by].typed]
        /\ u.phone = v.phone => u.phone = NoPhone

\* A conflict that is reported is one: another user has that address, or that
\* phone number (unless the word "phone" in an address misleads ConflictOf).
ConflictIsTrue ==
    \A c \in Calls :
        /\ reply[c] = "Email already exists" =>
              \E u \in users : u.by # c /\ u.email = dto[c].email
        /\ reply[c] = "Phone already exists" /\ dto[c].email \notin Phonelike =>
              \E u \in users : u.by # c /\ u.phone = dto[c].phone
                                        /\ u.phone # NoPhone

\* Whoever is told to be registered, or gets a welcome, has a row with the
\* address and phone asked for, whatever failed and however calls raced.
CreatedIsStored ==
    \A c \in Calls : reply[c] = "created" \/ c \in events => Row(c) \in users
=============================================================================
