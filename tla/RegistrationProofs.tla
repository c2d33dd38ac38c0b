------------------------- MODULE RegistrationProofs -------------------------
(***************************************************************************)
(* Proofs about Registration, for any number of calls and people.          *)
(***************************************************************************)
EXTENDS Registration, TLAPS

TypeOK == /\ users \in SUBSET User
          /\ pc \in [Calls -> Stages]
          /\ dto \in [Calls -> Dto]
          /\ reply \in [Calls -> Replies]
          /\ events \in SUBSET Calls

\* What a call carries from its start on, and before it.
Normalised == \A c \in Calls : pc[c] # "idle" => dto[c].email = Email[dto[c].typed]
Unanswered == \A c \in Calls : pc[c] = "idle" => reply[c] = "none" /\ c \notin events

\* A row is the one its call inserted, and no two rows clash.
Mine  == \A u \in users : u = Row(u.by) /\ pc[u.by] \in {"publish", "done"}
Apart == \A u, v \in users : u # v => ~Clashes(u, v)

Inserted == \A c \in Calls : pc[c] = "publish" => Row(c) \in users

IInv == TypeOK /\ Normalised /\ Unanswered /\ Mine /\ Apart /\ Inserted /\ CreatedIsStored

-----------------------------------------------------------------------------
LEMMA RowIsUser == ASSUME TypeOK, NEW c \in Calls PROVE Row(c) \in User /\ Row(c).by = c
  BY DEF TypeOK, Row, User, Dto

LEMMA InitInv == Init => IInv
  <1> SUFFICES ASSUME Init PROVE IInv
    OBVIOUS
  <1>1. \E d \in Dto : d.phone = NoPhone
    <2>1. PICK a \in Typed : TRUE
      BY RegistrationAssumption
    <2>2. [typed |-> a, email |-> Email[a], phone |-> NoPhone] \in Dto
      BY <2>1 DEF Dto, Emails
    <2> QED BY <2>2
  <1>2. (CHOOSE d \in Dto : d.phone = NoPhone) \in Dto
    BY <1>1
  <1> QED BY <1>2 DEF Init, IInv, TypeOK, Normalised, Unanswered, Mine, Apart, Inserted,
                      CreatedIsStored, Stages, Replies

\* A call that is on its way to the INSERT, or ends before it.
LEMMA QuietStep ==
    ASSUME IInv, NEW c \in Calls, pc[c] \in {"email", "phone", "insert"},
           NEW p \in {"phone", "insert", "done"}, pc' = [pc EXCEPT ![c] = p],
           NEW r \in Replies, r = reply[c] \/ r # "created",
           reply' = [reply EXCEPT ![c] = r],
           UNCHANGED <<users, dto, events>>
    PROVE  IInv'
  <1>1. TypeOK'
    BY DEF IInv, TypeOK, Stages
  <1>2. Normalised' /\ Unanswered' /\ Inserted'
    BY DEF IInv, TypeOK, Normalised, Unanswered, Inserted, Row
  <1>3. Mine'
    BY RowIsUser DEF IInv, TypeOK, Mine, Row, User
  <1>4. Apart'
    BY DEF IInv, Apart, Clashes
  <1>5. CreatedIsStored'
    BY DEF IInv, TypeOK, CreatedIsStored, Row
  <1> QED BY <1>1, <1>2, <1>3, <1>4, <1>5 DEF IInv

LEMMA SubmitStep ==
    ASSUME IInv, NEW c \in Calls, NEW a \in Typed, NEW p \in Phones \cup {NoPhone},
           Submit(c, a, p)
    PROVE  IInv'
  <1> DEFINE d == [typed |-> a, email |-> Email[a], phone |-> p]
  <1>1. /\ pc[c] = "idle" /\ pc' = [pc EXCEPT ![c] = "email"]
        /\ dto' = [dto EXCEPT ![c] = d]
        /\ UNCHANGED <<users, events, reply>>
    BY DEF Submit, Goto, Normal
  <1>2. d \in Dto
    BY DEF Dto, Emails
  <1>3. TypeOK'
    BY <1>1, <1>2 DEF IInv, TypeOK, Stages
  <1>4. Normalised' /\ Unanswered'
    BY <1>1 DEF IInv, TypeOK, Normalised, Unanswered
  <1>5. Mine'
    BY <1>1 DEF IInv, TypeOK, Mine, Row, User
  <1>6. Apart'
    BY <1>1 DEF IInv, Apart, Clashes
  <1>7. Inserted'
    BY <1>1 DEF IInv, TypeOK, Inserted, Row
  <1>8. CreatedIsStored'
    BY <1>1 DEF IInv, TypeOK, CreatedIsStored, Unanswered, Row
  <1> QED BY <1>3, <1>4, <1>5, <1>6, <1>7, <1>8 DEF IInv

\* The INSERT succeeds; its caller may not learn of it.
LEMMA InsertStep ==
    ASSUME IInv, NEW c \in Calls, pc[c] = "insert",
           \A u \in users : ~Clashes(Row(c), u),
           users' = users \cup {Row(c)},
           NEW p \in {"publish", "done"}, pc' = [pc EXCEPT ![c] = p],
           NEW r \in Replies \ {"created"}, reply' = [reply EXCEPT ![c] = r],
           UNCHANGED <<dto, events>>
    PROVE  IInv'
  <1>1. TypeOK'
    BY RowIsUser DEF IInv, TypeOK, Stages
  <1>2. Normalised' /\ Unanswered' /\ Inserted'
    BY DEF IInv, TypeOK, Normalised, Unanswered, Inserted, Row
  <1>3. Mine'
    <2>1. Row(c)' = Row(c) /\ Row(c).by = c
      BY RowIsUser DEF IInv, Row
    <2> SUFFICES ASSUME NEW u \in users' PROVE u = Row(u.by)' /\ pc'[u.by] \in {"publish", "done"}
      BY DEF Mine
    <2>2. CASE u \in users
      BY <2>2 DEF IInv, TypeOK, Mine, Row, User
    <2>3. CASE u = Row(c)
      BY <2>1, <2>3 DEF IInv, TypeOK, Row
    <2> QED BY <2>2, <2>3
  <1>4. Apart'
    BY DEF IInv, Apart, Clashes
  <1>5. CreatedIsStored'
    BY DEF IInv, TypeOK, CreatedIsStored, Row
  <1> QED BY <1>1, <1>2, <1>3, <1>4, <1>5 DEF IInv

LEMMA PublishStep ==
    ASSUME IInv, NEW c \in Calls, Publish(c)
    PROVE  IInv'
  <1>1. /\ pc[c] = "publish" /\ pc' = [pc EXCEPT ![c] = "done"]
        /\ reply' = [reply EXCEPT ![c] = "created"]
        /\ events' \in SUBSET (events \cup {c})
        /\ UNCHANGED <<users, dto>>
    BY DEF Publish, Return
  <1>2. Row(c) \in users
    BY <1>1 DEF IInv, Inserted
  <1>3. TypeOK'
    BY <1>1 DEF IInv, TypeOK, Stages, Replies
  <1>4. Normalised' /\ Unanswered' /\ Inserted'
    BY <1>1 DEF IInv, TypeOK, Normalised, Unanswered, Inserted, Row
  <1>5. Mine'
    BY <1>1 DEF IInv, TypeOK, Mine, Row, User
  <1>6. Apart'
    BY <1>1 DEF IInv, Apart, Clashes
  <1>7. CreatedIsStored'
    BY <1>1, <1>2 DEF IInv, TypeOK, CreatedIsStored, Row
  <1> QED BY <1>3, <1>4, <1>5, <1>6, <1>7 DEF IInv

LEMMA CrashStep == ASSUME IInv, Crash PROVE IInv'
  <1>1. /\ UNCHANGED <<users, dto>>
        /\ events' \in SUBSET (events \cup {c \in Calls : pc[c] = "publish"})
        /\ pc' = [c \in Calls |-> IF pc[c] = "idle" THEN "idle" ELSE "done"]
        /\ reply' = [c \in Calls |->
                       IF pc[c] \in {"idle", "done"} THEN reply[c] ELSE "lost"]
    BY DEF Crash
  <1>2. TypeOK'
    BY <1>1 DEF IInv, TypeOK, Stages, Replies
  <1>3. Normalised' /\ Unanswered' /\ Inserted'
    BY <1>1 DEF IInv, TypeOK, Normalised, Unanswered, Inserted, Row
  <1>4. Mine'
    BY <1>1 DEF IInv, TypeOK, Mine, Row, User
  <1>5. Apart'
    BY <1>1 DEF IInv, Apart, Clashes
  <1>6. CreatedIsStored'
    <2> SUFFICES ASSUME NEW c \in Calls, reply'[c] = "created" \/ c \in events'
                 PROVE  Row(c)' \in users'
      BY DEF CreatedIsStored
    <2>1. Row(c)' = Row(c)
      BY <1>1 DEF Row
    <2>2. reply[c] = "created" \/ c \in events \/ pc[c] = "publish"
      BY <1>1
    <2> QED BY <1>1, <2>1, <2>2 DEF IInv, CreatedIsStored, Inserted
  <1> QED BY <1>2, <1>3, <1>4, <1>5, <1>6 DEF IInv

\* A call that ends here reports one of two conflicts, or fails.
LEMMA ConflictReply == \A c \in Calls : ConflictOf(c) \in Replies \ {"created"}
  BY DEF ConflictOf, Replies

LEMMA NextStep == IInv /\ [Next]_vars => IInv'
  <1> SUFFICES ASSUME IInv, [Next]_vars PROVE IInv'
    OBVIOUS
  <1>1. ASSUME NEW c \in Calls, pc[c] \in {"email", "phone", "insert"},
               NEW p \in {"phone", "insert"}, Goto(c, p), UNCHANGED <<users, dto, events>>
        PROVE  IInv'
    <2>1. reply[c] \in Replies /\ reply' = [reply EXCEPT ![c] = reply[c]]
      BY <1>1 DEF Goto, IInv, TypeOK
    <2> QED BY <1>1, <2>1, QuietStep DEF Goto
  <1>2. ASSUME NEW c \in Calls, pc[c] \in {"email", "phone", "insert"},
               NEW r \in Replies \ {"created"}, Return(c, r), UNCHANGED <<users, dto, events>>
        PROVE  IInv'
    BY <1>2, QuietStep DEF Return
  <1>3. {"Email already exists", "Phone already exists", "failed"} \subseteq Replies \ {"created"}
    BY DEF Replies
  <1>4. ASSUME NEW c \in Calls, NEW a \in Typed, NEW p \in Phones \cup {NoPhone},
               Submit(c, a, p)
        PROVE  IInv'
    BY <1>4, SubmitStep
  <1>5. ASSUME NEW c \in Calls, FindByEmail(c) PROVE IInv'
    BY <1>5, <1>1, <1>2, <1>3 DEF FindByEmail
  <1>6. ASSUME NEW c \in Calls, FindByPhone(c) PROVE IInv'
    BY <1>6, <1>1, <1>2, <1>3 DEF FindByPhone
  <1>7. ASSUME NEW c \in Calls, Insert(c) PROVE IInv'
    <2>1. CASE Return(c, ConflictOf(c)) /\ UNCHANGED users
      BY <1>7, <2>1, <1>2, ConflictReply DEF Insert
    <2>2. CASE /\ \A u \in users : ~Clashes(Row(c), u)
               /\ users' = users \cup {Row(c)}
               /\ Goto(c, "publish")
      <3>1. reply[c] # "created"
        <4>1. Row(c) \notin users
          BY <1>7, RowIsUser DEF Insert, IInv, Mine
        <4> QED BY <4>1 DEF IInv, CreatedIsStored
      <3>2. reply' = [reply EXCEPT ![c] = reply[c]] /\ reply[c] \in Replies
        BY <2>2 DEF Goto, IInv, TypeOK
      <3> QED BY <1>7, <2>2, <3>1, <3>2, InsertStep DEF Insert, Goto
    <2>3. CASE /\ \A u \in users : ~Clashes(Row(c), u)
               /\ users' = users \cup {Row(c)}
               /\ Return(c, "failed")
      BY <1>7, <2>3, <1>3, InsertStep DEF Insert, Return
    <2> QED BY <1>7, <2>1, <2>2, <2>3 DEF Insert
  <1>8. ASSUME NEW c \in Calls, Publish(c) PROVE IInv'
    BY <1>8, PublishStep
  <1>9. ASSUME NEW c \in Calls, DatabaseFails(c) PROVE IInv'
    BY <1>9, <1>2, <1>3 DEF DatabaseFails
  <1>10. ASSUME Crash PROVE IInv'
    BY <1>10, CrashStep
  <1>11. ASSUME UNCHANGED vars PROVE IInv'
    BY <1>11 DEF vars, IInv, TypeOK, Normalised, Unanswered, Mine, Apart, Inserted,
                 CreatedIsStored, Row, Clashes
  <1> QED BY <1>4, <1>5, <1>6, <1>7, <1>8, <1>9, <1>10, <1>11 DEF Next

LEMMA Invariance == Spec => []IInv
  BY InitInv, NextStep, PTL DEF Spec

-----------------------------------------------------------------------------
\* The unique constraints hold up however many calls of register race between
\* their lookups and their INSERTs: nobody shares an address or a phone.
THEOREM UsersUnique == Spec => []OneUserEach
  <1>1. IInv => OneUserEach
    <2> SUFFICES ASSUME IInv, NEW u \in users, NEW v \in users, u # v
                 PROVE  /\ Email[dto[u.by].typed] # Email[dto[v.by].typed]
                        /\ u.phone = v.phone => u.phone = NoPhone
      BY DEF OneUserEach
    <2>1. u.email # v.email /\ (u.phone = v.phone => u.phone = NoPhone)
      BY DEF IInv, Apart, Clashes
    <2>2. ASSUME NEW w \in users PROVE w.email = Email[dto[w.by].typed]
      <3>1. w = Row(w.by) /\ pc[w.by] # "idle" /\ w.by \in Calls
        BY DEF IInv, TypeOK, Mine, User
      <3>2. w.email = dto[w.by].email
        BY <3>1 DEF Row
      <3> QED BY <3>1, <3>2 DEF IInv, Normalised
    <2> QED BY <2>1, <2>2
  <1> QED BY <1>1, Invariance, PTL

\* "created" is said, and a welcome event sent, for rows that are there: no
\* failure or crash between the INSERT and the event changes that.
THEOREM RegistrationHonest == Spec => []CreatedIsStored
  <1>1. IInv => CreatedIsStored
    BY DEF IInv
  <1> QED BY <1>1, Invariance, PTL

\* FindByPhone runs only for calls that gave a phone.
Asked == \A c \in Calls : pc[c] = "phone" => dto[c].phone # NoPhone

LEMMA AskedStep == IInv /\ Asked /\ [Next]_vars => Asked'
  <1> SUFFICES ASSUME IInv, Asked, [Next]_vars PROVE Asked'
    OBVIOUS
  <1> USE DEF IInv, TypeOK, Asked, Goto, Return
  <1>1. ASSUME NEW c \in Calls, NEW a \in Typed, NEW p \in Phones \cup {NoPhone},
               Submit(c, a, p)
        PROVE  Asked'
    BY <1>1 DEF Submit
  <1>2. ASSUME NEW c \in Calls, FindByEmail(c) PROVE Asked'
    BY <1>2 DEF FindByEmail
  <1>3. ASSUME NEW c \in Calls, FindByPhone(c) PROVE Asked'
    BY <1>3 DEF FindByPhone
  <1>4. ASSUME NEW c \in Calls, Insert(c) PROVE Asked'
    BY <1>4 DEF Insert
  <1>5. ASSUME NEW c \in Calls, Publish(c) PROVE Asked'
    BY <1>5 DEF Publish
  <1>6. ASSUME NEW c \in Calls, DatabaseFails(c) PROVE Asked'
    BY <1>6 DEF DatabaseFails
  <1>7. ASSUME Crash PROVE Asked'
    BY <1>7 DEF Crash
  <1>8. ASSUME UNCHANGED vars PROVE Asked'
    BY <1>8 DEF vars
  <1> QED BY <1>1, <1>2, <1>3, <1>4, <1>5, <1>6, <1>7, <1>8 DEF Next

\* What call c was told of a conflict, in the table and the payloads given.
Justified(said, rows, d, c) ==
    /\ said = "Email already exists" =>
          \E u \in rows : u.by # c /\ u.email = d.email
    /\ said = "Phone already exists" /\ d.email \notin Phonelike =>
          \E u \in rows : u.by # c /\ u.phone = d.phone /\ u.phone # NoPhone

\* A lookup or a constraint that finds a row finds another call's.
LEMMA ConflictStep ==
    ASSUME IInv, Asked, NEW c \in Calls,
           FindByEmail(c) \/ FindByPhone(c) \/ Insert(c)
    PROVE  reply'[c] = reply[c] \/ Justified(reply'[c], users, dto[c], c)
  <1> USE DEF IInv, TypeOK
  <1>1. pc[c] \in {"email", "phone", "insert"}
    BY DEF FindByEmail, FindByPhone, Insert
  <1>2. \A u \in users : u.by # c
    BY <1>1 DEF Mine
  <1>3. CASE FindByEmail(c)
    BY <1>2, <1>3 DEF FindByEmail, Return, Goto, Justified
  <1>4. CASE FindByPhone(c)
    BY <1>2, <1>4 DEF FindByPhone, Return, Goto, Justified, Asked
  <1>5. CASE Insert(c)
    <2>1. CASE Return(c, ConflictOf(c)) /\ \E u \in users : Clashes(Row(c), u)
      <3>1. reply'[c] = ConflictOf(c)
        BY <2>1 DEF Return
      <3>2. PICK u \in users : Clashes(Row(c), u)
        BY <2>1
      <3>3. CASE \E v \in users : v.email = dto[c].email
        BY <3>1, <3>3, <1>2 DEF ConflictOf, Justified
      <3>4. CASE ~\E v \in users : v.email = dto[c].email
        <4>1. u.phone = dto[c].phone /\ u.phone # NoPhone
          BY <3>2, <3>4 DEF Clashes, Row
        <4> QED BY <3>1, <3>4, <4>1, <1>2 DEF ConflictOf, Justified
      <3> QED BY <3>3, <3>4
    <2>2. CASE Goto(c, "publish") \/ Return(c, "failed")
      BY <2>2 DEF Goto, Return, Justified
    <2> QED BY <1>5, <2>1, <2>2 DEF Insert
  <1> QED BY <1>3, <1>4, <1>5

\* Any other step tells c of no conflict, and changes no payload c was
\* answered about.
LEMMA OtherStep ==
    ASSUME IInv, NEW c \in Calls, [Next]_vars
    PROVE  \/ FindByEmail(c) \/ FindByPhone(c) \/ Insert(c)
           \/ reply'[c] \in {"none", "created", "failed", "lost"}
           \/ reply'[c] = reply[c] /\ dto'[c] = dto[c]
  <1> USE DEF IInv, TypeOK, Goto, Return
  <1>1. ASSUME NEW k \in Calls, NEW a \in Typed, NEW p \in Phones \cup {NoPhone},
               Submit(k, a, p)
        PROVE  reply'[c] = "none" \/ (reply'[c] = reply[c] /\ dto'[c] = dto[c])
    <2>1. pc[k] = "idle" /\ reply' = reply /\ (k # c => dto'[c] = dto[c])
      BY <1>1 DEF Submit
    <2>2. reply[k] = "none"
      BY <2>1 DEF Unanswered
    <2> QED BY <2>1, <2>2
  <1>2. ASSUME NEW k \in Calls, k # c, FindByEmail(k) \/ FindByPhone(k) \/ Insert(k)
        PROVE  reply'[c] = reply[c] /\ dto'[c] = dto[c]
    BY <1>2 DEF FindByEmail, FindByPhone, Insert
  <1>3. ASSUME NEW k \in Calls, Publish(k) \/ DatabaseFails(k)
        PROVE  \/ reply'[c] \in {"created", "failed"}
               \/ reply'[c] = reply[c] /\ dto'[c] = dto[c]
    BY <1>3 DEF Publish, DatabaseFails
  <1>4. ASSUME Crash
        PROVE  reply'[c] = "lost" \/ (reply'[c] = reply[c] /\ dto'[c] = dto[c])
    BY <1>4 DEF Crash
  <1>5. ASSUME UNCHANGED vars
        PROVE  reply'[c] = reply[c] /\ dto'[c] = dto[c]
    BY <1>5 DEF vars
  <1> QED BY <1>1, <1>2, <1>3, <1>4, <1>5 DEF Next

LEMMA UsersGrow == [Next]_vars => users \subseteq users'
  BY DEF Next, vars, Submit, FindByEmail, FindByPhone, Insert, Publish, DatabaseFails, Crash

\* ConflictIsTrue, for every instance: the ConflictException of register names
\* a column in which another user's row has the value asked for.
THEOREM ConflictsTrue == Spec => []ConflictIsTrue
  <1>1. Init => Asked /\ ConflictIsTrue
    BY DEF Init, Asked, ConflictIsTrue
  <1>2. IInv /\ Asked /\ ConflictIsTrue /\ [Next]_vars => ConflictIsTrue'
    <2> SUFFICES ASSUME IInv, Asked, ConflictIsTrue, [Next]_vars, NEW c \in Calls
                 PROVE  Justified(reply'[c], users', dto'[c], c)
      BY DEF ConflictIsTrue, Justified
    <2>1. Justified(reply[c], users, dto[c], c)
      BY DEF ConflictIsTrue, Justified
    <2>2. CASE reply'[c] = reply[c] /\ dto'[c] = dto[c]
      BY <2>1, <2>2, UsersGrow DEF Justified
    <2>3. CASE reply'[c] \in {"none", "created", "failed", "lost"}
      BY <2>3 DEF Justified
    <2>4. CASE FindByEmail(c) \/ FindByPhone(c) \/ Insert(c)
      <3>1. dto' = dto
        BY <2>4 DEF FindByEmail, FindByPhone, Insert
      <3>2. Justified(reply'[c], users, dto[c], c)
        BY <2>1, <2>4, ConflictStep
      <3> QED BY <3>1, <3>2, UsersGrow DEF Justified
    <2> QED BY <2>2, <2>3, <2>4, OtherStep
  <1>3. IInv /\ Asked /\ [Next]_vars => Asked'
    BY AskedStep
  <1> QED BY <1>1, <1>2, <1>3, Invariance, PTL DEF Spec
=============================================================================
