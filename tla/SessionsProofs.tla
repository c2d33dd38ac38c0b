--------------------------- MODULE SessionsProofs ---------------------------
(***************************************************************************)
(* Proofs about Sessions, for any number of users, calls and roles.        *)
(***************************************************************************)
EXTENDS Sessions, TLAPS

TypeOK ==
    /\ now \in Nat
    /\ role \in [Users -> Roles]
    /\ column \in [Users -> Token \cup {NoToken}]
    /\ stage \in [Calls -> {"idle", "sign", "store", "done"}]
    /\ made \in [Calls -> Token \cup {NoToken}]
    /\ given \in SUBSET Token /\ held \in SUBSET given
    /\ recent \in [Users -> SUBSET [role : Roles, left : Nat]]

\* A call past its read carries a pair, and a row holds a token of its user.
Carries == \A c \in Calls : stage[c] \in {"sign", "store"} => made[c] \in Token
Own     == \A u \in Users : column[u] # NoToken => column[u].user = u

\* The token's role is its user's, or was until no more than w before the
\* token was signed.
Backed(t, w) ==
    /\ t.at <= now
    /\ \/ t.role = role[t.user]
       \/ \E h \in recent[t.user] : h.role = t.role /\ t.at <= h.left + w

\* What a pair is worth while it is made and after it was given.
Reading(t) == now <= t.at + Delay /\ Backed(t, 0)
Live(t)    == now < t.at + AccessTtl => Backed(t, Delay)

Signing == \A c \in Calls : stage[c] = "sign" => Reading(made[c])
Storing == \A c \in Calls : stage[c] = "store" => Live(made[c])
Given   == \A t \in given : Live(t)

IInv == /\ TypeOK /\ Carries /\ Own /\ HeldTokensRefresh
        /\ Signing /\ Storing /\ Given

-----------------------------------------------------------------------------
LEMMA InitInv == Init => IInv
  BY SessionsAssumption
  DEF Init, IInv, TypeOK, Carries, Own, HeldTokensRefresh, Signing, Storing, Given

LEMMA TokenIsNone == NoToken \notin Token
  BY SessionsAssumption DEF Token, NoToken

\* A role taken away stays on record from now on.
LEMMA SetRoleBacked ==
    ASSUME TypeOK, NEW u \in Users, NEW r \in Roles, SetRole(u, r),
           NEW t \in Token, NEW w \in Nat, Backed(t, w)
    PROVE  Backed(t, w)'
  <1> DEFINE h0 == [role |-> role[u], left |-> now]
  <1>0. /\ now' = now /\ now \in Nat /\ t.at \in Nat /\ t.user \in Users
        /\ role' = [role EXCEPT ![u] = r]
        /\ recent' = [recent EXCEPT ![u] = {h \in recent[u] : h.role # role[u]} \cup {h0}]
        /\ recent \in [Users -> SUBSET [role : Roles, left : Nat]]
        /\ role \in [Users -> Roles]
        /\ t.at <= now
    BY DEF TypeOK, SetRole, Token, Backed
  <1>1. CASE t.user # u
    <2>1. role'[t.user] = role[t.user] /\ recent'[t.user] = recent[t.user]
      BY <1>0, <1>1
    <2> QED BY <2>1, <1>0 DEF Backed
  <1>2. CASE t.user = u
    <2>1. recent'[u] = {h \in recent[u] : h.role # role[u]} \cup {h0}
      BY <1>0
    <2>2. CASE t.role = role[u]
      <3>1. h0 \in recent'[t.user] /\ h0.role = t.role /\ t.at <= h0.left + w
        BY <2>1, <2>2, <1>0, <1>2
      <3> QED BY <3>1, <1>0 DEF Backed
    <2>3. CASE t.role # role[u]
      <3>1. PICK h \in recent[t.user] : h.role = t.role /\ t.at <= h.left + w
        BY <2>3, <1>2 DEF Backed
      <3>2. h \in recent'[t.user]
        BY <3>1, <2>1, <2>3, <1>2
      <3> QED BY <3>1, <3>2, <1>0 DEF Backed
    <2> QED BY <2>2, <2>3
  <1> QED BY <1>1, <1>2

\* The record outlives every token that rests on it.
LEMMA TickBacked ==
    ASSUME TypeOK, Tick, NEW t \in Token, NEW w \in Nat, Backed(t, w),
           now' < t.at + AccessTtl + Delay - w
    PROVE  Backed(t, w)'
  <1>0. /\ now' = now + 1 /\ now \in Nat /\ t.at \in Nat /\ t.user \in Users
        /\ role' = role
        /\ recent' = [v \in Users |-> {h \in recent[v] : now' < h.left + AccessTtl + Delay}]
        /\ recent \in [Users -> SUBSET [role : Roles, left : Nat]]
        /\ AccessTtl \in Nat /\ Delay \in Nat
        /\ t.at <= now
    BY SessionsAssumption DEF TypeOK, Tick, Token, Backed
  <1>1. CASE t.role = role[t.user]
    BY <1>0, <1>1 DEF Backed
  <1>2. CASE \E h \in recent[t.user] : h.role = t.role /\ t.at <= h.left + w
    <2>1. PICK h \in recent[t.user] : h.role = t.role /\ t.at <= h.left + w
      BY <1>2
    <2>2. h.left \in Nat
      BY <1>0, <2>1
    <2>3. now' < h.left + AccessTtl + Delay
      BY <1>0, <2>1, <2>2
    <2>4. h \in recent'[t.user]
      BY <1>0, <2>1, <2>3
    <2> QED BY <2>4, <2>1, <1>0 DEF Backed
  <1> QED BY <1>1, <1>2 DEF Backed

-----------------------------------------------------------------------------
LEMMA TypeStep == IInv /\ [Next]_vars => TypeOK' /\ Carries' /\ Own' /\ HeldTokensRefresh'
  <1> SUFFICES ASSUME IInv, [Next]_vars
               PROVE  TypeOK' /\ Carries' /\ Own' /\ HeldTokensRefresh'
    OBVIOUS
  <1> USE SessionsAssumption, TokenIsNone
  <1>1. ASSUME NEW c \in Calls, NEW u \in Users, NEW r \in Roles, Read(c, u, r),
               UNCHANGED <<now, role, column, given, held, recent>>
        PROVE  TypeOK' /\ Carries' /\ Own' /\ HeldTokensRefresh'
    <2> DEFINE p == [by |-> c, user |-> u, role |-> role[u], at |-> now]
    <2>1. p \in Token
      BY DEF IInv, TypeOK, Token
    <2>2. made' = [made EXCEPT ![c] = p] /\ stage' = [stage EXCEPT ![c] = "sign"]
      BY <1>1 DEF Read
    <2> HIDE DEF p
    <2>3. TypeOK' /\ Carries'
      BY <1>1, <2>1, <2>2 DEF IInv, TypeOK, Carries
    <2>4. Own' /\ HeldTokensRefresh'
      BY <1>1 DEF IInv, Own, HeldTokensRefresh, Matches
    <2> QED BY <2>3, <2>4
  <1>2. ASSUME NEW c \in Calls, Reject(c),
               UNCHANGED <<now, role, column, given, held, recent>>
        PROVE  TypeOK' /\ Carries' /\ Own' /\ HeldTokensRefresh'
    BY <1>2 DEF Reject, IInv, TypeOK, Carries, Own, HeldTokensRefresh, Matches
  <1>3. ASSUME NEW c \in Calls, NEW u \in Users, Login(c, u)
        PROVE  TypeOK' /\ Carries' /\ Own' /\ HeldTokensRefresh'
    <2>1. role[u] \in Roles
      BY DEF IInv, TypeOK
    <2> QED BY <1>1, <1>2, <1>3, <2>1 DEF Login
  <1>4. ASSUME NEW c \in Calls, NEW t \in given, Refresh(c, t)
        PROVE  TypeOK' /\ Carries' /\ Own' /\ HeldTokensRefresh'
    <2>1. t.user \in Users /\ t.role \in Roles
      BY DEF IInv, TypeOK, Token
    <2> QED BY <1>1, <1>2, <1>4, <2>1 DEF Refresh
  <1>5. ASSUME NEW c \in Calls, Sign(c)
        PROVE  TypeOK' /\ Carries' /\ Own' /\ HeldTokensRefresh'
    <2>1. made[c] \in Token
      BY <1>5 DEF Sign, IInv, Carries
    <2>2. [made[c] EXCEPT !.at = now] \in Token
      BY <2>1 DEF IInv, TypeOK, Token
    <2>3. TypeOK' /\ Carries'
      BY <1>5, <2>2 DEF Sign, IInv, TypeOK, Carries
    <2>4. Own' /\ HeldTokensRefresh'
      BY <1>5 DEF Sign, IInv, Own, HeldTokensRefresh, Matches
    <2> QED BY <2>3, <2>4
  <1>6. ASSUME NEW c \in Calls, Store(c)
        PROVE  TypeOK' /\ Carries' /\ Own' /\ HeldTokensRefresh'
    <2>1. made[c] \in Token /\ made[c].user \in Users
      BY <1>6 DEF Store, IInv, Carries, Token
    <2>2. TypeOK' /\ Carries'
      BY <1>6, <2>1 DEF Store, IInv, TypeOK, Carries
    <2>3. Own'
      BY <1>6, <2>1 DEF Store, IInv, TypeOK, Own
    <2>4. ASSUME NEW t \in held'
          PROVE  column'[t.user] # NoToken /\ Matches(t, column'[t.user])
      <3>1. t \in held \/ t = made[c]
        BY <1>6 DEF Store
      <3>2. t.user \in Users
        BY <3>1, <2>1 DEF IInv, TypeOK, Token
      <3>3. column'[t.user] = made[c] \/ (t \in held /\ column'[t.user] = column[t.user])
        BY <1>6, <3>1, <3>2 DEF Store, IInv, TypeOK
      <3>4. CASE t \in held /\ column'[t.user] = column[t.user]
        BY <3>4 DEF IInv, HeldTokensRefresh
      <3>5. CASE column'[t.user] = made[c]
        BY <3>5, <2>1, <2>3, <3>2 DEF Own, Matches
      <3> QED BY <3>3, <3>4, <3>5
    <2> QED BY <2>2, <2>3, <2>4 DEF HeldTokensRefresh, Matches
  <1>7. ASSUME NEW c \in Calls, NEW t \in given, Logout(c, t)
        PROVE  TypeOK' /\ Carries' /\ Own' /\ HeldTokensRefresh'
    <2>1. t.user \in Users
      BY DEF IInv, TypeOK, Token
    <2>2. TypeOK' /\ Carries'
      BY <1>7, <2>1 DEF Logout, IInv, TypeOK, Carries
    <2>3. Own'
      BY <1>7, <2>1 DEF Logout, IInv, TypeOK, Own
    <2>4. ASSUME NEW k \in held'
          PROVE  column'[k.user] # NoToken /\ Matches(k, column'[k.user])
      <3>1. k \in held /\ k.user # t.user /\ k.user \in Users
        BY <1>7 DEF Logout, IInv, TypeOK, Token
      <3>2. column'[k.user] = column[k.user]
        BY <1>7, <3>1 DEF Logout, IInv, TypeOK
      <3> QED BY <3>1, <3>2 DEF IInv, HeldTokensRefresh
    <2> QED BY <2>2, <2>3, <2>4 DEF HeldTokensRefresh, Matches
  <1>8. ASSUME NEW u \in Users, NEW r \in Roles, SetRole(u, r)
        PROVE  TypeOK' /\ Carries' /\ Own' /\ HeldTokensRefresh'
    <2>1. [role |-> role[u], left |-> now] \in [role : Roles, left : Nat]
      BY DEF IInv, TypeOK
    <2>2. recent' \in [Users -> SUBSET [role : Roles, left : Nat]]
      BY <1>8, <2>1 DEF SetRole, IInv, TypeOK
    <2> QED BY <1>8, <2>2
         DEF SetRole, IInv, TypeOK, Carries, Own, HeldTokensRefresh, Matches
  <1>9. ASSUME Tick
        PROVE  TypeOK' /\ Carries' /\ Own' /\ HeldTokensRefresh'
    BY <1>9 DEF Tick, IInv, TypeOK, Carries, Own, HeldTokensRefresh, Matches
  <1>10. ASSUME NEW c \in Calls, Fail(c)
         PROVE  TypeOK' /\ Carries' /\ Own' /\ HeldTokensRefresh'
    BY <1>2, <1>10 DEF Fail
  <1>11. ASSUME UNCHANGED vars
         PROVE  TypeOK' /\ Carries' /\ Own' /\ HeldTokensRefresh'
    BY <1>11 DEF vars, IInv, TypeOK, Carries, Own, HeldTokensRefresh, Matches
  <1> QED BY <1>3, <1>4, <1>5, <1>6, <1>7, <1>8, <1>9, <1>10, <1>11 DEF Next

LEMMA WorthStep == IInv /\ [Next]_vars => Signing' /\ Storing' /\ Given'
  <1> SUFFICES ASSUME IInv, [Next]_vars PROVE Signing' /\ Storing' /\ Given'
    OBVIOUS
  <1> USE SessionsAssumption
  <1>1. ASSUME NEW c \in Calls, NEW u \in Users, NEW r, Read(c, u, r),
               UNCHANGED <<now, role, column, given, held, recent>>
        PROVE  Signing' /\ Storing' /\ Given'
    <2>0. PICK p : p = [by |-> c, user |-> u, role |-> role[u], at |-> now]
      OBVIOUS
    <2>1. Reading(p)
      BY <2>0 DEF Reading, Backed, IInv, TypeOK
    <2>2. made' = [made EXCEPT ![c] = p] /\ stage' = [stage EXCEPT ![c] = "sign"]
      BY <1>1, <2>0 DEF Read
    <2>3. \A k \in Calls : /\ made'[k] = IF k = c THEN p ELSE made[k]
                           /\ stage'[k] = IF k = c THEN "sign" ELSE stage[k]
      BY <2>2 DEF IInv, TypeOK
    <2>4. Reading(p)'
      BY <1>1, <2>1 DEF Reading, Backed
    <2>5. ASSUME NEW k \in Calls, stage'[k] = "sign"
          PROVE  Reading(made[k])'
      <3>1. CASE k = c
        BY <3>1, <2>3, <2>4 DEF Reading, Backed
      <3>2. CASE k # c
        BY <3>2, <1>1, <2>3, <2>5 DEF IInv, Signing, Reading, Backed
      <3> QED BY <3>1, <3>2
    <2>6. Storing' /\ Given'
      BY <1>1, <2>3 DEF IInv, Storing, Given, Live, Backed
    <2> QED BY <2>5, <2>6 DEF Signing
  <1>2. ASSUME NEW c \in Calls, Reject(c),
               UNCHANGED <<now, role, column, given, held, recent>>
        PROVE  Signing' /\ Storing' /\ Given'
    BY <1>2 DEF Reject, IInv, TypeOK, Signing, Storing, Given, Reading, Live, Backed
  <1>3. ASSUME NEW c \in Calls, NEW u \in Users, Login(c, u)
        PROVE  Signing' /\ Storing' /\ Given'
    BY <1>1, <1>2, <1>3 DEF Login
  <1>4. ASSUME NEW c \in Calls, NEW t \in given, Refresh(c, t)
        PROVE  Signing' /\ Storing' /\ Given'
    <2>1. t.user \in Users
      BY DEF IInv, TypeOK, Token
    <2> QED BY <1>1, <1>2, <1>4, <2>1 DEF Refresh
  <1>5. ASSUME NEW c \in Calls, Sign(c)
        PROVE  Signing' /\ Storing' /\ Given'
    <2> DEFINE p == [made[c] EXCEPT !.at = now]
    <2>0. stage[c] = "sign" /\ UNCHANGED <<now, role, recent, given>>
      BY <1>5 DEF Sign
    <2>1. made[c] \in Token /\ Reading(made[c])
      BY <2>0 DEF IInv, Carries, Signing
    <2>2. /\ p.at = now /\ p.role = made[c].role /\ p.user = made[c].user
          /\ made[c].at \in Nat /\ now \in Nat /\ p.user \in Users /\ Delay \in Nat
      BY <2>1 DEF Token, IInv, TypeOK
    <2>3. \A h \in recent[p.user] : h.left \in Nat
      BY <2>2 DEF IInv, TypeOK
    <2>4. Backed(p, Delay)
      <3> HIDE DEF p
      <3>1. CASE made[c].role = role[made[c].user]
        BY <3>1, <2>2 DEF Backed
      <3>2. CASE made[c].role # role[made[c].user]
        <4>1. PICK h \in recent[p.user] : h.role = p.role /\ made[c].at <= h.left + 0
          BY <3>2, <2>1, <2>2 DEF Reading, Backed
        <4>2. p.at <= h.left + Delay
          BY <4>1, <2>1, <2>2, <2>3 DEF Reading
        <4> QED BY <4>1, <4>2, <2>2 DEF Backed
      <3> QED BY <3>1, <3>2
    <2>5. made' = [made EXCEPT ![c] = p] /\ stage' = [stage EXCEPT ![c] = "store"]
      BY <1>5, <2>1 DEF Sign, Token
    <2> HIDE DEF p
    <2>6. \A k \in Calls : /\ made'[k] = IF k = c THEN p ELSE made[k]
                           /\ stage'[k] = IF k = c THEN "store" ELSE stage[k]
      BY <2>5 DEF IInv, TypeOK
    <2>7. Signing' /\ Given'
      BY <2>0, <2>6 DEF IInv, Signing, Given, Reading, Live, Backed
    <2>8. Storing'
      BY <2>0, <2>6, <2>4 DEF IInv, Storing, Live, Backed
    <2> QED BY <2>7, <2>8
  <1>6. ASSUME NEW c \in Calls, Store(c)
        PROVE  Signing' /\ Storing' /\ Given'
    BY <1>6 DEF Store, IInv, TypeOK, Signing, Storing, Given, Reading, Live, Backed
  <1>7. ASSUME NEW c \in Calls, NEW t \in given, Logout(c, t)
        PROVE  Signing' /\ Storing' /\ Given'
    BY <1>7 DEF Logout, IInv, TypeOK, Signing, Storing, Given, Reading, Live, Backed
  <1>8. ASSUME NEW u \in Users, NEW r \in Roles, SetRole(u, r)
        PROVE  Signing' /\ Storing' /\ Given'
    <2>0. UNCHANGED <<now, stage, made, given>> /\ TypeOK /\ Delay \in Nat
      BY <1>8 DEF SetRole, IInv
    <2>1. ASSUME NEW c \in Calls, stage[c] = "sign" PROVE Reading(made[c])'
      <3>1. made[c] \in Token /\ Reading(made[c])
        BY <2>1 DEF IInv, Carries, Signing
      <3>2. Backed(made[c], 0)'
        <4>1. PICK t \in Token : t = made[c] /\ Backed(t, 0) /\ made'[c] = t
          BY <3>1, <2>0 DEF Reading
        <4>2. Backed(t, 0)'
          BY <1>8, <2>0, <4>1, SetRoleBacked
        <4> QED BY <4>1, <4>2 DEF Backed
      <3> QED BY <3>1, <3>2, <2>0 DEF Reading
    <2>2. ASSUME NEW t \in Token, Live(t) PROVE Live(t)'
      BY <1>8, <2>0, <2>2, SetRoleBacked DEF Live
    <2>3. Signing'
      BY <2>0, <2>1 DEF Signing
    <2>4. Given'
      BY <2>0, <2>2 DEF IInv, Given, TypeOK
    <2>5. ASSUME NEW c \in Calls, stage[c] = "store" PROVE Live(made[c])'
      <3>1. PICK t \in Token : t = made[c] /\ Live(t) /\ made'[c] = t
        BY <2>0, <2>5 DEF IInv, Carries, Storing
      <3>2. Live(t)'
        BY <3>1, <2>2
      <3> QED BY <3>1, <3>2 DEF Live, Backed
    <2> QED BY <2>0, <2>3, <2>4, <2>5 DEF Storing
  <1>9. ASSUME Tick
        PROVE  Signing' /\ Storing' /\ Given'
    <2>0. /\ UNCHANGED <<stage, made, given>> /\ TypeOK /\ now' = now + 1
          /\ now \in Nat /\ Delay \in Nat /\ AccessTtl \in Nat \ {0}
      BY <1>9 DEF Tick, IInv, TypeOK
    <2>1. ASSUME NEW c \in Calls, stage[c] = "sign" PROVE Reading(made[c])'
      <3>1. PICK t \in Token :
                /\ t = made[c] /\ Reading(t) /\ made'[c] = t
                /\ t.at \in Nat
        BY <2>0, <2>1 DEF IInv, Carries, Signing, Token
      <3>2. now - t.at < Delay
        BY <1>9, <2>1, <3>1 DEF Tick
      <3>3. now' <= t.at + Delay /\ now' < t.at + AccessTtl + Delay - 0
        BY <3>1, <3>2, <2>0
      <3>4. Backed(t, 0)'
        BY <1>9, <2>0, <3>1, <3>3, TickBacked DEF Reading
      <3> QED BY <3>1, <3>3, <3>4 DEF Reading, Backed
    <2>2. ASSUME NEW t \in Token, Live(t) PROVE Live(t)'
      <3> SUFFICES ASSUME now' < t.at + AccessTtl PROVE Backed(t, Delay)'
        BY DEF Live
      <3>1. t.at \in Nat
        BY DEF Token
      <3>2. now < t.at + AccessTtl /\ now' < t.at + AccessTtl + Delay - Delay
        BY <3>1, <2>0
      <3> QED BY <1>9, <2>0, <2>2, <3>2, TickBacked DEF Live
    <2>3. Signing'
      BY <2>0, <2>1 DEF Signing
    <2>4. Given'
      BY <2>0, <2>2 DEF IInv, Given, TypeOK
    <2>5. ASSUME NEW c \in Calls, stage[c] = "store" PROVE Live(made[c])'
      <3>1. PICK t \in Token : t = made[c] /\ Live(t) /\ made'[c] = t
        BY <2>0, <2>5 DEF IInv, Carries, Storing
      <3>2. Live(t)'
        BY <3>1, <2>2
      <3> QED BY <3>1, <3>2 DEF Live, Backed
    <2> QED BY <2>0, <2>3, <2>4, <2>5 DEF Storing
  <1>10. ASSUME NEW c \in Calls, Fail(c)
         PROVE  Signing' /\ Storing' /\ Given'
    BY <1>2, <1>10 DEF Fail
  <1>11. ASSUME UNCHANGED vars
         PROVE  Signing' /\ Storing' /\ Given'
    BY <1>11 DEF vars, IInv, Signing, Storing, Given, Reading, Live, Backed
  <1> QED BY <1>3, <1>4, <1>5, <1>6, <1>7, <1>8, <1>9, <1>10, <1>11 DEF Next

LEMMA Invariance == Spec => []IInv
  <1>1. IInv /\ [Next]_vars => IInv'
    BY TypeStep, WorthStep DEF IInv
  <1> QED BY <1>1, InitInv, PTL DEF Spec

-----------------------------------------------------------------------------
\* However logins, refreshes and logouts of however many users fall together, a
\* client whose user did not log out can refresh (AuthService.refresh).
THEOREM SessionsSurvive == Spec => []HeldTokensRefresh
  <1>1. IInv => HeldTokensRefresh
    BY DEF IInv
  <1> QED BY <1>1, Invariance, PTL

\* RolesGuard trusts the role in a token for AccessTtl at most, though refreshes
\* sign new tokens without end.
THEOREM RolesExpire == Spec => []RoleCurrent
  <1>1. IInv => RoleCurrent
    <2> SUFFICES ASSUME IInv, NEW t \in given, NEW roles \in SUBSET Roles,
                        roles # {}, Admits(t, roles)
                 PROVE  \E r \in {role[t.user]} \cup {h.role : h \in recent[t.user]} : r \in roles
      BY DEF RoleCurrent
    <2>1. t \in Token /\ t.at \in Nat /\ now \in Nat /\ AccessTtl \in Nat
      BY SessionsAssumption DEF IInv, TypeOK, Token
    <2>2. t.role \in roles /\ now < t.at + AccessTtl
      BY <2>1 DEF Admits, Expired
    <2>3. Backed(t, Delay)
      BY <2>2 DEF IInv, Given, Live
    <2> QED BY <2>2, <2>3 DEF Backed
  <1> QED BY <1>1, Invariance, PTL
=============================================================================
