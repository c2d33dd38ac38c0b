------------------------------ MODULE Sessions ------------------------------
(***************************************************************************)
(* AuthService.login, refresh and logout over the users table, the tokens  *)
(* they hand out, and the guards that read them.  login and refresh read   *)
(* the user's row, await bcrypt, then the signatures, and only then store   *)
(* the hash of the new refresh token; other calls fall in between.         *)
(***************************************************************************)
EXTENDS Integers

CONSTANTS Users, NoUser,
          Calls,       \* POST /auth/login, /refresh and /logout requests
          Op,          \* call -> which of them
          Roles,       \* values of users.role
          AccessTtl,   \* life of an access token: fifteen minutes
          RefreshTtl,  \* life of a refresh token: seven days
          Delay,       \* time from the read of a user to the signatures, at most
          Horizon      \* bound on the clock

Ops == {"login", "refresh", "logout"}

ASSUME SessionsAssumption ==
    /\ NoUser \notin Users
    /\ Roles # {}
    /\ Op \in [Calls -> Ops]
    /\ AccessTtl \in Nat \ {0} /\ RefreshTtl \in Nat /\ Delay \in Nat
    /\ Horizon \in Nat

VARIABLES now,
          role,     \* users.role
          column,   \* users.refreshToken: the token hashed there, or NoToken
          stage,    \* call -> idle, sign, store, done
          made,     \* call -> the pair of tokens it is making
          given,    \* the pairs clients were given
          held,     \* those given since the user's last logout (history)
          recent    \* user -> roles lost less than AccessTtl + Delay ago
                    \* (history)

vars == <<now, role, column, stage, made, given, held, recent>>

\* An access and a refresh token signed together: the user, the role read for
\* them and when they were signed; "by" tells apart pairs for one user.
NoToken == [user |-> NoUser]
Token   == [by : Calls, user : Users, role : Roles, at : Nat]

Init == /\ now = 0
        /\ role \in [Users -> Roles]
        /\ column = [u \in Users |-> NoToken]
        /\ stage = [c \in Calls |-> "idle"]
        /\ made = [c \in Calls |-> NoToken]
        /\ given = {} /\ held = {}
        /\ recent = [u \in Users |-> {}]

\* bcrypt reads 72 bytes: the header of a JWT and the first half of the user's
\* id, so what is compared is whose token it is.
ExactSlip(t, h) == t = h
Matches(t, h)   == t.user = h.user

Expired(t, ttl) == now >= t.at + ttl

-----------------------------------------------------------------------------
\* The user's row is read, and the credentials pass against what it held.
PayloadRoleSlip(c, u, r) ==
    /\ made' = [made EXCEPT ![c] = [by |-> c, user |-> u, role |-> r, at |-> now]]
    /\ stage' = [stage EXCEPT ![c] = "sign"]
Read(c, u, r) ==
    /\ made' = [made EXCEPT ![c] = [by |-> c, user |-> u, role |-> role[u], at |-> now]]
    /\ stage' = [stage EXCEPT ![c] = "sign"]

Reject(c) == stage' = [stage EXCEPT ![c] = "done"] /\ UNCHANGED made

\* findByEmail and bcrypt.compare of the password, which may be wrong.
Login(c, u) ==
    /\ Op[c] = "login" /\ stage[c] = "idle"
    /\ Read(c, u, role[u]) \/ Reject(c)
    /\ UNCHANGED <<now, role, column, given, held, recent>>

\* verify, findById, and bcrypt.compare with the hash the row held.
Refresh(c, t) ==
    /\ Op[c] = "refresh" /\ stage[c] = "idle"
    /\ IF ~Expired(t, RefreshTtl) /\ column[t.user] # NoToken
          /\ Matches(t, column[t.user])
       THEN Read(c, t.user, t.role)
       ELSE Reject(c)
    /\ UNCHANGED <<now, role, column, given, held, recent>>

\* generateTokens: a pair expires counting from here.
Sign(c) ==
    /\ stage[c] = "sign"
    /\ made' = [made EXCEPT ![c].at = now]
    /\ stage' = [stage EXCEPT ![c] = "store"]
    /\ UNCHANGED <<now, role, column, given, held, recent>>

\* updateRefreshToken, and the answer with the pair, which may get lost.
Store(c) ==
    /\ stage[c] = "store"
    /\ column' = [column EXCEPT ![made[c].user] = made[c]]
    /\ \/ given' = given \cup {made[c]} /\ held' = held \cup {made[c]}
       \/ UNCHANGED <<given, held>>
    /\ stage' = [stage EXCEPT ![c] = "done"]
    /\ UNCHANGED <<now, role, made, recent>>

\* JwtAuthGuard lets an access token in until it expires.
Logout(c, t) ==
    /\ Op[c] = "logout" /\ stage[c] = "idle"
    /\ ~Expired(t, AccessTtl)
    /\ column' = [column EXCEPT ![t.user] = NoToken]
    /\ held' = {h \in held : h.user # t.user}
    /\ stage' = [stage EXCEPT ![c] = "done"]
    /\ UNCHANGED <<now, role, made, given, recent>>

\* A call throws, or its process ends.
Fail(c) == /\ stage[c] \in {"sign", "store"}
           /\ Reject(c)
           /\ UNCHANGED <<now, role, column, given, held, recent>>

\* No code changes a role: an operator does, in the database.
SetRole(u, r) ==
    /\ r # role[u]
    /\ role' = [role EXCEPT ![u] = r]
    /\ recent' = [recent EXCEPT ![u] = {h \in @ : h.role # role[u]}
                                          \cup {[role |-> role[u], left |-> now]}]
    /\ UNCHANGED <<now, column, stage, made, given, held>>

Tick ==
    /\ now < Horizon
    /\ \A c \in Calls : stage[c] = "sign" => now - made[c].at < Delay
    /\ now' = now + 1
    /\ recent' = [u \in Users |->
                    {h \in recent[u] : now' < h.left + AccessTtl + Delay}]
    /\ UNCHANGED <<role, column, stage, made, given, held>>

Next == \/ \E c \in Calls : \/ \E u \in Users : Login(c, u)
                            \/ \E t \in given : Refresh(c, t) \/ Logout(c, t)
                            \/ Sign(c) \/ Store(c) \/ Fail(c)
        \/ \E u \in Users, r \in Roles : SetRole(u, r)
        \/ Tick

Spec == Init /\ [][Next]_vars

-----------------------------------------------------------------------------
\* JwtStrategy and RolesGuard: a route's roles against the token's.
Admits(t, roles) == ~Expired(t, AccessTtl) /\ (roles = {} \/ t.role \in roles)

\* A token a client holds refreshes until it expires or its user logs out,
\* however many logins and refreshes of the user, retries included, stored
\* another hash meanwhile.
HeldTokensRefresh ==
    \A t \in held : column[t.user] # NoToken /\ Matches(t, column[t.user])

\* A guarded route is open only to who has one of its roles, or had it less
\* than the life of an access token (and the time it took to sign it) ago: a
\* refresh does not carry a withdrawn role along.
RoleCurrent ==
    \A t \in given, roles \in SUBSET Roles :
        roles # {} /\ Admits(t, roles) =>
            \E r \in {role[t.user]} \cup {h.role : h \in recent[t.user]} : r \in roles

\* A user who is "Logged out", and has no login under way or after it, has no
\* session (for instances whose login ends before the logout begins).
LoggedOut ==
    \A u \in Users :
        /\ \E c \in Calls : Op[c] = "logout" /\ stage[c] = "done"
        /\ \A c \in Calls : Op[c] = "login" => stage[c] = "done"
        => column[u] = NoToken
=============================================================================
