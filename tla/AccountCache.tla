---------------------------- MODULE AccountCache ----------------------------
(***************************************************************************)
(* AccountsService.findByAccountNumber reads account rows through a cache  *)
(* in Redis; transfer() deletes the cached rows of both accounts after its *)
(* COMMIT (Transfer).  A read is three awaits, get, findOne and set, and   *)
(* the transfers' steps fall between them.                                 *)
(***************************************************************************)
EXTENDS TransferProperties

CONSTANTS Readers,  \* findByAccountNumber calls
          Ttl,      \* life of a cached row: a minute
          Delay,    \* time from a row's read to its set, at most
          Horizon   \* bound on the clock

ASSUME CacheAssumption == Ttl \in Nat \ {0} /\ Delay \in Nat /\ Horizon \in Nat

VARIABLES now,
          cache,    \* account number -> its cached row
          reader,   \* reader -> where it stands, and what it carries
          recent    \* account number -> rows that ceased to be the committed
                    \* row less than Ttl + Delay ago (history)

cacheVars == <<now, cache, reader, recent>>

\* "late": the row was not the committed one any more when it was set.
NoEntry == [row |-> NoRow, until |-> 0, late |-> FALSE]
Idle    == [stage |-> "idle"]

CacheInit == /\ Init
             /\ now = 0
             /\ cache = [a \in Accounts |-> NoEntry]
             /\ reader = [k \in Readers |-> Idle]
             /\ recent = [a \in Accounts |-> {}]

-----------------------------------------------------------------------------
\* The cached row a step of request r deletes: of the sender, then of the
\* receiver.
SenderOnlySlip(r) == From(r)
Deletes(r)        == IF At(r, "delSender") THEN From(r) ELSE To(r)

\* A step of the transfer service.
TransferStep ==
    /\ Next
    /\ cache' = [a \in Accounts |->
          IF \E r \in Requests : DelAccount(r) /\ a = Deletes(r)
          THEN NoEntry ELSE cache[a]]
    /\ recent' = [a \in Accounts |->
          IF account'[a] = account[a] THEN recent[a]
          ELSE recent[a] \cup {[row |-> account[a], left |-> now]}]
    /\ UNCHANGED <<now, reader>>

\* redis.get: a hit is returned at once.
Get(k, a) ==
    /\ reader[k] = Idle
    /\ cache[a] = NoEntry
    /\ reader' = [reader EXCEPT ![k] = [stage |-> "find", number |-> a]]
    /\ UNCHANGED <<vars, now, cache, recent>>

\* findOne: what is not there is not cached.
Find(k) ==
    LET row == account[reader[k].number] IN
    /\ reader[k].stage = "find"
    /\ PoolFree
    /\ reader' = [reader EXCEPT ![k] =
          IF row = NoRow THEN Idle
          ELSE [stage |-> "set", number |-> @.number, row |-> row, at |-> now]]
    /\ UNCHANGED <<vars, now, cache, recent>>

\* redis.set with its time to live.
NoTtlSlip(k) ==
    /\ reader[k].stage = "set"
    /\ cache' = [cache EXCEPT ![reader[k].number] =
          [row |-> reader[k].row, until |-> now + Ttl + Horizon,
           late |-> reader[k].row # account[reader[k].number]]]
    /\ reader' = [reader EXCEPT ![k] = Idle]
    /\ UNCHANGED <<vars, now, recent>>
Set(k) ==
    /\ reader[k].stage = "set"
    /\ cache' = [cache EXCEPT ![reader[k].number] =
          [row |-> reader[k].row, until |-> now + Ttl,
           late |-> reader[k].row # account[reader[k].number]]]
    /\ reader' = [reader EXCEPT ![k] = Idle]
    /\ UNCHANGED <<vars, now, recent>>

\* An await of the read throws.
ReadFails(k) ==
    /\ "redis" \in Failures
    /\ reader[k].stage = "set"
    /\ reader' = [reader EXCEPT ![k] = Idle]
    /\ UNCHANGED <<vars, now, cache, recent>>

Tick ==
    /\ now < Horizon
    /\ \A k \in Readers : reader[k].stage = "set" => now - reader[k].at < Delay
    /\ now' = now + 1
    /\ cache' = [a \in Accounts |->
                   IF cache[a].until <= now' THEN NoEntry ELSE cache[a]]
    /\ recent' = [a \in Accounts |->
                    {h \in recent[a] : now' < h.left + Ttl + Delay}]
    /\ UNCHANGED <<vars, reader>>

CacheNext == \/ TransferStep
             \/ \E k \in Readers : \/ \E a \in Accounts : Get(k, a)
                                   \/ Find(k) \/ Set(k) \/ ReadFails(k)
             \/ Tick

CacheSpec == CacheInit /\ [][CacheNext]_<<vars, cacheVars>>

-----------------------------------------------------------------------------
\* A cached row was the committed one less than Ttl + Delay ago, whatever
\* raced with its reader, and whether or not a commit's delete ever came.
BoundedStaleness ==
    \A a \in Accounts : cache[a] # NoEntry =>
        cache[a].row \in {account[a]} \cup {h.row : h \in recent[a]}

\* The transfers of a whose deletes are still to come, or were told or lost as
\* failures: only those may have skipped a delete.
DeleteOwed(r, a) == \/ At(r, "delSender") /\ a \in {From(r), To(r)}
                    \/ At(r, "delReceiver") /\ a = To(r)
MaySkip(r, a) == /\ \E t \in transactions : t.by = r
                 /\ a \in {From(r), To(r)}
                 /\ reply[r] \in {"failed", "lost"}

\* While no delete failed, a cached balance is outdated only if its reader set
\* it later than the commit, having read it before: the deletes themselves
\* leave nothing behind.
OnlyLateFillsStale ==
    \A a \in Accounts :
        cache[a] # NoEntry /\ cache[a].row.balance # account[a].balance =>
            cache[a].late \/ \E r \in Requests : DeleteOwed(r, a) \/ MaySkip(r, a)
=============================================================================
