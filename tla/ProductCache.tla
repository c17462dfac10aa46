---------------------------- MODULE ProductCache ----------------------------
(***************************************************************************)
(* The cache-aside reads of the product service and the RedisCache they    *)
(* use, next to the orders that change the stock and then invalidate the   *)
(* namespace, and the administrator's writes, which do not.                *)
(*                                                                         *)
(* One product stands for the namespace, and its row for the number of     *)
(* writes it has seen.  The breaker is open for a while after every error  *)
(* of Redis; while it is open no operation reaches Redis.                  *)
(***************************************************************************)
EXTENDS Naturals

CONSTANTS
    Readers,        \* threads that read the product
    Writers,        \* threads that place or cancel orders
    MaxVersion,     \* bound on the writes to the row
    AdminWrites,    \* whether the administrator edits the product
    Outages,        \* whether Redis fails
    NoEntry         \* the key is not in Redis

ASSUME ReadersAssumption == Readers \intersect Writers = {}
ASSUME MaxVersionAssumption == MaxVersion \in Nat
ASSUME FlagsAssumption == AdminWrites \in BOOLEAN /\ Outages \in BOOLEAN
ASSUME NoEntryAssumption == NoEntry \notin Nat

VARIABLES
    row,        \* the committed version of the product
    entry,      \* the version the key holds in Redis
    redisUp,    \* whether Redis answers
    breaker,    \* "open" after an error, until the cooldown is over
    reader,     \* what each reader is doing, and what it has
    writer,     \* the version each writer has committed and not yet invalidated for
    settled,    \* latest version an order has committed and invalidated for
    excused     \* some write went without invalidation, or an older row came after it

vars == <<row, entry, redisUp, breaker, reader, writer, settled, excused>>

Versions == 0..MaxVersion
Resting == [step |-> "idle", value |-> 0, since |-> 0]

TypeOK ==
    /\ row \in Versions
    /\ entry \in Versions \union {NoEntry}
    /\ redisUp \in BOOLEAN
    /\ breaker \in {"open", "closed"}
    /\ reader \in [Readers -> [step : {"idle", "missed", "fetched", "answered"},
                               value : Versions, since : Versions]]
    /\ writer \in [Writers -> Versions]
    /\ settled \in Versions
    /\ excused \in BOOLEAN

Reachable == breaker = "closed" /\ redisUp

\* No order has an invalidation ahead of it.
Quiet == \A w \in Writers : writer[w] = 0

\* The version a read that begins now can rely on, if Redis holds no excused entry.
Promised == IF Quiet THEN settled ELSE 0

\* An operation of the cache never raises: an error trips the breaker.
Trip == breaker' = IF redisUp THEN breaker ELSE "open"

-----------------------------------------------------------------------------
(* get_product and its siblings *)

\* Mutant of Hit: a key that is not there is taken for a value.
HitNothing(r) ==
    /\ reader[r].step = "idle"
    /\ Reachable
    /\ reader' = [reader EXCEPT ![r] = [step |-> "answered", value |-> entry, since |-> Promised]]
    /\ UNCHANGED <<row, entry, redisUp, breaker, writer, settled, excused>>

Hit(r) ==
    /\ reader[r].step = "idle"
    /\ Reachable /\ entry # NoEntry
    /\ reader' = [reader EXCEPT ![r] = [step |-> "answered", value |-> entry, since |-> Promised]]
    /\ UNCHANGED <<row, entry, redisUp, breaker, writer, settled, excused>>

Miss(r) ==
    /\ reader[r].step = "idle"
    /\ ~(Reachable /\ entry # NoEntry)
    /\ reader' = [reader EXCEPT ![r] = [step |-> "missed", value |-> 0, since |-> Promised]]
    /\ Trip
    /\ UNCHANGED <<row, entry, redisUp, writer, settled, excused>>

Fetch(r) ==
    /\ reader[r].step = "missed"
    /\ reader' = [reader EXCEPT ![r].step = "fetched", ![r].value = row]
    /\ UNCHANGED <<row, entry, redisUp, breaker, writer, settled, excused>>

\* cache.set after the query: the row may have changed since.
Fill(r) ==
    /\ reader[r].step = "fetched"
    /\ reader' = [reader EXCEPT ![r].step = "answered"]
    /\ entry' = IF Reachable THEN reader[r].value ELSE entry
    /\ excused' = (excused \/ (Reachable /\ reader[r].value # row /\ Quiet))
    /\ Trip
    /\ UNCHANGED <<row, redisUp, writer, settled>>

Leave(r) ==
    /\ reader[r].step = "answered"
    /\ reader' = [reader EXCEPT ![r] = Resting]
    /\ UNCHANGED <<row, entry, redisUp, breaker, writer, settled, excused>>

-----------------------------------------------------------------------------
(* Orders: the transaction commits, then the namespace is invalidated *)

\* Mutant of Commit: the namespace is invalidated before the commit.
CommitAfterInvalidate(w) ==
    /\ writer[w] = 0
    /\ row < MaxVersion
    /\ row' = row + 1
    /\ settled' = row'
    /\ UNCHANGED <<entry, redisUp, breaker, reader, writer, excused>>

Commit(w) ==
    /\ writer[w] = 0
    /\ row < MaxVersion
    /\ row' = row + 1
    /\ writer' = [writer EXCEPT ![w] = row']
    /\ UNCHANGED <<entry, redisUp, breaker, reader, settled, excused>>

\* With the breaker open, or Redis down, nothing is deleted.
Invalidate(w) ==
    /\ writer[w] # 0
    /\ entry' = IF Reachable THEN NoEntry ELSE entry
    /\ excused' = (excused \/ ~Reachable)
    /\ settled' = IF writer[w] > settled THEN writer[w] ELSE settled
    /\ writer' = [writer EXCEPT ![w] = 0]
    /\ Trip
    /\ UNCHANGED <<row, redisUp, reader>>

\* The process dies between the commit and the invalidation.
Die(w) ==
    /\ writer[w] # 0
    /\ writer' = [writer EXCEPT ![w] = 0]
    /\ excused' = TRUE
    /\ UNCHANGED <<row, entry, redisUp, breaker, reader, settled>>

\* update_product, toggle_product_status and their siblings leave the cache alone.
AdminWrite ==
    /\ AdminWrites
    /\ row < MaxVersion
    /\ row' = row + 1
    /\ excused' = TRUE
    /\ UNCHANGED <<entry, redisUp, breaker, reader, writer, settled>>

-----------------------------------------------------------------------------
(* Redis and time *)

\* Mutant of Expire: the key is stored without a time to live.
NeverExpire == FALSE

Expire ==
    /\ entry # NoEntry
    /\ entry' = NoEntry
    /\ UNCHANGED <<row, redisUp, breaker, reader, writer, settled, excused>>

CoolDown ==
    /\ breaker = "open"
    /\ breaker' = "closed"
    /\ UNCHANGED <<row, entry, redisUp, reader, writer, settled, excused>>

\* An outage does not empty Redis.
Outage ==
    /\ Outages
    /\ redisUp' = ~redisUp
    /\ UNCHANGED <<row, entry, breaker, reader, writer, settled, excused>>

-----------------------------------------------------------------------------
(* The specification *)

Init ==
    /\ row = 0
    /\ entry = NoEntry
    /\ redisUp = TRUE
    /\ breaker = "closed"
    /\ reader = [r \in Readers |-> Resting]
    /\ writer = [w \in Writers |-> 0]
    /\ settled = 0
    /\ excused = FALSE

Next ==
    \/ \E r \in Readers : Hit(r) \/ Miss(r) \/ Fetch(r) \/ Fill(r) \/ Leave(r)
    \/ \E w \in Writers : Commit(w) \/ Invalidate(w) \/ Die(w)
    \/ AdminWrite \/ Expire \/ CoolDown \/ Outage

Spec == Init /\ [][Next]_vars

\* Redis drops a key when its time is up.
FairSpec == Spec /\ WF_vars(Expire)

-----------------------------------------------------------------------------
(* Properties *)

\* An order that commits and then invalidates leaves no stale entry, unless
\* a read that was under way stores its older row after the invalidation, Redis
\* was out of reach, the process died in between or the administrator wrote:
\* these are all the ways.  Without them, the claim of product/service.py:5-6 is
\* true: a read that begins when every order has invalidated answers with the
\* latest order's row or a later one.
StaleOnlyIfExcused ==
    ~excused =>
        /\ Quiet => entry \in {NoEntry, row}
        /\ \A r \in Readers : reader[r].step = "answered" => reader[r].value >= reader[r].since

\* What makes it inductive: nothing that was promised, committed or read is later
\* than the row, and a row that was fetched is as late as what its read was promised.
IInv ==
    /\ TypeOK
    /\ settled <= row
    /\ \A w \in Writers : writer[w] <= row
    /\ \A r \in Readers : reader[r].step # "idle" => reader[r].since <= row
    /\ \A r \in Readers : reader[r].step = "fetched" => reader[r].value >= reader[r].since
    /\ StaleOnlyIfExcused

\* Whatever was missed, the time to live ends it: once the writes stop, what
\* Redis holds is the row for ever.
EventuallyFresh == <>[](entry \in {NoEntry, row})

=============================================================================
