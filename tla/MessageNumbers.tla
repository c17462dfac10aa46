--------------------------- MODULE MessageNumbers ---------------------------
(***************************************************************************)
(* ConversationManager.add_message in the threads that call it: the number *)
(* of a message is the largest stored number, or one more for a question,  *)
(* and a mutex per conversation is held from reading that number to the    *)
(* commit.  KeyedLocks makes the mutexes on demand and drops free ones     *)
(* when there are too many.                                                *)
(***************************************************************************)
EXTENDS Naturals, Sequences, FiniteSets

CONSTANTS
    Conversations,  \* the keys
    Threads,        \* worker threads of the event loop
    LockIds,        \* mutex objects
    None,           \* no conversation, no mutex, no thread
    MaxLocks,       \* KeyedLocks._maxsize (2048 in the code)
    MaxDropped,     \* how many are dropped at most at a time (512 in the code)
    MaxMessages     \* bound on the messages of a conversation

ASSUME NoneAssumption == None \notin LockIds \union Threads \union Conversations
ASSUME MaxLocksAssumption == MaxLocks \in Nat \ {0} /\ MaxDropped \in Nat \ {0}
ASSUME MaxMessagesAssumption == MaxMessages \in Nat

VARIABLES
    table,      \* KeyedLocks._locks: the mutex of each conversation, or None
    older,      \* the order of its keys: pairs of a key and one made after it
    owner,      \* the thread that holds each mutex, or None
    caller,     \* what each thread is doing
    messages,   \* the committed messages of each conversation, in commit order
    torn        \* history: conversations whose mutex was dropped before its caller took it

vars == <<table, older, owner, caller, messages, torn>>

Roles == {"user", "assistant"}
Idle == [step |-> "idle", conversation |-> None, role |-> "user", lock |-> None, last |-> 0]

TypeOK ==
    /\ table \in [Conversations -> LockIds \union {None}]
    /\ older \subseteq Conversations \X Conversations
    /\ owner \in [LockIds -> Threads \union {None}]
    /\ caller \in [Threads -> {Idle} \union
          [step : {"got", "holding", "read"}, conversation : Conversations,
           role : Roles, lock : LockIds, last : Nat]]
    /\ messages \in [Conversations -> Seq([role : Roles, number : Nat])]
    /\ torn \subseteq Conversations

-----------------------------------------------------------------------------
(* KeyedLocks.get *)

Keys == {k \in Conversations : table[k] # None}

\* The first of the keys, in the order they were made.
Oldest(keys) == {k \in keys : Cardinality({j \in keys : <<j, k>> \in older}) < MaxDropped}

\* Mutant of Dropped: a mutex that is held may go too.
DroppedThoughHeld == IF Cardinality(Keys) >= MaxLocks THEN Oldest(Keys) ELSE {}

\* From a full table the oldest free mutexes go, one that is fetched and not yet
\* taken among them.
Dropped ==
    IF Cardinality(Keys) >= MaxLocks THEN Oldest({k \in Keys : owner[table[k]] = None}) ELSE {}

\* Mutexes nobody has a reference to.
Unreferenced ==
    {l \in LockIds : /\ \A k \in Conversations : table[k] # l
                     /\ \A t \in Threads : caller[t].lock # l}

\* Threads that have fetched a mutex that goes, and not taken it.
Forsaken ==
    {u \in Threads : caller[u].step = "got" /\ \E k \in Dropped : table[k] = caller[u].lock}

\* Everything under the guard of the table: the mutex of k, found or made.
Get(t, k, role) ==
    LET got(l) == caller' = [caller EXCEPT ![t] =
                       [Idle EXCEPT !.step = "got", !.conversation = k, !.role = role, !.lock = l]]
    IN
    /\ caller[t] = Idle
    /\ Len(messages[k]) + Cardinality({u \in Threads : caller[u].conversation = k}) < MaxMessages
    /\ IF k \in Keys
       THEN got(table[k]) /\ UNCHANGED <<table, older, torn>>
       ELSE \E l \in Unreferenced :
               /\ l = CHOOSE x \in Unreferenced : TRUE
               /\ table' = [j \in Conversations |->
                              IF j = k THEN l ELSE IF j \in Dropped THEN None ELSE table[j]]
               /\ older' = {p \in older : p[1] \notin Dropped /\ p[2] \notin Dropped}
                              \union ((Keys \ Dropped) \X {k})
               /\ torn' = torn \union {caller[u].conversation : u \in Forsaken}
               /\ got(l)
    /\ UNCHANGED <<owner, messages>>

-----------------------------------------------------------------------------
(* add_message *)

Acquire(t) ==
    /\ caller[t].step = "got"
    /\ owner[caller[t].lock] = None
    /\ owner' = [owner EXCEPT ![caller[t].lock] = t]
    /\ caller' = [caller EXCEPT ![t].step = "holding"]
    /\ UNCHANGED <<table, older, messages, torn>>

\* SELECT max(turn_number), or 0.
MaxNumber(k) ==
    LET stored == {messages[k][i].number : i \in DOMAIN messages[k]}
    IN  IF stored = {} THEN 0 ELSE CHOOSE n \in stored : \A m \in stored : m <= n

\* Mutant of ReadLast: the with block ends after the SELECT.
ReadLastAndLeave(t) ==
    /\ caller[t].step = "holding"
    /\ caller' = [caller EXCEPT ![t].step = "read", ![t].last = MaxNumber(caller[t].conversation)]
    /\ owner' = [owner EXCEPT ![caller[t].lock] = None]
    /\ UNCHANGED <<table, older, messages, torn>>

ReadLast(t) ==
    /\ caller[t].step = "holding"
    /\ caller' = [caller EXCEPT ![t].step = "read", ![t].last = MaxNumber(caller[t].conversation)]
    /\ UNCHANGED <<table, older, owner, messages, torn>>

\* Mutant of Leave: what the call knew is not forgotten with it.
LeaveStepOnly(t) ==
    /\ owner' = [l \in LockIds |-> IF owner[l] = t THEN None ELSE owner[l]]
    /\ caller' = [caller EXCEPT ![t].step = "idle"]

\* Leaving the with block.
Leave(t) ==
    /\ owner' = [l \in LockIds |-> IF owner[l] = t THEN None ELSE owner[l]]
    /\ caller' = [caller EXCEPT ![t] = Idle]

\* INSERT and commit.
Insert(t) ==
    LET number == IF caller[t].role = "user" THEN caller[t].last + 1 ELSE caller[t].last IN
    /\ caller[t].step = "read"
    /\ messages' = [messages EXCEPT ![caller[t].conversation] =
                      Append(@, [role |-> caller[t].role, number |-> number])]
    /\ Leave(t)
    /\ UNCHANGED <<table, older, torn>>

\* The database raises before the commit.
InsertFails(t) ==
    /\ caller[t].step \in {"holding", "read"}
    /\ Leave(t)
    /\ UNCHANGED <<table, older, messages, torn>>

-----------------------------------------------------------------------------
(* The specification *)

Init ==
    /\ table = [k \in Conversations |-> None]
    /\ older = {}
    /\ owner = [l \in LockIds |-> None]
    /\ caller = [t \in Threads |-> Idle]
    /\ messages = [k \in Conversations |-> <<>>]
    /\ torn = {}

Next ==
    \E t \in Threads :
        \/ \E k \in Conversations, role \in Roles : Get(t, k, role)
        \/ Acquire(t) \/ ReadLast(t) \/ Insert(t) \/ InsertFails(t)

Spec == Init /\ [][Next]_vars

-----------------------------------------------------------------------------
(* Properties *)

\* What the mutexes are for (comment of KeyedLocks): concurrent calls do not
\* compute the same number, so in commit order every question is numbered one
\* higher than what came before it and every answer like the latest question.
\* The full table may drop a mutex and the order is kept, except in a conversation
\* whose mutex a caller had fetched and not yet taken.
NumbersInOrder ==
    \A k \in Conversations \ torn : \A i \in DOMAIN messages[k] :
        LET before == IF i = 1 THEN 0 ELSE messages[k][i - 1].number IN
        messages[k][i].number = IF messages[k][i].role = "user" THEN before + 1 ELSE before

\* What makes it inductive.  In a conversation that is not torn, everybody who
\* works on it has the mutex the table has, so those who hold theirs hold the same.
SameMutex ==
    \A t \in Threads :
        caller[t].step # "idle" /\ caller[t].conversation \notin torn =>
            table[caller[t].conversation] = caller[t].lock

HoldersOwn ==
    \A t \in Threads : caller[t].step \in {"holding", "read"} => owner[caller[t].lock] = t

\* The number stored last, which is the largest.
LastNumber(k) == IF messages[k] = <<>> THEN 0 ELSE messages[k][Len(messages[k])].number

Ascending ==
    \A k \in Conversations \ torn : \A i, j \in DOMAIN messages[k] :
        i <= j => messages[k][i].number <= messages[k][j].number

\* Between SELECT max and INSERT nobody else stores a message of the conversation.
LastIsCurrent ==
    \A t \in Threads :
        caller[t].step = "read" /\ caller[t].conversation \notin torn =>
            caller[t].last = LastNumber(caller[t].conversation)

\* What a call has read is still stored, torn or not: nothing is taken back.
LastStored ==
    \A t \in Threads :
        caller[t].step = "read" =>
            caller[t].last \in {0} \union {messages[caller[t].conversation][i].number :
                                            i \in DOMAIN messages[caller[t].conversation]}

\* Numbers are not larger than the messages are many, torn or not.
NumbersBounded ==
    /\ \A k \in Conversations : \A i \in DOMAIN messages[k] :
          messages[k][i].number <= Len(messages[k])
    /\ \A t \in Threads :
          caller[t].step # "idle" => caller[t].last <= Len(messages[caller[t].conversation])

IInv ==
    /\ TypeOK
    /\ SameMutex /\ HoldersOwn
    /\ Ascending /\ LastIsCurrent /\ LastStored /\ NumbersBounded
    /\ NumbersInOrder

Log == INSTANCE MessageLog

\* Seen from the stored messages, add_message is one indivisible step, whatever
\* its threads do between SELECT max and INSERT: it numbers a message by the
\* largest number stored, or, in a conversation whose mutex was dropped before its
\* caller took it, by one that is stored; and it changes no message that is there.
LogSpec == Log!Spec

=============================================================================
