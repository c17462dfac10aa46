-------------------------- MODULE ConversationTurns --------------------------
(***************************************************************************)
(* The turns of MasterAgent: one asyncio lock per conversation serialises  *)
(* what a turn does, from storing the customer's message to storing the    *)
(* answer.  Locks are made on demand and the table that holds them drops   *)
(* free ones when it is full.  Without a language model, arun answers with *)
(* a fixed message and takes no lock.                                      *)
(*                                                                         *)
(* add_message is one step here; MessageNumbers opens it.  It runs in a    *)
(* thread the turn waits for: a turn that is cancelled meanwhile frees its *)
(* lock at once, and the thread stores the message later (late).           *)
(***************************************************************************)
EXTENDS Naturals, Sequences, FiniteSets

CONSTANTS
    Conversations,  \* conversations that exist
    Turns,          \* requests, one turn each
    LockIds,        \* lock objects
    NoLock,         \* no lock, no conversation
    MaxLocks,       \* size at which the table drops locks (1024 in the code)
    MaxDropped,     \* how many it drops at most at a time (256 in the code)
    LlmSettings     \* whether the process may have a language model, or have none

ASSUME NoLockAssumption == NoLock \notin LockIds \union Conversations
ASSUME MaxLocksAssumption == MaxLocks \in Nat \ {0} /\ MaxDropped \in Nat \ {0}
ASSUME LlmSettingsAssumption == LlmSettings \subseteq BOOLEAN

VARIABLES
    llmAvailable,   \* whether the process was started with a language model
    table,      \* MasterAgent._locks: the lock of each conversation, or NoLock
    older,      \* the order of its keys: pairs of a key and one made after it
    locked,     \* the locks that are held
    waiters,    \* the turns waiting for each lock, in line
    woken,      \* waiters a release has woken that have not run yet
    turn,       \* the state of each turn
    messages,   \* the messages stored of each conversation
    late,       \* messages of cancelled turns that their threads have yet to store
    torn,       \* history: conversations whose lock was dropped with a turn in line
    overrun     \* history: turns a late message came between whose question and answer

locks == <<locked, waiters, woken>>
history == <<torn, overrun>>
vars == <<llmAvailable, table, older, locks, turn, messages, late, history>>

NotStarted == [phase |-> "new", conversation |-> NoLock, lock |-> NoLock]

Waiting(t) == turn[t].phase = "waiting"
Inside(t) == turn[t].phase \in {"entered", "asked"}

TypeOK ==
    /\ llmAvailable \in BOOLEAN
    /\ table \in [Conversations -> LockIds \union {NoLock}]
    /\ older \subseteq Conversations \X Conversations
    /\ locked \subseteq LockIds
    /\ waiters \in [LockIds -> Seq(Turns)]
    /\ woken \subseteq Turns
    /\ turn \in [Turns -> {NotStarted} \union
          [phase : {"waiting", "entered", "asked", "degraded", "done"},
           conversation : Conversations, lock : LockIds \union {NoLock}]]
    /\ messages \in [Conversations -> SUBSET
          [turn : Turns, role : {"user", "assistant"}, number : Nat \ {0}]]
    /\ late \subseteq [turn : Turns, conversation : Conversations, role : {"user", "assistant"}]
    /\ torn \subseteq Conversations
    /\ overrun \subseteq Turns

-----------------------------------------------------------------------------
(* The table of locks *)

Keys == {k \in Conversations : table[k] # NoLock}

\* The first of the keys, in the order they were made.
Oldest(keys) == {k \in keys : Cardinality({j \in keys : <<j, k>> \in older}) < MaxDropped}

\* Mutant of Dropped: a lock that is held may go too.
DroppedThoughHeld == IF Cardinality(Keys) >= MaxLocks THEN Oldest(Keys) ELSE {}

\* From a full table the oldest free locks go, one whose next owner has been
\* woken and has not run among them.
Dropped == IF Cardinality(Keys) >= MaxLocks THEN Oldest({k \in Keys : table[k] \notin locked}) ELSE {}

\* Lock objects nobody has a reference to.
Unreferenced ==
    {l \in LockIds : /\ \A k \in Conversations : table[k] # l
                     /\ \A t \in Turns : Waiting(t) \/ Inside(t) => turn[t].lock # l}

-----------------------------------------------------------------------------
(* asyncio.Lock *)

\* Without, once, the turn t, which is in the line.
Without(line, t) ==
    LET i == CHOOSE i \in DOMAIN line : line[i] = t
    IN  SubSeq(line, 1, i - 1) \o SubSeq(line, i + 1, Len(line))

\* A lock that is free, and that nobody waits for, is taken at once;
\* otherwise the turn waits in line.
Await(t, k, l) ==
    LET free == l \notin locked /\ waiters[l] = <<>> IN
    /\ turn' = [turn EXCEPT ![t] = [phase |-> IF free THEN "entered" ELSE "waiting",
                                    conversation |-> k, lock |-> l]]
    /\ locked' = IF free THEN locked \union {l} ELSE locked
    /\ waiters' = [waiters EXCEPT ![l] = IF free THEN @ ELSE Append(@, t)]

\* The first in line for l is woken, if l is free.
WakeFirst(l, line, held) ==
    woken' = (woken \intersect {line[i] : i \in DOMAIN line}) \union
             (IF line # <<>> /\ l \notin held THEN {Head(line)} ELSE {})
             \union {t \in woken : turn[t].lock # l}

\* Mutant of Release: nobody is woken.
ReleaseSilently(t) ==
    /\ locked' = locked \ {turn[t].lock}
    /\ UNCHANGED <<waiters, woken>>

Release(t) ==
    /\ locked' = locked \ {turn[t].lock}
    /\ WakeFirst(turn[t].lock, waiters[turn[t].lock], locked')
    /\ UNCHANGED waiters

\* A woken waiter runs and has the lock.
Resume(t) ==
    LET l == turn[t].lock IN
    /\ t \in woken
    /\ locked' = locked \union {l}
    /\ waiters' = [waiters EXCEPT ![l] = Without(@, t)]
    /\ woken' = woken \ {t}
    /\ turn' = [turn EXCEPT ![t].phase = "entered"]
    /\ UNCHANGED <<llmAvailable, table, older, messages, late, history>>

-----------------------------------------------------------------------------
(* A turn with a language model *)

\* _lock and the acquisition run without a pause of the event loop.
Enter(t, k) ==
    /\ llmAvailable
    /\ turn[t] = NotStarted
    /\ IF k \in Keys
       THEN Await(t, k, table[k]) /\ UNCHANGED <<table, older, torn>>
       ELSE \E l \in Unreferenced :
               /\ l = CHOOSE x \in Unreferenced : TRUE
               /\ table' = [j \in Conversations |->
                              IF j = k THEN l ELSE IF j \in Dropped THEN NoLock ELSE table[j]]
               /\ older' = {p \in older : p[1] \notin Dropped /\ p[2] \notin Dropped}
                              \union ((Keys \ Dropped) \X {k})
               /\ torn' = torn \union {j \in Dropped : waiters[table[j]] # <<>>}
               /\ Await(t, k, l)
    /\ UNCHANGED <<llmAvailable, woken, messages, late, overrun>>

\* Mutant of NextNumber: every message gets a number of its own.
NumberPerMessage(k, role) == Cardinality(messages[k]) + 1

\* Mutant of NextNumber: a question is numbered like an answer.
NumberNotAdvanced(k, role) ==
    LET stored == {m.number : m \in messages[k]} IN
    IF stored = {} THEN 0 ELSE CHOOSE n \in stored : \A m \in stored : m <= n

\* add_message numbers a question one higher than what is stored, an answer
\* like the latest question.
NextNumber(k, role) ==
    LET stored == {m.number : m \in messages[k]}
        last == IF stored = {} THEN 0 ELSE CHOOSE n \in stored : \A m \in stored : m <= n
    IN  IF role = "user" THEN last + 1 ELSE last

AddMessage(t, k, role) ==
    messages' = [messages EXCEPT ![k] = @ \union
                   {[turn |-> t, role |-> role, number |-> NextNumber(k, role)]}]

StoreQuestion(t) ==
    /\ turn[t].phase = "entered"
    /\ AddMessage(t, turn[t].conversation, "user")
    /\ turn' = [turn EXCEPT ![t].phase = "asked"]
    /\ UNCHANGED <<llmAvailable, table, older, locks, late, history>>

\* The graph's answer, or the apology of arun when the graph fails.
StoreAnswer(t) ==
    /\ turn[t].phase = "asked"
    /\ AddMessage(t, turn[t].conversation, "assistant")
    /\ turn' = [turn EXCEPT ![t].phase = "done"]
    /\ Release(t)
    /\ UNCHANGED <<llmAvailable, table, older, late, history>>

\* What the thread of a turn inside is storing.
Storing(t) == [turn |-> t, conversation |-> turn[t].conversation,
               role |-> IF turn[t].phase = "entered" THEN "user" ELSE "assistant"]

\* An exception in run_stream, an empty answer or a client that is gone: the
\* turn frees the lock.  A cancellation does not stop a thread that is storing
\* the turn's question or answer.
BreakOff(t) ==
    /\ Inside(t)
    /\ turn' = [turn EXCEPT ![t].phase = "done"]
    /\ Release(t)
    /\ late' = late \/ late' = late \union {Storing(t)}
    /\ UNCHANGED <<llmAvailable, table, older, messages, history>>

Questions(k) == {m \in messages[k] : m.role = "user"}

\* Another turn of k has asked after t has.
Overtaken(t, k) ==
    \E own, q \in Questions(k) : own.turn = t /\ q.turn # t /\ own.number < q.number

\* The turns whose answer the late message w keeps from the number of its
\* question: those waiting for their answers, or its own.
Mixed(w) ==
    IF w.role = "user"
    THEN {t \in Turns : turn[t].phase = "asked" /\ turn[t].conversation = w.conversation}
    ELSE {t \in {w.turn} : Overtaken(t, w.conversation)}

\* The thread of a cancelled turn stores its message, whoever has the lock now.
LateStore(w) ==
    /\ w \in late
    /\ AddMessage(w.turn, w.conversation, w.role)
    /\ late' = late \ {w}
    /\ overrun' = overrun \union Mixed(w)
    /\ UNCHANGED <<llmAvailable, table, older, locks, turn, torn>>

\* The client of a turn in line is gone: the wake-up it may have had is
\* passed on.
Abandon(t) ==
    LET l == turn[t].lock
        line == Without(waiters[l], t)
    IN
    /\ Waiting(t)
    /\ turn' = [turn EXCEPT ![t].phase = "done"]
    /\ waiters' = [waiters EXCEPT ![l] = line]
    /\ WakeFirst(l, line, locked)
    /\ UNCHANGED <<llmAvailable, table, older, locked, messages, late, history>>

-----------------------------------------------------------------------------
(* A turn without one: no lock *)

StoreDegradedQuestion(t, k) ==
    /\ ~llmAvailable
    /\ turn[t] = NotStarted
    /\ AddMessage(t, k, "user")
    /\ turn' = [turn EXCEPT ![t] = [phase |-> "degraded", conversation |-> k, lock |-> NoLock]]
    /\ UNCHANGED <<llmAvailable, table, older, locks, late, history>>

StoreDegradedAnswer(t) ==
    /\ turn[t].phase = "degraded"
    /\ AddMessage(t, turn[t].conversation, "assistant")
    /\ turn' = [turn EXCEPT ![t].phase = "done"]
    /\ UNCHANGED <<llmAvailable, table, older, locks, late, history>>

-----------------------------------------------------------------------------
(* The specification *)

Init ==
    /\ llmAvailable \in LlmSettings
    /\ table = [k \in Conversations |-> NoLock]
    /\ older = {}
    /\ locked = {}
    /\ waiters = [l \in LockIds |-> <<>>]
    /\ woken = {}
    /\ turn = [t \in Turns |-> NotStarted]
    /\ messages = [k \in Conversations |-> {}]
    /\ late = {}
    /\ torn = {}
    /\ overrun = {}

Next ==
    \/ \E t \in Turns :
          \/ \E k \in Conversations : Enter(t, k) \/ StoreDegradedQuestion(t, k)
          \/ Resume(t) \/ StoreQuestion(t) \/ StoreAnswer(t) \/ StoreDegradedAnswer(t)
          \/ BreakOff(t) \/ Abandon(t)
    \/ \E w \in late : LateStore(w)

Spec == Init /\ [][Next]_vars

\* The event loop runs whatever is ready.  Nothing is assumed of the turns
\* inside: commit_node and add_message wait for threads without a timeout.
FairSpec == Spec /\ \A t \in Turns : WF_vars(Resume(t))

-----------------------------------------------------------------------------
(* Properties *)

\* README: the turns of a conversation are serialised, the whole turn, though they
\* come and go in any order and the full table drops locks: two of them are never
\* inside at once.  Except in a conversation whose lock was dropped when it was free
\* and the next in line had been woken and had not run.
TurnsSerialised ==
    \A t, u \in Turns :
        /\ Inside(t) /\ Inside(u)
        /\ turn[t].conversation = turn[u].conversation
        /\ turn[t].conversation \notin torn
        => t = u

\* Question and answer are a pair: where turns are serialised an answer has the
\* number of the question of its own turn, of turns that break off and leave a
\* thread behind too, unless a message stored late came between the two (the
\* comment in run_stream has the lock cover the pair, and does not exclude that);
\* and the questions have different numbers in any case: get_context orders the
\* history by them.
AnswersPaired ==
    \A k \in Conversations :
        /\ \A m, n \in Questions(k) : m # n => m.number # n.number
        /\ llmAvailable /\ k \notin torn =>
              \A a \in messages[k] \ Questions(k) :
                  a.turn \notin overrun =>
                      \E q \in Questions(k) : q.turn = a.turn /\ q.number = a.number

\* If turns that are inside leave, a turn in line gets its turn or its client
\* gives up, even if those before it break off or give up just when they are
\* woken: asyncio's lock loses no wake-up, whatever the table drops.
EveryTurnServed ==
    (\A t \in Turns : []<>~Inside(t)) => \A t \in Turns : Waiting(t) ~> ~Waiting(t)

-----------------------------------------------------------------------------
(* Invariants the proofs need *)

\* Only turns of a process with a language model wait for locks or hold them.
Locking == \A t \in Turns :
    /\ Waiting(t) \/ Inside(t) => llmAvailable /\ turn[t].lock \in LockIds
    /\ turn[t].phase = "degraded" => ~llmAvailable

\* The turns of a conversation that is not torn all use the lock in the table.
SameLock == \A t \in Turns :
    (Waiting(t) \/ Inside(t)) /\ turn[t].conversation \notin torn =>
        table[turn[t].conversation] = turn[t].lock

\* A turn inside holds its lock, and no other turn does.
HeldByOne == \A t \in Turns : Inside(t) =>
    /\ turn[t].lock \in locked
    /\ \A u \in Turns : Inside(u) /\ turn[u].lock = turn[t].lock => u = t

\* A turn that waits is in the line of its lock, once; nobody else is in a line.
InLine == \A t \in Turns : Waiting(t) =>
    \E i \in DOMAIN waiters[turn[t].lock] : waiters[turn[t].lock][i] = t
LinesOfWaiting == \A l \in LockIds : \A i \in DOMAIN waiters[l] :
    /\ Waiting(waiters[l][i])
    /\ turn[waiters[l][i]].lock = l
    /\ \A j \in DOMAIN waiters[l] : waiters[l][j] = waiters[l][i] => j = i

\* Only the first in line is woken, and only while its lock is free.
WokenIsFirst == \A t \in woken :
    /\ Waiting(t)
    /\ turn[t].lock \notin locked
    /\ waiters[turn[t].lock] # <<>> /\ waiters[turn[t].lock][1] = t

\* There are as many messages as numbers at least.
NumbersBounded == \A k \in Conversations :
    /\ IsFiniteSet(messages[k])
    /\ \A m \in messages[k] : m.number <= Cardinality(messages[k])

\* No message has a number later than every question.
LatestIsAsked == \A k \in Conversations :
    messages[k] # {} => \E q \in Questions(k) : \A m \in messages[k] : m.number <= q.number

\* A turn that has asked has its question stored, as the latest where turns are
\* serialised and no late message came after it.
QuestionStored == \A t \in Turns : turn[t].phase \in {"asked", "degraded"} =>
    \E q \in Questions(turn[t].conversation) :
        /\ q.turn = t
        /\ turn[t].phase = "asked" /\ turn[t].conversation \notin torn /\ t \notin overrun =>
              \A m \in messages[turn[t].conversation] : m.number <= q.number

\* A thread that stores an answer late has stored the question before.
LateIsAnswer == \A w \in late : w.role = "assistant" =>
    \E q \in Questions(w.conversation) : q.turn = w.turn

IInv ==
    /\ TypeOK /\ Locking /\ SameLock /\ HeldByOne
    /\ InLine /\ LinesOfWaiting /\ WokenIsFirst
    /\ NumbersBounded /\ LatestIsAsked /\ QuestionStored /\ LateIsAnswer
    /\ AnswersPaired

=============================================================================
