----------------------------- MODULE ToolCalls -----------------------------
(***************************************************************************)
(* The bounded ReAct loop of an agent turn, whose tools run on the threads *)
(* of asyncio's executor and read the shop database, next to the requests  *)
(* of the shop that use the same connection pool.                          *)
(*                                                                         *)
(* A turn waits for one tool at a time, at most TOOL_TIMEOUT_SEC: when it  *)
(* gives up, a call that still queues is withdrawn, but a thread that runs *)
(* cannot be stopped and ends with its statement.                          *)
(***************************************************************************)
EXTENDS ShopServices, SequencesExt

CONSTANTS
    Turns,          \* agent turns, each of a user of its own
    Stranger,       \* another user, whom the model may name
    MaxSteps,       \* rounds of the loop (max_steps)
    MaxCalls,       \* bound on the tool calls of one reply of the model
    NoItem          \* an executor thread runs no call

ASSUME StepsAssumption == MaxSteps \in Nat \ {0} /\ MaxCalls \in Nat \ {0}

VARIABLES
    turn,       \* the loop of each turn
    queue,      \* the executor's queue
    doing       \* the work item each executor thread runs

vars == <<serviceVars, turn, queue, doing>>

\* n: the number of the call within its turn; user: whom the tool reads for.
Item == [turn : Turns, n : 1..(MaxSteps * MaxCalls), tool : Tools, user : Turns \union {Stranger}]

Observation == [n : 1..(MaxSteps * MaxCalls), user : Turns \union {Stranger},
                kind : {"data", "error", "timeout", "unknown"}]
Turn == [phase : {"llm", "calling", "waiting", "ended"}, step : 0..MaxSteps,
         calls : Seq(Tools \union {"unknown"}), seen : Seq(Observation)]

TypeOK ==
    /\ ServicesTypeOK
    /\ turn \in [Turns -> Turn]
    /\ queue \in Seq(Item)
    /\ doing \in [ToolThreads -> Item \union {NoItem}]

-----------------------------------------------------------------------------
(* The turn *)

Waiting(t) == turn[t].phase = "waiting"
CallNumber(t) == Len(turn[t].seen) + 1

\* The turn has the outcome of its n-th call: one observation more, one call less.
Observe(t, n, user, kind) ==
    turn' = [turn EXCEPT ![t].phase = "calling", ![t].calls = Tail(@),
                         ![t].seen = Append(@, [n |-> n, user |-> user, kind |-> kind])]

\* Mutant of RoundsLeft: the loop makes one round more.
RoundsLeftOneMore(t) == turn[t].step <= MaxSteps

RoundsLeft(t) == turn[t].step < MaxSteps

\* The model's reply ends the turn: no chunk, no tool call, or an exception.
Answer(t) ==
    /\ turn[t].phase = "llm"
    /\ RoundsLeft(t)
    /\ turn' = [turn EXCEPT ![t].phase = "ended"]
    /\ UNCHANGED <<serviceVars, queue, doing>>

\* The model's reply asks for tools, of which it may make some up.
AskForTools(t) ==
    /\ turn[t].phase = "llm"
    /\ RoundsLeft(t)
    /\ \E calls \in BoundedSeq(Tools \union {"unknown"}, MaxCalls) \ {<<>>} :
          turn' = [turn EXCEPT ![t].phase = "calling", ![t].step = @ + 1, ![t].calls = calls]
    /\ UNCHANGED <<serviceVars, queue, doing>>

\* The rounds are used up: the canned answer.
GiveUp(t) ==
    /\ turn[t].phase = "llm"
    /\ ~RoundsLeft(t)
    /\ turn' = [turn EXCEPT ![t].phase = "ended"]
    /\ UNCHANGED <<serviceVars, queue, doing>>

\* All tools of the reply have answered: the next round.
NextRound(t) ==
    /\ turn[t].phase = "calling"
    /\ turn[t].calls = <<>>
    /\ turn' = [turn EXCEPT ![t].phase = "llm"]
    /\ UNCHANGED <<serviceVars, queue, doing>>

UnknownTool(t) ==
    /\ turn[t].phase = "calling"
    /\ turn[t].calls # <<>>
    /\ Head(turn[t].calls) = "unknown"
    /\ Observe(t, CallNumber(t), t, "unknown")
    /\ UNCHANGED <<serviceVars, queue, doing>>

\* Mutant of Injected: the user the model names goes before the caller.
InjectedUnlessNamed(t, named) == named

\* The user of the turn, whomever the model names in the arguments.
Injected(t, named) == t

\* asyncio.to_thread puts the call into the executor's queue.
CallTool(t) ==
    /\ turn[t].phase = "calling"
    /\ turn[t].calls # <<>>
    /\ Head(turn[t].calls) \in Tools
    /\ \E named \in Turns \union {Stranger} :
          queue' = Append(queue, [turn |-> t, n |-> CallNumber(t), tool |-> Head(turn[t].calls),
                                  user |-> Injected(t, named)])
    /\ turn' = [turn EXCEPT ![t].phase = "waiting"]
    /\ UNCHANGED <<serviceVars, doing>>

\* Mutant of Withdrawn: the item stays queued when its turn gives up.
WithdrawnNot(t) == queue

\* Cancelling the future of a call that still queues withdraws it; a turn queues
\* one call at most.
Withdrawn(t) ==
    LET queued == {i \in DOMAIN queue : queue[i].turn = t} IN
    IF queued = {} THEN queue ELSE RemoveAt(queue, CHOOSE i \in queued : TRUE)

\* Mutant of Timeout: the tool is awaited without wait_for.
TimeoutNever(t) == FALSE /\ UNCHANGED vars

\* wait_for gives the call up.
Timeout(t) ==
    /\ Waiting(t)
    /\ Observe(t, CallNumber(t), t, "timeout")
    /\ queue' = Withdrawn(t)
    /\ UNCHANGED <<serviceVars, doing>>

\* The client disconnects and the turn is cancelled.
Disconnect(t) ==
    /\ turn[t].phase # "ended"
    /\ turn' = [turn EXCEPT ![t].phase = "ended"]
    /\ queue' = Withdrawn(t)
    /\ UNCHANGED <<serviceVars, doing>>

-----------------------------------------------------------------------------
(* The executor *)

\* A free thread takes the first call of the queue.
TakeCall(w) ==
    /\ doing[w] = NoItem
    /\ queue # <<>>
    /\ doing' = [doing EXCEPT ![w] = Head(queue)]
    /\ queue' = Tail(queue)
    /\ Start(w, Head(queue).tool, 0)
    /\ UNCHANGED <<pool, tables, history, turn>>

\* Mutant of Awaited: a late result goes to whatever call its turn waits for.
AwaitedAnyhow(i) == Waiting(i.turn)

\* The result of a call its turn has given up goes nowhere.
Awaited(i) == Waiting(i.turn) /\ i.n = CallNumber(i.turn)

\* The thread goes on, or its call has ended with a result of the given kind.
Deliver(w, kind) ==
    IF run'[w].call # "none"
    THEN UNCHANGED <<turn, doing>>
    ELSE /\ IF Awaited(doing[w])
            THEN Observe(doing[w].turn, doing[w].n, doing[w].user, kind)
            ELSE UNCHANGED turn
         /\ doing' = [doing EXCEPT ![w] = NoItem]

\* A step of a tool on its thread.
ToolStep(w) ==
    /\ doing[w] # NoItem
    /\ \/ Connect(w) /\ Deliver(w, "error")
       \/ ReadForTool(w) /\ Deliver(w, "data")
    /\ UNCHANGED queue

HandlerStep(w) ==
    /\ Request(w) \/ Connect(w) \/ ServiceStatement(w)
    /\ UNCHANGED <<turn, queue, doing>>

\* The server shuts down when its requests have ended: close_pool closes every
\* connection, those of threads whose turn has given them up included.
Shutdown ==
    /\ serving
    /\ \A t \in Turns : turn[t].phase = "ended"
    /\ \A w \in Handlers : Free(w)
    /\ serving' = FALSE
    /\ inUse' = {}
    /\ run' = [w \in Threads |-> IF run[w].conn = "used"
                                 THEN [run[w] EXCEPT !.conn = "closed"] ELSE run[w]]
    /\ UNCHANGED <<tables, history, turn, queue, doing>>

Init ==
    /\ ServicesInit
    /\ turn = [t \in Turns |-> [phase |-> "llm", step |-> 0, calls |-> <<>>, seen |-> <<>>]]
    /\ queue = <<>>
    /\ doing = [w \in ToolThreads |-> NoItem]

Loop(t) == Answer(t) \/ AskForTools(t) \/ GiveUp(t) \/ NextRound(t) \/ UnknownTool(t) \/ CallTool(t)

Next ==
    \/ \E t \in Turns : Loop(t) \/ Timeout(t) \/ Disconnect(t)
    \/ \E w \in ToolThreads : TakeCall(w) \/ ToolStep(w)
    \/ \E w \in Handlers : HandlerStep(w)
    \/ Shutdown

\* The options every pooled connection is opened with (shop_database.py:76).
ConnectionOptions == {"search_path"}

\* The event loop runs a turn and its timer, the executor its threads; the
\* model's reply ends.  Of a statement only a statement_timeout would say that
\* it ends.
Fairness ==
    /\ \A t \in Turns : WF_vars(Loop(t)) /\ WF_vars(Timeout(t))
    /\ \A w \in ToolThreads :
          /\ WF_vars(TakeCall(w))
          /\ WF_vars(ToolStep(w) /\ run[w].conn # "used")
          /\ "statement_timeout" \in ConnectionOptions => WF_vars(ToolStep(w) /\ run[w].conn = "used")

Spec == Init /\ [][Next]_vars /\ Fairness

-----------------------------------------------------------------------------
(* Properties *)

\* What a turn sees after its n-th call is the outcome of that call, read for
\* the turn's own user: the late result of a call it gave up never takes the
\* place of a later one.
OwnObservations ==
    \A t \in Turns : \A i \in 1..Len(turn[t].seen) :
        turn[t].seen[i].n = i /\ turn[t].seen[i].user = t

\* A call that was given up while it queued is never started.
AbandonedNeverStarts ==
    [][\A w \in ToolThreads : doing'[w] # doing[w] /\ doing'[w] # NoItem => Awaited(doing'[w])]_vars

-----------------------------------------------------------------------------
(* Invariants the proofs need *)

\* A turn that waits has the tool it waits for, one that thinks has none left;
\* every round adds MaxCalls calls at most.
CallsCounted == \A t \in Turns :
    /\ Waiting(t) => turn[t].calls # <<>>
    /\ turn[t].phase = "llm" => turn[t].calls = <<>>
    /\ Len(turn[t].seen) + Len(turn[t].calls) <= turn[t].step * MaxCalls

\* A call that queues is the one its turn waits for, and queues once.
QueuedAwaited == \A i \in DOMAIN queue :
    /\ Awaited(queue[i]) /\ queue[i].user = queue[i].turn
    /\ \A j \in DOMAIN queue : queue[j].turn = queue[i].turn => j = i

\* A call on a thread is one its turn has made, and if the turn still waits for it
\* it does not queue.
RunningMade == \A w \in ToolThreads : doing[w] # NoItem =>
    LET i == doing[w] IN
    /\ i.user = i.turn
    /\ turn[i.turn].phase = "waiting" => i.n <= CallNumber(i.turn)
    /\ turn[i.turn].phase \in {"llm", "calling"} => i.n < CallNumber(i.turn)
    /\ Awaited(i) => \A j \in DOMAIN queue : queue[j].turn # i.turn

IInv ==
    /\ TypeOK /\ ServicesIInv
    /\ CallsCounted /\ QueuedAwaited /\ RunningMade /\ OwnObservations

-----------------------------------------------------------------------------
(* Liveness *)

\* Every turn ends, although tools may hang for ever and hold all threads.
EveryTurnEnds == \A t \in Turns : <>(turn[t].phase = "ended")

\* What the comment on CONN_OPTIONS (shop_database.py:32-35) says: a thread that
\* a statement holds is freed by the database.
StuckThreadsReturn == \A w \in ToolThreads : (doing[w] # NoItem) ~> (doing[w] = NoItem)

=============================================================================
