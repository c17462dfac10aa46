---------------------------- MODULE OrderDialogue ----------------------------
(***************************************************************************)
(* Ordering through the assistant: one conversation, whose turns run one   *)
(* after the other.  The supervisor reads the customer's message, decides  *)
(* which node answers it and keeps the slots, the clarification and the    *)
(* order draft that are pending; an order is written only by the commit    *)
(* node, when a draft is confirmed.                                        *)
(*                                                                         *)
(* What the graph remembers from turn to turn is the checkpoint (memory).  *)
(* A streamed reply is shown before the checkpoint that belongs to it is   *)
(* stored; arun stores the checkpoint first and then sends the reply.      *)
(* OrderService runs in a thread the node waits for (calls): the thread    *)
(* goes on when the turn that started it is broken off.  Each call is      *)
(* atomic here, which the ledger refinement of OrderService justifies.     *)
(***************************************************************************)
EXTENDS Naturals, FiniteSets

CONSTANTS
    Products,       \* the products a message can name
    NoProduct,      \* a message or slot that names none
    Messages,       \* the customer's messages, as the model and the regexes read them
    Quantities,     \* quantities of a product the cart can hold, 0: not in the cart
    DraftIds,       \* numbers the drafts; bounds how many are prepared
    CallIds,        \* calls of OrderService; bounds how many are made
    Faults          \* what may go wrong besides failing nodes and calls

ASSUME NoProductAssumption == NoProduct \notin Products
ASSUME QuantitiesAssumption == Quantities \subseteq Nat /\ {0, 1} \subseteq Quantities
ASSUME DraftIdsAssumption == DraftIds \subseteq Nat \ {0}
ASSUME CallIdsAssumption == CallIds \subseteq Nat \ {0}
ASSUME FaultsAssumption == Faults \subseteq {"disconnect", "crash", "cart_unreadable"}

VARIABLES
    memory,     \* the checkpoint of the conversation
    turn,       \* the turn that is running
    calls,      \* the calls of OrderService made so far
    cart,       \* the customer's cart, which the page edits too
    lastDraft,  \* the number of the latest draft
    asked       \* what the customer was shown last

vars == <<memory, turn, calls, cart, lastDraft, asked>>

Nothing == [p \in Products |-> 0]
Baskets == [Products -> Quantities]

\* order stands for order and logistics, faq for the routes that need no slot.
Routes == {"place_order", "order", "after_sale", "faq", "finish"}
Modes == {"single", "cart"}
Actions == {"prepare", "commit", "cancel", "none"}
Targets == {"prepare", "commit", "cancel", "clarify", "reply"}
SlotKeys == {"product", "address", "order"}

Slots == [product : Products \union {NoProduct}, address : BOOLEAN, order : BOOLEAN, ticket : BOOLEAN]
NoSlots == [product |-> NoProduct, address |-> FALSE, order |-> FALSE, ticket |-> FALSE]

\* route and slots are the model's reading of the message; yes and no say
\* whether it contains an affirmative and a negative word, number whether it
\* contains an order number, with or without the words that announce one, and
\* hint whether it contains a word of _STATUS_HINTS.
Message == [route : Routes, slots : Slots, yes : BOOLEAN, no : BOOLEAN,
            number : {"none", "bare", "announced"}, hint : BOOLEAN]

ASSUME MessagesAssumption == Messages \subseteq Message

NoIntent == [route |-> "none", action |-> "none", mode |-> "none",
             slots |-> NoSlots, missing |-> {}]
Intent == [route : Routes, action : Actions, mode : Modes, slots : Slots, missing : SUBSET SlotKeys]

NoDraft == [id |-> 0, mode |-> "none", items |-> Nothing]
Draft == [id : DraftIds, mode : Modes, items : Baskets]

\* orderKnown: last_order_id is set, or a message of the history has an order number.
Memory == [slots : Slots, intent : Intent \union {NoIntent}, draft : Draft \union {NoDraft},
           mode : Modes, orderKnown : BOOLEAN]
EmptyMemory == [slots |-> NoSlots, intent |-> NoIntent, draft |-> NoDraft,
                mode |-> "single", orderKnown |-> FALSE]

Replies == {"draft", "question", "answer"}

NoTurn == [phase |-> "idle"]
NoCall == [state |-> "none"]
NoReport == 0   \* the call reported by a reply that reports none

TypeOK ==
    /\ memory \in Memory
    /\ \/ turn = NoTurn
       \/ turn \in [phase : {"routed"}, said : Messages, target : Targets,
                    route : Routes, action : Actions, before : Memory]
       \/ turn \in [phase : {"placing"}, call : CallIds, before : Memory]
       \/ turn \in [phase : {"shown"}, update : Memory, call : CallIds \union {NoReport}, before : Memory]
       \/ turn \in [phase : {"stored"}, reply : Replies, call : CallIds \union {NoReport}]
    /\ calls \in [CallIds -> {NoCall} \union
                    [state : {"running", "committed", "failed"}, confirmed : BOOLEAN,
                     reported : BOOLEAN, draft : Draft, items : Baskets]]
    /\ cart \in Baskets
    /\ lastDraft \in DraftIds \union {0}
    /\ asked \in Replies \union {"nothing", "failure"}

-----------------------------------------------------------------------------
(* routing.py: what is decided without the language model *)

MergeSlots(base, new) ==
    [product |-> IF new.product = NoProduct THEN base.product ELSE new.product,
     address |-> base.address \/ new.address,
     order   |-> base.order \/ new.order,
     ticket  |-> base.ticket \/ new.ticket]

ResolveMode(msg) == IF msg.slots.product = NoProduct THEN "cart" ELSE "single"

RequiredSlots(route, mode) ==
    CASE route = "place_order" /\ mode = "cart"   -> {"address"}
      [] route = "place_order" /\ mode = "single" -> {"product", "address"}
      [] route \in {"order", "after_sale"}        -> {"order"}
      [] OTHER                                    -> {}

Present(slots, key, route) ==
    CASE key = "product" -> slots.product # NoProduct
      [] key = "address" -> slots.address
      [] key = "order"   -> slots.order \/ (route = "after_sale" /\ slots.ticket)

MissingSlots(route, slots, mode) ==
    {key \in RequiredSlots(route, mode) : ~Present(slots, key, route)}

\* A negative word outweighs every affirmative one.
IsNegative(msg) == msg.no
IsAffirmative(msg) == msg.yes /\ ~msg.no

ResolveTarget(action, route, slots, mode) ==
    CASE action \in {"commit", "cancel"} -> action
      [] action = "prepare" ->
            IF MissingSlots("place_order", slots, mode) # {} THEN "clarify" ELSE "prepare"
      [] OTHER ->
            IF MissingSlots(route, slots, mode) # {} THEN "clarify"
            ELSE IF route = "place_order" THEN "prepare" ELSE "reply"

-----------------------------------------------------------------------------
(* The supervisor *)

\* An answer to a clarification: the message stays on its topic, or is on none.
Resumes(msg) ==
    /\ memory.intent # NoIntent
    /\ msg.route \in {"finish", memory.intent.route}

RouteOf(msg) == IF Resumes(msg) THEN memory.intent.route ELSE msg.route

SlotsOf(msg) ==
    LET slots == MergeSlots(memory.slots, msg.slots) IN
    IF Resumes(msg) THEN MergeSlots(memory.intent.slots, slots) ELSE slots

ModeOf(msg) ==
    IF Resumes(msg) THEN memory.intent.mode
    ELSE IF msg.route = "place_order" THEN ResolveMode(msg)
    ELSE memory.mode

\* The order number of the message is taken only on a topic that needs one.
WithNumber(msg, slots) ==
    [slots EXCEPT !.order = @ \/ /\ ~slots.ticket
                                 /\ RouteOf(msg) \in {"order", "after_sale"}
                                 /\ msg.number # "none"]

\* An order known from before, in the slots or in the text of the messages.
Carried(msg, slots) ==
    \/ slots.order \/ slots.ticket
    \/ memory.orderKnown \/ msg.number = "announced"

PromotedRoute(msg, slots) ==
    IF Carried(msg, slots) /\ RouteOf(msg) = "finish" /\ msg.hint THEN "order" ELSE RouteOf(msg)

WithCarried(msg, slots) ==
    [slots EXCEPT !.order = @ \/ /\ ~slots.ticket
                                 /\ Carried(msg, slots)
                                 /\ PromotedRoute(msg, slots) \in {"order", "after_sale"}]

\* Mutant of DraftAction: affirmative words are looked for first.
DraftActionYesFirst(msg, route, draft) ==
    CASE draft # NoDraft /\ msg.yes         -> "commit"
      [] draft # NoDraft /\ IsNegative(msg) -> "cancel"
      [] route = "place_order"              -> "prepare"
      [] OTHER                              -> "none"

\* What becomes of the pending draft, if any.
DraftAction(msg, route, draft) ==
    CASE draft # NoDraft /\ IsNegative(msg)    -> "cancel"
      [] draft # NoDraft /\ IsAffirmative(msg) -> "commit"
      [] route = "place_order"                 -> "prepare"
      [] OTHER                                 -> "none"

\* Mutant of KeptDraft: a change of topic leaves the draft pending.
KeptThroughAnyTopic(action) == memory.draft

KeptDraft(action) == IF action = "none" THEN NoDraft ELSE memory.draft

\* The routing of a turn: the human message is in the checkpoint, and the
\* supervisor's updates are another checkpoint.
Supervise(msg) ==
    LET numbered == WithNumber(msg, SlotsOf(msg))
        promoted == PromotedRoute(msg, numbered)
        slots    == WithCarried(msg, numbered)
        resumed  == IF Resumes(msg) THEN memory.intent.action ELSE "none"
        action   == IF resumed # "none" THEN resumed ELSE DraftAction(msg, promoted, memory.draft)
        route    == IF action = "commit" THEN "place_order" ELSE promoted
        mode     == IF action \in {"commit", "cancel"} THEN memory.draft.mode ELSE ModeOf(msg)
        input    == [memory EXCEPT !.orderKnown = @ \/ msg.number = "announced"]
    IN
    /\ turn = NoTurn
    /\ memory' = [input EXCEPT !.slots = slots, !.intent = NoIntent, !.mode = mode,
                               !.draft = KeptDraft(action), !.orderKnown = @ \/ slots.order]
    /\ turn' = [phase |-> "routed", said |-> msg, route |-> route, action |-> action,
                target |-> ResolveTarget(action, route, slots, mode), before |-> input]
    /\ UNCHANGED <<calls, cart, lastDraft, asked>>

-----------------------------------------------------------------------------
(* The nodes that answer *)

\* run_stream yields the reply of the node that answers; LangGraph has not yet
\* stored the node's updates.
Show(reply, update, call) ==
    /\ asked' = reply
    /\ turn' = [phase |-> "shown", update |-> update, call |-> call, before |-> turn.before]
    /\ UNCHANGED memory

\* In arun the graph returns once its updates are stored; the reply follows.
Store(reply, update, call) ==
    /\ memory' = update
    /\ turn' = [phase |-> "stored", reply |-> reply, call |-> call]
    /\ UNCHANGED asked

\* A node answers with a reply that may report a call, and updates the checkpoint.
AnswerWith(reply, update, call) == Show(reply, update, call) \/ Store(reply, update, call)
Answer(reply, update) == AnswerWith(reply, update, NoReport)

\* The turn has run to its end; what its reply reports counts as reported.
EndTurn ==
    /\ turn' = NoTurn
    /\ calls' = IF turn.call = NoReport THEN calls ELSE [calls EXCEPT ![turn.call].reported = TRUE]
    /\ UNCHANGED <<cart, lastDraft>>

StoreUpdate ==
    /\ turn.phase = "shown"
    /\ memory' = turn.update
    /\ EndTurn
    /\ UNCHANGED asked

SendReply ==
    /\ turn.phase = "stored"
    /\ asked' = turn.reply
    /\ EndTurn
    /\ UNCHANGED memory

\* A sub-agent or finish: its reply may mention an order number.
Reply ==
    /\ turn.phase = "routed" /\ turn.target = "reply"
    /\ \E mentions \in BOOLEAN : Answer("answer", [memory EXCEPT !.orderKnown = @ \/ mentions])
    /\ UNCHANGED <<calls, cart, lastDraft>>

Clarify ==
    /\ turn.phase = "routed" /\ turn.target = "clarify"
    /\ Answer("question",
          [memory EXCEPT !.intent =
              [route |-> turn.route, action |-> turn.action, mode |-> memory.mode,
               slots |-> memory.slots,
               missing |-> MissingSlots(turn.route, memory.slots, memory.mode)]])
    /\ UNCHANGED <<calls, cart, lastDraft>>

\* The draft is dropped with an explanation: nobody is logged in, the product
\* or a cart row is not for sale, or the database cannot be read.
PrepareRefuses ==
    /\ turn.phase = "routed" /\ turn.target = "prepare"
    /\ Answer("answer", [memory EXCEPT !.draft = NoDraft])
    /\ UNCHANGED <<calls, cart, lastDraft>>

ShowDraft(items) ==
    /\ lastDraft + 1 \in DraftIds
    /\ lastDraft' = lastDraft + 1
    /\ Answer("draft", [memory EXCEPT !.draft =
                           [id |-> lastDraft + 1, mode |-> memory.mode, items |-> items]])
    /\ UNCHANGED <<calls, cart>>

PrepareSingle ==
    /\ turn.phase = "routed" /\ turn.target = "prepare"
    /\ memory.mode = "single"
    /\ memory.slots.product # NoProduct
    /\ ShowDraft([Nothing EXCEPT ![memory.slots.product] = 1])

PrepareCart ==
    /\ turn.phase = "routed" /\ turn.target = "prepare"
    /\ memory.mode = "cart"
    /\ cart # Nothing
    /\ ShowDraft(cart)

CancelDraft ==
    /\ turn.phase = "routed" /\ turn.target = "cancel"
    /\ Answer("answer", [memory EXCEPT !.draft = NoDraft])
    /\ UNCHANGED <<calls, cart, lastDraft>>

\* An exception outside the nodes' own handlers: what is stored stands, and
\* the reply is an apology.
TurnFails ==
    /\ turn.phase \in {"routed", "shown", "stored"}
    /\ turn' = NoTurn
    /\ asked' = "failure"
    /\ UNCHANGED <<memory, calls, cart, lastDraft>>

-----------------------------------------------------------------------------
(* The commit node *)

\* Nobody is logged in, or the cart has changed since it was shown.
CommitRefuses ==
    /\ turn.phase = "routed" /\ turn.target = "commit"
    /\ Answer("answer", [memory EXCEPT !.draft = NoDraft])
    /\ UNCHANGED <<calls, cart, lastDraft>>

\* The cart is compared with the draft, unless reading it raises; then
\* OrderService is called in a thread.  confirmed records whether the
\* customer's message confirms, and does not refuse, the draft of an earlier turn.
StartOrder ==
    /\ turn.phase = "routed" /\ turn.target = "commit"
    /\ \/ memory.draft.mode = "single"
       \/ cart = memory.draft.items
       \/ "cart_unreadable" \in Faults
    /\ \E c \in CallIds :
          /\ calls[c] = NoCall
          /\ \A d \in CallIds : calls[d] = NoCall => c <= d
          /\ calls' = [calls EXCEPT ![c] =
                         [state |-> "running",
                          confirmed |-> /\ turn.before.draft = memory.draft
                                        /\ turn.said.yes /\ ~turn.said.no,
                          reported |-> FALSE, draft |-> memory.draft, items |-> Nothing]]
          /\ turn' = [phase |-> "placing", call |-> c, before |-> turn.before]
    /\ UNCHANGED <<memory, cart, lastDraft, asked>>

\* create orders what the cart holds when it locks it; create_direct leaves
\* the cart alone.
PlaceOrder(c) ==
    /\ calls[c].state = "running"
    /\ IF calls[c].draft.mode = "cart"
       THEN /\ cart # Nothing
            /\ calls' = [calls EXCEPT ![c].state = "committed", ![c].items = cart]
            /\ cart' = Nothing
       ELSE /\ calls' = [calls EXCEPT ![c].state = "committed", ![c].items = calls[c].draft.items]
            /\ UNCHANGED cart
    /\ UNCHANGED <<memory, turn, lastDraft, asked>>

\* ValueError, or any error before the commit.
OrderFails(c) ==
    /\ calls[c].state = "running"
    /\ calls' = [calls EXCEPT ![c].state = "failed"]
    /\ UNCHANGED <<memory, turn, cart, lastDraft, asked>>

\* Mutant of AfterOrder: the draft stays in the checkpoint.
AfterOrderDraftKept(told) == [memory EXCEPT !.orderKnown = @ \/ told]

\* Mutant of AfterOrder: the draft is emptied and not dropped.
AfterOrderDraftEmptied(told) ==
    [memory EXCEPT !.draft.items = Nothing, !.draft.id = 0, !.orderKnown = @ \/ told]

\* The draft goes whatever the call returned; the number of the order, if the
\* customer is told one, is remembered.
AfterOrder(told) ==
    [memory EXCEPT !.draft = NoDraft, !.slots.order = @ \/ told, !.orderKnown = @ \/ told]

\* get_detail may raise after the commit: then an order exists and the
\* customer is told that ordering failed.
ReportOrder ==
    /\ turn.phase = "placing"
    /\ calls[turn.call].state \in {"committed", "failed"}
    /\ \E told \in BOOLEAN :
          /\ told => calls[turn.call].state = "committed"
          /\ AnswerWith("answer", AfterOrder(told), turn.call)
    /\ UNCHANGED <<calls, cart, lastDraft>>

-----------------------------------------------------------------------------
(* The world around the turn *)

\* The page changes a row of the cart.
EditCart(p, q) ==
    /\ cart[p] # q
    /\ cart' = [cart EXCEPT ![p] = q]
    /\ UNCHANGED <<memory, turn, calls, lastDraft, asked>>

\* What the checkpoint may be after a turn that broke off: checkpoints are
\* stored behind the graph, and those made in the turn may be lost, but not
\* once the graph has returned.
Left ==
    CASE turn.phase = "stored" -> {memory}
      [] turn.phase = "shown"  -> {turn.before, memory, turn.update}
      [] OTHER                 -> {turn.before, memory}

\* The client goes away: the stream's turn is cancelled and frees the
\* conversation, its thread goes on; the reply of arun is lost.
Disconnect ==
    /\ "disconnect" \in Faults
    /\ turn # NoTurn
    /\ turn' = NoTurn
    /\ memory' \in Left
    /\ asked' = "failure"
    /\ UNCHANGED <<calls, cart, lastDraft>>

\* The process dies, and the transactions of its threads are rolled back.
Crash ==
    /\ "crash" \in Faults
    /\ turn # NoTurn
    /\ turn' = NoTurn
    /\ memory' \in Left
    /\ asked' = "failure"
    /\ calls' = [c \in CallIds |-> IF calls[c].state = "running"
                                   THEN [calls[c] EXCEPT !.state = "failed"] ELSE calls[c]]
    /\ UNCHANGED <<cart, lastDraft>>

-----------------------------------------------------------------------------
(* The specification *)

Init ==
    /\ memory = EmptyMemory
    /\ turn = NoTurn
    /\ calls = [c \in CallIds |-> NoCall]
    /\ cart = Nothing
    /\ lastDraft = 0
    /\ asked = "nothing"

Prepare == PrepareRefuses \/ PrepareSingle \/ PrepareCart
Commit == CommitRefuses \/ StartOrder \/ ReportOrder

Next ==
    \/ \E msg \in Messages : Supervise(msg)
    \/ Reply \/ Clarify \/ Prepare \/ Commit \/ CancelDraft
    \/ StoreUpdate \/ SendReply \/ TurnFails
    \/ \E c \in CallIds : PlaceOrder(c) \/ OrderFails(c)
    \/ \E p \in Products, q \in Quantities : EditCart(p, q)
    \/ Disconnect \/ Crash

Spec == Init /\ [][Next]_vars

-----------------------------------------------------------------------------
(* Properties *)

Called == {c \in CallIds : calls[c] # NoCall}
Ordered == {c \in CallIds : calls[c].state = "committed"}

\* No order without a human in the loop: OrderService is called only for a
\* draft that was pending before the customer's message came, and only if the
\* message confirms and does not also contain a refusal, even if turns are
\* broken off.
OrderedOnlyIfConfirmed == \A c \in Called : calls[c].confirmed

\* What is pending in m is what a reply asked for, unless the turn broke off.
Fits(m, reply) ==
    /\ m.draft # NoDraft => reply \in {"draft", "failure"}
    /\ m.intent # NoIntent => reply \in {"question", "failure"}

\* The draft or the clarification that is pending between two turns is what
\* the customer was asked last, unless the last turn broke off, and never are
\* both pending: a confirmation cannot be taken for an older question.
PendingIsLastAsked ==
    turn = NoTurn => /\ memory.draft = NoDraft \/ memory.intent = NoIntent
                     /\ Fits(memory, asked)

\* Once a turn that reports the outcome of ordering a draft has run to its end,
\* whatever the outcome was, no later turn orders that draft again, even if
\* turns before and after it break off, lose checkpoints and leave threads
\* behind.  A stream that breaks off between the reply and the checkpoint has
\* not run to its end: there the draft stays pending and may be ordered again.
ReportedDraftIsDone ==
    [][\A c, d \in CallIds :
          calls[c] # NoCall /\ calls[d] = NoCall /\ calls'[d] # NoCall =>
              ~(calls[c].reported /\ calls[c].draft.id = calls'[d].draft.id)]_vars

\* What makes them inductive.

\* Of a checkpoint, stored or to be stored: a clarification is
\* never about a confirmation, a draft was prepared for a known address, and
\* one whose outcome was reported is gone.
Sound(m) ==
    /\ m.draft = NoDraft \/ m.intent = NoIntent
    /\ m.intent.action \in {"none", "prepare"}
    /\ m.draft # NoDraft => m.slots.address
    /\ m.draft.id <= lastDraft
    /\ \A c \in Called : calls[c].reported => calls[c].draft.id # m.draft.id

\* What the node a turn was sent to relies on.
Routed ==
    turn.phase = "routed" =>
        /\ turn.target = "commit" => /\ memory.draft # NoDraft
                                     /\ turn.before.draft = memory.draft
                                     /\ turn.said.yes /\ ~turn.said.no
        /\ turn.target = "prepare" => memory.slots.address
        /\ turn.target \in {"clarify", "reply"} => memory.draft = NoDraft
        /\ turn.target = "clarify" => turn.action \in {"none", "prepare"}

\* What the checkpoints of a turn that is running are good for; a reply that
\* reports a call comes with a checkpoint without a draft.
Underway ==
    /\ turn.phase \in {"routed", "placing", "shown"} =>
          memory.intent = NoIntent /\ Sound(turn.before)
    /\ turn.phase = "placing" => turn.call \in Called
    /\ turn.phase = "shown" =>
          /\ Sound(turn.update) /\ Fits(turn.update, asked)
          /\ turn.call # NoReport => turn.call \in Called /\ turn.update.draft = NoDraft
    /\ turn.phase = "stored" =>
          /\ Fits(memory, turn.reply)
          /\ turn.call # NoReport => turn.call \in Called /\ memory.draft = NoDraft

IInv ==
    /\ TypeOK /\ OrderedOnlyIfConfirmed /\ PendingIsLastAsked
    /\ Sound(memory) /\ Routed /\ Underway
    /\ \A c \in Called : calls[c].draft.id <= lastDraft

\* README: what is ordered is what the customer confirmed.
ConfirmedIsOrdered == \A c \in Ordered : calls[c].items = calls[c].draft.items

=============================================================================
