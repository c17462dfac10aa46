------------------------- MODULE OrderDialogueProofs -------------------------
(***************************************************************************)
(* Proofs about OrderDialogue for any products, messages, drafts and       *)
(* calls, whatever goes wrong.                                             *)
(***************************************************************************)
EXTENDS OrderDialogue, TLAPS

CallRecord == [state : {"running", "committed", "failed"}, confirmed : BOOLEAN,
               reported : BOOLEAN, draft : Draft, items : Baskets]
RoutedTurn == [phase : {"routed"}, said : Messages, target : Targets,
               route : Routes, action : Actions, before : Memory]
PlacingTurn == [phase : {"placing"}, call : CallIds, before : Memory]
ShownTurn == [phase : {"shown"}, update : Memory, call : CallIds \union {NoReport}, before : Memory]
StoredTurn == [phase : {"stored"}, reply : Replies, call : CallIds \union {NoReport}]

-----------------------------------------------------------------------------
(* What the types tell apart *)

LEMMA TurnPhases ==
  /\ NoTurn.phase = "idle"
  /\ \A r \in RoutedTurn : r.phase = "routed" /\ r # NoTurn
  /\ \A r \in PlacingTurn : r.phase = "placing" /\ r # NoTurn
  /\ \A r \in ShownTurn : r.phase = "shown" /\ r # NoTurn
  /\ \A r \in StoredTurn : r.phase = "stored" /\ r # NoTurn
  BY DEF NoTurn, RoutedTurn, PlacingTurn, ShownTurn, StoredTurn

LEMMA CallStates == \A r \in CallRecord : r.state # "none" /\ r # NoCall
  BY DEF CallRecord, NoCall

LEMMA DraftNumbers ==
  /\ NoDraft.id = 0
  /\ \A n \in DraftIds : n \in Nat /\ n > 0
  /\ \A d \in Draft : d.id \in DraftIds /\ d # NoDraft
  <1>1. NoDraft.id = 0
    BY DEF NoDraft
  <1>2. \A n \in DraftIds : n \in Nat /\ n > 0
    BY DraftIdsAssumption
  <1>3. \A d \in Draft : d.id \in DraftIds
    BY DEF Draft
  <1> QED
    BY <1>1, <1>2, <1>3

LEMMA NoIntentIsNone ==
  /\ NoIntent.action = "none" /\ NoIntent.route = "none"
  /\ \A i \in Intent : i # NoIntent
  BY DEF NoIntent, Intent, Routes

LEMMA CallsTyped ==
  ASSUME TypeOK, NEW c \in CallIds
  PROVE  /\ c \in Called <=> calls[c] # NoCall
         /\ calls[c] # NoCall => calls[c] \in CallRecord
         /\ calls[c].state \in {"running", "committed", "failed"} => c \in Called
  BY DEF TypeOK, Called, CallRecord, NoCall

LEMMA TurnTyped ==
  ASSUME TypeOK
  PROVE  /\ turn.phase = "routed" => turn \in RoutedTurn
         /\ turn.phase = "placing" => turn \in PlacingTurn
         /\ turn.phase = "shown" => turn \in ShownTurn
         /\ turn.phase = "stored" => turn \in StoredTurn
         /\ turn # NoTurn => turn.phase \in {"routed", "placing", "shown", "stored"}
  BY DEF TypeOK, RoutedTurn, PlacingTurn, ShownTurn, StoredTurn, NoTurn

LEMMA BeforeTyped ==
  ASSUME TypeOK, turn.phase \in {"routed", "placing", "shown"}
  PROVE  turn.before \in Memory
  BY TurnTyped DEF RoutedTurn, PlacingTurn, ShownTurn

-----------------------------------------------------------------------------
(* The slots only grow *)

LEMMA SlotsMerged ==
  ASSUME NEW a \in Slots, NEW b \in Slots
  PROVE  /\ MergeSlots(a, b) \in Slots
         /\ a.address => MergeSlots(a, b).address
         /\ b.product # NoProduct => MergeSlots(a, b).product # NoProduct
  BY DEF MergeSlots, Slots

\* slots with the order number set or not.
Numbered(slots, b) == [slots EXCEPT !.order = @ \/ b]

LEMMA SlotsNumbered ==
  ASSUME NEW slots \in Slots, NEW b \in BOOLEAN
  PROVE  /\ Numbered(slots, b) \in Slots
         /\ Numbered(slots, b).address = slots.address
         /\ Numbered(slots, b).product = slots.product
  BY DEF Numbered, Slots

\* The slots a turn goes on with.
TurnSlots(msg) == WithCarried(msg, WithNumber(msg, SlotsOf(msg)))

LEMMA SlotsOfTurn ==
  ASSUME TypeOK, NEW msg \in Messages
  PROVE  /\ WithNumber(msg, SlotsOf(msg)) \in Slots /\ TurnSlots(msg) \in Slots
         /\ memory.slots.address => TurnSlots(msg).address
         /\ ~Resumes(msg) /\ msg.slots.product # NoProduct => TurnSlots(msg).product # NoProduct
  <1> DEFINE merged == MergeSlots(memory.slots, msg.slots)
             slots == SlotsOf(msg)
             numbered == WithNumber(msg, slots)
  <1>1. memory.slots \in Slots /\ memory.intent \in Intent \union {NoIntent} /\ msg.slots \in Slots
    BY MessagesAssumption DEF TypeOK, Memory, Message
  <1>2. Resumes(msg) => memory.intent.slots \in Slots
    BY <1>1 DEF Resumes, Intent
  <1>3. /\ merged \in Slots
        /\ memory.slots.address => merged.address
        /\ msg.slots.product # NoProduct => merged.product # NoProduct
    BY <1>1, SlotsMerged
  <1>4. slots = IF Resumes(msg) THEN MergeSlots(memory.intent.slots, merged) ELSE merged
    BY DEF SlotsOf
  <1> HIDE DEF merged, slots
  <1>5. /\ slots \in Slots
        /\ memory.slots.address => slots.address
        /\ ~Resumes(msg) /\ msg.slots.product # NoProduct => slots.product # NoProduct
    <2>1. CASE Resumes(msg)
      <3>1. merged.address \in BOOLEAN
        BY <1>3 DEF Slots
      <3>2. MergeSlots(memory.intent.slots, merged) \in Slots
        BY <1>2, <1>3, <2>1, SlotsMerged
      <3>3. merged.address => MergeSlots(memory.intent.slots, merged).address
        BY DEF MergeSlots
      <3> QED
        BY <1>3, <1>4, <2>1, <3>2, <3>3
    <2>2. CASE ~Resumes(msg)
      BY <1>3, <1>4, <2>2
    <2> QED
      BY <2>1, <2>2
  <1>6. \E b \in BOOLEAN : numbered = Numbered(slots, b)
    BY DEF WithNumber, Numbered
  <1>7. numbered \in Slots /\ numbered.address = slots.address /\ numbered.product = slots.product
    <2> HIDE DEF numbered
    <2> QED
      BY <1>5, <1>6, SlotsNumbered
  <1> HIDE DEF numbered
  <1>8. \E b \in BOOLEAN : WithCarried(msg, numbered) = Numbered(numbered, b)
    BY DEF WithCarried, Numbered
  <1>9. /\ WithCarried(msg, numbered) \in Slots
        /\ WithCarried(msg, numbered).address = numbered.address
        /\ WithCarried(msg, numbered).product = numbered.product
    BY <1>7, <1>8, SlotsNumbered
  <1>10. TurnSlots(msg) = WithCarried(msg, numbered)
    BY DEF TurnSlots, numbered, slots
  <1> QED
    BY <1>5, <1>7, <1>9, <1>10 DEF numbered, slots

-----------------------------------------------------------------------------
(* Where a message is sent *)

\* The action and the mode of a turn.
TurnAction(msg, route) ==
    IF Resumes(msg) /\ memory.intent.action # "none" THEN memory.intent.action
    ELSE DraftAction(msg, route, memory.draft)
TurnMode(msg, action) ==
    IF action \in {"commit", "cancel"} THEN memory.draft.mode ELSE ModeOf(msg)

LEMMA RouteOfTurn ==
  ASSUME TypeOK, NEW msg \in Messages, NEW slots
  PROVE  /\ PromotedRoute(msg, slots) \in Routes
         /\ ~Resumes(msg) /\ PromotedRoute(msg, slots) = "place_order" => msg.route = "place_order"
  <1>1. msg.route \in Routes /\ memory.intent \in Intent \union {NoIntent}
    BY MessagesAssumption DEF TypeOK, Memory, Message
  <1>2. Resumes(msg) => memory.intent.route \in Routes
    BY <1>1 DEF Resumes, Intent
  <1> QED
    BY <1>1, <1>2 DEF PromotedRoute, RouteOf, Routes

\* A draft is confirmed only by a message that says so, and a pending one is
\* neither confirmed nor prepared anew by an answer to a clarification.
LEMMA ActionOfTurn ==
  ASSUME TypeOK, Sound(memory), NEW msg \in Messages, NEW route
  PROVE  LET action == TurnAction(msg, route) IN
         /\ action \in Actions
         /\ action = "commit" => memory.draft # NoDraft /\ msg.yes /\ ~msg.no
         /\ action = "cancel" => memory.draft # NoDraft
         /\ action = "none" => route # "place_order"
         /\ memory.draft # NoDraft => ~Resumes(msg)
         /\ memory.draft # NoDraft /\ action = "prepare" => route = "place_order"
  <1>1. memory.intent.action \in {"none", "prepare"} /\ (memory.draft # NoDraft => ~Resumes(msg))
    BY DEF Sound, Resumes
  <1> QED
    BY <1>1 DEF TurnAction, DraftAction, IsNegative, IsAffirmative, Actions

LEMMA ModeOfTurn ==
  ASSUME TypeOK, Sound(memory), NEW msg \in Messages, NEW route
  PROVE  TurnMode(msg, TurnAction(msg, route)) \in Modes
  <1>1. /\ memory.mode \in Modes /\ memory.intent \in Intent \union {NoIntent}
        /\ memory.draft \in Draft \union {NoDraft}
    BY DEF TypeOK, Memory
  <1>2. memory.draft # NoDraft => memory.draft.mode \in Modes
    BY <1>1 DEF Draft
  <1>3. ModeOf(msg) \in Modes
    BY <1>1 DEF ModeOf, Resumes, Intent, ResolveMode, Modes
  <1>4. TurnAction(msg, route) \in {"commit", "cancel"} => memory.draft # NoDraft
    BY ActionOfTurn
  <1> QED
    BY <1>2, <1>3, <1>4 DEF TurnMode

\* Nothing is missing of an order whose address and product are known.
LEMMA NothingMissing ==
  ASSUME NEW slots, NEW mode \in Modes
  PROVE  /\ MissingSlots("place_order", slots, mode) = {} => slots.address
         /\ slots.address /\ (mode = "single" => slots.product # NoProduct)
               => MissingSlots("place_order", slots, mode) = {}
  BY DEF MissingSlots, RequiredSlots, Present, Modes

LEMMA TargetOfTurn ==
  ASSUME NEW action \in Actions, NEW route \in Routes, NEW slots, NEW mode \in Modes,
         action = "none" => route # "place_order"
  PROVE  LET target == ResolveTarget(action, route, slots, mode) IN
         /\ target \in Targets
         /\ target = "commit" => action = "commit"
         /\ target = "prepare" => slots.address
         /\ target = "reply" => action = "none"
         /\ target = "clarify" => /\ action \in {"none", "prepare"}
                                  /\ action = "prepare" => MissingSlots("place_order", slots, mode) # {}
  BY NothingMissing DEF ResolveTarget, Actions, Targets

-----------------------------------------------------------------------------
(* The checkpoints *)

Routing(m, slots, mode, draft, known) ==
    [m EXCEPT !.slots = slots, !.intent = NoIntent, !.mode = mode, !.draft = draft, !.orderKnown = known]
Known(m, b) == [m EXCEPT !.orderKnown = @ \/ b]
Asking(m, intent) == [m EXCEPT !.intent = intent]
Drafting(m, draft) == [m EXCEPT !.draft = draft]

LEMMA RoutingMemory ==
  ASSUME NEW m \in Memory, NEW slots \in Slots, NEW mode \in Modes, NEW draft \in Draft \union {NoDraft},
         NEW known \in BOOLEAN
  PROVE  LET new == Routing(m, slots, mode, draft, known) IN
         /\ new \in Memory /\ new.slots = slots /\ new.intent = NoIntent /\ new.draft = draft
         /\ new.mode = mode
  BY DEF Memory, Routing

LEMMA KnownMemory ==
  ASSUME NEW m \in Memory, NEW b \in BOOLEAN
  PROVE  /\ Known(m, b) \in Memory /\ Known(m, b).slots = m.slots /\ Known(m, b).intent = m.intent
         /\ Known(m, b).draft = m.draft /\ Known(m, b).mode = m.mode
  BY DEF Memory, Known

LEMMA AskingMemory ==
  ASSUME NEW m \in Memory, NEW intent \in Intent
  PROVE  LET new == Asking(m, intent) IN
         /\ new \in Memory /\ new.slots = m.slots /\ new.intent = intent /\ new.draft = m.draft
  BY DEF Memory, Asking

LEMMA DraftingMemory ==
  ASSUME NEW m \in Memory, NEW draft \in Draft \union {NoDraft}
  PROVE  LET new == Drafting(m, draft) IN
         /\ new \in Memory /\ new.slots = m.slots /\ new.intent = m.intent /\ new.draft = draft
  BY DEF Memory, Drafting

-----------------------------------------------------------------------------
(* The supervisor *)

LEMMA SuperviseStep ==
  ASSUME IInv, NEW msg \in Messages, Supervise(msg)
  PROVE  IInv'
  <1> DEFINE numbered == WithNumber(msg, SlotsOf(msg))
             promoted == PromotedRoute(msg, numbered)
             slots    == TurnSlots(msg)
             action   == TurnAction(msg, promoted)
             route    == IF action = "commit" THEN "place_order" ELSE promoted
             mode     == TurnMode(msg, action)
             input    == Known(memory, msg.number = "announced")
             target   == ResolveTarget(action, route, slots, mode)
  <1>1. /\ TypeOK /\ Sound(memory) /\ turn = NoTurn
        /\ PendingIsLastAsked
    BY DEF IInv, Supervise
  <1>2. /\ memory' = Routing(input, slots, mode, KeptDraft(action), input.orderKnown \/ slots.order)
        /\ turn' = [phase |-> "routed", said |-> msg, route |-> route, action |-> action,
                    target |-> target, before |-> input]
        /\ UNCHANGED <<calls, cart, lastDraft, asked>>
    BY DEF Supervise, Routing, Known, TurnSlots, TurnAction, TurnMode
  <1>3. /\ memory \in Memory /\ msg \in Message
        /\ input \in Memory /\ input.slots = memory.slots /\ input.intent = memory.intent
        /\ input.draft = memory.draft
    <2>1. memory \in Memory /\ msg \in Message
      BY <1>1, MessagesAssumption DEF TypeOK
    <2> QED
      BY <2>1, KnownMemory
  <1>4. /\ slots \in Slots
        /\ memory.slots.address => slots.address
        /\ ~Resumes(msg) /\ msg.slots.product # NoProduct => slots.product # NoProduct
    BY <1>1, SlotsOfTurn
  <1>5. /\ promoted \in Routes
        /\ ~Resumes(msg) /\ promoted = "place_order" => msg.route = "place_order"
    BY <1>1, RouteOfTurn
  <1>6. /\ action \in Actions /\ mode \in Modes
        /\ action = "commit" => memory.draft # NoDraft /\ msg.yes /\ ~msg.no
        /\ action = "none" => promoted # "place_order"
        /\ memory.draft # NoDraft => ~Resumes(msg)
        /\ memory.draft # NoDraft /\ action = "prepare" => promoted = "place_order"
    BY <1>1, ActionOfTurn, ModeOfTurn
  <1>7. memory.draft # NoDraft /\ action = "prepare" =>
          slots.address /\ (mode = "single" => slots.product # NoProduct)
    <2> SUFFICES ASSUME memory.draft # NoDraft, action = "prepare"
                 PROVE  slots.address /\ (mode = "single" => slots.product # NoProduct)
      OBVIOUS
    <2>1. memory.slots.address
      BY <1>1 DEF Sound
    <2>2. mode = ResolveMode(msg)
      BY <1>5, <1>6 DEF TurnMode, ModeOf
    <2> QED
      BY <1>4, <1>6, <2>1, <2>2 DEF ResolveMode
  <1>8. KeptDraft(action) = IF action = "none" THEN NoDraft ELSE memory.draft
    BY DEF KeptDraft
  <1> HIDE DEF numbered, promoted, slots, action, mode, input
  <1>9. route \in Routes /\ (action = "none" => route # "place_order")
    BY <1>5, <1>6 DEF Routes
  <1> HIDE DEF route
  <1>10. /\ target \in Targets
         /\ target = "commit" => action = "commit"
         /\ target = "prepare" => slots.address
         /\ target = "reply" => action = "none"
         /\ target = "clarify" => /\ action \in {"none", "prepare"}
                                  /\ action = "prepare" => memory.draft = NoDraft
    BY <1>6, <1>7, <1>9, TargetOfTurn, NothingMissing
  <1> HIDE DEF target
  <1>11. /\ memory' \in Memory /\ memory'.slots = slots /\ memory'.intent = NoIntent
         /\ memory'.draft = IF action = "none" THEN NoDraft ELSE memory.draft
    <2>1. input.orderKnown \in BOOLEAN /\ slots.order \in BOOLEAN
      BY <1>3, <1>4 DEF Memory, Slots
    <2> DEFINE known == input.orderKnown \/ slots.order
               draft == KeptDraft(action)
    <2>2. known \in BOOLEAN
      OBVIOUS
    <2>3. draft \in Draft \union {NoDraft}
      BY <1>3, <1>8 DEF Memory
    <2>4. memory' = Routing(input, slots, mode, draft, known)
      BY <1>2
    <2> HIDE DEF known, draft
    <2>5. /\ memory' \in Memory /\ memory'.slots = slots /\ memory'.intent = NoIntent
          /\ memory'.draft = draft
      BY <1>3, <1>4, <1>6, <2>2, <2>3, <2>4, RoutingMemory
    <2> QED
      BY <1>8, <2>5 DEF draft
  <1>12. /\ turn' \in RoutedTurn /\ turn'.said = msg /\ turn'.target = target /\ turn'.action = action
         /\ turn'.before = input
    BY <1>2, <1>3, <1>6, <1>9, <1>10 DEF RoutedTurn
  <1>13. turn'.phase = "routed" /\ turn' # NoTurn
    BY <1>12, TurnPhases
  <1>14. TypeOK'
    <2>1. calls' = calls /\ cart' = cart /\ lastDraft' = lastDraft /\ asked' = asked
      BY <1>2
    <2>2. turn' \in RoutedTurn /\ memory' \in Memory
      BY <1>11, <1>12
    <2> QED
      BY <1>1, <2>1, <2>2 DEF TypeOK, RoutedTurn
  <1>15. Called' = Called /\ calls' = calls /\ lastDraft' = lastDraft
    BY <1>2 DEF Called
  <1>16. Sound(memory)' /\ Sound(turn.before)'
    <2>1. NoDraft.id = 0 /\ lastDraft \in Nat
      BY <1>1, DraftNumbers DEF TypeOK
    <2>2. \A c \in Called : calls[c].draft.id # 0
      BY <1>1, CallsTyped, DraftNumbers DEF CallRecord, Called
    <2>3. memory'.draft # NoDraft => memory'.slots.address
      BY <1>1, <1>4, <1>11 DEF Sound
    <2>4. memory'.draft.id <= lastDraft'
      BY <1>1, <1>11, <1>15, <2>1 DEF Sound
    <2>5. \A c \in Called' : calls'[c].reported => calls'[c].draft.id # memory'.draft.id
      BY <1>1, <1>11, <1>15, <2>1, <2>2 DEF Sound
    <2>6. Sound(memory)'
      BY <1>11, <2>3, <2>4, <2>5, NoIntentIsNone DEF Sound
    <2>7. Sound(turn.before)'
      BY <1>1, <1>3, <1>12, <1>15 DEF Sound
    <2> QED
      BY <2>6, <2>7
  <1>17. Routed'
    BY <1>3, <1>6, <1>10, <1>11, <1>12 DEF Routed
  <1>18. Underway'
    BY <1>11, <1>13, <1>16 DEF Underway
  <1> QED
    BY <1>13, <1>14, <1>15, <1>16, <1>17, <1>18 DEF IInv, OrderedOnlyIfConfirmed, PendingIsLastAsked

-----------------------------------------------------------------------------
(* The end of a turn *)

\* A checkpoint stays sound while no draft is called for or reported.
LEMMA SoundKept ==
  ASSUME IInv, NEW m \in Memory, Sound(m), Called' = Called,
         \A c \in Called : calls'[c].draft = calls[c].draft /\ calls'[c].reported = calls[c].reported,
         lastDraft' \in DraftIds \union {0}, lastDraft <= lastDraft'
  PROVE  Sound(m)'
  <1>1. m.draft.id \in Nat /\ lastDraft \in Nat /\ lastDraft' \in Nat
    BY DraftNumbers DEF IInv, TypeOK, Memory
  <1>2. m.draft.id <= lastDraft'
    BY <1>1 DEF Sound
  <1> QED
    BY <1>2 DEF Sound

\* What a node writes that keeps the draft or drops it.
LEMMA SoundOf ==
  ASSUME IInv, UNCHANGED <<calls, lastDraft>>, NEW m \in Memory,
         m.draft \in {memory.draft, NoDraft},
         m.draft # NoDraft => m.slots.address,
         m.draft = NoDraft \/ m.intent = NoIntent,
         m.intent.action \in {"none", "prepare"}
  PROVE  Sound(m)'
  <1>1. Called' = Called
    BY DEF Called
  <1>2. NoDraft.id = 0 /\ lastDraft \in Nat
    BY DraftNumbers DEF IInv, TypeOK
  <1>3. \A c \in Called : calls[c].draft.id # 0
    BY CallsTyped, DraftNumbers DEF CallRecord, Called, IInv
  <1> QED
    BY <1>1, <1>2, <1>3 DEF IInv, Sound

\* A node answers without touching the calls: what it updates must be sound,
\* fit its reply and, if the reply reports a call, hold no draft.
LEMMA Answered ==
  ASSUME IInv, turn.phase \in {"routed", "placing"},
         NEW reply \in Replies, NEW update \in Memory, NEW call \in CallIds \union {NoReport},
         AnswerWith(reply, update, call), UNCHANGED <<calls, cart>>,
         lastDraft' \in DraftIds \union {0}, lastDraft <= lastDraft',
         Sound(update)', Fits(update, reply),
         call # NoReport => call \in Called /\ update.draft = NoDraft
  PROVE  IInv'
  <1>1. Called' = Called /\ OrderedOnlyIfConfirmed'
    BY DEF Called, IInv, OrderedOnlyIfConfirmed
  <1>2. \A c \in Called' : calls'[c].draft.id <= lastDraft'
    <2> SUFFICES ASSUME NEW c \in Called
                 PROVE  calls[c].draft.id <= lastDraft'
      BY <1>1
    <2>1. calls[c].draft.id \in Nat /\ calls[c].draft.id <= lastDraft
      <3>1. calls[c] \in CallRecord
        BY CallsTyped DEF IInv, Called
      <3> QED
        BY <3>1, DraftNumbers DEF IInv, CallRecord
    <2>2. lastDraft \in Nat /\ lastDraft' \in Nat
      BY DraftNumbers DEF IInv, TypeOK
    <2> QED
      BY <2>1, <2>2
  <1>3. /\ memory.intent = NoIntent /\ Sound(memory) /\ Sound(turn.before)
        /\ memory \in Memory /\ turn.before \in Memory
    BY BeforeTyped DEF IInv, Underway, TypeOK
  <1>4. Sound(memory) /\ Sound(turn.before)
    BY <1>3
  <1>5. CASE Show(reply, update, call)
    <2>1. /\ turn' = [phase |-> "shown", update |-> update, call |-> call, before |-> turn.before]
          /\ asked' = reply /\ memory' = memory
      BY <1>5 DEF Show
    <2>2. /\ turn' \in ShownTurn /\ turn'.before = turn.before /\ turn'.update = update
          /\ turn'.call = call /\ turn'.phase = "shown"
      BY <1>3, <2>1 DEF ShownTurn
    <2>3. turn' # NoTurn
      BY <2>2, TurnPhases
    <2>4. TypeOK'
      <3>1. turn' \in ShownTurn /\ calls' = calls /\ cart' = cart /\ memory' = memory /\ asked' \in Replies
        BY <2>1, <2>2
      <3> QED
        BY <3>1 DEF IInv, TypeOK, ShownTurn
    <2>5. Sound(memory)' /\ Sound(turn.before)'
      <3>1. PICK m \in Memory : m = memory
        BY <1>3
      <3>2. PICK b \in Memory : b = turn.before
        BY <1>3
      <3>3. Sound(m) /\ Sound(b)
        BY <1>4, <3>1, <3>2
      <3>4. Sound(m)' /\ Sound(b)'
        BY <1>1, <3>3, SoundKept
      <3>5. memory' = m /\ turn'.before = b
        BY <2>1, <2>2, <3>1, <3>2
      <3> QED
        BY <3>4, <3>5 DEF Sound
    <2>6. Sound(turn.update)'
      BY <2>2 DEF Sound
    <2>7. Underway'
      BY <1>1, <1>3, <2>1, <2>2, <2>5, <2>6 DEF Underway, Fits
    <2>8. Routed' /\ PendingIsLastAsked'
      BY <2>2, <2>3 DEF Routed, PendingIsLastAsked
    <2> QED
      BY <1>1, <1>2, <2>4, <2>5, <2>7, <2>8 DEF IInv
  <1>6. CASE Store(reply, update, call)
    <2>1. /\ turn' = [phase |-> "stored", reply |-> reply, call |-> call]
          /\ memory' = update /\ asked' = asked
      BY <1>6 DEF Store
    <2>2. /\ turn' \in StoredTurn /\ turn'.reply = reply
          /\ turn'.call = call /\ turn'.phase = "stored"
      BY <2>1 DEF StoredTurn
    <2>3. turn' # NoTurn
      BY <2>2, TurnPhases
    <2>4. TypeOK'
      <3>1. turn' \in StoredTurn /\ calls' = calls /\ cart' = cart /\ memory' \in Memory /\ asked' = asked
        BY <2>1, <2>2
      <3> QED
        BY <3>1 DEF IInv, TypeOK, StoredTurn
    <2>5. Sound(memory)'
      BY <2>1 DEF Sound
    <2>6. Underway'
      BY <1>1, <2>1, <2>2 DEF Underway, Fits
    <2>7. Routed' /\ PendingIsLastAsked'
      BY <2>2, <2>3 DEF Routed, PendingIsLastAsked
    <2> QED
      BY <1>1, <1>2, <2>4, <2>5, <2>6, <2>7 DEF IInv
  <1> QED
    BY <1>5, <1>6 DEF AnswerWith

\* The calls as they were, but for their states, items and reports.
LEMMA CallsKept ==
  ASSUME IInv, calls' \in [CallIds -> {NoCall} \union CallRecord],
         \A c \in CallIds : /\ calls'[c] = NoCall <=> calls[c] = NoCall
                            /\ calls[c] # NoCall => /\ calls'[c].confirmed = calls[c].confirmed
                                                    /\ calls'[c].draft = calls[c].draft,
         UNCHANGED lastDraft
  PROVE  /\ Called' = Called /\ OrderedOnlyIfConfirmed'
         /\ \A c \in Called' : calls'[c].draft.id <= lastDraft'
         /\ calls' \in [CallIds -> {NoCall} \union
               [state : {"running", "committed", "failed"}, confirmed : BOOLEAN,
                reported : BOOLEAN, draft : Draft, items : Baskets]]
  <1>1. Called' = Called
    BY DEF Called
  <1> QED
    BY <1>1 DEF IInv, OrderedOnlyIfConfirmed, Called, CallRecord

\* The turn is over, and the calls as they were but for their states, items and
\* reports: the checkpoint it leaves must be sound and fit what it told the customer.
LEMMA TurnEnds ==
  ASSUME IInv, turn' = NoTurn, memory' \in Memory, UNCHANGED <<cart, lastDraft>>,
         calls' \in [CallIds -> {NoCall} \union CallRecord],
         \A c \in CallIds : /\ calls'[c] = NoCall <=> calls[c] = NoCall
                            /\ calls[c] # NoCall => /\ calls'[c].confirmed = calls[c].confirmed
                                                    /\ calls'[c].draft = calls[c].draft,
         asked' \in Replies \union {"nothing", "failure"},
         Sound(memory)', Fits(memory, asked)'
  PROVE  IInv'
  <1>1. /\ Called' = Called /\ OrderedOnlyIfConfirmed'
        /\ \A c \in Called' : calls'[c].draft.id <= lastDraft'
        /\ calls' \in [CallIds -> {NoCall} \union
               [state : {"running", "committed", "failed"}, confirmed : BOOLEAN,
                reported : BOOLEAN, draft : Draft, items : Baskets]]
    BY CallsKept
  <1>2. TypeOK'
    BY <1>1 DEF IInv, TypeOK
  <1>3. turn'.phase = "idle"
    BY TurnPhases
  <1>4. PendingIsLastAsked' /\ Routed' /\ Underway'
    BY <1>3 DEF PendingIsLastAsked, Sound, Routed, Underway
  <1> QED
    BY <1>1, <1>2, <1>4 DEF IInv

\* What a broken turn may leave is sound.
LEMMA LeftSound ==
  ASSUME IInv, turn # NoTurn, NEW m \in Left
  PROVE  m \in Memory /\ Sound(m)
  <1>1. turn.phase \in {"routed", "placing", "shown", "stored"} /\ memory \in Memory /\ Sound(memory)
    BY TurnTyped DEF IInv, TypeOK
  <1>2. CASE turn.phase = "stored"
    BY <1>1, <1>2 DEF Left
  <1>3. CASE turn.phase = "shown"
    <2>1. turn.before \in Memory /\ turn.update \in Memory
      BY <1>3, BeforeTyped, TurnTyped DEF IInv, ShownTurn
    <2>2. Sound(turn.before) /\ Sound(turn.update)
      BY <1>3 DEF IInv, Underway
    <2>3. m \in {turn.before, memory, turn.update}
      BY <1>3 DEF Left
    <2> QED
      BY <1>1, <2>1, <2>2, <2>3
  <1>4. CASE turn.phase \in {"routed", "placing"}
    <2>1. turn.before \in Memory /\ Sound(turn.before)
      BY <1>4, BeforeTyped DEF IInv, Underway
    <2>2. m \in {turn.before, memory}
      BY <1>4 DEF Left
    <2> QED
      BY <1>1, <2>1, <2>2
  <1> QED
    BY <1>1, <1>2, <1>3, <1>4

\* The turn is broken off or fails, and no call is made or reported.
LEMMA BrokenOff ==
  ASSUME IInv, turn # NoTurn, turn' = NoTurn, memory' \in Left, asked' = "failure",
         UNCHANGED <<cart, lastDraft>>,
         calls' \in [CallIds -> {NoCall} \union CallRecord],
         \A c \in CallIds : /\ calls'[c] = NoCall <=> calls[c] = NoCall
                            /\ calls[c] # NoCall => /\ calls'[c].confirmed = calls[c].confirmed
                                                    /\ calls'[c].draft = calls[c].draft
                                                    /\ calls'[c].reported = calls[c].reported
  PROVE  IInv'
  <1>1. PICK m \in Left : m = memory'
    OBVIOUS
  <1>2. m \in Memory /\ Sound(m)
    BY LeftSound
  <1>3. lastDraft \in Nat /\ lastDraft \in DraftIds \union {0}
    BY DraftNumbers DEF IInv, TypeOK
  <1>4. Called' = Called
    BY DEF Called
  <1>5. Sound(m)'
    BY <1>2, <1>3, <1>4, SoundKept DEF Called
  <1>6. Sound(memory)'
    BY <1>1, <1>5 DEF Sound
  <1>7. Fits(memory, asked)'
    BY DEF Fits
  <1> QED
    BY <1>1, <1>2, <1>6, <1>7, TurnEnds

LEMMA SameCalls ==
  ASSUME IInv, UNCHANGED calls
  PROVE  calls' \in [CallIds -> {NoCall} \union CallRecord]
  BY DEF IInv, TypeOK, CallRecord

LEMMA DisconnectStep ==
  ASSUME IInv, Disconnect
  PROVE  IInv'
  BY BrokenOff, SameCalls DEF Disconnect

LEMMA TurnFailsStep ==
  ASSUME IInv, TurnFails
  PROVE  IInv'
  <1>1. /\ turn.phase \in {"routed", "shown", "stored"} /\ turn' = NoTurn /\ asked' = "failure"
        /\ UNCHANGED <<memory, calls, cart, lastDraft>>
    BY DEF TurnFails
  <1>2. turn # NoTurn
    BY <1>1, TurnPhases
  <1>3. memory' \in Left
    BY <1>1 DEF Left
  <1> QED
    BY <1>1, <1>2, <1>3, BrokenOff, SameCalls

\* A node that leaves the draft out answers.
LEMMA DropsDraft ==
  ASSUME IInv, turn.phase = "routed", Answer("answer", Drafting(memory, NoDraft)),
         UNCHANGED <<calls, cart, lastDraft>>
  PROVE  IInv'
  <1>1. memory \in Memory /\ lastDraft \in Nat /\ lastDraft \in DraftIds \union {0}
    BY DraftNumbers DEF IInv, TypeOK
  <1>2. PICK m \in Memory : /\ m = Drafting(memory, NoDraft)
                            /\ m.intent = memory.intent /\ m.draft = NoDraft
    BY <1>1, DraftingMemory
  <1>3. m.intent = NoIntent
    BY <1>2 DEF IInv, Underway
  <1>4. Sound(m)' /\ Fits(m, "answer")
    BY <1>2, <1>3, NoIntentIsNone, SoundOf DEF Fits
  <1>5. AnswerWith("answer", m, NoReport) /\ "answer" \in Replies
    BY <1>2 DEF Answer, Replies
  <1> QED
    BY <1>1, <1>4, <1>5, Answered

LEMMA ReplyStep ==
  ASSUME IInv, Reply
  PROVE  IInv'
  <1>1. PICK b \in BOOLEAN : Answer("answer", Known(memory, b))
    BY DEF Reply, Known
  <1>2. turn.phase = "routed" /\ turn.target = "reply" /\ UNCHANGED <<calls, cart, lastDraft>>
    BY DEF Reply
  <1>3. memory \in Memory /\ lastDraft \in Nat /\ lastDraft \in DraftIds \union {0}
    BY DraftNumbers DEF IInv, TypeOK
  <1>4. PICK m \in Memory : /\ m = Known(memory, b)
                            /\ m.draft = memory.draft /\ m.intent = memory.intent
    BY <1>3, KnownMemory
  <1>5. memory.draft = NoDraft /\ memory.intent = NoIntent
    BY <1>2 DEF IInv, Routed, Underway
  <1>6. Sound(m)' /\ Fits(m, "answer")
    BY <1>2, <1>4, <1>5, NoIntentIsNone, SoundOf DEF Fits
  <1>7. AnswerWith("answer", m, NoReport) /\ "answer" \in Replies
    BY <1>1, <1>4 DEF Answer, Replies
  <1> QED
    BY <1>2, <1>3, <1>6, <1>7, Answered

LEMMA ClarifyStep ==
  ASSUME IInv, Clarify
  PROVE  IInv'
  <1> DEFINE missing == MissingSlots(turn.route, memory.slots, memory.mode)
             intent == [route |-> turn.route, action |-> turn.action, mode |-> memory.mode,
                        slots |-> memory.slots, missing |-> missing]
  <1>1. /\ turn.phase = "routed" /\ turn.target = "clarify" /\ UNCHANGED <<calls, cart, lastDraft>>
        /\ Answer("question", Asking(memory, intent))
    BY DEF Clarify, Asking
  <1>2. memory \in Memory /\ lastDraft \in Nat /\ lastDraft \in DraftIds \union {0} /\ turn \in RoutedTurn
    BY <1>1, TurnTyped, DraftNumbers DEF IInv, TypeOK
  <1>3. missing \subseteq SlotKeys
    BY DEF MissingSlots, RequiredSlots, SlotKeys
  <1> HIDE DEF missing
  <1>4. /\ turn.route \in Routes /\ turn.action \in Actions
        /\ memory.mode \in Modes /\ memory.slots \in Slots
    BY <1>2 DEF Memory, RoutedTurn
  <1>5. intent \in Intent /\ intent.action = turn.action
    BY <1>3, <1>4 DEF Intent
  <1> HIDE DEF intent
  <1>6. PICK m \in Memory : /\ m = Asking(memory, intent)
                            /\ m.draft = memory.draft /\ m.intent = intent
    BY <1>2, <1>5, AskingMemory
  <1>7. memory.draft = NoDraft /\ turn.action \in {"none", "prepare"}
    BY <1>1 DEF IInv, Routed
  <1>8. Sound(m)' /\ Fits(m, "question")
    BY <1>1, <1>5, <1>6, <1>7, SoundOf DEF Fits
  <1>9. AnswerWith("question", m, NoReport) /\ "question" \in Replies
    BY <1>1, <1>6 DEF Answer, Replies
  <1> QED
    BY <1>1, <1>2, <1>8, <1>9, Answered

\* The new draft has a number of its own.
LEMMA ShowDraftStep ==
  ASSUME IInv, turn.phase = "routed", turn.target = "prepare",
         NEW items \in Baskets, ShowDraft(items)
  PROVE  IInv'
  <1> DEFINE draft == [id |-> lastDraft + 1, mode |-> memory.mode, items |-> items]
  <1>1. /\ lastDraft + 1 \in DraftIds /\ lastDraft' = lastDraft + 1 /\ UNCHANGED <<calls, cart>>
        /\ Answer("draft", Drafting(memory, draft))
    BY DEF ShowDraft, Drafting
  <1>2. memory \in Memory /\ lastDraft \in Nat /\ memory.mode \in Modes
    BY DraftNumbers DEF IInv, TypeOK, Memory
  <1>3. draft \in Draft /\ draft.id = lastDraft + 1
    BY <1>1, <1>2 DEF Draft
  <1> HIDE DEF draft
  <1>4. PICK m \in Memory : /\ m = Drafting(memory, draft) /\ m.slots = memory.slots
                            /\ m.intent = memory.intent /\ m.draft = draft
    BY <1>2, <1>3, DraftingMemory
  <1>5. memory.intent = NoIntent /\ memory.slots.address
    BY DEF IInv, Routed, Underway
  <1>6. Sound(m)'
    <2>1. \A c \in Called : calls[c].draft.id \in Nat /\ calls[c].draft.id <= lastDraft
      BY CallsTyped, DraftNumbers DEF IInv, Called, CallRecord
    <2>2. \A c \in Called : calls[c].draft.id # lastDraft + 1
      BY <1>2, <2>1
    <2>3. Called' = Called /\ calls' = calls
      BY <1>1 DEF Called
    <2>4. draft.id <= lastDraft'
      BY <1>1, <1>2, <1>3
    <2> QED
      BY <1>3, <1>4, <1>5, <2>2, <2>3, <2>4, NoIntentIsNone DEF Sound
  <1>7. lastDraft <= lastDraft'
    BY <1>1, <1>2
  <1>8. Fits(m, "draft")
    BY <1>4, <1>5 DEF Fits
  <1>9. AnswerWith("draft", m, NoReport) /\ "draft" \in Replies
    BY <1>1, <1>4 DEF Answer, Replies
  <1> QED
    BY <1>1, <1>6, <1>7, <1>8, <1>9, Answered

LEMMA PrepareSteps ==
  ASSUME IInv, Prepare
  PROVE  IInv'
  <1>1. CASE PrepareRefuses
    BY <1>1, DropsDraft DEF PrepareRefuses, Drafting
  <1>2. Nothing \in Baskets /\ 1 \in Quantities
    BY QuantitiesAssumption DEF Nothing, Baskets
  <1>3. CASE PrepareSingle
    <2>1. [Nothing EXCEPT ![memory.slots.product] = 1] \in Baskets
      BY <1>2 DEF Baskets
    <2> QED
      BY <1>3, <2>1, ShowDraftStep DEF PrepareSingle
  <1>4. CASE PrepareCart
    <2>1. cart \in Baskets
      BY DEF IInv, TypeOK
    <2> QED
      BY <1>4, <2>1, ShowDraftStep DEF PrepareCart
  <1> QED
    BY <1>1, <1>3, <1>4 DEF Prepare

-----------------------------------------------------------------------------
(* The calls of OrderService *)

LEMMA RecordCommitted ==
  ASSUME NEW r \in CallRecord, NEW items \in Baskets
  PROVE  LET new == [r EXCEPT !.state = "committed", !.items = items] IN
         /\ new \in CallRecord /\ new.confirmed = r.confirmed /\ new.draft = r.draft
         /\ new.reported = r.reported
  BY DEF CallRecord

LEMMA RecordFailed ==
  ASSUME NEW r \in CallRecord
  PROVE  LET new == [r EXCEPT !.state = "failed"] IN
         /\ new \in CallRecord /\ new.confirmed = r.confirmed /\ new.draft = r.draft
         /\ new.reported = r.reported
  BY DEF CallRecord

LEMMA RecordReported ==
  ASSUME NEW r \in CallRecord
  PROVE  LET new == [r EXCEPT !.reported = TRUE] IN
         /\ new \in CallRecord /\ new.confirmed = r.confirmed /\ new.draft = r.draft
  BY DEF CallRecord

\* A call goes on, whatever the turn does.
LEMMA CallGoesOn ==
  ASSUME IInv, calls' \in [CallIds -> {NoCall} \union CallRecord],
         \A c \in CallIds : /\ calls'[c] = NoCall <=> calls[c] = NoCall
                            /\ calls[c] # NoCall => /\ calls'[c].confirmed = calls[c].confirmed
                                                    /\ calls'[c].draft = calls[c].draft
                                                    /\ calls'[c].reported = calls[c].reported,
         UNCHANGED <<memory, turn, lastDraft, asked>>, cart' \in Baskets
  PROVE  IInv'
  <1>1. /\ Called' = Called /\ OrderedOnlyIfConfirmed'
        /\ \A c \in Called' : calls'[c].draft.id <= lastDraft'
        /\ calls' \in [CallIds -> {NoCall} \union
               [state : {"running", "committed", "failed"}, confirmed : BOOLEAN,
                reported : BOOLEAN, draft : Draft, items : Baskets]]
    BY CallsKept
  <1>2. TypeOK'
    BY <1>1 DEF IInv, TypeOK
  <1>3. \A c \in Called : calls'[c].draft = calls[c].draft /\ calls'[c].reported = calls[c].reported
    BY DEF Called
  <1>4. Sound(memory)' /\ (Sound(turn.before) => Sound(turn.before)')
        /\ (Sound(turn.update) => Sound(turn.update)')
    BY <1>1, <1>3 DEF IInv, Sound
  <1>5. Underway'
    BY <1>1, <1>4 DEF IInv, Underway, Fits
  <1>6. PendingIsLastAsked' /\ Routed'
    BY DEF IInv, PendingIsLastAsked, Fits, Routed
  <1> QED
    BY <1>1, <1>2, <1>4, <1>5, <1>6 DEF IInv

\* One call changes.
LEMMA OneCall ==
  ASSUME IInv, NEW c \in Called, NEW r \in CallRecord, calls' = [calls EXCEPT ![c] = r],
         r.confirmed = calls[c].confirmed, r.draft = calls[c].draft
  PROVE  /\ calls' \in [CallIds -> {NoCall} \union CallRecord]
         /\ calls'[c] = r /\ \A d \in CallIds \ {c} : calls'[d] = calls[d]
         /\ \A d \in CallIds : /\ calls'[d] = NoCall <=> calls[d] = NoCall
                               /\ calls[d] # NoCall => /\ calls'[d].confirmed = calls[d].confirmed
                                                       /\ calls'[d].draft = calls[d].draft
  <1>1. calls \in [CallIds -> {NoCall} \union CallRecord] /\ c \in CallIds /\ calls[c] # NoCall
    BY DEF IInv, TypeOK, CallRecord, Called
  <1>2. r # NoCall
    BY CallStates
  <1>3. calls'[c] = r /\ \A d \in CallIds \ {c} : calls'[d] = calls[d]
    BY <1>1
  <1> QED
    BY <1>1, <1>2, <1>3

LEMMA PlaceOrderStep ==
  ASSUME IInv, NEW c \in CallIds, PlaceOrder(c)
  PROVE  IInv'
  <1>1. c \in Called /\ calls[c] \in CallRecord
    BY CallsTyped DEF IInv, PlaceOrder
  <1>2. calls[c].draft.items \in Baskets /\ cart \in Baskets /\ Nothing \in Baskets
    BY <1>1, QuantitiesAssumption DEF IInv, TypeOK, CallRecord, Draft, Nothing, Baskets
  <1>3. PICK items \in Baskets : calls' = [calls EXCEPT ![c] = [calls[c] EXCEPT !.state = "committed", !.items = items]]
    BY <1>2 DEF PlaceOrder
  <1>4. cart' \in Baskets /\ UNCHANGED <<memory, turn, lastDraft, asked>>
    BY <1>2 DEF PlaceOrder
  <1> DEFINE r == [calls[c] EXCEPT !.state = "committed", !.items = items]
  <1>5. r \in CallRecord /\ r.confirmed = calls[c].confirmed /\ r.draft = calls[c].draft
        /\ r.reported = calls[c].reported
    BY <1>1, RecordCommitted
  <1> HIDE DEF r
  <1>6. calls' = [calls EXCEPT ![c] = r]
    BY <1>3 DEF r
  <1>7. /\ calls' \in [CallIds -> {NoCall} \union CallRecord]
        /\ calls'[c] = r /\ \A d \in CallIds \ {c} : calls'[d] = calls[d]
        /\ \A d \in CallIds : /\ calls'[d] = NoCall <=> calls[d] = NoCall
                              /\ calls[d] # NoCall => /\ calls'[d].confirmed = calls[d].confirmed
                                                      /\ calls'[d].draft = calls[d].draft
    BY <1>1, <1>5, <1>6, OneCall
  <1>8. \A d \in CallIds : calls[d] # NoCall => calls'[d].reported = calls[d].reported
    BY <1>5, <1>7
  <1> QED
    BY <1>4, <1>7, <1>8, CallGoesOn

LEMMA OrderFailsStep ==
  ASSUME IInv, NEW c \in CallIds, OrderFails(c)
  PROVE  IInv'
  <1> DEFINE r == [calls[c] EXCEPT !.state = "failed"]
  <1>1. c \in Called /\ calls[c] \in CallRecord
    BY CallsTyped DEF IInv, OrderFails
  <1>2. calls' = [calls EXCEPT ![c] = r] /\ UNCHANGED <<memory, turn, cart, lastDraft, asked>>
    BY DEF OrderFails
  <1>3. r \in CallRecord /\ r.confirmed = calls[c].confirmed /\ r.draft = calls[c].draft
        /\ r.reported = calls[c].reported
    BY <1>1, RecordFailed
  <1> HIDE DEF r
  <1>4. /\ calls' \in [CallIds -> {NoCall} \union CallRecord]
        /\ calls'[c] = r /\ \A d \in CallIds \ {c} : calls'[d] = calls[d]
        /\ \A d \in CallIds : /\ calls'[d] = NoCall <=> calls[d] = NoCall
                              /\ calls[d] # NoCall => /\ calls'[d].confirmed = calls[d].confirmed
                                                      /\ calls'[d].draft = calls[d].draft
    BY <1>1, <1>2, <1>3, OneCall
  <1>5. \A d \in CallIds : calls[d] # NoCall => calls'[d].reported = calls[d].reported
    BY <1>3, <1>4
  <1>6. cart' \in Baskets
    BY <1>2 DEF IInv, TypeOK
  <1> QED
    BY <1>2, <1>4, <1>5, <1>6, CallGoesOn

LEMMA EditCartStep ==
  ASSUME IInv, NEW p \in Products, NEW q \in Quantities, EditCart(p, q)
  PROVE  IInv'
  <1>1. cart' \in Baskets /\ UNCHANGED <<memory, turn, calls, lastDraft, asked>>
    BY DEF EditCart, IInv, TypeOK, Baskets
  <1>2. calls' \in [CallIds -> {NoCall} \union CallRecord]
    BY <1>1 DEF IInv, TypeOK, CallRecord
  <1> QED
    BY <1>1, <1>2, CallGoesOn

\* A call is made for the draft the message has confirmed.
LEMMA StartOrderStep ==
  ASSUME IInv, StartOrder
  PROVE  IInv'
  <1>1. PICK c \in CallIds :
          /\ calls[c] = NoCall
          /\ calls' = [calls EXCEPT ![c] =
                         [state |-> "running",
                          confirmed |-> /\ turn.before.draft = memory.draft
                                        /\ turn.said.yes /\ ~turn.said.no,
                          reported |-> FALSE, draft |-> memory.draft, items |-> Nothing]]
          /\ turn' = [phase |-> "placing", call |-> c, before |-> turn.before]
    BY DEF StartOrder
  <1>2. /\ turn.phase = "routed" /\ turn.target = "commit"
        /\ UNCHANGED <<memory, cart, lastDraft, asked>>
    BY DEF StartOrder
  <1>3. /\ memory.draft # NoDraft /\ turn.before.draft = memory.draft /\ turn.said.yes /\ ~turn.said.no
    BY <1>2 DEF IInv, Routed
  <1> DEFINE r == [state |-> "running", confirmed |-> TRUE, reported |-> FALSE,
                   draft |-> memory.draft, items |-> Nothing]
  <1>4. calls' = [calls EXCEPT ![c] = r]
    BY <1>1, <1>3
  <1>5. r \in CallRecord /\ r.confirmed /\ ~r.reported /\ r.draft = memory.draft
    <2>1. memory.draft \in Draft
      BY <1>3 DEF IInv, TypeOK, Memory
    <2>2. Nothing \in Baskets
      BY QuantitiesAssumption DEF Nothing, Baskets
    <2> QED
      BY <2>1, <2>2 DEF CallRecord
  <1>6. /\ turn.before \in Memory /\ turn # NoTurn
        /\ memory.intent = NoIntent /\ Sound(turn.before)
    BY <1>2, BeforeTyped, TurnPhases DEF IInv, Underway
  <1>7. turn' \in PlacingTurn /\ turn'.before = turn.before /\ turn'.call = c /\ turn'.phase = "placing"
        /\ turn' # NoTurn
    BY <1>1, <1>6, TurnPhases DEF PlacingTurn
  <1> HIDE DEF r
  <1>8. calls \in [CallIds -> {NoCall} \union CallRecord]
    BY DEF IInv, TypeOK, CallRecord
  <1>9. /\ calls' \in [CallIds -> {NoCall} \union CallRecord]
        /\ calls'[c] = r /\ \A d \in CallIds \ {c} : calls'[d] = calls[d]
    BY <1>4, <1>5, <1>8
  <1>10. Called' = Called \union {c}
    BY <1>1, <1>5, <1>9, CallStates DEF Called
  <1>11. c \notin Called
    BY <1>1 DEF Called
  <1>12. TypeOK'
    <2>1. turn' \in PlacingTurn
      BY <1>7
    <2>2. calls' \in [CallIds -> {NoCall} \union CallRecord]
      BY <1>9
    <2> QED
      BY <1>2, <2>1, <2>2 DEF IInv, TypeOK, CallRecord, PlacingTurn
  <1>13. \A d \in Called : calls'[d] = calls[d]
    BY <1>9, <1>11 DEF Called
  <1>14. OrderedOnlyIfConfirmed' /\ \A d \in Called' : calls'[d].draft.id <= lastDraft'
    BY <1>2, <1>5, <1>9, <1>10, <1>13 DEF IInv, OrderedOnlyIfConfirmed, Sound
  <1>15. Sound(memory)' /\ Sound(turn.before)'
    BY <1>2, <1>5, <1>6, <1>7, <1>9, <1>10, <1>13 DEF IInv, Sound
  <1>16. Underway'
    BY <1>2, <1>6, <1>7, <1>10, <1>15 DEF Underway
  <1>17. Routed' /\ PendingIsLastAsked'
    BY <1>7 DEF Routed, PendingIsLastAsked
  <1> QED
    BY <1>12, <1>14, <1>15, <1>16, <1>17 DEF IInv

\* The checkpoint after an order: the draft is gone.
LEMMA OrderedMemory ==
  ASSUME NEW b \in BOOLEAN, memory \in Memory
  PROVE  /\ AfterOrder(b) \in Memory /\ AfterOrder(b).draft = NoDraft
         /\ AfterOrder(b).intent = memory.intent
  <1>1. memory.slots \in Slots
    BY DEF Memory
  <1> DEFINE slots == [memory.slots EXCEPT !.order = @ \/ b]
  <1>2. slots \in Slots
    BY <1>1 DEF Slots
  <1>3. AfterOrder(b) = [memory EXCEPT !.draft = NoDraft, !.slots = slots, !.orderKnown = @ \/ b]
    BY DEF AfterOrder, Memory
  <1> HIDE DEF slots
  <1> QED
    BY <1>2, <1>3 DEF Memory

\* The draft leaves the checkpoint with the reply that reports the call.
LEMMA ReportOrderStep ==
  ASSUME IInv, ReportOrder
  PROVE  IInv'
  <1>1. PICK told \in BOOLEAN : AnswerWith("answer", AfterOrder(told), turn.call)
    BY DEF ReportOrder
  <1>2. turn.phase = "placing" /\ UNCHANGED <<calls, cart, lastDraft>>
    BY DEF ReportOrder
  <1>3. memory \in Memory /\ lastDraft \in Nat /\ lastDraft \in DraftIds \union {0}
    BY DraftNumbers DEF IInv, TypeOK
  <1>4. memory.intent = NoIntent /\ turn.call \in Called
    BY <1>2 DEF IInv, Underway
  <1>5. PICK m \in Memory : m = AfterOrder(told) /\ m.draft = NoDraft /\ m.intent = memory.intent
    BY <1>3, OrderedMemory
  <1>6. PICK c \in CallIds \union {NoReport} : c = turn.call
    BY <1>4 DEF Called
  <1>7. Sound(m)' /\ Fits(m, "answer")
    BY <1>2, <1>4, <1>5, NoIntentIsNone, SoundOf DEF Fits
  <1>8. AnswerWith("answer", m, c) /\ "answer" \in Replies
    BY <1>1, <1>5, <1>6 DEF Replies
  <1> QED
    BY <1>2, <1>3, <1>4, <1>5, <1>6, <1>7, <1>8, Answered

\* The turn has run to its end with the checkpoint m and what its reply reports:
\* m must be sound and hold no draft if a call is reported.
LEMMA EndTurnStep ==
  ASSUME IInv, EndTurn, turn.call \in CallIds \union {NoReport},
         NEW m \in Memory, memory' = m, Sound(m),
         turn.call # NoReport => turn.call \in Called /\ m.draft = NoDraft,
         asked' \in Replies \union {"nothing", "failure"}, Fits(m, asked')
  PROVE  IInv'
  <1>1. Fits(memory, asked)'
    BY DEF Fits
  <1>2. turn' = NoTurn /\ UNCHANGED <<cart, lastDraft>>
    BY DEF EndTurn
  <1>3. CASE turn.call = NoReport
    <2>1. UNCHANGED calls
      BY <1>3 DEF EndTurn
    <2>2. Sound(memory)'
      BY <1>2, <2>1 DEF Sound, Called
    <2> QED
      BY <1>1, <1>2, <2>1, <2>2, SameCalls, TurnEnds
  <1>4. CASE turn.call # NoReport
    <2> DEFINE c == turn.call
               r == [calls[c] EXCEPT !.reported = TRUE]
    <2>1. calls' = [calls EXCEPT ![c] = r] /\ c \in Called
      BY <1>4 DEF EndTurn
    <2>2. calls[c] \in CallRecord
      BY <2>1, CallsTyped DEF IInv, Called
    <2>3. r \in CallRecord /\ r.confirmed = calls[c].confirmed /\ r.draft = calls[c].draft
      BY <2>2, RecordReported
    <2> HIDE DEF c, r
    <2>4. /\ calls' \in [CallIds -> {NoCall} \union CallRecord]
          /\ \A d \in CallIds : /\ calls'[d] = NoCall <=> calls[d] = NoCall
                                /\ calls[d] # NoCall => /\ calls'[d].confirmed = calls[d].confirmed
                                                        /\ calls'[d].draft = calls[d].draft
      BY <2>1, <2>3, OneCall
    <2>5. Called' = Called
      BY <1>2, <2>4, CallsKept
    <2>6. \A d \in Called' : calls'[d].draft.id # 0
      <3> SUFFICES ASSUME NEW d \in Called
                   PROVE  calls'[d].draft.id # 0
        BY <2>5
      <3>1. calls[d] \in CallRecord /\ calls'[d].draft = calls[d].draft
        BY <2>4, CallsTyped DEF IInv, Called
      <3> QED
        BY <3>1, DraftNumbers DEF CallRecord
    <2>7. m.draft = NoDraft /\ m.draft.id = 0
      BY <1>4, DraftNumbers
    <2>8. Sound(memory)'
      BY <1>2, <2>6, <2>7 DEF Sound
    <2> QED
      BY <1>1, <1>2, <2>4, <2>8, TurnEnds
  <1> QED
    BY <1>3, <1>4

LEMMA StoreUpdateStep ==
  ASSUME IInv, StoreUpdate
  PROVE  IInv'
  <1>1. turn.phase = "shown" /\ memory' = turn.update /\ EndTurn /\ UNCHANGED asked
    BY DEF StoreUpdate
  <1>2. turn.call \in CallIds \union {NoReport} /\ turn.update \in Memory
    BY <1>1, TurnTyped DEF IInv, ShownTurn
  <1>3. /\ Sound(turn.update) /\ Fits(turn.update, asked)
        /\ turn.call # NoReport => turn.call \in Called /\ turn.update.draft = NoDraft
    BY <1>1 DEF IInv, Underway
  <1>4. PICK m \in Memory : m = turn.update
    BY <1>2
  <1>5. Sound(m) /\ memory' = m /\ (turn.call # NoReport => turn.call \in Called /\ m.draft = NoDraft)
    BY <1>1, <1>3, <1>4
  <1>6. asked' \in Replies \union {"nothing", "failure"}
    BY <1>1 DEF IInv, TypeOK
  <1>7. Fits(m, asked')
    BY <1>1, <1>3, <1>4 DEF Fits
  <1> QED
    BY <1>1, <1>2, <1>5, <1>6, <1>7, EndTurnStep

LEMMA SendReplyStep ==
  ASSUME IInv, SendReply
  PROVE  IInv'
  <1>1. turn.phase = "stored" /\ asked' = turn.reply /\ EndTurn /\ UNCHANGED memory
    BY DEF SendReply
  <1>2. turn.call \in CallIds \union {NoReport} /\ turn.reply \in Replies
    BY <1>1, TurnTyped DEF IInv, StoredTurn
  <1>3. /\ memory \in Memory /\ Sound(memory) /\ Fits(memory, turn.reply)
        /\ turn.call # NoReport => turn.call \in Called /\ memory.draft = NoDraft
    BY <1>1 DEF IInv, TypeOK, Underway
  <1>4. PICK m \in Memory : m = memory
    BY <1>3
  <1>5. Sound(m) /\ memory' = m /\ (turn.call # NoReport => turn.call \in Called /\ m.draft = NoDraft)
    BY <1>1, <1>3, <1>4
  <1>6. Fits(m, asked')
    BY <1>1, <1>3, <1>4 DEF Fits
  <1> QED
    BY <1>1, <1>2, <1>5, <1>6, EndTurnStep

LEMMA CrashStep ==
  ASSUME IInv, Crash
  PROVE  IInv'
  <1>1. /\ turn # NoTurn /\ turn' = NoTurn /\ memory' \in Left /\ asked' = "failure"
        /\ calls' = [c \in CallIds |-> IF calls[c].state = "running"
                                       THEN [calls[c] EXCEPT !.state = "failed"] ELSE calls[c]]
        /\ UNCHANGED <<cart, lastDraft>>
    BY DEF Crash
  <1>2. ASSUME NEW c \in CallIds
        PROVE  /\ calls'[c] \in {NoCall} \union CallRecord
               /\ calls'[c] = NoCall <=> calls[c] = NoCall
               /\ calls[c] # NoCall => /\ calls'[c].confirmed = calls[c].confirmed
                                       /\ calls'[c].draft = calls[c].draft
                                       /\ calls'[c].reported = calls[c].reported
    <2>1. CASE calls[c].state = "running"
      <3> DEFINE r == [calls[c] EXCEPT !.state = "failed"]
      <3>1. calls'[c] = r
        BY <1>1, <2>1
      <3>2. calls[c] \in CallRecord /\ calls[c] # NoCall
        BY <2>1, CallsTyped DEF IInv, Called
      <3>3. r \in CallRecord /\ r.confirmed = calls[c].confirmed /\ r.draft = calls[c].draft
            /\ r.reported = calls[c].reported
        BY <3>2, RecordFailed
      <3> HIDE DEF r
      <3> QED
        BY <3>1, <3>2, <3>3, CallStates
    <2>2. CASE calls[c].state # "running"
      <3>1. calls'[c] = calls[c]
        BY <1>1, <2>2
      <3> QED
        BY <3>1, CallsTyped DEF IInv
    <2> QED
      BY <2>1, <2>2
  <1>3. calls' \in [CallIds -> {NoCall} \union CallRecord]
    <2>1. calls' = [c \in CallIds |-> calls'[c]]
      BY <1>1
    <2> QED
      BY <1>2, <2>1
  <1> QED
    BY <1>1, <1>2, <1>3, BrokenOff

-----------------------------------------------------------------------------
(* The theorems *)

LEMMA InitIInv == Init => IInv
  <1> SUFFICES ASSUME Init
               PROVE  IInv
    OBVIOUS
  <1>1. /\ memory = EmptyMemory /\ turn = NoTurn /\ calls = [c \in CallIds |-> NoCall]
        /\ cart = Nothing /\ lastDraft = 0 /\ asked = "nothing"
    BY DEF Init
  <1>2. EmptyMemory \in Memory
    BY DEF EmptyMemory, Memory, Modes, Slots, NoSlots
  <1>3. EmptyMemory.draft = NoDraft /\ EmptyMemory.intent = NoIntent
    BY DEF EmptyMemory
  <1>4. Nothing \in Baskets
    BY QuantitiesAssumption DEF Nothing, Baskets
  <1>5. TypeOK
    BY <1>1, <1>2, <1>4 DEF TypeOK
  <1>6. Called = {} /\ turn.phase = "idle"
    BY <1>1, TurnPhases DEF Called
  <1>7. Sound(memory)
    BY <1>1, <1>3, <1>6, NoIntentIsNone, DraftNumbers DEF Sound
  <1> QED
    BY <1>1, <1>3, <1>5, <1>6, <1>7 DEF IInv, OrderedOnlyIfConfirmed, PendingIsLastAsked, Fits, Routed, Underway

LEMMA NextIInv == IInv /\ [Next]_vars => IInv'
  <1> SUFFICES ASSUME IInv, [Next]_vars
               PROVE  IInv'
    OBVIOUS
  <1>1. ASSUME NEW msg \in Messages, Supervise(msg)
        PROVE  IInv'
    BY <1>1, SuperviseStep
  <1>2. CASE Reply \/ Clarify \/ Prepare
    BY <1>2, ReplyStep, ClarifyStep, PrepareSteps
  <1>3. CASE CommitRefuses
    BY <1>3, DropsDraft DEF CommitRefuses, Drafting
  <1>4. CASE CancelDraft
    BY <1>4, DropsDraft DEF CancelDraft, Drafting
  <1>5. CASE StartOrder \/ ReportOrder
    BY <1>5, StartOrderStep, ReportOrderStep
  <1>6. CASE StoreUpdate \/ SendReply
    BY <1>6, StoreUpdateStep, SendReplyStep
  <1>7. CASE TurnFails \/ Disconnect
    BY <1>7, TurnFailsStep, DisconnectStep
  <1>8. CASE Crash
    BY <1>8, CrashStep
  <1>9. ASSUME NEW c \in CallIds, PlaceOrder(c) \/ OrderFails(c)
        PROVE  IInv'
    BY <1>9, PlaceOrderStep, OrderFailsStep
  <1>10. ASSUME NEW p \in Products, NEW q \in Quantities, EditCart(p, q)
         PROVE  IInv'
    BY <1>10, EditCartStep
  <1>11. CASE UNCHANGED vars
    <2>1. UNCHANGED <<memory, turn, calls, cart, lastDraft, asked>>
      BY <1>11 DEF vars
    <2>2. cart' \in Baskets /\ calls' \in [CallIds -> {NoCall} \union CallRecord]
      BY <2>1 DEF IInv, TypeOK, CallRecord
    <2> QED
      BY <2>1, <2>2, CallGoesOn
  <1> QED
    BY <1>1, <1>2, <1>3, <1>4, <1>5, <1>6, <1>7, <1>8, <1>9, <1>10, <1>11 DEF Next, Commit

\* IInv holds at every point of every conversation (master_graph.py): what the
\* checkpoints, the turn and the calls of OrderService know of each other's drafts.
THEOREM Invariance == Spec => []IInv
  BY InitIInv, NextIInv, PTL DEF Spec

\* The checkpoint, the turn, the calls and the cart hold what TypeOK says.
THEOREM TypeCorrect == Spec => []TypeOK
  <1>1. IInv => TypeOK
    BY DEF IInv
  <1> QED
    BY <1>1, Invariance, PTL

\* commit_node calls OrderService only for a draft of an earlier turn that the
\* customer's message confirms and does not refuse.
THEOREM NeverUnconfirmed == Spec => []OrderedOnlyIfConfirmed
  <1>1. IInv => OrderedOnlyIfConfirmed
    BY DEF IInv
  <1> QED
    BY <1>1, Invariance, PTL

\* What clarify_node and prepare_node leave pending is what they asked last.
THEOREM AsksOneThing == Spec => []PendingIsLastAsked
  <1>1. IInv => PendingIsLastAsked
    BY DEF IInv
  <1> QED
    BY <1>1, Invariance, PTL

\* A new call is of the draft in the checkpoint, which has not been reported.
LEMMA NewCall ==
  ASSUME IInv, [Next]_vars, NEW d \in CallIds, calls[d] = NoCall, calls'[d] # NoCall
  PROVE  \A c \in Called : calls[c].reported => calls[c].draft.id # calls'[d].draft.id
  <1>1. NoCall.state = "none"
    BY DEF NoCall
  <1>2. \/ UNCHANGED calls \/ StartOrder \/ StoreUpdate \/ SendReply \/ Crash
        \/ \E c \in CallIds : PlaceOrder(c) \/ OrderFails(c)
    BY DEF Next, vars, Supervise, Reply, Clarify, Prepare, PrepareRefuses, PrepareSingle, PrepareCart,
           ShowDraft, Commit, CommitRefuses, ReportOrder, CancelDraft, TurnFails, EditCart,
           Disconnect
  <1>3. CASE StartOrder
    <2> DEFINE r == [state |-> "running",
                     confirmed |-> /\ turn.before.draft = memory.draft
                                   /\ turn.said.yes /\ ~turn.said.no,
                     reported |-> FALSE, draft |-> memory.draft, items |-> Nothing]
    <2>1. PICK c \in CallIds : calls' = [calls EXCEPT ![c] = r]
      BY <1>3 DEF StartOrder
    <2>2. r.draft = memory.draft
      OBVIOUS
    <2> HIDE DEF r
    <2>3. c = d /\ calls'[d] = r
      BY <2>1 DEF IInv, TypeOK
    <2> QED
      BY <2>2, <2>3 DEF IInv, Sound
  <1>4. CASE StoreUpdate \/ SendReply
    <2>1. EndTurn /\ turn.phase \in {"shown", "stored"}
      BY <1>4 DEF StoreUpdate, SendReply
    <2>2. turn.call # NoReport => turn.call \in Called
      BY <2>1 DEF IInv, Underway
    <2>3. turn.call # NoReport => turn.call # d
      BY <2>2 DEF Called
    <2>4. calls'[d] = calls[d]
      BY <2>1, <2>3 DEF EndTurn, IInv, TypeOK
    <2> QED
      BY <2>4
  <1>5. CASE Crash
    BY <1>1, <1>5 DEF Crash
  <1>6. ASSUME NEW c \in CallIds, PlaceOrder(c) \/ OrderFails(c)
        PROVE  FALSE
    <2>1. c # d
      BY <1>1, <1>6 DEF PlaceOrder, OrderFails
    <2>2. calls'[d] = calls[d]
      BY <1>6, <2>1 DEF PlaceOrder, OrderFails, IInv, TypeOK
    <2> QED
      BY <2>2
  <1> QED
    BY <1>2, <1>3, <1>4, <1>5, <1>6

\* After commit_node has reported the outcome of ordering a draft, no turn
\* orders it again.
THEOREM OneOrderForAReport == Spec => ReportedDraftIsDone
  <1>1. IInv /\ [Next]_vars =>
          [\A c, d \in CallIds :
             calls[c] # NoCall /\ calls[d] = NoCall /\ calls'[d] # NoCall =>
                ~(calls[c].reported /\ calls[c].draft.id = calls'[d].draft.id)]_vars
    BY NewCall DEF Called
  <1> QED
    BY <1>1, Invariance, PTL DEF Spec, ReportedDraftIsDone

=============================================================================
