----------------------------- MODULE MessageLog -----------------------------
(***************************************************************************)
(* What add_message promises: a message of a conversation is numbered and  *)
(* stored in one indivisible step, as ConversationTurns has it.  In a      *)
(* conversation that is torn, which two threads may be at, a message is    *)
(* numbered by a message that need not be the latest any more.             *)
(* MessageNumbers, with its mutexes and its SELECT before the INSERT,      *)
(* implements it.                                                          *)
(***************************************************************************)
EXTENDS Naturals, Sequences

CONSTANT Conversations

VARIABLES messages, torn

vars == <<messages, torn>>

Roles == {"user", "assistant"}

Numbers(k) == {messages[k][i].number : i \in DOMAIN messages[k]}

Largest(k) ==
    IF Numbers(k) = {} THEN 0 ELSE CHOOSE n \in Numbers(k) : \A m \in Numbers(k) : m <= n

\* A question begins a turn, an answer belongs to the turn there is.
Store(k, role, last) ==
    messages' = [messages EXCEPT ![k] =
        Append(@, [role |-> role, number |-> IF role = "user" THEN last + 1 ELSE last])]

Init ==
    /\ messages = [k \in Conversations |-> <<>>]
    /\ torn = {}

AddMessage(k, role) ==
    /\ Store(k, role, Largest(k))
    /\ UNCHANGED torn

\* Numbered by what was the largest number once.
AddOutdated(k, role) ==
    /\ k \in torn
    /\ \E last \in Numbers(k) \union {0} : Store(k, role, last)
    /\ UNCHANGED torn

Tear ==
    /\ \E some \in SUBSET Conversations : torn' = torn \union some
    /\ UNCHANGED messages

Next ==
    \/ \E k \in Conversations, role \in Roles : AddMessage(k, role) \/ AddOutdated(k, role)
    \/ Tear

Spec == Init /\ [][Next]_vars

=============================================================================
