-------------------------- MODULE MCOrderDialogue --------------------------
(* OrderDialogue for TLC: the messages of each run. *)
EXTENDS OrderDialogue, TLC

\* Messages about ordering and changes of topic: what is on no topic may answer
\* a question for the address, and no order is known.
OrderingMessages ==
    {msg \in Message : /\ msg.route \in {"place_order", "finish", "faq"}
                       /\ ~msg.slots.order /\ ~msg.slots.ticket
                       /\ msg.number = "none" /\ ~msg.hint
                       /\ msg.route # "place_order" => msg.slots.product = NoProduct
                       /\ msg.route = "faq" => ~msg.slots.address}

=============================================================================
