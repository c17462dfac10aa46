------------------------- MODULE MCConversationTurns -------------------------
(* ConversationTurns for TLC: the turns are named by the order they come in. *)
EXTENDS ConversationTurns

StartedInOrder ==
    \A t, u \in Turns : t < u /\ turn[t] = NotStarted => turn[u] = NotStarted

MCNext == Next /\ StartedInOrder'
MCSpec == Init /\ [][MCNext]_vars /\ \A t \in Turns : WF_vars(Resume(t))

=============================================================================
