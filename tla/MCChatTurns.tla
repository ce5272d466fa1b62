---------------------------- MODULE MCChatTurns ----------------------------
(* TLC instances of ChatTurns. *)
EXTENDS ChatTurns

CONSTANTS c1, c2

\* One user asks twice, another once.
Asks == [c \in Conns |-> IF c = c1 THEN 2 ELSE 1]

AllFaults == Mishaps
Hangups == {"close"}
=============================================================================
