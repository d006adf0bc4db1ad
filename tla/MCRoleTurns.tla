---------------------------- MODULE MCRoleTurns ----------------------------
(* Instances of RoleTurns for TLC.                                         *)
EXTENDS RoleTurns

CONSTANTS t1, k, o, chat, other, alice

\* The turn and the tick write to one chat; nothing comes from the other.
OneChat == [a \in Replies |-> chat]
Senders == [t \in Turns |-> alice]

\* Replies of two messages, with a pause between them.
Lengths == [a \in Replies |-> 2]
=============================================================================
