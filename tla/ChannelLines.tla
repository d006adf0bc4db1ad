---------------------------- MODULE ChannelLines ----------------------------
(***************************************************************************)
(* What the outbound side of the message bus promises: every channel is a  *)
(* line.  Messages enter it in the order they are published, exactly one   *)
(* is being delivered at a time, and each leaves once.                     *)
(***************************************************************************)
EXTENDS Sequences

CONSTANTS Message, Channel, ChannelOf, Nobody

VARIABLES line, active, settled

vars == <<line, active, settled>>

Init ==
    /\ line = [ch \in Channel |-> <<>>]
    /\ active = [ch \in Channel |-> Nobody]
    /\ settled = {}

Waiting(ch) == {line[ch][i] : i \in DOMAIN line[ch]}

Submit(m) ==
    LET ch == ChannelOf[m] IN
    /\ m \notin settled \cup Waiting(ch) /\ active[ch] # m
    /\ line' = [line EXCEPT ![ch] = Append(@, m)]
    /\ UNCHANGED <<active, settled>>

\* The delivery in progress, if any, is over and the next one begins, if any.
Advance(ch) ==
    /\ settled' = settled \cup ({active[ch]} \ {Nobody})
    /\ \/ /\ line[ch] # <<>>
          /\ active' = [active EXCEPT ![ch] = Head(line[ch])]
          /\ line' = [line EXCEPT ![ch] = Tail(@)]
       \/ /\ active' = [active EXCEPT ![ch] = Nobody]
          /\ UNCHANGED line

Next ==
    \/ \E m \in Message : Submit(m)
    \/ \E ch \in Channel : Advance(ch)

Spec == Init /\ [][Next]_vars
=============================================================================
