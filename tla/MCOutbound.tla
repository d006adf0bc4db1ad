----------------------------- MODULE MCOutbound -----------------------------
(* Instances of Outbound for TLC.                                          *)
EXTENDS Outbound

CONSTANTS m1, m2, m3, a, b, t1, t2

\* Two messages for one channel and one for another, or all for one.
TwoLines == [m \in Messages |-> IF m = m3 THEN b ELSE a]
OneLine  == [m \in Messages |-> a]

\* One transport per channel, or two for channel a, whose members differ then.
OneTransport == [ch \in Channels |-> {t1}]
SomeTransports == [ch \in Channels |-> IF ch = a THEN Transports ELSE {t1}]
=============================================================================
