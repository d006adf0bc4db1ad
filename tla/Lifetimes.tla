----------------------------- MODULE Lifetimes -----------------------------
(***************************************************************************)
(* What the generation manager promises its callers, without counters,     *)
(* tasks or protocol: every generation is a resource that opens once and   *)
(* closes once, never under an owner, and the published pointer names an   *)
(* open generation as long as the process runs.                            *)
(***************************************************************************)
CONSTANTS Generation, Owner, First

VARIABLES
    phase,    \* of each generation
    owners,   \* who holds each generation
    serving,  \* the published generation
    running   \* FALSE once the process is shutting down

vars == <<phase, owners, serving, running>>

Phases == {"absent", "open", "closing", "closed"}

Init ==
    /\ phase = [g \in Generation |-> IF g = First THEN "open" ELSE "absent"]
    /\ owners \in [Generation -> SUBSET Owner]
    /\ \A g \in Generation \ {First} : owners[g] = {}
    /\ serving = First
    /\ running = TRUE

\* A phase moves forward by one; an owned generation, and the one that serves
\* a running process, does not start to close.
Advance(g) ==
    \/ phase'[g] = phase[g]
    \/ phase[g] = "absent" /\ phase'[g] = "open" /\ owners'[g] = {}
    \/ /\ phase[g] = "open" /\ phase'[g] = "closing"
       /\ owners'[g] = {}
       /\ running' => g # serving'
    \/ phase[g] = "closing" /\ phase'[g] = "closed"

\* Owners come and go only while the generation is open.
OwnersChange(g) == owners'[g] = owners[g] \/ phase[g] = "open"

\* The pointer moves to an open generation, and only while the process runs.
Serve == serving' = serving \/ (running /\ running' /\ phase'[serving'] = "open")

Step ==
    /\ phase' \in [Generation -> Phases]
    /\ owners' \in [Generation -> SUBSET Owner]
    /\ serving' \in Generation
    /\ \A g \in Generation : Advance(g) /\ OwnersChange(g)
    /\ Serve
    /\ running' => running

Spec == Init /\ [][Step]_vars
=============================================================================
