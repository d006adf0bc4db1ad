--------------------------- MODULE AtomicSettings ---------------------------
(***************************************************************************)
(* What a settings commit promises: the configuration and the role records *)
(* change together and at once.  A commit that reports success has taken   *)
(* effect, one that reports failure has not, and a crash leaves the old or *)
(* the new pair.                                                           *)
(***************************************************************************)
CONSTANTS Config, Role

VARIABLES
    pair,     \* the configuration and the role records in force
    wanted,   \* the pair the commit in progress wants; a set of at most one
    stage,    \* of the commit in progress
    outcome   \* of the last commit that ended

vars == <<pair, wanted, stage, outcome>>

Pairs == [config : Config, roles : Role]

Init == pair \in Pairs /\ wanted = {} /\ stage = "idle" /\ outcome = "none"

Begin == /\ stage = "idle" /\ stage' = "wanted"
         /\ \E p \in Pairs : wanted' = {p}
         /\ UNCHANGED <<pair, outcome>>

Take == /\ stage = "wanted" /\ stage' = "taken"
        /\ pair' \in wanted
        /\ UNCHANGED <<wanted, outcome>>

End(o) == stage' = "idle" /\ wanted' = {} /\ outcome' = o /\ UNCHANGED pair

Succeed == stage = "taken" /\ End("success")

Fail == stage # "taken" /\ End("failure")

Crash == End("none")

\* The role store writes between commits, never during one.
SaveRoles == /\ stage = "idle"
             /\ \E r \in Role : pair' = [config |-> pair.config, roles |-> r]
             /\ UNCHANGED <<wanted, stage, outcome>>

Next == Begin \/ Take \/ Succeed \/ Fail \/ Crash \/ SaveRoles

Spec == Init /\ [][Next]_vars
=============================================================================
