--------------------------- MODULE MCPluginReload ---------------------------
(* Instances of PluginReload for TLC.                                      *)
EXTENDS PluginReload

CONSTANTS t, x, c, k

\* A provider t, a plugin x that uses it if it is there, c that requires it.
SetupOrder == [p \in Plugins |-> CASE p = t -> 0 [] p = x -> 1 [] p = c -> 2]
Required == [p \in Plugins |-> IF p = c THEN {t} ELSE {}]
Optional == [p \in Plugins |-> IF p = x THEN {t} ELSE {}]

\* The file turns all of them on, or none.
AllOrNone == {{}, Plugins}

\* The hypothesis of LinksCurrent (PluginReloadProofs) holds here.
ASSUME LinksAssumption == Apart
=============================================================================
