--------------------------- MODULE MCDesktopTurns ---------------------------
(* Instances of DesktopTurns for TLC: the constants are given in the .cfg.  *)
EXTENDS DesktopTurns
=============================================================================
