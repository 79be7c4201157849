-------------------------------- MODULE MCShell -------------------------------
(* The shell, and one caller for each of the two owners.                      *)
EXTENDS Shell

MCDrivers == {"shell", "native", "view"}

(* The program alone.                                                         *)
MCShellOnly == {"shell"}
===============================================================================
