----------------------------- MODULE MCStartup -----------------------------
(***************************************************************************)
(* Startup for TLC: every initialization file the parser tells apart, and   *)
(* every build.                                                             *)
(***************************************************************************)
EXTENDS Startup

AllInis   == Ini
AllBuilds == BOOLEAN

============================================================================
