------------------------------ MODULE DaemonMC ------------------------------
(***************************************************************************)
(* Instance of Daemon for TLC: one installed app that any list may name.     *)
(***************************************************************************)
EXTENDS Daemon

CONSTANTS a  \* a package

=============================================================================
