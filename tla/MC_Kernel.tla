------------------------------ MODULE MC_Kernel ------------------------------
(***************************************************************************)
(* Model-checking instance of Kernel: one valid command ("shell"), one    *)
(* that execute rejects, and one exit status.  The number of terminals and *)
(* process slots is set in each .cfg.                                      *)
(***************************************************************************)
EXTENDS Kernel

MCCommands == {"shell", "nofile"}
MCValidCommands == {"shell"}
MCStatuses == {0}
=============================================================================
