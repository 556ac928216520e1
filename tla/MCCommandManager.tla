-------------------------- MODULE MCCommandManager --------------------------
(* Instances of CommandManager for TLC.                                    *)
EXTENDS CommandManager

=============================================================================
