-------------------------- MODULE ManageTagHistory --------------------------
(***************************************************************************)
(* ManageTag with a history variable: the tags the configuration file held *)
(* when its text was last whole.                                           *)
(***************************************************************************)
EXTENDS MCManageTag

VARIABLE stored

historyVars == <<vars, stored>>

HInit ==
    /\ Init
    /\ stored = Names(disk.tree)

HNext ==
    /\ Next
    /\ stored' = IF disk'.size = 0 THEN stored ELSE Names(disk'.tree)

HSpec == HInit /\ [][HNext]_historyVars

-----------------------------------------------------------------------------

(* A tag leaves the file only through a process that was asked to remove   *)
(* it.  It fails for two processes without any fault: a process that loaded *)
(* the file before a tag was stored writes its own tree over it, since     *)
(* nothing holds a lock from parse_config_file to write_config_file.       *)
OnlyRemovalRemoves ==
    [][\A n \in stored \ stored' :
           \E p \in Proc : cmd[p] = [op |-> "r", tag |-> n]]_historyVars

=============================================================================
