----------------------------- MODULE MCStateFile ------------------------------
(***************************************************************************)
(* A small instance of StateFile: a table is the set of tabs it has an     *)
(* entry for, and three processes record or purge two tabs.                *)
(***************************************************************************)
EXTENDS StateFile

CONSTANTS t1, t2, recordT1, recordT2, purgeT1

MCTables == {{}, {t1}, {t2}, {t1, t2}}
MCMutations == {recordT1, recordT2, purgeT1}
MCMutate ==
    [m \in MCMutations |-> [t \in MCTables |->
        CASE m = recordT1 -> t \cup {t1}
          [] m = recordT2 -> t \cup {t2}
          [] m = purgeT1  -> t \ {t1}]]

=============================================================================
