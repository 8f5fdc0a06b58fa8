---------------------------- MODULE MCDaemonLock -----------------------------
(***************************************************************************)
(* Small instances of DaemonLock: four PIDs let two daemons contend while  *)
(* a start and a stop run.                                                 *)
(***************************************************************************)
EXTENDS DaemonLock

CONSTANTS p1, p2, p3, p4

MCPids == {p1, p2, p3, p4}
MCThreePids == {p1, p2, p3}

=============================================================================
