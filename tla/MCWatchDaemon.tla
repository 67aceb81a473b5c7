---------------------------- MODULE MCWatchDaemon ----------------------------
(***************************************************************************)
(* WatchDaemon for TLC: two ADDs at a time, each with a child.             *)
(***************************************************************************)
EXTENDS WatchDaemon

CONSTANTS p1, p2, p3, p4

FourPids == {p1, p2, p3, p4}

=============================================================================
