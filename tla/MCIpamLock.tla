----------------------------- MODULE MCIpamLock -----------------------------
(***************************************************************************)
(* Two goroutines; a call may use two accessors inside: deep enough for a  *)
(* mutex that is unlocked inside a call and locked again before its end.   *)
(***************************************************************************)
EXTENDS IpamLock

CONSTANTS g1, g2

TwoGoroutines == {g1, g2}

=============================================================================
