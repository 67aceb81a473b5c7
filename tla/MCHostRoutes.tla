---------------------------- MODULE MCHostRoutes ----------------------------
(***************************************************************************)
(* HostRoutes for TLC: two ADDs on one node and one on another.            *)
(***************************************************************************)
EXTENDS HostRoutes, TLC

CONSTANTS h1, h2, a, b, c

TwoHosts == {h1, h2}
ThreeAdds == {a, b, c}
TwoAndOne == a :> h1 @@ b :> h1 @@ c :> h2

=============================================================================
