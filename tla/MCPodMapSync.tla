---------------------------- MODULE MCPodMapSync ----------------------------
(***************************************************************************)
(* PodMapSync for TLC: two other nodes, the first with two pods and the    *)
(* second with one.                                                        *)
(***************************************************************************)
EXTENDS PodMapSync, TLC

CONSTANTS n1, n2, a, b, c

TwoNodes == {n1, n2}
ThreePods == {a, b, c}
TwoAndOne == a :> n1 @@ b :> n1 @@ c :> n2

=============================================================================
