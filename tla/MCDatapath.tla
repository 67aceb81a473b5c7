----------------------------- MODULE MCDatapath -----------------------------
(***************************************************************************)
(* Datapath for TLC: two pods on one node and one on another.              *)
(***************************************************************************)
EXTENDS Datapath, TLC

CONSTANTS n1, n2, a, b, c

TwoNodes == {n1, n2}
ThreePods == {a, b, c}
TwoAndOne == a :> n1 @@ b :> n1 @@ c :> n2

=============================================================================
