---------------------------- MODULE MCBirdDaemon ----------------------------
(***************************************************************************)
(* Two ADDs of one node, three process identifiers, one other node that may *)
(* join at any time, and one fault: small enough for the liveness checks,  *)
(* large enough for an ADD that dies with the pid file empty, a bird that  *)
(* dies with its pid in the file, and a pid taken over by another program. *)
(***************************************************************************)
EXTENDS BirdDaemon

CONSTANTS p1, p2, b1, b2, b3, n1

TwoAdds == {p1, p2}
ThreePids == {b1, b2, b3}
OneOther == {n1}

=============================================================================
