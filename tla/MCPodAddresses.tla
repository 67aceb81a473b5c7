--------------------------- MODULE MCPodAddresses ---------------------------
(***************************************************************************)
(* Small instances of PodAddresses for TLC.                                *)
(***************************************************************************)
EXTENDS PodAddresses

\* No range configured.
NoRange == {}

\* A range across a carry: with six values to an octet, 6 and 7 end in .0 and .1,
\* 4 is drawn without the range too, and 3 only then.
CarryRange == 4..7

=============================================================================
