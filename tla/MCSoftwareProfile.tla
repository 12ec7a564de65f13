------------------------- MODULE MCSoftwareProfile -------------------------
(* A mouse with a control mode and one without; two commands, so that their
   changes can get lost in each other's copies of the profiles. *)
EXTENDS SoftwareProfile

CONSTANTS a, b, c1, c2

MCDevice == {a, b}
MCSwitchable == {a}
MCCommand == {c1, c2}
=============================================================================
