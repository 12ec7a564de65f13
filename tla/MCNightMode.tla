----------------------------- MODULE MCNightMode -----------------------------
(* A mouse with both lights and a second one without a receiver light; one of *)
(* them is plugged in, and the file is empty or holds a record of an older    *)
(* version.                                                                   *)
EXTENDS NightMode

CONSTANTS a, b

MCDevice == {a, b}
MCIdentity == [d \in MCDevice |-> d]
MCSupports == [d \in MCDevice |-> IF d = a THEN Light ELSE {"mouse"}]
MCAtFirst == {{a}, {b}}
MCFiled == {Nothing, [Nothing EXCEPT !["mouse"] = Unnamed]}
=============================================================================
