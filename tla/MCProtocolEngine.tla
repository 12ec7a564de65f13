--------------------------- MODULE MCProtocolEngine ---------------------------
(* A workflow of two feature lookups, a register that is read if the device has
   the second feature and a table that is read if it has the first.  It has only
   the first; a projection that asks for the register looks the second one up. *)
EXTENDS ProtocolEngine

Feature1 == Ask("index", 1)
Feature2 == Ask("index", 2)
MCWorkflow ==
    <<Step(Feature1, "abort", {}), Step(Feature2, "continue", {}),
      Step(Value, "abort", {Feature2}), Step(Ask("table", 0), "continue", {Feature1})>>
MCProjections == {{Value}, {Feature1, Feature2, Value, Ask("table", 0)}}
MCSupported == {1}
=============================================================================
