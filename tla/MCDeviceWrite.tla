---------------------------- MODULE MCDeviceWrite ----------------------------
(* Two commands on two fields, and the reader: each of the three may hold
   device_io, sleep or barge in while another one is notified. *)
EXTENDS DeviceWrite

CONSTANTS w1, w2, f1, f2

MCWriters == {w1, w2}
MCFields == {f1, f2}
MCAsked == {"BatteryOnly"}
=============================================================================
