--------------------------- MODULE MCDeviceReader ---------------------------
(* One wireless receiver and one wired mouse whose plugin cannot project its
   reads, so that an initial Full of either meets a peer in any readiness; or
   a receiver alone (MCOne). *)
EXTENDS DeviceReader

CONSTANTS receiver, wired

MCPath == {receiver, wired}
MCReceiver == {receiver}
MCNoProjection == {wired}
MCNone == {}
=============================================================================
