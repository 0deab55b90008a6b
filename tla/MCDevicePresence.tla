--------------------------- MODULE MCDevicePresence ---------------------------
(* Small instances of DevicePresence for TLC. *)
EXTENDS DevicePresence
===============================================================================
