-------------------------- MODULE MCDeviceRegistry --------------------------
(* Small instances of DeviceRegistry.                                       *)
EXTENDS DeviceRegistry

=============================================================================
