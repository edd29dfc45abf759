------------------------- MODULE MCDeviceController -------------------------
(* Small instances of DeviceController.                                     *)
EXTENDS DeviceController

=============================================================================
