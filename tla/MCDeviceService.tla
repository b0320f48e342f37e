-------------------------- MODULE MCDeviceService --------------------------
(* A small instance of DeviceService for TLC.                              *)
EXTENDS DeviceService
CONSTANTS a1, a2
=============================================================================
