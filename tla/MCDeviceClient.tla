----------------------------- MODULE MCDeviceClient -----------------------------
(* Instance of DeviceClient for TLC: tasks and connections are model values. *)
EXTENDS DeviceClient
===============================================================================
