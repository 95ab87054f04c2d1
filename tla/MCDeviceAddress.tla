-------------------------- MODULE MCDeviceAddress --------------------------
(* Instances of DeviceAddress for TLC. *)
EXTENDS DeviceAddress, TLC

MCUses == {"controller", "lan", "public"}
Symmetry == Permutations(Interfaces)
=============================================================================
