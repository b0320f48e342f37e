---------------------------- MODULE MCSonyDevice ----------------------------
(* A small instance of SonyDevice for TLC: a device of each generation.    *)
EXTENDS SonyDevice
CONSTANTS old, new, battery, noise
NewHeard == [d \in {old, new} |-> IF d = new THEN {battery, noise} ELSE {}]
BothSupportAll == [d \in {old, new} |-> {battery, noise}]
TwoModes == [f \in {battery, noise} |-> IF f = noise THEN {0, 1} ELSE {0}]
NoiseOnly == <<noise>>
BatteryAndNoise == <<battery, noise>>
=============================================================================
