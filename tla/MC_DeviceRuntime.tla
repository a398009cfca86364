------------------------- MODULE MC_DeviceRuntime -------------------------
(* Small instances of DeviceRuntime: shallow queues that fill up.          *)
EXTENDS DeviceRuntime

Shallow == [c \in Categories |-> IF c = "Control" THEN 2 ELSE 1]
=============================================================================
