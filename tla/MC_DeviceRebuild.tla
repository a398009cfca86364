--------------------------- MODULE MC_DeviceRebuild ---------------------------
(* A CAN bus with two polled protocols, one with DM drives, and a UDP gateway. *)
EXTENDS DeviceRebuild

MCDevices ==
    {[kind |-> "socket", types |-> {"MT", "PP"}],
     [kind |-> "socket", types |-> {"DM"}],
     [kind |-> "udp", types |-> {"MT"}]}
=============================================================================
