--------------------------- MODULE MC_DeviceClock ---------------------------
(* Instances of DeviceClock for TLC.                                       *)
EXTENDS DeviceClock

\* The archive of the documentation's examples, five days of five minutes, and
\* another one that intcfg_is_valid accepts, three days of one hour.
SomeConfigs == {[limit |-> 1440, interval |-> 5], [limit |-> 72, interval |-> 60]}
=============================================================================
