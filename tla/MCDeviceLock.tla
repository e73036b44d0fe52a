---------------------------- MODULE MCDeviceLock ----------------------------
(* Four workers on four accelerators that overlap in every way: a trainer   *)
(* over all of them, two rollout engines on disjoint pairs, and one worker  *)
(* that shares one accelerator with each engine.  A fifth worker has an     *)
(* accelerator of its own: it must be able to go on whatever the others do. *)
EXTENDS DeviceLock, TLC

CONSTANTS trainer, engine1, engine2, other, alone

MCWorkers == {trainer, engine1, engine2, other, alone}
MCDevices == 0 .. 4
MCUses == trainer :> 0 .. 3 @@ engine1 :> {0, 1} @@ engine2 :> {2, 3} @@ other :> {1, 2}
            @@ alone :> {4}
=============================================================================
