----------------------------- MODULE Lifecycle -----------------------------
(* The phases of the process, shared by its parts.  Inside New the consumer *)
(* is started first and the deviceGroupsHandler is set last; Loop begins    *)
(* when New has returned; a signal ends ctx.                                *)
EXTENDS Integers

CONSTANT MaxFaults   \* bound: crashes, shutdowns, failed requests and rebalances

ASSUME FaultsAssumption == MaxFaults \in Nat

VARIABLES phase,     \* "down", "starting" (inside New), "running" (in Loop), "stopping" (ctx is done)
          faults

Fault == faults < MaxFaults /\ faults' = faults + 1
=============================================================================
