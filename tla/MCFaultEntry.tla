---------------------------- MODULE MCFaultEntry ----------------------------
(***************************************************************************)
(* FaultEntry with one-byte addresses: RAM is [64, 192), so that stack     *)
(* pointers lie below it, at its edges, above it and at the wrap-around.   *)
(***************************************************************************)
EXTENDS FaultEntry

\* Bits 0 and 1 of a Cortex-M stack pointer are always zero.
AllStackPointers == {a \in Addresses : a % 4 = 0}
=============================================================================
