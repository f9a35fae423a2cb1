---------------------------- MODULE PanicDumpSlot ----------------------------
(***************************************************************************)
(* PanicDump implements DumpSlot: the image of 192 bytes written store by  *)
(* store behaves like a mailbox that is filled in one step.                *)
(***************************************************************************)
EXTENDS PanicDump

\* The running panic has cleared the magic and has not published yet.
Committing ==
  \E l \in Levels :
    Running(l) /\ pc[l] \in {"commit", "sealed"} /\ "magic" \notin todo[l]

Slot == INSTANCE DumpSlot WITH
  Dumps <- Snaps,
  None <- Junk,
  slot <- IF Valid(wire) THEN wire["regs"] ELSE Junk,
  current <- newest,
  pending <- Committing,
  delivered <- {w["regs"] : w \in received},
  failures <- losses

\* The slot fills atomically, with the newest panic, at most once per panic,
\* and empties only for a newer panic, after its own delivery, or in a step in
\* which power is lost or the stack grows over it (panicdump.c:345-384, 419-461).
SlotSpec == Slot!Spec
=============================================================================
