------------------------------ MODULE DumpSlot ------------------------------
(***************************************************************************)
(* What panicdump promises of its retained slot, without bytes, stores or  *)
(* interrupts: a mailbox for one dump.  A new panic empties it before it   *)
(* fills it, filling it is one atomic step, a reset may come in between    *)
(* and leaves it empty, and only a dump that was delivered is discarded.   *)
(* Failures of the memory are counted, so that no other step passes for    *)
(* one: between two of them the slot empties for a newer panic or after a  *)
(* delivery, and for no other reason.                                      *)
(***************************************************************************)
EXTENDS Naturals

CONSTANTS Dumps,  \* what panics capture
          None    \* the empty slot; not one of Dumps

VARIABLES slot,       \* the dump in the slot, or None
          current,    \* the dump of the newest panic that claimed the slot
          pending,    \* that panic may still publish
          delivered,  \* dumps the host has received
          failures    \* how often the memory has failed

slotVars == <<slot, current, pending, delivered, failures>>

Init ==
  /\ slot = None /\ current = None
  /\ pending = FALSE
  /\ delivered = {}
  /\ failures = 0

(* A panic claims the slot; whatever was in it is gone. *)
Claim(d) ==
  /\ current' = d
  /\ pending' = TRUE
  /\ slot' = None
  /\ UNCHANGED <<delivered, failures>>

(* The claim is fulfilled in one step, once, while the slot is empty. *)
Publish ==
  /\ pending
  /\ slot = None
  /\ slot' = current
  /\ pending' = FALSE
  /\ UNCHANGED <<current, delivered, failures>>

(* A reset or another panic overtakes the panic that had claimed the slot. *)
Abandon ==
  /\ pending' = FALSE
  /\ UNCHANGED <<slot, current, delivered, failures>>

Deliver ==
  /\ slot # None
  /\ delivered' = delivered \cup {slot}
  /\ UNCHANGED <<slot, current, pending, failures>>

Discard ==
  /\ slot \in delivered
  /\ slot' = None
  /\ UNCHANGED <<current, pending, delivered, failures>>

(* Power is lost, or a stack grows over the slot: the memory may spare it. *)
Lose ==
  /\ failures' = failures + 1
  /\ slot' \in {slot, None}
  /\ pending' = FALSE
  /\ UNCHANGED <<current, delivered>>

Next ==
  \/ \E d \in Dumps : Claim(d)
  \/ Publish
  \/ Abandon
  \/ Deliver
  \/ Discard
  \/ Lose

Spec == Init /\ [][Next]_slotVars
=============================================================================
