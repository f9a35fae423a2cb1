----------------------------- MODULE PanicDump -----------------------------
(***************************************************************************)
(* The life of the one retained dump slot of panicdump: captured by a      *)
(* panic, committed byte by byte to RAM that survives a reset, found,      *)
(* exported and cleared by the next boot.  Any number of panics may be     *)
(* stacked on one core (a trigger in a thread, a trigger in an interrupt   *)
(* handler, a configurable fault, a HardFault), and a watchdog reset or a  *)
(* loss of power may come between any two stores.                          *)
(*                                                                         *)
(* The 192-byte image is a function from Parts to values.  A part is a     *)
(* group of adjacent fields that the properties do not need to tell apart; *)
(* Torn stands for a part of which some bytes are new and some old, Junk   *)
(* for what a loss of power, or a stack that grew too deep, leaves in RAM. *)
(* The value of the crc32 part is the payload the CRC was computed over:   *)
(* two payloads never share a CRC here. (What CRC-32 detects is a question *)
(* about the polynomial; PanicDigest answers it.)                          *)
(***************************************************************************)
EXTENDS Naturals

CONSTANTS
  Snaps,        \* register and stack captures, one per panic: bounds the panics
  FaultCauses,  \* flags, fault_reason and sequence that a fault handler passes
  SwTrigger,    \* the same three fields as trigger_reason passes them
  Tags,         \* arguments of panicdump_set_user_tag
  Reasons,      \* arguments of panicdump_trigger_reason
  Ident,        \* the constant version, header_size and total_size fields
  Magic, Zero, Torn, Junk,
  Unset,        \* what g_user_tag holds at power-on
  MaxResets,    \* bound: watchdog resets
  MaxLosses,    \* bound: losses of power after the first, and stack overflows
  Decays,       \* sets of parts that one of them may corrupt
  Order,        \* pairs of a commit's stores the compiled code keeps in order
  HaltOnFault,  \* built with PANICDUMP_HALT_ON_FAULT
  UartFails,    \* write_char may return false
  ChecksStatus, \* boot code clears only when the export returned EXPORT_OK
  IrqSetsTag    \* interrupt handlers call panicdump_set_user_tag

Rank == [magic |-> 1, ident |-> 2, cause |-> 3, user_tag |-> 4,
         crc32 |-> 5, regs |-> 6, stack |-> 7]
Parts == {"magic", "ident", "cause", "user_tag", "crc32", "regs", "stack"}
Payload == Parts \ {"magic", "crc32"}

(***************************************************************************)
(* Execution levels of the core, by rising priority: thread, interrupt,    *)
(* configurable fault, HardFault.                                          *)
(***************************************************************************)
Levels == 0..3
FaultLevels == 2..3

Causes == FaultCauses \cup {SwTrigger}
TagValues == Tags \cup Reasons \cup {Unset}
Scalars == Snaps \cup Causes \cup TagValues \cup {Ident, Magic, Zero, Torn, Junk}
Images == [Payload -> Scalars]
Wires == {w \in [Parts -> Scalars \cup Images] :
            \A p \in Parts \ {"crc32"} : w[p] \in Scalars}

ASSUME PartAssumption ==
  /\ Decays \subseteq SUBSET Parts
  /\ Order \subseteq Parts \X (Parts \cup {"seal"})
ASSUME BoundAssumption == MaxResets \in Nat /\ MaxLosses \in Nat
ASSUME SwitchAssumption ==
  {HaltOnFault, UartFails, ChecksStatus, IrqSetsTag} \subseteq BOOLEAN
ASSUME MagicAssumption == Magic \notin {Zero, Torn, Junk}
\* A byte pattern of these kinds is never taken for the CRC of an image.
ASSUME CrcAssumption == \A v \in {Zero, Torn, Junk} : v \notin Images

VARIABLES
  wire,      \* g_dump_wire, retained over resets
  user_tag,  \* g_user_tag, retained over resets
  pc,        \* per level: how far the panic on that level has come
  todo,      \* per level: parts its commit has not stored yet
  img,       \* per level: the values its commit is to store
  reason,    \* per level: argument of its trigger_reason call
  main,      \* the boot thread: boot, export, clear or app
  pos,       \* the thread's position in the export or in the clear
  sent,      \* the parts the running export has handed to write_char
  used,      \* history: captures taken
  sealed,    \* history: images whose CRC was stored
  newest,    \* history: capture of the last commit that cleared the magic
  received,  \* history: images a complete export delivered
  lastSet,   \* history: last argument of panicdump_set_user_tag
  resets, losses

panicVars == <<pc, todo, img, reason>>
threadVars == <<main, pos, sent>>
histVars == <<used, sealed, newest, received, lastSet>>
budgets == <<resets, losses>>
vars == <<wire, user_tag, panicVars, threadVars, histVars, budgets>>

PayloadOf(w) == [p \in Payload |-> w[p]]

(* panicdump_validate_wire: magic, constants, ranges, then the CRC. *)
Valid(w) ==
  /\ w["magic"] = Magic
  /\ w["ident"] = Ident
  /\ w["cause"] \in Causes
  /\ w["crc32"] = PayloadOf(w)

Calm == \A l \in Levels : pc[l] = "idle"
Running(l) == pc[l] # "idle" /\ \A h \in Levels : h > l => pc[h] = "idle"
NoImage == [p \in Payload |-> Zero]
NothingSent == [p \in Parts |-> Zero]

TypeOK ==
  /\ wire \in Wires
  /\ user_tag \in TagValues
  /\ pc \in [Levels -> {"idle", "commit", "sealed", "published", "halted", "lockup"}]
  /\ todo \in [Levels -> SUBSET Parts]
  /\ img \in [Levels -> Images]
  /\ reason \in [Levels -> TagValues]
  /\ main \in {"boot", "export", "clear", "app"}
  /\ pos \in 0..8 /\ (main = "clear" => pos \in 1..7)
  /\ sent \in Wires
  /\ used \subseteq Snaps
  /\ sealed \subseteq Images
  /\ newest \in Scalars
  /\ received \subseteq Wires
  /\ lastSet \in TagValues
  /\ resets \in 0..MaxResets
  /\ losses \in 0..MaxLosses

-----------------------------------------------------------------------------
AllIdle == [l \in Levels |-> "idle"]
NothingToDo == [l \in Levels |-> {}]
NoImages == [l \in Levels |-> NoImage]
NoReasons == [l \in Levels |-> Unset]

(* What a reset does to the execution state; RAM is not touched. *)
Restart ==
  /\ pc' = AllIdle
  /\ todo' = NothingToDo
  /\ img' = NoImages
  /\ reason' = NoReasons
  /\ main' = "boot"
  /\ pos' = 0
  /\ sent' = NothingSent

(* First power-on: .noinit holds garbage that may even begin with the magic. *)
Init ==
  /\ pc = AllIdle /\ todo = NothingToDo /\ img = NoImages /\ reason = NoReasons
  /\ main = "boot" /\ pos = 0 /\ sent = NothingSent
  /\ \E m \in {Magic, Junk} :
       wire = [p \in Parts |-> IF p = "magic" THEN m ELSE Junk]
  /\ user_tag = Unset
  /\ used = {} /\ sealed = {} /\ received = {}
  /\ newest = Junk /\ lastSet = Unset
  /\ resets = 0 /\ losses = 0

-----------------------------------------------------------------------------
(* Panics. *)

(* A panic on level l starts its commit: it preempts every lower level. *)
Enter(l, c, s) ==
  /\ \A h \in Levels : h >= l => pc[h] = "idle"
  /\ used' = used \cup {s}
  /\ pc' = [pc EXCEPT ![l] = "commit"]
  /\ todo' = [todo EXCEPT ![l] = Parts]
  /\ img' = [img EXCEPT ![l] =
       [p \in Payload |-> CASE p = "ident" -> Ident
                            [] p = "cause" -> c
                            [] p = "user_tag" -> Zero
                            [] OTHER -> s]]
  /\ UNCHANGED <<wire, threadVars, sealed, newest, received, lastSet, budgets>>

\* Mutant: the reason is not retained before the commit reads the tag.
TriggerKeepsTag(l, r, s) ==
  /\ Enter(l, SwTrigger, s)
  /\ UNCHANGED user_tag
  /\ reason' = [reason EXCEPT ![l] = r]

(* panicdump_trigger_reason(r), in a thread (0) or an interrupt handler (1);
   panicdump_trigger_tag(NULL) passes the current g_user_tag. *)
Trigger(l, r, s) ==
  /\ Enter(l, SwTrigger, s)
  /\ user_tag' = r
  /\ reason' = [reason EXCEPT ![l] = r]

(* panicdump_fault_handler_c *)
Fault(l, c, s) ==
  /\ Enter(l, c, s)
  /\ UNCHANGED <<user_tag, reason>>

(* A fault inside the HardFault handler stops the core. *)
LockUp ==
  /\ pc[3] \notin {"idle", "lockup"}
  /\ pc' = [pc EXCEPT ![3] = "lockup"]
  /\ UNCHANGED <<wire, user_tag, todo, img, reason, threadVars, histVars, budgets>>

(* The parts a commit may store next.  Between the volatile clear of the magic
   and the barrier the compiler owes C only what Order lists. *)
MayStore(l, p) ==
  /\ Running(l)
  /\ pc[l] \in {"commit", "sealed"}
  /\ p \in todo[l]
  /\ \A q \in todo[l] : <<q, p>> \notin Order

\* Mutant: the commit marker is written first (no clear of the old magic).
StoresMarkerFirst(l, p) ==
  CASE p = "magic" -> Magic
    [] p = "crc32" -> Zero
    [] p = "user_tag" -> user_tag
    [] OTHER -> img[l][p]

\* Mutant: the old magic is left in place until the new one is published.
KeepsOldMagic(l, p) ==
  CASE p = "magic" -> wire["magic"]
    [] p = "crc32" -> Zero
    [] p = "user_tag" -> user_tag
    [] OTHER -> img[l][p]

StoredValue(l, p) ==
  CASE p \in {"magic", "crc32"} -> Zero
    [] p = "user_tag" -> user_tag
    [] OTHER -> img[l][p]

Store(l, p) ==
  /\ MayStore(l, p)
  /\ wire' = [wire EXCEPT ![p] = StoredValue(l, p)]
  /\ todo' = [todo EXCEPT ![l] = @ \ {p}]
  /\ img' = IF p = "user_tag" THEN [img EXCEPT ![l]["user_tag"] = user_tag] ELSE img
  /\ newest' = IF p = "magic" THEN img[l]["regs"] ELSE newest
  /\ UNCHANGED <<user_tag, pc, reason, threadVars, used, sealed, received,
                 lastSet, budgets>>

(* The CRC reads back what the stores before it have put into the image. *)
MaySeal(l) ==
  /\ Running(l)
  /\ pc[l] = "commit"
  /\ todo[l] \cap {"crc32", "user_tag"} = {}
  /\ \A q \in todo[l] : <<q, "seal">> \notin Order

ReadBack(l) == [p \in Payload |-> IF p \in todo[l] THEN img[l][p] ELSE wire[p]]

\* Mutant: the CRC is computed before the stack slice is in the image.
SealsBeforeStack(l) ==
  /\ MaySeal(l)
  /\ wire' = [wire EXCEPT !["crc32"] = [ReadBack(l) EXCEPT !["stack"] = Zero]]
  /\ pc' = [pc EXCEPT ![l] = "sealed"]
  /\ sealed' = sealed \cup {img[l]}
  /\ UNCHANGED <<user_tag, todo, img, reason, threadVars, used, newest,
                 received, lastSet, budgets>>

Seal(l) ==
  /\ MaySeal(l)
  /\ wire' = [wire EXCEPT !["crc32"] = ReadBack(l)]
  /\ pc' = [pc EXCEPT ![l] = "sealed"]
  /\ sealed' = sealed \cup {img[l]}
  /\ UNCHANGED <<user_tag, todo, img, reason, threadVars, used, newest,
                 received, lastSet, budgets>>

(* Part of a multi-byte store is done.  The magic is one aligned word. *)
TearStore(l, p) ==
  /\ \/ MayStore(l, p) /\ p # "magic"
     \/ MaySeal(l) /\ p = "crc32"
  /\ wire' = [wire EXCEPT ![p] = Torn]
  /\ UNCHANGED <<user_tag, panicVars, threadVars, histVars, budgets>>

(* Publish barrier, then the magic in one store. *)
Publish(l) ==
  /\ Running(l)
  /\ pc[l] = "sealed"
  /\ todo[l] = {}
  /\ wire' = [wire EXCEPT !["magic"] = Magic]
  /\ pc' = [pc EXCEPT ![l] = "published"]
  /\ UNCHANGED <<user_tag, todo, img, reason, threadVars, histVars, budgets>>

\* Mutant: the panic returns to the code it preempted.
FinishReturns(l) ==
  /\ Running(l)
  /\ pc[l] = "published"
  /\ pc' = [pc EXCEPT ![l] = "idle"]
  /\ UNCHANGED <<wire, user_tag, todo, img, reason, threadVars, histVars, budgets>>

\* Mutant: the core spins after the commit without requesting a reset.
FinishSpins(l) ==
  /\ Running(l)
  /\ pc[l] = "published"
  /\ UNCHANGED vars

(* A panic never returns: it resets the core, or halts in a debug build. *)
Finish(l) ==
  /\ Running(l)
  /\ pc[l] = "published"
  /\ IF HaltOnFault /\ l \in FaultLevels
     THEN /\ pc' = [pc EXCEPT ![l] = "halted"]
          /\ UNCHANGED <<todo, img, reason, threadVars>>
     ELSE Restart
  /\ UNCHANGED <<wire, user_tag, histVars, budgets>>

-----------------------------------------------------------------------------
(* The boot thread; it runs only while no panic does. *)

\* Mutant: the boot check trusts the magic alone.
ChecksMagicOnly ==
  /\ Calm
  /\ main \in {"boot", "app"}
  /\ main' = IF wire["magic"] = Magic THEN "export" ELSE "app"
  /\ pos' = 0
  /\ sent' = NothingSent
  /\ UNCHANGED <<wire, user_tag, panicVars, histVars, budgets>>

\* Mutant: a dump is cleared when it is found, and nothing is exported.
ChecksAndClears ==
  /\ Calm
  /\ main \in {"boot", "app"}
  /\ main' = IF Valid(wire) THEN "clear" ELSE "app"
  /\ pos' = 1
  /\ sent' = NothingSent
  /\ UNCHANGED <<wire, user_tag, panicVars, histVars, budgets>>

(* panicdump_has_valid() at the start of boot_check_and_export, at boot or
   whenever the application calls it again. *)
Check ==
  /\ Calm
  /\ main \in {"boot", "app"}
  /\ main' = IF Valid(wire) THEN "export" ELSE "app"
  /\ pos' = 0
  /\ sent' = NothingSent
  /\ UNCHANGED <<wire, user_tag, panicVars, histVars, budgets>>

(* One token of the frame accepted by write_char: the BEGIN line (position 0),
   the parts by rising address (1 to 7), the END line (8). *)
SendPart ==
  /\ pos < 8
  /\ sent' = [p \in Parts |-> IF Rank[p] = pos THEN wire[p] ELSE sent[p]]
  /\ pos' = pos + 1
  /\ UNCHANGED <<main, received>>

SendEnd ==
  /\ pos = 8
  /\ received' = received \cup {sent}
  /\ main' = "clear"
  /\ pos' = 1
  /\ UNCHANGED sent

\* Mutant: the status of the export is not tested before the clear.
SendFailsUnnoticed ==
  /\ UartFails
  /\ main' = "clear"
  /\ pos' = 1
  /\ UNCHANGED <<sent, received>>

(* write_char returned false: EXPORT_SHORT_WRITE. *)
SendFails ==
  /\ UartFails
  /\ main' = IF ChecksStatus THEN "app" ELSE "clear"
  /\ pos' = 1
  /\ UNCHANGED <<sent, received>>

Export ==
  /\ Calm
  /\ main = "export"
  /\ SendPart \/ SendEnd \/ SendFails
  /\ UNCHANGED <<wire, user_tag, panicVars, used, sealed, newest, lastSet, budgets>>

\* Mutant: the clear runs past the end of the image.
ClearsTooFar ==
  /\ Calm
  /\ main = "clear"
  /\ wire' = [p \in Parts |-> IF Rank[p] = pos THEN Zero ELSE wire[p]]
  /\ pos' = pos + 1
  /\ main' = IF pos = 8 THEN "app" ELSE "clear"
  /\ UNCHANGED <<user_tag, panicVars, sent, histVars, budgets>>

(* panicdump_clear: zero bytes from offset 0 upwards. *)
ClearPart ==
  /\ Calm
  /\ main = "clear"
  /\ wire' = [p \in Parts |-> IF Rank[p] = pos THEN Zero ELSE wire[p]]
  /\ pos' = pos + 1
  /\ main' = IF pos = 7 THEN "app" ELSE "clear"
  /\ UNCHANGED <<user_tag, panicVars, sent, histVars, budgets>>

TearClear ==
  /\ Calm
  /\ main = "clear"
  /\ wire' = [p \in Parts |-> IF Rank[p] = pos THEN Torn ELSE wire[p]]
  /\ UNCHANGED <<user_tag, panicVars, threadVars, histVars, budgets>>

-----------------------------------------------------------------------------
(* The application and the environment. *)

(* panicdump_set_user_tag, in the thread or in an interrupt handler, which
   also runs while a panic of the thread commits. *)
SetUserTag(t) ==
  /\ \/ Calm /\ main \in {"boot", "app"}
     \/ IrqSetsTag /\ \A h \in Levels : h > 0 => pc[h] = "idle"
  /\ user_tag' = t
  /\ lastSet' = t
  /\ UNCHANGED <<wire, panicVars, threadVars, used, sealed, newest, received, budgets>>

WatchdogReset ==
  /\ resets < MaxResets
  /\ resets' = resets + 1
  /\ Restart
  /\ UNCHANGED <<wire, user_tag, histVars, losses>>

(* RAM loses what it held: parts of the image, perhaps the tag. *)
Spoil(lost, forget) ==
  /\ losses < MaxLosses
  /\ losses' = losses + 1
  /\ wire' = [p \in Parts |-> IF p \in lost THEN Junk ELSE wire[p]]
  /\ user_tag' = IF forget THEN Unset ELSE user_tag
  /\ lastSet' = IF forget THEN Unset ELSE lastSet
  /\ UNCHANGED <<used, sealed, newest, received, resets>>

PowerCycle(lost, forget) == Spoil(lost, forget) /\ Restart

(* The application's stack, which the demo places right above .noinit, grows
   down over the image.  Nothing faults, and the core runs on. *)
StackOverflow(lost, forget) ==
  /\ Calm
  /\ main = "app"
  /\ Spoil(lost, forget)
  /\ UNCHANGED <<panicVars, threadVars>>

Next ==
  \/ \E s \in Snaps \ used :
       \/ \E l \in 0..1, r \in Reasons \cup {user_tag} : Trigger(l, r, s)
       \/ \E l \in FaultLevels, c \in FaultCauses : Fault(l, c, s)
  \/ LockUp
  \/ \E l \in Levels, p \in Parts : Store(l, p)
  \/ \E l \in Levels, p \in Parts : TearStore(l, p)
  \/ \E l \in Levels : Seal(l)
  \/ \E l \in Levels : Publish(l)
  \/ \E l \in Levels : Finish(l)
  \/ Check
  \/ Export
  \/ ClearPart
  \/ TearClear
  \/ \E t \in Tags : SetUserTag(t)
  \/ WatchdogReset
  \/ \E lost \in Decays, forget \in BOOLEAN :
       PowerCycle(lost, forget) \/ StackOverflow(lost, forget)

Spec == Init /\ [][Next]_vars

(* The core keeps executing instructions: a panic goes on with its commit and
   the boot thread with its export.  Nothing obliges the application to set
   tags, a device to fail, or the environment to reset the core. *)
PanicProgress(l) == (\E p \in Parts : Store(l, p)) \/ Seal(l) \/ Publish(l) \/ Finish(l)
BootProgress == (main = "boot" /\ Check) \/ Export \/ ClearPart

FairSpec ==
  Spec /\ (\A l \in Levels : WF_vars(PanicProgress(l))) /\ WF_vars(BootProgress)

-----------------------------------------------------------------------------
(* Safety. *)

\* Whatever a reset interrupts, an image that validates is exactly one image
\* that one panic sealed: never a mix of two panics, of a panic and a clear, or
\* of a dump and decayed RAM (commit_snapshot, lines 425-460).
NoTornDump == Valid(wire) => PayloadOf(wire) \in sealed

\* The commit marker alone already says so: unless RAM decayed, an image whose
\* magic is set is complete, so the order "magic cleared first, set last" does
\* not lean on the CRC (lines 425 and 460; FORMAT.md "Commit order").
MarkerMeansWhole ==
  wire["magic"] = Magic /\ (\A p \in Parts : wire[p] # Junk) => Valid(wire)

\* Every frame a host received in full is a valid image that one panic sealed,
\* although the export reads the live slot byte by byte (lines 358-368).
FramesAreDumps == \A w \in received : Valid(w) /\ PayloadOf(w) \in sealed

\* Once a panic has begun its commit no older dump is ever taken for valid: the
\* slot holds the newest capture or nothing (line 425).
NewestOrNothing == Valid(wire) => wire["regs"] = newest

\* When a commit is over, the slot holds a valid dump of that very panic: what a
\* debugger finds on a halted core, and what the next boot finds after a reset.
DumpInPlace ==
  \A l \in Levels :
    Running(l) /\ pc[l] \in {"published", "halted"}
      => Valid(wire) /\ PayloadOf(wire) = img[l]

\* A dump of trigger_reason(r) carries r as its tag, also when other panics were
\* stacked below it (lines 405 and 440).
TriggerCarriesReason ==
  \A l \in 0..1 : pc[l] = "published" /\ Running(l) => wire["user_tag"] = reason[l]

\* The tag of a published fault dump is the last one passed to
\* panicdump_set_user_tag (INTEGRATION.md:161).
LastSetTagAppears ==
  \A l \in FaultLevels : pc[l] = "published" => img[l]["user_tag"] = lastSet

(* Action properties. *)

\* A valid dump stops being valid only when a complete export delivered it,
\* when a newer panic has started, or when RAM lost it (lines 379-382).
ClearOnlyAfterExport ==
  [][Valid(wire) /\ ~Valid(wire') => \/ wire \in received
                                     \/ ~Calm
                                     \/ losses' # losses]_vars

(* Liveness. *)

Stopped == \E l \in Levels : pc[l] \in {"halted", "lockup"}

\* A panic ends in a reset, unless the core locks up or was built to halt.
PanicReboots == ~Calm ~> Calm \/ Stopped

\* A published dump reaches the host, unless a newer panic replaces it or the
\* core stops (panicdump_boot_check_and_export).
DumpDelivered ==
  \A s \in Snaps :
    Valid(wire) /\ wire["regs"] = s
      ~> (\E w \in received : w["regs"] = s) \/ newest # s \/ Stopped

=============================================================================
