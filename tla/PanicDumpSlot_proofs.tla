------------------------ MODULE PanicDumpSlot_proofs ------------------------
(***************************************************************************)
(* The refinement as a theorem: for every number of panics, every pattern  *)
(* of decay and every store order that clears the magic first, the slot    *)
(* written store by store is the mailbox of DumpSlot.                      *)
(***************************************************************************)
EXTENDS PanicDumpSlot, PanicDump_proofs

\* What a loss of RAM leaves is none of the values a commit stores.
JunkApart == Junk \notin Snaps \cup Causes \cup TagValues \cup {Ident}

-----------------------------------------------------------------------------
(* What a commit stores is a capture, whole, with a tag: so decay shows.     *)

Captured(i) ==
  /\ i["regs"] \in Snaps /\ i["stack"] \in Snaps
  /\ i["ident"] = Ident /\ i["cause"] \in Causes

CaptureInv ==
  /\ \A i \in sealed : Captured(i) /\ i["user_tag"] \in TagValues
  /\ \A l \in Levels : pc[l] # "idle" =>
       Captured(img[l]) /\ ("user_tag" \notin todo[l] => img[l]["user_tag"] \in TagValues)

LEMMA CaptureInvInit == Init => CaptureInv
BY DEF Init, CaptureInv, AllIdle

LEMMA EnterCaptureInv ==
  ASSUME TypeOK, CaptureInv, NEW l \in Levels, NEW c \in Causes, NEW s \in Snaps,
         Enter(l, c, s)
  PROVE  CaptureInv'
<1>1. /\ sealed' = sealed
      /\ pc' = [pc EXCEPT ![l] = "commit"] /\ todo' = [todo EXCEPT ![l] = Parts]
      /\ \A k \in Levels \ {l} : img'[k] = img[k] /\ todo'[k] = todo[k] /\ pc'[k] = pc[k]
  BY DEF Enter, TypeOK
<1>2. img'[l] = [p \in Payload |-> CASE p = "ident" -> Ident
                            [] p = "cause" -> c
                            [] p = "user_tag" -> Zero
                            [] OTHER -> s]
  BY DEF Enter, TypeOK
<1>3. Captured(img'[l])
  BY <1>2, PayloadFacts DEF Captured
<1>4. todo'[l] = Parts /\ "user_tag" \in Parts
  BY <1>1 DEF TypeOK, Parts
<1> QED
  BY <1>1, <1>3, <1>4 DEF CaptureInv, Captured

\* Nothing is sealed, and what changes of the panics is that some are gone.
LEMMA QuietCaptureInv ==
  ASSUME CaptureInv, UNCHANGED sealed,
         \/ \A l \in Levels : pc'[l] = "idle"
         \/ UNCHANGED <<todo, img>> /\ \A l \in Levels : pc[l] = "idle" => pc'[l] = "idle"
  PROVE  CaptureInv'
BY DEF CaptureInv, Captured

LEMMA CaptureInvStep == TypeOK /\ CommitInv /\ CaptureInv /\ [Next]_vars => CaptureInv'
<1> SUFFICES ASSUME TypeOK, CommitInv, CaptureInv, [Next]_vars PROVE CaptureInv'
  OBVIOUS
<1>1. ASSUME NEW l \in 0..1, NEW r \in Reasons \cup {user_tag}, NEW s \in Snaps \ used,
             Trigger(l, r, s)
      PROVE CaptureInv'
  BY <1>1, EnterCaptureInv DEF Trigger, Levels, Causes
<1>2. ASSUME NEW l \in FaultLevels, NEW c \in FaultCauses, NEW s \in Snaps \ used,
             Fault(l, c, s)
      PROVE CaptureInv'
  BY <1>2, EnterCaptureInv DEF Fault, Levels, FaultLevels, Causes
<1>3. CASE LockUp
  BY <1>3, QuietCaptureInv DEF LockUp, histVars, TypeOK, Levels
<1>4. ASSUME NEW l \in Levels, NEW p \in Parts, Store(l, p)
      PROVE CaptureInv'
  <2>1. UNCHANGED <<pc, sealed>> /\ pc[l] # "idle" /\ todo' = [todo EXCEPT ![l] = @ \ {p}]
    BY <1>4 DEF Store, MayStore, Running
  <2>2. CASE p = "user_tag"
    <3>1. /\ img'[l]["user_tag"] = user_tag
          /\ \A q \in Payload \ {"user_tag"} : img'[l][q] = img[l][q]
          /\ \A k \in Levels \ {l} : img'[k] = img[k]
      BY <1>4, <2>2, PayloadFacts DEF Store, TypeOK, Images
    <3> QED
      BY <2>1, <3>1, PayloadFacts DEF CaptureInv, Captured, TypeOK
  <2>3. CASE p # "user_tag"
    <3>1. img' = img
      BY <1>4, <2>3 DEF Store
    <3>2. \A k \in Levels : "user_tag" \notin todo'[k] => "user_tag" \notin todo[k]
      BY <2>1, <2>3 DEF TypeOK
    <3> QED
      BY <2>1, <3>1, <3>2 DEF CaptureInv, Captured
  <2> QED
    BY <2>2, <2>3
<1>5. ASSUME NEW l \in Levels, NEW p \in Parts, TearStore(l, p)
      PROVE CaptureInv'
  BY <1>5, QuietCaptureInv DEF TearStore, panicVars, histVars
<1>6. ASSUME NEW l \in Levels, Seal(l)
      PROVE CaptureInv'
  <2>1. /\ pc[l] = "commit" /\ "user_tag" \notin todo[l]
        /\ UNCHANGED <<todo, img>> /\ sealed' = sealed \cup {img[l]}
        /\ pc' = [pc EXCEPT ![l] = "sealed"]
    BY <1>6 DEF Seal, MaySeal
  <2>2. Captured(img[l]) /\ img[l]["user_tag"] \in TagValues
    BY <2>1 DEF CaptureInv
  <2>3. \A k \in Levels : pc'[k] # "idle" => pc[k] # "idle"
    BY <2>1 DEF TypeOK
  <2> QED
    BY <2>1, <2>2, <2>3 DEF CaptureInv, Captured
<1>7. ASSUME NEW l \in Levels, Publish(l)
      PROVE CaptureInv'
  BY <1>7, QuietCaptureInv DEF Publish, histVars, TypeOK
<1>8. ASSUME NEW l \in Levels, Finish(l)
      PROVE CaptureInv'
  <2>1. sealed' = sealed /\ pc[l] = "published"
    BY <1>8 DEF Finish, histVars
  <2>2. CASE HaltOnFault /\ l \in FaultLevels
    BY <1>8, <2>1, <2>2, QuietCaptureInv DEF Finish, TypeOK
  <2>3. CASE ~(HaltOnFault /\ l \in FaultLevels)
    BY <1>8, <2>1, <2>3, QuietCaptureInv DEF Finish, Restart, AllIdle
  <2> QED
    BY <2>2, <2>3
<1>9. CASE Check \/ Export \/ ClearPart \/ TearClear \/ (\E t \in Tags : SetUserTag(t))
  BY <1>9, QuietCaptureInv DEF Check, Export, ClearPart, TearClear, SetUserTag,
                               panicVars, histVars
<1>10. CASE WatchdogReset
  BY <1>10, QuietCaptureInv DEF WatchdogReset, Restart, AllIdle, histVars
<1>11. ASSUME NEW lost \in Decays, NEW forget \in BOOLEAN,
              PowerCycle(lost, forget) \/ StackOverflow(lost, forget)
       PROVE CaptureInv'
  BY <1>11, QuietCaptureInv DEF PowerCycle, StackOverflow, Spoil, Restart, AllIdle, panicVars
<1>12. CASE UNCHANGED vars
  BY <1>12, QuietCaptureInv DEF vars, panicVars, histVars
<1> QED
  BY <1>1, <1>2, <1>3, <1>4, <1>5, <1>6, <1>7, <1>8, <1>9, <1>10, <1>11, <1>12 DEF Next

-----------------------------------------------------------------------------
(* The steps.  Most panics and resets are an Abandon; a commit is a Claim,   *)
(* many stutters and a Publish.  Every step but decay keeps losses, so no    *)
(* other step may pass for a Lose.                                           *)

\* A valid image shows a capture, and no part of it is what decay leaves.
LEMMA SealedShows ==
  ASSUME JunkApart, NEW w \in Wires, Valid(w), PayloadOf(w) \in sealed, CaptureInv
  PROVE  w["regs"] \in Snaps /\ \A p \in Parts : w[p] # Junk
<1>1. \A p \in Payload : PayloadOf(w)[p] = w[p]
  BY DEF PayloadOf
<1>2. Captured(PayloadOf(w)) /\ PayloadOf(w)["user_tag"] \in TagValues
  BY DEF CaptureInv
<1>3. /\ w["regs"] \in Snaps /\ w["stack"] \in Snaps /\ w["ident"] = Ident
      /\ w["cause"] \in Causes /\ w["user_tag"] \in TagValues
  BY <1>1, <1>2, PayloadFacts DEF Captured
<1>4. w["magic"] # Junk /\ w["crc32"] # Junk
  BY PayloadOfWire, MagicAssumption, CrcAssumption DEF Valid
<1> QED
  BY <1>3, <1>4 DEF JunkApart, Parts

SlotInv == TypeOK /\ CommitInv /\ ExportInv /\ MarkerInv /\ CaptureInv

LEMMA StartsEmpty == Init => Slot!Init
<1> SUFFICES ASSUME Init PROVE Slot!Init
  OBVIOUS
<1>1. wire["crc32"] = Junk /\ newest = Junk /\ received = {} /\ losses = 0
  BY PayloadFacts DEF Init
<1>2. ~Valid(wire)
  <2>1. PayloadOf(wire) \in Images
    BY InitTyped, PayloadOfWire DEF TypeOK
  <2> QED
    BY <1>1, <2>1, CrcAssumption DEF Valid
<1>3. ~Committing
  BY DEF Init, AllIdle, Committing, Running
<1> QED
  BY <1>1, <1>2, <1>3 DEF Slot!Init

\* What keeps image, captures, deliveries and losses, and is no commit afterwards,
\* abandons.
LEMMA IsAbandon ==
  ASSUME UNCHANGED <<wire, newest, received, losses>>, ~Committing'
  PROVE  Slot!Next
<1>1. Valid(wire)' = Valid(wire)
  BY DEF Valid, PayloadOf
<1> QED
  BY <1>1 DEF Slot!Next, Slot!Abandon

\* Under an invalid image, what keeps captures, deliveries and the claim is nothing.
LEMMA IsStutter ==
  ASSUME ~Valid(wire), ~Valid(wire'), UNCHANGED <<newest, received, losses>>,
         Committing' = Committing
  PROVE  UNCHANGED Slot!slotVars
BY DEF Slot!slotVars, Valid, PayloadOf

LEMMA EnterAbandons ==
  ASSUME TypeOK, NEW l \in Levels, NEW c, NEW s, Enter(l, c, s)
  PROVE  Slot!Next
<1>1. todo'[l] = Parts /\ UNCHANGED <<wire, newest, received, losses>>
  BY DEF Enter, budgets, TypeOK
<1>2. ~Committing'
  BY <1>1, EnterRuns, PayloadFacts DEF Committing
<1> QED
  BY <1>1, <1>2, IsAbandon

LEMMA CalmCommitsNothing ==
  ASSUME \A l \in Levels : ~Running(l)
  PROVE  ~Committing
BY DEF Committing

\* The clear of the magic claims the slot; no other store shows.
LEMMA StoreClaims ==
  ASSUME MagicFirst, SlotInv, NEW l \in Levels, NEW p \in Parts, Store(l, p)
  PROVE  [Slot!Next]_(Slot!slotVars)
<1>1. /\ Running(l) /\ pc[l] \in {"commit", "sealed"} /\ MayStore(l, p)
      /\ Marking(l) /\ p \in todo[l]
  BY DEF Store, MayStore, SlotInv, MarkerInv
<1>2. /\ UNCHANGED <<pc, received, losses>> /\ todo'[l] = todo[l] \ {p}
      /\ newest' = IF p = "magic" THEN img[l]["regs"] ELSE newest
  BY DEF Store, budgets, SlotInv, TypeOK
<1>3. wire'[p] = StoredValue(l, p) /\ \A q \in Parts \ {p} : wire'[q] = wire[q]
  BY DEF Store, SlotInv, TypeOK, Wires
<1>4. Running(l)'
  BY <1>1, <1>2 DEF Running
<1>5. CASE p = "magic"
  <2>1. Committing'
    BY <1>1, <1>2, <1>4, <1>5 DEF Committing
  <2>2. ~Valid(wire')
    BY <1>3, <1>5, MagicAssumption DEF StoredValue, Valid
  <2>3. newest' \in Snaps
    BY <1>1, <1>2, <1>5 DEF SlotInv, CaptureInv, Captured
  <2>4. Slot!Claim(newest')
    BY <1>2, <2>1, <2>2 DEF Slot!Claim, Valid, PayloadOf
  <2> QED
    BY <2>3, <2>4 DEF Slot!Next
<1>6. CASE p # "magic"
  <2>1. "magic" \notin todo[l]
    BY <1>1, <1>6, OnlyMagicFirst
  <2>2. wire["magic"] # Magic /\ wire'["magic"] # Magic
    BY <1>1, <1>3, <1>6, <2>1, PayloadFacts DEF Marking
  <2>3. Committing /\ Committing'
    BY <1>1, <1>2, <1>4, <2>1 DEF Committing
  <2> QED
    BY <1>2, <1>6, <2>2, <2>3, IsStutter DEF Valid
<1> QED
  BY <1>5, <1>6

\* A commit that has cleared the magic goes on without a trace.
LEMMA HiddenStutters ==
  ASSUME SlotInv, NEW l \in Levels, Running(l), pc[l] \in {"commit", "sealed"},
         "magic" \notin todo[l], wire'["magic"] = wire["magic"],
         UNCHANGED <<todo, newest, received, losses>>,
         pc' = pc \/ pc' = [pc EXCEPT ![l] = "sealed"]
  PROVE  UNCHANGED Slot!slotVars
<1>1. wire["magic"] # Magic /\ wire'["magic"] # Magic
  BY DEF SlotInv, MarkerInv, Marking
<1>2. Running(l)' /\ pc'[l] \in {"commit", "sealed"}
  BY DEF Running, SlotInv, TypeOK
<1>3. Committing /\ Committing'
  BY <1>2 DEF Committing
<1> QED
  BY <1>1, <1>3, IsStutter DEF Valid

LEMMA PublishPublishes ==
  ASSUME SlotInv, SlotInv', NEW l \in Levels, Publish(l)
  PROVE  Slot!Next
<1>1. /\ Running(l) /\ pc[l] = "sealed" /\ todo[l] = {}
      /\ UNCHANGED <<todo, img, newest, received, losses>>
  BY DEF Publish, histVars, budgets
<1>2. pc' = [pc EXCEPT ![l] = "published"]
  BY DEF Publish
<1>3. Marking(l)
  BY <1>1 DEF SlotInv, MarkerInv
<1>4. Committing
  BY <1>1 DEF Committing
<1>5. ~Valid(wire) /\ newest = img[l]["regs"]
  BY <1>1, <1>3 DEF Marking, Valid
<1>6. Running(l)' /\ pc'[l] = "published"
  BY <1>1, <1>2 DEF Running, SlotInv, TypeOK
<1>7. Valid(wire)' /\ PayloadOf(wire)' = img'[l]
  <2>1. DumpInPlace'
    BY CommitInvImplies, PTL DEF SlotInv
  <2> QED
    BY <1>6, <2>1 DEF DumpInPlace
<1>8. wire'["regs"] = newest
  BY <1>1, <1>5, <1>7, PayloadFacts DEF PayloadOf
<1>9. \A k \in Levels : Running(k)' => k = l
  BY <1>1, <1>2, RunningUnique DEF Running, SlotInv, TypeOK
<1>10. ~Committing'
  BY <1>6, <1>9 DEF Committing
<1>11. Slot!Publish
  BY <1>1, <1>4, <1>5, <1>7, <1>8, <1>10 DEF Slot!Publish, Valid, PayloadOf
<1> QED
  BY <1>11 DEF Slot!Next

LEMMA FinishAbandons ==
  ASSUME SlotInv, NEW l \in Levels, Finish(l)
  PROVE  Slot!Next
<1>1. UNCHANGED <<wire, newest, received, losses>> /\ Running(l) /\ pc[l] = "published"
  BY DEF Finish, histVars, budgets
<1>2. CASE HaltOnFault /\ l \in FaultLevels
  <2>1. pc' = [pc EXCEPT ![l] = "halted"]
    BY <1>2 DEF Finish
  <2>2. pc'[l] = "halted" /\ \A k \in Levels : Running(k)' => k = l
    BY <1>1, <2>1, RunningUnique DEF Running, SlotInv, TypeOK
  <2> QED
    BY <1>1, <2>2, IsAbandon DEF Committing
<1>3. CASE ~(HaltOnFault /\ l \in FaultLevels)
  <2>1. \A k \in Levels : ~Running(k)'
    BY <1>3, RestartCalm DEF Finish
  <2> QED
    BY <1>1, <2>1, IsAbandon DEF Committing
<1> QED
  BY <1>2, <1>3

\* The end of a frame delivers what is in the slot.
LEMMA ExportDelivers ==
  ASSUME JunkApart, SlotInv, Export
  PROVE  Slot!Next
<1>1. Calm /\ main = "export" /\ UNCHANGED <<wire, newest, pc, losses>>
  BY DEF Export, panicVars, budgets
<1>2. ~Committing /\ ~Committing'
  BY <1>1 DEF Committing, Running, Calm
<1>3. Committing' = Committing
  BY <1>2 DEF Committing
<1>4. CASE SendPart \/ SendFails
  BY <1>1, <1>2, <1>4, IsAbandon DEF SendPart, SendFails
<1>5. CASE SendEnd
  <2>1. Valid(wire) /\ sent = wire
    BY <1>1, <1>5, CompleteFrame DEF SendEnd, SlotInv, ExportInv, Exporting
  <2>2. received' = received \cup {wire}
    BY <1>5, <2>1 DEF SendEnd
  <2>3. wire["regs"] # Junk
    <3>1. PayloadOf(wire) \in sealed
      BY <2>1, CommitInvImplies DEF SlotInv, NoTornDump
    <3> QED
      BY <2>1, <3>1, SealedShows, PayloadFacts DEF SlotInv, TypeOK
  <2>4. Valid(wire)' /\ wire'["regs"] = wire["regs"]
    BY <1>1, <2>1 DEF Valid, PayloadOf
  <2>5. {w["regs"] : w \in received}' = {w["regs"] : w \in received} \cup {wire["regs"]}
    BY <2>2
  <2>6. UNCHANGED <<IF Valid(wire) THEN wire["regs"] ELSE Junk, newest, Committing, losses>>
    BY <1>1, <1>3, <2>1, <2>4
  <2>7. (IF Valid(wire) THEN wire["regs"] ELSE Junk) = wire["regs"]
    BY <2>1
  <2>8. Slot!Deliver
    BY <2>3, <2>5, <2>6, <2>7 DEF Slot!Deliver
  <2> QED
    BY <2>8 DEF Slot!Next
<1> QED
  BY <1>4, <1>5 DEF Export

\* The first byte of a clear discards what a host has, or there was nothing.
LEMMA ClearDiscards ==
  ASSUME ChecksStatus, SlotInv, ClearPart \/ TearClear
  PROVE  Slot!Next
<1>1. Calm /\ main = "clear" /\ UNCHANGED <<newest, received, pc, losses>>
  BY DEF ClearPart, TearClear, panicVars, histVars, budgets
<1>2. ~Committing /\ ~Committing'
  BY <1>1 DEF Committing, Running, Calm
<1>3. Committing' = Committing
  BY <1>2 DEF Committing
<1>4. ~Valid(wire')
  BY ClearUnmarks DEF SlotInv, Valid
<1>5. CASE Valid(wire)
  <2>1. wire \in received
    BY <1>1, <1>5 DEF SlotInv, ExportInv, Clearing
  <2>2. wire["regs"] \in {w["regs"] : w \in received}
    BY <2>1
  <2>3. /\ (IF Valid(wire) THEN wire["regs"] ELSE Junk) = wire["regs"]
        /\ (IF Valid(wire) THEN wire["regs"] ELSE Junk)' = Junk
    BY <1>4, <1>5 DEF Valid, PayloadOf
  <2>4. UNCHANGED <<newest, Committing, {w["regs"] : w \in received}, losses>>
    BY <1>1, <1>3
  <2>5. Slot!Discard
    BY <2>2, <2>3, <2>4 DEF Slot!Discard
  <2> QED
    BY <2>5 DEF Slot!Next
<1>6. CASE ~Valid(wire)
  BY <1>1, <1>2, <1>4, <1>6 DEF Slot!Next, Slot!Abandon
<1> QED
  BY <1>5, <1>6

\* Decay either shows, and the slot is empty, or has spared the whole image: a Lose.
LEMMA SpoilLoses ==
  ASSUME JunkApart, SlotInv, SlotInv', NEW lost \in Decays, NEW forget,
         PowerCycle(lost, forget) \/ StackOverflow(lost, forget)
  PROVE  Slot!Next
<1>1. Spoil(lost, forget)
  BY DEF PowerCycle, StackOverflow
<1>2. ~Committing'
  BY RestartCalm, StillCalm DEF PowerCycle, StackOverflow, panicVars, Committing
<1>3. UNCHANGED <<newest, received>> /\ losses' = losses + 1
  BY <1>1 DEF Spoil
<1>4. CASE \E p \in Parts : p \in lost
  <2>1. \E p \in Parts : wire'[p] = Junk
    BY <1>1, <1>4 DEF Spoil
  <2>2. NoTornDump'
    BY CommitInvImplies, PTL DEF SlotInv
  <2>3. ~Valid(wire')
    <3> SUFFICES ASSUME Valid(wire') PROVE FALSE
      OBVIOUS
    <3>1. sealed' = sealed /\ PayloadOf(wire') \in sealed /\ wire' \in Wires
      BY <1>1, <2>2 DEF Spoil, NoTornDump, Valid, PayloadOf, SlotInv, TypeOK
    <3> QED
      BY <2>1, <3>1, SealedShows DEF SlotInv
  <2>4. Slot!Lose
    BY <1>2, <1>3, <2>3 DEF Slot!Lose, Valid, PayloadOf
  <2> QED
    BY <2>4 DEF Slot!Next
<1>5. CASE ~ \E p \in Parts : p \in lost
  <2>1. wire' = wire
    BY <1>1, <1>5 DEF Spoil, SlotInv, TypeOK, Wires
  <2>2. Slot!Lose
    BY <1>2, <1>3, <2>1 DEF Slot!Lose, Valid, PayloadOf
  <2> QED
    BY <2>2 DEF Slot!Next
<1> QED
  BY <1>4, <1>5

LEMMA StepRefines ==
  ASSUME MagicFirst, ChecksStatus, JunkApart
  PROVE  SlotInv /\ SlotInv' /\ [Next]_vars => [Slot!Next]_(Slot!slotVars)
<1> SUFFICES ASSUME SlotInv, SlotInv', [Next]_vars
             PROVE  [Slot!Next]_(Slot!slotVars)
  OBVIOUS
<1>1. ASSUME NEW l \in 0..1, NEW r \in Reasons \cup {user_tag}, NEW s \in Snaps \ used,
             Trigger(l, r, s)
      PROVE Slot!Next
  BY <1>1, EnterAbandons DEF Trigger, Levels, SlotInv
<1>2. ASSUME NEW l \in FaultLevels, NEW c \in FaultCauses, NEW s \in Snaps \ used,
             Fault(l, c, s)
      PROVE Slot!Next
  BY <1>2, EnterAbandons DEF Fault, Levels, FaultLevels, SlotInv
<1>3. ASSUME LockUp
      PROVE Slot!Next
  <2>1. UNCHANGED <<wire, newest, received, losses>>
    BY <1>3 DEF LockUp, histVars, budgets
  <2>2. pc'[3] = "lockup" /\ \A k \in Levels : Running(k)' => k = 3
    BY <1>3 DEF LockUp, Running, Levels, SlotInv, TypeOK
  <2> QED
    BY <2>1, <2>2, IsAbandon DEF Committing
<1>4. ASSUME NEW l \in Levels, NEW p \in Parts, Store(l, p)
      PROVE [Slot!Next]_(Slot!slotVars)
  BY <1>4, StoreClaims
<1>5. ASSUME NEW l \in Levels, NEW p \in Parts, TearStore(l, p)
      PROVE UNCHANGED Slot!slotVars
  <2>1. Running(l) /\ pc[l] \in {"commit", "sealed"} /\ p # "magic"
    BY <1>5, PayloadFacts DEF TearStore, MayStore, MaySeal
  <2>2. "magic" \notin todo[l]
    BY <1>5, OnlyMagicFirst DEF TearStore
  <2>3. UNCHANGED <<pc, todo, newest, received, losses>> /\ wire'["magic"] = wire["magic"]
    BY <1>5, <2>1, PayloadFacts DEF TearStore, panicVars, histVars, budgets, SlotInv,
                                    TypeOK, Wires
  <2> QED
    BY <2>1, <2>2, <2>3, HiddenStutters
<1>6. ASSUME NEW l \in Levels, Seal(l)
      PROVE UNCHANGED Slot!slotVars
  <2>1. Running(l) /\ pc[l] = "commit"
    BY <1>6 DEF Seal, MaySeal
  <2>2. "magic" \notin todo[l]
    BY <1>6, OnlyMagicFirst DEF Seal
  <2>3. /\ UNCHANGED <<todo, newest, received, losses>> /\ wire'["magic"] = wire["magic"]
        /\ pc' = [pc EXCEPT ![l] = "sealed"]
    BY <1>6, PayloadFacts DEF Seal, budgets, SlotInv, TypeOK, Wires
  <2> QED
    BY <2>1, <2>2, <2>3, HiddenStutters
<1>7. ASSUME NEW l \in Levels, Publish(l)
      PROVE Slot!Next
  BY <1>7, PublishPublishes
<1>8. ASSUME NEW l \in Levels, Finish(l)
      PROVE Slot!Next
  BY <1>8, FinishAbandons
<1>9. ASSUME Check
      PROVE Slot!Next
  <2>1. UNCHANGED <<wire, newest, received, losses, pc>> /\ Calm
    BY <1>9 DEF Check, panicVars, histVars, budgets
  <2> QED
    BY <2>1, StillCalm, IsAbandon DEF Committing
<1>10. ASSUME Export
       PROVE Slot!Next
  BY <1>10, ExportDelivers
<1>11. ASSUME ClearPart \/ TearClear
       PROVE Slot!Next
  BY <1>11, ClearDiscards
<1>12. ASSUME WatchdogReset
       PROVE Slot!Next
  BY <1>12, RestartCalm, IsAbandon DEF WatchdogReset, histVars, budgets, Committing
<1>13. ASSUME NEW lost \in Decays, NEW forget \in BOOLEAN,
              PowerCycle(lost, forget) \/ StackOverflow(lost, forget)
       PROVE Slot!Next
  BY <1>13, SpoilLoses
<1>14. ASSUME UNCHANGED vars \/ (\E t \in Tags : SetUserTag(t))
       PROVE UNCHANGED Slot!slotVars
  <2>1. UNCHANGED <<wire, newest, received, losses, pc, todo>>
    BY <1>14 DEF vars, SetUserTag, panicVars, histVars, budgets
  <2> QED
    BY <2>1 DEF Slot!slotVars, Valid, PayloadOf, Committing, Running
<1> QED
  BY <1>1, <1>2, <1>3, <1>4, <1>5, <1>6, <1>7, <1>8, <1>9, <1>10, <1>11, <1>12,
     <1>13, <1>14 DEF Next

\* The slot, written and cleared byte by byte under resets, stacked panics and decay,
\* is a mailbox: filled in one step with the newest panic, at most once for each, and
\* emptied only for a newer one, after its own delivery (which takes boot code that
\* tests the export's status), or in a step that counts a failure of the memory.
THEOREM SlotIsMailbox ==
  MagicFirst /\ ChecksStatus /\ JunkApart => (Spec => SlotSpec)
<1> SUFFICES ASSUME MagicFirst, ChecksStatus, JunkApart PROVE Spec => SlotSpec
  OBVIOUS
<1>1. Spec => []SlotInv
  <2>1. Spec => []TypeOK /\ []CommitInv /\ []ExportInv /\ []MarkerInv
    BY TypeCorrect, CommitInvHolds, ExportInvHolds, MarkerInvHolds
  <2>2. Spec => []CaptureInv
    BY <2>1, CaptureInvInit, CaptureInvStep, PTL DEF Spec
  <2> QED
    BY <2>1, <2>2, PTL DEF SlotInv
<1>2. SlotInv /\ SlotInv' /\ [Next]_vars => [Slot!Next]_(Slot!slotVars)
  BY StepRefines
<1> QED
  BY <1>1, <1>2, StartsEmpty, PTL DEF Spec, SlotSpec, Slot!Spec
=============================================================================
