-------------------------- MODULE PanicDump_proofs --------------------------
(***************************************************************************)
(* Theorems about PanicDump for every number of panics, every set of tags  *)
(* and causes, every store order the compiler may choose, every pattern of *)
(* RAM decay and every setting of the build switches.                      *)
(***************************************************************************)
EXTENDS PanicDump, TLAPS

-----------------------------------------------------------------------------
(* What the values are. *)

LEMMA ScalarFacts ==
  /\ {Ident, Magic, Zero, Torn, Junk} \subseteq Scalars
  /\ Snaps \subseteq Scalars
  /\ Causes \subseteq Scalars
  /\ TagValues \subseteq Scalars
BY DEF Scalars

LEMMA RankFacts ==
  /\ \A p \in Parts : Rank[p] \in 1..7
  /\ \A p, q \in Parts : Rank[p] = Rank[q] => p = q
BY DEF Rank, Parts

LEMMA PayloadFacts ==
  /\ Payload = {"ident", "cause", "user_tag", "regs", "stack"}
  /\ Payload \subseteq Parts
  /\ "magic" \in Parts /\ "crc32" \in Parts
BY DEF Payload, Parts

\* Storing a scalar in a part of an image, or a CRC in its crc32 part, and
\* overwriting several parts with one scalar, give an image again.
LEMMA WireUpdate ==
  ASSUME NEW w \in Wires, NEW p \in Parts, NEW v \in Scalars
  PROVE  [w EXCEPT ![p] = v] \in Wires
BY DEF Wires

LEMMA WireSeal ==
  ASSUME NEW w \in Wires, NEW v \in Images
  PROVE  [w EXCEPT !["crc32"] = v] \in Wires
BY PayloadFacts DEF Wires

LEMMA WireSpoil ==
  ASSUME NEW w \in Wires, NEW S, NEW v \in Scalars
  PROVE  [p \in Parts |-> IF p \in S THEN v ELSE w[p]] \in Wires
BY DEF Wires

LEMMA WireMerge ==
  ASSUME NEW w \in Wires, NEW x \in Wires, NEW n
  PROVE  [p \in Parts |-> IF Rank[p] = n THEN w[p] ELSE x[p]] \in Wires
BY DEF Wires

LEMMA WireRank ==
  ASSUME NEW w \in Wires, NEW n, NEW v \in Scalars
  PROVE  [p \in Parts |-> IF Rank[p] = n THEN v ELSE w[p]] \in Wires
BY DEF Wires

LEMMA PayloadOfWire ==
  ASSUME NEW w \in Wires
  PROVE  PayloadOf(w) \in Images
BY PayloadFacts DEF Wires, Images, PayloadOf

LEMMA BlankFacts ==
  /\ AllIdle \in [Levels -> {"idle", "commit", "sealed", "published", "halted", "lockup"}]
  /\ NothingToDo \in [Levels -> SUBSET Parts]
  /\ NoImages \in [Levels -> Images]
  /\ NoReasons \in [Levels -> TagValues]
  /\ NothingSent \in Wires
<1>1. NoImage \in Images
  BY ScalarFacts DEF NoImage, Images
<1>2. NothingSent \in Wires
  BY ScalarFacts DEF NothingSent, Wires
<1> QED
  BY <1>1, <1>2 DEF AllIdle, NothingToDo, NoImages, NoReasons, TagValues

-----------------------------------------------------------------------------
(* Type correctness. *)

LEMMA RestartTyped ==
  ASSUME Restart
  PROVE  /\ pc' \in [Levels -> {"idle", "commit", "sealed", "published", "halted", "lockup"}]
         /\ todo' \in [Levels -> SUBSET Parts]
         /\ img' \in [Levels -> Images]
         /\ reason' \in [Levels -> TagValues]
         /\ main' \in {"boot", "export", "clear", "app"}
         /\ pos' \in 0..8 /\ (main' = "clear" => pos' \in 1..7)
         /\ sent' \in Wires
BY BlankFacts DEF Restart

LEMMA InitTyped == Init => TypeOK
<1> SUFFICES ASSUME Init PROVE TypeOK
  OBVIOUS
<1>1. wire \in Wires
  BY ScalarFacts DEF Init, Wires
<1>2. newest \in Scalars /\ user_tag \in TagValues /\ lastSet \in TagValues
  BY ScalarFacts DEF Init, TagValues
<1>3. resets \in 0..MaxResets /\ losses \in 0..MaxLosses
  BY BoundAssumption DEF Init
<1> QED
  BY <1>1, <1>2, <1>3, BlankFacts DEF Init, TypeOK

\* A commit starts with a well-typed image to store.
LEMMA EnterTyped ==
  ASSUME TypeOK, NEW l \in Levels, NEW c \in Causes, NEW s \in Snaps, Enter(l, c, s)
  PROVE  /\ pc' \in [Levels -> {"idle", "commit", "sealed", "published", "halted", "lockup"}]
         /\ todo' \in [Levels -> SUBSET Parts]
         /\ img' \in [Levels -> Images]
         /\ used' \subseteq Snaps
<1> DEFINE I == [p \in Payload |-> CASE p = "ident" -> Ident
                                     [] p = "cause" -> c
                                     [] p = "user_tag" -> Zero
                                     [] OTHER -> s]
<1>1. I \in Images
  BY ScalarFacts, PayloadFacts DEF Images
<1>2. img' = [img EXCEPT ![l] = I]
  BY DEF Enter
<1> HIDE DEF I
<1>3. img' \in [Levels -> Images]
  BY <1>1, <1>2 DEF TypeOK
<1> QED
  BY <1>3 DEF Enter, TypeOK

LEMMA StoredValueTyped ==
  ASSUME TypeOK, NEW l \in Levels, NEW p \in Parts
  PROVE  StoredValue(l, p) \in Scalars
<1>1. CASE p \in {"magic", "crc32"}
  BY <1>1, ScalarFacts DEF StoredValue
<1>2. CASE p = "user_tag"
  BY <1>2, ScalarFacts DEF StoredValue, TypeOK
<1>3. CASE p \in Payload \ {"user_tag"}
  BY <1>3, PayloadFacts DEF StoredValue, TypeOK, Images
<1> QED
  BY <1>1, <1>2, <1>3 DEF Payload

LEMMA ReadBackTyped ==
  ASSUME TypeOK, NEW l \in Levels
  PROVE  ReadBack(l) \in Images
BY PayloadFacts DEF ReadBack, TypeOK, Images, Wires

LEMMA StepTyped == TypeOK /\ [Next]_vars => TypeOK'
<1> SUFFICES ASSUME TypeOK, [Next]_vars PROVE TypeOK'
  OBVIOUS
<1>1. ASSUME NEW l \in 0..1, NEW r \in Reasons \cup {user_tag}, NEW s \in Snaps \ used,
             Trigger(l, r, s)
      PROVE TypeOK'
  <2>1. l \in Levels /\ SwTrigger \in Causes /\ s \in Snaps /\ r \in TagValues
    BY <1>1 DEF Levels, Causes, TagValues, TypeOK
  <2>2. Enter(l, SwTrigger, s)
    BY <1>1 DEF Trigger
  <2>3. /\ pc' \in [Levels -> {"idle", "commit", "sealed", "published", "halted", "lockup"}]
        /\ todo' \in [Levels -> SUBSET Parts]
        /\ img' \in [Levels -> Images]
        /\ used' \subseteq Snaps
    BY <2>1, <2>2, EnterTyped
  <2>4. reason' \in [Levels -> TagValues] /\ user_tag' \in TagValues
    BY <1>1, <2>1 DEF Trigger, TypeOK
  <2> QED
    BY <2>2, <2>3, <2>4
    DEF Enter, TypeOK, threadVars, budgets
<1>2. ASSUME NEW l \in FaultLevels, NEW c \in FaultCauses, NEW s \in Snaps \ used,
             Fault(l, c, s)
      PROVE TypeOK'
  <2>1. l \in Levels /\ c \in Causes /\ s \in Snaps
    BY <1>2 DEF Levels, FaultLevels, Causes
  <2>2. Enter(l, c, s)
    BY <1>2 DEF Fault
  <2>3. /\ pc' \in [Levels -> {"idle", "commit", "sealed", "published", "halted", "lockup"}]
        /\ todo' \in [Levels -> SUBSET Parts]
        /\ img' \in [Levels -> Images]
        /\ used' \subseteq Snaps
    BY <2>1, <2>2, EnterTyped
  <2> QED
    BY <1>2, <2>2, <2>3
    DEF Fault, Enter, TypeOK, threadVars, budgets
<1>3. CASE LockUp
  BY <1>3 DEF LockUp, TypeOK, threadVars, histVars, budgets
<1>4. ASSUME NEW l \in Levels, NEW p \in Parts, Store(l, p)
      PROVE TypeOK'
  <2>1. wire' \in Wires
    BY <1>4, StoredValueTyped, WireUpdate DEF Store, TypeOK
  <2>2. todo' \in [Levels -> SUBSET Parts]
    BY <1>4 DEF Store, TypeOK
  <2>3. img' \in [Levels -> Images]
    <3>1. [img[l] EXCEPT !["user_tag"] = user_tag] \in Images
      BY ScalarFacts DEF TypeOK, Images
    <3>2. [img EXCEPT ![l]["user_tag"] = user_tag]
            = [img EXCEPT ![l] = [img[l] EXCEPT !["user_tag"] = user_tag]]
      BY DEF TypeOK, Images
    <3> QED
      BY <1>4, <3>1, <3>2 DEF Store, TypeOK
  <2>4. newest' \in Scalars
    BY <1>4, PayloadFacts DEF Store, TypeOK, Images
  <2> QED
    BY <1>4, <2>1, <2>2, <2>3, <2>4 DEF Store, TypeOK, threadVars, budgets
<1>5. ASSUME NEW l \in Levels, NEW p \in Parts, TearStore(l, p)
      PROVE TypeOK'
  <2>1. wire' \in Wires
    BY <1>5, ScalarFacts, WireUpdate DEF TearStore, TypeOK
  <2> QED
    BY <1>5, <2>1 DEF TearStore, TypeOK, panicVars, threadVars, histVars, budgets
<1>6. ASSUME NEW l \in Levels, Seal(l)
      PROVE TypeOK'
  <2>1. wire' \in Wires
    BY <1>6, ReadBackTyped, WireSeal DEF Seal, TypeOK
  <2> QED
    BY <1>6, <2>1 DEF Seal, TypeOK, threadVars, budgets
<1>7. ASSUME NEW l \in Levels, Publish(l)
      PROVE TypeOK'
  <2>1. wire' \in Wires
    BY <1>7, ScalarFacts, PayloadFacts, WireUpdate DEF Publish, TypeOK
  <2> QED
    BY <1>7, <2>1 DEF Publish, TypeOK, threadVars, histVars, budgets
<1>8. ASSUME NEW l \in Levels, Finish(l)
      PROVE TypeOK'
  <2>1. CASE HaltOnFault /\ l \in FaultLevels
    BY <1>8, <2>1 DEF Finish, TypeOK, threadVars, histVars, budgets
  <2>2. CASE ~(HaltOnFault /\ l \in FaultLevels)
    BY <1>8, <2>2, RestartTyped DEF Finish, TypeOK, histVars, budgets
  <2> QED
    BY <2>1, <2>2
<1>9. CASE Check
  BY <1>9, BlankFacts DEF Check, TypeOK, panicVars, histVars, budgets
<1>10. CASE Export
  <2>1. CASE SendPart
    <3>1. wire \in Wires /\ sent \in Wires
      BY DEF TypeOK
    <3>2. [p \in Parts |-> IF Rank[p] = pos THEN wire[p] ELSE sent[p]] \in Wires
      BY <3>1, WireMerge
    <3>3. sent' \in Wires
      BY <2>1, <3>2 DEF SendPart
    <3> QED
      BY <1>10, <2>1, <3>3 DEF Export, SendPart, TypeOK, panicVars, budgets
  <2>2. CASE SendEnd
    BY <1>10, <2>2 DEF Export, SendEnd, TypeOK, panicVars, budgets
  <2>3. CASE SendFails
    BY <1>10, <2>3 DEF Export, SendFails, TypeOK, panicVars, budgets
  <2> QED
    BY <1>10, <2>1, <2>2, <2>3 DEF Export
<1>11. CASE ClearPart
  <2>1. wire' \in Wires
    <3>1. wire \in Wires /\ Zero \in Scalars
      BY ScalarFacts DEF TypeOK
    <3>2. [p \in Parts |-> IF Rank[p] = pos THEN Zero ELSE wire[p]] \in Wires
      BY <3>1, WireRank
    <3> QED
      BY <1>11, <3>2 DEF ClearPart
  <2> QED
    BY <1>11, <2>1 DEF ClearPart, TypeOK, panicVars, histVars, budgets
<1>12. CASE TearClear
  <2>1. wire' \in Wires
    <3>1. wire \in Wires /\ Torn \in Scalars
      BY ScalarFacts DEF TypeOK
    <3>2. [p \in Parts |-> IF Rank[p] = pos THEN Torn ELSE wire[p]] \in Wires
      BY <3>1, WireRank
    <3> QED
      BY <1>12, <3>2 DEF TearClear
  <2> QED
    BY <1>12, <2>1 DEF TearClear, TypeOK, panicVars, threadVars, histVars, budgets
<1>13. ASSUME NEW t \in Tags, SetUserTag(t)
       PROVE TypeOK'
  BY <1>13 DEF SetUserTag, TypeOK, TagValues, panicVars, threadVars, budgets
<1>14. CASE WatchdogReset
  <2>1. resets' \in 0..MaxResets
    BY <1>14, BoundAssumption DEF WatchdogReset, TypeOK
  <2> QED
    BY <1>14, <2>1, RestartTyped DEF WatchdogReset, TypeOK, histVars
<1>15. ASSUME NEW lost \in Decays, NEW forget \in BOOLEAN,
              PowerCycle(lost, forget) \/ StackOverflow(lost, forget)
       PROVE TypeOK'
  <2> Spoil(lost, forget)
    BY <1>15 DEF PowerCycle, StackOverflow
  <2>1. losses' \in 0..MaxLosses
    BY BoundAssumption DEF Spoil, TypeOK
  <2>2. wire' \in Wires
    <3>1. wire \in Wires /\ Junk \in Scalars
      BY ScalarFacts DEF TypeOK
    <3>2. [p \in Parts |-> IF p \in lost THEN Junk ELSE wire[p]] \in Wires
      BY <3>1, WireSpoil
    <3> QED
      BY <3>2 DEF Spoil
  <2>3. user_tag' \in TagValues /\ lastSet' \in TagValues
    BY DEF Spoil, TypeOK, TagValues
  <2>4. CASE PowerCycle(lost, forget)
    BY <2>4, <2>1, <2>2, <2>3, RestartTyped DEF PowerCycle, Spoil, TypeOK
  <2>5. CASE StackOverflow(lost, forget)
    BY <2>5, <2>1, <2>2, <2>3 DEF StackOverflow, Spoil, TypeOK, panicVars, threadVars
  <2> QED
    BY <1>15, <2>4, <2>5
<1>16. CASE UNCHANGED vars
  BY <1>16 DEF vars, panicVars, threadVars, histVars, budgets, TypeOK
<1> QED
  BY <1>1, <1>2, <1>3, <1>4, <1>5, <1>6, <1>7, <1>8, <1>9, <1>10, <1>11,
     <1>12, <1>13, <1>14, <1>15, <1>16 DEF Next

\* Every variable keeps to its type, whatever the constants are.
THEOREM TypeCorrect == Spec => []TypeOK
BY InitTyped, StepTyped, PTL DEF Spec


-----------------------------------------------------------------------------
(* What the commit in progress has done to the slot.  NoTornDump is not      *)
(* inductive: that the CRC reads back exactly the capture of the panic that  *)
(* computes it depends on every part that panic has stored so far still      *)
(* being there, which in turn depends on no preempted panic ever resuming.   *)

CrcSealed == wire["crc32"] \in sealed \cup {Zero, Torn, Junk}

Stored(l) ==
  /\ \A p \in Payload \ todo[l] : wire[p] = img[l][p]
  /\ img[l]["ident"] = Ident /\ img[l]["cause"] \in Causes
  /\ pc[l] # "commit" =>
       /\ todo[l] \cap {"crc32", "user_tag"} = {}
       /\ wire["crc32"] = img[l] /\ img[l] \in sealed
  /\ pc[l] \in {"published", "halted"} => todo[l] = {} /\ wire["magic"] = Magic

CommitInv ==
  /\ CrcSealed
  /\ \A l \in Levels : Running(l) /\ pc[l] # "lockup" => Stored(l)

\* At most one panic runs, and none does while the boot thread may.
LEMMA RunningUnique ==
  ASSUME NEW k \in Levels, NEW l \in Levels, Running(k), Running(l)
  PROVE  k = l
BY DEF Running, Levels

LEMMA RunningNotCalm ==
  ASSUME NEW l \in Levels, Running(l)
  PROVE  ~Calm
BY DEF Running, Calm

\* A panic that starts is the one that runs, whatever it preempted.
LEMMA EnterRuns ==
  ASSUME TypeOK, NEW l \in Levels, NEW c, NEW s, Enter(l, c, s),
         NEW k \in Levels, Running(k)'
  PROVE  k = l
BY DEF Enter, Running, Levels, TypeOK

LEMMA RestartCalm ==
  ASSUME Restart
  PROVE  Calm' /\ \A l \in Levels : ~Running(l)'
BY DEF Restart, AllIdle, Calm, Running

\* The CRC is computed over the image the panic means to store.
LEMMA ReadBackIsImage ==
  ASSUME TypeOK, NEW l \in Levels, Stored(l)
  PROVE  ReadBack(l) = img[l]
<1>1. \A p \in Payload : ReadBack(l)[p] = img[l][p]
  BY DEF ReadBack, Stored
<1>2. img[l] = [p \in Payload |-> img[l][p]]
  BY DEF TypeOK, Images
<1>3. ReadBack(l) = [p \in Payload |-> img[l][p]]
  BY <1>1 DEF ReadBack
<1> QED
  BY <1>2, <1>3

LEMMA EnterCommitInv ==
  ASSUME TypeOK, CommitInv, NEW l \in Levels, NEW c \in Causes, NEW s, Enter(l, c, s)
  PROVE  CommitInv'
<1>1. CrcSealed'
  BY DEF Enter, CrcSealed, CommitInv
<1>2. ASSUME NEW k \in Levels, Running(k)'
      PROVE Stored(k)'
  <2>1. k = l
    BY <1>2, EnterRuns
  <2>2. pc'[l] = "commit" /\ todo'[l] = Parts
    BY DEF Enter, TypeOK
  <2>3. img'[l]["ident"] = Ident /\ img'[l]["cause"] = c
    BY PayloadFacts DEF Enter, TypeOK
  <2> QED
    BY <2>1, <2>2, <2>3, PayloadFacts DEF Stored
<1> QED
  BY <1>1, <1>2 DEF CommitInv

LEMMA StoreCommitInv ==
  ASSUME TypeOK, CommitInv, NEW l \in Levels, NEW p \in Parts, Store(l, p)
  PROVE  CommitInv'
<1>1. Running(l) /\ Stored(l) /\ p \in todo[l] /\ pc[l] \in {"commit", "sealed"}
  BY DEF Store, MayStore, CommitInv
<1>2. pc' = pc /\ sealed' = sealed /\ todo'[l] = todo[l] \ {p}
  BY DEF Store, TypeOK
<1>3. /\ wire'[p] = StoredValue(l, p)
      /\ \A q \in Parts \ {p} : wire'[q] = wire[q]
  BY DEF Store, TypeOK, Wires
<1>4. /\ \A q \in Payload \ {"user_tag"} : img'[l][q] = img[l][q]
      /\ p = "user_tag" => img'[l]["user_tag"] = user_tag
      /\ p # "user_tag" => img'[l] = img[l]
  BY PayloadFacts DEF Store, TypeOK, Images
<1>5. CrcSealed'
  <2>1. CASE p = "crc32"
    BY <2>1, <1>3 DEF StoredValue, CrcSealed
  <2>2. CASE p # "crc32"
    BY <2>2, <1>2, <1>3, PayloadFacts DEF CrcSealed, CommitInv
  <2> QED
    BY <2>1, <2>2
<1>6. Stored(l)'
  <2>1. ASSUME NEW q \in Payload \ todo'[l]
        PROVE wire'[q] = img'[l][q]
    <3>1. CASE q = p
      BY <3>1, <1>3, <1>4, PayloadFacts DEF StoredValue
    <3>2. CASE q # p
      <4>1. wire'[q] = img[l][q]
        BY <3>2, <1>1, <1>2, <1>3, PayloadFacts DEF Stored
      <4>2. img'[l][q] = img[l][q]
        BY <3>2, <1>4
      <4> QED
        BY <4>1, <4>2
    <3> QED
      BY <3>1, <3>2
  <2>2. img'[l]["ident"] = Ident /\ img'[l]["cause"] \in Causes
    BY <1>1, <1>4, PayloadFacts DEF Stored
  <2>3. ASSUME pc'[l] # "commit"
        PROVE /\ todo'[l] \cap {"crc32", "user_tag"} = {}
              /\ wire'["crc32"] = img'[l] /\ img'[l] \in sealed'
    <3>1. p \notin {"crc32", "user_tag"}
      BY <2>3, <1>1, <1>2 DEF Stored
    <3>2. wire'["crc32"] = wire["crc32"]
      BY <3>1, <1>3, PayloadFacts
    <3> QED
      BY <2>3, <3>1, <3>2, <1>1, <1>2, <1>4 DEF Stored
  <2>4. pc'[l] \notin {"published", "halted"}
    BY <1>1, <1>2
  <2> QED
    BY <2>1, <2>2, <2>3, <2>4 DEF Stored
<1>7. \A k \in Levels : Running(k)' => k = l
  BY <1>1, <1>2, RunningUnique DEF Running
<1> QED
  BY <1>5, <1>6, <1>7 DEF CommitInv

LEMMA TearStoreCommitInv ==
  ASSUME TypeOK, CommitInv, NEW l \in Levels, NEW p \in Parts, TearStore(l, p)
  PROVE  CommitInv'
<1>1. Running(l) /\ Stored(l) /\ pc[l] \in {"commit", "sealed"}
  BY DEF TearStore, MayStore, MaySeal, CommitInv
<1>2. UNCHANGED <<pc, todo, img, sealed>>
  BY DEF TearStore, panicVars, histVars
<1>3. /\ wire'[p] = Torn
      /\ \A q \in Parts \ {p} : wire'[q] = wire[q]
  BY DEF TearStore, TypeOK, Wires
<1>4. p \in todo[l] \/ (p = "crc32" /\ pc[l] = "commit")
  BY DEF TearStore, MayStore, MaySeal
<1>5. CrcSealed'
  <2>1. CASE p = "crc32"
    BY <2>1, <1>3 DEF CrcSealed
  <2>2. CASE p # "crc32"
    BY <2>2, <1>2, <1>3, PayloadFacts DEF CrcSealed, CommitInv
  <2> QED
    BY <2>1, <2>2
<1>6. Stored(l)'
  <2>1. \A q \in Payload \ todo[l] : q # p
    BY <1>4 DEF Payload
  <2>2. \A q \in Payload \ todo'[l] : wire'[q] = img'[l][q]
    BY <2>1, <1>1, <1>2, <1>3, PayloadFacts DEF Stored
  <2>3. pc[l] # "commit" => wire'["crc32"] = wire["crc32"]
    BY <1>1, <1>3, <1>4, PayloadFacts DEF Stored
  <2> QED
    BY <2>2, <2>3, <1>1, <1>2 DEF Stored
<1>7. \A k \in Levels : Running(k)' => k = l
  BY <1>1, <1>2, RunningUnique DEF Running
<1> QED
  BY <1>5, <1>6, <1>7 DEF CommitInv

LEMMA SealCommitInv ==
  ASSUME TypeOK, CommitInv, NEW l \in Levels, Seal(l)
  PROVE  CommitInv'
<1>1. Running(l) /\ Stored(l) /\ pc[l] = "commit" /\ todo[l] \cap {"crc32", "user_tag"} = {}
  BY DEF Seal, MaySeal, CommitInv
<1>2. UNCHANGED <<todo, img>> /\ pc' = [pc EXCEPT ![l] = "sealed"] /\ sealed' = sealed \cup {img[l]}
  BY DEF Seal
<1>3. /\ wire'["crc32"] = img[l]
      /\ \A q \in Parts \ {"crc32"} : wire'[q] = wire[q]
  <2>1. wire' = [wire EXCEPT !["crc32"] = img[l]]
    BY <1>1, ReadBackIsImage DEF Seal
  <2> QED
    BY <2>1, PayloadFacts DEF TypeOK, Wires
<1>4. CrcSealed'
  BY <1>2, <1>3 DEF CrcSealed
<1>5. Stored(l)'
  <2>1. \A q \in Payload \ todo'[l] : wire'[q] = img'[l][q]
    BY <1>1, <1>2, <1>3, PayloadFacts DEF Stored
  <2>2. pc'[l] = "sealed"
    BY <1>2 DEF TypeOK
  <2> QED
    BY <2>1, <2>2, <1>1, <1>2, <1>3 DEF Stored
<1>6. \A k \in Levels : Running(k)' => k = l
  BY <1>1, <1>2, RunningUnique DEF Running, TypeOK
<1> QED
  BY <1>4, <1>5, <1>6 DEF CommitInv

LEMMA PublishCommitInv ==
  ASSUME TypeOK, CommitInv, NEW l \in Levels, Publish(l)
  PROVE  CommitInv'
<1>1. Running(l) /\ Stored(l) /\ pc[l] = "sealed" /\ todo[l] = {}
  BY DEF Publish, CommitInv
<1>2. UNCHANGED <<todo, img, sealed>> /\ pc' = [pc EXCEPT ![l] = "published"]
  BY DEF Publish, histVars
<1>3. /\ wire'["magic"] = Magic
      /\ \A q \in Parts \ {"magic"} : wire'[q] = wire[q]
  BY PayloadFacts DEF Publish, TypeOK, Wires
<1>4. CrcSealed'
  BY <1>2, <1>3, PayloadFacts DEF CrcSealed, CommitInv
<1>5. Stored(l)'
  <2>1. \A q \in Payload \ todo'[l] : wire'[q] = img'[l][q]
    BY <1>1, <1>2, <1>3, PayloadFacts DEF Stored, Payload
  <2>2. wire'["crc32"] = img[l]
    BY <1>1, <1>3, PayloadFacts DEF Stored
  <2> QED
    BY <2>1, <2>2, <1>1, <1>2, <1>3 DEF Stored
<1>6. \A k \in Levels : Running(k)' => k = l
  BY <1>1, <1>2, RunningUnique DEF Running, TypeOK
<1> QED
  BY <1>4, <1>5, <1>6 DEF CommitInv

LEMMA FinishCommitInv ==
  ASSUME TypeOK, CommitInv, NEW l \in Levels, Finish(l)
  PROVE  CommitInv'
<1>1. Running(l) /\ Stored(l) /\ pc[l] = "published"
  BY DEF Finish, CommitInv
<1>2. UNCHANGED <<wire, sealed>>
  BY DEF Finish, histVars
<1>3. CrcSealed'
  BY <1>2 DEF CrcSealed, CommitInv
<1>4. CASE HaltOnFault /\ l \in FaultLevels
  <2>1. UNCHANGED <<todo, img>> /\ pc' = [pc EXCEPT ![l] = "halted"]
    BY <1>4 DEF Finish
  <2>2. Stored(l)'
    BY <2>1, <1>1, <1>2 DEF Stored, TypeOK
  <2>3. \A k \in Levels : Running(k)' => k = l
    BY <2>1, <1>1, RunningUnique DEF Running, TypeOK
  <2> QED
    BY <2>2, <2>3, <1>3 DEF CommitInv
<1>5. CASE ~(HaltOnFault /\ l \in FaultLevels)
  BY <1>3, <1>5, RestartCalm DEF Finish, CommitInv
<1> QED
  BY <1>4, <1>5

\* Steps of the boot thread touch the slot only while no panic runs, and leave
\* no CRC behind that was not there.
LEMMA CalmCommitInv ==
  ASSUME TypeOK, CommitInv, Calm, UNCHANGED <<panicVars, sealed>>,
         wire'["crc32"] \in {wire["crc32"], Zero, Torn, Junk}
  PROVE  CommitInv'
<1>1. \A l \in Levels : ~Running(l)'
  BY DEF Calm, Running, panicVars
<1>2. CrcSealed'
  BY DEF CrcSealed, CommitInv
<1> QED
  BY <1>1, <1>2 DEF CommitInv

LEMMA RestartCommitInv ==
  ASSUME TypeOK, CommitInv, Restart, UNCHANGED sealed,
         wire'["crc32"] \in {wire["crc32"], Junk}
  PROVE  CommitInv'
<1>1. CrcSealed'
  BY DEF CrcSealed, CommitInv
<1> QED
  BY <1>1, RestartCalm DEF CommitInv

LEMMA CommitInvInit == Init => CommitInv
<1> SUFFICES ASSUME Init PROVE CommitInv
  OBVIOUS
<1>1. CrcSealed
  BY PayloadFacts DEF Init, CrcSealed
<1>2. \A l \in Levels : ~Running(l)
  BY DEF Init, AllIdle, Running
<1> QED
  BY <1>1, <1>2 DEF CommitInv

LEMMA CommitInvStep == TypeOK /\ CommitInv /\ [Next]_vars => CommitInv'
<1> SUFFICES ASSUME TypeOK, CommitInv, [Next]_vars PROVE CommitInv'
  OBVIOUS
<1>1. ASSUME NEW l \in 0..1, NEW r \in Reasons \cup {user_tag}, NEW s \in Snaps \ used,
             Trigger(l, r, s)
      PROVE CommitInv'
  <2>1. l \in Levels /\ SwTrigger \in Causes /\ Enter(l, SwTrigger, s)
    BY <1>1 DEF Levels, Causes, Trigger
  <2> QED
    BY <2>1, EnterCommitInv
<1>2. ASSUME NEW l \in FaultLevels, NEW c \in FaultCauses, NEW s \in Snaps \ used,
             Fault(l, c, s)
      PROVE CommitInv'
  <2>1. l \in Levels /\ c \in Causes /\ Enter(l, c, s)
    BY <1>2 DEF Levels, FaultLevels, Causes, Fault
  <2> QED
    BY <2>1, EnterCommitInv
<1>3. CASE LockUp
  <2>1. CrcSealed'
    BY <1>3 DEF LockUp, CrcSealed, CommitInv, histVars
  <2>2. pc'[3] = "lockup" /\ \A k \in Levels : Running(k)' => k = 3
    BY <1>3 DEF LockUp, Running, Levels, TypeOK
  <2> QED
    BY <2>1, <2>2 DEF CommitInv
<1>4. ASSUME NEW l \in Levels, NEW p \in Parts, Store(l, p)
      PROVE CommitInv'
  BY <1>4, StoreCommitInv
<1>5. ASSUME NEW l \in Levels, NEW p \in Parts, TearStore(l, p)
      PROVE CommitInv'
  BY <1>5, TearStoreCommitInv
<1>6. ASSUME NEW l \in Levels, Seal(l)
      PROVE CommitInv'
  BY <1>6, SealCommitInv
<1>7. ASSUME NEW l \in Levels, Publish(l)
      PROVE CommitInv'
  BY <1>7, PublishCommitInv
<1>8. ASSUME NEW l \in Levels, Finish(l)
      PROVE CommitInv'
  BY <1>8, FinishCommitInv
<1>9. CASE Check
  BY <1>9, CalmCommitInv DEF Check, histVars
<1>10. CASE Export
  BY <1>10, CalmCommitInv DEF Export
<1>11. CASE ClearPart
  <2>1. wire'["crc32"] \in {wire["crc32"], Zero, Torn}
    BY <1>11, PayloadFacts DEF ClearPart
  <2> QED
    BY <1>11, <2>1, CalmCommitInv DEF ClearPart, histVars
<1>12. CASE TearClear
  <2>1. wire'["crc32"] \in {wire["crc32"], Zero, Torn}
    BY <1>12, PayloadFacts DEF TearClear
  <2> QED
    BY <1>12, <2>1, CalmCommitInv DEF TearClear, histVars
<1>13. ASSUME NEW t \in Tags, SetUserTag(t)
       PROVE CommitInv'
  BY <1>13 DEF SetUserTag, panicVars, CommitInv, CrcSealed, Stored, Running
<1>14. CASE WatchdogReset
  BY <1>14, RestartCommitInv DEF WatchdogReset, histVars
<1>15. ASSUME NEW lost \in Decays, NEW forget \in BOOLEAN,
              PowerCycle(lost, forget) \/ StackOverflow(lost, forget)
       PROVE CommitInv'
  <2> Spoil(lost, forget)
    BY <1>15 DEF PowerCycle, StackOverflow
  <2>1. wire'["crc32"] \in {wire["crc32"], Junk}
    BY PayloadFacts DEF Spoil
  <2>2. CASE PowerCycle(lost, forget)
    BY <2>2, <2>1, RestartCommitInv DEF PowerCycle, Spoil
  <2>3. CASE StackOverflow(lost, forget)
    BY <2>3, <2>1, CalmCommitInv DEF StackOverflow, Spoil
  <2> QED
    BY <1>15, <2>2, <2>3
<1>16. CASE UNCHANGED vars
  BY <1>16 DEF vars, panicVars, histVars, CommitInv, CrcSealed, Stored, Running
<1> QED
  BY <1>1, <1>2, <1>3, <1>4, <1>5, <1>6, <1>7, <1>8, <1>9, <1>10, <1>11,
     <1>12, <1>13, <1>14, <1>15, <1>16 DEF Next

LEMMA CommitInvHolds == Spec => []CommitInv
<1>1. Spec => []TypeOK
  BY TypeCorrect
<1> QED
  BY <1>1, CommitInvInit, CommitInvStep, PTL DEF Spec

LEMMA CommitInvImplies == TypeOK /\ CommitInv => NoTornDump /\ DumpInPlace
<1> SUFFICES ASSUME TypeOK, CommitInv PROVE NoTornDump /\ DumpInPlace
  OBVIOUS
<1>1. NoTornDump
  <2> SUFFICES ASSUME Valid(wire) PROVE PayloadOf(wire) \in sealed
    BY DEF NoTornDump
  <2>1. wire["crc32"] = PayloadOf(wire) /\ PayloadOf(wire) \in Images
    BY PayloadOfWire DEF Valid, TypeOK
  <2>2. wire["crc32"] \notin {Zero, Torn, Junk}
    BY <2>1, CrcAssumption
  <2> QED
    BY <2>1, <2>2 DEF CommitInv, CrcSealed
<1>2. DumpInPlace
  <2> SUFFICES ASSUME NEW l \in Levels, Running(l), pc[l] \in {"published", "halted"}
               PROVE  Valid(wire) /\ PayloadOf(wire) = img[l]
    BY DEF DumpInPlace
  <2>1. Stored(l)
    BY DEF CommitInv
  <2>2. \A p \in Payload : wire[p] = img[l][p]
    BY <2>1 DEF Stored
  <2>3. PayloadOf(wire) = img[l]
    <3>1. img[l] = [p \in Payload |-> img[l][p]]
      BY DEF TypeOK, Images
    <3>2. PayloadOf(wire) = [p \in Payload |-> img[l][p]]
      BY <2>2 DEF PayloadOf
    <3> QED
      BY <3>1, <3>2
  <2> QED
    BY <2>1, <2>2, <2>3, PayloadFacts DEF Stored, Valid
<1> QED
  BY <1>1, <1>2

\* An image that validates is exactly one image that one panic sealed, at every
\* moment, whatever the compiler reorders, the resets interrupt or decay spoils.
THEOREM DumpsAreNeverTorn == Spec => []NoTornDump
<1>1. Spec => []TypeOK /\ []CommitInv
  BY TypeCorrect, CommitInvHolds
<1> QED
  BY <1>1, CommitInvImplies, PTL

\* A commit that runs to its end leaves a valid dump of its own panic.
THEOREM CommitsLeaveTheirDump == Spec => []DumpInPlace
<1>1. Spec => []TypeOK /\ []CommitInv
  BY TypeCorrect, CommitInvHolds
<1> QED
  BY <1>1, CommitInvImplies, PTL

-----------------------------------------------------------------------------
(* The tag of a trigger's dump.  While the commit of a trigger runs nobody    *)
(* else writes g_user_tag, unless interrupt handlers do: the thread is        *)
(* preempted, and a trigger on top of this one never gives the core back.     *)

Carries(l) ==
  /\ user_tag = reason[l]
  /\ "user_tag" \notin todo[l] => img[l]["user_tag"] = reason[l]

TagInv == \A l \in 0..1 : Running(l) => Carries(l)

LEMMA TagInvStep ==
  ASSUME ~IrqSetsTag, TypeOK, TagInv, [Next]_vars
  PROVE  TagInv'
<1>1. ASSUME NEW l \in 0..1, NEW r \in Reasons \cup {user_tag}, NEW s \in Snaps \ used,
             Trigger(l, r, s)
      PROVE TagInv'
  <2>1. l \in Levels /\ Enter(l, SwTrigger, s)
    BY <1>1 DEF Trigger, Levels
  <2>2. \A k \in 0..1 : Running(k)' => k = l
    BY <2>1, EnterRuns DEF Levels
  <2>3. user_tag' = r /\ reason'[l] = r /\ todo'[l] = Parts
    BY <1>1, <2>1 DEF Trigger, Enter, TypeOK
  <2> QED
    BY <2>2, <2>3, PayloadFacts DEF TagInv, Carries
<1>2. ASSUME NEW l \in FaultLevels, NEW c \in FaultCauses, NEW s \in Snaps \ used,
             Fault(l, c, s)
      PROVE TagInv'
  <2>1. l \in Levels /\ Enter(l, c, s)
    BY <1>2 DEF Fault, Levels, FaultLevels
  <2>2. \A k \in 0..1 : ~Running(k)'
    BY <2>1, EnterRuns DEF Levels, FaultLevels
  <2> QED
    BY <2>2 DEF TagInv
<1>3. CASE LockUp
  <2>1. \A k \in 0..1 : ~Running(k)'
    BY <1>3 DEF LockUp, Running, Levels, TypeOK
  <2> QED
    BY <2>1 DEF TagInv
<1>4. ASSUME NEW l \in Levels, NEW p \in Parts, Store(l, p)
      PROVE TagInv'
  <2>1. pc' = pc /\ user_tag' = user_tag /\ reason' = reason /\ Running(l)
    BY <1>4 DEF Store, MayStore
  <2>2. todo'[l] = todo[l] \ {p}
    BY <1>4 DEF Store, TypeOK
  <2>3. IF p = "user_tag" THEN img'[l]["user_tag"] = user_tag ELSE img'[l] = img[l]
    BY <1>4, PayloadFacts DEF Store, TypeOK, Images
  <2>4. \A k \in 0..1 : Running(k)' => k = l /\ Carries(k)
    BY <2>1, RunningUnique DEF Running, TagInv, Levels
  <2> QED
    BY <2>1, <2>2, <2>3, <2>4 DEF TagInv, Carries
<1>5. ASSUME NEW l \in Levels, NEW p \in Parts, TearStore(l, p)
      PROVE TagInv'
  BY <1>5 DEF TearStore, panicVars, TagInv, Carries, Running
<1>6. ASSUME NEW l \in Levels, Seal(l) \/ Publish(l)
      PROVE TagInv'
  <2>1. /\ UNCHANGED <<user_tag, todo, img, reason>>
        /\ Running(l)
        /\ \A k \in Levels : pc'[k] = "idle" <=> pc[k] = "idle"
    BY <1>6 DEF Seal, MaySeal, Publish, Running, TypeOK
  <2> QED
    BY <2>1 DEF TagInv, Carries, Running, Levels
<1>7. ASSUME NEW l \in Levels, Finish(l)
      PROVE TagInv'
  <2>1. CASE HaltOnFault /\ l \in FaultLevels
    <3>1. \A k \in 0..1 : ~Running(k)'
      BY <1>7, <2>1 DEF Finish, Running, FaultLevels, Levels, TypeOK
    <3> QED
      BY <3>1 DEF TagInv
  <2>2. CASE ~(HaltOnFault /\ l \in FaultLevels)
    BY <1>7, <2>2, RestartCalm DEF Finish, TagInv, Levels
  <2> QED
    BY <2>1, <2>2
<1>8. CASE Check \/ Export \/ ClearPart \/ TearClear
  BY <1>8 DEF Check, Export, ClearPart, TearClear, panicVars, TagInv, Carries, Running
<1>9. ASSUME NEW t \in Tags, SetUserTag(t)
      PROVE TagInv'
  <2>1. Calm /\ UNCHANGED pc
    BY <1>9 DEF SetUserTag, panicVars
  <2> QED
    BY <2>1 DEF TagInv, Calm, Running, Levels
<1>10. ASSUME NEW lost \in Decays, NEW forget \in BOOLEAN, PowerCycle(lost, forget)
       PROVE TagInv'
  BY <1>10, RestartCalm DEF PowerCycle, TagInv, Levels
<1>11. ASSUME NEW lost \in Decays, NEW forget \in BOOLEAN, StackOverflow(lost, forget)
       PROVE TagInv'
  BY <1>11 DEF StackOverflow, panicVars, TagInv, Calm, Running, Levels
<1>12. CASE WatchdogReset
  BY <1>12, RestartCalm DEF WatchdogReset, TagInv, Levels
<1>13. CASE UNCHANGED vars
  BY <1>13 DEF vars, panicVars, TagInv, Carries, Running
<1> QED
  BY <1>1, <1>2, <1>3, <1>4, <1>5, <1>6, <1>7, <1>8, <1>9, <1>10, <1>11, <1>12,
     <1>13 DEF Next

\* Unless interrupt handlers set tags, the dump of a trigger carries the trigger's
\* own reason, whatever it has preempted.
THEOREM TriggersCarryReason == ~IrqSetsTag => (Spec => []TriggerCarriesReason)
<1> SUFFICES ASSUME ~IrqSetsTag PROVE Spec => []TriggerCarriesReason
  OBVIOUS
<1>1. Spec => []TypeOK /\ []CommitInv
  BY TypeCorrect, CommitInvHolds
<1>2. Init => TagInv
  BY DEF Init, AllIdle, TagInv, Running, Levels
<1>3. TypeOK /\ TagInv /\ [Next]_vars => TagInv'
  BY TagInvStep
<1>4. CommitInv /\ TagInv => TriggerCarriesReason
  <2> SUFFICES ASSUME CommitInv, TagInv, NEW l \in 0..1, pc[l] = "published", Running(l)
               PROVE  wire["user_tag"] = reason[l]
    BY DEF TriggerCarriesReason
  <2>1. Stored(l) /\ Carries(l)
    BY DEF CommitInv, TagInv, Levels
  <2> QED
    BY <2>1, PayloadFacts DEF Stored, Carries
<1> QED
  BY <1>1, <1>2, <1>3, <1>4, PTL DEF Spec

-----------------------------------------------------------------------------
(* What the boot thread knows about the slot while no panic runs.  A panic   *)
(* never gives the thread back, so what it does to the slot does not matter  *)
(* to an export it interrupts.                                               *)

Exporting ==
  Calm /\ main = "export" =>
    Valid(wire) /\ \A p \in Parts : Rank[p] < pos => sent[p] = wire[p]

Clearing ==
  Calm /\ main = "clear" =>
    /\ pos > 1 => wire["magic"] # Magic
    /\ ChecksStatus /\ Valid(wire) => wire \in received

ExportInv == Exporting /\ Clearing /\ FramesAreDumps

\* A panic that runs, or a thread that is in neither loop, leaves nothing to show.
LEMMA AwayExportInv ==
  ASSUME ExportInv, ~Calm' \/ main' \in {"boot", "app"},
         UNCHANGED received, sealed \subseteq sealed'
  PROVE  ExportInv'
<1>1. FramesAreDumps'
  BY DEF ExportInv, FramesAreDumps, Valid, PayloadOf
<1> QED
  BY <1>1 DEF ExportInv, Exporting, Clearing

LEMMA EnterNotCalm ==
  ASSUME TypeOK, NEW l \in Levels, NEW c, NEW s, Enter(l, c, s)
  PROVE  ~Calm'
BY DEF Enter, Calm, TypeOK

LEMMA CompleteFrame ==
  ASSUME TypeOK, pos = 8, \A p \in Parts : Rank[p] < pos => sent[p] = wire[p]
  PROVE  sent = wire
<1>1. \A p \in Parts : sent[p] = wire[p]
  BY RankFacts
<1> QED
  BY <1>1 DEF TypeOK, Wires

LEMMA ExportInvInit == Init => ExportInv
BY DEF Init, ExportInv, Exporting, Clearing, FramesAreDumps

LEMMA ExportInvStep ==
  TypeOK /\ CommitInv /\ ExportInv /\ [Next]_vars => ExportInv'
<1> SUFFICES ASSUME TypeOK, CommitInv, ExportInv, [Next]_vars PROVE ExportInv'
  OBVIOUS
<1>1. ASSUME NEW l \in 0..1, NEW r \in Reasons \cup {user_tag}, NEW s \in Snaps \ used,
             Trigger(l, r, s)
      PROVE ExportInv'
  <2>1. l \in Levels /\ Enter(l, SwTrigger, s)
    BY <1>1 DEF Levels, Trigger
  <2>2. ~Calm'
    BY <2>1, EnterNotCalm
  <2> QED
    BY <2>1, <2>2, AwayExportInv DEF Enter
<1>2. ASSUME NEW l \in FaultLevels, NEW c \in FaultCauses, NEW s \in Snaps \ used,
             Fault(l, c, s)
      PROVE ExportInv'
  <2>1. l \in Levels /\ Enter(l, c, s)
    BY <1>2 DEF Levels, FaultLevels, Fault
  <2>2. ~Calm'
    BY <2>1, EnterNotCalm
  <2> QED
    BY <2>1, <2>2, AwayExportInv DEF Enter
<1>3. CASE LockUp
  <2>1. ~Calm'
    BY <1>3 DEF LockUp, Calm, Levels, TypeOK
  <2> QED
    BY <1>3, <2>1, AwayExportInv DEF LockUp, histVars
<1>4. ASSUME NEW l \in Levels, NEW p \in Parts, Store(l, p)
      PROVE ExportInv'
  <2>1. ~Calm'
    BY <1>4 DEF Store, MayStore, Running, Calm
  <2> QED
    BY <1>4, <2>1, AwayExportInv DEF Store
<1>5. ASSUME NEW l \in Levels, NEW p \in Parts, TearStore(l, p)
      PROVE ExportInv'
  <2>1. ~Calm'
    BY <1>5 DEF TearStore, MayStore, MaySeal, Running, Calm, panicVars
  <2> QED
    BY <1>5, <2>1, AwayExportInv DEF TearStore, histVars
<1>6. ASSUME NEW l \in Levels, Seal(l)
      PROVE ExportInv'
  <2>1. ~Calm'
    BY <1>6 DEF Seal, Calm, TypeOK
  <2> QED
    BY <1>6, <2>1, AwayExportInv DEF Seal
<1>7. ASSUME NEW l \in Levels, Publish(l)
      PROVE ExportInv'
  <2>1. ~Calm'
    BY <1>7 DEF Publish, Calm, TypeOK
  <2> QED
    BY <1>7, <2>1, AwayExportInv DEF Publish, histVars
<1>8. ASSUME NEW l \in Levels, Finish(l)
      PROVE ExportInv'
  <2>1. ~Calm' \/ main' = "boot"
    BY <1>8 DEF Finish, Restart, Calm, TypeOK
  <2> QED
    BY <1>8, <2>1, AwayExportInv DEF Finish, histVars
<1>9. CASE Check
  <2>1. UNCHANGED <<wire, pc, received, sealed>>
    BY <1>9 DEF Check, panicVars, histVars
  <2>2. CASE Valid(wire)
    <3>1. main' = "export" /\ pos' = 0
      BY <1>9, <2>2 DEF Check
    <3>2. \A p \in Parts : ~(Rank[p] < 0)
      BY RankFacts
    <3>3. FramesAreDumps'
      BY <2>1 DEF ExportInv, FramesAreDumps, Valid, PayloadOf
    <3> QED
      BY <2>1, <2>2, <3>1, <3>2, <3>3
      DEF ExportInv, Exporting, Clearing, Valid, PayloadOf
  <2>3. CASE ~Valid(wire)
    BY <1>9, <2>1, <2>3, AwayExportInv DEF Check
  <2> QED
    BY <2>2, <2>3
<1>10. CASE Export
  <2>1. /\ Calm /\ main = "export" /\ UNCHANGED <<wire, pc, sealed>>
        /\ Valid(wire) /\ \A p \in Parts : Rank[p] < pos => sent[p] = wire[p]
    BY <1>10 DEF Export, panicVars, ExportInv, Exporting
  <2>2. Calm' /\ Valid(wire)'
    BY <2>1 DEF Calm, Valid, PayloadOf
  <2>3. CASE SendPart
    <3>1. main' = "export" /\ pos' = pos + 1 /\ received' = received
      BY <2>1, <2>3 DEF SendPart
    <3>2. \A p \in Parts : Rank[p] < pos' => sent'[p] = wire'[p]
      BY <2>1, <2>3, <3>1, RankFacts DEF SendPart, TypeOK
    <3>3. FramesAreDumps'
      BY <2>1, <3>1 DEF ExportInv, FramesAreDumps, Valid, PayloadOf
    <3> QED
      BY <2>2, <3>1, <3>2, <3>3 DEF ExportInv, Exporting, Clearing
  <2>4. CASE SendEnd
    <3>1. main' = "clear" /\ pos' = 1 /\ received' = received \cup {wire}
      BY <2>1, <2>4, CompleteFrame DEF SendEnd
    <3>2. PayloadOf(wire) \in sealed
      BY <2>1, CommitInvImplies DEF NoTornDump
    <3>3. FramesAreDumps'
      BY <2>1, <3>1, <3>2 DEF ExportInv, FramesAreDumps, Valid, PayloadOf
    <3> QED
      BY <2>1, <3>1, <3>3 DEF ExportInv, Exporting, Clearing
  <2>5. CASE SendFails
    <3>1. received' = received /\ pos' = 1 /\ main' \in {"app", "clear"}
      BY <2>5 DEF SendFails
    <3>2. FramesAreDumps'
      BY <2>1, <3>1 DEF ExportInv, FramesAreDumps, Valid, PayloadOf
    <3>3. CASE ChecksStatus
      BY <2>5, <3>1, <3>2, <3>3 DEF SendFails, ExportInv, Exporting, Clearing
    <3>4. CASE ~ChecksStatus
      BY <3>1, <3>2, <3>4 DEF ExportInv, Exporting, Clearing
    <3> QED
      BY <3>3, <3>4
  <2> QED
    BY <1>10, <2>3, <2>4, <2>5 DEF Export
<1>11. CASE ClearPart
  <2>1. UNCHANGED <<received, sealed>> /\ pos \in 1..7 /\ pos' = pos + 1
    BY <1>11 DEF ClearPart, histVars, TypeOK
  <2>2. wire'["magic"] # Magic
    <3>1. CASE pos = 1
      BY <1>11, <3>1, PayloadFacts, MagicAssumption DEF ClearPart, Rank
    <3>2. CASE pos # 1
      <4>1. wire'["magic"] = wire["magic"]
        BY <1>11, <3>2, PayloadFacts DEF ClearPart, Rank
      <4> QED
        BY <1>11, <2>1, <3>2, <4>1 DEF ClearPart, ExportInv, Clearing
    <3> QED
      BY <3>1, <3>2
  <2>3. FramesAreDumps'
    BY <2>1 DEF ExportInv, FramesAreDumps, Valid, PayloadOf
  <2>4. main' # "export"
    BY <1>11 DEF ClearPart
  <2> QED
    BY <2>2, <2>3, <2>4 DEF ExportInv, Exporting, Clearing, Valid
<1>12. CASE TearClear
  <2>1. UNCHANGED <<received, sealed, main, pos>> /\ pos \in 1..7 /\ main = "clear"
    BY <1>12 DEF TearClear, histVars, threadVars, TypeOK
  <2>2. wire'["magic"] # Magic
    <3>1. CASE pos = 1
      BY <1>12, <3>1, PayloadFacts, MagicAssumption DEF TearClear, Rank
    <3>2. CASE pos # 1
      <4>1. wire'["magic"] = wire["magic"]
        BY <1>12, <3>2, PayloadFacts DEF TearClear, Rank
      <4> QED
        BY <1>12, <2>1, <3>2, <4>1 DEF TearClear, ExportInv, Clearing
    <3> QED
      BY <3>1, <3>2
  <2>3. FramesAreDumps'
    BY <2>1 DEF ExportInv, FramesAreDumps, Valid, PayloadOf
  <2> QED
    BY <2>1, <2>2, <2>3 DEF ExportInv, Exporting, Clearing, Valid
<1>13. ASSUME NEW t \in Tags, SetUserTag(t)
       PROVE ExportInv'
  BY <1>13 DEF SetUserTag, panicVars, threadVars, ExportInv, Exporting, Clearing,
               FramesAreDumps, Calm, Valid, PayloadOf
<1>14. CASE WatchdogReset
  BY <1>14, AwayExportInv DEF WatchdogReset, Restart, histVars
<1>15. ASSUME NEW lost \in Decays, NEW forget \in BOOLEAN,
              PowerCycle(lost, forget) \/ StackOverflow(lost, forget)
       PROVE ExportInv'
  BY <1>15, AwayExportInv DEF PowerCycle, StackOverflow, Spoil, Restart, threadVars
<1>16. CASE UNCHANGED vars
  BY <1>16 DEF vars, panicVars, threadVars, histVars, ExportInv, Exporting, Clearing,
               FramesAreDumps, Calm, Valid, PayloadOf
<1> QED
  BY <1>1, <1>2, <1>3, <1>4, <1>5, <1>6, <1>7, <1>8, <1>9, <1>10, <1>11,
     <1>12, <1>13, <1>14, <1>15, <1>16 DEF Next

LEMMA ExportInvHolds == Spec => []ExportInv
<1>1. Spec => []TypeOK /\ []CommitInv
  BY TypeCorrect, CommitInvHolds
<1> QED
  BY <1>1, ExportInvInit, ExportInvStep, PTL DEF Spec

\* Every frame a host received in full is the valid dump of one panic.
THEOREM ReceivedFramesAreDumps == Spec => []FramesAreDumps
BY ExportInvHolds, PTL DEF ExportInv

\* Only a clear, a panic in progress or a loss of RAM changes the slot.
LEMMA SlotChanges ==
  ASSUME TypeOK, [Next]_vars, Calm
  PROVE  \/ wire' = wire
         \/ main = "clear"
         \/ losses' # losses
<1>1. ASSUME NEW l \in Levels
      PROVE ~Running(l)
  BY RunningNotCalm
<1>2. ASSUME NEW l \in Levels
      PROVE /\ ~Seal(l) /\ ~Publish(l) /\ ~Finish(l)
            /\ \A p \in Parts : ~Store(l, p) /\ ~TearStore(l, p)
  BY <1>1 DEF Store, TearStore, MayStore, MaySeal, Seal, Publish, Finish
<1>3. ~LockUp
  BY DEF LockUp, Calm, Levels
<1>4. ASSUME NEW lost, NEW forget,
             PowerCycle(lost, forget) \/ StackOverflow(lost, forget)
      PROVE losses' # losses
  BY <1>4, BoundAssumption DEF PowerCycle, StackOverflow, Spoil, TypeOK
<1>5. ASSUME NEW l \in 0..1, NEW r, NEW s, Trigger(l, r, s)
      PROVE wire' = wire
  BY <1>5 DEF Trigger, Enter
<1>6. ASSUME NEW l \in FaultLevels, NEW c, NEW s, Fault(l, c, s)
      PROVE wire' = wire
  BY <1>6 DEF Fault, Enter
<1>7. ASSUME \/ Check \/ Export \/ (\E t \in Tags : SetUserTag(t))
             \/ WatchdogReset \/ UNCHANGED vars
      PROVE wire' = wire
  BY <1>7 DEF Check, Export, SetUserTag, WatchdogReset, vars
<1>8. ASSUME ClearPart \/ TearClear
      PROVE main = "clear"
  BY <1>8 DEF ClearPart, TearClear
<1> QED
  BY <1>2, <1>3, <1>4, <1>5, <1>6, <1>7, <1>8 DEF Next

\* Boot code that tests the status of the export loses no dump: one that stops
\* being valid was delivered, or a newer panic or a loss of RAM took its place.
THEOREM DumpsAreDeliveredFirst == ChecksStatus => (Spec => ClearOnlyAfterExport)
<1> SUFFICES ASSUME ChecksStatus PROVE Spec => ClearOnlyAfterExport
  OBVIOUS
<1>1. TypeOK /\ ExportInv /\ [Next]_vars =>
        [Valid(wire) /\ ~Valid(wire') => \/ wire \in received
                                         \/ ~Calm
                                         \/ losses' # losses]_vars
  <2> SUFFICES ASSUME TypeOK, ExportInv, [Next]_vars, Valid(wire), ~Valid(wire'),
                      Calm, losses' = losses
               PROVE  wire \in received
    OBVIOUS
  <2>1. wire' # wire
    BY DEF Valid
  <2>2. main = "clear"
    BY <2>1, SlotChanges
  <2> QED
    BY <2>2 DEF ExportInv, Clearing
<1>2. Spec => []TypeOK /\ []ExportInv
  BY TypeCorrect, ExportInvHolds
<1> QED
  BY <1>1, <1>2, PTL DEF Spec, ClearOnlyAfterExport

-----------------------------------------------------------------------------
(* What the order of the stores buys.  The commit protocol needs one thing   *)
(* of the compiled code: the clear of the old magic reaches RAM before any   *)
(* other store of the commit.  Then the marker speaks for the whole image.   *)

MagicFirst == \A p \in (Parts \ {"magic"}) \cup {"seal"} : <<"magic", p>> \in Order

\* A commit that has not cleared the magic has stored nothing; one that has is
\* the newest, and its slot stays unmarked until it publishes.
Marking(l) ==
  /\ "magic" \in todo[l] => pc[l] = "commit" /\ todo[l] = Parts
  /\ "magic" \notin todo[l] => newest = img[l]["regs"]
  /\ "magic" \notin todo[l] /\ pc[l] \in {"commit", "sealed"} => wire["magic"] # Magic

\* The CRC next to a set marker is that of the newest capture, if it is a CRC.
MarkedNewest ==
  wire["magic"] = Magic /\ wire["crc32"] \notin {Zero, Torn, Junk}
    => wire["crc32"]["regs"] = newest

MarkerInv ==
  /\ \A l \in Levels : Running(l) /\ pc[l] # "lockup" => Marking(l)
  /\ MarkedNewest
  /\ MarkerMeansWhole

LEMMA UnmarkedSlot ==
  ASSUME wire["magic"] # Magic
  PROVE  MarkedNewest /\ MarkerMeansWhole
BY DEF MarkedNewest, MarkerMeansWhole

LEMMA SameSlot ==
  ASSUME MarkerInv, UNCHANGED <<wire, newest>>
  PROVE  MarkedNewest' /\ MarkerMeansWhole'
BY DEF MarkerInv, MarkedNewest, MarkerMeansWhole, Valid, PayloadOf

LEMMA EnterMarkerInv ==
  ASSUME TypeOK, MarkerInv, NEW l \in Levels, NEW c, NEW s, Enter(l, c, s)
  PROVE  MarkerInv'
<1>1. MarkedNewest' /\ MarkerMeansWhole'
  BY SameSlot DEF Enter
<1>2. Marking(l)'
  BY PayloadFacts DEF Enter, Marking, TypeOK
<1>3. \A k \in Levels : Running(k)' => k = l
  BY EnterRuns
<1> QED
  BY <1>1, <1>2, <1>3 DEF MarkerInv

\* While the old magic stands, the clear of it is the only store allowed.
LEMMA OnlyMagicFirst ==
  ASSUME MagicFirst, NEW l \in Levels, "magic" \in todo[l]
  PROVE  /\ \A p \in Parts : MayStore(l, p) => p = "magic"
         /\ ~MaySeal(l)
BY DEF MagicFirst, MayStore, MaySeal

LEMMA StoreMarkerInv ==
  ASSUME MagicFirst, TypeOK, MarkerInv, NEW l \in Levels, NEW p \in Parts, Store(l, p)
  PROVE  MarkerInv'
<1>1. Running(l) /\ Marking(l) /\ pc[l] \in {"commit", "sealed"} /\ MayStore(l, p)
  BY DEF Store, MayStore, MarkerInv
<1>2. pc' = pc /\ todo'[l] = todo[l] \ {p} /\ newest' = IF p = "magic" THEN img[l]["regs"] ELSE newest
  BY DEF Store, TypeOK
<1>3. /\ wire'[p] = StoredValue(l, p)
      /\ \A q \in Parts \ {p} : wire'[q] = wire[q]
  BY DEF Store, TypeOK, Wires
<1>4. img'[l]["regs"] = img[l]["regs"]
  BY PayloadFacts DEF Store, TypeOK, Images
<1>5. wire'["magic"] # Magic /\ "magic" \notin todo'[l] /\ newest' = img'[l]["regs"]
  <2>1. CASE p = "magic"
    BY <2>1, <1>2, <1>3, <1>4, MagicAssumption DEF StoredValue
  <2>2. CASE p # "magic"
    <3>1. "magic" \notin todo[l]
      BY <2>2, <1>1, OnlyMagicFirst
    <3> QED
      BY <2>2, <3>1, <1>1, <1>2, <1>3, <1>4, PayloadFacts DEF Marking
  <2> QED
    BY <2>1, <2>2
<1>6. Marking(l)'
  BY <1>5 DEF Marking
<1>7. \A k \in Levels : Running(k)' => k = l
  BY <1>1, <1>2, RunningUnique DEF Running
<1>8. MarkedNewest' /\ MarkerMeansWhole'
  BY <1>5 DEF MarkedNewest, MarkerMeansWhole
<1> QED
  BY <1>6, <1>7, <1>8 DEF MarkerInv

\* A torn store and the store of the CRC happen under a cleared magic.
LEMMA UnmarkedMarkerInv ==
  ASSUME TypeOK, MarkerInv, NEW l \in Levels, Running(l),
         "magic" \notin todo[l], pc[l] \in {"commit", "sealed"},
         UNCHANGED <<todo, img, newest>>, wire'["magic"] = wire["magic"],
         pc' = pc \/ pc' = [pc EXCEPT ![l] = "sealed"]
  PROVE  MarkerInv'
<1>1. Marking(l)
  BY DEF MarkerInv
<1>2. wire'["magic"] # Magic /\ Marking(l)'
  BY <1>1 DEF Marking
<1>3. \A k \in Levels : Running(k)' => k = l
  BY RunningUnique DEF Running, TypeOK
<1>4. MarkedNewest' /\ MarkerMeansWhole'
  BY <1>2 DEF MarkedNewest, MarkerMeansWhole
<1> QED
  BY <1>2, <1>3, <1>4 DEF MarkerInv

LEMMA PublishMarkerInv ==
  ASSUME TypeOK, CommitInv, MarkerInv, NEW l \in Levels, Publish(l)
  PROVE  MarkerInv'
<1>1. Running(l) /\ Marking(l) /\ Stored(l) /\ pc[l] = "sealed" /\ todo[l] = {}
  BY DEF Publish, MarkerInv, CommitInv
<1>2. UNCHANGED <<todo, img, newest>> /\ pc' = [pc EXCEPT ![l] = "published"]
  BY DEF Publish, histVars
<1>3. newest = img[l]["regs"] /\ wire["crc32"] = img[l]
  BY <1>1 DEF Marking, Stored
<1>4. wire'["crc32"] = img[l]
  BY <1>3, PayloadFacts DEF Publish, TypeOK, Wires
<1>5. CommitInv' /\ TypeOK'
  <2>1. Next
    BY DEF Next
  <2> QED
    BY <2>1, PublishCommitInv, StepTyped
<1>6. Running(l)' /\ pc'[l] = "published"
  BY <1>1, <1>2 DEF Running, TypeOK
<1>7. Valid(wire)'
  <2>1. DumpInPlace'
    BY <1>5, CommitInvImplies, PTL
  <2> QED
    BY <1>6, <2>1 DEF DumpInPlace
<1>8. Marking(l)'
  BY <1>1, <1>2, <1>3, <1>6 DEF Marking
<1>9. \A k \in Levels : Running(k)' => k = l
  BY <1>1, <1>2, RunningUnique DEF Running, TypeOK
<1>10. MarkedNewest' /\ MarkerMeansWhole'
  BY <1>2, <1>3, <1>4, <1>7 DEF MarkedNewest, MarkerMeansWhole
<1> QED
  BY <1>8, <1>9, <1>10 DEF MarkerInv

\* A step of a calm core, or a reset, that leaves the slot alone or only spoils
\* it, keeps what the marker says.
LEMMA QuietMarkerInv ==
  ASSUME MarkerInv, \A l \in Levels : ~Running(l)',
         \/ UNCHANGED <<wire, newest>>
         \/ wire'["magic"] # Magic
  PROVE  MarkerInv'
<1>1. CASE UNCHANGED <<wire, newest>>
  BY <1>1, SameSlot DEF MarkerInv
<1>2. CASE wire'["magic"] # Magic
  BY <1>2 DEF MarkerInv, MarkedNewest, MarkerMeansWhole
<1> QED
  BY <1>1, <1>2

LEMMA StillCalm ==
  ASSUME Calm, UNCHANGED pc
  PROVE  \A l \in Levels : ~Running(l)'
BY DEF Calm, Running

LEMMA MarkerInvInit == Init => MarkerInv
<1> SUFFICES ASSUME Init PROVE MarkerInv
  OBVIOUS
<1>1. wire["crc32"] = Junk
  BY PayloadFacts DEF Init
<1>2. \A l \in Levels : ~Running(l)
  BY DEF Init, AllIdle, Running
<1> QED
  BY <1>1, <1>2, PayloadFacts DEF MarkerInv, MarkedNewest, MarkerMeansWhole

\* Decay clears the marker, spoils the CRC, or shows as Junk somewhere.
LEMMA DecayMarkerInv ==
  ASSUME TypeOK, MarkerInv, NEW lost \in Decays, NEW forget,
         PowerCycle(lost, forget) \/ StackOverflow(lost, forget)
  PROVE  MarkerInv'
<1> Spoil(lost, forget)
  BY DEF PowerCycle, StackOverflow
<1>1. newest' = newest /\ \A l \in Levels : ~Running(l)'
  BY RestartCalm, StillCalm DEF PowerCycle, StackOverflow, Spoil, panicVars
<1>2. \A p \in Parts : wire'[p] = IF p \in lost THEN Junk ELSE wire[p]
  BY DEF Spoil
<1>3. MarkedNewest'
  BY <1>1, <1>2, PayloadFacts, MagicAssumption DEF MarkerInv, MarkedNewest
<1>4. MarkerMeansWhole'
  <2>1. CASE \E p \in Parts : p \in lost
    BY <2>1, <1>2 DEF MarkerMeansWhole
  <2>2. CASE ~ \E p \in Parts : p \in lost
    <3>1. wire' = wire
      BY <2>2 DEF Spoil, TypeOK, Wires
    <3> QED
      BY <3>1, <1>1, SameSlot
  <2> QED
    BY <2>1, <2>2
<1> QED
  BY <1>1, <1>3, <1>4 DEF MarkerInv

\* The first byte a clear overwrites is the marker's.
LEMMA ClearUnmarks ==
  ASSUME TypeOK, ExportInv, ClearPart \/ TearClear
  PROVE  wire'["magic"] # Magic
<1>1. Calm /\ main = "clear" /\ pos \in 1..7
  BY DEF ClearPart, TearClear, TypeOK
<1>2. CASE pos = 1
  BY <1>2, PayloadFacts, MagicAssumption DEF ClearPart, TearClear, Rank
<1>3. CASE pos # 1
  <2>1. wire'["magic"] = wire["magic"]
    BY <1>3, PayloadFacts DEF ClearPart, TearClear, Rank
  <2> QED
    BY <1>1, <1>3, <2>1 DEF ExportInv, Clearing
<1> QED
  BY <1>2, <1>3

LEMMA MarkerInvStep ==
  ASSUME MagicFirst
  PROVE  TypeOK /\ CommitInv /\ ExportInv /\ MarkerInv /\ [Next]_vars => MarkerInv'
<1> SUFFICES ASSUME TypeOK, CommitInv, ExportInv, MarkerInv, [Next]_vars
             PROVE  MarkerInv'
  OBVIOUS
<1>1. ASSUME NEW l \in 0..1, NEW r \in Reasons \cup {user_tag}, NEW s \in Snaps \ used,
             Trigger(l, r, s)
      PROVE MarkerInv'
  BY <1>1, EnterMarkerInv DEF Trigger, Levels
<1>2. ASSUME NEW l \in FaultLevels, NEW c \in FaultCauses, NEW s \in Snaps \ used,
             Fault(l, c, s)
      PROVE MarkerInv'
  BY <1>2, EnterMarkerInv DEF Fault, Levels, FaultLevels
<1>3. CASE LockUp
  <2>1. MarkedNewest' /\ MarkerMeansWhole'
    BY <1>3, SameSlot DEF LockUp, histVars
  <2>2. pc'[3] = "lockup" /\ \A k \in Levels : Running(k)' => k = 3
    BY <1>3 DEF LockUp, Running, Levels, TypeOK
  <2> QED
    BY <2>1, <2>2 DEF MarkerInv
<1>4. ASSUME NEW l \in Levels, NEW p \in Parts, Store(l, p)
      PROVE MarkerInv'
  BY <1>4, StoreMarkerInv
<1>5. ASSUME NEW l \in Levels, NEW p \in Parts, TearStore(l, p)
      PROVE MarkerInv'
  <2>1. Running(l) /\ pc[l] \in {"commit", "sealed"} /\ p # "magic"
    BY <1>5, PayloadFacts DEF TearStore, MayStore, MaySeal
  <2>2. "magic" \notin todo[l]
    BY <1>5, OnlyMagicFirst DEF TearStore
  <2>3. UNCHANGED <<pc, todo, img, newest>> /\ wire'["magic"] = wire["magic"]
    BY <1>5, <2>1, PayloadFacts DEF TearStore, panicVars, histVars, TypeOK, Wires
  <2> QED
    BY <2>1, <2>2, <2>3, UnmarkedMarkerInv
<1>6. ASSUME NEW l \in Levels, Seal(l)
      PROVE MarkerInv'
  <2>1. Running(l) /\ pc[l] = "commit"
    BY <1>6 DEF Seal, MaySeal
  <2>2. "magic" \notin todo[l]
    BY <1>6, OnlyMagicFirst DEF Seal
  <2>3. /\ UNCHANGED <<todo, img, newest>> /\ wire'["magic"] = wire["magic"]
        /\ pc' = [pc EXCEPT ![l] = "sealed"]
    BY <1>6, PayloadFacts DEF Seal, TypeOK, Wires
  <2> QED
    BY <2>1, <2>2, <2>3, UnmarkedMarkerInv
<1>7. ASSUME NEW l \in Levels, Publish(l)
      PROVE MarkerInv'
  BY <1>7, PublishMarkerInv
<1>8. ASSUME NEW l \in Levels, Finish(l)
      PROVE MarkerInv'
  <2>1. UNCHANGED <<wire, newest>>
    BY <1>8 DEF Finish, histVars
  <2>2. CASE HaltOnFault /\ l \in FaultLevels
    <3>1. UNCHANGED <<todo, img>> /\ pc' = [pc EXCEPT ![l] = "halted"]
      BY <1>8, <2>2 DEF Finish
    <3>2. Running(l) /\ pc[l] = "published" /\ Marking(l)
      BY <1>8 DEF Finish, MarkerInv
    <3>3. pc'[l] = "halted" /\ Marking(l)'
      BY <3>1, <3>2, <2>1 DEF Marking, TypeOK
    <3>4. \A k \in Levels : Running(k)' => k = l
      BY <3>1, <3>2, RunningUnique DEF Running, TypeOK
    <3> QED
      BY <3>3, <3>4, <2>1, SameSlot DEF MarkerInv
  <2>3. CASE ~(HaltOnFault /\ l \in FaultLevels)
    BY <1>8, <2>1, <2>3, RestartCalm, QuietMarkerInv DEF Finish
  <2> QED
    BY <2>2, <2>3
<1>9. CASE Check \/ Export
  <2>1. UNCHANGED <<wire, newest, pc>> /\ Calm
    BY <1>9 DEF Check, Export, panicVars, histVars
  <2> QED
    BY <2>1, StillCalm, QuietMarkerInv
<1>10. CASE ClearPart \/ TearClear
  <2>1. Calm /\ UNCHANGED pc
    BY <1>10 DEF ClearPart, TearClear, panicVars
  <2> QED
    BY <1>10, <2>1, ClearUnmarks, StillCalm, QuietMarkerInv
<1>11. ASSUME NEW t \in Tags, SetUserTag(t)
       PROVE MarkerInv'
  <2>1. UNCHANGED <<wire, newest, panicVars>>
    BY <1>11 DEF SetUserTag
  <2> QED
    BY <2>1, SameSlot DEF MarkerInv, Marking, Running, panicVars
<1>12. CASE WatchdogReset
  BY <1>12, RestartCalm, QuietMarkerInv DEF WatchdogReset, histVars
<1>13. ASSUME NEW lost \in Decays, NEW forget \in BOOLEAN,
              PowerCycle(lost, forget) \/ StackOverflow(lost, forget)
       PROVE MarkerInv'
  BY <1>13, DecayMarkerInv
<1>14. CASE UNCHANGED vars
  <2>1. UNCHANGED <<wire, newest, panicVars>>
    BY <1>14 DEF vars, histVars
  <2> QED
    BY <2>1, SameSlot DEF MarkerInv, Marking, Running, panicVars
<1> QED
  BY <1>1, <1>2, <1>3, <1>4, <1>5, <1>6, <1>7, <1>8, <1>9, <1>10, <1>11,
     <1>12, <1>13, <1>14 DEF Next

LEMMA MarkerInvHolds == MagicFirst => (Spec => []MarkerInv)
<1> SUFFICES ASSUME MagicFirst PROVE Spec => []MarkerInv
  OBVIOUS
<1>1. Spec => []TypeOK /\ []CommitInv /\ []ExportInv
  BY TypeCorrect, CommitInvHolds, ExportInvHolds
<1>2. TypeOK /\ CommitInv /\ ExportInv /\ MarkerInv /\ [Next]_vars => MarkerInv'
  BY MarkerInvStep
<1> QED
  BY <1>1, <1>2, MarkerInvInit, PTL DEF Spec

\* With the magic cleared first, a set marker means a whole dump: the order of
\* the stores protects the slot even where the CRC would be fooled.
THEOREM MarkerIsTrue == MagicFirst => (Spec => []MarkerMeansWhole)
<1>1. MarkerInv => MarkerMeansWhole
  BY DEF MarkerInv
<1> QED
  BY <1>1, MarkerInvHolds, PTL

\* With the magic cleared first, a new panic that has touched the slot can no
\* longer be mistaken for an older one.
THEOREM NewestDumpOrNone == MagicFirst => (Spec => []NewestOrNothing)
<1>1. TypeOK /\ MarkerInv => NewestOrNothing
  <2> SUFFICES ASSUME TypeOK, MarkerInv, Valid(wire) PROVE wire["regs"] = newest
    BY DEF NewestOrNothing
  <2>1. wire["crc32"] = PayloadOf(wire) /\ PayloadOf(wire) \in Images
    BY PayloadOfWire DEF Valid, TypeOK
  <2>2. wire["crc32"]["regs"] = newest
    BY <2>1, CrcAssumption DEF MarkerInv, MarkedNewest, Valid
  <2> QED
    BY <2>1, <2>2, PayloadFacts DEF PayloadOf
<1>2. Spec => []TypeOK
  BY TypeCorrect
<1> QED
  BY <1>1, <1>2, MarkerInvHolds, PTL
=============================================================================
