------------------------- MODULE PanicExport_proofs -------------------------
(***************************************************************************)
(* Theorems on PanicExport, for any number of bytes, images, boots, calls  *)
(* and lost characters.                                                    *)
(***************************************************************************)
EXTENDS PanicFrame_proofs, FiniteSetTheorems

-----------------------------------------------------------------------------
(* Sequences. *)

\* A character that moves from the end of one sequence to the start of another.
LEMMA MoveKeeps ==
  ASSUME NEW S, NEW a \in Seq(S), NEW b \in Seq(S), b # <<>>
  PROVE  /\ Append(a, Head(b)) \in Seq(S) /\ Tail(b) \in Seq(S)
         /\ Len(Append(a, Head(b))) = Len(a) + 1 /\ Len(Tail(b)) = Len(b) - 1
         /\ Append(a, Head(b)) \o Tail(b) = a \o b
<1> DEFINE s == Append(a, Head(b)) \o Tail(b)  t == a \o b
<1>1. Head(b) \in S /\ Tail(b) \in Seq(S) /\ Len(Tail(b)) = Len(b) - 1
  OBVIOUS
<1>2. s \in Seq(S) /\ t \in Seq(S) /\ Len(s) = Len(t)
  BY <1>1
<1>3. ASSUME NEW k \in 1..Len(s) PROVE s[k] = t[k]
  BY <1>1
<1>4. s = t
  <2> HIDE DEF s, t
  <2> QED
    BY <1>2, <1>3
<1> QED
  BY <1>1, <1>4

-----------------------------------------------------------------------------
(* The frame. *)

LEMMA MarkersTyped ==
  /\ BEGIN \in Seq(Char) /\ END \in Seq(Char) /\ EOL \in Seq(Char)
  /\ Len(BEGIN) \in Nat \ {0} /\ Len(END) \in Nat \ {0} /\ Len(EOL) = 2
  /\ Text \in Char
BY CharFacts, MarkerFacts

LEMMA FrameTyped ==
  ASSUME NEW image \in Images
  PROVE  /\ Core[image] \in Seq(Char) /\ Frame[image] \in Seq(Char)
         /\ Len(Frame[image]) = Len(Core[image]) + Len(EOL)
         /\ \A k \in 1..Len(Core[image]) : Frame[image][k] = Core[image][k]
<1> DEFINE c == Core[image]  f == Frame[image]
<1>1. f = c \o EOL /\ c \in Seq(Char) /\ EOL \in Seq(Char)
  BY FrameText, MarkersTyped
<1> HIDE DEF c, f
<1> QED
  BY <1>1, JoinFacts DEF c, f

-----------------------------------------------------------------------------
(* Types. *)

LEMMA InitTyped == Init => TypeOK
<1> SUFFICES ASSUME Init PROVE TypeOK
  OBVIOUS
<1>1. tx \in Seq(Char) /\ log \in Seq(Char) /\ Len(tx) = 0 /\ Len(log) = 0
  BY DEF Init
<1>2. Len(Out) = 0
  BY <1>1, ConcatFacts DEF Out
<1> QED
  BY <1>1, <1>2, TxAssumption DEF Init, TypeOK

(* What the device has put out grows by Put, shrinks by Lose and Reboot only. *)
LEMMA OutTyped ==
  ASSUME TypeOK
  PROVE  Out \in Seq(Char) /\ Len(Out) = Len(log) + Len(tx) /\ Len(log) \in Nat /\ Len(tx) \in Nat
<1>1. tx \in Seq(Char) /\ log \in Seq(Char)
  BY DEF TypeOK
<1> QED
  BY <1>1, ConcatFacts DEF Out

LEMMA TransmitMoves ==
  ASSUME TypeOK, tx # <<>>, tx' = Tail(tx), log' = Append(log, Head(tx))
  PROVE  /\ tx' \in Seq(Char) /\ log' \in Seq(Char)
         /\ Len(tx') = Len(tx) - 1 /\ Len(log') = Len(log) + 1
         /\ Out' = Out
<1>1. tx \in Seq(Char) /\ log \in Seq(Char)
  BY DEF TypeOK
<1> QED
  BY <1>1, MoveKeeps DEF Out

LEMMA PutPuts ==
  ASSUME TypeOK, NEW c \in Char, Put(c), log' = log
  PROVE  /\ tx' \in Seq(Char) /\ Len(tx') <= TxRoom
         /\ Out' = Append(Out, c) /\ Len(Out') = Len(Out) + 1
<1>1. tx \in Seq(Char) /\ log \in Seq(Char) /\ Out \in Seq(Char)
  BY OutTyped DEF TypeOK
<1>2. tx' \in Seq(Char) /\ Len(tx') = Len(tx) + 1 /\ Len(tx') <= TxRoom
  BY <1>1, TxAssumption DEF Put
<1>3. Out' = Append(Out, c)
  BY <1>1, ConcatAppend DEF Put, Out
<1> QED
  BY <1>1, <1>2, <1>3

LEMMA RebootTyped ==
  ASSUME TypeOK, Reboot, held \subseteq held', held' \subseteq Images, slot' \in held' \cup {NoImage}
  PROVE  TypeOK'
<1>1. tx' \in Seq(Char) /\ Len(tx') = 0 /\ log' \in Seq(Char)
  BY DEF Reboot, TypeOK
<1>2. Len(Out') \in Nat
  BY <1>1, ConcatFacts DEF Out
<1>3. bootAt' \in 0..Len(log')
  BY OutTyped DEF Reboot
<1>4. /\ boots' \in Nat /\ UNCHANGED <<erased, calls, prints, losses, rules>> /\ main' = "app"
      /\ pos' = 0 /\ callAt' = 0 /\ clean' = TRUE
  BY DEF Reboot, Return, TypeOK
<1>5. 0 \in 0..(Len(Out') + losses)
  BY <1>2 DEF TypeOK
<1> QED
  BY <1>1, <1>3, <1>4, <1>5, TxAssumption DEF TypeOK

LEMMA ExportStepTyped == TypeOK /\ [Next]_vars => TypeOK'
<1> SUFFICES ASSUME TypeOK, [Next]_vars PROVE TypeOK'
  OBVIOUS
<1>0. Out \in Seq(Char) /\ Len(Out) = Len(log) + Len(tx) /\ Len(log) \in Nat /\ Len(tx) \in Nat
  BY OutTyped
<1>1. ASSUME NEW image \in Images, Panic(image)
      PROVE TypeOK'
  BY <1>1, RebootTyped DEF Panic, TypeOK
<1>2. CASE Reset
  BY <1>2, RebootTyped DEF Reset, TypeOK
<1>3. CASE Puts
  <2>1. /\ tx' \in Seq(Char) /\ Len(tx') <= TxRoom /\ Len(Out') = Len(Out) + 1
    BY <1>3, PutPuts, MarkersTyped DEF Puts
  <2>2. callAt \in 0..(Len(Out') + losses)
    BY <1>0, <2>1 DEF TypeOK
  <2> QED
    BY <1>3, <2>1, <2>2 DEF Puts, TypeOK
<1>4. CASE Transmit
  <2>1. /\ tx' \in Seq(Char) /\ log' \in Seq(Char) /\ Len(tx') = Len(tx) - 1
        /\ Len(log') = Len(log) + 1 /\ Out' = Out
    BY <1>4, TransmitMoves DEF Transmit
  <2>2. bootAt \in 0..Len(log') /\ Len(tx') <= TxRoom
    BY <1>0, <2>1, TxAssumption DEF TypeOK
  <2> QED
    BY <1>4, <2>1, <2>2 DEF Transmit, TypeOK
<1>5. CASE Lose
  <2>1. tx' \in Seq(Char) /\ Len(tx') = Len(tx) - 1
    BY <1>5 DEF Lose, TypeOK
  <2>2. Len(Out') = Len(Out) - 1
    <3>1. log' \in Seq(Char) /\ log' = log
      BY <1>5 DEF Lose, TypeOK
    <3>2. Len(Out') = Len(log') + Len(tx')
      BY <2>1, <3>1, ConcatFacts DEF Out
    <3> QED
      BY <1>0, <2>1, <3>1, <3>2
  <2>3. callAt \in 0..(Len(Out') + losses') /\ losses' \in Nat /\ Len(tx') <= TxRoom
    BY <1>0, <1>5, <2>1, <2>2, TxAssumption DEF Lose, TypeOK
  <2>4. rules' \in 0..losses'
    <3>1. rules \in 0..losses /\ losses \in Nat /\ losses' = losses + 1
          /\ (rules' = rules + 1 \/ rules' = rules + 0)
      BY <1>5 DEF Lose, TypeOK
    <3> QED
      BY <3>1
  <2> QED
    BY <1>5, <2>1, <2>3, <2>4 DEF Lose, TypeOK
<1>6. CASE Call
  <2>1. Out' = Out
    BY <1>6 DEF Call, Out
  <2>2. Frame[slot] \in Seq(Char)
    BY <1>6, FrameTyped DEF Call
  <2>3. callAt' \in 0..(Len(Out') + losses) /\ bootAt <= callAt' /\ 1 <= Len(Frame[slot]) + 1
    BY <1>0, <1>6, <2>1, <2>2 DEF Call, TypeOK
  <2> QED
    BY <1>6, <2>3 DEF Call, TypeOK
<1>7. CASE Send
  <2>1. slot \in Images /\ pos \in 1..Len(Frame[slot]) /\ Frame[slot] \in Seq(Char)
    <3>1. slot \in Images /\ main = "export"
      BY <1>7 DEF Send, Sending, TypeOK
    <3>2. Frame[slot] \in Seq(Char)
      BY <3>1, FrameTyped
    <3> QED
      BY <1>7, <3>1, <3>2 DEF Send, Sending, TypeOK
  <2>2. Frame[slot][pos] \in Char
    BY <2>1
  <2>3. tx' \in Seq(Char) /\ Len(tx') <= TxRoom /\ Len(Out') = Len(Out) + 1
    BY <1>7, <2>2, PutPuts DEF Send, Sending
  <2>4. callAt \in 0..(Len(Out') + losses) /\ pos' \in Nat /\ pos' > 0 /\ pos' <= Len(Frame[slot]) + 1
    BY <1>0, <1>7, <2>1, <2>3 DEF Send, TypeOK
  <2> QED
    BY <1>7, <2>3, <2>4 DEF Send, Sending, TypeOK
<1>8. CASE ShortWrite \/ Exported \/ Clear
  <2>1. UNCHANGED <<tx, log, bootAt, held, boots, calls, prints, losses, rules>> /\ Out' = Out
    BY <1>8 DEF ShortWrite, Sending, Exported, Clear, Out
  <2>2. CASE ShortWrite
    BY <1>0, <2>1, <2>2 DEF ShortWrite, Sending, Return, TypeOK
  <2>3. CASE Exported
    <3>1. 0 <= Len(Frame[slot]) + 1
      BY <2>3, FrameTyped DEF Exported, TypeOK
    <3> QED
      BY <2>1, <2>3, <3>1 DEF Exported, TypeOK
  <2>4. CASE Clear
    <3>1. slot \in held
      BY <2>4, ImageAssumption DEF Clear, TypeOK
    <3> QED
      BY <1>0, <2>1, <2>4, <3>1 DEF Clear, Return, TypeOK
  <2> QED
    BY <1>8, <2>2, <2>3, <2>4
<1>9. CASE UNCHANGED vars
  <2>1. Out' = Out
    BY <1>9 DEF vars, Out
  <2> QED
    BY <1>9, <2>1 DEF vars, TypeOK
<1> QED
  BY <1>1, <1>2, <1>3, <1>4, <1>5, <1>6, <1>7, <1>8, <1>9 DEF Next

\* Every variable keeps to its type: the UART never holds more than it has room for
\* and no frame is read beyond its end.
THEOREM ExportTyped == Spec => []TypeOK
<1>1. TypeOK /\ [Next]_vars => TypeOK'
  BY ExportStepTyped
<1> QED
  BY <1>1, InitTyped, PTL DEF Spec

-----------------------------------------------------------------------------
(* What a call that has lost nothing has put out is the beginning of the     *)
(* frame; when it has put out all of it, the UART can hold no more than the  *)
(* line break, so that the log holds the rest, and keeps it.                 *)

SentSoFar(n) ==
  /\ Len(Out) = callAt + n
  /\ \A k \in 1..n : Out[callAt + k] = Frame[slot][k]

Readable(image) ==
  \E at \in Nat :
    /\ at + Len(Core[image]) <= Len(log)
    /\ \A k \in 1..Len(Core[image]) : log[at + k] = Core[image][k]

SentInv ==
  /\ losses = 0 => clean
  /\ main = "export" /\ clean => SentSoFar(pos - 1)
  /\ main = "clear" /\ clean => SentSoFar(Len(Frame[slot]))

ErasedInv == losses = 0 => \A image \in erased : Readable(image)

LEMMA SentStep ==
  ASSUME TypeOK, SentInv, [Next]_vars
  PROVE  SentInv'
<1>1. /\ Out \in Seq(Char) /\ Len(Out) = Len(log) + Len(tx)
      /\ callAt \in Nat /\ pos \in Nat /\ losses \in Nat /\ prints \in Nat
  BY OutTyped DEF TypeOK
<1>2. CASE Reset \/ (\E image \in Images : Panic(image)) \/ ShortWrite \/ Clear
  BY <1>2 DEF Reset, Panic, Reboot, ShortWrite, Sending, Clear, Return, SentInv
<1>3. CASE Puts
  BY <1>3 DEF Puts, SentInv, TypeOK
<1>4. CASE Transmit
  <2>1. Out' = Out
    BY <1>4, TransmitMoves DEF Transmit
  <2> QED
    BY <1>4, <2>1 DEF Transmit, SentInv, SentSoFar
<1>5. CASE Lose
  <2>1. losses' # 0 /\ main' = main /\ clean' = (main = "app")
    BY <1>1, <1>5 DEF Lose
  <2>2. main # "app" => clean' = FALSE
    BY <2>1
  <2> QED
    BY <2>1, <2>2 DEF SentInv
<1>6. CASE Call
  <2>1. /\ Out' = Out /\ callAt' = Len(Out) /\ pos' - 1 = 0 /\ main' = "export"
        /\ clean' = clean /\ losses' = losses
    BY <1>6 DEF Call, Out
  <2>2. SentSoFar(pos - 1)'
    BY <1>1, <2>1 DEF SentSoFar
  <2> QED
    BY <2>1, <2>2 DEF SentInv
<1>7. CASE Send
  <2>1. /\ main = "export" /\ slot \in Images /\ Frame[slot] \in Seq(Char)
        /\ pos \in 1..Len(Frame[slot])
    BY <1>7, FrameTyped DEF Send, Sending, TypeOK
  <2>2. Out' = Append(Out, Frame[slot][pos])
    BY <1>7, <2>1, PutPuts DEF Send, Sending
  <2>3. pos' - 1 = pos /\ UNCHANGED <<main, callAt, clean, slot, losses>>
    BY <1>7, <2>1 DEF Send, Sending
  <2>4. ASSUME clean, SentSoFar(pos - 1) PROVE SentSoFar(pos - 1)'
    <3>1. Len(Out') = callAt + pos
      BY <1>1, <2>1, <2>2, <2>4 DEF SentSoFar
    <3>2. ASSUME NEW k \in 1..pos PROVE Out'[callAt + k] = Frame[slot][k]
      <4>1. Len(Out) = callAt + (pos - 1)
        BY <2>4 DEF SentSoFar
      <4>2. CASE k = pos
        BY <1>1, <2>1, <2>2, <4>1, <4>2
      <4>3. CASE k # pos
        <5>1. k \in 1..(pos - 1) /\ callAt + k \in 1..Len(Out)
          BY <1>1, <4>1, <4>3
        <5>2. Out'[callAt + k] = Out[callAt + k]
          BY <1>1, <2>1, <2>2, <5>1
        <5> QED
          BY <2>4, <5>1, <5>2 DEF SentSoFar
      <4> QED
        BY <4>2, <4>3
    <3> QED
      BY <2>3, <3>1, <3>2 DEF SentSoFar
  <2> QED
    BY <2>1, <2>3, <2>4 DEF SentInv
<1>8. CASE Exported
  <2>1. /\ slot \in Images /\ Frame[slot] \in Seq(Char) /\ pos - 1 = Len(Frame[slot])
    <3>1. slot \in Images /\ pos > Len(Frame[slot]) /\ pos <= Len(Frame[slot]) + 1
      BY <1>8 DEF Exported, TypeOK
    <3>2. Frame[slot] \in Seq(Char)
      BY <3>1, FrameTyped
    <3> QED
      BY <1>1, <3>1, <3>2
  <2>2. Out' = Out
    BY <1>8 DEF Exported, Out
  <2> QED
    BY <1>8, <2>1, <2>2 DEF Exported, SentInv, SentSoFar
<1>9. CASE UNCHANGED vars
  <2>1. Out' = Out
    BY <1>9 DEF vars, Out
  <2> QED
    BY <1>9, <2>1 DEF vars, SentInv, SentSoFar
<1> QED
  BY <1>2, <1>3, <1>4, <1>5, <1>6, <1>7, <1>8, <1>9 DEF Next

LEMMA ReadableStays ==
  ASSUME TypeOK, NEW image \in Images, Readable(image),
         \/ log' = log
         \/ \E c \in Char : log' = Append(log, c)
  PROVE  Readable(image)'
<1>1. /\ log \in Seq(Char) /\ Len(log') >= Len(log)
      /\ \A k \in 1..Len(log) : log'[k] = log[k]
  BY DEF TypeOK
<1>2. Core[image] \in Seq(Char)
  BY FrameTyped
<1>3. PICK at \in Nat : /\ at + Len(Core[image]) <= Len(log)
                        /\ \A k \in 1..Len(Core[image]) : log[at + k] = Core[image][k]
  BY DEF Readable
<1>4. ASSUME NEW k \in 1..Len(Core[image]) PROVE log'[at + k] = Core[image][k]
  <2>1. at + k \in 1..Len(log)
    BY <1>1, <1>2, <1>3
  <2> QED
    BY <1>1, <1>3, <2>1
<1>5. at + Len(Core[image]) <= Len(log')
  <2>1. Len(log') \in Nat /\ Len(log) \in Nat /\ Len(Core[image]) \in Nat
    BY <1>1, <1>2
  <2> QED
    BY <1>1, <1>3, <2>1
<1> QED
  BY <1>4, <1>5 DEF Readable

\* The line break behind the last marker is what the UART may hold at most.
LEMMA ClearedIsReadable ==
  ASSUME TypeOK, SentInv, main = "clear", clean
  PROVE  Readable(slot)
<1>1. /\ slot \in Images /\ SentSoFar(Len(Frame[slot])) /\ callAt \in Nat
  BY OutTyped DEF TypeOK, SentInv
<1>2. /\ Core[slot] \in Seq(Char) /\ Len(Frame[slot]) = Len(Core[slot]) + 2
      /\ \A k \in 1..Len(Core[slot]) : Frame[slot][k] = Core[slot][k]
  BY <1>1, FrameTyped, MarkersTyped
<1>3. /\ log \in Seq(Char) /\ tx \in Seq(Char) /\ Len(tx) <= 2
      /\ Len(Out) = Len(log) + Len(tx)
      /\ \A k \in 1..Len(log) : Out[k] = log[k]
  BY OutTyped, ConcatFacts, TxAssumption, MarkersTyped DEF TypeOK, Out
<1>4. callAt + Len(Core[slot]) <= Len(log)
  <2>1. Len(Out) = callAt + (Len(Core[slot]) + 2)
    BY <1>1, <1>2 DEF SentSoFar
  <2>2. Len(log) \in Nat /\ Len(tx) \in Nat /\ Len(Core[slot]) \in Nat
    BY <1>2, <1>3
  <2> QED
    BY <1>1, <1>3, <2>1, <2>2
<1>5. ASSUME NEW k \in 1..Len(Core[slot]) PROVE log[callAt + k] = Core[slot][k]
  <2>1. callAt + k \in 1..Len(log) /\ k \in 1..Len(Frame[slot])
    BY <1>1, <1>2, <1>3, <1>4
  <2> QED
    BY <1>1, <1>2, <1>3, <2>1 DEF SentSoFar
<1> QED
  BY <1>1, <1>4, <1>5 DEF Readable

LEMMA ErasedStep ==
  ASSUME TypeOK, SentInv, ErasedInv, [Next]_vars
  PROVE  ErasedInv'
<1> SUFFICES ASSUME losses' = 0, NEW image \in erased' PROVE Readable(image)'
  BY DEF ErasedInv
<1>1. losses = 0 /\ ~Lose
  <2>1. losses \in Nat
    BY DEF TypeOK
  <2>2. ~Lose
    BY <2>1 DEF Lose
  <2> QED
    BY <2>2 DEF Next, Panic, Reset, Reboot, Puts, Transmit, Call, Send, ShortWrite, Sending,
                Exported, Clear, vars
<1>2. log' = log \/ \E c \in Char : log' = Append(log, c)
  <2>1. CASE Transmit
    <3>1. Head(tx) \in Char
      BY <2>1 DEF Transmit, TypeOK
    <3> QED
      BY <2>1, <3>1 DEF Transmit
  <2>2. CASE ~Transmit
    BY <1>1, <2>2 DEF Next, Panic, Reset, Reboot, Puts, Call, Send, ShortWrite, Sending,
                Exported, Clear, vars
  <2> QED
    BY <2>1, <2>2
<1>3. CASE image \in erased
  BY <1>1, <1>2, <1>3, ReadableStays DEF ErasedInv, TypeOK
<1>4. CASE image \notin erased
  <2>1. Clear /\ image = slot
    BY <1>1, <1>4 DEF Next, Panic, Reset, Reboot, Puts, Transmit, Call, Send, ShortWrite,
                      Sending, Exported, Clear, vars
  <2>2. Readable(slot) /\ slot \in Images
    BY <1>1, <2>1, ClearedIsReadable DEF Clear, SentInv, TypeOK
  <2> QED
    BY <1>2, <2>1, <2>2, ReadableStays
<1> QED
  BY <1>3, <1>4

LEMMA InitSent == Init => SentInv /\ ErasedInv
BY DEF Init, SentInv, ErasedInv

LEMMA CompleteDecodes ==
  ASSUME TypeOK, SentInv
  PROVE  CompleteCallsDecode
<1> SUFFICES ASSUME main = "clear", clean
             PROVE  LET s == SubSeq(Out, callAt + 1, Len(Out)) IN Framed(s) /\ Loaded(s) = slot
  BY DEF CompleteCallsDecode
<1>1. /\ slot \in Images /\ SentSoFar(Len(Frame[slot])) /\ callAt \in Nat /\ Out \in Seq(Char)
  BY OutTyped DEF TypeOK, SentInv
<1>2. Frame[slot] \in Seq(Char)
  BY <1>1, FrameTyped
<1> DEFINE s == SubSeq(Out, callAt + 1, Len(Out))
<1>3. s \in Seq(Char) /\ Len(s) = Len(Frame[slot])
      /\ \A k \in 1..Len(s) : s[k] = Out[callAt + k]
  <2>1. Len(Out) = callAt + Len(Frame[slot]) /\ Len(Frame[slot]) \in Nat
    BY <1>1, <1>2 DEF SentSoFar
  <2>2. callAt \in Nat /\ Out \in Seq(Char)
    BY <1>1
  <2>3. s = SubSeq(Out, callAt + 1, callAt + Len(Frame[slot]))
    BY <2>1
  <2> HIDE DEF s
  <2> QED
    BY <2>1, <2>2, <2>3, PartOf
<1>4. s = Frame[slot]
  <2> HIDE DEF s
  <2>1. \A k \in 1..Len(s) : s[k] = Frame[slot][k]
    BY <1>1, <1>3 DEF SentSoFar
  <2> QED
    BY <1>2, <1>3, <2>1
<1> QED
  BY <1>1, <1>4, EveryFrameLoads DEF Loads

LEMMA PieceOf ==
  ASSUME NEW from \in Occurrences(BEGIN, log), NEW to \in Occurrences(END, log)
  PROVE  SubSeq(log, from, to + Len(END) - 1) \in Pieces
<1> DEFINE P(f) == {SubSeq(log, f, t + Len(END) - 1) : t \in Occurrences(END, log)}
<1>1. SubSeq(log, from, to + Len(END) - 1) \in P(from)
  OBVIOUS
<1>2. P(from) \in {P(f) : f \in Occurrences(BEGIN, log)}
  <2> HIDE DEF P
  <2> QED
    OBVIOUS
<1>3. Pieces = UNION {P(f) : f \in Occurrences(BEGIN, log)}
  BY DEF Pieces
<1> QED
  <2> HIDE DEF P
  <2> QED
    BY <1>1, <1>2, <1>3

LEMMA ReadableIsPiece ==
  ASSUME TypeOK, NEW image \in Images, Readable(image)
  PROVE  \E s \in Pieces : Framed(s) /\ Loaded(s) = image
<1>1. Core[image] \in Seq(Char) /\ log \in Seq(Char)
  BY FrameTyped DEF TypeOK
<1> DEFINE n == Len(Core[image])
<1>2. PICK at \in Nat : at + n <= Len(log) /\ \A k \in 1..n : log[at + k] = Core[image][k]
  BY DEF Readable
<1> DEFINE lb == Len(BEGIN)  le == Len(END)
<1>3. /\ 1 \in 1..(n - lb + 1) /\ n - le + 1 \in 1..(n - le + 1)
      /\ \A k \in 1..lb : Core[image][1 + k - 1] = BEGIN[k]
      /\ \A k \in 1..le : Core[image][(n - le + 1) + k - 1] = END[k]
  BY EveryFrameLoads, MarkerFacts DEF Loads, Occurrences
<1>4. /\ n \in Nat /\ lb \in Nat /\ le \in Nat /\ lb <= n /\ le <= n
      /\ DOMAIN BEGIN = 1..lb /\ DOMAIN END = 1..le /\ Len(log) \in Nat
  <2>1. n \in Nat /\ lb \in Nat /\ le \in Nat /\ Len(log) \in Nat
    BY <1>1, MarkerFacts
  <2>2. lb <= n /\ le <= n
    <3> HIDE DEF n, lb, le
    <3>1. 1 \in 1..(n - lb + 1) /\ n - le + 1 \in 1..(n - le + 1)
      BY <1>3
    <3> QED
      BY <2>1, <3>1
  <2> QED
    BY <2>1, <2>2, MarkerFacts
<1> DEFINE from == at + 1  to == at + n - le + 1
<1> HIDE DEF n, lb, le
<1>5. from \in Occurrences(BEGIN, log)
  <2>1. from \in 1..(Len(log) - lb + 1)
    <3>1. at + n <= Len(log)
      BY <1>2
    <3> QED
      BY <1>4, <3>1
  <2>2. ASSUME NEW k \in 1..lb PROVE log[from + k - 1] = BEGIN[k]
    <3>1. k \in 1..n /\ from + k - 1 = at + k /\ 1 + k - 1 = k
      BY <1>4
    <3> QED
      BY <1>2, <1>3, <3>1
  <2> QED
    BY <1>4, <2>1, <2>2 DEF Occurrences, lb
<1>6. to \in Occurrences(END, log)
  <2>1. to \in 1..(Len(log) - le + 1)
    <3>1. at + n <= Len(log)
      BY <1>2
    <3> QED
      BY <1>4, <3>1
  <2>2. ASSUME NEW k \in 1..le PROVE log[to + k - 1] = END[k]
    <3> DEFINE i == (n - le + 1) + k - 1
    <3>1. i \in 1..n /\ to + k - 1 = at + i
      BY <1>4
    <3>2. Core[image][i] = END[k]
      BY <1>3
    <3> HIDE DEF i, to
    <3> QED
      BY <1>2, <3>1, <3>2
  <2> QED
    BY <1>4, <2>1, <2>2 DEF Occurrences, le
<1> DEFINE s == SubSeq(log, from, to + Len(END) - 1)
<1>7. s = Core[image]
  <2>1. to + Len(END) - 1 = at + n
    BY <1>4 DEF le
  <2>2. s = SubSeq(log, at + 1, at + n)
    BY <1>4, <2>1
  <2>3. n \in Nat /\ at \in Nat /\ at + n <= Len(log) /\ log \in Seq(Char)
    BY <1>1, <1>2, <1>4
  <2> HIDE DEF s
  <2>4. s \in Seq(Char) /\ Len(s) = n /\ \A k \in 1..n : s[k] = log[at + k]
    BY <2>2, <2>3, PartOf
  <2>5. \A k \in 1..Len(s) : s[k] = Core[image][k]
    BY <1>2, <2>4
  <2>6. Len(s) = Len(Core[image]) /\ Core[image] \in Seq(Char)
    BY <1>1, <2>4 DEF n
  <2> QED
    BY <2>4, <2>5, <2>6, SameSeq
<1>8. s \in Pieces
  BY <1>5, <1>6, PieceOf
<1> QED
  BY <1>7, <1>8, EveryFrameLoads DEF Loads

ExportInv == TypeOK /\ SentInv /\ ErasedInv

LEMMA ExportInvariant == Spec => []ExportInv
<1>1. Init => ExportInv
  BY InitTyped, InitSent DEF ExportInv
<1>2. ExportInv /\ [Next]_vars => ExportInv'
  BY ExportStepTyped, SentStep, ErasedStep DEF ExportInv
<1> QED
  BY <1>1, <1>2, PTL DEF Spec

\* A call that lost nothing put out a text that loads as the dump in the slot, after
\* any number of boots, calls, lines of the application and cut frames before it.
THEOREM CompleteCallsAlwaysDecode == Spec => []CompleteCallsDecode
<1>1. ExportInv => CompleteCallsDecode
  BY CompleteDecodes DEF ExportInv
<1> QED
  BY <1>1, ExportInvariant, PTL

\* On a line that loses nothing every image that was ever erased can be read from the
\* log, although a reset drops what the UART holds, if that is a line break at most.
THEOREM ErasedStaysReadable == Spec => []ErasedIsReadable
<1>1. ExportInv => ErasedIsReadable
  BY ReadableIsPiece DEF ExportInv, ErasedInv, ErasedIsReadable, TypeOK
<1> QED
  BY <1>1, ExportInvariant, PTL

\* Every export that begins sends a frame that the host takes for the dump in the slot,
\* and that the generator of test files writes too.
THEOREM FrameAlwaysLoads == Spec => []FrameLoads
<1>1. TypeOK => FrameLoads
  BY EveryFrameLoads, TestFilesAreFrames DEF TypeOK, FrameLoads
<1> QED
  BY <1>1, ExportTyped, PTL

-----------------------------------------------------------------------------
(* Where a character of the log comes from.  The characters of one call stand *)
(* one behind the other, with no other call's between them: those after       *)
(* position m and up to position n are characters of the frame of one image,  *)
(* in its order; g says which ones, and that call had come to character `to'. *)
(* The characters of rules that are missing among them are those of gone,     *)
(* and each of them has been lost.                                            *)

RulesKept(image, n, g, to, lost) ==
  \E gone :
    /\ IsFiniteSet(gone) /\ Cardinality(gone) <= lost
    /\ \A p \in 1..to : Frame[image][p] = "=" => p \in gone \/ \E k \in 1..n : g[k] = p

Run(out, image, m, n, g, to) ==
  /\ m \in 0..n /\ n \in 0..Len(out) /\ to \in 0..Len(Frame[image])
  /\ g \in [1..(n - m) -> 1..to]
  /\ \A k \in 1..(n - m) : out[m + k] = Frame[image][g[k]]
  /\ \A k, l \in 1..(n - m) : k < l => g[k] < g[l]

Trace(out, lost, image, m, n, g, to) ==
  Run(out, image, m, n, g, to) /\ RulesKept(image, n - m, g, to, lost)

(* The character at position j. *)
Traced(j) ==
  \E image \in held, m \in 0..(j - 1) : \E g, to : Trace(Out, rules, image, m, j, g, to)

(* What the running call has put out. *)
Running ==
  \E m \in 0..Len(Out) : \E g : Trace(Out, rules, slot, m, Len(Out), g, pos - 1)

TraceInv ==
  /\ \A j \in 1..Len(Out) : Out[j] # Text => Traced(j)
  /\ main = "export" => Running

LEMMA KeptMore ==
  ASSUME NEW image, NEW n, NEW g, NEW to, NEW lost \in Nat, NEW lost2 \in Nat, lost <= lost2,
         RulesKept(image, n, g, to, lost)
  PROVE  RulesKept(image, n, g, to, lost2)
<1>1. PICK gone :
        /\ IsFiniteSet(gone) /\ Cardinality(gone) <= lost
        /\ \A p \in 1..to : Frame[image][p] = "=" => p \in gone \/ \E k \in 1..n : g[k] = p
  BY DEF RulesKept
<1>2. Cardinality(gone) <= lost2
  <2>1. Cardinality(gone) \in Nat
    BY <1>1, FS_CardinalityType
  <2> QED
    BY <1>1, <2>1
<1> QED
  BY <1>1, <1>2 DEF RulesKept

\* Fewer losses than a rule has characters leave something of each of them.
LEMMA RuleShows ==
  ASSUME NEW image, NEW n, NEW g, NEW to \in Nat, NEW lost \in Nat,
         RulesKept(image, n, g, to, lost), lost < RuleLen,
         NEW a \in Nat, a + RuleLen <= to, RuleBehind(Frame[image], a)
  PROVE  \E k \in 1..n : g[k] \in (a + 1)..(a + RuleLen)
<1>1. PICK gone :
        /\ IsFiniteSet(gone) /\ Cardinality(gone) <= lost
        /\ \A p \in 1..to : Frame[image][p] = "=" => p \in gone \/ \E k \in 1..n : g[k] = p
  BY DEF RulesKept
<1> DEFINE rule == (a + 1)..(a + RuleLen)
<1>2. RuleLen \in Nat /\ \A p \in rule : p \in 1..to /\ Frame[image][p] = "="
  <2>1. RuleLen \in Nat
    BY MarkerFacts
  <2>2. \A p \in rule : p \in 1..to
    BY <2>1
  <2>3. \A p \in rule : Frame[image][p] = "="
    BY DEF RuleBehind
  <2> QED
    BY <2>1, <2>2, <2>3
<1>3. IsFiniteSet(rule) /\ Cardinality(rule) = RuleLen
  <2>1. a + 1 \in Int /\ a + RuleLen \in Int /\ (a + RuleLen) - (a + 1) + 1 = RuleLen
        /\ (a + 1 > a + RuleLen => RuleLen = 0)
    BY <1>2
  <2> QED
    BY <2>1, FS_Interval
<1>4. ~(rule \subseteq gone)
  <2> SUFFICES ASSUME rule \subseteq gone PROVE FALSE
    OBVIOUS
  <2> HIDE DEF rule
  <2>1. rule \in SUBSET gone
    OBVIOUS
  <2>2. Cardinality(rule) <= Cardinality(gone)
    BY <1>1, <2>1, FS_Subset
  <2>3. Cardinality(gone) \in Nat
    BY <1>1, FS_CardinalityType
  <2> QED
    BY <1>1, <1>2, <1>3, <2>2, <2>3
<1> QED
  <2> HIDE DEF rule
  <2>1. \E p \in rule : \E k \in 1..n : g[k] = p
    BY <1>1, <1>2, <1>4
  <2> QED
    BY <2>1 DEF rule

LEMMA RunKept ==
  ASSUME NEW out \in Seq(Char), NEW out2 \in Seq(Char),
         NEW image \in Images, NEW m, NEW n, NEW g, NEW to, Run(out, image, m, n, g, to),
         n <= Len(out2), \A k \in 1..n : out2[k] = out[k]
  PROVE  Run(out2, image, m, n, g, to)
<1>1. m \in 0..n /\ n \in 0..Len(out) /\ Len(out) \in Nat /\ Len(out2) \in Nat
  BY DEF Run
<1>2. ASSUME NEW k \in 1..(n - m)
      PROVE  out2[m + k] = Frame[image][g[k]]
  <2>1. m + k \in 1..n
    BY <1>1
  <2>2. out[m + k] = Frame[image][g[k]]
    BY DEF Run
  <2> QED
    BY <2>1, <2>2
<1>3. n \in 0..Len(out2)
  BY <1>1
<1> QED
  BY <1>1, <1>2, <1>3 DEF Run

LEMMA TraceExtends ==
  ASSUME NEW out \in Seq(Char), NEW lost \in Nat, NEW image \in Images, NEW m, NEW g,
         NEW p \in 1..Len(Frame[image]), Trace(out, lost, image, m, Len(out), g, p - 1),
         NEW out2, out2 = Append(out, Frame[image][p])
  PROVE  \E h : Trace(out2, lost, image, m, Len(out) + 1, h, p)
<1> DEFINE n == Len(out)  fr == Frame[image]
           h == [k \in 1..((n + 1) - m) |-> IF k = (n + 1) - m THEN p ELSE g[k]]
<1>1. n \in Nat /\ m \in 0..n /\ fr \in Seq(Char) /\ Len(fr) \in Nat /\ p \in Nat
  BY FrameTyped DEF Trace, Run
<1>2. /\ g \in [1..(n - m) -> 1..(p - 1)]
      /\ \A k \in 1..(n - m) : out[m + k] = fr[g[k]]
      /\ \A k, l \in 1..(n - m) : k < l => g[k] < g[l]
      /\ RulesKept(image, n - m, g, p - 1, lost)
  BY DEF Trace, Run
<1>3. fr[p] \in Char
  BY <1>1
<1>4. out2 \in Seq(Char) /\ Len(out2) = n + 1 /\ out2[n + 1] = fr[p]
      /\ \A k \in 1..n : out2[k] = out[k]
  BY <1>3
<1> DEFINE last == (n + 1) - m
<1>5. last \in Nat /\ last >= 1 /\ m + last = n + 1 /\ last - 1 = n - m
  BY <1>1
<1>6. /\ h[last] = p
      /\ \A k \in 1..(n - m) : k \in 1..last /\ k # last /\ h[k] = g[k]
  BY <1>1
<1>7. h \in [1..last -> 1..p]
  <2>1. \A k \in 1..last : k # last => k \in 1..(n - m)
    BY <1>1, SMTT(30)
  <2>2. \A k \in 1..(n - m) : g[k] \in 1..p
    <3>1. 1..(p - 1) \subseteq 1..p
      BY <1>1
    <3> QED
      BY <1>2, <3>1
  <2>3. \A k \in 1..last : (IF k = last THEN p ELSE g[k]) \in 1..p
    <3>1. p \in 1..p
      BY <1>1
    <3> HIDE DEF last
    <3> QED
      BY <2>1, <2>2, <3>1
  <2> QED
    BY <2>3
<1>8. \A k \in 1..last : k = last \/ k \in 1..(n - m)
  <2> HIDE DEF n, last
  <2> QED
    BY <1>1, <1>5
<1> HIDE DEF h, last, fr, n
<1>9. ASSUME NEW k \in 1..last PROVE out2[m + k] = fr[h[k]]
  <2>1. CASE k = last
    BY <1>1, <1>4, <1>5, <1>6, <2>1
  <2>2. CASE k \in 1..(n - m)
    <3>1. m + k \in 1..n
      BY <1>1, <2>2
    <3>2. out[m + k] = fr[g[k]]
      BY <1>2, <2>2
    <3>3. h[k] = g[k] /\ out2[m + k] = out[m + k]
      BY <1>4, <1>6, <2>2, <3>1
    <3> QED
      BY <3>2, <3>3
  <2> QED
    BY <1>8, <2>1, <2>2
<1>10. ASSUME NEW k \in 1..last, NEW l \in 1..last, k < l PROVE h[k] < h[l]
  <2>1. k \in 1..(n - m) /\ h[k] = g[k] /\ g[k] \in 1..(p - 1)
    <3>1. k \in 1..(n - m)
      BY <1>5, <1>8, <1>10
    <3> QED
      BY <1>2, <1>6, <3>1
  <2>2. CASE l = last
    <3>1. g[k] < p
      BY <1>1, <2>1
    <3> QED
      BY <1>6, <2>1, <2>2, <3>1
  <2>3. CASE l \in 1..(n - m)
    BY <1>2, <1>6, <1>10, <2>1, <2>3
  <2> QED
    BY <1>8, <2>2, <2>3
<1>11. Run(out2, image, m, n + 1, h, p)
  <2>1. m \in 0..(n + 1) /\ n + 1 \in 0..Len(out2)
    BY <1>1, <1>4, SMTT(30)
  <2>2. p \in 0..Len(Frame[image])
    BY <1>1 DEF fr
  <2> QED
    BY <1>7, <1>9, <1>10, <2>1, <2>2 DEF Run, last, fr
<1>12. RulesKept(image, last, h, p, lost)
  <2>1. PICK gone :
          /\ IsFiniteSet(gone) /\ Cardinality(gone) <= lost
          /\ \A q \in 1..(p - 1) : fr[q] = "=" => q \in gone \/ \E k \in 1..(n - m) : g[k] = q
    BY <1>2 DEF RulesKept, fr
  <2>2. ASSUME NEW q \in 1..p, fr[q] = "="
        PROVE  q \in gone \/ \E k \in 1..last : h[k] = q
    <3>1. CASE q = p
      <4>1. last \in 1..last
        BY <1>5
      <4> QED
        BY <1>6, <3>1, <4>1
    <3>2. CASE q # p
      <4>1. q \in 1..(p - 1)
        BY <1>1, <3>2
      <4>2. q \in gone \/ \E k \in 1..(n - m) : g[k] = q
        BY <2>1, <2>2, <4>1
      <4> QED
        BY <1>6, <4>2
    <3> QED
      BY <3>1, <3>2
  <2> QED
    BY <2>1, <2>2 DEF RulesKept, fr
<1> QED
  BY <1>11, <1>12 DEF n, last, Trace

(* Out without its character at h. *)
Without(out, h, out2) ==
  /\ h \in 1..Len(out) /\ Len(out2) = Len(out) - 1
  /\ \A k \in 1..(h - 1) : out2[k] = out[k]
  /\ \A k \in h..(Len(out) - 1) : out2[k] = out[k + 1]

LEMMA RunShifts ==
  ASSUME NEW out \in Seq(Char), NEW out2 \in Seq(Char), NEW h, Without(out, h, out2),
         NEW image \in Images, NEW m, NEW n, NEW g, NEW to,
         Run(out, image, m, n, g, to), h <= m
  PROVE  Run(out2, image, m - 1, n - 1, g, to) /\ (n - 1) - (m - 1) = n - m
<1>1. /\ m \in 0..n /\ n \in 0..Len(out) /\ Len(out) \in Nat /\ Len(out2) = Len(out) - 1
      /\ h \in 1..Len(out) /\ Len(out2) \in Nat
  BY DEF Run, Without
<1>2. /\ g \in [1..(n - m) -> 1..to] /\ to \in 0..Len(Frame[image])
      /\ \A k \in 1..(n - m) : out[m + k] = Frame[image][g[k]]
      /\ \A k, l \in 1..(n - m) : k < l => g[k] < g[l]
  BY Zenon DEF Run
<1>3. (n - 1) - (m - 1) = n - m /\ m - 1 \in 0..(n - 1) /\ n - 1 \in 0..Len(out2)
  BY <1>1
<1>4. ASSUME NEW k \in 1..(n - m) PROVE out2[(m - 1) + k] = Frame[image][g[k]]
  <2> DEFINE i == (m - 1) + k
  <2>1. i \in h..(Len(out) - 1) /\ i + 1 = m + k
    BY <1>1
  <2> HIDE DEF i
  <2>2. out2[i] = out[i + 1]
    BY <2>1 DEF Without
  <2>3. out[m + k] = Frame[image][g[k]]
    BY <1>2
  <2> QED
    BY <2>1, <2>2, <2>3 DEF i
<1> QED
  BY <1>2, <1>3, <1>4 DEF Run

\* A run that loses one of its characters: if that was one of a rule, it is gone.
LEMMA TraceLoses ==
  ASSUME NEW out \in Seq(Char), NEW out2 \in Seq(Char), NEW h, Without(out, h, out2),
         NEW lost \in Nat, NEW lost2, lost2 = lost + (IF out[h] = "=" THEN 1 ELSE 0),
         NEW image \in Images, NEW m, NEW n, NEW g, NEW to,
         Trace(out, lost, image, m, n, g, to), h > m, h <= n
  PROVE  \E g2 : Trace(out2, lost2, image, m, n - 1, g2, to)
<1> DEFINE g2 == [k \in 1..((n - 1) - m) |-> IF m + k < h THEN g[k] ELSE g[k + 1]]
<1>1. /\ m \in 0..n /\ n \in 0..Len(out) /\ Len(out) \in Nat /\ Len(out2) = Len(out) - 1
      /\ h \in 1..Len(out) /\ Len(out2) \in Nat
  BY DEF Trace, Run, Without
<1>2. /\ g \in [1..(n - m) -> 1..to] /\ to \in 0..Len(Frame[image])
      /\ \A k \in 1..(n - m) : out[m + k] = Frame[image][g[k]]
      /\ \A k, l \in 1..(n - m) : k < l => g[k] < g[l]
      /\ RulesKept(image, n - m, g, to, lost)
  BY Zenon DEF Trace, Run
<1>3. m \in 0..(n - 1) /\ n - 1 \in 0..Len(out2) /\ (n - 1) - m + 1 = n - m
  BY <1>1
<1>4. ASSUME NEW k \in 1..((n - 1) - m)
      PROVE /\ k \in 1..(n - m) /\ k + 1 \in 1..(n - m)
            /\ g2[k] = IF m + k < h THEN g[k] ELSE g[k + 1]
  <2>1. k \in 1..(n - m) /\ k + 1 \in 1..(n - m)
    BY <1>1, <1>3
  <2> QED
    BY <2>1
<1>5. g2 \in [1..((n - 1) - m) -> 1..to]
  BY <1>2, <1>4
<1> HIDE DEF g2
<1>6. ASSUME NEW k \in 1..((n - 1) - m) PROVE out2[m + k] = Frame[image][g2[k]]
  <2>1. k \in 1..(n - m) /\ k + 1 \in 1..(n - m) /\ m + (k + 1) = (m + k) + 1
    BY <1>1, <1>4
  <2>2. /\ out[m + k] = Frame[image][g[k]]
        /\ out[m + (k + 1)] = Frame[image][g[k + 1]]
    BY <1>2, <2>1
  <2>3. CASE m + k < h
    <3>1. m + k \in 1..(h - 1)
      BY <1>1, <2>1, <2>3
    <3>2. out2[m + k] = out[m + k] /\ g2[k] = g[k]
      BY <1>4, <2>3, <3>1 DEF Without
    <3> QED
      BY <2>2, <3>2
  <2>4. CASE m + k >= h
    <3>1. m + k \in h..(Len(out) - 1) /\ ~(m + k < h)
      BY <1>1, <2>1, <2>4
    <3>2. out2[m + k] = out[(m + k) + 1] /\ g2[k] = g[k + 1]
      BY <1>4, <3>1 DEF Without
    <3> QED
      BY <2>1, <2>2, <3>2
  <2> QED
    BY <1>1, <2>3, <2>4
<1>7. ASSUME NEW k \in 1..((n - 1) - m), NEW l \in 1..((n - 1) - m), k < l
      PROVE g2[k] < g2[l]
  <2> DEFINE i == IF m + k < h THEN k ELSE k + 1
             j == IF m + l < h THEN l ELSE l + 1
  <2>1. i \in 1..(n - m) /\ j \in 1..(n - m) /\ i < j
    BY <1>1, <1>4, <1>7, SMTT(30)
  <2>2. g2[k] = g[i] /\ g2[l] = g[j]
    BY <1>4
  <2> HIDE DEF i, j
  <2> QED
    BY <1>2, <2>1, <2>2
<1>8. Run(out2, image, m, n - 1, g2, to)
  BY <1>2, <1>3, <1>5, <1>6, <1>7 DEF Run
<1> DEFINE c == h - m  fr == Frame[image]
<1>9. c \in 1..(n - m) /\ m + c = h /\ out[h] = fr[g[c]]
  <2>1. c \in 1..(n - m) /\ m + c = h
    BY <1>1
  <2> HIDE DEF c
  <2> QED
    BY <1>2, <2>1
<1>10. ASSUME NEW k \in 1..(n - m), k # c
       PROVE  \E l \in 1..((n - 1) - m) : g2[l] = g[k]
  <2>1. CASE k < c
    <3>1. k \in 1..((n - 1) - m) /\ m + k < h
      BY <1>1, <2>1
    <3> QED
      BY <1>4, <3>1
  <2>2. CASE k > c
    <3> DEFINE l == k - 1
    <3>1. l \in 1..((n - 1) - m) /\ ~(m + l < h) /\ l + 1 = k
      BY <1>1, <2>2
    <3> HIDE DEF l
    <3> QED
      BY <1>4, <3>1
  <2> QED
    BY <1>1, <1>10, <2>1, <2>2, SMTT(30)
<1>11. PICK gone :
         /\ IsFiniteSet(gone) /\ Cardinality(gone) <= lost
         /\ \A p \in 1..to : fr[p] = "=" => p \in gone \/ \E k \in 1..(n - m) : g[k] = p
  BY <1>2 DEF RulesKept
<1> DEFINE all == gone \cup (IF out[h] = "=" THEN {g[c]} ELSE {})
<1>12. IsFiniteSet(all) /\ Cardinality(all) <= lost2
  <2>1. Cardinality(gone) \in Nat
    BY <1>11, FS_CardinalityType
  <2>2. CASE out[h] = "="
    <3>1. all = gone \cup {g[c]} /\ lost2 = lost + 1
      BY <2>2
    <3> HIDE DEF all, c
    <3>2. IsFiniteSet(all) /\ (Cardinality(all) = Cardinality(gone)
                               \/ Cardinality(all) = Cardinality(gone) + 1)
      BY <1>11, <3>1, FS_AddElement
    <3> QED
      BY <1>11, <2>1, <3>1, <3>2
  <2>3. CASE out[h] # "="
    <3>1. all = gone /\ lost2 = lost
      BY <2>3
    <3> QED
      BY <1>11, <3>1
  <2> QED
    BY <2>2, <2>3
<1>13. ASSUME NEW p \in 1..to, fr[p] = "="
       PROVE  p \in all \/ \E k \in 1..((n - 1) - m) : g2[k] = p
  <2>1. CASE p \in gone
    BY <2>1
  <2>2. CASE \E k \in 1..(n - m) : g[k] = p
    <3>1. PICK k \in 1..(n - m) : g[k] = p
      BY <2>2
    <3>2. CASE k = c
      <4>1. out[h] = "=" /\ p = g[c]
        BY <1>9, <1>13, <3>1, <3>2
      <4> QED
        BY <4>1
    <3>3. CASE k # c
      BY <1>10, <3>1, <3>3
    <3> QED
      BY <3>2, <3>3
  <2> QED
    BY <1>11, <1>13, <2>1, <2>2
<1>14. RulesKept(image, (n - 1) - m, g2, to, lost2)
  <2> HIDE DEF all
  <2> QED
    BY <1>12, <1>13 DEF RulesKept
<1> QED
  BY <1>8, <1>14 DEF Trace

LEMMA TracedKept ==
  ASSUME TypeOK, held \subseteq held', rules' = rules, Out' \in Seq(Char), NEW j \in Nat,
         j <= Len(Out'), \A k \in 1..j : Out'[k] = Out[k], Traced(j)
  PROVE  Traced(j)'
<1>1. PICK image \in held, m \in 0..(j - 1) : \E g, to : Trace(Out, rules, image, m, j, g, to)
  BY DEF Traced
<1>2. PICK g, to : Trace(Out, rules, image, m, j, g, to)
  BY <1>1
<1>3. Out \in Seq(Char) /\ image \in Images
  BY OutTyped DEF TypeOK
<1>4. Trace(Out', rules', image, m, j, g, to)
  <2> DEFINE o == Out  p == Out'
  <2>1. /\ o \in Seq(Char) /\ p \in Seq(Char) /\ Run(o, image, m, j, g, to)
        /\ j <= Len(p) /\ \A k \in 1..j : p[k] = o[k]
    BY <1>2, <1>3 DEF Trace
  <2> HIDE DEF o, p
  <2>2. Run(p, image, m, j, g, to)
    BY <1>3, <2>1, RunKept
  <2> QED
    BY <1>2, <2>2 DEF p, Trace
<1> QED
  BY <1>1, <1>4 DEF Traced

LEMMA LoseOut ==
  ASSUME TypeOK, Lose
  PROVE  /\ Without(Out, Len(log) + 1, Out') /\ Out' \in Seq(Char)
         /\ Len(log) + 1 <= Len(Out) /\ Out[Len(log) + 1] = Head(tx)
<1>1. /\ tx \in Seq(Char) /\ log \in Seq(Char) /\ tx # <<>> /\ tx' = Tail(tx) /\ log' = log
  BY DEF Lose, TypeOK
<1>2. /\ Tail(tx) \in Seq(Char) /\ Len(Tail(tx)) = Len(tx) - 1 /\ Len(tx) >= 1
      /\ \A k \in 1..(Len(tx) - 1) : Tail(tx)[k] = tx[k + 1]
  BY <1>1
<1> DEFINE o == Out  p == Out'  t == Tail(tx)
<1>3. o = log \o tx /\ p = log \o t
  BY <1>1 DEF Out
<1> HIDE DEF o, p, t
<1>4. t \in Seq(Char) /\ Len(t) = Len(tx) - 1 /\ \A k \in 1..(Len(tx) - 1) : t[k] = tx[k + 1]
  BY <1>2 DEF t
<1>5. /\ o \in Seq(Char) /\ Len(o) = Len(log) + Len(tx) /\ Len(log) \in Nat /\ Len(tx) \in Nat
      /\ \A k \in 1..Len(log) : o[k] = log[k]
      /\ \A k \in 1..Len(tx) : o[Len(log) + k] = tx[k]
  <2>1. log \in Seq(Char) /\ tx \in Seq(Char)
    BY <1>1
  <2> QED
    BY <1>3, <2>1, JoinFacts
<1>6. /\ p \in Seq(Char) /\ Len(p) = Len(log) + Len(t)
      /\ \A k \in 1..Len(log) : p[k] = log[k]
      /\ \A k \in 1..Len(t) : p[Len(log) + k] = t[k]
  <2>1. log \in Seq(Char) /\ t \in Seq(Char)
    BY <1>1, <1>4
  <2> QED
    BY <1>3, <2>1, JoinFacts
<1>7. \A k \in 1..Len(log) : p[k] = o[k]
  BY <1>5, <1>6
<1>8. \A k \in (Len(log) + 1)..(Len(o) - 1) : p[k] = o[k + 1]
  <2> TAKE k \in (Len(log) + 1)..(Len(o) - 1)
  <2> DEFINE i == k - Len(log)
  <2>1. i \in 1..(Len(tx) - 1) /\ i \in 1..Len(t) /\ i + 1 \in 1..Len(tx)
        /\ Len(log) + i = k /\ Len(log) + (i + 1) = k + 1
    BY <1>4, <1>5
  <2> HIDE DEF i
  <2>2. p[k] = t[i] /\ o[k + 1] = tx[i + 1] /\ t[i] = tx[i + 1]
    BY <1>4, <1>5, <1>6, <2>1
  <2> QED
    BY <2>2
<1>9. Len(log) + 1 \in 1..Len(o) /\ Len(p) = Len(o) - 1 /\ (Len(log) + 1) - 1 = Len(log)
  BY <1>2, <1>4, <1>5, <1>6
<1>10. o[Len(log) + 1] = Head(tx)
  <2>1. 1 \in 1..Len(tx) /\ Head(tx) = tx[1]
    BY <1>1, <1>2
  <2> QED
    BY <1>5, <2>1
<1>11. Without(o, Len(log) + 1, p)
  BY <1>7, <1>8, <1>9 DEF Without
<1> QED
  BY <1>5, <1>6, <1>9, <1>10, <1>11 DEF o, p

LEMMA LoseTraced ==
  ASSUME TypeOK, TraceInv, Lose
  PROVE  TraceInv'
<1> DEFINE o == Out  p == Out'  h == Len(log) + 1
           more == rules + (IF o[h] = "=" THEN 1 ELSE 0)
<1>1. /\ o \in Seq(Char) /\ p \in Seq(Char) /\ Without(o, h, p)
      /\ Len(o) \in Nat /\ h \in 1..Len(o) /\ Len(p) = Len(o) - 1
  BY LoseOut, OutTyped DEF Without
<1>2. /\ rules' = more /\ held' = held /\ held \subseteq Images
      /\ slot' = slot /\ main' = main /\ pos' = pos
  BY LoseOut DEF Lose, TypeOK
<1>3. \A j \in 1..Len(o) : o[j] # Text =>
        \E image \in held, m \in 0..(j - 1) : \E g, to : Trace(o, rules, image, m, j, g, to)
  BY DEF TraceInv, Traced
<1>4. main = "export" =>
        slot \in held /\ \E m \in 0..Len(o) : \E g : Trace(o, rules, slot, m, Len(o), g, pos - 1)
  BY ImageAssumption DEF TraceInv, Running, TypeOK
<1>5. more = rules + (IF o[h] = "=" THEN 1 ELSE 0)
  OBVIOUS
<1>6. rules \in Nat /\ more \in Nat /\ rules <= more
  BY DEF TypeOK
<1> HIDE DEF o, p, h, more
<1>7. ASSUME NEW image \in held, NEW m, NEW n, NEW g, NEW to, h <= n,
             Trace(o, rules, image, m, n, g, to)
      PROVE  \/ h <= m /\ Trace(p, more, image, m - 1, n - 1, g, to)
             \/ h > m /\ \E g2 : Trace(p, more, image, m, n - 1, g2, to)
  <2>0. image \in Images /\ m \in Int
    BY <1>2, <1>7 DEF Trace, Run
  <2>1. CASE h <= m
    <3>1. Run(o, image, m, n, g, to) /\ RulesKept(image, n - m, g, to, rules)
      BY <1>7 DEF Trace
    <3>2. Run(p, image, m - 1, n - 1, g, to) /\ (n - 1) - (m - 1) = n - m
      BY <1>1, <2>0, <2>1, <3>1, RunShifts
    <3>3. RulesKept(image, n - m, g, to, more)
      BY <1>6, <3>1, KeptMore
    <3> QED
      BY <2>1, <3>2, <3>3 DEF Trace
  <2>2. CASE h > m
    <3>1. \E g2 : Trace(p, more, image, m, n - 1, g2, to)
      BY <1>1, <1>5, <1>6, <1>7, <2>0, <2>2, TraceLoses
    <3> QED
      BY <2>2, <3>1
  <2> QED
    BY <1>1, <2>0, <2>1, <2>2
<1>8. ASSUME NEW j \in 1..Len(p), p[j] # Text
      PROVE  \E image \in held, m \in 0..(j - 1) : \E g, to : Trace(p, more, image, m, j, g, to)
  <2>1. CASE j < h
    <3>1. j \in 1..(h - 1) /\ j \in 1..Len(o) /\ j <= Len(p) /\ j \in Nat
      BY <1>1, <2>1
    <3>2. \A k \in 1..j : p[k] = o[k]
      BY <1>1, <2>1 DEF Without
    <3>3. PICK image \in held, m \in 0..(j - 1) : \E g, to : Trace(o, rules, image, m, j, g, to)
      <4>1. o[j] # Text
        BY <1>8, <3>1, <3>2
      <4> QED
        BY <1>3, <3>1, <4>1
    <3>4. PICK g, to : Trace(o, rules, image, m, j, g, to)
      BY <3>3
    <3>5. Run(p, image, m, j, g, to)
      <4>1. image \in Images /\ Run(o, image, m, j, g, to)
        BY <1>2, <3>4 DEF Trace
      <4> QED
        BY <1>1, <3>1, <3>2, <4>1, RunKept
    <3>6. RulesKept(image, j - m, g, to, more)
      BY <1>6, <3>4, KeptMore DEF Trace
    <3> QED
      BY <3>5, <3>6 DEF Trace
  <2>2. CASE j >= h
    <3> DEFINE n == j + 1
    <3>1. n \in 1..Len(o) /\ n - 1 = j /\ h <= n /\ j \in h..(Len(o) - 1)
      BY <1>1, <2>2
    <3>2. p[j] = o[n]
      <4>1. \A k \in h..(Len(o) - 1) : p[k] = o[k + 1]
        BY <1>1 DEF Without
      <4> QED
        BY <3>1, <4>1
    <3> HIDE DEF n
    <3>3. PICK image \in held, m \in 0..(n - 1) : \E g, to : Trace(o, rules, image, m, n, g, to)
      BY <1>3, <1>8, <3>1, <3>2
    <3>4. PICK g, to : Trace(o, rules, image, m, n, g, to)
      BY <3>3
    <3>5. CASE h <= m
      <4>1. Trace(p, more, image, m - 1, n - 1, g, to)
        <5>1. ~(h > m)
          BY <1>1, <3>1, <3>5
        <5> QED
          BY <1>7, <3>1, <3>4, <5>1
      <4>2. m - 1 \in 0..(j - 1)
        BY <1>1, <3>1, <3>5
      <4> QED
        BY <3>1, <4>1, <4>2
    <3>6. CASE h > m
      <4>1. PICK g2 : Trace(p, more, image, m, n - 1, g2, to)
        <5>1. ~(h <= m)
          BY <1>1, <3>1, <3>6
        <5> QED
          BY <1>7, <3>1, <3>4, <5>1
      <4>2. m \in 0..(j - 1)
        BY <1>1, <2>2, <3>1, <3>6
      <4> QED
        BY <3>1, <4>1, <4>2
    <3> QED
      BY <1>1, <3>5, <3>6
  <2> QED
    BY <1>1, <2>1, <2>2
<1>9. ASSUME main = "export"
      PROVE  \E m \in 0..Len(p) : \E g : Trace(p, more, slot, m, Len(p), g, pos - 1)
  <2> DEFINE n == Len(o)  to == pos - 1
  <2>1. PICK m \in 0..n : \E g : Trace(o, rules, slot, m, n, g, to)
    BY <1>4, <1>9
  <2>2. PICK g : Trace(o, rules, slot, m, n, g, to)
    BY <2>1
  <2>3. slot \in held /\ n \in Nat /\ Len(p) = n - 1 /\ h \in 1..n /\ h <= n
    BY <1>1, <1>4, <1>9
  <2> HIDE DEF n, to
  <2>4. \/ h <= m /\ Trace(p, more, slot, m - 1, n - 1, g, to)
        \/ h > m /\ \E g2 : Trace(p, more, slot, m, n - 1, g2, to)
    BY <1>7, <2>2, <2>3
  <2>5. (h <= m => m - 1 \in 0..Len(p)) /\ (h > m => m \in 0..Len(p))
    BY <2>3
  <2> QED
    BY <2>3, <2>4, <2>5 DEF to
<1>10. \A j \in 1..Len(Out') : Out'[j] # Text => Traced(j)'
  BY <1>2, <1>8 DEF Traced, p
<1>11. main' = "export" => Running'
  BY <1>2, <1>9 DEF Running, p
<1> QED
  BY <1>10, <1>11 DEF TraceInv

LEMMA TraceStep ==
  ASSUME TypeOK, TypeOK', TraceInv, [Next]_vars
  PROVE  TraceInv'
<1>0. /\ Out \in Seq(Char) /\ Out' \in Seq(Char) /\ Len(Out) = Len(log) + Len(tx)
      /\ Len(Out) \in Nat /\ Len(Out') \in Nat /\ rules \in Nat /\ pos \in Nat
  <2>1. Out \in Seq(Char) /\ Len(Out) = Len(log) + Len(tx) /\ rules \in Nat /\ pos \in Nat
    <3>1. rules \in Nat /\ pos \in Nat
      BY DEF TypeOK
    <3> QED
      BY <3>1, OutTyped
  <2>2. log' \in Seq(Char) /\ tx' \in Seq(Char)
    BY DEF TypeOK
  <2>3. Out' \in Seq(Char)
    BY <2>2, ConcatFacts DEF Out
  <2> QED
    BY <2>1, <2>3
<1>1. ASSUME held \subseteq held', rules' = rules, NEW j \in 1..Len(Out), j <= Len(Out'),
             \A k \in 1..j : Out'[k] = Out[k], Out'[j] # Text
      PROVE  Traced(j)'
  <2>1. Traced(j) /\ j \in Nat
    BY <1>0, <1>1 DEF TraceInv
  <2> QED
    BY <1>0, <1>1, <2>1, TracedKept
<1>2. CASE \/ Transmit \/ ShortWrite \/ Exported \/ Clear \/ UNCHANGED vars
  <2>1. /\ Out' = Out /\ held' = held /\ rules' = rules
        /\ main' = "export" => main = "export" /\ pos' = pos /\ slot' = slot
    <3>1. CASE Transmit
      BY <3>1, TransmitMoves DEF Transmit
    <3>2. CASE ShortWrite \/ Exported \/ Clear
      BY <3>2 DEF ShortWrite, Sending, Exported, Clear, Return, Out
    <3>3. CASE UNCHANGED vars
      BY <3>3 DEF vars, Out
    <3> QED
      BY <1>2, <3>1, <3>2, <3>3
  <2>2. \A j \in 1..Len(Out') : Out'[j] # Text => Traced(j)'
    BY <1>0, <1>1, <2>1
  <2>3. main' = "export" => Running'
    BY <2>1 DEF TraceInv, Running
  <2> QED
    BY <2>2, <2>3 DEF TraceInv
<1>3. CASE Call
  <2>1. /\ Out' = Out /\ held' = held /\ rules' = rules /\ pos' = 1
        /\ slot' = slot /\ slot \in Images
    BY <1>3 DEF Call, Out
  <2>2. \A j \in 1..Len(Out') : Out'[j] # Text => Traced(j)'
    BY <1>0, <1>1, <2>1
  <2> DEFINE n == Len(Out')
  <2>3. Trace(Out', rules', slot', n, n, <<>>, 0)
    <3>1. n - n = 0 /\ n \in 0..n /\ 1..0 = {}
      BY <1>0
    <3>2. <<>> \in [1..(n - n) -> 1..0] /\ 0 \in 0..Len(Frame[slot'])
      <4>1. Len(Frame[slot']) \in Nat
        BY <2>1, FrameTyped
      <4> QED
        BY <3>1, <4>1
    <3> HIDE DEF n
    <3>3. Run(Out', slot', n, n, <<>>, 0)
      BY <3>1, <3>2 DEF Run, n
    <3>4. RulesKept(slot', n - n, <<>>, 0, rules')
      <4>1. Cardinality({}) <= rules' /\ IsFiniteSet({})
        BY <1>0, <2>1, FS_EmptySet
      <4> QED
        BY <3>1, <4>1 DEF RulesKept
    <3> QED
      BY <3>3, <3>4 DEF Trace
  <2>4. n \in 0..n /\ pos' - 1 = 0
    BY <1>0, <2>1
  <2>5. Running'
    BY <2>3, <2>4 DEF Running
  <2> QED
    BY <2>2, <2>5 DEF TraceInv
<1>4. CASE Reset \/ \E image \in Images : Panic(image)
  <2>1. Reboot /\ held \subseteq held'
    BY <1>4 DEF Reset, Panic
  <2>2. tx' = <<>> /\ log' = log /\ rules' = rules /\ main' = "app"
    BY <2>1 DEF Reboot, Return
  <2>3. Len(Out') = Len(log) /\ \A k \in 1..Len(log) : Out'[k] = Out[k]
    <3>1. log \in Seq(Char) /\ tx \in Seq(Char) /\ <<>> \in Seq(Char)
      BY DEF TypeOK
    <3>2. Out' = log \o <<>>
      BY <2>2 DEF Out
    <3>3. \A k \in 1..Len(log) : Out[k] = log[k]
      BY <3>1, ConcatFacts DEF Out
    <3>4. Out' = log
      BY <3>1, <3>2
    <3> QED
      BY <3>3, <3>4
  <2>4. \A j \in 1..Len(Out') : Out'[j] # Text => Traced(j)'
    <3> TAKE j \in 1..Len(Out')
    <3> HAVE Out'[j] # Text
    <3>1. j \in 1..Len(log) /\ j \in 1..Len(Out) /\ j <= Len(Out') /\ Len(log) \in Nat
      BY <1>0, <2>3, OutTyped
    <3>2. \A k \in 1..j : Out'[k] = Out[k]
      BY <2>3, <3>1
    <3> QED
      BY <1>1, <2>1, <2>2, <3>1, <3>2
  <2> QED
    BY <2>2, <2>4 DEF TraceInv
<1>5. CASE Puts
  <2>1. /\ Out' = Append(Out, Text) /\ held' = held /\ rules' = rules /\ main' = "app"
    BY <1>5, PutPuts, MarkersTyped DEF Puts
  <2>2. \A j \in 1..Len(Out') : Out'[j] # Text => Traced(j)'
    <3> TAKE j \in 1..Len(Out')
    <3> HAVE Out'[j] # Text
    <3>1. Len(Out') = Len(Out) + 1 /\ Out'[Len(Out) + 1] = Text
          /\ \A k \in 1..Len(Out) : Out'[k] = Out[k]
      BY <1>0, <2>1, MarkersTyped
    <3>2. j \in 1..Len(Out) /\ j <= Len(Out')
      BY <1>0, <3>1
    <3>3. \A k \in 1..j : Out'[k] = Out[k]
      BY <1>0, <3>1, <3>2
    <3> QED
      BY <1>1, <2>1, <3>2, <3>3
  <2> QED
    BY <2>1, <2>2 DEF TraceInv
<1>6. CASE Send
  <2> DEFINE n == Len(Out)  o == Out  p == Out'
  <2>1. /\ main = "export" /\ slot \in Images /\ pos \in 1..Len(Frame[slot])
        /\ slot \in held /\ Frame[slot] \in Seq(Char)
    <3>1. main = "export" /\ slot \in Images /\ slot \in held
      BY <1>6, ImageAssumption DEF Send, Sending, TypeOK
    <3>2. pos \in 1..Len(Frame[slot])
      <4>1. Frame[slot] \in Seq(Char)
        BY <3>1, FrameTyped
      <4> QED
        BY <1>6, <3>1, <4>1 DEF Send, Sending, TypeOK
    <3> QED
      BY <3>1, <3>2, FrameTyped
  <2>2. /\ p = Append(o, Frame[slot][pos]) /\ held' = held /\ rules' = rules
        /\ slot' = slot /\ pos' = pos + 1 /\ Frame[slot][pos] \in Char
    <3>1. Frame[slot][pos] \in Char
      BY <2>1
    <3> QED
      BY <1>6, <3>1, PutPuts DEF Send, Sending
  <2>3. PICK m \in 0..n : \E g : Trace(o, rules, slot, m, n, g, pos - 1)
    BY <2>1 DEF TraceInv, Running
  <2>4. PICK g : Trace(o, rules, slot, m, n, g, pos - 1)
    BY <2>3
  <2>5. PICK h : Trace(p, rules, slot, m, n + 1, h, pos)
    <3>1. o \in Seq(Char) /\ n = Len(o)
      BY <1>0
    <3> HIDE DEF o, p, n
    <3> QED
      BY <1>0, <2>1, <2>2, <2>4, <3>1, TraceExtends
  <2>6. Len(p) = n + 1 /\ (\A k \in 1..n : p[k] = o[k]) /\ n \in Nat
    BY <1>0, <2>2
  <2>7. Running'
    <3>1. m \in 0..Len(p) /\ pos' - 1 = pos
      BY <1>0, <2>2, <2>6
    <3>2. Trace(p, rules, slot, m, Len(p), h, pos)
      BY <2>5, <2>6
    <3> QED
      BY <2>2, <3>1, <3>2 DEF Running
  <2>8. \A j \in 1..Len(Out') : Out'[j] # Text => Traced(j)'
    <3> TAKE j \in 1..Len(Out')
    <3> HAVE Out'[j] # Text
    <3>1. CASE j \in 1..n
      <4>1. j <= Len(Out') /\ \A k \in 1..j : Out'[k] = Out[k]
        BY <2>6, <3>1
      <4> QED
        BY <1>1, <2>2, <3>1, <4>1
    <3>2. CASE j = n + 1
      <4>1. m \in 0..(j - 1)
        BY <3>2, <2>6
      <4>2. Trace(Out', rules', slot, m, j, h, pos)
        BY <2>2, <2>5, <3>2
      <4> QED
        BY <2>1, <2>2, <4>1, <4>2 DEF Traced
    <3> QED
      BY <2>6, <3>1, <3>2
  <2> QED
    BY <2>7, <2>8 DEF TraceInv
<1>7. CASE Lose
  BY <1>7, LoseTraced
<1> QED
  BY <1>2, <1>3, <1>4, <1>5, <1>6, <1>7 DEF Next

LEMMA InitTraced == Init => TraceInv
<1> SUFFICES ASSUME Init PROVE TraceInv
  OBVIOUS
<1>1. tx = <<>> /\ log = <<>> /\ main = "app"
  BY DEF Init
<1>2. Len(Out) = 0
  BY <1>1 DEF Out
<1> QED
  BY <1>1, <1>2 DEF TraceInv

-----------------------------------------------------------------------------
(* What the host takes for a frame: its digits all stand in one run, since a  *)
(* run that began after the first marker would show one of its own rules.     *)

LEMMA FirstOccurs ==
  ASSUME NEW marker, NEW s \in Seq(Char), Len(marker) \in Nat, Occurrences(marker, s) # {}
  PROVE  /\ First(marker, s) \in Occurrences(marker, s)
         /\ \A i \in Occurrences(marker, s) : First(marker, s) <= i
<1> DEFINE found == Occurrences(marker, s)
<1>1. found \subseteq Nat
  BY DEF Occurrences
<1>2. \E i \in found : \A k \in found : i <= k
  <2> HIDE DEF found
  <2> QED
    BY <1>1, LeastNumber DEF found
<1> QED
  BY <1>2 DEF First

(* u stands in the log behind place at, which ends a rule, and s has it as its body. *)
BodyAt(s, u, at) ==
  /\ u \in Seq(Char) /\ Body(s) = HexOf(u)
  /\ at \in 1..Len(log) /\ log[at] = "="
  /\ at + Len(u) <= Len(log)
  /\ \A x \in 1..Len(u) : u[x] = log[at + x]

(* The text between the first marker of a piece, at from, and the other. *)
LEMMA PieceBody ==
  ASSUME TypeOK, NEW from \in Occurrences(BEGIN, log),
         NEW s, s = SubSeq(log, from, Len(log)), Framed(s)
  PROVE  \E u, at : BodyAt(s, u, at)
<1> DEFINE lb == Len(BEGIN)  le == Len(END)
<1>0. /\ lb \in Nat \ {0} /\ le \in Nat \ {0} /\ DOMAIN BEGIN = 1..lb /\ BEGIN[lb] = "="
  <2>1. RuleLen \in 1..RuleLen /\ lb = RuleLen + Len(BeginWords) + RuleLen
    BY MarkerFacts
  <2>2. BEGIN[RuleLen + Len(BeginWords) + RuleLen] = "="
    BY <2>1, MarkerShape, MarkerFacts
  <2> QED
    BY <2>1, <2>2, MarkerFacts
<1>1. /\ log \in Seq(Char) /\ Len(log) \in Nat /\ from \in 1..(Len(log) - lb + 1)
      /\ \A k \in 1..lb : log[from + k - 1] = BEGIN[k]
  <2>1. log \in Seq(Char) /\ Len(log) \in Nat
    BY DEF TypeOK
  <2>2. /\ from \in 1..(Len(log) - Len(BEGIN) + 1)
        /\ \A k \in DOMAIN BEGIN : log[from + k - 1] = BEGIN[k]
    BY Zenon DEF Occurrences
  <2> QED
    BY <1>0, <2>1, <2>2, Zenon
<1> HIDE DEF lb, le
<1> DEFINE n == Len(log) - (from - 1)
<1>2. n \in Nat /\ n >= lb /\ from - 1 \in Nat /\ (from - 1) + n = Len(log)
  <2>1. from \in 1..(Len(log) - lb + 1) /\ Len(log) \in Nat
    BY <1>1
  <2> QED
    BY <1>0, <2>1
<1> HIDE DEF n
<1>3. s \in Seq(Char) /\ Len(s) = n /\ \A k \in 1..n : s[k] = log[(from - 1) + k]
  <2> DEFINE a == from - 1
  <2>1. a + 1 = from /\ a + n = Len(log) /\ a \in Nat /\ n \in Nat /\ a + n <= Len(log)
    BY <1>1, <1>2
  <2> HIDE DEF a
  <2>2. s = SubSeq(log, a + 1, a + n)
    BY <2>1, Zenon
  <2>3. log \in Seq(Char)
    BY <1>1
  <2>4. s \in Seq(Char) /\ Len(s) = n /\ \A k \in 1..n : s[k] = log[a + k]
    BY <2>1, <2>2, <2>3, PartOf
  <2> QED
    BY <2>4 DEF a
<1>4. First(BEGIN, s) = 1
  <2>1. 1 \in Occurrences(BEGIN, s)
    <3>1. 1 \in 1..(Len(s) - lb + 1)
      <4>1. Len(s) = n
        BY <1>3
      <4> QED
        BY <1>0, <1>2, <4>1
    <3>2. ASSUME NEW k \in 1..lb PROVE s[1 + k - 1] = BEGIN[k]
      <4>1. 1 + k - 1 = k /\ k \in 1..n /\ (from - 1) + k = from + k - 1
        <5>1. from \in Nat
          BY <1>1
        <5> QED
          BY <1>0, <1>2, <5>1
      <4> QED
        BY <1>1, <1>3, <4>1
    <3> QED
      BY <1>0, <3>1, <3>2 DEF Occurrences, lb
  <2>2. First(BEGIN, s) \in Occurrences(BEGIN, s) /\ First(BEGIN, s) <= 1
    <3>1. Len(BEGIN) \in Nat
      BY MarkerFacts
    <3> QED
      BY <1>3, <2>1, <3>1, FirstOccurs
  <2>3. First(BEGIN, s) \in Nat \ {0}
    BY <2>2 DEF Occurrences
  <2> QED
    BY <2>2, <2>3
<1> DEFINE e == First(END, s)
<1>5. e \in Nat \ {0} /\ e <= n
  <2>1. Occurrences(END, s) # {}
    BY DEF Framed, Once
  <2>2. e \in Occurrences(END, s)
    <3>1. s \in Seq(Char) /\ Len(END) \in Nat
      BY <1>3, MarkerFacts
    <3> QED
      BY <2>1, <3>1, FirstOccurs
  <2>3. e \in 1..(Len(s) - le + 1)
    BY <2>2 DEF Occurrences, le
  <2>4. Len(s) = n /\ n \in Nat /\ le \in Nat \ {0}
    BY <1>0, <1>2, <1>3
  <2> DEFINE l == Len(s)
  <2> HIDE DEF e, l
  <2>5. e \in 1..(l - le + 1) /\ l = n
    BY <2>3, <2>4 DEF l
  <2> QED
    BY <2>4, <2>5
<1> HIDE DEF e
<1> DEFINE u == SubSeq(s, lb + 1, e - 1)  at == (from - 1) + lb
<1>6. Body(s) = HexOf(u)
  <2>1. First(BEGIN, s) + Len(BEGIN) = lb + 1
    BY <1>0, <1>4 DEF lb
  <2> QED
    BY <2>1 DEF Body, e
<1>7. at \in Nat /\ at \in 1..Len(log) /\ log[at] = "="
  <2>1. lb \in 1..lb /\ from + lb - 1 = at /\ at \in Nat /\ at \in 1..Len(log)
    <3>1. from \in Nat \ {0} /\ Len(log) \in Nat
      BY <1>1
    <3> QED
      BY <1>0, <1>2, <3>1
  <2>2. log[from + lb - 1] = BEGIN[lb]
    BY <1>1, <2>1
  <2> QED
    BY <1>0, <2>1, <2>2
<1>8. CASE e > lb
  <2> DEFINE m == e - (lb + 1)
  <2>1. m \in Nat /\ lb + m <= n /\ e - 1 = lb + m
    BY <1>0, <1>2, <1>5, <1>8
  <2> HIDE DEF m
  <2>2. u = SubSeq(s, lb + 1, lb + m) /\ lb + m <= Len(s) /\ lb \in Nat
    BY <1>0, <1>3, <2>1
  <2> HIDE DEF u
  <2>3. u \in Seq(Char) /\ Len(u) = m /\ \A k \in 1..m : u[k] = s[lb + k]
    BY <1>3, <2>1, <2>2, PartOf, ZenonT(30)
  <2>4. ASSUME NEW x \in 1..Len(u) PROVE u[x] = log[at + x]
    <3>1. x \in 1..m /\ lb + x \in 1..n /\ (from - 1) + (lb + x) = at + x
      BY <1>0, <1>2, <2>1, <2>3
    <3>2. u[x] = s[lb + x] /\ s[lb + x] = log[(from - 1) + (lb + x)]
      BY <1>3, <2>3, <3>1
    <3> HIDE DEF at
    <3> QED
      BY <3>1, <3>2
  <2>5. at + Len(u) <= Len(log)
    BY <1>0, <1>2, <2>1, <2>3
  <2>6. BodyAt(s, u, at)
    BY <1>6, <1>7, <2>3, <2>4, <2>5 DEF BodyAt
  <2> QED
    BY <2>6
<1>9. CASE e <= lb
  <2>1. u = <<>>
    BY <1>0, <1>3, <1>5, <1>9
  <2> HIDE DEF u
  <2>2. u \in Seq(Char) /\ Len(u) = 0 /\ at + Len(u) <= Len(log)
    BY <1>7, <2>1
  <2>3. \A x \in 1..Len(u) : u[x] = log[at + x]
    BY <2>2
  <2>4. BodyAt(s, u, at)
    BY <1>6, <1>7, <2>2, <2>3 DEF BodyAt
  <2> QED
    BY <2>4
<1> QED
  BY <1>0, <1>5, <1>8, <1>9

(* As many digits as an image has, at the places Q of a text without rules.   *)
Reads(u, Q) ==
  /\ Q \in [1..(2 * NBytes) -> 1..Len(u)]
  /\ \A d \in 1..(2 * NBytes) : u[Q[d]] \in Digit
  /\ \A d, e \in 1..(2 * NBytes) : d < e => Q[d] < Q[e]
  /\ \A i \in 1..Len(u) : u[i] # "="

(* Where in the frame the run has them. *)
Found(image, u, Q, h) ==
  /\ h \in [1..(2 * NBytes) -> Nat]
  /\ \A d \in 1..(2 * NBytes) : Frame[image][h[d]] = u[Q[d]]
  /\ \A d, e \in 1..(2 * NBytes) : d < e => h[d] < h[e]

\* Behind a rule's character at position at the run can show digits up to the next
\* rule only; enough of them stand between the markers of its frame, and nowhere else.
LEMMA OneRun ==
  ASSUME NEW out \in Seq(Char), NEW image \in Images, NEW lost \in Nat, lost < RuleLen,
         NEW u \in Seq(Char), NEW at \in Nat \ {0}, out[at] = "=",
         \A x \in 1..Len(u) : out[at + x] = u[x],
         NEW Q, Reads(u, Q), NEW j, j = at + Q[2 * NBytes],
         NEW m \in 0..(j - 1), NEW g, NEW to, Trace(out, lost, image, m, j, g, to)
  PROVE  \E h : /\ Found(image, u, Q, h)
                /\ \A d \in 1..(2 * NBytes) :
                     h[d] > Len(BEGIN) /\ h[d] <= Len(BEGIN) + Len(Between(image))
<1> DEFINE n == 2 * NBytes  fr == Frame[image]  mid == Between(image)  l == Len(mid)
           r == RuleLen  x == Len(BeginWords)  y == Len(EndWords)
           lb == Len(BEGIN)  le == Len(END)  last == Q[n]
<1>1. /\ n \in Nat \ {0} /\ r \in Nat \ {0} /\ l \in Nat
      /\ x \in 1..(n - 1) /\ y \in 1..(n - 1) /\ lb = r + x + r /\ le = r + y + r
  <2>1. n \in Nat \ {0} /\ l \in Nat
    BY SizeAssumption, BetweenSpells
  <2> QED
    BY <2>1, MarkerFacts
<1>2. /\ mid \in Seq(Middle) /\ EOL \in Seq(Space) /\ Len(EOL) = 2
      /\ fr \in Seq(Char) /\ Marked(fr, mid, EOL) /\ Len(fr) = lb + l + le + 2
  <2>1. mid \in Seq(Middle) /\ EOL \in Seq(Space) /\ Len(EOL) = 2
        /\ fr \in Seq(Char) /\ Marked(fr, mid, EOL)
    BY BetweenSpells, CharFacts, FrameText
  <2> HIDE DEF fr, mid
  <2> QED
    BY <2>1 DEF Marked
<1>3. /\ \A a \in Starts(mid) : a \in Nat /\ a + r <= Len(fr) /\ RuleBehind(fr, a)
      /\ \A p \in 1..Len(fr) : fr[p] = "=" => \E a \in Starts(mid) : p \in (a + 1)..(a + r)
  <2> HIDE DEF fr, mid
  <2> QED
    BY <1>2, MarkedRules
<1>4. Starts(mid) = {0, r + x, lb + l, lb + l + r + y}
  BY DEF Starts
<1>5. /\ Q \in [1..n -> 1..Len(u)] /\ \A d \in 1..n : u[Q[d]] \in Digit
      /\ \A d, e \in 1..n : d < e => Q[d] < Q[e]
      /\ \A i \in 1..Len(u) : u[i] # "="
  BY Zenon DEF Reads
<1>6. \A k \in 1..Len(EOL) : fr[lb + l + le + k] \in Space
  <2>1. \A k \in 1..Len(EOL) : fr[lb + l + le + k] = EOL[k] /\ EOL[k] \in Space
    <3>1. \A k \in 1..Len(EOL) : EOL[k] \in Space
      <4> DEFINE e == EOL
      <4>1. e \in Seq(Space)
        BY <1>2
      <4> HIDE DEF e
      <4>2. \A k \in 1..Len(e) : e[k] \in Space
        BY <4>1
      <4> QED
        BY <4>2 DEF e
    <3> QED
      BY <1>2, <3>1, Zenon DEF Marked
  <2> QED
    BY <2>1
<1>7. /\ m \in Nat /\ m < j /\ to \in 0..Len(fr) /\ g \in [1..(j - m) -> 1..to]
      /\ \A k \in 1..(j - m) : out[m + k] = fr[g[k]]
      /\ \A k, i \in 1..(j - m) : k < i => g[k] < g[i]
      /\ RulesKept(image, j - m, g, to, lost)
  <2>1. j \in Nat
    BY <1>1, <1>5, SMTT(30)
  <2>2. m \in Nat /\ m < j
    BY <2>1
  <2> QED
    BY <2>2, Zenon DEF Trace, Run
<1> HIDE DEF fr, mid, n, l, r, x, y, lb, le, last
<1>8. /\ last \in 1..Len(u) /\ j = at + last /\ j \in Nat /\ Len(u) \in Nat /\ n \in 1..n
      /\ \A d \in 1..n : Q[d] \in 1..last
  <2>1. n \in 1..n /\ last = Q[n] /\ j = at + last
    BY <1>1 DEF last, n
  <2>2. last \in 1..Len(u)
    BY <1>5, <2>1
  <2>3. ASSUME NEW d \in 1..n PROVE Q[d] \in 1..last
    <3>1. Q[d] \in 1..Len(u)
      BY <1>5
    <3>2. d = n \/ d < n
      BY <1>1
    <3>3. Q[d] = last \/ Q[d] < last
      BY <1>5, <2>1, <3>2
    <3> QED
      BY <2>2, <3>1, <3>3
  <2> QED
    BY <2>1, <2>2, <2>3, SMTT(30)
<1> DEFINE z == j - m
<1>a. /\ m \in Nat /\ j \in Nat /\ m < j /\ last \in Nat \ {0} /\ j = at + last
      /\ z \in Nat \ {0} /\ z \in 1..z /\ m + z = j /\ j \in (at + 1)..j
  <2>1. last \in Nat \ {0}
    BY <1>8
  <2>2. m \in Nat /\ j \in Nat /\ m < j /\ j = at + last
    BY <1>7, <1>8
  <2> QED
    BY <2>1, <2>2, SMTT(30)
<1> HIDE DEF z
<1>b. /\ g \in [1..z -> 1..to] /\ RulesKept(image, z, g, to, lost)
      /\ \A k \in 1..z : out[m + k] = fr[g[k]]
      /\ \A k, i \in 1..z : k < i => g[k] < g[i]
  BY <1>7, Zenon DEF z
<1> DEFINE P == g[z]
<1>9. P \in 1..to /\ P \in Nat /\ P <= to /\ to \in Nat /\ z \in 1..z
      /\ to <= Len(fr) /\ \A k \in 1..z : g[k] \in 1..to /\ g[k] <= P
  <2>1. z \in 1..z /\ Len(fr) \in Nat
    BY <1>2, <1>a
  <2>2. to \in Nat /\ to <= Len(fr)
    <3>1. to \in 0..Len(fr)
      BY <1>7
    <3> QED
      BY <2>1, <3>1
  <2>3. P \in 1..to
    BY <1>b, <2>1
  <2>4. ASSUME NEW k \in 1..z PROVE g[k] \in 1..to /\ g[k] <= P
    <3>1. g[k] \in 1..to
      BY <1>b
    <3>2. k = z \/ k < z
      BY <1>a
    <3>3. g[k] = P \/ g[k] < P
      BY <1>b, <2>1, <3>2
    <3> QED
      BY <2>2, <2>3, <3>1, <3>3
  <2> QED
    BY <2>1, <2>2, <2>3, <2>4
<1> HIDE DEF P
<1>10. ASSUME NEW i \in (at + 1)..j
       PROVE  i - at \in 1..Len(u) /\ at + (i - at) = i /\ out[i] = u[i - at] /\ out[i] # "="
  <2>1. i - at \in 1..Len(u) /\ at + (i - at) = i
    <3>1. last \in 1..Len(u) /\ Len(u) \in Nat
      BY <1>8
    <3> QED
      BY <1>a, <3>1
  <2>2. out[at + (i - at)] = u[i - at] /\ u[i - at] # "="
    BY <1>5, <2>1
  <2> QED
    BY <2>1, <2>2
<1>11. fr[P] # "="
  <2>1. out[m + z] = fr[P]
    BY <1>b, <1>9 DEF P
  <2> QED
    BY <1>10, <1>a, <2>1
<1>12. ASSUME NEW a \in Starts(mid), NEW q \in Nat, q <= a,
              \A k \in 1..z : g[k] > q => m + k > at
       PROVE  P <= a
  <2>1. a \in Nat /\ RuleBehind(fr, a)
    BY <1>3
  <2>2. \A p \in (a + 1)..(a + r) : fr[p] = "="
    BY <2>1 DEF RuleBehind, r
  <2>3. CASE a + r <= P
    <3>1. PICK k \in 1..z : g[k] \in (a + 1)..(a + r)
      <4>1. a + r <= to
        BY <1>1, <1>9, <2>1, <2>3
      <4> QED
        BY <1>b, <1>9, <2>1, <4>1, RuleShows DEF r, fr
    <3>2. fr[g[k]] = "=" /\ out[m + k] = fr[g[k]]
      BY <1>b, <2>2, <3>1
    <3>3. g[k] > q
      BY <1>1, <1>12, <2>1, <3>1
    <3>4. m + k \in (at + 1)..j
      <4>1. m + k > at
        BY <1>12, <3>3
      <4> QED
        BY <1>a, <4>1
    <3> QED
      BY <1>10, <3>2, <3>4
  <2>4. CASE a + r > P
    <3>1. P \notin (a + 1)..(a + r)
      BY <1>11, <2>2
    <3> QED
      BY <1>1, <1>9, <2>1, <2>4, <3>1
  <2> QED
    BY <1>1, <1>9, <2>1, <2>3, <2>4
<1>13. m < at
  <2> SUFFICES ASSUME m >= at PROVE FALSE
    BY <1>a
  <2>1. 0 \in Starts(mid)
    BY <1>4
  <2>2. \A k \in 1..z : g[k] > 0 => m + k > at
    BY <1>a
  <2>3. P <= 0
    BY <1>12, <2>1, <2>2
  <2> QED
    BY <1>9, <2>3
<1> DEFINE c == at - m  q == g[c]
<1>14. c \in 1..z /\ m + c = at
  BY <1>a, <1>13
<1>15. q \in 1..to /\ q \in Nat /\ q \in 1..Len(fr) /\ fr[q] = "="
  <2>1. q \in 1..to
    BY <1>9, <1>14
  <2>2. fr[q] = "="
    BY <1>b, <1>14
  <2> HIDE DEF q
  <2>3. Len(fr) \in Nat
    BY <1>2
  <2> QED
    BY <1>9, <2>1, <2>2, <2>3
<1>16. \A k \in 1..z : g[k] > q => m + k > at
  <2> TAKE k \in 1..z
  <2> HAVE g[k] > q
  <2>1. g[k] \in Nat
    BY <1>9
  <2>2. ~(k < c) /\ k # c
    <3>1. k < c => g[k] < q
      BY <1>b, <1>14
    <3>2. g[k] > q /\ q \in Nat
      BY <1>15
    <3>3. k = c => g[k] = q
      OBVIOUS
    <3> HIDE DEF q, c
    <3> QED
      BY <2>1, <3>1, <3>2, <3>3
  <2>3. c \in 1..z /\ m + c = at
    BY <1>14
  <2> HIDE DEF c
  <2> QED
    BY <1>a, <2>2, <2>3
<1> HIDE DEF c, q
<1>17. PICK b \in Starts(mid) : q \in (b + 1)..(b + r)
  BY <1>3, <1>15
<1> DEFINE h == [d \in 1..n |-> g[(at + Q[d]) - m]]
<1>18. ASSUME NEW d \in 1..n
       PROVE  /\ h[d] = g[(at + Q[d]) - m] /\ (at + Q[d]) - m \in 1..z
              /\ m + ((at + Q[d]) - m) = at + Q[d] /\ (at + Q[d]) - m > c
              /\ at + Q[d] \in (at + 1)..j
  <2>1. Q[d] \in 1..last
    BY <1>8
  <2> DEFINE v == Q[d]
  <2> HIDE DEF v
  <2>2. /\ (at + v) - m \in 1..z /\ m + ((at + v) - m) = at + v /\ (at + v) - m > c
        /\ at + v \in (at + 1)..j
    <3>1. v \in 1..last
      BY <2>1 DEF v
    <3> QED
      BY <1>a, <1>13, <1>14, <3>1
  <2> QED
    BY <2>2 DEF v
<1> HIDE DEF h
<1>19. ASSUME NEW d \in 1..n
       PROVE  /\ h[d] \in Nat /\ h[d] <= P /\ h[d] > q /\ h[d] \in 1..Len(fr)
              /\ fr[h[d]] = u[Q[d]] /\ fr[h[d]] \in Digit /\ fr[h[d]] # "="
  <2> DEFINE k == (at + Q[d]) - m
  <2>1. h[d] = g[k] /\ k \in 1..z /\ m + k = at + Q[d] /\ k > c /\ m + k \in (at + 1)..j
    BY <1>18
  <2> HIDE DEF k
  <2>2. g[k] \in 1..to /\ g[k] <= P
    BY <1>9, <2>1
  <2>3. g[k] > q
    <3>1. c < k
      BY <1>14, <2>1
    <3>2. q < g[k]
      BY <1>b, <1>14, <2>1, <3>1 DEF q
    <3>3. g[k] \in Nat
      BY <2>2
    <3> QED
      BY <1>15, <3>2, <3>3
  <2>4. fr[g[k]] = out[m + k] /\ out[m + k] # "="
    BY <1>b, <1>10, <2>1
  <2>5. out[at + Q[d]] = u[Q[d]] /\ u[Q[d]] \in Digit
    BY <1>5
  <2>6. g[k] \in Nat /\ g[k] \in 1..Len(fr)
    <3>1. Len(fr) \in Nat
      BY <1>2
    <3> QED
      BY <1>9, <2>2, <3>1
  <2> QED
    BY <2>1, <2>2, <2>3, <2>4, <2>5, <2>6
<1>20. h \in [1..n -> Nat] /\ \A d, e \in 1..n : d < e => h[d] < h[e]
  <2>1. h \in [1..n -> Nat]
    BY <1>19 DEF h
  <2>2. ASSUME NEW d \in 1..n, NEW e \in 1..n, d < e PROVE h[d] < h[e]
    <3> DEFINE k == (at + Q[d]) - m  i == (at + Q[e]) - m
    <3>1. k \in 1..z /\ h[d] = g[k] /\ i \in 1..z /\ h[e] = g[i]
      BY <1>18
    <3>2. k < i
      <4> DEFINE v == Q[d]  w == Q[e]
      <4>1. v < w /\ v \in 1..last /\ w \in 1..last
        BY <1>5, <1>8, <2>2
      <4> HIDE DEF v, w
      <4>2. (at + v) - m < (at + w) - m
        BY <1>a, <4>1
      <4> QED
        BY <4>2 DEF v, w
    <3> HIDE DEF k, i
    <3> QED
      BY <1>b, <3>1, <3>2
  <2> QED
    BY <2>1, <2>2
<1>21. b \in Nat /\ \A d \in 1..n : h[d] > b + r
  <2>1. b \in Nat /\ RuleBehind(fr, b)
    BY <1>3
  <2>2. ASSUME NEW d \in 1..n PROVE h[d] > b + r
    <3>1. h[d] \notin (b + 1)..(b + r)
      BY <1>19, <2>1 DEF RuleBehind, r
    <3>2. h[d] \in Nat /\ h[d] > q /\ q \in (b + 1)..(b + r)
      BY <1>17, <1>19
    <3> QED
      BY <1>1, <2>1, <3>1, <3>2
  <2> QED
    BY <2>1, <2>2
<1>22. ASSUME NEW a \in Starts(mid), b + r <= a
       PROVE  P <= a /\ h[n] <= a
  <2>1. a \in Nat /\ q <= a
    <3>1. a \in Nat
      BY <1>3
    <3> QED
      BY <1>1, <1>17, <1>21, <1>22, <3>1
  <2>2. P <= a
    BY <1>12, <1>15, <1>16, <2>1
  <2>3. h[n] <= P /\ h[n] \in Nat
    BY <1>8, <1>19
  <2> QED
    BY <1>9, <2>1, <2>2, <2>3
<1>23. h[n] >= (b + r) + n /\ h[n] \in Nat
  <2>1. b + r \in Nat /\ n \in Nat
    BY <1>1, <1>21
  <2>2. \A k \in 1..n : h[k] >= (b + r) + k
    <3> DEFINE a == b + r
    <3>1. a \in Nat /\ n \in Nat /\ h \in [1..n -> Nat] /\ \A k \in 1..n : h[k] > a
      BY <1>20, <1>21, <2>1
    <3> HIDE DEF a
    <3>2. \A k \in 1..n : h[k] >= a + k
      BY <1>20, <3>1, IncreasingGrows
    <3> QED
      BY <3>2 DEF a
  <2> QED
    BY <1>8, <1>19, <2>2
<1>24. b = r + x
  <2>1. CASE b = 0
    <3>1. h[n] <= r + x
      BY <1>1, <1>4, <1>22, <2>1
    <3> QED
      BY <1>1, <1>23, <2>1, <3>1
  <2>2. CASE b = lb + l
    <3>1. h[n] <= lb + l + r + y
      <4>1. lb + l + r + y \in Starts(mid) /\ b + r <= lb + l + r + y
        BY <1>1, <1>4, <2>2
      <4> QED
        BY <1>22, <4>1
    <3> QED
      BY <1>1, <1>23, <2>2, <3>1
  <2>3. CASE b = lb + l + r + y
    <3> DEFINE i == h[n] - (lb + l + le)
    <3>1. h[n] \in 1..Len(fr) /\ h[n] > lb + l + r + y + r
      BY <1>8, <1>19, <1>21, <2>3
    <3>2. i \in 1..2 /\ h[n] = lb + l + le + i
      <4>1. h[n] \in 1..(lb + l + le + 2)
        BY <1>2, <3>1
      <4> DEFINE v == h[n]
      <4> HIDE DEF v
      <4>2. v \in 1..(lb + l + le + 2) /\ v > lb + l + r + y + r
        BY <3>1, <4>1 DEF v
      <4>3. v - (lb + l + le) \in 1..2 /\ v = lb + l + le + (v - (lb + l + le))
        BY <1>1, <4>2
      <4> QED
        BY <4>3 DEF v
    <3> HIDE DEF i
    <3>3. fr[h[n]] \in Space
      BY <1>2, <1>6, <3>2
    <3>4. fr[h[n]] \in Digit
      BY <1>8, <1>19
    <3> QED
      BY <3>3, <3>4, CharFacts
  <2> QED
    BY <1>4, <1>17, <2>1, <2>2, <2>3
<1>25. ASSUME NEW d \in 1..n PROVE h[d] > lb /\ h[d] <= lb + l
  <2>1. lb + l \in Starts(mid) /\ b + r <= lb + l /\ b + r = lb
    BY <1>1, <1>4, <1>24
  <2>2. P <= lb + l
    BY <1>22, <2>1
  <2>3. h[d] \in Nat /\ h[d] <= P /\ h[d] > b + r
    BY <1>19, <1>21
  <2> QED
    BY <1>1, <1>9, <2>1, <2>2, <2>3
<1>26. Found(image, u, Q, h)
  <2>1. \A d \in 1..n : fr[h[d]] = u[Q[d]]
    BY <1>19
  <2> QED
    BY <1>20, <2>1, Zenon DEF Found, n, fr
<1> QED
  BY <1>25, <1>26, Zenon DEF n, lb, l, mid

LEMMA WholePiece ==
  ASSUME TypeOK, TraceInv, rules < RuleLen, NEW from \in Occurrences(BEGIN, log),
         NEW s, s = SubSeq(log, from, Len(log)), Framed(s)
  PROVE  Loaded(s) \in held
<1>0. PICK u, at : BodyAt(s, u, at)
  BY PieceBody
<1>1. /\ u \in Seq(Char) /\ Body(s) = HexOf(u)
      /\ at \in 1..Len(log) /\ log[at] = "="
      /\ at + Len(u) <= Len(log)
      /\ \A x \in 1..Len(u) : u[x] = log[at + x]
  BY <1>0 DEF BodyAt
<1> DEFINE b == HexOf(u)  n == 2 * NBytes
<1>2. n \in Nat \ {0}
  BY SizeAssumption
<1>3. b \in Seq(Char) /\ Len(b) = n /\ DOMAIN b = 1..n /\ \A d \in 1..n : b[d] \in Digit
  <2>1. b \in Seq(Char)
    BY <1>1, HexPlaces
  <2>2. Len(b) = n /\ \A i \in DOMAIN b : b[i] \in Digit
    BY <1>1 DEF Framed, Digit
  <2> HIDE DEF b
  <2> QED
    BY <1>2, <2>1, <2>2
<1>4. PICK Q : Places(u, Q)
  BY <1>1, HexPlaces
<1>5. DOMAIN u = 1..Len(u) /\ Len(u) \in Nat
  BY <1>1
<1>6. /\ Q \in [1..n -> 1..Len(u)]
      /\ \A d \in 1..n : b[d] = u[Q[d]]
      /\ \A d, e \in 1..n : d < e => Q[d] < Q[e]
      /\ \A i \in 1..Len(u) : u[i] \notin Space => \E d \in 1..n : Q[d] = i
  <2> HIDE DEF b, n
  <2> QED
    BY <1>3, <1>4, <1>5 DEF Places, b
<1> HIDE DEF b, n
<1>7. \A i \in 1..Len(u) : u[i] \in Middle
  BY <1>3, <1>6, SMTT(30) DEF Middle
<1>8. Reads(u, Q)
  <2>1. \A d \in 1..n : u[Q[d]] \in Digit
    BY <1>3, <1>6
  <2>2. \A i \in 1..Len(u) : u[i] # "="
    BY <1>7, CharFacts
  <2> QED
    BY <1>6, <2>1, <2>2, Zenon DEF Reads, n
<1> DEFINE j == at + Q[n]
<1>9. /\ log \in Seq(Char) /\ Len(log) \in Nat /\ Len(log) <= Len(Out)
      /\ Out \in Seq(Char) /\ Len(Out) \in Nat /\ \A k \in 1..Len(log) : Out[k] = log[k]
  <2>1. log \in Seq(Char) /\ tx \in Seq(Char)
    BY DEF TypeOK
  <2>2. Out = log \o tx
    BY DEF Out
  <2>3. Out \in Seq(Char)
    BY OutTyped
  <2> QED
    BY <2>1, <2>2, <2>3, JoinFacts
<1>10. at \in Nat \ {0} /\ Out[at] = "=" /\ \A x \in 1..Len(u) : Out[at + x] = u[x]
  <2>1. at \in Nat \ {0} /\ at \in 1..Len(log) /\ at + Len(u) <= Len(log)
    BY <1>1, <1>9
  <2>2. ASSUME NEW x \in 1..Len(u) PROVE Out[at + x] = u[x]
    <3>1. at + x \in 1..Len(log)
      BY <1>5, <1>9, <2>1
    <3> QED
      BY <1>1, <1>9, <3>1
  <2> QED
    BY <1>1, <1>9, <2>1, <2>2
<1>11. Traced(j)
  <2> DEFINE last == Q[n]
  <2>1. last \in 1..Len(u)
    <3>1. n \in 1..n
      BY <1>2
    <3> QED
      BY <1>6, <3>1
  <2>2. Out[at + last] \in Middle
    BY <1>7, <1>10, <2>1
  <2>3. Out[at + last] # Text
    BY <2>2, CharFacts
  <2> HIDE DEF last
  <2>4. at + last \in 1..Len(Out)
    <3>1. at + Len(u) <= Len(log)
      BY <1>1
    <3> QED
      BY <1>5, <1>9, <1>10, <2>1, <3>1
  <2> QED
    BY <2>3, <2>4 DEF TraceInv, last
<1>12. PICK image \in held, m \in 0..(j - 1) : \E g, to : Trace(Out, rules, image, m, j, g, to)
  BY <1>11 DEF Traced
<1>13. PICK g, to : Trace(Out, rules, image, m, j, g, to)
  BY <1>12
<1>14. image \in Images /\ rules \in Nat
  BY DEF TypeOK
<1>15. PICK h : /\ Found(image, u, Q, h)
                /\ \A d \in 1..n :
                     h[d] > Len(BEGIN) /\ h[d] <= Len(BEGIN) + Len(Between(image))
  <2> DEFINE o == Out
  <2>1. o \in Seq(Char) /\ o[at] = "=" /\ (\A x \in 1..Len(u) : o[at + x] = u[x])
        /\ Trace(o, rules, image, m, j, g, to) /\ j = at + Q[2 * NBytes]
    BY <1>9, <1>10, <1>13 DEF n
  <2> HIDE DEF o, j
  <2> QED
    BY <1>1, <1>8, <1>10, <1>14, <2>1, OneRun DEF n
<1>16. /\ h \in [1..n -> Nat]
       /\ \A d \in 1..n : Frame[image][h[d]] = b[d]
       /\ \A d, e \in 1..n : d < e => h[d] < h[e]
  BY <1>6, <1>15 DEF Found, n
<1> DEFINE w == HexOf(Between(image))
<1>17. \A d \in 1..n : b[d] = w[d]
  BY <1>3, <1>14, <1>15, <1>16, DigitsOfFrame DEF n
<1>18. w \in Seq(Char) /\ Len(w) = n /\ Spells(Between(image), image, NBytes)
  <2>1. Spells(Between(image), image, NBytes)
    BY <1>14, BetweenSpells
  <2>2. w \in Seq(Middle) /\ Len(w) = n
    BY <2>1 DEF Spells, n
  <2> HIDE DEF w
  <2> QED
    BY <2>1, <2>2, CharFacts
<1>19. b = w
  <2> HIDE DEF w
  <2> QED
    BY <1>3, <1>17, <1>18, SameSeq
<1>20. FromHex(w) = image
  BY <1>14, <1>18, SpellsReads
<1> QED
  BY <1>1, <1>19, <1>20 DEF Loaded, b

LEMMA TraceInvariant == Spec => [](TypeOK /\ TraceInv)
<1>1. Init => TypeOK /\ TraceInv
  BY InitTyped, InitTraced
<1>2. (TypeOK /\ TraceInv) /\ [Next]_vars => (TypeOK /\ TraceInv)'
  BY ExportStepTyped, TraceStep
<1> QED
  BY <1>1, <1>2, PTL DEF Spec

\* However often exports were cut, repeated and interleaved with lines of the
\* application, and whatever the line lost, what the host takes from the log for a frame
\* is an image that the slot held, as long as fewer characters of rules than one rule
\* has are among the lost ones.
THEOREM PiecesAreWhole == Spec => []FramesAreWhole
<1>1. TypeOK /\ TraceInv => FramesAreWhole
  <2> SUFFICES ASSUME TypeOK, TraceInv, rules < RuleLen, NEW s \in NewPieces, Framed(s)
               PROVE  Loaded(s) \in held
    BY DEF FramesAreWhole
  <2>1. PICK from \in Occurrences(BEGIN, log) : s = SubSeq(log, from, Len(log))
    BY DEF NewPieces
  <2> QED
    BY <2>1, WholePiece
<1> QED
  BY <1>1, TraceInvariant, PTL
=============================================================================
