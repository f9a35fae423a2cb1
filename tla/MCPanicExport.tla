-------------------------- MODULE MCPanicExport --------------------------
(***************************************************************************)
(* An instance of PanicExport with two digits and two bytes on two lines,  *)
(* rules of two characters, and words of which one shows a digit and a     *)
(* blank, as those of the code do.                                         *)
(***************************************************************************)
EXTENDS PanicExport

TwoDigits == <<"0", "A">>
TwoImages == {<<1, 2>>, <<3, 0>>}
ShortBegin == <<"A", " ">>
ShortEnd == <<"N">>

CodeBegin == <<" ", "P", "A", "N", "I", "C", "D", "U", "M", "P",
               " ", "B", "E", "G", "I", "N", " ">>
CodeEnd == <<" ", "P", "A", "N", "I", "C", "D", "U", "M", "P",
             " ", "E", "N", "D", " ">>

(* They fit the 384 digits of the code's images. *)
ASSUME WordsOfTheCode == WordsFit(CodeBegin, 384) /\ WordsFit(CodeEnd, 384)

(* States that differ only in where the last boot began in the log are one: of the
   properties of the run, only a conjunct of TypeOK speaks of bootAt. *)
WithoutBoot ==
  <<slot, main, pos, tx, log, callAt, clean, held, erased, boots, calls, prints, losses, rules>>
=============================================================================
