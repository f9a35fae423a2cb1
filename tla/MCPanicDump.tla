---------------------------- MODULE MCPanicDump ----------------------------
(***************************************************************************)
(* Small instances of PanicDump for TLC.                                   *)
(***************************************************************************)
EXTENDS PanicDumpSlot, TLC

\* Captures are compared only with each other, so they are interchangeable in
\* the runs that check no liveness.
SnapSymmetry == Permutations(Snaps)

\* Losses of power that leave RAM whole, spoil all of it, or spoil one part
\* that another part has to betray.
SomeDecays == {{}, Parts, {"crc32"}, {"stack"}, {"magic", "ident"}}
NoDecays == {}

\* The stores as the source lists them.
ProgramOrder ==
  {<<p, q>> \in Parts \X Parts : Rank[p] < Rank[q]} \cup Parts \X {"seal"}

\* The plain stores in the order of the source, the volatile clear of the magic
\* anywhere among them: C orders it against no plain store before the barrier.
LooseMagic == {o \in ProgramOrder : o[1] # "magic" /\ o[2] # "magic"}
=============================================================================
