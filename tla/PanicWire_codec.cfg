\* Commits, reads, clears and a decayed byte over a slot of any origin.
SPECIFICATION Spec
CONSTANTS
  ByteMod = 128
  Magic <- DumpMagic
  PortArch = 4
  Crc <- Checksum
  Commits <- TestCommits
  PowerOnImages <- AnyImages
  DecayOffsets <- EveryOffset
  DecayBytes = {0, 85}
  MaxDecays = 1
INVARIANTS TypeOK CommitReadsBack PointerShowsBootDump HostAgrees ScriptsAgree MocksMatch EncodeRestores
