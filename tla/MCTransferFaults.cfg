SPECIFICATION Spec
CONSTANTS
  top = top
  sub = sub
  fa = fa
  fb = fb
  Base = Base
  Junk = Junk
  Node <- TreeNodes
  Folder <- TreeFolders
  Root = top
  Parent <- TreeParent
  PathLen <- TreePathLen
  MaxSize = 2
  METADATA = 2
  BufSize = 2
  MaxFd = 4
  Unreadable = {fb}
  Systems = {"linux", "windows"}
  Twos = {fa}
  Faults = {"kill", "reset", "nosep", "touch"}
INVARIANTS
  Framing
  CopiesArePrefixes
  EndMeansCopied
  RecvInBuffer
PROPERTIES
  NeverOverwritten
