SPECIFICATION FairSpec
CONSTANTS
  top = top
  sub = sub
  fa = fa
  fb = fb
  Base = Base
  Junk = Junk
  Node <- TreeNodes
  Folder <- TreeFolders
  Root = top
  Parent <- TreeParent
  PathLen <- TreePathLen
  MaxSize = 2
  METADATA = 2
  BufSize = 2
  MaxFd = 3
  Unreadable = {}
  Systems = {"linux", "windows"}
  Twos = {}
  Faults = {}
PROPERTIES
  BothEnd
