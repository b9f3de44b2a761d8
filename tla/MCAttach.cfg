CONSTANTS
  t1 = t1
  t2 = t2
  s1 = s1
  s2 = s2
  file = file
  Threads <- MCThreads
  Sockets <- MCSockets
  Fds <- MCFds
  Names <- MCNames
  Programs <- MCPrograms
  U16Max = 3
  MaxInsns = 2
SPECIFICATION AttachSpec
INVARIANTS
  AttachTypeOK
  ResultIsOwn
PROPERTY OnlyWholePrograms
