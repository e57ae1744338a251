SPECIFICATION FairSpec
CONSTANTS
  a1 = a1
  a2 = a2
  a3 = a3
  n1 = n1
  x1 = x1
  x2 = x2
  t1 = t1
  t2 = t2
  Actors = {a1, a2, a3}
  Names = {n1}
  Addrs = {x1, x2}
  SystemLines = {t1}
  AppendedLines = {t2}
  NoActor = NoActor
  NoName = NoName
  NoAddr = NoAddr
  NoText = NoText
INVARIANTS OneLinePerContainer CallTookEffect SystemLinesKept
PROPERTIES ImplementsHostsMap CallEnds
