SPECIFICATION FairSpec
CONSTANTS
  Clients = {c1, c2, g, m}
  Generics = {g}
  Mounts = {m}
  MaxRepeat = 2
  Spurious = TRUE
CHECK_DEADLOCK FALSE
INVARIANTS OutlivesClients SignalWhileLive
PROPERTIES ServiceStops HangsForGood
