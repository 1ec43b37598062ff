\* Two nodes connect to each other at once, with one link failure.
CONSTANTS
  Eph = Eph
  None = None
  Nodes = {"n1", "n2"}
  Commands <- MCCommands
  MaxEntries = 3
  MaxConns = 3
  MaxLinkFailures = 1
SPECIFICATION Spec
\* advertised is a history no guard reads; only TypeOK's type conjunct
\* mentions it, so states differing only in it agree on every property.
VIEW ConnectView
CHECK_DEADLOCK FALSE
INVARIANT TypeOK
INVARIANT KnownUnique
INVARIANT NoFdLeak
INVARIANT NoTimerOnLiveSocket
