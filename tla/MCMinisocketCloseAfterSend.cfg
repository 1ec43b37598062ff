\* A reliable network: close after the sends, its FIN alarm racing the
\* ACK of the FIN.
CONSTANTS
  t1 = t1
  t2 = t2
  r1 = r1
  r2 = r2
  Senders = {t1}
  Receivers = {r1}
  Closers = {t1}
  ServerSide = {r1}
  MsgLen = 2
  Frag = 1
  MaxLen = 1
  MaxSends = 2
  MaxAttempts = 2
  MaxQueue = 3
  Loss = FALSE
  Dup = FALSE
  SendFails = FALSE
  MaxSeq = 8
SPECIFICATION Spec
CHECK_DEADLOCK FALSE
INVARIANT NoCloseDoubleFree
