\* A sender on each end: the other end's data packet is taken for the
\* ACK of the chunk in flight.
CONSTANTS
  t1 = t1
  t2 = t2
  r1 = r1
  r2 = r2
  Senders = {t1, t2}
  Receivers = {r1}
  Closers = {t1}
  ServerSide = {t2, r1}
  MsgLen = 2
  Frag = 1
  MaxLen = 1
  MaxSends = 1
  MaxAttempts = 2
  MaxQueue = 3
  Loss = TRUE
  Dup = FALSE
  SendFails = FALSE
  MaxSeq = 8
SPECIFICATION Spec
CHECK_DEADLOCK FALSE
INVARIANT OneChunkInFlight
