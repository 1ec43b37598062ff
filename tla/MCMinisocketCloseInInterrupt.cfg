\* Both ends send and close: the application closes a CLOSING socket
\* and the linger alarm then closes it again from the interrupt.
CONSTANTS
  t1 = t1
  t2 = t2
  r1 = r1
  r2 = r2
  Senders = {t1, t2}
  Receivers = {r1}
  Closers = {t1, t2}
  ServerSide = {t2, r1}
  MsgLen = 1
  Frag = 1
  MaxLen = 1
  MaxSends = 1
  MaxAttempts = 1
  MaxQueue = 1
  Loss = TRUE
  Dup = FALSE
  SendFails = TRUE
  MaxSeq = 4
SPECIFICATION Spec
CHECK_DEADLOCK FALSE
INVARIANT NoCloseInInterrupt
