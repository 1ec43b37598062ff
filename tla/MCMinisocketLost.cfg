\* A lossy network, fair scheduling: the alarm of a lost chunk V's
\* data_ready, not wait_for_ack.  One one-chunk send with two attempts, so
\* no stale retransmission of an earlier chunk can stand in for a lost one;
\* with the alarm V'ing wait_for_ack the property holds here.
CONSTANTS
  t1 = t1
  t2 = t2
  r1 = r1
  r2 = r2
  Senders = {t1}
  Receivers = {r1}
  Closers = {t1}
  ServerSide = {r1}
  MsgLen = 1
  Frag = 1
  MaxLen = 1
  MaxSends = 1
  MaxAttempts = 2
  MaxQueue = 3
  Loss = TRUE
  Dup = FALSE
  SendFails = FALSE
  MaxSeq = 8
SPECIFICATION FairSpec
CHECK_DEADLOCK FALSE
PROPERTY Retransmits
