\* Three messages over Eager0, rendezvous and the put window, and probes.
SPECIFICATION Spec
CONSTANTS
  a = a
  b = b
  c = c
  t1 = t1
  t2 = t2
  c1 = c1
  Rank = {a, b}
  Tag = {t1, t2}
  Comm = {c1}
  AnySource = AnySource
  AnyTag = AnyTag
  ProcNull = ProcNull
  NoRank = NoRank
  Programs <- OrderPrograms
  MaxVshort = 1
  MaxEager = 2
  HeaderBytes = 1
  SoftwareAck = TRUE
  TestDelay = TRUE
  IprobeDelay = TRUE
INVARIANTS TypeOK NoProtocolAbort SequenceInv NoMatchablePair RendezvousCompletion StuckOnlyIfUnmatched ProbeNotified
PROPERTIES SequencedHandling ImplementsMatching
CHECK_DEADLOCK FALSE
