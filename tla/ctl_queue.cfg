SPECIFICATION FairSpec
CONSTANTS
  Pool = {p1}
  Senders = {s1, s2}
  Types = {"OOB_WARNING", "SYSTEM", "EXIT"}
  MaxMsgs = 2
  NoBuffer = NoBuffer
INVARIANTS
  TypeOK
  BuffersAccounted
  LossAnnounced
  AllReturned
PROPERTIES
  InOrder
  QueueMoves
  ImplementsMailbox
