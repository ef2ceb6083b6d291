SPECIFICATION PartSpec
CONSTANT None = None
INVARIANTS
  PropagationExact
  TransactionsSound
  BlockingSound
  ZsetExact
  StreamExact
  SetsAndHashesExact
  StringsExact
  ListSound
  PackedSound
  RaxSound
  SnapshotExact
  MemorySound
  ServingSound
CHECK_DEADLOCK FALSE
