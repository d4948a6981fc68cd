SPECIFICATION LiveSpec
CONSTANTS
  c1 = c1
  c2 = c2
  c3 = c3
  c4 = c4
  bhel = bhel
  itc = itc
  unlisted = unlisted
  Streams <- MCStreams
  Symbols <- MCSymbols
  Listed <- MCListed
  SymbolOf <- MCSymbolOf
  NoStream = NoStream
  Drops = 2
  ResolveFailures = 1
  ClientsWait = FALSE
CHECK_DEADLOCK FALSE
INVARIANTS
  FeedIsConsistent
PROPERTIES
  OpenChartKeepsRoute
  OpenChartIsServed
