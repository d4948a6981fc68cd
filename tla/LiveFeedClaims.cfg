\* Claims of docstrings that do not hold: leave in the one in question.
SPECIFICATION FeedSpec
CONSTANTS
  c1 = c1
  c2 = c2
  c3 = c3
  c4 = c4
  bhel = bhel
  itc = itc
  unlisted = unlisted
  Streams <- MCStreams
  Symbols <- MCSymbols
  Listed <- MCListed
  SymbolOf <- MCSymbolOf
  NoStream = NoStream
  Drops = 0
  ResolveFailures = 1
  ClientsWait = TRUE
CHECK_DEADLOCK FALSE
INVARIANTS
  LaterViewersHaveStream
  \* ReferencesAreViewers
  \* UnwatchedIsStopped
