\* Every interleaving of the broker, the route, the server and a client that
\* may leave at any moment.
SPECIFICATION FairSpec
CONSTANTS
  MaxChunks = 5
  Cap = 3
INVARIANTS OneRowPerCall RowIsTrue ToldOfABadEnd
PROPERTIES RequestEnds
\* One request, which ends.
CHECK_DEADLOCK FALSE
