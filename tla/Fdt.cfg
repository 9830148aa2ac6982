CONSTANTS
  Cell = 8
  Self = 9
  Blobs <- MCBlobs
SPECIFICATION Spec
INVARIANTS
  DoneSeesOwnNode
  DiscoveryExact
PROPERTIES
  Terminates
