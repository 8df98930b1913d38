SPECIFICATION Spec
CONSTANTS
  Configured <- MCConfigured
  RingMembers <- MCRings
  HeurResults = {"undefined", "pass"}
  TieBreaker <- MCTieBreaker
INVARIANTS WaitingClientsAreRetried
PROPERTIES NewcomerTakesNoVote
