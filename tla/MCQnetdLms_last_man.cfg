SPECIFICATION FairSpec
CONSTANTS
  Configured <- MCConfigured
  RingMembers <- MCRings
  HeurResults = {"undefined"}
  TieBreaker <- MCTieBreaker
PROPERTIES LastManGetsVote
