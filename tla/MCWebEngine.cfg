CONSTANTS
  review = review
  play = play
  alice = alice
  bob = bob
  Nobody = Nobody
  Jobs = {review, play}
  Turns <- MCTurns
  Owners = {alice, bob}
  Human = {play}
  max_jobs = 2
  max_owner_jobs = 1
SPECIFICATION Spec
INVARIANTS
  NoJobWithoutEngine
  QuotaKept
  CompletedHasResults
PROPERTIES
  ImplementsJobBoard
CHECK_DEADLOCK FALSE
