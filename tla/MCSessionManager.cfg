SPECIFICATION FairSpec
CONSTANTS
  Profiles = {p1}
  Sessions = {s1, s2}
  None = None
INVARIANTS TypeOK OneSessionPerDir NotLiveMeansSaved RowsSettle DrainClosesCollected
PROPERTIES EndIsFinal LeaseSpec NothingHangs
