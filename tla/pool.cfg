SPECIFICATION FairSpec
CONSTANTS
  Goroutines = {g1, g2, g3}
  Served = {"refresh", "denied", "cleanup"}
  Nobody = Nobody
  OuterTx = OuterTx
INVARIANTS HolderWorks
PROPERTIES ImplementsAtomicStore Answered
