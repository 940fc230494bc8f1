SPECIFICATION FairSpec
CONSTANTS
  TailnetEnabled = TRUE
  MaxClient = 1
  MaxGateway = 2
  Capacity = 1
INVARIANTS WsInv
PROPERTIES CloseRelayed ImplementsRelay TornDown
