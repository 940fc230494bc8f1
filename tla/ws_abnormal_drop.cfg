SPECIFICATION Spec
CONSTANTS
  TailnetEnabled = FALSE
  MaxClient = 1
  MaxGateway = 1
  Capacity = 1
INVARIANT OnlyGenuineCloses
