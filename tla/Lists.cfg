SPECIFICATION MCSpec
CONSTANTS
  Thread = {serial, upper}
  Consumer = serial
  Cell = {l1, l2, l3, l4}
  Class = {k1, k2}
  None = None
  Object = {a, b}
  NULL = NULL
  Growth = 2
  Slack = 3
  MaxLen = 7
SYMMETRY Symmetry
INVARIANTS PointersRight GetFindsCommand Sized
PROPERTIES ImplementsSendQueue IsAList
