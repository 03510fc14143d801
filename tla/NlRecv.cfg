SPECIFICATION RecvSpec
CONSTANTS
  MaxDatagrams = 3
  MaxQueue = 2
  Sizes = {1, 2, 5}
INVARIANT WholeInOrder
PROPERTY ReadsWhatCame
CHECK_DEADLOCK FALSE
