SPECIFICATION Spec
INVARIANTS Lossless OnlyCutsFail
CONSTANTS
  MsgIDs = {2}
  PhoneNumbers <- ShortAndLong
  SeqNums = {32126}
  BodyBytes = {1, 125, 126}
  MaxBody = 1
  Subpackages <- WholeOrFragment
  Noise = {125}
  MaxNoise = 1
  MaxFrames = 2
CHECK_DEADLOCK FALSE
