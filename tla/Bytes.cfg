SPECIFICATION OneSpec
CONSTANTS
  \* Next to it the bytes of the lengths, 0 to 2.
  Bytes = {1}
  Junk = Junk
  MaxUInt = 5
  MaxPut = 2
  FirstCapacities = {2}
  \* A stream that holds less than the message.
  Size = 5
  Room = 3
  MaxSignals = 2
  Kinds = {"plain", "buffer"}
  Modes = {"blocking", "polling"}
  \* One or two words, full and not.
  Width = 2
  Sizes = {1, 2, 3}
INVARIANTS SoundSizes TransferExact BitmapsAreSets
PROPERTIES ImplementsFile BothReturn
CHECK_DEADLOCK FALSE
