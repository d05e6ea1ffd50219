SPECIFICATION MCFairSpec
CONSTANTS
  Width = 3
  SOF = 6
  SubSys = 4
  Frames <- MCPlain
  Noise <- MCNoise
  Cap = 1
  Faults = 3
  Commands <- MCCommands
  RecvSizes <- MCRecvSizes
  None = None
INVARIANTS ParsersInStep
PROPERTIES QuietLineIsChannel QuietFrameDelivered ImplementsStream StreamMoves
