SPECIFICATION Spec
CONSTANTS
  Drivers = {"combo", "icm20948", "closed"}
  accel = accel
  gyro = gyro
  Channels <- MCChannels
  Size = 2
  MaxSamples = 4
SYMMETRY Symmetry
CHECK_DEADLOCK FALSE
INVARIANTS TypeOK CompleteUnlessCut InOrder FilesAligned ImuInv
PROPERTIES StoppedWritesNothing
