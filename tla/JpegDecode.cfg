\* Two pictures for one decoder, in both of its configurations.  The decoder
\* stops after the last picture, in an endless marker loop or by crashing.
SPECIFICATION FairSpec
CONSTANTS
  Pictures <- MCPictures
  ColorConvs = {TRUE, FALSE}
  MaxPics = 2
CHECK_DEADLOCK FALSE
INVARIANTS
  HonestFrame
  GoodPicture
  FrameLeavesClean
  
  NoEmptyScan
PROPERTY
  DecodeReturns
