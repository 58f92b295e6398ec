\* One press of the PBC button, one captured frame waiting, two scans before
\* collect_scanres gives up.  The program ends, or waits for its phone.
SPECIFICATION FairSpec
CONSTANTS
  near = near
  far = far
  NoAP = NoAP
  APs <- MCAPs
  ChannelOf <- MCChannelOf
  SecurityOf <- MCSecurityOf
  Plan <- MCPlan
  Timeout = TRUE
  Presses = 1
  MaxPkts = 1
  MaxScans = 2
CHECK_DEADLOCK FALSE
INVARIANTS
  OneReceiver
  JoinsTheProfile
PROPERTY
  DoneEnds
