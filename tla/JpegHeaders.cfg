\* Two pictures for one decoder, in both of its configurations.  The decoder
\* stops after the last picture.
SPECIFICATION Spec
CONSTANTS
  Pictures <- MCPictures
  ColorConvs = {TRUE, FALSE}
  MaxPics = 2
  Values = {"a", "b"}
CHECK_DEADLOCK FALSE
INVARIANTS
  HeadersAgree
  BlocksCounted
  SlicesAddUp
  OwnParameters
PROPERTY
  AcceptedIsDecodable
