---------------------------- MODULE MCJpegDecode ----------------------------
(***************************************************************************)
(* Baseline and non-interleaved pictures, whole, cut and damaged, and what *)
(* is not decoded at all.                                                  *)
(***************************************************************************)
EXTENDS JpegDecode

Plain(s) == [toks |-> s, big |-> FALSE, tol |-> FALSE]
baseline == <<"SOI", "DQT", "SOF0", "DHT", "SOS", "ECS", "EOI">>
three    == <<"SOI", "SOF0", "SOS1", "ECS", "DHT", "SOS2", "ECS", "SOS3", "ECS">>
two      == <<"SOI", "SOF0", "SOS1", "ECS", "SOS2", "ECS", "EOI">>
cut      == <<"SOI", "SOF0", "SOS1", "ECS">>

MCPictures ==
  {[Plain(baseline) EXCEPT !.big = TRUE], [Plain(baseline) EXCEPT !.tol = TRUE]}
  \union {Plain(s) : s \in
    {baseline, three \o <<"EOI">>, three \o <<"DHT", "EOI">>, two, cut, cut \o <<"FF">>, cut \o <<"badSOS">>,
     cut \o <<"badDHT", "SOS2", "ECS", "EOI">>, cut \o <<"SOS", "ECS", "SOS2", "ECS", "SOS3", "ECS", "EOI">>,
     <<"SOI", "SOF0", "badSOS", "ECS", "EOI">>,
     <<"SOI", "SOF2", "SOS", "ECS", "EOI">>, <<"SOI", "SOFx", "SOS", "ECS", "EOI">>,
     <<"SOI", "SOF0", "SOS">>, <<"SOI", "EOI">>, <<"ECS">>}}
=============================================================================
