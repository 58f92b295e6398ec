---------------------------- MODULE MCJpegHeaders ----------------------------
(***************************************************************************)
(* Sizes around the limits with one arrangement of tables, and             *)
(* arrangements of tables with one size.                                   *)
(***************************************************************************)
EXTENDS JpegHeaders

q(id, v)     == [m |-> "DQT", id |-> id, v |-> v]
h(cl, id, v) == [m |-> "DHT", cl |-> cl, id |-> id, v |-> v]
ri(n)        == [m |-> "DRI", n |-> n]
sof          == [m |-> "SOF"]
eoi          == [m |-> "EOI"]
sos(comps, td, ta) == [m |-> "SOS", comps |-> comps, td |-> td, ta |-> ta]
three(td, ta)      == sos(<<1, 2, 3>>, td, ta)

Pic(x, y, f, tq, segs) == [X |-> x, Y |-> y, sam |-> Pattern[f], tq |-> tq, segs |-> segs]

\* The usual stream: luma with the tables 0, chroma with the tables 1.
usual == <<q(0, "a"), q(1, "b"), sof, h("dc", 0, "a"), h("ac", 0, "a"), h("dc", 1, "b"),
           h("ac", 1, "b"), three(<<0, 1, 1>>, <<0, 1, 1>>), eoi>>
grey  == <<q(0, "a"), sof, h("dc", 0, "a"), h("ac", 0, "a"), sos(<<1>>, <<0>>, <<0>>), eoi>>
apart(a, b, c) ==
  LET one(k) == sos(<<k>>, <<IF k = 1 THEN 0 ELSE 1>>, <<IF k = 1 THEN 0 ELSE 1>>) IN
  <<q(0, "a"), q(1, "b"), sof, h("dc", 0, "a"), h("ac", 0, "a"), h("dc", 1, "b"), h("ac", 1, "b"),
    one(a), one(b), h("ac", 0, "b"), one(c), eoi>>

Sized(x, y, f) == IF f = "400" THEN Pic(x, y, f, <<0>>, grey) ELSE Pic(x, y, f, <<0, 1, 1>>, usual)

Sizes == {<<33, 41>>, <<40, 48>>, <<49, 57>>, <<72, 65>>, <<8161, 8170>>, <<4000, 4100>>}
Others == {Sized(48, 32, "420"), Sized(8177, 64, "420"), Sized(8161, 64, "411"), Sized(0, 48, "444"),
           [Sized(64, 64, "420") EXCEPT !.sam = << <<2, 2>>, <<2, 1>>, <<1, 1>> >>],
           [Sized(64, 64, "400") EXCEPT !.sam = << <<2, 2>> >>]}

Apart == {Pic(x, y, f, <<0, 1, 1>>, s) :
            x \in {40, 50}, y \in {56, 72}, f \in {"420", "422", "440"},
            s \in {apart(1, 2, 3), apart(3, 1, 2)}}
         \* too large for slices, and taller than a slice that was left
         \union {Pic(s[1], s[2], "420", <<0, 1, 1>>, apart(1, 2, 3)) : s \in {<<8161, 4100>>, <<64, 800>>}}

\* Tables left to the standard, swapped, shared, replaced, and one alone.
Tables ==
  {Pic(64, 64, "420", <<0, 1, 1>>, s) : s \in
    {<<q(0, "b"), q(1, "a"), ri(2), sof, three(<<0, 1, 1>>, <<0, 1, 1>>), eoi>>,
     <<ri(5), q(0, "a"), q(1, "b"), sof, h("dc", 1, "a"), h("ac", 1, "b"), h("dc", 0, "b"), h("ac", 0, "a"),
       ri(3), three(<<1, 0, 1>>, <<1, 1, 0>>), eoi>>,
     <<q(0, "a"), q(1, "b"), sof, h("dc", 0, "a"), h("ac", 0, "b"), h("dc", 0, "b"), h("ac", 0, "a"),
       three(<<0, 0, 0>>, <<0, 0, 0>>), eoi>>}}
  \* a lone AC table, in slices
  \union {Pic(4000, 4100, "420", <<0, 1, 1>>,
              <<q(0, "a"), q(1, "b"), sof, h("dc", 0, "a"), h("ac", 0, "b"),
                three(<<0, 0, 0>>, <<0, 0, 0>>), eoi>>)}
  \union {Pic(64, 64, "444", <<1, 0, 2>>, <<q(2, "a")>> \o usual), Pic(64, 64, "400", <<1>>, <<q(1, "b")>> \o grey)}

MCPictures == {Sized(s[1], s[2], f) : s \in Sizes, f \in Formats} \union Others \union Apart \union Tables
=============================================================================
