----------------------------- MODULE MCModeset -----------------------------
(* Modeset with two HDMI connectors and one of another type. *)
EXTENDS Modeset
CONSTANTS hdmi1, hdmi2, cvbs
MCConnectors == {hdmi1, hdmi2, cvbs}
MCHDMI == {hdmi1, hdmi2}
=============================================================================
