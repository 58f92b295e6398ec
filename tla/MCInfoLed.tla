----------------------------- MODULE MCInfoLed -----------------------------
(* InfoLed with the modes of its TLC runs. *)
EXTENDS InfoLed

\* Modes of every kind: boot progress with two counts, system ok, off, a mode that
\* is restored later, volume and wifi error.
MCModes == {"MODE_BOOTED", "MODE_JAVACLIENT_STARTED", "MODE_SYSTEM_OK", "MODE_OFF",
            "MODE_MIC_MUTE", "MODE_VOLUME", "MODE_WIFI_ERR"}
=============================================================================
