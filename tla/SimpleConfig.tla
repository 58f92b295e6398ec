---------------------------- MODULE SimpleConfig ----------------------------
(***************************************************************************)
(* rtw_simple_config/src/main.c: a phone tells a device without keyboard   *)
(* which access point to join.                                             *)
(*                                                                         *)
(* main hops over the channels of g_chPlan in monitor mode while the       *)
(* thread doRecvfrom gives the broadcast frames it captures to libsc, a    *)
(* binary library that decodes the profile from them.  When the library    *)
(* says SC_STATUS_DONE, main writes a wpa_supplicant configuration, joins  *)
(* the network and serves the phone's control requests over UDP.           *)
(*                                                                         *)
(* The library is external.  Its timer thread says SC_STATUS_STOP when the *)
(* time of option -t is over; rtk_restart_simple_config forgets the        *)
(* profile and goes back to SC_STATUS_SYNC whatever the status was.        *)
(* SIGUSR1 is the PBC button.                                              *)
(***************************************************************************)
EXTENDS Naturals, Sequences

CONSTANTS APs,        \* the access points in range
          NoAP,       \* no BSSID in the library's profile
          ChannelOf,  \* the channel of each
          SecurityOf, \* "WPA", "WEP" or "OPEN"
          Plan,       \* g_chPlan, a sequence of channels
          Timeout,    \* option -t was given
          Presses,    \* bound: how often the PBC button is pressed
          MaxPkts,    \* bound: captured frames waiting in the socket
          MaxScans    \* MAX_SCAN_TIMES

ASSUME SimpleConfigAssumption ==
  /\ NoAP \notin APs
  /\ SecurityOf \in [APs -> {"WPA", "WEP", "OPEN"}]
  /\ Plan \in Seq(Nat) /\ Plan # << >>
  /\ Timeout \in BOOLEAN
  /\ Presses \in Nat /\ MaxPkts \in Nat
  /\ MaxScans \in Nat \ {0}

VARIABLES pc,         \* where main is
          chidx,      \* the place in Plan main goes to next
          chan,       \* the channel the interface is tuned to
          mode,       \* of the interface
          seen,       \* survey_info: the access points of the last scan
          tries,      \* scans of this collect_scanres
          conf,       \* g_wpafile_path
          removing,   \* `rm -rf g_wpafile_path &` has not run yet
          wpa,        \* what wpa_supplicant was started with
          threads,    \* how many doRecvfrom threads were created
          rcv,        \* where the first of them is
          frame,      \* the frame it gives to the library
          pkts,       \* captured frames it has not read
          status,     \* SC_STATUS
          fixSa,      \* rtk_sc_get_fix_sa()
          profile,    \* SC_BSSID
          timer,      \* the -t timer is running
          reinit,     \* g_reinit
          presses,    \* how often the button was pressed
          ctrlCmd, acceptControl, configSuccess

air   == <<chan, mode, seen>>
files == <<conf, removing, wpa>>
rcvr  == <<threads, rcv, frame, pkts>>
lib   == <<status, fixSa, profile, timer>>
pbc   == <<reinit, presses>>
ctrl  == <<ctrlCmd, acceptControl, configSuccess>>
vars  == <<pc, chidx, tries, air, files, rcvr, lib, pbc, ctrl>>

Requests == {"SAVE", "DEL", "RENAME"}
CtrlMsgs == Requests \union {"ACK", "INVALID"}
ScanMsgs == {"NONE", "SCAN", "ACK"}
NoConf   == [ap |-> NoAP, sec |-> "NONE"]
OldConf  == [ap |-> NoAP, sec |-> "OPEN"]   \* of an earlier run
Confs    == [ap : APs, sec : {"WPA", "WEP", "OPEN"}] \union {NoConf, OldConf}
MainPcs  == {"init", "monitor", "create", "clear", "start", "hop", "test", "find",
             "rescan", "stay", "check", "again", "done", "collect", "connect", "ip",
             "control", "exited"}

TypeOK ==
  /\ pc \in MainPcs
  /\ chidx \in 1 .. Len(Plan)
  /\ mode \in {"managed", "monitor"}
  /\ seen \in SUBSET APs
  /\ tries \in 0 .. MaxScans
  /\ conf \in Confs /\ removing \in BOOLEAN /\ wpa \in Confs
  /\ threads \in Nat
  /\ rcv \in {"none", "setup", "recv", "parse", "exited"}
  /\ frame \in APs \union {NoAP}
  /\ pkts \in Seq(APs \union {NoAP}) /\ Len(pkts) <= MaxPkts
  /\ status \in {"STOP", "SYNC", "DECODE", "DONE"}
  /\ fixSa \in BOOLEAN /\ profile \in APs \union {NoAP} /\ timer \in BOOLEAN
  /\ reinit \in BOOLEAN /\ presses \in 0 .. Presses
  /\ ctrlCmd \in Requests \union {"SCAN"}
  /\ acceptControl \in BOOLEAN /\ configSuccess \in BOOLEAN

\* main has parsed its options and installed the signal handlers.
Init ==
  /\ pc = "init" /\ chidx = 1 /\ chan = Plan[1] /\ mode = "managed" /\ seen = {} /\ tries = 0
  /\ conf \in {NoConf, OldConf} /\ removing = TRUE /\ wpa = NoConf
  /\ threads = 0 /\ rcv = "none" /\ frame = NoAP /\ pkts = << >>
  /\ status = "SYNC" /\ fixSa = FALSE /\ profile = NoAP /\ timer = Timeout
  /\ reinit = FALSE /\ presses = 0
  /\ ctrlCmd = "SCAN" /\ acceptControl = TRUE /\ configSuccess = FALSE

Running == pc # "exited"

\* rtk_restart_simple_config
Restart == status' = "SYNC" /\ fixSa' = FALSE /\ profile' = NoAP

\* wifi_do_scan: the driver surveys again, or survey_info stays as it was.
Scan == seen' \in SUBSET APs

-----------------------------------------------------------------------------
(* main: listening                                                         *)

\* sc_reinit: wifi_disable, wifi_enable, wifi_do_scan, init_chplan.
Reinitialise ==
  /\ pc = "init" /\ pc' = "monitor"
  /\ wpa' = NoConf
  /\ Scan
  /\ UNCHANGED <<chidx, tries, chan, mode, conf, removing, rcvr, lib, pbc, ctrl>>

MonitorOn ==
  /\ pc = "monitor" /\ pc' = "create"
  /\ mode' = "monitor"
  /\ UNCHANGED <<chidx, tries, chan, seen, files, rcvr, lib, pbc, ctrl>>

CreateReceiver_always ==
  /\ pc = "create" /\ pc' = "clear"
  /\ threads' = threads + 1 /\ rcv' = "setup"
  /\ UNCHANGED <<chidx, tries, air, files, frame, pkts, lib, pbc, ctrl>>
CreateReceiver ==
  /\ pc = "create" /\ pc' = "clear"
  /\ IF reinit THEN UNCHANGED <<threads, rcv>>
              ELSE threads' = threads + 1 /\ rcv' = "setup"
  /\ UNCHANGED <<chidx, tries, air, files, frame, pkts, lib, pbc, ctrl>>

ClearReinit ==
  /\ pc = "clear" /\ pc' = "start"
  /\ reinit' = FALSE
  /\ UNCHANGED <<chidx, tries, air, files, rcvr, lib, presses, ctrl>>

StartLibrary ==
  /\ pc = "start" /\ pc' = "hop"
  /\ Restart
  /\ UNCHANGED <<chidx, tries, air, files, rcvr, timer, pbc, ctrl>>

Hop ==
  /\ pc = "hop"
  /\ IF reinit THEN pc' = "init" /\ UNCHANGED chan
               ELSE pc' = "test" /\ chan' = Plan[chidx]
  /\ UNCHANGED <<chidx, tries, mode, seen, files, rcvr, lib, pbc, ctrl>>

\* After TIME_CHSWITCH.
TestDecode ==
  /\ pc = "test"
  /\ pc' = IF status = "DECODE" \/ fixSa THEN "find" ELSE "check"
  /\ UNCHANGED <<chidx, tries, air, files, rcvr, lib, pbc, ctrl>>

Planned(a) == {i \in 1 .. Len(Plan) : Plan[i] = ChannelOf[a]}

\* find_channel with the access point in survey_info and its channel in the plan.
\* With a channel that is not in the plan main jumps back for ever: no step.
Found ==
  /\ pc = "find" /\ pc' = "stay"
  /\ profile \in seen
  /\ \E i \in Planned(profile) :
       /\ \A j \in Planned(profile) : i <= j
       /\ chidx' = i /\ chan' = Plan[i]
  /\ UNCHANGED <<tries, mode, seen, files, rcvr, lib, pbc, ctrl>>

NotFound ==
  /\ pc = "find" /\ pc' = "rescan"
  /\ profile \notin seen
  /\ mode' = "managed"
  /\ UNCHANGED <<chidx, tries, chan, seen, files, rcvr, lib, pbc, ctrl>>

Rescan ==
  /\ pc = "rescan" /\ pc' = "find"
  /\ Scan
  /\ mode' = "monitor"
  /\ UNCHANGED <<chidx, tries, chan, files, rcvr, lib, pbc, ctrl>>

\* A second of the staying loop finds DONE, or the last of `sec' seconds is over.
Stay ==
  /\ pc = "stay" /\ pc' = "check"
  /\ UNCHANGED <<chidx, tries, air, files, rcvr, lib, pbc, ctrl>>

Check_stop ==
  /\ pc = "check"
  /\ pc' = IF status = "STOP" THEN "done" ELSE "again"
  /\ UNCHANGED <<chidx, tries, air, files, rcvr, lib, pbc, ctrl>>
Check ==
  /\ pc = "check"
  /\ pc' = IF status \in {"DONE", "STOP"} THEN "done" ELSE "again"
  /\ UNCHANGED <<chidx, tries, air, files, rcvr, lib, pbc, ctrl>>

Again ==
  /\ pc = "again" /\ pc' = "hop"
  /\ Restart
  /\ chidx' = IF chidx = Len(Plan) THEN 1 ELSE chidx + 1
  /\ UNCHANGED <<tries, air, files, rcvr, timer, pbc, ctrl>>

-----------------------------------------------------------------------------
(* main: joining                                                           *)

Leave ==
  /\ pc = "done"
  /\ IF status = "DONE" THEN pc' = "collect" /\ mode' = "managed"
                        ELSE pc' = "exited" /\ UNCHANGED mode
  /\ tries' = 0
  /\ UNCHANGED <<chidx, chan, seen, files, rcvr, lib, pbc, ctrl>>

\* store_cfgfile, by what the scan says of the target's security.
Stored(a) == [ap |-> a, sec |-> SecurityOf[a]]

\* One turn of collect_scanres; fopen of the configuration may fail.
Collect ==
  /\ pc = "collect"
  /\ Scan
  /\ tries' = tries + 1
  /\ \/ profile \in seen' /\ conf' = Stored(profile) /\ pc' = "connect"
     \/ profile \in seen' /\ UNCHANGED conf /\ pc' = "exited"
     \/ profile \notin seen' /\ UNCHANGED conf
        /\ pc' = IF tries' = MaxScans THEN "exited" ELSE "collect"
  /\ UNCHANGED <<chidx, chan, mode, removing, wpa, rcvr, lib, pbc, ctrl>>

Connect ==
  /\ pc = "connect" /\ pc' = "ip"
  /\ wpa' = conf
  /\ UNCHANGED <<chidx, tries, air, conf, removing, rcvr, lib, pbc, ctrl>>

\* request_ip and check_ip_timeout
CheckIp ==
  /\ pc = "ip" /\ pc' \in {"control", "exited"}
  /\ UNCHANGED <<chidx, tries, air, files, rcvr, lib, pbc, ctrl>>

-----------------------------------------------------------------------------
(* main: control_handler                                                   *)

\* The caller ignores SC_REINIT_WLAN and returns.
ControlReinit ==
  /\ pc = "control" /\ reinit /\ pc' = "exited"
  /\ UNCHANGED <<chidx, tries, air, files, rcvr, lib, pbc, ctrl>>

\* A turn of the loop: a datagram of the control socket (or none, "NONE") and
\* before it one of the scan socket.  Any that the phone may send can be there,
\* and any can be missing.  The scan socket's success ack forgets the command.
AfterScan(m) == IF m = "ACK" THEN "SCAN" ELSE ctrlCmd

\* ctrlmsg_handler
ReadControl(scan, m) ==
  /\ pc = "control" /\ ~reinit
  /\ IF m \in Requests /\ acceptControl
       THEN ctrlCmd' = m /\ acceptControl' = FALSE
       ELSE ctrlCmd' = AfterScan(scan) /\ UNCHANGED acceptControl
  /\ configSuccess' = (m = "ACK")
  /\ UNCHANGED <<pc, chidx, tries, air, files, rcvr, lib, pbc>>

\* do_ctrl_cmd
Save ==
  /\ Scan
  /\ conf' \in IF profile \in seen' THEN {conf, Stored(profile)} ELSE {conf}
  /\ UNCHANGED <<pc, removing, wpa>>

Delete ==
  /\ removing' = TRUE /\ wpa' = NoConf /\ pc' = "exited"
  /\ UNCHANGED <<conf, seen>>

Execute(c) ==
  \/ c = "SAVE" /\ Save
  \/ c = "DEL" /\ Delete
  \/ c \in {"RENAME", "SCAN"} /\ UNCHANGED <<pc, seen, files>>

\* No control message: a second of silence, or a message on the scan socket.
NoControl(scan) ==
  /\ pc = "control" /\ ~reinit
  /\ IF configSuccess THEN Execute(AfterScan(scan)) /\ ctrlCmd' = "SCAN"
                      ELSE ctrlCmd' = AfterScan(scan) /\ UNCHANGED <<pc, seen, files>>
  /\ configSuccess' = FALSE /\ acceptControl' = TRUE
  /\ UNCHANGED <<chidx, tries, chan, mode, rcvr, lib, pbc>>

-----------------------------------------------------------------------------
(* The receiving thread and libsc                                          *)

\* The thread opens its socket and binds it to the interface; when that fails
\* the thread, or the program, ends.
Open ==
  /\ Running /\ rcv = "setup" /\ rcv' = "recv"
  /\ UNCHANGED <<pc, chidx, tries, air, files, threads, frame, pkts, lib, pbc, ctrl>>

OpenFails ==
  /\ Running /\ rcv = "setup" /\ rcv' = "exited"
  /\ pc' \in {pc, "exited"}
  /\ UNCHANGED <<chidx, tries, air, files, threads, frame, pkts, lib, pbc, ctrl>>

\* The driver captures a frame of the phone, which talks to an access point of
\* this channel; in managed mode the socket gets frames without radiotap header.
Capture(a) ==
  /\ Running /\ rcv \in {"recv", "parse"}
  /\ IF a = NoAP THEN mode = "managed" ELSE mode = "monitor" /\ ChannelOf[a] = chan
  /\ Len(pkts) < MaxPkts /\ pkts' = Append(pkts, a)
  /\ UNCHANGED <<pc, chidx, tries, air, files, threads, rcv, frame, lib, pbc, ctrl>>

\* doRecvfrom: the status is looked at after the frame has come.
Receive_stop ==
  /\ Running /\ rcv = "recv" /\ pkts # << >>
  /\ pkts' = Tail(pkts)
  /\ IF status = "STOP"
       THEN rcv' = "exited" /\ UNCHANGED frame
       ELSE frame' = Head(pkts) /\ rcv' = IF Head(pkts) = NoAP THEN "recv" ELSE "parse"
  /\ UNCHANGED <<pc, chidx, tries, air, files, threads, lib, pbc, ctrl>>
Receive ==
  /\ Running /\ rcv = "recv" /\ pkts # << >>
  /\ pkts' = Tail(pkts)
  /\ IF status \in {"DONE", "STOP"}
       THEN rcv' = "exited" /\ UNCHANGED frame
       ELSE frame' = Head(pkts) /\ rcv' = IF Head(pkts) = NoAP THEN "recv" ELSE "parse"
  /\ UNCHANGED <<pc, chidx, tries, air, files, threads, lib, pbc, ctrl>>

ReceiveFails ==
  /\ Running /\ rcv = "recv" /\ rcv' = "exited"
  /\ UNCHANGED <<pc, chidx, tries, air, files, threads, frame, pkts, lib, pbc, ctrl>>

\* ProcessPacket and rtk_sc_start_parse_bcpacket
Parsed ==
  /\ Running /\ rcv = "parse" /\ rcv' = "recv" /\ frame' = NoAP
  /\ UNCHANGED <<pc, chidx, tries, air, files, threads, pkts, timer, pbc, ctrl>>

Ignored  == Parsed /\ UNCHANGED <<status, fixSa, profile>>
Synced   == Parsed /\ status = "SYNC" /\ status' = "DECODE" /\ fixSa' = TRUE /\ profile' = frame
Decoded  == Parsed /\ status \in {"DECODE", "STOP"} /\ profile = frame /\ status' = "DONE"
                   /\ UNCHANGED <<fixSa, profile>>
Rejected == Parsed /\ Restart

TimerStops ==
  /\ Running /\ timer /\ timer' = FALSE
  /\ status' = "STOP"
  /\ UNCHANGED <<pc, chidx, tries, air, files, rcvr, fixSa, profile, pbc, ctrl>>

-----------------------------------------------------------------------------
(* The rest of the world                                                   *)

Press ==
  /\ Running /\ presses < Presses
  /\ presses' = presses + 1 /\ reinit' = TRUE
  /\ UNCHANGED <<pc, chidx, tries, air, files, rcvr, lib, ctrl>>

\* SIGINT
Interrupt ==
  /\ Running /\ pc' = "exited"
  /\ wpa' = NoConf /\ mode' = "managed"
  /\ UNCHANGED <<chidx, tries, chan, seen, conf, removing, rcvr, lib, pbc, ctrl>>

RemoveConf ==
  /\ removing /\ removing' = FALSE /\ conf' = NoConf
  /\ UNCHANGED <<pc, chidx, tries, air, wpa, rcvr, lib, pbc, ctrl>>

Main ==
  \/ Reinitialise \/ MonitorOn \/ CreateReceiver \/ ClearReinit \/ StartLibrary
  \/ Hop \/ TestDecode \/ Found \/ NotFound \/ Rescan \/ Stay \/ Check \/ Again
  \/ Leave \/ Collect \/ Connect \/ CheckIp
  \/ ControlReinit
  \/ \E s \in ScanMsgs : NoControl(s) \/ (\E m \in CtrlMsgs : ReadControl(s, m))

Receiver == Open \/ Receive \/ Ignored \/ Synced \/ Decoded \/ Rejected

Next ==
  \/ Main
  \/ \E a \in APs \union {NoAP} : Capture(a)
  \/ Receiver \/ OpenFails \/ ReceiveFails
  \/ TimerStops \/ Press \/ Interrupt \/ RemoveConf

Spec == Init /\ [][Next]_vars

\* Both threads run, a command line in the background ends, the timer ticks.
FairSpec ==
  /\ Spec
  /\ WF_vars(Main) /\ WF_vars(Receiver) /\ WF_vars(RemoveConf) /\ WF_vars(TimerStops)

-----------------------------------------------------------------------------
(* What the program promises                                               *)

\* One thread captures and decodes, however often the button makes main start
\* over: the profile, the status and sockfd are the library's and the
\* program's globals and nothing locks them.
OneReceiver == threads <= 1

\* wpa_supplicant never gets an interface that is in monitor mode: every way
\* to connect_ap goes through the mode change, whatever the button, the timer
\* and the thread did before.
ManagedWhenConnected == wpa # NoConf => mode = "managed"

\* The network that is joined is the one of the profile, with the security the
\* scan shows, never that of a configuration from an earlier run or of a
\* profile that was replaced between the scan and the start of wpa_supplicant.
JoinsTheProfile == wpa # NoConf => profile \in APs /\ wpa = Stored(profile)

\* A profile completed while main stays on its channel is not forgotten: main
\* goes on to join, or ends because the timer or the scan says so.
DoneEnds == (pc \in {"stay", "check"} /\ status = "DONE") ~> pc \in {"control", "exited"}
=============================================================================
