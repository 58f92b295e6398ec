----------------------------- MODULE SuspendApi -----------------------------
(***************************************************************************)
(* pm-suspend-api: applications ask to be told of a system suspend.        *)
(*                                                                         *)
(*   - register_suspend_listener starts a thread (listen_dbus) that takes  *)
(*     the application's bus name, leaves a file of that name in           *)
(*     /var/run/pm_dbus_services and serves suspend and resume calls;      *)
(*   - the pm-utils hook 00rockchip-suspend lists that directory and calls *)
(*     one service after the other with dbus-send --print-reply, before    *)
(*     the system sleeps and again when it has woken up.                   *)
(*                                                                         *)
(* External: the bus daemon (name ownership with a queue, delivery in      *)
(* order, an error for a name without an owner), dbus-send's reply         *)
(* timeout, and pm-suspend (one at a time; resume hooks run even when the  *)
(* suspend was given up).  One listener per process, as in the tests.      *)
(*                                                                         *)
(* X_word is X with a bug of the kind the name says.                       *)
(***************************************************************************)
EXTENDS Naturals, Sequences

CONSTANTS
    App,            \* processes that call register_suspend_listener
    Name,           \* the bus names
    NameOf,         \* the bus name each process registers
    NoApp,          \* no process
    MaxSuspends     \* bound on the number of pm-suspend runs

ASSUME NamesAssumption == NameOf \in [App -> Name] /\ NoApp \notin App
ASSUME MaxSuspendsAssumption == MaxSuspends \in Nat

VARIABLES
    pc,             \* where the listener thread of each process is
    mode,           \* what the callbacks of each process last completed
    inbox,          \* method calls delivered to each process and not popped
    owner,          \* the process that owns each name, or none
    queue,          \* the processes that wait for each name
    registered,     \* the files in /var/run/pm_dbus_services
    phase,          \* of the hook and the system
    todo,           \* the names the running for loop is not done with
    callee,         \* the process whose reply dbus-send awaits, or none
    status,         \* exit status of the last dbus-send: 0 or 1
    answered,       \* processes that replied to this suspend
    failed,         \* names whose suspend call failed
    present,        \* processes that were listening when pm-suspend started
    suspends        \* number of pm-suspend runs so far

apps == <<pc, mode, inbox>>
bus == <<owner, queue, registered>>
hook == <<phase, todo, callee, status>>
history == <<answered, failed, present, suspends>>
vars == <<apps, bus, hook, history>>

Awake == phase # "asleep"
Listening(a) == pc[a] \in {"listen", "suspend", "resume"}

Init ==
    /\ pc = [a \in App |-> "off"]
    /\ mode = [a \in App |-> "running"]
    /\ inbox = [a \in App |-> <<>>]
    /\ owner = [n \in Name |-> NoApp]
    /\ queue = [n \in Name |-> {}]
    /\ registered = {}
    /\ phase = "idle"
    /\ todo = {}
    /\ callee = NoApp
    /\ status = 0
    /\ answered = {}
    /\ failed = {}
    /\ present = {}
    /\ suspends = 0

(***************************************************************************)
(* The listener thread                                                     *)
(***************************************************************************)
\* register_suspend_listener.  pthread_create gets an uninitialised pointer to
\* write the thread id to: the thread runs, is not created, or the process dies.
Register(a) ==
    /\ Awake /\ pc[a] = "off"
    /\ \E outcome \in {"thread", "ended", "dead"} : pc' = [pc EXCEPT ![a] = outcome]
    /\ UNCHANGED <<mode, inbox, bus, hook, history>>

\* dbus_bus_get fails and listen_dbus returns.
NoBus(a) ==
    /\ Awake /\ pc[a] = "thread"
    /\ pc' = [pc EXCEPT ![a] = "ended"]
    /\ UNCHANGED <<mode, inbox, bus, hook, history>>

\* dbus_bus_request_name.  Owners never allow replacement, so a process that
\* finds one waits in the name's queue, and its thread ends.
RequestName_anyReply(a) ==
    /\ Awake /\ pc[a] = "thread"
    /\ pc' = [pc EXCEPT ![a] = "named"]
    /\ owner' = [owner EXCEPT ![NameOf[a]] = IF @ = NoApp THEN a ELSE @]
    /\ UNCHANGED <<mode, inbox, queue, registered, hook, history>>
RequestName(a) ==
    /\ Awake /\ pc[a] = "thread"
    /\ \/ /\ owner[NameOf[a]] = NoApp
          /\ owner' = [owner EXCEPT ![NameOf[a]] = a]
          /\ pc' = [pc EXCEPT ![a] = "named"]
          /\ UNCHANGED queue
       \/ /\ owner[NameOf[a]] # NoApp
          /\ queue' = [queue EXCEPT ![NameOf[a]] = @ \cup {a}]
          /\ pc' = [pc EXCEPT ![a] = "ended"]
          /\ UNCHANGED owner
    /\ UNCHANGED <<mode, inbox, registered, hook, history>>

\* mkdir -p ... && touch ...: nothing ever removes the file.
Touch(a) ==
    /\ Awake /\ pc[a] = "named"
    /\ pc' = [pc EXCEPT ![a] = "listen"]
    /\ registered' = registered \cup {NameOf[a]}
    /\ UNCHANGED <<mode, inbox, owner, queue, hook, history>>

\* dbus_connection_pop_message; the callback starts.
Pop(a) ==
    /\ Awake /\ pc[a] = "listen" /\ inbox[a] # <<>>
    /\ pc' = [pc EXCEPT ![a] = Head(inbox[a])]
    /\ inbox' = [inbox EXCEPT ![a] = Tail(@)]
    /\ UNCHANGED <<mode, bus, hook, history>>

\* dbus-send to name n ends, with a reply (ok) or an error.
DbusSendReturns_break(n, ok) ==
    /\ status' = IF ok THEN 0 ELSE 1
    /\ callee' = NoApp
    /\ todo' = IF ok THEN todo \ {n} ELSE {}
    /\ failed' = IF ~ok /\ phase = "suspend" THEN failed \cup {n} ELSE failed
    /\ answered' = IF ok /\ phase = "suspend" THEN answered \cup {callee} ELSE answered
DbusSendReturns(n, ok) ==
    /\ status' = IF ok THEN 0 ELSE 1
    /\ callee' = NoApp
    /\ todo' = todo \ {n}
    /\ failed' = IF ~ok /\ phase = "suspend" THEN failed \cup {n} ELSE failed
    /\ answered' = IF ok /\ phase = "suspend" THEN answered \cup {callee} ELSE answered

\* What a callback leaves the application in.
ModeAfter(op) == IF op = "suspend" THEN "suspended" ELSE "running"

\* The callback returns and reply_to_method_call replies; the reply counts if
\* it is the one to the call dbus-send is waiting on.
CallbackDone(a) ==
    /\ Awake /\ pc[a] \in {"suspend", "resume"}
    /\ pc' = [pc EXCEPT ![a] = "listen"]
    /\ mode' = [mode EXCEPT ![a] = ModeAfter(pc[a])]
    /\ IF callee = a /\ inbox[a] = <<>>
       THEN DbusSendReturns(NameOf[a], TRUE)
       ELSE UNCHANGED <<todo, callee, status, answered, failed>>
    /\ UNCHANGED <<inbox, bus, phase, present, suspends>>

\* The process dies: the bus fails the call it owed a reply to, and a process
\* from the queue of its name becomes the owner.
Die(a) ==
    /\ Awake /\ pc[a] \notin {"off", "dead"}
    /\ pc' = [pc EXCEPT ![a] = "dead"]
    /\ inbox' = [inbox EXCEPT ![a] = <<>>]
    /\ \E b \in App \cup {NoApp} :
          /\ IF owner[NameOf[a]] # a THEN b = owner[NameOf[a]]
             ELSE IF queue[NameOf[a]] = {} THEN b = NoApp
             ELSE b \in queue[NameOf[a]]
          /\ owner' = [owner EXCEPT ![NameOf[a]] = b]
          /\ queue' = [queue EXCEPT ![NameOf[a]] = @ \ {a, b}]
    /\ IF callee = a THEN DbusSendReturns(NameOf[a], FALSE)
       ELSE UNCHANGED <<todo, callee, status, answered, failed>>
    /\ UNCHANGED <<mode, registered, phase, present, suspends>>

(***************************************************************************)
(* 00rockchip-suspend and pm-suspend                                       *)
(***************************************************************************)
\* $(ls /var/run/pm_dbus_services), evaluated once, before the loop.
Services == registered

\* The method dbus-send calls, whatever argument pm-utils gave the hook.
Method == phase

\* pm-suspend (request_system_suspend, or a user): the hook with "suspend".
PmSuspend ==
    /\ phase = "idle"
    /\ suspends < MaxSuspends
    /\ suspends' = suspends + 1
    /\ phase' = "suspend"
    /\ todo' = Services
    /\ status' = 0
    /\ answered' = {}
    /\ failed' = {}
    /\ present' = {a \in App : Listening(a)}
    /\ UNCHANGED <<apps, bus, callee>>

\* One dbus-send of the loop.  Without an owner the bus answers with an error
\* at once; otherwise the call is delivered and dbus-send waits.
DbusSend ==
    /\ phase \in {"suspend", "resume"}
    /\ callee = NoApp
    /\ \E n \in todo :
          IF owner[n] = NoApp
          THEN DbusSendReturns(n, FALSE) /\ UNCHANGED inbox
          ELSE /\ inbox' = [inbox EXCEPT ![owner[n]] = Append(@, Method)]
               /\ callee' = owner[n]
               /\ UNCHANGED <<todo, status, answered, failed>>
    /\ UNCHANGED <<pc, mode, bus, phase, present, suspends>>

\* dbus-send gives up after its default timeout; the call stays delivered.
ReplyTimeout_never == FALSE /\ UNCHANGED vars
ReplyTimeout ==
    /\ callee # NoApp
    /\ DbusSendReturns(NameOf[callee], FALSE)
    /\ UNCHANGED <<apps, bus, phase, present, suspends>>

\* The loop ends and the hook exits with the status of its last command.
\* pm-suspend puts the system to sleep, or gives up if the hook failed.
HookDone ==
    /\ phase = "suspend" /\ todo = {}
    /\ \/ phase' = "asleep" /\ UNCHANGED <<todo, status>>
       \/ status = 1 /\ phase' = "resume" /\ todo' = Services /\ status' = 0
    /\ UNCHANGED <<apps, bus, callee, history>>

\* The system wakes up: the hook with "resume", over a new ls.
WakeServices_answered == {NameOf[a] : a \in answered}
WakeServices == Services
Wake ==
    /\ phase = "asleep"
    /\ phase' = "resume"
    /\ todo' = WakeServices
    /\ status' = 0
    /\ UNCHANGED <<apps, bus, callee, history>>

ResumeDone ==
    /\ phase = "resume" /\ todo = {}
    /\ phase' = "idle"
    /\ UNCHANGED <<apps, bus, todo, callee, status, history>>

Listener(a) == RequestName(a) \/ Touch(a) \/ Pop(a) \/ CallbackDone(a)

Next ==
    \/ \E a \in App : Register(a) \/ NoBus(a) \/ Listener(a) \/ Die(a)
    \/ PmSuspend \/ DbusSend \/ ReplyTimeout \/ HookDone \/ Wake \/ ResumeDone

Spec == Init /\ [][Next]_vars

(***************************************************************************)
(* A listener that runs goes on and its callbacks return; the hook's       *)
(* commands end (dbus-send by its timeout); somebody wakes the system up.  *)
(***************************************************************************)
Fairness ==
    /\ \A a \in App : WF_vars(Listener(a))
    /\ WF_vars(DbusSend) /\ WF_vars(ReplyTimeout)
    /\ WF_vars(HookDone) /\ WF_vars(Wake) /\ WF_vars(ResumeDone)

FairSpec == Spec /\ Fairness

(***************************************************************************)
(* Properties                                                              *)
(***************************************************************************)
TypeOK ==
    /\ pc \in [App -> {"off", "thread", "named", "listen", "suspend", "resume",
                       "ended", "dead"}]
    /\ mode \in [App -> {"running", "suspended"}]
    /\ inbox \in [App -> Seq({"suspend", "resume"})]
    /\ owner \in [Name -> App \cup {NoApp}]
    /\ queue \in [Name -> SUBSET App]
    /\ registered \subseteq Name
    /\ phase \in {"idle", "suspend", "asleep", "resume"}
    /\ todo \subseteq Name
    /\ callee \in App \cup {NoApp}
    /\ status \in {0, 1}
    /\ answered \subseteq App
    /\ failed \subseteq Name
    /\ present \subseteq App
    /\ suspends \in 0..MaxSuspends

\* Two processes never serve the same bus name, however they start and die:
\* only the first owner goes on to listen, and a later one that inherits the
\* name does not.
OneListener ==
    \A a, b \in App : Listening(a) /\ Listening(b) /\ NameOf[a] = NameOf[b] => a = b

\* Whoever answered the hook has finished its suspend callback and nothing it
\* was sent late has resumed it when the system sleeps.
AnsweredIsSuspended ==
    phase = "asleep" => \A a \in answered : mode[a] = "suspended" \/ pc[a] = "dead"

\* The system sleeps only when every process that was listening when
\* pm-suspend started is suspended or dead, or the call to its name failed.
AsleepMeansAsked ==
    phase = "asleep" =>
        \A a \in present : \/ mode[a] = "suspended" \/ pc[a] = "dead"
                          \/ NameOf[a] \in failed

(***************************************************************************)
(* What the hook and the listeners implement.  A dead process is no client *)
(* any more, and outside a round nobody is waited for.                     *)
(***************************************************************************)
Waiting ==
    {a \in present : /\ phase = "suspend" /\ pc[a] # "dead"
                     /\ a \notin answered /\ NameOf[a] \notin failed}
Ready == {a \in answered : phase \in {"suspend", "asleep"} /\ pc[a] # "dead"}
Suspended == {a \in App : mode[a] = "suspended" /\ pc[a] # "dead"}
Missed == phase = "suspend" /\ failed # {}

Protocol == INSTANCE SuspendProtocol WITH
    Client <- App, round <- phase, waiting <- Waiting, ready <- Ready,
    suspended <- Suspended, missed <- Missed

\* The hook and the listeners keep the protocol: whatever dies, times out or
\* answers late, the system sleeps only when nobody is waited for, whoever
\* answered is and stays suspended, and a round is given up only for a failure.
KeepsProtocol == Protocol!Spec

\* A pm-suspend always ends, whoever dies, is deaf or never replies.
SuspendEnds == phase # "idle" ~> phase = "idle"

\* Nobody stays suspended in a running system, not even a process that handled
\* its suspend call only after the system had woken up.
EverybodyResumes ==
    \A a \in App : mode[a] = "suspended" ~> mode[a] = "running" \/ pc[a] = "dead"
====
