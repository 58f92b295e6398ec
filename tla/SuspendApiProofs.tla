-------------------------- MODULE SuspendApiProofs --------------------------
(***************************************************************************)
(* TLAPS proofs of the safety properties of SuspendApi, for every set of   *)
(* processes and names and every number of suspends.                       *)
(***************************************************************************)
EXTENDS SuspendApi, SequenceTheorems, TLAPS

(***************************************************************************)
(* The inductive invariant, in four parts.                                 *)
(***************************************************************************)
\* The bus: a process past dbus_bus_request_name owns its name, an owner or a
\* waiting process asked for that name, and a listener's file exists.
BusInv ==
    /\ \A a \in App : pc[a] = "named" \/ Listening(a) => owner[NameOf[a]] = a
    /\ \A n \in Name : owner[n] # NoApp => NameOf[owner[n]] = n
    /\ \A n \in Name : \A a \in queue[n] : NameOf[a] = n
    /\ \A a \in App : Listening(a) => NameOf[a] \in registered

\* The call dbus-send waits on is the last thing its callee will handle.
CallInv ==
    callee # NoApp =>
        /\ phase \in {"suspend", "resume"}
        /\ NameOf[callee] \in todo
        /\ IF inbox[callee] = <<>> THEN pc[callee] = phase
           ELSE inbox[callee][Len(inbox[callee])] = phase

\* Until the system sleeps, a process that answered sits in its loop with an
\* empty inbox and is not called again.
AnsweredInv ==
    phase \in {"suspend", "asleep"} =>
        \A a \in answered : \/ pc[a] = "dead"
                            \/ /\ mode[a] = "suspended" /\ pc[a] = "listen"
                               /\ inbox[a] = <<>> /\ NameOf[a] \notin todo

\* No process that was listening at the start has been passed over.
AskedInv ==
    /\ phase = "asleep" => todo = {}
    /\ phase \in {"suspend", "asleep"} =>
        \A a \in present : \/ pc[a] = "dead"
                           \/ /\ Listening(a)
                              /\ \/ NameOf[a] \in todo
                                 \/ NameOf[a] \in failed
                                 \/ a \in answered

IInv == TypeOK /\ BusInv /\ CallInv /\ AnsweredInv /\ AskedInv

\* Nothing has happened yet: every part holds of the initial state.
LEMMA InitIInv == Init => IInv
  <1> SUFFICES ASSUME Init PROVE IInv
    OBVIOUS
  <1>1. TypeOK
    BY MaxSuspendsAssumption DEF Init, TypeOK
  <1>2. BusInv /\ CallInv /\ AnsweredInv /\ AskedInv
    BY DEF Init, BusInv, CallInv, AnsweredInv, AskedInv, Listening
  <1> QED
    BY <1>1, <1>2 DEF IInv

\* Updating a function at a point of its domain keeps its type.
LEMMA ExceptType ==
    ASSUME NEW D, NEW R, NEW f \in [D -> R], NEW d \in D, NEW r \in R
    PROVE  [f EXCEPT ![d] = r] \in [D -> R]
  OBVIOUS

\* Every step of a process, of the bus and of the hook keeps the types.
LEMMA NextTypeOK == TypeOK /\ [Next]_vars => TypeOK'
  <1> SUFFICES ASSUME TypeOK, [Next]_vars PROVE TypeOK'
    OBVIOUS
  <1> USE NamesAssumption, MaxSuspendsAssumption
      DEF TypeOK, apps, bus, hook, history
  <1>1. ASSUME NEW a \in App, Register(a) PROVE TypeOK'
    BY <1>1 DEF Register
  <1>2. ASSUME NEW a \in App, NoBus(a) PROVE TypeOK'
    BY <1>2 DEF NoBus
  <1>3. ASSUME NEW a \in App, RequestName(a) PROVE TypeOK'
    <2>1. NameOf[a] \in Name /\ queue[NameOf[a]] \cup {a} \in SUBSET App
      OBVIOUS
    <2>2. pc' \in [App -> {"off", "thread", "named", "listen", "suspend",
                          "resume", "ended", "dead"}]
      BY <1>3, ZenonT(30) DEF RequestName
    <2>3. owner' \in [Name -> App \cup {NoApp}]
      BY <1>3, <2>1 DEF RequestName
    <2>4. queue' \in [Name -> SUBSET App]
      <3>1. \/ queue' = queue
            \/ queue' = [queue EXCEPT ![NameOf[a]] = queue[NameOf[a]] \cup {a}]
        BY <1>3 DEF RequestName
      <3>2. queue \in [Name -> SUBSET App]
        OBVIOUS
      <3> HIDE DEF TypeOK
      <3>3. [queue EXCEPT ![NameOf[a]] = queue[NameOf[a]] \cup {a}]
              \in [Name -> SUBSET App]
        BY <2>1, <3>2, ExceptType
      <3> QED
        BY <3>1, <3>2, <3>3
    <2> QED
      BY <1>3, <2>2, <2>3, <2>4 DEF RequestName
  <1>4. ASSUME NEW a \in App, Touch(a) PROVE TypeOK'
    BY <1>4 DEF Touch
  <1>5. ASSUME NEW a \in App, Pop(a) PROVE TypeOK'
    BY <1>5 DEF Pop
  <1>6. ASSUME NEW a \in App, CallbackDone(a) PROVE TypeOK'
    BY <1>6 DEF CallbackDone, ModeAfter, DbusSendReturns
  <1>7. ASSUME NEW a \in App, Die(a) PROVE TypeOK'
    BY <1>7 DEF Die, DbusSendReturns
  <1>8. CASE PmSuspend
    BY <1>8 DEF PmSuspend, Services
  <1>9. CASE DbusSend
    <2> PICK n \in todo :
          IF owner[n] = NoApp
          THEN DbusSendReturns(n, FALSE) /\ UNCHANGED inbox
          ELSE /\ inbox' = [inbox EXCEPT ![owner[n]] = Append(@, Method)]
               /\ callee' = owner[n]
               /\ UNCHANGED <<todo, status, answered, failed>>
      BY <1>9 DEF DbusSend
    <2>1. CASE owner[n] = NoApp
      BY <1>9, <2>1 DEF DbusSend, DbusSendReturns
    <2>2. CASE owner[n] # NoApp
      <3>1. owner[n] \in App /\ Method \in {"suspend", "resume"}
        BY <1>9, <2>2 DEF DbusSend, Method
      <3>2. inbox' \in [App -> Seq({"suspend", "resume"})]
        <4>1. inbox' = [inbox EXCEPT ![owner[n]] = Append(inbox[owner[n]], Method)]
          BY <2>2
        <4>2. /\ inbox \in [App -> Seq({"suspend", "resume"})]
              /\ Append(inbox[owner[n]], Method) \in Seq({"suspend", "resume"})
          BY <3>1
        <4> HIDE DEF TypeOK
        <4> QED
          BY <3>1, <4>1, <4>2, ExceptType
      <3> QED
        BY <1>9, <2>2, <3>1, <3>2 DEF DbusSend
    <2> QED
      BY <2>1, <2>2
  <1>10. CASE ReplyTimeout
    BY <1>10 DEF ReplyTimeout, DbusSendReturns
  <1>11. CASE HookDone
    BY <1>11 DEF HookDone, Services
  <1>12. CASE Wake
    BY <1>12 DEF Wake, WakeServices, Services
  <1>13. CASE ResumeDone
    BY <1>13 DEF ResumeDone
  <1>14. CASE UNCHANGED vars
    BY <1>14 DEF vars
  <1> QED
    BY <1>1, <1>2, <1>3, <1>4, <1>5, <1>6, <1>7, <1>8, <1>9, <1>10, <1>11,
       <1>12, <1>13, <1>14 DEF Next, Listener

\* The tail of a sequence of at least two elements has the same last element.
LEMMA TailLast ==
    ASSUME NEW S, NEW s \in Seq(S), Len(s) > 1
    PROVE  Tail(s) # <<>> /\ Tail(s)[Len(Tail(s))] = s[Len(s)]
  OBVIOUS

\* A sequence that is not empty has one element or several.
LEMMA OneOrMore ==
    ASSUME NEW S, NEW s \in Seq(S), s # <<>>
    PROVE  Len(s) = 1 \/ Len(s) > 1
  <1>1. Len(s) \in Nat \ {0}
    BY EmptySeq
  <1>2. \A n \in Nat \ {0} : n = 1 \/ n > 1
    OBVIOUS
  <1> QED
    BY <1>1, <1>2

\* Every step keeps the rest of the invariant.
LEMMA NextIInv == IInv /\ [Next]_vars => IInv'
  <1> SUFFICES ASSUME IInv, [Next]_vars PROVE IInv'
    OBVIOUS
  <1>0. TypeOK /\ TypeOK' /\ BusInv /\ CallInv /\ AnsweredInv /\ AskedInv
    BY NextTypeOK DEF IInv
  <1> DEFINE Kept == BusInv' /\ CallInv' /\ AnsweredInv' /\ AskedInv'
  <1> SUFFICES Kept
    BY <1>0 DEF IInv
  <1> USE <1>0, NamesAssumption
      DEF BusInv, CallInv, AnsweredInv, AskedInv, Listening, TypeOK, apps, bus,
          hook, history
  <1>1. ASSUME NEW a \in App, Register(a) PROVE Kept
    BY <1>1 DEF Register
  <1>2. ASSUME NEW a \in App, NoBus(a) PROVE Kept
    BY <1>2 DEF NoBus
  <1>3. ASSUME NEW a \in App, RequestName(a) PROVE Kept
    <2>1. BusInv'
      <3>1. /\ pc[a] = "thread" /\ registered' = registered
            /\ \A b \in App : b # a => pc'[b] = pc[b]
            /\ pc'[a] \in {"named", "ended"}
        BY <1>3 DEF RequestName
      <3>2. \A n \in Name : n # NameOf[a] => owner'[n] = owner[n] /\ queue'[n] = queue[n]
        BY <1>3 DEF RequestName
      <3>3. \/ /\ owner[NameOf[a]] = NoApp /\ owner'[NameOf[a]] = a
               /\ queue' = queue /\ pc'[a] = "named"
            \/ /\ owner' = owner /\ pc'[a] = "ended"
               /\ queue'[NameOf[a]] = queue[NameOf[a]] \cup {a}
        BY <1>3 DEF RequestName
      <3>4. \A b \in App : pc'[b] = "named" \/ Listening(b)' => owner'[NameOf[b]] = b
        <4> SUFFICES ASSUME NEW b \in App, pc'[b] = "named" \/ Listening(b)'
                     PROVE  owner'[NameOf[b]] = b
          OBVIOUS
        <4>1. CASE b = a
          BY <3>1, <3>3, <4>1
        <4>2. CASE b # a
          <5>1. owner[NameOf[b]] = b /\ NameOf[b] \in Name
            BY <3>1, <4>2
          <5> QED
            BY <3>2, <3>3, <5>1
        <4> QED
          BY <4>1, <4>2
      <3>5. \A n \in Name : owner'[n] # NoApp => NameOf[owner'[n]] = n
        BY <3>2, <3>3
      <3>6. \A n \in Name : \A b \in queue'[n] : NameOf[b] = n
        BY <3>2, <3>3
      <3>7. \A b \in App : Listening(b)' => NameOf[b] \in registered'
        BY <3>1
      <3> QED
        BY <3>4, <3>5, <3>6, <3>7
    <2>2. CallInv' /\ AnsweredInv' /\ AskedInv'
      BY <1>3 DEF RequestName
    <2> QED
      BY <2>1, <2>2
  <1>4. ASSUME NEW a \in App, Touch(a) PROVE Kept
    BY <1>4 DEF Touch
  <1>5. ASSUME NEW a \in App, Pop(a) PROVE Kept
    <2>1. BusInv' /\ AnsweredInv' /\ AskedInv'
      BY <1>5 DEF Pop
    <2>2. CallInv'
      <3>1. CASE callee = a
        <4>1. /\ inbox[a] \in Seq({"suspend", "resume"}) /\ inbox[a] # <<>>
              /\ inbox'[a] = Tail(inbox[a]) /\ pc'[a] = Head(inbox[a])
              /\ callee' = a /\ phase' = phase /\ todo' = todo
          BY <1>5, <3>1 DEF Pop
        <4>2. /\ phase \in {"suspend", "resume"} /\ NameOf[a] \in todo
              /\ inbox[a][Len(inbox[a])] = phase /\ a # NoApp
          BY <3>1, <4>1
        <4>3. IF inbox'[a] = <<>> THEN pc'[a] = phase
              ELSE inbox'[a][Len(inbox'[a])] = phase
          <5> HIDE DEF TypeOK, BusInv, CallInv, AnsweredInv, AskedInv
          <5>1. CASE Len(inbox[a]) = 1
            BY <4>1, <4>2, <5>1
          <5>2. CASE Len(inbox[a]) > 1
            <6>1. /\ Tail(inbox[a]) # <<>>
                  /\ Tail(inbox[a])[Len(Tail(inbox[a]))] = inbox[a][Len(inbox[a])]
              BY <4>1, <5>2, TailLast
            <6> QED
              BY <4>1, <4>2, <6>1
          <5>3. Len(inbox[a]) = 1 \/ Len(inbox[a]) > 1
            BY <4>1, OneOrMore
          <5> QED
            BY <5>1, <5>2, <5>3
        <4> QED
          BY <4>1, <4>2, <4>3
      <3>2. CASE callee # a
        BY <1>5, <3>2 DEF Pop
      <3> QED
        BY <3>1, <3>2
    <2> QED
      BY <2>1, <2>2
  <1>6. ASSUME NEW a \in App, CallbackDone(a) PROVE Kept
    BY <1>6 DEF CallbackDone, ModeAfter, DbusSendReturns
  <1>7. ASSUME NEW a \in App, Die(a) PROVE Kept
    BY <1>7 DEF Die, DbusSendReturns
  <1>8. CASE PmSuspend
    BY <1>8 DEF PmSuspend, Services
  <1>9. CASE DbusSend
    BY <1>9 DEF DbusSend, DbusSendReturns, Method
  <1>10. CASE ReplyTimeout
    BY <1>10 DEF ReplyTimeout, DbusSendReturns
  <1>11. CASE HookDone
    BY <1>11 DEF HookDone, Services
  <1>12. CASE Wake
    BY <1>12 DEF Wake, WakeServices, Services
  <1>13. CASE ResumeDone
    BY <1>13 DEF ResumeDone
  <1>14. CASE UNCHANGED vars
    BY <1>14 DEF vars
  <1> QED
    BY <1>1, <1>2, <1>3, <1>4, <1>5, <1>6, <1>7, <1>8, <1>9, <1>10, <1>11,
       <1>12, <1>13, <1>14 DEF Next, Listener

\* The inductive invariant holds in every behaviour.
THEOREM Invariance == Spec => []IInv
  BY InitIInv, NextIInv, PTL DEF Spec

\* Type correctness of the listeners, the bus and the hook.
THEOREM TypeCorrect == Spec => []TypeOK
  <1>1. IInv => TypeOK
    BY DEF IInv
  <1> QED
    BY <1>1, Invariance, PTL

\* listen_dbus serves a bus name in at most one process.
THEOREM OneListenerThm == Spec => []OneListener
  <1>1. IInv => OneListener
    BY DEF IInv, BusInv, OneListener
  <1> QED
    BY <1>1, Invariance, PTL

\* A process that answered the hook is suspended while the system sleeps.
THEOREM AnsweredIsSuspendedThm == Spec => []AnsweredIsSuspended
  <1>1. IInv => AnsweredIsSuspended
    BY DEF IInv, AnsweredInv, AnsweredIsSuspended
  <1> QED
    BY <1>1, Invariance, PTL

\* The hook passes over no process that was listening when it started.
THEOREM AsleepMeansAskedThm == Spec => []AsleepMeansAsked
  <1>1. IInv => AsleepMeansAsked
    BY DEF IInv, AnsweredInv, AskedInv, AsleepMeansAsked
  <1> QED
    BY <1>1, Invariance, PTL

(***************************************************************************)
(* The protocol.  Two more facts about a round: dbus-send waits on the     *)
(* owner of the name it called, and the loop's status is 1 only after a    *)
(* call of this round failed.                                              *)
(***************************************************************************)
RoundInv ==
    /\ callee # NoApp => owner[NameOf[callee]] = callee
    /\ phase = "suspend" /\ status = 1 => failed # {}

\* Every step keeps both facts.
LEMMA NextRoundInv == IInv /\ RoundInv /\ [Next]_vars => RoundInv'
  <1> SUFFICES ASSUME IInv, RoundInv, [Next]_vars PROVE RoundInv'
    OBVIOUS
  <1>0. TypeOK /\ BusInv
    BY DEF IInv
  <1> USE <1>0, NamesAssumption
      DEF RoundInv, BusInv, TypeOK, apps, bus, hook, history
  <1>1. ASSUME NEW a \in App, Register(a) \/ NoBus(a) \/ Touch(a) \/ Pop(a)
        PROVE  RoundInv'
    BY <1>1 DEF Register, NoBus, Touch, Pop
  <1>2. ASSUME NEW a \in App, RequestName(a) PROVE RoundInv'
    BY <1>2 DEF RequestName
  <1>3. ASSUME NEW a \in App, CallbackDone(a) PROVE RoundInv'
    BY <1>3 DEF CallbackDone, DbusSendReturns
  <1>4. ASSUME NEW a \in App, Die(a) PROVE RoundInv'
    <2>1. CASE callee = a
      BY <1>4, <2>1 DEF Die, DbusSendReturns
    <2>2. CASE callee # a
      <3>1. /\ UNCHANGED <<callee, phase, status, failed>>
            /\ \E b : /\ owner' = [owner EXCEPT ![NameOf[a]] = b]
                      /\ owner[NameOf[a]] # a => b = owner[NameOf[a]]
        BY <1>4, <2>2 DEF Die
      <3>2. callee # NoApp => owner'[NameOf[callee]] = callee
        BY <2>2, <3>1
      <3> QED
        BY <3>1, <3>2
    <2> QED
      BY <2>1, <2>2
  <1>5. CASE PmSuspend
    BY <1>5 DEF PmSuspend
  <1>6. CASE DbusSend
    BY <1>6 DEF DbusSend, DbusSendReturns
  <1>7. CASE ReplyTimeout
    BY <1>7 DEF ReplyTimeout, DbusSendReturns
  <1>8. CASE HookDone \/ Wake \/ ResumeDone
    BY <1>8 DEF HookDone, Wake, ResumeDone
  <1>9. CASE UNCHANGED vars
    BY <1>9 DEF vars
  <1> QED
    BY <1>1, <1>2, <1>3, <1>4, <1>5, <1>6, <1>7, <1>8, <1>9 DEF Next, Listener

\* A state of the implementation starts a behaviour of the protocol.
LEMMA InitProtocol == Init => Protocol!Init
  BY DEF Init, Protocol!Init, Waiting, Ready, Suspended, Missed

\* A call of the round that fails costs at most the client it was for.
LEMMA FailedCall ==
    ASSUME IInv, RoundInv, callee # NoApp, phase = "suspend"
    PROVE  {a \in Waiting : NameOf[a] = NameOf[callee]} \subseteq {callee}
  BY NamesAssumption DEF IInv, RoundInv, BusInv, AskedInv, TypeOK, Waiting, Listening

\* Every step of a process, of the bus and of the hook is a step of the protocol
\* or leaves its variables alone.
LEMMA StepProtocol ==
    IInv /\ RoundInv /\ [Next]_vars => [Protocol!Next]_(Protocol!vars)
  <1> SUFFICES ASSUME IInv, RoundInv, [Next]_vars
               PROVE  Protocol!Next \/ UNCHANGED Protocol!vars
    OBVIOUS
  <1>0. /\ TypeOK /\ BusInv /\ CallInv /\ AnsweredInv /\ AskedInv /\ RoundInv
        /\ NameOf \in [App -> Name] /\ NoApp \notin App
    BY NamesAssumption DEF IInv
  <1> DEFINE Same == UNCHANGED <<phase, Waiting, Ready, Suspended, Missed>>
  <1>s. Same => UNCHANGED Protocol!vars
    BY DEF Protocol!vars
  <1> HIDE DEF Same
  <1>1. ASSUME NEW a \in App, Register(a)
        PROVE  Protocol!Next \/ UNCHANGED Protocol!vars
    <2>1. CASE pc'[a] = "dead"
      <3>1. /\ phase # "asleep" /\ phase' = phase
            /\ Missed' = Missed
        BY <1>1 DEF Register, Awake, hook, history, Missed
      <3>2. Waiting' = Waiting \ {a}
        BY <1>0, <1>1, <2>1 DEF Register, hook, history, Waiting, TypeOK
      <3>3. Ready' = Ready \ {a}
        BY <1>0, <1>1, <2>1 DEF Register, hook, history, Ready, TypeOK
      <3>4. Suspended' = Suspended \ {a}
        BY <1>0, <1>1, <2>1 DEF Register, Suspended, TypeOK
      <3> QED
        BY <3>1, <3>2, <3>3, <3>4 DEF Protocol!Next, Protocol!Leave
    <2>2. CASE pc'[a] # "dead"
      <3>1. \A b \in App : pc'[b] = "dead" <=> pc[b] = "dead"
        BY <1>0, <1>1, <2>2 DEF Register, TypeOK
      <3>2. UNCHANGED <<mode, phase, answered, failed, present>>
        BY <1>1 DEF Register, hook, history
      <3> QED
        BY <1>0, <1>s, <3>1, <3>2 DEF TypeOK, Same, Waiting, Ready, Suspended, Missed
    <2> QED
      BY <2>1, <2>2
  <1>2. ASSUME NEW a \in App, NoBus(a) \/ RequestName(a) \/ Touch(a) \/ Pop(a)
        PROVE  UNCHANGED Protocol!vars
    <2>1. \A b \in App : pc'[b] = "dead" <=> pc[b] = "dead"
      <3>1. /\ pc[a] # "dead" /\ pc'[a] # "dead"
            /\ \E v : pc' = [pc EXCEPT ![a] = v]
        <4>1. CASE NoBus(a) \/ RequestName(a) \/ Touch(a)
          BY <1>0, <4>1 DEF NoBus, RequestName, Touch, TypeOK
        <4>2. CASE Pop(a)
          <5>1. /\ pc' = [pc EXCEPT ![a] = Head(inbox[a])] /\ pc[a] = "listen"
                /\ inbox[a] \in Seq({"suspend", "resume"}) /\ inbox[a] # <<>>
            BY <1>0, <4>2 DEF Pop, TypeOK
          <5>2. Head(inbox[a]) \in {"suspend", "resume"}
            BY <5>1
          <5> QED
            BY <1>0, <5>1, <5>2 DEF TypeOK
        <4> QED
          BY <1>2, <4>1, <4>2
      <3> QED
        BY <1>0, <3>1 DEF TypeOK
    <2>2. UNCHANGED <<mode, phase, answered, failed, present>>
      BY <1>2 DEF NoBus, RequestName, Touch, Pop, hook, history
    <2> QED
      BY <1>0, <1>s, <2>1, <2>2 DEF TypeOK, Same, Waiting, Ready, Suspended, Missed
  <1>3. ASSUME NEW a \in App, CallbackDone(a) PROVE Protocol!Next \/ UNCHANGED Protocol!vars
    <2>1. /\ phase # "asleep" /\ phase' = phase /\ present' = present
          /\ \A b \in App : pc'[b] = "dead" <=> pc[b] = "dead"
      BY <1>0, <1>3 DEF CallbackDone, Awake, TypeOK
    <2>2. mode' = [mode EXCEPT ![a] = ModeAfter(pc[a])] /\ pc[a] # "dead"
      BY <1>3 DEF CallbackDone
    <2>3. CASE callee = a /\ inbox[a] = <<>> /\ phase = "suspend"
      <3>1. /\ answered' = answered \cup {a} /\ failed' = failed
            /\ pc[a] = "suspend"
        BY <1>0, <1>3, <2>3 DEF CallbackDone, DbusSendReturns, CallInv
      <3>2. Waiting' = Waiting \ {a}
        BY <1>0, <2>1, <3>1 DEF Waiting, TypeOK
      <3>3. Ready' = Ready \cup {a}
        BY <1>0, <2>1, <2>2, <2>3, <3>1 DEF Ready, TypeOK
      <3>4. Suspended' = Suspended \cup {a}
        BY <1>0, <2>1, <2>2, <3>1 DEF Suspended, ModeAfter, TypeOK
      <3>5. Missed' = Missed
        BY <2>1, <3>1 DEF Missed
      <3> QED
        BY <2>1, <2>3, <3>2, <3>3, <3>4, <3>5 DEF Protocol!Next, Protocol!Answer
    <2>4. CASE ~(callee = a /\ inbox[a] = <<>> /\ phase = "suspend")
      <3>1. answered' = answered /\ failed' = failed
        BY <1>3, <2>4 DEF CallbackDone, DbusSendReturns
      <3>2. a \notin Ready
        BY <1>0, <1>3 DEF CallbackDone, Ready, AnsweredInv
      <3>3. UNCHANGED <<phase, Waiting, Ready, Missed>>
        BY <1>0, <2>1, <3>1 DEF Waiting, Ready, Missed, TypeOK
      <3>4. Suspended' \in {Suspended \cup {a}, Suspended \ {a}}
        <4>1. CASE ModeAfter(pc[a]) = "suspended"
          <5>1. Suspended' = Suspended \cup {a}
            BY <1>0, <2>1, <2>2, <4>1 DEF Suspended, TypeOK
          <5> QED
            BY <5>1
        <4>2. CASE ModeAfter(pc[a]) # "suspended"
          <5>1. Suspended' = Suspended \ {a}
            BY <1>0, <2>1, <2>2, <4>2 DEF Suspended, TypeOK
          <5> QED
            BY <5>1
        <4> QED
          BY <4>1, <4>2
      <3> QED
        BY <2>1, <3>2, <3>3, <3>4 DEF Protocol!Next, Protocol!Unheard
    <2> QED
      BY <2>3, <2>4
  <1>4. ASSUME NEW a \in App, Die(a) PROVE Protocol!Next
    <2>1. /\ phase # "asleep" /\ phase' = phase /\ present' = present /\ mode' = mode
          /\ answered' = answered
          /\ \A b \in App : pc'[b] = "dead" <=> b = a \/ pc[b] = "dead"
      BY <1>0, <1>4 DEF Die, Awake, TypeOK, DbusSendReturns
    <2>2. Waiting' = Waiting \ {a}
      <3>1. CASE callee = a /\ phase = "suspend"
        <4>1. failed' = failed \cup {NameOf[a]} /\ a # NoApp
          BY <1>0, <1>4, <3>1 DEF Die, DbusSendReturns
        <4>2. {b \in Waiting : NameOf[b] = NameOf[a]} \subseteq {a}
          BY <3>1, <4>1, FailedCall
        <4> QED
          BY <1>0, <2>1, <4>1, <4>2 DEF Waiting, TypeOK
      <3>2. CASE callee # a
        <4>1. failed' = failed
          BY <1>4, <3>2 DEF Die
        <4> QED
          BY <1>0, <2>1, <4>1 DEF Waiting, TypeOK
      <3>3. CASE phase # "suspend"
        BY <2>1, <3>3 DEF Waiting
      <3> QED
        BY <3>1, <3>2, <3>3
    <2>3. Ready' = Ready \ {a}
      BY <1>0, <2>1 DEF Ready, TypeOK
    <2>4. Suspended' = Suspended \ {a}
      BY <2>1 DEF Suspended
    <2>5. Missed' \in {Missed, phase = "suspend"}
      <3>1. CASE callee = a /\ phase = "suspend"
        <4>1. Missed'
          BY <1>4, <2>1, <3>1 DEF Die, DbusSendReturns, Missed
        <4> QED
          BY <3>1, <4>1 DEF Missed
      <3>2. CASE ~(callee = a /\ phase = "suspend")
        <4>1. failed' = failed
          BY <1>4, <3>2 DEF Die, DbusSendReturns
        <4> QED
          BY <2>1, <4>1 DEF Missed
      <3> QED
        BY <3>1, <3>2
    <2> QED
      BY <2>1, <2>2, <2>3, <2>4, <2>5 DEF Protocol!Next, Protocol!Leave
  <1>5. CASE PmSuspend
    <2>1. /\ phase = "idle" /\ phase' = "suspend" /\ answered' = {} /\ failed' = {}
          /\ UNCHANGED <<pc, mode>>
      BY <1>5 DEF PmSuspend, apps
    <2>2. Waiting' \in SUBSET App
      BY <1>5 DEF PmSuspend, Waiting
    <2>3. Ready' = Ready /\ Suspended' = Suspended
      BY <2>1 DEF Ready, Suspended
    <2>4. Missed' = Missed
      BY <2>1 DEF Missed
    <2> QED
      BY <2>1, <2>2, <2>3, <2>4 DEF Protocol!Next, Protocol!Begin
  <1>6. CASE DbusSend
    <2>1. UNCHANGED <<pc, mode, phase, present>>
      BY <1>6 DEF DbusSend
    <2>2. PICK n \in todo :
            \/ owner[n] = NoApp /\ DbusSendReturns(n, FALSE)
            \/ UNCHANGED <<answered, failed>>
      BY <1>6 DEF DbusSend
    <2>3. CASE phase = "suspend" /\ owner[n] = NoApp /\ DbusSendReturns(n, FALSE)
      <3>1. answered' = answered /\ failed' = failed \cup {n}
        BY <2>3 DEF DbusSendReturns
      <3>2. \A a \in Waiting : NameOf[a] # n
        <4>1. \A a \in Waiting : a \in App /\ (Listening(a) \/ pc[a] = "dead")
          BY <1>0, <2>3 DEF AskedInv, TypeOK, Waiting
        <4>2. \A a \in Waiting : owner[NameOf[a]] = a
          BY <1>0, <4>1 DEF BusInv, Waiting
        <4> QED
          BY <1>0, <2>3, <4>1, <4>2
      <3>3. Waiting' = Waiting
        BY <2>1, <3>1, <3>2 DEF Waiting
      <3>4. Ready' = Ready /\ Suspended' = Suspended
        BY <2>1, <3>1 DEF Ready, Suspended
      <3>5. Missed' = TRUE
        BY <2>1, <2>3, <3>1 DEF Missed
      <3> QED
        BY <2>1, <2>3, <3>3, <3>4, <3>5 DEF Protocol!Next, Protocol!Miss
    <2>4. CASE UNCHANGED <<answered, failed>>
      BY <1>s, <2>1, <2>4 DEF Same, Waiting, Ready, Suspended, Missed
    <2>5. CASE phase # "suspend" /\ DbusSendReturns(n, FALSE)
      <3>1. UNCHANGED <<answered, failed>>
        BY <2>5 DEF DbusSendReturns
      <3> QED
        BY <2>4, <3>1
    <2> QED
      BY <2>2, <2>3, <2>4, <2>5
  <1>7. CASE ReplyTimeout
    <2>1. /\ UNCHANGED <<pc, mode, phase, present>> /\ callee # NoApp
          /\ answered' = answered
      BY <1>7 DEF ReplyTimeout, apps, DbusSendReturns
    <2>2. CASE phase = "suspend"
      <3>1. failed' = failed \cup {NameOf[callee]}
        BY <1>7, <2>2 DEF ReplyTimeout, DbusSendReturns
      <3>2. {a \in Waiting : NameOf[a] = NameOf[callee]} \subseteq {callee}
        BY <2>1, <2>2, FailedCall
      <3>3. \/ Waiting' = Waiting
            \/ callee \in Waiting /\ Waiting' = Waiting \ {callee}
        <4>1. CASE callee \in Waiting
          <5>1. Waiting' = Waiting \ {callee}
            BY <2>1, <3>1, <3>2 DEF Waiting
          <5> QED
            BY <4>1, <5>1
        <4>2. CASE callee \notin Waiting
          <5>1. \A a \in Waiting : NameOf[a] # NameOf[callee]
            BY <3>2, <4>2
          <5>2. Waiting' = Waiting
            BY <2>1, <3>1, <5>1 DEF Waiting
          <5> QED
            BY <5>2
        <4> QED
          BY <4>1, <4>2
      <3>4. Ready' = Ready /\ Suspended' = Suspended
        BY <2>1 DEF Ready, Suspended
      <3>5. Missed' = TRUE
        BY <2>1, <2>2, <3>1 DEF Missed
      <3> QED
        BY <2>1, <2>2, <3>3, <3>4, <3>5 DEF Protocol!Next, Protocol!Miss
    <2>3. CASE phase # "suspend"
      <3>1. failed' = failed
        BY <1>7, <2>3 DEF ReplyTimeout, DbusSendReturns
      <3> QED
        BY <1>s, <2>1, <3>1 DEF Same, Waiting, Ready, Suspended, Missed
    <2> QED
      BY <2>2, <2>3
  <1>8. CASE HookDone
    <2>1. phase = "suspend" /\ todo = {} /\ UNCHANGED <<pc, mode, answered, failed, present>>
      BY <1>8 DEF HookDone, apps, history
    <2>2. Suspended' = Suspended
      BY <2>1 DEF Suspended
    <2>3. CASE phase' = "asleep"
      <3>1. Waiting = {}
        BY <1>0, <2>1 DEF AskedInv, Waiting
      <3>2. Waiting' = {} /\ Ready' = Ready
        BY <2>1, <2>3 DEF Waiting, Ready
      <3>3. Missed' = FALSE
        BY <2>3 DEF Missed
      <3> QED
        BY <2>1, <2>2, <2>3, <3>1, <3>2, <3>3 DEF Protocol!Next, Protocol!Sleep
    <2>4. CASE status = 1 /\ phase' = "resume"
      <3>1. Missed
        BY <1>0, <2>1, <2>4 DEF RoundInv, Missed
      <3>2. Waiting' = {} /\ Ready' = {}
        BY <2>4 DEF Waiting, Ready
      <3>3. Missed' = FALSE
        BY <2>4 DEF Missed
      <3> QED
        BY <2>1, <2>2, <2>4, <3>1, <3>2, <3>3 DEF Protocol!Next, Protocol!Resume
    <2> QED
      BY <1>8, <2>3, <2>4 DEF HookDone
  <1>9. CASE Wake
    <2>1. phase = "asleep" /\ phase' = "resume" /\ UNCHANGED <<pc, mode>>
      BY <1>9 DEF Wake, apps
    <2>2. Waiting' = {} /\ Ready' = {} /\ Suspended' = Suspended
      BY <2>1 DEF Waiting, Ready, Suspended
    <2>3. Missed' = FALSE
      BY <2>1 DEF Missed
    <2> QED
      BY <2>1, <2>2, <2>3 DEF Protocol!Next, Protocol!Resume
  <1>10. CASE ResumeDone
    <2>1. phase = "resume" /\ phase' = "idle" /\ UNCHANGED <<pc, mode>>
      BY <1>10 DEF ResumeDone, apps
    <2>2. Waiting' = Waiting /\ Ready' = Ready /\ Suspended' = Suspended
      BY <2>1 DEF Waiting, Ready, Suspended
    <2>3. Missed' = Missed
      BY <2>1 DEF Missed
    <2> QED
      BY <2>1, <2>2, <2>3 DEF Protocol!Next, Protocol!End
  <1>11. CASE UNCHANGED vars
    BY <1>s, <1>11 DEF vars, apps, bus, hook, history, Same, Waiting, Ready, Suspended, Missed
  <1> QED
    BY <1>1, <1>2, <1>3, <1>4, <1>5, <1>6, <1>7, <1>8, <1>9, <1>10, <1>11
       DEF Next, Listener

\* The listeners, the bus and the hook implement SuspendProtocol.
THEOREM KeepsProtocolThm == Spec => KeepsProtocol
  <1>1. Init => RoundInv
    BY DEF Init, RoundInv
  <1> QED
    BY <1>1, Invariance, NextRoundInv, InitProtocol, StepProtocol, PTL
       DEF Spec, KeepsProtocol, Protocol!Spec
=============================================================================
