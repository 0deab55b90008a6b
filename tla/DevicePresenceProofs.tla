------------------------- MODULE DevicePresenceProofs -------------------------
(***************************************************************************)
(* Proofs about DevicePresence, for any number of concurrent requests and  *)
(* registrations, with or without receivers that lag.                      *)
(***************************************************************************)
EXTENDS DevicePresence, TLAPS

\* A receiver that was overrun has lost events, so its task has missed some.
LagIsMissed == unread["tracker"] = Lagged => missed["tracker"]

\* Without registrations the registration task never has an event to act on;
\* the discovery task connects only while the registry is empty, and then the
\* one object with a poller is the one it holds.
OneConnector ==
  registered = 0 =>
    /\ unread["registration"] \in {0, Lagged}
    /\ status["registration"] \in Deaf \cup {"listening"}
    /\ status["discovery"] \in {"connecting", "connected"} => registry = 0
    /\ sdk \subseteq IF status["discovery"] = "connected"
                     THEN {holding["discovery"]} ELSE {registry}

ShownInv == TypeOK /\ LagIsMissed /\ OnlineIsShown
PollerInv == TypeOK /\ OneConnector

-----------------------------------------------------------------------------
(* The steps of the tasks, without the case split over who takes them.     *)

\* Publishing an event keeps the types of what it touches.
LEMMA AnnounceTypes ==
  ASSUME TypeOK, NEW h \in Handlers, Announce(h)
  PROVE  /\ unread' \in [Handlers -> Nat \cup {Lagged}]
         /\ missed' \in [Handlers -> BOOLEAN]
         /\ status' = status
<1>1. /\ unread \in [Handlers -> Nat \cup {Lagged}]
      /\ missed \in [Handlers -> BOOLEAN]
  BY DEF TypeOK
<1>2. unread' \in [Handlers -> Nat \cup {Lagged}]
  BY <1>1 DEF Announce, Lagged
<1>3. missed' \in [Handlers -> BOOLEAN]
  BY <1>1, Zenon DEF Announce
<1> QED BY <1>2, <1>3 DEF Announce

-----------------------------------------------------------------------------
\* Every step keeps the types.
LEMMA StepTypes ==
  ASSUME TypeOK, [Next]_vars
  PROVE  TypeOK'
<1> USE PresenceAssumption
<1>1. ASSUME NEW r \in Requests, Lookup(r)
      PROVE  TypeOK'
  BY <1>1 DEF TypeOK, Lookup, task_vars, obj_vars
<1>2. ASSUME NEW r \in Requests, Insert(r)
      PROVE  TypeOK'
  BY <1>2, AnnounceTypes DEF TypeOK, Insert, obj_vars, Handlers, Connectors
<1>3. ASSUME NEW r \in Requests, Mark(r)
      PROVE  TypeOK'
  <2>1. CASE adms = "online"
    BY <1>3, <2>1 DEF TypeOK, Mark, task_vars, obj_vars
  <2>2. CASE adms # "online"
    BY <1>3, <2>2, AnnounceTypes DEF TypeOK, Mark, obj_vars, Handlers
  <2> QED BY <2>1, <2>2
<1>4. ASSUME NEW h \in Handlers, Subscribe(h)
      PROVE  TypeOK'
  BY <1>4 DEF TypeOK, Subscribe, Move, Steps, adms_vars, obj_vars
<1>5. ASSUME NEW h \in Handlers, Overrun(h)
      PROVE  TypeOK'
  BY <1>5 DEF TypeOK, Overrun, adms_vars, obj_vars, Lagged
<1>6. ASSUME NEW h \in Handlers, EndOnLag(h)
      PROVE  TypeOK'
  BY <1>6 DEF TypeOK, EndOnLag, Move, Steps, Deaf, adms_vars, obj_vars
<1>7. ASSUME TrackOnline
      PROVE  TypeOK'
  BY <1>7 DEF TypeOK, TrackOnline, Receive, Lagged, Handlers, adms_vars, obj_vars
<1>8. ASSUME NEW h \in Connectors, AlreadyConnected(h)
      PROVE  TypeOK'
  BY <1>8 DEF TypeOK, AlreadyConnected, Receive, Lagged, Handlers, adms_vars, obj_vars
<1>9. ASSUME NEW h \in Connectors, Begin(h)
      PROVE  TypeOK'
  BY <1>9 DEF TypeOK, Begin, Move, Steps, Receive, Lagged, Handlers, adms_vars, obj_vars
<1>10. ASSUME NEW h \in Connectors, Connect(h)
      PROVE  TypeOK'
  BY <1>10 DEF TypeOK, Connect, Move, Steps, Handlers, adms_vars
<1>11. ASSUME NEW h \in Connectors, Install(h)
      PROVE  TypeOK'
  BY <1>11 DEF TypeOK, Install, Move, Steps, Handlers, adms_vars
<1>12. ASSUME NEW h \in Connectors, Report(h)
      PROVE  TypeOK'
  BY <1>12 DEF TypeOK, Report, Move, Steps, Handlers, adms_vars, obj_vars
<1>13. ASSUME Register
      PROVE  TypeOK'
  BY <1>13, AnnounceTypes DEF TypeOK, Register, adms_vars, obj_vars, Handlers, Connectors
<1>14. ASSUME ConnectFails
      PROVE  TypeOK'
  BY <1>14 DEF TypeOK, ConnectFails, Move, Steps, Handlers, adms_vars, obj_vars
<1>15. ASSUME PollOk
      PROVE  TypeOK'
  BY <1>15 DEF TypeOK, PollOk, adms_vars, task_vars, obj_vars
<1>16. ASSUME PollFails
      PROVE  TypeOK'
  BY <1>16 DEF TypeOK, PollFails, adms_vars, task_vars, obj_vars
<1>17. CASE UNCHANGED vars
  BY <1>17 DEF TypeOK, vars, adms_vars, task_vars, obj_vars
<1> QED BY <1>1, <1>2, <1>3, <1>4, <1>5, <1>6, <1>7, <1>8, <1>9, <1>10, <1>11, <1>12, <1>13, <1>14, <1>15, <1>16, <1>17
     DEF Next, Serve, Track, Work, Handlers, Connectors

\* Reading, connecting and publishing never leave the types: a receiver is
\* Lagged or counts its unread events, every object in use has been made.
THEOREM PresenceTypeCorrect == Spec => []TypeOK
<1>1. Init => TypeOK
  <2> SUFFICES ASSUME Init PROVE TypeOK
    OBVIOUS
  <2>1. made \in Nat /\ sdk \subseteq 1..made /\ registry \in 0..made
    BY DEF Init
  <2>2. holding \in [Connectors -> 0..made] /\ registered \in 0..MaxRegistrations
    BY <2>1, PresenceAssumption DEF Init
  <2>3. missed \in [Handlers -> BOOLEAN] /\ dropped \in BOOLEAN
    BY Zenon DEF Init
  <2>4. /\ adms \in {"none", "offline", "online"} /\ conn \subseteq {"adms", "sdk"}
        /\ pc \in [Requests -> {"idle", "missing", "found"}]
        /\ status \in [Handlers -> Steps] /\ unread \in [Handlers -> Nat \cup {Lagged}]
    BY DEF Init, Steps, Deaf
  <2> QED BY <2>1, <2>2, <2>3, <2>4 DEF TypeOK
<1>2. TypeOK /\ [Next]_vars => TypeOK'
  BY StepTypes
<1> QED BY <1>1, <1>2, PTL DEF Spec

-----------------------------------------------------------------------------
(* The one DeviceOnline event is never lost between ADMS server and API.   *)

\* The conjuncts of the invariant read nothing but these values.
LEMMA ShownKept ==
  ASSUME LagIsMissed, OnlineIsShown, missed' = missed, dropped' = dropped,
         adms' = adms \/ adms' # "online",
         unread'["tracker"] = unread["tracker"] \/ "adms" \in conn',
         unread'["tracker"] = Lagged => unread["tracker"] = Lagged,
         conn \subseteq conn'
  PROVE  LagIsMissed' /\ OnlineIsShown'
<1>1. LagIsMissed'
  BY DEF LagIsMissed
<1>2. OnlineIsShown'
  BY DEF OnlineIsShown
<1> QED BY <1>1, <1>2

\* Publishing DeviceOnline leaves it unread, or the tracker missed it.
LEMMA MarkShown ==
  ASSUME TypeOK, LagIsMissed, NEW r \in Requests, Mark(r), adms # "online"
  PROVE  LagIsMissed' /\ OnlineIsShown'
<1>1. /\ unread \in [Handlers -> Nat \cup {Lagged}] /\ missed \in [Handlers -> BOOLEAN]
      /\ "tracker" \in Handlers /\ Announce("tracker")
  BY DEF TypeOK, Handlers, Mark
<1>2. missed'["tracker"] = (missed["tracker"] \/ status["tracker"] \in Deaf)
  BY <1>1, Zenon DEF Announce
<1>3. CASE status["tracker"] \in Deaf \/ unread["tracker"] = Lagged
  <2>1. missed'["tracker"]
    BY <1>2, <1>3, Zenon DEF LagIsMissed
  <2> QED BY <2>1, Zenon DEF LagIsMissed, OnlineIsShown
<1>4. CASE ~(status["tracker"] \in Deaf \/ unread["tracker"] = Lagged)
  <2>1. unread'["tracker"] = unread["tracker"] + 1 /\ unread["tracker"] \in Nat
    BY <1>1, <1>4 DEF Announce
  <2>2. unread'["tracker"] > 0 /\ unread'["tracker"] # Lagged
    BY <2>1 DEF Lagged
  <2> QED BY <2>2, Zenon DEF LagIsMissed, OnlineIsShown
<1> QED BY <1>3, <1>4

\* Every step keeps the online terminal shown or its event unread.
LEMMA StepShown ==
  ASSUME ShownInv, [Next]_vars
  PROVE  LagIsMissed' /\ OnlineIsShown'
<1> USE DEF ShownInv
<1>0. /\ unread \in [Handlers -> Nat \cup {Lagged}] /\ missed \in [Handlers -> BOOLEAN]
      /\ "tracker" \in Handlers /\ "tracker" \notin Connectors
  BY DEF TypeOK, Handlers, Connectors
<1>1. ASSUME NEW r \in Requests, Lookup(r)
      PROVE  LagIsMissed' /\ OnlineIsShown'
  BY <1>1, ShownKept DEF Lookup, task_vars
<1>2. ASSUME NEW r \in Requests, Insert(r)
      PROVE  LagIsMissed' /\ OnlineIsShown'
  <2>1. /\ unread'["tracker"] = unread["tracker"]
        /\ missed'["tracker"] = missed["tracker"] /\ adms' = "offline"
    BY <1>0, <1>2 DEF Insert, Announce
  <2> QED BY <2>1 DEF LagIsMissed, OnlineIsShown
<1>3. ASSUME NEW r \in Requests, Mark(r)
      PROVE  LagIsMissed' /\ OnlineIsShown'
  <2>1. CASE adms = "online"
    BY <1>3, <2>1, ShownKept DEF Mark, task_vars
  <2>2. CASE adms # "online"
    BY <1>3, <2>2, MarkShown
  <2> QED BY <2>1, <2>2
<1>4. ASSUME NEW h \in Handlers, Subscribe(h)
      PROVE  LagIsMissed' /\ OnlineIsShown'
  BY <1>4, ShownKept DEF Subscribe, adms_vars
<1>5. ASSUME NEW h \in Handlers, Overrun(h)
      PROVE  LagIsMissed' /\ OnlineIsShown'
  <2>1. CASE h = "tracker"
    <3>1. missed'["tracker"]
      BY <1>0, <1>5, <2>1, Zenon DEF Overrun
    <3> QED BY <3>1, Zenon DEF LagIsMissed, OnlineIsShown
  <2>2. CASE h # "tracker"
    <3>1. /\ unread'["tracker"] = unread["tracker"]
          /\ missed'["tracker"] = missed["tracker"]
          /\ UNCHANGED <<adms, conn, dropped>>
      BY <1>0, <1>5, <2>2, Zenon DEF Overrun, adms_vars
    <3> QED BY <3>1 DEF LagIsMissed, OnlineIsShown
  <2> QED BY <2>1, <2>2
<1>6. ASSUME NEW h \in Handlers, EndOnLag(h)
      PROVE  LagIsMissed' /\ OnlineIsShown'
  BY <1>6, ShownKept DEF EndOnLag, adms_vars
<1>7. ASSUME TrackOnline
      PROVE  LagIsMissed' /\ OnlineIsShown'
  <2>1. unread'["tracker"] = unread["tracker"] - 1 /\ unread["tracker"] > 0
    BY <1>0, <1>7 DEF TrackOnline, Receive
  <2>2. unread'["tracker"] # Lagged
    BY <1>0, <2>1 DEF Lagged
  <2> QED BY <1>7, <2>2, ShownKept DEF TrackOnline, Receive, adms_vars
<1>8. ASSUME NEW h \in Connectors, AlreadyConnected(h) \/ Begin(h)
      PROVE  LagIsMissed' /\ OnlineIsShown'
  <2>1. unread'["tracker"] = unread["tracker"]
    BY <1>0, <1>8 DEF AlreadyConnected, Begin, Receive
  <2> QED BY <1>8, <2>1, ShownKept DEF AlreadyConnected, Begin, Receive, adms_vars
<1>9. ASSUME NEW h \in Connectors, Connect(h) \/ Install(h) \/ Report(h)
      PROVE  LagIsMissed' /\ OnlineIsShown'
  BY <1>9, ShownKept DEF Connect, Install, Report, adms_vars
<1>10. ASSUME ConnectFails \/ PollOk
       PROVE  LagIsMissed' /\ OnlineIsShown'
  BY <1>10, ShownKept DEF ConnectFails, PollOk, adms_vars, task_vars
<1>11. ASSUME Register
       PROVE  LagIsMissed' /\ OnlineIsShown'
  <2>1. /\ unread'["tracker"] = unread["tracker"]
        /\ missed'["tracker"] = missed["tracker"]
        /\ UNCHANGED <<adms, conn, dropped>>
    BY <1>0, <1>11 DEF Register, Announce, adms_vars
  <2> QED BY <2>1 DEF LagIsMissed, OnlineIsShown
<1>12. ASSUME PollFails
       PROVE  LagIsMissed' /\ OnlineIsShown'
  <2>1. dropped' /\ UNCHANGED <<unread, missed>>
    BY <1>12, Zenon DEF PollFails, task_vars
  <2> QED BY <2>1, Zenon DEF LagIsMissed, OnlineIsShown
<1>13. CASE UNCHANGED vars
  BY <1>13, ShownKept DEF vars, adms_vars, task_vars
<1> QED BY <1>1, <1>2, <1>3, <1>4, <1>5, <1>6, <1>7, <1>8, <1>9, <1>10, <1>11, <1>12, <1>13
     DEF Next, Serve, Track, Work, Handlers, Connectors

\* However many requests race to insert and mark the terminal's state, an
\* online terminal is shown connected or the event that will show it is unread,
\* until the tracker misses an event or a poll fails.
THEOREM OnlineNeverLost == Spec => []OnlineIsShown
<1>1. Init => LagIsMissed /\ OnlineIsShown
  BY DEF Init, LagIsMissed, OnlineIsShown, Lagged, Handlers
<1>2. TypeOK /\ LagIsMissed /\ OnlineIsShown /\ [Next]_vars => (LagIsMissed /\ OnlineIsShown)'
  BY StepShown DEF ShownInv
<1> QED BY <1>1, <1>2, PresenceTypeCorrect, PTL DEF Spec

-----------------------------------------------------------------------------
(* Discovery alone connects once.                                          *)

\* Every step keeps the one connector alone.
LEMMA StepConnector ==
  ASSUME PollerInv, TypeOK', [Next]_vars
  PROVE  OneConnector'
<1>0. SUFFICES ASSUME registered' = 0 PROVE OneConnector'
  BY DEF OneConnector
<1> USE <1>0 DEF PollerInv
<1>a. /\ "registration" \in Handlers /\ "discovery" \in Handlers
      /\ "discovery" \in Connectors /\ made \in Nat /\ sdk \subseteq 1..made
      /\ unread \in [Handlers -> Nat \cup {Lagged}] /\ status \in [Handlers -> Steps]
      /\ holding \in [Connectors -> 0..made] /\ registered \in Nat
  BY PresenceAssumption DEF TypeOK, Handlers, Connectors
<1>1. ASSUME NEW r \in Requests, Lookup(r) \/ Insert(r) \/ Mark(r)
      PROVE  OneConnector'
  <2>1. /\ unread'["registration"] = unread["registration"] /\ status' = status
        /\ UNCHANGED <<sdk, holding, registry, registered>>
    BY <1>1, <1>a DEF Lookup, Insert, Mark, Announce, task_vars, obj_vars
  <2> QED BY <2>1 DEF OneConnector
<1>2. ASSUME NEW h \in Handlers, Subscribe(h) \/ EndOnLag(h)
      PROVE  OneConnector'
  <2>1. /\ UNCHANGED <<unread, sdk, holding, registry, registered>>
        /\ \/ status' = [status EXCEPT ![h] = "listening"] /\ status[h] = "absent"
           \/ status' = [status EXCEPT ![h] = "ended"] /\ status[h] = "listening"
    BY <1>2 DEF Subscribe, EndOnLag, Move, obj_vars
  <2> QED BY <1>a, <2>1 DEF OneConnector, Deaf
<1>3. ASSUME NEW h \in Handlers, Overrun(h)
      PROVE  OneConnector'
  BY <1>a, <1>3 DEF OneConnector, Overrun, obj_vars
<1>4. ASSUME NEW h \in Handlers, Receive(h), status[h] = "listening",
             UNCHANGED <<status, sdk, holding, registry>>
      PROVE  OneConnector'
  BY <1>a, <1>4 DEF OneConnector, Receive, Lagged
<1>5. ASSUME NEW h \in Connectors, Begin(h)
      PROVE  OneConnector'
  <2>1. h = "discovery"
    BY <1>a, <1>5 DEF Connectors, OneConnector, Begin, Receive, Lagged
  <2> QED BY <1>a, <1>5, <2>1 DEF OneConnector, Begin, Receive, Move, obj_vars
<1>6. ASSUME NEW h \in Connectors, Connect(h)
      PROVE  OneConnector'
  <2>1. h = "discovery" /\ registered = 0
    BY <1>a, <1>6 DEF Connectors, OneConnector, Connect, Move, Deaf
  <2>2. sdk = {} /\ registry = 0
    BY <1>a, <1>6, <2>1 DEF OneConnector, Connect, Move
  <2>3. /\ sdk' \subseteq {holding'["discovery"]} /\ registry' = 0
        /\ UNCHANGED unread /\ status'["registration"] = status["registration"]
        /\ status'["discovery"] = "connected"
    BY <1>a, <1>6, <2>1, <2>2 DEF Connect, Move
  <2> QED BY <2>1, <2>3 DEF OneConnector
<1>7. ASSUME NEW h \in Connectors, Install(h)
      PROVE  OneConnector'
  <2>1. h = "discovery" /\ registered = 0
    BY <1>a, <1>7 DEF Connectors, OneConnector, Install, Move, Deaf
  <2>2. /\ status'["discovery"] = "installed" /\ status["discovery"] = "connected"
        /\ status'["registration"] = status["registration"]
        /\ registry' = holding["discovery"] /\ UNCHANGED <<unread, sdk>>
    BY <1>a, <1>7, <2>1 DEF Install, Move
  <2> QED BY <2>1, <2>2 DEF OneConnector
<1>8. ASSUME NEW h \in Connectors, Report(h)
      PROVE  OneConnector'
  <2>1. /\ UNCHANGED <<unread, sdk, holding, registry, registered>>
        /\ status[h] = "installed" /\ status' = [status EXCEPT ![h] = "listening"]
    BY <1>8 DEF Report, Move, obj_vars
  <2> QED BY <1>a, <2>1 DEF OneConnector, Deaf
<1>9. ASSUME ConnectFails
      PROVE  OneConnector'
  BY <1>a, <1>9 DEF OneConnector, ConnectFails, Move, Deaf, obj_vars
<1>10. ASSUME Register
       PROVE  OneConnector'
  BY <1>a, <1>10 DEF Register
<1>11. CASE PollOk \/ PollFails \/ UNCHANGED vars
  BY <1>11 DEF OneConnector, PollOk, PollFails, vars, task_vars, obj_vars
<1>12. ASSUME NEW h \in Connectors, AlreadyConnected(h)
       PROVE  OneConnector'
  BY <1>4, <1>12 DEF AlreadyConnected, obj_vars, Handlers
<1>13. ASSUME TrackOnline
       PROVE  OneConnector'
  BY <1>4, <1>13 DEF TrackOnline, obj_vars, Handlers
<1> QED BY <1>1, <1>2, <1>3, <1>5, <1>6, <1>7, <1>8, <1>9, <1>10, <1>11, <1>12, <1>13
     DEF Next, Serve, Track, Work, Handlers, Connectors

\* However many requests find the terminal unknown at the same time, discovery
\* leaves one poller, the registry's or that of the object about to enter it.
THEOREM DiscoveryConnectsOnce == Spec => []OnePollerPerTerminal
<1>1. Init => OneConnector
  BY DEF Init, OneConnector, Handlers, Connectors, Deaf
<1>2. TypeOK /\ TypeOK' /\ OneConnector /\ [Next]_vars => OneConnector'
  BY StepConnector DEF PollerInv
<1>3. OneConnector => OnePollerPerTerminal
  BY DEF OneConnector, OnePollerPerTerminal, Connectors
<1> QED BY <1>1, <1>2, <1>3, PresenceTypeCorrect, PTL DEF Spec

-----------------------------------------------------------------------------
(* Registration and discovery together: at most one stray poller.          *)

\* The two tasks that connect make at most two objects between them, and once
\* one is in the registry at most one other has a poller nobody can stop.
OneStrayPoller ==
  /\ made <= 2
  /\ registry # 0 => \A o, q \in sdk \ {registry} : o = q

At(h, step) == IF status[h] = step THEN 1 ELSE 0

\* A task past the check of the registry makes one more object; none passes it
\* once the registry is filled, and until then what was made is held.
StrayInv ==
  /\ made + At("discovery", "connecting") + At("registration", "connecting") <= 2
  /\ registry = 0 => made = At("discovery", "connected") + At("registration", "connected")
  /\ \A h \in Connectors : status[h] = "connected" => holding[h] \in 1..made

\* The bound reads only what the objects are and who is connecting.
LEMMA StrayKept ==
  ASSUME made \in Nat, StrayInv, UNCHANGED obj_vars,
         \A h \in Connectors : /\ status'[h] = "connecting" => status[h] = "connecting"
                               /\ status'[h] = "connected" <=> status[h] = "connected"
  PROVE  StrayInv'
<1>1. "discovery" \in Connectors /\ "registration" \in Connectors
  BY DEF Connectors
<1>2. /\ \A h \in Connectors : At(h, "connected")' = At(h, "connected")
      /\ UNCHANGED <<made, registry, holding>>
  BY DEF At, obj_vars
<1>3. ASSUME NEW h \in Connectors
      PROVE  /\ At(h, "connecting")' \in {0, 1} /\ At(h, "connecting") \in {0, 1}
             /\ At(h, "connecting")' <= At(h, "connecting")
  BY DEF At
<1>4. (made + At("discovery", "connecting") + At("registration", "connecting") <= 2)'
  BY <1>1, <1>2, <1>3 DEF StrayInv
<1> QED BY <1>1, <1>2, <1>4 DEF StrayInv

\* Every step keeps the bound.
LEMMA StepStray ==
  ASSUME TypeOK, StrayInv, [Next]_vars
  PROVE  StrayInv'
<1>a. /\ Connectors \subseteq Handlers /\ made \in Nat
      /\ status \in [Handlers -> Steps] /\ holding \in [Connectors -> 0..made]
  BY DEF TypeOK, Handlers, Connectors
<1>1. ASSUME NEW r \in Requests, Serve(r)
      PROVE  StrayInv'
  <2>1. UNCHANGED <<status, obj_vars>>
    BY <1>1 DEF Serve, Lookup, Insert, Mark, Announce, task_vars
  <2> QED BY <1>a, <2>1, StrayKept
<1>2. ASSUME NEW h \in Handlers, NEW from \in Steps, NEW to \in Steps, Move(h, from, to),
             from # "connected", to # "connecting", to # "connected", UNCHANGED obj_vars
      PROVE  StrayInv'
  <2>1. \A g \in Connectors : /\ status'[g] = "connecting" => status[g] = "connecting"
                              /\ status'[g] = "connected" <=> status[g] = "connected"
    BY <1>a, <1>2 DEF Move
  <2> QED BY <1>a, <1>2, <2>1, StrayKept
<1>3. ASSUME NEW h \in Handlers, Subscribe(h) \/ EndOnLag(h)
      PROVE  StrayInv'
  BY <1>2, <1>3 DEF Subscribe, EndOnLag, Steps, Deaf
<1>4. ASSUME NEW h \in Connectors, Report(h)
      PROVE  StrayInv'
  BY <1>2, <1>4, <1>a DEF Report, Steps
<1>5. CASE ConnectFails
  BY <1>2, <1>5 DEF ConnectFails, Steps, Handlers, Connectors
<1>6. CASE \/ TrackOnline \/ Register \/ PollOk \/ PollFails \/ UNCHANGED vars
           \/ \E h \in Handlers : Overrun(h)
           \/ \E h \in Connectors : AlreadyConnected(h)
  <2>1. UNCHANGED <<status, obj_vars>>
    BY <1>6 DEF TrackOnline, Register, PollOk, PollFails, Overrun, AlreadyConnected, Announce, vars, task_vars
  <2> QED BY <1>a, <2>1, StrayKept
<1>7. ASSUME NEW h \in Connectors, Begin(h)
      PROVE  StrayInv'
  <2>1. CASE h = "discovery"
    BY <1>a, <1>7, <2>1 DEF Begin, Move, StrayInv, At, Connectors, obj_vars
  <2>2. CASE h = "registration"
    BY <1>a, <1>7, <2>2 DEF Begin, Move, StrayInv, At, Connectors, obj_vars
  <2> QED BY <2>1, <2>2 DEF Connectors
<1>8. ASSUME NEW h \in Connectors, Connect(h)
      PROVE  StrayInv'
  <2>1. CASE h = "discovery"
    BY <1>a, <1>8, <2>1 DEF Connect, Move, StrayInv, At, Connectors
  <2>2. CASE h = "registration"
    BY <1>a, <1>8, <2>2 DEF Connect, Move, StrayInv, At, Connectors
  <2> QED BY <2>1, <2>2 DEF Connectors
<1>9. ASSUME NEW h \in Connectors, Install(h)
      PROVE  StrayInv'
  <2>1. CASE h = "discovery"
    BY <1>a, <1>9, <2>1 DEF Install, Move, StrayInv, At, Connectors
  <2>2. CASE h = "registration"
    BY <1>a, <1>9, <2>2 DEF Install, Move, StrayInv, At, Connectors
  <2> QED BY <2>1, <2>2 DEF Connectors
<1> QED BY <1>1, <1>3, <1>4, <1>5, <1>6, <1>7, <1>8, <1>9
     DEF Next, Track, Work, Connectors, Handlers

\* However often the terminal is discovered and registered at once, connecting
\* it leaves at most one poller beside that of the registry: Begin's check and
\* Install's insert are not atomic, but only the two tasks can fall between them.
THEOREM StrayPollersBounded == Spec => []OneStrayPoller
<1>1. Init => StrayInv
  BY DEF Init, StrayInv, At, Handlers, Connectors
<1>2. TypeOK /\ StrayInv /\ [Next]_vars => StrayInv'
  BY StepStray
<1>3. TypeOK /\ StrayInv => OneStrayPoller
  <2> SUFFICES ASSUME TypeOK, StrayInv PROVE OneStrayPoller
    OBVIOUS
  <2>1. made \in Nat /\ sdk \subseteq 1..made /\ registry \in 0..made
    BY DEF TypeOK
  <2>2. made <= 2
    BY <2>1 DEF StrayInv, At
  <2>3. sdk \subseteq {1, 2} /\ (registry # 0 => registry \in {1, 2})
    BY <2>1, <2>2
  <2> QED BY <2>2, <2>3 DEF OneStrayPoller
<1> QED BY <1>1, <1>2, <1>3, PresenceTypeCorrect, PTL DEF Spec
===============================================================================
