---------------------------- MODULE DevicePresence ----------------------------
(***************************************************************************)
(* How one terminal becomes known, connected and shown as such:            *)
(*   ADMS requests    crates/timekeep-zkteco/src/adms/mod.rs               *)
(*   bus subscribers  crates/timekeep-app/src/wiring/device_connect.rs     *)
(*   connect()        crates/timekeep-zkteco/src/lib.rs                    *)
(*   what the API shows  crates/timekeep-api/src/app_state.rs              *)
(*   order of startup    crates/timekeep-app/src/wiring/composition.rs     *)
(* Concurrent requests of the terminal, three tasks that read the event    *)
(* bus, and the poll loop share the ADMS registry, the device registry and *)
(* the connection state.  Each task cares for one kind of event, so its    *)
(* receiver is the number of those it has not read.                        *)
(***************************************************************************)
EXTENDS Integers

CONSTANTS
  Requests,          \* ADMS requests of the terminal that may run at once
  MaxRegistrations,  \* bound: POST /api/devices for this terminal
  Lossy              \* whether a receiver can be overrun by other events

ASSUME PresenceAssumption == MaxRegistrations \in Nat /\ Lossy \in BOOLEAN

\* The tasks, named for what they do; the event each waits for is DeviceOnline,
\* DeviceDiscovered and DeviceRegistered.
Connectors == {"discovery", "registration"}
Handlers   == {"tracker"} \cup Connectors

VARIABLES
  adms,        \* AdmsServer.devices[sn]: none, or its is_online flag
  pc,          \* where each request is in resolve_device and mark_device_active
  status,      \* where each task is
  unread,      \* events of its kind in the task's receiver, or Lagged
  missed,      \* history: an event was published while the task did not listen, or overwritten
  made,        \* ZkTecoDevice objects created
  sdk,         \* the objects whose connect() reached the SDK: their poller runs
  holding,     \* the object a task has connected and not yet inserted
  registry,    \* DeviceRegistry: the object of this terminal, or 0
  conn,        \* DeviceConnInfo: which of adms_active and sdk_active are set
  dropped,     \* history: set_disconnected was called
  registered   \* DeviceRegistered events published

adms_vars == <<adms, pc>>
task_vars == <<status, unread, missed>>
obj_vars  == <<made, sdk, holding, registry>>
vars == <<adms_vars, task_vars, obj_vars, conn, dropped, registered>>

Lagged == -1

Deaf == {"absent", "ended"}

Steps == Deaf \cup {"listening", "connecting", "connected", "installed"}

TypeOK ==
  /\ adms \in {"none", "offline", "online"}
  /\ pc \in [Requests -> {"idle", "missing", "found"}]
  /\ status \in [Handlers -> Steps]
  /\ unread \in [Handlers -> Nat \cup {Lagged}]
  /\ missed \in [Handlers -> BOOLEAN]
  /\ made \in Nat
  /\ sdk \subseteq 1..made
  /\ holding \in [Connectors -> 0..made]
  /\ registry \in 0..made
  /\ conn \subseteq {"adms", "sdk"}
  /\ dropped \in BOOLEAN
  /\ registered \in 0..MaxRegistrations

\* connect_devices ran before the ADMS server was started and any task had
\* subscribed: the terminal is unknown, or was connected from its stored
\* configuration, with or without SDK and, if push is enabled, with ADMS state.
Init ==
  /\ \/ made = 0 /\ sdk = {} /\ adms = "none"
     \/ made = 1 /\ sdk \in SUBSET {1} /\ adms = "offline"
     \/ made = 1 /\ sdk = {1} /\ adms = "none"
  /\ registry = made
  /\ conn = IF made = 1 THEN {"adms"} ELSE {}
  /\ pc = [r \in Requests |-> "idle"]
  /\ status = [h \in Handlers |-> "absent"]
  /\ unread = [h \in Handlers |-> 0]
  /\ missed = [h \in Handlers |-> FALSE]
  /\ holding = [h \in Connectors |-> 0]
  /\ dropped = FALSE
  /\ registered = 0

\* EventBus::publish of the event h waits for.
Announce(h) ==
  /\ unread' = IF status[h] \in Deaf \/ unread[h] = Lagged THEN unread
               ELSE [unread EXCEPT ![h] = @ + 1]
  /\ missed' = [missed EXCEPT ![h] = @ \/ status[h] \in Deaf]
  /\ UNCHANGED status

Move(h, from, to) == status[h] = from /\ status' = [status EXCEPT ![h] = to]

-----------------------------------------------------------------------------
(* A request of the terminal: every ADMS handler starts with these steps.  *)

Lookup(r) ==
  /\ pc[r] = "idle"
  /\ pc' = [pc EXCEPT ![r] = IF adms = "none" THEN "missing" ELSE "found"]
  /\ UNCHANGED <<adms, task_vars, obj_vars, conn, dropped, registered>>

\* Mutant: an unknown terminal is stored and not announced.
InsertSilently(r) ==
  /\ pc[r] = "missing"
  /\ pc' = [pc EXCEPT ![r] = "found"]
  /\ adms' = "offline"
  /\ UNCHANGED <<task_vars, obj_vars, conn, dropped, registered>>

\* Mutant: the fresh state is born online.
InsertOnline(r) ==
  /\ pc[r] = "missing"
  /\ pc' = [pc EXCEPT ![r] = "found"]
  /\ adms' = "online"
  /\ Announce("discovery")
  /\ UNCHANGED <<obj_vars, conn, dropped, registered>>

\* The fresh state replaces what another request inserted since the lookup.
Insert(r) ==
  /\ pc[r] = "missing"
  /\ pc' = [pc EXCEPT ![r] = "found"]
  /\ adms' = "offline"
  /\ Announce("discovery")
  /\ UNCHANGED <<obj_vars, conn, dropped, registered>>

Mark(r) ==
  /\ pc[r] = "found"
  /\ pc' = [pc EXCEPT ![r] = "idle"]
  /\ adms' = "online"
  /\ IF adms = "online" THEN UNCHANGED task_vars ELSE Announce("tracker")
  /\ UNCHANGED <<obj_vars, conn, dropped, registered>>

-----------------------------------------------------------------------------
(* The tasks.  They subscribe in this order, after the server has started. *)

Subscribe(h) ==
  /\ h = "tracker" => status["registration"] # "absent"
  /\ h = "discovery" => status["tracker"] # "absent"
  /\ Move(h, "absent", "listening")
  /\ UNCHANGED <<adms_vars, unread, missed, obj_vars, conn, dropped, registered>>

\* A burst of other events, such as the records of a polled log, passes the
\* channel's capacity.
Overrun(h) ==
  /\ Lossy /\ status[h] \notin Deaf
  /\ unread' = [unread EXCEPT ![h] = Lagged]
  /\ missed' = [missed EXCEPT ![h] = TRUE]
  /\ UNCHANGED <<adms_vars, status, obj_vars, conn, dropped, registered>>

\* while let Ok(event): RecvError::Lagged ends the loop.
EndOnLag(h) ==
  /\ unread[h] = Lagged
  /\ Move(h, "listening", "ended")
  /\ UNCHANGED <<adms_vars, unread, missed, obj_vars, conn, dropped, registered>>

\* Mutant: the task takes an event whether or not there is one.
ReceiveAny(h) ==
  /\ unread' = [unread EXCEPT ![h] = @ - 1]
  /\ UNCHANGED <<adms_vars, missed, dropped, registered>>

Receive(h) ==
  /\ unread[h] > 0
  /\ unread' = [unread EXCEPT ![h] = @ - 1]
  /\ UNCHANGED <<adms_vars, missed, dropped, registered>>

TrackOnline ==
  /\ status["tracker"] = "listening"
  /\ Receive("tracker")
  /\ conn' = conn \cup {"adms"}
  /\ UNCHANGED <<status, obj_vars>>

\* The registry knows the terminal: the event is skipped.
AlreadyConnected(h) ==
  /\ status[h] = "listening" /\ registry # 0
  /\ Receive(h)
  /\ UNCHANGED <<status, obj_vars, conn>>

\* Mutant: the check of the registry is left out.
BeginUnchecked(h) ==
  /\ Move(h, "listening", "connecting")
  /\ Receive(h)
  /\ UNCHANGED <<obj_vars, conn>>

\* The registry's lock is released before connect().
Begin(h) ==
  /\ registry = 0
  /\ Move(h, "listening", "connecting")
  /\ Receive(h)
  /\ UNCHANGED <<obj_vars, conn>>

\* connect() with the SDK reachable, which spawns the poller, or with push only.
Connect(h) ==
  /\ Move(h, "connecting", "connected")
  /\ made' = made + 1
  /\ holding' = [holding EXCEPT ![h] = made + 1]
  /\ sdk' \in {sdk, sdk \cup {made + 1}}
  /\ UNCHANGED <<adms_vars, unread, missed, registry, conn, dropped, registered>>

\* No stored configuration, or neither push nor SDK.  A discovered terminal
\* always has push.
ConnectFails ==
  /\ Move("registration", "connecting", "listening")
  /\ UNCHANGED <<adms_vars, unread, missed, obj_vars, conn, dropped, registered>>

\* Users and clock are synchronised; the object the insert replaces is dropped,
\* and with it the sender its poller waits on, but not the poller.
Install(h) ==
  /\ Move(h, "connected", "installed")
  /\ registry' = holding[h]
  /\ holding' = [holding EXCEPT ![h] = 0]
  /\ UNCHANGED <<adms_vars, unread, missed, made, sdk, conn, dropped, registered>>

Report(h) ==
  /\ Move(h, "installed", "listening")
  /\ conn' = conn \cup {"adms"}
  /\ UNCHANGED <<adms_vars, unread, missed, obj_vars, dropped, registered>>

-----------------------------------------------------------------------------
(* The API and the poll loop.                                              *)

Register ==
  /\ registered < MaxRegistrations
  /\ registered' = registered + 1
  /\ Announce("registration")
  /\ UNCHANGED <<adms_vars, obj_vars, conn, dropped>>

PollOk ==
  /\ registry \in sdk
  /\ conn' = conn \cup {"sdk"}
  /\ UNCHANGED <<adms_vars, task_vars, obj_vars, dropped, registered>>

\* The object has no SDK session, or the session fails.
PollFails ==
  /\ registry # 0
  /\ conn' = {}
  /\ dropped' = TRUE
  /\ UNCHANGED <<adms_vars, task_vars, obj_vars, registered>>

-----------------------------------------------------------------------------
Serve(r) == Lookup(r) \/ Insert(r) \/ Mark(r)

Track == TrackOnline \/ EndOnLag("tracker")

Work(h) ==
  \/ EndOnLag(h) \/ AlreadyConnected(h) \/ Begin(h)
  \/ Connect(h) \/ Install(h) \/ Report(h)

Next ==
  \/ \E r \in Requests : Serve(r)
  \/ \E h \in Handlers : Subscribe(h) \/ Overrun(h)
  \/ Track
  \/ \E h \in Connectors : Work(h)
  \/ ConnectFails \/ Register \/ PollOk \/ PollFails

Spec == Init /\ [][Next]_vars

\* The terminal sends its requests every few seconds, tasks that are ready are
\* polled, connect() has a timeout, the poll loop ticks.
Fairness ==
  /\ \A r \in Requests : WF_vars(Serve(r))
  /\ \A h \in Handlers : WF_vars(Subscribe(h))
  /\ WF_vars(Track) /\ WF_vars(Work("discovery"))
  /\ WF_vars(Work("registration") \/ ConnectFails)
  /\ WF_vars(PollOk \/ PollFails)

FairSpec == Spec /\ Fairness

-----------------------------------------------------------------------------
(* Properties.                                                             *)

\* DeviceOnline is published on the change of is_online only, once for all: a
\* terminal whose flag is set is shown as connected, or the event that will do
\* it is still unread, although requests race to insert its state and only one
\* of them publishes.  (A tracker that missed events, or a failed poll, are the
\* two ways out: the flag is never cleared.)
OnlineIsShown ==
  adms = "online" /\ ~missed["tracker"] /\ ~dropped
    => "adms" \in conn \/ unread["tracker"] > 0

\* Discovery by itself connects a terminal once, however many requests find it
\* unknown at the same time: every running poller belongs to the object in the
\* registry or to one about to be inserted.
OnePollerPerTerminal ==
  registered = 0 => \A o \in sdk : o = registry \/ \E h \in Connectors : holding[h] = o

\* adms/mod.rs:259, unknown terminals that push appear without being created: a
\* terminal the ADMS server knows gets into the registry, if the discovery task
\* was there to hear of it.
DiscoveredIsConnected ==
  []~missed["discovery"] => (adms # "none" ~> registry # 0)

-----------------------------------------------------------------------------
(* What the documentation says and the code does not keep.                 *)

\* adms/mod.rs:234 mark_device_active publishes DeviceOnline "so that
\* DeviceConnectionState (in the API layer) can track the device's connection
\* health": a terminal that goes on sending requests is shown as connected
\* again after a failed poll.
ShownAgain == dropped /\ conn = {} ~> conn # {}
===============================================================================
