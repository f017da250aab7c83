------------------------------ MODULE Monitord ------------------------------
(***************************************************************************)
(* The monitor daemon (`pam-certauth daemon`): the state-manager task that *)
(* serialises IPC requests, udev events and logind signals (state.rs), the *)
(* grace-timer tasks it spawns, the action runner (actions.rs), the        *)
(* persisted registry (registry/store.rs), the two forwarders that feed it *)
(* (udev_monitor.rs, logind/listener.rs), and its loss and restart.        *)
(*                                                                         *)
(* The state manager drains one queue fed by independent tasks.  Each      *)
(* source is FIFO, and sources interleave freely, so every source keeps    *)
(* its own queue here and the manager takes the head of any of them.       *)
(***************************************************************************)
EXTENDS SessionRegistry, Sequences

CONSTANTS
    Client,        \* IPC connections: one call in flight on each
    Nobody,        \* the client of a request whose caller gave up
    TimerId,       \* slots for grace-timer tasks
    NoToken,       \* a serial absent from grace_tokens
    NoTimer,       \* a free timer slot
    Idle,          \* the action runner is waiting for a request
    OnUsbRemoved,  \* the configured action
    Requests,      \* the requests clients send
    Disturbances,  \* the disturbances of the daemon a behaviour may contain
    MaxPending,    \* bound on undelivered events of one source
    MaxActions     \* bound on action requests not yet taken by the runner

ASSUME MonitordConstants ==
    /\ Nobody \notin Client
    /\ NoToken \notin TimerId
    /\ OnUsbRemoved \in {"Lock", "Logout", "Hook", "Shutdown"}
    /\ MaxPending \in Nat \ {0}
    /\ MaxActions \in Nat \ {0}
    /\ Idle \notin ActiveSession

Timer == [serial    : Serial,
          sessions  : SUBSET ActiveSession,   \* snapshot taken at Remove
          left      : SUBSET ActiveSession,   \* snapshot not yet dispatched
          phase     : {"sleeping", "due", "firing"},
          cancelled : BOOLEAN]                \* the token was cancelled

ASSUME TimerConstants == NoTimer \notin Timer

OpenReq == [op : {"SessionOpen"}, session : ActiveSession]
CloseReq == [op : {"SessionClose"}, id : SessionId]
UpdateReq ==
    [op : {"UpdateSessionTarget"}, id : SessionId, target : LogindId \cup {NoLogind}]
LookupReq == [op : {"GetActiveSessionByUid"}, uid : Uid \cup {UnknownUid}]
Request == OpenReq \cup CloseReq \cup UpdateReq \cup LookupReq

\* What a call returns to the client library; "Unavailable" is EOF or a
\* refused connect, "Timeout" the client's own read timeout.
Reply ==
    {"Ack", "Updated", "Found", "DEVICE_GONE", "BAD_REQUEST",
     "NO_ACTIVE_SESSION", "INTERNAL", "Unavailable", "Timeout"}

ASSUME RequestsAssumption == Requests \subseteq Request

VARIABLES
    up,             \* the daemon process is running
    by_id, by_uid,  \* SessionRegistry
    disk,           \* the sessions in sessions.json
    disk_current,   \* history: the last load or persist succeeded
    inbox,          \* IPC requests the manager has not handled
    chan,           \* per client: "idle", "waiting" or the call's result
    plugged,        \* serials physically present
    udevQ,          \* per serial: udev events not yet handled
    udev_up,        \* the udev monitor socket is open
    missed,         \* history: serials whose last removal monitord could not see through
    logind,         \* live logind sessions
    asleep,         \* the host is suspending or suspended
    sleepQ,         \* PrepareForSleep signals not yet handled
    removedQ,       \* SessionRemoved signals not yet handled
    listener_up,    \* the logind listener task is running
    suspend_state,  \* SuspendState
    grace_tokens,   \* per serial: the timer its CancellationToken controls
    timers,         \* grace-timer tasks
    actions,        \* ActionRequest channel
    runner          \* the session the action runner is acting on

regVars    == <<by_id, by_uid>>
diskVars   == <<disk, disk_current>>
ipcVars    == <<inbox, chan>>
udevVars   == <<plugged, udevQ, udev_up>>
logindVars == <<logind, asleep, sleepQ, removedQ, listener_up>>
timerVars  == <<grace_tokens, timers>>
actionVars == <<actions, runner>>
vars == <<up, regVars, diskVars, ipcVars, udevVars, missed, logindVars,
          suspend_state, timerVars, actionVars>>

Init ==
    /\ up = TRUE
    /\ by_id = EmptyById
    /\ by_uid = EmptyByUid
    /\ disk = EmptyById
    /\ disk_current = TRUE
    /\ inbox = {}
    /\ chan = [c \in Client |-> "idle"]
    /\ plugged = {}
    /\ udevQ = [x \in Serial |-> << >>]
    /\ udev_up = TRUE
    /\ missed = {}
    /\ logind = LogindId
    /\ asleep = FALSE
    /\ sleepQ = << >>
    /\ removedQ = {}
    /\ listener_up = TRUE
    /\ suspend_state = "Awake"
    /\ grace_tokens = [x \in Serial |-> NoToken]
    /\ timers = [t \in TimerId |-> NoTimer]
    /\ actions = << >>
    /\ runner = Idle

-----------------------------------------------------------------------------
(* IPC: connect-per-call clients, one request in flight per connection.    *)

\* A client connects, shakes hands and writes one request.
SendRequest(c, req) ==
    /\ chan[c] = "idle"
    /\ up
    /\ chan' = [chan EXCEPT ![c] = "waiting"]
    /\ inbox' = inbox \cup {[client |-> c, req |-> req]}
    /\ UNCHANGED <<up, regVars, diskVars, udevVars, missed, logindVars,
                   suspend_state, timerVars, actionVars>>

\* connect(2) fails while no daemon listens on the socket.
ConnectRefused(c) ==
    /\ chan[c] = "idle"
    /\ ~up
    /\ chan' = [chan EXCEPT ![c] = "Unavailable"]
    /\ UNCHANGED <<up, regVars, diskVars, inbox, udevVars, missed, logindVars,
                   suspend_state, timerVars, actionVars>>

\* await_reply gives up after 5 s (INTERNAL), or the client's read timeout
\* fires first; the queued request stays and will still be handled.
CallTimesOut(c) ==
    /\ chan[c] = "waiting"
    /\ chan' \in {[chan EXCEPT ![c] = r] : r \in {"INTERNAL", "Timeout"}}
    /\ inbox' = {IF m.client = c THEN [m EXCEPT !.client = Nobody] ELSE m : m \in inbox}
    /\ UNCHANGED <<up, regVars, diskVars, udevVars, missed, logindVars,
                   suspend_state, timerVars, actionVars>>

\* The caller takes the result and drops the connection.
TakeResult(c) ==
    /\ chan[c] \in Reply
    /\ chan' = [chan EXCEPT ![c] = "idle"]
    /\ UNCHANGED <<up, regVars, diskVars, inbox, udevVars, missed, logindVars,
                   suspend_state, timerVars, actionVars>>

\* reply.send(msg): a caller that gave up has dropped its end.
SendReply(m, msg) ==
    /\ inbox' = inbox \ {m}
    /\ chan' = IF m.client = Nobody THEN chan ELSE [chan EXCEPT ![m.client] = msg]

\* persist_async of the new by_id: best effort.  A failed persist leaves the
\* old file, except that a failed directory fsync comes after the rename.
PersistAsync ==
    \/ /\ disk' = by_id'
       /\ disk_current' = TRUE
    \/ /\ "persist_failure" \in Disturbances
       /\ disk' \in {disk, by_id'}
       /\ disk_current' = FALSE

\* Mutant: the SessionOpen-vs-Remove check is skipped.
SerialUnchecked(s) == TRUE

\* udev_query.is_serial_present, asked only for a session with a serial.
SerialPresent(s) == s.usb_serial \in plugged \cup {NoSerial}

\* IpcRequest::SessionOpen, device present (or no serial): add, persist, Ack.
HandleSessionOpen(m) ==
    /\ up
    /\ m \in inbox
    /\ m.req.op = "SessionOpen"
    /\ LET s == m.req.session IN
       /\ SerialPresent(s)
       /\ by_id' = AddById(by_id, s)
       /\ by_uid' = AddByUid(by_id, by_uid, s)
    /\ PersistAsync
    /\ SendReply(m, "Ack")
    /\ UNCHANGED <<up, udevVars, missed, logindVars, suspend_state, timerVars,
                   actionVars>>

\* IpcRequest::SessionOpen refused: is_serial_present is false, because the
\* device is gone or because the udev enumeration itself failed.
RefuseSessionOpen(m) ==
    /\ up
    /\ m \in inbox
    /\ m.req.op = "SessionOpen"
    /\ m.req.session.usb_serial # NoSerial
    /\ SendReply(m, "DEVICE_GONE")
    /\ UNCHANGED <<up, regVars, diskVars, udevVars, missed, logindVars,
                   suspend_state, timerVars, actionVars>>

\* IpcRequest::SessionClose: remove, persist, Ack, whether or not the id was
\* tracked; a grace timer that holds the session is left running.
HandleSessionClose(m) ==
    /\ up
    /\ m \in inbox
    /\ m.req.op = "SessionClose"
    /\ by_id' = RemoveById(by_id, {m.req.id})
    /\ by_uid' = RemoveByUid(by_id, by_uid, {m.req.id})
    /\ PersistAsync
    /\ SendReply(m, "Ack")
    /\ UNCHANGED <<up, udevVars, missed, logindVars, suspend_state, timerVars,
                   actionVars>>

\* IpcRequest::UpdateSessionTarget
HandleUpdateSessionTarget(m) ==
    /\ up
    /\ m \in inbox
    /\ m.req.op = "UpdateSessionTarget"
    /\ IF m.req.id \in Tracked(by_id)
       THEN /\ by_id' = UpdateTarget(by_id, m.req.id, m.req.target)
            /\ PersistAsync
            /\ SendReply(m, "Updated")
       ELSE /\ SendReply(m, "BAD_REQUEST")
            /\ UNCHANGED <<by_id, diskVars>>
    /\ UNCHANGED <<up, by_uid, udevVars, missed, logindVars, suspend_state,
                   timerVars, actionVars>>

\* IpcRequest::GetActiveSessionByUid
HandleGetActiveSessionByUid(m) ==
    /\ up
    /\ m \in inbox
    /\ m.req.op = "GetActiveSessionByUid"
    /\ SendReply(m, IF FindByUid(by_id, by_uid, m.req.uid) = NoSession
                    THEN "NO_ACTIVE_SESSION" ELSE "Found")
    /\ UNCHANGED <<up, regVars, diskVars, udevVars, missed, logindVars,
                   suspend_state, timerVars, actionVars>>

-----------------------------------------------------------------------------
(* USB devices and the udev monitor thread.                                *)

Repeat(n, e) == [i \in 1 .. n |-> e]

\* The device shows up; every block node of it (disk, partitions) raises one
\* event with the same serial, and events reach an open monitor in order.
DevicePlugged(x, nodes) ==
    /\ x \notin plugged
    /\ Len(udevQ[x]) + nodes <= MaxPending
    /\ plugged' = plugged \cup {x}
    /\ IF up /\ udev_up
       THEN /\ udevQ' = [udevQ EXCEPT ![x] = @ \o Repeat(nodes, "add")]
            /\ missed' = missed \ {x}
       ELSE /\ missed' = missed \cup {x}
            /\ UNCHANGED udevQ
    /\ UNCHANGED <<up, regVars, diskVars, ipcVars, udev_up, logindVars,
                   suspend_state, timerVars, actionVars>>

DeviceUnplugged(x, nodes) ==
    /\ x \in plugged
    /\ Len(udevQ[x]) + nodes <= MaxPending
    /\ plugged' = plugged \ {x}
    /\ IF up /\ udev_up
       THEN /\ udevQ' = [udevQ EXCEPT ![x] = @ \o Repeat(nodes, "remove")]
            /\ UNCHANGED missed
       ELSE /\ missed' = missed \cup {x}
            /\ UNCHANGED udevQ
    /\ UNCHANGED <<up, regVars, diskVars, ipcVars, udev_up, logindVars,
                   suspend_state, timerVars, actionVars>>

\* run_monitor returns an error: the socket is dropped with the events still
\* in it; those already sent to the channel survive.
UdevMonitorFails(kept) ==
    /\ up
    /\ udev_up
    /\ \A x \in Serial : kept[x] <= Len(udevQ[x])
    /\ udev_up' = FALSE
    /\ udevQ' = [x \in Serial |-> SubSeq(udevQ[x], 1, kept[x])]
    /\ missed' = missed \cup {x \in Serial : kept[x] < Len(udevQ[x])}
    /\ UNCHANGED <<up, regVars, diskVars, ipcVars, plugged, logindVars,
                   suspend_state, timerVars, actionVars>>

\* spawn_udev_thread: one second later a fresh socket is opened.  Nothing
\* reconciles it with what happened in between.
UdevMonitorRetries ==
    /\ up
    /\ ~udev_up
    /\ udev_up' = TRUE
    /\ UNCHANGED <<up, regVars, diskVars, ipcVars, plugged, udevQ, missed,
                   logindVars, suspend_state, timerVars, actionVars>>

-----------------------------------------------------------------------------
(* handle_udev                                                             *)

\* Mutant: the window opens with the resume only.
InResumeWindow == suspend_state = "ResumedAt"

\* is_in_grace_window
InGraceWindow == suspend_state \in {"SuspendingAt", "ResumedAt"}

Spent(timer) == timer.phase = "firing" /\ timer.left = {}

\* grace_tokens.contains_key(serial)
TokenHeld(x) == grace_tokens[x] # NoToken

\* grace_tokens.remove(serial)
DropToken(x) == [grace_tokens EXCEPT ![x] = NoToken]

\* grace_tokens.drain()
DrainTokens == [x \in Serial |-> NoToken]

\* Mutant: the token is dropped but not cancelled.
NotCancelled(ts) == timers

\* token.cancel(): the task of a spent timer is already gone.
Cancelled(ts) ==
    [t \in TimerId |->
        IF t \notin ts \/ timers[t] = NoTimer THEN timers[t]
        ELSE IF Spent(timers[t]) THEN NoTimer
        ELSE [timers[t] EXCEPT !.cancelled = TRUE]]

NewTimer(x, sessions) ==
    [serial |-> x, sessions |-> sessions, left |-> sessions,
     phase |-> "sleeping", cancelled |-> FALSE]

\* UdevAction::Remove that starts no timer: suppressed around a suspend, no
\* session on the serial, or a token already there (hub-disconnect dedup).
IgnoreUdevRemove(x) ==
    /\ up
    /\ udevQ[x] # << >>
    /\ Head(udevQ[x]) = "remove"
    /\ \/ InGraceWindow
       \/ FindBySerial(by_id, x) = {}
       \/ TokenHeld(x)
    /\ udevQ' = [udevQ EXCEPT ![x] = Tail(@)]
    /\ missed' = IF InGraceWindow THEN missed \cup {x} ELSE missed
    /\ UNCHANGED <<up, regVars, diskVars, ipcVars, plugged, udev_up, logindVars,
                   suspend_state, timerVars, actionVars>>

\* UdevAction::Remove that arms a timer over a snapshot of the sessions.
ArmGraceTimer(x, t) ==
    /\ up
    /\ udevQ[x] # << >>
    /\ Head(udevQ[x]) = "remove"
    /\ ~InGraceWindow
    /\ FindBySerial(by_id, x) # {}
    /\ ~TokenHeld(x)
    /\ timers[t] = NoTimer
    /\ udevQ' = [udevQ EXCEPT ![x] = Tail(@)]
    /\ grace_tokens' = [grace_tokens EXCEPT ![x] = t]
    /\ timers' = [timers EXCEPT ![t] = NewTimer(x, FindBySerial(by_id, x))]
    /\ UNCHANGED <<up, regVars, diskVars, ipcVars, plugged, udev_up, missed,
                   logindVars, suspend_state, actionVars>>

\* UdevAction::Add: drop and cancel the token of the serial.
HandleUdevAdd(x) ==
    /\ up
    /\ udevQ[x] # << >>
    /\ Head(udevQ[x]) = "add"
    /\ udevQ' = [udevQ EXCEPT ![x] = Tail(@)]
    /\ grace_tokens' = DropToken(x)
    /\ timers' = Cancelled({grace_tokens[x]})
    /\ UNCHANGED <<up, regVars, diskVars, ipcVars, plugged, udev_up, missed,
                   logindVars, suspend_state, actionVars>>

-----------------------------------------------------------------------------
(* logind and handle_logind                                                *)

\* logind announces a suspend or a resume.
SleepSignal ==
    /\ Len(sleepQ) < MaxPending
    /\ asleep' = ~asleep
    /\ sleepQ' = IF up /\ listener_up
                 THEN Append(sleepQ, IF asleep THEN "resume" ELSE "sleep")
                 ELSE sleepQ
    /\ UNCHANGED <<up, regVars, diskVars, ipcVars, udevVars, missed, logind,
                   removedQ, listener_up, suspend_state, timerVars, actionVars>>

\* The logind session l is over: SessionRemoved is broadcast.
LogindSessionEnds(l) ==
    /\ l \in logind
    /\ logind' = logind \ {l}
    /\ removedQ' = IF up /\ listener_up THEN removedQ \cup {l} ELSE removedQ
    /\ UNCHANGED <<up, regVars, diskVars, ipcVars, udevVars, missed, asleep,
                   sleepQ, listener_up, suspend_state, timerVars, actionVars>>

\* The listener task exits on a bus error and nothing restarts it; signals it
\* had not forwarded are lost.
ListenerExits(n, lost) ==
    /\ up
    /\ listener_up
    /\ n <= Len(sleepQ)
    /\ lost \subseteq removedQ
    /\ listener_up' = FALSE
    /\ sleepQ' = SubSeq(sleepQ, 1, n)
    /\ removedQ' = removedQ \ lost
    /\ UNCHANGED <<up, regVars, diskVars, ipcVars, udevVars, missed, logind,
                   asleep, suspend_state, timerVars, actionVars>>

\* LogindSignal::PrepareForSleep(true): every pending timer is cancelled.
HandleSuspend ==
    /\ up
    /\ sleepQ # << >>
    /\ Head(sleepQ) = "sleep"
    /\ sleepQ' = Tail(sleepQ)
    /\ suspend_state' = "SuspendingAt"
    /\ grace_tokens' = DrainTokens
    /\ timers' = Cancelled({grace_tokens[x] : x \in Serial})
    /\ missed' = missed \cup {x \in Serial : TokenHeld(x)}
    /\ UNCHANGED <<up, regVars, diskVars, ipcVars, udevVars, logind, asleep,
                   removedQ, listener_up, actionVars>>

\* LogindSignal::PrepareForSleep(false)
HandleResume ==
    /\ up
    /\ sleepQ # << >>
    /\ Head(sleepQ) = "resume"
    /\ sleepQ' = Tail(sleepQ)
    /\ suspend_state' = "ResumedAt"
    /\ UNCHANGED <<up, regVars, diskVars, ipcVars, udevVars, missed, logind,
                   asleep, removedQ, listener_up, timerVars, actionVars>>

\* suspend_grace_seconds have elapsed since the resume: from here on
\* is_in_grace_window answers as it does for Awake.
SuspendGraceElapses ==
    /\ suspend_state = "ResumedAt"
    /\ suspend_state' = "Awake"
    /\ UNCHANGED <<up, regVars, diskVars, ipcVars, udevVars, missed, logindVars,
                   timerVars, actionVars>>

\* Mutant: removals reported by logind are not written back.
RemovalsNotPersisted(ids) == UNCHANGED diskVars

\* Nothing is written when no session had that logind id.
PersistRemovals(ids) == IF ids = {} THEN UNCHANGED diskVars ELSE PersistAsync

\* LogindSignal::SessionRemoved: drop every session with that logind id and
\* persist.
HandleSessionRemoved(l) ==
    /\ up
    /\ l \in removedQ
    /\ removedQ' = removedQ \ {l}
    /\ LET ids == FindByLogind(by_id, l) IN
       /\ by_id' = RemoveById(by_id, ids)
       /\ by_uid' = RemoveByUid(by_id, by_uid, ids)
       /\ PersistRemovals(ids)
    /\ UNCHANGED <<up, ipcVars, udevVars, missed, logind, asleep, sleepQ,
                   listener_up, suspend_state, timerVars, actionVars>>

-----------------------------------------------------------------------------
(* Grace-timer tasks: select! { sleep(grace) => dispatch, cancelled() => }  *)

\* grace_seconds have passed on the timer's clock.
GraceElapses(t) ==
    /\ timers[t] # NoTimer
    /\ timers[t].phase = "sleeping"
    /\ timers' = [timers EXCEPT ![t].phase = "due"]
    /\ UNCHANGED <<up, regVars, diskVars, ipcVars, udevVars, missed, logindVars,
                   suspend_state, grace_tokens, actionVars>>

\* Mutant: the task takes its own entry in grace_tokens for a cancellation.
GraceExpiresIfDropped(t) ==
    /\ timers[t] # NoTimer
    /\ timers[t].phase = "due"
    /\ ~TokenHeld(timers[t].serial)
    /\ timers' = [timers EXCEPT ![t].phase = "firing"]
    /\ UNCHANGED <<up, regVars, diskVars, ipcVars, udevVars, missed, logindVars,
                   suspend_state, grace_tokens, actionVars>>

\* The task is polled with the sleep ready.  select! is not biased: with the
\* token cancelled as well, either branch may be taken.
GraceExpires(t) ==
    /\ timers[t] # NoTimer
    /\ timers[t].phase = "due"
    /\ timers' = [timers EXCEPT ![t].phase = "firing"]
    /\ UNCHANGED <<up, regVars, diskVars, ipcVars, udevVars, missed, logindVars,
                   suspend_state, grace_tokens, actionVars>>

\* The task is polled with the token cancelled.
GraceCancelled(t) ==
    /\ timers[t] # NoTimer
    /\ timers[t].phase \in {"sleeping", "due"}
    /\ timers[t].cancelled
    /\ timers' = [timers EXCEPT ![t] = NoTimer]
    /\ UNCHANGED <<up, regVars, diskVars, ipcVars, udevVars, missed, logindVars,
                   suspend_state, grace_tokens, actionVars>>

\* A task whose token is gone ends with its last request; otherwise the spent
\* timer stays reachable through its token.
AfterDispatch(timer, s) ==
    IF timer.cancelled /\ timer.left = {s} THEN NoTimer
    ELSE [timer EXCEPT !.left = timer.left \ {s}]

\* One turn of the dispatch loop.  The snapshot is sent as it was taken, and
\* the token of an expired timer stays in grace_tokens.
DispatchAction(t, s) ==
    /\ timers[t] # NoTimer
    /\ timers[t].phase = "firing"
    /\ s \in timers[t].left
    /\ Len(actions) < MaxActions
    /\ actions' = Append(actions, s)
    /\ timers' = [timers EXCEPT ![t] = AfterDispatch(timers[t], s)]
    /\ UNCHANGED <<up, regVars, diskVars, ipcVars, udevVars, missed, logindVars,
                   suspend_state, grace_tokens, runner>>

-----------------------------------------------------------------------------
(* The action runner handles one request at a time.                        *)

StartAction ==
    /\ up
    /\ runner = Idle
    /\ actions # << >>
    /\ runner' = Head(actions)
    /\ actions' = Tail(actions)
    /\ UNCHANGED <<up, regVars, diskVars, ipcVars, udevVars, missed, logindVars,
                   suspend_state, timerVars>>

\* Lock and Logout need the logind id of the snapshot and are dropped without
\* one; Logout ends the logind session if logind agrees.  A hook is waited
\* for without a time limit.
FinishAction ==
    /\ up
    /\ runner # Idle
    /\ runner' = Idle
    /\ \/ UNCHANGED <<logind, removedQ>>
       \/ /\ OnUsbRemoved = "Logout"
          /\ runner.target \in logind
          /\ logind' = logind \ {runner.target}
          /\ removedQ' = IF listener_up THEN removedQ \cup {runner.target} ELSE removedQ
    /\ UNCHANGED <<up, regVars, diskVars, ipcVars, udevVars, missed, asleep,
                   sleepQ, listener_up, suspend_state, timerVars, actions>>

-----------------------------------------------------------------------------
(* Loss and restart of the daemon.                                         *)

\* A crash, or SIGTERM: timers are cancelled and every queue is dropped.  The
\* registry is not written on the way out.
DaemonStops ==
    /\ up
    /\ up' = FALSE
    /\ by_id' = EmptyById
    /\ by_uid' = EmptyByUid
    /\ inbox' = {}
    /\ chan' = [c \in Client |-> IF chan[c] = "waiting" THEN "Unavailable" ELSE chan[c]]
    /\ udevQ' = [x \in Serial |-> << >>]
    /\ udev_up' = FALSE
    /\ sleepQ' = << >>
    /\ removedQ' = {}
    /\ listener_up' = FALSE
    /\ suspend_state' = "Awake"
    /\ grace_tokens' = [x \in Serial |-> NoToken]
    /\ timers' = [t \in TimerId |-> NoTimer]
    /\ actions' = << >>
    /\ runner' = Idle
    /\ UNCHANGED <<diskVars, plugged, missed, logind, asleep>>

\* run_async: load the store (an I/O error other than NotFound yields an
\* empty registry), rebuild the registry, open both forwarders.  Devices and
\* logind sessions are not compared with what was loaded.
DaemonStarts ==
    /\ ~up
    /\ up' = TRUE
    /\ by_id' \in {disk, EmptyById}
    /\ by_uid' \in SnapshotByUid(by_id')
    /\ disk_current' = (disk = by_id')
    /\ udev_up' = TRUE
    /\ listener_up' = TRUE
    /\ missed' = Serial \ plugged
    /\ UNCHANGED <<disk, ipcVars, plugged, udevQ, logind, asleep, sleepQ,
                   removedQ, suspend_state, timerVars, actionVars>>

-----------------------------------------------------------------------------

StateManager ==
    \/ \E m \in inbox :
          \/ HandleSessionOpen(m)
          \/ RefuseSessionOpen(m)
          \/ HandleSessionClose(m)
          \/ HandleUpdateSessionTarget(m)
          \/ HandleGetActiveSessionByUid(m)
    \/ \E x \in Serial :
          \/ IgnoreUdevRemove(x)
          \/ \E t \in TimerId : ArmGraceTimer(x, t)
          \/ HandleUdevAdd(x)
    \/ HandleSuspend
    \/ HandleResume
    \/ \E l \in LogindId : HandleSessionRemoved(l)

TimerTask(t) ==
    \/ GraceExpires(t)
    \/ GraceCancelled(t)
    \/ timers[t] # NoTimer /\ \E s \in timers[t].left : DispatchAction(t, s)

Runner == StartAction \/ FinishAction

\* Everything the daemon's own tasks and its clock do.
Daemon ==
    \/ StateManager
    \/ \E t \in TimerId : GraceElapses(t) \/ TimerTask(t)
    \/ SuspendGraceElapses
    \/ Runner
    \/ UdevMonitorRetries

\* What users and the host do.
Host ==
    \/ \E x \in Serial, nodes \in 1 .. 2 :
          DevicePlugged(x, nodes) \/ DeviceUnplugged(x, nodes)
    \/ \E l \in LogindId : LogindSessionEnds(l)

Disturbance ==
    \/ /\ "suspend" \in Disturbances
       /\ SleepSignal
    \/ /\ "udev_loss" \in Disturbances
       /\ \E kept \in [Serial -> 0 .. MaxPending] : UdevMonitorFails(kept)
    \/ /\ "listener_loss" \in Disturbances
       /\ \E n \in 0 .. MaxPending, lost \in SUBSET LogindId : ListenerExits(n, lost)
    \/ /\ "restart" \in Disturbances
       /\ DaemonStops \/ DaemonStarts \/ \E c \in Client : ConnectRefused(c)
    \/ /\ "timeout" \in Disturbances
       /\ \E c \in Client : CallTimesOut(c)

\* Any client may send any of the requests.
Callers ==
    \E c \in Client :
        \/ \E req \in Requests : SendRequest(c, req)
        \/ TakeResult(c)

Next == Daemon \/ Host \/ Disturbance \/ Callers

Spec == Init /\ [][Next]_vars

\* The runtime polls every ready task and the manager's queue is FIFO, so no
\* event waits forever and time passes.  Nothing is assumed of the host, of
\* the clients, of faults, or of a removal hook, which has no time limit.
Fairness ==
    /\ WF_vars(\E m \in inbox : HandleSessionOpen(m) \/ RefuseSessionOpen(m)
                                \/ HandleSessionClose(m)
                                \/ HandleUpdateSessionTarget(m)
                                \/ HandleGetActiveSessionByUid(m))
    /\ \A x \in Serial :
          WF_vars(\/ IgnoreUdevRemove(x)
                  \/ \E t \in TimerId : ArmGraceTimer(x, t)
                  \/ HandleUdevAdd(x))
    /\ WF_vars(HandleSuspend \/ HandleResume)
    /\ \A l \in LogindId : WF_vars(HandleSessionRemoved(l))
    /\ \A t \in TimerId : WF_vars(GraceElapses(t)) /\ WF_vars(TimerTask(t))
    /\ WF_vars(SuspendGraceElapses)
    /\ WF_vars(StartAction)
    /\ OnUsbRemoved # "Hook" => WF_vars(FinishAction)

FairSpec == Spec /\ Fairness

-----------------------------------------------------------------------------
(* Correctness.                                                            *)

\* Every variable stays in its type; no queue outgrows its bound.
TypeOK ==
    /\ up \in BOOLEAN
    /\ by_id \in ByIdMaps
    /\ by_uid \in ByUidMaps
    /\ disk \in ByIdMaps
    /\ disk_current \in BOOLEAN
    /\ inbox \subseteq [client : Client \cup {Nobody}, req : Requests]
    /\ chan \in [Client -> Reply \cup {"idle", "waiting"}]
    /\ plugged \subseteq Serial
    /\ udevQ \in [Serial -> Seq({"add", "remove"})]
    /\ udev_up \in BOOLEAN
    /\ missed \subseteq Serial
    /\ logind \subseteq LogindId
    /\ asleep \in BOOLEAN
    /\ sleepQ \in Seq({"sleep", "resume"})
    /\ removedQ \subseteq LogindId
    /\ listener_up \in BOOLEAN
    /\ suspend_state \in {"Awake", "SuspendingAt", "ResumedAt"}
    /\ grace_tokens \in [Serial -> TimerId \cup {NoToken}]
    /\ timers \in [TimerId -> Timer \cup {NoTimer}]
    /\ actions \in Seq(ActiveSession)
    /\ runner \in ActiveSession \cup {Idle}

\* However requests, logind removals and restarts interleave, the reverse
\* index of registry.rs never points at a session that is gone or that
\* belongs to another uid, and neither does the file it is rebuilt from.
IndexConsistent ==
    /\ IndexAgrees(by_id, by_uid)
    /\ \A id \in Tracked(disk) : disk[id].session_id = id

\* handle_udev cancels a timer through grace_tokens only: the token of a
\* serial always controls a timer of that serial, and a timer that was not
\* cancelled is always reachable through its token, so at most one timer per
\* serial can still dispatch on its own.
TokenControlsTimer ==
    /\ \A x \in Serial : TokenHeld(x) =>
           LET timer == timers[grace_tokens[x]]
           IN  timer # NoTimer /\ timer.serial = x /\ ~timer.cancelled
    /\ \A t \in TimerId : timers[t] # NoTimer /\ ~timers[t].cancelled =>
           grace_tokens[timers[t].serial] = t

\* An event of this kind waits in the queue.
Queued(q, e) == \E i \in 1 .. Len(q) : q[i] = e

LastIs(q, e) == q[Len(q)] = e

\* The token of x controls a timer whose snapshot holds session id.
SnapshotHolds(x, id) ==
    TokenHeld(x) /\ \E s \in timers[grace_tokens[x]].sessions : s.session_id = id

\* A session whose device is out is never forgotten: the removal is still
\* queued, or a grace timer holds the session in its snapshot.  The only
\* excuses are the recorded ones: events lost with the udev socket, the daemon
\* being down, and a suspend that suppresses or cancels.
RemovalCovered ==
    \A id \in Tracked(by_id) :
        LET x == by_id[id].usb_serial IN
        x \in Serial \ (plugged \cup missed) =>
            Queued(udevQ[x], "remove") \/ SnapshotHolds(x, id)

\* The last event queued for a serial says whether the device is there.
QueueTellsPresence ==
    \A x \in Serial \ missed :
        udevQ[x] # << >> => (x \in plugged <=> LastIs(udevQ[x], "add"))

\* A token with no reinsert on its way belongs to a device that is out, and
\* its snapshot misses no session of that device: SessionOpen's presence check
\* keeps later sessions from slipping in behind the snapshot.
TokenCoversSessions ==
    \A x \in Serial \ missed :
        TokenHeld(x) /\ ~Queued(udevQ[x], "add") =>
            /\ x \notin plugged
            /\ \A id \in Tracked(by_id) :
                  by_id[id].usb_serial = x => SnapshotHolds(x, id)

\* A stopped daemon has no queued event and no token.
DownIsQuiet ==
    ~up => \A x \in Serial : udevQ[x] = << >> /\ ~TokenHeld(x)

\* The inductive invariant behind RemovalCovered.  TokenCoversSessions is what
\* makes dropping a duplicate Remove (hub-disconnect dedup) safe, and
\* QueueTellsPresence what makes dropping the token on Add safe.
RemovalInv ==
    /\ RemovalCovered
    /\ QueueTellsPresence
    /\ TokenCoversSessions
    /\ DownIsQuiet

\* Unless a load or a persist failed, sessions.json holds exactly the tracked
\* sessions after every handler, so a restart brings back neither a closed
\* session, nor one logind tore down, nor a superseded target.
DiskMatchesRegistry ==
    up /\ disk_current => disk = by_id

\* Between PrepareForSleep(true) and the resume no timer is armed and every
\* earlier one is cancelled or has already dispatched.
SuspendDisarmsTimers ==
    suspend_state = "SuspendingAt" =>
        \A t \in TimerId : timers[t] # NoTimer => timers[t].cancelled

\* The grace timer of x has sent the action request of session id.
Dispatched(id, x) ==
    /\ TokenHeld(x)
    /\ \E s \in timers[grace_tokens[x]].sessions \ timers[grace_tokens[x]].left :
           s.session_id = id

\* A tracked session whose device was taken out, and for which this removal
\* has not been dispatched yet, eventually reaches the action runner, unless
\* the device comes back, the session ends, or one of the recorded excuses
\* (suspend, lost events, restart) applies.
RemovalIsActedOn ==
    \A id \in SessionId, x \in Serial :
        /\ id \in Tracked(by_id) /\ by_id[id].usb_serial = x
        /\ x \notin plugged \cup missed
        /\ ~Dispatched(id, x)
        ~> \/ runner # Idle /\ runner.session_id = id
           \/ x \in plugged \cup missed
           \/ id \notin Tracked(by_id)

-----------------------------------------------------------------------------
(* A statement of a comment that the code does not meet.                   *)

\* state.rs says of SessionClose that the grace timer of a closed session is
\* dropped: an action request only ever goes out for a tracked session.
ClosedSessionIsNotActedOn ==
    [][actions' # << >> /\ Len(actions') > Len(actions) =>
          actions'[Len(actions')].session_id \in Tracked(by_id)]_actions

=============================================================================
