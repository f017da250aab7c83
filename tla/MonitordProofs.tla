--------------------------- MODULE MonitordProofs ---------------------------
(***************************************************************************)
(* Proofs about Monitord for any sessions, serials, clients, timers and    *)
(* bounds, and any set of disturbances; first what the methods of          *)
(* registry.rs preserve: the types of the two maps and their agreement     *)
(* (IndexAgrees).                                                          *)
(***************************************************************************)
EXTENDS Monitord, SequenceTheorems, TLAPS

\* A leaf that names no prover is tried with these in turn, the last time with
\* more time.
USE SMT, Zenon, SMTT(30)

(* registry.rs, over any pair of maps: mi for by_id, mu for by_uid.        *)

\* `add` keeps both maps well typed.
LEMMA AddType ==
    ASSUME NEW mi \in ByIdMaps, NEW mu \in ByUidMaps,
           NEW s \in ActiveSession
    PROVE  /\ AddById(mi, s) \in ByIdMaps
           /\ AddByUid(mi, mu, s) \in ByUidMaps
BY DEF ByIdMaps, ByUidMaps, AddById, AddByUid, ActiveSession

\* `remove` keeps both maps well typed.
LEMMA RemoveType ==
    ASSUME NEW mi \in ByIdMaps, NEW mu \in ByUidMaps,
           NEW ids \in SUBSET SessionId
    PROVE  /\ RemoveById(mi, ids) \in ByIdMaps
           /\ RemoveByUid(mi, mu, ids) \in ByUidMaps
BY DEF ByIdMaps, ByUidMaps, RemoveById, RemoveByUid

\* `update_target` on a tracked id replaces one record by one of the same id,
\* uid and serial.
LEMMA UpdateTargetFacts ==
    ASSUME NEW mi \in ByIdMaps, NEW id \in Tracked(mi),
           NEW target \in LogindId \cup {NoLogind}
    PROVE  LET new == UpdateTarget(mi, id, target) IN
           /\ new \in ByIdMaps
           /\ Tracked(new) = Tracked(mi)
           /\ \A i \in Tracked(mi) : /\ new[i].session_id = mi[i].session_id
                                     /\ new[i].uid = mi[i].uid
                                     /\ new[i].usb_serial = mi[i].usb_serial
<1> DEFINE new == UpdateTarget(mi, id, target)
<1>1. mi[id] \in ActiveSession
  BY DEF Tracked, ByIdMaps
<1>2. /\ new[id] \in ActiveSession
      /\ new[id].session_id = mi[id].session_id
      /\ new[id].uid = mi[id].uid
      /\ new[id].usb_serial = mi[id].usb_serial
  BY <1>1 DEF UpdateTarget, ActiveSession, ByIdMaps, Tracked
<1>3. \A i \in SessionId : i # id => new[i] = mi[i]
  BY DEF UpdateTarget, ByIdMaps
<1>4. new \in ByIdMaps
  BY <1>2, <1>3, Zenon DEF UpdateTarget, ByIdMaps
<1>5. Tracked(new) = Tracked(mi)
  BY <1>1, <1>2, <1>3, RegistryConstants DEF Tracked
<1>. QED
  BY <1>2, <1>3, <1>4, <1>5 DEF Tracked

\* `add` preserves the agreement, also when the id is re-added with another
\* uid: StaleUid clears exactly the entry that would dangle.
LEMMA AddIndex ==
    ASSUME NEW mi \in ByIdMaps, NEW mu \in ByUidMaps,
           NEW s \in ActiveSession, IndexAgrees(mi, mu)
    PROVE  IndexAgrees(AddById(mi, s), AddByUid(mi, mu, s))
<1> DEFINE bi == AddById(mi, s)
           bu == AddByUid(mi, mu, s)
<1>1. s.session_id \in SessionId /\ s # NoSession
  BY RegistryConstants DEF ActiveSession
<1>2. /\ bi[s.session_id] = s
      /\ \A id \in SessionId : id # s.session_id => bi[id] = mi[id]
  BY <1>1 DEF AddById, ByIdMaps
<1>3. Tracked(bi) = Tracked(mi) \cup {s.session_id}
  BY <1>1, <1>2 DEF Tracked
<1>4. \A id \in Tracked(bi) : bi[id].session_id = id
  BY <1>2, <1>3 DEF IndexAgrees, Tracked
<1>5. ASSUME NEW u \in Uid, bu[u] # NoId
      PROVE  bu[u] \in Tracked(bi) /\ bi[bu[u]].uid = u
  <2>1. CASE u = s.uid
    BY <2>1, <1>1, <1>2, <1>3 DEF AddByUid
  <2>2. CASE u # s.uid
    <3>1. bu[u] = mu[u] /\ u \notin StaleUid(mi, mu, s)
      BY <2>2, <1>5 DEF AddByUid
    <3>2. mu[u] \in Tracked(mi) /\ mi[mu[u]].uid = u
      BY <3>1, <1>5 DEF IndexAgrees
    <3>3. mu[u] # s.session_id
      BY <3>1, <3>2, <2>2 DEF StaleUid, Tracked
    <3>. QED
      BY <3>1, <3>2, <3>3, <1>2, <1>3 DEF Tracked
  <2>. QED
    BY <2>1, <2>2
<1>. QED
  BY <1>4, <1>5 DEF IndexAgrees

\* `remove` preserves the agreement: the entry of a removed session goes with
\* it, and an entry that points at another session of the uid stays.
LEMMA RemoveIndex ==
    ASSUME NEW mi \in ByIdMaps, NEW mu \in ByUidMaps,
           NEW ids \in SUBSET SessionId, IndexAgrees(mi, mu)
    PROVE  IndexAgrees(RemoveById(mi, ids), RemoveByUid(mi, mu, ids))
<1> DEFINE bi == RemoveById(mi, ids)
           bu == RemoveByUid(mi, mu, ids)
<1>1. /\ Tracked(bi) = Tracked(mi) \ ids
      /\ \A id \in Tracked(bi) : bi[id] = mi[id]
  BY DEF RemoveById, Tracked
<1>2. ASSUME NEW u \in Uid, bu[u] # NoId
      PROVE  bu[u] \in Tracked(bi) /\ bi[bu[u]].uid = u
  <2>1. bu[u] = mu[u]
    BY <1>2 DEF RemoveByUid
  <2>2. mu[u] \in Tracked(mi) /\ mi[mu[u]].uid = u
    BY <2>1, <1>2 DEF IndexAgrees
  <2>3. mu[u] \notin ids
    BY <2>1, <2>2, <1>2 DEF RemoveByUid, Tracked
  <2>. QED
    BY <2>1, <2>2, <2>3, <1>1
<1>. QED
  BY <1>1, <1>2 DEF IndexAgrees

\* Rebuilding the index from a snapshot in any order restores the agreement.
LEMMA SnapshotIndex ==
    ASSUME NEW mi \in ByIdMaps,
           \A id \in Tracked(mi) : mi[id].session_id = id,
           NEW mu \in SnapshotByUid(mi)
    PROVE  mu \in ByUidMaps /\ IndexAgrees(mi, mu)
BY DEF SnapshotByUid, IndexAgrees

-----------------------------------------------------------------------------

\* A burst of equal udev events is a sequence.
LEMMA RepeatType ==
    ASSUME NEW S, NEW e \in S, NEW n \in Nat
    PROVE  /\ Repeat(n, e) \in Seq(S)
           /\ Len(Repeat(n, e)) = n
           /\ \A i \in 1 .. n : Repeat(n, e)[i] = e
<1>1. \A i \in 1 .. n : Repeat(n, e)[i] = e
  BY DEF Repeat
<1>2. Repeat(n, e) \in [1 .. n -> S]
  BY DEF Repeat
<1>3. Repeat(n, e) \in Seq(S)
  BY <1>2, SeqDef
<1>4. Len(Repeat(n, e)) = n
  BY <1>2, <1>3, LenProperties
<1>. QED
  BY <1>1, <1>3, <1>4

\* The session of an open request, the id of a close or update request and so
\* on have the types Request gives them.
LEMMA RequestFields ==
    ASSUME TypeOK, NEW m \in inbox
    PROVE  /\ m.client \in Client \cup {Nobody}
           /\ m.req \in Requests
           /\ m = [client |-> m.client, req |-> m.req]
           /\ m.req.op = "SessionOpen" => m.req.session \in ActiveSession
           /\ m.req.op = "SessionClose" => m.req.id \in SessionId
           /\ m.req.op = "UpdateSessionTarget" =>
                 m.req.id \in SessionId /\ m.req.target \in LogindId \cup {NoLogind}
<1>1. m \in [client : Client \cup {Nobody}, req : Requests]
  BY DEF TypeOK
<1>2. m.req \in Requests /\ m.client \in Client \cup {Nobody}
  BY <1>1
<1>3. m.req \in Request
  BY <1>2, RequestsAssumption
<1>4. m = [client |-> m.client, req |-> m.req]
  BY <1>1
<1>5. m.req.op = "SessionOpen" => m.req.session \in ActiveSession
  BY <1>3 DEF Request, OpenReq, CloseReq, UpdateReq, LookupReq
<1>6. m.req.op = "SessionClose" => m.req.id \in SessionId
  BY <1>3 DEF Request, OpenReq, CloseReq, UpdateReq, LookupReq
<1>7. m.req.op = "UpdateSessionTarget" =>
         m.req.id \in SessionId /\ m.req.target \in LogindId \cup {NoLogind}
  BY <1>3 DEF Request, OpenReq, CloseReq, UpdateReq, LookupReq
<1>. QED
  BY <1>2, <1>4, <1>5, <1>6, <1>7

\* SendReply only shrinks the inbox and sets one client's result.
LEMMA SendReplyType ==
    ASSUME TypeOK, NEW m \in inbox, NEW msg \in Reply, SendReply(m, msg)
    PROVE  /\ inbox' \subseteq [client : Client \cup {Nobody}, req : Requests]
           /\ chan' \in [Client -> Reply \cup {"idle", "waiting"}]
BY RequestFields DEF SendReply, TypeOK

\* persist_async writes a registry map.
LEMMA PersistType ==
    ASSUME TypeOK, by_id' \in ByIdMaps, PersistAsync
    PROVE  disk' \in ByIdMaps /\ disk_current' \in BOOLEAN
BY Zenon DEF PersistAsync, TypeOK

\* Cancelling tokens keeps the timers well typed.
LEMMA CancelledType ==
    ASSUME TypeOK, NEW ts
    PROVE  Cancelled(ts) \in [TimerId -> Timer \cup {NoTimer}]
<1>1. ASSUME NEW t \in TimerId, timers[t] # NoTimer
      PROVE  [timers[t] EXCEPT !.cancelled = TRUE] \in Timer
  BY <1>1, Zenon DEF TypeOK, Timer
<1>. QED
  BY <1>1 DEF Cancelled, TypeOK

-----------------------------------------------------------------------------
(* Type correctness.                                                       *)

\* The initial and post-restart values are well typed.
LEMMA EmptyTypes ==
    /\ EmptyById \in ByIdMaps
    /\ EmptyByUid \in ByUidMaps
    /\ [x \in Serial |-> << >>] \in [Serial -> Seq({"add", "remove"})]
    /\ << >> \in Seq({"sleep", "resume"})
    /\ << >> \in Seq(ActiveSession)
    /\ [c \in Client |-> "idle"] \in [Client -> Reply \cup {"idle", "waiting"}]
    /\ [x \in Serial |-> NoToken] \in [Serial -> TimerId \cup {NoToken}]
    /\ [t \in TimerId |-> NoTimer] \in [TimerId -> Timer \cup {NoTimer}]
<1>1. EmptyById \in ByIdMaps /\ EmptyByUid \in ByUidMaps
  BY DEF EmptyById, EmptyByUid, ByIdMaps, ByUidMaps
<1>2. \A S : << >> \in Seq(S)
  OBVIOUS
<1>3. [x \in Serial |-> << >>] \in [Serial -> Seq({"add", "remove"})]
  BY <1>2
<1>. QED
  BY <1>1, <1>2, <1>3

\* Every step of the daemon, the host, a disturbance or a client keeps the
\* types.
LEMMA TypeStep == TypeOK /\ [Next]_vars => TypeOK'
<1> SUFFICES ASSUME TypeOK, [Next]_vars PROVE TypeOK'
  OBVIOUS
<1> USE DEF regVars, diskVars, ipcVars, udevVars, logindVars, timerVars, actionVars
<1>1. ASSUME NEW m \in inbox, HandleSessionOpen(m) PROVE TypeOK'
  <2>1. m.req.session \in ActiveSession
    BY <1>1, RequestFields DEF HandleSessionOpen
  <2>2. by_id' \in ByIdMaps /\ by_uid' \in ByUidMaps
    BY <1>1, <2>1, AddType DEF HandleSessionOpen, TypeOK
  <2>3. disk' \in ByIdMaps /\ disk_current' \in BOOLEAN
    BY <1>1, <2>2, PersistType DEF HandleSessionOpen
  <2>4. /\ inbox' \subseteq [client : Client \cup {Nobody}, req : Requests]
        /\ chan' \in [Client -> Reply \cup {"idle", "waiting"}]
    BY <1>1, SendReplyType DEF HandleSessionOpen, Reply
  <2>. QED
    BY <1>1, <2>2, <2>3, <2>4 DEF HandleSessionOpen, TypeOK
<1>2. ASSUME NEW m \in inbox, RefuseSessionOpen(m) PROVE TypeOK'
  <2>1. /\ inbox' \subseteq [client : Client \cup {Nobody}, req : Requests]
        /\ chan' \in [Client -> Reply \cup {"idle", "waiting"}]
    BY <1>2, SendReplyType DEF RefuseSessionOpen, Reply
  <2>. QED
    BY <1>2, <2>1 DEF RefuseSessionOpen, TypeOK
<1>3. ASSUME NEW m \in inbox, HandleSessionClose(m) PROVE TypeOK'
  <2>1. {m.req.id} \in SUBSET SessionId
    BY <1>3, RequestFields DEF HandleSessionClose
  <2>2. by_id' \in ByIdMaps /\ by_uid' \in ByUidMaps
    BY <1>3, <2>1, RemoveType DEF HandleSessionClose, TypeOK
  <2>3. disk' \in ByIdMaps /\ disk_current' \in BOOLEAN
    BY <1>3, <2>2, PersistType, SMTT(30) DEF HandleSessionClose
  <2>4. /\ inbox' \subseteq [client : Client \cup {Nobody}, req : Requests]
        /\ chan' \in [Client -> Reply \cup {"idle", "waiting"}]
    BY <1>3, SendReplyType DEF HandleSessionClose, Reply
  <2>. QED
    BY <1>3, <2>2, <2>3, <2>4 DEF HandleSessionClose, TypeOK
<1>4. ASSUME NEW m \in inbox, HandleUpdateSessionTarget(m) PROVE TypeOK'
  <2>1. /\ inbox' \subseteq [client : Client \cup {Nobody}, req : Requests]
        /\ chan' \in [Client -> Reply \cup {"idle", "waiting"}]
    BY <1>4, SendReplyType DEF HandleUpdateSessionTarget, Reply
  <2>2. CASE m.req.id \in Tracked(by_id)
    <3>1. by_id' \in ByIdMaps
      BY <1>4, <2>2, RequestFields, UpdateTargetFacts
      DEF HandleUpdateSessionTarget, TypeOK
    <3>2. disk' \in ByIdMaps /\ disk_current' \in BOOLEAN
      BY <1>4, <2>2, <3>1, PersistType DEF HandleUpdateSessionTarget
    <3>. QED
      BY <1>4, <2>1, <2>2, <3>1, <3>2 DEF HandleUpdateSessionTarget, TypeOK
  <2>3. CASE m.req.id \notin Tracked(by_id)
    BY <1>4, <2>1, <2>3 DEF HandleUpdateSessionTarget, TypeOK
  <2>. QED
    BY <2>2, <2>3, SMTT(30)
<1>5. ASSUME NEW m \in inbox, HandleGetActiveSessionByUid(m) PROVE TypeOK'
  <2>1. /\ inbox' \subseteq [client : Client \cup {Nobody}, req : Requests]
        /\ chan' \in [Client -> Reply \cup {"idle", "waiting"}]
    BY <1>5, SendReplyType DEF HandleGetActiveSessionByUid, Reply
  <2>. QED
    BY <1>5, <2>1 DEF HandleGetActiveSessionByUid, TypeOK
<1>6. ASSUME NEW x \in Serial, IgnoreUdevRemove(x) PROVE TypeOK'
  BY <1>6 DEF IgnoreUdevRemove, TypeOK
<1>7. ASSUME NEW x \in Serial, NEW t \in TimerId, ArmGraceTimer(x, t) PROVE TypeOK'
  <2>1. FindBySerial(by_id, x) \subseteq ActiveSession
    BY DEF FindBySerial, Tracked, TypeOK, ByIdMaps
  <2>2. NewTimer(x, FindBySerial(by_id, x)) \in Timer
    BY <2>1 DEF NewTimer, Timer
  <2>. QED
    BY <1>7, <2>2 DEF ArmGraceTimer, TypeOK
<1>8. ASSUME NEW x \in Serial, HandleUdevAdd(x) PROVE TypeOK'
  <2>1. timers' \in [TimerId -> Timer \cup {NoTimer}]
    BY <1>8, CancelledType DEF HandleUdevAdd
  <2>2. grace_tokens' \in [Serial -> TimerId \cup {NoToken}]
    BY <1>8 DEF HandleUdevAdd, DropToken, TypeOK
  <2>3. udevQ' \in [Serial -> Seq({"add", "remove"})]
    BY <1>8 DEF HandleUdevAdd, TypeOK
  <2>. QED
    BY <1>8, <2>1, <2>2, <2>3, Zenon DEF HandleUdevAdd, TypeOK
<1>9. ASSUME HandleSuspend PROVE TypeOK'
  <2>1. timers' \in [TimerId -> Timer \cup {NoTimer}]
    BY <1>9, CancelledType DEF HandleSuspend
  <2>2. grace_tokens' \in [Serial -> TimerId \cup {NoToken}]
    BY <1>9 DEF HandleSuspend, DrainTokens
  <2>3. sleepQ' \in Seq({"sleep", "resume"})
    BY <1>9 DEF HandleSuspend, TypeOK
  <2>. QED
    BY <1>9, <2>1, <2>2, <2>3, Zenon DEF HandleSuspend, TypeOK
<1>10. ASSUME HandleResume PROVE TypeOK'
  BY <1>10 DEF HandleResume, TypeOK
<1>11. ASSUME NEW l \in LogindId, HandleSessionRemoved(l) PROVE TypeOK'
  <2> DEFINE ids == FindByLogind(by_id, l)
  <2>1. ids \in SUBSET SessionId
    BY DEF FindByLogind, Tracked
  <2>2. by_id' \in ByIdMaps /\ by_uid' \in ByUidMaps
    BY <1>11, <2>1, RemoveType DEF HandleSessionRemoved, TypeOK
  <2>3. disk' \in ByIdMaps /\ disk_current' \in BOOLEAN
    BY <1>11, <2>2, PersistType DEF HandleSessionRemoved, PersistRemovals, TypeOK
  <2>. QED
    BY <1>11, <2>2, <2>3 DEF HandleSessionRemoved, TypeOK
<1>12. ASSUME NEW t \in TimerId, GraceElapses(t) PROVE TypeOK'
  <2>1. [timers[t] EXCEPT !.phase = "due"] \in Timer
    BY <1>12, Zenon DEF GraceElapses, TypeOK, Timer
  <2>. QED
    BY <1>12, <2>1 DEF GraceElapses, TypeOK
<1>13. ASSUME NEW t \in TimerId, GraceExpires(t) PROVE TypeOK'
  <2>1. [timers[t] EXCEPT !.phase = "firing"] \in Timer
    BY <1>13, Zenon DEF GraceExpires, TypeOK, Timer
  <2>. QED
    BY <1>13, <2>1 DEF GraceExpires, TypeOK
<1>14. ASSUME NEW t \in TimerId, GraceCancelled(t) PROVE TypeOK'
  BY <1>14 DEF GraceCancelled, TypeOK
<1>15. ASSUME NEW t \in TimerId, timers[t] # NoTimer, NEW s \in timers[t].left,
              DispatchAction(t, s)
       PROVE  TypeOK'
  <2>1. timers[t] \in Timer /\ s \in ActiveSession
    BY <1>15 DEF TypeOK, Timer
  <2>2. [timers[t] EXCEPT !.left = timers[t].left \ {s}] \in Timer
    BY <2>1 DEF Timer
  <2>3. timers' \in [TimerId -> Timer \cup {NoTimer}]
    <3>1. AfterDispatch(timers[t], s) \in Timer \cup {NoTimer}
      BY <2>2 DEF AfterDispatch
    <3>. QED
      BY <1>15, <3>1 DEF DispatchAction, TypeOK
  <2>. QED
    BY <1>15, <2>1, <2>3 DEF DispatchAction, TypeOK
<1>16. CASE SuspendGraceElapses
  BY <1>16 DEF SuspendGraceElapses, TypeOK
<1>17. CASE StartAction
  BY <1>17 DEF StartAction, TypeOK
<1>18. CASE FinishAction
  BY <1>18 DEF FinishAction, TypeOK
<1>19. CASE UdevMonitorRetries
  BY <1>19 DEF UdevMonitorRetries, TypeOK
<1>20. ASSUME NEW x \in Serial, NEW nodes \in 1 .. 2, DevicePlugged(x, nodes)
       PROVE  TypeOK'
  <2>0. nodes \in Nat /\ "add" \in {"add", "remove"}
    OBVIOUS
  <2>1. Repeat(nodes, "add") \in Seq({"add", "remove"})
    BY <2>0, RepeatType, Zenon
  <2>2. udevQ[x] \o Repeat(nodes, "add") \in Seq({"add", "remove"})
    BY <2>1 DEF TypeOK
  <2>. QED
    BY <1>20, <2>2, Zenon DEF DevicePlugged, TypeOK
<1>21. ASSUME NEW x \in Serial, NEW nodes \in 1 .. 2, DeviceUnplugged(x, nodes)
       PROVE  TypeOK'
  <2>0. nodes \in Nat /\ "remove" \in {"add", "remove"}
    OBVIOUS
  <2>1. Repeat(nodes, "remove") \in Seq({"add", "remove"})
    BY <2>0, RepeatType, Zenon
  <2>2. udevQ[x] \o Repeat(nodes, "remove") \in Seq({"add", "remove"})
    BY <2>1 DEF TypeOK
  <2>. QED
    BY <1>21, <2>2, Zenon DEF DeviceUnplugged, TypeOK
<1>22. ASSUME NEW l \in LogindId, LogindSessionEnds(l) PROVE TypeOK'
  BY <1>22 DEF LogindSessionEnds, TypeOK
<1>23. CASE SleepSignal
  <2>1. sleepQ' \in Seq({"sleep", "resume"}) /\ asleep' \in BOOLEAN
    BY <1>23 DEF SleepSignal, TypeOK
  <2>. QED
    BY <1>23, <2>1 DEF SleepSignal, TypeOK
<1>24. ASSUME NEW kept \in [Serial -> 0 .. MaxPending], UdevMonitorFails(kept)
       PROVE  TypeOK'
  <2>1. \A x \in Serial : SubSeq(udevQ[x], 1, kept[x]) \in Seq({"add", "remove"})
    BY <1>24, MonitordConstants DEF UdevMonitorFails, TypeOK
  <2>. QED
    BY <1>24, <2>1, Zenon DEF UdevMonitorFails, TypeOK
<1>25. ASSUME NEW n \in 0 .. MaxPending, NEW lost \in SUBSET LogindId,
              ListenerExits(n, lost)
       PROVE  TypeOK'
  <2>1. sleepQ' \in Seq({"sleep", "resume"})
    BY <1>25, MonitordConstants DEF ListenerExits, TypeOK
  <2>. QED
    BY <1>25, <2>1, Zenon DEF ListenerExits, TypeOK
<1>26. CASE DaemonStops
  <2>1. chan' \in [Client -> Reply \cup {"idle", "waiting"}]
    BY <1>26 DEF DaemonStops, TypeOK, Reply
  <2>. QED
    BY <1>26, <2>1, EmptyTypes, Zenon DEF DaemonStops, TypeOK
<1>27. CASE DaemonStarts
  BY <1>27 DEF DaemonStarts, TypeOK, EmptyById, ByIdMaps, SnapshotByUid
<1>28. ASSUME NEW c \in Client, ConnectRefused(c) PROVE TypeOK'
  BY <1>28 DEF ConnectRefused, TypeOK, Reply
<1>29. ASSUME NEW c \in Client, CallTimesOut(c) PROVE TypeOK'
  <2>1. chan' \in [Client -> Reply \cup {"idle", "waiting"}]
    BY <1>29, Zenon DEF CallTimesOut, TypeOK, Reply
  <2>2. \A m \in inbox : [m EXCEPT !.client = Nobody]
                            \in [client : Client \cup {Nobody}, req : Requests]
    BY Zenon DEF TypeOK
  <2>3. inbox' \subseteq [client : Client \cup {Nobody}, req : Requests]
    BY <1>29, <2>2 DEF CallTimesOut, TypeOK
  <2>. QED
    BY <1>29, <2>1, <2>3 DEF CallTimesOut, TypeOK
<1>30. ASSUME NEW c \in Client, NEW req \in Requests, SendRequest(c, req) PROVE TypeOK'
  BY <1>30 DEF SendRequest, TypeOK
<1>31. ASSUME NEW c \in Client, TakeResult(c) PROVE TypeOK'
  BY <1>31 DEF TakeResult, TypeOK
<1>32. CASE UNCHANGED vars
  BY <1>32 DEF vars, TypeOK
<1>. QED
  BY <1>1, <1>2, <1>3, <1>4, <1>5, <1>6, <1>7, <1>8, <1>9, <1>10, <1>11, <1>12,
     <1>13, <1>14, <1>15, <1>16, <1>17, <1>18, <1>19, <1>20, <1>21, <1>22,
     <1>23, <1>24, <1>25, <1>26, <1>27, <1>28, <1>29, <1>30, <1>31, <1>32
  DEF Next, Daemon, StateManager, TimerTask, Runner, Host, Disturbance, Callers

\* Every variable of the daemon keeps its type in every behaviour, whatever
\* the clients send and whatever is lost or restarted.
THEOREM TypeCorrect == Spec => []TypeOK
<1>1. Init => TypeOK
  BY EmptyTypes, Zenon DEF Init, TypeOK
<1>. QED
  BY <1>1, TypeStep, PTL DEF Spec

-----------------------------------------------------------------------------
(* Which steps touch which part of the state.                              *)

\* Only these steps change the registry or its file.
RegistryStep ==
    \/ \E m \in inbox : \/ HandleSessionOpen(m)
                         \/ HandleSessionClose(m)
                         \/ HandleUpdateSessionTarget(m)
    \/ \E l \in LogindId : HandleSessionRemoved(l)
    \/ DaemonStops
    \/ DaemonStarts

\* Only these steps change the tokens or the timers.
TimerStep ==
    \/ \E x \in Serial : HandleUdevAdd(x) \/ \E t \in TimerId : ArmGraceTimer(x, t)
    \/ HandleSuspend
    \/ \E t \in TimerId : \/ GraceElapses(t)
                          \/ GraceExpires(t)
                          \/ GraceCancelled(t)
                          \/ \E s \in timers[t].left : DispatchAction(t, s)
    \/ DaemonStops

\* The remaining steps leave both alone.
LEMMA Frames ==
    ASSUME [Next]_vars
    PROVE  /\ RegistryStep \/ UNCHANGED <<up, regVars, diskVars>>
           /\ TimerStep \/ UNCHANGED timerVars
<1> USE DEF regVars, diskVars, ipcVars, udevVars, logindVars, timerVars, actionVars
<1>1. CASE StateManager
  <2>1. CASE \E m \in inbox : \/ HandleSessionOpen(m)
                              \/ HandleSessionClose(m)
                              \/ HandleUpdateSessionTarget(m)
    BY <2>1, ZenonT(30) DEF RegistryStep, HandleSessionOpen, HandleSessionClose,
                HandleUpdateSessionTarget
  <2>2. CASE \E m \in inbox : RefuseSessionOpen(m) \/ HandleGetActiveSessionByUid(m)
    BY <2>2, Zenon DEF RefuseSessionOpen, HandleGetActiveSessionByUid
  <2>3. CASE \E x \in Serial : \/ IgnoreUdevRemove(x)
                               \/ \E t \in TimerId : ArmGraceTimer(x, t)
                               \/ HandleUdevAdd(x)
    BY <2>3, Zenon DEF TimerStep, IgnoreUdevRemove, ArmGraceTimer, HandleUdevAdd
  <2>4. CASE HandleSuspend \/ HandleResume
    BY <2>4 DEF TimerStep, HandleSuspend, HandleResume
  <2>5. CASE \E l \in LogindId : HandleSessionRemoved(l)
    BY <2>5 DEF RegistryStep, HandleSessionRemoved
  <2>. QED
    BY <1>1, <2>1, <2>2, <2>3, <2>4, <2>5 DEF StateManager
<1>2. CASE \E t \in TimerId : GraceElapses(t) \/ TimerTask(t)
  BY <1>2 DEF TimerStep, TimerTask, GraceElapses, GraceExpires, GraceCancelled,
              DispatchAction
<1>3. CASE SuspendGraceElapses \/ Runner \/ UdevMonitorRetries
  BY <1>3 DEF Runner, SuspendGraceElapses, StartAction, FinishAction, UdevMonitorRetries
<1>4. CASE Host
  BY <1>4 DEF Host, DevicePlugged, DeviceUnplugged, LogindSessionEnds
<1>5. CASE Disturbance
  <2>1. CASE SleepSignal
    BY <2>1 DEF SleepSignal
  <2>2. CASE \E kept \in [Serial -> 0 .. MaxPending] : UdevMonitorFails(kept)
    BY <2>2 DEF UdevMonitorFails
  <2>3. CASE \E n \in 0 .. MaxPending, lost \in SUBSET LogindId : ListenerExits(n, lost)
    BY <2>3 DEF ListenerExits
  <2>4. CASE DaemonStops
    BY <2>4 DEF RegistryStep, TimerStep
  <2>5. CASE DaemonStarts
    BY <2>5, Zenon DEF RegistryStep, DaemonStarts
  <2>6. CASE \E c \in Client : ConnectRefused(c) \/ CallTimesOut(c)
    BY <2>6 DEF ConnectRefused, CallTimesOut
  <2>. QED
    BY <1>5, <2>1, <2>2, <2>3, <2>4, <2>5, <2>6 DEF Disturbance
<1>6. CASE Callers
  BY <1>6 DEF Callers, SendRequest, TakeResult
<1>7. CASE UNCHANGED vars
  BY <1>7 DEF vars
<1>. QED
  BY <1>1, <1>2, <1>3, <1>4, <1>5, <1>6, <1>7 DEF Next, Daemon

-----------------------------------------------------------------------------
(* The registry.                                                           *)

\* A handler, a removal or a restart keeps the index in agreement.
LEMMA IndexStep ==
    TypeOK /\ IndexConsistent /\ [Next]_vars => IndexConsistent'
<1> SUFFICES ASSUME TypeOK, IndexConsistent, [Next]_vars PROVE IndexConsistent'
  OBVIOUS
<1> USE DEF regVars, diskVars
<1>0. /\ by_id \in ByIdMaps /\ by_uid \in ByUidMaps
      /\ IndexAgrees(by_id, by_uid)
      /\ \A id \in Tracked(disk) : disk[id].session_id = id
  BY DEF TypeOK, IndexConsistent
\* The file holds the old or the new registry.
<1>a. ASSUME IndexAgrees(by_id', by_uid'), disk' = disk \/ disk' = by_id'
      PROVE  IndexConsistent'
  <2>1. IndexAgrees(by_id, by_uid)'
    BY <1>a DEF IndexAgrees
  <2>2. \A id \in Tracked(disk') : disk'[id].session_id = id
    BY <1>a, <1>0 DEF IndexAgrees
  <2>. QED
    BY <2>1, <2>2 DEF IndexConsistent, Tracked
<1>1. ASSUME NEW m \in inbox, HandleSessionOpen(m) PROVE IndexConsistent'
  <2>1. m.req.session \in ActiveSession
    BY <1>1, RequestFields DEF HandleSessionOpen
  <2>2. IndexAgrees(by_id', by_uid')
    BY <1>0, <1>1, <2>1, AddIndex, SMTT(30) DEF HandleSessionOpen
  <2>. QED
    BY <1>1, <1>a, <2>2 DEF HandleSessionOpen, PersistAsync
<1>2. ASSUME NEW m \in inbox, HandleSessionClose(m) PROVE IndexConsistent'
  <2>1. {m.req.id} \in SUBSET SessionId
    BY <1>2, RequestFields DEF HandleSessionClose
  <2>2. IndexAgrees(by_id', by_uid')
    BY <1>0, <1>2, <2>1, RemoveIndex DEF HandleSessionClose
  <2>. QED
    BY <1>2, <1>a, <2>2 DEF HandleSessionClose, PersistAsync
<1>3. ASSUME NEW m \in inbox, HandleUpdateSessionTarget(m) PROVE IndexConsistent'
  <2>1. CASE m.req.id \in Tracked(by_id)
    <3>1. m.req.target \in LogindId \cup {NoLogind}
      BY <1>3, RequestFields DEF HandleUpdateSessionTarget
    <3>2. /\ by_id' = UpdateTarget(by_id, m.req.id, m.req.target)
          /\ by_uid' = by_uid
          /\ disk' = disk \/ disk' = by_id'
      BY <1>3, <2>1 DEF HandleUpdateSessionTarget, PersistAsync
    <3>3. IndexAgrees(by_id', by_uid')
      BY <1>0, <2>1, <3>1, <3>2, UpdateTargetFacts, SMTT(30) DEF IndexAgrees
    <3>. QED
      BY <1>a, <3>2, <3>3
  <2>2. CASE m.req.id \notin Tracked(by_id)
    BY <1>0, <1>3, <1>a, <2>2 DEF HandleUpdateSessionTarget
  <2>. QED
    BY <2>1, <2>2
<1>4. ASSUME NEW l \in LogindId, HandleSessionRemoved(l) PROVE IndexConsistent'
  <2> DEFINE ids == FindByLogind(by_id, l)
  <2>1. ids \in SUBSET SessionId
    BY DEF FindByLogind, Tracked
  <2>2. IndexAgrees(by_id', by_uid')
    BY <1>0, <1>4, <2>1, RemoveIndex, Zenon DEF HandleSessionRemoved
  <2>3. disk' = disk \/ disk' = by_id'
    BY <1>4 DEF HandleSessionRemoved, PersistRemovals, PersistAsync
  <2>. QED
    BY <1>a, <2>2, <2>3
<1>5. CASE DaemonStops
  <2>1. IndexAgrees(by_id', by_uid')
    BY <1>5 DEF DaemonStops, IndexAgrees, EmptyById, EmptyByUid, Tracked
  <2>. QED
    BY <1>5, <1>a, <2>1 DEF DaemonStops
<1>6. CASE DaemonStarts
  <2>1. by_id' \in ByIdMaps
    BY <1>6, EmptyTypes DEF DaemonStarts, TypeOK
  <2>2. \A id \in Tracked(by_id') : by_id'[id].session_id = id
    BY <1>6, <1>0, ZenonT(30) DEF DaemonStarts, EmptyById, Tracked
  <2>3. IndexAgrees(by_id', by_uid')
    BY <1>6, <2>1, <2>2, SnapshotIndex, ZenonT(30) DEF DaemonStarts
  <2>. QED
    BY <1>6, <1>a, <2>3 DEF DaemonStarts
<1>7. CASE UNCHANGED <<up, regVars, diskVars>>
  BY <1>7, <1>0, <1>a
<1>. QED
  BY <1>1, <1>2, <1>3, <1>4, <1>5, <1>6, <1>7, Frames DEF RegistryStep

\* In every behaviour the reverse index of registry.rs points only at tracked
\* sessions of the right uid, through reopen, close, logind removal, crash and
\* rebuild.
THEOREM IndexAlwaysConsistent == Spec => []IndexConsistent
<1>1. Init => IndexConsistent
  BY DEF Init, IndexConsistent, IndexAgrees, EmptyById, EmptyByUid, Tracked
<1>. QED
  BY <1>1, IndexStep, TypeCorrect, PTL DEF Spec

\* In every behaviour without a failed load or persist, sessions.json equals
\* the registry after every handler.
THEOREM DiskAlwaysMatches == Spec => []DiskMatchesRegistry
<1> USE DEF regVars, diskVars
<1>1. Init => DiskMatchesRegistry
  BY DEF Init, DiskMatchesRegistry
<1>2. TypeOK /\ DiskMatchesRegistry /\ [Next]_vars => DiskMatchesRegistry'
  <2> SUFFICES ASSUME TypeOK, DiskMatchesRegistry, [Next]_vars
               PROVE  DiskMatchesRegistry'
    OBVIOUS
  <2>1. ASSUME NEW m \in inbox, HandleSessionOpen(m) PROVE DiskMatchesRegistry'
    BY <2>1, ZenonT(30) DEF HandleSessionOpen, PersistAsync, DiskMatchesRegistry
  <2>2. ASSUME NEW m \in inbox, HandleSessionClose(m) PROVE DiskMatchesRegistry'
    BY <2>2 DEF HandleSessionClose, PersistAsync, DiskMatchesRegistry
  <2>3. ASSUME NEW m \in inbox, HandleUpdateSessionTarget(m) PROVE DiskMatchesRegistry'
    BY <2>3, Zenon DEF HandleUpdateSessionTarget, PersistAsync, DiskMatchesRegistry
  <2>4. ASSUME NEW l \in LogindId, HandleSessionRemoved(l) PROVE DiskMatchesRegistry'
    <3>1. CASE FindByLogind(by_id, l) = {}
      <4>1. by_id' = by_id
        BY <2>4, <3>1 DEF HandleSessionRemoved, RemoveById, TypeOK, ByIdMaps
      <4>. QED
        BY <2>4, <3>1, <4>1, Zenon DEF HandleSessionRemoved, PersistRemovals, DiskMatchesRegistry
    <3>2. CASE FindByLogind(by_id, l) # {}
      BY <2>4, <3>2, Zenon DEF HandleSessionRemoved, PersistRemovals, PersistAsync,
                        DiskMatchesRegistry
    <3>. QED
      BY <3>1, <3>2
  <2>5. CASE DaemonStops \/ DaemonStarts
    BY <2>5, ZenonT(30) DEF DaemonStops, DaemonStarts, DiskMatchesRegistry
  <2>6. CASE UNCHANGED <<up, regVars, diskVars>>
    BY <2>6 DEF DiskMatchesRegistry
  <2>. QED
    BY <2>1, <2>2, <2>3, <2>4, <2>5, <2>6, Frames DEF RegistryStep
<1>. QED
  BY <1>1, <1>2, TypeCorrect, PTL DEF Spec

-----------------------------------------------------------------------------
(* Tokens and timers.                                                      *)

\* A cancelled timer is gone or marked; the others are as they were.
LEMMA CancelledEffect ==
    ASSUME TypeOK, NEW ts, NEW t \in TimerId
    PROVE  /\ t \notin ts => Cancelled(ts)[t] = timers[t]
           /\ t \in ts /\ Cancelled(ts)[t] # NoTimer =>
                 timers[t] # NoTimer /\ Cancelled(ts)[t].cancelled = TRUE
<1>1. timers[t] # NoTimer => [timers[t] EXCEPT !.cancelled = TRUE].cancelled = TRUE
  BY DEF TypeOK, Timer
<1>. QED
  BY <1>1 DEF Cancelled

\* PrepareForSleep(true) leaves no timer uncancelled: draining grace_tokens
\* reaches them all.
LEMMA SuspendCancelsAll ==
    ASSUME TypeOK, TokenControlsTimer, HandleSuspend, NEW t \in TimerId,
           timers'[t] # NoTimer
    PROVE  timers'[t].cancelled
<1> DEFINE ts == {grace_tokens[y] : y \in Serial}
<1>1. timers' = Cancelled(ts)
  BY ZenonT(30) DEF HandleSuspend
<1>2. CASE t \in ts
  BY <1>1, <1>2, CancelledEffect, Zenon
<1>3. CASE t \notin ts
  <2>1. timers'[t] = timers[t]
    BY <1>1, <1>3, CancelledEffect, ZenonT(30)
  <2>2. timers[t].serial \in Serial
    BY <2>1 DEF TypeOK, Timer
  <2>. QED
    BY <2>1, <2>2, <1>3 DEF TokenControlsTimer
<1>. QED
  BY <1>2, <1>3

\* Every step keeps tokens and live timers in correspondence.
LEMMA TokenStep ==
    TypeOK /\ TokenControlsTimer /\ [Next]_vars => TokenControlsTimer'
<1> SUFFICES ASSUME TypeOK, TokenControlsTimer, [Next]_vars PROVE TokenControlsTimer'
  OBVIOUS
<1> USE DEF timerVars, TokenHeld
<1>0. /\ timers \in [TimerId -> Timer \cup {NoTimer}]
      /\ grace_tokens \in [Serial -> TimerId \cup {NoToken}]
      /\ \A t \in TimerId : timers[t] # NoTimer =>
            timers[t] \in Timer /\ timers[t].serial \in Serial
  BY DEF TypeOK, Timer
<1>1. ASSUME NEW x \in Serial, HandleUdevAdd(x) PROVE TokenControlsTimer'
  <2>1. /\ grace_tokens'[x] = NoToken
        /\ \A y \in Serial : y # x => grace_tokens'[y] = grace_tokens[y]
        /\ timers' = Cancelled({grace_tokens[x]})
    BY <1>0, <1>1 DEF HandleUdevAdd, DropToken
  <2>2. \A t \in TimerId : t # grace_tokens[x] => timers'[t] = timers[t]
    BY <2>1, CancelledEffect, Zenon
  <2>3. grace_tokens[x] \in TimerId /\ timers'[grace_tokens[x]] # NoTimer =>
           timers'[grace_tokens[x]].cancelled
    BY <2>1, CancelledEffect, Zenon
  <2>4. ASSUME NEW y \in Serial, grace_tokens'[y] # NoToken
        PROVE  /\ timers'[grace_tokens'[y]] # NoTimer
               /\ timers'[grace_tokens'[y]].serial = y
               /\ ~timers'[grace_tokens'[y]].cancelled
    <3>1. y # x /\ grace_tokens'[y] = grace_tokens[y]
      BY <2>1, <2>4
    <3>2. grace_tokens[y] # grace_tokens[x]
      BY <3>1, <2>4 DEF TokenControlsTimer
    <3>3. timers'[grace_tokens[y]] = timers[grace_tokens[y]]
      BY <3>1, <3>2, <2>2, <2>4, <1>0
    <3>. QED
      BY <3>1, <3>3, <2>4 DEF TokenControlsTimer
  <2>5. ASSUME NEW t \in TimerId, timers'[t] # NoTimer, ~timers'[t].cancelled
        PROVE  grace_tokens'[timers'[t].serial] = t
    <3>1. t # grace_tokens[x] /\ timers'[t] = timers[t]
      BY <2>2, <2>3, <2>5
    <3>2. grace_tokens[timers[t].serial] = t /\ timers[t].serial \in Serial
      BY <3>1, <2>5, <1>0 DEF TokenControlsTimer
    <3>. QED
      BY <3>1, <3>2, <2>1
  <2>. QED
    BY <2>4, <2>5 DEF TokenControlsTimer
<1>2. ASSUME NEW x \in Serial, NEW t \in TimerId, ArmGraceTimer(x, t)
      PROVE  TokenControlsTimer'
  <2>1. /\ grace_tokens[x] = NoToken /\ timers[t] = NoTimer
        /\ grace_tokens'[x] = t
        /\ \A y \in Serial : y # x => grace_tokens'[y] = grace_tokens[y]
        /\ \A v \in TimerId : v # t => timers'[v] = timers[v]
        /\ timers'[t] = NewTimer(x, FindBySerial(by_id, x))
    BY <1>0, <1>2 DEF ArmGraceTimer
  <2>2. FindBySerial(by_id, x) \subseteq ActiveSession
    BY DEF FindBySerial, Tracked, TypeOK, ByIdMaps
  <2>3. timers'[t] # NoTimer /\ timers'[t].serial = x /\ ~timers'[t].cancelled
    <3>1. NewTimer(x, FindBySerial(by_id, x)) \in Timer
      BY <2>2 DEF NewTimer, Timer
    <3>2. timers'[t].serial = x /\ timers'[t].cancelled = FALSE
      BY <2>1 DEF NewTimer
    <3>. QED
      BY <2>1, <3>1, <3>2, TimerConstants
  <2>4. ASSUME NEW y \in Serial, grace_tokens'[y] # NoToken
        PROVE  /\ timers'[grace_tokens'[y]] # NoTimer
               /\ timers'[grace_tokens'[y]].serial = y
               /\ ~timers'[grace_tokens'[y]].cancelled
    <3>1. CASE y = x
      BY <3>1, <2>1, <2>3, SMTT(30)
    <3>2. CASE y # x
      <4>1. grace_tokens[y] \in TimerId /\ grace_tokens[y] # t
        BY <3>2, <2>1, <2>4, <1>0 DEF TokenControlsTimer
      <4>. QED
        BY <3>2, <4>1, <2>1, <2>4, SMTT(30) DEF TokenControlsTimer
    <3>. QED
      BY <3>1, <3>2
  <2>5. ASSUME NEW v \in TimerId, timers'[v] # NoTimer, ~timers'[v].cancelled
        PROVE  grace_tokens'[timers'[v].serial] = v
    <3>1. CASE v = t
      BY <3>1, <2>1, <2>3
    <3>2. CASE v # t
      <4>1. grace_tokens[timers[v].serial] = v /\ timers[v].serial \in Serial
        BY <3>2, <2>1, <2>5, <1>0, SMTT(30) DEF TokenControlsTimer
      <4>. QED
        BY <3>2, <4>1, <2>1, MonitordConstants, SMTT(30)
    <3>. QED
      BY <3>1, <3>2, SMTT(30)
  <2>. QED
    BY <2>4, <2>5 DEF TokenControlsTimer
<1>3. CASE HandleSuspend
  <2>1. \A y \in Serial : grace_tokens'[y] = NoToken
    BY <1>3 DEF HandleSuspend, DrainTokens
  <2>2. \A t \in TimerId : timers'[t] # NoTimer => timers'[t].cancelled
    BY <1>3, SuspendCancelsAll, SMTT(30)
  <2>. QED
    BY <2>1, <2>2 DEF TokenControlsTimer
<1>4. ASSUME NEW t \in TimerId, GraceElapses(t) \/ GraceExpires(t)
      PROVE  TokenControlsTimer'
  <2>1. /\ timers[t] # NoTimer
        /\ grace_tokens' = grace_tokens
        /\ \A v \in TimerId : v # t => timers'[v] = timers[v]
        /\ timers'[t] \in Timer
        /\ timers'[t].serial = timers[t].serial
        /\ timers'[t].cancelled = timers[t].cancelled
    BY <1>0, <1>4 DEF GraceElapses, GraceExpires, Timer
  <2>. QED
    BY <2>1, <1>0, TimerConstants DEF TokenControlsTimer
<1>5. ASSUME NEW t \in TimerId, GraceCancelled(t) PROVE TokenControlsTimer'
  BY <1>0, <1>5 DEF GraceCancelled, TokenControlsTimer
<1>6. ASSUME NEW t \in TimerId, NEW s \in timers[t].left, DispatchAction(t, s)
      PROVE  TokenControlsTimer'
  <2>1. /\ timers[t] # NoTimer
        /\ grace_tokens' = grace_tokens
        /\ \A v \in TimerId : v # t => timers'[v] = timers[v]
        /\ timers'[t] = AfterDispatch(timers[t], s)
    BY <1>0, <1>6 DEF DispatchAction
  <2>2. CASE timers[t].cancelled /\ timers[t].left = {s}
    BY <2>1, <2>2, <1>0, SMTT(30) DEF AfterDispatch, TokenControlsTimer
  <2>3. CASE ~(timers[t].cancelled /\ timers[t].left = {s})
    <3>1. /\ timers'[t] \in Timer
          /\ timers'[t].serial = timers[t].serial
          /\ timers'[t].cancelled = timers[t].cancelled
      BY <2>1, <2>3, <1>0 DEF AfterDispatch, Timer
    <3>. QED
      BY <2>1, <3>1, <1>0, TimerConstants DEF TokenControlsTimer
  <2>. QED
    BY <2>2, <2>3, SMTT(30)
<1>7. CASE DaemonStops
  BY <1>7 DEF DaemonStops, TokenControlsTimer
<1>8. CASE UNCHANGED timerVars
  BY <1>8 DEF TokenControlsTimer
<1>. QED
  BY <1>1, <1>2, <1>3, <1>4, <1>5, <1>6, <1>7, <1>8, Frames DEF TimerStep

\* In every behaviour grace_tokens and the grace-timer tasks correspond: at
\* most one uncancelled timer per serial, always cancellable by a reinsert.
THEOREM TokenAlwaysControlsTimer == Spec => []TokenControlsTimer
<1>1. Init => TokenControlsTimer
  BY DEF Init, TokenControlsTimer, TokenHeld
<1>. QED
  BY <1>1, TokenStep, TypeCorrect, PTL DEF Spec

\* Only PrepareForSleep(true) enters the state SuspendingAt.
LEMMA SuspendFrame ==
    ASSUME [Next]_vars
    PROVE  HandleSuspend \/ suspend_state' = suspend_state
           \/ suspend_state' # "SuspendingAt"
<1> USE DEF logindVars
<1>1. CASE StateManager
  BY <1>1, ZenonT(30) DEF StateManager, HandleSessionOpen, HandleSessionClose,
              HandleUpdateSessionTarget, RefuseSessionOpen,
              HandleGetActiveSessionByUid, IgnoreUdevRemove, ArmGraceTimer,
              HandleUdevAdd, HandleResume, HandleSessionRemoved
<1>2. CASE \E t \in TimerId : GraceElapses(t) \/ TimerTask(t)
  BY <1>2 DEF TimerTask, GraceElapses, GraceExpires, GraceCancelled, DispatchAction
<1>3. CASE SuspendGraceElapses \/ Runner \/ UdevMonitorRetries
  BY <1>3 DEF Runner, SuspendGraceElapses, StartAction, FinishAction, UdevMonitorRetries
<1>4. CASE Host
  BY <1>4 DEF Host, DevicePlugged, DeviceUnplugged, LogindSessionEnds
<1>5. CASE Disturbance
  BY <1>5 DEF Disturbance, SleepSignal, UdevMonitorFails, ListenerExits,
              DaemonStops, DaemonStarts, ConnectRefused, CallTimesOut
<1>6. CASE Callers
  BY <1>6 DEF Callers, SendRequest, TakeResult
<1>7. CASE UNCHANGED vars
  BY <1>7 DEF vars
<1>. QED
  BY <1>1, <1>2, <1>3, <1>4, <1>5, <1>6, <1>7 DEF Next, Daemon

\* In every behaviour no uncancelled timer survives PrepareForSleep(true) and
\* none is armed before the resume.
THEOREM SuspendAlwaysDisarms == Spec => []SuspendDisarmsTimers
<1> USE DEF timerVars
<1>1. Init => SuspendDisarmsTimers
  BY DEF Init, SuspendDisarmsTimers
<1>2. TypeOK /\ TokenControlsTimer /\ SuspendDisarmsTimers /\ [Next]_vars
        => SuspendDisarmsTimers'
  <2> SUFFICES ASSUME TypeOK, TokenControlsTimer, SuspendDisarmsTimers, [Next]_vars,
                      suspend_state' = "SuspendingAt",
                      NEW v \in TimerId, timers'[v] # NoTimer
               PROVE  timers'[v].cancelled
    BY DEF SuspendDisarmsTimers
  <2>1. CASE HandleSuspend
    BY <2>1, SuspendCancelsAll
  <2>2. CASE suspend_state = "SuspendingAt"
    <3>0. timers \in [TimerId -> Timer \cup {NoTimer}]
      BY DEF TypeOK
    <3>1. ASSUME NEW x \in Serial, HandleUdevAdd(x) PROVE timers'[v].cancelled
      <4>1. timers' = Cancelled({grace_tokens[x]})
        BY <3>1, Zenon DEF HandleUdevAdd
      <4>. QED
        BY <4>1, <2>2, CancelledEffect, Zenon DEF SuspendDisarmsTimers
    <3>2. ASSUME NEW x \in Serial, NEW t \in TimerId, ArmGraceTimer(x, t)
          PROVE  timers'[v].cancelled
      BY <2>2, <3>2 DEF ArmGraceTimer, InGraceWindow
    <3>3. ASSUME NEW t \in TimerId, GraceElapses(t) \/ GraceExpires(t)
          PROVE  timers'[v].cancelled
      <4>1. /\ timers[t] # NoTimer
            /\ \A w \in TimerId : w # t => timers'[w] = timers[w]
            /\ timers'[t].cancelled = timers[t].cancelled
        BY <3>0, <3>3 DEF GraceElapses, GraceExpires, Timer
      <4>. QED
        BY <4>1, <2>2 DEF SuspendDisarmsTimers
    <3>4. ASSUME NEW t \in TimerId, GraceCancelled(t) PROVE timers'[v].cancelled
      BY <3>0, <3>4, <2>2 DEF GraceCancelled, SuspendDisarmsTimers
    <3>5. ASSUME NEW t \in TimerId, NEW s \in timers[t].left, DispatchAction(t, s)
          PROVE  timers'[v].cancelled
      <4>1. /\ timers[t] # NoTimer
            /\ \A w \in TimerId : w # t => timers'[w] = timers[w]
            /\ timers'[t] = AfterDispatch(timers[t], s)
        BY <3>0, <3>5 DEF DispatchAction
      <4>2. timers'[t] # NoTimer => timers'[t].cancelled = timers[t].cancelled
        BY <4>1, <3>0 DEF AfterDispatch, Timer
      <4>. QED
        BY <4>1, <4>2, <2>2 DEF SuspendDisarmsTimers
    <3>6. CASE DaemonStops
      BY <3>6 DEF DaemonStops
    <3>7. CASE UNCHANGED timerVars
      BY <3>7, <2>2 DEF SuspendDisarmsTimers
    <3>. QED
      BY <2>1, <3>1, <3>2, <3>3, <3>4, <3>5, <3>6, <3>7, Frames, ZenonT(30) DEF TimerStep
  <2>. QED
    BY <2>1, <2>2, SuspendFrame
<1>. QED
  BY <1>1, <1>2, TypeCorrect, TokenAlwaysControlsTimer, PTL DEF Spec

=============================================================================
