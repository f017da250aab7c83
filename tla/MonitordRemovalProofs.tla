------------------------ MODULE MonitordRemovalProofs ------------------------
(***************************************************************************)
(* The proof that no removal is forgotten (RemovalCovered), by the         *)
(* inductive invariant RemovalInv taken serial by serial.                  *)
(***************************************************************************)
EXTENDS MonitordProofs

\* A leaf that names no prover is tried with these in turn, the last time with
\* more time.
USE SMT, Zenon, SMTT(30)

Events == {"add", "remove"}

-----------------------------------------------------------------------------
(* Queues of udev events.                                                  *)

\* What taking the head of a queue keeps.
LEMMA QueueTail ==
    ASSUME NEW q \in Seq(Events), q # << >>, NEW e
    PROVE  /\ Queued(Tail(q), e) => Queued(q, e)
           /\ Queued(q, e) /\ Head(q) # e => Queued(Tail(q), e)
           /\ Tail(q) # << >> => (LastIs(Tail(q), e) <=> LastIs(q, e))
           /\ Tail(q) # << >> /\ LastIs(q, e) => Queued(Tail(q), e)
           /\ Tail(q) = << >> /\ LastIs(q, e) => Head(q) = e
<1>1. /\ Tail(q) \in Seq(Events)
      /\ Len(q) \in Nat \ {0}
      /\ Len(Tail(q)) = Len(q) - 1
      /\ \A i \in 1 .. Len(Tail(q)) : Tail(q)[i] = q[i + 1]
      /\ Head(q) = q[1]
  OBVIOUS
<1>2. Tail(q) # << >> => Len(Tail(q)) > 0
  BY <1>1
<1>3. Tail(q) = << >> => Len(q) = 1
  <2>1. Tail(q) = << >> => Len(Tail(q)) = 0
    BY EmptySeq, Zenon
  <2>. QED
    BY <1>1, <2>1
<1>4. Queued(Tail(q), e) => Queued(q, e)
  BY <1>1 DEF Queued
<1>5. Queued(q, e) /\ Head(q) # e => Queued(Tail(q), e)
  <2> SUFFICES ASSUME NEW i \in 1 .. Len(q), q[i] = e, q[1] # e
               PROVE  \E j \in 1 .. Len(Tail(q)) : Tail(q)[j] = e
    BY <1>1 DEF Queued
  <2>1. i - 1 \in 1 .. Len(Tail(q)) /\ Tail(q)[i - 1] = e
    BY <1>1
  <2>. QED
    BY <2>1
<1>6. Tail(q) # << >> => (LastIs(Tail(q), e) <=> LastIs(q, e))
  BY <1>1, <1>2 DEF LastIs
<1>7. Tail(q) # << >> /\ LastIs(q, e) => Queued(Tail(q), e)
  BY <1>1, <1>2, <1>6 DEF Queued, LastIs
<1>8. Tail(q) = << >> /\ LastIs(q, e) => Head(q) = e
  BY <1>1, <1>3 DEF LastIs
<1>. QED
  BY <1>4, <1>5, <1>6, <1>7, <1>8

\* What a burst of events appended to a queue adds.
LEMMA QueueAppend ==
    ASSUME NEW q \in Seq(Events), NEW n \in 1 .. 2, NEW e \in Events
    PROVE  LET r == q \o Repeat(n, e) IN
           /\ r # << >>
           /\ LastIs(r, e)
           /\ Queued(r, e)
           /\ \A f : Queued(q, f) => Queued(r, f)
<1> DEFINE r == q \o Repeat(n, e)
<1>1. /\ Repeat(n, e) \in Seq(Events)
      /\ Len(Repeat(n, e)) = n
      /\ Repeat(n, e)[n] = e
  <2>1. n \in Nat /\ n \in 1 .. n
    OBVIOUS
  <2>. QED
    BY <2>1, RepeatType, Zenon
<1>2. /\ r \in Seq(Events)
      /\ Len(r) = Len(q) + n
      /\ \A i \in 1 .. Len(q) : r[i] = q[i]
      /\ r[Len(q) + n] = e
  BY <1>1
<1>3. Len(q) \in Nat
  OBVIOUS
<1> HIDE DEF r
<1>4. r # << >> /\ LastIs(r, e)
  BY <1>2, <1>3 DEF LastIs
<1>5. Queued(r, e)
  BY <1>2, <1>3, <1>4 DEF Queued, LastIs
<1>6. \A f : Queued(q, f) => Queued(r, f)
  BY <1>2, <1>3 DEF Queued
<1>. QED
  BY <1>4, <1>5, <1>6 DEF r

-----------------------------------------------------------------------------
(* The invariant of one serial, and what leaves it alone.                  *)

SessionsOn(x) == {id \in Tracked(by_id) : by_id[id].usb_serial = x}

SerialInv(x) ==
    x \notin missed =>
        /\ x \notin plugged =>
              \A id \in SessionsOn(x) :
                  Queued(udevQ[x], "remove") \/ SnapshotHolds(x, id)
        /\ udevQ[x] # << >> => (x \in plugged <=> LastIs(udevQ[x], "add"))
        /\ TokenHeld(x) /\ ~Queued(udevQ[x], "add") =>
              x \notin plugged /\ \A id \in SessionsOn(x) : SnapshotHolds(x, id)

\* RemovalInv is SerialInv of every serial, and a quiet stopped daemon.
LEMMA RemovalInvBySerial ==
    RemovalInv <=> DownIsQuiet /\ \A x \in Serial : SerialInv(x)
BY DEF RemovalInv, RemovalCovered, QueueTellsPresence, TokenCoversSessions,
       SerialInv, SessionsOn

\* A step that neither adds a session on x nor touches its device, queue,
\* token or snapshot keeps the invariant of x.
LEMMA SerialFrame ==
    ASSUME NEW x \in Serial, SerialInv(x),
           udevQ'[x] = udevQ[x],
           x \in plugged' <=> x \in plugged,
           x \notin missed' => x \notin missed,
           grace_tokens'[x] = grace_tokens[x],
           TokenHeld(x) =>
               timers'[grace_tokens[x]].sessions = timers[grace_tokens[x]].sessions,
           SessionsOn(x)' \subseteq SessionsOn(x)
    PROVE  SerialInv(x)'
<1>1. \A id : SnapshotHolds(x, id) => SnapshotHolds(x, id)'
  BY DEF SnapshotHolds, TokenHeld
<1>2. TokenHeld(x)' <=> TokenHeld(x)
  BY DEF TokenHeld
<1>3. /\ \A e : Queued(udevQ[x], e)' <=> Queued(udevQ[x], e)
      /\ \A e : LastIs(udevQ[x], e)' <=> LastIs(udevQ[x], e)
  BY DEF Queued, LastIs
<1>. QED
  BY <1>1, <1>2, <1>3 DEF SerialInv

-----------------------------------------------------------------------------
(* Steps of the registry.                                                  *)

\* Handlers that only drop or retarget sessions keep every serial's invariant.
LEMMA ShrinkStep ==
    ASSUME TypeOK, NEW x \in Serial, SerialInv(x),
           UNCHANGED <<udevVars, missed, timerVars>>,
           SessionsOn(x)' \subseteq SessionsOn(x)
    PROVE  SerialInv(x)'
BY SerialFrame DEF udevVars, timerVars

\* SessionOpen adds a session only on a device that is there.
LEMMA OpenStep ==
    ASSUME TypeOK, NEW x \in Serial, SerialInv(x),
           NEW m \in inbox, HandleSessionOpen(m)
    PROVE  SerialInv(x)'
<1> DEFINE s == m.req.session
<1>0. /\ s \in ActiveSession /\ s.session_id \in SessionId /\ s # NoSession
      /\ by_id' = [by_id EXCEPT ![s.session_id] = s]
      /\ by_id \in ByIdMaps
      /\ SerialPresent(s)
      /\ UNCHANGED <<udevVars, missed, timerVars>>
  BY RequestFields, RegistryConstants DEF HandleSessionOpen, AddById, TypeOK, ActiveSession
<1> HIDE DEF s
<1>1. CASE s.usb_serial # x
  <2>1. SessionsOn(x)' \subseteq SessionsOn(x)
    BY <1>0, <1>1 DEF SessionsOn, Tracked, ByIdMaps
  <2>. QED
    BY <1>0, <2>1, ShrinkStep
<1>2. CASE s.usb_serial = x
  <2>1. x \in plugged
    BY <1>0, <1>2, RegistryConstants DEF SerialPresent
  <2>2. x \notin missed => ~(TokenHeld(x) /\ ~Queued(udevQ[x], "add"))
    BY <2>1 DEF SerialInv
  <2>. QED
    BY <1>0, <2>1, <2>2 DEF SerialInv, udevVars, timerVars, TokenHeld, Queued
<1>. QED
  BY <1>1, <1>2

\* Registry steps of a running daemon.
LEMMA RegistryKeepsSerials ==
    ASSUME TypeOK, NEW x \in Serial, SerialInv(x), RegistryStep, up, up'
    PROVE  SerialInv(x)'
<1>1. ASSUME NEW m \in inbox, HandleSessionOpen(m) PROVE SerialInv(x)'
  BY <1>1, OpenStep
<1>2. ASSUME NEW m \in inbox, HandleSessionClose(m) PROVE SerialInv(x)'
  <2>1. SessionsOn(x)' \subseteq SessionsOn(x)
    BY <1>2 DEF HandleSessionClose, RemoveById, SessionsOn, Tracked
  <2>. QED
    BY <1>2, <2>1, ShrinkStep DEF HandleSessionClose
<1>3. ASSUME NEW m \in inbox, HandleUpdateSessionTarget(m) PROVE SerialInv(x)'
  <2>1. CASE m.req.id \in Tracked(by_id)
    <3>1. m.req.target \in LogindId \cup {NoLogind}
      BY <1>3, RequestFields DEF HandleUpdateSessionTarget
    <3>2. by_id' = UpdateTarget(by_id, m.req.id, m.req.target) /\ by_id \in ByIdMaps
      BY <1>3, <2>1 DEF HandleUpdateSessionTarget, TypeOK
    <3>3. /\ Tracked(by_id') = Tracked(by_id)
          /\ \A i \in Tracked(by_id) : by_id'[i].usb_serial = by_id[i].usb_serial
      BY <2>1, <3>1, <3>2, UpdateTargetFacts
    <3>4. SessionsOn(x)' \subseteq SessionsOn(x)
      BY <3>3 DEF SessionsOn, Tracked
    <3>. QED
      BY <1>3, <3>4, ShrinkStep DEF HandleUpdateSessionTarget
  <2>2. CASE m.req.id \notin Tracked(by_id)
    <3>1. SessionsOn(x)' \subseteq SessionsOn(x)
      BY <1>3, <2>2 DEF HandleUpdateSessionTarget, SessionsOn, Tracked
    <3>. QED
      BY <1>3, <3>1, ShrinkStep DEF HandleUpdateSessionTarget
  <2>. QED
    BY <2>1, <2>2
<1>4. ASSUME NEW l \in LogindId, HandleSessionRemoved(l) PROVE SerialInv(x)'
  <2>1. SessionsOn(x)' \subseteq SessionsOn(x)
    BY <1>4 DEF HandleSessionRemoved, RemoveById, SessionsOn, Tracked
  <2>. QED
    BY <1>4, <2>1, ShrinkStep DEF HandleSessionRemoved
<1>5. ~DaemonStops /\ ~DaemonStarts
  BY DEF DaemonStops, DaemonStarts
<1>. QED
  BY <1>1, <1>2, <1>3, <1>4, <1>5 DEF RegistryStep

-----------------------------------------------------------------------------
(* Steps of devices and of the udev monitor.                               *)

\* Devices come and go; the event is queued, or the serial is recorded as
\* missed.
LEMMA DeviceStep ==
    ASSUME TypeOK, NEW x \in Serial, SerialInv(x), NEW y \in Serial,
           NEW nodes \in 1 .. 2, DevicePlugged(y, nodes) \/ DeviceUnplugged(y, nodes)
    PROVE  SerialInv(x)'
<1> USE DEF regVars, timerVars
<1>0. SessionsOn(x)' = SessionsOn(x) /\ udevQ \in [Serial -> Seq(Events)]
  BY DEF DevicePlugged, DeviceUnplugged, SessionsOn, Tracked, TypeOK, Events
<1>1. CASE x # y
  <2>1. /\ udevQ'[x] = udevQ[x]
        /\ x \in plugged' <=> x \in plugged
        /\ x \notin missed' => x \notin missed
        /\ UNCHANGED <<grace_tokens, timers>>
    BY <1>0, <1>1 DEF DevicePlugged, DeviceUnplugged
  <2>. QED
    BY <1>0, <2>1, SerialFrame
<1>2. CASE x = y /\ DevicePlugged(y, nodes)
  <2>1. CASE up /\ udev_up
    <3>1. x \in plugged' /\ udevQ'[x] = udevQ[x] \o Repeat(nodes, "add")
      BY <1>0, <1>2, <2>1 DEF DevicePlugged
    <3>2. /\ LastIs(udevQ'[x], "add")
          /\ Queued(udevQ'[x], "add")
      <4> DEFINE q == udevQ[x]
                 r == udevQ'[x]
      <4>1. q \in Seq(Events) /\ "add" \in Events /\ r = q \o Repeat(nodes, "add")
        BY <1>0, <3>1 DEF Events
      <4> HIDE DEF q, r
      <4>2. /\ LastIs(r, "add")
            /\ Queued(r, "add")
            /\ Queued(q, "add") => Queued(r, "add")
        BY <4>1, QueueAppend, Zenon
      <4>. QED
        BY <4>2 DEF q, r
    <3>3. Queued(udevQ[x], "add")' /\ LastIs(udevQ[x], "add")'
      BY <3>2 DEF Queued, LastIs
    <3>. QED
      BY <3>1, <3>2, <3>3 DEF SerialInv
  <2>2. CASE ~(up /\ udev_up)
    BY <1>2, <2>2, SMTT(30) DEF DevicePlugged, SerialInv
  <2>. QED
    BY <2>1, <2>2
<1>3. CASE x = y /\ DeviceUnplugged(y, nodes)
  <2>1. CASE up /\ udev_up
    <3>1. /\ x \in plugged /\ x \notin plugged' /\ missed' = missed
          /\ udevQ'[x] = udevQ[x] \o Repeat(nodes, "remove")
          /\ grace_tokens' = grace_tokens
      BY <1>0, <1>3, <2>1 DEF DeviceUnplugged
    <3>2. /\ LastIs(udevQ'[x], "remove")
          /\ Queued(udevQ'[x], "remove")
          /\ Queued(udevQ[x], "add") => Queued(udevQ'[x], "add")
      <4> DEFINE q == udevQ[x]
                 r == udevQ'[x]
      <4>1. q \in Seq(Events) /\ "remove" \in Events /\ r = q \o Repeat(nodes, "remove")
        BY <1>0, <3>1 DEF Events
      <4> HIDE DEF q, r
      <4>2. /\ LastIs(r, "remove")
            /\ Queued(r, "remove")
            /\ Queued(q, "add") => Queued(r, "add")
        BY <4>1, QueueAppend, Zenon
      <4>. QED
        BY <4>2 DEF q, r
    <3>3. x \notin missed => ~(TokenHeld(x) /\ ~Queued(udevQ[x], "add"))
      BY <3>1 DEF SerialInv
    <3>4. TokenHeld(x)' <=> TokenHeld(x)
      BY <3>1 DEF TokenHeld
    <3>5. /\ ~LastIs(udevQ[x], "add")'
          /\ Queued(udevQ[x], "remove")'
          /\ Queued(udevQ[x], "add") => Queued(udevQ[x], "add")'
      BY <3>2 DEF Queued, LastIs
    <3>. QED
      BY <3>1, <3>2, <3>3, <3>4, <3>5 DEF SerialInv
  <2>2. CASE ~(up /\ udev_up)
    BY <1>3, <2>2 DEF DeviceUnplugged, SerialInv
  <2>. QED
    BY <2>1, <2>2
<1>. QED
  BY <1>1, <1>2, <1>3

\* A failing monitor socket truncates queues, and records the serials it cuts.
LEMMA MonitorFailsStep ==
    ASSUME TypeOK, NEW x \in Serial, SerialInv(x),
           NEW kept \in [Serial -> 0 .. MaxPending], UdevMonitorFails(kept)
    PROVE  SerialInv(x)'
<1> USE DEF regVars, timerVars
<1>1. CASE kept[x] < Len(udevQ[x])
  BY <1>1 DEF UdevMonitorFails, SerialInv
<1>2. CASE ~(kept[x] < Len(udevQ[x]))
  <2>1. kept[x] \in Nat /\ udevQ[x] \in Seq(Events)
    BY MonitordConstants DEF TypeOK, Events
  <2>2. kept[x] = Len(udevQ[x])
    BY <1>2, <2>1 DEF UdevMonitorFails
  <2>3. udevQ'[x] = SubSeq(udevQ[x], 1, Len(udevQ[x]))
    BY <2>2 DEF UdevMonitorFails
  <2>4. SubSeq(udevQ[x], 1, Len(udevQ[x])) = udevQ[x]
    BY <2>1
  <2>5. SessionsOn(x)' = SessionsOn(x)
    BY DEF UdevMonitorFails, SessionsOn, Tracked
  <2>6. /\ x \in plugged' <=> x \in plugged
        /\ x \notin missed' => x \notin missed
        /\ UNCHANGED <<grace_tokens, timers>>
    BY DEF UdevMonitorFails
  <2>. QED
    BY <2>3, <2>4, <2>5, <2>6, SerialFrame
<1>. QED
  BY <1>1, <1>2

-----------------------------------------------------------------------------
(* Steps of handle_udev.                                                   *)

\* A Remove that arms no timer: in the suspend window the serial is recorded
\* as missed; with a token, the token's snapshot already covers.
LEMMA IgnoreStep ==
    ASSUME TypeOK, NEW x \in Serial, SerialInv(x), NEW y \in Serial,
           IgnoreUdevRemove(y)
    PROVE  SerialInv(x)'
<1> USE DEF regVars, timerVars
<1>0. /\ SessionsOn(x)' = SessionsOn(x)
      /\ udevQ \in [Serial -> Seq(Events)]
      /\ UNCHANGED <<plugged, grace_tokens, timers>>
      /\ x \notin missed' => x \notin missed
  BY DEF IgnoreUdevRemove, SessionsOn, Tracked, TypeOK, Events
<1>1. CASE x # y
  <2>1. udevQ'[x] = udevQ[x]
    BY <1>0, <1>1, SMTT(30) DEF IgnoreUdevRemove
  <2>. QED
    BY <1>0, <2>1, SerialFrame
<1>2. CASE x = y
  <2> DEFINE q == udevQ[x]
  <2>1. /\ q \in Seq(Events) /\ q # << >> /\ Head(q) = "remove"
        /\ udevQ'[x] = Tail(q)
    BY <1>0, <1>2 DEF IgnoreUdevRemove
  <2>2. /\ Queued(Tail(q), "add") => Queued(q, "add")
        /\ Queued(q, "add") => Queued(Tail(q), "add")
        /\ Tail(q) # << >> => (LastIs(Tail(q), "add") <=> LastIs(q, "add"))
        /\ Tail(q) # << >> /\ LastIs(q, "remove") => Queued(Tail(q), "remove")
        /\ Tail(q) = << >> => ~LastIs(q, "add")
    BY <2>1, QueueTail
  <2>3. LastIs(q, "add") \/ LastIs(q, "remove")
    BY <2>1 DEF LastIs, Events
  <2>4. Tail(q) = << >> => ~Queued(q, "add")
    <3>1. ~Queued(<< >>, "add")
      BY EmptySeq DEF Queued
    <3>. QED
      BY <2>2, <3>1, Zenon
  <2>5. \A id : SnapshotHolds(x, id)' <=> SnapshotHolds(x, id)
    BY <1>0 DEF SnapshotHolds, TokenHeld
  <2>6. TokenHeld(x)' <=> TokenHeld(x)
    BY <1>0 DEF TokenHeld
  <2>7. /\ Queued(udevQ[x], "add")' <=> Queued(q, "add")
        /\ Queued(udevQ[x], "remove")' <=> Queued(Tail(q), "remove")
        /\ (udevQ[x] # << >>)' <=> Tail(q) # << >>
        /\ LastIs(udevQ[x], "add")' <=> LastIs(Tail(q), "add")
    BY <2>1, <2>2 DEF Queued, LastIs
  <2>8. ASSUME x \notin missed', x \notin plugged, NEW id \in SessionsOn(x)
        PROVE  Queued(Tail(q), "remove") \/ SnapshotHolds(x, id)
    <3>1. x \notin missed /\ LastIs(q, "remove")
      BY <1>0, <2>1, <2>3, <2>8 DEF SerialInv
    <3>2. CASE Tail(q) # << >>
      BY <2>2, <3>1, <3>2
    <3>3. CASE Tail(q) = << >>
      <4>1. ~InGraceWindow
        BY <1>2, <2>8 DEF IgnoreUdevRemove
      <4>2. FindBySerial(by_id, x) # {}
        BY <2>8 DEF FindBySerial, SessionsOn
      <4>3. TokenHeld(x)
        BY <1>2, <4>1, <4>2 DEF IgnoreUdevRemove
      <4>. QED
        BY <2>4, <2>8, <3>1, <3>3, <4>3 DEF SerialInv
    <3>. QED
      BY <3>2, <3>3
  <2>9. ASSUME x \notin missed', x \notin plugged', NEW id \in SessionsOn(x)'
        PROVE  Queued(udevQ[x], "remove")' \/ SnapshotHolds(x, id)'
    BY <1>0, <2>5, <2>7, <2>8, <2>9, SMTT(30)
  <2>10. ASSUME x \notin missed', (udevQ[x] # << >>)'
         PROVE  x \in plugged' <=> LastIs(udevQ[x], "add")'
    BY <1>0, <2>1, <2>2, <2>7, <2>10, SMTT(30) DEF SerialInv
  <2>11. ASSUME x \notin missed', TokenHeld(x)', ~Queued(udevQ[x], "add")'
         PROVE  x \notin plugged' /\ \A id \in SessionsOn(x)' : SnapshotHolds(x, id)'
    BY <1>0, <2>5, <2>6, <2>7, <2>11 DEF SerialInv
  <2>. QED
    BY <2>9, <2>10, <2>11 DEF SerialInv
<1>. QED
  BY <1>1, <1>2

\* A Remove that arms a timer: the snapshot is every session on the serial.
LEMMA ArmStep ==
    ASSUME TypeOK, IndexConsistent, NEW x \in Serial, SerialInv(x),
           NEW y \in Serial, NEW t \in TimerId, ArmGraceTimer(y, t),
           TokenControlsTimer
    PROVE  SerialInv(x)'
<1> USE DEF regVars
<1>0. /\ SessionsOn(x)' = SessionsOn(x)
      /\ udevQ \in [Serial -> Seq(Events)]
      /\ grace_tokens \in [Serial -> TimerId \cup {NoToken}]
      /\ timers \in [TimerId -> Timer \cup {NoTimer}]
      /\ UNCHANGED <<plugged, missed>>
  BY SMTT(30) DEF ArmGraceTimer, SessionsOn, Tracked, TypeOK, Events
<1>1. CASE x # y
  <2>1. udevQ'[x] = udevQ[x] /\ grace_tokens'[x] = grace_tokens[x]
    BY <1>0, <1>1 DEF ArmGraceTimer
  <2>2. TokenHeld(x) => grace_tokens[x] \in TimerId /\ grace_tokens[x] # t
    BY <1>0 DEF TokenHeld, TokenControlsTimer, ArmGraceTimer
  <2>3. TokenHeld(x) => timers'[grace_tokens[x]] = timers[grace_tokens[x]]
    BY <1>0, <2>2 DEF ArmGraceTimer
  <2>. QED
    BY <1>0, <2>1, <2>3, SerialFrame
<1>2. CASE x = y
  <2> DEFINE q == udevQ[x]
  <2>1. /\ q \in Seq(Events) /\ q # << >> /\ Head(q) = "remove"
        /\ udevQ'[x] = Tail(q)
        /\ grace_tokens'[x] = t
        /\ timers'[t] = NewTimer(x, FindBySerial(by_id, x))
    BY <1>0, <1>2, SMTT(30) DEF ArmGraceTimer
  <2>2. /\ Queued(q, "add") => Queued(Tail(q), "add")
        /\ Tail(q) # << >> => (LastIs(Tail(q), "add") <=> LastIs(q, "add"))
    BY <2>1, QueueTail
  <2>3. LastIs(q, "add") => Queued(q, "add")
    BY <2>1 DEF LastIs, Queued
  <2>4. \A id \in SessionsOn(x) : SnapshotHolds(x, id)'
    <3> SUFFICES ASSUME NEW id \in SessionsOn(x)
                 PROVE  SnapshotHolds(x, id)'
      OBVIOUS
    <3>1. by_id[id] \in FindBySerial(by_id, x) /\ by_id[id].session_id = id
      BY DEF FindBySerial, SessionsOn, IndexConsistent, IndexAgrees
    <3>2. timers'[t].sessions = FindBySerial(by_id, x)
      BY <2>1, SMTT(30) DEF NewTimer
    <3>. QED
      BY <2>1, <3>1, <3>2, MonitordConstants DEF SnapshotHolds, TokenHeld
  <2>5. /\ Queued(udevQ[x], "add")' <=> Queued(Tail(q), "add")
        /\ (udevQ[x] # << >>)' <=> Tail(q) # << >>
        /\ LastIs(udevQ[x], "add")' <=> LastIs(Tail(q), "add")
    BY <2>1 DEF Queued, LastIs
  <2> HIDE DEF q
  <2>6. q = udevQ[x]
    BY DEF q
  <2>. QED
    BY <1>0, <2>1, <2>2, <2>3, <2>4, <2>5, <2>6, ZenonT(30) DEF SerialInv
<1>. QED
  BY <1>1, <1>2

\* Add drops the token: a device that is out again has its Remove queued
\* behind the Add.
LEMMA AddStep ==
    ASSUME TypeOK, TokenControlsTimer, NEW x \in Serial, SerialInv(x),
           NEW y \in Serial, HandleUdevAdd(y)
    PROVE  SerialInv(x)'
<1> USE DEF regVars
<1>0. /\ SessionsOn(x)' = SessionsOn(x)
      /\ udevQ \in [Serial -> Seq(Events)]
      /\ grace_tokens \in [Serial -> TimerId \cup {NoToken}]
      /\ UNCHANGED <<plugged, missed>>
  BY SMTT(30) DEF HandleUdevAdd, SessionsOn, Tracked, TypeOK, Events
<1>1. CASE x # y
  <2>1. udevQ'[x] = udevQ[x] /\ grace_tokens'[x] = grace_tokens[x]
    BY <1>0, <1>1 DEF HandleUdevAdd, DropToken
  <2>2. TokenHeld(x) => grace_tokens[x] \in TimerId /\ grace_tokens[x] # grace_tokens[y]
    BY <1>0, <1>1 DEF TokenHeld, TokenControlsTimer
  <2>3. TokenHeld(x) => timers'[grace_tokens[x]] = timers[grace_tokens[x]]
    BY <2>2, CancelledEffect, ZenonT(30) DEF HandleUdevAdd
  <2>. QED
    BY <1>0, <2>1, <2>3, SerialFrame
<1>2. CASE x = y
  <2> DEFINE q == udevQ[x]
  <2>1. /\ q \in Seq(Events) /\ q # << >> /\ Head(q) = "add"
        /\ udevQ'[x] = Tail(q)
        /\ ~TokenHeld(x)'
    BY <1>0, <1>2 DEF HandleUdevAdd, DropToken, TokenHeld
  <2>2. /\ Tail(q) # << >> => (LastIs(Tail(q), "add") <=> LastIs(q, "add"))
        /\ Tail(q) # << >> /\ LastIs(q, "remove") => Queued(Tail(q), "remove")
        /\ Tail(q) = << >> => ~LastIs(q, "remove")
    BY <2>1, QueueTail
  <2>3. LastIs(q, "add") \/ LastIs(q, "remove")
    BY <2>1 DEF LastIs, Events
  <2>4. /\ Queued(udevQ[x], "remove")' <=> Queued(Tail(q), "remove")
        /\ (udevQ[x] # << >>)' <=> Tail(q) # << >>
        /\ LastIs(udevQ[x], "add")' <=> LastIs(Tail(q), "add")
    BY <2>1 DEF Queued, LastIs
  <2>5. ASSUME x \notin missed', x \notin plugged' PROVE Queued(udevQ[x], "remove")'
    <3>1. ~LastIs(q, "add")
      BY <1>0, <2>1, <2>5, SMTT(30) DEF SerialInv
    <3>. QED
      BY <2>2, <2>3, <2>4, <3>1
  <2>6. ASSUME x \notin missed', (udevQ[x] # << >>)'
        PROVE  x \in plugged' <=> LastIs(udevQ[x], "add")'
    BY <1>0, <2>1, <2>2, <2>4, <2>6 DEF SerialInv
  <2>. QED
    BY <2>1, <2>5, <2>6 DEF SerialInv
<1>. QED
  BY <1>1, <1>2

\* PrepareForSleep(true) records every serial whose timer it cancels.
LEMMA SuspendStep ==
    ASSUME TypeOK, NEW x \in Serial, SerialInv(x), HandleSuspend
    PROVE  SerialInv(x)'
<1> USE DEF regVars, udevVars
<1>1. CASE TokenHeld(x)
  BY <1>1 DEF HandleSuspend, SerialInv
<1>2. CASE ~TokenHeld(x)
  <2>1. /\ SessionsOn(x)' = SessionsOn(x)
        /\ UNCHANGED <<udevQ, plugged>>
        /\ x \notin missed' => x \notin missed
        /\ grace_tokens'[x] = grace_tokens[x]
    BY <1>2 DEF HandleSuspend, DrainTokens, TokenHeld, SessionsOn, Tracked
  <2>. QED
    BY <1>2, <2>1, SerialFrame
<1>. QED
  BY <1>1, <1>2

\* The timer tasks never change the snapshot behind a held token.
LEMMA TaskStep ==
    ASSUME TypeOK, TokenControlsTimer, NEW x \in Serial, SerialInv(x),
           NEW t \in TimerId, GraceElapses(t) \/ TimerTask(t)
    PROVE  SerialInv(x)'
<1> USE DEF regVars, udevVars
<1>0. /\ timers \in [TimerId -> Timer \cup {NoTimer}]
      /\ grace_tokens \in [Serial -> TimerId \cup {NoToken}]
  BY DEF TypeOK
<1>1. /\ SessionsOn(x)' = SessionsOn(x)
      /\ UNCHANGED <<udevQ, plugged, missed, grace_tokens>>
  BY DEF TimerTask, GraceElapses, GraceExpires, GraceCancelled, DispatchAction,
         SessionsOn, Tracked
<1>2. \A v \in TimerId : timers[v] # NoTimer /\ ~timers[v].cancelled =>
         timers'[v].sessions = timers[v].sessions
  <2>1. CASE GraceElapses(t) \/ GraceExpires(t)
    BY <1>0, <2>1 DEF GraceElapses, GraceExpires, Timer
  <2>2. CASE GraceCancelled(t)
    BY <1>0, <2>2 DEF GraceCancelled
  <2>3. ASSUME NEW s \in timers[t].left, DispatchAction(t, s)
        PROVE  \A v \in TimerId : timers[v] # NoTimer /\ ~timers[v].cancelled =>
                  timers'[v].sessions = timers[v].sessions
    <3>1. /\ timers[t] # NoTimer
          /\ timers'[t] = AfterDispatch(timers[t], s)
          /\ \A v \in TimerId : v # t => timers'[v] = timers[v]
      BY <1>0, <2>3 DEF DispatchAction
    <3>2. ~timers[t].cancelled => timers'[t].sessions = timers[t].sessions
      BY <1>0, <3>1, SMTT(30) DEF AfterDispatch, Timer
    <3>. QED
      BY <3>1, <3>2, SMTT(30)
  <2>. QED
    BY <2>1, <2>2, <2>3 DEF TimerTask
<1>3. TokenHeld(x) => timers'[grace_tokens[x]].sessions = timers[grace_tokens[x]].sessions
  BY <1>0, <1>2 DEF TokenHeld, TokenControlsTimer
<1>. QED
  BY <1>1, <1>3, SerialFrame

-----------------------------------------------------------------------------

\* After a stop nothing is tracked; after a start every absent serial counts as
\* missed, and the queues are still empty.
LEMMA RestartStep ==
    ASSUME TypeOK, DownIsQuiet, NEW x \in Serial, DaemonStops \/ DaemonStarts
    PROVE  SerialInv(x)'
<1>1. CASE DaemonStops
  BY <1>1, SMTT(30) DEF DaemonStops, SerialInv, SessionsOn, Tracked, EmptyById, TokenHeld
<1>2. CASE DaemonStarts
  <2>1. /\ x \notin missed' => x \in plugged'
        /\ udevQ'[x] = << >>
        /\ ~TokenHeld(x)'
    BY <1>2 DEF DaemonStarts, DownIsQuiet, TokenHeld, timerVars
  <2>. QED
    BY <2>1 DEF SerialInv
<1>. QED
  BY <1>1, <1>2

\* The state manager only runs in a running daemon.
LEMMA ManagerUp ==
    ASSUME StateManager PROVE up /\ up' = up
<1>1. CASE \E m \in inbox : HandleSessionOpen(m) \/ HandleSessionClose(m)
                            \/ HandleUpdateSessionTarget(m)
  BY <1>1 DEF HandleSessionOpen, HandleSessionClose, HandleUpdateSessionTarget
<1>2. CASE \E m \in inbox : RefuseSessionOpen(m) \/ HandleGetActiveSessionByUid(m)
  BY <1>2, Zenon DEF RefuseSessionOpen, HandleGetActiveSessionByUid
<1>3. CASE \E x \in Serial : \/ IgnoreUdevRemove(x)
                             \/ \E t \in TimerId : ArmGraceTimer(x, t)
                             \/ HandleUdevAdd(x)
  BY <1>3 DEF IgnoreUdevRemove, ArmGraceTimer, HandleUdevAdd
<1>4. CASE HandleSuspend \/ HandleResume \/ \E l \in LogindId : HandleSessionRemoved(l)
  BY <1>4, ZenonT(30) DEF HandleSuspend, HandleResume, HandleSessionRemoved
<1>. QED
  BY <1>1, <1>2, <1>3, <1>4, SMTT(30) DEF StateManager

\* A stopped daemon stays quiet.
LEMMA QuietStep ==
    TypeOK /\ DownIsQuiet /\ [Next]_vars => DownIsQuiet'
<1> SUFFICES ASSUME TypeOK, DownIsQuiet, [Next]_vars, ~up', NEW x \in Serial
             PROVE  udevQ'[x] = << >> /\ grace_tokens'[x] = NoToken
  BY DEF DownIsQuiet, TokenHeld
<1> USE DEF udevVars, timerVars, DownIsQuiet, TokenHeld
<1>1. CASE StateManager
  BY <1>1, ManagerUp
<1>2. CASE \E t \in TimerId : GraceElapses(t) \/ TimerTask(t)
  BY <1>2 DEF TimerTask, GraceElapses, GraceExpires, GraceCancelled, DispatchAction
<1>3. CASE SuspendGraceElapses \/ Runner \/ UdevMonitorRetries
  BY <1>3 DEF Runner, SuspendGraceElapses, StartAction, FinishAction, UdevMonitorRetries
<1>4. CASE Host
  BY <1>4 DEF Host, DevicePlugged, DeviceUnplugged, LogindSessionEnds
<1>5. CASE Disturbance
  BY <1>5 DEF Disturbance, SleepSignal, UdevMonitorFails, ListenerExits,
              DaemonStops, DaemonStarts, ConnectRefused, CallTimesOut
<1>6. CASE Callers
  BY <1>6, SMTT(30) DEF Callers, SendRequest, TakeResult
<1>7. CASE UNCHANGED vars
  BY <1>7 DEF vars
<1>. QED
  BY <1>1, <1>2, <1>3, <1>4, <1>5, <1>6, <1>7 DEF Next, Daemon

\* Steps that touch none of this.
LEMMA OtherStep ==
    ASSUME TypeOK, NEW x \in Serial, SerialInv(x),
           UNCHANGED <<regVars, plugged, udevQ, missed, timerVars>>
    PROVE  SerialInv(x)'
<1>1. SessionsOn(x)' = SessionsOn(x)
  BY DEF SessionsOn, Tracked, regVars
<1>. QED
  BY <1>1, SerialFrame DEF timerVars

\* Every step keeps the invariant of every serial.
LEMMA RemovalStep ==
    TypeOK /\ IndexConsistent /\ TokenControlsTimer /\ RemovalInv /\ [Next]_vars
        => RemovalInv'
<1> SUFFICES ASSUME TypeOK, IndexConsistent, TokenControlsTimer, RemovalInv, [Next]_vars
             PROVE  RemovalInv'
  OBVIOUS
<1>0. DownIsQuiet /\ \A x \in Serial : SerialInv(x)
  BY RemovalInvBySerial
<1>a. DownIsQuiet'
  BY <1>0, QuietStep, SMTT(30)
<1>b. SUFFICES ASSUME NEW x \in Serial PROVE SerialInv(x)'
  BY <1>a DEF RemovalInv, RemovalCovered, QueueTellsPresence, TokenCoversSessions,
              SerialInv, SessionsOn
<1> USE DEF udevVars, logindVars
<1>1. CASE StateManager
  <2>1. CASE \E m \in inbox : \/ HandleSessionOpen(m)
                              \/ HandleSessionClose(m)
                              \/ HandleUpdateSessionTarget(m)
    <3>1. RegistryStep /\ up /\ up'
      BY <1>1, <2>1, ManagerUp, SMTT(30) DEF RegistryStep
    <3>. QED
      BY <1>0, <3>1, RegistryKeepsSerials
  <2>2. CASE \E m \in inbox : RefuseSessionOpen(m) \/ HandleGetActiveSessionByUid(m)
    BY <1>0, <2>2, OtherStep DEF RefuseSessionOpen, HandleGetActiveSessionByUid
  <2>3. CASE \E y \in Serial : IgnoreUdevRemove(y)
    BY <1>0, <2>3, IgnoreStep
  <2>4. CASE \E y \in Serial, t \in TimerId : ArmGraceTimer(y, t)
    BY <1>0, <2>4, ArmStep
  <2>5. CASE \E y \in Serial : HandleUdevAdd(y)
    BY <1>0, <2>5, AddStep
  <2>6. CASE HandleSuspend
    BY <1>0, <2>6, SuspendStep
  <2>7. CASE HandleResume
    BY <1>0, <2>7, OtherStep DEF HandleResume
  <2>8. CASE \E l \in LogindId : HandleSessionRemoved(l)
    <3>1. RegistryStep /\ up /\ up'
      BY <1>1, <2>8, ManagerUp DEF RegistryStep
    <3>. QED
      BY <1>0, <3>1, RegistryKeepsSerials
  <2>. QED
    BY <1>1, <2>1, <2>2, <2>3, <2>4, <2>5, <2>6, <2>7, <2>8 DEF StateManager
<1>2. CASE \E t \in TimerId : GraceElapses(t) \/ TimerTask(t)
  BY <1>0, <1>2, TaskStep
<1>3. CASE SuspendGraceElapses \/ Runner \/ UdevMonitorRetries
  BY <1>0, <1>3, OtherStep
  DEF Runner, SuspendGraceElapses, StartAction, FinishAction, UdevMonitorRetries
<1>4. CASE Host
  <2>1. CASE \E y \in Serial, nodes \in 1 .. 2 :
                DevicePlugged(y, nodes) \/ DeviceUnplugged(y, nodes)
    BY <1>0, <2>1, DeviceStep
  <2>2. CASE \E l \in LogindId : LogindSessionEnds(l)
    BY <1>0, <2>2, OtherStep DEF LogindSessionEnds
  <2>. QED
    BY <1>4, <2>1, <2>2 DEF Host
<1>5. CASE Disturbance
  <2>1. CASE SleepSignal
    BY <1>0, <2>1, OtherStep DEF SleepSignal
  <2>2. CASE \E kept \in [Serial -> 0 .. MaxPending] : UdevMonitorFails(kept)
    BY <1>0, <2>2, MonitorFailsStep
  <2>3. CASE \E n \in 0 .. MaxPending, lost \in SUBSET LogindId : ListenerExits(n, lost)
    BY <1>0, <2>3, OtherStep DEF ListenerExits
  <2>4. CASE DaemonStops \/ DaemonStarts
    BY <1>0, <2>4, RestartStep
  <2>5. CASE \E c \in Client : ConnectRefused(c) \/ CallTimesOut(c)
    BY <1>0, <2>5, OtherStep DEF ConnectRefused, CallTimesOut
  <2>. QED
    BY <1>5, <2>1, <2>2, <2>3, <2>4, <2>5 DEF Disturbance
<1>6. CASE Callers
  BY <1>0, <1>6, OtherStep DEF Callers, SendRequest, TakeResult
<1>7. CASE UNCHANGED vars
  BY <1>0, <1>7, OtherStep DEF vars
<1>. QED
  BY <1>1, <1>2, <1>3, <1>4, <1>5, <1>6, <1>7 DEF Next, Daemon

\* In every behaviour, a tracked session whose device is out has its Remove
\* queued or sits in the snapshot of the timer its serial's token controls,
\* unless one of the recorded excuses applies.
THEOREM RemovalAlwaysCovered == Spec => []RemovalCovered
<1>1. Init => RemovalInv
  BY DEF Init, RemovalInv, RemovalCovered, QueueTellsPresence, TokenCoversSessions,
         DownIsQuiet, TokenHeld, EmptyById, Tracked
<1>2. RemovalInv => RemovalCovered
  BY DEF RemovalInv
<1>. QED
  BY <1>1, <1>2, RemovalStep, TypeCorrect, IndexAlwaysConsistent,
     TokenAlwaysControlsTimer, PTL DEF Spec

=============================================================================
