-------------------------- MODULE PamMonitordProofs --------------------------
(***************************************************************************)
(* For any number of transactions, devices, logind ids, timers and troubles *)
(* and as long as persists succeed: what the cdylib has told monitord about *)
(* a login stays true through timeouts, restarts and late handling.         *)
(***************************************************************************)
EXTENDS PamMonitord, TLAPS

\* A leaf that names no prover is tried with these in turn, the last time with
\* more time.
USE SMT, Zenon, SMTT(30)

PamRequest == OpenReq \cup CloseReq \cup UpdateReq

PamTypes ==
    /\ up \in BOOLEAN
    /\ by_id \in ByIdMaps /\ disk \in ByIdMaps
    /\ inbox \subseteq [client : SessionId \cup {Nobody}, req : PamRequest]
    /\ chan \in [SessionId -> Reply \cup {"idle", "waiting"}]
    /\ logind \subseteq LogindId
    /\ DOMAIN pc = SessionId /\ DOMAIN heard = SessionId
    /\ pass \in [SessionId -> Nat]
    /\ xdg \in [SessionId -> LogindId \cup {NoLogind}]

\* The transaction a request is about.
Owner(req) == IF req.op = "SessionOpen" THEN req.session.session_id ELSE req.id

\* Where the transaction waits for the answer to a request.
AwaitedAt(op) ==
    CASE op = "SessionOpen" -> "opening"
      [] op = "SessionClose" -> "closing"
      [] OTHER -> "updating"

\* A request is its transaction's only one, or its caller has given up on it;
\* a SessionOpen names no logind id, an update the one of the login.
InboxInv ==
    /\ \A m \in inbox :
        LET p == Owner(m.req)
        IN  /\ m.client \in {p, Nobody}
            /\ m.client = p => chan[p] = "waiting" /\ pc[p] = AwaitedAt(m.req.op)
            /\ m.req.op = "SessionOpen" => m.req.session.target = NoLogind
            /\ m.req.op = "UpdateSessionTarget" => m.req.target = xdg[p] /\ xdg[p] # NoLogind
    /\ \A m, n \in inbox : m.client = n.client /\ m.client # Nobody => m = n

\* A session is opened once: before that it is not tracked, and a SessionOpen
\* outlives its call only if the caller gave up on it.
OpenInv ==
    /\ \A m, n \in inbox :
        m.req.op = "SessionOpen" /\ n.req.op = "SessionOpen" /\ Owner(m.req) = Owner(n.req) =>
            m = n
    /\ \A p \in SessionId :
        /\ pc[p] = "start" \/ OpenInFlight(p) => p \notin Tracked(by_id) \cup Tracked(disk)
        /\ OpenInFlight(p) =>
              \/ pc[p] = "opening" /\ chan[p] \in {"waiting", "Timeout", "INTERNAL"}
              \/ pc[p] \notin {"start", "opening"} /\ "late" \in heard[p]

\* A session is known for good to be closed.
Closed(p) ==
    /\ "closed" \in heard[p] \/ (pc[p] = "closing" /\ chan[p] = "Ack")
    /\ "late" \notin heard[p]

CloseInv ==
    \A p \in SessionId : Closed(p) =>
        p \notin Tracked(by_id) \cup Tracked(disk) /\ ~OpenInFlight(p) /\ pc[p] # "start"

\* The logind id of a login is set once, between its two open_session calls,
\* and is its own.
XdgInv ==
    /\ \A p \in SessionId :
        /\ pc[p] = "start" => pass[p] = 0
        /\ pc[p] = "between" => pass[p] # 0
        /\ pass[p] = 0 \/ pc[p] = "between" => xdg[p] = NoLogind
    /\ \A p, q \in SessionId : xdg[p] = xdg[q] /\ xdg[p] # NoLogind => p = q

\* monitord has told the transaction that it has the logind id.
Pushed(p) == "updated" \in heard[p] \/ (pc[p] = "updating" /\ chan[p] = "Updated")

\* The registry and the file hold the logind id of the login or none, and
\* once pushed they hold it.
TargetInv ==
    \A p \in SessionId :
        /\ p \in Tracked(by_id) => by_id[p].target \in {NoLogind, xdg[p]}
        /\ p \in Tracked(disk) => disk[p].target \in {NoLogind, xdg[p]}
        /\ Pushed(p) =>
              /\ xdg[p] # NoLogind /\ ~OpenInFlight(p)
              /\ p \in Tracked(by_id) => by_id[p].target = xdg[p]
              /\ p \in Tracked(disk) => disk[p].target = xdg[p]

\* The logind session of p is over, and monitord was there to see it.
Over(p) == xdg[p] # NoLogind /\ xdg[p] \notin logind /\ p \notin unseen

\* A session that is over and still tracked is in the queue of removals; the
\* file does not bring back one that is not tracked any more.
OverInv ==
    /\ ~up => by_id = EmptyById
    /\ up => listener_up
    /\ \A p \in SessionId : Over(p) =>
        /\ ~OpenInFlight(p)
        /\ p \in Tracked(by_id) => by_id[p].target = xdg[p] /\ xdg[p] \in removedQ
        /\ p \in Tracked(disk) => p \in Tracked(by_id)

PamInv == PamTypes /\ InboxInv /\ OpenInv /\ CloseInv /\ XdgInv /\ TargetInv /\ OverInv

-----------------------------------------------------------------------------
(* The steps, by what they do to the state the invariant speaks of.        *)

coreVars == <<up, by_id, disk, inbox, chan, logind, removedQ, listener_up>>
ownVars == <<pc, pass, xdg, heard>>

\* A transaction calls monitord: the request is queued, or connect fails.
Asks(p, from, to, req) ==
    /\ pc[p] = from /\ pc' = [pc EXCEPT ![p] = to]
    /\ chan[p] = "idle"
    /\ \/ /\ chan' = [chan EXCEPT ![p] = "waiting"]
          /\ inbox' = inbox \cup {[client |-> p, req |-> req]}
       \/ /\ chan' = [chan EXCEPT ![p] = "Unavailable"]
          /\ inbox' = inbox
    /\ UNCHANGED <<up, by_id, disk, logind, removedQ, listener_up, pass, xdg, heard, unseen>>

\* A transaction takes the result of its call.
Hears(p, from, new) ==
    /\ pc[p] = from /\ \E to \in {"authenticated", "failed", "denied", "hooks"} :
                           pc' = [pc EXCEPT ![p] = to]
    /\ chan[p] \in Reply /\ chan' = [chan EXCEPT ![p] = "idle"]
    /\ heard' = [heard EXCEPT ![p] = new]
    /\ UNCHANGED <<up, by_id, disk, inbox, logind, removedQ, listener_up, pass, xdg, unseen>>

\* A transaction moves on without monitord.
Moves(p) ==
    /\ pc[p] \notin {"start", "opening", "closing", "updating"}
    /\ \E to : /\ to \notin {"start", "opening", "closing", "updating"}
               /\ pc' = [pc EXCEPT ![p] = to]
               /\ \/ to # "between" /\ pass' = pass
                  \/ to = "between" /\ pass[p] = 0 /\ pass' = [pass EXCEPT ![p] = @ + 1]
                  \/ to # "between" /\ pass' = [pass EXCEPT ![p] = @ + 1]
    /\ \/ xdg' = xdg
       \/ /\ pc[p] = "between" /\ pass' = pass
          /\ \E l \in logind : /\ \A q \in SessionId : xdg[q] # l
                               /\ xdg' = [xdg EXCEPT ![p] = l]
    /\ UNCHANGED <<coreVars, heard, unseen>>

\* The state manager answers a request with the registry at R.
Answers(m, R, msg) ==
    /\ up /\ m \in inbox
    /\ by_id' = R
    /\ disk' = R \/ (R = by_id /\ disk' = disk)
    /\ SendReply(m, msg)
    /\ UNCHANGED <<up, logind, removedQ, listener_up, ownVars, unseen>>

\* The logind session l ends, and monitord, if it is up, will hear of it.
Ends(l) ==
    /\ l \in logind
    /\ logind' = logind \ {l}
    /\ removedQ' = IF up /\ listener_up THEN removedQ \cup {l} ELSE removedQ
    /\ \A p \in SessionId : xdg[p] = l /\ p \notin unseen' =>
           by_id[p] # NoSession /\ by_id[p].target = l
    /\ unseen \subseteq unseen'
    /\ UNCHANGED <<up, by_id, disk, inbox, chan, listener_up, ownVars>>

-----------------------------------------------------------------------------
(* Each kind of step preserves the invariant.                              *)

\* What a transaction asks for, and where.
Asked(p, from, to, req) ==
    \/ /\ from = "start" /\ to = "opening" /\ req \in OpenReq
       /\ req.session.session_id = p /\ req.session.target = NoLogind
    \/ /\ from = "session" /\ to = "closing" /\ req \in CloseReq /\ req.id = p
    \/ /\ from = "session" /\ to = "updating" /\ req \in UpdateReq
       /\ req.id = p /\ req.target = xdg[p] /\ xdg[p] # NoLogind

\* A call of a transaction (open_session, close_session, capture_xdg) leaves
\* one request, its own, in monitord's queue.
LEMMA AsksKeeps ==
    ASSUME PamInv, NEW p \in SessionId, NEW from, NEW to, NEW req,
           Asked(p, from, to, req), Asks(p, from, to, req)
    PROVE  PamInv'
<1> DEFINE new == [client |-> p, req |-> req]
<1>0. /\ req \in PamRequest /\ Owner(req) = p
      /\ req.op = "SessionOpen" => req.session.session_id = p /\ to = "opening" /\ from = "start"
      /\ to = AwaitedAt(req.op)
      /\ req.op = "SessionOpen" => req.session.target = NoLogind
      /\ req.op = "UpdateSessionTarget" => req.target = xdg[p] /\ xdg[p] # NoLogind
  BY DEF Asked, PamRequest, Owner, AwaitedAt, OpenReq, CloseReq, UpdateReq
<1>1. PamTypes'
  BY <1>0 DEF PamInv, PamTypes, Asks, Reply
<1>2. /\ pc'[p] = to /\ chan[p] = "idle" /\ pc[p] = from
      /\ chan'[p] \in {"waiting", "Unavailable"}
      /\ \A q \in SessionId : q # p => pc'[q] = pc[q] /\ chan'[q] = chan[q]
      /\ inbox \subseteq inbox'
      /\ \A m \in inbox' : m \in inbox \/ (m = new /\ chan'[p] = "waiting")
      /\ from \in {"start", "session"} /\ to \in {"opening", "closing", "updating"}
      /\ to = "opening" <=> from = "start"
      /\ UNCHANGED <<up, by_id, disk, logind, removedQ, listener_up, pass, xdg, heard, unseen>>
  BY DEF PamInv, PamTypes, Asks, Asked
<1>3. \A m \in inbox : Owner(m.req) \in SessionId
  BY DEF PamInv, PamTypes, Owner, PamRequest, OpenReq, CloseReq, UpdateReq, ActiveSession
<1>4. \A m \in inbox : m.client # p
  BY <1>2, <1>3, MonitordConstants, PamConstants DEF PamInv, InboxInv
<1>5. InboxInv'
  <2>1. ASSUME NEW m \in inbox'
        PROVE  /\ m.client \in {Owner(m.req), Nobody}
               /\ m.client = Owner(m.req) =>
                     chan'[Owner(m.req)] = "waiting" /\ pc'[Owner(m.req)] = AwaitedAt(m.req.op)
               /\ m.req.op = "SessionOpen" => m.req.session.target = NoLogind
               /\ m.req.op = "UpdateSessionTarget" =>
                     m.req.target = xdg'[Owner(m.req)] /\ xdg'[Owner(m.req)] # NoLogind
    <3>1. CASE m \in inbox
      BY <3>1, <1>2, <1>3, <1>4 DEF PamInv, InboxInv
    <3>2. CASE m = new /\ chan'[p] = "waiting"
      BY <3>2, <1>0, <1>2
    <3>. QED
      BY <3>1, <3>2, <1>2
  <2>2. ASSUME NEW m \in inbox', NEW n \in inbox', m.client = n.client, m.client # Nobody
        PROVE  m = n
    BY <2>2, <1>2, <1>4 DEF PamInv, InboxInv
  <2>. QED
    BY <2>1, <2>2, Zenon DEF InboxInv
<1>6. \A q \in SessionId : OpenInFlight(q)' =>
          OpenInFlight(q) \/ (q = p /\ from = "start" /\ to = "opening" /\ chan'[p] = "waiting")
  <2>1. ASSUME NEW q \in SessionId, NEW m \in inbox', m.req.op = "SessionOpen",
               m.req.session.session_id = q, m \notin inbox
        PROVE  q = p /\ from = "start" /\ to = "opening" /\ chan'[p] = "waiting"
    BY <2>1, <1>0, <1>2
  <2>. QED
    BY <2>1, Zenon DEF OpenInFlight
<1>7. OpenInv'
  <2>1. ASSUME NEW m \in inbox', NEW n \in inbox', m.req.op = "SessionOpen",
               n.req.op = "SessionOpen", Owner(m.req) = Owner(n.req)
        PROVE  m = n
    <3>1. CASE m \in inbox /\ n \in inbox
      BY <2>1, <3>1 DEF PamInv, OpenInv
    <3>2. ASSUME NEW k \in inbox, k.req.op = "SessionOpen", Owner(k.req) = p, from = "start"
          PROVE  FALSE
      <4>1. OpenInFlight(p)
        BY <3>2 DEF OpenInFlight, Owner
      <4>. QED
        BY <4>1, <3>2, <1>2 DEF PamInv, OpenInv
    <3>. QED
      BY <2>1, <3>1, <3>2, <1>0, <1>2
  <2>2. ASSUME NEW q \in SessionId
        PROVE  /\ pc'[q] = "start" \/ OpenInFlight(q)' => q \notin Tracked(by_id') \cup Tracked(disk')
               /\ OpenInFlight(q)' =>
                     \/ pc'[q] = "opening" /\ chan'[q] \in {"waiting", "Timeout", "INTERNAL"}
                     \/ pc'[q] \notin {"start", "opening"} /\ "late" \in heard'[q]
    BY <1>2, <1>6 DEF PamInv, OpenInv
  <2>. QED
    BY <2>1, <2>2, Zenon DEF OpenInv
<1>8. CloseInv'
  BY <1>2, <1>6, SMTT(20) DEF PamInv, CloseInv, Closed
<1>9. XdgInv'
  BY <1>2 DEF PamInv, XdgInv
<1>10. TargetInv'
  BY <1>2, <1>6 DEF PamInv, TargetInv, Pushed, XdgInv
<1>11. OverInv'
  BY <1>2, <1>6 DEF PamInv, OverInv, Over, XdgInv
<1>. QED
  BY <1>1, <1>5, <1>7, <1>8, <1>9, <1>10, <1>11 DEF PamInv

\* The transaction of a request is one of the transactions.
LEMMA OwnerType == PamTypes => \A m \in inbox : Owner(m.req) \in SessionId
BY DEF PamTypes, Owner, PamRequest, OpenReq, CloseReq, UpdateReq, ActiveSession

\* A call that is not waiting has no request of its own in the queue.
LEMMA NotWaiting ==
    ASSUME PamInv, NEW p \in SessionId, chan[p] # "waiting"
    PROVE  \A m \in inbox : m.client # p
BY OwnerType, MonitordConstants, PamConstants DEF PamInv, InboxInv

\* What a transaction remembers of the result it takes.
Heard(p, from, new) ==
    \/ /\ from = "opening"
       /\ "closed" \notin new /\ "updated" \notin new
       /\ chan[p] \in {"Timeout", "INTERNAL"} => "late" \in new
    \/ /\ from = "closing"
       /\ new = heard[p] \cup {IF chan[p] = "Ack" THEN "closed" ELSE "unclosed"}
    \/ /\ from = "updating"
       /\ new = heard[p] \cup {IF chan[p] = "Updated" THEN "updated" ELSE "unpushed"}

\* Taking the result of a call keeps what the result says true.
LEMMA HearsKeeps ==
    ASSUME PamInv, NEW p \in SessionId, NEW from, NEW new,
           Heard(p, from, new), Hears(p, from, new)
    PROVE  PamInv'
<1>1. PamTypes'
  BY DEF PamInv, PamTypes, Hears
<1>2. /\ pc[p] = from /\ pc'[p] \in {"authenticated", "failed", "denied", "hooks"}
      /\ chan[p] \in Reply /\ chan'[p] = "idle"
      /\ heard'[p] = new
      /\ \A q \in SessionId : q # p =>
            pc'[q] = pc[q] /\ chan'[q] = chan[q] /\ heard'[q] = heard[q]
      /\ UNCHANGED <<up, by_id, disk, inbox, logind, removedQ, listener_up, pass, xdg, unseen>>
  BY DEF PamInv, PamTypes, Hears
<1>3. \A m \in inbox : m.client # p
  BY <1>2, NotWaiting DEF Reply
<1>4. InboxInv'
  <2>1. \A m \in inbox : m.client = Owner(m.req) =>
            chan'[Owner(m.req)] = "waiting" /\ pc'[Owner(m.req)] = AwaitedAt(m.req.op)
    BY <1>2, <1>3, OwnerType DEF PamInv, InboxInv
  <2>. QED
    BY <2>1, <1>2 DEF PamInv, InboxInv
<1>5. \A q \in SessionId : OpenInFlight(q)' <=> OpenInFlight(q)
  BY <1>2 DEF OpenInFlight
<1>6. OpenInv'
  <2>1. OpenInFlight(p) => "late" \in new
    BY <1>2 DEF PamInv, OpenInv, Heard, Reply
  <2>2. \A q \in SessionId : OpenInFlight(q)' =>
            \/ pc'[q] = "opening" /\ chan'[q] \in {"waiting", "Timeout", "INTERNAL"}
            \/ pc'[q] \notin {"start", "opening"} /\ "late" \in heard'[q]
    BY <1>2, <1>5, <2>1 DEF PamInv, OpenInv
  <2>. QED
    BY <2>2, <1>2, <1>5 DEF PamInv, OpenInv
<1>7. CloseInv'
  <2>1. Closed(p)' => Closed(p)
    <3>1. CASE from = "opening"
      BY <3>1, <1>2 DEF Closed, Heard
    <3>2. CASE from = "closing"
      BY <3>2, <1>2 DEF Closed, Heard
    <3>3. CASE from = "updating"
      BY <3>3, <1>2 DEF Closed, Heard
    <3>. QED
      BY <3>1, <3>2, <3>3 DEF Heard
  <2>2. \A q \in SessionId : q # p => (Closed(q)' <=> Closed(q))
    BY <1>2 DEF Closed
  <2>. QED
    BY <2>1, <2>2, <1>2, <1>5 DEF PamInv, CloseInv
<1>8. XdgInv'
  BY <1>2 DEF PamInv, XdgInv
<1>9. TargetInv'
  <2>1. Pushed(p)' => Pushed(p)
    BY <1>2 DEF Pushed, Heard
  <2>2. \A q \in SessionId : q # p => (Pushed(q)' <=> Pushed(q))
    BY <1>2 DEF Pushed
  <2>. QED
    BY <2>1, <2>2, <1>2, <1>5 DEF PamInv, TargetInv
<1>10. OverInv'
  BY <1>2, <1>5 DEF PamInv, OverInv, Over
<1>. QED
  BY <1>1, <1>4, <1>6, <1>7, <1>8, <1>9, <1>10 DEF PamInv

\* A step of a transaction that does not involve monitord: pam_systemd names
\* the logind session only between the two open_session calls.
LEMMA MovesKeeps ==
    ASSUME PamInv, NEW p \in SessionId, Moves(p)
    PROVE  PamInv'
<1>1. PamTypes'
  BY DEF PamInv, PamTypes, Moves, coreVars
<1>2. /\ pc[p] \notin {"start", "opening", "closing", "updating"}
      /\ pc'[p] \notin {"start", "opening", "closing", "updating"}
      /\ \A q \in SessionId : q # p => pc'[q] = pc[q] /\ pass'[q] = pass[q] /\ xdg'[q] = xdg[q]
      /\ pass'[p] = pass[p] \/ pass'[p] # 0
      /\ pc'[p] = "between" => pass'[p] # 0 /\ pass[p] = 0 /\ xdg'[p] = xdg[p]
      /\ UNCHANGED <<up, by_id, disk, inbox, chan, logind, removedQ, listener_up, heard, unseen>>
  BY DEF PamInv, PamTypes, Moves, coreVars, XdgInv
<1>3. \/ xdg' = xdg
      \/ /\ xdg[p] = NoLogind /\ pass'[p] # 0 /\ xdg'[p] \in logind
         /\ \A q \in SessionId : xdg[q] # xdg'[p]
  BY DEF PamInv, PamTypes, Moves, XdgInv
<1>4. InboxInv'
  <2>1. \A m \in inbox : m.client = Owner(m.req) =>
            chan'[Owner(m.req)] = "waiting" /\ pc'[Owner(m.req)] = AwaitedAt(m.req.op)
    BY <1>2, OwnerType DEF PamInv, InboxInv, AwaitedAt
  <2>2. \A m \in inbox : m.req.op = "UpdateSessionTarget" =>
            m.req.target = xdg'[Owner(m.req)] /\ xdg'[Owner(m.req)] # NoLogind
    BY <1>2, <1>3, OwnerType DEF PamInv, InboxInv
  <2>. QED
    BY <2>1, <2>2, <1>2 DEF PamInv, InboxInv
<1>5. \A q \in SessionId : OpenInFlight(q)' <=> OpenInFlight(q)
  BY <1>2 DEF OpenInFlight
<1>6. OpenInv'
  BY <1>2, <1>5 DEF PamInv, OpenInv
<1>7. CloseInv'
  BY <1>2, <1>5 DEF PamInv, CloseInv, Closed
<1>8. XdgInv'
  BY <1>2, <1>3 DEF PamInv, XdgInv
<1>9. TargetInv'
  BY <1>2, <1>3, <1>5 DEF PamInv, TargetInv, Pushed
<1>10. OverInv'
  BY <1>2, <1>3, <1>5 DEF PamInv, OverInv, Over
<1>. QED
  BY <1>1, <1>4, <1>6, <1>7, <1>8, <1>9, <1>10 DEF PamInv

\* What the state manager may do to the registry on a request m, and say.
Answered(m, R, msg) ==
    LET p == Owner(m.req)
    IN  /\ R \in ByIdMaps
        /\ msg \in Reply /\ msg \notin {"Timeout", "INTERNAL"}
        /\ msg \in {"Ack", "Updated"} => disk' = R
        /\ \A q \in SessionId : q # p => R[q] = by_id[q]
        /\ p \in Tracked(R) => R[p].target \in {NoLogind, xdg[p]}
        /\ p \in Tracked(R) /\ m.req.op # "SessionOpen" =>
              p \in Tracked(by_id) /\ R[p].target \in {by_id[p].target, xdg[p]}
        /\ m.req.op = "SessionClose" => p \notin Tracked(R)
        /\ msg = "Updated" =>
              p \in Tracked(by_id) /\ xdg[p] # NoLogind /\ R[p].target = xdg[p]

\* The state manager answers one request of its queue: a late SessionOpen, a
\* late close and a late update included.
LEMMA AnswersKeeps ==
    ASSUME PamInv, NEW m \in inbox, NEW R, NEW msg, Answered(m, R, msg), Answers(m, R, msg)
    PROVE  PamInv'
<1> DEFINE p == Owner(m.req)
<1>0. p \in SessionId /\ m.client \in {p, Nobody} /\ Nobody \notin SessionId
  BY OwnerType, MonitordConstants, PamConstants DEF PamInv, InboxInv
<1>1. PamTypes'
  BY <1>0 DEF PamInv, PamTypes, Answers, Answered, SendReply, ownVars
<1>2. /\ inbox' = inbox \ {m}
      /\ \A q \in SessionId : q # m.client => chan'[q] = chan[q]
      /\ m.client = p => chan'[p] = msg /\ chan[p] = "waiting" /\ pc[p] = AwaitedAt(m.req.op)
      /\ by_id' = R /\ up
      /\ disk' = R \/ disk' = disk
      /\ UNCHANGED <<up, logind, removedQ, listener_up, pc, pass, xdg, heard, unseen>>
  BY <1>0 DEF PamInv, PamTypes, InboxInv, Answers, SendReply, ownVars
<1>3. InboxInv'
  <2>1. \A n \in inbox' : n.client = Owner(n.req) => n.client # m.client
    BY <1>0, <1>2, OwnerType DEF PamInv, InboxInv
  <2>2. \A n \in inbox' : n.client = Owner(n.req) =>
            chan'[Owner(n.req)] = "waiting" /\ pc'[Owner(n.req)] = AwaitedAt(n.req.op)
    BY <1>2, <2>1, OwnerType DEF PamInv, InboxInv
  <2>. QED
    BY <2>2, <1>2 DEF PamInv, InboxInv
<1>4. /\ \A q \in SessionId : OpenInFlight(q)' => OpenInFlight(q)
      /\ m.req.op = "SessionOpen" => OpenInFlight(p) /\ ~OpenInFlight(p)'
  <2>1. \A q \in SessionId : OpenInFlight(q)' => OpenInFlight(q)
    BY <1>2 DEF OpenInFlight
  <2>2. m.req.op = "SessionOpen" => OpenInFlight(p)
    BY DEF OpenInFlight, Owner
  <2>3. m.req.op = "SessionOpen" => ~OpenInFlight(p)'
    BY <1>2 DEF OpenInFlight, Owner, PamInv, OpenInv
  <2>. QED
    BY <2>1, <2>2, <2>3
<1>5. \A q \in SessionId : q \in Tracked(R) =>
          q \in Tracked(by_id) \/ (q = p /\ m.req.op = "SessionOpen")
  BY DEF Answered, Tracked
<1>6. OpenInv'
  <2>1. ASSUME NEW q \in SessionId, pc'[q] = "start" \/ OpenInFlight(q)'
        PROVE  q \notin Tracked(by_id') \cup Tracked(disk')
    BY <2>1, <1>2, <1>4, <1>5 DEF PamInv, OpenInv
  <2>2. ASSUME NEW q \in SessionId, OpenInFlight(q)'
        PROVE  \/ pc'[q] = "opening" /\ chan'[q] \in {"waiting", "Timeout", "INTERNAL"}
               \/ pc'[q] \notin {"start", "opening"} /\ "late" \in heard'[q]
    <3>1. CASE q = m.client /\ pc[q] = "opening"
      <4>1. m.req.op = "SessionOpen"
        BY <3>1, <1>0, <1>2 DEF AwaitedAt
      <4>. QED
        BY <4>1, <3>1, <2>2, <1>0, <1>4
    <3>2. CASE q # m.client \/ pc[q] # "opening"
      BY <3>2, <2>2, <1>2, <1>4 DEF PamInv, OpenInv
    <3>. QED
      BY <3>1, <3>2
  <2>3. \A k, n \in inbox' :
            k.req.op = "SessionOpen" /\ n.req.op = "SessionOpen" /\ Owner(k.req) = Owner(n.req) =>
                k = n
    BY <1>2 DEF PamInv, OpenInv
  <2>. QED
    BY <2>1, <2>2, <2>3, Zenon DEF OpenInv
<1>7. CloseInv'
  <2>1. ASSUME NEW q \in SessionId, Closed(q)'
        PROVE  q \notin Tracked(by_id') \cup Tracked(disk') /\ ~OpenInFlight(q)' /\ pc'[q] # "start"
    <3>1. CASE Closed(q)
      BY <3>1, <1>2, <1>4, <1>5 DEF PamInv, CloseInv
    <3>2. CASE ~Closed(q)
      <4>1. q = m.client /\ pc[q] = "closing" /\ msg = "Ack" /\ "late" \notin heard[q]
        BY <3>2, <2>1, <1>0, <1>2 DEF Closed
      <4>2. m.req.op = "SessionClose" /\ q = p
        BY <4>1, <1>0, <1>2 DEF AwaitedAt
      <4>3. q \notin Tracked(R) /\ disk' = R
        BY <4>1, <4>2 DEF Answered
      <4>4. ~OpenInFlight(q)'
        BY <4>1, <1>4 DEF PamInv, OpenInv
      <4>. QED
        BY <4>1, <4>3, <4>4, <1>2
    <3>. QED
      BY <3>1, <3>2
  <2>. QED
    BY <2>1, Zenon DEF CloseInv
<1>8. XdgInv'
  BY <1>2 DEF PamInv, XdgInv
<1>9. TargetInv'
  <2>1. \A q \in SessionId : q \in Tracked(R) => R[q].target \in {NoLogind, xdg[q]}
    BY <1>0 DEF Answered, PamInv, TargetInv, Tracked
  <2>2. ASSUME NEW q \in SessionId, Pushed(q)'
        PROVE  /\ xdg[q] # NoLogind /\ ~OpenInFlight(q)'
               /\ q \in Tracked(R) => R[q].target = xdg[q]
               /\ q \in Tracked(disk') => disk'[q].target = xdg[q]
    <3>1. CASE Pushed(q)
      <4>1. xdg[q] # NoLogind /\ ~OpenInFlight(q)
            /\ (q \in Tracked(by_id) => by_id[q].target = xdg[q])
            /\ (q \in Tracked(disk) => disk[q].target = xdg[q])
        BY <3>1 DEF PamInv, TargetInv
      <4>2. q = p => m.req.op # "SessionOpen"
        BY <4>1, <1>4
      <4>3. q \in Tracked(R) => R[q].target = xdg[q]
        BY <4>1, <4>2, <1>5 DEF Answered
      <4>. QED
        BY <4>1, <4>3, <1>2, <1>4
    <3>2. CASE ~Pushed(q)
      <4>1. q = p /\ msg = "Updated"
        BY <3>2, <2>2, <1>0, <1>2 DEF Pushed
      <4>2. p \in Tracked(by_id) /\ xdg[p] # NoLogind /\ R[p].target = xdg[p] /\ disk' = R
        BY <4>1 DEF Answered
      <4>3. ~OpenInFlight(p)'
        BY <4>2, <1>0, <1>4 DEF PamInv, OpenInv
      <4>. QED
        BY <4>1, <4>2, <4>3
    <3>. QED
      BY <3>1, <3>2
  <2>3. \A q \in SessionId : q \in Tracked(disk') => disk'[q].target \in {NoLogind, xdg[q]}
    BY <2>1, <1>2 DEF PamInv, TargetInv
  <2>. QED
    BY <2>1, <2>2, <2>3, <1>2, Zenon DEF TargetInv
<1>10. OverInv'
  <2>1. ASSUME NEW q \in SessionId, Over(q)'
        PROVE  /\ ~OpenInFlight(q)'
               /\ q \in Tracked(R) => R[q].target = xdg[q] /\ xdg[q] \in removedQ
               /\ q \in Tracked(disk') => q \in Tracked(R) \/ disk' = disk
    <3>1. Over(q)
      BY <2>1, <1>2 DEF Over
    <3>2. /\ ~OpenInFlight(q)
          /\ q \in Tracked(by_id) => by_id[q].target = xdg[q] /\ xdg[q] \in removedQ
      BY <3>1 DEF PamInv, OverInv
    <3>3. q = p => m.req.op # "SessionOpen"
      BY <3>2, <1>4
    <3>. QED
      BY <3>2, <3>3, <1>2, <1>4, <1>5 DEF Answered
  <2>. QED
    BY <2>1, <1>2 DEF PamInv, OverInv, Over, Answers
<1>. QED
  BY <1>1, <1>3, <1>6, <1>7, <1>8, <1>9, <1>10 DEF PamInv

\* SessionRemoved drops the sessions of that logind id, from the file too.
LEMMA RemovedKeeps ==
    ASSUME PamInv, NEW l, HandleSessionRemoved(l), UNCHANGED <<ownVars, unseen>>,
           "persist_failure" \notin Disturbances
    PROVE  PamInv'
<1> DEFINE ids == FindByLogind(by_id, l)
<1>1. /\ up /\ l \in removedQ /\ removedQ' = removedQ \ {l}
      /\ by_id' = RemoveById(by_id, ids)
      /\ disk' = by_id' \/ (ids = {} /\ disk' = disk)
      /\ UNCHANGED <<up, inbox, chan, logind, listener_up, pc, pass, xdg, heard, unseen>>
  BY DEF HandleSessionRemoved, PersistRemovals, PersistAsync, diskVars, ipcVars, ownVars
<1>2. by_id' \in ByIdMaps
  BY <1>1 DEF PamInv, PamTypes, ByIdMaps, RemoveById
<1>3. /\ \A q \in SessionId : q \in Tracked(by_id') =>
            q \in Tracked(by_id) /\ by_id'[q] = by_id[q] /\ by_id[q].target # l
      /\ disk' = by_id' \/ (disk' = disk /\ by_id' = by_id)
      /\ \A q \in SessionId : q \in Tracked(by_id) /\ by_id[q].target # l => q \in Tracked(by_id')
  <2>1. \A q \in SessionId : q \notin ids => by_id'[q] = by_id[q]
    BY <1>1 DEF RemoveById
  <2>2. \A q \in SessionId : q \in ids => by_id'[q] = NoSession
    BY <1>1 DEF RemoveById
  <2>3. ids = {} => by_id' = by_id
    BY <1>2, <2>1 DEF PamInv, PamTypes, ByIdMaps
  <2>. QED
    BY <2>1, <2>2, <2>3, <1>1 DEF FindByLogind, Tracked
<1>4. PamTypes'
  BY <1>1, <1>2, <1>3 DEF PamInv, PamTypes
<1>5. InboxInv'
  BY <1>1 DEF PamInv, InboxInv
<1>6. \A q \in SessionId : OpenInFlight(q)' <=> OpenInFlight(q)
  BY <1>1 DEF OpenInFlight
<1>7. OpenInv'
  BY <1>1, <1>3, <1>6 DEF PamInv, OpenInv
<1>8. CloseInv'
  BY <1>1, <1>3, <1>6 DEF PamInv, CloseInv, Closed
<1>9. XdgInv'
  BY <1>1 DEF PamInv, XdgInv
<1>10. TargetInv'
  BY <1>1, <1>3, <1>6 DEF PamInv, TargetInv, Pushed
<1>11. OverInv'
  BY <1>1, <1>3, <1>6 DEF PamInv, OverInv, Over
<1>. QED
  BY <1>4, <1>5, <1>7, <1>8, <1>9, <1>10, <1>11 DEF PamInv

\* A logind session ends: the listener hears of it while the daemon runs.
LEMMA EndsKeeps ==
    ASSUME PamInv, NEW l, Ends(l)
    PROVE  PamInv'
<1>1. /\ l \in logind /\ logind' = logind \ {l}
      /\ up /\ listener_up => removedQ' = removedQ \cup {l}
      /\ ~(up /\ listener_up) => removedQ' = removedQ
      /\ \A q \in SessionId : xdg[q] = l /\ q \notin unseen' =>
            q \in Tracked(by_id) /\ by_id[q].target = l
      /\ unseen \subseteq unseen'
      /\ UNCHANGED <<up, by_id, disk, inbox, chan, listener_up, pc, pass, xdg, heard>>
  BY DEF Ends, ownVars, Tracked
<1>2. PamTypes'
  BY <1>1 DEF PamInv, PamTypes
<1>3. InboxInv'
  BY <1>1 DEF PamInv, InboxInv
<1>4. \A q \in SessionId : OpenInFlight(q)' <=> OpenInFlight(q)
  BY <1>1 DEF OpenInFlight
<1>5. OpenInv'
  BY <1>1, <1>4 DEF PamInv, OpenInv
<1>6. CloseInv'
  BY <1>1, <1>4 DEF PamInv, CloseInv, Closed
<1>7. XdgInv'
  BY <1>1 DEF PamInv, XdgInv
<1>8. TargetInv'
  BY <1>1, <1>4 DEF PamInv, TargetInv, Pushed
<1>9. OverInv'
  <2>1. ASSUME NEW q \in SessionId, Over(q)'
        PROVE  /\ ~OpenInFlight(q)
               /\ q \in Tracked(by_id) => by_id[q].target = xdg[q] /\ xdg[q] \in removedQ'
               /\ q \in Tracked(disk) => q \in Tracked(by_id)
    <3>1. CASE Over(q)
      BY <3>1, <1>1 DEF PamInv, OverInv
    <3>2. CASE ~Over(q)
      <4>1. q \in Tracked(by_id) /\ by_id[q].target = l /\ xdg[q] = l
        BY <3>2, <2>1, <1>1 DEF Over
      <4>2. up
        BY <4>1 DEF PamInv, OverInv, Tracked, EmptyById
      <4>. QED
        BY <4>1, <4>2, <1>1 DEF PamInv, OverInv, OpenInv
    <3>. QED
      BY <3>1, <3>2
  <2>. QED
    BY <2>1, <1>1, <1>4 DEF PamInv, OverInv
<1>. QED
  BY <1>2, <1>3, <1>5, <1>6, <1>7, <1>8, <1>9 DEF PamInv

\* The daemon stops, and forgets its queues and the registry.
LEMMA StopsKeeps ==
    ASSUME PamInv, DaemonStops, unseen' = unseen \cup {p \in SessionId : xdg[p] \in removedQ},
           UNCHANGED ownVars
    PROVE  PamInv'
<1>1. /\ up /\ ~up' /\ by_id' = EmptyById /\ inbox' = {} /\ disk' = disk /\ logind' = logind
      /\ \A q \in SessionId : q \notin Tracked(by_id')
      /\ \A q \in SessionId : chan'[q] = IF chan[q] = "waiting" THEN "Unavailable" ELSE chan[q]
      /\ UNCHANGED <<pc, pass, xdg, heard>>
  BY PamConstants DEF DaemonStops, ownVars, diskVars, Tracked, EmptyById
<1>2. PamTypes'
  BY PamConstants, Zenon DEF PamInv, PamTypes, DaemonStops, ownVars, diskVars, ByIdMaps, EmptyById, Reply
<1>3. InboxInv' /\ \A q \in SessionId : ~OpenInFlight(q)'
  BY <1>1 DEF InboxInv, OpenInFlight
<1>4. OpenInv'
  BY <1>1, <1>3 DEF PamInv, OpenInv
<1>5. CloseInv'
  BY <1>1, <1>3 DEF PamInv, CloseInv, Closed
<1>6. XdgInv'
  BY <1>1 DEF PamInv, XdgInv
<1>7. TargetInv'
  BY <1>1, <1>3 DEF PamInv, TargetInv, Pushed
<1>8. OverInv'
  BY <1>1, <1>3 DEF PamInv, OverInv, Over
<1>. QED
  BY <1>2, <1>3, <1>4, <1>5, <1>6, <1>7, <1>8 DEF PamInv

\* The daemon starts on the file, or on an empty registry.
LEMMA StartsKeeps ==
    ASSUME PamInv, DaemonStarts, UNCHANGED <<ownVars, unseen>>
    PROVE  PamInv'
<1>1. /\ ~up /\ up' /\ listener_up' /\ by_id' \in {disk, EmptyById}
      /\ \A q \in SessionId : q \notin Tracked(by_id) /\ q \notin Tracked(EmptyById)
      /\ UNCHANGED <<disk, inbox, chan, logind, removedQ, pc, pass, xdg, heard, unseen>>
  BY Zenon DEF DaemonStarts, ownVars, ipcVars, PamInv, OverInv, Tracked, EmptyById
<1>2. PamTypes'
  BY <1>1, Zenon DEF DaemonStarts, PamInv, PamTypes, ByIdMaps, EmptyById
<1>3. InboxInv'
  BY <1>1, Zenon DEF PamInv, InboxInv
<1>4. \A q \in SessionId : OpenInFlight(q)' <=> OpenInFlight(q)
  BY <1>1, Zenon DEF OpenInFlight
<1>5. OpenInv'
  BY <1>1, <1>4 DEF PamInv, OpenInv
<1>6. CloseInv'
  BY <1>1, <1>4 DEF PamInv, CloseInv, Closed
<1>7. XdgInv'
  BY <1>1 DEF PamInv, XdgInv
<1>8. TargetInv'
  BY <1>1, <1>4 DEF PamInv, TargetInv, Pushed
<1>9. OverInv'
  BY <1>1, <1>4 DEF PamInv, OverInv, Over
<1>. QED
  BY <1>2, <1>3, <1>5, <1>6, <1>7, <1>8, <1>9 DEF PamInv

\* A caller gives up: its request stays in the queue, with nobody to answer.
LEMMA TimesOutKeeps ==
    ASSUME PamInv, NEW c \in SessionId, CallTimesOut(c), UNCHANGED <<ownVars, unseen>>
    PROVE  PamInv'
<1> DEFINE Left(m) == IF m.client = c THEN [m EXCEPT !.client = Nobody] ELSE m
<1>1. /\ chan[c] = "waiting" /\ chan'[c] \in {"INTERNAL", "Timeout"}
      /\ \A q \in SessionId : q # c => chan'[q] = chan[q]
      /\ inbox' = {Left(m) : m \in inbox}
      /\ UNCHANGED <<up, by_id, disk, logind, removedQ, listener_up, pc, pass, xdg, heard, unseen>>
  BY DEF PamInv, PamTypes, CallTimesOut, regVars, diskVars, logindVars, ownVars
<1>2. /\ \A m \in inbox : Left(m).req = m.req /\ Left(m).client = IF m.client = c THEN Nobody ELSE m.client
      /\ Nobody \notin SessionId
  BY MonitordConstants, PamConstants DEF PamInv, PamTypes
<1>3. PamTypes'
  <2>1. \A m \in inbox : Left(m) \in [client : SessionId \cup {Nobody}, req : PamRequest]
    BY DEF PamInv, PamTypes
  <2>2. chan' \in [SessionId -> Reply \cup {"idle", "waiting"}]
    BY DEF PamInv, PamTypes, CallTimesOut, Reply
  <2>. QED
    BY <2>1, <2>2, <1>1 DEF PamInv, PamTypes
<1>4. \A n \in inbox' : \E m \in inbox : n = Left(m)
  BY <1>1
<1>5. InboxInv'
  <2>1. ASSUME NEW n \in inbox'
        PROVE  /\ n.client \in {Owner(n.req), Nobody}
               /\ n.client = Owner(n.req) =>
                     chan'[Owner(n.req)] = "waiting" /\ pc'[Owner(n.req)] = AwaitedAt(n.req.op)
               /\ n.req.op = "SessionOpen" => n.req.session.target = NoLogind
               /\ n.req.op = "UpdateSessionTarget" =>
                     n.req.target = xdg'[Owner(n.req)] /\ xdg'[Owner(n.req)] # NoLogind
    <3>1. PICK m \in inbox : n = Left(m)
      BY <1>4
    <3>2. n.req = m.req /\ Owner(m.req) \in SessionId
      BY <3>1, <1>2, OwnerType DEF PamInv
    <3>. QED
      BY <3>1, <3>2, <1>1, <1>2 DEF PamInv, InboxInv
  <2>2. ASSUME NEW k \in inbox', NEW n \in inbox', k.client = n.client, k.client # Nobody
        PROVE  k = n
    <3>1. PICK i \in inbox, j \in inbox : k = Left(i) /\ n = Left(j)
      BY <1>4
    <3>. QED
      BY <3>1, <2>2, <1>2 DEF PamInv, InboxInv
  <2>. QED
    BY <2>1, <2>2, Zenon DEF InboxInv
<1>6. \A q \in SessionId : OpenInFlight(q)' => OpenInFlight(q)
  <2>1. \A n \in inbox' : \E m \in inbox : m.req = n.req
    BY <1>2, <1>4, Zenon
  <2>. QED
    BY <2>1, Zenon DEF OpenInFlight
<1>7. OpenInv'
  <2>1. ASSUME NEW k \in inbox', NEW n \in inbox', k.req.op = "SessionOpen",
               n.req.op = "SessionOpen", Owner(k.req) = Owner(n.req)
        PROVE  k = n
    <3>1. PICK i \in inbox, j \in inbox : k = Left(i) /\ n = Left(j)
      BY <1>4
    <3>2. i = j
      BY <3>1, <2>1, <1>2 DEF PamInv, OpenInv
    <3>. QED
      BY <3>1, <3>2
  <2>2. ASSUME NEW q \in SessionId
        PROVE  /\ pc'[q] = "start" \/ OpenInFlight(q)' => q \notin Tracked(by_id') \cup Tracked(disk')
               /\ OpenInFlight(q)' =>
                     \/ pc'[q] = "opening" /\ chan'[q] \in {"waiting", "Timeout", "INTERNAL"}
                     \/ pc'[q] \notin {"start", "opening"} /\ "late" \in heard'[q]
    BY <1>1, <1>6 DEF PamInv, OpenInv
  <2>. QED
    BY <2>1, <2>2, Zenon DEF OpenInv
<1>8. CloseInv'
  BY <1>1, <1>6 DEF PamInv, CloseInv, Closed
<1>9. XdgInv'
  BY <1>1 DEF PamInv, XdgInv
<1>10. TargetInv'
  BY <1>1, <1>6 DEF PamInv, TargetInv, Pushed
<1>11. OverInv'
  BY <1>1, <1>6 DEF PamInv, OverInv, Over
<1>. QED
  BY <1>3, <1>5, <1>7, <1>8, <1>9, <1>10, <1>11 DEF PamInv

\* A step that touches nothing of this.
LEMMA QuietKeeps ==
    ASSUME PamInv, UNCHANGED <<coreVars, ownVars, unseen>>
    PROVE  PamInv'
<1>1. UNCHANGED <<up, by_id, disk, inbox, chan, logind, removedQ, listener_up,
                  pc, pass, xdg, heard, unseen>>
  BY DEF coreVars, ownVars
<1>2. \A q \in SessionId : OpenInFlight(q)' <=> OpenInFlight(q)
  BY <1>1 DEF OpenInFlight
<1>3. PamTypes' /\ InboxInv' /\ XdgInv'
  BY <1>1, Zenon DEF PamInv, PamTypes, InboxInv, XdgInv
<1>4. OpenInv'
  BY <1>1, <1>2, Zenon DEF PamInv, OpenInv
<1>5. CloseInv'
  BY <1>1, <1>2 DEF PamInv, CloseInv, Closed
<1>6. TargetInv'
  BY <1>1, <1>2 DEF PamInv, TargetInv, Pushed
<1>7. OverInv'
  BY <1>1, <1>2, Zenon DEF PamInv, OverInv, Over
<1>. QED
  BY <1>3, <1>4, <1>5, <1>6, <1>7 DEF PamInv

-----------------------------------------------------------------------------
(* Every step is of one of these kinds.                                    *)

\* The handlers of the state manager, as answers.
LEMMA HandlerAnswers ==
    ASSUME PamInv, NEW m \in inbox, "persist_failure" \notin Disturbances,
           \/ HandleSessionOpen(m) \/ RefuseSessionOpen(m) \/ HandleSessionClose(m)
           \/ HandleUpdateSessionTarget(m) \/ HandleGetActiveSessionByUid(m),
           UNCHANGED <<ownVars, unseen>>
    PROVE  \E R, msg : Answers(m, R, msg) /\ Answered(m, R, msg)
<1> DEFINE p == Owner(m.req)
<1>0. /\ p \in SessionId /\ by_id \in ByIdMaps /\ m.req \in PamRequest
      /\ m.req.op = "SessionOpen" => m.req.session.target = NoLogind
      /\ m.req.op = "UpdateSessionTarget" => m.req.target = xdg[p] /\ xdg[p] # NoLogind
  BY OwnerType, Zenon DEF PamInv, PamTypes, InboxInv
<1>1. CASE HandleSessionOpen(m)
  <2> DEFINE R == AddById(by_id, m.req.session)
  <2>1. m.req.session \in ActiveSession /\ p = m.req.session.session_id
        /\ m.req.op = "SessionOpen"
    BY <1>0, <1>1, Zenon DEF HandleSessionOpen, PamRequest, OpenReq, CloseReq, UpdateReq, Owner
  <2>2. Answers(m, R, "Ack") /\ disk' = R
    BY <1>1, Zenon DEF Answers, HandleSessionOpen, PersistAsync, logindVars
  <2>3. R \in ByIdMaps /\ R[p] = m.req.session /\ \A q \in SessionId : q # p => R[q] = by_id[q]
    BY <2>1, <1>0, Zenon DEF AddById, ByIdMaps
  <2>4. Answered(m, R, "Ack")
    BY <2>1, <2>2, <2>3, <1>0, Zenon DEF Answered, Reply
  <2>. QED
    BY <2>2, <2>4
<1>2. CASE RefuseSessionOpen(m)
  <2>1. Answers(m, by_id, "DEVICE_GONE") /\ m.req.op = "SessionOpen"
    BY <1>2, Zenon DEF Answers, RefuseSessionOpen, regVars, diskVars, logindVars
  <2>2. Answered(m, by_id, "DEVICE_GONE")
    BY <2>1, <1>0, Zenon DEF Answered, Reply, PamInv, TargetInv
  <2>. QED
    BY <2>1, <2>2, Zenon
<1>3. CASE HandleSessionClose(m)
  <2> DEFINE R == RemoveById(by_id, {m.req.id})
  <2>1. p = m.req.id /\ m.req.op = "SessionClose"
    BY <1>0, <1>3, Zenon DEF HandleSessionClose, PamRequest, OpenReq, CloseReq, UpdateReq, Owner
  <2>2. Answers(m, R, "Ack") /\ disk' = R
    BY <1>3, Zenon DEF Answers, HandleSessionClose, PersistAsync, logindVars
  <2>3. R \in ByIdMaps /\ p \notin Tracked(R) /\ \A q \in SessionId : q # p => R[q] = by_id[q]
    BY <2>1, <1>0 DEF RemoveById, ByIdMaps, Tracked
  <2>4. Answered(m, R, "Ack")
    BY <2>1, <2>2, <2>3, <1>0, Zenon DEF Answered, Reply
  <2>. QED
    BY <2>2, <2>4
<1>4. CASE HandleUpdateSessionTarget(m)
  <2>1. p = m.req.id /\ m.req.op = "UpdateSessionTarget" /\ m.req.target = xdg[p]
        /\ xdg[p] # NoLogind /\ m.req.target \in LogindId \cup {NoLogind}
    BY <1>0, <1>4, Zenon DEF HandleUpdateSessionTarget, PamRequest, OpenReq, CloseReq, UpdateReq, Owner
  <2>2. CASE p \in Tracked(by_id)
    <3> DEFINE R == UpdateTarget(by_id, p, m.req.target)
    <3>1. Answers(m, R, "Updated") /\ disk' = R
      BY <2>1, <2>2, <1>4, Zenon DEF Answers, HandleUpdateSessionTarget, PersistAsync, logindVars
    <3>2. by_id[p] \in ActiveSession
      BY <2>2, <1>0, Zenon DEF Tracked, ByIdMaps
    <3>3. [by_id[p] EXCEPT !.target = m.req.target] \in ActiveSession
      BY <3>2, <2>1 DEF ActiveSession
    <3>4. /\ R = [by_id EXCEPT ![p] = [by_id[p] EXCEPT !.target = m.req.target]]
          /\ [by_id[p] EXCEPT !.target = m.req.target].target = m.req.target
      BY <3>2, <1>0 DEF UpdateTarget, ActiveSession
    <3>5. R \in ByIdMaps /\ R[p].target = xdg[p] /\ \A q \in SessionId : q # p => R[q] = by_id[q]
      BY <3>3, <3>4, <2>1, <1>0 DEF ByIdMaps
    <3>6. Answered(m, R, "Updated")
      BY <3>1, <3>5, <2>1, <2>2, <1>0, Zenon DEF Answered, Reply
    <3>. QED
      BY <3>1, <3>6
  <2>3. CASE p \notin Tracked(by_id)
    <3>1. Answers(m, by_id, "BAD_REQUEST")
      BY <2>1, <2>3, <1>4, Zenon DEF Answers, HandleUpdateSessionTarget, diskVars, logindVars
    <3>2. Answered(m, by_id, "BAD_REQUEST")
      BY <2>1, <2>3, <1>0, Zenon DEF Answered, Reply
    <3>. QED
      BY <3>1, <3>2
  <2>. QED
    BY <2>2, <2>3
<1>5. ~HandleGetActiveSessionByUid(m)
  BY <1>0, Zenon DEF HandleGetActiveSessionByUid, PamRequest, OpenReq, CloseReq, UpdateReq
<1>. QED
  BY <1>1, <1>2, <1>3, <1>4, <1>5

\* Every step of the daemon's own tasks preserves the invariant.
LEMMA MonitordStepKeeps ==
    ASSUME PamInv, MonitordStep, "persist_failure" \notin Disturbances
    PROVE  PamInv'
<1>1. UNCHANGED ownVars /\ Daemon
  BY DEF MonitordStep, ownVars
<1>2. logind' = logind => unseen' = unseen
  BY DEF MonitordStep
<1>3. UNCHANGED coreVars => PamInv'
  BY <1>1, <1>2, QuietKeeps DEF coreVars
<1>4. ASSUME NEW m \in inbox,
             \/ HandleSessionOpen(m) \/ RefuseSessionOpen(m) \/ HandleSessionClose(m)
             \/ HandleUpdateSessionTarget(m) \/ HandleGetActiveSessionByUid(m)
      PROVE  PamInv'
  <2>1. logind' = logind
    BY <1>4, Zenon DEF HandleSessionOpen, RefuseSessionOpen, HandleSessionClose,
                HandleUpdateSessionTarget, HandleGetActiveSessionByUid, logindVars
  <2>2. PICK R, msg : Answers(m, R, msg) /\ Answered(m, R, msg)
    BY <1>1, <1>2, <1>4, <2>1, HandlerAnswers
  <2>. QED
    BY <2>2, AnswersKeeps
<1>5. ASSUME NEW l, HandleSessionRemoved(l)
      PROVE  PamInv'
  <2>1. logind' = logind
    BY <1>5 DEF HandleSessionRemoved
  <2>. QED
    BY <2>1, <1>1, <1>2, <1>5, RemovedKeeps
<1>6. CASE FinishAction
  <2>1. CASE UNCHANGED <<logind, removedQ>>
    BY <2>1, <1>3, <1>6 DEF FinishAction, regVars, diskVars, ipcVars, coreVars
  <2>2. CASE /\ runner.target \in logind
             /\ logind' = logind \ {runner.target}
             /\ removedQ' = IF listener_up THEN removedQ \cup {runner.target} ELSE removedQ
    <3> DEFINE l == runner.target
    <3>1. \A p \in SessionId : xdg[p] = l /\ p \notin unseen' =>
              by_id[p] # NoSession /\ by_id[p].target = l
      BY <2>2 DEF MonitordStep
    <3>2. Ends(l)
      BY <2>2, <3>1, <1>1, <1>6, Zenon DEF Ends, FinishAction, MonitordStep, regVars, diskVars, ipcVars
    <3>. QED
      BY <3>2, EndsKeeps
  <2>. QED
    BY <2>1, <2>2, <1>6 DEF FinishAction
<1>7. ASSUME NEW x \in Serial,
             IgnoreUdevRemove(x) \/ (\E t \in TimerId : ArmGraceTimer(x, t)) \/ HandleUdevAdd(x)
      PROVE  UNCHANGED coreVars
  BY <1>7, Zenon DEF IgnoreUdevRemove, ArmGraceTimer, HandleUdevAdd, coreVars, regVars, diskVars,
              ipcVars, logindVars
<1>8. HandleSuspend \/ HandleResume => UNCHANGED coreVars
  BY Zenon DEF HandleSuspend, HandleResume, coreVars, regVars, diskVars, ipcVars
<1>9. ASSUME NEW t \in TimerId, GraceElapses(t) \/ TimerTask(t)
      PROVE  UNCHANGED coreVars
  BY <1>9 DEF GraceElapses, TimerTask, GraceExpires, GraceCancelled, DispatchAction,
              coreVars, regVars, diskVars, ipcVars, logindVars
<1>10. SuspendGraceElapses \/ StartAction \/ UdevMonitorRetries => UNCHANGED coreVars
  BY DEF SuspendGraceElapses, StartAction, UdevMonitorRetries,
         coreVars, regVars, diskVars, ipcVars, logindVars
<1>. QED
  BY <1>1, <1>3, <1>4, <1>5, <1>6, <1>7, <1>8, <1>9, <1>10, Zenon
     DEF Daemon, StateManager, Runner

\* Every step of a transaction preserves the invariant.
LEMMA TransactionKeeps ==
    ASSUME PamInv, NEW p \in SessionId, Transaction(p)
    PROVE  PamInv'
<1>1. ASSUME NEW x \in Serial \cup {NoSerial}, ReportSession(p, x)
      PROVE  PamInv'
  <2> DEFINE req == [op |-> "SessionOpen", session |-> OpenInfo(p, x)]
  <2>1. OpenInfo(p, x) \in ActiveSession
    BY PamConstants DEF OpenInfo, ActiveSession
  <2>2. Asked(p, "start", "opening", req)
    BY <2>1, Zenon DEF Asked, OpenReq, OpenInfo
  <2>3. Asks(p, "start", "opening", req)
    BY <1>1, Zenon DEF Asks, ReportSession, Step, Call, SendRequest, ConnectRefused, regVars, diskVars,
                logindVars
  <2>. QED
    BY <2>2, <2>3, AsksKeeps
<1>2. CASE PolicyDenies(p)
  <2> DEFINE req == [op |-> "SessionClose", id |-> p]
  <2>1. Asked(p, "session", "closing", req)
    BY DEF Asked, CloseReq
  <2>2. Asks(p, "session", "closing", req)
    BY <1>2 DEF Asks, PolicyDenies, SessionUuid, Step, Call, SendRequest, ConnectRefused, regVars,
                diskVars, logindVars
  <2>. QED
    BY <2>1, <2>2, AsksKeeps
<1>3. CASE CaptureXdg(p)
  <2> DEFINE req == [op |-> "UpdateSessionTarget", id |-> p, target |-> xdg[p]]
  <2>1. Asked(p, "session", "updating", req)
    BY <1>3 DEF Asked, UpdateReq, CaptureXdg, PamInv, PamTypes
  <2>2. Asks(p, "session", "updating", req)
    BY <1>3 DEF Asks, CaptureXdg, SessionUuid, Step, Call, SendRequest, ConnectRefused, regVars,
                diskVars, logindVars
  <2>. QED
    BY <2>1, <2>2, AsksKeeps
<1>4. CASE SessionReported(p)
  <2> DEFINE new == {Applied(chan[p])}
                      \cup (IF chan[p] \in {"Timeout", "INTERNAL"} THEN {"late"} ELSE {})
  <2>1. Heard(p, "opening", new)
    BY DEF Heard, Applied
  <2>2. Hears(p, "opening", new)
    BY <1>4 DEF Hears, SessionReported, Step, TakeResult, regVars, diskVars, logindVars
  <2>. QED
    BY <2>1, <2>2, HearsKeeps
<1>5. CASE DenialReported(p)
  <2> DEFINE new == heard[p] \cup {IF chan[p] = "Ack" THEN "closed" ELSE "unclosed"}
  <2>1. Heard(p, "closing", new)
    BY Zenon DEF Heard
  <2>2. Hears(p, "closing", new)
    BY <1>5 DEF Hears, Hear, DenialReported, Step, TakeResult, regVars, diskVars, logindVars
  <2>. QED
    BY <2>1, <2>2, HearsKeeps, Zenon
<1>6. CASE XdgCaptured(p)
  <2> DEFINE new == heard[p] \cup {IF chan[p] = "Updated" THEN "updated" ELSE "unpushed"}
  <2>1. Heard(p, "updating", new)
    BY Zenon DEF Heard
  <2>2. Hears(p, "updating", new)
    BY <1>6 DEF Hears, Hear, XdgCaptured, Step, TakeResult, regVars, diskVars, logindVars
  <2>. QED
    BY <2>1, <2>2, HearsKeeps, Zenon
<1>7. ASSUME AcctMgmt(p) \/ BackendDenies(p) \/ NothingToCapture(p) \/ CloseSession(p) \/ Abandon(p)
      PROVE  Moves(p)
  BY <1>7, Zenon DEF AcctMgmt, BackendDenies, NothingToCapture, CloseSession, Abandon, Step, Moves,
              vars, coreVars, regVars, diskVars, ipcVars, logindVars
<1>8. SessionHooks(p) => Moves(p)
  BY DEF SessionHooks, Step, Moves, vars, coreVars, regVars, diskVars, ipcVars, logindVars
<1>9. PamSystemd(p) => Moves(p)
  BY Zenon DEF PamSystemd, Step, Moves, vars, coreVars, regVars, diskVars, ipcVars, logindVars
<1>. QED
  BY <1>1, <1>2, <1>3, <1>4, <1>5, <1>6, <1>7, <1>8, <1>9, MovesKeeps DEF Transaction

\* Every trouble preserves the invariant.
LEMMA EnvironmentKeeps ==
    ASSUME PamInv, Environment
    PROVE  PamInv'
<1>1. ASSUME NEW x \in Serial, DevicePlugged(x, 1) \/ DeviceUnplugged(x, 1),
             UNCHANGED <<pc, pass, serial, xdg, heard, unseen>>
      PROVE  PamInv'
  <2>1. UNCHANGED <<coreVars, ownVars, unseen>>
    BY <1>1, Zenon DEF DevicePlugged, DeviceUnplugged, coreVars, ownVars, regVars, diskVars, ipcVars,
                logindVars
  <2>. QED
    BY <2>1, QuietKeeps
<1>2. ASSUME NEW p \in SessionId, LogindSessionOver(p)
      PROVE  PamInv'
  <2> DEFINE l == xdg[p]
  <2>1. \A q \in SessionId : xdg[q] = l /\ q \notin unseen' =>
            by_id[q] # NoSession /\ by_id[q].target = l
    BY <1>2, Zenon DEF LogindSessionOver, PamInv, XdgInv
  <2>2. Ends(l)
    BY <2>1, <1>2, Zenon DEF Ends, LogindSessionOver, LogindSessionEnds, ownVars, regVars, diskVars, ipcVars
  <2>. QED
    BY <2>2, EndsKeeps
<1>3. ASSUME DaemonStarts, UNCHANGED loginVars
      PROVE  PamInv'
  BY <1>3, StartsKeeps DEF loginVars, ownVars
<1>4. ASSUME DaemonStops, unseen' = unseen \cup {p \in SessionId : xdg[p] \in removedQ},
             UNCHANGED <<pc, pass, serial, xdg, heard>>
      PROVE  PamInv'
  BY <1>4, StopsKeeps DEF ownVars
<1>5. ASSUME NEW c \in Client, CallTimesOut(c), UNCHANGED <<pc, pass, serial, xdg, heard, unseen>>
      PROVE  PamInv'
  BY <1>5, TimesOutKeeps, PamConstants DEF ownVars
<1>. QED
  BY <1>1, <1>2, <1>3, <1>4, <1>5, Zenon DEF Environment

\* The invariant holds throughout every behaviour whose persists succeed.
LEMMA PamInvariant ==
    ASSUME "persist_failure" \notin Disturbances
    PROVE  PamSpec => []PamInv
<1>1. PamInit => PamInv
  <2> SUFFICES ASSUME PamInit PROVE PamInv
    OBVIOUS
  <2>1. PamTypes
    BY PamConstants, Zenon DEF PamInit, Init, PamTypes, ByIdMaps, EmptyById
  <2>2. \A p \in SessionId : p \notin Tracked(by_id) \cup Tracked(disk) /\ ~OpenInFlight(p)
    BY Zenon DEF PamInit, Init, Tracked, EmptyById, OpenInFlight
  <2>3. InboxInv /\ OpenInv
    BY <2>2, Zenon DEF PamInit, Init, InboxInv, OpenInv
  <2>4. XdgInv
    BY DEF PamInit, XdgInv
  <2>5. CloseInv /\ TargetInv
    BY <2>2, Zenon DEF PamInit, CloseInv, Closed, TargetInv, Pushed
  <2>6. OverInv
    BY DEF PamInit, Init, OverInv, Over
  <2>. QED
    BY <2>1, <2>3, <2>4, <2>5, <2>6 DEF PamInv
<1>2. PamInv /\ [PamNext]_<<vars, loginVars>> => PamInv'
  <2>1. ASSUME PamInv, UNCHANGED <<vars, loginVars>>
        PROVE  PamInv'
    BY <2>1, QuietKeeps DEF vars, loginVars, coreVars, ownVars, regVars, diskVars, ipcVars,
                            logindVars
  <2>. QED
    BY <2>1, MonitordStepKeeps, EnvironmentKeeps, TransactionKeeps DEF PamNext, Finished
<1>. QED
  BY <1>1, <1>2, PTL DEF PamSpec

-----------------------------------------------------------------------------

\* For any number of transactions, timeouts and restarts: once the SessionClose
\* of a denied login is acknowledged (close_session in session.rs), neither a
\* request still queued nor the file brings the session back, as long as
\* persist_async succeeds.
THEOREM CloseIsFinal ==
    ASSUME "persist_failure" \notin Disturbances
    PROVE  PamSpec => []AcknowledgedCloseIsFinal
<1>1. PamInv => AcknowledgedCloseIsFinal
  BY DEF PamInv, CloseInv, Closed, AcknowledgedCloseIsFinal
<1>. QED
  BY <1>1, PamInvariant, PTL

\* The logind id monitord acts on is the one of that very login, shared with
\* no other, and an acknowledged push (capture_xdg) survives restarts and
\* late requests, as long as persist_async succeeds.
THEOREM TargetIsOfLogin ==
    ASSUME "persist_failure" \notin Disturbances
    PROVE  PamSpec => []TargetFollowsLogin
<1>1. PamInv => TargetFollowsLogin
  <2> SUFFICES ASSUME PamInv PROVE TargetFollowsLogin
    OBVIOUS
  <2>1. \A p \in Tracked(by_id) : p \in SessionId /\ by_id[p].target \in {NoLogind, xdg[p]}
    BY Zenon DEF PamInv, TargetInv, Tracked
  <2>2. \A p \in Tracked(by_id) : "updated" \in heard[p] => by_id[p].target = xdg[p]
    BY <2>1, Zenon DEF PamInv, TargetInv, Pushed
  <2>3. \A p, q \in SessionId : xdg[p] = xdg[q] /\ xdg[p] # NoLogind => p = q
    BY Zenon DEF PamInv, XdgInv
  <2>. QED
    BY <2>1, <2>2, <2>3, Zenon DEF TargetFollowsLogin
<1>. QED
  BY <1>1, PamInvariant, PTL

\* A tracked session whose logind session is over has its SessionRemoved
\* still queued, unless its end came before the push or while monitord was
\* down (handle_logind, run_async), as long as persist_async succeeds.
THEOREM DeadSessionsGo ==
    ASSUME "persist_failure" \notin Disturbances
    PROVE  PamSpec => []DeadSessionsAreDropped
<1>1. PamInv => DeadSessionsAreDropped
  <2> SUFFICES ASSUME PamInv, NEW p \in Tracked(by_id), by_id[p].target # NoLogind,
                      by_id[p].target \notin logind, p \notin unseen
               PROVE  by_id[p].target \in removedQ
    BY DEF DeadSessionsAreDropped
  <2>1. p \in SessionId /\ by_id[p].target = xdg[p]
    BY Zenon DEF PamInv, TargetInv, Tracked
  <2>. QED
    BY <2>1, Zenon DEF PamInv, OverInv, Over
<1>. QED
  BY <1>1, PamInvariant, PTL

=============================================================================
