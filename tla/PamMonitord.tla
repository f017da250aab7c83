----------------------------- MODULE PamMonitord -----------------------------
(***************************************************************************)
(* PAM transactions against the daemon: what the cdylib tells monitord over *)
(* the life of a login.  pam_sm_authenticate reports the session (flow.rs), *)
(* each of the two pam_sm_open_session calls of a login runs the MAC        *)
(* pipeline and pushes the logind id (entry.rs, session.rs,                 *)
(* xdg_capture.rs), and a denial by the pipeline takes the report back.     *)
(* Every call is one connection, awaited before the transaction goes on.    *)
(*                                                                         *)
(* A transaction mints its own session id, so transactions are named by it. *)
(***************************************************************************)
EXTENDS Monitord

CONSTANTS
    FailMode,     \* monitor_fail_mode
    UidOf,        \* resolve_uid of the PAM user of each transaction
    MaxTroubles   \* bound on device moves, timeouts and stops of the daemon

ASSUME PamConstants ==
    /\ Client = SessionId
    /\ FailMode \in {"strict", "permissive"}
    /\ MaxTroubles \in Nat
    /\ UidOf \in [SessionId -> Uid \cup {UnknownUid}]

VARIABLES
    troubles, \* device moves, timeouts and stops of the daemon so far
    pc,       \* where each transaction stands
    pass,     \* open_session calls of the transaction that have returned
    serial,   \* the serial of the device the credential was read from
    xdg,      \* XDG_SESSION_ID in the PAM environment
    heard,    \* history: what the calls to monitord returned
    unseen    \* history: transactions whose logind session ended before
              \* monitord knew its id, or whose end it forgot when it stopped

loginVars == <<troubles, pc, pass, serial, xdg, heard, unseen>>

PamInit ==
    /\ Init
    /\ troubles = 0
    /\ pc = [p \in SessionId |-> "start"]
    /\ pass = [p \in SessionId |-> 0]
    /\ serial = [p \in SessionId |-> NoSerial]
    /\ xdg = [p \in SessionId |-> NoLogind]
    /\ heard = [p \in SessionId |-> {}]
    /\ unseen = {}

Step(p, from, to) == pc[p] = from /\ pc' = [pc EXCEPT ![p] = to] /\ troubles' = troubles

Hear(p, what) == heard' = [heard EXCEPT ![p] = @ \cup {what}]

\* ConnectPerCall: one fresh connection per request, refused without a daemon.
Call(p, req) == SendRequest(p, req) \/ ConnectRefused(p)

-----------------------------------------------------------------------------
(* pam_sm_authenticate and pam_sm_acct_mgmt.                               *)

\* Mutant: the uuid is derived afresh and names whatever session it hits.
AnySessionUuid(p) == CHOOSE q \in SessionId : Cardinality(SessionId) > 1 => q # p

\* The ActiveSession of send_session_open: the target comes from PAM_TTY and
\* carries no logind id.
OpenInfo(p, x) ==
    [session_id |-> p, uid |-> UidOf[p], usb_serial |-> x, target |-> NoLogind]

\* The flow has verified a credential read from a device that was there, and
\* calls monitor.open_session.  The device may be gone by now, or have no
\* serial.
ReportSession(p, x) ==
    /\ Step(p, "start", "opening")
    /\ serial' = [serial EXCEPT ![p] = x]
    /\ Call(p, [op |-> "SessionOpen", session |-> OpenInfo(p, x)])
    /\ UNCHANGED <<pass, xdg, heard, unseen>>

\* FailModeWrapper::apply on the result of a call.
Applied(reply) ==
    CASE reply = "Ack" -> "Ok"
      [] reply = "DEVICE_GONE" -> "Err"
      [] OTHER -> IF FailMode = "strict" THEN "Err" ELSE "Ok"

\* open_session returned: its verdict is logged and the flow goes on;
\* storing the context may fail.
SessionReported(p) ==
    /\ Step(p, "opening", "authenticated") \/ Step(p, "opening", "failed")
    /\ TakeResult(p)
    /\ heard' = [heard EXCEPT ![p] = {Applied(chan[p])}
                     \cup (IF chan[p] \in {"Timeout", "INTERNAL"} THEN {"late"} ELSE {})]
    /\ UNCHANGED <<pass, serial, xdg, unseen>>

\* pam_sm_acct_mgmt: the certificate may have expired.
AcctMgmt(p) ==
    /\ Step(p, "authenticated", "session") \/ Step(p, "authenticated", "failed")
    /\ UNCHANGED <<pass, serial, xdg, heard, unseen, vars>>

-----------------------------------------------------------------------------
(* pam_sm_open_session, called before and after pam_systemd.               *)

\* The pipeline refuses before there is a monitor client: build_backend finds
\* no PARSEC although it is required.
BackendDenies(p) ==
    /\ Step(p, "session", "denied")
    /\ UNCHANGED <<pass, serial, xdg, heard, unseen, vars>>

\* The session uuid that close_session and UpdateSessionTarget derive from
\* ctx.session_id is the one SessionOpen was sent with.
SessionUuid(p) == p

\* apply_session_policy refuses: close_session, then the denial.
PolicyDenies(p) ==
    /\ Step(p, "session", "closing")
    /\ Call(p, [op |-> "SessionClose", id |-> SessionUuid(p)])
    /\ UNCHANGED <<pass, serial, xdg, heard, unseen>>

\* close_session returned: a failure is logged and never masks the denial.
DenialReported(p) ==
    /\ Step(p, "closing", "denied")
    /\ TakeResult(p)
    /\ Hear(p, IF chan[p] = "Ack" THEN "closed" ELSE "unclosed")
    /\ UNCHANGED <<pass, serial, xdg, unseen>>

\* The pipeline agrees and capture_xdg has nothing to push.
NothingToCapture(p) ==
    /\ xdg[p] = NoLogind
    /\ Step(p, "session", "hooks")
    /\ UNCHANGED <<pass, serial, xdg, heard, unseen, vars>>

\* The pipeline agrees and capture_xdg pushes the logind id.
CaptureXdg(p) ==
    /\ xdg[p] # NoLogind
    /\ Step(p, "session", "updating")
    /\ Call(p, [op |-> "UpdateSessionTarget", id |-> SessionUuid(p), target |-> xdg[p]])
    /\ UNCHANGED <<pass, serial, xdg, heard, unseen>>

\* Whatever the push returned, open_session goes on.
XdgCaptured(p) ==
    /\ Step(p, "updating", "hooks")
    /\ TakeResult(p)
    /\ Hear(p, IF chan[p] = "Updated" THEN "updated" ELSE "unpushed")
    /\ UNCHANGED <<pass, serial, xdg, unseen>>

\* session_open hooks end the call: PAM_SESSION_ERR, or PAM_SUCCESS.
SessionHooks(p) ==
    /\ \/ Step(p, "hooks", "failed")
       \/ Step(p, "hooks", IF pass[p] = 0 THEN "between" ELSE "opened")
    /\ pass' = [pass EXCEPT ![p] = @ + 1]
    /\ UNCHANGED <<serial, xdg, heard, unseen, vars>>

\* pam_systemd.so between the two calls: logind names a new session, or the
\* stack has no pam_systemd.
PamSystemd(p) ==
    /\ Step(p, "between", "session")
    /\ \/ xdg' = xdg
       \/ \E l \in logind : /\ \A q \in SessionId : xdg[q] # l
                            /\ xdg' = [xdg EXCEPT ![p] = l]
    /\ UNCHANGED <<pass, serial, heard, unseen, vars>>

\* pam_sm_close_session runs hooks and sends nothing.
CloseSession(p) ==
    /\ Step(p, "opened", "closed")
    /\ UNCHANGED <<pass, serial, xdg, heard, unseen, vars>>

\* The application ends the transaction between two calls: a screen locker
\* that only authenticates, another module's refusal, a killed process.
Abandon(p) ==
    /\ \E at \in {"authenticated", "session", "between", "opened"} : Step(p, at, "gone")
    /\ UNCHANGED <<pass, serial, xdg, heard, unseen, vars>>

-----------------------------------------------------------------------------

\* The logind session of a transaction ends, at any time after it began.
LogindSessionOver(p) ==
    /\ xdg[p] # NoLogind
    /\ LogindSessionEnds(xdg[p])
    /\ unseen' = IF by_id[p] # NoSession /\ by_id[p].target = xdg[p]
                THEN unseen ELSE unseen \cup {p}
    /\ UNCHANGED <<troubles, pc, pass, serial, xdg, heard>>

Transaction(p) ==
    \/ \E x \in Serial \cup {NoSerial} : ReportSession(p, x)
    \/ SessionReported(p)
    \/ AcctMgmt(p)
    \/ BackendDenies(p)
    \/ PolicyDenies(p)
    \/ DenialReported(p)
    \/ NothingToCapture(p)
    \/ CaptureXdg(p)
    \/ XdgCaptured(p)
    \/ SessionHooks(p)
    \/ PamSystemd(p)
    \/ CloseSession(p)
    \/ Abandon(p)

\* Logout ends a logind session through FinishAction: the same bookkeeping.
MonitordStep ==
    /\ Daemon
    /\ unseen' = unseen \cup {p \in SessionId :
                    /\ xdg[p] \in logind \ logind'
                    /\ ~(by_id[p] # NoSession /\ by_id[p].target = xdg[p])}
    /\ UNCHANGED <<troubles, pc, pass, serial, xdg, heard>>

Trouble == troubles < MaxTroubles /\ troubles' = troubles + 1

Environment ==
    \/ /\ Trouble
       /\ \E x \in Serial : DevicePlugged(x, 1) \/ DeviceUnplugged(x, 1)
       /\ UNCHANGED <<pc, pass, serial, xdg, heard, unseen>>
    \/ \E p \in SessionId : LogindSessionOver(p)
    \/ /\ DaemonStarts
       /\ UNCHANGED loginVars
    \/ /\ "restart" \in Disturbances
       /\ Trouble
       /\ DaemonStops
       /\ unseen' = unseen \cup {p \in SessionId : xdg[p] \in removedQ}
       /\ UNCHANGED <<pc, pass, serial, xdg, heard>>
    \/ /\ "timeout" \in Disturbances
       /\ Trouble
       /\ \E c \in Client : CallTimesOut(c)
       /\ UNCHANGED <<pc, pass, serial, xdg, heard, unseen>>

\* Every transaction is over.
Finished ==
    /\ \A p \in SessionId : pc[p] \in {"denied", "failed", "closed", "gone"}
    /\ UNCHANGED <<vars, loginVars>>

PamNext ==
    MonitordStep \/ Environment \/ Finished \/ \E p \in SessionId : Transaction(p)

PamSpec == PamInit /\ [][PamNext]_<<vars, loginVars>>

-----------------------------------------------------------------------------
(* Correctness.                                                            *)

\* A SessionOpen of p is still on its way to the registry.
OpenInFlight(p) ==
    \E m \in inbox : m.req.op = "SessionOpen" /\ m.req.session.session_id = p

\* Once monitord has acknowledged the SessionClose of a denied login, the
\* session is never tracked again, neither from the inbox nor from the file
\* after a restart, unless the caller had given up on its SessionOpen, which
\* may then be handled after the close.
AcknowledgedCloseIsFinal ==
    \A p \in SessionId :
        "closed" \in heard[p] /\ "late" \notin heard[p] =>
            p \notin Tracked(by_id) \cup Tracked(disk) /\ ~OpenInFlight(p)

\* The logind id monitord would lock or terminate for a session is the one of
\* that very login, no two sessions share one, and an acknowledged push is not
\* undone, by a restart or otherwise.
TargetFollowsLogin ==
    \A p \in Tracked(by_id) :
        /\ by_id[p].target \in {NoLogind, xdg[p]}
        /\ "updated" \in heard[p] => by_id[p].target = xdg[p]
        /\ \A q \in Tracked(by_id) \ {p} :
              by_id[p].target # NoLogind => by_id[p].target # by_id[q].target

\* A tracked session whose logind session is over is about to be dropped: its
\* SessionRemoved is still queued.  The exceptions are a logind session that
\* ended before its id was pushed, and one that ended while monitord was down
\* or whose signal was queued when it stopped.
DeadSessionsAreDropped ==
    \A p \in Tracked(by_id) :
        /\ by_id[p].target # NoLogind /\ by_id[p].target \notin logind
        /\ p \notin unseen
        => by_id[p].target \in removedQ

=============================================================================
