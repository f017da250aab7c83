------------------------------ MODULE IpcServer ------------------------------
(***************************************************************************)
(* The IPC path between the PAM module and monitord: the client library     *)
(* (ipc/client.rs), the accept loop with its connection permits, the        *)
(* handshake and the per-connection loop (server.rs, peercred.rs), the      *)
(* oneshot a request is answered through, and shutdown (shutdown.rs).       *)
(*                                                                         *)
(* A caller opens one connection for one request (ConnectPerCall), so       *)
(* callers name connections.  The state manager is a queue that applies     *)
(* requests in order; what applying means is Monitord.tla.                  *)
(***************************************************************************)
EXTENDS Naturals, Sequences, FiniteSets

CONSTANTS
    Caller,          \* client connections
    Root,            \* the callers whose peer uid is 0
    MaxConnections,  \* max_concurrent_connections
    MAX_FRAME_BYTES, \* limit on a frame body, newline excluded
    Lengths,         \* body lengths of the requests
    Versions,        \* protocol versions of the clients
    PROTOCOL_VERSION \* the daemon's

ASSUME IpcConstants ==
    /\ Root \subseteq Caller
    /\ {"select", "stopped"} \cap Caller = {}
    /\ MaxConnections \in Nat \ {0}
    /\ MAX_FRAME_BYTES \in Nat \ {0}
    /\ Lengths \subseteq Nat \ {0}

VARIABLES
    cli,       \* where the caller stands
    srv,       \* the daemon's end of the connection
    up,        \* frames sent by the client and not yet read
    down,      \* messages sent by the server and not yet read
    lost,      \* history: callers with a frame dropped unread by the daemon
    backlog,   \* connections in the listen queue
    acceptor,  \* "select", "stopped", or the connection awaiting a permit
    permits,   \* free permits of the semaphore
    mailbox,   \* requests sent to the state manager
    slot,      \* the oneshot of the request of a connection
    manager,   \* the state manager is running
    daemon,    \* "up", "stopping" or "down"
    applied    \* how often the request of a connection has taken effect

wireVars == <<up, down, lost>>
acceptVars == <<backlog, acceptor>>
managerVars == <<mailbox, manager, applied>>
vars == <<cli, srv, up, down, lost, backlog, acceptor, permits, mailbox, slot,
          manager, daemon, applied>>

Served == {"handshake", "reading", "dispatch"}

Hello(v) == [kind |-> "hello", version |-> v, len |-> 1]
Request(n) == [kind |-> "request", version |-> PROTOCOL_VERSION, len |-> n]

Init ==
    /\ cli = [c \in Caller |-> "idle"]
    /\ srv = [c \in Caller |-> "none"]
    /\ up = [c \in Caller |-> <<>>]
    /\ down = [c \in Caller |-> <<>>]
    /\ lost = {}
    /\ backlog = <<>>
    /\ acceptor = "select"
    /\ permits = MaxConnections
    /\ mailbox = <<>>
    /\ slot = [c \in Caller |-> "none"]
    /\ manager = TRUE
    /\ daemon = "up"
    /\ applied = [c \in Caller |-> 0]

-----------------------------------------------------------------------------
(* The client: MonitordClient::connect and one send_... call.              *)

Cli(c, from, to) == cli[c] \in from /\ cli' = [cli EXCEPT ![c] = to]

\* The client end of the socket is closed: the MonitordClient was dropped.
Hung(c) == cli[c] \in {"ok", "failed"}

\* encode_message: the body limit excludes the newline.
Encodes(n) == n <= MAX_FRAME_BYTES

Listening == daemon # "down" /\ acceptor # "stopped"

\* Mutant: the request goes out behind Hello without waiting for the answer.
HelloThenRequest(c, v) == <<Hello(v), Request(1)>>

\* What the client writes before it first reads.
Greeting(c, v) == <<Hello(v)>>

\* UnixStream::connect reaches the listen queue.
Connect(c) ==
    /\ Listening
    /\ Cli(c, {"idle"}, "connected")
    /\ srv' = [srv EXCEPT ![c] = "queued"]
    /\ backlog' = Append(backlog, c)
    /\ UNCHANGED <<wireVars, acceptor, permits, managerVars, slot, daemon>>

\* Hello is sent, unless the daemon has dropped the stream.
SendHello(c, v) ==
    /\ IF srv[c] # "closed"
       THEN /\ Cli(c, {"connected"}, "hello")
            /\ up' = [up EXCEPT ![c] = Greeting(c, v)]
       ELSE /\ Cli(c, {"connected"}, "failed")
            /\ UNCHANGED up
    /\ UNCHANGED <<srv, down, lost, acceptVars, permits, managerVars, slot, daemon>>

\* Nobody listens: Unavailable.
ConnectRefused(c) ==
    /\ ~Listening
    /\ Cli(c, {"idle"}, "failed")
    /\ UNCHANGED <<srv, wireVars, acceptVars, permits, managerVars, slot, daemon>>

\* recv during connect: HelloAck, or an error or anything else, which fails.
HelloAnswered(c) ==
    /\ down[c] # <<>>
    /\ Cli(c, {"hello"}, IF Head(down[c]) = "HelloAck" THEN "ready" ELSE "failed")
    /\ down' = [down EXCEPT ![c] = Tail(@)]
    /\ UNCHANGED <<srv, up, lost, acceptVars, permits, managerVars, slot, daemon>>

\* send: an oversize body fails in encode_message, a closed peer in the write.
SendRequest(c, n) ==
    /\ IF Encodes(n) /\ srv[c] # "closed"
       THEN /\ Cli(c, {"ready"}, "call")
            /\ up' = [up EXCEPT ![c] = Append(@, Request(n))]
       ELSE /\ Cli(c, {"ready"}, "failed")
            /\ UNCHANGED up
    /\ UNCHANGED <<srv, down, lost, acceptVars, permits, managerVars, slot, daemon>>

\* recv of the answer: only the expected message is a success.
CallAnswered(c) ==
    /\ down[c] # <<>>
    /\ Cli(c, {"call"}, IF Head(down[c]) = "Ack" THEN "ok" ELSE "failed")
    /\ down' = [down EXCEPT ![c] = Tail(@)]
    /\ UNCHANGED <<srv, up, lost, acceptVars, permits, managerVars, slot, daemon>>

\* recv reads end of file: Unavailable.
ServerGone(c) ==
    /\ srv[c] = "closed" /\ down[c] = <<>>
    /\ Cli(c, {"hello", "call"}, "failed")
    /\ UNCHANGED <<srv, wireVars, acceptVars, permits, managerVars, slot, daemon>>

\* The read timeout of the client's socket.
ClientTimesOut(c) ==
    /\ srv[c] # "closed" /\ down[c] = <<>>
    /\ Cli(c, {"hello", "call"}, "failed")
    /\ UNCHANGED <<srv, wireVars, acceptVars, permits, managerVars, slot, daemon>>

-----------------------------------------------------------------------------
(* The accept loop.                                                        *)

\* The stream leaves the listen queue.  verify_peer_credentials drops that of
\* a peer that is not root; another waits for a permit, and with it the loop.
Accept ==
    /\ daemon # "down" /\ acceptor = "select" /\ backlog # <<>>
    /\ backlog' = Tail(backlog)
    /\ LET c == Head(backlog)
       IN  IF c \in Root
           THEN acceptor' = c /\ srv' = [srv EXCEPT ![c] = "accepted"]
           ELSE acceptor' = acceptor /\ srv' = [srv EXCEPT ![c] = "closed"]
    /\ UNCHANGED <<cli, wireVars, permits, managerVars, slot, daemon>>

PermitFree == permits > 0

\* acquire_owned returns and the connection's task is spawned.
SpawnConnection ==
    /\ daemon # "down" /\ acceptor \in Caller /\ PermitFree
    /\ permits' = permits - 1
    /\ srv' = [srv EXCEPT ![acceptor] = "handshake"]
    /\ acceptor' = "select"
    /\ UNCHANGED <<cli, wireVars, backlog, managerVars, slot, daemon>>

\* The loop sees the token between two accepts only; the listener goes, and
\* the connections still in its queue with it.
AcceptorStops ==
    /\ daemon = "stopping" /\ acceptor = "select"
    /\ acceptor' = "stopped"
    /\ srv' = [c \in Caller |-> IF srv[c] = "queued" THEN "closed" ELSE srv[c]]
    /\ backlog' = <<>>
    /\ UNCHANGED <<cli, wireVars, permits, managerVars, slot, daemon>>

-----------------------------------------------------------------------------
(* One connection: perform_handshake, then serve_connection_with.          *)

\* The task ends and drops its permit.
Release(c) == permits + 1

End(c) ==
    /\ srv' = [srv EXCEPT ![c] = "closed"]
    /\ permits' = Release(c)

Go(c, to) == srv' = [srv EXCEPT ![c] = to] /\ UNCHANGED permits

Say(c, msg) == down' = [down EXCEPT ![c] = Append(@, msg)]

\* write_all to the caller and the next turn of the loop; a caller that hung
\* up ends the connection.
Answer(c, msg) ==
    IF Hung(c) THEN End(c) /\ UNCHANGED down
    ELSE Go(c, "reading") /\ Say(c, msg)

Decides(f) ==
    CASE f.kind # "hello" -> "BAD_REQUEST"
      [] f.version # PROTOCOL_VERSION -> "PROTOCOL_MISMATCH"
      [] OTHER -> "HelloAck"

\* read_line through a BufReader of its own: it may take in more than the
\* line, and what it took in goes with it when the reader is dropped.
Handshake(c) ==
    /\ srv[c] = "handshake" /\ up[c] # <<>>
    /\ \E n \in 1 .. Len(up[c]) :
           /\ up' = [up EXCEPT ![c] = SubSeq(@, n + 1, Len(@))]
           /\ lost' = IF n > 1 THEN lost \cup {c} ELSE lost
    /\ IF Hung(c) THEN End(c) /\ UNCHANGED down
       ELSE /\ Say(c, Decides(Head(up[c])))
            /\ IF Decides(Head(up[c])) = "HelloAck" THEN Go(c, "reading") ELSE End(c)
    /\ UNCHANGED <<cli, acceptVars, managerVars, slot, daemon>>

\* End of file, or two seconds without a line.
HandshakeTimesOut(c) ==
    /\ srv[c] = "handshake" /\ up[c] = <<>>
    /\ End(c)
    /\ UNCHANGED <<cli, wireVars, acceptVars, managerVars, slot, daemon>>

\* read_frame_bounded counts the newline as a byte of the frame.
FrameOutcome(f) == IF f.len + 1 > MAX_FRAME_BYTES THEN "Oversize" ELSE "Frame"

ReadOversize(c) ==
    /\ srv[c] = "reading" /\ up[c] # <<>> /\ FrameOutcome(Head(up[c])) = "Oversize"
    /\ up' = [up EXCEPT ![c] = Tail(@)]
    /\ End(c)
    /\ Say(c, "PROTOCOL_VIOLATION")
    /\ UNCHANGED <<cli, lost, acceptVars, managerVars, slot, daemon>>

\* dispatch: the request goes to the state manager with a fresh oneshot, or
\* is refused when the manager is gone; a second Hello is refused.
Dispatch(c) ==
    /\ srv[c] = "reading" /\ up[c] # <<>> /\ FrameOutcome(Head(up[c])) = "Frame"
    /\ up' = [up EXCEPT ![c] = Tail(@)]
    /\ IF Head(up[c]).kind = "request" /\ manager
       THEN /\ mailbox' = Append(mailbox, c)
            /\ slot' = [slot EXCEPT ![c] = "open"]
            /\ Go(c, "dispatch")
            /\ UNCHANGED down
       ELSE /\ Answer(c, IF manager THEN "BAD_REQUEST" ELSE "INTERNAL")
            /\ UNCHANGED <<mailbox, slot>>
    /\ UNCHANGED <<cli, lost, acceptVars, manager, applied, daemon>>

\* Mutant: an unanswered request counts as done.
AssumeAck(s) == IF s \in {"Ack", "Error"} THEN s ELSE "Ack"

\* await_reply: the manager's answer, or INTERNAL when there is none.
AwaitReply(s) == IF s \in {"Ack", "Error"} THEN s ELSE "INTERNAL"

\* The manager answered, or dropped the oneshot.
ReplyArrives(c) ==
    /\ srv[c] = "dispatch" /\ slot[c] # "open"
    /\ Answer(c, AwaitReply(slot[c]))
    /\ slot' = [slot EXCEPT ![c] = "none"]
    /\ UNCHANGED <<cli, up, lost, acceptVars, managerVars, daemon>>

\* Mutant: the wait for the manager has no limit.
AwaitForever(c) == FALSE /\ UNCHANGED vars

\* Five seconds without an answer; a later one goes nowhere.
ReplyTimesOut(c) ==
    /\ srv[c] = "dispatch" /\ slot[c] = "open"
    /\ Answer(c, AwaitReply(slot[c]))
    /\ slot' = [slot EXCEPT ![c] = "none"]
    /\ UNCHANGED <<cli, up, lost, acceptVars, managerVars, daemon>>

\* End of file, or the idle timeout, which says so to a caller still there.
ConnectionIdle(c) ==
    /\ srv[c] = "reading" /\ up[c] = <<>>
    /\ End(c)
    /\ IF Hung(c) THEN UNCHANGED down ELSE Say(c, "PROTOCOL_VIOLATION")
    /\ UNCHANGED <<cli, up, lost, acceptVars, managerVars, slot, daemon>>

-----------------------------------------------------------------------------
(* The state manager, shutdown and loss of the daemon.                     *)

\* handle_ipc: the request at the head takes effect or is refused, and the
\* answer goes to whoever still holds the other end of the oneshot.
ManagerHandles(answer) ==
    /\ daemon # "down" /\ manager /\ mailbox # <<>>
    /\ LET c == Head(mailbox)
       IN  /\ applied' = [applied EXCEPT ![c] = IF answer = "Ack" THEN @ + 1 ELSE @]
           /\ slot' = [slot EXCEPT ![c] = IF @ = "open" THEN answer ELSE @]
    /\ mailbox' = Tail(mailbox)
    /\ UNCHANGED <<cli, srv, wireVars, acceptVars, permits, manager, daemon>>

\* SIGTERM or SIGINT cancels the token.
Shutdown ==
    /\ daemon = "up"
    /\ daemon' = "stopping"
    /\ UNCHANGED <<cli, srv, wireVars, acceptVars, permits, managerVars, slot>>

\* The manager breaks out of its loop; the requests left are dropped.
ManagerStops ==
    /\ daemon = "stopping" /\ manager
    /\ manager' = FALSE
    /\ mailbox' = <<>>
    /\ slot' = [c \in Caller |-> IF slot[c] = "open" THEN "dropped" ELSE slot[c]]
    /\ UNCHANGED <<cli, srv, wireVars, acceptVars, permits, applied, daemon>>

\* The process is gone, and with it every socket and task.
ProcessEnds ==
    /\ daemon' = "down"
    /\ srv' = [c \in Caller |-> IF srv[c] = "none" THEN "none" ELSE "closed"]
    /\ backlog' = <<>> /\ acceptor' = "stopped"
    /\ mailbox' = <<>> /\ manager' = FALSE
    /\ slot' = [c \in Caller |-> "none"]
    /\ permits' = MaxConnections
    /\ UNCHANGED <<cli, wireVars, applied>>

\* graceful_finish: the tasks have ended, or five seconds have passed.
GracefulFinish == daemon = "stopping" /\ ProcessEnds

Crash == daemon = "up" /\ ProcessEnds

-----------------------------------------------------------------------------

Client(c) ==
    \/ Connect(c)
    \/ \E v \in Versions : SendHello(c, v)
    \/ ConnectRefused(c)
    \/ HelloAnswered(c)
    \/ \E n \in Lengths : SendRequest(c, n)
    \/ CallAnswered(c)
    \/ ServerGone(c)

Connection(c) ==
    \/ Handshake(c)
    \/ HandshakeTimesOut(c)
    \/ ReadOversize(c)
    \/ Dispatch(c)
    \/ ReplyArrives(c)
    \/ ReplyTimesOut(c)
    \/ ConnectionIdle(c)

AcceptLoop == Accept \/ SpawnConnection

\* Every caller has its answer and the daemon nothing left to do.
Done == daemon = "down" /\ (\A c \in Caller : Hung(c)) /\ UNCHANGED vars

Next ==
    \/ \E c \in Caller : Client(c) \/ ClientTimesOut(c) \/ Connection(c)
    \/ AcceptLoop
    \/ AcceptorStops
    \/ \E answer \in {"Ack", "Error"} : ManagerHandles(answer)
    \/ Shutdown
    \/ ManagerStops
    \/ GracefulFinish
    \/ Crash
    \/ Done

Spec == Init /\ [][Next]_vars

\* The client's own timeout and the state manager are left out: the manager
\* may be stuck in a write to disk.
Fairness ==
    /\ WF_vars(AcceptLoop)
    /\ \A c \in Caller : WF_vars(Client(c)) /\ WF_vars(Connection(c))

FairSpec == Spec /\ Fairness

-----------------------------------------------------------------------------
(* Properties.                                                             *)

\* perform_handshake drops a buffered reader that may hold more than the Hello
\* line.  Nothing is lost that way, because connect reads HelloAck before the
\* client writes again.
NoFrameIsDropped == lost = {}

\* The path as a caller sees it.
call == [c \in Caller |-> IF cli[c] \in {"idle", "ok", "failed"} THEN cli[c] ELSE "pending"]

Calls == INSTANCE IpcCall WITH Permitted <- Root, effect <- applied

\* ConnectPerCall over this server is a call as IpcCall.tla describes it: Ack
\* means done, a request is done at most once and for root only, through
\* timeouts on both sides, hang-ups, shutdown and loss of the daemon.
CallIsAtMostOnce == Calls!Spec

\* A caller that connected gets an answer or end of file even without its own
\* timeout and with the state manager stuck: the handshake, idle and reply
\* timeouts of server.rs free the permits and answer in the manager's place.
EveryCallReturns == \A c \in Caller : cli[c] = "connected" ~> Hung(c)

=============================================================================
