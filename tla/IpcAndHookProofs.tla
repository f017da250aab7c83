-------------------------- MODULE IpcAndHookProofs --------------------------
(***************************************************************************)
(* A caller of the daemon, for any number of callers, any frame limit and  *)
(* any number of permits: perform_handshake drops nothing a client sent,   *)
(* and the connection, dispatch and reply machinery of server.rs is a call *)
(* as IpcCall.tla describes it.                                            *)
(*                                                                         *)
(* The hooks of a stage, for any number of them, any stage, configuration, *)
(* login and output: what execute reports of a hook is what happened to    *)
(* it, only the group of a child that has not been reaped is signalled, a  *)
(* hook the validator accepted misses no variable that its stage promises, *)
(* and the lines in the log are the lines that the hook wrote.             *)
(***************************************************************************)
EXTENDS IpcServer, HookSupervisor, WellFoundedInduction, TLAPS

\* A leaf that names no prover is tried with these in turn, the last time with
\* more time.
USE SMT, Zenon, SMTT(30)

Frame == [kind : {"hello", "request"}, version : Versions \cup {PROTOCOL_VERSION}, len : Nat]
CliState == {"idle", "connected", "hello", "ready", "call", "ok", "failed"}
SrvState == {"none", "queued", "accepted", "closed"} \cup Served
SlotState == {"none", "open", "dropped", "Ack", "Error"}
Message == {"HelloAck", "Ack", "Error", "BAD_REQUEST", "PROTOCOL_MISMATCH",
            "PROTOCOL_VIOLATION", "INTERNAL"}

\* The client has written its request, or given up.
Spoken(c) == cli[c] \in {"call", "ok", "failed"}

IpcTypes ==
    /\ cli \in [Caller -> CliState]
    /\ srv \in [Caller -> SrvState]
    /\ up \in [Caller -> Seq(Frame)]
    /\ down \in [Caller -> Seq(Message)]
    /\ backlog \in Seq(Caller)
    /\ mailbox \in Seq(Caller)
    /\ slot \in [Caller -> SlotState]
    /\ applied \in [Caller -> 0 .. 1]

\* The wire carries one frame at a time: the client writes a second one only
\* after the answer to the first, and the answer is written when the first has
\* been read.
Wire(c) ==
    /\ Len(up[c]) <= 1
    /\ cli[c] \in {"idle", "connected"} =>
          up[c] = <<>> /\ down[c] = <<>> /\ srv[c] \notin {"reading", "dispatch"}
    /\ cli[c] = "hello" /\ down[c] # <<>> => up[c] = <<>>
    /\ cli[c] = "ready" => up[c] = <<>>
    /\ srv[c] = "dispatch" => Spoken(c)

WireInv == lost = {} /\ \A c \in Caller : Wire(c)

\* Past the check of the peer's credentials there is only root.
RootInv ==
    /\ acceptor \in Root \cup {"select", "stopped"}
    /\ \A c \in Caller : srv[c] \in {"accepted"} \cup Served => c \in Root

\* The request of a caller is in one place: on the wire, in the mailbox, or
\* done with.
OnWire(c) == up[c] # <<>> /\ Head(up[c]).kind = "request"
Queued(c) == \E i \in 1 .. Len(mailbox) : mailbox[i] = c

OnceInv ==
    /\ \A c \in Caller : ~Spoken(c) => applied[c] = 0
    /\ \A c \in Caller : OnWire(c) => Spoken(c) /\ applied[c] = 0 /\ ~Queued(c)
    /\ \A c \in Caller : Queued(c) => c \in Root /\ Spoken(c) /\ applied[c] = 0
    /\ \A i, j \in 1 .. Len(mailbox) : mailbox[i] = mailbox[j] => i = j

\* An acknowledgement on its way to the caller is of something done.
AckInv ==
    \A c \in Caller :
        /\ slot[c] = "Ack" => applied[c] = 1
        /\ \A i \in 1 .. Len(down[c]) : down[c][i] = "Ack" => applied[c] = 1

IpcInv == IpcTypes /\ WireInv /\ RootInv /\ OnceInv /\ AckInv

-----------------------------------------------------------------------------

\* The states the steps of the client and the server move to.
LEMMA States ==
    /\ \A x \in {"connected", "hello", "ready", "call", "ok", "failed"} : x \in CliState
    /\ \A x \in {"none", "queued", "accepted", "handshake", "reading", "dispatch", "closed"} :
          x \in SrvState
    /\ \A x \in {"none", "open", "dropped", "Ack", "Error"} : x \in SlotState
BY DEF CliState, SrvState, SlotState, Served

\* What the steps of a connection's task are made of keeps the types: a move
\* of the task, its end, and a message to the caller.
LEMMA TaskTypes ==
    ASSUME IpcTypes, NEW c \in Caller
    PROVE  /\ End(c) => srv' \in [Caller -> SrvState]
           /\ \A to \in {"reading", "dispatch"} : Go(c, to) => srv' \in [Caller -> SrvState]
           /\ \A msg \in Message : Say(c, msg) => down' \in [Caller -> Seq(Message)]
           /\ \A msg \in Message : Answer(c, msg) =>
                  srv' \in [Caller -> SrvState] /\ down' \in [Caller -> Seq(Message)]
<1>1. End(c) => srv' \in [Caller -> SrvState]
  BY States DEF IpcTypes, End
<1>2. \A to \in {"reading", "dispatch"} : Go(c, to) => srv' \in [Caller -> SrvState]
  BY States DEF IpcTypes, Go
<1>3. \A msg \in Message : Say(c, msg) => down' \in [Caller -> Seq(Message)]
  BY DEF IpcTypes, Say
<1>4. \A msg \in Message : Answer(c, msg) =>
          srv' \in [Caller -> SrvState] /\ down' \in [Caller -> Seq(Message)]
  BY <1>1, <1>2, <1>3 DEF IpcTypes, Answer
<1> QED BY <1>1, <1>2, <1>3, <1>4

\* A queue that is not empty has a length.
LEMMA NonEmpty ==
    ASSUME NEW S, NEW s \in Seq(S), s # <<>>
    PROVE  Len(s) \in Nat \ {0}
OBVIOUS

\* What a queue, or the list of a hook's lines, holds after a push.
Pushed(s, x) ==
    /\ Len(s) \in Nat
    /\ Len(Append(s, x)) = Len(s) + 1 /\ Append(s, x)[Len(s) + 1] = x
    /\ \A i \in 1 .. Len(s) : Append(s, x)[i] = s[i]

\* A push at the end of the mailbox or of the lines keeps what was there.
LEMMA AppendFacts ==
    ASSUME NEW S, NEW s \in Seq(S), NEW x \in S
    PROVE  Pushed(s, x)
BY DEF Pushed

\* The types of the queues and of a hook's output.
LEMMA SequenceTypes ==
    /\ \A S : << >> \in Seq(S)
    /\ \A S : \A s \in Seq(S) : Len(s) \in Nat /\ DOMAIN s = 1 .. Len(s)
    /\ \A S : \A s \in Seq(S), x \in S : Append(s, x) \in Seq(S)
OBVIOUS

\* The head of the mailbox is a request that has not taken effect, and it is
\* there once.
LEMMA HeadOfMailbox ==
    ASSUME IpcTypes, OnceInv, mailbox # <<>>
    PROVE  LET c == Head(mailbox)
           IN  /\ c \in Root /\ c \in Caller /\ Spoken(c) /\ applied[c] = 0
               /\ ~OnWire(c)
               /\ \A i \in 1 .. Len(Tail(mailbox)) :
                     /\ i + 1 \in 1 .. Len(mailbox) /\ Tail(mailbox)[i] = mailbox[i + 1]
                     /\ Tail(mailbox)[i] # c
<1>1. Len(mailbox) \in Nat \ {0}
  BY NonEmpty, Zenon DEF IpcTypes
<1>2. Head(mailbox) = mailbox[1] /\ Head(mailbox) \in Caller /\ 1 \in 1 .. Len(mailbox)
  BY <1>1 DEF IpcTypes
<1>3. Queued(Head(mailbox))
  BY <1>2 DEF Queued
<1>4. \A i \in 1 .. Len(Tail(mailbox)) :
         i + 1 \in 1 .. Len(mailbox) /\ Tail(mailbox)[i] = mailbox[i + 1] /\ i + 1 # 1
  BY <1>1 DEF IpcTypes
<1>5. \A i \in 1 .. Len(Tail(mailbox)) : Tail(mailbox)[i] # Head(mailbox)
  BY <1>2, <1>4 DEF OnceInv
<1> QED BY <1>2, <1>3, <1>4, <1>5 DEF OnceInv

\* Every message and frame is one the protocol knows, and requests are counted
\* up to one.
LEMMA TypeStep == IpcInv /\ [Next]_vars => IpcTypes'
<1> SUFFICES ASSUME IpcTypes, OnceInv, [Next]_vars PROVE IpcTypes'
  BY DEF IpcInv
<1> USE States DEF IpcTypes
<1>1. ASSUME NEW c \in Caller, Client(c) \/ ClientTimesOut(c) PROVE IpcTypes'
  <2> USE DEF Cli, wireVars, acceptVars, managerVars
  <2>1. \A v \in Versions : <<Hello(v)>> \in Seq(Frame)
    BY DEF Hello, Frame
  <2>2. \A n \in Lengths : Request(n) \in Frame
    BY IpcConstants DEF Request, Frame
  <2>3. CASE Connect(c)
    BY <2>3 DEF Connect
  <2>4. CASE \E v \in Versions : SendHello(c, v)
    BY <2>1, <2>4, Zenon DEF SendHello, Greeting
  <2>5. CASE ConnectRefused(c)
    BY <2>5 DEF ConnectRefused
  <2>6. CASE HelloAnswered(c)
    BY <2>6 DEF HelloAnswered
  <2>7. CASE \E n \in Lengths : SendRequest(c, n)
    <3>1. PICK n \in Lengths : SendRequest(c, n)
      BY <2>7
    <3>2. up' \in [Caller -> Seq(Frame)]
      <4>1. [up EXCEPT ![c] = Append(@, Request(n))] \in [Caller -> Seq(Frame)]
        BY <2>2
      <4> QED BY <3>1, <4>1, Zenon DEF SendRequest
    <3>3. cli' \in [Caller -> CliState]
      BY <3>1, Zenon DEF SendRequest
    <3> QED BY <3>1, <3>2, <3>3 DEF SendRequest
  <2>8. CASE CallAnswered(c)
    BY <2>8 DEF CallAnswered
  <2>9. CASE ServerGone(c)
    BY <2>9 DEF ServerGone
  <2>10. CASE ClientTimesOut(c)
    BY <2>10 DEF ClientTimesOut
  <2> QED BY <1>1, <2>3, <2>4, <2>5, <2>6, <2>7, <2>8, <2>9, <2>10, Zenon DEF Client
<1>2. ASSUME NEW c \in Caller, Connection(c) PROVE IpcTypes'
  <2> USE TaskTypes DEF wireVars, acceptVars, managerVars
  <2>1. \A msg \in {"PROTOCOL_VIOLATION", "BAD_REQUEST", "INTERNAL", Decides(Head(up[c])),
                    AwaitReply(slot[c])} : msg \in Message
    BY DEF Decides, AwaitReply, Message
  <2>2. CASE Handshake(c)
    <3>1. PICK n \in 1 .. Len(up[c]) : up' = [up EXCEPT ![c] = SubSeq(@, n + 1, Len(@))]
      BY <2>2, Zenon DEF Handshake
    <3>2. up' \in [Caller -> Seq(Frame)]
      BY <3>1
    <3> QED BY <2>1, <2>2, <3>2 DEF Handshake
  <2>3. CASE HandshakeTimesOut(c)
    BY <2>3 DEF HandshakeTimesOut
  <2>4. up[c] # <<>> => [up EXCEPT ![c] = Tail(@)] \in [Caller -> Seq(Frame)]
    OBVIOUS
  <2>5. CASE ReadOversize(c)
    BY <2>1, <2>4, <2>5 DEF ReadOversize
  <2>6. CASE Dispatch(c)
    <3>1. CASE Head(up[c]).kind = "request" /\ manager
      <4>1. mailbox' \in Seq(Caller)
        <5>1. Append(mailbox, c) \in Seq(Caller)
          OBVIOUS
        <5> QED BY <2>6, <3>1, <5>1, Zenon DEF Dispatch
      <4>2. slot' \in [Caller -> SlotState]
        BY <2>6, <3>1, Zenon DEF Dispatch
      <4> QED BY <2>4, <2>6, <3>1, <4>1, <4>2 DEF Dispatch
    <3>2. CASE ~(Head(up[c]).kind = "request" /\ manager)
      BY <2>1, <2>4, <2>6, <3>2 DEF Dispatch
    <3> QED BY <3>1, <3>2
  <2>7. CASE ReplyArrives(c) \/ ReplyTimesOut(c)
    <3>1. slot' \in [Caller -> SlotState]
      BY <2>7, Zenon DEF ReplyArrives, ReplyTimesOut
    <3> QED BY <2>1, <2>7, <3>1 DEF ReplyArrives, ReplyTimesOut
  <2>8. CASE ConnectionIdle(c)
    BY <2>1, <2>8 DEF ConnectionIdle
  <2> QED BY <1>2, <2>2, <2>3, <2>5, <2>6, <2>7, <2>8 DEF Connection
<1> USE DEF wireVars, acceptVars, managerVars
<1>3. CASE Accept
  <2>1. backlog' \in Seq(Caller) /\ Head(backlog) \in Caller
    BY <1>3 DEF Accept
  <2>2. srv' \in [Caller -> SrvState]
    BY <1>3, <2>1, Zenon DEF Accept
  <2> QED BY <1>3, <2>1, <2>2 DEF Accept
<1>4. CASE SpawnConnection
  BY <1>4 DEF SpawnConnection
<1>5. CASE AcceptorStops
  BY <1>5 DEF AcceptorStops
<1>6. ASSUME NEW answer \in {"Ack", "Error"}, ManagerHandles(answer) PROVE IpcTypes'
  <2>1. Head(mailbox) \in Caller /\ applied[Head(mailbox)] = 0
    BY <1>6, HeadOfMailbox DEF ManagerHandles
  <2> QED BY <1>6, <2>1 DEF ManagerHandles
<1>7. CASE Shutdown
  BY <1>7 DEF Shutdown
<1>8. CASE ManagerStops
  BY <1>8 DEF ManagerStops
<1>9. CASE GracefulFinish \/ Crash
  <2>1. ProcessEnds
    BY <1>9 DEF GracefulFinish, Crash
  <2> QED BY <2>1 DEF ProcessEnds
<1>10. CASE Done \/ UNCHANGED vars
  BY <1>10 DEF Done, vars
<1> QED BY <1>1, <1>2, <1>3, <1>4, <1>5, <1>6, <1>7, <1>8, <1>9, <1>10, Zenon DEF Next, AcceptLoop

-----------------------------------------------------------------------------

\* A step of one caller or of its connection's task leaves the other
\* connections alone.
LEMMA Apart ==
    ASSUME IpcTypes, NEW c \in Caller, NEW d \in Caller, d # c,
           Client(c) \/ ClientTimesOut(c) \/ Connection(c)
    PROVE  /\ cli'[d] = cli[d] /\ srv'[d] = srv[d] /\ up'[d] = up[d] /\ down'[d] = down[d]
           /\ slot'[d] = slot[d] /\ applied' = applied
<1> USE DEF IpcTypes, wireVars, acceptVars, managerVars
<1>1. CASE Client(c) \/ ClientTimesOut(c)
  BY <1>1, Zenon DEF Client, Connect, SendHello, ConnectRefused, HelloAnswered, SendRequest,
                     CallAnswered, ServerGone, ClientTimesOut, Cli
<1>2. CASE Connection(c)
  BY <1>2, Zenon DEF Connection, Handshake, HandshakeTimesOut, ReadOversize, Dispatch,
                     ReplyArrives, ReplyTimesOut, ConnectionIdle, Answer, End, Go, Say
<1> QED BY <1>1, <1>2

\* What is read of a wire with one frame is that frame.
LEMMA OneFrame ==
    ASSUME NEW S, NEW s \in Seq(S), s # <<>>, Len(s) <= 1
    PROVE  Len(s) = 1 /\ Tail(s) = <<>> /\ SubSeq(s, 2, Len(s)) = <<>>
<1>1. Len(s) = 1
  <2>1. Len(s) \in Nat \ {0}
    BY NonEmpty
  <2> QED BY <2>1
<1>2. Tail(s) \in Seq(S) /\ Len(Tail(s)) = 0
  BY <1>1
<1>3. SubSeq(s, 2, Len(s)) \in Seq(S) /\ Len(SubSeq(s, 2, Len(s))) = 0
  BY <1>1
<1>4. \A q \in Seq(S) : Len(q) = 0 => q = <<>>
  <2>1. \A q \in Seq(S) : q # <<>> => Len(q) # 0
    BY NonEmpty
  <2> QED BY <2>1, Zenon
<1> QED BY <1>1, <1>2, <1>3, <1>4, Zenon

\* The client waits for each answer and the server reads before it answers.
LEMMA WireStep == IpcInv /\ [Next]_vars => WireInv'
<1> SUFFICES ASSUME IpcTypes, WireInv, OnceInv, [Next]_vars PROVE WireInv'
  BY DEF IpcInv
<1> USE DEF IpcTypes, WireInv, wireVars, acceptVars, managerVars
<1>1. ASSUME NEW d \in Caller, cli'[d] = cli[d], up'[d] = up[d], down'[d] = down[d],
             srv'[d] = srv[d] \/ srv'[d] \notin {"reading", "dispatch"}
      PROVE  Wire(d)'
  BY <1>1 DEF Wire, Spoken
<1>2. ASSUME NEW c \in Caller, lost' = {}, Wire(c)',
             Client(c) \/ ClientTimesOut(c) \/ Connection(c)
      PROVE  WireInv'
  BY <1>1, <1>2, Apart, Zenon
<1>3. ASSUME NEW c \in Caller, Client(c) \/ ClientTimesOut(c) PROVE WireInv'
  <2> USE DEF Cli, Wire, Spoken
  <2>1. lost' = {}
    BY <1>3 DEF Client, Connect, SendHello, ConnectRefused, HelloAnswered, SendRequest,
                CallAnswered, ServerGone, ClientTimesOut
  <2>2. Connect(c) => Wire(c)'
    BY DEF Connect
  <2>3. (\E v \in Versions : SendHello(c, v)) => Wire(c)'
    <3> SUFFICES ASSUME NEW v \in Versions, SendHello(c, v) PROVE Wire(c)'
      OBVIOUS
    <3>1. down'[c] = <<>> /\ srv'[c] # "dispatch" /\ cli'[c] \in {"hello", "failed"}
      BY DEF SendHello
    <3>2. up'[c] = up[c] \/ up'[c] = <<Hello(v)>>
      BY DEF SendHello, Greeting
    <3>3. Len(up'[c]) <= 1
      <4>1. Len(up[c]) <= 1
        OBVIOUS
      <4>2. Len(<<Hello(v)>>) <= 1
        OBVIOUS
      <4> QED BY <3>2, <4>1, <4>2, Zenon
    <3> QED BY <3>1, <3>3
  <2>4. HelloAnswered(c) => Wire(c)'
    BY Zenon DEF HelloAnswered
  <2>5. (\E n \in Lengths : SendRequest(c, n)) => Wire(c)'
    <3> SUFFICES ASSUME NEW n \in Lengths, SendRequest(c, n) PROVE Wire(c)'
      OBVIOUS
    <3>1. up[c] = <<>> /\ cli'[c] \in {"call", "failed"} /\ srv' = srv
      BY DEF SendRequest
    <3>2. up'[c] = up[c] \/ up'[c] = Append(up[c], Request(n))
      BY DEF SendRequest
    <3>3. Len(up'[c]) <= 1
      <4>1. Len(up[c]) <= 1
        OBVIOUS
      <4>2. Len(Append(<<>>, Request(n))) <= 1
        OBVIOUS
      <4> QED BY <3>1, <3>2, <4>1, <4>2, Zenon
    <3> QED BY <3>1, <3>3
  <2>6. CallAnswered(c) => Wire(c)'
    BY DEF CallAnswered
  <2>7. ConnectRefused(c) \/ ServerGone(c) \/ ClientTimesOut(c) => Wire(c)'
    BY DEF ConnectRefused, ServerGone, ClientTimesOut
  <2> HIDE DEF WireInv, Wire
  <2> QED BY <1>2, <1>3, <2>1, <2>2, <2>3, <2>4, <2>5, <2>6, <2>7, Zenon DEF Client
<1>4. ASSUME NEW c \in Caller, Connection(c) PROVE WireInv'
  <2>1. ASSUME cli' = cli, up'[c] = <<>>, srv'[c] = "dispatch" => Spoken(c),
               cli[c] \notin {"idle", "connected"}
        PROVE  Wire(c)'
    BY <2>1 DEF Wire, Spoken
  <2>2. srv[c] \in {"reading", "dispatch"} \/ up[c] # <<>> => cli[c] \notin {"idle", "connected"}
    BY DEF Wire
  <2>3. CASE Handshake(c)
    <3>1. Len(up[c]) = 1
      <4>1. up[c] # <<>> /\ Len(up[c]) <= 1 /\ up[c] \in Seq(Frame)
        BY <2>3 DEF Handshake, Wire
      <4> HIDE DEF WireInv, IpcTypes
      <4> QED BY <4>1, OneFrame
    <3>2. PICK n \in 1 .. Len(up[c]) :
             /\ up' = [up EXCEPT ![c] = SubSeq(@, n + 1, Len(@))]
             /\ lost' = IF n > 1 THEN lost \cup {c} ELSE lost
      BY <2>3, Zenon DEF Handshake
    <3>3. n = 1 /\ SubSeq(up[c], n + 1, Len(up[c])) = <<>>
      <4>1. up[c] \in Seq(Frame)
        OBVIOUS
      <4> HIDE DEF WireInv, IpcTypes
      <4> QED BY <3>1, <4>1
    <3>4. up'[c] = <<>> /\ lost' = {}
      BY <3>2, <3>3
    <3>5. cli' = cli /\ srv'[c] # "dispatch"
      BY <2>3 DEF Handshake, End, Go
    <3> QED BY <1>2, <1>4, <2>1, <2>2, <2>3, <3>4, <3>5, Zenon DEF Handshake
  <2>4. CASE HandshakeTimesOut(c)
    BY <1>1, <1>2, <1>4, <2>4 DEF HandshakeTimesOut, End
  <2>5. CASE ReadOversize(c)
    <3>1. up'[c] = <<>> /\ srv'[c] = "closed"
      BY <2>5 DEF ReadOversize, Wire, End
    <3> QED BY <1>2, <1>4, <2>1, <2>2, <2>5, <3>1 DEF ReadOversize
  <2>6. CASE Dispatch(c)
    <3>1. up'[c] = <<>> /\ cli' = cli
      BY <2>6 DEF Dispatch, Wire
    <3>2. srv'[c] = "dispatch" => Spoken(c)
      BY <2>6 DEF Dispatch, Answer, End, Go, OnceInv, OnWire
    <3> QED BY <1>2, <1>4, <2>1, <2>2, <2>6, <3>1, <3>2 DEF Dispatch
  <2>7. CASE ReplyArrives(c) \/ ReplyTimesOut(c)
    <3>1. cli' = cli /\ up' = up /\ srv'[c] # "dispatch" /\ Spoken(c)
      BY <2>7 DEF ReplyArrives, ReplyTimesOut, Answer, End, Go, Wire
    <3>2. Wire(c)'
      BY <3>1 DEF Wire, Spoken
    <3> QED BY <1>2, <1>4, <2>7, <3>2, Zenon DEF ReplyArrives, ReplyTimesOut
  <2>8. CASE ConnectionIdle(c)
    <3>1. srv'[c] = "closed"
      BY <2>8 DEF ConnectionIdle, End
    <3> QED BY <1>2, <1>4, <2>1, <2>2, <2>8, <3>1 DEF ConnectionIdle
  <2> QED BY <1>4, <2>3, <2>4, <2>5, <2>6, <2>7, <2>8 DEF Connection
<1>5. CASE Accept \/ SpawnConnection \/ AcceptorStops
  BY <1>1, <1>5, Zenon DEF Accept, SpawnConnection, AcceptorStops
<1>6. CASE \E answer \in {"Ack", "Error"} : ManagerHandles(answer)
  BY <1>1, <1>6 DEF ManagerHandles
<1>7. CASE Shutdown \/ ManagerStops \/ GracefulFinish \/ Crash
  BY <1>1, <1>7, Zenon DEF Shutdown, ManagerStops, GracefulFinish, Crash, ProcessEnds
<1>8. CASE Done \/ UNCHANGED vars
  BY <1>1, <1>8 DEF Done, vars
<1> QED BY <1>3, <1>4, <1>5, <1>6, <1>7, <1>8 DEF Next, AcceptLoop

\* Only a stream that passed verify_peer_credentials gets past the accept loop.
LEMMA RootStep == IpcInv /\ [Next]_vars => RootInv'
<1> SUFFICES ASSUME IpcTypes, RootInv, [Next]_vars PROVE RootInv'
  BY DEF IpcInv
<1> USE DEF IpcTypes, RootInv, wireVars, acceptVars, managerVars, Served
<1>1. ASSUME acceptor' = acceptor \/ acceptor' \in {"select", "stopped"},
             \A c \in Caller : srv'[c] = srv[c] \/ srv'[c] \notin {"accepted"} \cup Served
      PROVE  RootInv'
  BY <1>1
<1>2. ASSUME NEW c \in Caller, Client(c) \/ ClientTimesOut(c) PROVE RootInv'
  <2>1. acceptor' = acceptor
    BY <1>2 DEF Client, Connect, SendHello, ConnectRefused, HelloAnswered, SendRequest,
                CallAnswered, ServerGone, ClientTimesOut
  <2>2. srv' = srv \/ srv' = [srv EXCEPT ![c] = "queued"]
    BY <1>2 DEF Client, Connect, SendHello, ConnectRefused, HelloAnswered, SendRequest,
                CallAnswered, ServerGone, ClientTimesOut
  <2> QED BY <1>1, <2>1, <2>2
<1>3. ASSUME NEW c \in Caller, Connection(c) PROVE RootInv'
  <2>1. acceptor' = acceptor /\ srv[c] \in Served
    BY <1>3 DEF Connection, Handshake, HandshakeTimesOut, ReadOversize, Dispatch, ReplyArrives,
                ReplyTimesOut, ConnectionIdle
  <2>2. \A d \in Caller : d # c => srv'[d] = srv[d]
    BY <1>3, Apart
  <2> QED BY <2>1, <2>2
<1>4. CASE Accept
  <2>1. Head(backlog) \in Caller
    BY <1>4 DEF Accept
  <2>2. CASE Head(backlog) \in Root
    BY <1>4, <2>1, <2>2 DEF Accept
  <2>3. CASE Head(backlog) \notin Root
    BY <1>1, <1>4, <2>1, <2>3 DEF Accept
  <2> QED BY <2>2, <2>3
<1>5. CASE SpawnConnection
  <2>1. acceptor \in Root
    BY <1>5, IpcConstants DEF SpawnConnection
  <2> QED BY <1>5, <2>1 DEF SpawnConnection
<1>6. CASE AcceptorStops \/ GracefulFinish \/ Crash
  BY <1>1, <1>6, Zenon DEF AcceptorStops, GracefulFinish, Crash, ProcessEnds
<1>7. CASE Shutdown \/ ManagerStops \/ \E answer \in {"Ack", "Error"} : ManagerHandles(answer)
  BY <1>1, <1>7 DEF Shutdown, ManagerStops, ManagerHandles
<1>8. CASE Done \/ UNCHANGED vars
  BY <1>1, <1>8 DEF Done, vars
<1> QED BY <1>2, <1>3, <1>4, <1>5, <1>6, <1>7, <1>8 DEF Next, AcceptLoop

\* An acknowledgement is written only for a request that took effect.
LEMMA AckStep == IpcInv /\ [Next]_vars => AckInv'
<1> SUFFICES ASSUME IpcTypes, OnceInv, AckInv, [Next]_vars PROVE AckInv'
  BY DEF IpcInv
<1> DEFINE Acked(c) == /\ slot[c] = "Ack" => applied[c] = 1
                       /\ \A i \in 1 .. Len(down[c]) : down[c][i] = "Ack" => applied[c] = 1
<1> USE DEF IpcTypes, wireVars, acceptVars, managerVars
<1>1. \A c \in Caller : Acked(c)
  BY DEF AckInv
<1>2. ASSUME \A c \in Caller : Acked(c)' PROVE AckInv'
  BY <1>2, Zenon DEF AckInv
<1>3. ASSUME NEW d \in Caller, down'[d] = down[d], applied'[d] = applied[d],
             slot'[d] = slot[d] \/ slot'[d] # "Ack"
      PROVE  Acked(d)'
  BY <1>1, <1>3
<1> HIDE DEF Acked
<1>4. ASSUME NEW c \in Caller, Acked(c)', Client(c) \/ ClientTimesOut(c) \/ Connection(c)
      PROVE  AckInv'
  BY <1>2, <1>3, <1>4, Apart, Zenon
<1>5. ASSUME NEW c \in Caller, Client(c) \/ ClientTimesOut(c) PROVE AckInv'
  <2>1. down' = down \/ (down[c] # <<>> /\ down' = [down EXCEPT ![c] = Tail(@)])
    BY <1>5, Zenon DEF Client, Connect, SendHello, ConnectRefused, HelloAnswered, SendRequest,
                CallAnswered, ServerGone, ClientTimesOut
  <2>2. slot' = slot /\ applied' = applied
    BY <1>5 DEF Client, Connect, SendHello, ConnectRefused, HelloAnswered, SendRequest,
                CallAnswered, ServerGone, ClientTimesOut
  <2>3. CASE down' = down
    BY <1>3, <1>4, <1>5, <2>2, <2>3
  <2>4. CASE down[c] # <<>> /\ down' = [down EXCEPT ![c] = Tail(@)]
    <3>1. \A i \in 1 .. Len(Tail(down[c])) : /\ Tail(down[c])[i] = down[c][i + 1]
                                             /\ i + 1 \in 1 .. Len(down[c])
      BY <2>4
    <3>2. Acked(c)'
      BY <1>1, <2>2, <2>4, <3>1 DEF Acked
    <3> QED BY <1>4, <1>5, <3>2
  <2> QED BY <2>1, <2>3, <2>4, Zenon
<1>6. ASSUME NEW c \in Caller, Connection(c) PROVE AckInv'
  <2>1. ASSUME NEW msg, msg = "Ack" => applied[c] = 1, UNCHANGED down \/ Say(c, msg),
               applied' = applied, slot'[c] = slot[c] \/ slot'[c] # "Ack"
        PROVE  AckInv'
    <3>1. ASSUME Say(c, msg) PROVE Acked(c)'
      <4>1. down'[c] = Append(down[c], msg)
        BY <3>1 DEF Say
      <4>2. \A i \in 1 .. Len(down'[c]) : down'[c][i] = msg \/
               (i \in 1 .. Len(down[c]) /\ down'[c][i] = down[c][i])
        BY <4>1
      <4> QED BY <1>1, <2>1, <4>2, Zenon DEF Acked
    <3> QED BY <1>3, <1>4, <1>6, <2>1, <3>1, Zenon
  <2>2. CASE Handshake(c)
    BY <2>1, <2>2, Zenon DEF Handshake, Decides
  <2>3. CASE HandshakeTimesOut(c)
    BY <2>1, <2>3, Zenon DEF HandshakeTimesOut
  <2>4. CASE ReadOversize(c) \/ ConnectionIdle(c)
    BY <2>1, <2>4, Zenon DEF ReadOversize, ConnectionIdle
  <2>5. CASE Dispatch(c)
    BY <2>1, <2>5, Zenon DEF Dispatch, Answer
  <2>6. CASE ReplyArrives(c) \/ ReplyTimesOut(c)
    <3>1. AwaitReply(slot[c]) = "Ack" => applied[c] = 1
      BY <1>1 DEF AwaitReply, Acked
    <3> QED BY <2>1, <2>6, <3>1 DEF ReplyArrives, ReplyTimesOut, Answer
  <2> QED BY <1>6, <2>2, <2>3, <2>4, <2>5, <2>6 DEF Connection
<1>7. CASE Accept \/ SpawnConnection \/ AcceptorStops \/ Shutdown
  BY <1>2, <1>3, <1>7 DEF Accept, SpawnConnection, AcceptorStops, Shutdown
<1>8. ASSUME NEW answer \in {"Ack", "Error"}, ManagerHandles(answer) PROVE AckInv'
  <2>1. PICK c \in Caller : c = Head(mailbox) /\ applied[c] = 0 /\ down' = down
    BY <1>8, HeadOfMailbox DEF ManagerHandles, wireVars
  <2>2. \A d \in Caller : d # c => Acked(d)'
    BY <1>3, <1>8, <2>1 DEF ManagerHandles
  <2>3. Acked(c)'
    BY <1>1, <1>8, <2>1 DEF ManagerHandles, Acked
  <2> QED BY <1>2, <2>2, <2>3
<1>9. CASE ManagerStops \/ GracefulFinish \/ Crash
  BY <1>2, <1>3, <1>9 DEF ManagerStops, GracefulFinish, Crash, ProcessEnds
<1>10. CASE Done \/ UNCHANGED vars
  BY <1>2, <1>3, <1>10, Zenon DEF Done, vars
<1> QED BY <1>5, <1>6, <1>7, <1>8, <1>9, <1>10 DEF Next, AcceptLoop

\* A caller that has spoken is not heard again.
LEMMA SpokenStays ==
    ASSUME IpcTypes, [Next]_vars, NEW d \in Caller, Spoken(d)
    PROVE  Spoken(d)'
<1> USE DEF IpcTypes, Spoken
<1>1. ASSUME NEW c \in Caller, Client(c) \/ ClientTimesOut(c) PROVE Spoken(d)'
  BY <1>1, Zenon DEF Client, Connect, SendHello, ConnectRefused, HelloAnswered, SendRequest,
                     CallAnswered, ServerGone, ClientTimesOut, Cli
<1>2. CASE UNCHANGED cli
  BY <1>2
<1> QED BY <1>1, <1>2, Zenon
        DEF Next, Connection, Handshake, HandshakeTimesOut, ReadOversize, Dispatch, ReplyArrives,
            ReplyTimesOut, ConnectionIdle, AcceptLoop, Accept, SpawnConnection, AcceptorStops,
            ManagerHandles, Shutdown, ManagerStops, GracefulFinish, Crash, ProcessEnds, Done, vars

\* A request moves from the wire to the mailbox once, and leaves the mailbox
\* once.
LEMMA OnceStep == IpcInv /\ [Next]_vars => OnceInv'
<1> SUFFICES ASSUME IpcTypes, WireInv, RootInv, OnceInv, [Next]_vars PROVE OnceInv'
  BY DEF IpcInv
<1>1. \A d \in Caller : Spoken(d) => Spoken(d)'
  BY SpokenStays
<1>2. ASSUME mailbox' = mailbox \/ mailbox' = <<>>, applied' = applied,
             \A c \in Caller : OnWire(c)' =>
                 OnWire(c) \/ (Spoken(c)' /\ applied[c] = 0 /\ ~Queued(c))
      PROVE  OnceInv'
  <2>1. \A c \in Caller : Queued(c)' => Queued(c)
    BY <1>2 DEF Queued
  <2>2. \A i, j \in 1 .. Len(mailbox') : mailbox'[i] = mailbox'[j] => i = j
    BY <1>2 DEF OnceInv
  <2> QED BY <1>1, <1>2, <2>1, <2>2 DEF OnceInv
<1> USE DEF wireVars, acceptVars, managerVars
<1>3. ASSUME NEW c \in Caller, Client(c) \/ ClientTimesOut(c) PROVE OnceInv'
  <2>1. mailbox' = mailbox /\ applied' = applied
    BY <1>3 DEF Client, Connect, SendHello, ConnectRefused, HelloAnswered, SendRequest,
                CallAnswered, ServerGone, ClientTimesOut
  <2>2. \A d \in Caller : d # c => (OnWire(d)' <=> OnWire(d))
    BY <1>3, Apart, Zenon DEF OnWire
  <2>3. ASSUME OnWire(c)', ~OnWire(c) PROVE Spoken(c)' /\ applied[c] = 0 /\ ~Queued(c)
    <3>1. PICK n \in Lengths : SendRequest(c, n)
      <4>1. up' # up
        BY <2>3 DEF OnWire
      <4>2. \A v : Head(<<Hello(v)>>).kind # "request"
        BY DEF Hello
      <4>3. ASSUME NEW v, SendHello(c, v) PROVE FALSE
        BY <2>3, <4>1, <4>2, <4>3 DEF SendHello, Greeting, OnWire, IpcTypes
      <4> QED BY <1>3, <4>1, <4>3 DEF Client, Connect, ConnectRefused, HelloAnswered,
                                      CallAnswered, ServerGone, ClientTimesOut
    <3>2. cli[c] = "ready"
      BY <3>1 DEF SendRequest, Cli
    <3>3. Spoken(c)'
      BY <3>1 DEF SendRequest, Cli, IpcTypes, Spoken
    <3> QED BY <3>2, <3>3, Zenon DEF OnceInv, Spoken
  <2> QED BY <1>2, <2>1, <2>2, <2>3, Zenon
<1>4. ASSUME NEW c \in Caller, Connection(c) PROVE OnceInv'
  <2>1. \A d \in Caller : d # c => (OnWire(d)' <=> OnWire(d))
    BY <1>4, Apart, Zenon DEF OnWire
  <2>2. up[c] \in Seq(Frame) /\ Len(up[c]) <= 1 /\ cli' = cli /\ applied' = applied
    BY <1>4 DEF IpcTypes, WireInv, Wire, Connection, Handshake, HandshakeTimesOut, ReadOversize,
                Dispatch, ReplyArrives, ReplyTimesOut, ConnectionIdle
  <2>3. ~OnWire(c)' \/ (up' = up /\ ~Dispatch(c))
    <3>1. up[c] # <<>> => Tail(up[c]) = <<>>
      BY <2>2, OneFrame
    <3>2. ASSUME Handshake(c) PROVE up'[c] = <<>>
      BY <3>2, <2>2, OneFrame DEF Handshake, IpcTypes
    <3>3. ASSUME ReadOversize(c) \/ Dispatch(c) PROVE up'[c] = <<>>
      BY <3>1, <3>3, Zenon DEF ReadOversize, Dispatch, IpcTypes
    <3> QED BY <1>4, <3>2, <3>3, Zenon
            DEF Connection, HandshakeTimesOut, ReplyArrives, ReplyTimesOut, ConnectionIdle, OnWire
  <2>4. CASE mailbox' = mailbox
    BY <1>2, <2>1, <2>2, <2>3, <2>4, Zenon DEF OnWire
  <2>5. CASE mailbox' # mailbox
    <3>1. Dispatch(c) /\ mailbox' = Append(mailbox, c) /\ OnWire(c)
      <4>1. Dispatch(c)
        BY <1>4, <2>5 DEF Connection, Handshake, HandshakeTimesOut, ReadOversize, ReplyArrives,
                          ReplyTimesOut, ConnectionIdle
      <4> QED BY <2>5, <4>1, Zenon DEF Dispatch, OnWire
    <3>2. c \in Root /\ Spoken(c) /\ applied[c] = 0 /\ ~Queued(c)
      BY <3>1, Zenon DEF Dispatch, RootInv, Served, OnceInv
    <3>3. /\ Len(mailbox') = Len(mailbox) + 1 /\ Len(mailbox) \in Nat
          /\ \A i \in 1 .. Len(mailbox) : mailbox'[i] = mailbox[i]
          /\ mailbox'[Len(mailbox) + 1] = c
      <4>1. mailbox \in Seq(Caller) /\ c \in Caller
        BY Zenon DEF IpcTypes
      <4>2. Pushed(mailbox, c)
        BY <4>1, AppendFacts, Zenon
      <4> QED BY <3>1, <4>2, Zenon DEF Pushed
    <3>4. \A d \in Caller : Queued(d)' => d = c \/ Queued(d)
      <4>1. \A i \in 1 .. Len(mailbox) + 1 : i \in 1 .. Len(mailbox) \/ i = Len(mailbox) + 1
        BY <3>3
      <4> QED BY <3>3, <4>1, Zenon DEF Queued
    <3>5. \A i, j \in 1 .. Len(mailbox') : mailbox'[i] = mailbox'[j] => i = j
      <4>1. \A i \in 1 .. Len(mailbox') : i \in 1 .. Len(mailbox) \/ i = Len(mailbox) + 1
        BY <3>3
      <4>2. \A i \in 1 .. Len(mailbox) : mailbox'[i] # c
        BY <3>2, <3>3, Zenon DEF Queued
      <4>3. \A i, j \in 1 .. Len(mailbox) : mailbox[i] = mailbox[j] => i = j
        BY Zenon DEF OnceInv
      <4> QED BY <3>3, <4>1, <4>2, <4>3, Zenon
    <3> QED BY <1>1, <2>1, <2>2, <2>3, <3>1, <3>2, <3>4, <3>5, Zenon DEF OnceInv
  <2> QED BY <2>4, <2>5, Zenon
<1>5. CASE Accept \/ SpawnConnection \/ AcceptorStops \/ Shutdown
  BY <1>2, <1>5, Zenon DEF Accept, SpawnConnection, AcceptorStops, Shutdown, OnWire
<1>6. ASSUME NEW answer \in {"Ack", "Error"}, ManagerHandles(answer) PROVE OnceInv'
  <2>1. PICK c \in Caller :
           /\ mailbox' = Tail(mailbox) /\ mailbox \in Seq(Caller) /\ mailbox # <<>>
           /\ \A d \in Caller : d # c => applied'[d] = applied[d]
           /\ Spoken(c) /\ ~OnWire(c)
           /\ \A i \in 1 .. Len(Tail(mailbox)) :
                 /\ i + 1 \in 1 .. Len(mailbox) /\ Tail(mailbox)[i] = mailbox[i + 1]
                 /\ Tail(mailbox)[i] # c
    BY <1>6, HeadOfMailbox, Zenon DEF ManagerHandles, IpcTypes
  <2>2. \A d \in Caller : (OnWire(d)' <=> OnWire(d)) /\ (Spoken(d)' <=> Spoken(d))
    BY <1>6, Zenon DEF ManagerHandles, OnWire, Spoken
  <2>3. \A d \in Caller : Queued(d)' => Queued(d) /\ d # c
    BY <2>1 DEF Queued
  <2>4. \A i, j \in 1 .. Len(mailbox') : mailbox'[i] = mailbox'[j] => i = j
    BY <2>1 DEF OnceInv
  <2> QED BY <2>1, <2>2, <2>3, <2>4, Zenon DEF OnceInv
<1>7. CASE ManagerStops \/ GracefulFinish \/ Crash
  BY <1>2, <1>7 DEF ManagerStops, GracefulFinish, Crash, ProcessEnds, OnWire
<1>8. CASE Done \/ UNCHANGED vars
  BY <1>2, <1>8, Zenon DEF Done, vars, OnWire
<1> QED BY <1>3, <1>4, <1>5, <1>6, <1>7, <1>8 DEF Next, AcceptLoop

\* The invariant holds in every reachable state of the path.
LEMMA IpcIsInvariant == Spec => []IpcInv
<1>1. Init => IpcInv
  <2> SUFFICES ASSUME Init PROVE IpcInv
    OBVIOUS
  <2> USE DEF Init
  <2>1. IpcTypes
    BY DEF IpcTypes, CliState, SrvState, SlotState
  <2>2. WireInv
    BY DEF WireInv, Wire
  <2>3. RootInv /\ OnceInv /\ AckInv
    BY DEF RootInv, OnceInv, AckInv, OnWire, Queued, Served
  <2> QED BY <2>1, <2>2, <2>3 DEF IpcInv
<1>2. IpcInv /\ [Next]_vars => IpcInv'
  BY TypeStep, WireStep, RootStep, OnceStep, AckStep DEF IpcInv
<1> QED BY <1>1, <1>2, PTL DEF Spec

\* perform_handshake never takes in a byte behind the Hello line, whatever its
\* buffered reader could hold.
THEOREM HandshakeDropsNothing == Spec => []NoFrameIsDropped
<1>1. IpcInv => NoFrameIsDropped
  BY DEF IpcInv, WireInv, NoFrameIsDropped
<1> QED BY <1>1, IpcIsInvariant, PTL

-----------------------------------------------------------------------------

\* What a caller does is a step of IpcCall or nothing it can tell: a call
\* begins, fails, or is acknowledged, and then its request has been done.
LEMMA ClientStepIsCall ==
    ASSUME IpcTypes, AckInv, NEW c \in Caller, Client(c) \/ ClientTimesOut(c)
    PROVE  [Calls!Next]_<<call, applied>>
<1> DEFINE Seen(to) == IF to \in {"idle", "ok", "failed"} THEN to ELSE "pending"
<1>1. applied' = applied
  BY DEF Client, Connect, SendHello, ConnectRefused, HelloAnswered, SendRequest, CallAnswered,
         ServerGone, ClientTimesOut, managerVars
<1>2. ASSUME NEW from, NEW to, Cli(c, from, to)
      PROVE  call' = [call EXCEPT ![c] = Seen(to)] /\ call[c] = Seen(cli[c]) /\ cli[c] \in from
  BY <1>2, Zenon DEF Cli, call, IpcTypes
<1>3. ASSUME NEW from, Cli(c, from, "failed"), \A x \in from : Seen(x) \in {"idle", "pending"}
      PROVE  Calls!Next
  <2>1. Calls!Fail(c)
    BY <1>1, <1>2, <1>3 DEF Calls!Fail
  <2> QED BY <2>1, Zenon DEF Calls!Next
<1>4. ASSUME NEW from, NEW to, Cli(c, from, to), Seen(to) = "pending",
             \A x \in from : Seen(x) = "pending"
      PROVE  UNCHANGED <<call, applied>>
  BY <1>1, <1>2, <1>4, Zenon DEF call
<1>5. CASE Connect(c)
  <2>1. Cli(c, {"idle"}, "connected")
    BY <1>5, Zenon DEF Connect
  <2>2. Calls!Begin(c)
    BY <1>1, <1>2, <2>1 DEF Calls!Begin
  <2> QED BY <2>2 DEF Calls!Next
<1>6. CASE \E v \in Versions : SendHello(c, v)
  BY <1>3, <1>4, <1>6 DEF SendHello
<1>7. CASE ConnectRefused(c) \/ ServerGone(c) \/ ClientTimesOut(c)
  BY <1>3, <1>7, Zenon DEF ConnectRefused, ServerGone, ClientTimesOut
<1>8. CASE HelloAnswered(c)
  BY <1>3, <1>4, <1>8 DEF HelloAnswered
<1>9. CASE \E n \in Lengths : SendRequest(c, n)
  BY <1>3, <1>4, <1>9 DEF SendRequest
<1>10. CASE CallAnswered(c)
  <2>1. CASE Head(down[c]) = "Ack"
    <3>1. Cli(c, {"call"}, "ok") /\ down[c] # <<>>
      BY <1>10, <2>1 DEF CallAnswered
    <3>2. Len(down[c]) \in Nat \ {0} /\ down[c][1] = "Ack"
      <4>1. down[c] \in Seq(Message)
        BY DEF IpcTypes
      <4>2. Len(down[c]) \in Nat \ {0}
        BY <3>1, <4>1, NonEmpty, Zenon
      <4> QED BY <2>1, <4>1, <4>2
    <3>3. applied[c] = 1
      BY <3>2 DEF AckInv
    <3>4. Calls!Acknowledge(c)
      BY <1>1, <1>2, <3>1, <3>3 DEF Calls!Acknowledge
    <3> QED BY <3>4 DEF Calls!Next
  <2>2. CASE Head(down[c]) # "Ack"
    BY <1>3, <1>10, <2>2 DEF CallAnswered
  <2> QED BY <2>1, <2>2
<1> QED BY <1>5, <1>6, <1>7, <1>8, <1>9, <1>10, Zenon DEF Client

\* What the manager does is the effect of one request, once and for a
\* permitted peer, or nothing a caller can tell.
LEMMA ManagerStepIsCall ==
    ASSUME IpcTypes, OnceInv, NEW answer \in {"Ack", "Error"}, ManagerHandles(answer)
    PROVE  [Calls!Next]_<<call, applied>>
<1>1. PICK c \in Caller : c \in Root /\ Spoken(c) /\ applied[c] = 0 /\ c = Head(mailbox)
  BY HeadOfMailbox DEF ManagerHandles
<1>2. call' = call /\ call[c] # "idle"
  BY <1>1 DEF ManagerHandles, call, Spoken
<1>3. CASE answer = "Ack"
  <2>1. applied' = [applied EXCEPT ![c] = 1]
    <3>1. applied' = [applied EXCEPT ![c] = applied[c] + 1]
      BY <1>1, <1>3, Zenon DEF ManagerHandles
    <3>2. applied[c] + 1 = 1
      BY <1>1
    <3> QED BY <3>1, <3>2, Zenon
  <2>2. Calls!TakeEffect(c)
    BY <1>1, <1>2, <2>1 DEF Calls!TakeEffect
  <2> QED BY <2>2 DEF Calls!Next
<1>4. CASE answer # "Ack"
  BY <1>2, <1>4 DEF ManagerHandles, IpcTypes
<1> QED BY <1>3, <1>4

\* Every step of the path is a step of IpcCall or changes nothing a caller can
\* tell.
LEMMA StepIsCall == IpcInv /\ [Next]_vars => [Calls!Next]_<<call, applied>>
<1> SUFFICES ASSUME IpcInv, [Next]_vars PROVE [Calls!Next]_<<call, applied>>
  OBVIOUS
<1>1. ASSUME UNCHANGED <<cli, applied>> PROVE UNCHANGED <<call, applied>>
  BY <1>1, Zenon DEF call
<1>2. ASSUME NEW c \in Caller, Connection(c) PROVE UNCHANGED <<cli, applied>>
  BY <1>2, Zenon DEF Connection, Handshake, HandshakeTimesOut, ReadOversize, Dispatch, ReplyArrives,
              ReplyTimesOut, ConnectionIdle, managerVars
<1>3. ASSUME AcceptLoop \/ AcceptorStops \/ Shutdown \/ ManagerStops \/ GracefulFinish \/ Crash
             \/ Done \/ UNCHANGED vars
      PROVE  UNCHANGED <<cli, applied>>
  BY <1>3 DEF AcceptLoop, Accept, SpawnConnection, AcceptorStops, Shutdown, ManagerStops,
              GracefulFinish, Crash, ProcessEnds, Done, vars, managerVars
<1> QED BY <1>1, <1>2, <1>3, ClientStepIsCall, ManagerStepIsCall DEF IpcInv, Next

\* ConnectPerCall over server.rs implements IpcCall: Ack means done, a request
\* takes effect at most once and for root only, whatever times out, hangs up or
\* dies in between.
THEOREM PathImplementsCall == Spec => CallIsAtMostOnce
<1>1. Init => Calls!Init
  BY DEF Init, Calls!Init, call
<1> QED BY <1>1, StepIsCall, IpcIsInvariant, PTL DEF Spec, CallIsAtMostOnce, Calls!Spec

-----------------------------------------------------------------------------
(* The hooks of a stage.                                                   *)

\* Where no signal has been sent yet.
Unsignalled == {"prepare", "fork", "readers", "group", "wait"}

\* Where execute has not returned.
Executing == Unsignalled \cup {"term", "reap", "join"}

\* The child exists from fork to waitpid, and is known to be dead only then.
\* Whatever ended by a signal was sent one, and once the wait has begun the
\* group is the child's own, so a signal sent is a signal recorded.
HookInv ==
    /\ step \in {"prepare", "fork"} => leader = "none" /\ ~grouped
    /\ step \in {"readers", "group", "wait", "term", "reap"} =>
           leader \in {"setup", "running", "zombie"}
    /\ step = "join" => leader = "reaped"
    /\ leader \in {"none", "setup", "running"} <=> status = "none"
    /\ step \in {"wait", "term", "reap", "join"} => grouped
    /\ step \in Unsignalled => sent = {}
    /\ step \in {"term", "reap"} => sent # {}
    /\ status = "signal" => sent # {}
    /\ step \in Executing => outcome = Outcome("none")

IInv == HookInv /\ OutcomeIsTruthful /\ AcceptedHookIsRunnable

USE DEF Unsignalled, Executing, Outcome, Ran

-----------------------------------------------------------------------------
(* IInv is inductive.                                                      *)

\* validate_hook lets a pre_auth hook name only what for_pre_auth provides, and
\* a later one only what for_session_like provides or the login lacks.
LEMMA AcceptedMisses ==
    ASSUME NEW env, EnvAccepted(stage, env), NEW v \in env \ HookVars(stage, login.context)
    PROVE  stage # "pre_auth" /\ v \in ContextVars \ login.context
BY Zenon DEF EnvAccepted, ParsesAsTemplate, IsVarAllowed, HookVars, PlaceholderVars

\* Before the first hook of a stage nothing has been run.
LEMMA InitIInv ==
    ASSUME HookInit
    PROVE  IInv
<1>1. /\ step = "prepare" /\ leader = "none" /\ ~grouped /\ status = "none" /\ sent = {}
      /\ outcome = [kind |-> "none", var |-> "none"]
  BY Zenon DEF HookInit
<1>2. outcome.kind = "none"
  BY <1>1
<1> QED BY <1>1, <1>2 DEF IInv, HookInv, OutcomeIsTruthful, AcceptedHookIsRunnable

\* What preparing a hook can come to.
LEMMA PrepareEnds ==
    ASSUME Prepare
    PROVE  /\ UNCHANGED <<stageVars, setting, hook, childVars, sent, clock, lines, result>>
           /\ step = "prepare"
           /\ \/ /\ step' = "policy"
                 /\ outcome'.kind \in {"UserResolution", "EnvValueRejected", "Error"}
              \/ step' = "fork" /\ UNCHANGED outcome
              \/ /\ step' = "policy" /\ outcome'.kind = "UnresolvedVar"
                 /\ stage # "pre_auth" /\ outcome'.var \in ContextVars \ login.context
<1>1. UNCHANGED <<stageVars, setting, hook, childVars, sent, clock, lines, result>> /\ step = "prepare"
  BY Zenon DEF Prepare
<1>2. \/ /\ step' = "policy"
         /\ outcome'.kind \in {"UserResolution", "EnvValueRejected", "Error"}
      \/ step' = "fork" /\ UNCHANGED outcome
      \/ /\ step' = "policy" /\ outcome'.kind = "UnresolvedVar"
         /\ stage # "pre_auth" /\ outcome'.var \in ContextVars \ login.context
  <2>1. PICK env \in Envs, run_as \in {"root", "user"} :
           /\ EnvAccepted(stage, env)
           /\ LET err == PrepareError(stage, env, run_as, login) IN
              \/ /\ err = "UnresolvedVar"
                 /\ \E v \in env \ HookVars(stage, login.context) :
                        Executed([kind |-> err, var |-> v])
              \/ err \in {"UserResolution", "EnvValueRejected"} /\ Executed(Outcome(err))
              \/ Executed(Outcome("Error"))
              \/ step' = "fork" /\ UNCHANGED outcome
    BY Zenon DEF Prepare
  <2> DEFINE err == PrepareError(stage, env, run_as, login)
  <2> HIDE DEF err
  <2>2. CASE err = "UnresolvedVar" /\ \E v \in env \ HookVars(stage, login.context) :
                                          Executed([kind |-> err, var |-> v])
    <3>1. PICK v \in env \ HookVars(stage, login.context) : Executed([kind |-> err, var |-> v])
      BY <2>2
    <3>2. step' = "policy" /\ outcome'.kind = "UnresolvedVar" /\ outcome'.var = v
      BY <2>2, <3>1, Zenon DEF Executed
    <3>3. stage # "pre_auth" /\ v \in ContextVars \ login.context
      BY <2>1, AcceptedMisses, Zenon
    <3> QED BY <3>2, <3>3
  <2>3. CASE err \in {"UserResolution", "EnvValueRejected"} /\ Executed(Outcome(err))
    BY <2>3 DEF Executed
  <2>4. CASE Executed(Outcome("Error"))
    BY <2>4, Zenon DEF Executed
  <2> QED BY <2>1, <2>2, <2>3, <2>4, Zenon DEF err
<1> QED BY <1>1, <1>2, Zenon

\* execute returns with an error that names no variable.
LEMMA ErrorIInv ==
    ASSUME IInv, step' = "policy", UNCHANGED <<leader, status, sent>>,
           outcome'.kind \in {"UserResolution", "EnvValueRejected", "Error"}
    PROVE  IInv'
BY DEF IInv, HookInv, OutcomeIsTruthful, AcceptedHookIsRunnable

\* Until the child exists.
LEMMA PrepareIInv ==
    ASSUME IInv, Prepare
    PROVE  IInv'
<1>1. step = "prepare" /\ UNCHANGED <<stage, login, leader, grouped, status, sent>>
  BY PrepareEnds DEF childVars, stageVars
<1>2. CASE step' = "policy" /\ outcome'.kind \in {"UserResolution", "EnvValueRejected", "Error"}
  BY <1>1, <1>2, ErrorIInv, Zenon
<1>3. CASE step' = "fork" /\ UNCHANGED outcome
  BY <1>1, <1>3, Zenon DEF IInv, HookInv, OutcomeIsTruthful, AcceptedHookIsRunnable
<1>4. CASE /\ step' = "policy" /\ outcome'.kind = "UnresolvedVar"
           /\ stage # "pre_auth" /\ outcome'.var \in ContextVars \ login.context
  BY <1>1, <1>4 DEF IInv, HookInv, OutcomeIsTruthful, AcceptedHookIsRunnable
<1> QED BY PrepareEnds, <1>2, <1>3, <1>4

\* fork, the spawn of the two readers, and the parent's setpgid.
LEMMA ForkIInv ==
    ASSUME IInv, Fork \/ SpawnReaders \/ SetGroup
    PROVE  IInv'
<1>1. CASE Fork
  <2>1. /\ step = "fork" /\ UNCHANGED <<stage, login, grouped, status, sent>>
        /\ \/ step' = "policy" /\ outcome' = Outcome("Error") /\ UNCHANGED leader
           \/ step' = "readers" /\ leader' = "setup" /\ UNCHANGED outcome
    BY <1>1, Zenon DEF Fork, Executed, stageVars
  <2>2. CASE step' = "policy" /\ outcome' = Outcome("Error") /\ UNCHANGED leader
    BY <2>1, <2>2, ErrorIInv, Zenon
  <2>3. CASE step' = "readers" /\ leader' = "setup" /\ UNCHANGED outcome
    BY <2>1, <2>3 DEF IInv, HookInv, OutcomeIsTruthful, AcceptedHookIsRunnable
  <2> QED BY <2>1, <2>2, <2>3
<1>2. CASE SpawnReaders
  <2>1. /\ step = "readers" /\ UNCHANGED <<stageVars, childVars, sent>>
        /\ \/ step' = "policy" /\ outcome' = Outcome("Error")
           \/ step' = "group" /\ UNCHANGED outcome
    BY <1>2, Zenon DEF SpawnReaders, Executed
  <2>2. UNCHANGED <<stage, login, leader, grouped, status, sent>>
    BY <2>1, Zenon DEF stageVars, childVars
  <2>3. CASE step' = "policy" /\ outcome' = Outcome("Error")
    BY <2>2, <2>3, ErrorIInv, Zenon
  <2>4. CASE step' = "group" /\ UNCHANGED outcome
    BY <2>1, <2>2, <2>4 DEF IInv, HookInv, OutcomeIsTruthful, AcceptedHookIsRunnable
  <2> QED BY <2>1, <2>3, <2>4
<1>3. CASE SetGroup
  BY <1>3, Zenon DEF SetGroup, IInv, HookInv, OutcomeIsTruthful, AcceptedHookIsRunnable, childVars, stageVars
<1> QED BY <1>1, <1>2, <1>3

\* While the parent waits.
LEMMA WaitIInv ==
    ASSUME IInv, Reap \/ Expire \/ WaitFails \/ JoinReaders
    PROVE  IInv'
<1>1. CASE Reap
  BY <1>1 DEF Reap, IInv, HookInv, OutcomeIsTruthful, AcceptedHookIsRunnable, childVars, stageVars
<1>2. CASE Expire
  BY <1>2, Zenon DEF Expire, IInv, HookInv, OutcomeIsTruthful, AcceptedHookIsRunnable, childVars, stageVars
<1>3. CASE WaitFails
  BY <1>3, Zenon DEF WaitFails, Executed, IInv, HookInv, OutcomeIsTruthful, AcceptedHookIsRunnable, childVars, stageVars
<1>4. CASE JoinReaders
  BY <1>4, Zenon DEF JoinReaders, Executed, HookOutcome, IInv, HookInv, OutcomeIsTruthful,
              AcceptedHookIsRunnable, childVars, stageVars
<1> QED BY <1>1, <1>2, <1>3, <1>4

\* The two signals of the timeout path go to a group the parent has set up.
LEMMA KillIInv ==
    IInv /\ (Kill("wait", "term", "TERM") \/ Kill("term", "reap", "KILL")) => IInv'
BY Zenon DEF Kill, IInv, HookInv, OutcomeIsTruthful, AcceptedHookIsRunnable, childVars, stageVars

\* on_failure goes to the next hook, with a fresh child, or ends the stage.
LEMMA ApplyIInv ==
    ASSUME IInv, ApplyOnFailure
    PROVE  IInv'
<1>1. /\ step = "policy" /\ UNCHANGED stageVars
      /\ \/ /\ step' = "prepare" /\ NoChild /\ sent' = {} /\ outcome' = Outcome("none")
         \/ step' = "done" /\ UNCHANGED <<childVars, sent, outcome>>
  BY Zenon DEF ApplyOnFailure
<1>2. CASE step' = "prepare" /\ NoChild /\ sent' = {} /\ outcome' = Outcome("none")
  BY <1>2, Zenon DEF NoChild, IInv, HookInv, OutcomeIsTruthful, AcceptedHookIsRunnable
<1>3. CASE step' = "done" /\ UNCHANGED <<childVars, sent, outcome>>
  BY <1>1, <1>3, Zenon DEF IInv, HookInv, OutcomeIsTruthful, AcceptedHookIsRunnable, childVars, stageVars
<1> QED BY <1>1, <1>2, <1>3

\* A child that dies was alive, so nobody has been told of its end yet.
LEMMA DiesIInv ==
    ASSUME IInv, leader \in {"setup", "running"}, NEW how \in {"zero", "nonzero", "signal"},
           how = "signal" => sent # {}, Dies(how)
    PROVE  IInv'
BY DEF Dies, IInv, HookInv, OutcomeIsTruthful, AcceptedHookIsRunnable, stageVars

\* What the child and its helper do, the parent sees only when it reaps.
LEMMA ChildIInv ==
    ASSUME IInv, Child
    PROVE  IInv'
<1>1. CASE ChildSetup
  <2>1. CASE Dies("nonzero")
    BY <1>1, <2>1, DiesIInv DEF ChildSetup
  <2>2. CASE ~Dies("nonzero")
    BY <1>1, <2>2, Zenon DEF ChildSetup, IInv, HookInv, OutcomeIsTruthful, AcceptedHookIsRunnable, stageVars
  <2> QED BY <2>1, <2>2
<1>2. CASE HookExits
  BY <1>2, DiesIInv, Zenon DEF HookExits
<1>3. CASE HookSpawns
  BY <1>3 DEF HookSpawns, IInv, HookInv, OutcomeIsTruthful, AcceptedHookIsRunnable, stageVars
<1>4. CASE HookWrites
  BY <1>4, Zenon DEF HookWrites, IInv, HookInv, OutcomeIsTruthful, AcceptedHookIsRunnable, stageVars
<1>5. CASE HelperExits
  BY <1>5, Zenon DEF HelperExits, IInv, HookInv, OutcomeIsTruthful, AcceptedHookIsRunnable, stageVars
<1>6. CASE LeaderSignalled
  BY <1>6, DiesIInv DEF LeaderSignalled
<1> QED BY <1>1, <1>2, <1>3, <1>4, <1>5, <1>6 DEF Child

\* Every step of the supervisor, the child and the clock.
LEMMA NextIInv ==
    ASSUME IInv, [HookNext]_hookVars
    PROVE  IInv'
<1>1. CASE UNCHANGED hookVars
  BY <1>1, Zenon DEF hookVars, IInv, HookInv, OutcomeIsTruthful, AcceptedHookIsRunnable, childVars, stageVars
<1>2. CASE HookNext
  BY <1>1, <1>2, PrepareIInv, ForkIInv, WaitIInv, KillIInv, ApplyIInv, ChildIInv
     DEF HookNext, Supervisor, HookDone
<1> QED BY <1>1, <1>2

\* The invariant of run_hooks_for_stage, for every stage, hook and limit.
LEMMA HookInductive == HookSpec => []IInv
BY InitIInv, NextIInv, PTL DEF HookSpec

-----------------------------------------------------------------------------
(* What the stage's caller may rely on.                                    *)

\* An outcome of execute tells what happened to the hook: HookOutcome counts a
\* hook as timed out exactly when killpg was called, and waitpid came first.
THEOREM OutcomesAreTruthful == HookSpec => []OutcomeIsTruthful
BY HookInductive, PTL DEF IInv

\* validate_hook and the builders of HookVars agree on the variables of every
\* stage, for every env table and every login.
THEOREM AcceptedHooksAreRunnable == HookSpec => []AcceptedHookIsRunnable
BY HookInductive, PTL DEF IInv

\* wait_with_timeout calls killpg only for a child that it has not reaped.
THEOREM OnlyOwnGroupIsSignalled == HookSpec => SignalsOnlyOwnGroup
<1>1. IInv /\ [HookNext]_hookVars => [sent' # sent /\ sent' # {} => leader # "reaped"]_hookVars
  <2> SUFFICES ASSUME IInv, HookNext, sent' # sent, sent' # {} PROVE leader # "reaped"
    OBVIOUS
  <2>1. Kill("wait", "term", "TERM") \/ Kill("term", "reap", "KILL")
    BY Zenon DEF HookNext, Supervisor, Child, HookDone, Prepare, Fork, SpawnReaders, SetGroup, Reap, JoinReaders,
           ApplyOnFailure, WaitFails, Expire, ChildSetup, HookExits, HookSpawns, HookWrites,
           HelperExits, LeaderSignalled, Dies, hookVars
  <2> QED BY <2>1 DEF Kill, IInv, HookInv
<1> QED BY <1>1, HookInductive, PTL DEF HookSpec, SignalsOnlyOwnGroup

-----------------------------------------------------------------------------
(* The lines of a hook.                                                    *)

Line == [kept : Nat, truncated : BOOLEAN]

Reader == [lines : Seq(Line), partial : Nat, capped : BOOLEAN]

\* What a reader of process_chunk holds.
LEMMA ReaderParts ==
    ASSUME NEW r \in Reader
    PROVE  r.lines \in Seq(Line) /\ Len(r.lines) \in Nat /\ r.partial \in Nat
BY DEF Reader

\* m marks the ends of the lines that the reader has forwarded of the first n
\* bytes; what follows the last mark is its partial line.
Marks(m, reader, out, n, max_line) ==
    LET last == Len(reader.lines) IN
    /\ m \in [0 .. last -> 0 .. n] /\ m[0] = 0
    /\ \A k \in 1 .. last :
           /\ m[k - 1] < m[k] /\ out[m[k]] = "nl"
           /\ \A j \in 1 .. n : m[k - 1] < j /\ j < m[k] => out[j] # "nl"
           /\ reader.lines[k] = EmitLine(m[k] - 1 - m[k - 1], max_line)
    /\ reader.partial = n - m[last]
    /\ \A j \in 1 .. n : m[last] < j => out[j] # "nl"
    /\ \A j \in 1 .. n : out[j] = "nl" => \E k \in 1 .. last : m[k] = j

\* The reader has taken the first n bytes.
HasRead(reader, out, n, max_line) ==
    /\ reader \in Reader /\ ~reader.capped
    /\ \E m : Marks(m, reader, out, n, max_line)

\* process_chunk starts with nothing read.
LEMMA NothingRead ==
    ASSUME NEW out \in Seq({"c", "nl"}), NEW max_line \in Nat
    PROVE  HasRead(NoOutput, out, 0, max_line)
<1>1. NoOutput \in Reader /\ ~NoOutput.capped /\ NoOutput.lines = << >> /\ NoOutput.partial = 0
  BY DEF NoOutput, Reader
<1> DEFINE m == [k \in 0 .. 0 |-> 0]
<1>2. Marks(m, NoOutput, out, 0, max_line)
  <2>1. Len(NoOutput.lines) = 0
    BY <1>1
  <2>2. m \in [0 .. 0 -> 0 .. 0] /\ m[0] = 0 /\ 1 .. 0 = {} /\ 0 - 0 = 0
    OBVIOUS
  <2> HIDE DEF m
  <2> QED  BY <1>1, <2>1, <2>2 DEF Marks
<1> QED  BY <1>1, <1>2, Zenon DEF HasRead

\* A line is emitted with a length and a mark.
LEMMA EmittedLine ==
    ASSUME NEW length \in Nat, NEW max_line \in Nat
    PROVE  EmitLine(length, max_line) \in Line
BY DEF EmitLine, Line

\* A byte within a line.
LEMMA FeedByte ==
    ASSUME NEW out \in Seq({"c", "nl"}), NEW max_line \in Nat, NEW n \in Nat, n < Len(out),
           NEW r, HasRead(r, out, n, max_line), out[n + 1] # "nl"
    PROVE  HasRead(Feed(r, out[n + 1], max_line), out, n + 1, max_line)
<1> DEFINE s == Feed(r, out[n + 1], max_line)
           last == Len(r.lines)
<1>1. PICK m : Marks(m, r, out, n, max_line)
  BY DEF HasRead
<1>2. r \in Reader /\ ~r.capped
  BY DEF HasRead
<1>3. s \in Reader /\ ~s.capped /\ s.lines = r.lines /\ s.partial = r.partial + 1
  BY <1>2 DEF Feed, Reader
<1>4. last \in Nat
  BY <1>2 DEF Reader
<1> HIDE DEF s
<1>5. /\ m \in [0 .. last -> 0 .. n] /\ m[0] = 0
      /\ r.partial = n - m[last]
      /\ \A j \in 1 .. n : m[last] < j => out[j] # "nl"
      /\ \A j \in 1 .. n : out[j] = "nl" => \E k \in 1 .. last : m[k] = j
  BY <1>1, Zenon DEF Marks
<1>6. \A k \in 1 .. last :
           /\ m[k - 1] < m[k] /\ out[m[k]] = "nl"
           /\ \A j \in 1 .. n : m[k - 1] < j /\ j < m[k] => out[j] # "nl"
           /\ r.lines[k] = EmitLine(m[k] - 1 - m[k - 1], max_line)
  BY <1>1 DEF Marks
<1> HIDE DEF last
<1>7. \A j \in 1 .. n + 1 : j \in 1 .. n \/ j = n + 1
  OBVIOUS
<1>8. m \in [0 .. last -> 0 .. n + 1]
  BY <1>5
<1>9. (n + 1) - m[last] = r.partial + 1
  <2>1. m[last] \in Nat
    BY <1>4, <1>5
  <2> QED  BY <1>5, <2>1
<1>10. \A k \in 1 .. last :
           \A j \in 1 .. n + 1 : m[k - 1] < j /\ j < m[k] => out[j] # "nl"
  BY <1>6, <1>7, Zenon
<1>11. \A j \in 1 .. n + 1 : m[last] < j => out[j] # "nl"
  BY <1>5, <1>7, Zenon
<1>12. \A j \in 1 .. n + 1 : out[j] = "nl" => \E k \in 1 .. last : m[k] = j
  BY <1>5, <1>7, Zenon
<1>13. Marks(m, s, out, n + 1, max_line)
  BY <1>3, <1>5, <1>6, <1>8, <1>9, <1>10, <1>11, <1>12, Zenon DEF Marks, last
<1> QED  BY <1>3, <1>13 DEF HasRead, s

\* A newline: the partial line is emitted.
LEMMA FeedNewline ==
    ASSUME NEW out \in Seq({"c", "nl"}), NEW max_line \in Nat, NEW n \in Nat, n < Len(out),
           NEW r, HasRead(r, out, n, max_line), out[n + 1] = "nl"
    PROVE  HasRead(Feed(r, out[n + 1], max_line), out, n + 1, max_line)
<1> DEFINE s == Feed(r, out[n + 1], max_line)
           last == Len(r.lines)
<1>1. PICK m : Marks(m, r, out, n, max_line)
  BY DEF HasRead
<1>2. r \in Reader /\ ~r.capped
  BY DEF HasRead
<1>3. EmitLine(r.partial, max_line) \in Line
  BY <1>2, EmittedLine DEF Reader
<1>4. /\ s \in Reader /\ ~s.capped /\ s.partial = 0
      /\ s.lines = Append(r.lines, EmitLine(r.partial, max_line))
  <2> DEFINE e == EmitLine(r.partial, max_line)
  <2>1. s = [r EXCEPT !.lines = Append(r.lines, e), !.partial = 0]
    BY <1>2 DEF Feed, Reader
  <2>2. e \in Line
    BY <1>3
  <2> HIDE DEF e, s
  <2>3. r.lines \in Seq(Line) /\ Append(r.lines, e) \in Seq(Line)
    BY <1>2, <2>2 DEF Reader
  <2>4. s \in Reader /\ ~s.capped /\ s.partial = 0 /\ s.lines = Append(r.lines, e)
    BY <1>2, <2>1, <2>3, Zenon DEF Reader
  <2> QED  BY <2>4 DEF e
<1>5. last \in Nat /\ r.lines \in Seq(Line)
  BY <1>2, ReaderParts, Zenon
<1> HIDE DEF s
<1>6. /\ m \in [0 .. last -> 0 .. n] /\ m[0] = 0
      /\ r.partial = n - m[last]
      /\ \A j \in 1 .. n : m[last] < j => out[j] # "nl"
      /\ \A j \in 1 .. n : out[j] = "nl" => \E k \in 1 .. last : m[k] = j
  BY <1>1, Zenon DEF Marks
<1>7. \A k \in 1 .. last :
           /\ m[k - 1] < m[k] /\ out[m[k]] = "nl"
           /\ \A j \in 1 .. n : m[k - 1] < j /\ j < m[k] => out[j] # "nl"
           /\ r.lines[k] = EmitLine(m[k] - 1 - m[k - 1], max_line)
  BY <1>1, Zenon DEF Marks
<1>8. /\ Len(s.lines) = last + 1 /\ s.lines[last + 1] = EmitLine(r.partial, max_line)
      /\ \A k \in 1 .. last : s.lines[k] = r.lines[k]
  BY <1>3, <1>4, <1>5
<1> DEFINE p == [k \in 0 .. last + 1 |-> IF k = last + 1 THEN n + 1 ELSE m[k]]
<1> HIDE DEF last
<1>9. /\ p \in [0 .. last + 1 -> 0 .. n + 1] /\ p[last + 1] = n + 1
      /\ \A k \in 0 .. last : p[k] = m[k]
  BY <1>5, <1>6
<1> HIDE DEF p
<1>10. \A j \in 1 .. n + 1 : j \in 1 .. n \/ j = n + 1
  OBVIOUS
<1>11. \A k \in 1 .. last + 1 : k \in 1 .. last \/ k = last + 1
  BY <1>5
<1>12. /\ \A k \in 1 .. last : k \in 0 .. last /\ k - 1 \in 0 .. last
       /\ last \in 0 .. last /\ 0 \in 0 .. last /\ (last + 1) - 1 = last
       /\ last + 1 \in 1 .. last + 1 /\ 1 .. last \subseteq 1 .. last + 1
  BY <1>5
<1>13. m[last] \in 0 .. n /\ m[last] < n + 1 /\ (n + 1) - 1 - m[last] = n - m[last]
  <2>1. m[last] \in 0 .. n
    BY <1>6, <1>12
  <2> QED  BY <2>1
<1>14. \A k \in 1 .. last : m[k] \in 0 .. n
  BY <1>6, <1>12, Zenon
<1>15. \A k \in 1 .. last + 1 :
           /\ p[k - 1] < p[k] /\ out[p[k]] = "nl"
           /\ \A j \in 1 .. n + 1 : p[k - 1] < j /\ j < p[k] => out[j] # "nl"
           /\ s.lines[k] = EmitLine(p[k] - 1 - p[k - 1], max_line)
  <2> SUFFICES ASSUME NEW k \in 1 .. last + 1
               PROVE  /\ p[k - 1] < p[k] /\ out[p[k]] = "nl"
                      /\ \A j \in 1 .. n + 1 : p[k - 1] < j /\ j < p[k] => out[j] # "nl"
                      /\ s.lines[k] = EmitLine(p[k] - 1 - p[k - 1], max_line)
    BY Zenon
  <2>1. CASE k \in 1 .. last
    <3>1. p[k] = m[k] /\ p[k - 1] = m[k - 1]
      BY <2>1, <1>9, <1>12
    <3>2. ~(n + 1 < m[k])
      BY <2>1, <1>14
    <3> QED  BY <2>1, <3>1, <3>2, <1>7, <1>8, <1>10, Zenon
  <2>2. CASE k = last + 1
    <3>1. p[k] = n + 1 /\ p[k - 1] = m[last]
      BY <2>2, <1>9, <1>12
    <3>2. \A j \in 1 .. n + 1 : m[last] < j /\ j < n + 1 => out[j] # "nl"
      BY <1>6
    <3>3. s.lines[k] = EmitLine((n + 1) - 1 - m[last], max_line)
      BY <2>2, <1>6, <1>8, <1>13, Zenon
    <3> QED  BY <3>1, <3>2, <3>3, <1>13, Zenon
  <2> QED  BY <1>11, <2>1, <2>2
<1>16. s.partial = (n + 1) - p[last + 1]
  BY <1>4, <1>9
<1>17. \A j \in 1 .. n + 1 : p[last + 1] < j => out[j] # "nl"
  BY <1>9
<1>18. \A j \in 1 .. n + 1 : out[j] = "nl" => \E k \in 1 .. last + 1 : p[k] = j
  BY <1>6, <1>9, <1>10, <1>12, Zenon
<1>19. p[0] = 0
  BY <1>6, <1>9, <1>12
<1>20. Marks(p, s, out, n + 1, max_line)
  BY <1>8, <1>9, <1>15, <1>16, <1>17, <1>18, <1>19, Zenon DEF Marks
<1> QED  BY <1>4, <1>20 DEF HasRead, s


\* Induction over the natural numbers, for a set of them.
LEMMA SetInduction ==
    ASSUME NEW S \in SUBSET Nat, 0 \in S, \A n \in S : n + 1 \in S
    PROVE  S = Nat
<1> DEFINE R == Nat \ S
<1> SUFFICES ASSUME R # {} PROVE FALSE
  BY Zenon
<1>1. R \subseteq Nat
  OBVIOUS
<1>2. PICK n \in R : \A k \in R : ~ (<<k, n>> \in OpToRel(<, Nat))
  <2> HIDE DEF R
  <2> QED  BY <1>1, NatLessThanWellFounded, WFMin, Zenon
<1>3. \A i, j \in Nat : <<i, j>> \notin OpToRel(<, Nat) => j <= i
  BY DEF OpToRel
<1>4. n \in Nat /\ n # 0
  OBVIOUS
<1>5. n - 1 \in Nat /\ ~(n <= n - 1) /\ (n - 1) + 1 = n
  BY <1>4
<1>6. n - 1 \notin R
  BY <1>2, <1>3, <1>4, <1>5, Zenon
<1> QED  BY <1>5, <1>6

\* What process_chunk holds after each byte of a chunk, as the loop computes it.
IsRead(f, out, n, max_line) ==
    f = [k \in 0 .. n |-> IF k = 0 THEN NoOutput ELSE Feed(f[k - 1], out[k], max_line)]

\* The loop is well defined.
LEMMA ReadExists ==
    ASSUME NEW out, NEW max_line, NEW h \in Nat
    PROVE  \E f : IsRead(f, out, h, max_line)
<1> DEFINE S == {n \in Nat : \E f : IsRead(f, out, n, max_line)}
<1>1. 0 \in S
  <2> DEFINE f == [k \in 0 .. 0 |-> NoOutput]
  <2>1. f = [k \in 0 .. 0 |-> IF k = 0 THEN NoOutput ELSE Feed(f[k - 1], out[k], max_line)]
    <3>1. \A k \in 0 .. 0 : k = 0
      OBVIOUS
    <3> QED  BY <3>1
  <2>2. IsRead(f, out, 0, max_line)
    BY <2>1, Zenon DEF IsRead
  <2> QED  BY <2>2
<1>2. ASSUME NEW n \in S PROVE n + 1 \in S
  <2>1. PICK f : IsRead(f, out, n, max_line)
    OBVIOUS
  <2>2. n \in Nat
    OBVIOUS
  <2> DEFINE e == Feed(f[n], out[n + 1], max_line)
             g == [k \in 0 .. n + 1 |-> IF k = n + 1 THEN e ELSE f[k]]
  <2>3. \A k \in 0 .. n : f[k] = IF k = 0 THEN NoOutput ELSE Feed(f[k - 1], out[k], max_line)
    <3> DEFINE F == [k \in 0 .. n |-> IF k = 0 THEN NoOutput ELSE Feed(f[k - 1], out[k], max_line)]
    <3>1. f = F
      BY <2>1, Zenon DEF IsRead
    <3>2. \A k \in 0 .. n : F[k] = IF k = 0 THEN NoOutput ELSE Feed(f[k - 1], out[k], max_line)
      BY Zenon
    <3> HIDE DEF F
    <3> QED  BY <3>1, <3>2, Zenon
  <2>4. ASSUME NEW k \in 0 .. n + 1
        PROVE  g[k] = IF k = 0 THEN NoOutput ELSE Feed(g[k - 1], out[k], max_line)
    <3>1. CASE k = n + 1
      <4>1. g[k] = e /\ g[k - 1] = f[n] /\ k # 0
        <5>1. k - 1 = n /\ n \in 0 .. n + 1 /\ n # n + 1 /\ k # 0
          BY <2>2, <3>1
        <5> QED  BY <3>1, <5>1
      <4> QED  BY <3>1, <4>1, Zenon
    <3>2. CASE k # n + 1 /\ k # 0
      <4>1. k \in 0 .. n /\ k - 1 \in 0 .. n + 1 /\ k - 1 # n + 1
        BY <2>2, <3>2
      <4>2. g[k] = f[k] /\ g[k - 1] = f[k - 1]
        BY <3>2, <4>1, Zenon
      <4> HIDE DEF g
      <4> QED  BY <2>3, <3>2, <4>1, <4>2, Zenon
    <3>3. CASE k = 0
      <4>1. k \in 0 .. n /\ k # n + 1
        BY <2>2, <3>3
      <4> QED  BY <2>3, <3>3, <4>1, Zenon
    <3> QED  BY <3>1, <3>2, <3>3, Zenon
  <2>5. g = [k \in 0 .. n + 1 |-> IF k = 0 THEN NoOutput ELSE Feed(g[k - 1], out[k], max_line)]
    <3>1. g = [k \in 0 .. n + 1 |-> g[k]]
      OBVIOUS
    <3> HIDE DEF g
    <3> QED  BY <2>4, <3>1, Zenon
  <2>6. IsRead(g, out, n + 1, max_line)
    <3> HIDE DEF g
    <3> QED  BY <2>5, Zenon DEF IsRead
  <2>7. n + 1 \in Nat
    BY <2>2
  <2> HIDE DEF g
  <2> QED  BY <2>6, <2>7, Zenon
<1>3. S \in SUBSET Nat
  OBVIOUS
<1>4. S = Nat
  <2> HIDE DEF S
  <2> QED  BY <1>1, <1>2, <1>3, SetInduction, Zenon
<1> QED  BY <1>4

\* After n bytes, the reader has read n bytes.
LEMMA ReadIsRead ==
    ASSUME NEW out \in Seq({"c", "nl"}), NEW max_line \in Nat, NEW h \in Nat, h <= Len(out),
           NEW f, IsRead(f, out, h, max_line)
    PROVE  HasRead(f[h], out, h, max_line)
<1> DEFINE S == {n \in Nat : n <= h => HasRead(f[n], out, n, max_line)}
<1>0. Len(out) \in Nat
  OBVIOUS
<1>1. \A k \in 0 .. h : f[k] = IF k = 0 THEN NoOutput ELSE Feed(f[k - 1], out[k], max_line)
  <2> DEFINE F == [k \in 0 .. h |-> IF k = 0 THEN NoOutput ELSE Feed(f[k - 1], out[k], max_line)]
  <2>1. f = F
    BY Zenon DEF IsRead
  <2>2. \A k \in 0 .. h : F[k] = IF k = 0 THEN NoOutput ELSE Feed(f[k - 1], out[k], max_line)
    BY Zenon
  <2> HIDE DEF F
  <2> QED  BY <2>1, <2>2, Zenon
<1>2. 0 \in S
  <2>1. f[0] = NoOutput
    <3>1. 0 \in 0 .. h
      OBVIOUS
    <3> QED  BY <1>1, <3>1, Zenon
  <2> QED  BY <2>1, NothingRead, Zenon
<1>3. ASSUME NEW n \in S PROVE n + 1 \in S
  <2>0. n + 1 \in Nat
    OBVIOUS
  <2> SUFFICES ASSUME n + 1 <= h PROVE HasRead(f[n + 1], out, n + 1, max_line)
    BY <2>0, Zenon
  <2>1. n \in Nat /\ n <= h /\ n < Len(out) /\ n + 1 \in 0 .. h /\ n + 1 # 0 /\ (n + 1) - 1 = n
    BY <1>0
  <2>2. HasRead(f[n], out, n, max_line)
    BY <2>1, Zenon
  <2>3. f[n + 1] = Feed(f[n], out[n + 1], max_line)
    BY <1>1, <2>1, Zenon
  <2>4. HasRead(Feed(f[n], out[n + 1], max_line), out, n + 1, max_line)
    BY <2>1, <2>2, FeedByte, FeedNewline, Zenon
  <2> QED  BY <2>3, <2>4, Zenon
<1>4. S \in SUBSET Nat
  OBVIOUS
<1>5. S = Nat
  <2> HIDE DEF S
  <2> QED  BY <1>2, <1>3, <1>4, SetInduction, Zenon
<1>6. h \in S /\ h <= h
  BY <1>5
<1> QED  BY <1>6, Zenon


\* process_chunk has read the chunk up to the cap.
LEMMA ProcessChunkReads ==
    ASSUME NEW out \in Seq({"c", "nl"}), NEW max_line \in Nat, NEW max_captured \in Nat
    PROVE  \E h \in Nat : \E r :
               /\ h = (IF Len(out) > max_captured THEN max_captured ELSE Len(out))
               /\ HasRead(r, out, h, max_line)
               /\ ProcessChunk(out, max_line, max_captured) =
                      IF h < Len(out) THEN CrossCap(r) ELSE r
<1> DEFINE h == IF Len(out) > max_captured THEN max_captured ELSE Len(out)
           f == CHOOSE g : g = [k \in 0 .. h |-> IF k = 0 THEN NoOutput ELSE Feed(g[k - 1], out[k], max_line)]
<1>1. ProcessChunk(out, max_line, max_captured) = IF h < Len(out) THEN CrossCap(f[h]) ELSE f[h]
  BY Zenon DEF ProcessChunk
<1>2. h \in Nat /\ h <= Len(out)
  OBVIOUS
<1>3. IsRead(f, out, h, max_line)
  <2> HIDE DEF h
  <2>1. \E g : IsRead(g, out, h, max_line)
    BY <1>2, ReadExists, Zenon
  <2>2. f = CHOOSE g : IsRead(g, out, h, max_line)
    BY Zenon DEF IsRead
  <2> HIDE DEF f
  <2> QED  BY <2>1, <2>2, Zenon
<1>4. HasRead(f[h], out, h, max_line)
  <2> HIDE DEF h, f
  <2> QED  BY <1>2, <1>3, ReadIsRead, Zenon
<1> HIDE DEF f
<1> QED  BY <1>1, <1>2, <1>4, Zenon


\* m marks the ends of the forwarded lines, which are the first lines of the
\* output.
Whole(m, ls, out, max_line) ==
    /\ m \in [0 .. Len(ls) -> 0 .. Len(out) + 1] /\ m[0] = 0
    /\ \A k \in 1 .. Len(ls) :
           /\ m[k] \in LineEnds(out)
           /\ m[k - 1] < m[k]
           /\ \A e \in LineEnds(out) : ~(m[k - 1] < e /\ e < m[k])
           /\ ls[k] = EmitLine(m[k] - 1 - m[k - 1], max_line)

\* m marks every end of a line.
Complete(m, ls, out) == \A e \in LineEnds(out) : \E k \in 1 .. Len(ls) : m[k] = e

\* Where a line may end.
LEMMA WhereLinesEnd ==
    ASSUME NEW out \in Seq({"c", "nl"})
    PROVE  /\ Len(out) \in Nat
           /\ LineEnds(out) \subseteq 1 .. Len(out) + 1
           /\ \A e \in 1 .. Len(out) : e \in LineEnds(out) <=> out[e] = "nl"
           /\ Len(out) + 1 \in LineEnds(out) <=> Len(out) # 0 /\ out[Len(out)] # "nl"
<1>1. Len(out) \in Nat /\ DOMAIN out = 1 .. Len(out) /\ (out = << >> <=> Len(out) = 0)
  OBVIOUS
<1>2. \A e \in 1 .. Len(out) : e # Len(out) + 1
  BY <1>1
<1>3. Len(out) + 1 \notin 1 .. Len(out)
  BY <1>1
<1>4. 1 .. Len(out) \subseteq 1 .. Len(out) + 1 /\ Len(out) + 1 \in 1 .. Len(out) + 1
  BY <1>1
<1>5. LineEnds(out) = {k \in 1 .. Len(out) : out[k] = "nl"}
                        \cup {k \in {Len(out) + 1} : Len(out) # 0 /\ out[Len(out)] # "nl"}
  BY <1>1, Zenon DEF LineEnds
<1> QED  BY <1>1, <1>2, <1>3, <1>4, <1>5, Zenon

\* What was read is whole lines.
LEMMA ReadIsWhole ==
    ASSUME NEW out \in Seq({"c", "nl"}), NEW max_line \in Nat, NEW h \in Nat, h <= Len(out),
           NEW r \in Reader, NEW m, Marks(m, r, out, h, max_line)
    PROVE  Whole(m, r.lines, out, max_line)
<1> DEFINE last == Len(r.lines)
<1>1. last \in Nat
  BY ReaderParts, Zenon
<1>2. m \in [0 .. last -> 0 .. h] /\ m[0] = 0
  BY Zenon DEF Marks
<1>3. \A k \in 1 .. last :
           /\ m[k - 1] < m[k] /\ out[m[k]] = "nl"
           /\ \A j \in 1 .. h : m[k - 1] < j /\ j < m[k] => out[j] # "nl"
           /\ r.lines[k] = EmitLine(m[k] - 1 - m[k - 1], max_line)
  BY DEF Marks
<1> HIDE DEF last
<1>4. \A k \in 1 .. last : m[k] \in 1 .. h /\ m[k - 1] \in 0 .. h
  <2> SUFFICES ASSUME NEW k \in 1 .. last PROVE m[k] \in 1 .. h /\ m[k - 1] \in 0 .. h
    OBVIOUS
  <2>1. k \in 0 .. last /\ k - 1 \in 0 .. last
    BY <1>1
  <2>2. m[k] \in 0 .. h /\ m[k - 1] \in 0 .. h
    BY <1>2, <2>1, Zenon
  <2>3. m[k - 1] < m[k]
    BY <1>3
  <2> QED  BY <2>2, <2>3
<1>5. Len(out) \in Nat /\ 1 .. h \subseteq 1 .. Len(out)
  OBVIOUS
<1>6. m \in [0 .. last -> 0 .. Len(out) + 1]
  BY <1>2, <1>5
<1>7. \A k \in 1 .. last : m[k] \in LineEnds(out)
  BY <1>3, <1>4, <1>5, WhereLinesEnd, Zenon
<1>8. ASSUME NEW k \in 1 .. last, NEW e \in LineEnds(out), m[k - 1] < e, e < m[k] PROVE FALSE
  <2>1. e \in 1 .. Len(out) + 1
    BY WhereLinesEnd, Zenon
  <2>2. e \in 1 .. h
    BY <1>4, <1>8, <2>1
  <2>3. out[e] = "nl"
    BY <1>5, <2>2, WhereLinesEnd, Zenon
  <2> QED  BY <1>3, <1>8, <2>2, <2>3, Zenon
<1> QED  BY <1>2, <1>3, <1>6, <1>7, <1>8, Zenon DEF Whole, last

\* The whole output was read and ends with a newline, or there was none.
LEMMA AllIsRead ==
    ASSUME NEW out \in Seq({"c", "nl"}), NEW max_line \in Nat,
           NEW r \in Reader, NEW m, Marks(m, r, out, Len(out), max_line), ~(r.partial > 0)
    PROVE  Complete(m, r.lines, out)
<1> DEFINE last == Len(r.lines)
           n == Len(out)
<1>1. last \in Nat /\ n \in Nat /\ r.partial \in Nat
  BY ReaderParts, SequenceTypes, Zenon
<1>2. /\ m \in [0 .. last -> 0 .. n] /\ m[0] = 0
      /\ r.partial = n - m[last]
      /\ \A k \in 1 .. last : out[m[k]] = "nl"
      /\ \A j \in 1 .. n : out[j] = "nl" => \E k \in 1 .. last : m[k] = j
  BY DEF Marks
<1> HIDE DEF last, n
<1>3. m[last] \in 0 .. n
  BY <1>1, <1>2
<1>4. m[last] = n
  BY <1>1, <1>2, <1>3
<1>5. n # 0 => last \in 1 .. last
  BY <1>1, <1>2, <1>4
<1>6. n # 0 => out[n] = "nl"
  BY <1>2, <1>4, <1>5, Zenon
<1>7. \A e \in 1 .. n + 1 : e \in 1 .. n \/ e = n + 1
  BY <1>1
<1>8. ASSUME NEW e \in LineEnds(out) PROVE \E k \in 1 .. last : m[k] = e
  <2>1. e \in 1 .. n + 1
    BY WhereLinesEnd, Zenon DEF n
  <2>2. e # n + 1
    BY <1>6, WhereLinesEnd, Zenon DEF n
  <2>3. e \in 1 .. n
    BY <1>7, <2>1, <2>2, Zenon
  <2>4. out[e] = "nl"
    BY <2>3, WhereLinesEnd, Zenon DEF n
  <2> QED  BY <1>2, <2>3, <2>4, Zenon
<1> QED  BY <1>8, Zenon DEF last, Complete


\* The final flush: the line without a newline ends with the output.
LEMMA FlushIsWhole ==
    ASSUME NEW out \in Seq({"c", "nl"}), NEW max_line \in Nat,
           NEW r \in Reader, NEW m, Marks(m, r, out, Len(out), max_line), r.partial > 0
    PROVE  LET ls == Append(r.lines, EmitLine(r.partial, max_line)) IN
           \E p : Whole(p, ls, out, max_line) /\ Complete(p, ls, out)
<1> DEFINE last == Len(r.lines)
           n == Len(out)
           ls == Append(r.lines, EmitLine(r.partial, max_line))
           p == [k \in 0 .. last + 1 |-> IF k = last + 1 THEN n + 1 ELSE m[k]]
<1>1. last \in Nat /\ n \in Nat /\ r.partial \in Nat /\ r.lines \in Seq(Line)
  BY ReaderParts, SequenceTypes, Zenon
<1>2. /\ m \in [0 .. last -> 0 .. n] /\ m[0] = 0
      /\ r.partial = n - m[last]
      /\ \A j \in 1 .. n : m[last] < j => out[j] # "nl"
      /\ \A j \in 1 .. n : out[j] = "nl" => \E k \in 1 .. last : m[k] = j
  BY DEF Marks
<1>3. Whole(m, r.lines, out, max_line)
  <2>1. n <= n
    BY <1>1
  <2> QED  BY <1>1, <2>1, ReadIsWhole
<1>4. \A k \in 1 .. last :
           /\ m[k] \in LineEnds(out)
           /\ m[k - 1] < m[k]
           /\ \A e \in LineEnds(out) : ~(m[k - 1] < e /\ e < m[k])
           /\ r.lines[k] = EmitLine(m[k] - 1 - m[k - 1], max_line)
  BY <1>3 DEF Whole
<1>5. /\ Len(ls) = last + 1 /\ ls[last + 1] = EmitLine(r.partial, max_line)
      /\ \A k \in 1 .. last : ls[k] = r.lines[k]
  <2> DEFINE e == EmitLine(r.partial, max_line)
  <2>1. e \in Line
    BY <1>1, EmittedLine, Zenon
  <2> HIDE DEF e
  <2>2. Pushed(r.lines, e)
    BY <1>1, <2>1, AppendFacts, Zenon
  <2> QED  BY <2>2, Zenon DEF e, Pushed
<1> HIDE DEF last, n, ls
<1>6. /\ p \in [0 .. last + 1 -> 0 .. n + 1] /\ p[last + 1] = n + 1
      /\ \A k \in 0 .. last : p[k] = m[k]
  BY <1>1, <1>2
<1> HIDE DEF p
<1>7. m[last] \in 0 .. n /\ m[last] < n /\ (n + 1) - 1 - m[last] = r.partial /\ m[last] < n + 1
  <2>1. m[last] \in 0 .. n
    BY <1>1, <1>2
  <2> QED  BY <1>1, <1>2, <2>1
<1>8. n # 0 /\ n \in 1 .. n /\ out[n] # "nl"
  BY <1>1, <1>2, <1>7
<1>9. n + 1 \in LineEnds(out)
  BY <1>8, WhereLinesEnd, Zenon DEF n
<1>10. \A e \in LineEnds(out) : e = n + 1 \/ (e \in 1 .. n /\ out[e] = "nl")
  <2>1. \A e \in 1 .. n + 1 : e \in 1 .. n \/ e = n + 1
    BY <1>1
  <2> QED  BY <2>1, WhereLinesEnd, Zenon DEF n
<1>11. \A k \in 1 .. last + 1 : k \in 1 .. last \/ k = last + 1
  BY <1>1
<1>12. /\ \A k \in 1 .. last : k \in 0 .. last /\ k - 1 \in 0 .. last
       /\ last \in 0 .. last /\ 0 \in 0 .. last /\ (last + 1) - 1 = last
       /\ last + 1 \in 1 .. last + 1 /\ 1 .. last \subseteq 1 .. last + 1
  BY <1>1
<1>13. ~(n + 1 < n + 1)
  BY <1>1
<1>14. ASSUME NEW k \in 1 .. last + 1
       PROVE  /\ p[k] \in LineEnds(out)
              /\ p[k - 1] < p[k]
              /\ \A e \in LineEnds(out) : ~(p[k - 1] < e /\ e < p[k])
              /\ ls[k] = EmitLine(p[k] - 1 - p[k - 1], max_line)
  <2>1. CASE k \in 1 .. last
    <3>1. p[k] = m[k] /\ p[k - 1] = m[k - 1]
      BY <2>1, <1>6, <1>12, Zenon
    <3> QED  BY <2>1, <3>1, <1>4, <1>5, Zenon
  <2>2. CASE k = last + 1
    <3>1. p[k] = n + 1 /\ p[k - 1] = m[last]
      BY <2>2, <1>6, <1>12, Zenon
    <3>2. \A e \in LineEnds(out) : ~(m[last] < e /\ e < n + 1)
      BY <1>2, <1>10, <1>13, Zenon
    <3> QED  BY <2>2, <3>1, <3>2, <1>5, <1>7, <1>9, Zenon
  <2> QED  BY <1>11, <2>1, <2>2, Zenon
<1>15. p[0] = 0
  BY <1>2, <1>6, <1>12, Zenon
<1>16. Whole(p, ls, out, max_line)
  BY <1>5, <1>6, <1>14, <1>15, Zenon DEF Whole, n
<1>17. \A e \in LineEnds(out) : \E k \in 1 .. last + 1 : p[k] = e
  BY <1>2, <1>6, <1>10, <1>12, Zenon
<1>18. Complete(p, ls, out)
  BY <1>5, <1>17, Zenon DEF Complete
<1> QED  BY <1>16, <1>18, Zenon DEF ls

\* drain forwards the first lines of the output, and all of them if the output
\* is within the cap.
LEMMA DrainIsWhole ==
    ASSUME NEW out \in Seq({"c", "nl"}), NEW max_line \in Nat, NEW max_captured \in Nat
    PROVE  LET ls == Drain(out, max_line, max_captured) IN
           /\ Len(ls) \in Nat /\ DOMAIN ls = 1 .. Len(ls)
           /\ \E p : /\ Whole(p, ls, out, max_line)
                     /\ Len(out) <= max_captured => Complete(p, ls, out)
<1> DEFINE chunk == ProcessChunk(out, max_line, max_captured)
           ls == Drain(out, max_line, max_captured)
<1>1. PICK h \in Nat : \E r :
               /\ h = (IF Len(out) > max_captured THEN max_captured ELSE Len(out))
               /\ HasRead(r, out, h, max_line)
               /\ chunk = IF h < Len(out) THEN CrossCap(r) ELSE r
  BY ProcessChunkReads, Zenon
<1>2. PICK r :
               /\ h = (IF Len(out) > max_captured THEN max_captured ELSE Len(out))
               /\ HasRead(r, out, h, max_line)
               /\ chunk = IF h < Len(out) THEN CrossCap(r) ELSE r
  BY <1>1, Zenon
<1>3. r \in Reader /\ ~r.capped
  BY <1>2 DEF HasRead
<1>4. PICK m : Marks(m, r, out, h, max_line)
  BY <1>2 DEF HasRead
<1>5. ls = IF chunk.partial > 0 /\ ~chunk.capped
           THEN Append(chunk.lines, EmitLine(chunk.partial, max_line)) ELSE chunk.lines
  BY Zenon DEF Drain
<1> HIDE DEF chunk, ls
<1>6. Len(out) \in Nat /\ h <= Len(out)
  BY <1>2
<1>7. Whole(m, r.lines, out, max_line)
  BY <1>3, <1>4, <1>6, ReadIsWhole
<1>8. r.lines \in Seq(Line) /\ r.partial \in Nat
  BY <1>3 DEF Reader
<1>9. CASE h < Len(out)
  <2>1. chunk = CrossCap(r)
    BY <1>2, <1>9
  <2>2. chunk.capped /\ chunk.lines = r.lines
    BY <1>3, <2>1 DEF CrossCap, Reader
  <2>3. ls = r.lines
    BY <1>5, <2>2, Zenon
  <2>4. ~(Len(out) <= max_captured)
    BY <1>2, <1>6, <1>9
  <2>5. Len(ls) \in Nat /\ DOMAIN ls = 1 .. Len(ls)
    BY <1>8, <2>3, SequenceTypes, Zenon
  <2> QED  BY <1>7, <2>3, <2>4, <2>5, Zenon DEF ls
<1>10. CASE ~(h < Len(out))
  <2>1. chunk = r /\ h = Len(out)
    BY <1>2, <1>6, <1>10
  <2>2. CASE r.partial > 0
    <3>1. ls = Append(r.lines, EmitLine(r.partial, max_line))
      BY <1>3, <1>5, <2>1, <2>2, Zenon
    <3>2. Len(ls) \in Nat /\ DOMAIN ls = 1 .. Len(ls)
      <4>1. EmitLine(r.partial, max_line) \in Line
        BY <1>8, EmittedLine
      <4> QED  BY <1>8, <3>1, <4>1
    <3>3. \E p : Whole(p, ls, out, max_line) /\ Complete(p, ls, out)
      <4>1. Marks(m, r, out, Len(out), max_line)
        BY <1>4, <2>1, Zenon
      <4> QED  BY <1>3, <2>2, <3>1, <4>1, FlushIsWhole, Zenon
    <3> QED  BY <3>2, <3>3, Zenon DEF ls
  <2>3. CASE ~(r.partial > 0)
    <3>1. ls = r.lines
      BY <1>5, <2>1, <2>3, Zenon
    <3>2. Len(ls) \in Nat /\ DOMAIN ls = 1 .. Len(ls)
      BY <1>8, <3>1
    <3>3. Complete(m, ls, out)
      <4>1. Marks(m, r, out, Len(out), max_line)
        BY <1>4, <2>1, Zenon
      <4> QED  BY <1>3, <2>3, <3>1, <4>1, AllIsRead, Zenon
    <3> QED  BY <1>7, <3>1, <3>2, <3>3, Zenon DEF ls
  <2> QED  BY <2>2, <2>3
<1> QED  BY <1>9, <1>10


\* The readers were joined with nobody left to write, so the output has not
\* changed since.
LinesInv ==
    /\ output \in Seq({"c", "nl"})
    /\ Ran => ~writes /\ lines = Drain(output, MAX_LINE_BYTES, MAX_CAPTURED_BYTES)

\* What drain returns for an output is what the property asks of the lines.
LEMMA LinesAreWhole == LinesInv => ForwardedLinesAreWhole
<1> SUFFICES ASSUME LinesInv, Ran
             PROVE  \E ends \in [DOMAIN lines -> LineEnds(output)] :
                        LET start(k) == IF k = 1 THEN 0 ELSE ends[k - 1]
                            length(k) == ends[k] - 1 - start(k)
                        IN  /\ \A k \in DOMAIN lines :
                                   /\ {e \in LineEnds(output) : start(k) < e /\ e <= ends[k]} = {ends[k]}
                                   /\ lines[k].truncated <=> length(k) > MAX_LINE_BYTES
                                   /\ lines[k].kept = IF lines[k].truncated THEN MAX_LINE_BYTES ELSE length(k)
                            /\ Len(output) <= MAX_CAPTURED_BYTES =>
                                   \A e \in LineEnds(output) : \E k \in DOMAIN lines : ends[k] = e
  BY Zenon DEF ForwardedLinesAreWhole
<1>1. /\ output \in Seq({"c", "nl"}) /\ lines = Drain(output, MAX_LINE_BYTES, MAX_CAPTURED_BYTES)
      /\ MAX_LINE_BYTES \in Nat /\ MAX_CAPTURED_BYTES \in Nat
  BY HookConstants, Zenon DEF LinesInv
<1>2. Len(lines) \in Nat /\ DOMAIN lines = 1 .. Len(lines)
  BY <1>1, DrainIsWhole, Zenon
<1>3. PICK p : /\ Whole(p, lines, output, MAX_LINE_BYTES)
               /\ Len(output) <= MAX_CAPTURED_BYTES => Complete(p, lines, output)
  BY <1>1, DrainIsWhole, Zenon
<1>4. Len(output) \in Nat /\ LineEnds(output) \subseteq 1 .. Len(output) + 1
  BY <1>1, WhereLinesEnd, Zenon
<1> DEFINE ends == [k \in DOMAIN lines |-> p[k]]
           start(k) == IF k = 1 THEN 0 ELSE ends[k - 1]
           length(k) == ends[k] - 1 - start(k)
<1>5. ends \in [DOMAIN lines -> LineEnds(output)]
  BY <1>2, <1>3, Zenon DEF Whole
<1>6. ASSUME NEW k \in DOMAIN lines PROVE ends[k] = p[k] /\ start(k) = p[k - 1]
  <2>1. k \in 1 .. Len(lines) /\ (k # 1 => k - 1 \in 1 .. Len(lines)) /\ 1 - 1 = 0
    BY <1>2
  <2>2. p[0] = 0
    BY <1>3, Zenon DEF Whole
  <2> QED  BY <1>2, <2>1, <2>2, Zenon
<1>7. ASSUME NEW k \in DOMAIN lines
      PROVE  /\ p[k] \in LineEnds(output)
             /\ p[k - 1] < p[k] /\ p[k] \in Nat /\ p[k - 1] \in Nat
             /\ \A e \in LineEnds(output) : ~(p[k - 1] < e /\ e < p[k])
             /\ lines[k] = EmitLine(p[k] - 1 - p[k - 1], MAX_LINE_BYTES)
  <2>1. k \in 1 .. Len(lines) /\ k \in 0 .. Len(lines) /\ k - 1 \in 0 .. Len(lines)
    BY <1>2
  <2>2. \A i \in 0 .. Len(output) + 1 : i \in Nat
    BY <1>4
  <2> QED  BY <1>3, <2>1, <2>2, Zenon DEF Whole
<1> HIDE DEF ends
<1>8. ASSUME NEW k \in DOMAIN lines
      PROVE  /\ {e \in LineEnds(output) : start(k) < e /\ e <= ends[k]} = {ends[k]}
             /\ lines[k].truncated <=> length(k) > MAX_LINE_BYTES
             /\ lines[k].kept = IF lines[k].truncated THEN MAX_LINE_BYTES ELSE length(k)
  <2>1. ends[k] = p[k] /\ start(k) = p[k - 1]
    BY <1>6, Zenon
  <2> HIDE DEF start
  <2>2. length(k) = p[k] - 1 - p[k - 1]
    BY <2>1, Zenon
  <2>3. length(k) \in Nat
    BY <1>7, <2>2
  <2> HIDE DEF length
  <2>4. lines[k] = EmitLine(length(k), MAX_LINE_BYTES)
    BY <1>7, <2>2, Zenon
  <2>5. lines[k].truncated <=> length(k) > MAX_LINE_BYTES
    <3>1. EmitLine(length(k), MAX_LINE_BYTES).truncated = (length(k) > MAX_LINE_BYTES)
      BY Zenon DEF EmitLine
    <3> QED  BY <2>4, <3>1, Zenon
  <2>6. lines[k].kept = IF lines[k].truncated THEN MAX_LINE_BYTES ELSE length(k)
    <3>1. lines[k].kept = IF length(k) > MAX_LINE_BYTES THEN MAX_LINE_BYTES ELSE length(k)
      BY <2>4 DEF EmitLine
    <3> QED  BY <2>5, <3>1, Zenon
  <2>7. {e \in LineEnds(output) : start(k) < e /\ e <= ends[k]} = {ends[k]}
    <3>1. \A e \in LineEnds(output) : p[k - 1] < e /\ e <= p[k] <=> e = p[k]
      <4> SUFFICES ASSUME NEW e \in LineEnds(output)
                   PROVE  p[k - 1] < e /\ e <= p[k] <=> e = p[k]
        OBVIOUS
      <4>1. e \in 1 .. Len(output) + 1 /\ ~(p[k - 1] < e /\ e < p[k])
        BY <1>4, <1>7, Zenon
      <4> QED  BY <1>4, <1>7, <4>1
    <3> QED  BY <1>7, <2>1, <3>1, Zenon
  <2> QED  BY <2>5, <2>6, <2>7, Zenon
<1>9. Len(output) <= MAX_CAPTURED_BYTES =>
          \A e \in LineEnds(output) : \E k \in DOMAIN lines : ends[k] = e
  BY <1>2, <1>3, <1>6, Zenon DEF Complete
<1> QED  BY <1>5, <1>8, <1>9, Zenon


\* execute returns at JoinReaders or with an error.
LEMMA LinesSupervisor ==
    ASSUME IInv, LinesInv, Supervisor \/ WaitFails \/ Expire
    PROVE  LinesInv'
<1>1. output \in Seq({"c", "nl"}) /\ << >> \in Seq({"c", "nl"})
  BY SequenceTypes, Zenon DEF LinesInv
<1>2. CASE JoinReaders
  BY <1>1, <1>2 DEF JoinReaders, LinesInv, childVars
<1>3. CASE ApplyOnFailure
  <2>1. step' # "policy" /\ (output' = << >> \/ output' = output)
    BY <1>3, Zenon DEF ApplyOnFailure, NoChild, childVars
  <2> QED  BY <1>1, <2>1, Zenon DEF LinesInv
<1>4. CASE Kill("wait", "term", "TERM") \/ Kill("term", "reap", "KILL")
  BY <1>1, <1>4 DEF Kill, LinesInv, childVars
<1>5. CASE Prepare
  <2>1. UNCHANGED output
    BY <1>5, PrepareEnds, Zenon DEF childVars
  <2>2. step' # "policy" \/ outcome'.kind \notin {"Success", "NonZero", "Timeout"}
    BY <1>5, PrepareEnds
  <2> QED  BY <1>1, <2>1, <2>2 DEF LinesInv
<1>6. CASE Fork \/ SpawnReaders \/ WaitFails
  <2>1. UNCHANGED output
    BY <1>6, Zenon DEF Fork, SpawnReaders, WaitFails, childVars
  <2>2. step' # "policy" \/ outcome'.kind = "Error"
    <3>1. step' # "policy" \/ outcome' = Outcome("Error")
      BY <1>6, Zenon DEF Fork, SpawnReaders, WaitFails, Executed
    <3> QED  BY <3>1 DEF Outcome
  <2> QED  BY <1>1, <2>1, <2>2, Zenon DEF LinesInv
<1>7. CASE SetGroup \/ Reap \/ Expire
  BY <1>1, <1>7 DEF SetGroup, Reap, Expire, LinesInv, childVars
<1> QED  BY <1>2, <1>3, <1>4, <1>5, <1>6, <1>7 DEF Supervisor

\* A reaped child writes nothing, and without a writer nobody does.
LEMMA LinesChild ==
    ASSUME IInv, LinesInv, Child
    PROVE  LinesInv'
<1>1. UNCHANGED <<step, outcome, lines>>
  BY Zenon DEF Child, ChildSetup, HookExits, HookSpawns, HookWrites, HelperExits, LeaderSignalled, Dies
<1>2. output' \in Seq({"c", "nl"})
  <2>1. output \in Seq({"c", "nl"})
    BY DEF LinesInv
  <2>2. CASE HookWrites
    BY <2>1, <2>2, SequenceTypes, Zenon DEF HookWrites
  <2>3. CASE ~HookWrites
    BY <2>1, <2>3 DEF Child, ChildSetup, HookExits, HookSpawns, HelperExits, LeaderSignalled, Dies
  <2> QED  BY <2>2, <2>3
<1>3. Ran => leader = "reaped" /\ ~writes
  BY DEF IInv, OutcomeIsTruthful, LinesInv
<1>4. leader = "reaped" /\ ~writes => output' = output /\ ~writes'
  BY Zenon DEF Child, ChildSetup, HookExits, HookSpawns, HookWrites, HelperExits, LeaderSignalled, Dies
<1> QED  BY <1>1, <1>2, <1>3, <1>4 DEF LinesInv

\* When execute has returned for a child that ran, the lines are those of drain.
LEMMA LinesInductive == HookSpec => []LinesInv
<1>1. HookInit => LinesInv
  BY DEF HookInit, LinesInv
<1>2. IInv /\ LinesInv /\ [HookNext]_hookVars => LinesInv'
  <2> SUFFICES ASSUME IInv, LinesInv, [HookNext]_hookVars PROVE LinesInv'
    BY Zenon
  <2>1. CASE UNCHANGED hookVars
    BY <2>1 DEF hookVars, childVars, LinesInv
  <2> QED  BY <2>1, LinesSupervisor, LinesChild DEF HookNext, HookDone
<1> QED  BY <1>1, <1>2, HookInductive, PTL DEF HookSpec

\* Whatever a hook writes and however long its lines are, drain and
\* process_chunk forward its first lines, each one whole or marked as cut, drop
\* the line that the cap cuts, and forward everything if the cap is not reached.
THEOREM ForwardedLinesAreAlwaysWhole == HookSpec => []ForwardedLinesAreWhole
BY LinesInductive, LinesAreWhole, PTL

=============================================================================
