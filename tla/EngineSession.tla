------------------------------ MODULE EngineSession ------------------------------
(***************************************************************************)
(* One Engine.IO session (server/pkg/engineio): the send buffer, the two   *)
(* transports that empty it, the upgrade from one to the other, the ping   *)
(* loop, and Close.                                                        *)
(*                                                                         *)
(* The goroutines are the GET handler (poll), the WebSocket handler (ws),  *)
(* the write loop (wl), and the server's ping loop; anybody may call Send. *)
(* They meet in the fields under s.mu and in two channels of one slot each *)
(* that say "there is something to send" (recvSig, wsSig).                 *)
(*                                                                         *)
(* The buffer holds application messages only.  A ping or NOOP packet is   *)
(* put into it in the same way and counts here for the signal it gives.  A *)
(* ping that is put there before a WebSocket is bound signals recvSig, and *)
(* goes out with the next packet.                                          *)
(*                                                                         *)
(* The client is the library's (external): one GET at a time, and it sends *)
(* UPGRADE when its last GET has been answered.                            *)
(***************************************************************************)
EXTENDS Naturals, Sequences

CONSTANT MaxSends     \* bound: messages accepted, a natural number

VARIABLES
  buf,                \* s.sendBuffer
  closed,             \* s.closed and s.closedChan
  bound,              \* s.wsConn # nil
  upgrading,          \* s.upgrading
  recvSig, wsSig,     \* s.recvChan, s.wsSendChan: their slot is full
  idle,               \* ticks of the ping loop since s.lastActive
  listed,             \* srv.sessions has the session
  poll, pollOut,      \* the GET handler and the packets it answers with
  ws,                 \* the WebSocket handler
  wl, wlOut,          \* the write loop and the packets it has still to write
  client,             \* what the client is doing
  sent, got           \* history: messages accepted, messages received

signals == <<recvSig, wsSig>>
sessionVars == <<buf, closed, bound, upgrading, signals, idle, listed, poll, pollOut, ws,
          wl, wlOut, client, sent, got>>

Messages == 1 .. MaxSends

SessionTypeOK ==
  /\ buf \in Seq(Messages) /\ pollOut \in Seq(Messages) /\ wlOut \in Seq(Messages)
  /\ closed \in BOOLEAN /\ bound \in BOOLEAN /\ upgrading \in BOOLEAN
  /\ recvSig \in BOOLEAN /\ wsSig \in BOOLEAN /\ listed \in BOOLEAN
  /\ idle \in 0 .. 2
  /\ poll \in {"none", "drain", "wait", "answer"}
  /\ ws \in {"none", "fresh", "probe", "ponged", "reading", "done"}
  /\ wl \in {"off", "select", "write", "done"}
  /\ client \in {"polling", "probing", "paused", "websocket", "gone"}
  /\ sent \in 0 .. MaxSends /\ got \in Seq(Messages)

\* A handshake over polling, or directly over a WebSocket, that is not bound yet.
SessionInit ==
  /\ buf = <<>> /\ closed = FALSE /\ bound = FALSE /\ upgrading = FALSE
  /\ recvSig = FALSE /\ wsSig = FALSE /\ idle = 0 /\ listed = TRUE
  /\ poll = "none" /\ pollOut = <<>> /\ wl = "off" /\ wlOut = <<>>
  /\ \/ ws = "none" /\ client = "polling"
     \/ ws = "fresh" /\ client = "websocket"
  /\ sent = 0 /\ got = <<>>

Here == client # "gone"

SignalSend_Swapped ==
  IF bound THEN recvSig' = TRUE /\ UNCHANGED wsSig ELSE wsSig' = TRUE /\ UNCHANGED recvSig

\* signalSend: a full slot stays full.
SignalSend ==
  IF bound THEN wsSig' = TRUE /\ UNCHANGED recvSig ELSE recvSig' = TRUE /\ UNCHANGED wsSig

\* Session.Send of a message.  The server has none for a client that has sent nothing
\* yet, and a fresh WebSocket is read only once it is bound.
Send ==
  /\ ~closed /\ ws # "fresh"
  /\ sent < MaxSends
  /\ sent' = sent + 1
  /\ buf' = Append(buf, sent + 1)
  /\ SignalSend
  /\ UNCHANGED <<closed, bound, upgrading, idle, listed, poll, pollOut, ws, wl, wlOut,
                 client, got>>

-------------------------------------------------------------------------------
(* Polling.                                                                *)

\* ServeHTTP turns a GET for a closed or unknown session away.
Get ==
  /\ client \in {"polling", "probing"} /\ poll = "none"
  /\ IF listed /\ ~closed THEN poll' = "drain" /\ UNCHANGED client
                          ELSE client' = "gone" /\ UNCHANGED poll
  /\ UNCHANGED <<buf, closed, bound, upgrading, signals, idle, listed, pollOut, ws, wl,
                 wlOut, sent, got>>

TakeAll_Copies == pollOut' = buf /\ UNCHANGED buf /\ idle' = 0 /\ poll' = "answer"
TakeAll == pollOut' = buf /\ buf' = <<>> /\ idle' = 0 /\ poll' = "answer"

\* Drain answers at once if there is something to send, or with a NOOP during an
\* upgrade; else it waits.
DrainNow ==
  /\ poll = "drain"
  /\ \/ buf # <<>> /\ TakeAll
     \/ buf = <<>> /\ poll' = (IF upgrading THEN "answer" ELSE "wait")
                   /\ UNCHANGED <<buf, pollOut, idle>>
  /\ UNCHANGED <<closed, bound, upgrading, signals, listed, ws, wl, wlOut, client, sent, got>>

DrainWoken ==
  /\ poll = "wait" /\ recvSig
  /\ recvSig' = FALSE
  /\ TakeAll
  /\ UNCHANGED <<closed, bound, upgrading, wsSig, listed, ws, wl, wlOut, client, sent, got>>

\* By closedChan, or by the timer: nil, which is answered with a NOOP.
DrainNil ==
  /\ poll = "wait" /\ poll' = "answer"
  /\ UNCHANGED <<buf, closed, bound, upgrading, signals, idle, listed, pollOut, ws, wl, wlOut,
                 client, sent, got>>

Answer ==
  /\ poll = "answer"
  /\ got' = IF Here THEN got \o pollOut ELSE got
  /\ poll' = "none" /\ pollOut' = <<>>
  /\ UNCHANGED <<buf, closed, bound, upgrading, signals, idle, listed, ws, wl, wlOut, client, sent>>

-------------------------------------------------------------------------------
(* The upgrade, and a fresh WebSocket.                                     *)

OpenWebSocket ==
  /\ client = "polling" /\ ws = "none" /\ listed /\ ~closed
  /\ client' = "probing" /\ ws' = "probe"
  /\ UNCHANGED <<buf, closed, bound, upgrading, signals, idle, listed, poll, pollOut, wl, wlOut,
                 sent, got>>

\* handleWSUpgrade reads the probe: StartUpgrade, and PONG.
Probe ==
  /\ ws = "probe" /\ ws' = "ponged"
  /\ upgrading' = TRUE
  /\ recvSig' = (recvSig \/ ~upgrading)
  /\ UNCHANGED <<buf, closed, bound, wsSig, idle, listed, poll, pollOut, wl, wlOut, client,
                 sent, got>>

\* The client pauses polling when it reads the PONG, and sends UPGRADE when its
\* last GET is answered.
Pause ==
  /\ client = "probing" /\ ws = "ponged" /\ client' = "paused"
  /\ UNCHANGED <<buf, closed, bound, upgrading, signals, idle, listed, poll, pollOut, ws, wl,
                 wlOut, sent, got>>

SendUpgrade ==
  /\ client = "paused" /\ ws = "ponged" /\ poll = "none" /\ client' = "websocket"
  /\ UNCHANGED <<buf, closed, bound, upgrading, signals, idle, listed, poll, pollOut, ws, wl,
                 wlOut, sent, got>>

\* A read or write of the probe fails, or times out: CancelUpgrade.  The client goes
\* on polling if it has not stopped to.
ProbeFails ==
  /\ ws \in {"probe", "ponged"} /\ ws' = "done"
  /\ upgrading' = IF ws = "ponged" THEN FALSE ELSE upgrading
  /\ client' = IF client = "probing" THEN "polling" ELSE "gone"
  /\ UNCHANGED <<buf, closed, bound, signals, idle, listed, poll, pollOut, wl, wlOut, sent, got>>

Upgrade_Silent ==
  /\ ws = "ponged" /\ client = "websocket"
  /\ ws' = "reading" /\ wl' = "select"
  /\ bound' = TRUE /\ upgrading' = FALSE
  /\ wsSig' = FALSE
  /\ recvSig' = TRUE
  /\ UNCHANGED <<buf, closed, idle, listed, poll, pollOut, wlOut, client, sent, got>>

\* UpgradeToWebSocket, with a new wsSendChan that is signalled if packets wait.
Upgrade ==
  /\ ws = "ponged" /\ client = "websocket"
  /\ ws' = "reading" /\ wl' = "select"
  /\ bound' = TRUE /\ upgrading' = FALSE
  /\ wsSig' = (buf # <<>>)
  /\ recvSig' = TRUE
  /\ UNCHANGED <<buf, closed, idle, listed, poll, pollOut, wlOut, client, sent, got>>

BindWebSocket ==
  /\ ws = "fresh"
  /\ ws' = "reading" /\ wl' = "select"
  /\ bound' = TRUE /\ wsSig' = FALSE
  /\ UNCHANGED <<buf, closed, upgrading, recvSig, idle, listed, poll, pollOut, wlOut,
                 client, sent, got>>

-------------------------------------------------------------------------------
(* The loops of a bound WebSocket.                                         *)

WriteTake ==
  /\ wl = "select" /\ wsSig
  /\ wl' = "write" /\ wsSig' = FALSE
  /\ wlOut' = buf /\ buf' = <<>>
  /\ UNCHANGED <<closed, bound, upgrading, recvSig, idle, listed, poll, pollOut, ws, client,
                 sent, got>>

\* A frame for a client that is gone may still be accepted by its socket.
WriteNext ==
  /\ wl = "write"
  /\ IF wlOut = <<>> THEN wl' = "select" /\ UNCHANGED <<wlOut, got>>
     ELSE /\ wlOut' = Tail(wlOut) /\ UNCHANGED wl
          /\ got' = IF Here THEN Append(got, Head(wlOut)) ELSE got
  /\ UNCHANGED <<buf, closed, bound, upgrading, signals, idle, listed, poll, pollOut, ws,
                 client, sent>>

\* WritePacket of a message or of a ping fails: Close.
WriteFails ==
  /\ ~Here
  /\ \/ wl = "write" /\ wlOut # <<>>
     \/ wl = "select"
  /\ wl' = "done" /\ closed' = TRUE
  /\ UNCHANGED <<buf, bound, upgrading, signals, idle, listed, poll, pollOut, ws, wlOut, client,
                 sent, got>>

WriteClosed ==
  /\ wl = "select" /\ closed
  /\ wl' = "done"
  /\ UNCHANGED <<buf, closed, bound, upgrading, signals, idle, listed, poll, pollOut, ws, wlOut,
                 client, sent, got>>

\* ReadMessage fails, or a CLOSE packet was read: Close.
ReadEnds ==
  /\ ws = "reading" /\ ~Here
  /\ ws' = "done" /\ closed' = TRUE
  /\ UNCHANGED <<buf, bound, upgrading, signals, idle, listed, poll, pollOut, wl, wlOut, client,
                 sent, got>>

-------------------------------------------------------------------------------
(* The client's packets, its end, and the ping loop.                       *)

\* HandlePacket of a PONG or of a message.
HandlePacket ==
  /\ Here /\ ~closed /\ idle' = 0
  /\ UNCHANGED <<buf, closed, bound, upgrading, signals, listed, poll, pollOut, ws, wl, wlOut,
                 client, sent, got>>

\* The client goes, with a POST of a CLOSE packet or without a word.
ClientLeaves ==
  /\ Here /\ client' = "gone"
  /\ \/ closed' = TRUE
     \/ UNCHANGED closed
  /\ UNCHANGED <<buf, bound, upgrading, signals, idle, listed, poll, pollOut, ws, wl, wlOut,
                 sent, got>>

Tick_LeavesToOnClose ==
  /\ listed /\ ~closed
  /\ \/ /\ idle + 1 >= 2
        /\ closed' = TRUE /\ listed' = FALSE /\ UNCHANGED <<idle, signals>>
     \/ /\ idle + 1 < 3
        /\ SignalSend
        /\ idle' = idle + 1 /\ UNCHANGED <<closed, listed>>
  /\ UNCHANGED <<buf, bound, upgrading, poll, pollOut, ws, wl, wlOut, client, sent, got>>

\* One round of pingLoop.  Its period is PingInterval and PingTimeout is shorter: the
\* second round after the last activity may find the deadline passed, the third
\* does.  A live session gets a ping.
Tick ==
  /\ listed
  /\ \/ /\ closed /\ listed' = FALSE /\ UNCHANGED <<closed, idle, signals>>
     \/ /\ ~closed /\ idle + 1 >= 2
        /\ closed' = TRUE /\ listed' = FALSE /\ UNCHANGED <<idle, signals>>
     \/ /\ ~closed /\ idle + 1 < 3
        /\ SignalSend
        /\ idle' = idle + 1 /\ UNCHANGED <<closed, listed>>
  /\ UNCHANGED <<buf, bound, upgrading, poll, pollOut, ws, wl, wlOut, client, sent, got>>

-------------------------------------------------------------------------------
PollStep  == Get \/ DrainNow \/ DrainWoken \/ (closed /\ DrainNil) \/ Answer
ShakeStep == Probe \/ Pause \/ SendUpgrade \/ Upgrade \/ BindWebSocket
WriteStep == WriteTake \/ WriteNext \/ WriteClosed

SessionNext ==
  \/ Send \/ PollStep \/ DrainNil \/ OpenWebSocket \/ ShakeStep \/ ProbeFails
  \/ WriteStep \/ WriteFails \/ ReadEnds \/ HandlePacket \/ ClientLeaves \/ Tick

SessionSpec == SessionInit /\ [][SessionNext]_sessionVars

\* Handlers and loops go on, the client polls and finishes an upgrade it began, the
\* ticker ticks, and a read from a connection that is gone fails.
SessionFairness ==
  /\ WF_sessionVars(PollStep) /\ WF_sessionVars(ShakeStep) /\ WF_sessionVars(WriteStep)
  /\ WF_sessionVars(ReadEnds) /\ WF_sessionVars(Tick)

SessionFairSpec == SessionSpec /\ SessionFairness

-------------------------------------------------------------------------------
\* Nobody sleeps while messages wait: the poll that waits on recvChan, and the write
\* loop that waits in its select, have a signal pending, across the change of
\* transport too.  (signalSend, Drain and UpgradeToWebSocket, session.go.)
NoSleepOverWork ==
  buf # <<>> =>
    /\ poll = "wait" /\ ~bound => recvSig
    /\ wl = "select" => wsSig

\* Messages leave in the order of Send, none twice and none lost while the client is
\* there, whichever transport carries them.  (Drain, wsWriteLoop,
\* UpgradeToWebSocket.)
Channel == INSTANCE MessageChannel
             WITH underway <- IF Here THEN pollOut \o wlOut \o buf ELSE <<>>,
                  received <- got, there <- Here

ImplementsChannel == Channel!Spec

\* A message that Send accepted reaches the client, unless the session is closed or
\* the client goes.  (The signals, under the fairness above.)
Delivered ==
  \A n \in Messages :
    sent >= n ~> closed \/ ~Here \/ \E i \in 1 .. Len(got) : got[i] = n

\* The server forgets the session of a client that is gone, with or without a word;
\* the ping loop does it, as the close callback is replaced when the Socket.IO
\* server is wired in.  (pingLoop; internal/server/server.go, setupSocketServers.)
EventuallyDropped == ~Here ~> ~listed

===============================================================================
