------------------------------ MODULE ServerProofs ------------------------------
(***************************************************************************)
(* Proofs about the server's plumbing.  For any number of messages, an     *)
(* Engine.IO session wakes whoever has something to send, and is a channel *)
(* that loses, repeats and reorders nothing, across the change of          *)
(* transport too.  For any number of requests, however the loops and the   *)
(* shutdown interleave, Redis is closed only after both engines have       *)
(* ended.                                                                  *)
(***************************************************************************)
EXTENDS EngineSession, Shutdown, SequenceTheorems, TLAPS

-------------------------------------------------------------------------------
(* EngineSession.                                                          *)

\* The write loop runs on a bound WebSocket only, and its signal is pending from the
\* moment packets wait, also while it writes; so is that of the poll until the
\* WebSocket is bound.  A WebSocket that is not bound yet has nothing to send.
SleepInv ==
  /\ bound \in BOOLEAN /\ recvSig \in BOOLEAN /\ wsSig \in BOOLEAN
  /\ wl # "off" => bound
  /\ ws = "fresh" => buf = <<>>
  /\ wl \in {"select", "write"} /\ buf # <<>> => wsSig
  /\ poll = "wait" /\ ~bound /\ buf # <<>> => recvSig

LEMMA SleepInit == SessionInit => SleepInv
BY DEF SessionInit, SleepInv

LEMMA PollSleepless ==
  ASSUME SleepInv, PollStep \/ DrainNil
  PROVE  SleepInv'
<1>1. CASE Get
  BY <1>1 DEF Get, SleepInv, signals
<1>2. CASE DrainNow
  BY <1>2 DEF DrainNow, TakeAll, SleepInv, signals
<1>3. CASE DrainWoken
  BY <1>3 DEF DrainWoken, TakeAll, SleepInv
<1>4. CASE DrainNil
  BY <1>4 DEF DrainNil, SleepInv, signals
<1>5. CASE Answer
  BY <1>5 DEF Answer, SleepInv, signals
<1> QED
  BY <1>1, <1>2, <1>3, <1>4, <1>5 DEF PollStep

LEMMA ShakeSleepless ==
  ASSUME SleepInv, OpenWebSocket \/ ShakeStep \/ ProbeFails
  PROVE  SleepInv'
<1>1. CASE OpenWebSocket
  BY <1>1 DEF OpenWebSocket, SleepInv, signals
<1>2. CASE Probe
  BY <1>2 DEF Probe, SleepInv
<1>3. CASE Pause \/ SendUpgrade
  BY <1>3 DEF Pause, SendUpgrade, SleepInv, signals
<1>4. CASE Upgrade
  BY <1>4 DEF Upgrade, SleepInv
<1>5. CASE BindWebSocket
  BY <1>5 DEF BindWebSocket, SleepInv
<1>6. CASE ProbeFails
  BY <1>6 DEF ProbeFails, SleepInv, signals
<1> QED
  BY <1>1, <1>2, <1>3, <1>4, <1>5, <1>6 DEF ShakeStep

LEMMA WriteSleepless ==
  ASSUME SleepInv, WriteStep \/ WriteFails \/ ReadEnds
  PROVE  SleepInv'
<1>1. CASE WriteTake
  BY <1>1 DEF WriteTake, SleepInv
<1>2. CASE WriteNext
  BY <1>2 DEF WriteNext, SleepInv, signals
<1>3. CASE WriteClosed \/ WriteFails \/ ReadEnds
  BY <1>3 DEF WriteClosed, WriteFails, ReadEnds, SleepInv, signals
<1> QED
  BY <1>1, <1>2, <1>3 DEF WriteStep

LEMMA RestSleepless ==
  ASSUME SleepInv, Send \/ HandlePacket \/ ClientLeaves \/ Tick \/ UNCHANGED sessionVars
  PROVE  SleepInv'
<1>1. CASE Send
  <2>1. /\ bound' = bound /\ wl' = wl /\ poll' = poll /\ ws' = ws /\ ws # "fresh"
        /\ IF bound THEN wsSig' = TRUE /\ recvSig' = recvSig
                    ELSE recvSig' = TRUE /\ wsSig' = wsSig
    BY <1>1 DEF Send, SignalSend
  <2>2. CASE bound
    BY <2>1, <2>2 DEF SleepInv
  <2>3. CASE ~bound
    BY <2>1, <2>3 DEF SleepInv
  <2> QED
    BY <2>2, <2>3
<1>2. CASE HandlePacket \/ ClientLeaves \/ UNCHANGED sessionVars
  BY <1>2 DEF HandlePacket, ClientLeaves, sessionVars, SleepInv, signals
<1>3. CASE Tick
  <2>1. /\ bound' = bound /\ wl' = wl /\ poll' = poll /\ ws' = ws /\ buf' = buf
        /\ \/ wsSig' = wsSig /\ recvSig' = recvSig
           \/ IF bound THEN wsSig' = TRUE /\ recvSig' = recvSig
                       ELSE recvSig' = TRUE /\ wsSig' = wsSig
    BY <1>3 DEF Tick, SignalSend, signals
  <2> QED
    BY <2>1 DEF SleepInv
<1> QED
  BY <1>1, <1>2, <1>3

LEMMA SleepNext == SleepInv /\ [SessionNext]_sessionVars => SleepInv'
BY PollSleepless, ShakeSleepless, WriteSleepless, RestSleepless DEF SessionNext

\* Neither the waiting poll nor the write loop misses its signal, however Send, the
\* ping loop, the upgrade and the two of them interleave.  (session.go, signalSend,
\* UpgradeToWebSocket.)
THEOREM NobodySleepsOverWork == SessionSpec => []NoSleepOverWork
<1>1. SleepInv => NoSleepOverWork
  BY DEF SleepInv, NoSleepOverWork
<1> QED
  BY <1>1, SleepInit, SleepNext, PTL DEF SessionSpec

-------------------------------------------------------------------------------
\* Where packets can be on their way.  A client that is there polls or has a
\* WebSocket, never both: it sends UPGRADE when its last GET has been answered, and
\* the write loop takes nothing before.
CarryInv ==
  /\ buf \in Seq(Messages) /\ pollOut \in Seq(Messages) /\ wlOut \in Seq(Messages)
  /\ got \in Seq(Messages) /\ sent \in 0 .. MaxSends
  /\ poll # "answer" => pollOut = <<>>
  /\ wl \in {"off", "select"} => wlOut = <<>>
  /\ Here /\ client # "websocket" => wl = "off"
  /\ client = "websocket" => poll = "none"
  /\ ws = "fresh" => client \in {"websocket", "gone"}
  /\ ws \in {"none", "fresh", "probe", "ponged"} => wl = "off"

Underway == IF Here THEN pollOut \o wlOut \o buf ELSE <<>>

LEMMA CarryInit == ASSUME MaxSends \in Nat, SessionInit PROVE CarryInv
BY DEF SessionInit, CarryInv, Here

LEMMA SendCarries ==
  ASSUME MaxSends \in Nat, CarryInv, Send
  PROVE  /\ CarryInv'
         /\ Here => \E msg \in Messages : Underway' = Append(Underway, msg)
         /\ ~Here => Underway' = Underway
         /\ got' = got /\ Here' = Here
<1>1. sent + 1 \in Messages /\ sent' \in 0 .. MaxSends
  BY DEF Send, CarryInv, Messages
<1>2. buf' = Append(buf, sent + 1) /\ UNCHANGED <<pollOut, wlOut, got, poll, wl, ws, client>>
  BY DEF Send
<1>3. Append(buf, sent + 1) \in Seq(Messages)
  BY <1>1, AppendProperties DEF CarryInv
<1>4. CarryInv'
  BY <1>1, <1>2, <1>3 DEF CarryInv, Here
<1>5. pollOut \o wlOut \o Append(buf, sent + 1) = Append(pollOut \o wlOut \o buf, sent + 1)
  <2> DEFINE p == pollOut \o wlOut
             x == <<sent + 1>>
  <2>1. p \in Seq(Messages)
    BY ConcatProperties DEF CarryInv
  <2>2. x \in Seq(Messages)
    BY <1>1
  <2> HIDE DEF p, x
  <2>3. p \o buf \in Seq(Messages)
    BY <2>1, ConcatProperties DEF CarryInv
  <2>4. Append(buf, sent + 1) = buf \o x
    BY <1>1, AppendIsConcat DEF CarryInv, x
  <2>5. Append(p \o buf, sent + 1) = (p \o buf) \o x
    BY <1>1, <2>3, AppendIsConcat DEF x
  <2>6. (p \o buf) \o x = p \o (buf \o x)
    <3>1. buf \in Seq(Messages)
      BY DEF CarryInv
    <3> QED
      BY <2>1, <2>2, <3>1, ConcatAssociative
  <2>7. p \o Append(buf, sent + 1) = Append(p \o buf, sent + 1)
    BY <2>4, <2>5, <2>6, Zenon
  <2> QED
    BY <2>7 DEF p
<1> QED
  BY <1>1, <1>2, <1>4, <1>5 DEF Underway, Here

\* A run of packets at the head of what is underway arrives.
Arrives(run, rest) ==
  /\ Underway = run \o rest /\ Underway' = rest
  /\ got' = got \o run

LEMMA DeliverRun ==
  ASSUME NEW run \in Seq(Messages), NEW rest \in Seq(Messages), run # <<>>,
         Arrives(run, rest)
  PROVE  \E n \in 1 .. Len(Underway) :
           /\ got' = got \o SubSeq(Underway, 1, n)
           /\ Underway' = SubSeq(Underway, n + 1, Len(Underway))
<1> DEFINE u == run \o rest
           n == Len(run)
<1>1. /\ u \in Seq(Messages)
      /\ Len(u) = n + Len(rest)
      /\ \A i \in 1 .. n + Len(rest) : u[i] = IF i <= n THEN run[i] ELSE rest[i - n]
  BY ConcatProperties
<1>2. n \in Nat /\ n > 0 /\ Len(rest) \in Nat
  BY EmptySeq, LenProperties
<1>3. \A i \in 1 .. Len(u) : u[i] \in Messages
  BY <1>1, ElementOfSeq
<1> HIDE DEF u, n
<1>4. SubSeq(u, 1, n) = run
  <2>1. /\ SubSeq(u, 1, n) \in Seq(Messages) /\ Len(SubSeq(u, 1, n)) = n
        /\ \A i \in 1 .. n : SubSeq(u, 1, n)[i] = u[i]
    <3>1. \A i \in 1 .. n : u[i] \in Messages
      BY <1>1, <1>2, <1>3
    <3>2. 1 \in Int /\ n \in Int /\ n - 1 + 1 = n /\ 1 <= n
      BY <1>2
    <3>3. /\ SubSeq(u, 1, n) \in Seq(Messages)
          /\ Len(SubSeq(u, 1, n)) = IF 1 <= n THEN n - 1 + 1 ELSE 0
          /\ \A i \in 1 .. n - 1 + 1 : SubSeq(u, 1, n)[i] = u[1 + i - 1]
      BY <3>1, <3>2, SubSeqProperties
    <3> QED
      BY <3>2, <3>3
  <2>2. \A i \in 1 .. n : SubSeq(u, 1, n)[i] = run[i]
    BY <1>1, <1>2, <2>1
  <2> QED
    BY <2>1, <2>2, SeqEqual DEF n
<1>5. SubSeq(u, n + 1, Len(u)) = rest
  <2>1. /\ SubSeq(u, n + 1, Len(u)) \in Seq(Messages)
        /\ Len(SubSeq(u, n + 1, Len(u))) = Len(rest)
        /\ \A i \in 1 .. Len(rest) : SubSeq(u, n + 1, Len(u))[i] = u[n + i]
    <3>1. \A i \in n + 1 .. Len(u) : u[i] \in Messages
      BY <1>2, <1>3
    <3>2. n + 1 \in Int /\ Len(u) \in Int
      BY <1>1, <1>2
    <3>3. /\ SubSeq(u, n + 1, Len(u)) \in Seq(Messages)
          /\ Len(SubSeq(u, n + 1, Len(u))) =
               IF n + 1 <= Len(u) THEN Len(u) - (n + 1) + 1 ELSE 0
          /\ \A i \in 1 .. Len(u) - (n + 1) + 1 :
               SubSeq(u, n + 1, Len(u))[i] = u[n + 1 + i - 1]
      BY <3>1, <3>2, SubSeqProperties
    <3>4. Len(u) - (n + 1) + 1 = Len(rest) /\ (n + 1 > Len(u) => Len(rest) = 0)
      BY <1>1, <1>2
    <3>5. \A i \in 1 .. Len(rest) : n + 1 + i - 1 = n + i
      BY <1>2
    <3> QED
      BY <1>2, <3>3, <3>4, <3>5
  <2>2. \A i \in 1 .. Len(rest) : SubSeq(u, n + 1, Len(u))[i] = rest[i]
    BY <1>1, <1>2, <2>1
  <2> QED
    BY <2>1, <2>2, SeqEqual
<1> QED
  <2>1. n \in 1 .. Len(u)
    BY <1>1, <1>2
  <2>2. Underway = u /\ Underway' = rest /\ got' = got \o run
    BY DEF Arrives, u
  <2> QED
    BY <1>4, <1>5, <2>1, <2>2

-------------------------------------------------------------------------------
\* What a step of a transport does to the channel: nothing, an arrival, or the end.
Rests  == Underway' = Underway /\ got' = got /\ (Here' <=> Here)
Moves  == Here /\ Here' /\ \E run, rest \in Seq(Messages) : run # <<>> /\ Arrives(run, rest)
Breaks == ~Here' /\ Underway' = <<>> /\ got' = got

Carried == Rests \/ Moves \/ Breaks

LEMMA GetCarries ==
  ASSUME CarryInv, Get \/ DrainNil
  PROVE  CarryInv' /\ Carried
<1>1. CarryInv'
  BY DEF Get, DrainNil, CarryInv, Here, signals
<1>2. Rests \/ Breaks
  BY DEF Get, DrainNil, Rests, Breaks, Underway, Here, signals
<1> QED
  BY <1>1, <1>2 DEF Carried

\* A poll takes the whole buffer, and nothing was before it.
LEMMA TakeAllCarries ==
  ASSUME CarryInv, TakeAll, poll \in {"drain", "wait"},
         UNCHANGED <<wl, wlOut, ws, client, sent, got>>
  PROVE  CarryInv' /\ Rests
<1>1. CarryInv'
  BY DEF CarryInv, TakeAll, Here
<1>2. ASSUME ~Here PROVE Rests
  BY <1>2 DEF Rests, Underway, Here, TakeAll
<1>3. ASSUME Here PROVE Rests
  <2>1. pollOut = <<>> /\ wlOut = <<>>
    BY <1>3 DEF CarryInv
  <2>2. <<>> \o <<>> \o buf = buf /\ buf \o <<>> \o <<>> = buf
    BY ConcatEmptySeq, EmptySeq DEF CarryInv
  <2>3. Underway' = Underway
    BY <1>3, <2>1, <2>2 DEF Underway, Here, TakeAll
  <2> QED
    BY <2>3 DEF Rests, Here
<1> QED
  BY <1>1, <1>2, <1>3

LEMMA DrainCarries ==
  ASSUME CarryInv, DrainNow \/ DrainWoken
  PROVE  CarryInv' /\ Carried
<1>1. CASE DrainNow /\ buf # <<>>
  BY <1>1, TakeAllCarries DEF DrainNow, Carried
<1>2. CASE DrainNow /\ buf = <<>>
  BY <1>2 DEF DrainNow, CarryInv, Carried, Rests, Underway, Here
<1>3. CASE DrainWoken
  BY <1>3, TakeAllCarries DEF DrainWoken, Carried
<1> QED
  BY <1>1, <1>2, <1>3

LEMMA AnswerCarries ==
  ASSUME CarryInv, Answer
  PROVE  CarryInv' /\ Carried
<1>1. /\ got' = (IF Here THEN got \o pollOut ELSE got)
      /\ poll = "answer" /\ poll' = "none" /\ pollOut' = <<>>
      /\ UNCHANGED <<buf, wlOut, wl, ws, client, sent>>
  BY DEF Answer
<1>2. got' \in Seq(Messages)
  BY <1>1, ConcatProperties DEF CarryInv
<1>3. CarryInv'
  BY <1>1, <1>2, EmptySeq DEF CarryInv, Here
<1>4. ASSUME ~Here PROVE Rests
  BY <1>1, <1>4 DEF Rests, Underway, Here
<1>5. ASSUME Here PROVE Rests \/ Moves
  <2>1. wlOut = <<>>
    BY <1>1, <1>5 DEF CarryInv
  <2>2. /\ pollOut \o <<>> \o buf = pollOut \o buf
        /\ <<>> \o <<>> \o buf = buf
    BY ConcatEmptySeq, EmptySeq DEF CarryInv
  <2>3. Underway = pollOut \o buf /\ Underway' = buf
    BY <1>1, <1>5, <2>1, <2>2 DEF Underway, Here
  <2>4. CASE pollOut = <<>>
    <3>1. got' = got /\ Underway = buf
      BY <1>1, <1>5, <2>3, <2>4, ConcatEmptySeq DEF CarryInv
    <3> QED
      BY <1>1, <2>3, <3>1 DEF Rests, Here
  <2>5. CASE pollOut # <<>>
    <3>1. Arrives(pollOut, buf)
      BY <1>1, <1>5, <2>3 DEF Arrives
    <3>2. Here' /\ pollOut \in Seq(Messages) /\ buf \in Seq(Messages)
      BY <1>1, <1>5 DEF Here, CarryInv
    <3> QED
      BY <1>5, <2>5, <3>1, <3>2, Zenon DEF Moves
  <2> QED
    BY <2>4, <2>5
<1> QED
  BY <1>3, <1>4, <1>5 DEF Carried

LEMMA ShakeCarries ==
  ASSUME CarryInv, OpenWebSocket \/ ShakeStep \/ ProbeFails
  PROVE  CarryInv' /\ Carried
<1>1. CASE OpenWebSocket \/ Pause \/ SendUpgrade
  BY <1>1 DEF OpenWebSocket, Pause, SendUpgrade, CarryInv, Carried, Rests, Underway, Here, signals
<1>2. CASE Probe \/ Upgrade \/ BindWebSocket
  <2>1. /\ UNCHANGED <<buf, poll, pollOut, wlOut, client, sent, got>>
        /\ wl = "off"
        /\ \/ ws' = "ponged" /\ wl' = wl
           \/ ws' = "reading" /\ wl' = "select" /\ client \in {"websocket", "gone"}
    BY <1>2 DEF Probe, Upgrade, BindWebSocket, CarryInv
  <2>2. Rests
    BY <2>1 DEF Rests, Underway, Here
  <2>3. CarryInv'
    BY <2>1 DEF CarryInv, Here
  <2> QED
    BY <2>2, <2>3 DEF Carried
<1>3. CASE ProbeFails
  BY <1>3 DEF ProbeFails, CarryInv, Carried, Rests, Breaks, Underway, Here, signals
<1> QED
  BY <1>1, <1>2, <1>3 DEF ShakeStep

LEMMA WriteTakeCarries ==
  ASSUME CarryInv, WriteTake
  PROVE  CarryInv' /\ Carried
<1>1. CarryInv'
  BY EmptySeq DEF WriteTake, CarryInv, Here
<1>2. ASSUME ~Here PROVE Rests
  BY <1>2 DEF WriteTake, Rests, Underway, Here
<1>3. ASSUME Here PROVE Rests
  <2>1. pollOut = <<>> /\ wlOut = <<>>
    BY <1>3 DEF WriteTake, CarryInv
  <2>2. <<>> \o <<>> \o buf = buf /\ <<>> \o buf \o <<>> = buf
    BY ConcatEmptySeq, EmptySeq DEF CarryInv
  <2>3. Underway' = Underway
    BY <1>3, <2>1, <2>2 DEF Underway, Here, WriteTake
  <2> QED
    BY <2>3 DEF Rests, Here, WriteTake
<1> QED
  BY <1>1, <1>2, <1>3 DEF Carried

LEMMA WriteNextCarries ==
  ASSUME CarryInv, WriteNext
  PROVE  CarryInv' /\ Carried
<1>1. CASE wlOut = <<>>
  BY <1>1 DEF WriteNext, CarryInv, Carried, Rests, Underway, Here, signals
<1>2. CASE wlOut # <<>>
  <2> DEFINE h == Head(wlOut)
             t == Tail(wlOut)
  <2>1. /\ wl = "write" /\ wlOut' = t
        /\ got' = (IF Here THEN Append(got, h) ELSE got)
        /\ UNCHANGED <<buf, poll, pollOut, ws, wl, client, sent>>
    BY <1>2 DEF WriteNext
  <2>2. h \in Messages /\ t \in Seq(Messages)
    BY <1>2, HeadTailProperties DEF CarryInv
  <2>3. Append(got, h) \in Seq(Messages) /\ Append(got, h) = got \o <<h>>
    BY <2>2, AppendProperties, AppendIsConcat DEF CarryInv
  <2>4. CarryInv'
    <3>1. got' \in Seq(Messages)
      BY <2>1, <2>3 DEF CarryInv
    <3> QED
      BY <2>1, <2>2, <3>1 DEF CarryInv, Here
  <2>5. ASSUME ~Here PROVE Rests
    BY <2>1, <2>5 DEF Rests, Underway, Here
  <2>6. ASSUME Here PROVE Moves
    <3>1. pollOut = <<>>
      BY <2>1, <2>6 DEF CarryInv
    <3>2. wlOut = <<h>> \o t
      <4>1. /\ Len(wlOut) \in Nat \ {0} /\ 1 \in 1 .. Len(wlOut)
            /\ Len(wlOut) \in 1 .. Len(wlOut)
        BY <1>2, EmptySeq DEF CarryInv
      <4>2. SubSeq(wlOut, 1, Len(wlOut)) = <<wlOut[1]>> \o SubSeq(wlOut, 1 + 1, Len(wlOut))
        BY <4>1, SubSeqRecursiveFirst DEF CarryInv
      <4>3. SubSeq(wlOut, 1, Len(wlOut)) = wlOut
        BY SubSeqFull DEF CarryInv
      <4>4. t = SubSeq(wlOut, 2, Len(wlOut))
        BY <1>2, TailIsSubSeq DEF CarryInv
      <4>5. h = wlOut[1]
        BY <1>2 DEF CarryInv
      <4> QED
        BY <4>2, <4>3, <4>4, <4>5
    <3>3. t \o buf \in Seq(Messages) /\ <<h>> \in Seq(Messages) /\ <<h>> # <<>>
      BY <2>2, ConcatProperties DEF CarryInv
    <3>4. (<<h>> \o t) \o buf = <<h>> \o (t \o buf)
      BY <2>2, <3>3, ConcatAssociative DEF CarryInv
    <3>5. <<>> \o wlOut = wlOut /\ <<>> \o t = t
      BY <2>2, ConcatEmptySeq DEF CarryInv
    <3>6. Underway = <<h>> \o (t \o buf) /\ Underway' = t \o buf
      BY <2>1, <2>6, <3>1, <3>2, <3>4, <3>5 DEF Underway, Here
    <3>7. Arrives(<<h>>, t \o buf)
      BY <2>1, <2>3, <2>6, <3>6 DEF Arrives
    <3>8. Here'
      BY <2>1, <2>6 DEF Here
    <3> QED
      BY <2>6, <3>3, <3>7, <3>8, Zenon DEF Moves
  <2> QED
    BY <2>4, <2>5, <2>6 DEF Carried
<1> QED
  BY <1>1, <1>2

LEMMA OthersCarry ==
  ASSUME CarryInv,
         WriteClosed \/ WriteFails \/ ReadEnds \/ HandlePacket \/ ClientLeaves \/ Tick
           \/ UNCHANGED sessionVars
  PROVE  CarryInv' /\ Carried
<1>1. CASE WriteClosed \/ WriteFails
  BY <1>1 DEF WriteClosed, WriteFails, CarryInv, Carried, Rests, Breaks, Underway, Here, signals
<1>2. CASE ReadEnds \/ HandlePacket \/ Tick
  BY <1>2 DEF ReadEnds, HandlePacket, Tick, CarryInv, Carried, Rests, Breaks, Underway, Here, signals
<1>3. CASE ClientLeaves
  BY <1>3 DEF ClientLeaves, CarryInv, Carried, Rests, Breaks, Underway, Here, signals
<1>4. CASE UNCHANGED sessionVars
  BY <1>4 DEF sessionVars, CarryInv, Carried, Rests, Breaks, Underway, Here, signals
<1> QED
  BY <1>1, <1>2, <1>3, <1>4

LEMMA NextCarries ==
  ASSUME CarryInv, [SessionNext]_sessionVars, ~Send
  PROVE  CarryInv' /\ Carried
BY GetCarries, DrainCarries, AnswerCarries, ShakeCarries, WriteTakeCarries,
   WriteNextCarries, OthersCarry DEF SessionNext, PollStep, WriteStep

LEMMA CarryNext ==
  ASSUME MaxSends \in Nat
  PROVE  CarryInv /\ [SessionNext]_sessionVars => CarryInv'
<1>1. ASSUME CarryInv, Send PROVE CarryInv'
  BY <1>1, SendCarries
<1>2. ASSUME CarryInv, [SessionNext]_sessionVars, ~Send PROVE CarryInv'
  BY <1>2, NextCarries
<1> QED
  BY <1>1, <1>2

\* For any number of messages, a session is the channel of MessageChannel: what Send
\* accepts reaches the client in order, each once, over polling, the upgrade and the
\* WebSocket, until the client goes.  (session.go, Drain, UpgradeToWebSocket;
\* websocket.go, wsWriteLoop.)
THEOREM SessionIsAChannel ==
  ASSUME MaxSends \in Nat
  PROVE  SessionSpec => ImplementsChannel
<1>1. SessionInit => CarryInv /\ Underway = <<>> /\ got = <<>> /\ Here = TRUE
  <2> SUFFICES ASSUME SessionInit PROVE Underway = <<>> /\ got = <<>> /\ Here = TRUE
    BY CarryInit
  <2>1. <<>> \o <<>> \o <<>> = <<>>
    BY ConcatEmptySeq, EmptySeq
  <2> QED
    BY <2>1 DEF SessionInit, Underway, Here
<1>2. CarryInv /\ [SessionNext]_sessionVars => CarryInv' /\ [Channel!Next]_<<Underway, got, Here>>
  <2> SUFFICES ASSUME CarryInv, [SessionNext]_sessionVars
               PROVE  CarryInv' /\ [Channel!Next]_<<Underway, got, Here>>
    OBVIOUS
  <2>1. CASE Send
    BY <2>1, SendCarries DEF Channel!Next, Channel!Accept, Underway
  <2>2. CASE ~Send
    <3>1. CarryInv' /\ Carried
      BY <2>2, NextCarries
    <3>2. CASE Rests
      <4>1. Here' = Here
        BY <3>2 DEF Rests, Here
      <4> QED
        BY <3>1, <3>2, <4>1 DEF Rests
    <3>3. CASE Moves
      <4>1. \E n \in 1 .. Len(Underway) :
              /\ got' = got \o SubSeq(Underway, 1, n)
              /\ Underway' = SubSeq(Underway, n + 1, Len(Underway))
        BY <3>3, DeliverRun DEF Moves
      <4>2. Here' = Here
        BY <3>3 DEF Moves, Here
      <4> QED
        BY <3>1, <3>3, <4>1, <4>2 DEF Moves, Channel!Next, Channel!Deliver, Underway
    <3>4. CASE Breaks
      <4>1. Here' = FALSE
        BY <3>4 DEF Breaks, Here
      <4> QED
        BY <3>1, <3>4, <4>1 DEF Breaks, Channel!Next, Channel!Break, Underway
    <3> QED
      BY <3>1, <3>2, <3>3, <3>4 DEF Carried
  <2> QED
    BY <2>1, <2>2
<1>3. Underway = <<>> /\ got = <<>> /\ Here = TRUE => Channel!Init
  BY DEF Channel!Init, Underway
<1> QED
  BY <1>1, <1>2, <1>3, PTL DEF SessionSpec, ImplementsChannel, Channel!Spec, Underway

-------------------------------------------------------------------------------
\* The types of a session, its two channels and the places of its goroutines: no
\* sequence of requests, frames and ticks takes one of them off its path.
\* (session.go, websocket.go, server.go.)
THEOREM SessionTypeCorrect ==
  ASSUME MaxSends \in Nat
  PROVE  SessionSpec => []SessionTypeOK
<1>1. SessionInit => SessionTypeOK
  <2>1. <<>> \in Seq(Messages)
    BY EmptySeq
  <2> SUFFICES ASSUME SessionInit PROVE SessionTypeOK
    OBVIOUS
  <2>2. /\ buf \in Seq(Messages) /\ pollOut \in Seq(Messages) /\ wlOut \in Seq(Messages)
        /\ got \in Seq(Messages)
    BY <2>1 DEF SessionInit
  <2>3. /\ closed \in BOOLEAN /\ bound \in BOOLEAN /\ upgrading \in BOOLEAN
        /\ recvSig \in BOOLEAN /\ wsSig \in BOOLEAN /\ listed \in BOOLEAN
    BY DEF SessionInit
  <2>4. sent \in 0 .. MaxSends /\ idle \in 0 .. 2
    BY DEF SessionInit
  <2> QED
    BY <2>2, <2>3, <2>4 DEF SessionInit, SessionTypeOK
<1>2. SessionTypeOK /\ CarryInv' /\ [SessionNext]_sessionVars => SessionTypeOK'
  <2> SUFFICES ASSUME SessionTypeOK, CarryInv', [SessionNext]_sessionVars
               PROVE  SessionTypeOK'
    OBVIOUS
  <2>1. /\ buf' \in Seq(Messages) /\ pollOut' \in Seq(Messages) /\ wlOut' \in Seq(Messages)
        /\ got' \in Seq(Messages) /\ sent' \in 0 .. MaxSends
    BY DEF CarryInv
  <2> DEFINE Flags ==
        /\ closed \in BOOLEAN /\ bound \in BOOLEAN /\ upgrading \in BOOLEAN
        /\ recvSig \in BOOLEAN /\ wsSig \in BOOLEAN /\ listed \in BOOLEAN
        Places ==
        /\ idle \in 0 .. 2
        /\ poll \in {"none", "drain", "wait", "answer"}
        /\ ws \in {"none", "fresh", "probe", "ponged", "reading", "done"}
        /\ wl \in {"off", "select", "write", "done"}
        /\ client \in {"polling", "probing", "paused", "websocket", "gone"}
  <2>2. Flags /\ Places
    BY DEF SessionTypeOK
  <2>3. CASE Send \/ UNCHANGED sessionVars
    <3>1. Flags'
      BY <2>2, <2>3 DEF Send, SignalSend, sessionVars, signals
    <3>2. Places'
      BY <2>2, <2>3 DEF Send, SignalSend, sessionVars, signals
    <3> QED
      BY <2>1, <3>1, <3>2 DEF SessionTypeOK
  <2>4. CASE PollStep \/ DrainNil
    <3>1. Flags'
      BY <2>2, <2>4 DEF PollStep, Get, DrainNow, DrainWoken, DrainNil, Answer, TakeAll, signals
    <3>2. Places'
      BY <2>2, <2>4 DEF PollStep, Get, DrainNow, DrainWoken, DrainNil, Answer, TakeAll, signals
    <3> QED
      BY <2>1, <3>1, <3>2 DEF SessionTypeOK
  <2>5. CASE OpenWebSocket \/ ShakeStep \/ ProbeFails
    <3>1. Flags'
      BY <2>2, <2>5 DEF OpenWebSocket, ShakeStep, Probe, Pause, SendUpgrade, Upgrade,
                        BindWebSocket, ProbeFails, signals
    <3>2. Places'
      BY <2>2, <2>5 DEF OpenWebSocket, ShakeStep, Probe, Pause, SendUpgrade, Upgrade,
                        BindWebSocket, ProbeFails, signals
    <3> QED
      BY <2>1, <3>1, <3>2 DEF SessionTypeOK
  <2>6. CASE WriteStep \/ WriteFails \/ ReadEnds
    <3>1. Flags'
      BY <2>2, <2>6 DEF WriteStep, WriteTake, WriteNext, WriteClosed, WriteFails, ReadEnds,
                        signals
    <3>2. Places'
      BY <2>2, <2>6 DEF WriteStep, WriteTake, WriteNext, WriteClosed, WriteFails, ReadEnds,
                        signals
    <3> QED
      BY <2>1, <3>1, <3>2 DEF SessionTypeOK
  <2>7. CASE HandlePacket \/ ClientLeaves
    <3>1. Flags'
      BY <2>2, <2>7 DEF HandlePacket, ClientLeaves, signals
    <3>2. Places'
      BY <2>2, <2>7 DEF HandlePacket, ClientLeaves, signals
    <3> QED
      BY <2>1, <3>1, <3>2 DEF SessionTypeOK
  <2>8. CASE Tick
    <3>1. Flags'
      BY <2>2, <2>8 DEF Tick, SignalSend, signals
    <3>2. idle' \in 0 .. 2
      <4>1. idle' = idle \/ (idle + 1 < 3 /\ idle' = idle + 1)
        BY <2>8 DEF Tick, signals
      <4> QED
        BY <2>2, <4>1
    <3>3. UNCHANGED <<poll, ws, wl, client>>
      BY <2>8 DEF Tick
    <3>4. Places'
      BY <2>2, <3>2, <3>3
    <3> QED
      BY <2>1, <3>1, <3>4 DEF SessionTypeOK
  <2> QED
    BY <2>3, <2>4, <2>5, <2>6, <2>7, <2>8 DEF SessionNext
<1>3. SessionSpec => []CarryInv
  BY CarryInit, CarryNext, PTL DEF SessionSpec
<1> QED
  BY <1>1, <1>2, <1>3, PTL DEF SessionSpec

-------------------------------------------------------------------------------
(* Shutdown.                                                               *)

AtSessions == {"sessions", "redis", "http", "draining", "done"}

\* Where the shutdown stands says which engines have ended: it is past the Stop of
\* an engine only if that Stop has seen the end of its loop.  An ended loop has no
\* step of its own.
EndedInv ==
  /\ pc \in Loops \cup {"waiting"} \cup AtSessions
  /\ loop \in [Loops -> {"idle", "pass", "ended"}]
  /\ pc \in AtSessions \cup {"cleanup"} => loop["progression"] = "ended"
  /\ pc \in AtSessions => loop["cleanup"] = "ended"
  /\ ~redis => pc \in {"http", "draining", "done"}

LEMMA EndedInit == ShutdownInit => EndedInv
BY DEF ShutdownInit, EndedInv, Loops, AtSessions

LEMMA LoopsKeep ==
  ASSUME EndedInv, NEW l \in Loops, Pass(l) \/ PassEnds(l) \/ LoopEnds(l)
  PROVE  EndedInv'
<1>1. pc' = pc /\ redis' = redis
  BY DEF Pass, PassEnds, LoopEnds, shutdown
<1>2. loop' \in [Loops -> {"idle", "pass", "ended"}]
  BY DEF EndedInv, Pass, PassEnds, LoopEnds
<1>3. \A m \in Loops : loop[m] = "ended" => loop'[m] = "ended"
  BY DEF EndedInv, Pass, PassEnds, LoopEnds
<1> QED
  BY <1>1, <1>2, <1>3 DEF EndedInv, Loops

LEMMA GoroutineKeeps == EndedInv /\ Goroutine => EndedInv'
<1> SUFFICES ASSUME EndedInv, Goroutine
             PROVE  EndedInv'
  OBVIOUS
<1>1. CASE \E l \in Loops : Tell(l)
  BY <1>1 DEF Tell, EndedInv
<1>2. ASSUME NEW l \in Loops, Stop(l)
      PROVE  EndedInv'
  BY <1>2 DEF Stop, Awaited, After, EndedInv, Loops, AtSessions
<1>3. CASE CloseSessions \/ CloseRedis \/ CloseListener \/ Drained
  BY <1>3 DEF CloseSessions, CloseRedis, CloseListener, Drained, EndedInv, Loops, AtSessions
<1> QED
  BY <1>1, <1>2, <1>3 DEF Goroutine

LEMMA EndedNext == EndedInv /\ [ShutdownNext]_shutdownVars => EndedInv'
<1> SUFFICES ASSUME EndedInv, [ShutdownNext]_shutdownVars
             PROVE  EndedInv'
  OBVIOUS
<1>1. CASE \E l \in Loops : Pass(l) \/ PassEnds(l) \/ LoopEnds(l)
  BY <1>1, LoopsKeep
<1>2. CASE Signal
  BY <1>2 DEF Signal, EndedInv, Loops, AtSessions
<1>3. CASE Goroutine
  BY <1>3, GoroutineKeeps
<1>4. CASE Exit
  BY <1>4 DEF Exit, shutdown, EndedInv
<1>5. ASSUME NEW r \in HttpRequests, Arrive(r) \/ Store(r) \/ Index(r) \/ Fails(r)
      PROVE  EndedInv'
  BY <1>5 DEF Arrive, Store, Index, Fails, RequestStep, shutdown, EndedInv
<1>6. CASE UNCHANGED shutdownVars
  BY <1>6 DEF shutdownVars, shutdown, EndedInv
<1> QED
  BY <1>1, <1>2, <1>3, <1>4, <1>5, <1>6 DEF ShutdownNext

-------------------------------------------------------------------------------
\* Redis is closed only when no engine can start another pass, whatever the loops
\* were doing when the signal came.  (server.go:97-102.)
THEOREM EnginesBeforeRedis == ShutdownSpec => []EnginesEndFirst
<1>1. EndedInv => EnginesEndFirst
  BY DEF EndedInv, EnginesEndFirst, UsesRedis, AtSessions
<1> QED
  BY <1>1, EndedInit, EndedNext, PTL DEF ShutdownSpec

===============================================================================
