---------------------------- MODULE PacketTransfer ----------------------------
(***************************************************************************)
(* Packets on their way: built, encoded, buffered, carried by a polling    *)
(* payload or by WebSocket frames, decoded and put together again          *)
(* (server/pkg/socketio/packet.go over server/pkg/engineio/packet.go).     *)
(* The receiver collects attachments as the comments of AddAttachment and  *)
(* ReconstructedData ask of their caller; the server has no such caller,   *)
(* it dispatches the text frame alone.                                     *)
(***************************************************************************)
EXTENDS PacketCodec

CONSTANTS
  Messages,         \* what is sent: [kind, ns, id, name, args]
  MaxTransfers      \* bound

Build(m) ==
  CASE m.kind = "event"   -> NewEventPackets(m.ns, m.name, m.id, m.args)
    [] m.kind = "ack"     -> NewAckPackets(m.ns, m.id, m.args)
    [] m.kind = "connect" -> {NewConnectPacket(m.ns, m.name)}
    [] m.kind = "refusal" -> {NewConnectErrorPacket(m.ns, m.name)}

\* A JSON value: a leaf at the end of each path, and one leaf at least.
IsSequence(s) == s \in Seq({s[i] : i \in DOMAIN s})
IsLeaf(leaf)  == leaf \in {Text(leaf.v), Bytes(leaf.v), Hole(leaf.v)}
IsValue(v) ==
  /\ v = [path \in DOMAIN v |-> v[path]] /\ IsFiniteSet(DOMAIN v) /\ DOMAIN v # {}
  /\ \A path \in DOMAIN v : IsSequence(path) /\ IsLeaf(v[path])

\* Messages are made of values, and within the limits of Decode.
ASSUME TransferAssumption ==
  \A m \in Messages :
    /\ m.kind \in {"event", "ack", "connect", "refusal"}
    /\ m.ns # "" /\ m.id \in (IF m.kind \in {"event", "ack"} THEN Nat \union {-1} ELSE {-1})
    /\ m.kind \in {"event", "ack"} =>
         IsSequence(m.args) /\ \A i \in DOMAIN m.args : IsValue(m.args[i])
    /\ \A p \in Build(m) : p.attachments <= MaxAttachments /\ ~(Depth(p.data) > MaxJSONDepth)

VARIABLES
  emitted,          \* history: messages sent
  buffer,           \* frames in the send buffer
  frames,           \* frames that arrived
  packet,           \* the packet being received, or Bad
  received          \* history: packets received in full

transferVars == <<emitted, buffer, frames, packet, received>>

TransferInit ==
  emitted = <<>> /\ buffer = <<>> /\ frames = <<>> /\ packet = Bad /\ received = <<>>

\* EncodeBinary: the text frame and the attachments, which only a WebSocket carries.
EncodeBinary(p) ==
  <<Encode(p)>> \o [i \in DOMAIN p.payloads |-> <<Token("buffer", p.payloads[i])>>]

Emit(m) ==
  /\ Len(emitted) < MaxTransfers
  /\ \E p \in Build(m) : buffer' = buffer \o EncodeBinary(p)
  /\ emitted' = Append(emitted, m)
  /\ UNCHANGED <<frames, packet, received>>

IsText(f) == f[1].k # "buffer"

Poll ==
  /\ buffer # <<>> /\ \A i \in DOMAIN buffer : IsText(buffer[i])
  /\ frames' = frames \o DecodePayload(EncodePayload(buffer))
  /\ buffer' = <<>>
  /\ UNCHANGED <<emitted, packet, received>>

WriteFrames ==
  /\ buffer # <<>>
  /\ frames' = frames \o buffer /\ buffer' = <<>>
  /\ UNCHANGED <<emitted, packet, received>>

Collect(p) ==
  /\ frames' = Tail(frames)
  /\ IF IsComplete(p) THEN packet' = Bad /\ received' = Append(received, p)
                      ELSE packet' = p /\ UNCHANGED received
  /\ UNCHANGED <<emitted, buffer>>

ReceiveText ==
  /\ frames # <<>> /\ IsText(Head(frames)) /\ Collect(Decode(Head(frames)))

ReceiveAttachment ==
  /\ frames # <<>> /\ ~IsText(Head(frames)) /\ Collect(AddAttachment(packet, Head(frames)[1].v))

TransferNext ==
  \/ \E m \in Messages : Emit(m)
  \/ Poll \/ WriteFrames \/ ReceiveText \/ ReceiveAttachment

TransferSpec == TransferInit /\ [][TransferNext]_transferVars

-------------------------------------------------------------------------------
\* Two arrays agree where the sender's has no object that looks like a placeholder.
SameValues(a, b) ==
  /\ DOMAIN a = DOMAIN b
  /\ \A p \in DOMAIN a : a[p].kind # "hole" => a[p] = b[p]

Original(m) ==
  CASE m.kind = "event"   -> Array(<<Scalar(Text(m.name))>> \o m.args)
    [] m.kind = "ack"     -> Array(m.args)
    [] m.kind = "connect" -> Field("sid", Text(m.name))
    [] m.kind = "refusal" -> Field("message", Text(m.name))

TypesOf(m) == CASE m.kind = "event"   -> {EVENT, BINARY_EVENT}
                [] m.kind = "ack"     -> {ACK, BINARY_ACK}
                [] m.kind = "connect" -> {CONNECT}
                [] m.kind = "refusal" -> {CONNECT_ERROR}

\* The packets received are those sent, in their order, with their kind, namespace,
\* id and values, whatever the order in which binary data was numbered; none is
\* handed on before its last attachment.
\* (Encode and Decode, deconstructNode and reconstructNode, IsComplete.)
Reassembled ==
  \A i \in DOMAIN received :
    LET m == emitted[i]  p == received[i] IN
    /\ p.type \in TypesOf(m)
    /\ p.ns = m.ns /\ p.id = m.id
    /\ SameValues(Original(m), ReconstructedData(p))

\* The handler of an event without binary data gets the name and the arguments that
\* the sender gave.  (NewEventPacket, EventName and EventArgs.)
HandlersGetArguments ==
  \A i \in DOMAIN received :
    LET m == emitted[i]  p == received[i] IN
    p.type = EVENT =>
      /\ HasName(p.data) /\ EventName(p.data) = m.name
      /\ EventArgs(p.data) = m.args

===============================================================================
