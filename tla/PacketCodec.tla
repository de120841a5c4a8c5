----------------------------- MODULE PacketCodec -----------------------------
(***************************************************************************)
(* Socket.IO packets and their frames (server/pkg/socketio/packet.go), and *)
(* the polling payload that joins Engine.IO packets                        *)
(* (server/pkg/engineio/packet.go).                                        *)
(*                                                                         *)
(* A JSON value is a function from the paths of its leaves to the leaves,  *)
(* so that an array of values is a value whose paths begin with an index.  *)
(* A leaf is text (any JSON scalar), a []byte, or a placeholder object.    *)
(* Binary data is numbered in the order in which the walk meets it; the    *)
(* order among the keys of a Go map is not determined.                     *)
(*                                                                         *)
(* A text frame is a sequence of tokens: the digits one by one, a dash, a  *)
(* comma, a namespace and a JSON value.                                    *)
(***************************************************************************)
EXTENDS Integers, FiniteSetsExt, SequencesExt

CONSTANTS MaxAttachments, MaxJSONDepth

CONNECT == 0
DISCONNECT == 1
EVENT == 2
ACK == 3
CONNECT_ERROR == 4
BINARY_EVENT == 5
BINARY_ACK == 6

Nil == <<>>                                   \* Data == nil: no leaves
Text(v)  == [kind |-> "text", v |-> v]
Bytes(b) == [kind |-> "bytes", v |-> b]
Hole(n)  == [kind |-> "hole", v |-> n]        \* {"_placeholder":true,"num":n}

IsBinary(p)  == p.type \in {BINARY_EVENT, BINARY_ACK}
BytesIn(tree) == {path \in DOMAIN tree : tree[path].kind = "bytes"}

-------------------------------------------------------------------------------
(* Values.                                                                 *)

\* A value that is a leaf itself, and an object of one field.
Scalar(leaf)      == [path \in {<<>>} |-> leaf]
Field(name, leaf) == [path \in {<<name>>} |-> leaf]

\* The JSON array of the given values.
Array(values) ==
  LET paths == UNION {{<<i>> \o p : p \in DOMAIN values[i]} : i \in DOMAIN values}
  IN  [p \in paths |-> values[Head(p)][Tail(p)]]

\* deconstructNode: every []byte in its turn makes place for a placeholder.  An order
\* of the walk is a numbering of the []byte leaves.
Numberings(tree) ==
  LET n == Cardinality(BytesIn(tree))
  IN  {f \in [BytesIn(tree) -> 0 .. n - 1] : \A p, q \in BytesIn(tree) : f[p] = f[q] => p = q}

Deconstruct(tree, num) ==
  [p \in DOMAIN tree |-> IF p \in BytesIn(tree) THEN Hole(num[p]) ELSE tree[p]]

Buffers(tree, num) ==
  [i \in 1 .. Cardinality(BytesIn(tree)) |->
     tree[CHOOSE p \in BytesIn(tree) : num[p] = i - 1].v]

\* reconstructNode leaves a placeholder out of range as it is.
Reconstruct(tree, payloads) ==
  [p \in DOMAIN tree |->
     IF tree[p].kind = "hole" /\ tree[p].v \in 0 .. Len(payloads) - 1
     THEN Bytes(payloads[tree[p].v + 1]) ELSE tree[p]]

-------------------------------------------------------------------------------
(* Packets.                                                                *)

Packet(type, ns, id, data, payloads) ==
  [type |-> type, ns |-> IF ns = "" THEN "/" ELSE ns, id |-> id, data |-> data,
   attachments |-> Len(payloads), payloads |-> payloads]

NewEventPackets_Nested(ns, event, id, args) ==
  LET tree == Array(<<Scalar(Text(event)), Array(args)>>) IN
  {Packet(EVENT, ns, id, Deconstruct(tree, num), Buffers(tree, num)) : num \in Numberings(tree)}

\* NewEventPacket and NewBinaryEventPacket: [event, args...].
NewEventPackets(ns, event, id, args) ==
  LET tree == Array(<<Scalar(Text(event))>> \o args) IN
  IF BytesIn(tree) = {} THEN {Packet(EVENT, ns, id, tree, <<>>)}
  ELSE {Packet(BINARY_EVENT, ns, id, Deconstruct(tree, num), Buffers(tree, num)) :
          num \in Numberings(tree)}

\* NewAckPacket and NewBinaryAckPacket; no data at all for no arguments.
NewAckPackets(ns, id, args) ==
  LET tree == Array(args) IN
  IF BytesIn(tree) = {} THEN {Packet(ACK, ns, id, tree, <<>>)}
  ELSE {Packet(BINARY_ACK, ns, id, Deconstruct(tree, num), Buffers(tree, num)) :
          num \in Numberings(tree)}

\* What a CONNECT packet and a CONNECT_ERROR packet carry, an object of one field.
NewConnectPacket(ns, sid) == Packet(CONNECT, ns, -1, Field("sid", Text(sid)), <<>>)
NewConnectErrorPacket(ns, message) ==
  Packet(CONNECT_ERROR, ns, -1, Field("message", Text(message)), <<>>)

AddAttachment(p, buffer) ==
  IF IsBinary(p) THEN [p EXCEPT !.payloads = Append(@, buffer)] ELSE p

IsComplete_AnyCount(p) == IsBinary(p) => p.payloads # <<>> \/ p.attachments = 0
IsComplete(p) == IsBinary(p) => Len(p.payloads) >= p.attachments

ReconstructedData(p) ==
  IF IsBinary(p) /\ IsComplete(p) THEN Reconstruct(p.data, p.payloads) ELSE p.data

\* Defined for an event with a name, else an error.
HasName(data) == <<1>> \in DOMAIN data /\ data[<<1>>].kind = "text"
EventName(data) == data[<<1>>].v
EventArgs(data) ==
  LET paths == {p \in DOMAIN data : Head(p) > 1}
      last  == IF paths = {} THEN 1 ELSE Max({Head(p) : p \in paths})
  IN  [i \in 1 .. last - 1 |->
         [q \in {Tail(p) : p \in {p \in paths : Head(p) = i + 1}} |-> data[<<i + 1>> \o q]]]

-------------------------------------------------------------------------------
(* Frames.                                                                 *)

Token(k, v) == [k |-> k, v |-> v]

Digits(n) ==                                  \* strconv.Itoa
  LET digits[k \in 0 .. n] ==
        IF k < 10 THEN <<Token("digit", k)>>
                  ELSE Append(digits[k \div 10], Token("digit", k % 10))
  IN  digits[n]

Encode(p) ==
  Digits(p.type)
  \o (IF IsBinary(p) THEN Digits(p.attachments) \o <<Token("dash", 0)>> ELSE <<>>)
  \o (IF p.ns # "/" THEN <<Token("ns", p.ns), Token("comma", 0)>> ELSE <<>>)
  \o (IF p.id >= 0 THEN Digits(p.id) ELSE <<>>)
  \o (IF p.data # Nil THEN <<Token("json", p.data)>> ELSE <<>>)

Depth(data) ==                                \* a placeholder is an object itself
  IF data = Nil THEN 0
  ELSE Max({Len(p) + (IF data[p].kind = "hole" THEN 1 ELSE 0) : p \in DOMAIN data})

Bad == Packet(-1, "/", -1, Nil, <<>>)         \* Decode returns an error

\* The first position from pos where the frame has a token of kind k, or does not
\* have one (strings.IndexByte, and the loop over the digits of the id).
IndexOf(f, k, pos)  == Min({i \in pos .. Len(f) : f[i].k = k} \union {Len(f) + 1})
IndexNot(f, k, pos) == Min({i \in pos .. Len(f) : f[i].k # k} \union {Len(f) + 1})
Value(f, from, to) ==                         \* strconv.Atoi
  LET value[i \in from - 1 .. to] == IF i < from THEN 0 ELSE 10 * value[i - 1] + f[i].v
  IN  value[to]

Decode(f) ==
  LET binary == f[1].v \in {BINARY_EVENT, BINARY_ACK}
      dash   == IndexOf(f, "dash", 2)
      start  == IF binary THEN dash + 1 ELSE 2
      hasNs  == start <= Len(f) /\ f[start].k = "ns"
      comma  == IndexOf(f, "comma", start)        \* none: nothing follows the namespace
      idAt   == IF hasNs THEN comma + 1 ELSE start
      data   == IndexNot(f, "digit", idAt)
      counted == dash <= Len(f) /\ dash > 2 /\ IndexNot(f, "digit", 2) = dash
                 /\ Value(f, 2, dash - 1) <= MaxAttachments
  IN  IF \/ f = <<>>
         \/ f[1].k # "digit" \/ f[1].v > BINARY_ACK
         \/ binary /\ ~counted
         \/ data <= Len(f) /\ (data < Len(f) \/ f[data].k # "json")
         \/ data <= Len(f) /\ Depth(f[data].v) > MaxJSONDepth
      THEN Bad
      ELSE [type |-> f[1].v, ns |-> IF ~hasNs THEN "/" ELSE
                    IF comma > Len(f) /\ start < Len(f) THEN "unknown" ELSE f[start].v,
            id   |-> IF data > idAt THEN Value(f, idAt, data - 1) ELSE -1,
            data |-> IF data <= Len(f) THEN f[data].v ELSE Nil,
            attachments |-> IF binary THEN Value(f, 2, dash - 1) ELSE 0,
            payloads |-> <<>>]

\* EncodePayload and DecodePayload of Engine.IO packets: joined by \x1e, split there.
Sep == Token("sep", 0)

EncodePayload(frames) ==
  LET joined[n \in 0 .. Len(frames)] ==
        IF n = 0 THEN <<>>
        ELSE joined[n - 1] \o (IF n = 1 THEN <<>> ELSE <<Sep>>) \o frames[n]
  IN  joined[Len(frames)]

DecodePayload(s) ==
  LET split[n \in 0 .. Len(s)] ==
        IF n = 0 THEN << <<>> >>
        ELSE LET parts == split[n - 1] IN
             IF s[n].k = "sep" THEN Append(parts, <<>>)
             ELSE [parts EXCEPT ![Len(parts)] = Append(@, s[n])]
  IN  IF s = <<>> THEN <<>> ELSE split[Len(s)]

===============================================================================
