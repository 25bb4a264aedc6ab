------------------------------- MODULE Frame -------------------------------
(***************************************************************************)
(* The codec of drift-core/src/wisp/frame.rs, with the codes of types.rs.  *)
(* A packet is [type, id, body]; a byte is a number.  One step decodes a   *)
(* message of the transport, header and payload.                           *)
(***************************************************************************)
EXTENDS ByteStream

CONSTANTS
  Packets,  \* bound: the packets that are encoded
  Noise     \* bound: the bytes that one byte of a packet may become

PacketType == [Connect |-> 1, Data |-> 2, Continue |-> 3, Close |-> 4,
               Info |-> 5]
StreamType == [Tcp |-> 1, Udp |-> 2]
CloseReasons == (1..4) \cup {65, 66, 67, 68, 71, 72, 73, 129, 192, 193, 194}
Version == <<2, 1>>

HeaderLen == 5

(* Little-endian numbers.  Mutant: the bytes the other way round.          *)
Swapped(n) == <<(n \div 256) % 256, n % 256>>
Bytes2(n) == <<n % 256, (n \div 256) % 256>>
Bytes4(n) == Bytes2(n) \o Bytes2(n \div 65536)
U16(b) == b[1] + 256 * b[2]
U32(b) == U16(b) + 65536 * U16(From(b, 3))

Reason(b) == IF b \in CloseReasons THEN [named |-> b] ELSE [unknown |-> b]
Code(reason) ==
  IF "named" \in DOMAIN reason THEN reason.named ELSE reason.unknown

-----------------------------------------------------------------------------
(* Encoding.                                                               *)
EncodeExtension(x) ==
  <<x.id>> \o Bytes4(Len(x.metadata)) \o x.metadata

EncodeBody(type, body) ==
  CASE type = "Connect" -> <<StreamType[body.stream]>>
                           \o Bytes2(body.port) \o body.host
    [] type = "Data" -> body
    [] type = "Continue" -> Bytes4(body)
    [] type = "Close" -> <<Code(body)>>
    [] type = "Info" -> Version \o FlattenSeq(
         [n \in 1..Len(body.extensions) |-> EncodeExtension(body.extensions[n])])

Encode(p) ==
  <<PacketType[p.type]>> \o Bytes4(p.id) \o EncodeBody(p.type, p.body)

-----------------------------------------------------------------------------
(* Decoding.                                                               *)
Ok(v) == [ok |-> TRUE, value |-> v]
Err(e) == [ok |-> FALSE, error |-> e]

Named(codes, b) == {name \in DOMAIN codes : codes[name] = b}
The(names) == CHOOSE name \in names : TRUE

Utf8(bytes) == \A n \in 1..Len(bytes) : bytes[n] < 128

DecodeConnect(b) ==
  CASE Len(b) < 3 -> Err("TooShort")
    [] Len(b) >= 3 /\ Named(StreamType, b[1]) = {} -> Err("UnknownStreamType")
    [] Len(b) >= 3 /\ Named(StreamType, b[1]) # {} ->
         IF ~Utf8(From(b, 4)) THEN Err("InvalidHostname")
         ELSE Ok([stream |-> The(Named(StreamType, b[1])),
                  port |-> U16(SubSeq(b, 2, 3)), host |-> From(b, 4)])

(* The extensions from the i-th byte on.  Mutant: an extension that is     *)
(* longer than what is left gets what is left.                             *)
NeverOverruns(b, i, n) == FALSE
Overruns(b, i, n) == Len(b) - (i + 4) < n

ExtensionAt(b, i, rest) ==
  LET n    == U32(SubSeq(b, i + 1, i + 4))
      last == Least(i + 4 + n, Len(b))
  IN  IF Overruns(b, i, n) THEN Err("ExtensionOverrun")
      ELSE IF ~rest[last + 1].ok THEN rest[last + 1]
      ELSE Ok(<<[id |-> b[i], metadata |-> SubSeq(b, i + 5, last)]>>
              \o rest[last + 1].value)

Extensions(b) ==
  LET rest[i \in 1..(Len(b) + 1)] ==
        IF i = Len(b) + 1 THEN Ok(<<>>)
        ELSE IF Len(b) - i < 4 THEN Err("TooShort")
        ELSE ExtensionAt(b, i, rest)
  IN  rest[3]

DecodeInfo(b) ==
  IF Len(b) < 2 THEN Err("TooShort")
  ELSE IF ~Extensions(b).ok THEN Extensions(b)
  ELSE Ok([version |-> SubSeq(b, 1, 2), extensions |-> Extensions(b).value])

DecodeBody(type, b) ==
  CASE type = "Connect" -> DecodeConnect(b)
    [] type = "Data" -> Ok(b)
    [] type = "Continue" ->
         IF Len(b) < 4 THEN Err("TooShort") ELSE Ok(U32(SubSeq(b, 1, 4)))
    [] type = "Close" -> IF b = <<>> THEN Err("TooShort") ELSE Ok(Reason(b[1]))
    [] type = "Info" -> DecodeInfo(b)

Decode(b) ==
  IF Len(b) < HeaderLen THEN Err("TooShort")
  ELSE IF Named(PacketType, b[1]) = {} THEN Err("UnknownPacketType")
  ELSE LET type == The(Named(PacketType, b[1]))
           body == DecodeBody(type, From(b, HeaderLen + 1)) IN
    IF ~body.ok THEN body
    ELSE Ok([type |-> type, id |-> U32(SubSeq(b, 2, 5)), body |-> body.value])

-----------------------------------------------------------------------------
(* What the arguments of the encoders may be: numbers of their widths, a   *)
(* host name of one-byte characters, data that u32 can count.              *)
Octet == 0..255
Word16 == {n \in Nat : n < 65536}
Word32 == {n \in Nat : n \div 65536 < 65536}
Extension == [id : Octet, metadata : {m \in Seq(Octet) : Len(m) \in Word32}]

BodyOf(type) ==
  CASE type = "Connect" -> [stream : DOMAIN StreamType, port : Word16,
                            host : Seq(0..127)]
    [] type = "Data" -> Seq(Octet)
    [] type = "Continue" -> Word32
    [] type = "Close" -> {Reason(b) : b \in Octet}
    [] type = "Info" -> [version : {Version}, extensions : Seq(Extension)]

IsPacket(p) ==
  /\ p = [type |-> p.type, id |-> p.id, body |-> p.body]
  /\ p.type \in DOMAIN PacketType /\ p.id \in Word32
  /\ p.body \in BodyOf(p.type)

ASSUME PacketsAssumption ==
  (\A p \in Packets : IsPacket(p)) /\ Noise \subseteq Octet

-----------------------------------------------------------------------------
(* A packet arrives whole, cut short, longer, or with a byte changed.      *)
Damaged(b) ==
  {SubSeq(b, 1, n) : n \in 0..(Len(b) - 1)} \cup {Append(b, x) : x \in Noise}
  \cup {[b EXCEPT ![n] = x] : n \in 1..Len(b), x \in Noise}

FrameInit ==
  /\ \E p \in Packets :
       /\ talk = [kind |-> "frame", said |-> p]
       /\ wire \in {Encode(p)} \cup Damaged(Encode(p))
  /\ ends = TRUE /\ at = "decode" /\ buf = <<>> /\ need = 0 /\ out = <<>>

FrameNext ==
  /\ at = "decode" /\ Goto("done") /\ out' = Decode(wire)
  /\ UNCHANGED <<talk, wire, ends, buf, need>>

-----------------------------------------------------------------------------
(* Properties.                                                             *)

Decoded == talk.kind = "frame" /\ at = "done"

(* What is encoded is decoded to what it was.                              *)
RoundTrip == Decoded /\ wire = Encode(talk.said) => out = Ok(talk.said)

(* What is decoded from whatever arrives is what its bytes say: encoding   *)
(* it gives them back, but for bytes behind a CONTINUE or CLOSE, which are *)
(* not looked at, and for the version of an INFO.                          *)
NothingInvented ==
  Decoded /\ out.ok =>
    LET b == Encode(out.value)
        v == IF out.value.type = "Info" THEN out.value.body.version ELSE <<>>
    IN  IF out.value.type \in {"Continue", "Close"} THEN IsPrefix(b, wire)
        ELSE wire = SubSeq(b, 1, HeaderLen) \o v
                    \o From(b, HeaderLen + Len(v) + 1)
=============================================================================
