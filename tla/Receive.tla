------------------------------ MODULE Receive ------------------------------
(***************************************************************************)
(* Messages between the platform and the device as bytes on the            *)
(* connection: framing, escapes, checksum, length and dispatch             *)
(* (socket_read_callback of tcp_log.c, RadioProtocol_CheckRecvData,        *)
(* _ProtocolParse and _SendData of RadioProtocol.c).                       *)
(*                                                                         *)
(* A message is a header, a body and an exclusive-or checksum between two  *)
(* flags.  The header of the model is one byte of each of its fields:      *)
(* message ID, attribute, serial number; the phone number, which nobody    *)
(* compares, is left out.  The buffer of RadioProtocol_AddRecvDataForParse *)
(* is left out too: the body of that function is a comment, so             *)
(* RadioProtocolRxLen is always zero and nothing is kept between reads.    *)
(***************************************************************************)
EXTENDS Integers, SequencesExt

CONSTANTS
  Payload,        \* bytes a body is made of
  MaxBody,        \* bound: bytes of a body
  PlatformSerial, \* serial number of the first message of the platform
  DeviceSerial,   \* MessageSerialNum after registration and authentication
  RecvBufferLen,  \* RECV_BUFFER_LEN
  ProtocolBufferSize, \* RADIOPROTOCOL_BUFFER_SIZE
  Hazards,        \* how a read may fall on the frames
  MaxSend         \* bound: messages of the platform

Disturbances == { "many",  \* one read gets several frames
                  "cut" }  \* one read gets a part of a frame

Byte == 0..255
ASSUME PayloadAssumption == /\ Payload \subseteq Byte /\ MaxBody \in 0..63
                            /\ RecvBufferLen \in Nat \ {0}
                            /\ ProtocolBufferSize \in Nat
ASSUME SerialAssumption == PlatformSerial \in Byte /\ DeviceSerial \in Byte
ASSUME HazardsAssumption == Hazards \subseteq Disturbances
ASSUME BoundAssumption == MaxSend \in Nat

VARIABLES
  sent,     \* the platform's messages, in order
  stream,   \* frames, and parts of frames, the device has not read yet
  handled,  \* messages given to a handler of the switch
  auth,     \* TerminalAuthorizationFlag
  serial,   \* MessageSerialNum
  answers   \* frames the device has sent

vars == <<sent, stream, handled, auth, serial, answers>>

Flag == 126   \* 0x7E
Esc == 125    \* 0x7D
Packed == 64  \* the bit of the attribute that says the message is a packet

\* Message IDs: the reply that authorises the device (0x8001), a command of
\* the switch (0x8103 and the like), a command it does not know, and the
\* general reply of the terminal (0x0001).
AuthOk == 128
Command == 129
Unknown == 130
GeneralAck == 1

HeaderLength == 3    \* 12 bytes, of which 9 are left out
PacketItem == <<0>>  \* total and number of the packet: 4 bytes
MinFrame == 2        \* datalen>=10, less than a header

-----------------------------------------------------------------------------
(* The code of the device                                                  *)

\* Faults for the mutation checks.
EscapedBareEsc(b) == IF b = Flag THEN <<Esc, b - 124>> ELSE <<b>>
EscapedFromFlag(b) == IF b \in {Flag, Esc} THEN <<Esc, b - Flag>> ELSE <<b>>
LengthWithItem(raw) == Len(raw) - HeaderLength - 1
UnescapedSwapped(b) == 127 - (b % 128) + 124

\* The exclusive or of C, bit by bit from the lowest.
Xor[p \in Nat \X Nat] ==
  IF p[1] + p[2] = 0 THEN 0
  ELSE 2 * Xor[<<p[1] \div 2, p[2] \div 2>>] + ((p[1] + p[2]) % 2)

\* Public_GetXorVerify
XorVerify[bytes \in Seq(Byte)] ==
  IF bytes = <<>> THEN 0 ELSE Xor[<<XorVerify[Front(bytes)], Last(bytes)>>]

\* The one or two bytes TransMean puts in the place of a byte.
Escaped(b) == IF b \in {Flag, Esc} THEN <<Esc, b - 124>> ELSE <<b>>

\* TransMean
TransMean[raw \in Seq(Byte)] ==
  IF raw = <<>> THEN <<>> ELSE Escaped(Head(raw)) \o TransMean[Tail(raw)]

\* The byte unTransMean puts in the place of Esc and b.
Unescaped(b) == b + 124

\* unTransMean; bytes that follow an Esc are not looked at again.
unTransMean[bytes \in Seq(Byte)] ==
  IF Len(bytes) < 2 THEN bytes
  ELSE IF bytes[1] = Esc /\ bytes[2] \in {1, 2}
       THEN <<Unescaped(bytes[2])>> \o unTransMean[SubSeq(bytes, 3, Len(bytes))]
       ELSE <<bytes[1]>> \o unTransMean[Tail(bytes)]

\* RadioProtocol_CheckRecvData: what is between the first two flags of the
\* read, unless it is too short or too long; the rest of the read is dropped.
CheckRecvData(buf) ==
  LET flags  == { i \in DOMAIN buf : buf[i] = Flag }
      first  == Min(flags)
      second == Min(flags \ {first})
  IN IF \/ flags = {} \/ flags = {first}
        \/ second - first - 1 \notin MinFrame .. ProtocolBufferSize
     THEN <<>>
     ELSE SubSeq(buf, first + 1, second - 1)

\* The header and the item of the packet, in front of the body.
Offset(raw) == IF raw[2] >= Packed THEN HeaderLength + Len(PacketItem)
               ELSE HeaderLength

\* The length of the body: what header and checksum leave (unsigned).
Length(raw) == (Len(raw) - Offset(raw) - 1) % 65536

\* Checksum and length as RadioProtocol_ProtocolParse tests them.
WellFormed(raw) ==
  /\ Len(raw) > 0 /\ XorVerify[Front(raw)] = Last(raw)
  /\ Len(raw) >= HeaderLength
  /\ Length(raw) = raw[2] % Packed

\* What the switch of RadioProtocol_ProtocolParse passes to the handler.
Parsed(raw) ==
  [ id |-> raw[1], serial |-> raw[3],
    body |-> SubSeq(raw, Offset(raw) + 1, Len(raw) - 1) ]

NextSerial == (serial + 1) % 256

\* RadioProtocol_SendData: a header without a packet item, checksum, escapes.
SendData(id, body) ==
  LET raw == <<id, Len(body), NextSerial>> \o body
  IN <<Flag>> \o TransMean[Append(raw, XorVerify[raw])] \o <<Flag>>

\* AckResult: 0 success, 3 not supported.
Result(id) == IF id = Unknown THEN 3 ELSE 0

\* RadioProtocol_TerminalGeneralAck: refused by SendData while the device is
\* not authorised.
Answer(msg) ==
  IF auth
  THEN /\ answers' = Append(answers, SendData(GeneralAck,
                        <<msg.serial, msg.id, Result(msg.id)>>))
       /\ serial' = NextSerial
  ELSE UNCHANGED <<answers, serial>>

\* RadioProtocol_ProtocolParse of one frame without its flags.
ProtocolParse(frame) ==
  LET raw == unTransMean[frame]
      msg == Parsed(raw)
  IN IF ~WellFormed(raw) THEN UNCHANGED <<handled, auth, serial, answers>>
     ELSE /\ handled' = Append(handled, msg)
          /\ IF msg.id = AuthOk
             THEN auth' = TRUE /\ UNCHANGED <<serial, answers>>
             ELSE Answer(msg) /\ UNCHANGED auth

\* What socket_read_callback holds when its loop ends: every full buffer is
\* overwritten by the next Ql_SOC_Recv, which may find nothing.
InBuffer(bytes) ==
  LET rest == Len(bytes) % RecvBufferLen
  IN SubSeq(bytes, Len(bytes) - rest + 1, Len(bytes))

-----------------------------------------------------------------------------
(* The platform and the connection                                         *)

Message == [ id : {AuthOk, Command, Unknown}, serial : Byte,
             body : BoundedSeq(Payload, MaxBody), packed : BOOLEAN ]

\* A message as JT/T 808 puts it on the wire: escapes between two flags.
Escapes[raw \in Seq(Byte)] ==
  IF raw = <<>> THEN <<>>
  ELSE (CASE Head(raw) = Flag -> <<Esc, 2>>
          [] Head(raw) = Esc -> <<Esc, 1>>
          [] OTHER -> <<Head(raw)>>) \o Escapes[Tail(raw)]

OnWire(raw) == <<Flag>> \o Escapes[raw] \o <<Flag>>

Checksum[raw \in Seq(Byte)] ==
  IF raw = <<>> THEN 0 ELSE Xor[<<Head(raw), Checksum[Tail(raw)]>>]

WithChecksum(raw) == Append(raw, Checksum[raw])

Raw(msg) ==
  WithChecksum(<<msg.id, Len(msg.body) + (IF msg.packed THEN Packed ELSE 0),
                 msg.serial>>
               \o (IF msg.packed THEN PacketItem ELSE <<>>) \o msg.body)

Init ==
  /\ sent = <<>> /\ stream = <<>> /\ handled = <<>>
  /\ auth = FALSE /\ serial = DeviceSerial /\ answers = <<>>

\* The platform sends a message without waiting for the last one's answer.
Send ==
  /\ Len(sent) < MaxSend
  /\ \E id \in {AuthOk, Command, Unknown},
        body \in BoundedSeq(Payload, MaxBody), packed \in BOOLEAN :
       LET msg == [id |-> id, serial |-> (PlatformSerial + Len(sent)) % 256,
                   body |-> body, packed |-> packed]
       IN /\ sent' = Append(sent, msg)
          /\ stream' = Append(stream, OnWire(Raw(msg)))
  /\ UNCHANGED <<handled, auth, serial, answers>>

\* The bytes of some entries of the stream.
Joined[entries \in Seq(Seq(Byte))] ==
  IF entries = <<>> THEN <<>> ELSE Joined[Front(entries)] \o Last(entries)

\* socket_read_callback with the bytes that have come: the first entries of
\* the stream, the last of them perhaps not to its end.
Read(count, cut) ==
  LET last  == stream[count]
      bytes == Joined[SubSeq(stream, 1, count - 1)] \o SubSeq(last, 1, cut)
      rest  == IF cut = Len(last) THEN <<>> ELSE <<SubSeq(last, cut + 1, Len(last))>>
  IN /\ stream' = rest \o SubSeq(stream, count + 1, Len(stream))
     /\ ProtocolParse(CheckRecvData(InBuffer(bytes)))
     /\ UNCHANGED sent

ReadCallback ==
  \E count \in DOMAIN stream : \E cut \in 1..Len(stream[count]) :
    /\ count > 1 => "many" \in Hazards
    /\ cut < Len(stream[count]) => "cut" \in Hazards
    /\ Read(count, cut)

Next == Send \/ ReadCallback

Spec == Init /\ [][Next]_vars

-----------------------------------------------------------------------------
(* Properties                                                              *)

TypeOK ==
  /\ sent \in Seq(Message)
  /\ stream \in Seq(Seq(Byte)) /\ <<>> \notin Range(stream)
  /\ handled \in Seq([id : Byte, serial : Byte, body : Seq(Byte)])
  /\ auth \in BOOLEAN
  /\ serial \in Byte
  /\ answers \in Seq(Seq(Byte))

Increasing(f) == \A i, j \in DOMAIN f : i < j => f[i] < f[j]

Content(msg) == [id |-> msg.id, serial |-> msg.serial, body |-> msg.body]

\* However the reads fall on the frames, a handler only ever gets messages
\* the platform sent, unchanged, at most once and in the order of sending
\* (RadioProtocol_CheckRecvData, _ProtocolParse, unTransMean).
HandledWasSent ==
  \E place \in [DOMAIN handled -> DOMAIN sent] :
    /\ Increasing(place)
    /\ \A i \in DOMAIN handled : handled[i] = Content(sent[place[i]])

\* The messages the device owes an answer: those after it was authorised.
Due == { i \in DOMAIN handled : /\ handled[i].id # AuthOk
                               /\ \E j \in 1..(i - 1) : handled[j].id = AuthOk }

\* The answer to a message, the n-th of the device, as JT/T 808 prescribes it.
Prescribed(n, msg) ==
  OnWire(WithChecksum(<<GeneralAck, 3, (DeviceSerial + n) % 256, msg.serial,
                        msg.id, IF msg.id = Unknown THEN 3 ELSE 0>>))

\* The device answers each command it handles once it is authorised, in
\* order, with the command's serial number and ID and its own serial number
\* counted up, and the platform can read the answer: the bytes are those
\* JT/T 808 prescribes (RadioProtocol_TerminalGeneralAck, _SendData, TransMean).
AnswersMatch ==
  \E order \in [DOMAIN answers -> Due] :
    /\ Increasing(order) /\ Range(order) = Due
    /\ \A n \in DOMAIN answers : answers[n] = Prescribed(n, handled[order[n]])

\* A read that gets one whole frame, shorter than the receive buffer and with no
\* more bytes between its flags than the protocol's buffer has, hands its message
\* to the handler, whatever was read before: a frame that was cut or dropped never
\* spoils a later one (RadioProtocol.c:1607-1657, tcp_log.c:667-694).
WholeFrameHandled ==
  [][ \A msg \in { sent[i] : i \in DOMAIN sent } :
        /\ stream # <<>> /\ Head(stream) = OnWire(Raw(msg))
        /\ Len(Head(stream)) < RecvBufferLen
        /\ Len(Head(stream)) - 2 <= ProtocolBufferSize
        /\ stream' = Tail(stream)
        => handled' = Append(handled, Content(msg)) ]_vars

\* When everything has been read, every message of the platform has come to
\* a handler.  The comment before RadioProtocol_AddRecvDataForParse says that
\* several commands may be received at once and are all entered into the list
\* of the parser.
AllHandled == stream = <<>> => Len(handled) = Len(sent)
=============================================================================
