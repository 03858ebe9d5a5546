-------------------------------- MODULE Codec --------------------------------
(***************************************************************************)
(* The packets of packets.go: how each is encoded and decoded in every     *)
(* version, and how the client fills in those it writes.  Login, then any  *)
(* packets the server sends and the client's answers to them, then any     *)
(* calls of Chat and SetPosition; all with the framing the server asked    *)
(* for, which Payload and the zlib reader of the Conn implement.           *)
(*                                                                         *)
(* A packet is its Go type and its fields, in the order of the struct.     *)
(* The server is external: it writes the layout that Decode reads, and     *)
(* where packets.go has a working Encode for the packet, that.             *)
(***************************************************************************)
EXTENDS Protocol, Wire

CONSTANTS
  Checked,     \* the versions sessions are run in
  Ids,         \* keep-alive IDs, within an int32
  LongIds,     \* keep-alive IDs since 1.12.2
  Thresholds,  \* compression thresholds
  UUIDs,       \* Client.uniqueId
  Keys         \* Client.privateKey: "none", or a key of "2048" or "4096" bits

ASSUME CodecAssumption ==
  /\ Checked \subseteq Versions
  /\ Ids \subseteq Int32s
  /\ LongIds \subseteq Int
  /\ Thresholds \subseteq Int32s
  /\ UUIDs \subseteq {"nil", "configured"}
  /\ Keys \subseteq {"none", "2048", "4096"}
  /\ MaxPacketDataSize >= 36
  /\ MaxPacketDataSize + 9 * MaxVarIntSize + 64 < IntSize

VARIABLES
  version,         \* Client.version
  uniqueId,        \* Client.uniqueId: Nil, or one that was configured
  privateKey,      \* Client.privateKey
  state,           \* Conn.state
  threshold,       \* Conn.compressionThreshold
  zlibReader,      \* Conn.zlibReader: what is left in it, once there is one
  serverThreshold, \* the threshold the server frames by
  request,         \* the packet the server sent last
  payload,         \* its frame, until ReadPacket has read it
  got,             \* whether ReadPacket decoded it, and the fields
  written,         \* the packet the client wrote last
  frame,           \* its frame
  returned,        \* what the last call that writes returned
  loggedIn         \* whether SendLogin was called

clientVars == <<version, uniqueId, privateKey>>
connVars   == <<state, threshold, zlibReader>>
readVars   == <<request, payload, got>>
writeVars  == <<written, frame, returned>>
vars == <<clientVars, connVars, serverThreshold, readVars, writeVars, loggedIn>>

Packet(type, fields) == [type |-> type, f |-> fields]

NoPacket == Packet("none", <<>>)
Nothing  == [ok |-> TRUE, f |-> <<>>]

Nil == "nil"

Name  == Text("name", 4)
Short == Text("short", 1)
Long  == Text("long", MaxPacketDataSize)

-----------------------------------------------------------------------------
(* Serverbound packets.                                                    *)

\* <<protocol version, address, port, next state>>
EncodeHandshake(f) ==
  WriteVarInt(f[1]) \o WriteString(f[2]) \o WriteUShort(f[3]) \o WriteVarInt(f[4])

\* <<username, UUID>>
EncodeLoginStart(f, v) ==
  WriteString(f[1])
  \o When(v \in V1_19 .. V1_19_2, WriteBool(FALSE))
  \o (IF v >= V1_20_2
      THEN WriteUUID(f[2])
      ELSE When(v >= V1_19_2 /\ f[2] # Nil, WriteBool(TRUE) \o WriteUUID(f[2])))

\* <<locale, view, chat mode, chat colours, skin parts, main hand>>
EncodeClientSettings(f, v) ==
  WriteString(f[1]) \o WriteByte(f[2])
  \o (IF v <= V1_7 THEN WriteByte(1) ELSE WriteVarInt(f[3]))
  \o WriteBool(f[4])
  \o (IF v <= V1_7 THEN WriteByte(f[5] % 2) \o WriteBool(TRUE) ELSE WriteByte(f[5]))
  \o When(v >= V1_9, WriteVarInt(f[6]))
  \o When(v >= V1_17_1, WriteBool(FALSE))
  \o When(v >= V1_18, WriteBool(TRUE))
  \o When(v >= V1_21_3, WriteVarInt(0))

\* A mutant of EncodeKeepAlive: 1.12.2 is left out.
EncodeKeepAliveAfter(f, v) == IF v > V1_12_2 THEN WriteLong(f[1]) ELSE WriteVarInt(Int32(f[1]))

EncodeKeepAlive(f, v) == IF v >= V1_12_2 THEN WriteLong(f[1]) ELSE WriteVarInt(Int32(f[1]))

\* A pack: its namespace, ID and version.
WritePack(pack) == WriteString(pack[1]) \o WriteString(pack[2]) \o WriteString(pack[3])

\* <<the packs>>
EncodeSelectKnownPacks(f) == WriteVarInt(Len(f[1])) \o Each(WritePack, f[1])

\* <<key, has data, data>>
EncodeCookieResponse(f) ==
  WriteString(f[1]) \o WriteBool(f[2]) \o When(f[2], WriteByteSlice(f[3]))

\* <<channel, data>>
EncodeCustomPayload(f) == WriteString(f[1]) \o f[2]

-----------------------------------------------------------------------------
(* ServerboundChatMessage: <<message, key, UUID, timestamp, salt>>, of     *)
(* which the last two are taken in Encode.                                 *)

SignatureSize == 16   \* 256 in the code

\* What signMessage signs.
SignBuf(f, v) ==
  IF v >= V1_19_2 THEN <<f[5], f[4], f[3], f[1]>> ELSE <<f[4], f[5], f[1]>>

\* The signature: as long as the key, but since 1.19.3 of a fixed length, to
\* which it is cut.
Signature(f, v) ==
  LET size == IF f[2] = "2048" THEN SignatureSize ELSE 2 * SignatureSize IN
  IF v >= V1_19_3
  THEN Text(<<SignBuf(f, v), size <= SignatureSize>>, SignatureSize)
  ELSE Text(<<SignBuf(f, v), TRUE>>, size)

EncodeChatMessage(f, v) ==
  IF v < V1_19 THEN WriteString(f[1])
  ELSE
    WriteString(f[1]) \o WriteLong(f[4]) \o WriteLong(f[5])
    \o (IF v >= V1_19_3
        THEN (IF f[2] # "none"
              THEN WriteBool(TRUE) \o << <<"signature", Signature(f, v)>> >>
              ELSE WriteBool(FALSE))
             \o WriteVarInt(0) \o WriteByte(0) \o WriteByte(0) \o WriteByte(0)
             \o When(v >= V1_21_5, WriteByte(0))
        ELSE (IF f[2] # "none" THEN WriteByteSlice(Signature(f, v)) ELSE WriteByteSlice(Empty))
             \o WriteBool(FALSE)
             \o When(v >= V1_19_2, WriteVarInt(0) \o WriteBool(FALSE)))

-----------------------------------------------------------------------------
(* Encode and Decode, by type.                                             *)

\* The Encodes the client uses.
Encode(p, v) ==
  CASE p.type = "ServerboundHandshake"         -> EncodeHandshake(p.f)
    [] p.type = "ServerboundPing"              -> WriteLong(p.f[1])
    [] p.type = "ServerboundLoginStart"        -> EncodeLoginStart(p.f, v)
    [] p.type = "ServerboundClientSettings"    -> EncodeClientSettings(p.f, v)
    [] p.type = "ServerboundKeepAlive"         -> EncodeKeepAlive(p.f, v)
    [] p.type = "ServerboundConfigKeepAlive"   -> WriteLong(p.f[1])
    [] p.type = "ServerboundSelectKnownPacks"  -> EncodeSelectKnownPacks(p.f)
    [] p.type = "ServerboundCookieResponse"    -> EncodeCookieResponse(p.f)
    [] p.type = "ServerboundCustomPayload"     -> EncodeCustomPayload(p.f)
    [] p.type = "ServerboundChatMessage"       -> EncodeChatMessage(p.f, v)
    [] OTHER                                   -> <<>>

\* A property: name, value, and a signature if the flag, whose own error is
\* ignored, says so.
SignatureAfter(value, flag) ==
  CASE flag.ok /\ Last(flag)  -> Drop(ReadString(Drop(flag)))
    [] flag.ok /\ ~Last(flag) -> Drop(flag)
    [] OTHER                  -> value

PropertyAfter(value) == SignatureAfter(value, ReadBool(value))

ReadProperty(r) == PropertyAfter(Drop(ReadString(Drop(ReadString(r)))))

\* Of a reader that has taken a count: as many properties.
PropertiesAfter(count) ==
  IF count.ok THEN Times(ReadProperty, Last(count), Drop(count)) ELSE count

ReadProperties(r, v) == IF v >= V1_19 THEN PropertiesAfter(ReadVarInt(r)) ELSE r

ReadStrictErrors(r, v) == IF v \in V1_20_5 .. V1_21_1 THEN Drop(ReadBool(r)) ELSE r

DecodeLoginSuccess(r, v) ==
  ReadStrictErrors(
    ReadProperties(
      ReadString(IF v >= V1_16 THEN ReadUUID(r) ELSE ReadStringUUID(r)), v), v)

\* A list as one value: as many of what Read takes as a VarInt in front says.
ItemsAfter(Read(_), count) ==
  IF count.ok THEN Times(Read, Last(count), [Drop(count) EXCEPT !.got = <<>>]) ELSE count

AsOne(items, before) == [items EXCEPT !.got = Append(before, items.got)]

ReadList(Read(_), r) == AsOne(ItemsAfter(Read, ReadVarInt(r)), r.got)

ReadPack(r) ==
  AsOne(ReadString(ReadString(ReadString([r EXCEPT !.got = <<>>]))), r.got)

DecodeSelectKnownPacks(r) == ReadList(ReadPack, r)
DecodeFeatureFlags(r)     == ReadList(ReadString, r)

DecodeKeepAlive(r, v) == IF v >= V1_12_2 THEN ReadLong(r) ELSE ReadVarInt(r)

\* The Decodes the client uses: the reader after it, with the fields that the
\* packet keeps.  RegistryData's ignores its errors.
Decode(type, r, v) ==
  CASE type \in {"ClientboundStatusResponse", "ClientboundDisconnect", "ClientboundCookieRequest",
                 "ServerboundChatMessage"}                     -> ReadString(r)
    [] type \in {"ClientboundPong", "ClientboundConfigKeepAlive"} -> ReadLong(r)
    [] type = "ClientboundSetCompression"                      -> ReadVarInt(r)
    [] type = "ClientboundLoginSuccess"                        -> DecodeLoginSuccess(r, v)
    [] type = "ClientboundKeepAlive"                           -> DecodeKeepAlive(r, v)
    [] type = "ClientboundSelectKnownPacks"                    -> DecodeSelectKnownPacks(r)
    [] type = "ClientboundFeatureFlags"                        -> DecodeFeatureFlags(r)
    [] type = "ClientboundConfigPing"                          -> ReadInt(r)
    [] type = "ClientboundJoinGame"                            -> Drop(ReadRest(r))
    [] type = "ClientboundCustomPayload"                       -> ReadRest(ReadString(r))
    [] type = "ClientboundRegistryData"                        -> [ReadBytes(ReadString(r)) EXCEPT !.ok = TRUE]
    [] OTHER                                                   -> r

-----------------------------------------------------------------------------
(* The server, and what it sends.                                          *)

Brand == Text("minecraft:brand", 15)
Pack  == <<Short, Name, Short>>

\* A property: a key, a value, and a signature if it is signed.
WriteProperty(signed) ==
  WriteString(Short) \o WriteString(Name) \o WriteBool(signed) \o When(signed, WriteString(Short))

\* <<UUID, username, the properties, each by whether it is signed, length of the UUID's textual form>>
EncodeLoginSuccess(f, v) ==
  (IF v >= V1_16 THEN WriteUUID(f[1]) ELSE WriteString(Text(f[1], f[4])))
  \o WriteString(f[2])
  \o When(v >= V1_19, WriteVarInt(Len(f[3])) \o Each(WriteProperty, f[3]))
  \o When(v \in V1_20_5 .. V1_21_1, WriteBool(TRUE))

EncodeFeatureFlags(f) == WriteVarInt(Len(f[1])) \o Each(WriteString, f[1])

ServerEncode(p, v) ==
  CASE p.type \in {"ClientboundStatusResponse", "ClientboundDisconnect",
                   "ClientboundCookieRequest"}       -> WriteString(p.f[1])
    [] p.type = "ServerboundChatMessage"             -> WriteString(p.f[1]) \o WriteByte(1)
    [] p.type \in {"ClientboundPong", "ClientboundConfigKeepAlive"} -> WriteLong(p.f[1])
    [] p.type = "ClientboundSetCompression"          -> WriteVarInt(p.f[1])
    [] p.type = "ClientboundLoginSuccess"            -> EncodeLoginSuccess(p.f, v)
    [] p.type = "ClientboundKeepAlive"               -> IF v >= V1_12_2 THEN WriteLong(p.f[1]) ELSE WriteVarInt(p.f[1])
    [] p.type = "ClientboundSelectKnownPacks"        -> EncodeSelectKnownPacks(p.f)
    [] p.type = "ClientboundFeatureFlags"            -> EncodeFeatureFlags(p.f)
    [] p.type = "ClientboundConfigPing"              -> WriteInt(p.f[1])
    [] p.type = "ClientboundJoinGame"                -> WriteInt(1) \o WriteByte(0)
    [] p.type = "ClientboundCustomPayload"           -> EncodeCustomPayload(p.f)
    [] p.type = "ClientboundRegistryData"            -> WriteString(p.f[1]) \o WriteByteSlice(p.f[2])
    [] OTHER                                         -> <<>>

\* Fields to send, and those of them that the client is to know.
Sendable(type, v) ==
  CASE type \in {"ClientboundStatusResponse", "ClientboundDisconnect",
                 "ClientboundCookieRequest", "ServerboundChatMessage"} -> { <<t>> : t \in {Empty, Short, Long} }
    [] type \in {"ClientboundPong", "ClientboundConfigKeepAlive"}     -> { <<i>> : i \in LongIds }
    [] type = "ClientboundSetCompression"   -> { <<t>> : t \in Thresholds }
    [] type = "ClientboundLoginSuccess"     ->
         { <<"player", Name, props, form>> : props \in {<<>>, <<TRUE>>, <<FALSE, TRUE>>}, form \in {32, 36} }
    [] type = "ClientboundKeepAlive"        -> { <<i>> : i \in IF v >= V1_12_2 THEN LongIds ELSE Ids }
    [] type = "ClientboundSelectKnownPacks" -> { << <<>> >>, << <<Pack, Pack>> >> }
    [] type = "ClientboundFeatureFlags"     -> { << <<>> >>, << <<Short, Long>> >> }
    [] type = "ClientboundConfigPing"       -> { <<i>> : i \in {-1, 0, 1} }
    [] type = "ClientboundCustomPayload"    -> { <<Brand, WriteString(Name)>>, <<Short, <<>> >> }
    [] type = "ClientboundRegistryData"     -> { <<Short, Long>> }
    [] OTHER                                -> { <<>> }

Kept(p) == IF p.type = "ClientboundLoginSuccess" THEN <<p.f[1], p.f[2]>> ELSE p.f

\* Nothing is under way; the last exchange has been looked at, and forgotten.
\* After a disconnect packet there is no other.
Quiet == request = NoPacket /\ written = NoPacket /\ returned = "nil"

Forget ==
  /\ payload = <<>>
  /\ ~Quiet
  /\ request.type # "ClientboundDisconnect"
  /\ request' = NoPacket
  /\ got' = Nothing
  /\ written' = NoPacket
  /\ frame' = <<>>
  /\ returned' = "nil"
  /\ UNCHANGED <<clientVars, connVars, serverThreshold, payload, loggedIn>>

ServerSends ==
  /\ Quiet
  /\ state = "Login" => loggedIn
  /\ \E row \in Registered(version, state, "Clientbound") :
       /\ row[2] = "ClientboundSetCompression" => serverThreshold < 0
       /\ \E f \in Sendable(row[2], version) :
            LET p == Packet(row[2], f) IN
            /\ request' = p
            /\ payload' = Payload(serverThreshold, << <<"id", p.type>> >> \o ServerEncode(p, version))
            /\ serverThreshold' = IF p.type = "ClientboundSetCompression" THEN f[1] ELSE serverThreshold
  /\ UNCHANGED <<clientVars, connVars, got, writeVars, loggedIn>>

-----------------------------------------------------------------------------
(* The client writes.                                                      *)

\* WritePacket, in state s.
Write(p, s) ==
  IF HasPacketID(version, s, "Serverbound", p.type)
  THEN /\ written' = p
       /\ frame' = Payload(threshold, << <<"id", p.type>> >> \o Encode(p, version))
       /\ returned' = "nil"
  ELSE /\ returned' = "error"
       /\ UNCHANGED <<written, frame>>

\* A call of a method of the client that writes one packet.
Calls(p) ==
  /\ Quiet
  /\ Write(p, state)
  /\ UNCHANGED <<clientVars, threshold, zlibReader, serverThreshold, readVars>>

\* SendHandshake, and the SetState after it.  A protocol number is a small one.
SendHandshake ==
  /\ state = "Handshaking"
  /\ \E next \in {<<1, "Status">>, <<2, "Login">>} :
       /\ Calls(Packet("ServerboundHandshake", <<version, Name, 0, next[1]>>))
       /\ state' = next[2]
  /\ UNCHANGED loggedIn

\* A mutant of LoginUUID: only where the UUID is mandatory.
LoginUUIDLate(v, id) == IF id = Nil /\ v >= V1_20_2 THEN "offline" ELSE id

\* SendLogin's UUID; OfflineUUID sets bits of the hash, so that it is never Nil.
LoginUUID(v, id) == IF id = Nil /\ v >= V1_19_2 THEN "offline" ELSE id

LoginPacket(v, id) == Packet("ServerboundLoginStart", <<Name, LoginUUID(v, id)>>)

SendLogin ==
  /\ state = "Login"
  /\ ~loggedIn
  /\ Calls(LoginPacket(version, uniqueId))
  /\ loggedIn' = TRUE
  /\ UNCHANGED state

\* Ping, with the time, and SendPingRequest, with zero.
SendPing ==
  /\ state = "Status"
  /\ \E time \in LongIds : Calls(Packet("ServerboundPing", <<time>>))
  /\ UNCHANGED <<state, loggedIn>>

SettingsPackets ==
  { Packet("ServerboundClientSettings", <<Name, 5, mode, colours, skin, hand>>) :
      mode \in {0, 2}, colours \in BOOLEAN, skin \in {0, 7}, hand \in {0, 1} }

SendClientSettings ==
  /\ state \in {"Configuration", "Play"}
  /\ \E p \in SettingsPackets : Calls(p)
  /\ UNCHANGED <<state, loggedIn>>

\* Chat's packet, with any reading of the clock and any random number.
ChatPackets(id, key) ==
  { Packet("ServerboundChatMessage", <<message, key, id, time, salt>>) :
      message \in {Empty, Short}, time \in {7, 8}, salt \in {7, 8} }

Chat ==
  /\ state = "Play"
  /\ \E p \in ChatPackets(uniqueId, privateKey) : Calls(p)
  /\ UNCHANGED <<state, loggedIn>>

\* The new position is kept, whether or not it can be sent.
SetPosition ==
  /\ state = "Play"
  /\ Calls(Packet("ServerboundPlayerPosition", <<>>))
  /\ UNCHANGED <<state, loggedIn>>

-----------------------------------------------------------------------------
(* The client reads.                                                       *)

\* A mutant of Inflated: a reader that exists is read on.
InflatedNoReset(data) == IF zlibReader = <<>> THEN data ELSE zlibReader[1]

\* What the zlib reader yields: NewReader and Reset both start at the data.
Inflated(data) == data

\* What ReadPacket reads the ID and the fields from: after the data length r,
\* the rest of the frame or the zlib reader.
Uncompressed(r) ==
  CASE r.ok /\ Last(r) = 0 -> [plain |-> TRUE, wire |-> r.rest]
    [] r.ok /\ Last(r) # 0 /\ IsNext(r, "zlib")
                           -> [plain |-> FALSE, wire |-> Inflated(Head(r.rest)[2])]
    [] OTHER               -> [plain |-> TRUE, wire |-> <<>>]

Data ==
  IF Compresses(threshold)
  THEN Uncompressed(ReadVarInt(Reader(payload)))
  ELSE [plain |-> TRUE, wire |-> payload]

\* The answers of handlePacket and handleConfiguration that have fields.
Answer(type, f) ==
  CASE type = "ClientboundKeepAlive" /\ state = "Play" ->
         Packet("ServerboundKeepAlive", f)
    [] type = "ClientboundConfigKeepAlive" ->
         Packet("ServerboundConfigKeepAlive", f)
    [] type = "ClientboundCustomPayload" /\ state = "Configuration" /\ f[1] = Brand ->
         Packet("ServerboundCustomPayload", <<Brand, WriteString(Name)>>)
    [] type = "ClientboundSelectKnownPacks" ->
         Packet("ServerboundSelectKnownPacks", << <<>> >>)
    [] type = "ClientboundCookieRequest" /\ state = "Configuration" ->
         Packet("ServerboundCookieResponse", <<f[1], FALSE, Empty>>)
    [] OTHER -> NoPacket

StateAfter(type) ==
  CASE type = "ClientboundLoginSuccess" ->
         IF version >= V1_20_2 THEN "Configuration" ELSE "Play"
    [] type = "ClientboundFinishConfiguration" -> "Play"
    [] OTHER -> state

\* Join, handleConfiguration and readLoop, with a packet that was decoded.
Handle(type, f) ==
  /\ state' = StateAfter(type)
  /\ threshold' = IF type = "ClientboundSetCompression" THEN f[1] ELSE threshold
  /\ IF Answer(type, f) = NoPacket THEN UNCHANGED writeVars ELSE Write(Answer(type, f), state)

\* The end of ReadPacket, with the ID taken and Decode done.
Return(plain, type, r) ==
  /\ zlibReader' = IF plain THEN zlibReader ELSE << r.rest >>
  /\ got' = [ok |-> r.ok, f |-> r.got]
  /\ IF r.ok THEN Handle(type, r.got) ELSE UNCHANGED <<state, threshold, writeVars>>

NewAndDecode(plain, id) ==
  IF id.ok THEN Return(plain, Last(id), Decode(Last(id), Drop(id), version))
  ELSE Return(plain, "none", id)

\* ReadPacket, and what the loops around it do with the packet.
ReadPacket ==
  /\ payload # <<>>
  /\ payload' = <<>>
  /\ NewAndDecode(Data.plain, ReadAtom(Reader(Data.wire), "id"))
  /\ UNCHANGED <<clientVars, serverThreshold, request, loggedIn>>

-----------------------------------------------------------------------------
Init ==
  /\ version \in Checked
  /\ uniqueId \in UUIDs
  /\ privateKey \in Keys
  /\ state = "Handshaking"
  /\ threshold = -1
  /\ zlibReader = <<>>
  /\ serverThreshold = -1
  /\ request = NoPacket
  /\ payload = <<>>
  /\ got = Nothing
  /\ written = NoPacket
  /\ frame = <<>>
  /\ returned = "nil"
  /\ loggedIn = FALSE

Next ==
  \/ ServerSends \/ ReadPacket \/ Forget
  \/ SendHandshake \/ SendLogin \/ SendPing \/ SendClientSettings \/ Chat \/ SetPosition

Spec == Init /\ [][Next]_vars

-----------------------------------------------------------------------------
(* Properties.                                                             *)

\* ReadPacket returns what the server sent, in every version, at every
\* threshold, and whatever an earlier packet has left unread in the zlib reader.
Understood ==
  payload = <<>> /\ request # NoPacket => got.ok /\ got.f = Kept(request)

\* A peer that frames by the threshold it announced finds the packet that was
\* written in the frame, at a threshold of zero or of exactly its size too.
FrameReadable ==
  frame # <<>> => Unframed(serverThreshold, frame) = << <<"id", written.type>> >> \o Encode(written, version)

\* The answer to a keep-alive carries what the server sent, bit for bit: the
\* widths that Decode and Encode use change in the same version, and neither
\* sign nor size is lost.
EchoExact ==
  payload = <<>> /\ request.type \in {"ClientboundKeepAlive", "ClientboundConfigKeepAlive"} =>
    Tail(Unframed(serverThreshold, frame)) = ServerEncode(request, version)

\* Two wires go the same way for a reader that follows their flags and counts:
\* where their kinds part, an earlier byte differs.
Aligned(a, b) ==
  \A i \in 1 .. Len(a) :
    i > Len(b) \/ a[i][1] # b[i][1] =>
      \E j \in 1 .. i - 1 : j <= Len(b) /\ a[j][1] = "byte" /\ b[j][1] = "byte" /\ a[j] # b[j]

\* What else of the type the client might have written in the version.
Alternatives(type) ==
  CASE type = "ServerboundLoginStart"     -> { LoginPacket(version, id) : id \in UUIDs }
    [] type = "ServerboundChatMessage"    -> UNION { ChatPackets(uniqueId, key) : key \in Keys }
    [] type = "ServerboundClientSettings" -> SettingsPackets
    [] OTHER                              -> {}

\* A packet the client writes can be told apart by its version and its own flags
\* and counts alone: LoginStart has no flag for a missing UUID where one is
\* optional, a chat message has one for a missing signature.
SelfDescribing ==
  \A p \in Alternatives(written.type) :
    LET a == Encode(written, version)
        b == Encode(p, version)
    IN  Aligned(a, b) /\ Aligned(b, a)

\* Chat and SetPosition succeed while the connection is up and in play.
PlayerActions == returned = "nil"

=============================================================================
