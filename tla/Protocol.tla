------------------------------ MODULE Protocol ------------------------------
(***************************************************************************)
(* The protocol package's version enumeration and packet registry: which   *)
(* packets exist in which connection state, direction and game version,    *)
(* and the two lookups every read and every write goes through.            *)
(*                                                                         *)
(* A version is its position in the generated enumeration, as in Go, so    *)
(* comparisons such as v >= V1_20_2 mean what they mean in the code.       *)
(*                                                                         *)
(* A numeric packet ID is abstracted to the wire name minecraft-data gives *)
(* it: within one version, state and direction the two correspond one to   *)
(* one.  generator/main.go (goNameToMcNames, resolveAmbiguousNames) ties a *)
(* wire name to the Go packet type registered for it; the tables below are *)
(* pairs <<wire name, Go type>>.                                           *)
(***************************************************************************)
EXTENDS Integers

V1_7    == 0        V1_8    == 1        V1_9    == 2        V1_12_2 == 9
V1_16   == 20
V1_17   == 23       V1_17_1 == 24       V1_18   == 25       V1_19   == 27
V1_19_2 == 28       V1_19_3 == 29       V1_20_2 == 32       V1_20_5 == 34
V1_21_1 == 35       V1_21_3 == 36       V1_21_5 == 38       V1_21_11 == 42

First    == V1_7
Latest   == V1_21_11
Versions == First .. Latest

\* The State constants; the zero value of the Go type is "Handshaking".
States == {"Handshaking", "Status", "Login", "Play", "Configuration"}

Directions == {"Serverbound", "Clientbound"}

-----------------------------------------------------------------------------
(* The generated registry.                                                 *)

Since(v, first, rows)  == IF v >= first THEN rows ELSE {}
Before(v, first, rows) == IF v < first THEN rows ELSE {}

HandshakingServerbound == { <<"set_protocol", "ServerboundHandshake">> }

StatusServerbound == { <<"ping_start", "ServerboundStatusRequest">>,
                       <<"ping", "ServerboundPing">> }

StatusClientbound == { <<"server_info", "ClientboundStatusResponse">>,
                       <<"ping", "ClientboundPong">> }

LoginServerbound(v) ==
    { <<"login_start", "ServerboundLoginStart">> }
      \cup Since(v, V1_20_2,
             { <<"login_acknowledged", "ServerboundLoginAcknowledged">> })
      \cup Since(v, V1_20_5,
             { <<"cookie_response", "ServerboundCookieResponse">> })

LoginClientbound(v) ==
    { <<"disconnect", "ClientboundDisconnect">>,
      <<"success", "ClientboundLoginSuccess">> }
      \cup Since(v, V1_8, { <<"compress", "ClientboundSetCompression">> })
      \cup Since(v, V1_20_5,
             { <<"cookie_request", "ClientboundCookieRequest">> })

ConfigurationServerbound(v) ==
    Since(v, V1_20_2,
      { <<"settings", "ServerboundClientSettings">>,
        <<"custom_payload", "ServerboundCustomPayload">>,
        <<"finish_configuration", "ServerboundFinishConfiguration">>,
        <<"keep_alive", "ServerboundConfigKeepAlive">>,
        <<"pong", "ServerboundConfigPong">> })
      \cup Since(v, V1_20_5,
             { <<"cookie_response", "ServerboundCookieResponse">>,
               <<"select_known_packs", "ServerboundSelectKnownPacks">> })

ConfigurationClientbound(v) ==
    Since(v, V1_20_2,
      { <<"custom_payload", "ClientboundCustomPayload">>,
        <<"disconnect", "ClientboundDisconnect">>,
        <<"finish_configuration", "ClientboundFinishConfiguration">>,
        <<"keep_alive", "ClientboundConfigKeepAlive">>,
        <<"ping", "ClientboundConfigPing">>,
        <<"registry_data", "ClientboundRegistryData">>,
        <<"feature_flags", "ClientboundFeatureFlags">> })
      \cup Since(v, V1_20_5,
             { <<"cookie_request", "ClientboundCookieRequest">>,
               <<"select_known_packs", "ClientboundSelectKnownPacks">> })

PlayServerbound(v) ==
    { <<"chat", "ServerboundChatMessage">>,
      <<"settings", "ServerboundClientSettings">>,
      <<"custom_payload", "ServerboundCustomPayload">>,
      <<"keep_alive", "ServerboundKeepAlive">> }
      \cup Since(v, V1_20_5,
             { <<"cookie_response", "ServerboundCookieResponse">> })

\* Up to 1.18.2 the server's "chat" packet is registered under the name of
\* the client's own chat packet; from 1.19 on it is not registered at all.
PlayClientbound(v) ==
    { <<"login", "ClientboundJoinGame">>,
      <<"keep_alive", "ClientboundKeepAlive">>,
      <<"custom_payload", "ClientboundCustomPayload">>,
      <<"kick_disconnect", "ClientboundDisconnect">> }
      \cup Before(v, V1_19, { <<"chat", "ServerboundChatMessage">> })
      \cup Since(v, V1_17, { <<"ping", "ClientboundPong">> })
      \cup Since(v, V1_19_3, Before(v, V1_20_2,
             { <<"feature_flags", "ClientboundFeatureFlags">> }))
      \cup Since(v, V1_20_5,
             { <<"cookie_request", "ClientboundCookieRequest">> })

\* protocolRegistry[v]: the rows of one state and direction.  Every version
\* of the enumeration has a definition of its own, so GetDefinition(v) is
\* protocolRegistry[v] for v \in Versions.
Registered(v, s, d) ==
    CASE s = "Handshaking"   -> IF d = "Serverbound" THEN HandshakingServerbound ELSE {}
      [] s = "Status"        -> IF d = "Serverbound" THEN StatusServerbound ELSE StatusClientbound
      [] s = "Login"         -> IF d = "Serverbound" THEN LoginServerbound(v) ELSE LoginClientbound(v)
      [] s = "Configuration" -> IF d = "Serverbound" THEN ConfigurationServerbound(v)
                                                     ELSE ConfigurationClientbound(v)
      [] s = "Play"          -> IF d = "Serverbound" THEN PlayServerbound(v) ELSE PlayClientbound(v)

-----------------------------------------------------------------------------
(* The packet types the package can construct and look up.  Two types of   *)
(* packets.go are missing from the table: ClientboundChatMessage and       *)
(* ServerboundPlayerPosition.                                              *)

packetConstructors ==
    { "ServerboundHandshake", "ClientboundDisconnect",
      "ServerboundStatusRequest", "ClientboundStatusResponse",
      "ServerboundPing", "ClientboundPong",
      "ServerboundLoginStart", "ClientboundLoginSuccess",
      "ClientboundSetCompression", "ServerboundLoginAcknowledged",
      "ServerboundFinishConfiguration", "ClientboundFinishConfiguration",
      "ServerboundConfigKeepAlive", "ClientboundConfigKeepAlive",
      "ServerboundSelectKnownPacks", "ClientboundSelectKnownPacks",
      "ClientboundCookieRequest", "ServerboundCookieResponse",
      "ClientboundConfigPing", "ServerboundConfigPong",
      "ServerboundChatMessage", "ClientboundKeepAlive",
      "ServerboundKeepAlive", "ClientboundJoinGame",
      "ServerboundClientSettings", "ServerboundCustomPayload",
      "ClientboundCustomPayload", "ClientboundFeatureFlags",
      "ClientboundUpdateTags", "ClientboundRegistryData" }

ErrUnknownPacket == "ErrUnknownPacket"

\* NewPacket: the type built for a packet ID, or the error ReadPacket turns
\* every failed lookup into.
NewPacket(v, s, d, id) ==
    LET found == { row \in Registered(v, s, d) :
                     row[1] = id /\ row[2] \in packetConstructors }
    IN  IF found = {} THEN ErrUnknownPacket ELSE (CHOOSE row \in found : TRUE)[2]

\* A mutant of HasPacketID: the state is left out of the lookup.
HasPacketIDAnywhere(v, s, d, name) ==
    /\ name \in packetConstructors
    /\ \E st \in States : \E row \in Registered(v, st, d) : row[2] = name

\* GetPacketID: whether a packet type has an ID to be written with.
HasPacketID(v, s, d, name) ==
    /\ name \in packetConstructors
    /\ \E row \in Registered(v, s, d) : row[2] = name

=============================================================================
