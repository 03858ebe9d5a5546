--------------------------- MODULE SessionProofs ---------------------------
(***************************************************************************)
(* Theorems about Session, for every set of versions and every server.     *)
(*                                                                         *)
(*   TypeCorrect    the type invariant                                     *)
(*   IDsExist       GetStatus and Join write no packet without an ID       *)
(*                                                                         *)
(* and, when nothing is asked of a client from 1.21.3 on after             *)
(* select_known_packs (it has told the server that it is done by then):    *)
(*                                                                         *)
(*   ServerFollows  every packet reaches the server in the state and with  *)
(*                  the framing it reads                                   *)
(*   ClientFollows  the same of the client                                 *)
(*   JoinAgrees     a Join that succeeds leaves both ends in the play state*)
(*   Implements     the exchange implements SessionPhases                  *)
(*                                                                         *)
(* The first two rest on ClientInv, which says nothing of the server; the  *)
(* others on SessionInv, which describes what is on its way in both        *)
(* directions as the path from one end's state to the other's.             *)
(***************************************************************************)
EXTENDS Session, SequenceTheorems, TLAPS

\* From 1.21.3 on nothing is asked of the client once select_known_packs is.
NoLateRequests == RequestsAfterPacks => \A v \in Supported : v < V1_21_3

-----------------------------------------------------------------------------
(* The client alone.                                                       *)

\* Where GetStatus or Join is, and the state it has put the connection in.
ClientPlaces ==
  /\ pc = "start" => connState = "Handshaking"
  /\ pc \in {"status", "ping"} => goal = "Status" /\ connState = "Status"
  /\ pc = "login" => goal = "Login" /\ connState = "Login"
  /\ pc = "configuration" =>
       goal = "Login" /\ connState = "Configuration" /\ version >= V1_20_2
  /\ pc = "returned" <=> result # "none"
  /\ result = "ok" => connState = IF goal = "Status" THEN "Status" ELSE "Play"

ClientInv == TypeOK /\ ClientPlaces /\ NoMissingID

-----------------------------------------------------------------------------
(* The registry.                                                           *)

\* A lookup yields the type of a row of the table, if there is one.
LEMMA Lookup ==
  ASSUME NEW v, NEW s, NEW d, NEW id
  PROVE  LET t == NewPacket(v, s, d, id)
             Row(row) == row[1] = id /\ row[2] \in packetConstructors
         IN  /\ t # ErrUnknownPacket => \E row \in Registered(v, s, d) : Row(row) /\ t = row[2]
             /\ (\E row \in Registered(v, s, d) : Row(row)) =>
                  \E row \in Registered(v, s, d) : Row(row) /\ t = row[2]
<1> DEFINE found == { row \in Registered(v, s, d) : row[1] = id /\ row[2] \in packetConstructors }
<1>1. CASE found = {}
  BY <1>1 DEF NewPacket
<1>2. CASE found # {}
  <2>1. PICK row \in found : row = CHOOSE x \in found : TRUE
    BY <1>2
  <2>2. NewPacket(v, s, d, id) = row[2]
    BY <1>2, <2>1 DEF NewPacket
  <2> QED BY <2>2
<1> QED BY <1>1, <1>2

\* Versions are numbers.
LEMMA VersionNumbers ==
  ASSUME version \in Supported
  PROVE  version \in Int
BY SessionAssumption DEF Versions, First, Latest, V1_7, V1_21_11

\* The type of a packet the client reads in a state.
TypeIn(s, id) == NewPacket(version, s, "Clientbound", id)

\* The packets of the login state.
LEMMA LoginTypes ==
  ASSUME NEW id
  PROVE  LET t == TypeIn("Login", id)
         IN  /\ t = "ClientboundLoginSuccess" <=> id = "success"
             /\ t = "ClientboundSetCompression" => id = "compress"
             /\ id = "compress" => t \in {"ClientboundSetCompression", ErrUnknownPacket}
             /\ id = "disconnect" => t = "ClientboundDisconnect"
<1> DEFINE R == Registered(version, "Login", "Clientbound")
<1>1. R = LoginClientbound(version)
  BY DEF Registered
<1>2. \A row \in R : row \in { <<"disconnect", "ClientboundDisconnect">>, <<"success", "ClientboundLoginSuccess">>,
                               <<"compress", "ClientboundSetCompression">>, <<"cookie_request", "ClientboundCookieRequest">> }
  BY <1>1 DEF LoginClientbound, Since
<1>3. <<"disconnect", "ClientboundDisconnect">> \in R /\ <<"success", "ClientboundLoginSuccess">> \in R
  BY <1>1 DEF LoginClientbound
<1>4. "ClientboundDisconnect" \in packetConstructors /\ "ClientboundLoginSuccess" \in packetConstructors
  BY DEF packetConstructors
<1>5. TypeIn("Login", id) # ErrUnknownPacket => \E row \in R : row[1] = id /\ TypeIn("Login", id) = row[2]
  BY Lookup DEF TypeIn
<1>6. id \in {"disconnect", "success"} => \E row \in R : row[1] = id /\ TypeIn("Login", id) = row[2]
  <2>1. id \in {"disconnect", "success"} => \E row \in R : row[1] = id /\ row[2] \in packetConstructors
    BY <1>3, <1>4
  <2> QED BY <2>1, Lookup DEF TypeIn
<1> QED BY <1>2, <1>5, <1>6 DEF ErrUnknownPacket

\* The packets of the configuration state.
LEMMA ConfigurationTypes ==
  ASSUME version \in Int, version >= V1_20_2, NEW id
  PROVE  LET t == TypeIn("Configuration", id)
         IN  /\ t = "ClientboundFinishConfiguration" <=> id = "finish_configuration"
             /\ t = "ClientboundDisconnect" <=> id = "disconnect"
             /\ t = "ClientboundConfigKeepAlive" <=> id = "keep_alive"
             /\ t = "ClientboundCustomPayload" <=> id = "custom_payload"
             /\ t = "ClientboundCookieRequest" <=> id = "cookie_request" /\ version >= V1_20_5
             /\ t = "ClientboundSelectKnownPacks" <=> id = "select_known_packs" /\ version >= V1_20_5
             /\ id = "cookie_request" /\ t # ErrUnknownPacket => version >= V1_20_5
<1> DEFINE R == Registered(version, "Configuration", "Clientbound")
           old == { <<"custom_payload", "ClientboundCustomPayload">>,
                    <<"disconnect", "ClientboundDisconnect">>,
                    <<"finish_configuration", "ClientboundFinishConfiguration">>,
                    <<"keep_alive", "ClientboundConfigKeepAlive">> }
           new == { <<"cookie_request", "ClientboundCookieRequest">>,
                    <<"select_known_packs", "ClientboundSelectKnownPacks">> }
           idle == { <<"ping", "ClientboundConfigPing">>,
                     <<"registry_data", "ClientboundRegistryData">>,
                     <<"feature_flags", "ClientboundFeatureFlags">> }
<1>1. R = ConfigurationClientbound(version)
  BY DEF Registered
<1>2. R = old \cup idle \cup (IF version >= V1_20_5 THEN new ELSE {})
  BY <1>1 DEF ConfigurationClientbound, Since
<1>3. \A row \in old \cup new : row[2] \in packetConstructors
  BY DEF packetConstructors
<1>4. TypeIn("Configuration", id) # ErrUnknownPacket => \E row \in R : row[1] = id /\ TypeIn("Configuration", id) = row[2]
  BY Lookup DEF TypeIn
<1>5. (\E row \in R : row[1] = id /\ row[2] \in packetConstructors) => \E row \in R : row[1] = id /\ TypeIn("Configuration", id) = row[2]
  BY Lookup DEF TypeIn
<1>6. id \in {"custom_payload", "disconnect", "finish_configuration", "keep_alive"} =>
        \E row \in R : row[1] = id /\ TypeIn("Configuration", id) = row[2]
  BY <1>2, <1>3, <1>5
<1>7. id \in {"cookie_request", "select_known_packs"} /\ version >= V1_20_5 =>
        \E row \in R : row[1] = id /\ TypeIn("Configuration", id) = row[2]
  BY <1>2, <1>3, <1>5
<1> HIDE DEF R
<1>8. CASE version >= V1_20_5
  BY <1>2, <1>4, <1>6, <1>7, <1>8 DEF ErrUnknownPacket
<1>9. CASE ~(version >= V1_20_5)
  BY <1>2, <1>4, <1>6, <1>9 DEF ErrUnknownPacket
<1> QED BY <1>8, <1>9

\* The packets GetStatus and Join write are registered.
LEMMA Registrations ==
  ASSUME version \in Int
  PROVE  LET Has(s, name) == HasPacketID(version, s, "Serverbound", name)
         IN  /\ Has("Handshaking", "ServerboundHandshake")
             /\ Has("Status", "ServerboundStatusRequest")
             /\ Has("Status", "ServerboundPing")
             /\ Has("Login", "ServerboundLoginStart")
             /\ Has("Play", "ServerboundClientSettings")
             /\ version >= V1_20_2 =>
                  /\ Has("Login", "ServerboundLoginAcknowledged")
                  /\ Has("Configuration", "ServerboundClientSettings")
                  /\ Has("Configuration", "ServerboundConfigKeepAlive")
                  /\ Has("Configuration", "ServerboundCustomPayload")
                  /\ Has("Configuration", FinishConfiguration)
             /\ version >= V1_20_5 =>
                  /\ Has("Configuration", "ServerboundCookieResponse")
                  /\ Has("Configuration", "ServerboundSelectKnownPacks")
<1> DEFINE Rows(s) == Registered(version, s, "Serverbound")
           Has(s, name) == HasPacketID(version, s, "Serverbound", name)
<1>1. ASSUME NEW s, NEW id, NEW name \in packetConstructors, <<id, name>> \in Rows(s)
      PROVE  Has(s, name)
  BY <1>1 DEF HasPacketID
<1>2. /\ <<"set_protocol", "ServerboundHandshake">> \in Rows("Handshaking")
      /\ <<"ping_start", "ServerboundStatusRequest">> \in Rows("Status")
      /\ <<"ping", "ServerboundPing">> \in Rows("Status")
      /\ <<"login_start", "ServerboundLoginStart">> \in Rows("Login")
      /\ <<"settings", "ServerboundClientSettings">> \in Rows("Play")
  BY DEF Registered, HandshakingServerbound, StatusServerbound, LoginServerbound, PlayServerbound
<1>3. version >= V1_20_2 =>
      /\ <<"login_acknowledged", "ServerboundLoginAcknowledged">> \in Rows("Login")
      /\ <<"settings", "ServerboundClientSettings">> \in Rows("Configuration")
      /\ <<"keep_alive", "ServerboundConfigKeepAlive">> \in Rows("Configuration")
      /\ <<"custom_payload", "ServerboundCustomPayload">> \in Rows("Configuration")
      /\ <<"finish_configuration", FinishConfiguration>> \in Rows("Configuration")
  BY DEF Registered, LoginServerbound, ConfigurationServerbound, Since, FinishConfiguration
<1>4. version >= V1_20_5 =>
      /\ <<"cookie_response", "ServerboundCookieResponse">> \in Rows("Configuration")
      /\ <<"select_known_packs", "ServerboundSelectKnownPacks">> \in Rows("Configuration")
  BY DEF Registered, ConfigurationServerbound, Since
<1>5. {"ServerboundHandshake", "ServerboundStatusRequest", "ServerboundPing", "ServerboundLoginStart",
       "ServerboundClientSettings", "ServerboundLoginAcknowledged", "ServerboundConfigKeepAlive",
       "ServerboundCustomPayload", FinishConfiguration, "ServerboundCookieResponse",
       "ServerboundSelectKnownPacks"} \subseteq packetConstructors
  BY DEF packetConstructors, FinishConfiguration
<1> HIDE DEF Rows, Has
<1>6. /\ Has("Handshaking", "ServerboundHandshake")
      /\ Has("Status", "ServerboundStatusRequest")
      /\ Has("Status", "ServerboundPing")
      /\ Has("Login", "ServerboundLoginStart")
      /\ Has("Play", "ServerboundClientSettings")
  BY <1>1, <1>2, <1>5
<1>7. version >= V1_20_2 =>
      /\ Has("Login", "ServerboundLoginAcknowledged")
      /\ Has("Configuration", "ServerboundClientSettings")
      /\ Has("Configuration", "ServerboundConfigKeepAlive")
      /\ Has("Configuration", "ServerboundCustomPayload")
      /\ Has("Configuration", FinishConfiguration)
  BY <1>1, <1>3, <1>5
<1>8. version >= V1_20_5 =>
      /\ Has("Configuration", "ServerboundCookieResponse")
      /\ Has("Configuration", "ServerboundSelectKnownPacks")
  BY <1>1, <1>4, <1>5
<1> QED BY <1>6, <1>7, <1>8 DEF Has

-----------------------------------------------------------------------------
(* What a handler does.                                                    *)

Messages == [state : States, name : packetConstructors]

Writable(w) == w \in Messages /\ HasPacketID(version, w.state, "Serverbound", w.name)

Written == [state : States, name : packetConstructors, comp : BOOLEAN]

\* The packets ws are appended to those on their way to the server.
Adds(ws) ==
  /\ toServer' \in Seq(Written)
  /\ Len(toServer') = Len(toServer) + Len(ws)
  /\ \A i \in 1 .. Len(toServer) : toServer'[i] = toServer[i]
  /\ \A i \in 1 .. Len(ws) :
       toServer'[Len(toServer) + i] = [state |-> ws[i].state, name |-> ws[i].name, comp |-> threshold]

\* A handler all of whose packets have IDs writes them and goes on as it says.
LEMMA FinishWrites ==
  ASSUME toServer \in Seq(Written), threshold \in BOOLEAN,
         NEW ws \in Seq(Messages), \A i \in 1 .. Len(ws) : Writable(ws[i]),
         NEW s, NEW next, NEW res, Finish(ws, s, next, res)
  PROVE  Adds(ws) /\ connState' = s /\ pc' = next /\ result' = res
<1> DEFINE add == [i \in 1 .. Len(ws) |-> [state |-> ws[i].state, name |-> ws[i].name, comp |-> threshold]]
<1>1. DOMAIN ws = 1 .. Len(ws) /\ Len(ws) \in Nat
  OBVIOUS
<1>2. \A i \in DOMAIN ws : HasPacketID(version, ws[i].state, "Serverbound", ws[i].name)
  BY <1>1 DEF Writable
<1>3. toServer' = toServer \o add /\ connState' = s /\ pc' = next /\ result' = res
  BY <1>2 DEF Finish
<1>4. add \in Seq(Written) /\ Len(add) = Len(ws)
  <2>1. \A i \in 1 .. Len(ws) : add[i] \in Written
    BY DEF Writable, Messages, Written
  <2> QED BY <1>1, <2>1
<1> HIDE DEF add
<1>5. /\ toServer' \in Seq(Written)
      /\ Len(toServer') = Len(toServer) + Len(add)
      /\ \A i \in 1 .. Len(toServer) : toServer'[i] = toServer[i]
      /\ \A i \in 1 .. Len(add) : toServer'[Len(toServer) + i] = add[i]
  <2>1. /\ toServer' \in Seq(Written)
        /\ Len(toServer') = Len(toServer) + Len(add)
        /\ \A i \in 1 .. Len(toServer) + Len(add) :
             toServer'[i] = IF i <= Len(toServer) THEN toServer[i] ELSE add[i - Len(toServer)]
    BY <1>3, <1>4, ConcatProperties
  <2>2. Len(toServer) \in Nat /\ Len(add) \in Nat
    BY <1>4
  <2>3. \A i \in 1 .. Len(toServer) : toServer'[i] = toServer[i]
    BY <2>1, <2>2
  <2>4. ASSUME NEW i \in 1 .. Len(add) PROVE toServer'[Len(toServer) + i] = add[i]
    <3>1. Len(toServer) + i \in 1 .. Len(toServer) + Len(add) /\ ~(Len(toServer) + i <= Len(toServer))
          /\ Len(toServer) + i - Len(toServer) = i
      BY <2>2
    <3> QED BY <2>1, <3>1
  <2> QED BY <2>1, <2>3, <2>4
<1> QED BY <1>3, <1>4, <1>5 DEF Adds, add

\* The cases that occur: no packet, one, two.
LEMMA AddsNone ==
  ASSUME toServer \in Seq(Written), Adds(<<>>)
  PROVE  toServer' = toServer
<1>1. toServer' \in Seq(Written) /\ Len(toServer') = Len(toServer)
  BY DEF Adds
<1>2. \A i \in 1 .. Len(toServer) : toServer'[i] = toServer[i]
  BY DEF Adds
<1> QED BY <1>1, <1>2, SeqEqual

\* A handler that writes one packet.
LEMMA AddsOne ==
  ASSUME NEW w, Adds(<<w>>)
  PROVE  /\ Len(toServer') = Len(toServer) + 1
         /\ toServer'[Len(toServer) + 1] = [state |-> w.state, name |-> w.name, comp |-> threshold]
BY DEF Adds

\* A handler that writes two.
LEMMA AddsTwo ==
  ASSUME NEW w, NEW x, Adds(<<w, x>>)
  PROVE  /\ Len(toServer') = Len(toServer) + 2
         /\ toServer'[Len(toServer) + 1] = [state |-> w.state, name |-> w.name, comp |-> threshold]
         /\ toServer'[Len(toServer) + 2] = [state |-> x.state, name |-> x.name, comp |-> threshold]
BY DEF Adds

\* A handler's step, when every packet it writes has an ID.
Moves(ws, s, next, res) == Adds(ws) /\ connState' = s /\ pc' = next /\ result' = res

Fails == Moves(<<>>, connState, "returned", "error")

\* Where every packet a handler writes has an ID, Finish takes none of its error
\* returns.
LEMMA FinishMoves ==
  ASSUME ClientInv, NEW s, NEW next, NEW res
  PROVE  /\ Finish(<<>>, s, next, res) => Moves(<<>>, s, next, res)
         /\ \A w \in Messages :
              Writable(w) /\ Finish(<<w>>, s, next, res) => Moves(<<w>>, s, next, res)
         /\ \A w, x \in Messages :
              Writable(w) /\ Writable(x) /\ Finish(<<w, x>>, s, next, res) => Moves(<<w, x>>, s, next, res)
<1>0. toServer \in Seq(Written) /\ threshold \in BOOLEAN
  BY DEF ClientInv, TypeOK, Written
<1>1. ASSUME Finish(<<>>, s, next, res) PROVE Moves(<<>>, s, next, res)
  <2> DEFINE ws == <<>>
  <2>1. ws \in Seq(Messages) /\ \A i \in 1 .. Len(ws) : Writable(ws[i])
    OBVIOUS
  <2>2. Finish(ws, s, next, res)
    BY <1>1
  <2> HIDE DEF ws
  <2>3. Moves(ws, s, next, res)
    BY <1>0, <2>1, <2>2, FinishWrites DEF Moves
  <2> QED BY <2>3 DEF ws
<1>2. ASSUME NEW w \in Messages, Writable(w), Finish(<<w>>, s, next, res)
      PROVE  Moves(<<w>>, s, next, res)
  <2> DEFINE ws == <<w>>
  <2>1. ws \in Seq(Messages) /\ \A i \in 1 .. Len(ws) : Writable(ws[i])
    BY <1>2 DEF Writable
  <2>2. Finish(ws, s, next, res)
    BY <1>2
  <2> HIDE DEF ws
  <2>3. Moves(ws, s, next, res)
    BY <1>0, <2>1, <2>2, FinishWrites DEF Moves
  <2> QED BY <2>3 DEF ws
<1>3. ASSUME NEW w \in Messages, NEW x \in Messages,
             Writable(w), Writable(x), Finish(<<w, x>>, s, next, res)
      PROVE  Moves(<<w, x>>, s, next, res)
  <2> DEFINE ws == <<w, x>>
  <2>1. ws \in Seq(Messages) /\ \A i \in 1 .. Len(ws) : Writable(ws[i])
    BY <1>3
  <2>2. Finish(ws, s, next, res)
    BY <1>3
  <2> HIDE DEF ws
  <2>3. Moves(ws, s, next, res)
    BY <1>0, <2>1, <2>2, FinishWrites DEF Moves
  <2> QED BY <2>3 DEF ws
<1> QED BY <1>1, <1>2, <1>3

\* What each action of the client does: no call fails for want of an ID.
LEMMA Effects ==
  ASSUME ClientInv
  PROVE  /\ StatusStart =>
              Moves(<<W("Handshaking", "ServerboundHandshake"), W("Status", "ServerboundStatusRequest")>>,
                    "Status", "status", "none")
         /\ StatusResponse =>
              IF Type = "ClientboundStatusResponse"
              THEN Moves(<<W("Status", "ServerboundPing")>>, "Status", "ping", "none")
              ELSE Fails
         /\ StatusPong =>
              IF Type = "ClientboundPong" THEN Moves(<<>>, "Status", "returned", "ok") ELSE Fails
         /\ LoginStart =>
              Moves(<<W("Handshaking", "ServerboundHandshake"), W("Login", "ServerboundLoginStart")>>,
                    "Login", "login", "none")
         /\ LoginNoName =>
              Moves(<<W("Handshaking", "ServerboundHandshake")>>, "Login", "returned", "error")
         /\ LoginCompression => Moves(<<>>, "Login", "login", "none")
         /\ LoginSuccess =>
              IF version >= V1_20_2
              THEN Moves(<<W("Login", "ServerboundLoginAcknowledged"),
                           W("Configuration", "ServerboundClientSettings")>>,
                         "Configuration", "configuration", "none")
              ELSE Moves(<<W("Play", "ServerboundClientSettings")>>, "Play", "returned", "ok")
         /\ LoginOther =>
              IF Type \in {"ClientboundDisconnect", ErrUnknownPacket}
              THEN Fails ELSE Moves(<<>>, "Login", "login", "none")
         /\ ConfigurationPacket =>
              Moves(ConfigurationAnswer(Type), "Configuration", "configuration", "none")
         /\ ConfigurationFinish =>
              Moves(IF FinishesLast THEN <<W("Configuration", FinishConfiguration)>> ELSE <<>>,
                    "Play", "returned", "ok")
         /\ ConfigurationDisconnect => Fails
         /\ ConnectionError => Fails
<1>0. version \in Int
  BY VersionNumbers DEF ClientInv, TypeOK
<1>1. \A w : Writable(w) => w \in Messages
  BY DEF Writable
<1>2. ASSUME NEW s \in States, NEW name, HasPacketID(version, s, "Serverbound", name)
      PROVE  Writable(W(s, name))
  BY <1>2 DEF Writable, Messages, HasPacketID, W
<1>3. /\ "Handshaking" \in States /\ "Status" \in States /\ "Login" \in States
      /\ "Configuration" \in States /\ "Play" \in States
  BY DEF States
<1>4. /\ Writable(W("Handshaking", "ServerboundHandshake"))
      /\ Writable(W("Status", "ServerboundStatusRequest"))
      /\ Writable(W("Status", "ServerboundPing"))
      /\ Writable(W("Login", "ServerboundLoginStart"))
      /\ Writable(W("Play", "ServerboundClientSettings"))
  BY <1>0, <1>2, <1>3, Registrations
<1>5. version >= V1_20_2 =>
        /\ Writable(W("Login", "ServerboundLoginAcknowledged"))
        /\ Writable(W("Configuration", "ServerboundClientSettings"))
        /\ Writable(W("Configuration", "ServerboundConfigKeepAlive"))
        /\ Writable(W("Configuration", "ServerboundCustomPayload"))
        /\ Writable(W("Configuration", FinishConfiguration))
  BY <1>0, <1>2, <1>3, Registrations DEF FinishConfiguration
<1>6. version >= V1_20_5 =>
        /\ Writable(W("Configuration", "ServerboundCookieResponse"))
        /\ Writable(W("Configuration", "ServerboundSelectKnownPacks"))
  BY <1>0, <1>2, <1>3, Registrations
<1>7. Fail => Fails
  BY FinishMoves DEF Fail, Fails
<1>8. ASSUME StatusStart
      PROVE  Moves(<<W("Handshaking", "ServerboundHandshake"), W("Status", "ServerboundStatusRequest")>>,
                   "Status", "status", "none")
  BY <1>1, <1>4, <1>8, FinishMoves DEF StatusStart, StatusState, Continue
<1>9. ASSUME StatusResponse
      PROVE  IF Type = "ClientboundStatusResponse"
             THEN Moves(<<W("Status", "ServerboundPing")>>, "Status", "ping", "none")
             ELSE Fails
  <2>1. connState = "Status"
    BY <1>9 DEF StatusResponse, Received, ClientInv, ClientPlaces
  <2> QED BY <1>1, <1>4, <1>7, <1>9, <2>1, FinishMoves DEF StatusResponse, Continue
<1>10. ASSUME StatusPong
       PROVE  IF Type = "ClientboundPong" THEN Moves(<<>>, "Status", "returned", "ok") ELSE Fails
  <2>1. connState = "Status"
    BY <1>10 DEF StatusPong, Received, ClientInv, ClientPlaces
  <2> QED BY <1>7, <1>10, <2>1, FinishMoves DEF StatusPong, Return
<1>11. ASSUME LoginStart
       PROVE  Moves(<<W("Handshaking", "ServerboundHandshake"), W("Login", "ServerboundLoginStart")>>,
                    "Login", "login", "none")
  BY <1>1, <1>4, <1>11, FinishMoves DEF LoginStart, Continue
<1>12. ASSUME LoginNoName
       PROVE  Moves(<<W("Handshaking", "ServerboundHandshake")>>, "Login", "returned", "error")
  BY <1>1, <1>4, <1>12, FinishMoves DEF LoginNoName
<1>13. ASSUME LoginCompression
       PROVE  Moves(<<>>, "Login", "login", "none")
  <2>1. connState = "Login"
    BY <1>13 DEF LoginCompression, Received, ClientInv, ClientPlaces
  <2> QED BY <1>13, <2>1, FinishMoves DEF LoginCompression, Continue
<1>14. ASSUME LoginSuccess
       PROVE  IF version >= V1_20_2
              THEN Moves(<<W("Login", "ServerboundLoginAcknowledged"),
                           W("Configuration", "ServerboundClientSettings")>>,
                         "Configuration", "configuration", "none")
              ELSE Moves(<<W("Play", "ServerboundClientSettings")>>, "Play", "returned", "ok")
  <2>1. connState = "Login"
    BY <1>14 DEF LoginSuccess, Received, ClientInv, ClientPlaces
  <2>2. CASE version >= V1_20_2
    BY <1>1, <1>5, <1>14, <2>1, <2>2, FinishMoves DEF LoginSuccess, Continue, Acknowledgement
  <2>3. CASE ~(version >= V1_20_2)
    BY <1>1, <1>4, <1>14, <2>3, FinishMoves DEF LoginSuccess, Return
  <2> QED BY <2>2, <2>3
<1>15. ASSUME LoginOther
       PROVE  IF Type \in {"ClientboundDisconnect", ErrUnknownPacket}
              THEN Fails ELSE Moves(<<>>, "Login", "login", "none")
  <2>1. connState = "Login"
    BY <1>15 DEF LoginOther, Received, ClientInv, ClientPlaces
  <2> QED BY <1>7, <1>15, <2>1, FinishMoves DEF LoginOther, Continue
<1>16. ASSUME ConfigurationPacket
       PROVE  Moves(ConfigurationAnswer(Type), "Configuration", "configuration", "none")
  <2>1. connState = "Configuration" /\ version >= V1_20_2
    BY <1>16 DEF ConfigurationPacket, Received, ClientInv, ClientPlaces
  <2>2. Finish(ConfigurationAnswer(Type), "Configuration", "configuration", "none")
    BY <1>16, <2>1 DEF ConfigurationPacket, Continue
  <2>3. Type \in {"ClientboundCookieRequest", "ClientboundSelectKnownPacks"} => version >= V1_20_5
    BY <1>0, <2>1, ConfigurationTypes DEF Type, TypeIn
  <2>4. CASE Type = "ClientboundConfigKeepAlive"
    BY <1>1, <1>5, <2>1, <2>2, <2>4, FinishMoves DEF ConfigurationAnswer
  <2>5. CASE Type = "ClientboundCustomPayload"
    BY <1>1, <1>5, <2>1, <2>2, <2>5, FinishMoves DEF ConfigurationAnswer
  <2>6. CASE Type = "ClientboundCookieRequest"
    BY <1>1, <1>6, <2>1, <2>2, <2>3, <2>6, FinishMoves DEF ConfigurationAnswer
  <2>7. CASE Type = "ClientboundSelectKnownPacks" /\ FinishesFirst
    BY <1>1, <1>5, <1>6, <2>1, <2>2, <2>3, <2>7, FinishMoves
       DEF ConfigurationAnswer, KnownPacks, FinishConfiguration
  <2>8. CASE Type = "ClientboundSelectKnownPacks" /\ ~FinishesFirst
    BY <1>1, <1>6, <2>1, <2>2, <2>3, <2>8, FinishMoves DEF ConfigurationAnswer, KnownPacks
  <2>9. CASE Type \notin {"ClientboundConfigKeepAlive", "ClientboundCustomPayload",
                         "ClientboundCookieRequest", "ClientboundSelectKnownPacks"}
    BY <2>2, <2>9, FinishMoves DEF ConfigurationAnswer
  <2> QED BY <2>4, <2>5, <2>6, <2>7, <2>8, <2>9
<1>17. ASSUME ConfigurationFinish
       PROVE  Moves(IF FinishesLast THEN <<W("Configuration", FinishConfiguration)>> ELSE <<>>,
                    "Play", "returned", "ok")
  <2>1. connState = "Configuration" /\ version >= V1_20_2
    BY <1>17 DEF ConfigurationFinish, Received, ClientInv, ClientPlaces
  <2>2. CASE FinishesLast
    BY <1>1, <1>5, <1>17, <2>1, <2>2, FinishMoves
       DEF ConfigurationFinish, Return, AfterFinish, FinishConfiguration
  <2>3. CASE ~FinishesLast
    BY <1>17, <2>3, FinishMoves DEF ConfigurationFinish, Return, AfterFinish
  <2> QED BY <2>2, <2>3
<1>18. ConfigurationDisconnect => Fails
  BY <1>7 DEF ConfigurationDisconnect
<1>19. ConnectionError => Fails
  BY <1>7 DEF ConnectionError
<1> QED
  BY <1>8, <1>9, <1>10, <1>11, <1>12, <1>13, <1>14, <1>15, <1>16, <1>17, <1>18, <1>19


-----------------------------------------------------------------------------
(* The client's invariant.                                                 *)

Readable == [state : States, wire : Wires, comp : BOOLEAN]

\* What no action of the client changes, and what it may do to the rest.
LEMMA ClientFrame ==
  ASSUME ClientInv, Client
  PROVE  /\ UNCHANGED <<version, goal, serverVars, lost>>
         /\ threshold' \in BOOLEAN
         /\ toClient' \in Seq(Readable)
         /\ \E ws, s, next, res : Moves(ws, s, next, res)
<1>1. toClient \in Seq(Readable) /\ threshold \in BOOLEAN
  BY DEF ClientInv, TypeOK, Readable
<1>2. toClient # <<>> => Tail(toClient) \in Seq(Readable)
  BY <1>1
<1>3. \A ws, s, next, res : Moves(ws, s, next, res) => \E a, b, c, d : Moves(a, b, c, d)
  OBVIOUS
<1>4. Fails => \E a, b, c, d : Moves(a, b, c, d)
  BY DEF Fails
<1>5. ASSUME StatusStart \/ LoginStart \/ LoginNoName
      PROVE  /\ UNCHANGED <<version, goal, serverVars, lost>>
             /\ threshold' \in BOOLEAN
             /\ toClient' \in Seq(Readable)
  BY <1>1, <1>5 DEF StatusStart, LoginStart, LoginNoName
<1>6. ASSUME StatusResponse \/ StatusPong \/ LoginSuccess \/ LoginOther \/ ConfigurationPacket
               \/ ConfigurationFinish \/ ConfigurationDisconnect
      PROVE  /\ UNCHANGED <<version, goal, serverVars, lost>>
             /\ threshold' \in BOOLEAN
             /\ toClient' \in Seq(Readable)
  BY <1>1, <1>2, <1>6
     DEF StatusResponse, StatusPong, LoginSuccess, LoginOther, ConfigurationPacket,
         ConfigurationFinish, ConfigurationDisconnect, Received
<1>7. ASSUME LoginCompression \/ ConnectionError
      PROVE  /\ UNCHANGED <<version, goal, serverVars, lost>>
             /\ threshold' \in BOOLEAN
             /\ toClient' \in Seq(Readable)
  BY <1>1, <1>2, <1>7 DEF LoginCompression, ConnectionError, Received
<1>8. \E ws, s, next, res : Moves(ws, s, next, res)
  BY Effects, <1>3, <1>4 DEF Client
<1> QED BY <1>5, <1>6, <1>7, <1>8 DEF Client

\* Where the client is after a step of its own.
LEMMA ClientGoes ==
  ASSUME ClientInv, Client
  PROVE  ClientPlaces' /\ connState' \in StatesOfGoal'
         /\ pc' \in {"start", "status", "ping", "login", "configuration", "returned"}
         /\ result' \in {"none", "ok", "error"}
<1> DEFINE Good == /\ ClientPlaces' /\ connState' \in StatesOfGoal'
                   /\ pc' \in {"start", "status", "ping", "login", "configuration", "returned"}
                   /\ result' \in {"none", "ok", "error"}
<1>1. version' = version /\ goal' = goal /\ version \in Int
  BY ClientFrame, VersionNumbers DEF ClientInv, TypeOK
<1>2. goal \in {"Status", "Login"} /\ connState \in StatesOfGoal
  BY DEF ClientInv, TypeOK
<1>3. Fails => Good
  BY <1>1, <1>2 DEF Fails, Moves, ClientPlaces, StatesOfGoal
<1>4. \A ws : goal = "Status" /\ Moves(ws, "Status", "status", "none") => Good
  BY <1>1 DEF Moves, ClientPlaces, StatesOfGoal
<1>5. \A ws : goal = "Status" /\ Moves(ws, "Status", "ping", "none") => Good
  BY <1>1 DEF Moves, ClientPlaces, StatesOfGoal
<1>6. \A ws : goal = "Status" /\ Moves(ws, "Status", "returned", "ok") => Good
  BY <1>1 DEF Moves, ClientPlaces, StatesOfGoal
<1>7. \A ws : goal = "Login" /\ Moves(ws, "Login", "login", "none") => Good
  BY <1>1 DEF Moves, ClientPlaces, StatesOfGoal
<1>8. \A ws : goal = "Login" /\ Moves(ws, "Login", "returned", "error") => Good
  BY <1>1 DEF Moves, ClientPlaces, StatesOfGoal
<1>9. \A ws : goal = "Login" /\ version >= V1_20_2
              /\ Moves(ws, "Configuration", "configuration", "none") => Good
  BY <1>1 DEF Moves, ClientPlaces, StatesOfGoal
<1>10. \A ws : goal = "Login" /\ Moves(ws, "Play", "returned", "ok") => Good
  BY <1>1 DEF Moves, ClientPlaces, StatesOfGoal
<1> SUFFICES Good
  BY DEF Good
<1> HIDE DEF Good
<1>11. /\ pc \in {"status", "ping"} => goal = "Status"
       /\ pc = "login" => goal = "Login"
       /\ pc = "configuration" => goal = "Login" /\ version >= V1_20_2
  BY DEF ClientInv, ClientPlaces
<1>12. CASE StatusStart
  BY <1>4, <1>12, Effects DEF StatusStart
<1>13. CASE StatusResponse
  BY <1>3, <1>5, <1>11, <1>13, Effects DEF StatusResponse, Received
<1>14. CASE StatusPong
  BY <1>3, <1>6, <1>11, <1>14, Effects DEF StatusPong, Received
<1>15. CASE LoginStart
  BY <1>7, <1>15, Effects DEF LoginStart
<1>16. CASE LoginNoName
  BY <1>8, <1>16, Effects DEF LoginNoName
<1>17. CASE LoginCompression
  BY <1>7, <1>11, <1>17, Effects DEF LoginCompression, Received
<1>18. CASE LoginSuccess
  BY <1>9, <1>10, <1>11, <1>18, Effects DEF LoginSuccess, Received
<1>19. CASE LoginOther
  BY <1>3, <1>7, <1>11, <1>19, Effects DEF LoginOther, Received
<1>20. CASE ConfigurationPacket
  BY <1>9, <1>11, <1>20, Effects DEF ConfigurationPacket, Received
<1>21. CASE ConfigurationFinish
  BY <1>10, <1>11, <1>21, Effects DEF ConfigurationFinish, Received
<1>22. CASE ConfigurationDisconnect \/ ConnectionError
  BY <1>3, <1>22, Effects
<1> QED
  BY <1>12, <1>13, <1>14, <1>15, <1>16, <1>17, <1>18, <1>19, <1>20, <1>21, <1>22 DEF Client

\* The server never touches the client's variables, and keeps the types.
LEMMA ServerKeeps ==
  ASSUME TypeOK, Server \/ Lose
  PROVE  TypeOK' /\ UNCHANGED <<version, goal, clientVars>>
<1> DEFINE Steps == {"handshake", "request", "server_info", "ping", "login",
                     "acknowledgement", "packs", "packsSent", "configuration",
                     "finish", "play", "done", "gone"}
<1>0. /\ toServer \in Seq(Written) /\ toClient \in Seq(Readable)
      /\ asked \in Seq(packetConstructors) /\ answers \in Seq(packetConstructors)
      /\ extra \in 0 .. MaxExtra /\ MaxExtra \in Nat
      /\ serverIn \in States /\ serverOut \in States /\ serverComp \in BOOLEAN
      /\ serverStep \in Steps /\ lost \in BOOLEAN /\ goal \in {"Status", "Login"}
  BY SessionAssumption DEF TypeOK, Written, Readable
<1>1. ASSUME NEW wire \in Wires, Send(wire)
      PROVE  toClient' \in Seq(Readable)
  BY <1>0, <1>1 DEF Send, Readable
<1>2. {"server_info", "ping", "success", "compress", "encryption_begin", "disconnect",
       "finish_configuration", "registry_data", "tags", "login", "keep_alive", "custom_payload",
       "cookie_request", "select_known_packs"} \subseteq Wires
      /\ DOMAIN AnswerTo = {"keep_alive", "custom_payload", "cookie_request", "select_known_packs"}
  BY DEF Wires, AnswerTo
<1>3. \A wire \in DOMAIN AnswerTo : AnswerTo[wire] \in packetConstructors
  BY DEF AnswerTo, packetConstructors
<1>4. States = {"Handshaking", "Status", "Login", "Play", "Configuration"}
  BY DEF States
<1>5. ASSUME UNCHANGED <<version, goal, clientVars>>,
             toServer' \in Seq(Written), toClient' \in Seq(Readable),
             asked' \in Seq(packetConstructors), answers' \in Seq(packetConstructors),
             extra' \in 0 .. MaxExtra, serverIn' \in States, serverOut' \in States,
             serverComp' \in BOOLEAN, serverStep' \in Steps, lost' \in BOOLEAN
      PROVE  TypeOK'
  BY <1>5 DEF TypeOK, Written, Readable, clientVars, StatesOfGoal
<1>6. CASE ServerReceive
  <2>1. Head(toServer) \in Written /\ Tail(toServer) \in Seq(Written)
    BY <1>0, <1>6 DEF ServerReceive
  <2>2. Head(toServer).name \in packetConstructors
    BY <2>1 DEF Written
  <2>3. StepAfter(Head(toServer).name) \in Steps
    BY <1>0 DEF StepAfter
  <2>4. UNCHANGED <<version, goal, clientVars, toClient, serverComp, extra, asked, lost>>
    BY <1>6 DEF ServerReceive
  <2>5. toServer' \in Seq(Written) /\ serverStep' \in Steps
    BY <1>6, <2>1, <2>3 DEF ServerReceive
  <2>6. serverIn' \in States
    BY <1>0, <1>4, <1>6 DEF ServerReceive
  <2>7. serverOut' \in States
    BY <1>0, <1>6, <2>6 DEF ServerReceive
  <2>8. answers' \in Seq(packetConstructors)
    BY <1>0, <1>6, <2>2 DEF ServerReceive
  <2> QED BY <1>0, <1>5, <2>4, <2>5, <2>6, <2>7, <2>8
<1>7. CASE ServerRequired
  <2>1. UNCHANGED <<version, goal, clientVars, toServer, serverComp, extra, answers, lost>>
    BY <1>7 DEF ServerRequired
  <2>2. \E wire \in Wires : Send(wire)
    BY <1>2, <1>7 DEF ServerRequired
  <2>3. serverStep' \in Steps /\ serverIn' \in States /\ serverOut' \in States
    BY <1>0, <1>4, <1>7 DEF ServerRequired
  <2>4. asked' = asked \/ \E wire \in DOMAIN AnswerTo : asked' = Append(asked, AnswerTo[wire])
    BY <1>2, <1>7 DEF ServerRequired
  <2>5. asked' \in Seq(packetConstructors)
    <3>1. CASE asked' = asked
      BY <1>0, <3>1
    <3>2. CASE \E wire \in DOMAIN AnswerTo : asked' = Append(asked, AnswerTo[wire])
      <4>1. PICK name \in packetConstructors : asked' = Append(asked, name)
        BY <1>3, <3>2, Zenon
      <4> QED BY <1>0, <4>1
    <3> QED BY <2>4, <3>1, <3>2
  <2> QED BY <1>0, <1>1, <1>5, <2>1, <2>2, <2>3, <2>5
<1>8. CASE ServerCompress
  <2>1. UNCHANGED <<version, goal, clientVars, toServer, serverIn, serverOut,
                 serverStep, extra, asked, answers, lost>> /\ serverComp' = TRUE /\ Send("compress")
    BY <1>8 DEF ServerCompress
  <2> QED BY <1>0, <1>1, <1>2, <1>5, <2>1
<1>9. CASE ServerExtra
  <2>1. UNCHANGED <<version, goal, clientVars, toServer, serverIn, serverOut,
                 serverComp, answers, lost>> /\ extra' \in 0 .. MaxExtra
    BY <1>0, <1>9 DEF ServerExtra
  <2>2. \E wire \in Wires : Send(wire)
    BY <1>2, <1>9 DEF ServerExtra
  <2>3. serverStep' \in Steps
    BY <1>0, <1>9 DEF ServerExtra
  <2>4. asked' = asked \/ \E wire \in DOMAIN AnswerTo : asked' = Append(asked, AnswerTo[wire])
    BY <1>2, <1>9 DEF ServerExtra
  <2>5. asked' \in Seq(packetConstructors)
    <3>1. CASE asked' = asked
      BY <1>0, <3>1
    <3>2. CASE \E wire \in DOMAIN AnswerTo : asked' = Append(asked, AnswerTo[wire])
      <4>1. PICK name \in packetConstructors : asked' = Append(asked, name)
        BY <1>3, <3>2, Zenon
      <4> QED BY <1>0, <4>1
    <3> QED BY <2>4, <3>1, <3>2
  <2> QED BY <1>0, <1>1, <1>5, <2>1, <2>2, <2>3, <2>5
<1>10. CASE Lose
  BY <1>0, <1>5, <1>10 DEF Lose, serverVars
<1> QED BY <1>6, <1>7, <1>8, <1>9, <1>10 DEF Server, ServerReceive, ServerRequired, ServerCompress, ServerExtra, Lose

\* The client's invariant is inductive.
LEMMA ClientInvStep == ClientInv /\ [Next]_vars => ClientInv'
<1> SUFFICES ASSUME ClientInv, [Next]_vars PROVE ClientInv'
  OBVIOUS
<1>1. CASE Client
  <2>1. /\ UNCHANGED <<version, goal, serverVars, lost>> /\ threshold' \in BOOLEAN
        /\ toClient' \in Seq(Readable)
    BY <1>1, ClientFrame
  <2>2. toServer' \in Seq(Written)
    BY <1>1, ClientFrame DEF Moves, Adds
  <2>3. /\ ClientPlaces' /\ connState' \in StatesOfGoal'
        /\ pc' \in {"start", "status", "ping", "login", "configuration", "returned"}
        /\ result' \in {"none", "ok", "error"}
    BY <1>1, ClientGoes
  <2>4. TypeOK'
    BY <2>1, <2>2, <2>3 DEF ClientInv, TypeOK, serverVars, Readable, Written
  <2> QED BY <2>3, <2>4 DEF ClientInv, NoMissingID
<1>2. CASE Server \/ Lose
  BY <1>2, ServerKeeps DEF ClientInv, ClientPlaces, NoMissingID, clientVars
<1>3. CASE UNCHANGED vars
  <2>0. /\ version' = version /\ goal' = goal /\ connState' = connState /\ pc' = pc
        /\ threshold' = threshold /\ result' = result /\ lost' = lost
        /\ toServer' = toServer /\ toClient' = toClient
        /\ serverIn' = serverIn /\ serverOut' = serverOut /\ serverComp' = serverComp
        /\ serverStep' = serverStep /\ extra' = extra /\ asked' = asked /\ answers' = answers
    BY <1>3, Zenon DEF vars, clientVars, serverVars
  <2>1. StatesOfGoal' = StatesOfGoal
    BY <2>0 DEF StatesOfGoal
  <2>2. threshold' \in BOOLEAN /\ serverComp' \in BOOLEAN /\ lost' \in BOOLEAN
    BY <2>0, Zenon DEF ClientInv, TypeOK
  <2>3. TypeOK'
    BY <2>0, <2>1, <2>2 DEF ClientInv, TypeOK
  <2> QED BY <1>3, <2>3 DEF ClientInv, ClientPlaces, NoMissingID, vars, clientVars
<1> QED BY <1>1, <1>2, <1>3 DEF Next

\* A call begins with a fresh connection.
LEMMA ClientInvInit == Init => ClientInv
<1> SUFFICES ASSUME Init PROVE ClientInv
  OBVIOUS
<1>1. connState \in StatesOfGoal
  BY DEF Init, StatesOfGoal
<1>2. /\ serverIn \in States /\ serverOut \in States
      /\ toServer \in Seq(Written) /\ toClient \in Seq(Readable)
      /\ asked \in Seq(packetConstructors) /\ answers \in Seq(packetConstructors)
      /\ extra \in 0 .. MaxExtra
  BY SessionAssumption DEF Init, States
<1>3. TypeOK
  BY <1>1, <1>2 DEF Init, TypeOK, Written, Readable
<1>4. ClientPlaces /\ NoMissingID
  BY DEF Init, ClientPlaces, NoMissingID
<1> QED BY <1>3, <1>4 DEF ClientInv

\* The client keeps its places whatever it is sent.
LEMMA ClientInvHolds == Spec => []ClientInv
BY ClientInvInit, ClientInvStep, PTL DEF Spec

\* Every variable keeps its type: in particular every packet written has a
\* constructor, and the connection is only ever in a state of the call's goal
\* and the version.
THEOREM TypeCorrect == Spec => []TypeOK
BY ClientInvHolds, PTL DEF ClientInv

\* Whatever the server sends, in whatever order, no write of GetStatus or Join
\* fails for want of a packet ID.
THEOREM IDsExist == Spec => []NoMissingID
BY ClientInvHolds, PTL DEF ClientInv
-----------------------------------------------------------------------------
(* The way to the server.                                                  *)

Configuring == {"ServerboundClientSettings", "ServerboundConfigKeepAlive",
                "ServerboundCustomPayload", "ServerboundCookieResponse"}

Packs == "ServerboundSelectKnownPacks"

\* The packets that may be on their way to a server that is at a step.
Due(step) ==
  CASE step = "handshake"       -> {"ServerboundHandshake", "ServerboundStatusRequest", "ServerboundLoginStart"}
    [] step = "request"         -> {"ServerboundStatusRequest", "ServerboundPing", "ServerboundLoginStart"}
    [] step = "acknowledgement" -> {"ServerboundLoginAcknowledged", "ServerboundClientSettings"}
    [] step = "packs"           -> Configuring
    [] step \in {"packsSent", "gone"}       -> Configuring \cup {Packs, FinishConfiguration}
    [] step \in {"configuration", "finish"} -> Configuring \cup {FinishConfiguration}
    [] step \in {"play", "done"}            -> {"ServerboundClientSettings"}
    [] OTHER                    -> {}

\* The state a packet is written in.
StateOf(name) ==
  CASE name = "ServerboundHandshake" -> "Handshaking"
    [] name \in {"ServerboundStatusRequest", "ServerboundPing"} -> "Status"
    [] name \in {"ServerboundLoginStart", "ServerboundLoginAcknowledged"} -> "Login"
    [] OTHER -> IF version >= V1_20_2 THEN "Configuration" ELSE "Play"

\* The state the server decodes in after a packet, and after all of them.
After(p) ==
  CASE p.name = "ServerboundHandshake"         -> goal
    [] p.name = "ServerboundLoginAcknowledged" -> "Configuration"
    [] p.name = FinishConfiguration            -> "Play"
    [] OTHER                                   -> p.state

End == IF toServer = <<>> THEN serverIn ELSE After(toServer[Len(toServer)])

\* Each packet is written in the state the one before leaves the server in.
Outgoing ==
  /\ toServer # <<>> => toServer[1].state = serverIn
  /\ \A i \in 2 .. Len(toServer) : toServer[i].state = After(toServer[i - 1])
  /\ \A i \in 1 .. Len(toServer) :
       /\ toServer[i].comp = serverComp
       /\ toServer[i].name \in Due(serverStep)
       /\ toServer[i].state = StateOf(toServer[i].name)

\* Packets that come once, or first, or last.
Order ==
  /\ serverStep = "handshake" => Len(toServer) <= 2
  /\ serverStep = "request" => Len(toServer) <= 1
  /\ \A i \in 1 .. Len(toServer) :
       /\ toServer[i].name = "ServerboundLoginAcknowledged" => i = 1
       /\ toServer[i].name = FinishConfiguration =>
            /\ i = Len(toServer)
            /\ serverStep = "packsSent" => i > 1 /\ toServer[i - 1].name = Packs
            /\ serverStep \in {"packsSent", "configuration"} => version >= V1_21_3
       /\ toServer[i].name = Packs =>
            \A j \in 1 .. Len(toServer) : toServer[j].name = Packs => j = i

-----------------------------------------------------------------------------
(* The server.                                                             *)

ServerPlaces ==
  /\ serverStep = "handshake" => serverIn = "Handshaking" /\ serverOut = "Handshaking"
  /\ serverStep = "request" => serverIn = goal /\ serverOut = goal
  /\ serverStep \in {"server_info", "ping"} =>
       goal = "Status" /\ serverIn = "Status" /\ serverOut = "Status"
  /\ serverStep \in {"login", "acknowledgement"} =>
       goal = "Login" /\ serverIn = "Login" /\ serverOut = "Login"
  /\ serverStep \in {"packs", "packsSent", "configuration", "finish"} =>
       /\ goal = "Login" /\ version >= V1_20_2
       /\ serverOut = "Configuration"
       /\ serverIn = "Configuration" \/ (serverStep = "configuration" /\ serverIn = "Play" /\ version >= V1_21_3)
  /\ serverStep = "acknowledgement" => version >= V1_20_2
  /\ serverStep \in {"packs", "packsSent"} => version >= V1_20_5
  /\ serverStep \in {"play", "done"} =>
       goal = "Login" /\ serverIn = "Play" /\ serverOut = "Play"
  /\ serverStep = "gone" => goal = "Login" /\ serverIn # "Handshaking"
  /\ goal = "Status" \/ serverStep \in {"handshake", "request"} => ~serverComp

-----------------------------------------------------------------------------
(* The way to the client.                                                  *)

WiresOf(state) ==
  CASE state = "Status"        -> {"server_info", "ping"}
    [] state = "Login"         -> {"success", "compress", "cookie_request", "encryption_begin", "disconnect"}
    [] state = "Configuration" -> {"select_known_packs", "finish_configuration", "keep_alive", "custom_payload",
                                   "cookie_request", "registry_data", "ping", "tags", "disconnect"}
    [] state = "Play"          -> {"login"}
    [] OTHER                   -> {}

\* What reading a packet makes of the client's state and compression.
StateAfter(p) ==
  CASE p.wire = "success" -> IF version >= V1_20_2 THEN "Configuration" ELSE "Play"
    [] p.wire = "finish_configuration" -> "Play"
    [] OTHER -> p.state

CompAfter(p) == p.wire = "compress" \/ p.comp

\* The state of the packet the server sends next.
OutNext ==
  CASE serverStep = "acknowledgement" -> "Configuration"
    [] serverStep = "finish"          -> "Play"
    [] OTHER                          -> serverOut

\* What the client reads, as long as it has not failed.
Incoming ==
  /\ toClient # <<>> => toClient[1].state = connState /\ toClient[1].comp = threshold
  /\ \A i \in 2 .. Len(toClient) :
       toClient[i].state = StateAfter(toClient[i - 1]) /\ toClient[i].comp = CompAfter(toClient[i - 1])
  /\ serverStep = "handshake" => ~threshold
  /\ serverStep # "handshake" =>
       IF toClient = <<>>
       THEN connState = OutNext /\ threshold = serverComp
       ELSE LET last == toClient[Len(toClient)]
            IN  StateAfter(last) = OutNext /\ CompAfter(last) = serverComp

\* What has been sent.
Sent ==
  /\ serverStep = "handshake" \/ (goal = "Login" /\ serverStep = "request") => toClient = <<>>
  /\ \A i \in 1 .. Len(toClient) :
       /\ toClient[i].wire \in WiresOf(toClient[i].state)
       /\ serverStep = "login" => toClient[i].state = "Login" /\ toClient[i].wire # "success"
       /\ toClient[i].wire = "success" \/ toClient[i].state # "Login" => toClient[i].comp = serverComp
       /\ toClient[i].wire = "success" /\ version >= V1_20_2 /\ serverStep = "acknowledgement" => i = Len(toClient)
       /\ goal = "Status" => ~toClient[i].comp

Carries(wire) == \E i \in 1 .. Len(toClient) : toClient[i].wire = wire

Wrote(name) == \E i \in 1 .. Len(toServer) : toServer[i].name = name

Requests == {"keep_alive", "custom_payload", "cookie_request"}

-----------------------------------------------------------------------------
(* Both ends, by where the client is.                                      *)

Starting == pc = "start" => serverStep = "handshake" /\ toServer = <<>>

AskingStatus ==
  pc = "status" =>
    /\ ~Wrote("ServerboundPing")
    /\ \/ serverStep \in {"handshake", "request"} /\ toClient = <<>>
       \/ toServer = <<>> /\ serverStep = "server_info" /\ ~Carries("server_info")
       \/ toServer = <<>> /\ serverStep = "request"

LoggingIn ==
  pc = "login" =>
    \/ serverStep \in {"handshake", "request"} /\ toClient = <<>>
    \/ /\ toServer = <<>>
       /\ \/ serverStep \in {"login", "gone"} /\ serverIn = "Login" /\ ~Carries("success")
          \/ serverStep = "acknowledgement"
          \/ serverStep \in {"play", "done"} /\ version < V1_20_2

ConfiguringBoth ==
  pc = "configuration" =>
    /\ threshold = serverComp
    /\ serverStep \in {"acknowledgement", "packs", "packsSent", "configuration", "finish", "play", "done", "gone"}
    /\ serverStep = "acknowledgement" => toClient = <<>>
    /\ End = "Configuration" \/ (End = "Play" /\ version >= V1_21_3)
    /\ End = "Play" => ~Carries("select_known_packs") /\ \A wire \in Requests : ~Carries(wire)
    /\ Carries("finish_configuration") => serverStep \in {"finish", "play", "done"}
    /\ \A i \in 1 .. Len(toClient) : toClient[i].wire = "select_known_packs" =>
         /\ serverStep \in {"packsSent", "gone"}
         /\ ~Wrote(Packs)
         /\ \A j \in 1 .. Len(toClient) : toClient[j].wire = "select_known_packs" => j = i
         /\ version >= V1_21_3 => \A j \in i + 1 .. Len(toClient) : toClient[j].wire \notin Requests
    
Ends ==
  /\ version >= V1_21_3 /\ (Wrote(Packs) \/ serverStep \in {"configuration", "finish"}) => End = "Play"
  /\ result = "ok" /\ goal = "Login" => End = "Play"

Together ==
  /\ connState = "Handshaking" => serverStep = "handshake" /\ toServer = <<>>
  /\ connState = "Login" =>
       \/ serverStep \in {"handshake", "request", "login", "gone"}
       \/ serverStep = "acknowledgement" /\ toServer = <<>>
       \/ serverStep \in {"play", "done"} /\ version < V1_20_2

SessionInv ==
  /\ ClientInv
  /\ Outgoing /\ Order /\ ServerPlaces
  /\ result \in {"none", "ok"} => Incoming
  /\ Sent
  /\ Starting /\ AskingStatus /\ LoggingIn /\ ConfiguringBoth
  /\ Ends /\ Together

-----------------------------------------------------------------------------
(* The two queues.                                                         *)

\* What is left of a queue without its first packet.
LEMMA Rest ==
  ASSUME NEW S, NEW q \in Seq(S), q # <<>>
  PROVE  /\ Len(q) \in Nat /\ Len(q) >= 1
         /\ Head(q) = q[1] /\ q[1] \in S
         /\ Tail(q) \in Seq(S)
         /\ Len(Tail(q)) = Len(q) - 1
         /\ \A i \in 1 .. Len(q) - 1 : Tail(q)[i] = q[i + 1]
BY HeadTailProperties

Steps == {"handshake", "request", "server_info", "ping", "login", "acknowledgement", "packs",
          "packsSent", "configuration", "finish", "play", "done", "gone"}

\* What the types say of the queues and of the server.
LEMMA Types ==
  ASSUME TypeOK
  PROVE  /\ version \in Int /\ goal \in {"Status", "Login"}
         /\ toServer \in Seq(Written) /\ Len(toServer) \in Nat
         /\ toServer = <<>> <=> Len(toServer) = 0
         /\ toClient \in Seq(Readable) /\ Len(toClient) \in Nat
         /\ toClient = <<>> <=> Len(toClient) = 0
         /\ serverStep \in Steps /\ serverIn \in States /\ serverOut \in States
<1>1. toServer \in Seq(Written) /\ toClient \in Seq(Readable)
  BY DEF TypeOK, Written, Readable
<1>2. \A S : \A q \in Seq(S) : Len(q) \in Nat /\ (q = <<>> <=> Len(q) = 0)
  OBVIOUS
<1>3. serverStep \in Steps /\ serverIn \in States /\ serverOut \in States /\ goal \in {"Status", "Login"}
  BY DEF TypeOK, Steps
<1>4. version \in Int
  BY VersionNumbers DEF TypeOK
<1> QED BY <1>1, <1>2, <1>3, <1>4

\* Packets the client writes one after the other, each in the state the server
\* will then be in, keep the way to the server in order.
LEMMA Writing ==
  ASSUME TypeOK, Outgoing, UNCHANGED <<version, goal, serverVars>>,
         NEW ws, NEW m \in Nat, Len(ws) = m, m >= 1, Adds(ws), threshold = serverComp,
         ws[1].state = End,
         \A i \in 2 .. m : ws[i].state = After(ws[i - 1]),
         \A i \in 1 .. m : ws[i].state = StateOf(ws[i].name) /\ ws[i].name \in Due(serverStep)
  PROVE  /\ Outgoing'
         /\ End' = After(ws[m])
         /\ \A name : Wrote(name)' <=> Wrote(name) \/ \E i \in 1 .. m : ws[i].name = name
<1> DEFINE n == Len(toServer)
<1>1. /\ Len(toServer') = n + m
      /\ n \in Nat /\ toServer' \in Seq(Written)
      /\ \A i \in 1 .. n : toServer'[i] = toServer[i]
      /\ \A i \in 1 .. m :
           toServer'[n + i] = [state |-> ws[i].state, name |-> ws[i].name, comp |-> threshold]
  BY Types DEF Adds
<1>2. toServer = <<>> <=> n = 0
  BY Types
<1>3. toServer' # <<>>
  BY <1>1
<1>4. /\ version' = version /\ goal' = goal /\ serverIn' = serverIn
      /\ serverComp' = serverComp /\ serverStep' = serverStep
  BY Zenon DEF serverVars
<1>5. \A i \in 1 .. m :
        /\ toServer'[n + i].state = ws[i].state /\ toServer'[n + i].name = ws[i].name
        /\ toServer'[n + i].comp = serverComp
  <2> TAKE i \in 1 .. m
  <2>1. toServer'[n + i] = [state |-> ws[i].state, name |-> ws[i].name, comp |-> threshold]
    BY <1>1
  <2> QED BY <2>1
<1>6. \A i \in 1 .. n + m : i \in 1 .. n \/ \E j \in 1 .. m : i = n + j
  <2> SUFFICES ASSUME NEW i \in 1 .. n + m, i \notin 1 .. n PROVE \E j \in 1 .. m : i = n + j
    OBVIOUS
  <2>1. i - n \in 1 .. m /\ i = n + (i - n)
    BY <1>1
  <2> QED BY <2>1
<1> HIDE DEF n
<1>7. End' = After(ws[m])
  <2>1. toServer'[n + m].state = ws[m].state /\ toServer'[n + m].name = ws[m].name
    BY <1>5
  <2> QED BY <1>1, <1>3, <1>4, <2>1 DEF End, After
<1>8. \A name : Wrote(name)' <=> Wrote(name) \/ \E i \in 1 .. m : ws[i].name = name
  <2> TAKE name
  <2>1. ASSUME NEW i \in 1 .. n + m, toServer'[i].name = name
        PROVE  Wrote(name) \/ \E j \in 1 .. m : ws[j].name = name
    <3>1. CASE i \in 1 .. n
      BY <1>1, <2>1, <3>1 DEF Wrote, n
    <3>2. CASE \E j \in 1 .. m : i = n + j
      BY <1>5, <2>1, <3>2
    <3> QED BY <1>6, <3>1, <3>2
  <2>2. ASSUME NEW i \in 1 .. n, toServer[i].name = name
        PROVE  \E j \in 1 .. n + m : toServer'[j].name = name
    BY <1>1, <2>2
  <2>3. ASSUME NEW i \in 1 .. m, ws[i].name = name
        PROVE  \E j \in 1 .. n + m : toServer'[j].name = name
    <3>1. n + i \in 1 .. n + m
      BY <1>1
    <3> QED BY <1>5, <2>3, <3>1
  <2>4. Wrote(name)' <=> \E j \in 1 .. n + m : toServer'[j].name = name
    BY <1>1 DEF Wrote
  <2> QED BY <2>1, <2>2, <2>3, <2>4 DEF Wrote, n
<1>9. toServer'[1].state = serverIn'
  <2>1. CASE n = 0
    <3>1. toServer'[1].state = ws[1].state
      BY <1>1, <1>5, <2>1
    <3> QED BY <1>2, <1>4, <2>1, <3>1 DEF End
  <2>2. CASE n # 0
    BY <1>1, <1>2, <1>4, <2>2 DEF Outgoing
  <2> QED BY <2>1, <2>2
<1>10. ASSUME NEW i \in 2 .. Len(toServer') PROVE toServer'[i].state = After(toServer[i - 1])'
  <2>1. CASE i \in 1 .. n
    BY <1>1, <1>4, <2>1 DEF Outgoing, After, n
  <2>2. CASE i = n + 1
    <3>1. toServer'[i].state = End /\ toServer # <<>> /\ toServer'[i - 1] = toServer[n]
      BY <1>1, <1>2, <1>5, <2>2
    <3> QED BY <1>4, <3>1 DEF End, After, n
  <2>3. CASE i \notin 1 .. n + 1
    <3>1. PICK j \in 2 .. m : i = n + j
      <4>1. i - n \in 2 .. m /\ i = n + (i - n)
        BY <1>1, <2>3
      <4> QED BY <4>1
    <3>2. j - 1 \in 1 .. m /\ j \in 1 .. m /\ i - 1 = n + (j - 1)
      BY <1>1, <3>1
    <3>3. toServer'[i - 1].state = ws[j - 1].state /\ toServer'[i - 1].name = ws[j - 1].name
      BY <1>5, <3>2
    <3>4. toServer'[i].state = After(ws[j - 1])
      BY <1>5, <3>1, <3>2
    <3> QED BY <1>4, <3>3, <3>4 DEF After
  <2> QED BY <1>1, <2>1, <2>2, <2>3
<1>11. ASSUME NEW i \in 1 .. Len(toServer')
       PROVE  /\ toServer'[i].comp = serverComp'
              /\ toServer'[i].name \in Due(serverStep)'
              /\ toServer'[i].state = StateOf(toServer[i].name)'
  <2>1. CASE i \in 1 .. n
    BY <1>1, <1>4, <2>1 DEF Outgoing, Due, StateOf, n
  <2>2. ASSUME NEW j \in 1 .. m, i = n + j
        PROVE  /\ toServer'[i].comp = serverComp'
               /\ toServer'[i].name \in Due(serverStep)'
               /\ toServer'[i].state = StateOf(toServer[i].name)'
    BY <1>4, <1>5, <2>2 DEF Due, StateOf
  <2> QED BY <1>1, <1>6, <2>1, <2>2
<1> QED BY <1>7, <1>8, <1>9, <1>10, <1>11 DEF Outgoing

\* One packet written that the server is waiting for keeps what is on its way to
\* the server in order.
LEMMA WritingOne ==
  ASSUME TypeOK, Outgoing, UNCHANGED <<version, goal, serverVars>>,
         NEW ws, Len(ws) = 1, Adds(ws), threshold = serverComp,
         ws[1].state = End, ws[1].state = StateOf(ws[1].name), ws[1].name \in Due(serverStep)
  PROVE  /\ Outgoing'
         /\ End' = After(ws[1])
         /\ \A name : Wrote(name)' <=> Wrote(name) \/ ws[1].name = name
<1>1. \A i \in 1 .. 1 : i = 1
  OBVIOUS
<1>2. \A i \in 2 .. 1 : ws[i].state = After(ws[i - 1])
  OBVIOUS
<1>3. \A i \in 1 .. 1 : ws[i].state = StateOf(ws[i].name) /\ ws[i].name \in Due(serverStep)
  BY <1>1
<1>4. /\ Outgoing'
      /\ End' = After(ws[1])
      /\ \A name : Wrote(name)' <=> Wrote(name) \/ \E i \in 1 .. 1 : ws[i].name = name
  <2>1. 1 \in Nat /\ 1 >= 1
    OBVIOUS
  <2> QED BY <1>2, <1>3, <2>1, Writing
<1>5. 1 \in 1 .. 1
  OBVIOUS
<1> QED BY <1>1, <1>4, <1>5

\* The same for two packets written by one handler.
LEMMA WritingTwo ==
  ASSUME TypeOK, Outgoing, UNCHANGED <<version, goal, serverVars>>,
         NEW ws, Len(ws) = 2, Adds(ws), threshold = serverComp,
         ws[1].state = End, ws[1].state = StateOf(ws[1].name), ws[1].name \in Due(serverStep),
         ws[2].state = After(ws[1]), ws[2].state = StateOf(ws[2].name), ws[2].name \in Due(serverStep)
  PROVE  /\ Outgoing'
         /\ End' = After(ws[2])
         /\ \A name : Wrote(name)' <=> Wrote(name) \/ ws[1].name = name \/ ws[2].name = name
<1>1. \A i \in 1 .. 2 : i = 1 \/ i = 2
  OBVIOUS
<1>2. \A i \in 2 .. 2 : ws[i].state = After(ws[i - 1])
  <2>1. \A i \in 2 .. 2 : i = 2 /\ i - 1 = 1
    OBVIOUS
  <2> QED BY <2>1
<1>3. \A i \in 1 .. 2 : ws[i].state = StateOf(ws[i].name) /\ ws[i].name \in Due(serverStep)
  BY <1>1
<1>4. /\ Outgoing'
      /\ End' = After(ws[2])
      /\ \A name : Wrote(name)' <=> Wrote(name) \/ \E i \in 1 .. 2 : ws[i].name = name
  <2>1. 2 \in Nat /\ 2 >= 1
    OBVIOUS
  <2> QED BY <1>2, <1>3, <2>1, Writing
<1>5. 1 \in 1 .. 2 /\ 2 \in 1 .. 2
  OBVIOUS
<1> QED BY <1>1, <1>4, <1>5

\* Nothing written, nothing changed.
LEMMA Writingless ==
  ASSUME TypeOK, UNCHANGED <<version, goal, serverVars>>, Adds(<<>>)
  PROVE  /\ toServer' = toServer
         /\ Outgoing => Outgoing'
         /\ Order => Order'
         /\ End' = End
         /\ \A name : Wrote(name)' <=> Wrote(name)
<1>1. toServer' = toServer
  BY AddsNone, Types
<1>2. /\ version' = version /\ goal' = goal /\ serverIn' = serverIn
      /\ serverComp' = serverComp /\ serverStep' = serverStep
  BY Zenon DEF serverVars
<1> QED BY <1>1, <1>2 DEF Outgoing, Order, End, Wrote, After, Due, StateOf

\* The client reads a packet and becomes what the packet makes of it.
LEMMA Reading ==
  ASSUME TypeOK, Incoming, UNCHANGED <<version, goal, serverVars>>,
         toClient # <<>>, toClient' = Tail(toClient), serverStep # "handshake",
         connState' = StateAfter(toClient[1]), threshold' = CompAfter(toClient[1])
  PROVE  Incoming'
<1>1. /\ version' = version /\ goal' = goal /\ serverOut' = serverOut
      /\ serverComp' = serverComp /\ serverStep' = serverStep
  BY Zenon DEF serverVars
<1>2. /\ Len(toClient) \in Nat /\ Len(toClient) >= 1
      /\ Len(toClient') = Len(toClient) - 1
      /\ \A i \in 1 .. Len(toClient) - 1 : toClient'[i] = toClient[i + 1]
      /\ toClient' = <<>> <=> Len(toClient') = 0
  <2>1. toClient \in Seq(Readable)
    BY Types
  <2>2. toClient' \in Seq(Readable) /\ Len(toClient) >= 1 /\ Len(toClient) \in Nat
        /\ Len(toClient') = Len(toClient) - 1
        /\ \A i \in 1 .. Len(toClient) - 1 : toClient'[i] = toClient[i + 1]
    BY <2>1, Rest
  <2> QED BY <2>2
<1>3. \A p : StateAfter(p)' = StateAfter(p) /\ CompAfter(p)' = CompAfter(p)
  BY <1>1 DEF StateAfter, CompAfter
<1>4. OutNext' = OutNext
  BY <1>1 DEF OutNext
<1>5. toClient' # <<>> => toClient'[1].state = connState' /\ toClient'[1].comp = threshold'
  BY <1>2 DEF Incoming
<1>6. ASSUME NEW i \in 2 .. Len(toClient')
      PROVE  /\ toClient'[i].state = StateAfter(toClient[i - 1])'
             /\ toClient'[i].comp = CompAfter(toClient[i - 1])'
  <2>1. i + 1 \in 2 .. Len(toClient) /\ i + 1 - 1 = i
    BY <1>2
  <2>2. toClient'[i] = toClient[i + 1] /\ toClient'[i - 1] = toClient[i]
    BY <1>2
  <2>3. toClient[i + 1].state = StateAfter(toClient[i]) /\ toClient[i + 1].comp = CompAfter(toClient[i])
    BY <2>1 DEF Incoming
  <2> QED BY <1>1, <2>2, <2>3 DEF StateAfter, CompAfter
<1>7. IF toClient' = <<>>
      THEN connState' = OutNext' /\ threshold' = serverComp'
      ELSE /\ StateAfter(toClient[Len(toClient)])' = OutNext'
           /\ CompAfter(toClient[Len(toClient)])' = serverComp'
  <2>1. StateAfter(toClient[Len(toClient)]) = OutNext /\ CompAfter(toClient[Len(toClient)]) = serverComp
    BY DEF Incoming
  <2>2. CASE toClient' = <<>>
    BY <1>1, <1>2, <1>4, <2>1, <2>2
  <2>3. CASE toClient' # <<>>
    <3>1. toClient'[Len(toClient')] = toClient[Len(toClient)]
      BY <1>2, <2>3
    <3> QED BY <1>1, <1>4, <2>1, <2>3, <3>1 DEF StateAfter, CompAfter
  <2> QED BY <2>2, <2>3
<1> QED BY <1>1, <1>5, <1>6, <1>7 DEF Incoming

\* What the client has left to read.
LEMMA Popped ==
  ASSUME TypeOK, toClient # <<>>, toClient' = Tail(toClient)
  PROVE  /\ Len(toClient) \in Nat /\ Len(toClient) >= 1
         /\ Head(toClient) = toClient[1]
         /\ Len(toClient') = Len(toClient) - 1
         /\ \A i \in 1 .. Len(toClient') : toClient'[i] = toClient[i + 1] /\ i + 1 \in 2 .. Len(toClient)
         /\ toClient' = <<>> <=> Len(toClient) = 1
         /\ Carries(toClient[1].wire)
         /\ \A wire : Carries(wire)' => Carries(wire)
<1>1. toClient \in Seq(Readable)
  BY Types
<1>2. /\ Len(toClient) \in Nat /\ Len(toClient) >= 1 /\ Head(toClient) = toClient[1]
      /\ toClient' \in Seq(Readable) /\ Len(toClient') = Len(toClient) - 1
      /\ \A i \in 1 .. Len(toClient) - 1 : toClient'[i] = toClient[i + 1]
  BY <1>1, Rest
<1>3. \A i \in 1 .. Len(toClient') :
        toClient'[i] = toClient[i + 1] /\ i + 1 \in 2 .. Len(toClient) /\ i + 1 \in 1 .. Len(toClient)
  BY <1>2
<1>4. toClient' = <<>> <=> Len(toClient) = 1
  BY <1>2
<1>5. Carries(toClient[1].wire)
  <2>1. 1 \in 1 .. Len(toClient)
    BY <1>2
  <2> QED BY <2>1 DEF Carries
<1>6. ASSUME NEW wire, Carries(wire)' PROVE Carries(wire)
  <2>1. PICK i \in 1 .. Len(toClient') : toClient'[i].wire = wire
    BY <1>6 DEF Carries
  <2> QED BY <1>3, <2>1 DEF Carries
<1> QED BY <1>2, <1>3, <1>4, <1>5, <1>6

\* What is left on its way to the client when it has read a packet.
LEMMA SentRest ==
  ASSUME TypeOK, Sent, UNCHANGED <<version, goal, serverVars>>,
         toClient # <<>>, toClient' = Tail(toClient)
  PROVE  Sent'
<1>1. /\ version' = version /\ goal' = goal
      /\ serverComp' = serverComp /\ serverStep' = serverStep
  BY Zenon DEF serverVars
<1>2. ~(serverStep = "handshake" \/ (goal = "Login" /\ serverStep = "request"))
  BY DEF Sent
<1>3. ASSUME NEW i \in 1 .. Len(toClient')
      PROVE  /\ toClient'[i].wire \in WiresOf(toClient[i].state)'
             /\ serverStep' = "login" => toClient'[i].state = "Login" /\ toClient'[i].wire # "success"
             /\ toClient'[i].wire = "success" \/ toClient'[i].state # "Login" =>
                  toClient'[i].comp = serverComp'
             /\ toClient'[i].wire = "success" /\ version' >= V1_20_2 /\ serverStep' = "acknowledgement" =>
                  i = Len(toClient')
             /\ goal' = "Status" => ~toClient'[i].comp
  <2>1. /\ toClient'[i] = toClient[i + 1] /\ i + 1 \in 1 .. Len(toClient)
        /\ Len(toClient') = Len(toClient) - 1 /\ Len(toClient) \in Nat /\ i \in Int
    BY Popped
  <2>2. i + 1 = Len(toClient) => i = Len(toClient')
    <3> DEFINE m == Len(toClient)
               k == Len(toClient')
    <3>1. k = m - 1 /\ m \in Nat /\ i \in Int
      BY <2>1
    <3> HIDE DEF k, m
    <3>2. i + 1 = m => i = k
      BY <3>1
    <3> QED BY <3>2 DEF k, m
  <2>3. LET p == toClient[i + 1]
        IN  /\ p.wire \in WiresOf(p.state)
            /\ serverStep = "login" => p.state = "Login" /\ p.wire # "success"
            /\ p.wire = "success" \/ p.state # "Login" => p.comp = serverComp
            /\ p.wire = "success" /\ version >= V1_20_2 /\ serverStep = "acknowledgement" =>
                 i + 1 = Len(toClient)
            /\ goal = "Status" => ~p.comp
    BY <2>1 DEF Sent
  <2> QED BY <1>1, <2>1, <2>2, <2>3 DEF WiresOf
<1> QED BY <1>1, <1>2, <1>3 DEF Sent

\* The packet the server sends.
New(wire) == [state |-> serverOut, wire |-> wire, comp |-> serverComp]

\* A packet the server sends joins the end of those on their way to the client.
LEMMA Pushed ==
  ASSUME TypeOK, NEW wire, Send(wire)
  PROVE  /\ Len(toClient') = Len(toClient) + 1 /\ Len(toClient) \in Nat
         /\ toClient' # <<>>
         /\ \A i \in 1 .. Len(toClient) : toClient'[i] = toClient[i]
         /\ toClient'[Len(toClient) + 1] = New(wire)
         /\ \A w : Carries(w)' <=> Carries(w) \/ w = wire
<1>1. toClient \in Seq(Readable) /\ Len(toClient) \in Nat
  BY Types
<1>2. toClient' = Append(toClient, New(wire))
  BY DEF Send, New
<1> HIDE DEF New
<1>3. /\ Len(toClient') = Len(toClient) + 1 /\ toClient' # <<>>
      /\ \A i \in 1 .. Len(toClient) : toClient'[i] = toClient[i]
      /\ toClient'[Len(toClient) + 1] = New(wire)
  BY <1>1, <1>2
<1>4. New(wire).wire = wire
  BY DEF New
<1>5. \A i \in 1 .. Len(toClient') : i \in 1 .. Len(toClient) \/ i = Len(toClient) + 1
  BY <1>1, <1>3
<1>6. \A i \in 1 .. Len(toClient) : i \in 1 .. Len(toClient')
  BY <1>1, <1>3
<1>7. Len(toClient) + 1 \in 1 .. Len(toClient')
  BY <1>1, <1>3
<1>8. ASSUME NEW w PROVE Carries(w)' <=> Carries(w) \/ w = wire
  <2>1. Carries(w)' => Carries(w) \/ w = wire
    BY <1>3, <1>4, <1>5 DEF Carries
  <2>2. Carries(w) => Carries(w)'
    BY <1>3, <1>6 DEF Carries
  <2>3. w = wire => Carries(w)'
    BY <1>3, <1>4, <1>7 DEF Carries
  <2> QED BY <2>1, <2>2, <2>3
<1> QED BY <1>1, <1>3, <1>8

\* The server sends a packet in the state, and with the compression, the client
\* will have when it reads it.
LEMMA Sending ==
  ASSUME TypeOK, Incoming, UNCHANGED <<version, goal, connState, threshold>>,
         NEW wire, Send(wire), serverStep # "handshake", serverStep' # "handshake",
         OutNext = serverOut, StateAfter(New(wire)) = OutNext', CompAfter(New(wire)) = serverComp'
  PROVE  Incoming'
<1> DEFINE n == Len(toClient)
           p == New(wire)
<1>1. /\ Len(toClient') = n + 1 /\ n \in Nat
      /\ toClient' # <<>>
      /\ \A i \in 1 .. n : toClient'[i] = toClient[i]
      /\ toClient'[n + 1] = p
      /\ toClient = <<>> <=> n = 0
  BY Pushed, Types
<1>2. p.state = serverOut /\ p.comp = serverComp
  BY DEF New
<1>3. IF n = 0 THEN connState = serverOut /\ threshold = serverComp
      ELSE StateAfter(toClient[n]) = serverOut /\ CompAfter(toClient[n]) = serverComp
  BY <1>1 DEF Incoming
<1> HIDE DEF n, p
<1>4. toClient'[1].state = connState' /\ toClient'[1].comp = threshold'
  <2>1. CASE n = 0
    BY <1>1, <1>2, <1>3, <2>1
  <2>2. CASE n # 0
    BY <1>1, <2>2 DEF Incoming
  <2> QED BY <2>1, <2>2
<1>5. ASSUME NEW i \in 2 .. Len(toClient')
      PROVE  /\ toClient'[i].state = StateAfter(toClient[i - 1])'
             /\ toClient'[i].comp = CompAfter(toClient[i - 1])'
  <2>1. CASE i = n + 1
    <3>1. toClient'[i] = p /\ toClient'[i - 1] = toClient[n] /\ n # 0
      BY <1>1, <2>1
    <3> QED BY <1>2, <1>3, <3>1 DEF StateAfter, CompAfter
  <2>2. CASE i # n + 1
    <3>1. i \in 2 .. n /\ toClient'[i] = toClient[i] /\ toClient'[i - 1] = toClient[i - 1]
      BY <1>1, <2>2
    <3>2. toClient[i].state = StateAfter(toClient[i - 1]) /\ toClient[i].comp = CompAfter(toClient[i - 1])
      BY <3>1 DEF Incoming, n
    <3> QED BY <3>1, <3>2 DEF StateAfter, CompAfter
  <2> QED BY <2>1, <2>2
<1>6. /\ StateAfter(toClient[Len(toClient)])' = OutNext'
      /\ CompAfter(toClient[Len(toClient)])' = serverComp'
  <2>1. toClient'[Len(toClient')] = p
    BY <1>1
  <2>2. StateAfter(p) = OutNext' /\ CompAfter(p) = serverComp'
    BY DEF p
  <2> QED BY <2>1, <2>2 DEF StateAfter, CompAfter
<1> QED BY <1>1, <1>4, <1>5, <1>6 DEF Incoming

\* What has been sent stays in order when the packet fits the server's state.
LEMMA SentMore ==
  ASSUME TypeOK, Sent, UNCHANGED <<version, goal>>, NEW wire, Send(wire),
         serverStep' # "handshake", ~(goal = "Login" /\ serverStep' = "request"),
         wire \in WiresOf(serverOut),
         serverStep' = "login" => serverStep = "login" /\ serverOut = "Login" /\ wire # "success",
         serverStep' = "acknowledgement" => serverStep = "login",
         serverComp' = serverComp \/ (serverStep = "login" /\ serverOut = "Login" /\ wire # "success"),
         goal = "Status" => ~serverComp
  PROVE  Sent'
<1> DEFINE n == Len(toClient)
<1>1. /\ Len(toClient') = n + 1 /\ n \in Nat
      /\ \A i \in 1 .. n : toClient'[i] = toClient[i]
      /\ toClient'[n + 1] = New(wire)
  BY Pushed
<1>2. /\ New(wire).state = serverOut /\ New(wire).wire = wire /\ New(wire).comp = serverComp
  BY DEF New
<1>3. ASSUME NEW i \in 1 .. Len(toClient')
      PROVE  /\ toClient'[i].wire \in WiresOf(toClient[i].state)'
             /\ serverStep' = "login" => toClient'[i].state = "Login" /\ toClient'[i].wire # "success"
             /\ toClient'[i].wire = "success" \/ toClient'[i].state # "Login" =>
                  toClient'[i].comp = serverComp'
             /\ toClient'[i].wire = "success" /\ version' >= V1_20_2 /\ serverStep' = "acknowledgement" =>
                  i = Len(toClient')
             /\ goal' = "Status" => ~toClient'[i].comp
  <2>1. CASE i = n + 1
    <3>1. toClient'[i] = New(wire) /\ i = Len(toClient')
      BY <1>1, <2>1
    <3> QED BY <1>2, <3>1 DEF WiresOf
  <2>2. CASE i # n + 1
    <3>1. i \in 1 .. n /\ toClient'[i] = toClient[i]
      BY <1>1, <2>2
    <3> QED BY <3>1 DEF Sent, WiresOf
  <2> QED BY <2>1, <2>2
<1> QED BY <1>3 DEF Sent

-----------------------------------------------------------------------------
(* What the invariant says of a state.                                     *)

\* Where the server is in the play state nothing is on its way to it.
LEMMA AtPlay ==
  ASSUME TypeOK, Outgoing, ServerPlaces, version >= V1_20_2,
         serverStep \in {"play", "done"} \/ serverIn = "Play"
  PROVE  toServer = <<>> /\ End = "Play"
<1>1. serverIn = "Play"
  BY DEF ServerPlaces
<1>2. ASSUME toServer # <<>> PROVE FALSE
  <2>1. 1 \in 1 .. Len(toServer)
    BY <1>2, Types
  <2>2. toServer[1].state = "Play" /\ toServer[1].state = StateOf(toServer[1].name)
    BY <1>1, <1>2, <2>1 DEF Outgoing
  <2> QED BY <2>2 DEF StateOf
<1> QED BY <1>1, <1>2 DEF End

\* finish_configuration is the last packet before play.
LEMMA FinishIsLast ==
  ASSUME TypeOK, Order, End # "Play"
  PROVE  \A i \in 1 .. Len(toServer) : toServer[i].name # FinishConfiguration
<1> SUFFICES ASSUME NEW i \in 1 .. Len(toServer), toServer[i].name = FinishConfiguration PROVE FALSE
  OBVIOUS
<1>1. i = Len(toServer) /\ toServer # <<>>
  BY Types DEF Order
<1>2. End = After(toServer[i])
  BY <1>1 DEF End
<1> QED BY <1>2 DEF After, FinishConfiguration

\* Until known packs are asked for the server stays in configuration.
LEMMA AtPacks ==
  ASSUME TypeOK, Outgoing, ServerPlaces, serverStep = "packs"
  PROVE  End = "Configuration" /\ version >= V1_20_5
<1>1. serverIn = "Configuration" /\ version >= V1_20_5
  BY DEF ServerPlaces
<1>2. CASE toServer # <<>>
  <2>1. Len(toServer) \in 1 .. Len(toServer)
    BY <1>2, Types
  <2>2. LET p == toServer[Len(toServer)]
        IN  p.name \in Configuring /\ p.state = StateOf(p.name)
    BY <2>1 DEF Outgoing, Due
  <2>3. version >= V1_20_2 /\ version \in Int
    BY <1>1, Types DEF V1_20_5, V1_20_2
  <2> QED BY <1>1, <1>2, <2>2, <2>3 DEF End, After, StateOf, Configuring, FinishConfiguration
<1> QED BY <1>1, <1>2 DEF End

\* While the server has to send nothing is on its way to it.
LEMMA AtTurn ==
  ASSUME TypeOK, Outgoing, serverStep \in {"server_info", "ping", "login"}
  PROVE  toServer = <<>>
<1> SUFFICES ASSUME toServer # <<>> PROVE FALSE
  OBVIOUS
<1>1. 1 \in 1 .. Len(toServer)
  BY Types
<1>2. toServer[1].name \in Due(serverStep)
  BY <1>1 DEF Outgoing
<1> QED BY <1>2 DEF Due

-----------------------------------------------------------------------------
(* The server receives a packet.                                           *)

\* A packet the server receives at one of its steps, and what it makes of it.
Reception ==
  LET p == toServer[1] IN
  \/ /\ serverStep = "handshake" /\ p.name = "ServerboundHandshake"
     /\ serverStep' = "request" /\ serverIn' = goal /\ serverOut' = goal
  \/ /\ serverStep = "request" /\ Len(toServer) = 1
     /\ \/ goal = "Status" /\ p.name = "ServerboundStatusRequest" /\ serverStep' = "server_info"
        \/ goal = "Status" /\ p.name = "ServerboundPing" /\ serverStep' = "ping"
        \/ goal = "Login" /\ p.name = "ServerboundLoginStart" /\ serverStep' = "login"
     /\ UNCHANGED <<serverIn, serverOut>>
  \/ /\ serverStep = "acknowledgement" /\ p.name = "ServerboundLoginAcknowledged"
     /\ version >= V1_20_2
     /\ serverStep' = IF version >= V1_20_5 THEN "packs" ELSE "configuration"
     /\ serverIn' = "Configuration" /\ serverOut' = "Configuration"
  \/ /\ serverStep \in {"packs", "packsSent", "configuration", "finish"}
     /\ p.name \in Configuring
     /\ UNCHANGED <<serverStep, serverIn, serverOut>>
  \/ /\ serverStep = "packsSent" /\ p.name = Packs
     /\ serverStep' = "configuration" /\ UNCHANGED <<serverIn, serverOut>>
  \/ /\ serverStep = "configuration" /\ p.name = FinishConfiguration
     /\ Len(toServer) = 1 /\ version >= V1_21_3
     /\ serverIn' = "Play" /\ UNCHANGED <<serverStep, serverOut>>
  \/ /\ serverStep = "finish" /\ p.name = FinishConfiguration
     /\ Len(toServer) = 1
     /\ serverStep' = "play" /\ serverIn' = "Play" /\ serverOut' = "Play"
  \/ /\ serverStep \in {"play", "done"} /\ p.name = "ServerboundClientSettings"
     /\ UNCHANGED <<serverStep, serverIn, serverOut>>

\* It receives no others.
LEMMA Receiving ==
  ASSUME TypeOK, Outgoing, Order, ServerPlaces, ServerReceive
  PROVE  Reception
<1> DEFINE p == toServer[1]
<1>1. toServer # <<>> /\ serverStep # "gone" /\ Head(toServer) = p /\ 1 \in 1 .. Len(toServer)
  <2>1. toServer # <<>> /\ serverStep # "gone" /\ toServer \in Seq(Written)
    BY Types DEF ServerReceive
  <2> QED BY <2>1, Rest
<1>2. /\ p.state = serverIn /\ p.name \in Due(serverStep) /\ p.state = StateOf(p.name)
      /\ Len(toServer) \in Nat
  BY <1>1, Types DEF Outgoing
<1>3. /\ serverIn' = CASE p.name = "ServerboundHandshake"           -> goal
                       [] p.name = "ServerboundLoginAcknowledged"   -> "Configuration"
                       [] p.name = FinishConfiguration              -> "Play"
                       [] OTHER                                     -> serverIn
      /\ serverStep' = StepAfter(p.name)
      /\ serverOut' = IF p.name \in {"ServerboundHandshake", "ServerboundLoginAcknowledged"}
                         \/ StepAfter(p.name) = "play"
                      THEN serverIn' ELSE serverOut
  BY <1>1 DEF ServerReceive, FinishConfiguration
<1>4. p.name = FinishConfiguration =>
        /\ 1 = Len(toServer)
        /\ serverStep # "packsSent"
        /\ serverStep = "configuration" => version >= V1_21_3
  <2>1. ~(1 > 1)
    OBVIOUS
  <2> QED BY <1>1, <2>1 DEF Order
<1>5. Len(toServer) >= 1 /\ serverStep \in Steps /\ goal \in {"Status", "Login"}
  BY <1>1, <1>2, Types
<1> HIDE DEF p
<1>6. CASE serverStep = "handshake"
  <2>1. serverIn = "Handshaking"
    BY <1>6 DEF ServerPlaces
  <2>2. p.name = "ServerboundHandshake"
    BY <1>2, <1>6, <2>1 DEF Due, StateOf
  <2>3. serverStep' = "request" /\ serverIn' = goal /\ serverOut' = goal
    <3>1. StepAfter(p.name) = "request"
      BY <2>2 DEF StepAfter
    <3>2. serverIn' = goal
      BY <1>3, <2>2 DEF FinishConfiguration
    <3> QED BY <1>3, <2>2, <3>1, <3>2
  <2> QED BY <1>6, <2>2, <2>3 DEF p, Reception
<1>7. CASE serverStep = "request"
  <2>1. serverIn = goal
    BY <1>7 DEF ServerPlaces
  <2>2. Len(toServer) = 1
    <3> DEFINE n == Len(toServer)
    <3>1. n <= 1
      BY <1>7 DEF Order
    <3>2. n \in Nat /\ n >= 1
      BY <1>2, <1>5
    <3> HIDE DEF n
    <3>3. n = 1
      BY <3>1, <3>2
    <3> QED BY <3>3 DEF n
  <2>3. \/ goal = "Status" /\ p.name = "ServerboundStatusRequest"
        \/ goal = "Status" /\ p.name = "ServerboundPing"
        \/ goal = "Login" /\ p.name = "ServerboundLoginStart"
    BY <1>2, <1>7, <2>1 DEF Due, StateOf
  <2>4. /\ p.name = "ServerboundStatusRequest" => serverStep' = "server_info"
        /\ p.name = "ServerboundPing" => serverStep' = "ping"
        /\ p.name = "ServerboundLoginStart" => serverStep' = "login"
        /\ serverIn' = serverIn /\ serverOut' = serverOut
    BY <1>3, <2>3 DEF StepAfter, FinishConfiguration
  <2> QED BY <1>7, <2>2, <2>3, <2>4 DEF p, Reception
<1>8. CASE serverStep = "acknowledgement"
  <2>1. serverIn = "Login" /\ version >= V1_20_2
    BY <1>8 DEF ServerPlaces
  <2>2. p.name = "ServerboundLoginAcknowledged"
    BY <1>2, <1>8, <2>1 DEF Due, StateOf
  <2>3. /\ serverStep' = IF version >= V1_20_5 THEN "packs" ELSE "configuration"
        /\ serverIn' = "Configuration" /\ serverOut' = "Configuration"
    <3>1. StepAfter(p.name) = IF version >= V1_20_5 THEN "packs" ELSE "configuration"
      BY <2>2 DEF StepAfter, UsesPacks
    <3>2. serverIn' = "Configuration"
      BY <1>3, <2>2 DEF FinishConfiguration
    <3> QED BY <1>3, <2>2, <3>1, <3>2
  <2> QED BY <1>8, <2>1, <2>2, <2>3 DEF p, Reception
<1>9. CASE serverStep \in {"packs", "packsSent", "configuration", "finish"}
  <2>1. p.name \in Configuring \cup {Packs, FinishConfiguration}
        /\ (serverStep = "packs" => p.name \in Configuring)
        /\ (serverStep \in {"configuration", "finish"} => p.name # Packs)
    BY <1>2, <1>9 DEF Due, Configuring, Packs, FinishConfiguration
  <2>2. CASE p.name \in Configuring
    <3>1. serverStep' = serverStep /\ serverIn' = serverIn /\ serverOut' = serverOut
      BY <1>3, <1>9, <2>2 DEF StepAfter, Configuring, FinishConfiguration
    <3> QED BY <1>9, <2>2, <3>1 DEF p, Reception
  <2>3. CASE p.name = Packs
    <3>1. serverStep' = "configuration" /\ serverIn' = serverIn /\ serverOut' = serverOut
      BY <1>3, <2>3 DEF StepAfter, Packs, FinishConfiguration
    <3>2. serverStep = "packsSent"
      BY <1>9, <2>1, <2>3 DEF Configuring, Packs
    <3> QED BY <2>3, <3>1, <3>2 DEF p, Reception
  <2>4. CASE p.name = FinishConfiguration /\ serverStep = "configuration"
    <3>1. serverStep' = serverStep /\ serverIn' = "Play" /\ serverOut' = serverOut
      BY <1>3, <2>4 DEF StepAfter, FinishConfiguration
    <3> QED BY <1>4, <2>4, <3>1 DEF p, Reception
  <2>5. CASE p.name = FinishConfiguration /\ serverStep = "finish"
    <3>1. serverStep' = "play" /\ serverIn' = "Play" /\ serverOut' = "Play"
      BY <1>3, <2>5 DEF StepAfter, FinishConfiguration
    <3> QED BY <1>4, <2>5, <3>1 DEF p, Reception
  <2> QED BY <1>4, <1>9, <2>1, <2>2, <2>3, <2>4, <2>5 DEF Configuring, FinishConfiguration
<1>10. CASE serverStep \in {"play", "done"}
  <2>1. p.name = "ServerboundClientSettings"
    BY <1>2, <1>10 DEF Due
  <2>2. serverStep' = serverStep /\ serverIn' = serverIn /\ serverOut' = serverOut
    <3>1. StepAfter(p.name) = serverStep
      BY <2>1 DEF StepAfter
    <3>2. serverIn' = serverIn
      BY <1>3, <2>1 DEF FinishConfiguration
    <3>3. serverIn = serverOut
      BY <1>10 DEF ServerPlaces
    <3> QED BY <1>3, <3>1, <3>2, <3>3
  <2> QED BY <1>10, <2>1, <2>2 DEF p, Reception
<1>11. CASE serverStep \in {"server_info", "ping", "login"}
  BY <1>1, <1>11, AtTurn
<1> QED BY <1>1, <1>5, <1>6, <1>7, <1>8, <1>9, <1>10, <1>11 DEF Steps

\* What is left for the server to receive.
LEMMA Taken ==
  ASSUME TypeOK, Outgoing, ServerReceive
  PROVE  /\ version' = version /\ goal' = goal /\ connState' = connState /\ pc' = pc /\ result' = result
         /\ threshold' = threshold /\ serverComp' = serverComp /\ toClient' = toClient
         /\ toServer # <<>> /\ Len(toServer) \in Nat /\ Len(toServer) >= 1
         /\ Len(toServer') = Len(toServer) - 1
         /\ toServer' = <<>> <=> Len(toServer) = 1
         /\ \A i \in 1 .. Len(toServer') :
              /\ i \in Nat /\ i >= 1 /\ i + 1 \in 2 .. Len(toServer) /\ i + 1 \in 1 .. Len(toServer)
              /\ toServer'[i] = toServer[i + 1]
              /\ i = Len(toServer') <=> i + 1 = Len(toServer)
         /\ \A name : Wrote(name)' => Wrote(name)
         /\ Wrote(toServer[1].name)
         /\ serverIn' = After(toServer[1])
         /\ End' = End
<1> DEFINE n == Len(toServer)
           k == Len(toServer')
<1>1. /\ version' = version /\ goal' = goal /\ connState' = connState /\ pc' = pc /\ result' = result
      /\ threshold' = threshold /\ serverComp' = serverComp /\ toClient' = toClient
  BY Zenon DEF ServerReceive, clientVars
<1>2. toServer # <<>> /\ toServer \in Seq(Written) /\ toServer' = Tail(toServer)
  BY Types DEF ServerReceive
<1>3. /\ n \in Nat /\ n >= 1 /\ Head(toServer) = toServer[1] /\ k = n - 1
      /\ \A i \in 1 .. n - 1 : toServer'[i] = toServer[i + 1]
      /\ toServer' \in Seq(Written)
  BY <1>2, Rest
<1>4. toServer' = <<>> <=> k = 0
  BY <1>3
<1> HIDE DEF n, k
<1>5. \A i \in 1 .. k :
        /\ i \in Nat /\ i >= 1 /\ i + 1 \in 2 .. n /\ i + 1 \in 1 .. n
        /\ toServer'[i] = toServer[i + 1]
        /\ i = k <=> i + 1 = n
  BY <1>3
<1>6. toServer' = <<>> <=> n = 1
  BY <1>3, <1>4
<1>7. ASSUME NEW name, Wrote(name)' PROVE Wrote(name)
  <2>1. PICK i \in 1 .. k : toServer'[i].name = name
    BY <1>7 DEF Wrote, k
  <2> QED BY <1>5, <2>1 DEF Wrote, n
<1>8. Wrote(toServer[1].name) /\ 1 \in 1 .. n
  <2>1. 1 \in 1 .. n
    BY <1>3
  <2> QED BY <2>1 DEF Wrote, n
<1>9. serverIn' = After(toServer[1])
  <2>1. toServer[1].state = serverIn
    BY <1>2 DEF Outgoing
  <2> QED BY <1>3, <2>1 DEF ServerReceive, After, FinishConfiguration
<1>10. End' = End
  <2>1. CASE n = 1
    BY <1>2, <1>6, <1>9, <2>1 DEF End, n
  <2>2. CASE n # 1
    <3>1. k \in 1 .. k /\ toServer'[k] = toServer[n]
      BY <1>3, <1>5, <2>2
    <3> QED BY <1>1, <1>2, <1>6, <2>2, <3>1 DEF End, After, n, k
  <2> QED BY <2>1, <2>2
<1> QED BY <1>1, <1>2, <1>3, <1>5, <1>6, <1>7, <1>8, <1>9, <1>10 DEF n, k

\* The way to the server stays in order.
LEMMA ReceiveOutgoing ==
  ASSUME TypeOK, Outgoing, Order, ServerPlaces, ServerReceive
  PROVE  Outgoing' /\ Order'
<1>0. Reception
  BY Receiving
<1>1. /\ version' = version /\ goal' = goal /\ serverComp' = serverComp
      /\ Len(toServer) \in Nat /\ Len(toServer) >= 1
      /\ Len(toServer') = Len(toServer) - 1
      /\ toServer' = <<>> <=> Len(toServer) = 1
      /\ \A i \in 1 .. Len(toServer') :
           /\ i \in Nat /\ i >= 1 /\ i + 1 \in 2 .. Len(toServer) /\ i + 1 \in 1 .. Len(toServer)
           /\ toServer'[i] = toServer[i + 1]
           /\ i = Len(toServer') <=> i + 1 = Len(toServer)
      /\ serverIn' = After(toServer[1])
  BY Taken
<1> DEFINE n == Len(toServer)
           k == Len(toServer')
           p == toServer[1]
<1>2. 1 \in 1 .. n /\ n \in Nat /\ k = n - 1 /\ n >= 1
  BY <1>1
<1>3. \A i \in 1 .. k : /\ i \in Nat /\ i >= 1 /\ i + 1 \in 2 .. n /\ i + 1 \in 1 .. n
                        /\ toServer'[i] = toServer[i + 1]
                        /\ i = k <=> i + 1 = n
  BY <1>1
<1>4. \A i \in 2 .. n : toServer[i].state = After(toServer[i - 1])
  BY DEF Outgoing
<1>5. \A i \in 1 .. n :
       /\ toServer[i].comp = serverComp
       /\ toServer[i].name \in Due(serverStep)
       /\ toServer[i].state = StateOf(toServer[i].name)
  BY DEF Outgoing
<1>6. toServer' # <<>> => 2 \in 1 .. n /\ toServer'[1] = toServer[2] /\ toServer[2].state = After(p)
  <2> SUFFICES ASSUME toServer' # <<>> PROVE 2 \in 1 .. n /\ toServer'[1] = toServer[2] /\ toServer[2].state = After(p)
    OBVIOUS
  <2>1. n # 1 /\ n \in Nat /\ n >= 1 /\ k = n - 1
    BY <1>1
  <2> HIDE DEF n, k
  <2>2. 1 \in 1 .. k /\ 2 \in 1 .. n /\ 2 \in 2 .. n /\ 1 + 1 = 2 /\ 2 - 1 = 1
    BY <2>1
  <2> QED BY <1>3, <1>4, <2>2
<1>7. \A i \in 1 .. n :
        /\ toServer[i].name = "ServerboundLoginAcknowledged" => i = 1
        /\ toServer[i].name = FinishConfiguration =>
             /\ i = n
             /\ serverStep = "packsSent" => i > 1 /\ toServer[i - 1].name = Packs
             /\ serverStep \in {"packsSent", "configuration"} => version >= V1_21_3
        /\ toServer[i].name = Packs => \A j \in 1 .. n : toServer[j].name = Packs => j = i
  BY DEF Order
<1>8. serverStep = "handshake" => n <= 2
  BY DEF Order
<1>9. p.name \in Due(serverStep) /\ serverStep \in Steps
  BY <1>2, <1>5, Types
<1>10. serverIn' = After(p)
  BY <1>1
<1> HIDE DEF n, k, p
\* What is left is due at the server's next step.
<1>11. ASSUME NEW i \in 2 .. n PROVE toServer[i].name \in Due(serverStep')
  <2>1. i \in 1 .. n /\ i # 1 /\ n # 1 /\ n > 1
    BY <1>2
  <2>2. toServer[i].name \in Due(serverStep) /\ toServer[i].state = StateOf(toServer[i].name)
    BY <1>5, <2>1
  <2>3. CASE serverStep = "handshake"
    <3>1. p.name = "ServerboundHandshake" /\ serverStep' = "request"
      BY <1>0, <2>3 DEF Reception, p
    <3>2. i = 2
      BY <1>2, <1>8, <2>3
    <3>3. toServer[i].state = goal /\ goal # "Handshaking"
      <4>1. toServer[i].state = After(p) /\ goal # "Handshaking"
        BY <1>4, <3>2, Types DEF p
      <4> QED BY <3>1, <4>1 DEF After, FinishConfiguration
    <3> QED BY <2>2, <2>3, <3>1, <3>3 DEF Due, StateOf
  <2>4. CASE serverStep = "acknowledgement"
    <3>1. serverStep' \in {"packs", "configuration"}
      BY <1>0, <2>4 DEF Reception
    <3>2. toServer[i].name # "ServerboundLoginAcknowledged"
      BY <1>7, <2>1
    <3> QED BY <2>2, <2>4, <3>1, <3>2 DEF Due, Configuring
  <2>5. CASE serverStep = "packsSent" /\ p.name = Packs
    <3>1. serverStep' = "configuration"
      BY <1>0, <2>5 DEF Reception, p, Packs, Configuring
    <3>2. toServer[i].name # Packs
      BY <1>2, <1>7, <2>1, <2>5 DEF p
    <3> QED BY <2>2, <2>5, <3>1, <3>2 DEF Due
  <2>6. CASE ~(serverStep \in {"handshake", "acknowledgement"} \/ (serverStep = "packsSent" /\ p.name = Packs))
    <3>1. serverStep' = serverStep
      BY <1>0, <2>1, <2>6 DEF Reception, p, n
    <3> QED BY <2>2, <3>1
  <2> QED BY <2>3, <2>4, <2>5, <2>6
<1>12. Due(serverStep)' = Due(serverStep') /\ \A name : StateOf(name)' = StateOf(name)
  BY <1>1 DEF Due, StateOf
<1>13. Outgoing'
  <2>1. toServer' # <<>> => toServer'[1].state = serverIn'
    BY <1>6, <1>10
  <2>2. ASSUME NEW i \in 2 .. k PROVE toServer'[i].state = After(toServer[i - 1])'
    <3>1. i \in 1 .. k /\ i - 1 \in 1 .. k /\ i - 1 + 1 = i /\ i + 1 - 1 = i
      BY <1>2
    <3>2. toServer'[i] = toServer[i + 1] /\ toServer'[i - 1] = toServer[i] /\ i + 1 \in 2 .. n
      BY <1>3, <3>1
    <3>3. toServer[i + 1].state = After(toServer[i])
      BY <1>4, <3>1, <3>2
    <3> QED BY <1>1, <3>2, <3>3 DEF After
  <2>3. ASSUME NEW i \in 1 .. k
        PROVE  /\ toServer'[i].comp = serverComp'
               /\ toServer'[i].name \in Due(serverStep)'
               /\ toServer'[i].state = StateOf(toServer[i].name)'
    <3>1. i + 1 \in 2 .. n /\ i + 1 \in 1 .. n /\ toServer'[i] = toServer[i + 1]
      BY <1>3
    <3>2. toServer[i + 1].name \in Due(serverStep')
      BY <1>11, <3>1
    <3>3. toServer[i + 1].comp = serverComp /\ toServer[i + 1].state = StateOf(toServer[i + 1].name)
      BY <1>5, <3>1
    <3> QED BY <1>1, <1>12, <3>1, <3>2, <3>3 DEF StateOf
  <2> QED BY <2>1, <2>2, <2>3 DEF Outgoing, k
<1>14. Order'
  <2>1. serverStep' # "handshake" \/ serverStep' = serverStep
    BY <1>0 DEF Reception
  <2>2. serverStep' = "handshake" => k <= 2
    BY <1>2, <1>8, <2>1
  <2>3. serverStep' = "request" => k <= 1
    <3>1. serverStep' = "request" => serverStep = "handshake"
      BY <1>0 DEF Reception
    <3> QED BY <1>2, <1>8, <3>1
  <2>4. ASSUME NEW i \in 1 .. k
        PROVE  /\ toServer'[i].name # "ServerboundLoginAcknowledged"
               /\ toServer'[i].name = FinishConfiguration =>
                    /\ i = k
                    /\ serverStep' = "packsSent" => i > 1 /\ toServer'[i - 1].name = Packs
                    /\ serverStep' \in {"packsSent", "configuration"} => version' >= V1_21_3
               /\ toServer'[i].name = Packs => \A j \in 1 .. k : toServer'[j].name = Packs => j = i
    <3>1. i + 1 \in 1 .. n /\ i + 1 # 1 /\ toServer'[i] = toServer[i + 1] /\ (i = k <=> i + 1 = n)
      BY <1>3
    <3>2. toServer[i + 1].name # "ServerboundLoginAcknowledged"
      BY <1>7, <3>1
    <3>3. ASSUME toServer'[i].name = Packs, NEW j \in 1 .. k, toServer'[j].name = Packs PROVE j = i
      <4>1. j + 1 \in 1 .. n /\ toServer'[j] = toServer[j + 1]
        BY <1>3
      <4>2. j + 1 = i + 1
        BY <1>7, <3>1, <3>3, <4>1
      <4> QED BY <1>2, <4>2
    <3>4. ASSUME toServer'[i].name = FinishConfiguration
          PROVE  /\ i = k
                 /\ serverStep' = "packsSent" => i > 1 /\ toServer'[i - 1].name = Packs
                 /\ serverStep' \in {"packsSent", "configuration"} => version' >= V1_21_3
      <4>1. toServer[i + 1].name = FinishConfiguration
        BY <3>1, <3>4
      <4>2. i = k
        BY <1>7, <3>1, <4>1
      <4>3. ASSUME serverStep' = "packsSent" PROVE i > 1 /\ toServer'[i - 1].name = Packs
        <5>1. serverStep = "packsSent" /\ p.name \in Configuring
          BY <1>0, <4>3 DEF Reception, p
        <5>2. toServer[i + 1 - 1].name = Packs /\ i + 1 - 1 = i
          BY <1>2, <1>7, <3>1, <4>1, <5>1
        <5>3. i # 1
          BY <5>1, <5>2 DEF p, Packs, Configuring
        <5>4. i - 1 \in 1 .. k /\ i - 1 + 1 = i /\ i > 1
          BY <1>2, <5>3
        <5> QED BY <1>3, <5>2, <5>4
      <4>4. ASSUME serverStep' \in {"packsSent", "configuration"} PROVE version' >= V1_21_3
        <5>1. serverStep \in {"packsSent", "configuration"} \/ serverStep = "acknowledgement"
          BY <1>0, <4>4 DEF Reception
        <5>2. serverStep # "acknowledgement"
          BY <1>5, <3>1, <4>1 DEF Due, FinishConfiguration
        <5> QED BY <1>1, <1>7, <3>1, <4>1, <5>1, <5>2
      <4> QED BY <4>2, <4>3, <4>4
    <3> QED BY <3>1, <3>2, <3>3, <3>4
  <2> QED BY <2>2, <2>3, <2>4 DEF Order, k
<1> QED BY <1>13, <1>14

\* The rest of the invariant, when the server receives.
LEMMA ReceiveKeeps ==
  ASSUME SessionInv, ServerReceive
  PROVE  SessionInv'
<1>0. /\ TypeOK /\ ClientPlaces /\ Outgoing /\ Order /\ ServerPlaces /\ Sent
      /\ Starting /\ AskingStatus /\ LoggingIn /\ ConfiguringBoth /\ Ends /\ Together
      /\ result \in {"none", "ok"} => Incoming
  BY DEF SessionInv, ClientInv
<1>1. /\ version' = version /\ goal' = goal /\ connState' = connState /\ pc' = pc /\ result' = result
      /\ threshold' = threshold /\ serverComp' = serverComp /\ toClient' = toClient
      /\ toServer # <<>>
      /\ toServer' = <<>> <=> Len(toServer) = 1
      /\ \A name : Wrote(name)' => Wrote(name)
      /\ Wrote(toServer[1].name)
      /\ End' = End
  BY <1>0, Taken
<1>2. Reception /\ version \in Int /\ goal \in {"Status", "Login"}
  BY <1>0, Receiving, Types
<1>3. ClientInv'
  <2>1. TypeOK'
    BY <1>0, ServerKeeps DEF Server
  <2> QED BY <1>0, <1>1, <2>1 DEF ClientInv, ClientPlaces, NoMissingID, SessionInv
<1>4. Outgoing' /\ Order'
  BY <1>0, ReceiveOutgoing
<1>5. ServerPlaces'
  <2>1. serverStep = "handshake" => serverStep' = "request" /\ serverIn' = goal /\ serverOut' = goal
    BY <1>2 DEF Reception
  <2> QED BY <1>0, <1>1, <1>2, <2>1 DEF ServerPlaces, Reception, V1_20_2, V1_20_5, V1_21_3
<1>6. ASSUME result' \in {"none", "ok"} PROVE Incoming'
  <2>0. result \in {"none", "ok"} /\ Incoming
    BY <1>0, <1>1, <1>6
  <2>1. CASE serverStep = "handshake"
    <3>1. toClient = <<>> /\ ~serverComp /\ ~threshold
      BY <1>0, <2>0, <2>1 DEF Sent, ServerPlaces, Incoming
    <3>2. serverStep' = "request" /\ serverOut' = goal
      BY <1>2, <2>1 DEF Reception
    <3>3. End # "Play"
      <4>1. Len(toServer) \in 1 .. Len(toServer)
        BY <1>0, <1>1, Types
      <4>2. toServer[Len(toServer)].name \in Due(serverStep)
            /\ toServer[Len(toServer)].state = StateOf(toServer[Len(toServer)].name)
        BY <1>0, <4>1 DEF Outgoing
      <4> QED BY <1>1, <1>2, <2>1, <4>2 DEF End, After, Due, StateOf, FinishConfiguration
    <3>4. connState = goal
      <4>1. connState # "Handshaking"
        BY <1>0, <1>1 DEF Together
      <4>2. pc # "configuration"
        BY <1>0, <2>1 DEF ConfiguringBoth
      <4>3. ~(result = "ok" /\ goal = "Login")
        BY <1>0, <3>3 DEF Ends
      <4>4. pc \in {"start", "status", "ping", "login", "configuration", "returned"}
        BY <1>0 DEF TypeOK
      <4> QED BY <1>0, <1>2, <2>0, <4>1, <4>2, <4>3, <4>4 DEF ClientPlaces
    <3>5. OutNext' = goal
      BY <3>2 DEF OutNext
    <3>6. toClient' = <<>> /\ Len(toClient') = 0
      BY <1>1, <3>1
    <3>7. threshold = serverComp
      <4>1. threshold \in BOOLEAN /\ serverComp \in BOOLEAN
        BY <1>0 DEF TypeOK
      <4> QED BY <3>1, <4>1
    <3> QED BY <1>1, <3>1, <3>2, <3>4, <3>5, <3>6, <3>7 DEF Incoming
  <2>2. CASE serverStep # "handshake"
    <3>1. OutNext' = OutNext /\ serverStep' # "handshake"
      BY <1>0, <1>2, <2>2 DEF Reception, OutNext, ServerPlaces
    <3> QED BY <1>1, <2>0, <2>2, <3>1 DEF Incoming, StateAfter, CompAfter
  <2> QED BY <2>1, <2>2
<1>7. Sent'
  <2>1. serverStep' = "login" => toClient = <<>>
    BY <1>0, <1>2 DEF Reception, Sent, Packs
  <2>2. serverStep' \in {"handshake", "request"} => toClient = <<>>
    BY <1>0, <1>2 DEF Reception, Sent
  <2>3. serverStep' # "acknowledgement"
    BY <1>2 DEF Reception
  <2>4. toClient = <<>> => Len(toClient) = 0
    BY <1>0, Types
  <2> QED BY <1>0, <1>1, <2>1, <2>2, <2>3, <2>4 DEF Sent, WiresOf
<1>8. Starting'
  BY <1>0, <1>1 DEF Starting
<1>9. AskingStatus'
  <2> SUFFICES ASSUME pc = "status" PROVE AskingStatus'
    BY <1>1 DEF AskingStatus
  <2>1. toClient = <<>> /\ serverStep \in {"handshake", "request"} /\ ~Wrote("ServerboundPing")
        /\ goal = "Status"
    BY <1>0, <1>1 DEF AskingStatus, ClientPlaces
  <2>2. toServer[1].name # "ServerboundPing"
    BY <1>1, <2>1
  <2>3. serverStep' = "request" \/ (serverStep' = "server_info" /\ toServer' = <<>>)
    BY <1>1, <1>2, <2>1, <2>2 DEF Reception
  <2>4. ~Carries("server_info")'
    BY <1>0, <1>1, <2>1, Types DEF Carries
  <2> QED BY <1>1, <2>1, <2>3, <2>4 DEF AskingStatus
<1>10. LoggingIn'
  <2> SUFFICES ASSUME pc = "login" PROVE LoggingIn'
    BY <1>1 DEF LoggingIn
  <2>1. toClient = <<>> /\ serverStep \in {"handshake", "request"} /\ goal = "Login"
    BY <1>0, <1>1 DEF LoggingIn, ClientPlaces
  <2>2. serverStep' = "request" \/ (serverStep' = "login" /\ toServer' = <<>>)
    BY <1>1, <1>2, <2>1 DEF Reception
  <2>3. ~Carries("success")'
    BY <1>0, <1>1, <2>1, Types DEF Carries
  <2>4. serverStep' = "login" => serverIn' = "Login"
    BY <1>1, <1>5 DEF ServerPlaces
  <2> QED BY <1>1, <2>1, <2>2, <2>3, <2>4 DEF LoggingIn
<1>11. ConfiguringBoth'
  <2> SUFFICES ASSUME pc = "configuration" PROVE ConfiguringBoth'
    BY <1>1 DEF ConfiguringBoth
  <2>1. \A wire : Carries(wire)' <=> Carries(wire)
    BY <1>1 DEF Carries
  <2>2. /\ serverStep' \in {"packs", "packsSent", "configuration", "finish", "play", "done", "gone"}
        /\ serverStep \in {"finish", "play", "done"} => serverStep' \in {"finish", "play", "done"}
    BY <1>0, <1>2 DEF ConfiguringBoth, Reception
  <2>3. ASSUME serverStep \in {"packsSent", "gone"}, ~Wrote(Packs)
        PROVE  serverStep' = "packsSent" /\ ~Wrote(Packs)'
    <3>1. toServer[1].name # Packs
      BY <1>1, <2>3
    <3> QED BY <1>1, <1>2, <2>3, <3>1 DEF Reception
  <2> QED BY <1>0, <1>1, <2>1, <2>2, <2>3 DEF ConfiguringBoth
<1>12. Ends'
  <2>1. version >= V1_21_3 /\ serverStep' \in {"configuration", "finish"} =>
          Wrote(Packs) \/ serverStep \in {"configuration", "finish"}
    BY <1>1, <1>2 DEF Reception, V1_21_3, V1_20_5
  <2> QED BY <1>0, <1>1, <2>1 DEF Ends
<1>13. Together'
  <2>1. connState # "Handshaking"
    BY <1>0, <1>1 DEF Together
  <2>2. ASSUME connState = "Login"
        PROVE  serverStep' \in {"request", "login"} \/ (serverStep' \in {"play", "done"} /\ version < V1_20_2)
    <3>1. goal = "Login"
      BY <1>0, <1>2, <2>2 DEF TypeOK, StatesOfGoal
    <3>2. serverStep \in {"handshake", "request", "login", "gone"}
             \/ (serverStep \in {"play", "done"} /\ version < V1_20_2)
      BY <1>0, <1>1, <2>2 DEF Together
    <3> QED BY <1>2, <3>1, <3>2 DEF Reception
  <2> QED BY <1>1, <2>1, <2>2 DEF Together
<1> QED BY <1>3, <1>4, <1>5, <1>6, <1>7, <1>8, <1>9, <1>10, <1>11, <1>12, <1>13 DEF SessionInv

-----------------------------------------------------------------------------
(* The server sends.                                                       *)

\* What it may send while the client waits for the status or to be logged in.
Turn(wire) ==
  \/ /\ serverStep \in {"server_info", "ping"} /\ wire \in {"server_info", "ping"}
     /\ serverStep' = "request" \/ (serverStep' = serverStep /\ wire # serverStep)
     /\ UNCHANGED <<serverIn, serverOut, serverComp>>
  \/ /\ serverStep = "login"
     /\ \/ /\ wire = "success" /\ version >= V1_20_2 /\ serverStep' = "acknowledgement"
           /\ UNCHANGED <<serverIn, serverOut, serverComp>>
        \/ /\ wire = "success" /\ ~(version >= V1_20_2) /\ serverStep' = "play"
           /\ serverIn' = "Play" /\ serverOut' = "Play" /\ UNCHANGED serverComp
        \/ /\ wire = "compress" /\ serverComp' = TRUE
           /\ UNCHANGED <<serverStep, serverIn, serverOut>>
        \/ /\ wire \in {"cookie_request", "encryption_begin"}
           /\ UNCHANGED <<serverStep, serverIn, serverOut, serverComp>>
        \/ /\ wire = "disconnect" /\ serverStep' = "gone"
           /\ UNCHANGED <<serverIn, serverOut, serverComp>>

\* The server answering in the status and login states keeps the two sides
\* together.
LEMMA TurnKeeps ==
  ASSUME SessionInv, TypeOK', UNCHANGED <<version, goal, clientVars, toServer>>,
         NEW wire, Send(wire), Turn(wire)
  PROVE  SessionInv'
<1>0. /\ TypeOK /\ ClientPlaces /\ Outgoing /\ Order /\ ServerPlaces /\ Sent
      /\ Starting /\ AskingStatus /\ LoggingIn /\ ConfiguringBoth /\ Ends /\ Together
      /\ result \in {"none", "ok"} => Incoming
  BY DEF SessionInv, ClientInv
<1>1. /\ version' = version /\ goal' = goal /\ connState' = connState /\ pc' = pc /\ result' = result
      /\ threshold' = threshold /\ toServer' = toServer
  BY Zenon DEF clientVars
<1>2. toServer = <<>> /\ serverStep \in {"server_info", "ping", "login"}
  BY <1>0, AtTurn DEF Turn
<1>3. /\ version \in Int /\ goal \in {"Status", "Login"} /\ Len(toServer) = 0
      /\ serverComp \in BOOLEAN
  BY <1>0, <1>2, Types DEF TypeOK
<1>4. /\ serverStep \in {"server_info", "ping"} =>
           goal = "Status" /\ serverIn = "Status" /\ serverOut = "Status" /\ ~serverComp
      /\ serverStep = "login" => goal = "Login" /\ serverIn = "Login" /\ serverOut = "Login"
  BY <1>0 DEF ServerPlaces
<1>5. ClientInv'
  BY <1>0, <1>1 DEF ClientInv, ClientPlaces, NoMissingID, SessionInv
<1>6. Outgoing' /\ Order'
  BY <1>1, <1>2, <1>3 DEF Outgoing, Order
<1>7. ServerPlaces'
  BY <1>0, <1>1, <1>2, <1>3, <1>4 DEF ServerPlaces, Turn
<1>8. ASSUME result' \in {"none", "ok"} PROVE Incoming'
  <2>0. Incoming
    BY <1>0, <1>1, <1>8
  <2>1. serverStep # "handshake" /\ serverStep' # "handshake" /\ OutNext = serverOut
    BY <1>2 DEF OutNext, Turn
  <2>2. StateAfter(New(wire)) = OutNext'
    BY <1>2, <1>3, <1>4 DEF Turn, StateAfter, New, OutNext
  <2>3. CompAfter(New(wire)) = serverComp'
    <3>1. New(wire).wire = wire /\ New(wire).comp = serverComp
      BY DEF New
    <3>2. CASE wire = "compress"
      <4>1. serverComp' = TRUE
        BY <3>2 DEF Turn
      <4> QED BY <3>1, <3>2, <4>1 DEF CompAfter
    <3>3. CASE wire # "compress"
      <4>1. serverComp' = serverComp
        BY <3>3 DEF Turn
      <4> QED BY <1>3, <3>1, <3>3, <4>1 DEF CompAfter
    <3> QED BY <3>2, <3>3
  <2> QED BY <1>0, <1>1, <2>0, <2>1, <2>2, <2>3, Sending
<1>9. Sent'
  <2>1. serverStep' # "handshake" /\ ~(goal = "Login" /\ serverStep' = "request")
    BY <1>4 DEF Turn
  <2>2. wire \in WiresOf(serverOut)
    BY <1>4 DEF Turn, WiresOf
  <2>3. serverStep' = "login" => serverStep = "login" /\ serverOut = "Login" /\ wire # "success"
    BY <1>4 DEF Turn
  <2>4. serverStep' = "acknowledgement" => serverStep = "login"
    BY <1>2 DEF Turn
  <2>5. serverComp' = serverComp \/ (serverStep = "login" /\ serverOut = "Login" /\ wire # "success")
    BY <1>4 DEF Turn
  <2>6. goal = "Status" => ~serverComp
    BY <1>0 DEF ServerPlaces
  <2> QED BY <1>0, <1>1, <2>1, <2>2, <2>3, <2>4, <2>5, <2>6, SentMore
<1>10. pc \notin {"start", "configuration"} /\ connState # "Handshaking"
  BY <1>0, <1>2 DEF Starting, ConfiguringBoth, Together
<1>11. \A w : Carries(w)' <=> Carries(w) \/ w = wire
  BY <1>0, Pushed
<1>12. \A name : ~Wrote(name)'
  BY <1>1, <1>3 DEF Wrote
<1>13. AskingStatus'
  <2> SUFFICES ASSUME pc = "status" PROVE AskingStatus'
    BY <1>1 DEF AskingStatus
  <2>1. serverStep = "server_info" /\ ~Carries("server_info")
    BY <1>0, <1>2 DEF AskingStatus
  <2>2. serverStep' = "request" \/ (serverStep' = "server_info" /\ ~Carries("server_info")')
    BY <1>11, <2>1 DEF Turn
  <2> QED BY <1>1, <1>2, <1>12, <2>2 DEF AskingStatus
<1>14. LoggingIn'
  <2> SUFFICES ASSUME pc = "login" PROVE LoggingIn'
    BY <1>1 DEF LoggingIn
  <2>1. serverStep = "login" /\ ~Carries("success")
    BY <1>0, <1>2, <1>4 DEF LoggingIn, ClientPlaces
  <2>2. serverStep' \in {"login", "gone"} => ~Carries("success")' /\ serverIn' = "Login"
    BY <1>4, <1>11, <2>1 DEF Turn
  <2>3. \/ serverStep' \in {"login", "gone", "acknowledgement"}
        \/ serverStep' = "play" /\ version < V1_20_2
    BY <1>3, <2>1 DEF Turn, V1_20_2
  <2> QED BY <1>1, <1>2, <2>2, <2>3 DEF LoggingIn
<1>15. Ends'
  <2>1. serverStep' \notin {"configuration", "finish"}
    BY <1>2 DEF Turn
  <2>2. ~(result = "ok" /\ goal = "Login")
    BY <1>0, <1>2, <1>4 DEF Ends, End
  <2> QED BY <1>1, <1>12, <2>1, <2>2 DEF Ends
<1>16. Together'
  <2>1. ASSUME connState = "Login"
        PROVE  \/ serverStep' \in {"login", "gone", "acknowledgement"}
               \/ serverStep' = "play" /\ version < V1_20_2
    <3>1. goal = "Login"
      BY <1>0, <1>3, <2>1 DEF TypeOK, StatesOfGoal
    <3> QED BY <1>3, <1>4, <3>1 DEF Turn, V1_20_2
  <2> QED BY <1>1, <1>2, <1>10, <2>1 DEF Together
<1>17. Starting' /\ ConfiguringBoth'
  BY <1>1, <1>10 DEF Starting, ConfiguringBoth
<1> QED BY <1>5, <1>6, <1>7, <1>8, <1>9, <1>13, <1>14, <1>15, <1>16, <1>17 DEF SessionInv

\* What it may send afterwards.
Later(wire) ==
  \/ serverStep = "packs" /\ wire = "select_known_packs" /\ serverStep' = "packsSent" /\ UNCHANGED serverOut
  \/ /\ serverStep = "configuration" /\ wire = "finish_configuration"
     /\ \/ serverIn = "Play" /\ serverStep' = "play" /\ serverOut' = "Play"
        \/ serverIn # "Play" /\ serverStep' = "finish" /\ UNCHANGED serverOut
  \/ serverStep = "play" /\ wire = "login" /\ serverStep' = "done" /\ UNCHANGED serverOut
  \/ MayAsk /\ wire \in Requests /\ UNCHANGED <<serverStep, serverOut>>
  \/ /\ serverStep \in {"packs", "packsSent", "configuration"}
     /\ wire \in {"registry_data", "ping", "tags"} /\ UNCHANGED <<serverStep, serverOut>>
  \/ /\ serverStep \in {"packs", "packsSent", "configuration"}
     /\ wire = "disconnect" /\ serverStep' = "gone" /\ UNCHANGED serverOut

\* So does everything it sends from configuration on.
LEMMA LaterKeeps ==
  ASSUME NoLateRequests, SessionInv, TypeOK',
         UNCHANGED <<version, goal, clientVars, toServer, serverIn, serverComp>>,
         NEW wire, Send(wire), Later(wire)
  PROVE  SessionInv'
<1>0. /\ TypeOK /\ ClientPlaces /\ Outgoing /\ Order /\ ServerPlaces /\ Sent
      /\ Starting /\ AskingStatus /\ LoggingIn /\ ConfiguringBoth /\ Ends /\ Together
      /\ result \in {"none", "ok"} => Incoming
  BY DEF SessionInv, ClientInv
<1>1. /\ version' = version /\ goal' = goal /\ connState' = connState /\ pc' = pc /\ result' = result
      /\ threshold' = threshold /\ toServer' = toServer /\ serverIn' = serverIn /\ serverComp' = serverComp
  BY Zenon DEF clientVars
<1>2. serverStep \in {"packs", "packsSent", "configuration", "play"}
  BY DEF Later, MayAsk
<1>3. /\ version \in Int /\ goal \in {"Status", "Login"} /\ version \in Supported
      /\ serverComp \in BOOLEAN /\ RequestsAfterPacks \in BOOLEAN
  BY <1>0, Types, SessionAssumption DEF TypeOK
<1>4. /\ goal = "Login"
      /\ serverOut = IF serverStep = "play" THEN "Play" ELSE "Configuration"
      /\ serverStep # "play" => version >= V1_20_2
  BY <1>0, <1>2 DEF ServerPlaces
<1>5. ClientInv'
  BY <1>0, <1>1 DEF ClientInv, ClientPlaces, NoMissingID, SessionInv
<1>6. End' = End /\ \A name : Wrote(name)' <=> Wrote(name)
  BY <1>1 DEF End, After, Wrote
<1>7. serverStep' = "play" => toServer = <<>>
  <2>1. serverStep' = "play" => serverIn = "Play" /\ version >= V1_20_2
    BY <1>2, <1>4 DEF Later, MayAsk
  <2> QED BY <1>0, <2>1, AtPlay
<1>8. Due(serverStep) \subseteq Due(serverStep') \/ toServer = <<>>
  <2>1. CASE serverStep' = serverStep
    BY <2>1
  <2>2. CASE serverStep' # serverStep
    <3>1. \/ serverStep = "packs" /\ serverStep' = "packsSent"
          \/ serverStep = "configuration" /\ serverStep' = "finish"
          \/ serverStep = "play" /\ serverStep' = "done"
          \/ serverStep \in {"packs", "packsSent", "configuration"} /\ serverStep' = "gone"
          \/ serverStep' = "play"
      BY <2>2 DEF Later
    <3> QED BY <1>7, <3>1 DEF Due
  <2> QED BY <2>1, <2>2
<1>9. Outgoing'
  <2>1. \A i \in 1 .. Len(toServer) : toServer[i].name \in Due(serverStep')
    <3>1. toServer = <<>> => Len(toServer) = 0
      BY <1>0, Types
    <3> QED BY <1>0, <1>8, <3>1 DEF Outgoing
  <2> QED BY <1>0, <1>1, <2>1 DEF Outgoing, After, StateOf, Due
<1>10. Order'
  <2>1. serverStep' \notin {"handshake", "request"}
    BY <1>2 DEF Later, MayAsk
  <2>2. \A i \in 1 .. Len(toServer) : serverStep = "packs" => toServer[i].name # FinishConfiguration
    BY <1>0 DEF Outgoing, Due, Configuring, FinishConfiguration
  <2>3. /\ serverStep' = "packsSent" => serverStep \in {"packs", "packsSent"}
        /\ serverStep' = "configuration" => serverStep = "configuration"
    BY <1>2 DEF Later, MayAsk
  <2> QED BY <1>0, <1>1, <2>1, <2>2, <2>3 DEF Order
<1>11. ServerPlaces'
  <2>1. /\ serverStep' \in {"packsSent", "configuration", "finish", "play", "done", "gone", "packs"}
        /\ serverStep' \in {"packsSent", "packs"} => version >= V1_20_5
        /\ serverStep' \in {"packs", "packsSent", "finish"} => serverIn = "Configuration"
        /\ serverStep' \in {"play", "done"} => serverIn = "Play" /\ serverOut' = "Play"
        /\ serverStep' \in {"packs", "packsSent", "configuration", "finish"} =>
             serverOut' = "Configuration" /\ version >= V1_20_2
        /\ serverStep' = "configuration" => serverStep = "configuration"
        /\ serverIn # "Handshaking"
    BY <1>0, <1>2, <1>4 DEF Later, MayAsk, ServerPlaces
  <2>2. serverStep = "configuration" => serverIn = "Configuration" \/ (serverIn = "Play" /\ version >= V1_21_3)
    BY <1>0 DEF ServerPlaces
  <2> QED BY <1>1, <1>4, <2>1, <2>2 DEF ServerPlaces
<1>12. ASSUME result' \in {"none", "ok"} PROVE Incoming'
  <2>0. Incoming
    BY <1>0, <1>1, <1>12
  <2>1. serverStep # "handshake" /\ serverStep' # "handshake" /\ OutNext = serverOut
    BY <1>2 DEF OutNext, Later, MayAsk
  <2>2. StateAfter(New(wire)) = OutNext'
    BY <1>2, <1>4 DEF Later, MayAsk, StateAfter, New, OutNext, Requests
  <2>3. CompAfter(New(wire)) = serverComp'
    <3>1. New(wire).wire = wire /\ New(wire).comp = serverComp /\ wire # "compress"
      BY DEF New, Later, Requests
    <3> QED BY <1>1, <1>3, <3>1 DEF CompAfter
  <2> QED BY <1>0, <1>1, <2>0, <2>1, <2>2, <2>3, Sending
<1>13. Sent'
  <2>1. serverStep' \notin {"handshake", "request", "login", "acknowledgement"}
    BY <1>2 DEF Later, MayAsk
  <2>2. wire \in WiresOf(serverOut)
    BY <1>2, <1>4 DEF Later, MayAsk, WiresOf, Requests
  <2> QED BY <1>0, <1>1, <1>4, <2>1, <2>2, SentMore
<1>14. pc \notin {"start", "status"} /\ connState # "Handshaking"
  BY <1>0, <1>2 DEF Starting, AskingStatus, Together
<1>15. LoggingIn'
  BY <1>0, <1>1, <1>2 DEF LoggingIn, Later, MayAsk
<1>16. Ends'
  <2>1. serverStep' \in {"configuration", "finish"} => serverStep = "configuration"
    BY <1>2 DEF Later, MayAsk
  <2> QED BY <1>0, <1>1, <1>6, <2>1 DEF Ends
<1>17. Together'
  <2>1. connState = "Login" => serverStep = "play" /\ serverStep' = "done" /\ version < V1_20_2
    BY <1>0, <1>2 DEF Together, Later, MayAsk
  <2> QED BY <1>1, <1>14, <2>1 DEF Together
<1>18. ConfiguringBoth'
  <2> SUFFICES ASSUME pc = "configuration" PROVE ConfiguringBoth'
    BY <1>1 DEF ConfiguringBoth
  <2> DEFINE n == Len(toClient)
  <2>1. /\ Len(toClient') = n + 1 /\ n \in Nat
        /\ \A i \in 1 .. n : toClient'[i] = toClient[i]
        /\ toClient'[n + 1].wire = wire
        /\ \A w : Carries(w)' <=> Carries(w) \/ w = wire
    <3>1. New(wire).wire = wire
      BY DEF New
    <3> QED BY <1>0, <3>1, Pushed
  <2>2. /\ threshold = serverComp
        /\ End = "Configuration" \/ (End = "Play" /\ version >= V1_21_3)
        /\ End = "Play" => ~Carries("select_known_packs") /\ \A w \in Requests : ~Carries(w)
        /\ Carries("finish_configuration") => serverStep \in {"finish", "play", "done"}
    BY <1>0 DEF ConfiguringBoth
  <2>3. MayAsk => serverStep = "packs" \/ version < V1_21_3
    BY <1>3 DEF MayAsk, NoLateRequests, FinishesFirst, V1_21_3
  <2>4. serverStep = "packs" => End = "Configuration" /\ ~Wrote(Packs)
    <3>1. serverStep = "packs" => \A i \in 1 .. Len(toServer) : toServer[i].name # Packs
      BY <1>0 DEF Outgoing, Due, Configuring, Packs
    <3> QED BY <1>0, <3>1, AtPacks DEF Wrote
  <2>5. End = "Play" => wire # "select_known_packs" /\ wire \notin Requests
    <3>1. version >= V1_21_3 => ~(version < V1_21_3)
      BY <1>3 DEF V1_21_3
    <3> QED BY <1>2, <2>2, <2>3, <2>4, <3>1 DEF Later, Requests
  <2>6. /\ serverStep' \in {"packs", "packsSent", "configuration", "finish", "play", "done", "gone"}
        /\ Carries("finish_configuration")' => serverStep' \in {"finish", "play", "done"}
    BY <1>2, <2>1, <2>2 DEF Later, MayAsk, Requests
  <2>7. ASSUME NEW i \in 1 .. n + 1, toClient'[i].wire = "select_known_packs"
        PROVE  /\ serverStep' \in {"packsSent", "gone"}
               /\ ~Wrote(Packs)
               /\ \A j \in 1 .. n + 1 : toClient'[j].wire = "select_known_packs" => j = i
               /\ version >= V1_21_3 => \A j \in i + 1 .. n + 1 : toClient'[j].wire \notin Requests
    <3>1. CASE i = n + 1
      <4>1. wire = "select_known_packs" /\ serverStep = "packs" /\ serverStep' = "packsSent"
        BY <2>1, <2>7, <3>1 DEF Later, Requests
      <4>2. \A j \in 1 .. n : toClient[j].wire # "select_known_packs"
        BY <1>0, <4>1 DEF ConfiguringBoth
      <4> QED BY <2>1, <2>4, <3>1, <4>1, <4>2
    <3>2. CASE i # n + 1
      <4>1. i \in 1 .. n /\ toClient[i].wire = "select_known_packs"
        BY <2>1, <2>7, <3>2
      <4>2. /\ serverStep \in {"packsSent", "gone"} /\ ~Wrote(Packs)
            /\ \A j \in 1 .. n : toClient[j].wire = "select_known_packs" => j = i
            /\ version >= V1_21_3 => \A j \in i + 1 .. n : toClient[j].wire \notin Requests
        BY <1>0, <4>1 DEF ConfiguringBoth
      <4>3. wire # "select_known_packs" /\ serverStep' \in {"packsSent", "gone"}
        BY <4>2 DEF Later, MayAsk, Requests
      <4>4. version >= V1_21_3 => wire \notin Requests
        <5>1. version >= V1_21_3 => ~MayAsk
          BY <1>3, <2>3, <4>2 DEF V1_21_3
        <5> QED BY <5>1 DEF Later, Requests
      <4>5. ASSUME NEW j \in 1 .. n + 1, toClient'[j].wire = "select_known_packs" PROVE j = i
        BY <2>1, <4>2, <4>3, <4>5
      <4>6. ASSUME version >= V1_21_3, NEW j \in i + 1 .. n + 1 PROVE toClient'[j].wire \notin Requests
        <5>1. CASE j = n + 1
          BY <2>1, <4>4, <4>6, <5>1
        <5>2. CASE j # n + 1
          <6>1. j \in i + 1 .. n /\ j \in 1 .. n
            BY <2>1, <4>1, <5>2
          <6> QED BY <2>1, <4>2, <4>6, <6>1
        <5> QED BY <5>1, <5>2
      <4> QED BY <4>2, <4>3, <4>5, <4>6
    <3> QED BY <3>1, <3>2
  <2> HIDE DEF n
  <2> QED BY <1>1, <1>6, <2>1, <2>2, <2>5, <2>6, <2>7 DEF ConfiguringBoth
<1>19. Starting' /\ AskingStatus'
  BY <1>1, <1>14 DEF Starting, AskingStatus
<1> QED BY <1>5, <1>9, <1>10, <1>11, <1>12, <1>13, <1>15, <1>16, <1>17, <1>18, <1>19 DEF SessionInv

\* Every packet the server sends is one of those two kinds.
LEMMA ServerSendsKeeps ==
  ASSUME NoLateRequests, SessionInv, ServerRequired \/ ServerCompress \/ ServerExtra
  PROVE  SessionInv'
<1>0. TypeOK
  BY DEF SessionInv, ClientInv
<1>1. TypeOK' /\ UNCHANGED <<version, goal, clientVars>>
  BY <1>0, ServerKeeps DEF Server
<1>2. toServer' = toServer
  BY DEF ServerRequired, ServerCompress, ServerExtra
<1>3. CASE ServerRequired
  <2>1. serverComp' = serverComp
    BY <1>3 DEF ServerRequired
  <2>2. CASE serverStep \in {"server_info", "ping", "login"}
    <3>1. \E wire : Send(wire) /\ Turn(wire)
      BY <1>3, <2>1, <2>2 DEF ServerRequired, Turn
    <3> QED BY <1>1, <1>2, <3>1, TurnKeeps
  <2>3. CASE serverStep \notin {"server_info", "ping", "login"}
    <3>1. serverIn' = serverIn /\ \E wire : Send(wire) /\ Later(wire)
      BY <1>3, <2>3 DEF ServerRequired, Later
    <3> QED BY <1>1, <1>2, <2>1, <3>1, LaterKeeps
  <2> QED BY <2>2, <2>3
<1>4. CASE ServerCompress
  <2>1. Send("compress") /\ Turn("compress")
    BY <1>4 DEF ServerCompress, Turn
  <2> QED BY <1>1, <1>2, <2>1, TurnKeeps
<1>5. CASE ServerExtra
  <2>1. serverComp' = serverComp /\ serverIn' = serverIn /\ serverOut' = serverOut
    BY <1>5 DEF ServerExtra
  <2>2. DOMAIN AnswerTo \ {"select_known_packs"} = Requests
    BY DEF AnswerTo, Requests
  <2>3. CASE serverStep \in {"server_info", "ping", "login"}
    <3>1. \E wire : Send(wire) /\ Turn(wire)
      BY <1>5, <2>1, <2>3 DEF ServerExtra, Turn, MayAsk
    <3> QED BY <1>1, <1>2, <3>1, TurnKeeps
  <2>4. CASE serverStep \notin {"server_info", "ping", "login"}
    <3>1. \E wire : Send(wire) /\ Later(wire)
      BY <1>5, <2>1, <2>2, <2>4 DEF ServerExtra, Later
    <3> QED BY <1>1, <1>2, <2>1, <3>1, LaterKeeps
  <2> QED BY <2>3, <2>4
<1> QED BY <1>3, <1>4, <1>5

-----------------------------------------------------------------------------
(* The client moves.                                                       *)

\* The packets of the status state.
LEMMA StatusTypes ==
  ASSUME NEW id
  PROVE  /\ TypeIn("Status", id) = "ClientboundStatusResponse" <=> id = "server_info"
         /\ TypeIn("Status", id) = "ClientboundPong" <=> id = "ping"
<1> DEFINE R == Registered(version, "Status", "Clientbound")
<1>1. R = { <<"server_info", "ClientboundStatusResponse">>, <<"ping", "ClientboundPong">> }
  BY DEF Registered, StatusClientbound
<1>2. "ClientboundStatusResponse" \in packetConstructors /\ "ClientboundPong" \in packetConstructors
  BY DEF packetConstructors
<1>3. TypeIn("Status", id) # ErrUnknownPacket => \E row \in R : row[1] = id /\ TypeIn("Status", id) = row[2]
  BY Lookup DEF TypeIn
<1>4. id \in {"server_info", "ping"} => \E row \in R : row[1] = id /\ TypeIn("Status", id) = row[2]
  <2>1. <<"server_info", "ClientboundStatusResponse">> \in R /\ <<"ping", "ClientboundPong">> \in R
    BY <1>1
  <2> HIDE DEF R
  <2>2. id \in {"server_info", "ping"} => \E row \in R : row[1] = id /\ row[2] \in packetConstructors
    BY <1>2, <2>1
  <2> QED BY <2>2, Lookup DEF TypeIn, R
<1> QED BY <1>1, <1>3, <1>4 DEF ErrUnknownPacket

\* What no step of the client changes.
LEMMA ClientLeaves ==
  ASSUME SessionInv, Client
  PROVE  /\ version' = version /\ goal' = goal /\ serverIn' = serverIn /\ serverOut' = serverOut
         /\ serverComp' = serverComp /\ serverStep' = serverStep
         /\ ClientInv' /\ ServerPlaces'
<1>1. UNCHANGED <<version, goal, serverVars, lost>>
  BY ClientFrame DEF SessionInv
<1>2. /\ version' = version /\ goal' = goal /\ serverIn' = serverIn /\ serverOut' = serverOut
      /\ serverComp' = serverComp /\ serverStep' = serverStep
  BY <1>1, Zenon DEF serverVars
<1>3. ClientInv'
  BY ClientInvStep DEF SessionInv, Next
<1> QED BY <1>2, <1>3 DEF SessionInv, ServerPlaces

\* A call that fails leaves the exchange as it is.
LEMMA FailKeeps ==
  ASSUME SessionInv, Client, Fails, toClient' = toClient \/ (toClient # <<>> /\ toClient' = Tail(toClient))
  PROVE  SessionInv'
<1>0. /\ TypeOK /\ Outgoing /\ Order /\ Sent /\ Ends /\ Together
  BY DEF SessionInv, ClientInv
<1>1. /\ version' = version /\ goal' = goal /\ serverIn' = serverIn /\ serverOut' = serverOut
      /\ serverComp' = serverComp /\ serverStep' = serverStep
      /\ ClientInv' /\ ServerPlaces' /\ UNCHANGED <<version, goal, serverVars>>
  BY ClientLeaves, ClientFrame DEF SessionInv
<1>2. Adds(<<>>) /\ connState' = connState /\ pc' = "returned" /\ result' = "error"
  BY DEF Fails, Moves
<1>3. /\ toServer' = toServer /\ Outgoing' /\ Order' /\ End' = End
      /\ \A name : Wrote(name)' <=> Wrote(name)
  BY <1>0, <1>1, <1>2, Writingless
<1>4. Sent'
  <2>1. CASE toClient' = toClient
    BY <1>0, <1>1, <2>1 DEF Sent, WiresOf
  <2>2. CASE toClient # <<>> /\ toClient' = Tail(toClient)
    BY <1>0, <1>1, <2>2, SentRest
  <2> QED BY <2>1, <2>2
<1>5. Ends' /\ Together'
  BY <1>0, <1>1, <1>2, <1>3 DEF Ends, Together
<1>6. Starting' /\ AskingStatus' /\ LoggingIn' /\ ConfiguringBoth' /\ result' \notin {"none", "ok"}
  BY <1>2 DEF Starting, AskingStatus, LoggingIn, ConfiguringBoth
<1> QED BY <1>1, <1>3, <1>4, <1>5, <1>6 DEF SessionInv

\* The handshake, and what follows it.
LEMMA StartKeeps ==
  ASSUME SessionInv, StatusStart \/ LoginStart \/ LoginNoName
  PROVE  SessionInv'
<1>0. /\ ClientInv /\ TypeOK /\ Outgoing /\ Order /\ Sent /\ Ends /\ Together /\ Starting /\ ServerPlaces
      /\ ClientPlaces
      /\ result \in {"none", "ok"} => Incoming
  BY DEF SessionInv, ClientInv
<1>1. Client
  BY DEF Client
<1>2. /\ version' = version /\ goal' = goal /\ serverIn' = serverIn /\ serverOut' = serverOut
      /\ serverComp' = serverComp /\ serverStep' = serverStep
      /\ ClientInv' /\ ServerPlaces' /\ UNCHANGED <<version, goal, serverVars>>
  BY <1>0, <1>1, ClientLeaves, ClientFrame
<1>3. pc = "start" /\ toClient' = toClient /\ threshold' = threshold
  BY DEF StatusStart, LoginStart, LoginNoName
<1>4. /\ serverStep = "handshake" /\ toServer = <<>> /\ toClient = <<>> /\ serverIn = "Handshaking"
      /\ Incoming /\ ~threshold /\ ~serverComp /\ End = "Handshaking"
      /\ Len(toServer) = 0 /\ Len(toClient) = 0
  <2>1. serverStep = "handshake" /\ toServer = <<>> /\ result = "none"
    BY <1>0, <1>3 DEF Starting, ClientPlaces
  <2>2. toClient = <<>> /\ serverIn = "Handshaking" /\ ~serverComp
    BY <1>0, <2>1 DEF Sent, ServerPlaces
  <2>3. Incoming /\ ~threshold
    BY <1>0, <2>1 DEF Incoming
  <2>4. End = "Handshaking"
    BY <2>1, <2>2 DEF End
  <2>5. Len(toServer) = 0 /\ Len(toClient) = 0
    BY <1>0, <2>1, <2>2, Types
  <2> QED BY <2>1, <2>2, <2>3, <2>4, <2>5
<1>5. threshold = serverComp
  BY <1>0, <1>4 DEF TypeOK
<1>6. goal \in {"Status", "Login"}
  BY <1>0, Types
<1>7. ASSUME NEW ws, NEW m \in {1, 2}, Len(ws) = m, Adds(ws),
             ws[1] = W("Handshaking", "ServerboundHandshake"),
             m = 2 => \/ ws[2] = W("Status", "ServerboundStatusRequest") /\ goal = "Status"
                      \/ ws[2] = W("Login", "ServerboundLoginStart") /\ goal = "Login"
      PROVE  Outgoing' /\ Order' /\ \A name : name \in {"ServerboundPing", Packs} => ~Wrote(name)'
  <2>1. /\ ws[1].state = "Handshaking" /\ ws[1].name = "ServerboundHandshake"
        /\ m = 2 => \/ ws[2].state = "Status" /\ ws[2].name = "ServerboundStatusRequest" /\ goal = "Status"
                    \/ ws[2].state = "Login" /\ ws[2].name = "ServerboundLoginStart" /\ goal = "Login"
    BY <1>7 DEF W
  <2>2. ws[1].state = End
    BY <1>4, <2>1
  <2>3. After(ws[1]) = goal
    BY <2>1 DEF After, FinishConfiguration
  <2>4. \A i \in 2 .. m : ws[i].state = After(ws[i - 1])
    <3> SUFFICES ASSUME NEW i \in 2 .. m PROVE ws[i].state = After(ws[i - 1])
      OBVIOUS
    <3>1. i = 2 /\ m = 2 /\ i - 1 = 1
      BY <1>7
    <3> QED BY <2>1, <2>3, <3>1
  <2>5. \A i \in 1 .. m : ws[i].state = StateOf(ws[i].name) /\ ws[i].name \in Due(serverStep)
    <3> SUFFICES ASSUME NEW i \in 1 .. m PROVE ws[i].state = StateOf(ws[i].name) /\ ws[i].name \in Due(serverStep)
      OBVIOUS
    <3>1. i = 1 \/ (i = 2 /\ m = 2)
      BY <1>7
    <3> QED BY <1>4, <2>1, <3>1 DEF StateOf, Due
  <2>6. m \in Nat /\ m >= 1
    BY <1>7
  <2>7. Outgoing' /\ \A name : Wrote(name)' <=> Wrote(name) \/ \E i \in 1 .. m : ws[i].name = name
    BY <1>0, <1>2, <1>5, <1>7, <2>2, <2>4, <2>5, <2>6, Writing
  <2>8. /\ Len(toServer') = m
        /\ \A i \in 1 .. m : toServer'[i].name = ws[i].name
    BY <1>4, <1>7 DEF Adds
  <2>9. \A i \in 1 .. m : ws[i].name \in {"ServerboundHandshake", "ServerboundStatusRequest", "ServerboundLoginStart"}
    <3> SUFFICES ASSUME NEW i \in 1 .. m
                 PROVE  ws[i].name \in {"ServerboundHandshake", "ServerboundStatusRequest", "ServerboundLoginStart"}
      OBVIOUS
    <3>1. i = 1 \/ (i = 2 /\ m = 2)
      BY <1>7
    <3> QED BY <2>1, <3>1
  <2>10. \A name : name \in {"ServerboundPing", Packs} => ~Wrote(name)'
    BY <2>8, <2>9 DEF Wrote, Packs
  <2>11. Order'
    BY <1>2, <1>4, <1>7, <2>8, <2>9 DEF Order, Packs, FinishConfiguration
  <2> QED BY <2>7, <2>10, <2>11
<1>8. Outgoing' /\ Order' /\ ~Wrote("ServerboundPing")' /\ ~Wrote(Packs)'
  <2>1. CASE StatusStart
    <3> DEFINE ws == <<W("Handshaking", "ServerboundHandshake"), W("Status", "ServerboundStatusRequest")>>
    <3>1. Adds(ws) /\ goal = "Status"
      BY <1>0, <2>1, Effects DEF Moves, StatusStart
    <3>2. Len(ws) = 2 /\ ws[1] = W("Handshaking", "ServerboundHandshake")
          /\ ws[2] = W("Status", "ServerboundStatusRequest")
      OBVIOUS
    <3> HIDE DEF ws
    <3> QED BY <1>7, <3>1, <3>2 DEF Packs
  <2>2. CASE LoginStart
    <3> DEFINE ws == <<W("Handshaking", "ServerboundHandshake"), W("Login", "ServerboundLoginStart")>>
    <3>1. Adds(ws) /\ goal = "Login"
      BY <1>0, <2>2, Effects DEF Moves, LoginStart
    <3>2. Len(ws) = 2 /\ ws[1] = W("Handshaking", "ServerboundHandshake")
          /\ ws[2] = W("Login", "ServerboundLoginStart")
      OBVIOUS
    <3> HIDE DEF ws
    <3> QED BY <1>7, <3>1, <3>2 DEF Packs
  <2>3. CASE LoginNoName
    <3> DEFINE ws == <<W("Handshaking", "ServerboundHandshake")>>
    <3>1. Adds(ws)
      BY <1>0, <2>3, Effects DEF Moves
    <3>2. Len(ws) = 1 /\ ws[1] = W("Handshaking", "ServerboundHandshake")
      OBVIOUS
    <3> HIDE DEF ws
    <3> QED BY <1>7, <3>1, <3>2 DEF Packs
  <2> QED BY <2>1, <2>2, <2>3
<1>9. \/ connState' = "Status" /\ pc' = "status" /\ result' = "none"
      \/ connState' = "Login" /\ pc' = "login" /\ result' = "none"
      \/ connState' = "Login" /\ pc' = "returned" /\ result' = "error"
  BY <1>0, Effects DEF Moves
<1>10. Incoming'
  BY <1>2, <1>3, <1>4 DEF Incoming
<1>11. Sent'
  BY <1>2, <1>3, <1>4 DEF Sent
<1>12. Starting' /\ AskingStatus' /\ LoggingIn' /\ ConfiguringBoth'
  BY <1>2, <1>3, <1>4, <1>8, <1>9 DEF Starting, AskingStatus, LoggingIn, ConfiguringBoth
<1>13. Ends' /\ Together'
  BY <1>2, <1>4, <1>8, <1>9 DEF Ends, Together
<1> QED BY <1>2, <1>8, <1>10, <1>11, <1>12, <1>13 DEF SessionInv

\* The known packs are asked for once, and in the versions where the client
\* finishes first nothing is asked for after them.
LEMMA PacksRest ==
  ASSUME TypeOK, ConfiguringBoth, pc = "configuration", version' = version,
         toClient # <<>>, toClient' = Tail(toClient)
  PROVE  /\ \A i \in 1 .. Len(toClient') : toClient'[i].wire = "select_known_packs" =>
              /\ serverStep \in {"packsSent", "gone"}
              /\ ~Wrote(Packs)
              /\ \A j \in 1 .. Len(toClient') : toClient'[j].wire = "select_known_packs" => j = i
              /\ version >= V1_21_3 => \A j \in i + 1 .. Len(toClient') : toClient'[j].wire \notin Requests
         /\ toClient[1].wire = "select_known_packs" =>
              /\ serverStep \in {"packsSent", "gone"}
              /\ ~Wrote(Packs)
              /\ ~Carries("select_known_packs")'
              /\ version >= V1_21_3 => \A wire \in Requests : ~Carries(wire)'
<1> DEFINE n == Len(toClient)
           k == Len(toClient')
           rest == toClient'
<1>1. /\ n \in Nat /\ n >= 1 /\ k = n - 1
      /\ \A i \in 1 .. k : rest[i] = toClient[i + 1] /\ i + 1 \in 2 .. n
  BY Popped
<1>2. \A i \in 1 .. n : toClient[i].wire = "select_known_packs" =>
         /\ serverStep \in {"packsSent", "gone"}
         /\ ~Wrote(Packs)
         /\ \A j \in 1 .. n : toClient[j].wire = "select_known_packs" => j = i
         /\ version >= V1_21_3 => \A j \in i + 1 .. n : toClient[j].wire \notin Requests
  BY DEF ConfiguringBoth
<1> HIDE DEF n, k, rest
<1>3. ASSUME NEW i \in 1 .. k, rest[i].wire = "select_known_packs"
      PROVE  /\ serverStep \in {"packsSent", "gone"}
             /\ ~Wrote(Packs)
             /\ \A j \in 1 .. k : rest[j].wire = "select_known_packs" => j = i
             /\ version >= V1_21_3 => \A j \in i + 1 .. k : rest[j].wire \notin Requests
  <2>1. i + 1 \in 1 .. n /\ toClient[i + 1].wire = "select_known_packs"
    BY <1>1, <1>3
  <2>2. ASSUME NEW j \in 1 .. k, rest[j].wire = "select_known_packs" PROVE j = i
    <3>1. j + 1 \in 1 .. n /\ toClient[j + 1].wire = "select_known_packs"
      BY <1>1, <2>2
    <3>2. j + 1 = i + 1
      BY <1>2, <2>1, <3>1
    <3> QED BY <1>1, <3>2
  <2>3. ASSUME version >= V1_21_3, NEW j \in i + 1 .. k PROVE rest[j].wire \notin Requests
    <3>1. j \in 1 .. k /\ j + 1 \in i + 1 + 1 .. n
      BY <1>1
    <3>2. rest[j] = toClient[j + 1]
      BY <1>1, <3>1
    <3> QED BY <1>2, <2>1, <2>3, <3>1, <3>2
  <2> QED BY <1>2, <2>1, <2>2, <2>3
<1>4. ASSUME toClient[1].wire = "select_known_packs"
      PROVE  /\ serverStep \in {"packsSent", "gone"}
             /\ ~Wrote(Packs)
             /\ ~Carries("select_known_packs")'
             /\ version >= V1_21_3 => \A wire \in Requests : ~Carries(wire)'
  <2>1. 1 \in 1 .. n
    BY <1>1
  <2>2. ASSUME NEW i \in 1 .. k
        PROVE  rest[i].wire # "select_known_packs" /\ (version >= V1_21_3 => rest[i].wire \notin Requests)
    <3>1. i + 1 \in 1 .. n /\ i + 1 \in 1 + 1 .. n /\ i + 1 # 1 /\ rest[i] = toClient[i + 1]
      BY <1>1
    <3> QED BY <1>2, <1>4, <2>1, <3>1
  <2> QED BY <1>2, <1>4, <2>1, <2>2 DEF Carries, k, rest
<1> QED BY <1>3, <1>4 DEF k, rest

\* The client reads a packet it does not answer.
LEMMA QuietKeeps ==
  ASSUME SessionInv, Client, toClient # <<>>, toClient' = Tail(toClient), Adds(<<>>), result = "none",
         connState' = StateAfter(toClient[1]), threshold' = CompAfter(toClient[1]),
         pc' \in {"login", "configuration", "returned"}, pc' = pc \/ pc' = "returned",
         pc' = "configuration" => threshold' = threshold,
         connState' # "Handshaking", connState' = "Login" => connState = "Login",
         result' = "ok" /\ goal = "Login" => End = "Play"
  PROVE  SessionInv'
<1>0. /\ TypeOK /\ Outgoing /\ Order /\ Sent /\ Ends /\ Together /\ LoggingIn /\ ConfiguringBoth
      /\ Incoming
  BY DEF SessionInv, ClientInv
<1>1. /\ version' = version /\ goal' = goal /\ serverIn' = serverIn /\ serverOut' = serverOut
      /\ serverComp' = serverComp /\ serverStep' = serverStep
      /\ ClientInv' /\ ServerPlaces' /\ UNCHANGED <<version, goal, serverVars>>
  BY ClientLeaves, ClientFrame DEF SessionInv
<1>2. /\ toServer' = toServer /\ Outgoing' /\ Order' /\ End' = End
      /\ \A name : Wrote(name)' <=> Wrote(name)
  BY <1>0, <1>1, Writingless
<1>3. serverStep # "handshake"
  BY <1>0 DEF Sent
<1>4. Incoming'
  BY <1>0, <1>1, <1>3, Reading
<1>5. Sent'
  BY <1>0, <1>1, SentRest
<1>6. \A wire : Carries(wire)' => Carries(wire)
  BY <1>0, Popped
<1>7. Starting' /\ AskingStatus'
  BY DEF Starting, AskingStatus
<1>8. LoggingIn'
  BY <1>0, <1>1, <1>2, <1>6 DEF LoggingIn
<1>9. ConfiguringBoth'
  <2> SUFFICES ASSUME pc' = "configuration" PROVE ConfiguringBoth'
    BY DEF ConfiguringBoth
  <2>1. pc = "configuration"
    OBVIOUS
  <2>2. \A i \in 1 .. Len(toClient') : toClient'[i].wire = "select_known_packs" =>
          /\ serverStep \in {"packsSent", "gone"}
          /\ ~Wrote(Packs)
          /\ \A j \in 1 .. Len(toClient') : toClient'[j].wire = "select_known_packs" => j = i
          /\ version >= V1_21_3 => \A j \in i + 1 .. Len(toClient') : toClient'[j].wire \notin Requests
    BY <1>0, <1>1, <2>1, PacksRest
  <2>3. /\ threshold = serverComp
        /\ serverStep \in {"acknowledgement", "packs", "packsSent", "configuration", "finish", "play", "done", "gone"}
        /\ serverStep # "acknowledgement"
        /\ End = "Configuration" \/ (End = "Play" /\ version >= V1_21_3)
        /\ End = "Play" => ~Carries("select_known_packs") /\ \A wire \in Requests : ~Carries(wire)
        /\ Carries("finish_configuration") => serverStep \in {"finish", "play", "done"}
    BY <1>0, <2>1 DEF ConfiguringBoth
  <2> QED BY <1>1, <1>2, <1>6, <2>2, <2>3 DEF ConfiguringBoth
<1>10. Ends' /\ Together'
  BY <1>0, <1>1, <1>2 DEF Ends, Together
<1> QED BY <1>1, <1>2, <1>4, <1>5, <1>7, <1>8, <1>9, <1>10 DEF SessionInv

\* What holds of every packet the client reads and understands.
LEMMA ReadFacts ==
  ASSUME SessionInv, Client, result = "none", toClient # <<>>, toClient' = Tail(toClient)
  PROVE  /\ toClient[1].state = connState /\ toClient[1].comp = threshold
         /\ toClient[1].wire \in WiresOf(connState)
         /\ Type = TypeIn(connState, toClient[1].wire)
         /\ serverStep # "handshake"
         /\ Sent' /\ Carries(toClient[1].wire)
         /\ connState' = StateAfter(toClient[1]) /\ threshold' = CompAfter(toClient[1]) => Incoming'
<1>0. TypeOK /\ Sent /\ Incoming
  BY DEF SessionInv, ClientInv
<1>1. UNCHANGED <<version, goal, serverVars>>
  BY ClientFrame DEF SessionInv
<1>2. /\ Head(toClient) = toClient[1] /\ Carries(toClient[1].wire) /\ 1 \in 1 .. Len(toClient)
  BY <1>0, Popped
<1>3. toClient[1].state = connState /\ toClient[1].comp = threshold
  BY <1>0 DEF Incoming
<1>4. toClient[1].wire \in WiresOf(toClient[1].state) /\ serverStep # "handshake"
  BY <1>0, <1>2 DEF Sent
<1>5. Sent'
  BY <1>0, <1>1, SentRest
<1>6. connState' = StateAfter(toClient[1]) /\ threshold' = CompAfter(toClient[1]) => Incoming'
  BY <1>0, <1>1, <1>4, Reading
<1> QED BY <1>2, <1>3, <1>4, <1>5, <1>6 DEF Type, TypeIn

\* A status response is answered with a Ping.
LEMMA PingKeeps ==
  ASSUME SessionInv, StatusResponse
  PROVE  SessionInv'
<1>0. /\ ClientInv /\ TypeOK /\ Outgoing /\ Order /\ Sent /\ Ends /\ Together /\ ServerPlaces
      /\ ClientPlaces /\ AskingStatus
  BY DEF SessionInv, ClientInv
<1>1. Client /\ pc = "status" /\ toClient # <<>> /\ toClient' = Tail(toClient) /\ threshold' = threshold
  BY DEF Client, StatusResponse, Received
<1>2. result = "none" /\ connState = "Status" /\ goal = "Status"
  BY <1>0, <1>1 DEF ClientPlaces
<1>3. CASE Type # "ClientboundStatusResponse"
  <2>1. Fails
    BY <1>0, <1>3, Effects
  <2> QED BY <1>1, <2>1, FailKeeps
<1>4. CASE Type = "ClientboundStatusResponse"
  <2>1. Moves(<<W("Status", "ServerboundPing")>>, "Status", "ping", "none")
    BY <1>0, <1>4, Effects
  <2>2. /\ version' = version /\ goal' = goal /\ serverIn' = serverIn /\ serverOut' = serverOut
        /\ serverComp' = serverComp /\ serverStep' = serverStep
        /\ ClientInv' /\ ServerPlaces' /\ UNCHANGED <<version, goal, serverVars>>
    BY <1>0, <1>1, ClientLeaves, ClientFrame
  <2>3. /\ toClient[1].state = "Status" /\ toClient[1].comp = threshold
        /\ Type = TypeIn("Status", toClient[1].wire)
        /\ Sent' /\ Carries(toClient[1].wire)
        /\ connState' = StateAfter(toClient[1]) /\ threshold' = CompAfter(toClient[1]) => Incoming'
    BY <1>1, <1>2, ReadFacts
  <2>4. toClient[1].wire = "server_info"
    BY <1>4, <2>3, StatusTypes
  <2>5. toServer = <<>> /\ serverStep = "request" /\ serverIn = "Status" /\ End = "Status" /\ ~Wrote(Packs)
    <3>1. toServer = <<>> /\ serverStep = "request" /\ Len(toServer) = 0
      BY <1>0, <1>1, <2>3, <2>4, Types DEF AskingStatus
    <3>2. serverIn = "Status"
      BY <1>0, <1>2, <3>1 DEF ServerPlaces
    <3> QED BY <3>1, <3>2 DEF End, Wrote
  <2>6. ~threshold /\ ~serverComp /\ threshold = serverComp
    <3>1. 1 \in 1 .. Len(toClient)
      BY <1>0, <1>1, Types
    <3>2. ~threshold /\ ~serverComp
      BY <1>0, <1>2, <2>3, <3>1 DEF Sent, ServerPlaces
    <3>3. threshold \in BOOLEAN /\ serverComp \in BOOLEAN
      BY <1>0 DEF TypeOK
    <3> QED BY <3>2, <3>3
  <2>7. CompAfter(toClient[1]) = threshold /\ StateAfter(toClient[1]) = "Status"
    <3>1. threshold \in BOOLEAN
      BY <1>0 DEF TypeOK
    <3> QED BY <2>3, <2>4, <3>1 DEF CompAfter, StateAfter
  <2> DEFINE ws == <<W("Status", "ServerboundPing")>>
  <2>8. Adds(ws) /\ connState' = "Status" /\ pc' = "ping" /\ result' = "none"
    BY <2>1 DEF Moves
  <2>9. Len(ws) = 1 /\ ws[1].state = "Status" /\ ws[1].name = "ServerboundPing"
    BY DEF W
  <2> HIDE DEF ws
  <2>10. ws[1].state = StateOf(ws[1].name) /\ ws[1].name \in Due(serverStep)
    BY <2>5, <2>9 DEF StateOf, Due
  <2>11. Outgoing' /\ \A name : Wrote(name)' <=> Wrote(name) \/ ws[1].name = name
    <3>1. Len(ws) = 1 /\ Adds(ws) /\ ws[1].state = End
      BY <2>5, <2>8, <2>9
    <3> QED BY <1>0, <2>2, <2>6, <2>10, <3>1, WritingOne
  <2>12. Order'
    <3>1. Len(toServer') = 1 /\ toServer'[1].name = "ServerboundPing"
      BY <1>0, <2>5, <2>8, <2>9, Types DEF Adds
    <3> QED BY <2>2, <3>1 DEF Order, Packs, FinishConfiguration
  <2>13. Starting' /\ AskingStatus' /\ LoggingIn' /\ ConfiguringBoth'
    BY <2>8 DEF Starting, AskingStatus, LoggingIn, ConfiguringBoth
  <2>14. ~Wrote(Packs)'
    BY <2>5, <2>9, <2>11 DEF Packs
  <2>15. Ends' /\ Together'
    BY <2>2, <2>5, <2>8, <2>14 DEF Ends, Together
  <2> QED BY <1>1, <2>2, <2>3, <2>7, <2>8, <2>11, <2>12, <2>13, <2>15 DEF SessionInv
<1> QED BY <1>3, <1>4

\* The answer to it ends GetStatus.
LEMMA PongKeeps ==
  ASSUME SessionInv, StatusPong
  PROVE  SessionInv'
<1>0. ClientInv /\ TypeOK /\ ClientPlaces
  BY DEF SessionInv, ClientInv
<1>1. Client /\ pc = "ping" /\ toClient # <<>> /\ toClient' = Tail(toClient) /\ threshold' = threshold
  BY DEF Client, StatusPong, Received
<1>2. result = "none" /\ connState = "Status" /\ goal = "Status"
  BY <1>0, <1>1 DEF ClientPlaces
<1>3. CASE Type # "ClientboundPong"
  <2>1. Fails
    BY <1>0, <1>3, Effects
  <2> QED BY <1>1, <2>1, FailKeeps
<1>4. CASE Type = "ClientboundPong"
  <2>1. Adds(<<>>) /\ connState' = "Status" /\ pc' = "returned" /\ result' = "ok"
    BY <1>0, <1>4, Effects DEF Moves
  <2>2. toClient[1].state = "Status" /\ toClient[1].comp = threshold /\ Type = TypeIn("Status", toClient[1].wire)
    BY <1>1, <1>2, ReadFacts
  <2>3. toClient[1].wire = "ping"
    BY <1>4, <2>2, StatusTypes
  <2>4. CompAfter(toClient[1]) = threshold /\ StateAfter(toClient[1]) = "Status"
    <3>1. threshold \in BOOLEAN
      BY <1>0 DEF TypeOK
    <3> QED BY <2>2, <2>3, <3>1 DEF CompAfter, StateAfter
  <2> QED BY <1>1, <1>2, <2>1, <2>4, QuietKeeps
<1> QED BY <1>3, <1>4

\* Compression, and the packets Join ignores while it logs in.
LEMMA LoginKeeps ==
  ASSUME SessionInv, LoginCompression \/ LoginOther
  PROVE  SessionInv'
<1>0. ClientInv /\ TypeOK /\ ClientPlaces
  BY DEF SessionInv, ClientInv
<1>1. Client /\ pc = "login" /\ toClient # <<>> /\ toClient' = Tail(toClient)
  BY DEF Client, LoginCompression, LoginOther, Received
<1>2. result = "none" /\ connState = "Login" /\ goal = "Login"
  BY <1>0, <1>1 DEF ClientPlaces
<1>3. /\ toClient[1].state = "Login" /\ toClient[1].comp = threshold
      /\ toClient[1].wire \in WiresOf("Login") /\ Type = TypeIn("Login", toClient[1].wire)
  BY <1>1, <1>2, ReadFacts
<1>4. threshold \in BOOLEAN
  BY <1>0 DEF TypeOK
<1>5. CASE LoginOther /\ Type \in {"ClientboundDisconnect", ErrUnknownPacket}
  <2>1. Fails
    BY <1>0, <1>5, Effects
  <2> QED BY <1>1, <2>1, FailKeeps
<1>6. CASE LoginOther /\ Type \notin {"ClientboundDisconnect", ErrUnknownPacket}
  <2>1. Adds(<<>>) /\ connState' = "Login" /\ pc' = "login" /\ result' = "none"
    BY <1>0, <1>6, Effects DEF Moves
  <2>2. toClient[1].wire \notin {"success", "compress"} /\ threshold' = threshold
    BY <1>3, <1>6, LoginTypes DEF LoginOther
  <2>3. CompAfter(toClient[1]) = threshold /\ StateAfter(toClient[1]) = "Login"
    BY <1>3, <1>4, <2>2 DEF CompAfter, StateAfter, WiresOf
  <2> QED BY <1>1, <1>2, <2>1, <2>2, <2>3, QuietKeeps
<1>7. CASE LoginCompression
  <2>1. Adds(<<>>) /\ connState' = "Login" /\ pc' = "login" /\ result' = "none" /\ threshold' = TRUE
    BY <1>0, <1>7, Effects DEF Moves, LoginCompression
  <2>2. toClient[1].wire = "compress"
    BY <1>3, <1>7, LoginTypes DEF LoginCompression
  <2>3. CompAfter(toClient[1]) = TRUE /\ StateAfter(toClient[1]) = "Login"
    BY <1>3, <2>2 DEF CompAfter, StateAfter
  <2> QED BY <1>1, <1>2, <2>1, <2>3, QuietKeeps
<1> QED BY <1>5, <1>6, <1>7

\* The login succeeds: Join acknowledges it, or before 1.20.2 is done.
LEMMA SuccessKeeps ==
  ASSUME SessionInv, LoginSuccess
  PROVE  SessionInv'
<1>0. /\ ClientInv /\ TypeOK /\ Outgoing /\ Order /\ Sent /\ Ends /\ Together /\ ServerPlaces
      /\ ClientPlaces /\ LoggingIn
  BY DEF SessionInv, ClientInv
<1>1. Client /\ pc = "login" /\ toClient # <<>> /\ toClient' = Tail(toClient) /\ threshold' = threshold
  BY DEF Client, LoginSuccess, Received
<1>2. result = "none" /\ connState = "Login" /\ goal = "Login" /\ version \in Int
  BY <1>0, <1>1, Types DEF ClientPlaces
<1>3. /\ version' = version /\ goal' = goal /\ serverIn' = serverIn /\ serverOut' = serverOut
      /\ serverComp' = serverComp /\ serverStep' = serverStep
      /\ ClientInv' /\ ServerPlaces' /\ UNCHANGED <<version, goal, serverVars>>
  BY <1>0, <1>1, ClientLeaves, ClientFrame
<1>4. /\ toClient[1].state = "Login" /\ toClient[1].comp = threshold
      /\ Type = TypeIn("Login", toClient[1].wire)
      /\ Sent' /\ Carries(toClient[1].wire)
      /\ connState' = StateAfter(toClient[1]) /\ threshold' = CompAfter(toClient[1]) => Incoming'
  BY <1>1, <1>2, ReadFacts
<1>5. toClient[1].wire = "success"
  BY <1>4, LoginTypes DEF LoginSuccess
<1>6. /\ toServer = <<>> /\ Len(toServer) = 0
      /\ \/ serverStep = "acknowledgement" /\ version >= V1_20_2
         \/ serverStep \in {"play", "done"} /\ ~(version >= V1_20_2)
  BY <1>0, <1>1, <1>2, <1>4, <1>5, Types DEF LoggingIn, ServerPlaces, V1_20_2
<1>7. 1 \in 1 .. Len(toClient) /\ (toClient' = <<>> <=> Len(toClient) = 1)
  BY <1>0, <1>1, Popped
<1>8. threshold = serverComp /\ ~Wrote(Packs)
  BY <1>0, <1>4, <1>5, <1>6, <1>7 DEF Sent, Wrote
<1>9. CompAfter(toClient[1]) = threshold
      /\ StateAfter(toClient[1]) = IF version >= V1_20_2 THEN "Configuration" ELSE "Play"
  <2>1. threshold \in BOOLEAN
    BY <1>0 DEF TypeOK
  <2> QED BY <1>4, <1>5, <2>1 DEF CompAfter, StateAfter
<1>10. CASE version >= V1_20_2
  <2> DEFINE ws == <<W("Login", "ServerboundLoginAcknowledged"), W("Configuration", "ServerboundClientSettings")>>
  <2>1. /\ Adds(ws) /\ connState' = "Configuration" /\ pc' = "configuration" /\ result' = "none"
    BY <1>0, <1>10, Effects DEF Moves
  <2>2. /\ Len(ws) = 2 /\ ws[1].state = "Login" /\ ws[1].name = "ServerboundLoginAcknowledged"
        /\ ws[2].state = "Configuration" /\ ws[2].name = "ServerboundClientSettings"
    BY DEF W
  <2> HIDE DEF ws
  <2>3. serverStep = "acknowledgement" /\ serverIn = "Login" /\ End = "Login"
    BY <1>0, <1>6, <1>10 DEF ServerPlaces, End
  <2>4. /\ ws[1].state = StateOf(ws[1].name) /\ ws[1].name \in Due(serverStep)
        /\ ws[2].state = StateOf(ws[2].name) /\ ws[2].name \in Due(serverStep)
    BY <1>10, <2>2, <2>3 DEF StateOf, Due
  <2>5. ws[1].state = End /\ ws[2].state = After(ws[1])
    BY <2>2, <2>3 DEF After, FinishConfiguration
  <2>6. Outgoing' /\ End' = After(ws[2])
    <3>1. Len(ws) = 2 /\ Adds(ws)
      BY <2>1, <2>2
    <3> QED BY <1>0, <1>3, <1>8, <2>4, <2>5, <3>1, WritingTwo
  <2>7. End' = "Configuration"
    BY <2>2, <2>6 DEF After, FinishConfiguration
  <2>8. Len(toServer') = 2 /\ toServer'[1].name = "ServerboundLoginAcknowledged"
        /\ toServer'[2].name = "ServerboundClientSettings"
    BY <1>6, <2>1, <2>2 DEF Adds
  <2>9. Order' /\ ~Wrote(Packs)'
    <3>1. \A i \in 1 .. 2 : i = 1 \/ i = 2
      OBVIOUS
    <3> QED BY <1>3, <2>3, <2>8, <3>1 DEF Order, Wrote, Packs, FinishConfiguration
  <2>10. toClient' = <<>> /\ Len(toClient') = 0
    <3>1. Len(toClient) = 1
      BY <1>0, <1>5, <1>7, <1>10, <2>3 DEF Sent
    <3>2. toClient' = <<>>
      BY <1>7, <3>1
    <3> QED BY <3>2
  <2>11. Starting' /\ AskingStatus' /\ LoggingIn'
    BY <2>1 DEF Starting, AskingStatus, LoggingIn
  <2>12. ConfiguringBoth'
    <3>1. \A wire : ~Carries(wire)'
      BY <2>10 DEF Carries
    <3>2. \A i \in 1 .. Len(toClient') : FALSE
      BY <2>10
    <3> QED BY <1>1, <1>3, <1>8, <2>3, <2>7, <2>10, <3>1, <3>2 DEF ConfiguringBoth
  <2>13. Ends' /\ Together'
    BY <1>3, <2>1, <2>3, <2>9 DEF Ends, Together
  <2> QED BY <1>1, <1>3, <1>4, <1>9, <1>10, <2>1, <2>6, <2>9, <2>11, <2>12, <2>13 DEF SessionInv
<1>11. CASE ~(version >= V1_20_2)
  <2> DEFINE ws == <<W("Play", "ServerboundClientSettings")>>
  <2>1. /\ Adds(ws) /\ connState' = "Play" /\ pc' = "returned" /\ result' = "ok"
    BY <1>0, <1>11, Effects DEF Moves
  <2>2. Len(ws) = 1 /\ ws[1].state = "Play" /\ ws[1].name = "ServerboundClientSettings"
    BY DEF W
  <2> HIDE DEF ws
  <2>3. serverStep \in {"play", "done"} /\ serverIn = "Play" /\ End = "Play"
    BY <1>0, <1>6, <1>11 DEF ServerPlaces, End
  <2>4. ws[1].state = StateOf(ws[1].name) /\ ws[1].name \in Due(serverStep)
    BY <1>11, <2>2, <2>3 DEF StateOf, Due
  <2>5. Len(ws) = 1 /\ Adds(ws) /\ ws[1].state = End
    BY <2>1, <2>2, <2>3
  <2>6. Outgoing' /\ End' = After(ws[1])
    BY <1>0, <1>3, <1>8, <2>4, <2>5, WritingOne
  <2>7. End' = "Play"
    BY <2>2, <2>6 DEF After, FinishConfiguration
  <2>8. Len(toServer') = 1 /\ toServer'[1].name = "ServerboundClientSettings"
    BY <1>6, <2>1, <2>2 DEF Adds
  <2>9. Order'
    BY <1>3, <2>3, <2>8 DEF Order, Packs, FinishConfiguration
  <2>10. Starting' /\ AskingStatus' /\ LoggingIn' /\ ConfiguringBoth'
    BY <2>1 DEF Starting, AskingStatus, LoggingIn, ConfiguringBoth
  <2>11. Ends' /\ Together'
    BY <2>1, <2>7 DEF Ends, Together
  <2> QED BY <1>1, <1>3, <1>4, <1>9, <1>11, <2>1, <2>6, <2>9, <2>10, <2>11 DEF SessionInv
<1> QED BY <1>10, <1>11

\* What is known when the client reads in configuration.
LEMMA ConfigurationFacts ==
  ASSUME SessionInv, Client, pc = "configuration", toClient # <<>>, toClient' = Tail(toClient)
  PROVE  /\ result = "none" /\ connState = "Configuration" /\ goal = "Login"
         /\ version \in Int /\ version >= V1_20_2
         /\ toClient[1].wire \in WiresOf("Configuration")
         /\ Type = TypeIn("Configuration", toClient[1].wire)
         /\ threshold = serverComp
         /\ CompAfter(toClient[1]) = threshold
         /\ StateAfter(toClient[1]) =
              IF toClient[1].wire = "finish_configuration" THEN "Play" ELSE "Configuration"
         /\ End # "Play" =>
              /\ End = "Configuration"
              /\ serverStep \in {"packs", "packsSent", "configuration", "finish", "gone"}
<1>0. TypeOK /\ ClientPlaces /\ ConfiguringBoth /\ Outgoing /\ ServerPlaces
  BY DEF SessionInv, ClientInv
<1>1. result = "none" /\ connState = "Configuration" /\ goal = "Login" /\ version \in Int /\ version >= V1_20_2
  BY <1>0, Types DEF ClientPlaces
<1>2. /\ toClient[1].state = "Configuration" /\ toClient[1].comp = threshold
      /\ toClient[1].wire \in WiresOf("Configuration") /\ Type = TypeIn("Configuration", toClient[1].wire)
  BY <1>1, ReadFacts
<1>3. threshold = serverComp /\ threshold \in BOOLEAN
  BY <1>0 DEF ConfiguringBoth, TypeOK
<1>4. toClient[1].wire \notin {"success", "compress"}
  BY <1>2 DEF WiresOf
<1>5. CompAfter(toClient[1]) = threshold
  BY <1>2, <1>3, <1>4 DEF CompAfter
<1>6. StateAfter(toClient[1]) =
        IF toClient[1].wire = "finish_configuration" THEN "Play" ELSE "Configuration"
  BY <1>2, <1>4 DEF StateAfter
<1>7. ASSUME End # "Play"
      PROVE  End = "Configuration" /\ serverStep \in {"packs", "packsSent", "configuration", "finish", "gone"}
  <2>1. serverStep \notin {"play", "done"}
    BY <1>0, <1>1, <1>7, AtPlay
  <2> QED BY <1>0, <1>7, <2>1 DEF ConfiguringBoth
<1> QED BY <1>1, <1>2, <1>3, <1>5, <1>6, <1>7

\* The end of configuration ends Join.
LEMMA FinishKeeps ==
  ASSUME SessionInv, ConfigurationFinish
  PROVE  SessionInv'
<1>0. /\ ClientInv /\ TypeOK /\ Outgoing /\ Order /\ Sent /\ Ends /\ Together /\ ServerPlaces
      /\ ClientPlaces /\ ConfiguringBoth
  BY DEF SessionInv, ClientInv
<1>1. /\ Client /\ pc = "configuration" /\ toClient # <<>> /\ toClient' = Tail(toClient)
      /\ threshold' = threshold
  BY DEF Client, ConfigurationFinish, Received
<1>2. /\ result = "none" /\ goal = "Login" /\ version \in Int /\ version >= V1_20_2
      /\ Type = TypeIn("Configuration", toClient[1].wire) /\ threshold = serverComp
      /\ CompAfter(toClient[1]) = threshold
      /\ StateAfter(toClient[1]) =
           IF toClient[1].wire = "finish_configuration" THEN "Play" ELSE "Configuration"
      /\ End # "Play" =>
           /\ End = "Configuration"
           /\ serverStep \in {"packs", "packsSent", "configuration", "finish", "gone"}
  BY <1>1, ConfigurationFacts
<1>3. toClient[1].wire = "finish_configuration"
  BY <1>2, ConfigurationTypes DEF ConfigurationFinish
<1>4. Carries("finish_configuration") /\ Sent'
      /\ (connState' = StateAfter(toClient[1]) /\ threshold' = CompAfter(toClient[1]) => Incoming')
  BY <1>1, <1>2, <1>3, ReadFacts
<1>5. serverStep \in {"finish", "play", "done"}
  BY <1>0, <1>1, <1>4 DEF ConfiguringBoth
<1>6. /\ version' = version /\ goal' = goal /\ serverIn' = serverIn /\ serverOut' = serverOut
      /\ serverComp' = serverComp /\ serverStep' = serverStep
      /\ ClientInv' /\ ServerPlaces' /\ UNCHANGED <<version, goal, serverVars>>
  BY <1>0, <1>1, ClientLeaves, ClientFrame
<1>7. CASE ~FinishesLast
  <2>1. Adds(<<>>) /\ connState' = "Play" /\ pc' = "returned" /\ result' = "ok"
    BY <1>0, <1>7, Effects DEF Moves
  <2>2. End = "Play"
    <3>1. version >= V1_21_3
      BY <1>2, <1>7 DEF FinishesLast, V1_21_3
    <3>2. serverStep \in {"play", "done"} => End = "Play"
      BY <1>0, <1>2, AtPlay
    <3> QED BY <1>0, <1>5, <3>1, <3>2 DEF Ends
  <2> QED BY <1>1, <1>2, <1>3, <2>1, <2>2, QuietKeeps
<1>8. CASE FinishesLast
  <2> DEFINE ws == <<W("Configuration", FinishConfiguration)>>
  <2>1. Adds(ws) /\ connState' = "Play" /\ pc' = "returned" /\ result' = "ok"
    BY <1>0, <1>8, Effects DEF Moves
  <2>2. Len(ws) = 1 /\ ws[1].state = "Configuration" /\ ws[1].name = FinishConfiguration
    BY DEF W
  <2> HIDE DEF ws
  <2>3. End = "Configuration" /\ serverStep = "finish"
    <3>1. ~(version >= V1_21_3)
      BY <1>2, <1>8 DEF FinishesLast, V1_21_3
    <3>2. End # "Play"
      BY <1>0, <1>1, <3>1 DEF ConfiguringBoth
    <3> QED BY <1>2, <1>5, <3>2
  <2>4. ws[1].state = StateOf(ws[1].name) /\ ws[1].name \in Due(serverStep)
    BY <1>2, <2>2, <2>3 DEF StateOf, Due, FinishConfiguration
  <2>5. Len(ws) = 1 /\ Adds(ws) /\ ws[1].state = End
    BY <2>1, <2>2, <2>3
  <2>6. Outgoing' /\ End' = After(ws[1])
    BY <1>0, <1>2, <1>6, <2>4, <2>5, WritingOne
  <2>7. End' = "Play"
    BY <2>2, <2>6 DEF After, FinishConfiguration
  <2>8. Order'
    <3> DEFINE n == Len(toServer)
    <3>1. /\ Len(toServer') = n + 1 /\ n \in Nat
          /\ \A i \in 1 .. n : toServer'[i] = toServer[i]
          /\ toServer'[n + 1].name = FinishConfiguration
      BY <1>0, <2>1, <2>2, Types DEF Adds
    <3>2. \A i \in 1 .. n : toServer[i].name # FinishConfiguration
      BY <1>0, <2>3, FinishIsLast
    <3>3. \A i \in 1 .. n :
            /\ toServer[i].name = "ServerboundLoginAcknowledged" => i = 1
            /\ toServer[i].name # Packs
      BY <1>0, <2>3 DEF Order, Outgoing, Due, Configuring, Packs, FinishConfiguration
    <3> HIDE DEF n
    <3>4. ASSUME NEW i \in 1 .. n + 1
          PROVE  /\ toServer'[i].name = "ServerboundLoginAcknowledged" => i = 1
                 /\ toServer'[i].name = FinishConfiguration => i = n + 1
                 /\ toServer'[i].name # Packs
      <4>1. i \in 1 .. n \/ i = n + 1
        BY <3>1
      <4> QED BY <3>1, <3>2, <3>3, <4>1 DEF FinishConfiguration, Packs
    <3> QED BY <1>6, <2>3, <3>1, <3>4 DEF Order
  <2>9. Starting' /\ AskingStatus' /\ LoggingIn' /\ ConfiguringBoth'
    BY <2>1 DEF Starting, AskingStatus, LoggingIn, ConfiguringBoth
  <2>10. Ends' /\ Together'
    BY <2>1, <2>7 DEF Ends, Together
  <2> QED BY <1>1, <1>2, <1>3, <1>4, <1>6, <2>1, <2>6, <2>8, <2>9, <2>10 DEF SessionInv
<1> QED BY <1>7, <1>8

\* A request, and before 1.21.3 the known packs, are answered with one packet.
LEMMA AnswerKeeps ==
  ASSUME SessionInv, Client, pc = "configuration", toClient # <<>>, toClient' = Tail(toClient),
         toClient[1].wire # "finish_configuration",
         NEW ws, Len(ws) = 1, Adds(ws), ws[1].state = "Configuration",
         \/ toClient[1].wire \in Requests /\ ws[1].name \in Configuring
         \/ toClient[1].wire = "select_known_packs" /\ ws[1].name = Packs /\ version < V1_21_3,
         threshold' = threshold, connState' = "Configuration", pc' = "configuration", result' = "none"
  PROVE  SessionInv'
<1>0. /\ ClientInv /\ TypeOK /\ Outgoing /\ Order /\ Ends /\ Together /\ ConfiguringBoth
  BY DEF SessionInv, ClientInv
<1>1. /\ result = "none" /\ version \in Int /\ version >= V1_20_2 /\ threshold = serverComp
      /\ CompAfter(toClient[1]) = threshold /\ StateAfter(toClient[1]) = "Configuration"
      /\ End # "Play" =>
           /\ End = "Configuration"
           /\ serverStep \in {"packs", "packsSent", "configuration", "finish", "gone"}
  BY ConfigurationFacts
<1>2. Carries(toClient[1].wire) /\ Sent' /\ Incoming'
  BY <1>1, ReadFacts
<1>3. /\ End = "Configuration"
      /\ serverStep \in {"packs", "packsSent", "configuration", "finish", "gone"}
      /\ Carries("finish_configuration") => serverStep = "finish"
  BY <1>0, <1>1, <1>2 DEF ConfiguringBoth
<1>4. /\ version' = version /\ goal' = goal /\ serverIn' = serverIn /\ serverOut' = serverOut
      /\ serverComp' = serverComp /\ serverStep' = serverStep
      /\ ClientInv' /\ ServerPlaces' /\ UNCHANGED <<version, goal, serverVars>>
  BY <1>0, ClientLeaves, ClientFrame
<1>5. /\ \A i \in 1 .. Len(toClient') : toClient'[i].wire = "select_known_packs" =>
              /\ serverStep \in {"packsSent", "gone"}
              /\ ~Wrote(Packs)
              /\ \A j \in 1 .. Len(toClient') : toClient'[j].wire = "select_known_packs" => j = i
              /\ version >= V1_21_3 => \A j \in i + 1 .. Len(toClient') : toClient'[j].wire \notin Requests
      /\ toClient[1].wire = "select_known_packs" =>
              /\ serverStep \in {"packsSent", "gone"}
              /\ ~Wrote(Packs)
              /\ ~Carries("select_known_packs")'
  BY <1>0, <1>4, PacksRest
<1>6. ws[1].state = StateOf(ws[1].name) /\ ws[1].name \in Due(serverStep) /\ ws[1].state = End
  <2>1. CASE toClient[1].wire \in Requests /\ ws[1].name \in Configuring
    BY <1>1, <1>3, <2>1 DEF StateOf, Due, Configuring
  <2>2. CASE toClient[1].wire = "select_known_packs" /\ ws[1].name = Packs
    BY <1>1, <1>3, <1>5, <2>2 DEF StateOf, Due, Packs
  <2> QED BY <2>1, <2>2
<1>7. Outgoing' /\ End' = After(ws[1]) /\ \A name : Wrote(name)' <=> Wrote(name) \/ ws[1].name = name
  BY <1>0, <1>1, <1>4, <1>6, WritingOne
<1>8. End' = "Configuration"
  BY <1>7 DEF After, Configuring, Packs, FinishConfiguration
<1>9. ws[1].name = Packs => ~Wrote(Packs) /\ ~Carries("select_known_packs")' /\ version < V1_21_3
  BY <1>5 DEF Configuring, Packs
<1>10. Order'
  <2> DEFINE n == Len(toServer)
  <2>1. /\ Len(toServer') = n + 1 /\ n \in Nat
        /\ \A i \in 1 .. n : toServer'[i] = toServer[i]
        /\ toServer'[n + 1].name = ws[1].name
    BY <1>0, Types DEF Adds
  <2>2. \A i \in 1 .. n : toServer[i].name # FinishConfiguration
    BY <1>0, <1>3, FinishIsLast
  <2>3. \A i \in 1 .. n :
          /\ toServer[i].name = "ServerboundLoginAcknowledged" => i = 1
          /\ toServer[i].name = Packs => ws[1].name # Packs /\ \A j \in 1 .. n : toServer[j].name = Packs => j = i
    BY <1>0, <1>9 DEF Order, Wrote
  <2>4. ws[1].name \notin {FinishConfiguration, "ServerboundLoginAcknowledged"}
    BY DEF Configuring, Packs, FinishConfiguration
  <2> HIDE DEF n
  <2>5. ASSUME NEW i \in 1 .. n + 1
        PROVE  /\ toServer'[i].name = "ServerboundLoginAcknowledged" => i = 1
               /\ toServer'[i].name # FinishConfiguration
               /\ toServer'[i].name = Packs => \A j \in 1 .. n + 1 : toServer'[j].name = Packs => j = i
    <3>1. \A j \in 1 .. n + 1 : j \in 1 .. n \/ j = n + 1
      BY <2>1
    <3> QED BY <2>1, <2>2, <2>3, <2>4, <3>1
  <2>6. serverStep' \notin {"handshake", "request"}
    BY <1>3, <1>4
  <2> QED BY <2>1, <2>5, <2>6 DEF Order
<1>11. Starting' /\ AskingStatus' /\ LoggingIn'
  BY DEF Starting, AskingStatus, LoggingIn
<1>12. ConfiguringBoth'
  <2>1. \A wire : Carries(wire)' => Carries(wire)
    BY <1>0, Popped
  <2>2. ASSUME NEW i \in 1 .. Len(toClient'), toClient'[i].wire = "select_known_packs" PROVE ~Wrote(Packs)'
    <3>1. Carries("select_known_packs")'
      BY <2>2 DEF Carries
    <3> QED BY <1>5, <1>7, <1>9, <2>2, <3>1
  <2> QED BY <1>1, <1>3, <1>4, <1>5, <1>8, <2>1, <2>2 DEF ConfiguringBoth
<1>13. Ends'
  <2>1. ~(version >= V1_21_3 /\ (Wrote(Packs)' \/ serverStep \in {"configuration", "finish"}))
    <3>1. ~(version >= V1_21_3 /\ (Wrote(Packs) \/ serverStep \in {"configuration", "finish"}))
      BY <1>0, <1>3 DEF Ends
    <3>2. ws[1].name = Packs => ~(version >= V1_21_3)
      BY <1>1, <1>9 DEF V1_21_3
    <3> QED BY <1>7, <3>1, <3>2
  <2> QED BY <1>4, <2>1 DEF Ends
<1>14. Together'
  BY DEF Together
<1> QED BY <1>2, <1>4, <1>7, <1>10, <1>11, <1>12, <1>13, <1>14 DEF SessionInv

\* From 1.21.3 on the known packs are followed by the end of configuration.
LEMMA PacksKeeps ==
  ASSUME SessionInv, Client, pc = "configuration", toClient # <<>>, toClient' = Tail(toClient),
         toClient[1].wire = "select_known_packs", version >= V1_21_3,
         NEW ws, Len(ws) = 2, Adds(ws), ws[1].state = "Configuration", ws[1].name = Packs,
         ws[2].state = "Configuration", ws[2].name = FinishConfiguration,
         threshold' = threshold, connState' = "Configuration", pc' = "configuration", result' = "none"
  PROVE  SessionInv'
<1>0. /\ ClientInv /\ TypeOK /\ Outgoing /\ Order /\ Ends /\ Together /\ ConfiguringBoth
  BY DEF SessionInv, ClientInv
<1>1. /\ result = "none" /\ version \in Int /\ version >= V1_20_2 /\ threshold = serverComp
      /\ CompAfter(toClient[1]) = threshold /\ StateAfter(toClient[1]) = "Configuration"
      /\ End # "Play" => End = "Configuration"
  BY ConfigurationFacts
<1>2. Carries(toClient[1].wire) /\ Sent' /\ Incoming'
  BY <1>1, ReadFacts
<1>3. End = "Configuration"
  BY <1>0, <1>1, <1>2 DEF ConfiguringBoth
<1>4. /\ version' = version /\ goal' = goal /\ serverIn' = serverIn /\ serverOut' = serverOut
      /\ serverComp' = serverComp /\ serverStep' = serverStep
      /\ ClientInv' /\ ServerPlaces' /\ UNCHANGED <<version, goal, serverVars>>
  BY <1>0, ClientLeaves, ClientFrame
<1>5. /\ serverStep \in {"packsSent", "gone"} /\ ~Wrote(Packs)
      /\ ~Carries("select_known_packs")' /\ \A wire \in Requests : ~Carries(wire)'
  BY <1>0, <1>4, PacksRest
<1>6. /\ ws[1].state = End /\ ws[1].state = StateOf(ws[1].name) /\ ws[1].name \in Due(serverStep)
      /\ ws[2].state = After(ws[1]) /\ ws[2].state = StateOf(ws[2].name) /\ ws[2].name \in Due(serverStep)
  BY <1>1, <1>3, <1>5 DEF StateOf, Due, After, Packs, FinishConfiguration
<1>7. Outgoing' /\ End' = After(ws[2])
  BY <1>0, <1>1, <1>4, <1>6, WritingTwo
<1>8. End' = "Play"
  BY <1>7 DEF After, FinishConfiguration
<1>9. Order'
  <2> DEFINE n == Len(toServer)
  <2>1. /\ Len(toServer') = n + 2 /\ n \in Nat
        /\ \A i \in 1 .. n : toServer'[i] = toServer[i]
        /\ toServer'[n + 1].name = Packs /\ toServer'[n + 2].name = FinishConfiguration
    BY <1>0, Types DEF Adds
  <2>2. \A i \in 1 .. n : toServer[i].name # FinishConfiguration
    BY <1>0, <1>3, FinishIsLast
  <2>3. \A i \in 1 .. n : toServer[i].name # Packs /\ (toServer[i].name = "ServerboundLoginAcknowledged" => i = 1)
    BY <1>0, <1>5 DEF Order, Wrote
  <2> HIDE DEF n
  <2>4. ASSUME NEW i \in 1 .. n + 2
        PROVE  /\ toServer'[i].name = "ServerboundLoginAcknowledged" => i = 1
               /\ toServer'[i].name = FinishConfiguration => i = n + 2
               /\ toServer'[i].name = Packs => i = n + 1
    <3>1. i \in 1 .. n \/ i = n + 1 \/ i = n + 2
      BY <2>1
    <3> QED BY <2>1, <2>2, <2>3, <3>1 DEF Packs, FinishConfiguration
  <2>5. n + 2 > 1 /\ n + 2 - 1 = n + 1
    BY <2>1
  <2>6. ASSUME NEW i \in 1 .. n + 2
        PROVE  /\ toServer'[i].name = FinishConfiguration =>
                    i = Len(toServer') /\ i > 1 /\ toServer'[i - 1].name = Packs
               /\ toServer'[i].name = Packs =>
                    \A j \in 1 .. n + 2 : toServer'[j].name = Packs => j = i
    BY <2>1, <2>4, <2>5
  <2>7. serverStep' # "handshake" /\ serverStep' # "request" /\ version' >= V1_21_3
    BY <1>4, <1>5
  <2> QED BY <2>1, <2>4, <2>6, <2>7 DEF Order
<1>10. Starting' /\ AskingStatus' /\ LoggingIn' /\ Together'
  BY DEF Starting, AskingStatus, LoggingIn, Together
<1>11. ConfiguringBoth'
  <2>1. \A wire : Carries(wire)' => Carries(wire)
    BY <1>0, Popped
  <2>2. \A i \in 1 .. Len(toClient') : toClient'[i].wire # "select_known_packs"
    BY <1>5 DEF Carries
  <2>3. ~Carries("finish_configuration")
    BY <1>0, <1>5 DEF ConfiguringBoth
  <2> QED BY <1>1, <1>4, <1>5, <1>8, <2>1, <2>2, <2>3 DEF ConfiguringBoth
<1>12. Ends'
  BY <1>8 DEF Ends
<1> QED BY <1>2, <1>4, <1>7, <1>9, <1>10, <1>11, <1>12 DEF SessionInv

\* What the client reads during configuration.
LEMMA ConfigurationKeeps ==
  ASSUME SessionInv, ConfigurationPacket
  PROVE  SessionInv'
<1>0. ClientInv
  BY DEF SessionInv
<1>1. /\ Client /\ pc = "configuration" /\ toClient # <<>> /\ toClient' = Tail(toClient)
      /\ threshold' = threshold /\ Type \notin {"ClientboundFinishConfiguration", "ClientboundDisconnect"}
  BY DEF Client, ConfigurationPacket, Received
<1>2. /\ result = "none" /\ connState = "Configuration" /\ goal = "Login" /\ version \in Int /\ version >= V1_20_2
      /\ Type = TypeIn("Configuration", toClient[1].wire)
      /\ CompAfter(toClient[1]) = threshold
      /\ StateAfter(toClient[1]) =
           IF toClient[1].wire = "finish_configuration" THEN "Play" ELSE "Configuration"
  BY <1>1, ConfigurationFacts
<1>3. /\ Type = "ClientboundFinishConfiguration" <=> toClient[1].wire = "finish_configuration"
      /\ Type = "ClientboundConfigKeepAlive" => toClient[1].wire = "keep_alive"
      /\ Type = "ClientboundCustomPayload" => toClient[1].wire = "custom_payload"
      /\ Type = "ClientboundCookieRequest" => toClient[1].wire = "cookie_request"
      /\ Type = "ClientboundSelectKnownPacks" => toClient[1].wire = "select_known_packs"
  BY <1>2, ConfigurationTypes
<1>4. /\ Adds(ConfigurationAnswer(Type))
      /\ connState' = "Configuration" /\ pc' = "configuration" /\ result' = "none"
  BY <1>0, Effects DEF Moves
<1>5. toClient[1].wire # "finish_configuration"
  BY <1>1, <1>3
<1>6. ASSUME NEW name \in Configuring, toClient[1].wire \in Requests,
             ConfigurationAnswer(Type) = <<W(connState, name)>>
      PROVE  SessionInv'
  <2> DEFINE ws == ConfigurationAnswer(Type)
  <2>1. Len(ws) = 1 /\ Adds(ws) /\ ws[1].state = "Configuration" /\ ws[1].name = name
    BY <1>2, <1>4, <1>6 DEF W
  <2> HIDE DEF ws
  <2> QED BY <1>1, <1>4, <1>5, <1>6, <2>1, AnswerKeeps
<1>7. CASE Type = "ClientboundConfigKeepAlive"
  BY <1>3, <1>6, <1>7 DEF ConfigurationAnswer, Configuring, Requests
<1>8. CASE Type = "ClientboundCustomPayload"
  BY <1>3, <1>6, <1>8 DEF ConfigurationAnswer, Configuring, Requests
<1>9. CASE Type = "ClientboundCookieRequest"
  BY <1>3, <1>6, <1>9 DEF ConfigurationAnswer, Configuring, Requests
<1>10. CASE Type = "ClientboundSelectKnownPacks" /\ ~FinishesFirst
  <2> DEFINE ws == ConfigurationAnswer(Type)
  <2>1. Adds(ws) /\ ws = <<W("Configuration", Packs)>>
    BY <1>2, <1>4, <1>10 DEF ConfigurationAnswer, KnownPacks, Packs
  <2>2. Len(ws) = 1 /\ ws[1].state = "Configuration" /\ ws[1].name = Packs
    BY <2>1 DEF W
  <2>3. version < V1_21_3
    BY <1>2, <1>10 DEF FinishesFirst, V1_21_3
  <2> HIDE DEF ws
  <2> QED BY <1>1, <1>3, <1>4, <1>5, <1>10, <2>1, <2>2, <2>3, AnswerKeeps
<1>11. CASE Type = "ClientboundSelectKnownPacks" /\ FinishesFirst
  <2> DEFINE ws == ConfigurationAnswer(Type)
  <2>1. Adds(ws) /\ ws = <<W("Configuration", Packs), W("Configuration", FinishConfiguration)>>
    BY <1>2, <1>4, <1>11 DEF ConfigurationAnswer, KnownPacks, Packs
  <2>2. /\ Len(ws) = 2 /\ ws[1].state = "Configuration" /\ ws[1].name = Packs
        /\ ws[2].state = "Configuration" /\ ws[2].name = FinishConfiguration
    BY <2>1 DEF W
  <2>3. version >= V1_21_3
    BY <1>11 DEF FinishesFirst
  <2> HIDE DEF ws
  <2> QED BY <1>1, <1>3, <1>4, <1>11, <2>1, <2>2, <2>3, PacksKeeps
<1>12. CASE Type \notin {"ClientboundConfigKeepAlive", "ClientboundCustomPayload",
                         "ClientboundCookieRequest", "ClientboundSelectKnownPacks"}
  <2>1. Adds(<<>>)
    BY <1>4, <1>12 DEF ConfigurationAnswer
  <2> QED BY <1>1, <1>2, <1>4, <1>5, <2>1, QuietKeeps
<1> QED BY <1>7, <1>8, <1>9, <1>10, <1>11, <1>12

-----------------------------------------------------------------------------
(* The exchange.                                                           *)

\* SessionInv is inductive.
LEMMA SessionInvStep ==
  ASSUME NoLateRequests, SessionInv, [Next]_vars
  PROVE  SessionInv'
<1>1. CASE Client
  <2>1. CASE ConfigurationDisconnect \/ ConnectionError
    <3>1. Fails
      BY <2>1, Effects DEF SessionInv
    <3>2. toClient' = toClient \/ (toClient # <<>> /\ toClient' = Tail(toClient))
      BY <2>1 DEF ConfigurationDisconnect, ConnectionError, Received
    <3> QED BY <1>1, <3>1, <3>2, FailKeeps
  <2> QED BY <1>1, <2>1, StartKeeps, PingKeeps, PongKeeps, LoginKeeps, SuccessKeeps,
             ConfigurationKeeps, FinishKeeps DEF Client
<1>2. CASE Server
  BY <1>2, ReceiveKeeps, ServerSendsKeeps DEF Server
<1>3. CASE Lose \/ UNCHANGED vars
  <2>1. ClientInv'
    BY <1>3, ClientInvStep DEF SessionInv, Next
  <2>2. /\ version' = version /\ goal' = goal /\ connState' = connState /\ pc' = pc
        /\ threshold' = threshold /\ result' = result
        /\ toServer' = toServer /\ toClient' = toClient
        /\ serverIn' = serverIn /\ serverOut' = serverOut /\ serverComp' = serverComp
        /\ serverStep' = serverStep
    BY <1>3, Zenon DEF Lose, vars, clientVars, serverVars
  <2>3. Outgoing' /\ Order' /\ ServerPlaces'
    BY <2>2 DEF SessionInv, Outgoing, Order, ServerPlaces, After, Due, StateOf
  <2>4. (result' \in {"none", "ok"} => Incoming') /\ Sent'
    BY <2>2 DEF SessionInv, Incoming, Sent, StateAfter, CompAfter, OutNext, WiresOf
  <2>5. End' = End /\ \A name : (Wrote(name)' <=> Wrote(name)) /\ (Carries(name)' <=> Carries(name))
    BY <2>2 DEF End, After, Wrote, Carries
  <2>6. Starting' /\ AskingStatus' /\ LoggingIn' /\ ConfiguringBoth' /\ Ends' /\ Together'
    BY <2>2, <2>5 DEF SessionInv, Starting, AskingStatus, LoggingIn, ConfiguringBoth, Ends, Together
  <2> QED BY <2>1, <2>3, <2>4, <2>6 DEF SessionInv
<1> QED BY <1>1, <1>2, <1>3 DEF Next

\* The exchange's invariant holds of every session whose server asks for
\* nothing after select_known_packs where the client finishes first.
LEMMA SessionInvHolds == ASSUME NoLateRequests PROVE Spec => []SessionInv
<1>1. Init => SessionInv
  <2> SUFFICES ASSUME Init PROVE SessionInv
    OBVIOUS
  <2>1. ClientInv
    BY ClientInvInit
  <2>2. toServer = <<>> /\ toClient = <<>> /\ Len(toServer) = 0 /\ Len(toClient) = 0
    BY DEF Init
  <2>3. Outgoing /\ Order /\ ServerPlaces /\ Incoming /\ Sent
    BY <2>2 DEF Init, Outgoing, Order, ServerPlaces, Incoming, Sent
  <2>4. Starting /\ AskingStatus /\ LoggingIn /\ ConfiguringBoth /\ Ends /\ Together
    BY <2>2 DEF Init, Starting, AskingStatus, LoggingIn, ConfiguringBoth, Ends, Together, Wrote
  <2> QED BY <2>1, <2>3, <2>4 DEF SessionInv
<1>2. SessionInv /\ [Next]_vars => SessionInv'
  BY SessionInvStep
<1> QED BY <1>1, <1>2, PTL DEF Spec

\* Wherever GetStatus and Join have brought the connection, the server decodes
\* what they wrote in the state and with the compression it was written with.
THEOREM ServerFollows == ASSUME NoLateRequests PROVE Spec => []ServerUnderstands
<1>1. SessionInv => ServerUnderstands
  <2> SUFFICES ASSUME SessionInv, toServer # <<>> PROVE Head(toServer).state = serverIn /\ Head(toServer).comp = serverComp
    BY DEF ServerUnderstands
  <2>1. TypeOK /\ Outgoing
    BY DEF SessionInv, ClientInv
  <2>2. Head(toServer) = toServer[1] /\ 1 \in 1 .. Len(toServer)
    BY <2>1, Types, Rest
  <2> QED BY <2>1, <2>2 DEF Outgoing
<1> QED BY <1>1, SessionInvHolds, PTL

\* What the client reads next, until a call of it has failed, was sent in the
\* state and with the compression it decodes with.
THEOREM ClientFollows == ASSUME NoLateRequests PROVE Spec => []ClientUnderstands
<1>1. SessionInv => ClientUnderstands
  <2> SUFFICES ASSUME SessionInv, toClient # <<>>, result \in {"none", "ok"}
               PROVE  Head(toClient).state = connState /\ Head(toClient).comp = threshold
    BY DEF ClientUnderstands
  <2>1. TypeOK /\ Incoming
    BY DEF SessionInv, ClientInv
  <2>2. Head(toClient) = toClient[1]
    BY <2>1, Types, Rest
  <2> QED BY <2>1, <2>2 DEF Incoming
<1> QED BY <1>1, SessionInvHolds, PTL

\* When Join reports success the client is in the play state, and so is the
\* server once it has received what Join wrote.
THEOREM JoinAgrees == ASSUME NoLateRequests PROVE Spec => []JoinAgreement
<1>1. SessionInv => JoinAgreement
  BY DEF SessionInv, ClientInv, ClientPlaces, Ends, End, JoinAgreement
<1> QED BY <1>1, SessionInvHolds, PTL

-----------------------------------------------------------------------------
(* The phases.                                                             *)

\* The phases of a session, one after the other, and how far apart two are.
LEMMA PathFacts ==
  ASSUME TypeOK
  PROVE  /\ goal = "Status" =>
              /\ Phases!Follows("Handshaking", "Status") /\ Phases!At("Status", Len(Path))
              /\ \A s \in {"Handshaking", "Status"} : Phases!NotAhead("Handshaking", s)
         /\ goal = "Login" =>
              /\ Phases!Follows("Handshaking", "Login") /\ Phases!At("Play", Len(Path))
              /\ Phases!NotAhead("Handshaking", "Handshaking") /\ Phases!NotAhead("Handshaking", "Login")
              /\ Phases!NotAhead("Handshaking", "Play")
              /\ Phases!NotAhead("Login", "Login") /\ Phases!NotAhead("Login", "Play")
         /\ goal = "Login" /\ version >= V1_20_2 =>
              /\ Phases!Follows("Login", "Configuration") /\ Phases!Follows("Configuration", "Play")
              /\ Phases!NotAhead("Handshaking", "Configuration") /\ Phases!NotAhead("Login", "Configuration")
              /\ Phases!NotAhead("Configuration", "Configuration") /\ Phases!NotAhead("Configuration", "Play")
         /\ goal = "Login" /\ ~(version >= V1_20_2) => Phases!Follows("Login", "Play")
<1> USE DEF Phases!Follows, Phases!At, Phases!NotAhead
<1>1. CASE goal = "Status"
  <2>1. Path = <<"Handshaking", "Status">>
    BY <1>1 DEF Path
  <2> HIDE DEF Path
  <2>2. DOMAIN Path = 1 .. 2 /\ Len(Path) = 2 /\ Path[1] = "Handshaking" /\ Path[2] = "Status"
    BY <2>1
  <2> QED BY <1>1, <2>2
<1>2. CASE goal = "Login" /\ version >= V1_20_2
  <2>1. Path = <<"Handshaking", "Login", "Configuration", "Play">>
    BY <1>2 DEF Path
  <2>2. /\ DOMAIN Path = 1 .. 4 /\ Len(Path) = 4
        /\ Path[1] = "Handshaking" /\ Path[2] = "Login" /\ Path[3] = "Configuration" /\ Path[4] = "Play"
    BY <2>1
  <2>3. 1 \in DOMAIN Path /\ 2 \in DOMAIN Path /\ 3 \in DOMAIN Path /\ 4 \in DOMAIN Path
    BY <2>2
  <2> QED BY <1>2, <2>2, <2>3
<1>3. CASE goal = "Login" /\ ~(version >= V1_20_2)
  <2>1. Path = <<"Handshaking", "Login", "Play">>
    BY <1>3 DEF Path
  <2>2. /\ DOMAIN Path = 1 .. 3 /\ Len(Path) = 3
        /\ Path[1] = "Handshaking" /\ Path[2] = "Login" /\ Path[3] = "Play"
    BY <2>1
  <2>3. 1 \in DOMAIN Path /\ 2 \in DOMAIN Path /\ 3 \in DOMAIN Path
    BY <2>2
  <2> QED BY <1>3, <2>2, <2>3
<1>4. goal \in {"Status", "Login"}
  BY Types
<1> QED BY <1>1, <1>2, <1>3, <1>4

\* The client goes on only when it is not ahead of the server.
LEMMA ClientPhase ==
  ASSUME SessionInv, Client
  PROVE  Phases!ClientStep
<1>0. /\ ClientInv /\ TypeOK /\ ClientPlaces /\ ServerPlaces /\ Sent
      /\ Starting /\ LoggingIn /\ ConfiguringBoth
  BY DEF SessionInv, ClientInv
<1>1. version' = version /\ goal' = goal /\ serverIn' = serverIn /\ version \in Int
  BY <1>0, ClientFrame, Types, Zenon DEF serverVars
<1>2. Path' = Path
  BY <1>1 DEF Path
<1>3. pc # "returned" /\ result = "none"
  <2>1. pc # "returned"
    BY DEF Client, StatusStart, StatusResponse, StatusPong, LoginStart, LoginNoName, LoginCompression,
           LoginSuccess, LoginOther, ConfigurationPacket, ConfigurationFinish, ConfigurationDisconnect,
           ConnectionError, Received
  <2> QED BY <1>0, <2>1 DEF ClientPlaces
<1>4. ASSUME connState' = connState, result' # "ok"
      PROVE  Phases!ClientStep
  BY <1>1, <1>2, <1>3, <1>4 DEF Phases!ClientStep
<1>5. Fails => connState' = connState /\ result' # "ok"
  BY DEF Fails, Moves
<1>6. CASE StatusStart \/ LoginStart \/ LoginNoName
  <2>1. connState = "Handshaking" /\ serverIn = "Handshaking" /\ connState' = goal /\ result' # "ok"
    BY <1>0, <1>6, Effects
       DEF StatusStart, LoginStart, LoginNoName, Moves, ClientPlaces, Starting, ServerPlaces
  <2>2. Phases!Follows("Handshaking", goal) /\ Phases!NotAhead("Handshaking", "Handshaking")
    BY <1>0, Types, PathFacts
  <2> QED BY <1>1, <1>2, <1>3, <2>1, <2>2 DEF Phases!ClientStep
<1>7. CASE StatusResponse \/ StatusPong
  <2>1. goal = "Status" /\ connState = "Status"
    BY <1>0, <1>7 DEF StatusResponse, StatusPong, Received, ClientPlaces
  <2>2. connState' = connState
    BY <1>0, <1>5, <1>7, <2>1, Effects DEF Moves
  <2> QED BY <1>0, <1>1, <1>2, <1>3, <2>1, <2>2, PathFacts DEF Phases!ClientStep
<1>8. CASE LoginCompression \/ LoginOther
  <2>1. connState = "Login"
    BY <1>0, <1>8 DEF LoginCompression, LoginOther, Received, ClientPlaces
  <2> QED BY <1>0, <1>4, <1>5, <1>8, <2>1, Effects DEF Moves
<1>9. CASE LoginSuccess
  <2>1. goal = "Login" /\ connState = "Login" /\ pc = "login" /\ toClient # <<>>
    BY <1>0, <1>9 DEF LoginSuccess, Received, ClientPlaces
  <2>2. serverIn \in {"Login", "Play"}
    BY <1>0, <2>1 DEF LoggingIn, ServerPlaces
  <2>3. Phases!NotAhead(connState, serverIn)
    BY <1>0, <2>1, <2>2, PathFacts
  <2>4. CASE version >= V1_20_2
    <3>1. connState' = "Configuration" /\ result' = "none"
      BY <1>0, <1>9, <2>4, Effects DEF Moves
    <3> QED BY <1>0, <1>1, <1>2, <1>3, <2>1, <2>3, <2>4, <3>1, PathFacts DEF Phases!ClientStep
  <2>5. CASE ~(version >= V1_20_2)
    <3>1. connState' = "Play"
      BY <1>0, <1>9, <2>5, Effects DEF Moves
    <3> QED BY <1>0, <1>1, <1>2, <1>3, <2>1, <2>3, <2>5, <3>1, PathFacts DEF Phases!ClientStep
  <2> QED BY <2>4, <2>5
<1>10. CASE ConfigurationPacket
  <2>1. connState = "Configuration"
    BY <1>0, <1>10 DEF ConfigurationPacket, Received, ClientPlaces
  <2> QED BY <1>0, <1>4, <1>10, <2>1, Effects DEF Moves
<1>11. CASE ConfigurationFinish
  <2>1. pc = "configuration" /\ toClient # <<>> /\ toClient' = Tail(toClient)
    BY <1>11 DEF ConfigurationFinish, Received
  <2>2. /\ goal = "Login" /\ connState = "Configuration" /\ version >= V1_20_2
        /\ Type = TypeIn("Configuration", toClient[1].wire)
    BY <2>1, ConfigurationFacts
  <2>3. toClient[1].wire = "finish_configuration"
    BY <1>1, <1>11, <2>2, ConfigurationTypes DEF ConfigurationFinish
  <2>4. serverIn \in {"Configuration", "Play"}
    <3>1. Carries("finish_configuration")
      BY <1>3, <2>1, <2>3, ReadFacts
    <3> QED BY <1>0, <2>1, <3>1 DEF ConfiguringBoth, ServerPlaces
  <2>5. connState' = "Play"
    BY <1>0, <1>11, Effects DEF Moves
  <2> QED BY <1>0, <1>1, <1>2, <1>3, <2>2, <2>4, <2>5, PathFacts DEF Phases!ClientStep
<1>12. CASE ConfigurationDisconnect \/ ConnectionError
  BY <1>0, <1>4, <1>5, <1>12, Effects
<1> QED BY <1>6, <1>7, <1>8, <1>9, <1>10, <1>11, <1>12 DEF Client

\* Neither does the server go on when it is ahead of the client.
LEMMA ServerPhase ==
  ASSUME SessionInv, Server \/ Lose
  PROVE  Phases!ServerStep \/ UNCHANGED Phases!vars
<1>0. /\ ClientInv /\ TypeOK /\ ServerPlaces /\ Outgoing /\ Order /\ Together
      /\ version \in Int /\ goal \in {"Status", "Login"} /\ connState \in StatesOfGoal
  BY Types DEF SessionInv, ClientInv, TypeOK
<1>1. version' = version /\ goal' = goal /\ connState' = connState /\ result' = result
  BY <1>0, ServerKeeps, Zenon DEF clientVars
<1>2. Path' = Path
  BY <1>1 DEF Path
<1>3. ASSUME serverIn' = serverIn PROVE UNCHANGED Phases!vars
  BY <1>1, <1>2, <1>3 DEF Phases!vars
<1>4. ASSUME Phases!Follows(serverIn, serverIn'), Phases!NotAhead(serverIn, connState)
      PROVE  Phases!ServerStep
  BY <1>1, <1>2, <1>4 DEF Phases!ServerStep
<1>5. CASE ServerReceive
  <2>1. Reception /\ toServer # <<>>
    BY <1>0, <1>5, Receiving DEF ServerReceive
  <2>2. connState # "Handshaking"
    BY <1>0, <2>1 DEF Together
  <2>3. CASE serverStep = "handshake" /\ serverIn' = goal
    <3>1. serverIn = "Handshaking"
      BY <1>0, <2>3 DEF ServerPlaces
    <3>2. Phases!Follows("Handshaking", goal) /\ Phases!NotAhead("Handshaking", connState)
      BY <1>0, PathFacts DEF StatesOfGoal
    <3> QED BY <1>4, <2>3, <3>1, <3>2
  <2>4. CASE serverStep = "acknowledgement" /\ version >= V1_20_2 /\ serverIn' = "Configuration"
    <3>1. serverIn = "Login" /\ goal = "Login" /\ connState \in {"Configuration", "Play"}
      BY <1>0, <2>1, <2>2, <2>4 DEF ServerPlaces, Together, StatesOfGoal
    <3>2. Phases!Follows("Login", "Configuration") /\ Phases!NotAhead("Login", connState)
      BY <1>0, <2>4, <3>1, PathFacts
    <3> QED BY <1>4, <2>4, <3>1, <3>2
  <2>5. CASE serverStep \in {"configuration", "finish"} /\ serverIn' = "Play"
    <3>1. goal = "Login" /\ version >= V1_20_2 /\ connState \in {"Configuration", "Play"}
      BY <1>0, <2>2, <2>5 DEF ServerPlaces, Together, StatesOfGoal
    <3>2. serverIn = "Configuration"
      BY <1>0, <2>1, <2>5, <3>1, AtPlay DEF ServerPlaces
    <3>3. Phases!Follows("Configuration", "Play") /\ Phases!NotAhead("Configuration", connState)
      BY <1>0, <3>1, PathFacts
    <3> QED BY <1>4, <2>5, <3>2, <3>3
  <2>6. CASE serverIn' = serverIn
    BY <1>3, <2>6
  <2> QED BY <2>1, <2>3, <2>4, <2>5, <2>6 DEF Reception
<1>6. CASE ServerRequired
  <2>1. serverIn' = serverIn \/ (serverStep = "login" /\ ~(version >= V1_20_2) /\ serverIn' = "Play")
    BY <1>6 DEF ServerRequired
  <2>2. CASE serverStep = "login" /\ ~(version >= V1_20_2) /\ serverIn' = "Play"
    <3>1. serverIn = "Login" /\ goal = "Login" /\ connState \in {"Login", "Play"}
      BY <1>0, <2>2 DEF ServerPlaces, Together, StatesOfGoal
    <3>2. Phases!Follows("Login", "Play") /\ Phases!NotAhead("Login", connState)
      BY <1>0, <2>2, <3>1, PathFacts
    <3> QED BY <1>4, <2>2, <3>1, <3>2
  <2> QED BY <1>3, <2>1, <2>2
<1>7. CASE ServerCompress \/ ServerExtra \/ Lose
  <2>1. serverIn' = serverIn
    BY <1>7, Zenon DEF ServerCompress, ServerExtra, Lose, serverVars
  <2> QED BY <1>3, <2>1
<1> QED BY <1>5, <1>6, <1>7 DEF Server

\* GetStatus and Join go through the phases of their goal and version in step
\* with the server, neither end leaving one out or getting more than one ahead,
\* and report success only in the last: Session implements SessionPhases.
THEOREM Implements == ASSUME NoLateRequests PROVE Spec => FollowsPhases
<1>1. Init => Phases!Init
  <2> SUFFICES ASSUME Init PROVE Phases!Init
    OBVIOUS
  <2>1. connState = "Handshaking" /\ serverIn = "Handshaking" /\ result = "none"
    BY DEF Init
  <2>2. Path[1] = "Handshaking"
    <3>1. \/ Path = <<"Handshaking", "Status">>
          \/ Path = <<"Handshaking", "Login", "Configuration", "Play">>
          \/ Path = <<"Handshaking", "Login", "Play">>
      BY DEF Init, Path
    <3> QED BY <3>1
  <2> QED BY <2>1, <2>2 DEF Phases!Init
<1>2. SessionInv /\ [Next]_vars => [Phases!Next]_(Phases!vars)
  <2> SUFFICES ASSUME SessionInv, [Next]_vars PROVE Phases!Next \/ UNCHANGED Phases!vars
    OBVIOUS
  <2>1. CASE Client
    BY <2>1, ClientPhase DEF Phases!Next
  <2>2. CASE Server \/ Lose
    BY <2>2, ServerPhase DEF Phases!Next
  <2>3. CASE UNCHANGED vars
    <3>1. version' = version /\ goal' = goal /\ connState' = connState /\ result' = result /\ serverIn' = serverIn
      BY <2>3, Zenon DEF vars, clientVars, serverVars
    <3> QED BY <3>1 DEF Phases!vars, Path
  <2> QED BY <2>1, <2>2, <2>3 DEF Next
<1> QED BY <1>1, <1>2, SessionInvHolds, PTL DEF Spec, FollowsPhases, Phases!Spec
=============================================================================

