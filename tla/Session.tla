------------------------------ MODULE Session ------------------------------
(***************************************************************************)
(* The exchange behind GetStatus and Join, packet by packet: which packets *)
(* the client writes in which connection state and version, how it answers *)
(* what it reads, and when it changes state and turns compression on.      *)
(*                                                                         *)
(* Both ends number packet IDs by connection state and version, and frame  *)
(* packets by the compression setting, so they understand each other only  *)
(* while they agree on both.  A packet in transit carries the state and    *)
(* the compression it was written with.                                    *)
(*                                                                         *)
(* The server is not part of the repository: it does what the client's     *)
(* code expects of one, in any order that leaves open.                     *)
(***************************************************************************)
EXTENDS Protocol, Sequences

CONSTANTS
  Supported,          \* the versions sessions are run in
  RequestsAfterPacks, \* the server may ask for more after select_known_packs
  MaxExtra            \* bound: packets the server sends beyond the required ones

ASSUME SessionAssumption ==
  /\ Supported \subseteq Versions
  /\ RequestsAfterPacks \in BOOLEAN
  /\ MaxExtra \in Nat

VARIABLES
  version,    \* Client.version
  goal,       \* the state the handshake asks for: "Status" or "Login"
  connState,  \* Conn.state
  threshold,  \* Conn.compressionThreshold >= 0
  pc,         \* where GetStatus or Join is
  result,     \* what it returned: "none" so far, "ok", "error" or "no id"
  toServer,   \* packets written and not yet received
  toClient,   \* packets sent and not yet read
  serverIn,   \* the state the server decodes in
  serverOut,  \* the state it encodes in
  serverComp, \* it compresses
  serverStep, \* what it does next
  extra,      \* how many extra packets it has sent
  asked,      \* the requests it has sent that want an answer
  answers,    \* the answers it has received
  lost        \* the connection is gone

clientVars == <<connState, threshold, pc, result>>
serverVars == <<serverIn, serverOut, serverComp, serverStep, extra, asked, answers>>
vars == <<version, goal, clientVars, toServer, toClient, serverVars, lost>>

-----------------------------------------------------------------------------
(* The client's writes.  A handler is described by the packets it writes,  *)
(* each with the connection state it is written in, and what it leaves     *)
(* behind.                                                                 *)

W(state, name) == [state |-> state, name |-> name]

\* The handler whose writes are ws ends in state s and continues at next.  The
\* first packet without an ID in its state makes WritePacket, and the call, fail.
Finish(ws, s, next, res) ==
  LET NoID(i)  == ~HasPacketID(version, ws[i].state, "Serverbound", ws[i].name)
      Wrote(n) == toServer' = toServer \o
        [i \in 1 .. n |-> [state |-> ws[i].state, name |-> ws[i].name, comp |-> threshold]]
  IN  IF \E i \in DOMAIN ws : NoID(i)
      THEN \E i \in DOMAIN ws :
             /\ NoID(i) /\ \A j \in 1 .. i - 1 : ~NoID(j)
             /\ Wrote(i - 1)
             /\ connState' = ws[i].state
             /\ pc' = "returned"
             /\ result' = "no id"
      ELSE /\ Wrote(Len(ws))
           /\ connState' = s
           /\ pc' = next
           /\ result' = res

Continue(ws, s, next) == Finish(ws, s, next, "none")
Return(ws, s)         == Finish(ws, s, "returned", "ok")
Fail                  == Finish(<<>>, connState, "returned", "error")

-----------------------------------------------------------------------------
(* GetStatus.                                                              *)

\* The argument of SetState in GetStatus, and a mutant: that of Join.
StatusStateOfJoin == "Login"

StatusState == "Status"

\* SendHandshake(StateStatus), SetState, the status request.
StatusStart ==
  /\ pc = "start" /\ goal = "Status"
  /\ Continue(<<W("Handshaking", "ServerboundHandshake"), W(StatusState, "ServerboundStatusRequest")>>,
              StatusState, "status")
  /\ UNCHANGED <<version, goal, threshold, toClient, serverVars, lost>>

\* What is read next, and the packet it decodes to.
Received(place) == pc = place /\ toClient # <<>> /\ toClient' = Tail(toClient)

Type == NewPacket(version, connState, "Clientbound", Head(toClient).wire)

\* The status response is followed by a Ping; any other packet fails the call.
StatusResponse ==
  /\ Received("status")
  /\ IF Type = "ClientboundStatusResponse"
     THEN Continue(<<W(connState, "ServerboundPing")>>, connState, "ping")
     ELSE Fail
  /\ UNCHANGED <<version, goal, threshold, serverVars, lost>>

StatusPong ==
  /\ Received("ping")
  /\ IF Type = "ClientboundPong" THEN Return(<<>>, connState) ELSE Fail
  /\ UNCHANGED <<version, goal, threshold, serverVars, lost>>

-----------------------------------------------------------------------------
(* Join.                                                                   *)

\* SendHandshake(StateLogin), SetState, SendLogin.
LoginStart ==
  /\ pc = "start" /\ goal = "Login"
  /\ Continue(<<W("Handshaking", "ServerboundHandshake"), W("Login", "ServerboundLoginStart")>>,
              "Login", "login")
  /\ UNCHANGED <<version, goal, threshold, toClient, serverVars, lost>>

\* SendLogin refuses an empty username, after the handshake.
LoginNoName ==
  /\ pc = "start" /\ goal = "Login"
  /\ Finish(<<W("Handshaking", "ServerboundHandshake")>>, "Login", "returned", "error")
  /\ UNCHANGED <<version, goal, threshold, toClient, serverVars, lost>>

\* A mutant of LoginCompression: the threshold is not kept.
LoginCompressionIgnored ==
  /\ Received("login")
  /\ Type = "ClientboundSetCompression"
  /\ Continue(<<>>, connState, "login")
  /\ UNCHANGED <<version, goal, threshold, serverVars, lost>>

LoginCompression ==
  /\ Received("login")
  /\ Type = "ClientboundSetCompression"
  /\ threshold' = TRUE
  /\ Continue(<<>>, connState, "login")
  /\ UNCHANGED <<version, goal, serverVars, lost>>

\* A mutant of Acknowledgement: SetState comes before the write.
AcknowledgementLate == W("Configuration", "ServerboundLoginAcknowledged")

Acknowledgement == W(connState, "ServerboundLoginAcknowledged")

\* Before 1.20.2 play follows at once, since then configuration, which
\* handleConfiguration begins with the client settings.
LoginSuccess ==
  /\ Received("login")
  /\ Type = "ClientboundLoginSuccess"
  /\ IF version >= V1_20_2
     THEN Continue(<<Acknowledgement, W("Configuration", "ServerboundClientSettings")>>,
                   "Configuration", "configuration")
     ELSE Return(<<W("Play", "ServerboundClientSettings")>>, "Play")
  /\ UNCHANGED <<version, goal, threshold, serverVars, lost>>

\* A disconnect packet fails Join, and so does a packet without a
\* registration; the others are ignored.  (Join also has a case for
\* ClientboundJoinGame and one for ClientboundKeepAlive, which no version
\* registers in the login state.)
LoginOther ==
  /\ Received("login")
  /\ Type \notin {"ClientboundSetCompression", "ClientboundLoginSuccess"}
  /\ IF Type \in {"ClientboundDisconnect", ErrUnknownPacket}
     THEN Fail
     ELSE Continue(<<>>, connState, "login")
  /\ UNCHANGED <<version, goal, threshold, serverVars, lost>>

-----------------------------------------------------------------------------
(* handleConfiguration.                                                    *)

\* A mutant of FinishesLast: no finish_configuration from 1.20.5 to 1.21.1.
FinishesLastBefore1205 == version < V1_20_5

\* From 1.21.3 on the client finishes configuration as soon as it has answered
\* select_known_packs, before that when the server does.
FinishesFirst == version >= V1_21_3
FinishesLast  == version < V1_21_3

FinishConfiguration == "ServerboundFinishConfiguration"

KnownPacks ==
  IF FinishesFirst
  THEN <<W(connState, "ServerboundSelectKnownPacks"), W(connState, FinishConfiguration)>>
  ELSE <<W(connState, "ServerboundSelectKnownPacks")>>

\* Mutants of ConfigurationAnswer: no cookie response; no known packs.
ConfigurationAnswerNoCookie(type) ==
  CASE type = "ClientboundConfigKeepAlive"   -> <<W(connState, "ServerboundConfigKeepAlive")>>
    [] type = "ClientboundCustomPayload"     -> <<W(connState, "ServerboundCustomPayload")>>
    [] type = "ClientboundSelectKnownPacks"  -> KnownPacks
    [] OTHER                                 -> <<>>

ConfigurationAnswerNoPacks(type) ==
  CASE type = "ClientboundConfigKeepAlive"   -> <<W(connState, "ServerboundConfigKeepAlive")>>
    [] type = "ClientboundCustomPayload"     -> <<W(connState, "ServerboundCustomPayload")>>
    [] type = "ClientboundCookieRequest"     -> <<W(connState, "ServerboundCookieResponse")>>
    [] OTHER                                 -> <<>>

\* What answers a packet read during configuration.  A custom payload is the
\* brand here; those on other channels are ignored, like the packets without
\* an answer and those without a registration.
ConfigurationAnswer(type) ==
  CASE type = "ClientboundConfigKeepAlive"   -> <<W(connState, "ServerboundConfigKeepAlive")>>
    [] type = "ClientboundCustomPayload"     -> <<W(connState, "ServerboundCustomPayload")>>
    [] type = "ClientboundSelectKnownPacks"  -> KnownPacks
    [] type = "ClientboundCookieRequest"     -> <<W(connState, "ServerboundCookieResponse")>>
    [] OTHER                                 -> <<>>

ConfigurationPacket ==
  /\ Received("configuration")
  /\ Type \notin {"ClientboundFinishConfiguration", "ClientboundDisconnect"}
  /\ Continue(ConfigurationAnswer(Type), connState, "configuration")
  /\ UNCHANGED <<version, goal, threshold, serverVars, lost>>

\* A mutant of AfterFinish: SetState(StatePlay) is missing.
AfterFinishUnchanged == connState

AfterFinish == "Play"

ConfigurationFinish ==
  /\ Received("configuration")
  /\ Type = "ClientboundFinishConfiguration"
  /\ Return(IF FinishesLast THEN <<W(connState, FinishConfiguration)>> ELSE <<>>, AfterFinish)
  /\ UNCHANGED <<version, goal, threshold, serverVars, lost>>

ConfigurationDisconnect ==
  /\ Received("configuration")
  /\ Type = "ClientboundDisconnect"
  /\ Fail
  /\ UNCHANGED <<version, goal, threshold, serverVars, lost>>

\* The dial, a read or a write fails.
ConnectionError ==
  /\ lost
  /\ pc # "returned"
  /\ Fail
  /\ UNCHANGED <<version, goal, threshold, toClient, serverVars, lost>>

Client ==
  \/ StatusStart \/ StatusResponse \/ StatusPong
  \/ LoginStart \/ LoginNoName \/ LoginCompression \/ LoginSuccess \/ LoginOther
  \/ ConfigurationPacket \/ ConfigurationFinish \/ ConfigurationDisconnect
  \/ ConnectionError

-----------------------------------------------------------------------------
(* The server.                                                             *)

Send(wire) ==
  toClient' = Append(toClient, [state |-> serverOut, wire |-> wire, comp |-> serverComp])

\* The answered requests, and the answers.
AnswerTo == [ keep_alive         |-> "ServerboundConfigKeepAlive",
              custom_payload     |-> "ServerboundCustomPayload",
              cookie_request     |-> "ServerboundCookieResponse",
              select_known_packs |-> "ServerboundSelectKnownPacks" ]

IsAnswer(name) == \E wire \in DOMAIN AnswerTo : AnswerTo[wire] = name

UsesPacks == version >= V1_20_5

\* What the server does next when it has received a packet.
StepAfter(name) ==
  CASE name = "ServerboundHandshake"             -> "request"
    [] name = "ServerboundStatusRequest"         -> "server_info"
    [] name = "ServerboundPing"                  -> "ping"
    [] name = "ServerboundLoginStart"            -> "login"
    [] name = "ServerboundLoginAcknowledged"     -> IF UsesPacks THEN "packs" ELSE "configuration"
    [] name = "ServerboundSelectKnownPacks"      -> "configuration"
    [] name = "ServerboundFinishConfiguration" /\ serverStep = "finish" -> "play"
    [] OTHER                                     -> serverStep

ServerReceive ==
  /\ toServer # <<>>
  /\ ~lost
  /\ serverStep # "gone"
  /\ LET p == Head(toServer) IN
       /\ toServer' = Tail(toServer)
       /\ serverIn' = CASE p.name = "ServerboundHandshake"           -> goal
                        [] p.name = "ServerboundLoginAcknowledged"   -> "Configuration"
                        [] p.name = "ServerboundFinishConfiguration" -> "Play"
                        [] OTHER                                     -> serverIn
       /\ serverStep' = StepAfter(p.name)
       /\ serverOut' = IF p.name \in {"ServerboundHandshake", "ServerboundLoginAcknowledged"}
                         \/ StepAfter(p.name) = "play"
                       THEN serverIn' ELSE serverOut
       /\ answers' = IF IsAnswer(p.name) THEN Append(answers, p.name) ELSE answers
  /\ UNCHANGED <<version, goal, clientVars, toClient, serverComp, extra, asked, lost>>

\* The packets a session needs.
ServerRequired ==
  /\ ~lost
  /\ \/ /\ serverStep \in {"server_info", "ping"}
        /\ Send(serverStep)
        /\ serverStep' = "request"
        /\ UNCHANGED <<serverIn, serverOut, asked>>
     \/ /\ serverStep = "login"
        /\ Send("success")
        /\ IF version >= V1_20_2
           THEN serverStep' = "acknowledgement" /\ UNCHANGED <<serverIn, serverOut>>
           ELSE serverStep' = "play" /\ serverIn' = "Play" /\ serverOut' = "Play"
        /\ UNCHANGED asked
     \/ /\ serverStep = "packs"
        /\ Send("select_known_packs")
        /\ asked' = Append(asked, AnswerTo["select_known_packs"])
        /\ serverStep' = "packsSent"
        /\ UNCHANGED <<serverIn, serverOut>>
     \/ /\ serverStep = "configuration"
        /\ Send("finish_configuration")
        /\ serverStep' = IF serverIn = "Play" THEN "play" ELSE "finish"
        /\ serverOut' = IF serverIn = "Play" THEN "Play" ELSE serverOut
        /\ UNCHANGED <<serverIn, asked>>
     \/ /\ serverStep = "play"
        /\ Send("login")
        /\ serverStep' = "done"
        /\ UNCHANGED <<serverIn, serverOut, asked>>
  /\ UNCHANGED <<version, goal, clientVars, toServer, serverComp, extra, answers, lost>>

\* Compression, once, if the version has it.
ServerCompress ==
  /\ ~lost
  /\ serverStep = "login"
  /\ ~serverComp
  /\ NewPacket(version, "Login", "Clientbound", "compress") # ErrUnknownPacket
  /\ Send("compress")
  /\ serverComp' = TRUE
  /\ UNCHANGED <<version, goal, clientVars, toServer, serverIn, serverOut,
                 serverStep, extra, asked, answers, lost>>

MayAsk == serverStep = "packs"
          \/ (serverStep \in {"packsSent", "configuration"} /\ (RequestsAfterPacks \/ ~FinishesFirst))

\* Whatever else it may send: requests, packets the client ignores, and packets
\* it has no registration for.
ServerExtra ==
  /\ ~lost
  /\ extra < MaxExtra
  /\ extra' = extra + 1
  /\ \/ /\ serverStep = "login"
        /\ \E wire \in {"cookie_request", "encryption_begin"} : Send(wire)
        /\ UNCHANGED <<serverStep, asked>>
     \/ /\ MayAsk
        /\ \E wire \in DOMAIN AnswerTo \ {"select_known_packs"} :
             /\ NewPacket(version, "Configuration", "Clientbound", wire) # ErrUnknownPacket
             /\ Send(wire)
             /\ asked' = Append(asked, AnswerTo[wire])
        /\ UNCHANGED serverStep
     \/ /\ serverStep \in {"packs", "packsSent", "configuration"}
        /\ \E wire \in {"registry_data", "ping", "tags"} : Send(wire)
        /\ UNCHANGED <<serverStep, asked>>
     \/ /\ serverStep \in {"server_info", "ping"}
        /\ \E wire \in {"server_info", "ping"} \ {serverStep} : Send(wire)
        /\ UNCHANGED <<serverStep, asked>>
     \/ /\ serverStep \in {"login", "packs", "packsSent", "configuration"}
        /\ Send("disconnect")
        /\ serverStep' = "gone"
        /\ UNCHANGED asked
  /\ UNCHANGED <<version, goal, clientVars, toServer, serverIn, serverOut,
                 serverComp, answers, lost>>

Lose ==
  /\ ~lost
  /\ lost' = TRUE
  /\ UNCHANGED <<version, goal, clientVars, toServer, toClient, serverVars>>

Server == ServerReceive \/ ServerRequired \/ ServerCompress \/ ServerExtra

-----------------------------------------------------------------------------
Init ==
  /\ version \in Supported
  /\ goal \in {"Status", "Login"}
  /\ connState = "Handshaking"
  /\ threshold = FALSE
  /\ pc = "start"
  /\ result = "none"
  /\ toServer = <<>>
  /\ toClient = <<>>
  /\ serverIn = "Handshaking"
  /\ serverOut = "Handshaking"
  /\ serverComp = FALSE
  /\ serverStep = "handshake"
  /\ extra = 0
  /\ asked = <<>>
  /\ answers = <<>>
  /\ lost = FALSE

Next == Client \/ Server \/ Lose

Spec == Init /\ [][Next]_vars

\* The client runs, and the server does what a session needs of it.
FairSpec == Spec /\ WF_vars(Client) /\ WF_vars(ServerReceive) /\ WF_vars(ServerRequired)

-----------------------------------------------------------------------------
(* Properties.                                                             *)

\* The states GetStatus and Join may put the connection in.
StatesOfGoal ==
  {"Handshaking", goal}
    \cup (IF goal = "Login" THEN {"Play"} ELSE {})
    \cup (IF goal = "Login" /\ version >= V1_20_2 THEN {"Configuration"} ELSE {})

Wires == {"server_info", "ping", "success", "compress", "encryption_begin", "disconnect",
          "finish_configuration", "registry_data", "tags", "login"} \cup DOMAIN AnswerTo

\* Every variable keeps its type, connState that of the call and the version;
\* what is written has a constructor, or it could not have an ID.
TypeOK ==
  /\ version \in Supported
  /\ goal \in {"Status", "Login"}
  /\ connState \in StatesOfGoal
  /\ threshold \in BOOLEAN
  /\ pc \in {"start", "status", "ping", "login", "configuration", "returned"}
  /\ result \in {"none", "ok", "error", "no id"}
  /\ toServer \in Seq([state : States, name : packetConstructors, comp : BOOLEAN])
  /\ toClient \in Seq([state : States, wire : Wires, comp : BOOLEAN])
  /\ serverIn \in States
  /\ serverOut \in States
  /\ serverComp \in BOOLEAN
  /\ serverStep \in {"handshake", "request", "server_info", "ping", "login",
                    "acknowledgement", "packs", "packsSent", "configuration",
                    "finish", "play", "done", "gone"}
  /\ extra \in 0 .. MaxExtra
  /\ asked \in Seq(packetConstructors)
  /\ answers \in Seq(packetConstructors)
  /\ lost \in BOOLEAN

\* Whatever the client writes reaches a server that decodes in the state, and
\* with the compression, the client wrote it with: no state is entered before
\* the packet that leaves the old one, and no packet follows in a state the
\* server has left.
ServerUnderstands ==
  toServer # <<>> /\ ~lost =>
    Head(toServer).state = serverIn /\ Head(toServer).comp = serverComp

\* The same of what the client reads next, in GetStatus and Join and, when
\* they have succeeded, after them.
ClientUnderstands ==
  toClient # <<>> /\ result \in {"none", "ok"} =>
    Head(toClient).state = connState /\ Head(toClient).comp = threshold

\* In no version do GetStatus and Join write a packet the registry has no ID
\* for in the state the connection is in.
NoMissingID == result # "no id"

\* Requests are answered once each and in order, and all of them before Join
\* reports success.
AnswersMatch ==
  /\ Len(answers) <= Len(asked)
  /\ \A i \in DOMAIN answers : answers[i] = asked[i]
  /\ result = "ok" /\ goal = "Login" /\ toServer = <<>> => answers = asked

\* When Join reports success both ends come to be in the play state.
JoinAgreement ==
  result = "ok" /\ goal = "Login" =>
    /\ connState = "Play"
    /\ toServer = <<>> => serverIn = "Play"

\* The phases of a session, as both ends go through them.
Path ==
  CASE goal = "Status"                       -> <<"Handshaking", "Status">>
    [] goal = "Login" /\ version >= V1_20_2 -> <<"Handshaking", "Login", "Configuration", "Play">>
    [] OTHER                                 -> <<"Handshaking", "Login", "Play">>

Phases == INSTANCE SessionPhases WITH
            path    <- Path,
            client  <- connState,
            server  <- serverIn,
            outcome <- result

\* GetStatus and Join take the connection through the phases of the goal and
\* the version in step with the server, whichever end is the first to go on, and
\* succeed only at the last: Session implements SessionPhases.
FollowsPhases == Phases!Spec

\* GetStatus and Join return, if the server does its part or the connection is
\* lost.
Returns == <>(pc = "returned")

=============================================================================
