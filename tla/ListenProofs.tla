---------------------------- MODULE ListenProofs ----------------------------
(***************************************************************************)
(* Theorems about Client that rest on those of ClientProofs.               *)
(*                                                                         *)
(*   CarefulInvariant  the invariant of a careful application              *)
(*   NothingPanics     without callers, its process does not panic         *)
(*   DisconnectEnds    nothing follows a DisconnectEvent                   *)
(*   ChatStaysInPlay   Chat and SetPosition write in the play state only,  *)
(*                     whatever the application does                       *)
(*   ListenerIsServed  no readLoop ends unreported                         *)
(*   EchoesMatch       the replies to keep-alives are those the            *)
(*                     application is told of, in the server's order       *)
(*                                                                         *)
(* The last one needs the largest invariant, EchoInv: that replies and     *)
(* events agree depends on the ID of every keep-alive still on its way, and*)
(* those are read as keep-alives only because the connection follows the   *)
(* server from state to state.                                             *)
(***************************************************************************)
EXTENDS ClientProofs

-----------------------------------------------------------------------------
(* What follows from the invariants of ClientProofs.                       *)

\* The inductive invariant of a careful application.
THEOREM CarefulInvariant ==
  ASSUME Careful
  PROVE  Spec => []CarefulInv
<1>1. CarefulInv /\ [Next]_vars => CarefulInv'
  BY NextCareful
<1> QED BY <1>1, InitCareful, PTL DEF Spec

\* Without goroutines that call Chat and SetPosition, a careful application
\* never dereferences a nil c.Conn and never sends on a closed channel.
THEOREM NothingPanics ==
  ASSUME Careful, Callers = {}
  PROVE  Spec => []NoPanic
<1>1. CarefulInv => NoPanic
  BY DEF CarefulInv, OnlyCallersPanic, NoPanic
<1> QED BY <1>1, CarefulInvariant, PTL

\* A careful application finds nothing behind a DisconnectEvent but a ReadyEvent.
THEOREM DisconnectEnds ==
  ASSUME Careful
  PROVE  Spec => []DisconnectLast
<1>1. CarefulInv => DisconnectLast
  BY DEF CarefulInv
<1> QED BY <1>1, CarefulInvariant, PTL

-----------------------------------------------------------------------------
(* Chat and SetPosition.                                                   *)

\* Their packets have an ID in the play state only.
LEMMA ChatIsPlay ==
  ASSUME NEW s \in States, NEW o \in DOMAIN PacketOf,
         HasPacketID(Version, s, "Serverbound", PacketOf[o])
  PROVE  s = "Play"
<1>1. PacketOf[o] \in {"ServerboundChatMessage", "ServerboundPlayerPosition"}
  BY DEF PacketOf
<1>2. PICK row \in Registered(Version, s, "Serverbound") : row[2] = PacketOf[o]
  BY DEF HasPacketID
<1>3. CASE s \in {"Handshaking", "Status"}
  BY <1>1, <1>2, <1>3 DEF Registered, HandshakingServerbound, StatusServerbound
<1>4. CASE s = "Login"
  BY <1>1, <1>2, <1>4 DEF Registered, LoginServerbound, Since
<1>5. CASE s = "Configuration"
  BY <1>1, <1>2, <1>5 DEF Registered, ConfigurationServerbound, Since
<1> QED BY <1>3, <1>4, <1>5 DEF States

\* Whatever the application does between the check of State() and WritePacket,
\* Chat and SetPosition put nothing on the wire outside the play state: the
\* lookup of the packet ID, which comes last, is made in the state that is
\* current by then.
THEOREM ChatStaysInPlay == Spec => []ChatOnlyInPlay
<1>1. Init => ChatOnlyInPlay
  BY DEF Init, ChatOnlyInPlay
<1>2. TypeInv /\ ChatOnlyInPlay /\ [Next]_vars => ChatOnlyInPlay'
  <2> SUFFICES ASSUME TypeInv, ChatOnlyInPlay, [Next]_vars PROVE ChatOnlyInPlay'
    OBVIOUS
  <2>1. ASSUME written' = written PROVE ChatOnlyInPlay'
    BY <2>1 DEF ChatOnlyInPlay
  <2>2. CASE \E r \in Gens : Reader(r)
    <3>1. written' = written
      BY <2>2 DEF Reader, ReaderSelect, ReaderLoad, ReaderLock, ReaderRead, ReaderReply, ReaderNotify,
                  ReaderSend, ReaderCancel, ReaderReturn, Crash, connVars
    <3> QED BY <2>1, <3>1
  <2>3. CASE Application
    <3>1. written' = written
      BY <2>3 DEF Application, AppContinue, AppConnect, AppClose, AppDestroy, AppReceive, AppDialFails,
                  AppDial, AppJoinLock, AppJoinRead, AppMakeChannel, AppSpawn, AppReady, AppDrain,
                  AppCloseLast, connVars
    <3> QED BY <2>1, <3>1
  <2>4. CASE \E k \in Gens : Server(k)
    <3>1. written' = written
      BY <2>4 DEF Server, ServerLogin, ServerPlay, ServerEnd
    <3> QED BY <2>1, <3>1
  <2>5. CASE \E g \in Callers : Caller(g)
    <3>1. PICK g \in Callers : Caller(g)
      BY <2>5
    <3>2. CASE CallerBegin(g) \/ CallerState(g) \/ Crash("nil connection")
      <4>1. written' = written
        BY <3>2 DEF CallerBegin, CallerState, Crash, connVars
      <4> QED BY <2>1, <4>1
    <3>3. CASE CallerWrite(g) /\ ~Crash("nil connection")
      <4>1. conn # Nil /\ conn \in Gens /\ op[g] \in DOMAIN PacketOf
        BY <3>3 DEF CallerWrite, TypeInv, TypeOK, ClientTypes, CallerTypes
      <4>2. connState[conn] \in States /\ written \in [Gens -> SUBSET (States \X DOMAIN PacketOf)]
        BY <4>1 DEF TypeInv, TypeOK, ConnTypes
      <4>3. PICK ok \in WriteResults(conn, connState[conn], PacketOf[op[g]]) :
              written' = IF ok THEN [written EXCEPT ![conn] = @ \cup {<<connState[conn], op[g]>>}]
                         ELSE written
        BY <3>3 DEF CallerWrite
      <4>4. CASE ok
        <5>1. HasPacketID(Version, connState[conn], "Serverbound", PacketOf[op[g]])
          BY <4>3, <4>4 DEF WriteResults
        <5>2. connState[conn] = "Play"
          BY <4>1, <4>2, <5>1, ChatIsPlay
        <5> QED BY <4>1, <4>2, <4>3, <4>4, <5>2 DEF ChatOnlyInPlay
      <4>5. CASE ~ok
        BY <2>1, <4>3, <4>5
      <4> QED BY <4>4, <4>5
    <3> QED BY <3>1, <3>2, <3>3 DEF Caller
  <2>6. CASE UNCHANGED vars
    <3>1. written' = written
      BY <2>6 DEF vars, connVars
    <3> QED BY <2>1, <3>1
  <2> QED BY <2>2, <2>3, <2>4, <2>5, <2>6 DEF Next
<1> QED BY <1>1, <1>2, TypeInvariant, PTL DEF Spec

-----------------------------------------------------------------------------
(* The end of a readLoop.                                                  *)

\* A reader that has come to its end without having been cancelled has reported
\* the disconnection on its own channel.
Reported ==
  ~cancelled => \A r \in Gens : reader[r] \in {"return", "returned"} => HoldsDisconnect(r)

\* The step before the end is the event of a read error.
LEMMA ReaderReports ==
  ASSUME CarefulInv, Reported, NEW r \in Gens, Reader(r)
  PROVE  Reported'
<1> SUFFICES ASSUME ~cancelled', NEW q \in Gens, reader'[q] \in {"return", "returned"}
             PROVE  HoldsDisconnect(q)'
  BY DEF Reported
<1>1. ~cancelled
  BY DEF Reader, ReaderSelect, ReaderLoad, ReaderLock, ReaderRead, ReaderReply, ReaderNotify,
         ReaderSend, ReaderCancel, ReaderReturn, Crash
<1>2. /\ reader \in [Gens -> ReaderPlaces] /\ packet \in [Gens -> ReadPackets]
      /\ events \in [Gens -> Seq(Events)]
  BY DEF CarefulInv, TypeInv, TypeOK, ReaderTypes, ChanTypes
<1>3. Active(r) => Bound(r) /\ r # Nil
  BY DEF CarefulInv, Guarded, Gens, Nil
<1>4. reader[q] \in {"return", "returned"} => HoldsDisconnect(q)
  BY <1>1 DEF Reported
<1>5. CASE ReaderSend(r) /\ ~Crash("send on closed channel")
  <2>1. /\ reader[r] = "send" /\ target[r] = r
        /\ packet[r].type \in {"ClientboundKeepAlive", "ClientboundChatMessage",
                               "ClientboundDisconnect", ReadError}
    BY <1>3, <1>5 DEF ReaderSend, Active, Bound
  <2> DEFINE e == Event(packet[r])
  <2>2. /\ events' = [events EXCEPT ![r] = Append(@, e)]
        /\ reader' = [reader EXCEPT ![r] = AfterEvent(packet[r].type)]
    BY <1>5, <2>1 DEF ReaderSend
  <2>3. e \in Events
    BY <1>2, <2>1 DEF Event, Events, ReadPackets
  <2>4. AfterEvent(packet[r].type) \in {"return", "returned"} => e.type = "Disconnect"
    BY <2>1 DEF Event, AfterEvent, ReadError
  <2> HIDE DEF e
  <2>5. CASE q = r
    <3>1. e.type = "Disconnect"
      BY <1>2, <2>2, <2>4, <2>5
    <3>2. events[r] \in Seq(Events) /\ events'[r] = Append(events[r], e)
      BY <1>2, <2>2
    <3>3. Len(events[r]) + 1 \in DOMAIN events'[r] /\ events'[r][Len(events[r]) + 1] = e
      BY <2>3, <3>2
    <3> QED BY <2>5, <3>1, <3>3 DEF HoldsDisconnect
  <2>6. CASE q # r
    BY <1>2, <1>4, <2>2, <2>6 DEF HoldsDisconnect
  <2> QED BY <2>5, <2>6
<1>6. CASE ~(ReaderSend(r) /\ ~Crash("send on closed channel"))
  <2>1. events' = events
    BY <1>6 DEF Reader, ReaderSelect, ReaderLoad, ReaderLock, ReaderRead, ReaderReply, ReaderNotify,
                ReaderSend, ReaderCancel, ReaderReturn, Crash, chanVars
  <2>2. reader[q] \in {"return", "returned"}
    <3>1. CASE q # r
      BY <1>2, <1>6, <3>1
         DEF Reader, ReaderSelect, ReaderLoad, ReaderLock, ReaderRead, ReaderReply, ReaderNotify,
             ReaderSend, ReaderCancel, ReaderReturn, Crash, readerVars
    <3>2. CASE q = r
      <4>1. CASE ReaderSelect(r)
        BY <1>1, <1>2, <3>2, <4>1 DEF ReaderSelect
      <4>2. CASE Crash("nil connection") \/ Crash("send on closed channel")
        BY <4>2 DEF Crash, readerVars
      <4>3. CASE (ReaderLoad(r) \/ ReaderReply(r)) /\ ~Crash("nil connection")
        BY <1>2, <3>2, <4>3 DEF ReaderLoad, ReaderReply
      <4>4. CASE ReaderLock(r)
        BY <1>2, <3>2, <4>4 DEF ReaderLock
      <4>5. CASE ReaderRead(r)
        BY <1>2, <3>2, <4>5 DEF ReaderRead, AfterRead
      <4>6. CASE ReaderNotify(r)
        <5>1. eventChan # Nil
          BY <1>3, <4>6 DEF ReaderNotify, Active, Bound
        <5> QED BY <1>2, <3>2, <4>6, <5>1 DEF ReaderNotify
      <4>7. CASE ReaderCancel(r) \/ ReaderReturn(r)
        BY <1>2, <3>2, <4>7 DEF ReaderCancel, ReaderReturn
      <4>8. CASE ReaderSend(r)
        BY <1>6, <4>2, <4>8
      <4> QED BY <4>1, <4>2, <4>3, <4>4, <4>5, <4>6, <4>7, <4>8 DEF Reader
    <3> QED BY <3>1, <3>2
  <2> QED BY <1>4, <2>1, <2>2 DEF HoldsDisconnect
<1> QED BY <1>5, <1>6

\* No other step ends a reader, or takes an event back.
LEMMA NextReports == CarefulInv /\ Reported /\ [Next]_vars => Reported'
<1> SUFFICES ASSUME CarefulInv, Reported, [Next]_vars PROVE Reported'
  OBVIOUS
<1>0. reader \in [Gens -> ReaderPlaces] /\ events \in [Gens -> Seq(Events)]
  BY DEF CarefulInv, TypeInv, TypeOK, ReaderTypes, ChanTypes
<1>1. ASSUME cancelled => cancelled', reader' = reader, events' = events
      PROVE  Reported'
  BY <1>1 DEF Reported, HoldsDisconnect
<1>2. CASE \E r \in Gens : Reader(r)
  BY <1>2, ReaderReports
<1>3. CASE AppSpawn
  <2>1. reader' = [reader EXCEPT ![dialled] = "select"] /\ events' = events /\ cancelled' = cancelled
    BY <1>3 DEF AppSpawn, chanVars
  <2> QED BY <1>0, <2>1 DEF Reported, HoldsDisconnect
<1>4. CASE AppReady
  <2>1. /\ events' = [events EXCEPT ![eventChan] = Append(@, Ready)]
        /\ reader' = reader /\ cancelled' = cancelled
    BY <1>4 DEF AppReady, readerVars
  <2>2. eventChan \in Gens /\ Ready \in Events
    BY <1>4 DEF AppReady, CarefulInv, TypeInv, Places, Ready, Events
  <2>3. ASSUME NEW r \in Gens, HoldsDisconnect(r) PROVE HoldsDisconnect(r)'
    <3>1. PICK i \in DOMAIN events[r] : events[r][i].type = "Disconnect"
      BY <2>3 DEF HoldsDisconnect
    <3>2. i \in DOMAIN events'[r] /\ events'[r][i] = events[r][i]
      BY <1>0, <2>1, <2>2, <3>1
    <3> QED BY <3>1, <3>2 DEF HoldsDisconnect
  <2> QED BY <2>1, <2>3 DEF Reported
<1>5. CASE Application /\ ~AppSpawn /\ ~AppReady
  <2>1. (cancelled => cancelled') /\ reader' = reader /\ events' = events
    BY <1>5 DEF Application, AppContinue, AppConnect, AppClose, AppDestroy, AppReceive, AppDialFails,
                AppDial, AppJoinLock, AppJoinRead, AppMakeChannel, AppDrain, AppCloseLast,
                readerVars, chanVars
  <2> QED BY <1>1, <2>1
<1>6. CASE (\E g \in Callers : Caller(g)) \/ (\E k \in Gens : Server(k)) \/ UNCHANGED vars
  <2>1. cancelled' = cancelled /\ reader' = reader /\ events' = events
    BY <1>6 DEF Caller, CallerBegin, CallerState, CallerWrite, Crash, Server, ServerLogin, ServerPlay,
                ServerEnd, vars, readerVars, chanVars
  <2> QED BY <1>1, <2>1
<1> QED BY <1>2, <1>3, <1>4, <1>5, <1>6 DEF Next

\* While the client of a careful application has been neither kicked nor
\* destroyed, the channel the application waits on has a readLoop behind it or
\* a DisconnectEvent in it: no return of readLoop goes unreported.
THEOREM ListenerIsServed ==
  ASSUME Careful
  PROVE  Spec => []ListenerServed
<1>1. Init => Reported
  BY DEF Init, Reported
<1>2. CarefulInv /\ Reported => ListenerServed
  <2> SUFFICES ASSUME CarefulInv, Reported, ~cancelled, app = "idle", subscription # Nil,
                      subscription = eventChan, ~Alive(subscription)
               PROVE  HoldsDisconnect(subscription)
    BY DEF ListenerServed, ListenerAlive
  <2>1. subscription \in Gens
    BY DEF CarefulInv, TypeInv, TypeOK, AppTypes
  <2>2. reader[subscription] # "unstarted"
    BY DEF CarefulInv, Fresh
  <2> QED BY <2>1, <2>2 DEF Alive, Reported
<1> QED BY <1>1, <1>2, NextReports, CarefulInvariant, PTL DEF Spec

-----------------------------------------------------------------------------
(* Keep-alives.                                                            *)

\* The state the server is in after a packet.
After(p) ==
  CASE p.wire = "success"              -> IF Version >= V1_20_2 THEN "Configuration" ELSE "Play"
    [] p.wire = "finish_configuration" -> "Play"
    [] OTHER                           -> p.state

\* A packet in the state the server sends it in.
Proper(p) ==
  \/ p.wire = "success" /\ p.state = "Login"
  \/ p.wire = "finish_configuration" /\ p.state = "Configuration" /\ Version >= V1_20_2
  \/ p.wire = "disconnect" /\ (p.state = "Login" \/ (p.state = "Configuration" /\ Version >= V1_20_2))
  \/ p.wire \in {"keep_alive", "chat", "kick_disconnect"} /\ p.state = "Play"

Final(p) == p.wire \in {"disconnect", "kick_disconnect"}

\* What is on its way leads from the state of the connection to that of the
\* server, and nothing follows a kick.
Chain(k) ==
  /\ \A i \in DOMAIN inbox[k] : Proper(inbox[k][i])
  /\ inbox[k] # <<>> => inbox[k][1].state = connState[k]
  /\ \A i \in 1 .. Len(inbox[k]) - 1 :
       inbox[k][i + 1].state = After(inbox[k][i]) /\ ~Final(inbox[k][i])
  /\ server[k] # "gone" =>
       IF inbox[k] = <<>> THEN server[k] = connState[k]
       ELSE server[k] = After(inbox[k][Len(inbox[k])]) /\ ~Final(inbox[k][Len(inbox[k])])

\* Somebody reads, or is about to read, what arrives on a connection.
Followed(k) ==
  \/ reader[k] # "unstarted"
  \/ app \in {"join", "joinRead", "channel", "spawn"} /\ dialled = k

Answered(k) == { replies[k][i] : i \in DOMAIN replies[k] }
Told(k)     == { events[k][i].id : i \in KeepAlives(k) }

\* The keep-alives on their way have numbers, the later the larger.
Numbered(k) ==
  /\ \A i \in DOMAIN inbox[k] : inbox[k][i].id <= packets[k]
  /\ \A i, j \in DOMAIN inbox[k] :
       i < j /\ inbox[k][i].wire = "keep_alive" /\ inbox[k][j].wire = "keep_alive" =>
         inbox[k][i].id < inbox[k][j].id

\* n comes before the keep-alives on their way.
Earlier(k, n) ==
  /\ n <= packets[k]
  /\ \A i \in DOMAIN inbox[k] : inbox[k][i].wire = "keep_alive" => n < inbox[k][i].id

\* What was answered comes before the keep-alive in the reader's hands, and that
\* before those on their way.
Sequenced(k) ==
  /\ \A n \in Answered(k) : Earlier(k, n)
  /\ reader[k] = "reply" => Earlier(k, packet[k].id) /\ \A n \in Answered(k) : n < packet[k].id

\* The property, for one connection.
Matched(k) ==
  /\ Answered(k) = Told(k) \cup (IF InHand(k) THEN {packet[k].id} ELSE {})
  /\ InHand(k) => \A n \in Told(k) : n < packet[k].id
  /\ \A i, j \in DOMAIN replies[k] : i < j => replies[k][i] < replies[k][j]
  /\ \A i, j \in KeepAlives(k) : i < j => events[k][i].id < events[k][j].id

\* A connection that has no reader yet has no keep-alives, one that has is in
\* the play state, one that was not dialled carries nothing, and only the
\* versions that have the configuration state enter it.
Idle(k) ==
  /\ reader[k] = "unstarted" => replies[k] = <<>> /\ KeepAlives(k) = {}
  /\ reader[k] # "unstarted" => connState[k] = "Play"
  /\ app \in {"channel", "spawn"} /\ dialled = k => connState[k] = "Play"
  /\ k > dialled => net[k] # "open" /\ inbox[k] = <<>>
  /\ server[k] = "Configuration" => Version >= V1_20_2

Echo(k) ==
  net[k] = "open" => Numbered(k) /\ Matched(k) /\ (Followed(k) => Chain(k) /\ Sequenced(k))

EchoInv == CarefulInv /\ \A k \in Gens : Idle(k) /\ Echo(k)

\* What a sequence is without its head.
LEMMA TailFacts ==
  ASSUME NEW S, NEW s \in Seq(S), s # <<>>
  PROVE  /\ Len(s) \in Nat /\ Len(s) > 0 /\ Head(s) = s[1] /\ DOMAIN s = 1 .. Len(s)
         /\ Tail(s) \in Seq(S) /\ Len(Tail(s)) = Len(s) - 1 /\ DOMAIN Tail(s) = 1 .. Len(s) - 1
         /\ \A i \in 1 .. Len(s) - 1 : Tail(s)[i] = s[i + 1]
OBVIOUS

\* What it is with one more element.
LEMMA AppendFacts ==
  ASSUME NEW S, NEW s \in Seq(S), NEW e \in S
  PROVE  /\ Len(s) \in Nat /\ DOMAIN s = 1 .. Len(s)
         /\ Append(s, e) \in Seq(S) /\ Len(Append(s, e)) = Len(s) + 1
         /\ DOMAIN Append(s, e) = 1 .. Len(s) + 1
         /\ \A i \in 1 .. Len(s) : Append(s, e)[i] = s[i]
         /\ Append(s, e)[Len(s) + 1] = e
OBVIOUS

\* The lookup of a packet that is registered once.
LEMMA OneRow ==
  ASSUME NEW s, NEW w, NEW t \in packetConstructors, <<w, t>> \in Registered(Version, s, "Clientbound"),
         \A row \in Registered(Version, s, "Clientbound") : row[1] = w => row = <<w, t>>
  PROVE  NewPacket(Version, s, "Clientbound", w) = t
<1> DEFINE found == { row \in Registered(Version, s, "Clientbound") :
                        row[1] = w /\ row[2] \in packetConstructors }
<1>1. found = { <<w, t>> }
  OBVIOUS
<1>2. NewPacket(Version, s, "Clientbound", w) = (CHOOSE row \in found : TRUE)[2]
  BY <1>1 DEF NewPacket
<1>3. (CHOOSE row \in found : TRUE) = <<w, t>>
  BY <1>1
<1> QED BY <1>2, <1>3

\* What a packet is decoded to in the state the server sent it in.
LEMMA DecodesTo ==
  ASSUME NEW p, Proper(p)
  PROVE  LET t == NewPacket(Version, p.state, "Clientbound", p.wire)
         IN  /\ p.wire = "success" => t = "ClientboundLoginSuccess"
             /\ p.wire = "finish_configuration" => t = "ClientboundFinishConfiguration"
             /\ Final(p) => t = "ClientboundDisconnect"
             /\ p.wire = "keep_alive" => t = "ClientboundKeepAlive"
             /\ p.wire = "chat" => t \in {"ServerboundChatMessage", ErrUnknownPacket}
<1> DEFINE t == NewPacket(Version, p.state, "Clientbound", p.wire)
<1>0. Version \in Nat /\ V1_20_2 \in Nat
  BY ClientAssumption DEF V1_20_2, Versions, First, Latest, V1_7, V1_21_11
<1>1. CASE p.wire = "success"
  <2>1. NewPacket(Version, "Login", "Clientbound", "success") = "ClientboundLoginSuccess"
    <3>1. /\ <<"success", "ClientboundLoginSuccess">> \in Registered(Version, "Login", "Clientbound")
          /\ \A row \in Registered(Version, "Login", "Clientbound") :
               row[1] = "success" => row = <<"success", "ClientboundLoginSuccess">>
      BY DEF Registered, LoginClientbound, Since
    <3>2. "ClientboundLoginSuccess" \in packetConstructors
      BY DEF packetConstructors
    <3> QED BY <3>1, <3>2, OneRow
  <2> QED BY <1>1, <2>1 DEF Proper, Final
<1>2. CASE p.wire = "finish_configuration"
  <2>1. Version >= V1_20_2 /\ p.state = "Configuration"
    BY <1>2 DEF Proper
  <2>2. NewPacket(Version, "Configuration", "Clientbound", "finish_configuration")
          = "ClientboundFinishConfiguration"
    <3>1. /\ <<"finish_configuration", "ClientboundFinishConfiguration">>
               \in Registered(Version, "Configuration", "Clientbound")
          /\ \A row \in Registered(Version, "Configuration", "Clientbound") :
               row[1] = "finish_configuration" =>
                 row = <<"finish_configuration", "ClientboundFinishConfiguration">>
      BY <2>1 DEF Registered, ConfigurationClientbound, Since
    <3>2. "ClientboundFinishConfiguration" \in packetConstructors
      BY DEF packetConstructors
    <3> QED BY <3>1, <3>2, OneRow
  <2> QED BY <1>2, <2>1, <2>2 DEF Final
<1>3. CASE p.wire = "disconnect" /\ p.state = "Login"
  <2>1. NewPacket(Version, "Login", "Clientbound", "disconnect") = "ClientboundDisconnect"
    <3>1. /\ <<"disconnect", "ClientboundDisconnect">> \in Registered(Version, "Login", "Clientbound")
          /\ \A row \in Registered(Version, "Login", "Clientbound") :
               row[1] = "disconnect" => row = <<"disconnect", "ClientboundDisconnect">>
      BY DEF Registered, LoginClientbound, Since
    <3>2. "ClientboundDisconnect" \in packetConstructors
      BY DEF packetConstructors
    <3> QED BY <3>1, <3>2, OneRow
  <2> QED BY <1>3, <2>1
<1>4. CASE p.wire = "disconnect" /\ p.state = "Configuration" /\ Version >= V1_20_2
  <2>1. NewPacket(Version, "Configuration", "Clientbound", "disconnect") = "ClientboundDisconnect"
    <3>1. /\ <<"disconnect", "ClientboundDisconnect">> \in Registered(Version, "Configuration", "Clientbound")
          /\ \A row \in Registered(Version, "Configuration", "Clientbound") :
               row[1] = "disconnect" => row = <<"disconnect", "ClientboundDisconnect">>
      BY <1>4 DEF Registered, ConfigurationClientbound, Since
    <3>2. "ClientboundDisconnect" \in packetConstructors
      BY DEF packetConstructors
    <3> QED BY <3>1, <3>2, OneRow
  <2> QED BY <1>4, <2>1
<1>5. CASE p.wire = "keep_alive"
  <2>1. NewPacket(Version, "Play", "Clientbound", "keep_alive") = "ClientboundKeepAlive"
    <3>1. /\ <<"keep_alive", "ClientboundKeepAlive">> \in Registered(Version, "Play", "Clientbound")
          /\ \A row \in Registered(Version, "Play", "Clientbound") :
               row[1] = "keep_alive" => row = <<"keep_alive", "ClientboundKeepAlive">>
      BY DEF Registered, PlayClientbound, Since, Before
    <3>2. "ClientboundKeepAlive" \in packetConstructors
      BY DEF packetConstructors
    <3> QED BY <3>1, <3>2, OneRow
  <2> QED BY <1>5, <2>1 DEF Proper, Final
<1>6. CASE p.wire = "kick_disconnect"
  <2>1. NewPacket(Version, "Play", "Clientbound", "kick_disconnect") = "ClientboundDisconnect"
    <3>1. /\ <<"kick_disconnect", "ClientboundDisconnect">> \in Registered(Version, "Play", "Clientbound")
          /\ \A row \in Registered(Version, "Play", "Clientbound") :
               row[1] = "kick_disconnect" => row = <<"kick_disconnect", "ClientboundDisconnect">>
      BY DEF Registered, PlayClientbound, Since, Before
    <3>2. "ClientboundDisconnect" \in packetConstructors
      BY DEF packetConstructors
    <3> QED BY <3>1, <3>2, OneRow
  <2> QED BY <1>6, <2>1 DEF Proper
<1>7. CASE p.wire = "chat"
  <2> DEFINE found == { row \in Registered(Version, "Play", "Clientbound") :
                          row[1] = "chat" /\ row[2] \in packetConstructors }
  <2>1. \A row \in found : row[2] = "ServerboundChatMessage"
    BY DEF Registered, PlayClientbound, Since, Before
  <2>2. NewPacket(Version, "Play", "Clientbound", "chat") =
          IF found = {} THEN ErrUnknownPacket ELSE (CHOOSE row \in found : TRUE)[2]
    BY DEF NewPacket
  <2> HIDE DEF found
  <2>3. NewPacket(Version, "Play", "Clientbound", "chat") \in {"ServerboundChatMessage", ErrUnknownPacket}
    BY <2>1, <2>2
  <2> QED BY <1>7, <2>3 DEF Proper, Final
<1> QED BY <1>1, <1>2, <1>3, <1>4, <1>5, <1>6, <1>7 DEF Proper, Final

\* Where Join goes on, by the type it has read.
LEMMA StepsTo ==
  ASSUME NEW s \in States, NEW type, NEW step \in JoinSteps(s, type), step[2] # "idle"
  PROVE  /\ type = "ClientboundLoginSuccess" =>
              step[1] = IF Version >= V1_20_2 THEN "Configuration" ELSE "Play"
         /\ type = "ClientboundFinishConfiguration" => step[1] = "Play"
         /\ type # "ClientboundDisconnect"
         /\ type \in {"ClientboundKeepAlive", "ServerboundChatMessage", ErrUnknownPacket} => step[1] = s
<1>2. Version \in Nat /\ V1_20_2 \in Nat /\ V1_21_3 \in Nat
  BY ClientAssumption
     DEF V1_20_2, V1_21_3, Versions, First, Latest, V1_7, V1_21_11
<1>3. CASE type = "ClientboundLoginSuccess" /\ Version < V1_20_2
  <2>2. ~(Version >= V1_20_2)
    BY <1>2, <1>3
  <2>0. PICK place : step = <<"Play", place>>
    <3>1. JoinSteps(s, type) = { <<"Play", IF ok THEN Joined ELSE "idle">> :
                                   ok \in WriteResults(conn, "Play", "ServerboundClientSettings") }
      BY <1>2, <1>3, <2>2 DEF JoinSteps, ErrUnknownPacket, ReadError
    <3> QED BY <3>1
  <2>1. step[1] = "Play"
    BY <2>0
  <2> QED BY <1>3, <2>1, <2>2 DEF ErrUnknownPacket
<1>4. CASE type = "ClientboundLoginSuccess" /\ Version >= V1_20_2
  <2>0. ~(Version < V1_20_2)
    BY <1>2, <1>4
  <2>1. step[1] = "Configuration"
    <3>1. JoinSteps(s, type) =
            { IF ack THEN <<"Configuration", IF ok THEN "join" ELSE "idle">> ELSE <<s, "idle">> :
                ack \in WriteResults(conn, s, "ServerboundLoginAcknowledged"),
                ok \in WriteResults(conn, "Configuration", "ServerboundClientSettings") }
      BY <1>4, <2>0 DEF JoinSteps, ErrUnknownPacket, ReadError
    <3>2. PICK place : step = <<"Configuration", place>> \/ step = <<s, "idle">>
      BY <3>1
    <3> QED BY <3>2
  <2> QED BY <1>4, <2>1 DEF ErrUnknownPacket
<1>5. CASE type = "ClientboundFinishConfiguration"
  <2>1. step[1] = "Play"
    <3>1. CASE Version < V1_21_3
      <4>0. ~(Version >= V1_21_3)
        BY <1>2, <3>1
      <4>1. JoinSteps(s, type) = { IF ok THEN <<"Play", Joined>> ELSE <<s, "idle">> :
                                     ok \in WriteResults(conn, s, "ServerboundFinishConfiguration") }
        BY <1>5, <3>1, <4>0 DEF JoinSteps, ErrUnknownPacket, ReadError
      <4>2. step = <<"Play", Joined>> \/ step = <<s, "idle">>
        BY <4>1
      <4> QED BY <4>2
    <3>2. CASE Version >= V1_21_3
      <4>0. ~(Version < V1_21_3)
        BY <1>2, <3>2
      <4>1. JoinSteps(s, type) = { <<"Play", Joined>> }
        BY <1>5, <3>2, <4>0 DEF JoinSteps, ErrUnknownPacket, ReadError
      <4> QED BY <4>1
    <3> QED BY <1>2, <3>1, <3>2
  <2> QED BY <1>5, <2>1 DEF ErrUnknownPacket
<1>6. CASE type = "ClientboundDisconnect"
  <2>1. JoinSteps(s, type) = { <<s, "idle">> }
    BY <1>6 DEF JoinSteps, ErrUnknownPacket, ReadError
  <2> QED BY <2>1
<1>7. CASE type \notin {"ClientboundLoginSuccess", "ClientboundFinishConfiguration", "ClientboundDisconnect"}
  <2>1. type \in {"ClientboundKeepAlive", "ServerboundChatMessage"} => step[1] = s
    BY DEF JoinSteps, ErrUnknownPacket, ReadError
  <2>2. type = ErrUnknownPacket => step[1] = s
    BY DEF JoinSteps, ErrUnknownPacket, ReadError
  <2> QED BY <1>7, <2>1, <2>2
<1> QED BY <1>2, <1>3, <1>4, <1>5, <1>6, <1>7

\* What Join does with such a packet takes the connection to the state the
\* server is in after it, unless the call fails.
LEMMA JoinFollows ==
  ASSUME NEW p, Proper(p),
         NEW step \in JoinSteps(p.state, NewPacket(Version, p.state, "Clientbound", p.wire)),
         step[2] # "idle"
  PROVE  step[1] = After(p) /\ ~Final(p)
<1>1. PICK t : t = NewPacket(Version, p.state, "Clientbound", p.wire)
  OBVIOUS
<1>2. /\ p.wire = "success" => t = "ClientboundLoginSuccess"
      /\ p.wire = "finish_configuration" => t = "ClientboundFinishConfiguration"
      /\ Final(p) => t = "ClientboundDisconnect"
      /\ p.wire = "keep_alive" => t = "ClientboundKeepAlive"
      /\ p.wire = "chat" => t \in {"ServerboundChatMessage", ErrUnknownPacket}
  BY <1>1, DecodesTo
<1>3. /\ t = "ClientboundLoginSuccess" =>
           step[1] = IF Version >= V1_20_2 THEN "Configuration" ELSE "Play"
      /\ t = "ClientboundFinishConfiguration" => step[1] = "Play"
      /\ t # "ClientboundDisconnect"
      /\ t \in {"ClientboundKeepAlive", "ServerboundChatMessage", ErrUnknownPacket} => step[1] = p.state
  <2>1. p.state \in States
    BY DEF Proper, States
  <2> QED BY <1>1, <2>1, StepsTo
<1>4. ~Final(p)
  BY <1>2, <1>3
<1>5. CASE p.wire = "success"
  BY <1>2, <1>3, <1>4, <1>5 DEF After
<1>6. CASE p.wire = "finish_configuration"
  BY <1>2, <1>3, <1>4, <1>6 DEF After
<1>7. CASE p.wire = "keep_alive" \/ p.wire = "chat"
  <2>1. step[1] = p.state
    BY <1>2, <1>3, <1>7
  <2> QED BY <1>4, <1>7, <2>1 DEF After
<1> QED BY <1>4, <1>5, <1>6, <1>7 DEF Proper, Final

\* Join succeeds in the play state.
LEMMA JoinedInPlay ==
  ASSUME NEW s \in States, NEW type, NEW step \in JoinSteps(s, type), step[2] = "channel"
  PROVE  step[1] = "Play"
<1>2. Version \in Nat /\ V1_20_2 \in Nat /\ V1_21_3 \in Nat
  BY ClientAssumption
     DEF V1_20_2, V1_21_3, Versions, First, Latest, V1_7, V1_21_11
<1>3. CASE type = "ClientboundLoginSuccess" /\ Version < V1_20_2
  BY <1>3 DEF JoinSteps
<1>4. CASE type = "ClientboundLoginSuccess" /\ Version >= V1_20_2
  BY <1>2, <1>4 DEF JoinSteps
<1>5. CASE type = "ClientboundFinishConfiguration"
  BY <1>2, <1>5 DEF JoinSteps
<1>6. CASE type \in {"ClientboundDisconnect", ReadError, ErrUnknownPacket}
  BY <1>6 DEF JoinSteps, ReadError, ErrUnknownPacket
<1>7. CASE type \notin {"ClientboundLoginSuccess", "ClientboundFinishConfiguration",
                        "ClientboundDisconnect", ReadError, ErrUnknownPacket}
  BY <1>7 DEF JoinSteps
<1> QED BY <1>2, <1>3, <1>4, <1>5, <1>6, <1>7

\* What a step leaves alone at a connection, and at its reader and its channel.
LEMMA SameEcho ==
  ASSUME NEW k \in Gens, Echo(k),
         net'[k] = "open" => net[k] = "open",
         inbox'[k] = inbox[k], connState'[k] = connState[k], server'[k] = server[k],
         packets'[k] = packets[k], replies'[k] = replies[k],
         KeepAlives(k)' = KeepAlives(k),
         \A i \in KeepAlives(k) : events'[k][i] = events[k][i],
         InHand(k)' = InHand(k),
         InHand(k) => packet'[k] = packet[k],
         reader'[k] = "reply" => reader[k] = "reply" /\ packet'[k] = packet[k],
         Followed(k)' => Followed(k)
  PROVE  Echo(k)'
<1> SUFFICES ASSUME net[k] = "open"
             PROVE  Numbered(k)' /\ Matched(k)' /\ (Followed(k)' => Chain(k)' /\ Sequenced(k)')
  BY DEF Echo
<1>1. Numbered(k)'
  BY DEF Echo, Numbered
<1>2. Answered(k)' = Answered(k)
  BY DEF Answered
<1>3. Told(k)' = Told(k)
  BY DEF Told
<1>4. Matched(k)'
  <2>1. Matched(k)
    BY DEF Echo
  <2> QED BY <1>2, <1>3, <2>1 DEF Matched
<1>5. ASSUME Followed(k)' PROVE Chain(k)' /\ Sequenced(k)'
  <2>1. Chain(k) /\ Sequenced(k)
    BY <1>5 DEF Echo
  <2>2. Chain(k)'
    BY <2>1 DEF Chain
  <2>3. \A n : Earlier(k, n)' <=> Earlier(k, n)
    BY DEF Earlier
  <2>4. Sequenced(k)'
    BY <1>2, <2>1 DEF Sequenced, Earlier
  <2> QED BY <2>2, <2>4
<1> QED BY <1>1, <1>4, <1>5

\* The same of its life.
LEMMA SameIdle ==
  ASSUME NEW k \in Gens, Idle(k),
         reader'[k] = "unstarted" <=> reader[k] = "unstarted",
         connState'[k] = connState[k],
         reader[k] = "unstarted" => replies'[k] = replies[k] /\ KeepAlives(k)' = KeepAlives(k),
         app' \in {"channel", "spawn"} /\ dialled' = k => app \in {"channel", "spawn"} /\ dialled = k,
         k > dialled' => k > dialled /\ (net'[k] = "open" => net[k] = "open") /\ inbox'[k] = inbox[k],
         server'[k] = "Configuration" => server[k] = "Configuration" \/ Version >= V1_20_2
  PROVE  Idle(k)'
BY DEF Idle

\* A packet leaves the inbox of a connection that follows the server.
LEMMA TailEcho ==
  ASSUME NEW k \in Gens, ConnTypes, Chain(k), Numbered(k), inbox[k] # <<>>,
         inbox'[k] = Tail(inbox[k]), server'[k] = server[k], packets'[k] = packets[k]
  PROVE  /\ (~Final(Head(inbox[k])) => connState'[k] = After(Head(inbox[k]))) => Chain(k)'
         /\ Numbered(k)'
         /\ \A n : Earlier(k, n) => Earlier(k, n)'
         /\ \A n : Head(inbox[k]).wire = "keep_alive" /\ n = Head(inbox[k]).id => Earlier(k, n)'
<1>1. inbox[k] \in Seq(SentPackets)
  BY DEF ConnTypes
<1> DEFINE s == inbox[k]
           m == Len(s)
<1>2. /\ m \in Nat /\ m > 0 /\ Head(s) = s[1] /\ DOMAIN s = 1 .. m
      /\ Len(Tail(s)) = m - 1 /\ DOMAIN Tail(s) = 1 .. m - 1
      /\ \A i \in 1 .. m - 1 : Tail(s)[i] = s[i + 1]
      /\ Tail(s) \in Seq(SentPackets)
  BY <1>1, TailFacts
<1>3. /\ \A i \in 1 .. m : Proper(s[i])
      /\ s[1].state = connState[k]
      /\ \A i \in 1 .. m - 1 : s[i + 1].state = After(s[i]) /\ ~Final(s[i])
      /\ server[k] # "gone" => server[k] = After(s[m]) /\ ~Final(s[m])
  BY <1>2 DEF Chain
<1>4. /\ \A i \in 1 .. m : s[i].id <= packets[k]
      /\ \A i, j \in 1 .. m :
           i < j /\ s[i].wire = "keep_alive" /\ s[j].wire = "keep_alive" => s[i].id < s[j].id
  BY <1>2 DEF Numbered
<1>5. inbox'[k] = Tail(s)
  OBVIOUS
<1> HIDE DEF s, m
<1>6. \A i \in 1 .. m - 1 : i + 1 \in 1 .. m /\ Tail(s)[i] = s[i + 1]
  BY <1>2
<1>7. Tail(s) = <<>> <=> m = 1
  <2>1. PICK t \in Seq(SentPackets) : t = Tail(s)
    BY <1>2
  <2>2. t = <<>> <=> Len(t) = 0
    OBVIOUS
  <2> QED BY <1>2, <2>1, <2>2
<1>8. ASSUME ~Final(s[1]) => connState'[k] = After(s[1]) PROVE Chain(k)'
  <2>1. \A i \in DOMAIN Tail(s) : Proper(Tail(s)[i])
    BY <1>2, <1>3, <1>6
  <2>2. Tail(s) # <<>> => Tail(s)[1].state = connState'[k]
    <3> SUFFICES ASSUME m # 1 PROVE Tail(s)[1].state = connState'[k]
      BY <1>7
    <3>1. 1 \in 1 .. m - 1
      BY <1>2
    <3> QED BY <1>3, <1>6, <1>8, <3>1
  <2>3. ASSUME NEW i \in 1 .. Len(Tail(s)) - 1
        PROVE  Tail(s)[i + 1].state = After(Tail(s)[i]) /\ ~Final(Tail(s)[i])
    <3>1. i \in 1 .. m - 1 /\ i + 1 \in 1 .. m - 1
      BY <1>2, <2>3
    <3>2. Tail(s)[i] = s[i + 1] /\ Tail(s)[i + 1] = s[(i + 1) + 1]
      BY <1>6, <3>1
    <3> QED BY <1>3, <3>1, <3>2
  <2>4. server[k] # "gone" =>
          IF Tail(s) = <<>> THEN server[k] = connState'[k]
          ELSE server[k] = After(Tail(s)[Len(Tail(s))]) /\ ~Final(Tail(s)[Len(Tail(s))])
    <3>1. CASE m = 1
      BY <1>2, <1>3, <1>7, <1>8, <3>1
    <3>2. CASE m # 1
      <4>1. m - 1 \in 1 .. m - 1 /\ (m - 1) + 1 = m
        BY <1>2, <3>2
      <4>2. Tail(s)[Len(Tail(s))] = s[m]
        BY <1>2, <1>6, <4>1
      <4> QED BY <1>3, <1>7, <3>2, <4>2
    <3> QED BY <3>1, <3>2
  <2> QED BY <1>5, <2>1, <2>2, <2>3, <2>4 DEF Chain
<1>9. Numbered(k)'
  <2>1. \A i \in 1 .. m - 1 : Tail(s)[i].id <= packets[k]
    BY <1>4, <1>6
  <2>2. ASSUME NEW i \in 1 .. m - 1, NEW j \in 1 .. m - 1, i < j,
               Tail(s)[i].wire = "keep_alive", Tail(s)[j].wire = "keep_alive"
        PROVE  Tail(s)[i].id < Tail(s)[j].id
    <3>1. i + 1 \in 1 .. m /\ j + 1 \in 1 .. m /\ i + 1 < j + 1
      BY <1>2, <2>2
    <3> QED BY <1>4, <1>6, <2>2, <3>1
  <2> QED BY <1>2, <1>5, <2>1, <2>2 DEF Numbered
<1>10. ASSUME NEW n, Earlier(k, n) PROVE Earlier(k, n)'
  <2>1. n <= packets[k] /\ \A i \in DOMAIN s : s[i].wire = "keep_alive" => n < s[i].id
    BY <1>10 DEF Earlier, s
  <2>2. \A i \in DOMAIN Tail(s) : Tail(s)[i].wire = "keep_alive" => n < Tail(s)[i].id
    BY <1>2, <1>6, <2>1
  <2> QED BY <1>5, <2>1, <2>2 DEF Earlier
<1>11. ASSUME s[1].wire = "keep_alive", NEW n, n = s[1].id PROVE Earlier(k, n)'
  <2>1. \A i \in DOMAIN Tail(s) : Tail(s)[i].wire = "keep_alive" => n < Tail(s)[i].id
    <3> SUFFICES ASSUME NEW i \in 1 .. m - 1, s[i + 1].wire = "keep_alive" PROVE n < s[i + 1].id
      BY <1>2, <1>6
    <3>1. 1 \in 1 .. m /\ i + 1 \in 1 .. m /\ 1 < i + 1
      BY <1>2
    <3> QED BY <1>4, <1>11, <3>1
  <2>2. n <= packets[k]
    BY <1>2, <1>4, <1>11
  <2> QED BY <1>5, <2>1, <2>2 DEF Earlier
<1> QED BY <1>2, <1>8, <1>9, <1>10, <1>11 DEF s

\* What an event adds to the keep-alives of a channel.
LEMMA EventAppended ==
  ASSUME NEW k \in Gens, ChanTypes, NEW e \in Events, events'[k] = Append(events[k], e)
  PROVE  LET n == Len(events[k]) + 1
         IN  /\ events'[k][n] = e
             /\ \A i \in KeepAlives(k) : events'[k][i] = events[k][i] /\ i < n
             /\ e.type # "KeepAlive" => KeepAlives(k)' = KeepAlives(k)
             /\ e.type = "KeepAlive" => /\ KeepAlives(k)' = KeepAlives(k) \cup {n}
                                        /\ Told(k)' = Told(k) \cup {e.id}
<1> DEFINE n == Len(events[k]) + 1
<1>1. /\ Len(events[k]) \in Nat /\ DOMAIN events[k] = 1 .. Len(events[k])
      /\ DOMAIN events'[k] = 1 .. n
      /\ \A i \in 1 .. Len(events[k]) : events'[k][i] = events[k][i]
      /\ events'[k][n] = e
  BY AppendFacts DEF ChanTypes
<1>2. 1 .. n = 1 .. Len(events[k]) \cup {n}
  BY <1>1
<1>3. \A i \in DOMAIN events[k] : events'[k][i] = events[k][i] /\ i < n
  BY <1>1
<1> HIDE DEF n
<1>4. \A i \in KeepAlives(k) : events'[k][i] = events[k][i] /\ i < n
  BY <1>3 DEF KeepAlives
<1>5. ASSUME e.type # "KeepAlive" PROVE KeepAlives(k)' = KeepAlives(k)
  BY <1>1, <1>2, <1>3, <1>5 DEF KeepAlives
<1>6. ASSUME e.type = "KeepAlive" PROVE KeepAlives(k)' = KeepAlives(k) \cup {n}
  BY <1>1, <1>2, <1>3, <1>6 DEF KeepAlives
<1>7. ASSUME e.type = "KeepAlive" PROVE Told(k)' = Told(k) \cup {e.id}
  BY <1>1, <1>4, <1>6, <1>7 DEF Told
<1> QED BY <1>1, <1>4, <1>5, <1>6, <1>7 DEF n

\* A reply comes after the earlier ones.
LEMMA ReplyAppended ==
  ASSUME NEW k \in Gens, ConnTypes, NEW n \in Nat, replies'[k] = Append(replies[k], n),
         \A a \in Answered(k) : a < n,
         \A i, j \in DOMAIN replies[k] : i < j => replies[k][i] < replies[k][j]
  PROVE  /\ Answered(k)' = Answered(k) \cup {n}
         /\ (\A i, j \in DOMAIN replies[k] : i < j => replies[k][i] < replies[k][j])'
<1> DEFINE m == Len(replies[k])
<1>1. /\ m \in Nat /\ DOMAIN replies[k] = 1 .. m /\ DOMAIN replies'[k] = 1 .. m + 1
      /\ \A i \in 1 .. m : replies'[k][i] = replies[k][i]
      /\ replies'[k][m + 1] = n
  BY AppendFacts DEF ConnTypes
<1> HIDE DEF m
<1>2. 1 .. m + 1 = 1 .. m \cup {m + 1}
  BY <1>1
<1>3. Answered(k)' = Answered(k) \cup {n}
  BY <1>1, <1>2 DEF Answered
<1>4. ASSUME NEW i \in 1 .. m + 1, NEW j \in 1 .. m + 1, i < j
      PROVE  replies'[k][i] < replies'[k][j]
  <2>1. i \in 1 .. m
    BY <1>1, <1>4
  <2>2. replies'[k][i] = replies[k][i] /\ replies[k][i] \in Answered(k)
    BY <1>1, <2>1 DEF Answered
  <2>3. CASE j \in 1 .. m
    BY <1>1, <1>4, <2>1, <2>3
  <2>4. CASE j = m + 1
    BY <1>1, <2>2, <2>4
  <2> QED BY <1>2, <2>3, <2>4
<1> QED BY <1>1, <1>3, <1>4

\* There is always an answer to a keep-alive.
LEMMA AnswersKeepAlives == HasPacketID(Version, "Play", "Serverbound", "ServerboundKeepAlive")
<1>1. <<"keep_alive", "ServerboundKeepAlive">> \in Registered(Version, "Play", "Serverbound")
  BY DEF Registered, PlayServerbound
<1>2. "ServerboundKeepAlive" \in packetConstructors
  BY DEF packetConstructors
<1> QED BY <1>1, <1>2 DEF HasPacketID

\* What ReadPacket yields while the connection follows the server.
LEMMA ReadsHead ==
  ASSUME NEW k \in Gens, TypeOK, net[k] = "open", Readable(k), Chain(k)
  PROVE  /\ inbox[k] # <<>> /\ RestOfInbox(k) = Tail(inbox[k])
         /\ Proper(Head(inbox[k])) /\ Head(inbox[k]).state = connState[k]
         /\ ReadResults(k) =
              {[type |-> NewPacket(Version, connState[k], "Clientbound", Head(inbox[k]).wire),
                id   |-> Head(inbox[k]).id]}
<1>1. inbox[k] # <<>> /\ ~Drained(k)
  BY DEF Readable, Drained
<1>2. inbox[k] \in Seq(SentPackets)
  BY DEF TypeOK, ConnTypes
<1>3. Head(inbox[k]) = inbox[k][1] /\ 1 \in DOMAIN inbox[k]
  BY <1>1, <1>2
<1>4. Proper(Head(inbox[k])) /\ Head(inbox[k]).state = connState[k]
  BY <1>1, <1>3 DEF Chain
<1>5. PICK p : p = Head(inbox[k])
  OBVIOUS
<1>6. Decode(k, p) = {NewPacket(Version, connState[k], "Clientbound", p.wire)}
  BY <1>4, <1>5 DEF Decode
<1>7. ReadResults(k) = {[type |-> NewPacket(Version, connState[k], "Clientbound", p.wire), id |-> p.id]}
  BY <1>1, <1>5, <1>6 DEF ReadResults
<1> QED BY <1>1, <1>4, <1>5, <1>7 DEF RestOfInbox

\* At a connection that is not the reader's own a step of a reader changes
\* nothing.
LEMMA ReaderElsewhere ==
  ASSUME EchoInv, NEW r \in Gens, Reader(r), NEW k \in Gens, k # r
  PROVE  Echo(k)' /\ Idle(k)'
<1>0. Active(r) => Bound(r)
  BY DEF EchoInv, CarefulInv, Guarded
<1>1. /\ reader \in [Gens -> ReaderPlaces] /\ packet \in [Gens -> ReadPackets]
      /\ inbox \in [Gens -> Seq(SentPackets)] /\ replies \in [Gens -> Seq(Nat)]
      /\ events \in [Gens -> Seq(Events)]
  BY DEF EchoInv, CarefulInv, TypeInv, TypeOK, ReaderTypes, ConnTypes, ChanTypes
<1>2. /\ net' = net /\ connState' = connState /\ server' = server /\ packets' = packets
      /\ dialled' = dialled /\ app' = app
  BY DEF Reader, ReaderSelect, ReaderLoad, ReaderLock, ReaderRead, ReaderReply, ReaderNotify,
         ReaderSend, ReaderCancel, ReaderReturn, Crash, connVars, appVars
<1>3. reader'[k] = reader[k]
  BY <1>1 DEF Reader, ReaderSelect, ReaderLoad, ReaderLock, ReaderRead, ReaderReply, ReaderNotify,
              ReaderSend, ReaderCancel, ReaderReturn, Crash, readerVars
<1>4. packet'[k] = packet[k]
  BY <1>1 DEF Reader, ReaderSelect, ReaderLoad, ReaderLock, ReaderRead, ReaderReply, ReaderNotify,
              ReaderSend, ReaderCancel, ReaderReturn, Crash, readerVars
<1>5. inbox'[k] = inbox[k]
  <2>1. CASE ReaderRead(r)
    <3>1. readConn[r] = r
      BY <1>0, <2>1 DEF ReaderRead, Active, Bound
    <3> QED BY <1>1, <2>1, <3>1 DEF ReaderRead
  <2>2. CASE ~ReaderRead(r)
    BY <2>2 DEF Reader, ReaderSelect, ReaderLoad, ReaderLock, ReaderReply, ReaderNotify,
                ReaderSend, ReaderCancel, ReaderReturn, Crash, connVars
  <2> QED BY <2>1, <2>2
<1>6. replies'[k] = replies[k]
  <2>1. CASE ReaderReply(r)
    <3>1. conn = r
      BY <1>0, <2>1 DEF ReaderReply, Active, Bound
    <3> QED BY <1>1, <2>1, <3>1 DEF ReaderReply, Crash, connVars
  <2>2. CASE ~ReaderReply(r)
    BY <2>2 DEF Reader, ReaderSelect, ReaderLoad, ReaderLock, ReaderRead, ReaderNotify,
                ReaderSend, ReaderCancel, ReaderReturn, Crash, connVars
  <2> QED BY <2>1, <2>2
<1>7. events'[k] = events[k]
  <2>1. CASE ReaderSend(r)
    <3>1. target[r] = r
      BY <1>0, <2>1 DEF ReaderSend, Active, Bound
    <3> QED BY <1>1, <2>1, <3>1 DEF ReaderSend, Crash, chanVars
  <2>2. CASE ~ReaderSend(r)
    BY <2>2 DEF Reader, ReaderSelect, ReaderLoad, ReaderLock, ReaderRead, ReaderReply, ReaderNotify,
                ReaderCancel, ReaderReturn, Crash, chanVars
  <2> QED BY <2>1, <2>2
<1>8. KeepAlives(k)' = KeepAlives(k) /\ InHand(k)' = InHand(k) /\ (Followed(k)' => Followed(k))
  BY <1>2, <1>3, <1>4, <1>7 DEF KeepAlives, InHand, Followed
<1>9. Echo(k) /\ Idle(k)
  BY DEF EchoInv
<1>10. Echo(k)'
  BY <1>2, <1>3, <1>4, <1>5, <1>6, <1>7, <1>8, <1>9, SameEcho
<1>11. Idle(k)'
  BY <1>2, <1>3, <1>5, <1>6, <1>8, <1>9, SameIdle
<1> QED BY <1>10, <1>11

\* The steps of a reader at its own connection.
LEMMA ReaderEcho ==
  ASSUME EchoInv, NEW r \in Gens, Reader(r)
  PROVE  Echo(r)' /\ Idle(r)'
<1>0. Active(r) => Bound(r)
  BY DEF EchoInv, CarefulInv, Guarded
<1>1. /\ reader \in [Gens -> ReaderPlaces] /\ packet \in [Gens -> ReadPackets]
      /\ inbox \in [Gens -> Seq(SentPackets)] /\ replies \in [Gens -> Seq(Nat)]
      /\ events \in [Gens -> Seq(Events)] /\ TypeOK /\ ConnTypes
  BY DEF EchoInv, CarefulInv, TypeInv, TypeOK, ReaderTypes, ConnTypes, ChanTypes
<1>2. /\ net' = net /\ connState' = connState /\ server' = server /\ packets' = packets
      /\ dialled' = dialled /\ app' = app
  BY DEF Reader, ReaderSelect, ReaderLoad, ReaderLock, ReaderRead, ReaderReply, ReaderNotify,
         ReaderSend, ReaderCancel, ReaderReturn, Crash, connVars, appVars
<1>3. reader[r] # "unstarted" /\ Followed(r)
  BY DEF Reader, ReaderSelect, ReaderLoad, ReaderLock, ReaderRead, ReaderReply, ReaderNotify,
         ReaderSend, ReaderCancel, ReaderReturn, Followed
<1>4. reader'[r] # "unstarted"
  <2>1. CASE Crash("nil connection") \/ Crash("send on closed channel")
    BY <1>3, <2>1 DEF Crash, readerVars
  <2>2. CASE ReaderSelect(r) \/ ReaderLock(r) \/ ReaderCancel(r) \/ ReaderReturn(r)
    BY <1>1, <2>2 DEF ReaderSelect, ReaderLock, ReaderCancel, ReaderReturn
  <2>3. CASE (ReaderLoad(r) \/ ReaderReply(r)) /\ ~Crash("nil connection")
    BY <1>1, <2>3 DEF ReaderLoad, ReaderReply
  <2>4. CASE ReaderRead(r)
    BY <1>1, <2>4, AfterPlaces DEF ReaderRead
  <2>5. CASE ReaderNotify(r)
    BY <1>1, <2>5, AfterPlaces DEF ReaderNotify
  <2>6. CASE ReaderSend(r) /\ ~Crash("send on closed channel")
    BY <1>1, <2>6, AfterPlaces DEF ReaderSend
  <2> QED BY <2>1, <2>2, <2>3, <2>4, <2>5, <2>6 DEF Reader
<1>5. Echo(r) /\ Idle(r) /\ connState[r] = "Play"
  BY <1>3 DEF EchoInv, Idle
<1>6. r <= dialled
  BY <1>3 DEF EchoInv, CarefulInv, TypeInv, Living, Gens, TypeOK, ConnTypes
<1>7. Idle(r)'
  <2>1. ~(r > dialled)
    BY <1>1, <1>6 DEF ConnTypes, Gens
  <2> QED BY <1>2, <1>3, <1>4, <1>5, <2>1, SameIdle
<1> SUFFICES Echo(r)'
  BY <1>7
<1>8. ASSUME inbox'[r] = inbox[r], replies'[r] = replies[r], events' = events,
             InHand(r)' = InHand(r), InHand(r) => packet'[r] = packet[r],
             reader'[r] = "reply" => reader[r] = "reply" /\ packet'[r] = packet[r]
      PROVE  Echo(r)'
  <2>1. KeepAlives(r)' = KeepAlives(r)
    BY <1>8 DEF KeepAlives
  <2> QED BY <1>2, <1>3, <1>5, <1>8, <2>1, SameEcho
<1>9. CASE Crash("nil connection") \/ Crash("send on closed channel")
  <2>1. inbox' = inbox /\ replies' = replies /\ events' = events /\ reader' = reader /\ packet' = packet
    BY <1>9 DEF Crash, connVars, chanVars, readerVars
  <2> QED BY <1>8, <2>1 DEF InHand
<1>10. CASE ReaderSelect(r) \/ ReaderLock(r) \/ ReaderCancel(r) \/ ReaderReturn(r)
            \/ (ReaderLoad(r) /\ ~Crash("nil connection"))
  <2>1. inbox' = inbox /\ replies' = replies /\ events' = events /\ packet' = packet
    BY <1>10 DEF ReaderSelect, ReaderLock, ReaderCancel, ReaderReturn, ReaderLoad, connVars, chanVars
  <2>2. /\ reader[r] \notin {"notify", "send"}
        /\ reader'[r] \notin {"notify", "send", "reply"}
    BY <1>1, <1>10 DEF ReaderSelect, ReaderLock, ReaderCancel, ReaderReturn, ReaderLoad
  <2> QED BY <1>8, <2>1, <2>2 DEF InHand
<1>11. CASE ReaderNotify(r)
  <2>1. reader[r] = "notify" /\ eventChan # Nil
    BY <1>0, <1>11 DEF ReaderNotify, Active, Bound, Gens, Nil
  <2>2. reader'[r] = "send"
    BY <1>1, <1>11, <2>1 DEF ReaderNotify
  <2>3. inbox' = inbox /\ replies' = replies /\ events' = events /\ packet' = packet
    BY <1>11 DEF ReaderNotify, connVars, chanVars
  <2> QED BY <1>8, <2>1, <2>2, <2>3 DEF InHand
<1>12. CASE ReaderRead(r)
  <2>1. reader[r] = "read" /\ readConn[r] = r /\ Readable(r)
    BY <1>0, <1>12 DEF ReaderRead, Active, Bound
  <2>2. PICK p \in ReadResults(r) :
          packet' = [packet EXCEPT ![r] = p] /\ reader' = [reader EXCEPT ![r] = AfterRead(p.type)]
    BY <1>12, <2>1 DEF ReaderRead
  <2>3. inbox' = [inbox EXCEPT ![r] = RestOfInbox(r)] /\ replies' = replies /\ events' = events
    BY <1>12, <2>1 DEF ReaderRead, chanVars
  <2>4. SUFFICES ASSUME net[r] = "open"
                 PROVE  Numbered(r)' /\ Matched(r)' /\ Chain(r)' /\ Sequenced(r)'
    BY <1>2 DEF Echo
  <2>5. Numbered(r) /\ Matched(r) /\ Chain(r) /\ Sequenced(r)
    BY <1>3, <1>5, <2>4 DEF Echo
  <2>6. PICK h : h = Head(inbox[r])
    OBVIOUS
  <2>7. /\ inbox[r] # <<>> /\ RestOfInbox(r) = Tail(inbox[r])
        /\ Proper(h) /\ h.state = "Play"
        /\ p = [type |-> NewPacket(Version, h.state, "Clientbound", h.wire), id |-> h.id]
    BY <1>1, <1>5, <2>1, <2>2, <2>4, <2>5, <2>6, ReadsHead
  <2>8. /\ Final(h) => p.type = "ClientboundDisconnect"
        /\ h.wire = "keep_alive" => p.type = "ClientboundKeepAlive"
        /\ h.wire = "chat" => p.type \in {"ServerboundChatMessage", ErrUnknownPacket}
        /\ h.wire \in {"keep_alive", "chat", "kick_disconnect"}
    <3>1. h.wire \in {"keep_alive", "chat", "kick_disconnect"}
      BY <2>7 DEF Proper
    <3>2. p.type = NewPacket(Version, h.state, "Clientbound", h.wire)
      BY <2>7
    <3> QED BY <2>7, <3>1, <3>2, DecodesTo
  <2>9. AfterRead(p.type) = "reply" <=> h.wire = "keep_alive"
    BY <2>8 DEF AfterRead, Final, ErrUnknownPacket, ReadError
  <2>10. AfterRead(p.type) \in {"notify", "send"} => p.type # "ClientboundKeepAlive"
    BY DEF AfterRead, ReadError
  <2>11. reader'[r] = AfterRead(p.type) /\ packet'[r] = p /\ p.id = h.id
    BY <1>1, <2>2, <2>7
  <2>12. ~InHand(r) /\ ~InHand(r)'
    BY <2>1, <2>10, <2>11 DEF InHand
  <2>13. inbox'[r] = Tail(inbox[r])
    BY <1>1, <2>3, <2>7
  <2>14. ~Final(h) => connState'[r] = After(h)
    BY <1>2, <1>5, <2>7, <2>8 DEF After, Final
  <2>15. /\ Chain(r)' /\ Numbered(r)'
         /\ \A n : Earlier(r, n) => Earlier(r, n)'
         /\ \A n : h.wire = "keep_alive" /\ n = h.id => Earlier(r, n)'
    BY <1>1, <1>2, <2>5, <2>6, <2>7, <2>13, <2>14, TailEcho
  <2>16. Answered(r)' = Answered(r) /\ Told(r)' = Told(r) /\ KeepAlives(r)' = KeepAlives(r)
    BY <2>3 DEF Answered, Told, KeepAlives
  <2>17. Matched(r)'
    BY <2>3, <2>5, <2>12, <2>16 DEF Matched
  <2>18. Sequenced(r)'
    <3>1. \A n \in Answered(r) : Earlier(r, n)
      BY <2>5 DEF Sequenced
    <3>2. ASSUME reader'[r] = "reply"
          PROVE  (Earlier(r, packet[r].id))' /\ \A n \in Answered(r) : n < h.id
      <4>1. h.wire = "keep_alive"
        BY <2>9, <2>11, <3>2
      <4>2. Earlier(r, packet[r].id)'
        <5>1. PICK n : n = h.id
          OBVIOUS
        <5>2. Earlier(r, n)' /\ packet'[r].id = n
          BY <2>11, <2>15, <4>1, <5>1
        <5> QED BY <5>2 DEF Earlier
      <4>3. 1 \in DOMAIN inbox[r] /\ inbox[r][1] = h
        BY <1>1, <2>6, <2>7
      <4> QED BY <3>1, <4>1, <4>2, <4>3 DEF Earlier
    <3>3. \A n \in Answered(r)' : Earlier(r, n)'
      BY <2>15, <2>16, <3>1
    <3> QED BY <2>11, <2>16, <3>2, <3>3 DEF Sequenced, Earlier
  <2> QED BY <2>15, <2>17, <2>18
<1>13. CASE ReaderReply(r) /\ ~Crash("nil connection")
  <2>1. reader[r] = "reply" /\ conn = r /\ packet[r].type = "ClientboundKeepAlive"
    BY <1>0, <1>13 DEF ReaderReply, Active, Bound
  <2>2. r # Nil
    BY DEF Gens, Nil
  <2>3. SUFFICES ASSUME net[r] = "open"
                 PROVE  Numbered(r)' /\ Matched(r)' /\ Chain(r)' /\ Sequenced(r)'
    BY <1>2 DEF Echo
  <2>4. Numbered(r) /\ Matched(r) /\ Chain(r) /\ Sequenced(r)
    BY <1>3, <1>5, <2>3 DEF Echo
  <2>5. WriteResults(r, "Play", "ServerboundKeepAlive") = {TRUE}
    BY <2>3, AnswersKeepAlives DEF WriteResults
  <2>6. PICK n : n = packet[r].id
    OBVIOUS
  <2>7. /\ replies' = [replies EXCEPT ![r] = Append(@, n)]
        /\ reader' = [reader EXCEPT ![r] = "notify"]
        /\ inbox' = inbox /\ events' = events /\ packet' = packet
    <3>1. PICK ok \in WriteResults(r, connState[r], "ServerboundKeepAlive") :
            replies' = IF ok THEN [replies EXCEPT ![r] = Append(@, packet[r].id)] ELSE replies
      BY <1>13, <2>1, <2>2 DEF ReaderReply
    <3>2. ok = TRUE
      BY <1>5, <2>5, <3>1
    <3>3. /\ reader' = [reader EXCEPT ![r] = "notify"]
          /\ inbox' = inbox /\ events' = events /\ packet' = packet
      BY <1>13, <2>1, <2>2 DEF ReaderReply, chanVars
    <3> QED BY <2>6, <3>1, <3>2, <3>3
  <2>8. n \in Nat
    BY <1>1, <2>6 DEF ReadPackets
  <2>9. ~InHand(r) /\ InHand(r)' /\ reader'[r] # "reply" /\ replies'[r] = Append(replies[r], n)
    BY <1>1, <2>1, <2>7 DEF InHand
  <2>10. Told(r)' = Told(r) /\ KeepAlives(r)' = KeepAlives(r)
    BY <2>7 DEF Told, KeepAlives
  <2>11. Earlier(r, n) /\ \A a \in Answered(r) : Earlier(r, a) /\ a < n
    BY <2>1, <2>4, <2>6 DEF Sequenced
  <2>12. Answered(r) = Told(r)
    BY <2>4, <2>9 DEF Matched
  <2>13. \A i, j \in DOMAIN replies[r] : i < j => replies[r][i] < replies[r][j]
    BY <2>4 DEF Matched
  <2>14. /\ Answered(r)' = Answered(r) \cup {n}
         /\ (\A i, j \in DOMAIN replies[r] : i < j => replies[r][i] < replies[r][j])'
    BY <1>1, <2>8, <2>9, <2>11, <2>13, ReplyAppended
  <2>15. Matched(r)'
    <3>1. packet'[r].id = n
      BY <2>6, <2>7
    <3>2. (\A i, j \in KeepAlives(r) : i < j => events[r][i].id < events[r][j].id)'
      BY <2>4, <2>7, <2>10 DEF Matched
    <3> QED BY <2>9, <2>10, <2>11, <2>12, <2>14, <3>1, <3>2 DEF Matched
  <2>16. Sequenced(r)'
    BY <1>2, <2>7, <2>9, <2>11, <2>14 DEF Sequenced, Earlier
  <2>17. Chain(r)' /\ Numbered(r)'
    BY <1>2, <2>4, <2>7 DEF Chain, Numbered
  <2> QED BY <2>15, <2>16, <2>17
<1>14. CASE ReaderSend(r) /\ ~Crash("send on closed channel")
  <2>1. /\ reader[r] = "send" /\ target[r] = r
        /\ packet[r].type \in {"ClientboundKeepAlive", "ClientboundChatMessage",
                               "ClientboundDisconnect", ReadError}
    BY <1>0, <1>14 DEF ReaderSend, Active, Bound
  <2>2. PICK e : e = Event(packet[r])
    OBVIOUS
  <2>3. /\ events' = [events EXCEPT ![r] = Append(@, e)]
        /\ reader' = [reader EXCEPT ![r] = AfterEvent(packet[r].type)]
        /\ inbox' = inbox /\ replies' = replies /\ packet' = packet
    BY <1>14, <2>1, <2>2 DEF ReaderSend, connVars
  <2>4. e \in Events
    BY <1>1, <2>1, <2>2 DEF Event, Events, ReadPackets
  <2>5. reader'[r] \notin {"notify", "send", "reply"}
    BY <1>1, <2>3 DEF AfterEvent
  <2>6. ~InHand(r)'
    BY <2>5 DEF InHand
  <2>7. events'[r] = Append(events[r], e)
    BY <1>1, <2>3
  <2>8. PICK n : n = Len(events[r]) + 1
    OBVIOUS
  <2>9. /\ events'[r][n] = e
        /\ \A i \in KeepAlives(r) : events'[r][i] = events[r][i] /\ i < n
        /\ e.type # "KeepAlive" => KeepAlives(r)' = KeepAlives(r)
        /\ e.type = "KeepAlive" =>
             KeepAlives(r)' = KeepAlives(r) \cup {n} /\ Told(r)' = Told(r) \cup {e.id}
    BY <1>1, <2>4, <2>7, <2>8, EventAppended DEF TypeOK
  <2>10. CASE packet[r].type # "ClientboundKeepAlive"
    <3>1. e.type # "KeepAlive"
      BY <2>2, <2>10 DEF Event
    <3>2. InHand(r)' = InHand(r)
      BY <2>5, <2>10 DEF InHand
    <3> QED BY <1>2, <1>3, <1>5, <2>3, <2>5, <2>9, <3>1, <3>2, SameEcho
  <2>11. CASE packet[r].type = "ClientboundKeepAlive"
    <3>1. e.type = "KeepAlive" /\ e.id = packet[r].id
      BY <2>2, <2>11 DEF Event
    <3>2. InHand(r)
      BY <2>1, <2>11 DEF InHand
    <3>3. SUFFICES ASSUME net[r] = "open"
                   PROVE  Numbered(r)' /\ Matched(r)' /\ Chain(r)' /\ Sequenced(r)'
      BY <1>2 DEF Echo
    <3>4. Numbered(r) /\ Matched(r) /\ Chain(r) /\ Sequenced(r)
      BY <1>3, <1>5, <3>3 DEF Echo
    <3>5. Answered(r)' = Answered(r)
      BY <2>3 DEF Answered
    <3>6. Sequenced(r)'
      BY <1>2, <2>3, <2>5, <3>4, <3>5 DEF Sequenced, Earlier
    <3>7. Chain(r)' /\ Numbered(r)'
      BY <1>2, <2>3, <3>4 DEF Chain, Numbered
    <3>8. Answered(r)' = Told(r)'
      BY <2>9, <3>1, <3>2, <3>4, <3>5 DEF Matched
    <3>9. (\A i, j \in DOMAIN replies[r] : i < j => replies[r][i] < replies[r][j])'
      BY <2>3, <3>4 DEF Matched
    <3>10. (\A i, j \in KeepAlives(r) : i < j => events[r][i].id < events[r][j].id)'
      <4>1. \A i, j \in KeepAlives(r) : i < j => events[r][i].id < events[r][j].id
        BY <3>4 DEF Matched
      <4>2. \A i \in KeepAlives(r) : events[r][i].id < e.id
        BY <3>1, <3>2, <3>4 DEF Matched, Told
      <4>3. ASSUME NEW i \in KeepAlives(r)', NEW j \in KeepAlives(r)', i < j
            PROVE  events'[r][i].id < events'[r][j].id
        <5>1. n \in Nat /\ KeepAlives(r) \subseteq Nat
          BY <1>1, <2>8 DEF KeepAlives
        <5>2. i \in KeepAlives(r)
          <6>1. i # n
            BY <2>9, <3>1, <4>3, <5>1
          <6> QED BY <2>9, <3>1, <6>1
        <5>3. CASE j \in KeepAlives(r)
          BY <2>9, <4>1, <4>3, <5>2, <5>3
        <5>4. CASE j = n
          BY <2>9, <4>2, <5>2, <5>4
        <5> QED BY <2>9, <3>1, <5>3, <5>4
      <4> QED BY <4>3
    <3>11. Matched(r)'
      BY <2>6, <3>8, <3>9, <3>10 DEF Matched
    <3> QED BY <3>6, <3>7, <3>11
  <2> QED BY <2>10, <2>11
<1> QED BY <1>9, <1>10, <1>11, <1>12, <1>13, <1>14 DEF Reader

\* A reader's step keeps the keep-alives of every connection in order.
LEMMA ReadersEcho ==
  ASSUME EchoInv, NEW r \in Gens, Reader(r), NEW k \in Gens
  PROVE  Echo(k)' /\ Idle(k)'
<1>1. CASE k = r
  BY <1>1, ReaderEcho
<1>2. CASE k # r
  BY <1>2, ReaderElsewhere
<1> QED BY <1>1, <1>2

\* A packet the server sends in its own state joins the end of the chain.
LEMMA DeliverEcho ==
  ASSUME NEW k \in Gens, ConnTypes, ReaderTypes, Echo(k), net[k] = "open",
         NEW p \in SentPackets, Proper(p), p.state = server[k],
         inbox'[k] = Append(inbox[k], p),
         server'[k] = "gone" \/ (server'[k] = After(p) /\ ~Final(p)),
         packets[k] <= packets'[k], packets'[k] \in Nat, p.id <= packets'[k],
         p.wire = "keep_alive" => p.id = packets[k] + 1,
         connState' = connState, replies' = replies, events' = events,
         reader' = reader, packet' = packet, app' = app, dialled' = dialled
  PROVE  Echo(k)'
<1> DEFINE s == inbox[k]
           m == Len(s)
<1>1. /\ m \in Nat /\ DOMAIN s = 1 .. m /\ inbox'[k] = Append(s, p)
      /\ DOMAIN Append(s, p) = 1 .. m + 1 /\ Len(Append(s, p)) = m + 1
      /\ \A i \in 1 .. m : Append(s, p)[i] = s[i]
      /\ Append(s, p)[m + 1] = p
  BY AppendFacts DEF ConnTypes
<1>2. (s = <<>> <=> m = 0) /\ Append(s, p) # <<>>
  <2>1. s \in Seq(SentPackets)
    BY DEF ConnTypes
  <2> HIDE DEF s
  <2> QED BY <2>1 DEF m
<1>3. server[k] # "gone" /\ packets[k] \in Nat
  BY DEF Proper, ConnTypes
<1>4. Numbered(k) /\ Matched(k) /\ (Followed(k) => Chain(k) /\ Sequenced(k))
  BY DEF Echo
<1>5. \A i \in 1 .. m : s[i].id \in Nat
  <2>1. s \in Seq(SentPackets)
    BY DEF ConnTypes
  <2>2. \A i \in 1 .. m : s[i] \in SentPackets
    BY <1>1, <2>1
  <2> QED BY <2>2 DEF SentPackets
<1>6. 1 .. m + 1 = 1 .. m \cup {m + 1}
  BY <1>1
<1>7. Followed(k)' => Followed(k)
  BY DEF Followed
<1>8. Answered(k)' = Answered(k) /\ Told(k)' = Told(k) /\ KeepAlives(k)' = KeepAlives(k)
      /\ InHand(k)' = InHand(k)
  BY DEF Answered, Told, KeepAlives, InHand
<1>9. Matched(k)'
  BY <1>4, <1>8 DEF Matched
<1>10. /\ \A i \in 1 .. m : s[i].id <= packets[k]
       /\ \A i, j \in 1 .. m :
            i < j /\ s[i].wire = "keep_alive" /\ s[j].wire = "keep_alive" => s[i].id < s[j].id
  BY <1>1, <1>4 DEF Numbered
<1>11. Followed(k) =>
         /\ \A i \in 1 .. m : Proper(s[i])
         /\ m > 0 => s[1].state = connState[k]
         /\ \A i \in 1 .. m - 1 : s[i + 1].state = After(s[i]) /\ ~Final(s[i])
         /\ IF m = 0 THEN server[k] = connState[k] ELSE server[k] = After(s[m]) /\ ~Final(s[m])
  BY <1>1, <1>2, <1>3, <1>4 DEF Chain
<1> HIDE DEF s, m
<1> DEFINE t == Append(s, p)
<1>12. /\ DOMAIN t = 1 .. m + 1 /\ Len(t) = m + 1 /\ t # <<>> /\ inbox'[k] = t
       /\ \A i \in 1 .. m : t[i] = s[i]
       /\ t[m + 1] = p
  BY <1>1, <1>2
<1> HIDE DEF t
<1>13. Numbered(k)'
  <2>1. \A i \in 1 .. m + 1 : t[i].id <= packets'[k]
    <3>1. ASSUME NEW i \in 1 .. m PROVE t[i].id <= packets'[k]
      BY <1>3, <1>5, <1>10, <1>12, <3>1
    <3> QED BY <1>6, <1>12, <3>1
  <2>2. ASSUME NEW i \in 1 .. m + 1, NEW j \in 1 .. m + 1, i < j,
               t[i].wire = "keep_alive", t[j].wire = "keep_alive"
        PROVE  t[i].id < t[j].id
    <3>1. i \in 1 .. m
      BY <1>1, <2>2
    <3>2. CASE j \in 1 .. m
      BY <1>10, <1>12, <2>2, <3>1, <3>2
    <3>3. CASE j = m + 1
      <4>1. t[i] = s[i] /\ s[i].id <= packets[k] /\ s[i].id \in Nat
        BY <1>5, <1>10, <1>12, <3>1
      <4>2. t[j] = p /\ p.id = packets[k] + 1
        BY <1>12, <2>2, <3>3
      <4> QED BY <1>3, <4>1, <4>2
    <3> QED BY <1>6, <3>2, <3>3
  <2> QED BY <1>12, <2>1, <2>2 DEF Numbered
<1>14. ASSUME Followed(k) PROVE Chain(k)'
  <2>1. \A i \in DOMAIN t : Proper(t[i])
    BY <1>6, <1>11, <1>12, <1>14
  <2>2. t[1].state = connState[k]
    <3>1. CASE m = 0
      BY <1>11, <1>12, <1>14, <3>1
    <3>2. CASE m # 0
      <4>1. 1 \in 1 .. m /\ m > 0
        BY <1>1, <3>2
      <4> QED BY <1>11, <1>12, <1>14, <4>1
    <3> QED BY <3>1, <3>2
  <2>3. ASSUME NEW i \in 1 .. Len(t) - 1
        PROVE  t[i + 1].state = After(t[i]) /\ ~Final(t[i])
    <3>1. i \in 1 .. m
      BY <1>1, <1>12, <2>3
    <3>2. CASE i = m
      <4>1. m # 0 /\ t[i] = s[m] /\ t[i + 1] = p
        BY <1>1, <1>12, <3>1, <3>2
      <4> QED BY <1>11, <1>14, <4>1
    <3>3. CASE i # m
      <4>1. i \in 1 .. m - 1 /\ i + 1 \in 1 .. m
        BY <1>1, <3>1, <3>3
      <4> QED BY <1>11, <1>12, <1>14, <3>1, <4>1
    <3> QED BY <3>2, <3>3
  <2>4. server'[k] # "gone" => server'[k] = After(t[Len(t)]) /\ ~Final(t[Len(t)])
    BY <1>12
  <2> QED BY <1>12, <2>1, <2>2, <2>3, <2>4 DEF Chain
<1>15. ASSUME NEW n, Earlier(k, n), n \in Nat PROVE Earlier(k, n)'
  <2>1. n <= packets[k] /\ \A i \in 1 .. m : s[i].wire = "keep_alive" => n < s[i].id
    BY <1>1, <1>15 DEF Earlier, s
  <2>2. n <= packets'[k]
    BY <1>3, <1>15, <2>1
  <2>3. p.wire = "keep_alive" => n < p.id
    BY <1>3, <1>15, <2>1
  <2>4. \A i \in DOMAIN t : t[i].wire = "keep_alive" => n < t[i].id
    BY <1>6, <1>12, <2>1, <2>3
  <2> QED BY <1>12, <2>2, <2>4 DEF Earlier
<1>16. ASSUME Followed(k) PROVE Sequenced(k)'
  <2>0. Answered(k) \subseteq Nat /\ packet[k].id \in Nat
    <3>1. replies[k] \in Seq(Nat) /\ packet[k] \in ReadPackets
      BY DEF ConnTypes, ReaderTypes
    <3> QED BY <3>1 DEF Answered, ReadPackets
  <2>1. \A n \in Answered(k) : Earlier(k, n)'
    BY <1>4, <1>15, <1>16, <2>0 DEF Sequenced
  <2>2. ASSUME reader[k] = "reply"
        PROVE  Earlier(k, packet[k].id)' /\ \A n \in Answered(k) : n < packet[k].id
    <3>1. Earlier(k, packet[k].id) /\ \A n \in Answered(k) : n < packet[k].id
      BY <1>4, <1>16, <2>2 DEF Sequenced
    <3>2. PICK n : n = packet[k].id
      OBVIOUS
    <3>3. Earlier(k, n)'
      BY <1>15, <2>0, <3>1, <3>2
    <3> QED BY <3>1, <3>2, <3>3 DEF Earlier
  <2> QED BY <1>8, <2>1, <2>2 DEF Sequenced
<1> QED BY <1>7, <1>9, <1>13, <1>14, <1>16 DEF Echo

\* The server's steps: a packet joins the end of the chain, and a connection that
\* ends is not looked at any more.
LEMMA ServerEcho ==
  ASSUME EchoInv, NEW q \in Gens, Server(q), NEW k \in Gens
  PROVE  Echo(k)' /\ Idle(k)'
<1>1. TypeOK /\ ConnTypes /\ ReaderTypes /\ Echo(k) /\ Idle(k) /\ Echo(q) /\ Idle(q)
  BY DEF EchoInv, CarefulInv, TypeInv, TypeOK
<1>2. /\ connState' = connState /\ replies' = replies /\ events' = events
      /\ reader' = reader /\ packet' = packet /\ app' = app /\ dialled' = dialled
  BY DEF Server, ServerLogin, ServerPlay, ServerEnd, chanVars, readerVars, appVars
<1>3. KeepAlives(k)' = KeepAlives(k) /\ InHand(k)' = InHand(k) /\ (Followed(k)' => Followed(k))
  BY <1>2 DEF KeepAlives, InHand, Followed
<1>4. net[q] = "open" /\ ~(q > dialled)
  BY <1>1 DEF Server, ServerLogin, ServerPlay, ServerEnd, Idle
<1>5. net' = net \/ net' = [net EXCEPT ![q] = "ended"]
  BY DEF Server, ServerLogin, ServerPlay, ServerEnd
<1>6. net'[k] = "open" => net[k] = "open"
  BY <1>1, <1>5 DEF ConnTypes
<1>7. k # q => inbox'[k] = inbox[k] /\ server'[k] = server[k] /\ packets'[k] = packets[k]
  BY <1>1 DEF Server, ServerLogin, ServerPlay, ServerEnd, Deliver, ConnTypes
<1>8. Idle(k)'
  <2>1. k > dialled' => k > dialled /\ inbox'[k] = inbox[k]
    BY <1>2, <1>4, <1>7
  <2>2. server'[k] = "Configuration" => server[k] = "Configuration" \/ Version >= V1_20_2
    <3>1. CASE k # q
      BY <1>7, <3>1
    <3>2. CASE k = q
      BY <1>1, <3>2 DEF Server, ServerLogin, ServerPlay, ServerEnd, ConnTypes
    <3> QED BY <3>1, <3>2
  <2> QED BY <1>1, <1>2, <1>3, <1>6, <2>1, <2>2, SameIdle
<1>9. CASE k # q
  BY <1>1, <1>2, <1>3, <1>6, <1>7, <1>8, <1>9, SameEcho
<1>10. ASSUME NEW wire \in Wires, NEW id \in Nat,
              Deliver(q, wire, id, server[q]),
              Proper([wire |-> wire, id |-> id, state |-> server[q]]),
              server'[q] = IF wire \in {"disconnect", "kick_disconnect"} THEN "gone"
                           ELSE After([wire |-> wire, id |-> id, state |-> server[q]]),
              packets[q] <= packets'[q], packets'[q] \in Nat, id <= packets'[q],
              wire = "keep_alive" => id = packets[q] + 1
       PROVE  Echo(q)'
  <2>1. PICK p : p = [wire |-> wire, id |-> id, state |-> server[q]]
    OBVIOUS
  <2>2. p.wire = wire /\ p.id = id /\ p.state = server[q]
    BY <2>1
  <2>3. Proper(p) /\ (server'[q] = "gone" \/ (server'[q] = After(p) /\ ~Final(p)))
    BY <1>10, <2>1, <2>2 DEF Final
  <2>4. p \in SentPackets
    <3>1. server[q] \in States
      BY <2>2, <2>3 DEF Proper, States
    <3> QED BY <2>1, <3>1 DEF SentPackets
  <2>5. inbox'[q] = Append(inbox[q], p)
    BY <1>1, <1>10, <2>1 DEF Deliver, ConnTypes
  <2> QED BY <1>1, <1>2, <1>4, <1>10, <2>2, <2>3, <2>4, <2>5, DeliverEcho
<1>11. Version \in Nat /\ V1_20_2 \in Nat
  BY ClientAssumption DEF V1_20_2, Versions, First, Latest, V1_7, V1_21_11
<1>12. packets[q] \in Nat /\ server \in [Gens -> {"none", "Login", "Configuration", "Play", "gone"}]
       /\ packets \in [Gens -> 0 .. MaxPackets]
  BY <1>1 DEF ConnTypes
<1>13. CASE ServerEnd(q)
  <2>1. net'[q] = "ended"
    BY <1>1, <1>13 DEF ServerEnd, ConnTypes
  <2>2. Echo(q)'
    BY <2>1 DEF Echo
  <2> QED BY <1>8, <1>9, <2>2
<1>14. CASE ServerPlay(q)
  <2>1. server[q] = "Play" /\ packets' = [packets EXCEPT ![q] = @ + 1]
    BY <1>14 DEF ServerPlay
  <2>2. packets'[q] = packets[q] + 1
    BY <1>12, <2>1
  <2>3. PICK wire \in {"keep_alive", "chat", "kick_disconnect"} :
          /\ Deliver(q, wire, IF wire = "kick_disconnect" THEN 0 ELSE packets[q] + 1, "Play")
          /\ server'[q] = IF wire = "kick_disconnect" THEN "gone" ELSE server[q]
    BY <1>12, <1>14 DEF ServerPlay
  <2>4. PICK id \in Nat : id = IF wire = "kick_disconnect" THEN 0 ELSE packets[q] + 1
    BY <1>12
  <2>5. id <= packets'[q] /\ packets[q] <= packets'[q] /\ packets'[q] \in Nat
    BY <1>12, <2>2, <2>4
  <2>6. /\ Proper([wire |-> wire, id |-> id, state |-> server[q]])
        /\ wire # "kick_disconnect" =>
             After([wire |-> wire, id |-> id, state |-> server[q]]) = server[q]
    BY <2>1 DEF Proper, After
  <2>7. Echo(q)'
    BY <1>10, <2>1, <2>3, <2>4, <2>5, <2>6 DEF Wires
  <2> QED BY <1>8, <1>9, <2>7
<1>15. CASE ServerLogin(q)
  <2>1. packets' = packets
    BY <1>15 DEF ServerLogin
  <2>2. PICK wire \in {"success", "finish_configuration", "disconnect"} :
          /\ Deliver(q, wire, 0, server[q])
          /\ wire = "success" =>
               /\ server[q] = "Login"
               /\ server'[q] = IF Version >= V1_20_2 THEN "Configuration" ELSE "Play"
          /\ wire = "finish_configuration" => server[q] = "Configuration" /\ server'[q] = "Play"
          /\ wire = "disconnect" => server[q] \in {"Login", "Configuration"} /\ server'[q] = "gone"
    <3>1. CASE server[q] = "Login" /\ Deliver(q, "success", 0, "Login")
               /\ server' = [server EXCEPT ![q] = IF Version >= V1_20_2 THEN "Configuration" ELSE "Play"]
      BY <1>12, <3>1
    <3>2. CASE server[q] = "Configuration" /\ Deliver(q, "finish_configuration", 0, "Configuration")
               /\ server' = [server EXCEPT ![q] = "Play"]
      BY <1>12, <3>2
    <3>3. CASE server[q] \in {"Login", "Configuration"} /\ Deliver(q, "disconnect", 0, server[q])
               /\ server' = [server EXCEPT ![q] = "gone"]
      BY <1>12, <3>3
    <3> QED BY <1>15, <3>1, <3>2, <3>3 DEF ServerLogin
  <2>3. server[q] = "Configuration" => Version >= V1_20_2
    BY <1>1 DEF Idle
  <2>4. Proper([wire |-> wire, id |-> 0, state |-> server[q]])
    BY <2>2, <2>3 DEF Proper
  <2>5. wire # "disconnect" => server'[q] = After([wire |-> wire, id |-> 0, state |-> server[q]])
    BY <2>2 DEF After
  <2>6. Echo(q)'
    BY <1>10, <1>12, <2>1, <2>2, <2>4, <2>5 DEF Wires
  <2> QED BY <1>8, <1>9, <2>6
<1> QED BY <1>13, <1>14, <1>15 DEF Server

\* The steps of the application that read nothing and start nothing: they leave
\* the packets, the replies and the events of every connection alone.
LEMMA AppElsewhere ==
  ASSUME EchoInv, NEW k \in Gens,
         connState'[k] = connState[k], inbox'[k] = inbox[k], dialled' = dialled,
         net'[k] = "open" => net[k] = "open",
         UNCHANGED <<server, packets, replies, events, reader, packet>>,
         app' \in {"join", "joinRead", "channel", "spawn"} /\ dialled = k =>
           /\ app \in {"join", "joinRead", "channel", "spawn"}
           /\ app' \in {"channel", "spawn"} => app \in {"channel", "spawn"}
  PROVE  Echo(k)' /\ Idle(k)'
<1>1. Echo(k) /\ Idle(k)
  BY DEF EchoInv
<1>2. KeepAlives(k)' = KeepAlives(k) /\ InHand(k)' = InHand(k) /\ (Followed(k)' => Followed(k))
  BY DEF KeepAlives, InHand, Followed
<1>3. Echo(k)'
  BY <1>1, <1>2, SameEcho
<1>4. Idle(k)'
  BY <1>1, <1>2, SameIdle
<1> QED BY <1>3, <1>4

\* A new connection has carried nothing.
LEMMA DialEcho ==
  ASSUME EchoInv, AppDial, NEW k \in Gens
  PROVE  Echo(k)' /\ Idle(k)'
<1> DEFINE d == dialled + 1
<1>1. TypeInv /\ TypeOK /\ ConnTypes /\ ReaderTypes /\ Echo(k) /\ Idle(k)
  BY DEF EchoInv, CarefulInv, TypeInv, TypeOK
<1>2. /\ d \in Gens /\ dialled' = d /\ dialled \in Nat /\ d > dialled /\ ~(d > d)
      /\ inbox' = inbox /\ packets' = packets /\ replies' = replies /\ events' = events
      /\ reader' = reader /\ packet' = packet /\ app' \in {"join", "idle"}
  BY <1>1 DEF AppDial, chanVars, readerVars, ConnTypes
<1>3. CASE k # d
  <2>1. /\ net'[k] = net[k] /\ connState'[k] = connState[k] /\ server'[k] = server[k]
        /\ inbox'[k] = inbox[k] /\ packets'[k] = packets[k] /\ replies'[k] = replies[k]
    BY <1>1, <1>2, <1>3 DEF AppDial, ConnTypes
  <2>2. KeepAlives(k)' = KeepAlives(k) /\ InHand(k)' = InHand(k) /\ (Followed(k)' => Followed(k))
    BY <1>2, <1>3 DEF KeepAlives, InHand, Followed
  <2>3. k > dialled' => k > dialled
    BY <1>1, <1>2 DEF Gens
  <2>4. Echo(k)'
    BY <1>1, <1>2, <2>1, <2>2, SameEcho
  <2>5. Idle(k)'
    BY <1>1, <1>2, <2>1, <2>2, <2>3, SameIdle
  <2> QED BY <2>4, <2>5
<1>4. CASE k = d
  <2>1. reader[k] = "unstarted" /\ inbox[k] = <<>> /\ replies[k] = <<>> /\ KeepAlives(k) = {}
    BY <1>1, <1>2, <1>4 DEF TypeInv, Living, Idle
  <2>2. KeepAlives(k)' = {} /\ Told(k)' = {} /\ Answered(k)' = {} /\ ~InHand(k)'
    BY <1>2, <2>1 DEF KeepAlives, Told, Answered, InHand
  <2>3. Idle(k)'
    <3>1. server'[k] = "Configuration" => Version >= V1_20_2
      BY <1>1, <1>4 DEF AppDial, ConnTypes, Idle
    <3>2. reader'[k] = "unstarted" /\ replies'[k] = <<>> /\ ~(k > dialled')
      BY <1>2, <1>4, <2>1
    <3> QED BY <1>2, <2>2, <3>1, <3>2 DEF Idle
  <2>4. ASSUME net'[k] = "open" PROVE Numbered(k)' /\ Matched(k)' /\ Chain(k)' /\ Sequenced(k)'
    <3>1. connState'[k] = "Login" /\ server'[k] = "Login"
      BY <1>1, <1>4, <2>4 DEF AppDial, ConnTypes
    <3>2. inbox'[k] = <<>> /\ replies'[k] = <<>> /\ reader'[k] # "reply"
      BY <1>2, <2>1
    <3>3. Numbered(k)'
      BY <3>2 DEF Numbered
    <3>4. Chain(k)'
      BY <3>1, <3>2 DEF Chain
    <3>5. Matched(k)'
      BY <2>2, <3>2 DEF Matched
    <3>6. Sequenced(k)'
      BY <2>2, <3>2 DEF Sequenced
    <3> QED BY <3>3, <3>4, <3>5, <3>6
  <2> QED BY <2>3, <2>4 DEF Echo
<1> QED BY <1>3, <1>4

\* Join reads on, in the state the server is in after the packet, or fails.
LEMMA JoinEcho ==
  ASSUME EchoInv, AppJoinRead, NEW k \in Gens
  PROVE  Echo(k)' /\ Idle(k)'
<1>1. TypeInv /\ TypeOK /\ ConnTypes /\ Echo(k) /\ Idle(k)
  BY DEF EchoInv, CarefulInv, TypeInv, TypeOK
<1>2. /\ net' = net /\ server' = server /\ packets' = packets /\ replies' = replies
      /\ events' = events /\ reader' = reader /\ packet' = packet /\ dialled' = dialled
      /\ app = "joinRead"
  BY DEF AppJoinRead, chanVars, readerVars
<1>3. conn = dialled /\ conn \in Gens /\ reader[conn] = "unstarted"
  BY <1>1, <1>2 DEF EchoInv, CarefulInv, Fresh, TypeInv, Places, Living
<1>4. KeepAlives(k)' = KeepAlives(k) /\ InHand(k)' = InHand(k)
  BY <1>2 DEF KeepAlives, InHand
<1>5. CASE k # conn
  <2>1. connState'[k] = connState[k] /\ inbox'[k] = inbox[k]
    BY <1>1, <1>5 DEF AppJoinRead, ConnTypes
  <2>2. Followed(k)' => Followed(k)
    BY <1>2, <1>3, <1>5 DEF Followed
  <2>3. Echo(k)'
    BY <1>1, <1>2, <1>4, <2>1, <2>2, SameEcho
  <2>4. Idle(k)'
    BY <1>1, <1>2, <1>3, <1>4, <1>5, <2>1, SameIdle
  <2> QED BY <2>3, <2>4
<1>6. CASE k = conn
  <2>0. PICK p \in ReadResults(k) : \E step \in JoinSteps(connState[k], p.type) :
          connState' = [connState EXCEPT ![k] = step[1]] /\ app' = step[2]
    BY <1>6 DEF AppJoinRead
  <2>1. PICK step \in JoinSteps(connState[k], p.type) :
          connState' = [connState EXCEPT ![k] = step[1]] /\ app' = step[2]
    BY <2>0
  <2>2. /\ connState'[k] = step[1] /\ inbox'[k] = RestOfInbox(k) /\ Readable(k)
        /\ connState[k] \in States
    BY <1>1, <1>6, <2>1 DEF AppJoinRead, ConnTypes
  <2>3. ~InHand(k) /\ ~InHand(k)' /\ reader'[k] = "unstarted" /\ k = dialled /\ ~(k > dialled)
    BY <1>2, <1>3, <1>4, <1>6 DEF InHand, Gens
  <2>4. Idle(k)'
    <3>1. app' \in {"channel", "spawn"} => connState'[k] = "Play"
      <4>1. step[2] # "spawn"
        BY <2>2, JoinStepsType
      <4> QED BY <2>1, <2>2, <4>1, JoinedInPlay
    <3> QED BY <1>1, <1>2, <1>4, <2>3, <3>1 DEF Idle
  <2>5. SUFFICES ASSUME net[k] = "open"
                 PROVE  Numbered(k)' /\ Matched(k)' /\ (Followed(k)' => Chain(k)' /\ Sequenced(k)')
    BY <1>2, <2>4 DEF Echo
  <2>6. Numbered(k) /\ Matched(k) /\ Chain(k) /\ Sequenced(k)
    BY <1>1, <1>2, <1>3, <1>6, <2>5 DEF Echo, Followed
  <2>7. PICK h : h = Head(inbox[k])
    OBVIOUS
  <2>8. /\ inbox[k] # <<>> /\ RestOfInbox(k) = Tail(inbox[k])
        /\ Proper(h) /\ h.state = connState[k]
        /\ p.type = NewPacket(Version, h.state, "Clientbound", h.wire)
    BY <1>1, <2>1, <2>2, <2>5, <2>6, <2>7, ReadsHead
  <2>9. /\ Numbered(k)'
        /\ (~Final(h) => connState'[k] = After(h)) => Chain(k)'
        /\ \A n : Earlier(k, n) => Earlier(k, n)'
    BY <1>1, <1>2, <2>2, <2>6, <2>7, <2>8, TailEcho
  <2>10. Matched(k)'
    <3>1. Answered(k)' = Answered(k) /\ Told(k)' = Told(k)
      BY <1>2, <1>4 DEF Answered, Told
    <3> QED BY <1>2, <1>4, <2>3, <2>6, <3>1 DEF Matched
  <2>11. ASSUME Followed(k)' PROVE Chain(k)' /\ Sequenced(k)'
    <3>1. step[2] # "idle"
      BY <2>1, <2>3, <2>11 DEF Followed
    <3>2. connState'[k] = After(h)
      <4>1. step \in JoinSteps(h.state, NewPacket(Version, h.state, "Clientbound", h.wire))
        BY <2>1, <2>8
      <4> QED BY <2>2, <2>8, <3>1, <4>1, JoinFollows
    <3>3. Answered(k)' = Answered(k) /\ reader'[k] # "reply"
      BY <1>2, <2>3 DEF Answered
    <3>4. Sequenced(k)'
      <4>1. \A n \in Answered(k) : Earlier(k, n)'
        BY <2>6, <2>9 DEF Sequenced
      <4> QED BY <3>3, <4>1 DEF Sequenced
    <3> QED BY <2>9, <3>2, <3>4
  <2> QED BY <2>9, <2>10, <2>11
<1> QED BY <1>5, <1>6

\* The new reader finds its connection in the play state.
LEMMA SpawnEcho ==
  ASSUME EchoInv, AppSpawn, NEW k \in Gens
  PROVE  Echo(k)' /\ Idle(k)'
<1>1. TypeInv /\ ReaderTypes /\ Echo(k) /\ Idle(k)
  BY DEF EchoInv, CarefulInv, TypeInv, TypeOK
<1>2. /\ net' = net /\ server' = server /\ packets' = packets /\ replies' = replies
      /\ connState' = connState /\ inbox' = inbox
      /\ events' = events /\ packet' = packet /\ dialled' = dialled
      /\ app = "spawn" /\ app' = "ready" /\ reader' = [reader EXCEPT ![dialled] = "select"]
  BY DEF AppSpawn, connVars, chanVars
<1>3. reader[dialled] = "unstarted" /\ reader \in [Gens -> ReaderPlaces]
  BY <1>1, <1>2 DEF TypeInv, Living, ReaderTypes
<1>4. KeepAlives(k)' = KeepAlives(k)
  BY <1>2 DEF KeepAlives
<1>5. reader'[k] = IF k = dialled THEN "select" ELSE reader[k]
  BY <1>2, <1>3
<1>6. InHand(k)' = InHand(k) /\ (Followed(k)' => Followed(k)) /\ (reader'[k] = "reply" => reader[k] = "reply")
  BY <1>2, <1>3, <1>5 DEF InHand, Followed
<1>7. Echo(k)'
  BY <1>1, <1>2, <1>4, <1>6, SameEcho
<1>8. Idle(k)'
  BY <1>1, <1>2, <1>3, <1>4, <1>5 DEF Idle
<1> QED BY <1>7, <1>8

\* A ReadyEvent tells of no keep-alive.
LEMMA ReadyEcho ==
  ASSUME EchoInv, AppReady, NEW k \in Gens
  PROVE  Echo(k)' /\ Idle(k)'
<1>1. TypeInv /\ ChanTypes /\ Echo(k) /\ Idle(k)
  BY DEF EchoInv, CarefulInv, TypeInv, TypeOK
<1>2. /\ net' = net /\ server' = server /\ packets' = packets /\ replies' = replies
      /\ connState' = connState /\ inbox' = inbox
      /\ reader' = reader /\ packet' = packet /\ dialled' = dialled
      /\ app = "ready" /\ app' = "idle" /\ events' = [events EXCEPT ![eventChan] = Append(@, Ready)]
  BY DEF AppReady, connVars, readerVars
<1>3. KeepAlives(k)' = KeepAlives(k) /\ \A i \in KeepAlives(k) : events'[k][i] = events[k][i]
  <2>1. CASE k = eventChan
    <3>0. PICK e : e = Ready
      OBVIOUS
    <3>1. e = Ready /\ e \in Events /\ e.type # "KeepAlive"
      BY <3>0 DEF Ready, Events
    <3>2. events'[k] = Append(events[k], e)
      BY <1>1, <1>2, <2>1, <3>1 DEF ChanTypes
    <3> QED BY <1>1, <3>1, <3>2, EventAppended
  <2>2. CASE k # eventChan
    <3>1. events'[k] = events[k]
      BY <1>1, <1>2, <2>2 DEF ChanTypes
    <3> QED BY <3>1 DEF KeepAlives
  <2> QED BY <2>1, <2>2
<1>4. InHand(k)' = InHand(k) /\ (Followed(k)' => Followed(k))
  BY <1>2 DEF InHand, Followed
<1>5. Echo(k)'
  BY <1>1, <1>2, <1>3, <1>4, SameEcho
<1>6. Idle(k)'
  BY <1>1, <1>2, <1>3, SameIdle
<1> QED BY <1>5, <1>6

\* The application's steps.
LEMMA AppEcho ==
  ASSUME EchoInv, Application, NEW k \in Gens
  PROVE  Echo(k)' /\ Idle(k)'
<1>1. ConnTypes
  BY DEF EchoInv, CarefulInv, TypeInv, TypeOK
<1>2. CASE AppConnect \/ AppClose \/ AppCloseLast
  <2>1. /\ connState' = connState /\ inbox' = inbox /\ dialled' = dialled
        /\ server' = server /\ packets' = packets /\ replies' = replies
        /\ events' = events /\ reader' = reader /\ packet' = packet
        /\ app' \in {"dial", "idle"}
    BY <1>2 DEF AppConnect, AppClose, AppCloseLast, chanVars, readerVars, appVars
  <2>2. net'[k] = "open" => net[k] = "open"
    BY <1>1, <1>2 DEF AppConnect, AppClose, AppCloseLast, CloseConn, ConnTypes
  <2> QED BY <2>1, <2>2, AppElsewhere
<1>3. CASE AppDestroy \/ AppReceive \/ AppDialFails \/ AppDrain \/ AppJoinLock \/ AppMakeChannel
  <2>1. /\ connState' = connState /\ inbox' = inbox /\ dialled' = dialled /\ net' = net
        /\ server' = server /\ packets' = packets /\ replies' = replies
    BY <1>3 DEF AppDestroy, AppReceive, AppDialFails, AppDrain, AppJoinLock, AppMakeChannel, connVars
  <2>2. events' = events /\ reader' = reader /\ packet' = packet
    BY <1>3 DEF AppDestroy, AppReceive, AppDialFails, AppDrain, AppJoinLock, AppMakeChannel,
                chanVars, readerVars
  <2>3. app' \in {"join", "joinRead", "channel", "spawn"} =>
           /\ app \in {"join", "joinRead", "channel", "spawn"}
           /\ app' \in {"channel", "spawn"} => app \in {"channel", "spawn"}
    BY <1>3 DEF AppDestroy, AppReceive, AppDialFails, AppDrain, AppJoinLock, AppMakeChannel, appVars
  <2> QED BY <2>1, <2>2, <2>3, AppElsewhere
<1> QED BY <1>2, <1>3, DialEcho, JoinEcho, SpawnEcho, ReadyEcho DEF Application, AppContinue

\* EchoInv is inductive while the application is careful.
LEMMA NextEcho ==
  ASSUME Careful
  PROVE  EchoInv /\ [Next]_vars => EchoInv'
<1> SUFFICES ASSUME EchoInv, [Next]_vars PROVE EchoInv'
  OBVIOUS
<1>1. CarefulInv'
  BY NextCareful DEF EchoInv
<1> SUFFICES ASSUME NEW k \in Gens PROVE Echo(k)' /\ Idle(k)'
  BY <1>1 DEF EchoInv
<1>2. CASE \E r \in Gens : Reader(r)
  BY <1>2, ReadersEcho
<1>3. CASE Application
  BY <1>3, AppEcho
<1>4. CASE \E q \in Gens : Server(q)
  BY <1>4, ServerEcho
<1>5. CASE (\E g \in Callers : Caller(g)) \/ UNCHANGED vars
  <2>1. /\ connState' = connState /\ inbox' = inbox /\ dialled' = dialled /\ net' = net
        /\ server' = server /\ packets' = packets /\ replies' = replies
        /\ events' = events /\ reader' = reader /\ packet' = packet /\ app' = app
    BY <1>5 DEF Caller, CallerBegin, CallerState, CallerWrite, Crash, vars, connVars, chanVars,
                readerVars, appVars
  <2> QED BY <2>1, AppElsewhere
<1> QED BY <1>2, <1>3, <1>4, <1>5 DEF Next

\* At first no connection is open.
LEMMA InitEcho == Init => EchoInv
<1> SUFFICES ASSUME Init PROVE EchoInv
  OBVIOUS
<1> SUFFICES ASSUME NEW k \in Gens PROVE Echo(k) /\ Idle(k)
  BY InitCareful DEF EchoInv
<1>1. /\ net[k] = "unused" /\ inbox[k] = <<>> /\ replies[k] = <<>> /\ events[k] = <<>>
      /\ reader[k] = "unstarted" /\ server[k] = "none" /\ app = "idle"
  BY DEF Init
<1> QED BY <1>1 DEF Echo, Idle, KeepAlives

\* On a connection that is open a careful application is told of exactly the
\* keep-alives readLoop has answered: every reply goes to the connection the
\* packet came from, before the event, once, and in the server's order.
THEOREM EchoesMatch ==
  ASSUME Careful
  PROVE  Spec => []EchoesMatchEvents
<1>1. EchoInv => EchoesMatchEvents
  <2> SUFFICES ASSUME EchoInv, NEW k \in Gens, net[k] = "open" PROVE Matched(k)
    BY DEF EchoesMatchEvents, Matched, Answered, Told
  <2> QED BY DEF EchoInv, Echo
<1>2. EchoInv /\ [Next]_vars => EchoInv'
  BY NextEcho
<1> QED BY <1>1, <1>2, InitEcho, PTL DEF Spec
=============================================================================

