------------------------------- MODULE Client -------------------------------
(***************************************************************************)
(* The life cycle of a gophermc Client: the application goroutine that     *)
(* calls Join, JoinAndListen, Close and Destroy, the readLoop goroutine    *)
(* JoinAndListen starts, further goroutines that call Chat and             *)
(* SetPosition, the event channel between them, and the server behind the  *)
(* connection.                                                             *)
(*                                                                         *)
(* A step of a goroutine is the code between two accesses to shared state  *)
(* that another goroutine may interleave with: loading c.Conn, taking the  *)
(* reader lock, a blocking read, a write, a channel send.  Fields that only *)
(* the application goroutine touches are updated in one step with the      *)
(* access that follows.                                                    *)
(*                                                                         *)
(* Connections, event channels and reader goroutines are numbered by the   *)
(* dial that led to them: JoinAndListen on the k-th connection makes       *)
(* channel k and starts reader k.  0 is Go's nil.                          *)
(*                                                                         *)
(* The login exchange is abstracted to the clientbound packets that change *)
(* the connection's state or end the exchange; Session models the exchange *)
(* packet by packet.                                                       *)
(***************************************************************************)
EXTENDS Protocol, Sequences, FiniteSets

CONSTANTS
  Version,      \* c.version
  EventCount,   \* the eventCount argument of JoinAndListen
  Calls,        \* the calls the application goroutine makes
  Careful,      \* it connects again, or calls Close, only after a DisconnectEvent
  Callers,      \* goroutines that call Chat and SetPosition
  ServerMay,    \* what the server may do in the play state
  MaxConns,     \* bound: connections dialled
  MaxPackets    \* bound: packets the server sends in the play state, per connection

ASSUME ClientAssumption ==
  /\ Version \in Versions
  /\ EventCount \in Nat
  /\ Calls \subseteq {"Join", "JoinAndListen", "Close", "Destroy"}
  /\ Careful \in BOOLEAN
  /\ ServerMay \subseteq {"kick", "chat", "end"}
  /\ MaxConns \in Nat \ {0}
  /\ MaxPackets \in Nat

Gens == 1 .. MaxConns
Nil  == 0
\* Holders of a readerLock: nobody, a reader, or the application in Join.
Free == 0
App  == MaxConns + 1

VARIABLES
  \* Fields of Client.
  conn,         \* c.Conn
  eventChan,    \* c.eventChan
  cancelled,    \* c.readerCtx is done
  readerWg,     \* c.readerWg, a counter
  \* Connections.
  dialled,      \* how many there have been
  net,          \* the socket: "unused", "open", "ended" by the server or the network, "closed" by Close
  connState,    \* Conn.state
  readerLock,   \* Conn.readerLock
  inbox,        \* packets on their way from the server
  server,       \* its state at the other end, "none" before the dial, "gone" after a kick
  packets,      \* how many packets the server has sent in the play state
  replies,      \* IDs of the keep-alive replies written
  written,      \* <<connection state, type>> of the packets Chat and SetPosition wrote
  \* Event channels.
  events,       \* everything ever sent
  taken,        \* how much of it has been received
  closed,
  \* Goroutines.
  reader,       \* where each readLoop is
  readConn,     \* the connection its ReadPacket runs on
  packet,       \* the packet it handles, or its read error
  target,       \* the channel it sends on
  app,          \* where the application goroutine is
  call,         \* the call it is in
  subscription, \* the channel JoinAndListen last returned
  caller,       \* where each caller is
  op,           \* the call it is in
  panic         \* why the process died, or "none"

connVars   == <<dialled, net, connState, readerLock, inbox, server, packets, replies, written>>
chanVars   == <<events, taken, closed>>
readerVars == <<reader, readConn, packet, target>>
appVars    == <<app, call, subscription>>
callerVars == <<caller, op>>

vars == <<conn, eventChan, cancelled, readerWg, connVars, chanVars,
          readerVars, appVars, callerVars, panic>>

-----------------------------------------------------------------------------
(* Packets and events.                                                     *)

ReadError == "error"

\* What decoding a received packet yields: the registry's answer in the
\* connection's current state.  If that is not the state the server encoded
\* it in, its ID may name any packet of that state, or none, and its payload
\* may fail to decode.
Decode(k, p) ==
  IF p.state = connState[k]
  THEN {NewPacket(Version, p.state, "Clientbound", p.wire)}
  ELSE {ErrUnknownPacket, ReadError} \cup
       {row[2] : row \in Registered(Version, connState[k], "Clientbound")}

Readable(k) == net[k] \in {"ended", "closed"} \/ inbox[k] # <<>>

Drained(k) == net[k] = "closed" \/ inbox[k] = <<>>

\* The results a ReadPacket that returns now may have.
ReadResults(k) ==
  IF Drained(k) THEN {[type |-> ReadError, id |-> 0]}
  ELSE {[type |-> t, id |-> Head(inbox[k]).id] : t \in Decode(k, Head(inbox[k]))}

RestOfInbox(k) == IF Drained(k) THEN inbox[k] ELSE Tail(inbox[k])

\* The outcomes of WritePacket in state s: it fails without an ID for the
\* packet; a socket the peer has closed may still take a write.
WriteResults(k, s, name) ==
  IF ~HasPacketID(Version, s, "Serverbound", name) THEN {FALSE}
  ELSE CASE net[k] = "open"  -> {TRUE}
         [] net[k] = "ended" -> {TRUE, FALSE}
         [] OTHER            -> {FALSE}

Event(p) ==
  CASE p.type = "ClientboundKeepAlive"   -> [type |-> "KeepAlive", id |-> p.id]
    [] p.type = "ClientboundChatMessage" -> [type |-> "ChatMessage", id |-> p.id]
    [] OTHER                             -> [type |-> "Disconnect", id |-> p.id]

Ready == [type |-> "Ready", id |-> 0]

\* A mutant of HasRoom: a channel of one slot less.
HasRoomLess(k) == Len(events[k]) - taken[k] + 1 < EventCount

HasRoom(k) == Len(events[k]) - taken[k] < EventCount

-----------------------------------------------------------------------------
(* The readLoop goroutine.                                                 *)

\* Mutants of AfterRead: no reply to a keep-alive; no event for a read error.
AfterReadNoReply(type) ==
  IF type \in {"ClientboundKeepAlive", "ClientboundChatMessage", "ClientboundDisconnect", ReadError}
  THEN "notify" ELSE "select"

AfterReadSilentError(type) ==
  CASE type = "ClientboundKeepAlive" -> "reply"
    [] type \in {"ClientboundChatMessage", "ClientboundDisconnect"} -> "notify"
    [] type = ReadError -> "return"
    [] OTHER -> "select"

\* Where handlePacket, or the error branch of readLoop, takes the goroutine:
\* the reply to a keep-alive, the event, or straight to the next packet.
AfterRead(type) ==
  CASE type = "ClientboundKeepAlive" -> "reply"
    [] type \in {"ClientboundChatMessage", "ClientboundDisconnect", ReadError} -> "notify"
    [] OTHER -> "select"

\* Mutants of AfterEvent: a kick does not cancel the reader; a read error does
\* not end it.
AfterEventNoCancel(type) == IF type = ReadError THEN "return" ELSE "select"

AfterEventReadOn(type) == IF type = "ClientboundDisconnect" THEN "cancel" ELSE "select"

\* What follows the event.
AfterEvent(type) ==
  CASE type = "ClientboundDisconnect" -> "cancel"
    [] type = ReadError               -> "return"
    [] OTHER                          -> "select"

Crash(why) == /\ panic' = why
              /\ UNCHANGED <<conn, eventChan, cancelled, readerWg, connVars,
                             chanVars, readerVars, appVars, callerVars>>

\* select on readerCtx.Done().
ReaderSelect(r) ==
  /\ reader[r] = "select"
  /\ reader' = [reader EXCEPT ![r] = IF cancelled THEN "return" ELSE "load"]
  /\ UNCHANGED <<conn, eventChan, cancelled, readerWg, connVars, chanVars,
                 readConn, packet, target, appVars, callerVars, panic>>

\* c.ReadPacket() on the embedded *Conn: a nil c.Conn is dereferenced.
ReaderLoad(r) ==
  /\ reader[r] = "load"
  /\ \/ /\ conn = Nil
        /\ Crash("nil connection")
     \/ /\ conn # Nil
        /\ readConn' = [readConn EXCEPT ![r] = conn]
        /\ reader' = [reader EXCEPT ![r] = "lock"]
        /\ UNCHANGED <<conn, eventChan, cancelled, readerWg, connVars, chanVars,
                       packet, target, appVars, callerVars, panic>>

ReaderLock(r) ==
  /\ reader[r] = "lock"
  /\ readerLock[readConn[r]] = Free
  /\ readerLock' = [readerLock EXCEPT ![readConn[r]] = r]
  /\ reader' = [reader EXCEPT ![r] = "read"]
  /\ UNCHANGED <<conn, eventChan, cancelled, readerWg, dialled, net, connState,
                 inbox, server, packets, replies, written, chanVars, readConn,
                 packet, target, appVars, callerVars, panic>>

\* ReadPacket returns; ErrUnknownPacket and the packets handlePacket has no
\* case for lead back to the top of the loop.
ReaderRead(r) ==
  LET k == readConn[r] IN
  /\ reader[r] = "read"
  /\ Readable(k)
  /\ \E p \in ReadResults(k) :
       /\ packet' = [packet EXCEPT ![r] = p]
       /\ reader' = [reader EXCEPT ![r] = AfterRead(p.type)]
  /\ inbox' = [inbox EXCEPT ![k] = RestOfInbox(k)]
  /\ readerLock' = [readerLock EXCEPT ![k] = Free]
  /\ UNCHANGED <<conn, eventChan, cancelled, readerWg, dialled, net, connState,
                 server, packets, replies, written, chanVars, readConn, target,
                 appVars, callerVars, panic>>

\* The keep-alive reply goes to whatever c.Conn is by now; a failed write is
\* only logged.
ReaderReply(r) ==
  /\ reader[r] = "reply"
  /\ \/ /\ conn = Nil
        /\ Crash("nil connection")
     \/ /\ conn # Nil
        /\ \E ok \in WriteResults(conn, connState[conn], "ServerboundKeepAlive") :
             replies' = IF ok THEN [replies EXCEPT ![conn] = Append(@, packet[r].id)]
                        ELSE replies
        /\ reader' = [reader EXCEPT ![r] = "notify"]
        /\ UNCHANGED <<conn, eventChan, cancelled, readerWg, dialled, net,
                       connState, readerLock, inbox, server, packets, written,
                       chanVars, readConn, packet, target, appVars, callerVars, panic>>

\* if c.eventChan != nil: loads the channel the send will use.
ReaderNotify(r) ==
  /\ reader[r] = "notify"
  /\ target' = [target EXCEPT ![r] = eventChan]
  /\ reader' = [reader EXCEPT ![r] =
                  IF eventChan = Nil THEN AfterEvent(packet[r].type) ELSE "send"]
  /\ UNCHANGED <<conn, eventChan, cancelled, readerWg, connVars, chanVars,
                 readConn, packet, appVars, callerVars, panic>>

\* c.eventChan <- event: panics on a closed channel, blocks on a full one.
ReaderSend(r) ==
  LET g == target[r] IN
  /\ reader[r] = "send"
  /\ \/ /\ closed[g]
        /\ Crash("send on closed channel")
     \/ /\ ~closed[g]
        /\ HasRoom(g)
        /\ events' = [events EXCEPT ![g] = Append(@, Event(packet[r]))]
        /\ reader' = [reader EXCEPT ![r] = AfterEvent(packet[r].type)]
        /\ UNCHANGED <<conn, eventChan, cancelled, readerWg, connVars, taken,
                       closed, readConn, packet, target, appVars, callerVars, panic>>

\* c.cancelRead() after a disconnect packet.
ReaderCancel(r) ==
  /\ reader[r] = "cancel"
  /\ cancelled' = TRUE
  /\ reader' = [reader EXCEPT ![r] = "select"]
  /\ UNCHANGED <<conn, eventChan, readerWg, connVars, chanVars, readConn,
                 packet, target, appVars, callerVars, panic>>

\* return, with the deferred c.readerWg.Done().
ReaderReturn(r) ==
  /\ reader[r] = "return"
  /\ readerWg' = readerWg - 1
  /\ reader' = [reader EXCEPT ![r] = "returned"]
  /\ UNCHANGED <<conn, eventChan, cancelled, connVars, chanVars, readConn,
                 packet, target, appVars, callerVars, panic>>

Reader(r) ==
  \/ ReaderSelect(r) \/ ReaderLoad(r) \/ ReaderLock(r) \/ ReaderRead(r)
  \/ ReaderReply(r) \/ ReaderNotify(r) \/ ReaderSend(r)
  \/ ReaderCancel(r) \/ ReaderReturn(r)

-----------------------------------------------------------------------------
(* The application goroutine.                                              *)

\* It has received a DisconnectEvent from the channel JoinAndListen returned.
HeardDisconnect ==
  /\ subscription # Nil
  /\ \E i \in 1 .. taken[subscription] : events[subscription][i].type = "Disconnect"

\* The application waits on a channel that has not told it that it is over.
Listening == subscription # Nil /\ ~HeardDisconnect /\ ~closed[subscription]

\* When it may give up its connection.
MayLeave == ~(Careful /\ Listening)

\* Client.Close on a non-nil c.Conn: closes the socket, sets c.Conn to nil.
CloseConn ==
  /\ net' = IF conn = Nil THEN net ELSE [net EXCEPT ![conn] = "closed"]
  /\ conn' = Nil

\* Join and JoinAndListen begin with Connect: Close, then dial.
AppConnect ==
  /\ app = "idle"
  /\ \E c \in Calls \cap {"Join", "JoinAndListen"} : call' = c
  /\ MayLeave
  /\ dialled < MaxConns
  /\ CloseConn
  /\ app' = "dial"
  /\ UNCHANGED <<eventChan, cancelled, readerWg, dialled, connState, readerLock,
                 inbox, server, packets, replies, written, chanVars, readerVars,
                 subscription, callerVars, panic>>

AppDialFails ==
  /\ app = "dial"
  /\ app' = "idle"
  /\ UNCHANGED <<conn, eventChan, cancelled, readerWg, connVars, chanVars,
                 readerVars, call, subscription, callerVars, panic>>

\* NewConn, SendHandshake, SetState(Login), SendLogin.  The connection may be
\* lost at once, and either write fail.
AppDial ==
  LET k == dialled + 1 IN
  /\ app = "dial"
  /\ k \in Gens
  /\ dialled' = k
  /\ conn' = k
  /\ \/ /\ net' = [net EXCEPT ![k] = "open"]
        /\ connState' = [connState EXCEPT ![k] = "Login"]
        /\ server' = [server EXCEPT ![k] = "Login"]
        /\ app' = "join"
     \/ /\ "end" \in ServerMay
        /\ net' = [net EXCEPT ![k] = "ended"]
        /\ \E s \in {"Handshaking", "Login"} : connState' = [connState EXCEPT ![k] = s]
        /\ app' = "idle"
        /\ UNCHANGED server
  /\ UNCHANGED <<eventChan, cancelled, readerWg, readerLock, inbox, packets,
                 replies, written, chanVars, readerVars, call, subscription,
                 callerVars, panic>>

\* Join's loop calls ReadPacket.
AppJoinLock ==
  /\ app = "join"
  /\ readerLock[conn] = Free
  /\ readerLock' = [readerLock EXCEPT ![conn] = App]
  /\ app' = "joinRead"
  /\ UNCHANGED <<conn, eventChan, cancelled, readerWg, dialled, net, connState,
                 inbox, server, packets, replies, written, chanVars, readerVars,
                 call, subscription, callerVars, panic>>

\* What Join and handleConfiguration make of a packet in state s: pairs of the
\* state the connection is left in and where the application continues.  A
\* failed write, a disconnect packet and a read error fail the call, as does
\* ErrUnknownPacket during login; everything else is ignored.
Joined == IF call = "JoinAndListen" THEN "channel" ELSE "idle"

JoinSteps(s, type) ==
  LET Wrote(st, name) == WriteResults(conn, st, name)
  IN  CASE type = "ClientboundLoginSuccess" /\ Version < V1_20_2 ->
             { <<"Play", IF ok THEN Joined ELSE "idle">> :
                 ok \in Wrote("Play", "ServerboundClientSettings") }
        [] type = "ClientboundLoginSuccess" /\ Version >= V1_20_2 ->
             { IF ack THEN <<"Configuration", IF ok THEN "join" ELSE "idle">>
                      ELSE <<s, "idle">> :
                 ack \in Wrote(s, "ServerboundLoginAcknowledged"),
                 ok \in Wrote("Configuration", "ServerboundClientSettings") }
        [] type = "ClientboundFinishConfiguration" /\ Version < V1_21_3 ->
             { IF ok THEN <<"Play", Joined>> ELSE <<s, "idle">> :
                 ok \in Wrote(s, "ServerboundFinishConfiguration") }
        [] type = "ClientboundFinishConfiguration" /\ Version >= V1_21_3 ->
             { <<"Play", Joined>> }
        [] type \in {"ClientboundDisconnect", ReadError} -> { <<s, "idle">> }
        [] type = ErrUnknownPacket -> { <<s, IF s = "Login" THEN "idle" ELSE "join">> }
        [] OTHER -> { <<s, "join">> }

AppJoinRead ==
  /\ app = "joinRead"
  /\ Readable(conn)
  /\ \E p \in ReadResults(conn) : \E step \in JoinSteps(connState[conn], p.type) :
       /\ connState' = [connState EXCEPT ![conn] = step[1]]
       /\ app' = step[2]
  /\ inbox' = [inbox EXCEPT ![conn] = RestOfInbox(conn)]
  /\ readerLock' = [readerLock EXCEPT ![conn] = Free]
  /\ UNCHANGED <<conn, eventChan, cancelled, readerWg, dialled, net, server,
                 packets, replies, written, chanVars, readerVars, call,
                 subscription, callerVars, panic>>

\* JoinAndListen closes the channel of an earlier call and makes a new one.
AppMakeChannel ==
  /\ app = "channel"
  /\ closed' = IF eventChan = Nil THEN closed ELSE [closed EXCEPT ![eventChan] = TRUE]
  /\ eventChan' = dialled
  /\ app' = "spawn"
  /\ UNCHANGED <<conn, cancelled, readerWg, connVars, events, taken, readerVars,
                 call, subscription, callerVars, panic>>

\* Mutants: a Wait that does not wait; no Add.
ReadersIgnored == TRUE
AddNone == readerWg' = readerWg

\* readerWg.Wait() returns.
ReadersDone == readerWg = 0

\* readerWg.Add(1).
AddReader == readerWg' = readerWg + 1

\* readerWg.Wait(), readerWg.Add(1), go c.readLoop().
AppSpawn ==
  /\ app = "spawn"
  /\ ReadersDone
  /\ AddReader
  /\ reader' = [reader EXCEPT ![dialled] = "select"]
  /\ app' = "ready"
  /\ UNCHANGED <<conn, eventChan, cancelled, connVars, chanVars, readConn,
                 packet, target, call, subscription, callerVars, panic>>

\* c.eventChan <- ReadyEvent, and JoinAndListen returns the channel.
AppReady ==
  /\ app = "ready"
  /\ HasRoom(eventChan)
  /\ events' = [events EXCEPT ![eventChan] = Append(@, Ready)]
  /\ subscription' = eventChan
  /\ app' = "idle"
  /\ UNCHANGED <<conn, eventChan, cancelled, readerWg, connVars, taken, closed,
                 readerVars, call, callerVars, panic>>

\* The application's event loop receives the next event.
AppReceive ==
  /\ app = "idle"
  /\ subscription # Nil
  /\ taken[subscription] < Len(events[subscription])
  /\ taken' = [taken EXCEPT ![subscription] = @ + 1]
  /\ UNCHANGED <<conn, eventChan, cancelled, readerWg, connVars, events, closed,
                 readerVars, appVars, callerVars, panic>>

AppClose ==
  /\ app = "idle"
  /\ "Close" \in Calls
  /\ MayLeave
  /\ CloseConn
  /\ UNCHANGED <<eventChan, cancelled, readerWg, dialled, connState, readerLock,
                 inbox, server, packets, replies, written, chanVars, readerVars,
                 appVars, callerVars, panic>>

\* Destroy: cancelRead() ...
AppDestroy ==
  /\ app = "idle"
  /\ "Destroy" \in Calls
  /\ cancelled' = TRUE
  /\ call' = "Destroy"
  /\ app' = "drain"
  /\ UNCHANGED <<conn, eventChan, readerWg, connVars, chanVars, readerVars,
                 subscription, callerVars, panic>>

\* ... readerWg.Wait(), then the channel is closed and forgotten ...
AppDrain ==
  /\ app = "drain"
  /\ ReadersDone
  /\ closed' = IF eventChan = Nil THEN closed ELSE [closed EXCEPT ![eventChan] = TRUE]
  /\ eventChan' = Nil
  /\ app' = "close"
  /\ UNCHANGED <<conn, cancelled, readerWg, connVars, events, taken, readerVars,
                 call, subscription, callerVars, panic>>

\* ... and Close.
AppCloseLast ==
  /\ app = "close"
  /\ CloseConn
  /\ app' = "idle"
  /\ UNCHANGED <<eventChan, cancelled, readerWg, dialled, connState, readerLock,
                 inbox, server, packets, replies, written, chanVars, readerVars,
                 call, subscription, callerVars, panic>>

\* The steps of a call that has begun.
AppContinue ==
  \/ AppDialFails \/ AppDial \/ AppJoinLock \/ AppJoinRead
  \/ AppMakeChannel \/ AppSpawn \/ AppReady \/ AppDrain \/ AppCloseLast

Application == AppConnect \/ AppClose \/ AppDestroy \/ AppReceive \/ AppContinue

-----------------------------------------------------------------------------
(* Goroutines that call Chat and SetPosition.  Each loads c.Conn three     *)
(* times: for the nil check, for State() and for WritePacket.              *)

PacketOf == [Chat |-> "ServerboundChatMessage", SetPosition |-> "ServerboundPlayerPosition"]

CallerBegin(g) ==
  /\ caller[g] = "begin"
  /\ conn # Nil
  /\ \E o \in DOMAIN PacketOf : op' = [op EXCEPT ![g] = o]
  /\ caller' = [caller EXCEPT ![g] = "state"]
  /\ UNCHANGED <<conn, eventChan, cancelled, readerWg, connVars, chanVars,
                 readerVars, appVars, panic>>

\* State() # Play returns an error.  (SetPosition then updates playerPosition,
\* which nothing but the packet it builds reads.)
CallerState(g) ==
  /\ caller[g] = "state"
  /\ \/ /\ conn = Nil
        /\ Crash("nil connection")
     \/ /\ conn # Nil
        /\ caller' = [caller EXCEPT ![g] = IF connState[conn] = "Play" THEN "write" ELSE "begin"]
        /\ UNCHANGED <<conn, eventChan, cancelled, readerWg, connVars, chanVars,
                       readerVars, appVars, op, panic>>

CallerWrite(g) ==
  /\ caller[g] = "write"
  /\ \/ /\ conn = Nil
        /\ Crash("nil connection")
     \/ /\ conn # Nil
        /\ \E ok \in WriteResults(conn, connState[conn], PacketOf[op[g]]) :
             written' = IF ok THEN [written EXCEPT ![conn] = @ \cup {<<connState[conn], op[g]>>}]
                        ELSE written
        /\ caller' = [caller EXCEPT ![g] = "begin"]
        /\ UNCHANGED <<conn, eventChan, cancelled, readerWg, dialled, net,
                       connState, readerLock, inbox, server, packets, replies,
                       chanVars, readerVars, appVars, op, panic>>

Caller(g) == CallerBegin(g) \/ CallerState(g) \/ CallerWrite(g)

-----------------------------------------------------------------------------
(* The server and the network.                                             *)

Deliver(k, wire, id, state) ==
  inbox' = [inbox EXCEPT ![k] = Append(@, [wire |-> wire, id |-> id, state |-> state])]

\* The server takes the player through login and, since 1.20.2, configuration
\* into the play state, or turns it away.
ServerLogin(k) ==
  /\ net[k] = "open"
  /\ \/ /\ server[k] = "Login"
        /\ Deliver(k, "success", 0, "Login")
        /\ server' = [server EXCEPT ![k] = IF Version >= V1_20_2 THEN "Configuration" ELSE "Play"]
     \/ /\ server[k] = "Configuration"
        /\ Deliver(k, "finish_configuration", 0, "Configuration")
        /\ server' = [server EXCEPT ![k] = "Play"]
     \/ /\ server[k] \in {"Login", "Configuration"}
        /\ "kick" \in ServerMay
        /\ Deliver(k, "disconnect", 0, server[k])
        /\ server' = [server EXCEPT ![k] = "gone"]
  /\ UNCHANGED <<conn, eventChan, cancelled, readerWg, dialled, net, connState,
                 readerLock, packets, replies, written, chanVars, readerVars,
                 appVars, callerVars, panic>>

\* Keep-alives carry the number of the packet as their ID.
ServerPlay(k) ==
  /\ net[k] = "open"
  /\ server[k] = "Play"
  /\ packets[k] < MaxPackets
  /\ \/ /\ Deliver(k, "keep_alive", packets[k] + 1, "Play")
        /\ UNCHANGED server
     \/ /\ "chat" \in ServerMay
        /\ Deliver(k, "chat", packets[k] + 1, "Play")
        /\ UNCHANGED server
     \/ /\ "kick" \in ServerMay
        /\ Deliver(k, "kick_disconnect", 0, "Play")
        /\ server' = [server EXCEPT ![k] = "gone"]
  /\ packets' = [packets EXCEPT ![k] = @ + 1]
  /\ UNCHANGED <<conn, eventChan, cancelled, readerWg, dialled, net, connState,
                 readerLock, replies, written, chanVars, readerVars, appVars,
                 callerVars, panic>>

\* The connection ends: orderly, after what was sent, or losing it.
ServerEnd(k) ==
  /\ net[k] = "open"
  /\ "end" \in ServerMay
  /\ net' = [net EXCEPT ![k] = "ended"]
  /\ \E rest \in {inbox[k], <<>>} : inbox' = [inbox EXCEPT ![k] = rest]
  /\ UNCHANGED <<conn, eventChan, cancelled, readerWg, dialled, connState,
                 readerLock, server, packets, replies, written, chanVars,
                 readerVars, appVars, callerVars, panic>>

Server(k) == ServerLogin(k) \/ ServerPlay(k) \/ ServerEnd(k)

-----------------------------------------------------------------------------
NoPacket == [type |-> "none", id |-> 0]

Init ==
  /\ conn = Nil
  /\ eventChan = Nil
  /\ cancelled = FALSE
  /\ readerWg = 0
  /\ dialled = 0
  /\ net = [k \in Gens |-> "unused"]
  /\ connState = [k \in Gens |-> "Handshaking"]
  /\ readerLock = [k \in Gens |-> Free]
  /\ inbox = [k \in Gens |-> <<>>]
  /\ server = [k \in Gens |-> "none"]
  /\ packets = [k \in Gens |-> 0]
  /\ replies = [k \in Gens |-> <<>>]
  /\ written = [k \in Gens |-> {}]
  /\ events = [k \in Gens |-> <<>>]
  /\ taken = [k \in Gens |-> 0]
  /\ closed = [k \in Gens |-> FALSE]
  /\ reader = [r \in Gens |-> "unstarted"]
  /\ readConn = [r \in Gens |-> Nil]
  /\ packet = [r \in Gens |-> NoPacket]
  /\ target = [r \in Gens |-> Nil]
  /\ app = "idle"
  /\ call = "none"
  /\ subscription = Nil
  /\ caller = [g \in Callers |-> "begin"]
  /\ op = [g \in Callers |-> "Chat"]
  /\ panic = "none"

\* A panic ends the process.
Next ==
  /\ panic = "none"
  /\ \/ \E r \in Gens : Reader(r)
     \/ Application
     \/ \E g \in Callers : Caller(g)
     \/ \E k \in Gens : Server(k)

Spec == Init /\ [][Next]_vars

\* The Go scheduler runs every goroutine that can run, and the application
\* keeps receiving while it is in its event loop.  Nothing makes the server
\* send or close, or the application call.
Fairness ==
  /\ \A r \in Gens : WF_vars(panic = "none" /\ Reader(r))
  /\ \A g \in Callers : WF_vars(panic = "none" /\ Caller(g))
  /\ WF_vars(panic = "none" /\ AppContinue)
  /\ WF_vars(panic = "none" /\ AppReceive)

FairSpec == Spec /\ Fairness

-----------------------------------------------------------------------------
(* Type invariant.                                                         *)

PacketTypes ==
  (UNION {{row[2] : row \in Registered(Version, s, "Clientbound")} : s \in States})
    \cup {ErrUnknownPacket, ReadError, "none"}

\* Packets in transit, packets as read, and events.
Wires == {"success", "finish_configuration", "disconnect", "keep_alive", "chat",
          "kick_disconnect"}

SentPackets == [wire : Wires, id : Nat, state : States]

ReadPackets == [type : PacketTypes, id : Nat]

Events == [type : {"Ready", "KeepAlive", "ChatMessage", "Disconnect"}, id : Nat]

ReaderPlaces == {"unstarted", "select", "load", "lock", "read", "reply", "notify",
                 "send", "cancel", "return", "returned"}

AppPlaces == {"idle", "dial", "join", "joinRead", "channel", "spawn", "ready",
              "drain", "close"}

ClientTypes ==
  /\ conn \in Gens \cup {Nil}
  /\ eventChan \in Gens \cup {Nil}
  /\ cancelled \in BOOLEAN
  /\ readerWg \in Nat
  /\ panic \in {"none", "nil connection", "send on closed channel"}

ConnTypes ==
  /\ dialled \in 0 .. MaxConns
  /\ net \in [Gens -> {"unused", "open", "ended", "closed"}]
  /\ connState \in [Gens -> States]
  /\ readerLock \in [Gens -> Gens \cup {Free, App}]
  /\ inbox \in [Gens -> Seq(SentPackets)]
  /\ server \in [Gens -> {"none", "Login", "Configuration", "Play", "gone"}]
  /\ packets \in [Gens -> 0 .. MaxPackets]
  /\ replies \in [Gens -> Seq(Nat)]
  /\ written \in [Gens -> SUBSET (States \X DOMAIN PacketOf)]

ChanTypes ==
  /\ events \in [Gens -> Seq(Events)]
  /\ taken \in [Gens -> Nat]
  /\ closed \in [Gens -> BOOLEAN]

ReaderTypes ==
  /\ reader \in [Gens -> ReaderPlaces]
  /\ readConn \in [Gens -> Gens \cup {Nil}]
  /\ packet \in [Gens -> ReadPackets]
  /\ target \in [Gens -> Gens \cup {Nil}]

AppTypes ==
  /\ app \in AppPlaces
  /\ call \in Calls \cup {"none"}
  /\ subscription \in Gens \cup {Nil}

CallerTypes ==
  /\ caller \in [Callers -> {"begin", "state", "write"}]
  /\ op \in [Callers -> DOMAIN PacketOf]

\* Every variable keeps its type: no handler leaves a goroutine at a place that
\* has no step, and readerWg, whose counter panics below zero, never gets there.
TypeOK == ClientTypes /\ ConnTypes /\ ChanTypes /\ ReaderTypes /\ AppTypes /\ CallerTypes

-----------------------------------------------------------------------------
(* Safety.                                                                 *)

Alive(r) == reader[r] \notin {"unstarted", "returned"}

\* At most one readLoop goroutine lives at a time, whatever the application
\* calls, and readerWg counts it: JoinAndListen waits for the old one.
OneReader ==
  /\ \A r, s \in Gens : Alive(r) /\ Alive(s) => r = s
  /\ readerWg = IF \E r \in Gens : Alive(r) THEN 1 ELSE 0

\* No goroutine dereferences a nil c.Conn or sends on a closed channel.
NoPanic == panic = "none"

\* A readLoop reads the connection it was started for, never one that a later
\* Join dialled, and reports to the channel made with it.
OwnConnection ==
  \A r \in Gens :
    /\ reader[r] \in {"lock", "read"} => readConn[r] = r
    /\ reader[r] = "reply" => conn = r
    /\ reader[r] = "send" => target[r] = r

\* The keep-alives a channel tells of, as positions in it.
KeepAlives(k) == { i \in DOMAIN events[k] : events[k][i].type = "KeepAlive" }

\* A keep-alive that was answered and is still to be told of.
InHand(k) == reader[k] \in {"notify", "send"} /\ packet[k].type = "ClientboundKeepAlive"

\* The keep-alives the application is told of are exactly those readLoop has
\* answered, but for the one in hand, which comes after them: each is answered
\* once, before the application is told, and both in the server's order.
EchoesMatchEvents ==
  \A k \in Gens : net[k] = "open" =>
    LET answered == { replies[k][i] : i \in DOMAIN replies[k] }
        told     == { events[k][i].id : i \in KeepAlives(k) }
    IN  /\ answered = told \cup (IF InHand(k) THEN {packet[k].id} ELSE {})
        /\ InHand(k) => \A n \in told : n < packet[k].id
        /\ \A i, j \in DOMAIN replies[k] : i < j => replies[k][i] < replies[k][j]
        /\ \A i, j \in KeepAlives(k) : i < j => events[k][i].id < events[k][j].id

\* After a DisconnectEvent a channel carries nothing but the ReadyEvent of a
\* JoinAndListen the disconnection overtook.
DisconnectLast ==
  \A k \in Gens : \A i, j \in DOMAIN events[k] :
    i < j /\ events[k][i].type = "Disconnect" => events[k][j].type = "Ready"

\* What Chat and SetPosition put on the wire was encoded for the play state,
\* even if the connection was replaced after they checked State().
ChatOnlyInPlay ==
  \A k \in Gens : \A w \in written[k] : w[1] = "Play"

HoldsDisconnect(k) == \E i \in DOMAIN events[k] : events[k][i].type = "Disconnect"

\* An application waiting on the channel JoinAndListen returned has a readLoop
\* behind it, or a DisconnectEvent to find in the channel.
ListenerAlive ==
  app = "idle" /\ subscription # Nil /\ subscription = eventChan =>
    Alive(subscription) \/ HoldsDisconnect(subscription)

\* The same while the client has been neither kicked nor destroyed.
ListenerServed == ~cancelled => ListenerAlive

-----------------------------------------------------------------------------
(* Liveness, under FairSpec.                                               *)

InInbox(k, wire, n) ==
  \E i \in DOMAIN inbox[k] : inbox[k][i].wire = wire /\ inbox[k][i].id = n

Over(k) == cancelled \/ net[k] # "open" \/ panic # "none"

\* A keep-alive that arrives while the application listens is answered, unless
\* the connection ends or is given up first.
KeepAliveAnswered ==
  \A k \in Gens, n \in 1 .. MaxPackets :
    (subscription = k /\ InInbox(k, "keep_alive", n))
      ~> (Over(k) \/ \E i \in DOMAIN replies[k] : replies[k][i] = n)

\* A chat message that arrives while the application listens is reported.
ChatReported ==
  \A k \in Gens, n \in 1 .. MaxPackets :
    (subscription = k /\ InInbox(k, "chat", n))
      ~> (Over(k) \/ \E i \in DOMAIN events[k] : events[k][i] = [type |-> "ChatMessage", id |-> n])

\* An application that listens, with a client that has been neither kicked nor
\* destroyed before, hears of the end of its connection, unless it destroys
\* the client itself.
DisconnectReported ==
  \A k \in Gens :
    (subscription = k /\ ~cancelled /\ (net[k] = "ended" \/ server[k] = "gone"))
      ~> (HeardDisconnect \/ call = "Destroy")

\* JoinAndListen, having joined, returns: the readLoop it waits for comes to an
\* end, and there is room for ReadyEvent unless the new readLoop has filled the
\* channel, from which nobody can receive yet, before it.
JoinReturns ==
  (app = "spawn") ~>
    \/ app = "idle"
    \/ app = "ready" /\ Len(events[eventChan]) - taken[eventChan] >= EventCount

\* Destroy returns when the application has heard of the disconnection.
DestroyAfterDisconnect == (app = "drain" /\ HeardDisconnect) ~> (app = "idle")

\* Destroy returns.
DestroyReturns == (app = "drain") ~> (app = "idle")

=============================================================================
