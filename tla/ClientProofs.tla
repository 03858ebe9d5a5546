---------------------------- MODULE ClientProofs ----------------------------
(***************************************************************************)
(* Theorems about Client, for every version, buffer size, set of calls,    *)
(* number of callers and server.                                           *)
(*                                                                         *)
(*   TypeCorrect     the type invariant                                    *)
(*   OneReaderHolds  at most one readLoop lives, whatever the application  *)
(*                   calls and whenever                                    *)
(*   CarefulIsSafe   a careful application's readers stay with their own   *)
(*                   connection and channel, and without callers nothing   *)
(*                   panics                                                *)
(*                                                                         *)
(* The first two rest on the inductive invariant TypeInv, the third on     *)
(* CarefulInv.                                                             *)
(***************************************************************************)
EXTENDS Client, TLAPS

-----------------------------------------------------------------------------
(* Types.                                                                  *)

\* What places imply about the numbers the goroutines hold.
Places ==
  /\ \A r \in Gens : reader[r] \in {"lock", "read"} => readConn[r] \in Gens
  /\ app \in {"join", "joinRead", "channel", "spawn", "ready"} => dialled \in Gens
  /\ app \in {"join", "joinRead"} => conn \in Gens
  /\ app \in {"spawn", "ready"} => eventChan = dialled

\* Nothing a lemma says of a group of variables depends on the others.
LEMMA Stable ==
  /\ ConnTypes /\ UNCHANGED connVars => ConnTypes'
  /\ ChanTypes /\ UNCHANGED chanVars => ChanTypes'
  /\ ReaderTypes /\ UNCHANGED readerVars => ReaderTypes'
  /\ AppTypes /\ UNCHANGED appVars => AppTypes'
  /\ CallerTypes /\ UNCHANGED callerVars => CallerTypes'
<1>1. ConnTypes /\ UNCHANGED connVars => ConnTypes'
  BY DEF ConnTypes, connVars
<1>2. ChanTypes /\ UNCHANGED chanVars => ChanTypes'
  BY DEF ChanTypes, chanVars
<1>3. ReaderTypes /\ UNCHANGED readerVars => ReaderTypes'
  BY DEF ReaderTypes, readerVars
<1>4. AppTypes /\ UNCHANGED appVars => AppTypes'
  BY DEF AppTypes, appVars
<1>5. CallerTypes /\ UNCHANGED callerVars => CallerTypes'
  BY DEF CallerTypes, callerVars
<1> QED BY <1>1, <1>2, <1>3, <1>4, <1>5

\* A lookup yields a registered packet type or ErrUnknownPacket.
LEMMA NewPacketType ==
  ASSUME NEW s \in States, NEW w
  PROVE  NewPacket(Version, s, "Clientbound", w) \in PacketTypes
<1> DEFINE found == { row \in Registered(Version, s, "Clientbound") :
                        row[1] = w /\ row[2] \in packetConstructors }
<1>1. CASE found = {}
  BY <1>1 DEF NewPacket, PacketTypes
<1>2. CASE found # {}
  <2>1. PICK row \in found : row = CHOOSE x \in found : TRUE
    BY <1>2
  <2>2. NewPacket(Version, s, "Clientbound", w) = row[2]
    BY <1>2, <2>1 DEF NewPacket
  <2> QED BY <2>2 DEF PacketTypes
<1> QED BY <1>1, <1>2

\* So does decoding a packet, unless it is a read error.
LEMMA ReadResultsType ==
  ASSUME ConnTypes, NEW k \in Gens
  PROVE  ReadResults(k) \subseteq ReadPackets
<1>1. CASE Drained(k)
  BY <1>1 DEF ReadResults, PacketTypes, ReadPackets
<1>2. CASE ~Drained(k)
  <2>1. inbox[k] \in Seq(SentPackets) /\ inbox[k] # <<>>
    BY <1>2 DEF Drained, ConnTypes
  <2>2. Head(inbox[k]) \in SentPackets
    BY <2>1
  <2>3. Head(inbox[k]).id \in Nat
    BY <2>2 DEF SentPackets
  <2>4. connState[k] \in States
    BY DEF ConnTypes
  <2>5. Decode(k, Head(inbox[k])) \subseteq PacketTypes
    BY <2>4, NewPacketType DEF Decode, PacketTypes
  <2> QED BY <1>2, <2>3, <2>5 DEF ReadResults, ReadPackets
<1> QED BY <1>1, <1>2

\* What is left of an inbox when a packet has been read.
LEMMA RestType ==
  ASSUME ConnTypes, NEW k \in Gens
  PROVE  RestOfInbox(k) \in Seq(SentPackets)
<1>1. inbox[k] \in Seq(SentPackets)
  BY DEF ConnTypes
<1> QED BY <1>1 DEF RestOfInbox, Drained

\* Every handler continues at a place that exists, and at none that reads.
LEMMA AfterPlaces ==
  ASSUME NEW type
  PROVE  /\ AfterRead(type) \in ReaderPlaces \ {"lock", "read", "unstarted", "returned"}
         /\ AfterEvent(type) \in ReaderPlaces \ {"lock", "read", "unstarted", "returned"}
BY DEF AfterRead, AfterEvent, ReaderPlaces

-----------------------------------------------------------------------------
(* One reader.                                                             *)

\* The reader that may be alive: the one JoinAndListen has just started, or the
\* one behind the channel it returned.
Current == IF app = "ready" THEN dialled ELSE subscription

\* Only the current reader lives, readerWg counts it, and the reader about to
\* be started, like those of connections not yet dialled, is new.
Living ==
  /\ \A r \in Gens : Alive(r) => r = Current
  /\ readerWg = IF \E r \in Gens : Alive(r) THEN 1 ELSE 0
  /\ \A r \in Gens : r > dialled => reader[r] = "unstarted"
  /\ app \in {"join", "joinRead", "channel", "spawn"} => reader[dialled] = "unstarted"

TypeInv == TypeOK /\ Places /\ Living

LEMMA InitType == Init => TypeInv
<1> SUFFICES ASSUME Init PROVE TypeInv
  OBVIOUS
<1>1. ClientTypes
  BY DEF Init, ClientTypes
<1>2. ConnTypes
  <2>1. dialled \in 0 .. MaxConns /\ packets \in [Gens -> 0 .. MaxPackets]
    BY ClientAssumption DEF Init
  <2>2. inbox \in [Gens -> Seq(SentPackets)] /\ replies \in [Gens -> Seq(Nat)]
    BY DEF Init
  <2>3. written \in [Gens -> SUBSET (States \X DOMAIN PacketOf)]
    BY DEF Init
  <2> QED BY <2>1, <2>2, <2>3 DEF Init, ConnTypes, States
<1>3. ChanTypes
  BY DEF Init, ChanTypes
<1>4. ReaderTypes
  BY DEF Init, ReaderTypes, ReaderPlaces, NoPacket, ReadPackets, PacketTypes
<1>5. AppTypes
  BY DEF Init, AppTypes, AppPlaces
<1>6. CallerTypes
  BY DEF Init, CallerTypes, PacketOf
<1>7. Places /\ Living
  BY DEF Init, Places, Living, Alive
<1> QED BY <1>1, <1>2, <1>3, <1>4, <1>5, <1>6, <1>7 DEF TypeInv, TypeOK

-----------------------------------------------------------------------------
(* The steps of a reader preserve TypeInv.                                 *)

LEMMA CrashType ==
  ASSUME TypeInv, NEW why \in {"nil connection", "send on closed channel"}, Crash(why)
  PROVE  TypeInv'
<1>1. TypeOK'
  BY Stable DEF TypeInv, TypeOK, Crash, ClientTypes
<1>2. Places' /\ Living'
  BY DEF TypeInv, Places, Living, Current, Alive, Crash, connVars, readerVars, appVars
<1> QED BY <1>1, <1>2 DEF TypeInv

\* A live reader moves on and stays alive.
LEMMA ReaderMoves ==
  ASSUME TypeInv, NEW r \in Gens, Alive(r),
         NEW place \in ReaderPlaces \ {"unstarted", "returned"},
         reader' = [reader EXCEPT ![r] = place],
         place \in {"lock", "read"} => readConn'[r] \in Gens,
         \A q \in Gens \ {r} : readConn'[q] = readConn[q],
         UNCHANGED <<app, dialled, subscription, readerWg, conn, eventChan>>
  PROVE  Places' /\ Living'
<1>1. reader \in [Gens -> ReaderPlaces]
  BY DEF TypeInv, TypeOK, ReaderTypes
<1>2. \A q \in Gens : Alive(q)' <=> Alive(q)
  BY <1>1 DEF Alive
<1>3. Living'
  BY <1>1, <1>2 DEF TypeInv, Living, Current, Alive
<1>4. Places'
  BY <1>1 DEF TypeInv, Places
<1> QED BY <1>3, <1>4

\* An event sent on a channel.
LEMMA AppendType ==
  ASSUME ChanTypes, NEW g, NEW e \in Events,
         events' = [events EXCEPT ![g] = Append(@, e)],
         UNCHANGED <<taken, closed>>
  PROVE  ChanTypes'
<1>1. events' \in [Gens -> Seq(Events)]
  <2>1. CASE g \in Gens
    <3>1. Append(events[g], e) \in Seq(Events)
      BY <2>1 DEF ChanTypes
    <3> QED BY <2>1, <3>1 DEF ChanTypes
  <2>2. CASE g \notin Gens
    BY <2>2 DEF ChanTypes
  <2> QED BY <2>1, <2>2
<1> QED BY <1>1 DEF ChanTypes

LEMMA ReaderType ==
  ASSUME TypeInv, NEW r \in Gens, Reader(r)
  PROVE  TypeInv'
<1> USE DEF TypeInv, TypeOK
<1>0. /\ reader[r] \in ReaderPlaces
      /\ readConn[r] \in Gens \cup {Nil}
      /\ packet[r] \in ReadPackets
      /\ target[r] \in Gens \cup {Nil}
  BY DEF ReaderTypes
<1>1. CASE ReaderSelect(r)
  <2>1. ClientTypes' /\ ConnTypes' /\ ChanTypes' /\ AppTypes' /\ CallerTypes'
    BY <1>1, Stable DEF ReaderSelect, ClientTypes
  <2>2. ReaderTypes'
    BY <1>1 DEF ReaderSelect, ReaderTypes, ReaderPlaces
  <2>3. Places' /\ Living'
    BY <1>1, ReaderMoves DEF ReaderSelect, Alive, ReaderPlaces, connVars, appVars
  <2> QED BY <2>1, <2>2, <2>3
<1>2. CASE ReaderLoad(r)
  <2>1. CASE Crash("nil connection")
    BY <2>1, CrashType
  <2>2. CASE ~Crash("nil connection")
    <3>1. ClientTypes' /\ ConnTypes' /\ ChanTypes' /\ AppTypes' /\ CallerTypes'
      BY <1>2, <2>2, Stable DEF ReaderLoad, ClientTypes
    <3>2. ReaderTypes'
      BY <1>2, <2>2 DEF ReaderLoad, ReaderTypes, ReaderPlaces, ClientTypes
    <3>3. Places' /\ Living'
      BY <1>2, <2>2, ReaderMoves
         DEF ReaderLoad, Alive, ReaderPlaces, ReaderTypes, ClientTypes, connVars, appVars
    <3> QED BY <3>1, <3>2, <3>3
  <2> QED BY <2>1, <2>2
<1>3. CASE ReaderLock(r)
  <2>1. ClientTypes' /\ ChanTypes' /\ AppTypes' /\ CallerTypes'
    BY <1>3, Stable DEF ReaderLock, ClientTypes
  <2>2. ConnTypes'
    BY <1>3 DEF ReaderLock, ConnTypes
  <2>3. ReaderTypes'
    BY <1>3 DEF ReaderLock, ReaderTypes, ReaderPlaces
  <2>4. Places' /\ Living'
    BY <1>3, ReaderMoves DEF ReaderLock, Alive, ReaderPlaces, Places, appVars
  <2> QED BY <2>1, <2>2, <2>3, <2>4
<1>4. CASE ReaderRead(r)
  <2>1. readConn[r] \in Gens
    BY <1>4 DEF ReaderRead, Places
  <2>2. PICK p \in ReadPackets :
          /\ packet' = [packet EXCEPT ![r] = p]
          /\ reader' = [reader EXCEPT ![r] = AfterRead(p.type)]
    BY <1>4, <2>1, ReadResultsType DEF ReaderRead
  <2>3. ClientTypes' /\ ChanTypes' /\ AppTypes' /\ CallerTypes'
    BY <1>4, Stable DEF ReaderRead, ClientTypes
  <2>4. ConnTypes'
    BY <1>4, <2>1, RestType DEF ReaderRead, ConnTypes
  <2>5. ReaderTypes'
    BY <1>4, <2>2, AfterPlaces DEF ReaderRead, ReaderTypes
  <2>6. Places' /\ Living'
    BY <1>4, <2>2, AfterPlaces, ReaderMoves DEF ReaderRead, Alive, appVars
  <2> QED BY <2>3, <2>4, <2>5, <2>6
<1>5. CASE ReaderReply(r)
  <2>1. CASE Crash("nil connection")
    BY <2>1, CrashType
  <2>2. CASE ~Crash("nil connection")
    <3>1. ClientTypes' /\ ChanTypes' /\ AppTypes' /\ CallerTypes'
      BY <1>5, <2>2, Stable DEF ReaderReply, ClientTypes
    <3>2. conn \in Gens /\ packet[r].id \in Nat
      BY <1>0, <1>5, <2>2 DEF ReaderReply, ClientTypes, ReadPackets
    <3>3. Append(replies[conn], packet[r].id) \in Seq(Nat)
      BY <3>2 DEF ConnTypes
    <3>4. ConnTypes'
      BY <1>5, <2>2, <3>2, <3>3 DEF ReaderReply, ConnTypes
    <3>5. ReaderTypes'
      BY <1>5, <2>2 DEF ReaderReply, ReaderTypes, ReaderPlaces
    <3>6. Places' /\ Living'
      BY <1>5, <2>2, ReaderMoves DEF ReaderReply, Alive, ReaderPlaces, appVars
    <3> QED BY <3>1, <3>4, <3>5, <3>6
  <2> QED BY <2>1, <2>2
<1>6. CASE ReaderNotify(r)
  <2>1. PICK place \in ReaderPlaces \ {"lock", "read", "unstarted", "returned"} :
          reader' = [reader EXCEPT ![r] = place]
    BY <1>6, AfterPlaces DEF ReaderNotify, ReaderPlaces
  <2>2. ClientTypes' /\ ConnTypes' /\ ChanTypes' /\ AppTypes' /\ CallerTypes'
    BY <1>6, Stable DEF ReaderNotify, ClientTypes
  <2>3. ReaderTypes'
    BY <1>6, <2>1 DEF ReaderNotify, ReaderTypes, ClientTypes
  <2>4. Places' /\ Living'
    BY <1>6, <2>1, ReaderMoves DEF ReaderNotify, Alive, connVars, appVars
  <2> QED BY <2>2, <2>3, <2>4
<1>7. CASE ReaderSend(r)
  <2>1. CASE Crash("send on closed channel")
    BY <2>1, CrashType
  <2>2. CASE ~Crash("send on closed channel")
    <3>1. ClientTypes' /\ ConnTypes' /\ AppTypes' /\ CallerTypes'
      BY <1>7, <2>2, Stable DEF ReaderSend, ClientTypes
    <3>2. PICK e \in Events :
            events' = [events EXCEPT ![target[r]] = Append(events[target[r]], e)]
      <4>1. Event(packet[r]) \in Events
        BY <1>0 DEF Event, Events, ReadPackets
      <4> QED BY <1>7, <2>2, <4>1 DEF ReaderSend
    <3>3. ChanTypes'
      <4>1. UNCHANGED <<taken, closed>>
        BY <1>7, <2>2 DEF ReaderSend
      <4> QED BY <3>2, <4>1, AppendType
    <3>4. ReaderTypes'
      BY <1>7, <2>2, AfterPlaces DEF ReaderSend, ReaderTypes
    <3>5. Places' /\ Living'
      BY <1>7, <2>2, AfterPlaces, ReaderMoves DEF ReaderSend, Alive, connVars, appVars
    <3> QED BY <3>1, <3>3, <3>4, <3>5
  <2> QED BY <2>1, <2>2
<1>8. CASE ReaderCancel(r)
  <2>1. ClientTypes' /\ ConnTypes' /\ ChanTypes' /\ AppTypes' /\ CallerTypes'
    BY <1>8, Stable DEF ReaderCancel, ClientTypes
  <2>2. ReaderTypes'
    BY <1>8 DEF ReaderCancel, ReaderTypes, ReaderPlaces
  <2>3. Places' /\ Living'
    BY <1>8, ReaderMoves DEF ReaderCancel, Alive, ReaderPlaces, connVars, appVars
  <2> QED BY <2>1, <2>2, <2>3
<1>9. CASE ReaderReturn(r)
  <2>1. readerWg = 1 /\ \A q \in Gens : Alive(q) => q = r
    BY <1>9 DEF ReaderReturn, Living, Alive
  <2>2. ReaderTypes'
    BY <1>9 DEF ReaderReturn, ReaderTypes, ReaderPlaces
  <2>3. readerWg' = 0
    BY <1>9, <2>1 DEF ReaderReturn
  <2>4. ClientTypes' /\ ConnTypes' /\ ChanTypes' /\ AppTypes' /\ CallerTypes'
    <3>1. ClientTypes'
      <4>1. UNCHANGED <<conn, eventChan, cancelled, panic>>
        BY <1>9 DEF ReaderReturn
      <4> QED BY <2>3, <4>1 DEF ClientTypes
    <3>2. UNCHANGED <<connVars, chanVars, appVars, callerVars>>
      BY <1>9 DEF ReaderReturn
    <3> QED BY <3>1, <3>2, Stable
  <2>5. Places' /\ Living'
    <3>1. \A q \in Gens : reader'[q] \in {"unstarted", "returned"}
      BY <1>9, <2>1 DEF ReaderReturn, Alive, ReaderTypes
    <3> QED BY <1>9, <2>3, <3>1 DEF ReaderReturn, Places, Living, Alive, ReaderTypes, connVars, appVars
  <2> QED BY <2>2, <2>4, <2>5
<1> QED
  BY <1>1, <1>2, <1>3, <1>4, <1>5, <1>6, <1>7, <1>8, <1>9 DEF Reader


-----------------------------------------------------------------------------
(* So do those of the application.                                         *)

\* Closing c.Conn.
LEMMA CloseType ==
  ASSUME ClientTypes, ConnTypes, CloseConn,
         UNCHANGED <<eventChan, cancelled, readerWg, dialled, connState, readerLock,
                     inbox, server, packets, replies, written, panic>>
  PROVE  ClientTypes' /\ ConnTypes'
<1>1. ClientTypes'
  BY DEF CloseConn, ClientTypes
<1>2. net' \in [Gens -> {"unused", "open", "ended", "closed"}]
  BY DEF CloseConn, ConnTypes
<1>3. ConnTypes'
  BY <1>2 DEF ConnTypes
<1> QED BY <1>1, <1>3

\* What Join makes of a packet.
LEMMA JoinStepsType ==
  ASSUME NEW s \in States, NEW type, NEW step \in JoinSteps(s, type)
  PROVE  step[1] \in States /\ step[2] \in {"join", "channel", "idle"}
<1>1. Joined \in {"channel", "idle"}
  BY DEF Joined
<1>2. Version \in Nat /\ V1_20_2 \in Nat /\ V1_21_3 \in Nat
  BY ClientAssumption
     DEF V1_20_2, V1_21_3, Versions, First, Latest, V1_7, V1_21_11
<1>3. CASE type = "ClientboundLoginSuccess" /\ Version < V1_20_2
  BY <1>1, <1>3 DEF JoinSteps, States
<1>4. CASE type = "ClientboundLoginSuccess" /\ Version >= V1_20_2
  BY <1>1, <1>2, <1>4 DEF JoinSteps, States
<1>5. CASE type = "ClientboundFinishConfiguration"
  BY <1>1, <1>2, <1>5 DEF JoinSteps, States
<1>6. CASE type \in {"ClientboundDisconnect", ReadError, ErrUnknownPacket}
  BY <1>6 DEF JoinSteps, States, ReadError, ErrUnknownPacket
<1>7. CASE type \notin {"ClientboundLoginSuccess", "ClientboundFinishConfiguration",
                        "ClientboundDisconnect", ReadError, ErrUnknownPacket}
  BY <1>7 DEF JoinSteps
<1> QED BY <1>2, <1>3, <1>4, <1>5, <1>6, <1>7

LEMMA ConnectType ==
  ASSUME TypeInv, AppConnect \/ AppDialFails \/ AppDial
  PROVE  TypeInv'
<1> USE DEF TypeInv, TypeOK
<1>1. CASE AppConnect
  <2>1. ClientTypes' /\ ConnTypes'
    BY <1>1, CloseType DEF AppConnect
  <2>2. ChanTypes' /\ ReaderTypes' /\ CallerTypes'
    BY <1>1, Stable DEF AppConnect
  <2>3. AppTypes'
    BY <1>1 DEF AppConnect, AppTypes, AppPlaces
  <2>4. Places' /\ Living'
    BY <1>1 DEF AppConnect, Places, Living, Current, Alive, readerVars
  <2> QED BY <2>1, <2>2, <2>3, <2>4
<1>2. CASE AppDialFails
  <2>1. ClientTypes' /\ ConnTypes' /\ ChanTypes' /\ ReaderTypes' /\ CallerTypes'
    BY <1>2, Stable DEF AppDialFails, ClientTypes
  <2>2. AppTypes'
    BY <1>2 DEF AppDialFails, AppTypes, AppPlaces
  <2>3. Places' /\ Living'
    BY <1>2 DEF AppDialFails, Places, Living, Current, Alive, connVars, readerVars
  <2> QED BY <2>1, <2>2, <2>3
<1>3. CASE AppDial
  <2>1. dialled \in Nat /\ dialled' = dialled + 1 /\ dialled' \in Gens /\ conn' = dialled'
    BY <1>3 DEF AppDial, ConnTypes
  <2>2. ClientTypes'
    BY <1>3, <2>1 DEF AppDial, ClientTypes
  <2>3. ConnTypes'
    <3>1. /\ net' \in [Gens -> {"unused", "open", "ended", "closed"}]
          /\ connState' \in [Gens -> States]
          /\ server' \in [Gens -> {"none", "Login", "Configuration", "Play", "gone"}]
      BY <1>3, <2>1 DEF AppDial, ConnTypes, States
    <3>2. dialled' \in 0 .. MaxConns
      BY <2>1 DEF Gens
    <3>3. UNCHANGED <<readerLock, inbox, packets, replies, written>>
      BY <1>3 DEF AppDial
    <3> QED BY <3>1, <3>2, <3>3 DEF ConnTypes
  <2>4. ChanTypes' /\ ReaderTypes' /\ CallerTypes'
    BY <1>3, Stable DEF AppDial
  <2>5. app' \in {"join", "idle"} /\ app = "dial" /\ UNCHANGED <<call, subscription, readerWg, readerVars>>
    BY <1>3 DEF AppDial
  <2>6. AppTypes'
    BY <2>5 DEF AppTypes, AppPlaces
  <2>7. Living'
    <3>1. \A q \in Gens : q > dialled => reader[q] = "unstarted"
      BY DEF Living
    <3>2. UNCHANGED <<reader, readerWg>> /\ Current' = Current
      BY <2>5 DEF Current, readerVars
    <3>3. reader'[dialled'] = "unstarted"
      BY <2>1, <3>1, <3>2
    <3>4. \A q \in Gens : q > dialled' => reader'[q] = "unstarted"
      BY <2>1, <3>1, <3>2 DEF Gens
    <3> QED BY <3>2, <3>3, <3>4 DEF Living, Alive
  <2>8. Places'
    BY <2>1, <2>5 DEF Places, readerVars
  <2> QED BY <2>2, <2>3, <2>4, <2>6, <2>7, <2>8
<1> QED BY <1>1, <1>2, <1>3

LEMMA JoinType ==
  ASSUME TypeInv, AppJoinLock \/ AppJoinRead
  PROVE  TypeInv'
<1> USE DEF TypeInv, TypeOK
<1>1. CASE AppJoinLock
  <2>1. ClientTypes' /\ ChanTypes' /\ ReaderTypes' /\ CallerTypes'
    BY <1>1, Stable DEF AppJoinLock, ClientTypes
  <2>2. ConnTypes'
    BY <1>1 DEF AppJoinLock, ConnTypes
  <2>3. AppTypes'
    BY <1>1 DEF AppJoinLock, AppTypes, AppPlaces
  <2>4. Places' /\ Living'
    BY <1>1 DEF AppJoinLock, Places, Living, Current, Alive, readerVars
  <2> QED BY <2>1, <2>2, <2>3, <2>4
<1>2. CASE AppJoinRead
  <2>1. conn \in Gens /\ connState[conn] \in States
    BY <1>2 DEF AppJoinRead, Places, ConnTypes
  <2>0. PICK p \in ReadResults(conn) : \E step \in JoinSteps(connState[conn], p.type) :
          /\ connState' = [connState EXCEPT ![conn] = step[1]]
          /\ app' = step[2]
    BY <1>2 DEF AppJoinRead
  <2>2. PICK step \in JoinSteps(connState[conn], p.type) :
          /\ connState' = [connState EXCEPT ![conn] = step[1]]
          /\ app' = step[2]
    BY <2>0
  <2>3. step[1] \in States /\ app' \in {"join", "channel", "idle"}
    BY <2>1, <2>2, JoinStepsType
  <2>4. ClientTypes' /\ ChanTypes' /\ ReaderTypes' /\ CallerTypes'
    BY <1>2, Stable DEF AppJoinRead, ClientTypes
  <2>5. ConnTypes'
    BY <1>2, <2>1, <2>2, <2>3, RestType DEF AppJoinRead, ConnTypes
  <2>6. AppTypes'
    BY <1>2, <2>3 DEF AppJoinRead, AppTypes, AppPlaces
  <2>7. Places' /\ Living'
    <3>1. app = "joinRead" /\ UNCHANGED <<conn, eventChan, readerWg, dialled, subscription, readerVars>>
      BY <1>2 DEF AppJoinRead
    <3> QED BY <2>3, <3>1 DEF Places, Living, Current, Alive, readerVars
  <2> QED BY <2>4, <2>5, <2>6, <2>7
<1> QED BY <1>1, <1>2

LEMMA ListenType ==
  ASSUME TypeInv, AppMakeChannel \/ AppSpawn \/ AppReady
  PROVE  TypeInv'
<1> USE DEF TypeInv, TypeOK
<1>1. CASE AppMakeChannel
  <2>1. ClientTypes'
    BY <1>1 DEF AppMakeChannel, ClientTypes, Places
  <2>2. ConnTypes' /\ ReaderTypes' /\ CallerTypes'
    BY <1>1, Stable DEF AppMakeChannel
  <2>3. ChanTypes'
    BY <1>1 DEF AppMakeChannel, ChanTypes
  <2>4. AppTypes'
    BY <1>1 DEF AppMakeChannel, AppTypes, AppPlaces
  <2>5. Places' /\ Living'
    BY <1>1 DEF AppMakeChannel, Places, Living, Current, Alive, connVars, readerVars
  <2> QED BY <2>1, <2>2, <2>3, <2>4, <2>5
<1>2. CASE AppSpawn
  <2>1. /\ app = "spawn"
        /\ readerWg = 0
        /\ readerWg' = 1
        /\ reader' = [reader EXCEPT ![dialled] = "select"]
        /\ app' = "ready"
        /\ UNCHANGED <<conn, eventChan, cancelled, panic, dialled, readConn, packet,
                       target, call, subscription>>
    BY <1>2 DEF AppSpawn, ReadersDone, AddReader, connVars
  <2>2. dialled \in Gens /\ reader \in [Gens -> ReaderPlaces]
    BY <2>1 DEF Places, ReaderTypes
  <2>3. \A q \in Gens : ~Alive(q)
    BY <2>1 DEF Living
  <2>4. ClientTypes'
    BY <2>1 DEF ClientTypes
  <2>5. ConnTypes' /\ ChanTypes' /\ CallerTypes'
    BY <1>2, Stable DEF AppSpawn
  <2>6. ReaderTypes' /\ AppTypes'
    BY <2>1 DEF ReaderTypes, ReaderPlaces, AppTypes, AppPlaces
  <2>7. Places'
    BY <2>1, <2>2 DEF Places
  <2>8. Living'
    <3>1. \A q \in Gens : Alive(q)' <=> q = dialled
      BY <2>1, <2>2, <2>3 DEF Alive
    <3>2. \A q \in Gens : q > dialled' => reader'[q] = "unstarted"
      BY <2>1, <2>2 DEF Living, Gens
    <3> QED BY <2>1, <2>2, <3>1, <3>2 DEF Living, Current
  <2> QED BY <2>4, <2>5, <2>6, <2>7, <2>8
<1>3. CASE AppReady
  <2>1. ClientTypes'
    BY <1>3 DEF AppReady, ClientTypes
  <2>2. ConnTypes' /\ ReaderTypes' /\ CallerTypes'
    BY <1>3, Stable DEF AppReady
  <2>3. ChanTypes'
    <3>1. Ready \in Events
      BY DEF Ready, Events
    <3>2. /\ events' = [events EXCEPT ![eventChan] = Append(@, Ready)]
          /\ UNCHANGED <<taken, closed>>
      BY <1>3 DEF AppReady
    <3> QED BY <3>1, <3>2, AppendType
  <2>4. AppTypes'
    BY <1>3 DEF AppReady, AppTypes, AppPlaces, ClientTypes
  <2>5. Places' /\ Living'
    BY <1>3 DEF AppReady, Places, Living, Current, Alive, connVars, readerVars
  <2> QED BY <2>1, <2>2, <2>3, <2>4, <2>5
<1> QED BY <1>1, <1>2, <1>3

LEMMA ReceiveType ==
  ASSUME TypeInv, AppReceive
  PROVE  TypeInv'
<1> USE DEF TypeInv, TypeOK
<1>1. ClientTypes' /\ ConnTypes' /\ ReaderTypes' /\ AppTypes' /\ CallerTypes'
  BY Stable DEF AppReceive, ClientTypes
<1>2. ChanTypes'
  BY DEF AppReceive, ChanTypes, AppTypes
<1>3. Places' /\ Living'
  BY DEF AppReceive, Places, Living, Current, Alive, connVars, readerVars, appVars
<1> QED BY <1>1, <1>2, <1>3

LEMMA LeaveType ==
  ASSUME TypeInv, AppClose \/ AppDestroy \/ AppDrain \/ AppCloseLast
  PROVE  TypeInv'
<1> USE DEF TypeInv, TypeOK
<1>1. CASE AppClose
  <2>1. ClientTypes' /\ ConnTypes'
    BY <1>1, CloseType DEF AppClose
  <2>2. ChanTypes' /\ ReaderTypes' /\ AppTypes' /\ CallerTypes'
    BY <1>1, Stable DEF AppClose
  <2>3. Places' /\ Living'
    BY <1>1 DEF AppClose, Places, Living, Current, Alive, readerVars, appVars
  <2> QED BY <2>1, <2>2, <2>3
<1>2. CASE AppDestroy
  <2>1. ClientTypes' /\ ConnTypes' /\ ChanTypes' /\ ReaderTypes' /\ CallerTypes'
    BY <1>2, Stable DEF AppDestroy, ClientTypes
  <2>2. AppTypes'
    BY <1>2 DEF AppDestroy, AppTypes, AppPlaces
  <2>3. Places' /\ Living'
    BY <1>2 DEF AppDestroy, Places, Living, Current, Alive, connVars, readerVars
  <2> QED BY <2>1, <2>2, <2>3
<1>3. CASE AppDrain
  <2>1. ClientTypes' /\ ConnTypes' /\ ReaderTypes' /\ CallerTypes'
    BY <1>3, Stable DEF AppDrain, ClientTypes
  <2>2. ChanTypes'
    BY <1>3 DEF AppDrain, ChanTypes
  <2>3. AppTypes'
    BY <1>3 DEF AppDrain, AppTypes, AppPlaces
  <2>4. Places' /\ Living'
    BY <1>3 DEF AppDrain, Places, Living, Current, Alive, connVars, readerVars
  <2> QED BY <2>1, <2>2, <2>3, <2>4
<1>4. CASE AppCloseLast
  <2>1. ClientTypes' /\ ConnTypes'
    BY <1>4, CloseType DEF AppCloseLast
  <2>2. ChanTypes' /\ ReaderTypes' /\ CallerTypes'
    BY <1>4, Stable DEF AppCloseLast
  <2>3. AppTypes'
    BY <1>4 DEF AppCloseLast, AppTypes, AppPlaces
  <2>4. Places' /\ Living'
    BY <1>4 DEF AppCloseLast, Places, Living, Current, Alive, readerVars
  <2> QED BY <2>1, <2>2, <2>3, <2>4
<1> QED BY <1>1, <1>2, <1>3, <1>4

-----------------------------------------------------------------------------
(* So do those of the callers and of the server, and nothing else moves.   *)

LEMMA CallerType ==
  ASSUME TypeInv, NEW g \in Callers, Caller(g)
  PROVE  TypeInv'
<1> USE DEF TypeInv, TypeOK
<1>1. CASE Crash("nil connection")
  BY <1>1, CrashType
<1>2. CASE ~Crash("nil connection")
  <2>1. ClientTypes' /\ ChanTypes' /\ ReaderTypes' /\ AppTypes'
    BY <1>2, Stable DEF Caller, CallerBegin, CallerState, CallerWrite, ClientTypes
  <2>2. CallerTypes'
    BY <1>2 DEF Caller, CallerBegin, CallerState, CallerWrite, CallerTypes
  <2>3. ConnTypes'
    <3>1. CASE CallerBegin(g) \/ CallerState(g)
      BY <1>2, <3>1, Stable DEF CallerBegin, CallerState
    <3>2. CASE CallerWrite(g)
      <4>1. conn \in Gens /\ connState[conn] \in States /\ op[g] \in DOMAIN PacketOf
        BY <1>2, <3>2 DEF CallerWrite, ClientTypes, ConnTypes, CallerTypes
      <4>2. \/ written' = written
            \/ written' = [written EXCEPT ![conn] = @ \cup {<<connState[conn], op[g]>>}]
        BY <1>2, <3>2 DEF CallerWrite
      <4>3. written' \in [Gens -> SUBSET (States \X DOMAIN PacketOf)]
        <5>1. written[conn] \cup {<<connState[conn], op[g]>>}
                \in SUBSET (States \X DOMAIN PacketOf)
          BY <4>1 DEF ConnTypes
        <5>2. written \in [Gens -> SUBSET (States \X DOMAIN PacketOf)]
          BY DEF ConnTypes
        <5> QED BY <4>1, <4>2, <5>1, <5>2
      <4>4. UNCHANGED <<dialled, net, connState, readerLock, inbox, server, packets, replies>>
        BY <1>2, <3>2 DEF CallerWrite
      <4> QED BY <4>3, <4>4 DEF ConnTypes
    <3> QED BY <3>1, <3>2 DEF Caller
  <2>4. Places' /\ Living'
    <3>1. UNCHANGED <<conn, eventChan, readerWg, dialled, app, subscription, reader, readConn>>
      BY <1>2 DEF Caller, CallerBegin, CallerState, CallerWrite, connVars, readerVars, appVars
    <3> QED BY <3>1 DEF Places, Living, Current, Alive
  <2> QED BY <2>1, <2>2, <2>3, <2>4
<1> QED BY <1>1, <1>2

\* A packet on its way.
LEMMA DeliverType ==
  ASSUME ConnTypes, NEW k \in Gens, NEW p \in SentPackets
  PROVE  [inbox EXCEPT ![k] = Append(@, p)] \in [Gens -> Seq(SentPackets)]
<1>1. Append(inbox[k], p) \in Seq(SentPackets)
  BY DEF ConnTypes
<1> QED BY <1>1 DEF ConnTypes

LEMMA ServerType ==
  ASSUME TypeInv, NEW k \in Gens, Server(k)
  PROVE  TypeInv'
<1> USE DEF TypeInv, TypeOK
<1>1. UNCHANGED <<conn, eventChan, cancelled, readerWg, dialled, connState, readerLock,
                  replies, written, chanVars, readerVars, appVars, callerVars, panic>>
  BY DEF Server, ServerLogin, ServerPlay, ServerEnd
<1>2. ClientTypes' /\ ChanTypes' /\ ReaderTypes' /\ AppTypes' /\ CallerTypes'
  BY <1>1, Stable DEF ClientTypes
<1>3. inbox' \in [Gens -> Seq(SentPackets)]
  <2> DEFINE Sent(w, n, s) == [wire |-> w, id |-> n, state |-> s]
             After(p) == [inbox EXCEPT ![k] = Append(@, p)]
  <2>0. \A p \in SentPackets : After(p) \in [Gens -> Seq(SentPackets)]
    BY DeliverType
  <2>1. CASE ServerLogin(k)
    <3>1. /\ Sent("success", 0, "Login") \in SentPackets
          /\ Sent("finish_configuration", 0, "Configuration") \in SentPackets
          /\ Sent("disconnect", 0, "Login") \in SentPackets
          /\ Sent("disconnect", 0, "Configuration") \in SentPackets
      BY DEF SentPackets, States, Wires
    <3>2. \/ inbox' = After(Sent("success", 0, "Login"))
          \/ inbox' = After(Sent("finish_configuration", 0, "Configuration"))
          \/ inbox' = After(Sent("disconnect", 0, "Login"))
          \/ inbox' = After(Sent("disconnect", 0, "Configuration"))
      BY <2>1 DEF ServerLogin, Deliver
    <3> HIDE DEF After, Sent
    <3> QED BY <2>0, <3>1, <3>2
  <2>2. CASE ServerPlay(k)
    <3>1. packets[k] + 1 \in Nat
      BY DEF ConnTypes
    <3>2. /\ Sent("keep_alive", packets[k] + 1, "Play") \in SentPackets
          /\ Sent("chat", packets[k] + 1, "Play") \in SentPackets
          /\ Sent("kick_disconnect", 0, "Play") \in SentPackets
      BY <3>1 DEF SentPackets, States, Wires
    <3>3. \/ inbox' = After(Sent("keep_alive", packets[k] + 1, "Play"))
          \/ inbox' = After(Sent("chat", packets[k] + 1, "Play"))
          \/ inbox' = After(Sent("kick_disconnect", 0, "Play"))
      BY <2>2 DEF ServerPlay, Deliver
    <3> HIDE DEF After, Sent
    <3> QED BY <2>0, <3>2, <3>3
  <2>3. CASE ServerEnd(k)
    <3>1. PICK rest \in {inbox[k], <<>>} : inbox' = [inbox EXCEPT ![k] = rest]
      BY <2>3 DEF ServerEnd
    <3>2. inbox \in [Gens -> Seq(SentPackets)]
      BY DEF ConnTypes
    <3>3. CASE rest = inbox[k]
      BY <3>1, <3>2, <3>3
    <3>4. CASE rest = <<>>
      BY <3>1, <3>2, <3>4
    <3> QED BY <3>1, <3>3, <3>4
  <2> QED BY <2>1, <2>2, <2>3 DEF Server
<1>4. server' \in [Gens -> {"none", "Login", "Configuration", "Play", "gone"}]
  BY DEF Server, ServerLogin, ServerPlay, ServerEnd, ConnTypes
<1>5. packets' \in [Gens -> 0 .. MaxPackets]
  BY ClientAssumption DEF Server, ServerLogin, ServerPlay, ServerEnd, ConnTypes
<1>6. net' \in [Gens -> {"unused", "open", "ended", "closed"}]
  BY DEF Server, ServerLogin, ServerPlay, ServerEnd, ConnTypes
<1>7. ConnTypes'
  BY <1>1, <1>3, <1>4, <1>5, <1>6 DEF ConnTypes
<1>8. Places' /\ Living'
  BY <1>1 DEF Places, Living, Current, Alive, readerVars, appVars
<1> QED BY <1>2, <1>7, <1>8

LEMMA NextType == TypeInv /\ [Next]_vars => TypeInv'
<1> SUFFICES ASSUME TypeInv, [Next]_vars PROVE TypeInv'
  OBVIOUS
<1>1. CASE Next
  <2>1. CASE \E r \in Gens : Reader(r)
    BY <2>1, ReaderType
  <2>2. CASE Application
    BY <2>2, ConnectType, JoinType, ListenType, ReceiveType, LeaveType
       DEF Application, AppContinue
  <2>3. CASE \E g \in Callers : Caller(g)
    BY <2>3, CallerType
  <2>4. CASE \E k \in Gens : Server(k)
    BY <2>4, ServerType
  <2> QED BY <1>1, <2>1, <2>2, <2>3, <2>4 DEF Next
<1>2. CASE UNCHANGED vars
  <2>1. TypeOK'
    BY <1>2, Stable DEF vars, TypeInv, TypeOK, ClientTypes
  <2>2. Places' /\ Living'
    BY <1>2 DEF vars, connVars, readerVars, appVars, TypeInv, Places, Living, Current, Alive
  <2> QED BY <2>1, <2>2 DEF TypeInv
<1> QED BY <1>1, <1>2

\* The invariant is inductive.
LEMMA TypeInvariant == Spec => []TypeInv
<1> QED BY InitType, NextType, PTL DEF Spec

\* The type invariant holds for every version, buffer size, set of calls and
\* number of connections: no handler of readLoop, Join, JoinAndListen, Close,
\* Destroy, Chat or SetPosition leaves a field of Client or Conn without a
\* meaning.
THEOREM TypeCorrect == Spec => []TypeOK
<1>1. TypeInv => TypeOK
  BY DEF TypeInv
<1> QED BY <1>1, TypeInvariant, PTL

\* At most one readLoop lives at a time and readerWg counts it, whatever the
\* application calls and however often: the Wait of JoinAndListen comes before
\* its Add, and no other call starts a reader.
THEOREM OneReaderHolds == Spec => []OneReader
<1>1. TypeInv => OneReader
  BY DEF TypeInv, Living, OneReader
<1> QED BY <1>1, TypeInvariant, PTL

-----------------------------------------------------------------------------
(* A careful application: it leaves its connection, by connecting again or *)
(* by Close, only when the channel it listens on is closed or has told it  *)
(* of the disconnection.                                                   *)

\* A reader that may still touch c.Conn or the channel: not yet on its way out.
Active(r) ==
  \/ reader[r] \in {"load", "lock", "read", "reply", "notify", "send"}
  \/ reader[r] = "select" /\ ~cancelled

\* No disconnection has been reported on a channel.
Quiet(g) == \A i \in DOMAIN events[g] : events[g][i].type # "Disconnect"

\* An active reader is behind the client's own connection and channel.
Bound(r) ==
  /\ conn = r
  /\ eventChan = r
  /\ ~closed[r]
  /\ Quiet(r)
  /\ reader[r] \in {"lock", "read"} => readConn[r] = r
  /\ reader[r] = "send" => target[r] = r
  /\ reader[r] = "reply" => packet[r].type = "ClientboundKeepAlive"
  /\ reader[r] \in {"notify", "send"} =>
       packet[r].type \in {"ClientboundKeepAlive", "ClientboundChatMessage",
                           "ClientboundDisconnect", ReadError}

\* Where the application is while no reader is active: from the Close that
\* begins Connect to the start of the next reader, and at the end of Destroy.
Alone == {"dial", "join", "joinRead", "channel", "spawn", "close"}

Guarded == \A r \in Gens : Active(r) => Bound(r) /\ app \notin Alone

\* The connection being joined is the client's, and a channel is new until the
\* reader behind it starts.
Fresh ==
  /\ app \in {"join", "joinRead", "channel", "spawn"} => conn = dialled
  /\ \A g \in Gens : reader[g] = "unstarted" => Quiet(g) /\ ~closed[g]
  /\ eventChan # Nil /\ app # "spawn" => reader[eventChan] # "unstarted"

\* A goroutine that calls Chat or SetPosition may find c.Conn gone; the reader
\* and the application never do, and no one sends on a closed channel.
OnlyCallersPanic == panic # "none" => panic = "nil connection" /\ Callers # {}

Received == \A g \in Gens : taken[g] <= Len(events[g])

CarefulInv == TypeInv /\ OnlyCallersPanic /\ DisconnectLast /\ Received /\ Guarded /\ Fresh

LEMMA InitCareful == Init => CarefulInv
<1> SUFFICES ASSUME Init PROVE CarefulInv
  OBVIOUS
<1>1. TypeInv
  BY InitType
<1>2. \A g \in Gens : events[g] = <<>> /\ taken[g] = 0 /\ ~closed[g] /\ reader[g] = "unstarted"
  BY DEF Init
<1>3. OnlyCallersPanic /\ eventChan = Nil /\ app = "idle"
  BY DEF Init, OnlyCallersPanic
<1>4. DisconnectLast /\ Received
  BY <1>2 DEF DisconnectLast, Received
<1>5. Guarded /\ Fresh
  BY <1>2, <1>3 DEF Guarded, Fresh, Active, Quiet
<1> QED BY <1>1, <1>3, <1>4, <1>5 DEF CarefulInv

\* Where no channel is used, what was said of the channels stays true.
LEMMA SameEvents ==
  ASSUME DisconnectLast, Received, UNCHANGED <<events, taken>>
  PROVE  DisconnectLast' /\ Received'
BY DEF DisconnectLast, Received

\* An event appended to a channel without a DisconnectEvent, or a ReadyEvent.
LEMMA MoreEvents ==
  ASSUME ChanTypes, DisconnectLast, Received, NEW g \in Gens, NEW e \in Events,
         Quiet(g) \/ e.type = "Ready",
         events' = [events EXCEPT ![g] = Append(@, e)], UNCHANGED taken
  PROVE  DisconnectLast' /\ Received'
<1>1. events[g] \in Seq(Events) /\ events \in [Gens -> Seq(Events)] /\ taken \in [Gens -> Nat]
  BY DEF ChanTypes
<1>2. /\ Len(events'[g]) = Len(events[g]) + 1
      /\ events'[g][Len(events[g]) + 1] = e
      /\ \A i \in 1 .. Len(events[g]) : events'[g][i] = events[g][i]
  BY <1>1
<1>3. DOMAIN events[g] = 1 .. Len(events[g]) /\ DOMAIN events'[g] = 1 .. (Len(events[g]) + 1)
  BY <1>1
<1>4. \A k \in Gens \ {g} : events'[k] = events[k]
  BY <1>1
<1>5. Received'
  BY <1>1, <1>2, <1>4 DEF Received
<1>6. ASSUME NEW k \in Gens, NEW i \in DOMAIN events'[k], NEW j \in DOMAIN events'[k],
             i < j, events'[k][i].type = "Disconnect"
      PROVE  events'[k][j].type = "Ready"
  <2>1. CASE k # g
    BY <1>4, <1>6, <2>1 DEF DisconnectLast
  <2>2. CASE k = g
    <3>1. i \in 1 .. Len(events[g]) /\ events[g][i].type = "Disconnect"
      BY <1>1, <1>2, <1>3, <1>6, <2>2
    <3>2. ~Quiet(g)
      BY <1>3, <3>1 DEF Quiet
    <3>3. CASE j = Len(events[g]) + 1
      BY <1>2, <2>2, <3>2, <3>3
    <3>4. CASE j \in 1 .. Len(events[g])
      BY <1>2, <1>3, <1>6, <2>2, <3>1, <3>4 DEF DisconnectLast
    <3> QED BY <1>1, <1>3, <2>2, <3>3, <3>4
  <2> QED BY <2>1, <2>2
<1>7. DisconnectLast'
  BY <1>6 DEF DisconnectLast
<1> QED BY <1>5, <1>7

\* The application may leave its connection only when no reader is active.
LEMMA LeavesAlone ==
  ASSUME CarefulInv, Careful, app = "idle", MayLeave
  PROVE  \A r \in Gens : ~Active(r)
<1> SUFFICES ASSUME NEW r \in Gens, Active(r) PROVE FALSE
  OBVIOUS
<1>1. Bound(r)
  BY DEF CarefulInv, Guarded
<1>2. Alive(r)
  BY DEF Active, Alive
<1>3. r = subscription
  BY <1>2 DEF CarefulInv, TypeInv, Living, Current
<1>4. subscription # Nil
  BY <1>3 DEF Gens, Nil
<1>5. HeardDisconnect
  BY <1>1, <1>3, <1>4 DEF MayLeave, Listening, Bound
<1>6. events[r] \in Seq(Events) /\ taken[r] \in Nat /\ taken[r] <= Len(events[r])
  BY DEF CarefulInv, TypeInv, TypeOK, ChanTypes, Received
<1>7. ~Quiet(r)
  BY <1>3, <1>5, <1>6 DEF HeardDisconnect, Quiet
<1> QED BY <1>1, <1>7 DEF Bound

\* A reader that moves: the others are not alive, so only its own place counts.
LEMMA ReaderBound ==
  ASSUME CarefulInv, TypeInv', NEW r \in Gens, Alive(r),
         \A q \in Gens \ {r} : reader'[q] = reader[q],
         reader'[r] # "unstarted",
         cancelled => cancelled',
         UNCHANGED <<conn, eventChan, dialled, closed, app>>,
         \A q \in Gens \ {r} : events'[q] = events[q],
         Active(r)' => Active(r) /\ Bound(r)'
  PROVE  Guarded' /\ Fresh'
<1>1. \A q \in Gens \ {r} : ~Alive(q)
  BY DEF CarefulInv, TypeInv, Living
<1>2. \A q \in Gens \ {r} : ~Active(q)'
  BY <1>1 DEF Active, Alive
<1>3. Active(r) => app \notin Alone
  BY DEF CarefulInv, Guarded
<1>4. Guarded'
  BY <1>2, <1>3 DEF Guarded, Alone
<1>5. Fresh'
  <2>1. \A g \in Gens : reader'[g] = "unstarted" =>
          g # r /\ reader[g] = "unstarted" /\ events'[g] = events[g] /\ closed'[g] = closed[g]
    OBVIOUS
  <2>2. \A g \in Gens : reader'[g] = "unstarted" => Quiet(g)' /\ ~closed'[g]
    BY <2>1 DEF CarefulInv, Fresh, Quiet
  <2>3. eventChan # Nil /\ app # "spawn" => reader'[eventChan] # "unstarted"
    <3>1. eventChan \in Gens \cup {Nil}
      BY DEF CarefulInv, TypeInv, TypeOK, ClientTypes
    <3> QED BY <3>1 DEF CarefulInv, Fresh
  <2> QED BY <2>2, <2>3 DEF CarefulInv, Fresh
<1> QED BY <1>4, <1>5

LEMMA ReaderCareful ==
  ASSUME CarefulInv, NEW r \in Gens, Reader(r)
  PROVE  CarefulInv'
<1>1. TypeInv'
  BY ReaderType DEF CarefulInv
<1>2. reader \in [Gens -> ReaderPlaces] /\ readConn \in [Gens -> Gens \cup {Nil}]
      /\ packet \in [Gens -> ReadPackets] /\ target \in [Gens -> Gens \cup {Nil}]
  BY DEF CarefulInv, TypeInv, TypeOK, ReaderTypes
<1>3. Active(r) => Bound(r) /\ r # Nil
  BY DEF CarefulInv, Guarded, Gens, Nil
<1>4. Alive(r)
  BY DEF Reader, ReaderSelect, ReaderLoad, ReaderLock, ReaderRead, ReaderReply, ReaderNotify,
         ReaderSend, ReaderCancel, ReaderReturn, Alive
<1> SUFFICES OnlyCallersPanic' /\ DisconnectLast' /\ Received' /\ Guarded' /\ Fresh'
  BY <1>1 DEF CarefulInv
<1>5. ASSUME UNCHANGED <<conn, eventChan, dialled, app, chanVars, panic>>,
             \A q \in Gens \ {r} : reader'[q] = reader[q],
             reader'[r] # "unstarted",
             cancelled => cancelled',
             Active(r)' => Active(r) /\ Bound(r)'
      PROVE  OnlyCallersPanic' /\ DisconnectLast' /\ Received' /\ Guarded' /\ Fresh'
  <2>1. UNCHANGED <<events, taken, closed>>
    BY <1>5 DEF chanVars
  <2>2. OnlyCallersPanic' /\ DisconnectLast' /\ Received'
    BY <1>5, <2>1, SameEvents DEF CarefulInv, OnlyCallersPanic
  <2>3. Guarded' /\ Fresh'
    BY <1>1, <1>4, <1>5, <2>1, ReaderBound
  <2> QED BY <2>2, <2>3
<1>6. CASE ReaderSelect(r)
  <2>1. reader[r] = "select" /\ reader' = [reader EXCEPT ![r] = IF cancelled THEN "return" ELSE "load"]
    BY <1>6 DEF ReaderSelect
  <2>2. UNCHANGED <<conn, eventChan, dialled, app, chanVars, panic, cancelled, readConn, packet, target>>
    BY <1>6 DEF ReaderSelect, connVars, appVars
  <2>3. Active(r)' => Active(r) /\ Bound(r)'
    BY <1>2, <1>3, <2>1, <2>2 DEF Active, Bound, Quiet, chanVars
  <2> QED BY <1>2, <1>5, <2>1, <2>2, <2>3
<1>7. CASE ReaderLoad(r)
  <2>1. reader[r] = "load" /\ Active(r) /\ conn = r
    BY <1>3, <1>7 DEF ReaderLoad, Active, Bound
  <2>2. /\ reader' = [reader EXCEPT ![r] = "lock"]
        /\ readConn' = [readConn EXCEPT ![r] = r]
        /\ UNCHANGED <<conn, eventChan, dialled, app, chanVars, panic, cancelled, packet, target>>
    BY <1>3, <1>7, <2>1 DEF ReaderLoad, connVars, appVars
  <2>3. Active(r)' => Active(r) /\ Bound(r)'
    BY <1>2, <1>3, <2>1, <2>2 DEF Bound, Quiet, chanVars
  <2> QED BY <1>2, <1>5, <2>2, <2>3
<1>8. CASE ReaderLock(r)
  <2>1. reader[r] = "lock" /\ Active(r)
    BY <1>8 DEF ReaderLock, Active
  <2>2. /\ reader' = [reader EXCEPT ![r] = "read"]
        /\ UNCHANGED <<conn, eventChan, dialled, app, chanVars, panic, cancelled, readConn, packet, target>>
    BY <1>8 DEF ReaderLock, appVars
  <2>3. Active(r)' => Active(r) /\ Bound(r)'
    BY <1>2, <1>3, <2>1, <2>2 DEF Bound, Quiet, chanVars
  <2> QED BY <1>2, <1>5, <2>2, <2>3
<1>9. CASE ReaderRead(r)
  <2>1. reader[r] = "read" /\ Active(r)
    BY <1>9 DEF ReaderRead, Active
  <2>2. PICK p \in ReadResults(readConn[r]) :
          /\ packet' = [packet EXCEPT ![r] = p]
          /\ reader' = [reader EXCEPT ![r] = AfterRead(p.type)]
    BY <1>9 DEF ReaderRead
  <2>3. UNCHANGED <<conn, eventChan, dialled, app, chanVars, panic, cancelled, readConn, target>>
    BY <1>9 DEF ReaderRead, appVars
  <2>4. /\ AfterRead(p.type) \in {"reply", "notify", "select"}
        /\ AfterRead(p.type) = "reply" => p.type = "ClientboundKeepAlive"
        /\ AfterRead(p.type) = "notify" =>
             p.type \in {"ClientboundChatMessage", "ClientboundDisconnect", ReadError}
    BY DEF AfterRead
  <2>5. reader'[r] = AfterRead(p.type) /\ packet'[r] = p
    BY <1>2, <2>2
  <2>6. Active(r)' => Active(r) /\ Bound(r)'
    BY <1>3, <2>1, <2>3, <2>4, <2>5 DEF Bound, Quiet, chanVars
  <2> QED BY <1>2, <1>5, <2>2, <2>3, <2>4, <2>5, <2>6
<1>10. CASE ReaderReply(r)
  <2>1. reader[r] = "reply" /\ Active(r) /\ conn = r
    BY <1>3, <1>10 DEF ReaderReply, Active, Bound
  <2>2. /\ reader' = [reader EXCEPT ![r] = "notify"]
        /\ UNCHANGED <<conn, eventChan, dialled, app, chanVars, panic, cancelled, readConn, packet, target>>
    BY <1>3, <1>10, <2>1 DEF ReaderReply, appVars
  <2>3. Active(r)' => Active(r) /\ Bound(r)'
    BY <1>2, <1>3, <2>1, <2>2 DEF Bound, Quiet, chanVars
  <2> QED BY <1>2, <1>5, <2>2, <2>3
<1>11. CASE ReaderNotify(r)
  <2>1. reader[r] = "notify" /\ Active(r) /\ eventChan = r
    BY <1>3, <1>11 DEF ReaderNotify, Active, Bound
  <2>2. /\ reader' = [reader EXCEPT ![r] = "send"]
        /\ target' = [target EXCEPT ![r] = r]
        /\ UNCHANGED <<conn, eventChan, dialled, app, chanVars, panic, cancelled, readConn, packet>>
    BY <1>3, <1>11, <2>1 DEF ReaderNotify, connVars, appVars
  <2>3. Active(r)' => Active(r) /\ Bound(r)'
    BY <1>2, <1>3, <2>1, <2>2 DEF Bound, Quiet, chanVars
  <2> QED BY <1>2, <1>5, <2>2, <2>3
<1>12. CASE ReaderSend(r)
  <2>1. /\ reader[r] = "send" /\ Active(r) /\ target[r] = r /\ ~closed[r] /\ Quiet(r)
        /\ packet[r].type \in {"ClientboundKeepAlive", "ClientboundChatMessage",
                               "ClientboundDisconnect", ReadError}
    BY <1>3, <1>12 DEF ReaderSend, Active, Bound
  <2> DEFINE e == Event(packet[r])
  <2>2. /\ events' = [events EXCEPT ![r] = Append(@, e)]
        /\ reader' = [reader EXCEPT ![r] = AfterEvent(packet[r].type)]
        /\ UNCHANGED <<conn, eventChan, dialled, app, taken, closed, panic, cancelled, readConn, packet, target>>
    BY <1>12, <2>1 DEF ReaderSend, connVars, appVars
  <2>3. /\ e \in Events
        /\ AfterEvent(packet[r].type) \in {"select", "cancel", "return"}
        /\ AfterEvent(packet[r].type) = "select" => e.type # "Disconnect"
    BY <1>2, <2>1 DEF Event, Events, ReadPackets, AfterEvent, ReadError
  <2> HIDE DEF e
  <2>4. events \in [Gens -> Seq(Events)]
    BY DEF CarefulInv, TypeInv, TypeOK, ChanTypes
  <2>5. e.type # "Disconnect" => Quiet(r)'
    BY <2>1, <2>2, <2>3, <2>4 DEF Quiet
  <2>6. reader'[r] = AfterEvent(packet[r].type)
    BY <1>2, <2>2
  <2>7. Active(r)' => Active(r) /\ Bound(r)'
    BY <1>3, <2>1, <2>2, <2>3, <2>5, <2>6 DEF Active, Bound
  <2>8. Guarded' /\ Fresh'
    BY <1>1, <1>2, <1>4, <2>2, <2>3, <2>4, <2>6, <2>7, ReaderBound
  <2>9. DisconnectLast' /\ Received'
    <3>1. ChanTypes /\ DisconnectLast /\ Received
      BY DEF CarefulInv, TypeInv, TypeOK
    <3> QED BY <2>1, <2>2, <2>3, <3>1, MoreEvents
  <2>10. OnlyCallersPanic'
    BY <2>2 DEF CarefulInv, OnlyCallersPanic
  <2> QED BY <2>8, <2>9, <2>10
<1>13. CASE ReaderCancel(r)
  <2>1. /\ cancelled'
        /\ reader' = [reader EXCEPT ![r] = "select"]
        /\ UNCHANGED <<conn, eventChan, dialled, app, chanVars, panic>>
    BY <1>13 DEF ReaderCancel, connVars, appVars
  <2>2. ~Active(r)'
    BY <1>2, <2>1 DEF Active
  <2> QED BY <1>2, <1>5, <2>1, <2>2
<1>14. CASE ReaderReturn(r)
  <2>1. /\ reader' = [reader EXCEPT ![r] = "returned"]
        /\ UNCHANGED <<conn, eventChan, dialled, app, chanVars, panic, cancelled>>
    BY <1>14 DEF ReaderReturn, connVars, appVars
  <2>2. ~Active(r)'
    BY <1>2, <2>1 DEF Active
  <2> QED BY <1>2, <1>5, <2>1, <2>2
<1> QED
  BY <1>6, <1>7, <1>8, <1>9, <1>10, <1>11, <1>12, <1>13, <1>14 DEF Reader

\* A step of the application that leaves channels and readers alone.
LEMMA AppMoves ==
  ASSUME CarefulInv, TypeInv', UNCHANGED <<eventChan, chanVars, readerVars, panic>>,
         cancelled => cancelled',
         (\A r \in Gens : ~Active(r)) \/ (conn' = conn /\ app' \notin Alone),
         app' \in {"join", "joinRead", "channel", "spawn"} => conn' = dialled',
         app # "spawn"
  PROVE  CarefulInv'
<1>1. UNCHANGED <<events, taken, closed, reader, readConn, packet, target>>
  BY DEF chanVars, readerVars
<1>2. OnlyCallersPanic' /\ DisconnectLast' /\ Received'
  BY <1>1, SameEvents DEF CarefulInv, OnlyCallersPanic
<1>3. \A r \in Gens : Active(r)' => Active(r)
  BY <1>1 DEF Active
<1>4. Guarded'
  BY <1>1, <1>3 DEF CarefulInv, Guarded, Bound, Quiet
<1>5. Fresh'
  BY <1>1 DEF CarefulInv, Fresh, Quiet
<1> QED BY <1>2, <1>4, <1>5 DEF CarefulInv

LEMMA AppCareful ==
  ASSUME CarefulInv, Careful, Application
  PROVE  CarefulInv'
<1>1. TypeInv'
  BY ConnectType, JoinType, ListenType, ReceiveType, LeaveType
     DEF CarefulInv, Application, AppContinue
<1>2. /\ reader \in [Gens -> ReaderPlaces]
      /\ eventChan \in Gens \cup {Nil}
      /\ ChanTypes
  BY DEF CarefulInv, TypeInv, TypeOK, ReaderTypes, ClientTypes
<1>3. CASE AppConnect \/ AppClose
  <2>1. \A r \in Gens : ~Active(r)
    BY <1>3, LeavesAlone DEF AppConnect, AppClose
  <2>2. /\ app' \in {"dial", "idle"} /\ app = "idle"
        /\ UNCHANGED <<eventChan, cancelled, chanVars, readerVars, panic>>
    BY <1>3 DEF AppConnect, AppClose, appVars
  <2> QED BY <1>1, <2>1, <2>2, AppMoves
<1>4. CASE AppDialFails \/ AppDial \/ AppJoinLock \/ AppJoinRead \/ AppCloseLast
  <2>1. \A r \in Gens : ~Active(r)
    BY <1>4 DEF CarefulInv, Guarded, Alone,
                AppDialFails, AppDial, AppJoinLock, AppJoinRead, AppCloseLast
  <2>2. app # "spawn" /\ UNCHANGED <<eventChan, cancelled, chanVars, readerVars, panic>>
    BY <1>4 DEF AppDialFails, AppDial, AppJoinLock, AppJoinRead, AppCloseLast
  <2>3. app' \in {"join", "joinRead", "channel", "spawn"} => conn' = dialled'
    BY <1>4 DEF CarefulInv, Fresh,
                AppDialFails, AppDial, AppJoinLock, AppJoinRead, AppCloseLast, connVars
  <2> QED BY <1>1, <2>1, <2>2, <2>3, AppMoves
<1>5. CASE AppMakeChannel
  <2>1. app = "channel" /\ app' = "spawn" /\ conn = dialled
    BY <1>5 DEF AppMakeChannel, CarefulInv, Fresh
  <2>2. UNCHANGED <<conn, dialled, cancelled, events, taken, reader, panic>>
    BY <1>5 DEF AppMakeChannel, connVars, readerVars
  <2>3. closed' = IF eventChan = Nil THEN closed ELSE [closed EXCEPT ![eventChan] = TRUE]
    BY <1>5 DEF AppMakeChannel
  <2>4. \A r \in Gens : ~Active(r)'
    BY <2>1, <2>2 DEF CarefulInv, Guarded, Alone, Active
  <2>5. \A g \in Gens : reader[g] = "unstarted" => closed'[g] = closed[g]
    <3>1. eventChan # Nil => reader[eventChan] # "unstarted"
      BY <2>1 DEF CarefulInv, Fresh
    <3> QED BY <1>2, <2>3, <3>1 DEF ChanTypes
  <2>6. OnlyCallersPanic' /\ DisconnectLast' /\ Received'
    BY <2>2, SameEvents DEF CarefulInv, OnlyCallersPanic
  <2>7. Guarded' /\ Fresh'
    BY <2>1, <2>2, <2>4, <2>5 DEF CarefulInv, Guarded, Fresh, Quiet
  <2> QED BY <1>1, <2>6, <2>7 DEF CarefulInv
<1>6. CASE AppSpawn
  <2>1. /\ app = "spawn" /\ app' = "ready" /\ readerWg = 0
        /\ reader' = [reader EXCEPT ![dialled] = "select"]
        /\ UNCHANGED <<conn, eventChan, cancelled, dialled, events, taken, closed, panic>>
    BY <1>6 DEF AppSpawn, ReadersDone, connVars, chanVars
  <2>2. /\ conn = dialled /\ eventChan = dialled /\ dialled \in Gens /\ dialled # Nil
        /\ reader[dialled] = "unstarted"
    BY <2>1 DEF CarefulInv, TypeInv, Places, Living, Fresh, Gens, Nil
  <2>3. \A r \in Gens : ~Active(r)
    BY <2>1 DEF CarefulInv, Guarded, Alone
  <2>4. \A r \in Gens : Active(r)' => r = dialled
    BY <1>2, <2>1, <2>3 DEF Active
  <2>5. Bound(dialled)'
    <3>1. reader'[dialled] = "select"
      BY <1>2, <2>1, <2>2
    <3>2. Quiet(dialled)' /\ ~closed'[dialled]
      BY <2>1, <2>2 DEF CarefulInv, Fresh, Quiet
    <3> QED BY <2>1, <2>2, <3>1, <3>2 DEF Bound
  <2>6. Guarded'
    BY <2>1, <2>4, <2>5 DEF Guarded, Alone
  <2>7. Fresh'
    <3>1. \A g \in Gens : reader'[g] = "unstarted" => reader[g] = "unstarted"
      BY <1>2, <2>1
    <3>2. \A g \in Gens : reader'[g] = "unstarted" => Quiet(g)' /\ ~closed'[g]
      BY <2>1, <3>1 DEF CarefulInv, Fresh, Quiet
    <3>3. reader'[dialled] = "select"
      BY <1>2, <2>1, <2>2
    <3> QED BY <2>1, <2>2, <3>2, <3>3 DEF Fresh
  <2>8. OnlyCallersPanic' /\ DisconnectLast' /\ Received'
    BY <2>1, SameEvents DEF CarefulInv, OnlyCallersPanic
  <2> QED BY <1>1, <2>6, <2>7, <2>8 DEF CarefulInv
<1>7. CASE AppReady
  <2>1. /\ app = "ready" /\ app' = "idle"
        /\ events' = [events EXCEPT ![eventChan] = Append(@, Ready)]
        /\ UNCHANGED <<conn, eventChan, cancelled, dialled, taken, closed, readerVars, panic>>
    BY <1>7 DEF AppReady, connVars
  <2>2. eventChan \in Gens
    BY <2>1 DEF CarefulInv, TypeInv, Places
  <2>3. Ready \in Events /\ Ready.type = "Ready"
    BY DEF Ready, Events
  <2>4. DisconnectLast' /\ Received'
    BY <1>2, <2>1, <2>2, <2>3, MoreEvents DEF CarefulInv
  <2>5. \A g \in Gens : Quiet(g) => Quiet(g)'
    BY <1>2, <2>1, <2>2, <2>3 DEF ChanTypes, Quiet
  <2>6. \A r \in Gens : Active(r)' => Active(r)
    BY <2>1 DEF Active, readerVars
  <2>7. Guarded'
    <3>1. \A r \in Gens : Active(r) => Bound(r)
      BY DEF CarefulInv, Guarded
    <3>2. \A r \in Gens : Bound(r) => Bound(r)'
      BY <2>1, <2>5 DEF Bound, readerVars
    <3> QED BY <2>1, <2>6, <3>1, <3>2 DEF Guarded, Alone
  <2>8. Fresh'
    BY <2>1, <2>5 DEF CarefulInv, Fresh, readerVars
  <2>9. OnlyCallersPanic'
    BY <2>1 DEF CarefulInv, OnlyCallersPanic
  <2> QED BY <1>1, <2>4, <2>7, <2>8, <2>9 DEF CarefulInv
<1>8. CASE AppReceive
  <2>1. /\ taken[subscription] < Len(events[subscription])
        /\ subscription \in Gens
        /\ taken' = [taken EXCEPT ![subscription] = @ + 1]
        /\ UNCHANGED <<conn, eventChan, cancelled, dialled, app, events, closed, readerVars, panic>>
    BY <1>8 DEF AppReceive, CarefulInv, TypeInv, TypeOK, AppTypes, appVars, connVars
  <2>2. Received'
    BY <1>2, <2>1 DEF CarefulInv, Received, ChanTypes
  <2>3. OnlyCallersPanic' /\ DisconnectLast'
    BY <2>1 DEF CarefulInv, OnlyCallersPanic, DisconnectLast
  <2>4. Guarded' /\ Fresh'
    BY <2>1 DEF CarefulInv, Guarded, Fresh, Active, Bound, Quiet, readerVars
  <2> QED BY <1>1, <2>2, <2>3, <2>4 DEF CarefulInv
<1>9. CASE AppDestroy
  <2>1. /\ app = "idle" /\ app' = "drain" /\ cancelled'
        /\ UNCHANGED <<conn, eventChan, chanVars, readerVars, panic>>
    BY <1>9 DEF AppDestroy
  <2> QED BY <1>1, <2>1, AppMoves DEF Alone
<1>10. CASE AppDrain
  <2>1. /\ app = "drain" /\ app' = "close" /\ readerWg = 0 /\ eventChan' = Nil
        /\ UNCHANGED <<conn, dialled, cancelled, events, taken, reader, panic>>
    BY <1>10 DEF AppDrain, ReadersDone, connVars, readerVars
  <2>2. closed' = IF eventChan = Nil THEN closed ELSE [closed EXCEPT ![eventChan] = TRUE]
    BY <1>10 DEF AppDrain
  <2>3. \A r \in Gens : ~Alive(r)
    BY <2>1 DEF CarefulInv, TypeInv, Living
  <2>4. \A r \in Gens : ~Active(r)'
    BY <2>1, <2>3 DEF Active, Alive
  <2>5. \A g \in Gens : reader[g] = "unstarted" => closed'[g] = closed[g]
    <3>1. eventChan # Nil => reader[eventChan] # "unstarted"
      BY <2>1 DEF CarefulInv, Fresh
    <3> QED BY <1>2, <2>2, <3>1 DEF ChanTypes
  <2>6. OnlyCallersPanic' /\ DisconnectLast' /\ Received'
    BY <2>1, SameEvents DEF CarefulInv, OnlyCallersPanic
  <2>7. Guarded' /\ Fresh'
    BY <2>1, <2>4, <2>5 DEF CarefulInv, Guarded, Fresh, Quiet
  <2> QED BY <1>1, <2>6, <2>7 DEF CarefulInv
<1> QED
  BY <1>3, <1>4, <1>5, <1>6, <1>7, <1>8, <1>9, <1>10 DEF Application, AppContinue

LEMMA NextCareful ==
  ASSUME Careful
  PROVE  CarefulInv /\ [Next]_vars => CarefulInv'
<1> SUFFICES ASSUME CarefulInv, [Next]_vars PROVE CarefulInv'
  OBVIOUS
<1>1. TypeInv'
  BY NextType DEF CarefulInv
<1>2. ASSUME UNCHANGED <<conn, eventChan, cancelled, dialled, app, chanVars, readerVars>>,
             OnlyCallersPanic'
      PROVE  CarefulInv'
  <2>1. DisconnectLast' /\ Received'
    BY <1>2 DEF CarefulInv, DisconnectLast, Received, chanVars
  <2>2. Guarded' /\ Fresh'
    BY <1>2 DEF CarefulInv, Guarded, Fresh, Active, Bound, Quiet, chanVars, readerVars
  <2> QED BY <1>1, <1>2, <2>1, <2>2 DEF CarefulInv
<1>3. CASE Next
  <2>1. CASE \E r \in Gens : Reader(r)
    BY <2>1, ReaderCareful
  <2>2. CASE Application
    BY <2>2, AppCareful
  <2>3. CASE \E g \in Callers : Caller(g)
    <3>1. UNCHANGED <<conn, eventChan, cancelled, dialled, app, chanVars, readerVars>>
      BY <2>3 DEF Caller, CallerBegin, CallerState, CallerWrite, Crash, connVars, appVars
    <3>2. panic' = panic \/ (panic' = "nil connection" /\ Callers # {})
      BY <2>3 DEF Caller, CallerBegin, CallerState, CallerWrite, Crash
    <3>3. OnlyCallersPanic'
      BY <3>2 DEF CarefulInv, OnlyCallersPanic
    <3> QED BY <1>2, <3>1, <3>3
  <2>4. CASE \E k \in Gens : Server(k)
    <3>1. UNCHANGED <<conn, eventChan, cancelled, dialled, app, chanVars, readerVars, panic>>
      BY <2>4 DEF Server, ServerLogin, ServerPlay, ServerEnd, appVars
    <3>2. OnlyCallersPanic'
      BY <3>1 DEF CarefulInv, OnlyCallersPanic
    <3> QED BY <1>2, <3>1, <3>2
  <2> QED BY <1>3, <2>1, <2>2, <2>3, <2>4 DEF Next
<1>4. CASE UNCHANGED vars
  <2>1. OnlyCallersPanic'
    BY <1>4 DEF vars, CarefulInv, OnlyCallersPanic
  <2> QED BY <1>2, <1>4, <2>1 DEF vars, connVars, appVars
<1> QED BY <1>3, <1>4

\* The readLoop of a careful application never reads, answers or reports on a
\* connection or a channel that is not its own, and a DisconnectEvent ends the
\* channel, although c.Conn and c.eventChan are shared without a lock: Connect
\* and Close find no reader on its way to them, and Destroy closes the channel
\* only when none is left.  Without calls of Chat and SetPosition from further
\* goroutines it never panics.
THEOREM CarefulIsSafe ==
  ASSUME Careful
  PROVE  Spec => [](OwnConnection /\ DisconnectLast /\ (Callers = {} => NoPanic))
<1>1. CarefulInv => OwnConnection /\ DisconnectLast /\ (Callers = {} => NoPanic)
  BY DEF CarefulInv, Guarded, Active, Bound, OwnConnection, OnlyCallersPanic, NoPanic
<1>2. CarefulInv /\ [Next]_vars => CarefulInv'
  BY NextCareful
<1> QED BY <1>1, <1>2, InitCareful, PTL DEF Spec
=============================================================================
