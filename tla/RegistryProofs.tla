--------------------------- MODULE RegistryProofs ---------------------------
(***************************************************************************)
(* Theorems about Registry, for every set of directories, of requested     *)
(* versions and of goroutines.                                             *)
(*                                                                         *)
(*   TypeCorrect       the type invariant                                  *)
(*   GeneratorIsExact  the tables are those the naming rules describe      *)
(*   ConstantsInOrder  version constants are in the order of the releases  *)
(*   NearestFound      a version without data gets the nearest release's   *)
(*   NoRace            no goroutine writes the shared tables while another *)
(*                     reads them                                          *)
(*   EveryOwnTable     each lookup is made in its own version's table      *)
(*                                                                         *)
(* They rest on RegistryInv, one part for each of the generator's passes   *)
(* and one for the lookups at run time.  Release numbers are compared by   *)
(* the number their components make: every component is below NaN.         *)
(***************************************************************************)
EXTENDS Registry, FiniteSetTheorems, TLAPS

-----------------------------------------------------------------------------
(* The names of the packets.                                               *)

GoNames(mc) == { n \in DOMAIN goNameToMcNames : mc \in goNameToMcNames[n] }

\* The Go types that a packet may be registered under, each of them.
LEMMA GoNamesAre ==
  /\ GoNames("set_protocol") = {"ServerboundHandshake"}
  /\ GoNames("server_info") = {"ClientboundStatusResponse"}
  /\ GoNames("ping") = {"ClientboundPong", "ServerboundPing", "ClientboundConfigPing"}
  /\ GoNames("pong") = {"ServerboundConfigPong"}
  /\ GoNames("ping_start") = {"ServerboundStatusRequest"}
  /\ GoNames("login_start") = {"ServerboundLoginStart"}
  /\ GoNames("success") = {"ClientboundLoginSuccess"}
  /\ GoNames("compress") = {"ClientboundSetCompression"}
  /\ GoNames("login_acknowledged") = {"ServerboundLoginAcknowledged"}
  /\ GoNames("keep_alive") = {"ClientboundKeepAlive", "ServerboundKeepAlive",
                              "ServerboundConfigKeepAlive", "ClientboundConfigKeepAlive"}
  /\ GoNames("chat") = {"ServerboundChatMessage"}
  /\ GoNames("settings") = {"ServerboundClientSettings"}
  /\ GoNames("custom_payload") = {"ServerboundCustomPayload", "ClientboundCustomPayload"}
  /\ GoNames("disconnect") = {"ClientboundDisconnect"}
  /\ GoNames("kick_disconnect") = {"ClientboundDisconnect"}
  /\ GoNames("finish_configuration") = {"ServerboundFinishConfiguration", "ClientboundFinishConfiguration"}
  /\ GoNames("select_known_packs") = {"ServerboundSelectKnownPacks", "ClientboundSelectKnownPacks"}
  /\ GoNames("cookie_request") = {"ClientboundCookieRequest"}
  /\ GoNames("cookie_response") = {"ServerboundCookieResponse"}
  /\ GoNames("login") = {"ClientboundJoinGame"}
  /\ GoNames("feature_flags") = {"ClientboundFeatureFlags"}
  /\ GoNames("registry_data") = {"ClientboundRegistryData"}
BY DEF GoNames, goNameToMcNames

\* The type processDirection registers a packet under.
Finals(mc, s, d) == { resolveAmbiguousNames(n, s, d) : n \in GoNames(mc) } \ {""}

\* The same, as FinalNames computes it for the table in hand.
LEMMA FinalsAre == \A mc : FinalNames(mc) = Finals(mc, table[1], table[2])
BY DEF FinalNames, Finals, GoNames

\* A packet of which all Go names become the same type is registered under it.
LEMMA OneFinal ==
  ASSUME NEW mc, NEW s, NEW d, NEW t, GoNames(mc) # {},
         \A n \in GoNames(mc) : resolveAmbiguousNames(n, s, d) = t
  PROVE  Finals(mc, s, d) = {t} \ {""}
BY DEF Finals

\* The types, packet by packet: most do not depend on the table.
LEMMA FinalsOf ==
  ASSUME NEW s, NEW d
  PROVE  /\ Finals("set_protocol", s, d) = {"ServerboundHandshake"}
         /\ Finals("server_info", s, d) = {"ClientboundStatusResponse"}
         /\ Finals("ping_start", s, d) = {"ServerboundStatusRequest"}
         /\ Finals("login_start", s, d) = {"ServerboundLoginStart"}
         /\ Finals("success", s, d) = {"ClientboundLoginSuccess"}
         /\ Finals("compress", s, d) = {"ClientboundSetCompression"}
         /\ Finals("login_acknowledged", s, d) = {"ServerboundLoginAcknowledged"}
         /\ Finals("chat", s, d) = {"ServerboundChatMessage"}
         /\ Finals("settings", s, d) = {"ServerboundClientSettings"}
         /\ Finals("disconnect", s, d) = {"ClientboundDisconnect"}
         /\ Finals("kick_disconnect", s, d) = {"ClientboundDisconnect"}
         /\ Finals("cookie_request", s, d) = {"ClientboundCookieRequest"}
         /\ Finals("cookie_response", s, d) = {"ServerboundCookieResponse"}
         /\ Finals("login", s, d) = {"ClientboundJoinGame"}
         /\ Finals("feature_flags", s, d) = {"ClientboundFeatureFlags"}
         /\ Finals("registry_data", s, d) = {"ClientboundRegistryData"}
         /\ Finals("custom_payload", s, d) = {By(d, "ServerboundCustomPayload", "ClientboundCustomPayload")}
         /\ Finals("select_known_packs", s, d) =
              {By(d, "ServerboundSelectKnownPacks", "ClientboundSelectKnownPacks")}
         /\ Finals("finish_configuration", s, d) =
              IF s = "Configuration"
              THEN {By(d, "ServerboundFinishConfiguration", "ClientboundFinishConfiguration")} ELSE {}
         /\ Finals("keep_alive", s, d) =
              {IF s = "Configuration"
               THEN By(d, "ServerboundConfigKeepAlive", "ClientboundConfigKeepAlive")
               ELSE By(d, "ServerboundKeepAlive", "ClientboundKeepAlive")}
         /\ Finals("ping", s, d) =
              IF d = "Serverbound"
              THEN IF s = "Status" THEN {"ServerboundPing"}
                   ELSE IF s = "Configuration" THEN {"ServerboundConfigPong"} ELSE {}
              ELSE IF s = "Configuration" THEN {"ClientboundConfigPing"} ELSE {"ClientboundPong"}
         /\ Finals("pong", s, d) = Finals("ping", s, d)
<1>1. ASSUME NEW mc, NEW n, GoNames(mc) = {n},
             n \in {"ServerboundHandshake", "ClientboundStatusResponse", "ServerboundStatusRequest",
                   "ServerboundLoginStart", "ClientboundLoginSuccess", "ClientboundSetCompression",
                   "ServerboundLoginAcknowledged", "ServerboundChatMessage", "ServerboundClientSettings",
                   "ClientboundDisconnect", "ClientboundCookieRequest", "ServerboundCookieResponse",
                   "ClientboundJoinGame", "ClientboundFeatureFlags", "ClientboundRegistryData"}
      PROVE  Finals(mc, s, d) = {n}
  <2>1. \A m \in GoNames(mc) : resolveAmbiguousNames(m, s, d) = n
    BY <1>1 DEF resolveAmbiguousNames
  <2>2. n # "" /\ GoNames(mc) # {}
    BY <1>1
  <2>3. Finals(mc, s, d) = {n} \ {""}
    BY <2>1, <2>2, OneFinal
  <2> QED BY <2>2, <2>3
<1>2. Finals("custom_payload", s, d) = {By(d, "ServerboundCustomPayload", "ClientboundCustomPayload")}
  <2> DEFINE t == By(d, "ServerboundCustomPayload", "ClientboundCustomPayload")
  <2>1. \A n \in GoNames("custom_payload") : resolveAmbiguousNames(n, s, d) = t
    BY GoNamesAre DEF resolveAmbiguousNames
  <2>2. GoNames("custom_payload") # {}
    BY GoNamesAre
  <2> HIDE DEF t
  <2>3. Finals("custom_payload", s, d) = {t} \ {""}
    BY <2>1, <2>2, OneFinal
  <2> QED BY <2>3 DEF By, t
<1>3. Finals("select_known_packs", s, d) = {By(d, "ServerboundSelectKnownPacks", "ClientboundSelectKnownPacks")}
  <2> DEFINE t == By(d, "ServerboundSelectKnownPacks", "ClientboundSelectKnownPacks")
  <2>1. \A n \in GoNames("select_known_packs") : resolveAmbiguousNames(n, s, d) = t
    BY GoNamesAre DEF resolveAmbiguousNames
  <2>2. GoNames("select_known_packs") # {}
    BY GoNamesAre
  <2> HIDE DEF t
  <2>3. Finals("select_known_packs", s, d) = {t} \ {""}
    BY <2>1, <2>2, OneFinal
  <2> QED BY <2>3 DEF By, t
<1>4. Finals("finish_configuration", s, d) =
        IF s = "Configuration"
        THEN {By(d, "ServerboundFinishConfiguration", "ClientboundFinishConfiguration")} ELSE {}
  <2> DEFINE t == IF s # "Configuration" THEN ""
                  ELSE By(d, "ServerboundFinishConfiguration", "ClientboundFinishConfiguration")
  <2>1. \A n \in GoNames("finish_configuration") : resolveAmbiguousNames(n, s, d) = t
    BY GoNamesAre DEF resolveAmbiguousNames
  <2>2. GoNames("finish_configuration") # {}
    BY GoNamesAre
  <2> HIDE DEF t
  <2>3. Finals("finish_configuration", s, d) = {t} \ {""}
    BY <2>1, <2>2, OneFinal
  <2> QED BY <2>3 DEF By, t
<1>5. Finals("keep_alive", s, d) =
        {IF s = "Configuration"
         THEN By(d, "ServerboundConfigKeepAlive", "ClientboundConfigKeepAlive")
         ELSE By(d, "ServerboundKeepAlive", "ClientboundKeepAlive")}
  <2> DEFINE t == IF s = "Configuration"
                  THEN By(d, "ServerboundConfigKeepAlive", "ClientboundConfigKeepAlive")
                  ELSE By(d, "ServerboundKeepAlive", "ClientboundKeepAlive")
  <2>1. \A n \in GoNames("keep_alive") : resolveAmbiguousNames(n, s, d) = t
    BY GoNamesAre DEF resolveAmbiguousNames
  <2>2. GoNames("keep_alive") # {}
    BY GoNamesAre
  <2> HIDE DEF t
  <2>3. Finals("keep_alive", s, d) = {t} \ {""}
    BY <2>1, <2>2, OneFinal
  <2> QED BY <2>3 DEF By, t
<1>6. /\ Finals("ping", s, d) =
           IF d = "Serverbound"
           THEN IF s = "Status" THEN {"ServerboundPing"}
                ELSE IF s = "Configuration" THEN {"ServerboundConfigPong"} ELSE {}
           ELSE IF s = "Configuration" THEN {"ClientboundConfigPing"} ELSE {"ClientboundPong"}
      /\ Finals("pong", s, d) = Finals("ping", s, d)
  <2> DEFINE t == By(d, IF s = "Status" THEN "ServerboundPing"
                        ELSE IF s = "Configuration" THEN "ServerboundConfigPong" ELSE "",
                        IF s = "Configuration" THEN "ClientboundConfigPing" ELSE "ClientboundPong")
  <2>3. Finals("ping", s, d) = {t} \ {""} /\ Finals("pong", s, d) = {t} \ {""}
    <3>1. \A n \in GoNames("ping") : resolveAmbiguousNames(n, s, d) = t
      BY GoNamesAre DEF resolveAmbiguousNames
    <3>2. \A n \in GoNames("pong") : resolveAmbiguousNames(n, s, d) = t
      BY GoNamesAre DEF resolveAmbiguousNames
    <3>3. GoNames("ping") # {}
      BY GoNamesAre
    <3>4. GoNames("pong") # {}
      BY GoNamesAre
    <3> HIDE DEF t
    <3>5. Finals("ping", s, d) = {t} \ {""}
      BY <3>1, <3>3, OneFinal
    <3>6. Finals("pong", s, d) = {t} \ {""}
      BY <3>2, <3>4, OneFinal
    <3> QED BY <3>5, <3>6
  <2> QED BY <2>3 DEF By, t
<1>7. /\ Finals("set_protocol", s, d) = {"ServerboundHandshake"}
      /\ Finals("server_info", s, d) = {"ClientboundStatusResponse"}
      /\ Finals("ping_start", s, d) = {"ServerboundStatusRequest"}
      /\ Finals("login_start", s, d) = {"ServerboundLoginStart"}
      /\ Finals("success", s, d) = {"ClientboundLoginSuccess"}
      /\ Finals("compress", s, d) = {"ClientboundSetCompression"}
      /\ Finals("login_acknowledged", s, d) = {"ServerboundLoginAcknowledged"}
      /\ Finals("chat", s, d) = {"ServerboundChatMessage"}
  BY <1>1, GoNamesAre
<1>8. /\ Finals("settings", s, d) = {"ServerboundClientSettings"}
      /\ Finals("disconnect", s, d) = {"ClientboundDisconnect"}
      /\ Finals("kick_disconnect", s, d) = {"ClientboundDisconnect"}
      /\ Finals("cookie_request", s, d) = {"ClientboundCookieRequest"}
      /\ Finals("cookie_response", s, d) = {"ServerboundCookieResponse"}
      /\ Finals("login", s, d) = {"ClientboundJoinGame"}
      /\ Finals("feature_flags", s, d) = {"ClientboundFeatureFlags"}
      /\ Finals("registry_data", s, d) = {"ClientboundRegistryData"}
  BY <1>1, GoNamesAre
<1> QED BY <1>2, <1>3, <1>4, <1>5, <1>6, <1>7, <1>8

\* In every table the generator finds the one type of each packet.
LEMMA RowsResolved ==
  ASSUME NEW v, NEW s \in States, NEW d \in Directions
  PROVE  \A row \in Registered(v, s, d) : row = <<row[1], row[2]>> /\ Finals(row[1], s, d) = {row[2]}
<1> USE FinalsOf DEF By
<1>1. CASE s = "Handshaking"
  BY <1>1 DEF Registered, HandshakingServerbound
<1>2. CASE s = "Status" /\ d = "Serverbound"
  BY <1>2 DEF Registered, StatusServerbound
<1>3. CASE s = "Status" /\ d = "Clientbound"
  BY <1>3 DEF Registered, StatusClientbound
<1>4. CASE s = "Login" /\ d = "Serverbound"
  BY <1>4 DEF Registered, LoginServerbound, Since
<1>5. CASE s = "Login" /\ d = "Clientbound"
  BY <1>5 DEF Registered, LoginClientbound, Since
<1>6. CASE s = "Configuration" /\ d = "Serverbound"
  BY <1>6 DEF Registered, ConfigurationServerbound, Since
<1>7. CASE s = "Configuration" /\ d = "Clientbound"
  BY <1>7 DEF Registered, ConfigurationClientbound, Since
<1>8. CASE s = "Play" /\ d = "Serverbound"
  BY <1>8 DEF Registered, PlayServerbound, Since
<1>9. CASE s = "Play" /\ d = "Clientbound"
  BY <1>9 DEF Registered, PlayClientbound, Since, Before
<1> QED BY <1>1, <1>2, <1>3, <1>4, <1>5, <1>6, <1>7, <1>8, <1>9 DEF States, Directions

\* No table has a type twice.
LEMMA TypesDiffer ==
  ASSUME NEW v, NEW s \in States, NEW d \in Directions
  PROVE  \A row, other \in Registered(v, s, d) : row[2] = other[2] => row = other
<1>1. CASE s = "Handshaking"
  BY <1>1 DEF Registered, HandshakingServerbound
<1>2. CASE s = "Status"
  BY <1>2 DEF Registered, StatusServerbound, StatusClientbound
<1>3. CASE s = "Login"
  BY <1>3 DEF Registered, LoginServerbound, LoginClientbound, Since
<1>4. CASE s = "Configuration" /\ d = "Serverbound"
  BY <1>4 DEF Registered, ConfigurationServerbound, Since
<1>5. CASE s = "Configuration" /\ d = "Clientbound"
  BY <1>5 DEF Registered, ConfigurationClientbound, Since
<1>6. CASE s = "Play" /\ d = "Serverbound"
  BY <1>6 DEF Registered, PlayServerbound, Since
<1>7. CASE s = "Play" /\ d = "Clientbound"
  BY <1>7 DEF Registered, PlayClientbound, Since, Before
<1> QED BY <1>1, <1>2, <1>3, <1>4, <1>5, <1>6, <1>7 DEF States, Directions

\* What is listed and not registered has no type.
LEMMA UnlistedResolved ==
  ASSUME NEW s \in States, NEW d \in Directions, NEW mc \in Unlisted[<<s, d>>]
  PROVE  Finals(mc, s, d) = {}
<1>1. CASE \A n \in DOMAIN goNameToMcNames : mc \notin goNameToMcNames[n]
  BY <1>1 DEF Finals, GoNames
<1>2. CASE Misplaced(mc, s, d)
  BY <1>2, FinalsOf DEF Misplaced, By
<1> QED BY <1>1, <1>2, DataAssumption

-----------------------------------------------------------------------------
(* The generator.                                                          *)

\* A directory that is read.
IsData(name) ==
  /\ \E i \in DOMAIN Directories : name = Directories[i]
  /\ IsRelease(name) \/ name = Snapshot

RowsOf(name) == Registered(DataOf[name], table[1], table[2])

Inverted(rows) == { <<row[2], row[1]>> : row \in rows }

\* What belongs to a directory.
TableOf(name) == [name |-> name, ids |-> Inverted(RowsOf(name)), names |-> RowsOf(name)]

GenInv ==
  /\ table \in States \X Directions
  /\ dirs \subseteq DOMAIN Directories
  /\ IsFiniteSet(parsed)
  /\ \A v \in parsed : IsData(v.name) /\ v = TableOf(v.name)
  /\ dir = NoDir => todo = {}
  /\ dir # NoDir =>
       /\ IsData(dir)
       /\ todo \subseteq Listed(dir)
       /\ PacketNames = { row \in RowsOf(dir) : row[1] \notin todo }
       /\ PacketIDs = Inverted(PacketNames)

\* A directory with protocol data has a name.
LEMMA DataNotEmpty == \A name : IsData(name) => name # NoDir
BY DEF IsData, IsRelease, Snapshot, NoDir

\* processDirection keeps both tables in step.
LEMMA ProcessKeeps ==
  ASSUME GenInv, ProcessPacket
  PROVE  GenInv'
<1>0. table \in States \X Directions /\ table[1] \in States /\ table[2] \in Directions /\ table = <<table[1], table[2]>>
  BY DEF GenInv
<1>1. table' = table /\ dirs' = dirs /\ dir' = dir /\ parsed' = parsed
  BY DEF ProcessPacket
<1>2. PICK name \in todo :
        /\ todo' = todo \ {name}
        /\ IF FinalNames(name) = {}
           THEN UNCHANGED <<PacketIDs, PacketNames>>
           ELSE \E type \in FinalNames(name) :
                  /\ PacketIDs' = Assign(PacketIDs, type, name)
                  /\ PacketNames' = Assign(PacketNames, name, type)
  BY DEF ProcessPacket
<1>3. /\ dir # NoDir /\ IsData(dir) /\ todo \subseteq Listed(dir)
      /\ PacketNames = { row \in RowsOf(dir) : row[1] \notin todo }
      /\ PacketIDs = Inverted(PacketNames)
  BY <1>2 DEF GenInv
<1>4. FinalNames(name) = Finals(name, table[1], table[2])
  BY FinalsAre
<1>5. ASSUME NEW row \in RowsOf(dir)
      PROVE  row = <<row[1], row[2]>> /\ Finals(row[1], table[1], table[2]) = {row[2]}
  <2> DEFINE s == table[1]
             d == table[2]
             v == DataOf[dir]
  <2>1. row \in Registered(v, s, d) /\ s \in States /\ d \in Directions
    BY <1>0 DEF RowsOf
  <2> HIDE DEF s, d, v
  <2>2. row = <<row[1], row[2]>> /\ Finals(row[1], s, d) = {row[2]}
    BY <2>1, RowsResolved
  <2> QED BY <2>2 DEF s, d
<1>6. \A row, other \in RowsOf(dir) : row[2] = other[2] => row = other
  BY <1>0, TypesDiffer DEF RowsOf
<1>7. /\ PacketNames' = { row \in RowsOf(dir) : row[1] \notin todo' }
      /\ PacketIDs' = Inverted(PacketNames')
  <2>1. CASE FinalNames(name) = {}
    <3>1. ASSUME NEW row \in RowsOf(dir), row[1] = name PROVE FALSE
      <4>1. Finals(name, table[1], table[2]) = {row[2]}
        BY <1>5, <3>1
      <4> QED BY <1>4, <2>1, <4>1
    <3> QED BY <1>2, <1>3, <2>1, <3>1 DEF Inverted
  <2>2. CASE FinalNames(name) # {}
    <3>1. PICK type \in FinalNames(name) :
            PacketIDs' = Assign(PacketIDs, type, name) /\ PacketNames' = Assign(PacketNames, name, type)
      BY <1>2, <2>2
    <3>2. name \in { row[1] : row \in RowsOf(dir) }
      <4>1. name \in { row[1] : row \in RowsOf(dir) } \cup Unlisted[table]
        BY <1>2, <1>3 DEF Listed, RowsOf
      <4>2. name \notin Unlisted[table]
        BY <1>0, <1>4, <2>2, UnlistedResolved
      <4> QED BY <4>1, <4>2
    <3>3. PICK row \in RowsOf(dir) : row[1] = name
      BY <3>2
    <3>4. row = <<name, type>>
      BY <1>4, <1>5, <3>1, <3>3
    <3>5. \A other \in RowsOf(dir) : other[1] = name => other = row
      BY <1>4, <1>5, <3>1, <3>3, <3>4
    <3>6. PacketNames' = PacketNames \cup {row}
      <4>1. \A other \in PacketNames : other[1] # name
        BY <1>2, <1>3
      <4> QED BY <3>1, <3>4, <4>1 DEF Assign
    <3>7. PacketIDs' = PacketIDs \cup { <<type, name>> }
      <4>1. \A other \in PacketNames : other[2] # type
        BY <1>2, <1>3, <1>6, <3>3, <3>4
      <4>2. \A pair \in PacketIDs : pair[1] # type
        BY <1>3, <4>1 DEF Inverted
      <4> QED BY <3>1, <4>2 DEF Assign
    <3>8. PacketNames' = { r \in RowsOf(dir) : r[1] \notin todo' }
      BY <1>2, <1>3, <3>3, <3>5, <3>6
    <3>9. PacketIDs' = Inverted(PacketNames')
      <4>1. <<row[2], row[1]>> = <<type, name>>
        BY <3>4
      <4> QED BY <1>3, <3>6, <3>7, <4>1 DEF Inverted
    <3> QED BY <3>8, <3>9
  <2> QED BY <2>1, <2>2
<1>8. RowsOf(dir)' = RowsOf(dir) /\ Listed(dir)' = Listed(dir)
  BY <1>1 DEF RowsOf, Listed
<1>9. \A v : (TableOf(v)' = TableOf(v)) /\ (IsData(v)' <=> IsData(v))
  BY <1>1 DEF TableOf, RowsOf, IsData
<1>10. \A v \in parsed : IsData(v.name) /\ v = TableOf(v.name)
  BY DEF GenInv
<1>11. todo' \subseteq Listed(dir)
  BY <1>2, <1>3
<1>12. (PacketIDs = Inverted(PacketNames))'
  BY <1>7 DEF Inverted
<1>13. /\ (IsData(dir))'
       /\ (PacketNames = { row \in RowsOf(dir) : row[1] \notin todo })'
       /\ (\A v \in parsed : IsData(v.name) /\ v = TableOf(v.name))'
  BY <1>1, <1>3, <1>7, <1>8, <1>10 DEF IsData, TableOf, RowsOf
<1> QED BY <1>0, <1>1, <1>3, <1>8, <1>11, <1>12, <1>13 DEF GenInv

\* loadAndParseProtocols starts on a directory and finishes with it.
LEMMA DirectoryKeeps ==
  ASSUME GenInv, ReadDirectory \/ AppendVersion
  PROVE  GenInv'
<1>0. /\ table' = table /\ table \in States \X Directions
      /\ \A v \in parsed : IsData(v.name) /\ v = TableOf(v.name)
      /\ IsFiniteSet(parsed) /\ dirs \subseteq DOMAIN Directories
  BY DEF GenInv, ReadDirectory, AppendVersion
<1>1. CASE ReadDirectory
  <2>1. parsed' = parsed /\ PacketIDs' = {} /\ PacketNames' = {} /\ dir = NoDir /\ todo = {}
    BY <1>1 DEF ReadDirectory, GenInv
  <2>2. PICK i \in dirs :
          /\ dirs' = dirs \ {i}
          /\ IF IsRelease(Directories[i]) \/ Directories[i] = Snapshot
             THEN dir' = Directories[i] /\ todo' = Listed(Directories[i])
             ELSE UNCHANGED <<dir, todo>>
    BY <1>1 DEF ReadDirectory
  <2>3. (\A v \in parsed : IsData(v.name) /\ v = TableOf(v.name))'
    BY <1>0, <2>1 DEF IsData, TableOf, RowsOf
  <2>4. CASE IsRelease(Directories[i]) \/ Directories[i] = Snapshot
    <3>1. IsData(dir)' /\ dir' # NoDir
      <4>1. IsData(Directories[i])
        BY <1>0, <2>4 DEF IsData
      <4> QED BY <2>2, <2>4, <4>1, DataNotEmpty DEF IsData
    <3>2. todo' = Listed(dir)'
      BY <1>0, <2>2, <2>4 DEF Listed
    <3>3. \A row \in RowsOf(dir)' : row[1] \in Listed(dir)'
      BY DEF RowsOf, Listed
    <3>4. (PacketNames = { row \in RowsOf(dir) : row[1] \notin todo })' /\ (PacketIDs = Inverted(PacketNames))'
      BY <2>1, <3>2, <3>3 DEF Inverted
    <3> QED BY <1>0, <2>1, <2>2, <2>3, <3>1, <3>2, <3>4 DEF GenInv
  <2>5. CASE ~(IsRelease(Directories[i]) \/ Directories[i] = Snapshot)
    BY <1>0, <2>1, <2>2, <2>3, <2>5 DEF GenInv
  <2> QED BY <2>4, <2>5
<1>2. CASE AppendVersion
  <2> DEFINE new == [name |-> dir, ids |-> PacketIDs, names |-> PacketNames]
  <2>1. /\ dir # NoDir /\ todo = {} /\ dirs' = dirs /\ todo' = todo
        /\ parsed' = parsed \cup {new} /\ dir' = NoDir
    BY <1>2 DEF AppendVersion
  <2>2. IsData(dir) /\ PacketNames = RowsOf(dir) /\ PacketIDs = Inverted(PacketNames)
    <3>1. /\ IsData(dir) /\ PacketNames = { row \in RowsOf(dir) : row[1] \notin todo }
          /\ PacketIDs = Inverted(PacketNames)
      BY <2>1 DEF GenInv
    <3> QED BY <2>1, <3>1
  <2>3. new = TableOf(dir) /\ new.name = dir
    BY <2>2 DEF TableOf
  <2> HIDE DEF new
  <2>4. \A v \in parsed' : IsData(v.name) /\ v = TableOf(v.name)
    BY <1>0, <2>1, <2>2, <2>3
  <2>5. (\A v \in parsed : IsData(v.name) /\ v = TableOf(v.name))'
    BY <1>0, <2>4 DEF IsData, TableOf, RowsOf
  <2>6. IsFiniteSet(parsed')
    BY <1>0, <2>1, FS_AddElement
  <2> QED BY <1>0, <2>1, <2>5, <2>6 DEF GenInv
<1> QED BY <1>1, <1>2

\* GenInv is inductive: no other step touches the generator.
LEMMA GenKeeps ==
  ASSUME GenInv, [Next]_vars
  PROVE  GenInv'
<1>1. CASE ReadDirectory \/ AppendVersion
  BY <1>1, DirectoryKeeps
<1>2. CASE ProcessPacket
  BY <1>2, ProcessKeeps
<1>3. CASE \/ Generate \/ Ask \/ Scan \/ ScanEnd \/ Use
           \/ \E g \in Goroutines : GetDefinition(g) \/ Lookup(g)
           \/ UNCHANGED vars
  <2>1. UNCHANGED genVars
    BY <1>3 DEF Generate, Ask, Scan, ScanEnd, Use, GetDefinition, Lookup, vars
  <2>2. /\ table' = table /\ dirs' = dirs /\ dir' = dir /\ todo' = todo /\ PacketIDs' = PacketIDs
        /\ PacketNames' = PacketNames /\ parsed' = parsed
    BY <2>1, Zenon DEF genVars
  <2> QED BY <2>2 DEF GenInv, IsData, TableOf, RowsOf, Listed
<1> QED BY <1>1, <1>2, <1>3 DEF Next

-----------------------------------------------------------------------------
(* Releases.                                                               *)

Strings == Seq(0 .. NaN)

Below == 0 .. 999

\* The parts of a release are below NaN.
LEMMA PartsBelow ==
  ASSUME NEW s \in Strings, IsRelease(s), NEW i \in DOMAIN s
  PROVE  s[i] \in Below
<1>0. DOMAIN s = 1 .. Len(s) /\ \A j \in DOMAIN s : s[j] # NaN
  BY DEF Strings, IsRelease
<1>1. \A j \in 1 .. Len(s) : s[j] \in 0 .. NaN
  <2> DEFINE part == 0 .. NaN
  <2>1. s \in Seq(part)
    BY DEF Strings
  <2> HIDE DEF part
  <2>2. \A j \in 1 .. Len(s) : s[j] \in part
    BY <2>1
  <2> QED BY <2>2 DEF part
<1>2. s[i] \in 0 .. NaN /\ s[i] # NaN
  BY <1>0, <1>1
<1> DEFINE x == s[i]
<1> HIDE DEF x
<1>3. x \in 0 .. NaN /\ x # NaN
  BY <1>2 DEF x
<1>4. x \in 0 .. 999
  BY <1>3, SMT DEF NaN
<1> QED BY <1>4 DEF x, Below

\* The components of a release number.
LEMMA Parts ==
  ASSUME NEW s \in Strings, IsRelease(s)
  PROVE  /\ s[1] \in Below /\ s[2] \in Below /\ Patch(s) \in Below
         /\ Len(s) = 3 => Patch(s) = s[3]
<1>1. s \in Seq(0 .. NaN) /\ Len(s) \in {2, 3} /\ DOMAIN s = 1 .. Len(s)
  BY DEF IsRelease, Strings
<1>2. \A i \in DOMAIN s : s[i] \in Below
  BY PartsBelow
<1>3. 1 \in DOMAIN s /\ 2 \in DOMAIN s /\ (Len(s) = 3 => 3 \in DOMAIN s)
  BY <1>1
<1>4. Len(s) = 3 => Patch(s) = s[3] /\ s[3] \in Below
  BY <1>2, <1>3 DEF Patch
<1>5. Len(s) # 3 => Patch(s) = 0 /\ 0 \in Below
  BY DEF Patch, Below
<1> QED BY <1>2, <1>3, <1>4, <1>5

\* The three comparisons of main's sort are the order of the numbers.
LEMMA LessIsOrder ==
  ASSUME NEW s \in Strings, NEW t \in Strings, IsRelease(s), IsRelease(t)
  PROVE  /\ Less(s, t) <=> Number(s) < Number(t)
         /\ Number(s) \in Nat /\ Number(t) \in Nat
         /\ SameMinor(s, t) => (Number(s) < Number(t) <=> Patch(s) < Patch(t))
<1> DEFINE a == s[1]
           b == s[2]
           c == Patch(s)
           x == t[1]
           y == t[2]
           z == Patch(t)
<1>0. a \in Below /\ b \in Below /\ c \in Below /\ x \in Below /\ y \in Below /\ z \in Below
  BY Parts
<1>2. Number(s) = NaN * (NaN * a + b) + c /\ Number(t) = NaN * (NaN * x + y) + z
  BY DEF Number
<1>3. Less(s, t) <=> a < x \/ (a = x /\ b < y) \/ (a = x /\ b = y /\ c < z)
  BY DEF Less, SameMinor
<1>4. SameMinor(s, t) <=> a = x /\ b = y
  BY DEF SameMinor
<1> HIDE DEF a, b, c, x, y, z
<1>1. /\ a \in 0 .. 999 /\ b \in 0 .. 999 /\ c \in 0 .. 999
      /\ x \in 0 .. 999 /\ y \in 0 .. 999 /\ z \in 0 .. 999
  BY <1>0 DEF Below
<1>5. NaN * (NaN * a + b) + c < NaN * (NaN * x + y) + z <=>
        a < x \/ (a = x /\ b < y) \/ (a = x /\ b = y /\ c < z)
  BY <1>1, SMT DEF NaN
<1>6. NaN * (NaN * a + b) + c \in Nat /\ NaN * (NaN * x + y) + z \in Nat
  BY <1>1, SMT DEF NaN
<1>7. a = x /\ b = y => (NaN * (NaN * a + b) + c < NaN * (NaN * x + y) + z <=> c < z)
  BY <1>1, SMT DEF NaN
<1> QED BY <1>2, <1>3, <1>4, <1>5, <1>6, <1>7 DEF c, z

\* The directories that are read are told apart by their order.
LEMMA DataOrder ==
  ASSUME NEW s, NEW t, IsData(s), IsData(t), s # t, ~Less(t, s)
  PROVE  /\ s \in Strings /\ t \in Strings
         /\ IsRelease(t) => IsRelease(s) /\ Number(s) < Number(t) /\ DataOf[s] < DataOf[t]
<1>1. PICK i \in DOMAIN Directories : s = Directories[i]
  BY DEF IsData
<1>2. PICK j \in DOMAIN Directories : t = Directories[j]
  BY DEF IsData
<1>3. s \in Strings /\ t \in Strings
  BY <1>1, <1>2, RegistryAssumption DEF Strings
<1>4. ASSUME IsRelease(t) PROVE IsRelease(s) /\ Number(s) < Number(t) /\ DataOf[s] < DataOf[t]
  <2>1. IsRelease(s)
    BY <1>4 DEF Less
  <2>2. Number(s) # Number(t)
    BY <1>1, <1>2, <1>4, <2>1, DataAssumption
  <2>3. Number(s) < Number(t)
    BY <1>3, <1>4, <2>1, <2>2, LessIsOrder
  <2> QED BY <1>1, <1>2, <1>4, <2>1, <2>3, DataAssumption
<1> QED BY <1>3, <1>4

-----------------------------------------------------------------------------
(* The enumeration and the lookup.                                         *)

\* The versions are numbered from 0, in the order of main's sort; each has its
\* own table.
EnumInv ==
  /\ DOMAIN registry = DOMAIN enum
  /\ \E n \in Nat :
       /\ DOMAIN enum = 0 .. n - 1
       /\ place \in {"lookup", "scan", "found", "use"} => n > 0
  /\ \A v \in DOMAIN enum : IsData(enum[v]) /\ registry[v] = RowsOf(enum[v])
  /\ \A v, w \in DOMAIN enum : v < w => enum[v] # enum[w] /\ ~Less(enum[w], enum[v])

Known(s) == \E v \in DOMAIN enum : enum[v] = s

\* The loop over the known versions has the best of those it has seen.
BestSoFar ==
  /\ best[1] \in Int
  /\ best[1] >= -1
  /\ best[1] = -1 => \A v \in DOMAIN enum \ scan : ~Candidate(enum[v], asked)
  /\ best[1] # -1 =>
       /\ best[2] \in DOMAIN enum
       /\ Candidate(enum[best[2]], asked)
       /\ best[1] = Patch(enum[best[2]])
       /\ \A v \in DOMAIN enum \ scan : Candidate(enum[v], asked) => Patch(enum[v]) <= best[1]

\* What VersionFromString returns for a release.
Nearest ==
  \/ found = -1 /\ ~Known(asked) /\ \A v \in DOMAIN enum : ~Candidate(enum[v], asked)
  \/ found \in DOMAIN enum /\ enum[found] = asked
  \/ /\ found \in DOMAIN enum
     /\ Candidate(enum[found], asked)
     /\ \A v \in DOMAIN enum : Candidate(enum[v], asked) => Patch(enum[v]) <= Patch(enum[found])

LookInv ==
  /\ place \in {"parse", "lookup", "scan", "found", "use", "fatal"}
  /\ place \in {"parse", "lookup"} => asked = <<>> /\ scan = {} /\ best = <<-1, 0>> /\ found = -1
  /\ place = "parse" => enum = <<>>
  /\ asked \in Strings
  /\ scan \subseteq DOMAIN enum
  /\ found \in DOMAIN enum \cup {-1}
  /\ place = "use" => found \in DOMAIN enum
  /\ place = "fatal" => found = -1
  /\ place = "scan" => IsRelease(asked) /\ found = -1 /\ ~Known(asked) /\ BestSoFar
  /\ place \in {"found", "use", "fatal"} /\ IsRelease(asked) => Nearest

\* Each goroutine looks up the version that was found, and its table.
CallInv ==
  /\ cursor \in [Goroutines -> DOMAIN enum \cup {-1}]
  /\ defined = [g \in Goroutines |-> defined[g]]
  /\ \A g \in Goroutines :
       /\ cursor[g] # -1 => place = "use" /\ cursor[g] = found
       /\ defined[g] # {} => place = "use" /\ defined[g] = registry[found]
  /\ raced = FALSE

RegistryInv == GenInv /\ EnumInv /\ LookInv /\ CallInv

\* main's files number the versions that were parsed.
LEMMA GenerateKeeps ==
  ASSUME GenInv, EnumInv, LookInv, Generate
  PROVE  EnumInv'
<1>0. table' = table /\ \A v \in parsed : IsData(v.name) /\ v = TableOf(v.name)
  BY DEF Generate, genVars, GenInv
<1>1. CASE parsed = {}
  <2>1. enum' = enum /\ registry' = registry /\ place' = "fatal"
    BY <1>1 DEF Generate
  <2> QED BY <1>0, <2>1 DEF EnumInv, IsData, RowsOf
<1>2. CASE parsed # {}
  <2> DEFINE n == Cardinality(parsed)
  <2>1. n \in Nat /\ n > 0
    BY <1>2, FS_CardinalityType, FS_EmptySet DEF GenInv
  <2>2. PICK order \in [0 .. n - 1 -> parsed] :
          /\ \A i, j \in DOMAIN order : i < j => order[i] # order[j] /\ ~Less(order[j].name, order[i].name)
          /\ enum' = EnumOf(order)
          /\ registry' = RegistryOf(order)
    BY <1>2 DEF Generate
  <2> HIDE DEF n
  <2>3. DOMAIN order = 0 .. n - 1 /\ \A i \in 0 .. n - 1 : order[i] \in parsed
    BY <2>2
  <2>4. /\ DOMAIN enum' = 0 .. n - 1 /\ DOMAIN registry' = 0 .. n - 1
        /\ \A i \in 0 .. n - 1 : enum'[i] = order[i].name /\ registry'[i] = order[i].names
    BY <2>2, <2>3 DEF EnumOf, RegistryOf
  <2>5. ASSUME NEW i \in 0 .. n - 1
        PROVE  /\ IsData(enum'[i]) /\ registry'[i] = RowsOf(enum'[i])
               /\ order[i] = TableOf(enum'[i])
    <3>1. IsData(order[i].name) /\ order[i] = TableOf(order[i].name)
      BY <1>0, <2>3
    <3>2. TableOf(order[i].name).names = RowsOf(order[i].name)
      BY DEF TableOf
    <3> QED BY <2>4, <3>1, <3>2
  <2>6. ASSUME NEW i \in 0 .. n - 1, NEW j \in 0 .. n - 1, i < j
        PROVE  enum'[i] # enum'[j] /\ ~Less(enum'[j], enum'[i])
    <3>1. order[i] # order[j] /\ ~Less(order[j].name, order[i].name)
      BY <2>2, <2>3, <2>6
    <3> QED BY <2>4, <2>5, <3>1
  <2>8. (\A v \in DOMAIN enum : IsData(enum[v]) /\ registry[v] = RowsOf(enum[v]))'
    BY <1>0, <2>4, <2>5 DEF RowsOf, IsData
  <2>9. \E m \in Nat : DOMAIN enum' = 0 .. m - 1 /\ m > 0
    BY <2>1, <2>4
  <2>10. (\A v, w \in DOMAIN enum : v < w => enum[v] # enum[w] /\ ~Less(enum[w], enum[v]))'
    BY <2>4, <2>6
  <2> QED BY <2>4, <2>8, <2>9, <2>10 DEF EnumInv
<1> QED BY <1>1, <1>2

\* A version that is known and one that is asked for are sequences of numbers.
LEMMA KnownParts ==
  ASSUME EnumInv, NEW v \in DOMAIN enum
  PROVE  /\ IsData(enum[v]) /\ enum[v] \in Strings
         /\ IsRelease(enum[v]) => Patch(enum[v]) \in Int /\ Patch(enum[v]) >= 0
<1>1. IsData(enum[v])
  BY DEF EnumInv
<1>2. enum[v] \in Strings
  BY <1>1, RegistryAssumption DEF IsData, Strings
<1>3. IsRelease(enum[v]) => Patch(enum[v]) \in Below
  BY <1>2, Parts
<1> QED BY <1>1, <1>2, <1>3 DEF Below

\* The constant Latest is a version.
LEMMA LatestKnown ==
  ASSUME EnumInv, place \in {"lookup", "scan", "found", "use"}
  PROVE  LatestVersion \in DOMAIN enum
<1>1. PICK n \in Nat : DOMAIN enum = 0 .. n - 1 /\ n > 0
  BY DEF EnumInv
<1>2. Cardinality(0 .. n - 1) = n
  BY <1>1, FS_Interval
<1> QED BY <1>1, <1>2 DEF LatestVersion

\* VersionFromString looks for the string itself.
LEMMA AskKeeps ==
  ASSUME EnumInv, LookInv, Ask
  PROVE  LookInv'
<1>1. PICK s \in AskedFor :
        /\ asked' = s
        /\ IF \E v \in DOMAIN enum : enum[v] = s
           THEN /\ found' = CHOOSE v \in DOMAIN enum : enum[v] = s
                /\ place' = "found"
                /\ UNCHANGED scan
           ELSE /\ place' = IF IsRelease(s) THEN "scan" ELSE "found"
                /\ scan' = IF IsRelease(s) THEN DOMAIN enum ELSE {}
                /\ UNCHANGED found
  BY DEF Ask
<1>2. enum' = enum /\ best' = best /\ best = <<-1, 0>> /\ scan = {} /\ found = -1 /\ s \in Strings
  BY RegistryAssumption DEF Ask, LookInv, Strings
<1>3. CASE Known(s)
  <2>1. found' \in DOMAIN enum /\ enum[found'] = s /\ place' = "found" /\ scan' = {}
    BY <1>1, <1>2, <1>3 DEF Known
  <2>2. Nearest'
    BY <1>1, <1>2, <2>1 DEF Nearest
  <2> QED BY <1>1, <1>2, <2>1, <2>2 DEF LookInv
<1>4. CASE ~Known(s) /\ IsRelease(s)
  <2>1. found' = -1 /\ place' = "scan" /\ scan' = DOMAIN enum
    BY <1>1, <1>2, <1>4 DEF Known
  <2>2. BestSoFar'
    BY <1>2, <2>1 DEF BestSoFar
  <2>3. ~Known(asked)'
    BY <1>1, <1>2, <1>4 DEF Known
  <2> QED BY <1>1, <1>2, <1>4, <2>1, <2>2, <2>3 DEF LookInv
<1>5. CASE ~Known(s) /\ ~IsRelease(s)
  <2>1. found' = -1 /\ place' = "found" /\ scan' = {}
    BY <1>1, <1>2, <1>5 DEF Known
  <2> QED BY <1>1, <1>2, <1>5, <2>1 DEF LookInv
<1> QED BY <1>3, <1>4, <1>5

\* One round of its loop.
LEMMA ScanKeeps ==
  ASSUME EnumInv, LookInv, Scan
  PROVE  LookInv'
<1>1. PICK v \in scan :
        /\ scan' = scan \ {v}
        /\ best' = IF Candidate(enum[v], asked) /\ Patch(enum[v]) > best[1]
                   THEN <<Patch(enum[v]), v>> ELSE best
  BY DEF Scan
<1>2. /\ place = "scan" /\ place' = place /\ enum' = enum /\ asked' = asked /\ found' = found
      /\ scan \subseteq DOMAIN enum /\ found = -1 /\ IsRelease(asked) /\ ~Known(asked) /\ BestSoFar
      /\ asked \in Strings
  BY DEF Scan, LookInv
<1>3. Candidate(enum[v], asked) => Patch(enum[v]) \in Int /\ Patch(enum[v]) >= 0
  BY <1>1, <1>2, KnownParts DEF Candidate
<1>4. best[1] \in Int /\ best[1] >= -1
  BY <1>2 DEF BestSoFar
<1>5. BestSoFar'
  <2>1. CASE Candidate(enum[v], asked) /\ Patch(enum[v]) > best[1]
    <3>1. best'[1] = Patch(enum[v]) /\ best'[2] = v
      BY <1>1, <2>1
    <3>2. ASSUME NEW w \in DOMAIN enum \ scan', Candidate(enum[w], asked)
          PROVE  Patch(enum[w]) <= best'[1]
      <4>1. CASE w = v
        BY <1>3, <2>1, <3>1, <4>1
      <4>2. CASE w # v
        <5>1. w \in DOMAIN enum \ scan
          BY <1>1, <4>2
        <5>2. best[1] # -1 /\ Patch(enum[w]) <= best[1]
          BY <1>2, <3>2, <5>1 DEF BestSoFar
        <5>3. Patch(enum[w]) \in Int
          BY <1>2, <3>2, KnownParts DEF Candidate
        <5> DEFINE p == Patch(enum[v])
                   q == Patch(enum[w])
                   b == best[1]
        <5>4. p \in Int /\ q \in Int /\ b \in Int /\ p > b /\ q <= b
          BY <1>3, <1>4, <2>1, <5>2, <5>3
        <5> HIDE DEF p, q, b
        <5>5. q <= p
          BY <5>4
        <5> QED BY <3>1, <5>5 DEF p, q
      <4> QED BY <4>1, <4>2
    <3>3. best'[1] \in Int /\ best'[1] >= -1 /\ best'[1] # -1
      BY <1>3, <2>1, <3>1
    <3> QED BY <1>1, <1>2, <2>1, <3>1, <3>2, <3>3 DEF BestSoFar
  <2>2. CASE ~(Candidate(enum[v], asked) /\ Patch(enum[v]) > best[1])
    <3>1. best' = best
      BY <1>1, <2>2
    <3>2. ASSUME Candidate(enum[v], asked) PROVE best[1] # -1 /\ Patch(enum[v]) <= best[1]
      BY <1>3, <1>4, <2>2, <3>2
    <3> QED BY <1>1, <1>2, <3>1, <3>2 DEF BestSoFar
  <2> QED BY <2>1, <2>2
<1> QED BY <1>1, <1>2, <1>5 DEF LookInv, Known

\* After the loop.
LEMMA ScanEndKeeps ==
  ASSUME EnumInv, LookInv, ScanEnd
  PROVE  LookInv'
<1>1. /\ place = "scan" /\ scan = {} /\ found' = (IF best[1] >= 0 THEN best[2] ELSE -1) /\ place' = "found"
      /\ enum' = enum /\ asked' = asked /\ scan' = scan /\ best' = best
  BY DEF ScanEnd
<1>2. IsRelease(asked) /\ ~Known(asked) /\ BestSoFar /\ asked \in Strings
  BY <1>1 DEF LookInv
<1>3. best[1] \in Int /\ best[1] >= -1
  BY <1>2 DEF BestSoFar
<1>4. CASE best[1] = -1
  <2>1. found' = -1 /\ \A v \in DOMAIN enum : ~Candidate(enum[v], asked)
    BY <1>1, <1>2, <1>4 DEF BestSoFar
  <2>2. Nearest'
    BY <1>1, <1>2, <2>1 DEF Nearest, Known
  <2> QED BY <1>1, <1>2, <2>1, <2>2 DEF LookInv
<1>5. CASE best[1] # -1
  <2>1. found' = best[2]
    BY <1>1, <1>3, <1>5
  <2>2. /\ found' \in DOMAIN enum /\ Candidate(enum[found'], asked)
        /\ \A v \in DOMAIN enum : Candidate(enum[v], asked) => Patch(enum[v]) <= Patch(enum[found'])
    BY <1>1, <1>2, <1>5, <2>1 DEF BestSoFar
  <2>3. Nearest'
    BY <1>1, <2>2 DEF Nearest
  <2> QED BY <1>1, <1>2, <2>2, <2>3 DEF LookInv
<1> QED BY <1>4, <1>5

\* cmd/main.go takes the result, or the latest version.
LEMMA UseKeeps ==
  ASSUME EnumInv, LookInv, Use
  PROVE  LookInv'
<1>1. place = "found" /\ enum' = enum /\ asked' = asked /\ scan' = scan /\ best' = best
  BY DEF Use
<1>2. CASE found < 0 /\ asked # Default
  <2>1. place' = "fatal" /\ found' = found
    BY <1>2 DEF Use
  <2>2. found = -1
    BY <1>2 DEF LookInv, EnumInv
  <2>3. Nearest' <=> Nearest
    BY <1>1, <2>1 DEF Nearest, Known
  <2> QED BY <1>1, <2>1, <2>2, <2>3 DEF LookInv
<1>3. CASE asked = Default
  <2>1. place' = "use" /\ found' = LatestVersion
    BY <1>3 DEF Use
  <2>2. LatestVersion \in DOMAIN enum
    BY <1>1, LatestKnown
  <2>3. ~IsRelease(asked)
    BY <1>3 DEF Default, IsRelease
  <2> QED BY <1>1, <2>1, <2>2, <2>3 DEF LookInv
<1>4. CASE ~(found < 0) /\ asked # Default
  <2>1. place' = "use" /\ found' = found
    BY <1>4 DEF Use
  <2>2. found \in DOMAIN enum
    BY <1>4 DEF LookInv
  <2>3. Nearest' <=> Nearest
    BY <1>1, <2>1 DEF Nearest, Known
  <2> QED BY <1>1, <2>1, <2>2, <2>3 DEF LookInv
<1> QED BY <1>2, <1>3, <1>4

\* GetDefinition finds the version's own entry, and leaves the table alone.
LEMMA CallsKeep ==
  ASSUME EnumInv, LookInv, CallInv, NEW g \in Goroutines, GetDefinition(g) \/ Lookup(g)
  PROVE  CallInv' /\ registry' = registry
<1>1. /\ place' = place /\ enum' = enum /\ found' = found
      /\ cursor \in [Goroutines -> DOMAIN enum \cup {-1}] /\ raced = FALSE
      /\ defined = [h \in Goroutines |-> defined[h]]
      /\ \A h \in Goroutines :
           /\ cursor[h] # -1 => place = "use" /\ cursor[h] = found
           /\ defined[h] # {} => place = "use" /\ defined[h] = registry[found]
  BY DEF CallInv, GetDefinition, Lookup, askVars
<1>2. CASE GetDefinition(g)
  <2>1. /\ place = "use" /\ cursor' = [cursor EXCEPT ![g] = found]
        /\ registry' = registry /\ defined' = defined /\ raced' = raced
    BY <1>2 DEF GetDefinition
  <2>2. found \in DOMAIN enum
    BY <2>1 DEF LookInv
  <2> QED BY <1>1, <2>1, <2>2 DEF CallInv
<1>3. CASE Lookup(g)
  <2>1. cursor[g] >= 0
    BY <1>3 DEF Lookup
  <2>2. cursor[g] = found /\ place = "use" /\ cursor[g] \in DOMAIN registry
    <3>1. cursor[g] # -1
      BY <1>1, <2>1
    <3> QED BY <1>1, <3>1 DEF EnumInv
  <2>3. ~NeedsWrite(cursor[g], found)
    BY <2>2 DEF NeedsWrite
  <2>4. /\ defined' = [defined EXCEPT ![g] = registry[cursor[g]]]
        /\ cursor' = [cursor EXCEPT ![g] = -1]
        /\ registry' = registry /\ raced' = raced
    BY <1>3, <2>2, <2>3 DEF Lookup
  <2>5. defined' = [h \in Goroutines |-> defined'[h]]
    BY <1>1, <2>4
  <2>6. \A h \in Goroutines :
          /\ cursor'[h] # -1 => place = "use" /\ cursor'[h] = found
          /\ defined'[h] # {} => place = "use" /\ defined'[h] = registry[found]
    BY <1>1, <2>2, <2>4
  <2>7. cursor' \in [Goroutines -> DOMAIN enum \cup {-1}]
    BY <1>1, <2>4
  <2> QED BY <1>1, <2>4, <2>5, <2>6, <2>7 DEF CallInv
<1> QED BY <1>2, <1>3

\* The invariant is inductive.
LEMMA RegistryInvHolds == Spec => []RegistryInv
<1>1. Init => RegistryInv
  <2> SUFFICES ASSUME Init PROVE RegistryInv
    OBVIOUS
  <2>1. GenInv
    BY FS_EmptySet DEF Init, GenInv
  <2>2. enum = <<>> /\ registry = <<>> /\ DOMAIN enum = {} /\ DOMAIN registry = {} /\ place = "parse"
    BY DEF Init
  <2>3. EnumInv
    <3>1. DOMAIN enum = 0 .. 0 - 1
      BY <2>2
    <3> QED BY <2>2, <3>1 DEF EnumInv
  <2>4. <<>> \in Strings
    BY DEF Strings
  <2>5. LookInv
    BY <2>2, <2>4, SMT DEF Init, LookInv, IsRelease
  <2>6. CallInv
    BY <2>2 DEF Init, CallInv
  <2> QED BY <2>1, <2>3, <2>5, <2>6 DEF RegistryInv
<1>2. RegistryInv /\ [Next]_vars => RegistryInv'
  <2> SUFFICES ASSUME RegistryInv, [Next]_vars PROVE RegistryInv'
    OBVIOUS
  <2>0. GenInv /\ EnumInv /\ LookInv /\ CallInv
    BY DEF RegistryInv
  <2>1. GenInv'
    BY <2>0, GenKeeps
  <2>2. CASE ReadDirectory \/ ProcessPacket \/ AppendVersion \/ UNCHANGED vars
    <3>1. place' = place /\ table' = table /\ enum' = enum /\ registry' = registry
      BY <2>2 DEF ReadDirectory, ProcessPacket, AppendVersion, vars, genVars
    <3>2. UNCHANGED <<askVars, callVars>>
      BY <2>2, Zenon DEF ReadDirectory, ProcessPacket, AppendVersion, vars
    <3>3. /\ asked' = asked /\ scan' = scan /\ best' = best /\ found' = found
          /\ cursor' = cursor /\ defined' = defined /\ raced' = raced
      BY <3>2, Zenon DEF askVars, callVars
    <3>4. EnumInv'
      BY <2>0, <3>1 DEF EnumInv, IsData, RowsOf
    <3>5. LookInv'
      BY <2>0, <3>1, <3>3 DEF LookInv, Known, BestSoFar, Nearest
    <3>6. CallInv'
      BY <2>0, <3>1, <3>3 DEF CallInv
    <3> QED BY <2>1, <3>4, <3>5, <3>6 DEF RegistryInv
  <2>3. CASE Generate
    <3>1. EnumInv'
      BY <2>0, <2>3, GenerateKeeps
    <3>2. UNCHANGED <<askVars, callVars>> /\ place = "parse"
      BY <2>3, Zenon DEF Generate
    <3>3. /\ asked' = asked /\ scan' = scan /\ best' = best /\ found' = found
          /\ cursor' = cursor /\ defined' = defined /\ raced' = raced
      BY <3>2, Zenon DEF askVars, callVars
    <3>4. asked = <<>> /\ scan = {} /\ best = <<-1, 0>> /\ found = -1 /\ DOMAIN enum = {}
      BY <2>0, <3>2 DEF LookInv
    <3>5. LookInv'
      <4>1. place' \in {"lookup", "fatal"}
        BY <2>3 DEF Generate
      <4>2. ~IsRelease(asked)
        BY <3>4 DEF IsRelease
      <4>3. asked \in Strings
        BY <2>0 DEF LookInv
      <4> QED BY <3>3, <3>4, <4>1, <4>2, <4>3 DEF LookInv
    <3>6. CallInv'
      <4>1. \A g \in Goroutines : cursor[g] = -1 /\ defined[g] = {}
        BY <2>0, <3>2 DEF CallInv
      <4>2. /\ cursor \in [Goroutines -> DOMAIN enum \cup {-1}]
            /\ defined = [g \in Goroutines |-> defined[g]] /\ raced = FALSE
        BY <2>0 DEF CallInv
      <4>3. cursor \in [Goroutines -> DOMAIN enum' \cup {-1}]
        BY <4>1, <4>2
      <4> QED BY <3>3, <4>1, <4>2, <4>3 DEF CallInv
    <3> QED BY <2>1, <3>1, <3>5, <3>6 DEF RegistryInv
  <2>4. CASE Ask \/ Scan \/ ScanEnd \/ Use
    <3>1. LookInv'
      BY <2>0, <2>4, AskKeeps, ScanKeeps, ScanEndKeeps, UseKeeps
    <3>2. UNCHANGED <<genVars, enum, registry, callVars>> /\ place \in {"lookup", "scan", "found"}
      BY <2>4, Zenon DEF Ask, Scan, ScanEnd, Use
    <3>3. /\ table' = table /\ enum' = enum /\ registry' = registry
          /\ cursor' = cursor /\ defined' = defined /\ raced' = raced
      BY <3>2, Zenon DEF genVars, callVars
    <3>4. EnumInv'
      BY <2>0, <3>2, <3>3 DEF EnumInv, IsData, RowsOf
    <3>5. CallInv'
      <4>1. \A g \in Goroutines : cursor[g] = -1 /\ defined[g] = {}
        BY <2>0, <3>2 DEF CallInv
      <4> QED BY <2>0, <3>3, <4>1 DEF CallInv
    <3> QED BY <2>1, <3>1, <3>4, <3>5 DEF RegistryInv
  <2>5. CASE \E g \in Goroutines : GetDefinition(g) \/ Lookup(g)
    <3>1. PICK g \in Goroutines : GetDefinition(g) \/ Lookup(g)
      BY <2>5
    <3>2. CallInv' /\ registry' = registry
      BY <2>0, <3>1, CallsKeep
    <3>3. UNCHANGED <<place, genVars, enum, askVars>>
      BY <3>1, Zenon DEF GetDefinition, Lookup
    <3>4. /\ place' = place /\ table' = table /\ enum' = enum
          /\ asked' = asked /\ scan' = scan /\ best' = best /\ found' = found
      BY <3>3, Zenon DEF genVars, askVars
    <3>5. EnumInv'
      BY <2>0, <3>2, <3>4 DEF EnumInv, IsData, RowsOf
    <3>6. LookInv'
      BY <2>0, <3>4 DEF LookInv, Known, BestSoFar, Nearest
    <3> QED BY <2>1, <3>2, <3>5, <3>6 DEF RegistryInv
  <2> QED BY <2>2, <2>3, <2>4, <2>5 DEF Next
<1> QED BY <1>1, <1>2, PTL DEF Spec

-----------------------------------------------------------------------------
(* Theorems.                                                               *)

\* Every variable keeps its type: in particular, VersionFromString and Latest
\* give versions that are in the generated enumeration.
THEOREM TypeCorrect == Spec => []TypeOK
<1>1. RegistryInv => TypeOK
  BY DEF RegistryInv, GenInv, EnumInv, LookInv, CallInv, TypeOK
<1> QED BY <1>1, RegistryInvHolds, PTL

\* For any directories, and in whatever order the maps are ranged over, the
\* generator gives the tables that the package has, and their inverses.
THEOREM GeneratorIsExact == Spec => []TablesFollowRules
<1>1. RegistryInv => TablesFollowRules
  <2> SUFFICES ASSUME GenInv, NEW v \in parsed
               PROVE  /\ v.names = Registered(DataOf[v.name], table[1], table[2])
                      /\ v.ids = { <<row[2], row[1]>> : row \in v.names }
    BY DEF RegistryInv, TablesFollowRules
  <2>1. v = TableOf(v.name)
    BY DEF GenInv
  <2>2. v.names = RowsOf(v.name) /\ v.ids = Inverted(RowsOf(v.name))
    BY <2>1 DEF TableOf
  <2> QED BY <2>2 DEF RowsOf, Inverted
<1> QED BY <1>1, RegistryInvHolds, PTL

\* The constants compare as the releases do, for any directories.
THEOREM ConstantsInOrder == Spec => []ReleaseOrder
<1>1. RegistryInv => ReleaseOrder
  <2> SUFFICES ASSUME EnumInv, NEW v \in DOMAIN enum, NEW w \in DOMAIN enum, v < w, enum[w] # Snapshot
               PROVE  enum[v] # Snapshot /\ DataOf[enum[v]] < DataOf[enum[w]]
    BY DEF RegistryInv, ReleaseOrder
  <2>1. IsData(enum[v]) /\ IsData(enum[w]) /\ enum[v] # enum[w] /\ ~Less(enum[w], enum[v])
    BY DEF EnumInv
  <2>2. IsRelease(enum[w])
    BY <2>1 DEF IsData
  <2>3. IsRelease(enum[v]) /\ DataOf[enum[v]] < DataOf[enum[w]]
    BY <2>1, <2>2, DataOrder
  <2>4. ~IsRelease(Snapshot)
    BY DEF IsRelease, Snapshot
  <2> QED BY <2>3, <2>4
<1> QED BY <1>1, RegistryInvHolds, PTL

\* For any versions that are known and any that is asked for, and in whatever
\* order the known ones are met, VersionFromString finds the release itself or
\* the latest that may stand for it.
THEOREM NearestFound == Spec => []NearestRelease
<1>1. RegistryInv => NearestRelease
  <2> SUFFICES ASSUME EnumInv, LookInv, IsRelease(asked), place \in {"use", "fatal"}
               PROVE  LET stand == { v \in DOMAIN enum : StandsFor(enum[v], asked) } IN
                      /\ place = "fatal" <=> stand = {} /\ ~\E v \in DOMAIN enum : enum[v] = asked
                      /\ place = "use" => \/ enum[found] = asked
                                          \/ found \in stand /\ \A v \in stand : v <= found
    BY DEF RegistryInv, NearestRelease
  <2> DEFINE stand == { v \in DOMAIN enum : StandsFor(enum[v], asked) }
  <2>1. \A v \in DOMAIN enum : StandsFor(enum[v], asked) <=> Candidate(enum[v], asked)
    <3> SUFFICES ASSUME NEW v \in DOMAIN enum PROVE StandsFor(enum[v], asked) <=> Candidate(enum[v], asked)
      OBVIOUS
    <3>1. IsData(enum[v])
      BY DEF EnumInv
    <3>2. enum[v] # Snapshot <=> IsRelease(enum[v])
      <4>1. ~IsRelease(Snapshot)
        BY DEF IsRelease, Snapshot
      <4> QED BY <3>1, <4>1 DEF IsData
    <3> QED BY <3>2 DEF StandsFor, Candidate, SameMinor
  <2>2. stand = { v \in DOMAIN enum : Candidate(enum[v], asked) }
    BY <2>1
  <2> SUFFICES /\ place = "fatal" <=> stand = {} /\ ~\E v \in DOMAIN enum : enum[v] = asked
               /\ place = "use" => \/ enum[found] = asked
                                   \/ found \in stand /\ \A v \in stand : v <= found
    OBVIOUS
  <2> HIDE DEF stand
  <2>3. Nearest
    BY DEF LookInv
  <2>4. CASE place = "fatal"
    <3>1. found = -1 /\ \A v \in DOMAIN enum : v # -1
      BY <2>4 DEF LookInv, EnumInv
    <3>2. ~Known(asked) /\ \A v \in DOMAIN enum : ~Candidate(enum[v], asked)
      BY <2>3, <3>1 DEF Nearest
    <3>3. stand = {}
      BY <2>2, <3>2
    <3>4. ~\E v \in DOMAIN enum : enum[v] = asked
      BY <3>2 DEF Known
    <3> QED BY <2>4, <3>3, <3>4
  <2>5. CASE place = "use"
    <3>1. found \in DOMAIN enum /\ \A v \in DOMAIN enum : v # -1 /\ v \in Int
      BY <2>5 DEF LookInv, EnumInv
    <3>2. CASE enum[found] = asked
      BY <2>5, <3>1, <3>2
    <3>3. CASE /\ Candidate(enum[found], asked)
               /\ \A v \in DOMAIN enum : Candidate(enum[v], asked) => Patch(enum[v]) <= Patch(enum[found])
      <4>1. ASSUME NEW v \in stand PROVE v <= found
        <5>1. SUFFICES ASSUME found < v PROVE FALSE
          BY <2>2, <3>1
        <5>2. v \in DOMAIN enum /\ Candidate(enum[v], asked) /\ Patch(enum[v]) <= Patch(enum[found])
          BY <2>2, <3>3
        <5>3. PICK s, t : s = enum[found] /\ t = enum[v]
          OBVIOUS
        <5>4. IsData(s) /\ IsData(t) /\ s # t /\ ~Less(t, s)
          BY <3>1, <5>1, <5>2, <5>3 DEF EnumInv
        <5>5. IsRelease(s) /\ IsRelease(t) /\ SameMinor(s, t)
          BY <3>3, <5>2, <5>3 DEF Candidate, SameMinor
        <5>6. s \in Strings /\ t \in Strings /\ Number(s) < Number(t)
          BY <5>4, <5>5, DataOrder
        <5>7. Patch(s) < Patch(t)
          BY <5>5, <5>6, LessIsOrder
        <5>8. Patch(s) \in Int /\ Patch(t) \in Int
          BY <3>1, <5>2, <5>3, <5>5, KnownParts
        <5> QED BY <5>2, <5>3, <5>7, <5>8
      <4>2. found \in stand
        BY <2>2, <3>1, <3>3
      <4>3. stand # {}
        BY <4>2
      <4> QED BY <2>5, <4>1, <4>2, <4>3
    <3> QED BY <2>3, <3>1, <3>2, <3>3 DEF Nearest
  <2> QED BY <2>4, <2>5
<1> QED BY <1>1, RegistryInvHolds, PTL

\* However many goroutines call GetDefinition, none writes protocolRegistry: an
\* entry for a version that was found by name is there.
THEOREM NoRace == Spec => []NeverRaced
<1>1. RegistryInv => NeverRaced
  BY DEF RegistryInv, CallInv, NeverRaced
<1> QED BY <1>1, RegistryInvHolds, PTL

\* Each of them works with the table of the version that was found.
THEOREM EveryOwnTable == Spec => []OwnTable
<1>1. RegistryInv => OwnTable
  <2> SUFFICES ASSUME RegistryInv, NEW g \in Goroutines, defined[g] # {}
               PROVE  defined[g] = Registered(DataOf[enum[found]], table[1], table[2])
    BY DEF OwnTable
  <2>1. place = "use" /\ defined[g] = registry[found]
    BY DEF RegistryInv, CallInv
  <2>2. found \in DOMAIN enum
    BY <2>1 DEF RegistryInv, LookInv
  <2>3. registry[found] = RowsOf(enum[found])
    BY <2>2 DEF RegistryInv, EnumInv
  <2> QED BY <2>1, <2>3 DEF RowsOf
<1> QED BY <1>1, RegistryInvHolds, PTL
=============================================================================

