------------------------------ MODULE Registry ------------------------------
(***************************************************************************)
(* Where the version enumeration and the packet tables come from, and how  *)
(* they are looked up: generator/main.go over a minecraft-data directory,  *)
(* then, in a program that uses the package, VersionFromString for the     *)
(* version somebody asks for and GetDefinition by the goroutines that read *)
(* and write packets.                                                      *)
(*                                                                         *)
(* Go ranges over a map in any order, and does so for the packets of a     *)
(* state and direction, for the Go names of a packet and for the known     *)
(* versions.                                                               *)
(*                                                                         *)
(* A version string is the sequence of its parts, with NaN for one that is *)
(* no number.  As in Protocol, a packet ID is the name minecraft-data      *)
(* gives the packet.  The data is external: a directory lists the packets  *)
(* that Protocol has for its version, and others.                          *)
(***************************************************************************)
EXTENDS Protocol, Sequences, FiniteSets

CONSTANTS
  Directories, \* the directories there may be, in the order of os.ReadDir
  DataOf,      \* the version each describes
  Unlisted,    \* packets of a state and direction that Protocol does not register
  AskedFor,    \* version strings somebody asks for
  Goroutines   \* those that read and write packets

NaN      == 1000
Snapshot == <<NaN>>       \* the latest one
Default  == <<NaN, NaN>>  \* "latest", cmd's default

ASSUME RegistryAssumption ==
  /\ Directories \in Seq(Seq(0 .. NaN))
  /\ AskedFor \subseteq Seq(0 .. NaN)
  /\ \A i \in DOMAIN Directories : DataOf[Directories[i]] \in Versions
  /\ IsFiniteSet(Goroutines)

VARIABLES
  place,        \* what the program does: "parse", then "lookup", "scan", "found", "use" or "fatal"
  table,        \* the state and the direction looked at
  dirs,         \* directories not yet read, as positions in Directories
  dir,          \* the one being read
  todo,         \* its packets not yet processed
  PacketIDs,    \* its tables so far, as pairs
  PacketNames,
  parsed,       \* parsedVersions
  enum,         \* the enumeration: what is generated for 0, 1, ...
  registry,     \* protocolRegistry
  asked,        \* the argument of VersionFromString
  scan,         \* the known versions it has still to look at
  best,         \* bestPatch and bestVersion
  found,        \* its result, or -1
  cursor,       \* GetDefinition's current, for each goroutine, or -1
  defined,      \* what GetDefinition returned
  raced         \* a goroutine wrote protocolRegistry while another was reading it

genVars  == <<table, dirs, dir, todo, PacketIDs, PacketNames, parsed>>
askVars  == <<asked, scan, best, found>>
callVars == <<cursor, defined, raced>>
vars     == <<place, genVars, enum, registry, askVars, callVars>>

NoDir == <<>>

-----------------------------------------------------------------------------
(* The generator.                                                          *)

goNameToMcNames ==
  [ ServerboundHandshake           |-> {"set_protocol"},
    ClientboundStatusResponse      |-> {"server_info"},
    ClientboundPong                |-> {"ping"},
    ServerboundStatusRequest       |-> {"ping_start"},
    ServerboundPing                |-> {"ping"},
    ServerboundLoginStart          |-> {"login_start"},
    ClientboundLoginSuccess        |-> {"success"},
    ClientboundSetCompression      |-> {"compress"},
    ServerboundLoginAcknowledged   |-> {"login_acknowledged"},
    ClientboundKeepAlive           |-> {"keep_alive"},
    ServerboundKeepAlive           |-> {"keep_alive"},
    ServerboundChatMessage         |-> {"chat", "chat_message", "player_chat_message"},
    ServerboundClientSettings      |-> {"settings", "client_information"},
    ServerboundCustomPayload       |-> {"custom_payload"},
    ClientboundCustomPayload       |-> {"custom_payload"},
    ClientboundDisconnect          |-> {"kick_disconnect", "disconnect"},
    ServerboundFinishConfiguration |-> {"finish_configuration"},
    ClientboundFinishConfiguration |-> {"finish_configuration"},
    ServerboundConfigKeepAlive     |-> {"keep_alive"},
    ClientboundConfigKeepAlive     |-> {"keep_alive"},
    ServerboundSelectKnownPacks    |-> {"select_known_packs"},
    ClientboundSelectKnownPacks    |-> {"select_known_packs"},
    ClientboundCookieRequest       |-> {"cookie_request"},
    ServerboundCookieResponse      |-> {"cookie_response"},
    ClientboundConfigPing          |-> {"ping"},
    ServerboundConfigPong          |-> {"pong"},
    ClientboundJoinGame            |-> {"login"},
    ClientboundFeatureFlags        |-> {"feature_flags"},
    ClientboundUpdateTags          |-> {"update_tags"},
    ClientboundRegistryData        |-> {"registry_data"} ]

\* The name for a direction: one of two.
By(d, serverbound, clientbound) == IF d = "Serverbound" THEN serverbound ELSE clientbound

\* A mutant of resolveAmbiguousNames: keep_alive does not depend on the state.
resolveAmbiguousNamesAnyState(goName, s, d) ==
  CASE goName \in {"ServerboundCustomPayload", "ClientboundCustomPayload"} ->
         By(d, "ServerboundCustomPayload", "ClientboundCustomPayload")
    [] goName \in {"ServerboundSelectKnownPacks", "ClientboundSelectKnownPacks"} ->
         By(d, "ServerboundSelectKnownPacks", "ClientboundSelectKnownPacks")
    [] goName \in {"ServerboundFinishConfiguration", "ClientboundFinishConfiguration"} ->
         IF s # "Configuration" THEN ""
         ELSE By(d, "ServerboundFinishConfiguration", "ClientboundFinishConfiguration")
    [] goName \in {"ClientboundPong", "ServerboundPing", "ClientboundConfigPing", "ServerboundConfigPong"} ->
         By(d, IF s = "Status" THEN "ServerboundPing"
               ELSE IF s = "Configuration" THEN "ServerboundConfigPong" ELSE "",
               IF s = "Configuration" THEN "ClientboundConfigPing" ELSE "ClientboundPong")
    [] OTHER -> goName

\* The Go type for a state and direction, or "" if there is none.
resolveAmbiguousNames(goName, s, d) ==
  CASE goName \in {"ServerboundCustomPayload", "ClientboundCustomPayload"} ->
         By(d, "ServerboundCustomPayload", "ClientboundCustomPayload")
    [] goName \in {"ServerboundSelectKnownPacks", "ClientboundSelectKnownPacks"} ->
         By(d, "ServerboundSelectKnownPacks", "ClientboundSelectKnownPacks")
    [] goName \in {"ServerboundFinishConfiguration", "ClientboundFinishConfiguration"} ->
         IF s # "Configuration" THEN ""
         ELSE By(d, "ServerboundFinishConfiguration", "ClientboundFinishConfiguration")
    [] goName \in {"ClientboundKeepAlive", "ServerboundKeepAlive",
                   "ServerboundConfigKeepAlive", "ClientboundConfigKeepAlive"} ->
         IF s = "Configuration"
         THEN By(d, "ServerboundConfigKeepAlive", "ClientboundConfigKeepAlive")
         ELSE By(d, "ServerboundKeepAlive", "ClientboundKeepAlive")
    [] goName \in {"ClientboundPong", "ServerboundPing", "ClientboundConfigPing", "ServerboundConfigPong"} ->
         By(d, IF s = "Status" THEN "ServerboundPing"
               ELSE IF s = "Configuration" THEN "ServerboundConfigPong" ELSE "",
               IF s = "Configuration" THEN "ClientboundConfigPing" ELSE "ClientboundPong")
    [] OTHER -> goName

\* The parts of a version string, as parseReleaseVersion and the generator's
\* regular expression take them.
IsRelease(s) == Len(s) \in {2, 3} /\ \A i \in DOMAIN s : s[i] # NaN
Patch(s)     == IF Len(s) = 3 THEN s[3] ELSE 0
SameMinor(s, t) == s[1] = t[1] /\ s[2] = t[2]

\* A release as a number: its parts are below NaN.
Number(s) == NaN * (NaN * s[1] + s[2]) + Patch(s)

\* A packet that goNameToMcNames names, but not for the state and direction.
Misplaced(name, s, d) ==
  \/ name \in {"ping", "pong"} /\ d = "Serverbound" /\ s \notin {"Status", "Configuration"}
  \/ name = "finish_configuration" /\ s # "Configuration"

\* minecraft-data has one directory for a release, describes in it what was
\* current then, and lists beyond the registered packets only those that have
\* no Go name where they occur.
ASSUME DataAssumption ==
  /\ \A i, j \in DOMAIN Directories :
       LET s == Directories[i]
           t == Directories[j]
       IN  /\ s = t => i = j
           /\ IsRelease(s) /\ IsRelease(t) /\ i # j => Number(s) # Number(t)
           /\ IsRelease(s) /\ IsRelease(t) /\ Number(s) < Number(t) => DataOf[s] < DataOf[t]
  /\ \A s \in States, d \in Directions : \A name \in Unlisted[<<s, d>>] :
       Misplaced(name, s, d) \/ \A n \in DOMAIN goNameToMcNames : name \notin goNameToMcNames[n]

\* The packets that a directory lists for the state and direction: what
\* preParsePacketIDs returns.
Listed(name) ==
  { row[1] : row \in Registered(DataOf[name], table[1], table[2]) } \cup Unlisted[table]

\* loadAndParseProtocols: the next directory, which is read if it is a release
\* or the latest snapshot.
ReadDirectory ==
  /\ place = "parse" /\ dir = NoDir
  /\ \E i \in dirs :
       LET name == Directories[i] IN
       /\ \A j \in dirs : i <= j
       /\ dirs' = dirs \ {i}
       /\ IF IsRelease(name) \/ name = Snapshot
          THEN dir' = name /\ todo' = Listed(name)
          ELSE UNCHANGED <<dir, todo>>
  /\ PacketIDs' = {}
  /\ PacketNames' = {}
  /\ UNCHANGED <<place, table, parsed, enum, registry, askVars, callVars>>

\* The type a packet is registered under, for any order of the Go names.
FinalNames(mcPacketName) ==
  { resolveAmbiguousNames(goName, table[1], table[2]) :
      goName \in { n \in DOMAIN goNameToMcNames : mcPacketName \in goNameToMcNames[n] } } \ {""}

\* An assignment m[key] = value.
Assign(m, key, value) == { row \in m : row[1] # key } \cup { <<key, value>> }

\* processDirection, for one packet.
ProcessPacket ==
  /\ place = "parse"
  /\ \E name \in todo :
       /\ todo' = todo \ {name}
       /\ IF FinalNames(name) = {}
          THEN UNCHANGED <<PacketIDs, PacketNames>>
          ELSE \E type \in FinalNames(name) :
                 /\ PacketIDs' = Assign(PacketIDs, type, name)
                 /\ PacketNames' = Assign(PacketNames, name, type)
  /\ UNCHANGED <<place, table, dirs, dir, parsed, enum, registry, askVars, callVars>>

AppendVersion ==
  /\ place = "parse" /\ dir # NoDir /\ todo = {}
  /\ parsed' = parsed \cup { [name |-> dir, ids |-> PacketIDs, names |-> PacketNames] }
  /\ dir' = NoDir
  /\ UNCHANGED <<place, table, dirs, todo, PacketIDs, PacketNames, enum, registry, askVars, callVars>>

\* A mutant of Less: the minor version does not count.
LessByPatch(s, t) == IF IsRelease(s) /\ IsRelease(t) THEN Patch(s) < Patch(t) ELSE IsRelease(s)

\* The order main sorts by: releases as numbers, then the snapshot.
Less(s, t) ==
  IF IsRelease(s) /\ IsRelease(t)
  THEN \/ s[1] < t[1]
       \/ s[1] = t[1] /\ s[2] < t[2]
       \/ SameMinor(s, t) /\ Patch(s) < Patch(t)
  ELSE IsRelease(s)

\* The files, by template: the enumeration, and the registration of each
\* version's tables.
EnumOf(order)     == [i \in DOMAIN order |-> order[i].name]
RegistryOf(order) == [i \in DOMAIN order |-> order[i].names]

\* main: without a version there is nothing to generate; else the files, which
\* init of a program that uses the package turns into its tables.
Generate ==
  /\ place = "parse" /\ dirs = {} /\ dir = NoDir
  /\ IF parsed = {}
     THEN place' = "fatal" /\ UNCHANGED <<enum, registry>>
     ELSE /\ \E order \in [0 .. Cardinality(parsed) - 1 -> parsed] :
               /\ \A i, j \in DOMAIN order : i < j => order[i] # order[j] /\ ~Less(order[j].name, order[i].name)
               /\ enum' = EnumOf(order)
               /\ registry' = RegistryOf(order)
          /\ place' = "lookup"
  /\ UNCHANGED <<genVars, askVars, callVars>>

-----------------------------------------------------------------------------
(* VersionFromString.                                                      *)

\* A mutant of LatestVersion: one too many.
LatestVersionBeyond == Cardinality(DOMAIN enum)

\* The constant Latest.
LatestVersion == Cardinality(DOMAIN enum) - 1

Ask ==
  /\ place = "lookup"
  /\ \E s \in AskedFor :
       /\ asked' = s
       /\ IF \E v \in DOMAIN enum : enum[v] = s
          THEN /\ found' = CHOOSE v \in DOMAIN enum : enum[v] = s
               /\ place' = "found"
               /\ UNCHANGED scan
          ELSE /\ place' = IF IsRelease(s) THEN "scan" ELSE "found"
               /\ scan' = IF IsRelease(s) THEN DOMAIN enum ELSE {}
               /\ UNCHANGED found
  /\ UNCHANGED <<genVars, enum, registry, best, callVars>>

\* A mutant of Candidate: the asked patch is no limit.
CandidateAnyPatch(known, s) == IsRelease(known) /\ SameMinor(known, s)

\* A known version of the asked release, not above the asked patch.
Candidate(known, s) ==
  /\ IsRelease(known)
  /\ SameMinor(known, s)
  /\ Len(s) = 3 => Patch(known) <= s[3]

Scan ==
  /\ place = "scan"
  /\ \E v \in scan :
       /\ scan' = scan \ {v}
       /\ best' = IF Candidate(enum[v], asked) /\ Patch(enum[v]) > best[1]
                  THEN <<Patch(enum[v]), v>> ELSE best
  /\ UNCHANGED <<place, genVars, enum, registry, asked, found, callVars>>

ScanEnd ==
  /\ place = "scan" /\ scan = {}
  /\ found' = IF best[1] >= 0 THEN best[2] ELSE -1
  /\ place' = "found"
  /\ UNCHANGED <<genVars, enum, registry, asked, scan, best, callVars>>

-----------------------------------------------------------------------------
(* The version is used: cmd/main.go ends on an unknown one, and takes the  *)
(* latest where none was asked for; ReadPacket and WritePacket look up its *)
(* definition.                                                             *)

Use ==
  /\ place = "found"
  /\ IF found < 0 /\ asked # Default
     THEN place' = "fatal" /\ UNCHANGED found
     ELSE /\ place' = "use"
          /\ found' = IF asked = Default THEN LatestVersion ELSE found
  /\ UNCHANGED <<genVars, enum, registry, asked, scan, best, callVars>>

\* A mutant of GetDefinition: it starts one below.
GetDefinitionBelow(g) ==
  /\ place = "use" /\ cursor[g] < 0 /\ defined[g] = {}
  /\ cursor' = [cursor EXCEPT ![g] = found - 1]
  /\ UNCHANGED <<place, genVars, enum, registry, askVars, defined, raced>>

GetDefinition(g) ==
  /\ place = "use" /\ cursor[g] < 0 /\ defined[g] = {}
  /\ cursor' = [cursor EXCEPT ![g] = found]
  /\ UNCHANGED <<place, genVars, enum, registry, askVars, defined, raced>>

\* A mutant of NeedsWrite: the definition is stored again in any case.
NeedsWriteAlways(current, v) == TRUE

\* Whether GetDefinition stores what it found.
NeedsWrite(current, v) == current # v

Lookup(g) ==
  /\ cursor[g] >= 0
  /\ IF cursor[g] \in DOMAIN registry
     THEN /\ defined' = [defined EXCEPT ![g] = registry[cursor[g]]]
          /\ cursor' = [cursor EXCEPT ![g] = -1]
          /\ IF NeedsWrite(cursor[g], found)
             THEN /\ registry' = [v \in DOMAIN registry \cup {found} |->
                                    IF v = found THEN registry[cursor[g]] ELSE registry[v]]
                  /\ raced' = (raced \/ \E h \in Goroutines \ {g} : cursor[h] >= 0)
             ELSE UNCHANGED <<registry, raced>>
     ELSE /\ cursor' = [cursor EXCEPT ![g] = @ - 1]
          /\ UNCHANGED <<defined, registry, raced>>
  /\ UNCHANGED <<place, genVars, enum, askVars>>

-----------------------------------------------------------------------------
Init ==
  /\ place = "parse"
  /\ table \in States \X Directions
  /\ dirs \in SUBSET DOMAIN Directories
  /\ dir = NoDir
  /\ todo = {}
  /\ PacketIDs = {}
  /\ PacketNames = {}
  /\ parsed = {}
  /\ enum = <<>>
  /\ registry = <<>>
  /\ asked = <<>>
  /\ scan = {}
  /\ best = <<-1, 0>>
  /\ found = -1
  /\ cursor = [g \in Goroutines |-> -1]
  /\ defined = [g \in Goroutines |-> {}]
  /\ raced = FALSE

Next ==
  \/ ReadDirectory \/ ProcessPacket \/ AppendVersion \/ Generate
  \/ Ask \/ Scan \/ ScanEnd \/ Use
  \/ \E g \in Goroutines : GetDefinition(g) \/ Lookup(g)

Spec == Init /\ [][Next]_vars

-----------------------------------------------------------------------------
(* Properties.                                                             *)

\* Every variable keeps its type, and a version that is looked up has an entry.
TypeOK ==
  /\ place \in {"parse", "lookup", "scan", "found", "use", "fatal"}
  /\ dirs \subseteq DOMAIN Directories
  /\ DOMAIN enum = DOMAIN registry
  /\ found \in DOMAIN enum \cup {-1}
  /\ scan \subseteq DOMAIN enum
  /\ cursor \in [Goroutines -> DOMAIN enum \cup {-1}]

\* In whatever order the maps are ranged over, the generator gives the tables
\* that Protocol has, and the ID table is the inverse of the name table: a
\* packet that is written is read back as the same type.
TablesFollowRules ==
  \A v \in parsed :
    /\ v.names = Registered(DataOf[v.name], table[1], table[2])
    /\ v.ids = { <<row[2], row[1]>> : row \in v.names }

\* The constants compare as the releases do, which v >= V1_20_2 and its like in
\* packets.go and client.go rely on, although the directories are read in the
\* order of their names; only a snapshot comes after them.
ReleaseOrder ==
  \A v, w \in DOMAIN enum :
    v < w /\ enum[w] # Snapshot => enum[v] # Snapshot /\ DataOf[enum[v]] < DataOf[enum[w]]

\* Whether a known release may stand for the one asked for.
StandsFor(known, s) ==
  /\ known # Snapshot
  /\ known[1] = s[1] /\ known[2] = s[2]
  /\ Len(s) = 3 => Patch(known) <= s[3]

\* VersionFromString finds the release itself or else the latest that may stand
\* for it, in whatever order it meets them, and fails only if there is none.
NearestRelease ==
  IsRelease(asked) /\ place \in {"use", "fatal"} =>
    LET stand == { v \in DOMAIN enum : StandsFor(enum[v], asked) } IN
    /\ place = "fatal" <=> stand = {} /\ ~\E v \in DOMAIN enum : enum[v] = asked
    /\ place = "use" => \/ enum[found] = asked
                        \/ found \in stand /\ \A v \in stand : v <= found

\* The goroutines that share protocolRegistry never write it: a version found by
\* name has a definition of its own, as both files are generated from one list.
NeverRaced == ~raced

\* What they work with is the table of the version that was found.
OwnTable ==
  \A g \in Goroutines :
    defined[g] # {} => defined[g] = Registered(DataOf[enum[found]], table[1], table[2])

=============================================================================
