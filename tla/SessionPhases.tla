--------------------------- MODULE SessionPhases ---------------------------
(***************************************************************************)
(* What a session is, apart from its packets: two ends that go through the *)
(* same phases, handshaking, then status, or login, configuration and      *)
(* play, without leaving one out and never more than one apart, since an   *)
(* end that is ahead waits for the other.  The call that drives the client *)
(* succeeds only in the last phase.                                        *)
(***************************************************************************)
EXTENDS Naturals, Sequences

VARIABLES
  path,    \* the phases of this session
  client,  \* the client's
  server,  \* the server's
  outcome  \* of the call: "none" so far, "ok" or something else

vars == <<path, client, server, outcome>>

At(phase, i) == i \in DOMAIN path /\ path[i] = phase

\* One end is as far as the other, or behind it.
NotAhead(end, other) == \E i, j \in DOMAIN path : At(end, i) /\ At(other, j) /\ i <= j

Follows(phase, next) == \E i \in DOMAIN path : At(phase, i) /\ At(next, i + 1)

Init ==
  /\ client = path[1]
  /\ server = path[1]
  /\ outcome = "none"

\* The client goes on to the next phase, or returns, or both.
ClientStep ==
  /\ outcome = "none"
  /\ client' = client \/ (Follows(client, client') /\ NotAhead(client, server))
  /\ outcome' = "ok" => At(client', Len(path))
  /\ UNCHANGED <<path, server>>

ServerStep ==
  /\ Follows(server, server')
  /\ NotAhead(server, client)
  /\ UNCHANGED <<path, client, outcome>>

Next == ClientStep \/ ServerStep

Spec == Init /\ [][Next]_vars

=============================================================================
