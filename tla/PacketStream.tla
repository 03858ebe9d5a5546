----------------------------- MODULE PacketStream -----------------------------
(***************************************************************************)
(* What a Conn promises the goroutines that share it, and what the other   *)
(* modules assume of it: a call of WritePacket either adds its packet,     *)
(* whole, to the end of the stream to the server and returns nil, or adds  *)
(* nothing to it that the server could decode and returns an error; calls  *)
(* of ReadPacket hand out the server's packets one by one in the order     *)
(* they were sent.                                                         *)
(***************************************************************************)
EXTENDS Naturals, Sequences

CONSTANTS
  Goroutines,  \* whoever calls WritePacket
  Packets,     \* what they write
  Unwritable,  \* packets without an ID, or that do not encode
  Frames,      \* what the server sends
  None         \* no call in progress

VARIABLES
  pending,   \* the packet of the WritePacket call each goroutine is in
  returned,  \* what its last call returned
  written,   \* the packets in the stream to the server
  sent,      \* what the server has sent
  read,      \* what ReadPacket has taken in
  up         \* the connection works

vars == <<pending, returned, written, sent, read, up>>

Init ==
  /\ pending = [g \in Goroutines |-> None]
  /\ returned = [g \in Goroutines |-> "nothing"]
  /\ written = <<>>
  /\ sent = <<>>
  /\ read = <<>>
  /\ up = TRUE

Call(g) ==
  /\ pending[g] = None
  /\ \E p \in Packets : pending' = [pending EXCEPT ![g] = p]
  /\ UNCHANGED <<returned, written, sent, read, up>>

Return(g, value) ==
  /\ pending[g] # None
  /\ pending' = [pending EXCEPT ![g] = None]
  /\ returned' = [returned EXCEPT ![g] = value]
  /\ UNCHANGED <<sent, read, up>>

Commit(g) ==
  /\ Return(g, "nil")
  /\ pending[g] \notin Unwritable
  /\ up
  /\ written' = Append(written, pending[g])

Refuse(g) ==
  /\ Return(g, "error")
  /\ pending[g] \in Unwritable \/ ~up
  /\ UNCHANGED written

Send ==
  /\ \E f \in Frames : sent' = Append(sent, f)
  /\ UNCHANGED <<pending, returned, written, read, up>>

Read ==
  /\ Len(read) < Len(sent)
  /\ read' = Append(read, sent[Len(read) + 1])
  /\ UNCHANGED <<pending, returned, written, sent, up>>

Break ==
  /\ up' = FALSE
  /\ UNCHANGED <<pending, returned, written, sent, read>>

Next ==
  \/ \E g \in Goroutines : Call(g) \/ Commit(g) \/ Refuse(g)
  \/ Send \/ Read \/ Break

Spec == Init /\ [][Next]_vars

===============================================================================
