---------------------------- MODULE AnswerProofs ----------------------------
(***************************************************************************)
(* The order of the answers in configuration (Session's AnswersMatch).     *)
(*                                                                         *)
(* The invariant numbers the server's requests.  One function counts those *)
(* answered up to each packet on its way to the server, another those      *)
(* received up to each packet on its way to the client; the first ends     *)
(* where the second begins.                                                *)
(***************************************************************************)
EXTENDS SessionProofs

-----------------------------------------------------------------------------
\* A request the client has not read yet.
Asks(p) == p.state = "Configuration" /\ p.wire \in DOMAIN AnswerTo

\* a numbers the requests answered so far, up to each packet on its way to the
\* server, and c goes on with those still on their way to the client.
Answered(a) ==
  /\ a \in [0 .. Len(toServer) -> 0 .. Len(asked)]
  /\ a[0] = Len(answers)
  /\ \A i \in 1 .. Len(toServer) :
       IF IsAnswer(toServer[i].name)
       THEN a[i] = a[i - 1] + 1 /\ asked[a[i]] = toServer[i].name
       ELSE a[i] = a[i - 1]

Awaited(c) ==
  /\ c \in [0 .. Len(toClient) -> 0 .. Len(asked)]
  /\ c[Len(toClient)] = Len(asked)
  /\ \A i \in 1 .. Len(toClient) :
       /\ IF Asks(toClient[i])
          THEN c[i] = c[i - 1] + 1 /\ asked[c[i]] = AnswerTo[toClient[i].wire]
          ELSE c[i] = c[i - 1]
       /\ StateAfter(toClient[i]) = "Play" => c[i] = Len(asked)

\* The server asks for nothing once it has ended configuration.
AskedAll ==
  /\ \A i \in 1 .. Len(toClient) :
       StateAfter(toClient[i]) = "Play" => serverStep \in {"finish", "play", "done"}
  /\ result = "ok" /\ goal = "Login" => serverStep \in {"finish", "play", "done"}

\* What is asked for has a registration.
AskedKnown ==
  \A i \in 1 .. Len(toClient) :
    Asks(toClient[i]) /\ toClient[i].wire \in {"cookie_request", "select_known_packs"} => version >= V1_20_5

Replied == Len(answers) <= Len(asked) /\ \A i \in 1 .. Len(answers) : answers[i] = asked[i]

Matching ==
  \E a \in [0 .. Len(toServer) -> 0 .. Len(asked)] :
    /\ Answered(a)
    /\ result = "none" => \E c \in [0 .. Len(toClient) -> 0 .. Len(asked)] : Awaited(c) /\ c[0] = a[Len(toServer)]
    /\ result = "ok" /\ goal = "Login" => a[Len(toServer)] = Len(asked)

AnswersInv == SessionInv /\ AskedAll /\ AskedKnown /\ Replied /\ Matching

-----------------------------------------------------------------------------
(* The types of what is numbered.                                          *)

\* Both ends' lists are sequences of packet types.
LEMMA AnswerTypes ==
  ASSUME TypeOK
  PROVE  /\ Len(toServer) \in Nat /\ Len(toClient) \in Nat
         /\ asked \in Seq(packetConstructors) /\ answers \in Seq(packetConstructors)
         /\ Len(asked) \in Nat /\ Len(answers) \in Nat
<1>1. asked \in Seq(packetConstructors) /\ answers \in Seq(packetConstructors)
  BY DEF TypeOK
<1>2. Len(asked) \in Nat /\ Len(answers) \in Nat
  BY <1>1
<1> QED BY <1>1, <1>2, Types

\* What each request is answered with.
LEMMA AnswerNames ==
  /\ DOMAIN AnswerTo = Requests \cup {"select_known_packs"}
  /\ \A wire \in DOMAIN AnswerTo : AnswerTo[wire] \in packetConstructors /\ IsAnswer(AnswerTo[wire])
  /\ \A name : IsAnswer(name) <=>
       name \in {"ServerboundConfigKeepAlive", "ServerboundCustomPayload", "ServerboundCookieResponse", Packs}
  /\ AnswerTo["keep_alive"] = "ServerboundConfigKeepAlive"
  /\ AnswerTo["custom_payload"] = "ServerboundCustomPayload"
  /\ AnswerTo["cookie_request"] = "ServerboundCookieResponse"
  /\ AnswerTo["select_known_packs"] = Packs
BY DEF AnswerTo, IsAnswer, Requests, Packs, packetConstructors

-----------------------------------------------------------------------------
(* The numbers, step by step.                                              *)

\* The client writes packets of which the first may be the answer to the
\* request numbered m.
LEMMA Answering ==
  ASSUME TypeOK, NEW a, Answered(a), asked' = asked, answers' = answers,
         NEW ws, Len(ws) \in Nat, Adds(ws),
         \A i \in 2 .. Len(ws) : ~IsAnswer(ws[i].name),
         NEW m \in 0 .. Len(asked),
         IF Len(ws) > 0 /\ IsAnswer(ws[1].name)
         THEN m = a[Len(toServer)] + 1 /\ asked[m] = ws[1].name
         ELSE m = a[Len(toServer)]
  PROVE  \E b : Answered(b)' /\ b[Len(toServer')] = m
<1> DEFINE n == Len(toServer)
           k == Len(ws)
           b == [i \in 0 .. n + k |-> IF i <= n THEN a[i] ELSE m]
<1>1. n \in Nat /\ k \in Nat /\ Len(asked) \in Nat
  BY AnswerTypes
<1>2. Len(toServer') = n + k
  BY DEF Adds
<1>3. \A i \in 1 .. n : toServer'[i] = toServer[i]
  BY DEF Adds
<1>4. ASSUME NEW j \in 1 .. k PROVE toServer'[n + j].name = ws[j].name
  <2>1. toServer'[n + j] = [state |-> ws[j].state, name |-> ws[j].name, comp |-> threshold]
    BY Zenon DEF Adds
  <2> QED BY <2>1
<1>5. /\ a \in [0 .. n -> 0 .. Len(asked)] /\ a[0] = Len(answers)
      /\ \A i \in 1 .. n : IF IsAnswer(toServer[i].name)
                           THEN a[i] = a[i - 1] + 1 /\ asked[a[i]] = toServer[i].name
                           ELSE a[i] = a[i - 1]
  BY DEF Answered
<1>6. k > 0 /\ IsAnswer(ws[1].name) => m = a[n] + 1 /\ asked[m] = ws[1].name
  OBVIOUS
<1>7. ~(k > 0 /\ IsAnswer(ws[1].name)) => m = a[n]
  OBVIOUS
<1>8. \A i \in 2 .. k : ~IsAnswer(ws[i].name)
  OBVIOUS
<1> HIDE DEF n, k
<1>9. b \in [0 .. n + k -> 0 .. Len(asked)]
  BY <1>1, <1>5
<1>10. b[0] = Len(answers)
  BY <1>1, <1>5
<1>11. b[n + k] = m
  BY <1>1, <1>7
<1>12. ASSUME NEW i \in 1 .. n + k
       PROVE  IF IsAnswer(toServer'[i].name)
              THEN b[i] = b[i - 1] + 1 /\ asked[b[i]] = toServer'[i].name
              ELSE b[i] = b[i - 1]
  <2>1. CASE i \in 1 .. n
    <3>1. b[i] = a[i] /\ b[i - 1] = a[i - 1]
      BY <1>1, <2>1
    <3> QED BY <1>3, <1>5, <2>1, <3>1
  <2>2. CASE i = n + 1
    <3>0. i - 1 = n /\ n \in 0 .. n + k /\ n <= n /\ n + 1 \in 0 .. n + k /\ ~(n + 1 <= n)
      BY <1>1, <2>2
    <3>1. b[i] = m /\ b[i - 1] = a[n] /\ k > 0 /\ 1 \in 1 .. k
      BY <1>1, <2>2, <3>0
    <3>2. toServer'[i].name = ws[1].name
      BY <1>4, <2>2, <3>1
    <3> QED BY <1>6, <1>7, <3>1, <3>2
  <2>3. CASE i > n + 1
    <3>1. b[i] = m /\ b[i - 1] = m /\ i - n \in 2 .. k /\ i - n \in 1 .. k /\ n + (i - n) = i
      BY <1>1, <2>3
    <3>2. toServer'[i].name = ws[i - n].name
      BY <1>4, <3>1
    <3> QED BY <1>8, <3>1, <3>2
  <2> QED BY <1>1, <2>1, <2>2, <2>3
<1> HIDE DEF b
<1>13. PICK e : e = b
  OBVIOUS
<1>14. Answered(e)'
  BY <1>2, <1>9, <1>10, <1>12, <1>13 DEF Answered
<1> QED BY <1>2, <1>11, <1>13, <1>14

\* The server receives a packet.
LEMMA Hearing ==
  ASSUME TypeOK, Outgoing, ServerReceive, NEW a, Answered(a), Replied
  PROVE  Replied' /\ \E b : Answered(b)' /\ b[Len(toServer')] = a[Len(toServer)]
<1> DEFINE n == Len(toServer)
           k == Len(toServer')
           b == [i \in 0 .. k |-> a[i + 1]]
<1>1. /\ n \in Nat /\ n >= 1 /\ k = n - 1
      /\ \A i \in 1 .. k : toServer'[i] = toServer[i + 1]
  BY Taken
<1>2. /\ asked' = asked /\ asked \in Seq(packetConstructors) /\ Len(asked) \in Nat
      /\ answers \in Seq(packetConstructors) /\ Len(answers) \in Nat
  BY AnswerTypes DEF ServerReceive
<1>3. answers' = IF IsAnswer(toServer[1].name) THEN Append(answers, toServer[1].name) ELSE answers
  <2>1. Head(toServer) = toServer[1]
    BY Types, Rest DEF ServerReceive
  <2> QED BY <2>1 DEF ServerReceive
<1>4. /\ a \in [0 .. n -> 0 .. Len(asked)] /\ a[0] = Len(answers)
      /\ \A i \in 1 .. n : IF IsAnswer(toServer[i].name)
                           THEN a[i] = a[i - 1] + 1 /\ asked[a[i]] = toServer[i].name
                           ELSE a[i] = a[i - 1]
  BY DEF Answered
<1> HIDE DEF n, k
<1>5. a[1] = Len(answers')
  <2>1. 1 \in 1 .. n /\ 1 - 1 = 0
    BY <1>1
  <2>2. CASE IsAnswer(toServer[1].name)
    <3>1. a[1] = Len(answers) + 1
      BY <1>4, <2>1, <2>2
    <3> QED BY <1>2, <1>3, <2>2, <3>1
  <2>3. CASE ~IsAnswer(toServer[1].name)
    BY <1>3, <1>4, <2>1, <2>3
  <2> QED BY <2>2, <2>3
<1>6. b \in [0 .. k -> 0 .. Len(asked)] /\ b[0] = Len(answers') /\ b[k] = a[n]
  BY <1>1, <1>2, <1>4, <1>5
<1>7. ASSUME NEW i \in 1 .. k
      PROVE  IF IsAnswer(toServer'[i].name)
             THEN b[i] = b[i - 1] + 1 /\ asked[b[i]] = toServer'[i].name
             ELSE b[i] = b[i - 1]
  <2>0. i - 1 \in 0 .. k /\ i \in 0 .. k /\ i - 1 + 1 = i /\ i + 1 \in 1 .. n /\ i + 1 - 1 = i
    BY <1>1
  <2>1. b[i] = a[i + 1] /\ b[i - 1] = a[i]
    BY <2>0
  <2>2. toServer'[i] = toServer[i + 1]
    BY <1>1
  <2> HIDE DEF b
  <2> QED BY <1>4, <2>0, <2>1, <2>2
<1> HIDE DEF b
<1>8. \E e : Answered(e)' /\ e = b
  <2>1. PICK e : e = b
    OBVIOUS
  <2>2. Answered(e)'
    BY <1>2, <1>6, <1>7, <2>1 DEF Answered, k
  <2> QED BY <2>1, <2>2
<1>9. Replied'
  <2>1. CASE IsAnswer(toServer[1].name)
    <3>1. 1 \in 1 .. n /\ 1 \in 0 .. n
      BY <1>1
    <3>2. a[1] = Len(answers) + 1 /\ asked[a[1]] = toServer[1].name /\ a[1] <= Len(asked)
      <4>1. a[1] \in 0 .. Len(asked)
        BY <1>4, <3>1
      <4>2. a[1] = a[1 - 1] + 1 /\ asked[a[1]] = toServer[1].name
        BY <1>4, <2>1, <3>1
      <4> QED BY <1>2, <1>4, <4>1, <4>2
    <3>3. answers' = Append(answers, asked[a[1]])
      BY <1>3, <2>1, <3>2
    <3>4. /\ Len(answers') = Len(answers) + 1
          /\ \A i \in 1 .. Len(answers) : answers'[i] = answers[i]
          /\ answers'[Len(answers) + 1] = asked[a[1]]
      BY <1>2, <3>3
    <3> DEFINE l == Len(answers)
    <3>5. l \in Nat /\ \A i \in 1 .. l : answers[i] = asked[i]
      BY <1>2 DEF Replied
    <3> HIDE DEF l
    <3>6. ASSUME NEW i \in 1 .. l + 1 PROVE answers'[i] = asked[i]
      <4>1. i \in 1 .. l \/ i = l + 1
        BY <3>5
      <4> QED BY <3>2, <3>4, <3>5, <4>1 DEF l
    <3> QED BY <1>2, <3>2, <3>4, <3>6 DEF Replied, l
  <2>2. CASE ~IsAnswer(toServer[1].name)
    BY <1>2, <1>3, <2>2 DEF Replied
  <2> QED BY <2>1, <2>2
<1>10. b[k] = a[n]
  BY <1>6
<1> QED BY <1>8, <1>9, <1>10 DEF k, n

\* The client reads a packet.
LEMMA AwaitedRest ==
  ASSUME TypeOK, NEW c, Awaited(c), asked' = asked, version' = version,
         toClient # <<>>, toClient' = Tail(toClient)
  PROVE  \E d : Awaited(d)' /\ d[0] = c[1]
<1> DEFINE n == Len(toClient)
           k == Len(toClient')
           d == [i \in 0 .. k |-> c[i + 1]]
<1>1. n \in Nat /\ n >= 1 /\ k = n - 1 /\ \A i \in 1 .. k : toClient'[i] = toClient[i + 1]
  BY Popped
<1>2. /\ c \in [0 .. n -> 0 .. Len(asked)] /\ c[n] = Len(asked)
      /\ \A i \in 1 .. n :
           /\ IF Asks(toClient[i])
              THEN c[i] = c[i - 1] + 1 /\ asked[c[i]] = AnswerTo[toClient[i].wire]
              ELSE c[i] = c[i - 1]
           /\ StateAfter(toClient[i]) = "Play" => c[i] = Len(asked)
  BY DEF Awaited
<1>3. \A p : StateAfter(p)' = StateAfter(p)
  BY DEF StateAfter
<1> HIDE DEF n, k
<1>4. d \in [0 .. k -> 0 .. Len(asked)] /\ d[0] = c[1] /\ d[k] = Len(asked)
  BY <1>1, <1>2
<1>5. ASSUME NEW i \in 1 .. k
      PROVE  /\ IF Asks(toClient'[i])
                THEN d[i] = d[i - 1] + 1 /\ asked[d[i]] = AnswerTo[toClient'[i].wire]
                ELSE d[i] = d[i - 1]
             /\ StateAfter(toClient[i])' = "Play" => d[i] = Len(asked)
  <2>0. i - 1 \in 0 .. k /\ i \in 0 .. k /\ i - 1 + 1 = i /\ i + 1 \in 1 .. n /\ i + 1 - 1 = i
    BY <1>1
  <2>1. d[i] = c[i + 1] /\ d[i - 1] = c[i]
    BY <2>0
  <2>2. toClient'[i] = toClient[i + 1]
    BY <1>1
  <2>3. StateAfter(toClient[i])' = StateAfter(toClient[i + 1])
    BY <2>2 DEF StateAfter
  <2> DEFINE p == toClient[i + 1]
  <2>4. /\ IF Asks(p) THEN c[i + 1] = c[i] + 1 /\ asked[c[i + 1]] = AnswerTo[p.wire]
                      ELSE c[i + 1] = c[i]
        /\ StateAfter(p) = "Play" => c[i + 1] = Len(asked)
    BY <1>2, <2>0
  <2> HIDE DEF d, p
  <2> QED BY <2>1, <2>2, <2>3, <2>4 DEF p
<1> HIDE DEF d
<1>6. PICK e : e = d
  OBVIOUS
<1>7. Awaited(e)'
  BY <1>4, <1>5, <1>6 DEF Awaited, k, Asks
<1> QED BY <1>4, <1>6, <1>7

\* The server asks for something more.
LEMMA AskingMore ==
  ASSUME TypeOK, NEW a, Answered(a), NEW name \in packetConstructors, asked' = Append(asked, name),
         toServer' = toServer, answers' = answers
  PROVE  Answered(a)' /\ (Replied => Replied')
<1>1. /\ Len(asked) \in Nat /\ Len(asked') = Len(asked) + 1
      /\ \A i \in 1 .. Len(asked) : asked'[i] = asked[i]
      /\ Len(answers) \in Nat /\ Len(toServer) \in Nat
  BY AnswerTypes
<1>2. /\ a \in [0 .. Len(toServer) -> 0 .. Len(asked)] /\ a[0] = Len(answers)
      /\ \A i \in 1 .. Len(toServer) :
           IF IsAnswer(toServer[i].name)
           THEN a[i] = a[i - 1] + 1 /\ asked[a[i]] = toServer[i].name
           ELSE a[i] = a[i - 1]
  BY DEF Answered
<1>3. a \in [0 .. Len(toServer) -> 0 .. Len(asked')]
  BY <1>1, <1>2
<1>4. ASSUME NEW i \in 1 .. Len(toServer), IsAnswer(toServer[i].name)
      PROVE  asked'[a[i]] = toServer[i].name
  <2>1. a[i] = a[i - 1] + 1 /\ a[i] \in 0 .. Len(asked) /\ a[i - 1] \in 0 .. Len(asked)
    BY <1>1, <1>2, <1>4
  <2>2. a[i] \in 1 .. Len(asked)
    BY <1>1, <2>1
  <2> QED BY <1>1, <1>2, <1>4, <2>2
<1>5. Answered(a)'
  BY <1>2, <1>3, <1>4 DEF Answered
<1>6. ASSUME Replied PROVE Replied'
  <2>1. Len(answers) <= Len(asked)
    BY <1>6 DEF Replied
  <2>2. \A i \in 1 .. Len(answers) : i \in 1 .. Len(asked)
    BY <1>1, <2>1
  <2> QED BY <1>1, <1>6, <2>1, <2>2 DEF Replied
<1> QED BY <1>5, <1>6

\* What the server sends asks for something, or not, and the requests it has
\* made say so.
Sends(wire) ==
  /\ Send(wire)
  /\ StateAfter(New(wire)) = "Play" => serverStep' \in {"finish", "play", "done"}
  /\ serverStep \in {"finish", "play", "done"} => serverStep' \in {"finish", "play", "done"}
  /\ \/ asked' = asked /\ ~Asks(New(wire))
     \/ /\ asked' = Append(asked, AnswerTo[wire]) /\ Asks(New(wire)) /\ StateAfter(New(wire)) # "Play"
        /\ serverStep \in {"packs", "packsSent", "configuration"}
        /\ wire \in {"cookie_request", "select_known_packs"} => version >= V1_20_5

\* A packet the server sends is the last of those that await the client.
LEMMA AwaitedMore ==
  ASSUME TypeOK, version' = version, NEW wire, Sends(wire), NEW c, Awaited(c), AskedAll
  PROVE  \E d : Awaited(d)' /\ d[0] = c[0]
<1> DEFINE n == Len(toClient)
           p == New(wire)
           l == Len(asked)
           m == Len(asked')
           d == [i \in 0 .. n + 1 |-> IF i <= n THEN c[i] ELSE m]
<1>1. /\ Len(toClient') = n + 1 /\ n \in Nat
      /\ \A i \in 1 .. n : toClient'[i] = toClient[i]
      /\ toClient'[n + 1] = p
  BY Pushed DEF Sends
<1>2. /\ l \in Nat /\ \A i \in 1 .. l : asked'[i] = asked[i]
      /\ \/ m = l /\ ~Asks(p)
         \/ /\ m = l + 1 /\ asked'[m] = AnswerTo[p.wire] /\ Asks(p) /\ StateAfter(p) # "Play"
            /\ \A i \in 1 .. n : StateAfter(toClient[i]) # "Play"
  <2>1. asked \in Seq(packetConstructors) /\ l \in Nat
    BY AnswerTypes
  <2>2. CASE asked' = asked /\ ~Asks(p)
    BY <2>1, <2>2
  <2>3. CASE /\ asked' = Append(asked, AnswerTo[wire]) /\ Asks(p) /\ StateAfter(p) # "Play"
             /\ serverStep \in {"packs", "packsSent", "configuration"}
    <3>1. p.wire = wire /\ wire \in DOMAIN AnswerTo
      BY <2>3 DEF Asks, New
    <3>2. PICK name \in packetConstructors : name = AnswerTo[wire]
      BY <3>1, AnswerNames
    <3>3. m = l + 1 /\ asked'[m] = name /\ \A i \in 1 .. l : asked'[i] = asked[i]
      BY <2>1, <2>3, <3>2
    <3>4. \A i \in 1 .. n : StateAfter(toClient[i]) # "Play"
      BY <2>3 DEF AskedAll
    <3> QED BY <2>1, <2>3, <3>1, <3>2, <3>3, <3>4
  <2> QED BY <2>2, <2>3 DEF Sends
<1>3. /\ c \in [0 .. n -> 0 .. l] /\ c[n] = l
      /\ \A i \in 1 .. n :
           /\ IF Asks(toClient[i])
              THEN c[i] = c[i - 1] + 1 /\ asked[c[i]] = AnswerTo[toClient[i].wire]
              ELSE c[i] = c[i - 1]
           /\ StateAfter(toClient[i]) = "Play" => c[i] = l
  BY DEF Awaited
<1> HIDE DEF n, p, l, m
<1>4. d \in [0 .. n + 1 -> 0 .. m] /\ d[n + 1] = m /\ d[0] = c[0]
  BY <1>1, <1>2, <1>3
<1>5. ASSUME NEW i \in 1 .. n + 1
      PROVE  /\ IF Asks(toClient'[i])
                THEN d[i] = d[i - 1] + 1 /\ asked'[d[i]] = AnswerTo[toClient'[i].wire]
                ELSE d[i] = d[i - 1]
             /\ StateAfter(toClient'[i]) = "Play" => d[i] = m
  <2>1. CASE i \in 1 .. n
    <3>1. d[i] = c[i] /\ d[i - 1] = c[i - 1] /\ toClient'[i] = toClient[i]
      BY <1>1, <2>1
    <3>2. c[i] \in 0 .. l /\ c[i - 1] \in 0 .. l
      BY <1>1, <1>3, <2>1
    <3>3. Asks(toClient[i]) => c[i] \in 1 .. l
      BY <1>2, <1>3, <2>1, <3>2
    <3>4. StateAfter(toClient[i]) = "Play" => c[i] = m
      BY <1>2, <1>3, <2>1
    <3> HIDE DEF d
    <3>5. IF Asks(toClient[i])
          THEN d[i] = d[i - 1] + 1 /\ asked'[d[i]] = AnswerTo[toClient[i].wire]
          ELSE d[i] = d[i - 1]
      BY <1>2, <1>3, <2>1, <3>1, <3>3
    <3> QED BY <3>1, <3>4, <3>5
  <2>2. CASE i = n + 1
    <3>0. i - 1 = n /\ n \in 0 .. n + 1 /\ n <= n /\ n + 1 \in 0 .. n + 1 /\ ~(n + 1 <= n)
      BY <1>1, <2>2
    <3>1. d[i] = m /\ d[i - 1] = l /\ toClient'[i] = p
      BY <1>1, <1>3, <2>2, <3>0
    <3> HIDE DEF d
    <3> QED BY <1>2, <3>1
  <2> QED BY <1>1, <2>1, <2>2
<1> HIDE DEF d
<1>6. PICK e : e = d
  OBVIOUS
<1>7. \A i \in 1 .. n + 1 : StateAfter(toClient[i])' = StateAfter(toClient'[i])
  BY DEF StateAfter
<1>8. Awaited(e)'
  BY <1>1, <1>4, <1>5, <1>6, <1>7 DEF Awaited, Asks, m
<1> QED BY <1>4, <1>6, <1>8

-----------------------------------------------------------------------------
(* The server's steps.                                                     *)

\* What the server may send, and when.
LEMMA ServerSends ==
  ASSUME SessionInv, ServerRequired \/ ServerCompress \/ ServerExtra
  PROVE  \E wire : Sends(wire)
<1>0. /\ version \in Int /\ serverStep \in Steps
      /\ serverStep \in {"server_info", "ping"} => serverOut = "Status"
      /\ serverStep = "login" => serverOut = "Login"
      /\ serverStep \in {"packs", "packsSent", "configuration"} =>
           serverOut = "Configuration" /\ version >= V1_20_2
      /\ serverStep \in {"packs", "packsSent"} => version >= V1_20_5
      /\ serverStep = "play" => serverOut = "Play"
  BY Types DEF SessionInv, ClientInv, ServerPlaces
<1>1. \A wire : New(wire).state = serverOut /\ New(wire).wire = wire
  BY DEF New
<1>2. \A wire : /\ StateAfter(New(wire)) = CASE wire = "success" -> IF version >= V1_20_2 THEN "Configuration" ELSE "Play"
                                             [] wire = "finish_configuration" -> "Play"
                                             [] OTHER -> serverOut
                /\ Asks(New(wire)) <=> serverOut = "Configuration" /\ wire \in Requests \cup {"select_known_packs"}
  BY <1>1, AnswerNames DEF StateAfter, Asks
<1> HIDE DEF New
<1>3. CASE ServerRequired
  <2>1. CASE serverStep \in {"server_info", "ping"} /\ Send(serverStep) /\ serverStep' = "request" /\ asked' = asked
    <3>1. Sends(serverStep)
      BY <1>0, <1>2, <2>1 DEF Sends
    <3> QED BY <3>1
  <2>2. CASE /\ serverStep = "login" /\ Send("success") /\ asked' = asked
             /\ IF version >= V1_20_2 THEN serverStep' = "acknowledgement" ELSE serverStep' = "play"
    <3>1. Sends("success")
      BY <1>0, <1>2, <2>2 DEF Sends
    <3> QED BY <3>1
  <2>3. CASE /\ serverStep = "packs" /\ Send("select_known_packs") /\ serverStep' = "packsSent"
             /\ asked' = Append(asked, AnswerTo["select_known_packs"])
    <3>1. Sends("select_known_packs")
      BY <1>0, <1>2, <2>3 DEF Sends
    <3> QED BY <3>1
  <2>4. CASE /\ serverStep = "configuration" /\ Send("finish_configuration") /\ asked' = asked
             /\ serverStep' = IF serverIn = "Play" THEN "play" ELSE "finish"
    <3>1. Sends("finish_configuration")
      BY <1>0, <1>2, <2>4 DEF Sends, Requests
    <3> QED BY <3>1
  <2>5. CASE serverStep = "play" /\ Send("login") /\ serverStep' = "done" /\ asked' = asked
    <3>1. Sends("login")
      BY <1>0, <1>2, <2>5 DEF Sends
    <3> QED BY <3>1
  <2> QED BY <1>3, <2>1, <2>2, <2>3, <2>4, <2>5 DEF ServerRequired
<1>4. CASE ServerCompress
  <2>1. serverStep = "login" /\ Send("compress") /\ serverStep' = serverStep /\ asked' = asked
    BY <1>4 DEF ServerCompress
  <2>2. Sends("compress")
    BY <1>0, <1>2, <2>1 DEF Sends
  <2> QED BY <2>2
<1>5. CASE ServerExtra
  <2>1. ASSUME NEW wire, Send(wire), asked' = asked,
               \/ serverStep = "login" /\ wire \in {"cookie_request", "encryption_begin"}
               \/ serverStep \in {"packs", "packsSent", "configuration"} /\ wire \in {"registry_data", "ping", "tags"}
               \/ serverStep \in {"server_info", "ping"} /\ wire \in {"server_info", "ping"}
               \/ serverStep \in {"login", "packs", "packsSent", "configuration"} /\ wire = "disconnect"
        PROVE  Sends(wire)
    BY <1>0, <1>2, <2>1 DEF Sends, Requests
  <2>2. ASSUME NEW wire \in Requests, Send(wire), MayAsk, serverStep' = serverStep,
               asked' = Append(asked, AnswerTo[wire]),
               NewPacket(version, "Configuration", "Clientbound", wire) # ErrUnknownPacket
        PROVE  Sends(wire)
    <3>1. serverStep \in {"packs", "packsSent", "configuration"}
      BY <2>2 DEF MayAsk
    <3>2. wire = "cookie_request" => version >= V1_20_5
      BY <1>0, <2>2, <3>1, ConfigurationTypes DEF TypeIn
    <3> QED BY <1>0, <1>2, <2>2, <3>1, <3>2 DEF Sends, Requests
  <2>3. DOMAIN AnswerTo \ {"select_known_packs"} = Requests
    BY AnswerNames DEF Requests
  <2> QED BY <1>5, <2>1, <2>2, <2>3 DEF ServerExtra
<1> QED BY <1>3, <1>4, <1>5

\* Sending a request puts its answer at the end of what is asked for.
LEMMA ServerSendsMatch ==
  ASSUME AnswersInv, ServerRequired \/ ServerCompress \/ ServerExtra
  PROVE  AskedAll' /\ AskedKnown' /\ Replied' /\ Matching'
<1>0. TypeOK /\ AskedAll /\ AskedKnown /\ Replied /\ Matching
  BY DEF AnswersInv, SessionInv, ClientInv
<1>1. /\ version' = version /\ goal' = goal /\ result' = result
      /\ toServer' = toServer /\ answers' = answers
  <2>1. version' = version /\ goal' = goal /\ result' = result
    BY <1>0, ServerKeeps, Zenon DEF Server, clientVars
  <2> QED BY <2>1 DEF ServerRequired, ServerCompress, ServerExtra
<1>2. PICK wire : Sends(wire)
  BY ServerSends DEF AnswersInv
<1> DEFINE n == Len(toClient)
           p == New(wire)
<1>3. /\ Len(toClient') = n + 1 /\ n \in Nat
      /\ \A i \in 1 .. n : toClient'[i] = toClient[i]
      /\ toClient'[n + 1] = p /\ p.wire = wire
  BY <1>0, <1>2, Pushed DEF Sends, New
<1> HIDE DEF n, p
<1>4. \A i \in 1 .. n + 1 : i \in 1 .. n \/ i = n + 1
  BY <1>3
<1>5. \A i \in 1 .. n + 1 : StateAfter(toClient[i])' = StateAfter(toClient'[i]) /\ (Asks(toClient[i])' <=> Asks(toClient'[i]))
  BY <1>1 DEF StateAfter, Asks
<1>6. AskedAll'
  <2>1. ASSUME NEW i \in 1 .. n + 1, StateAfter(toClient'[i]) = "Play"
        PROVE  serverStep' \in {"finish", "play", "done"}
    BY <1>0, <1>2, <1>3, <1>4, <2>1 DEF AskedAll, Sends, p, n
  <2>2. result' = "ok" /\ goal' = "Login" => serverStep' \in {"finish", "play", "done"}
    BY <1>0, <1>1, <1>2 DEF AskedAll, Sends
  <2> QED BY <1>3, <1>5, <2>1, <2>2 DEF AskedAll
<1>7. AskedKnown'
  <2>1. ASSUME NEW i \in 1 .. n + 1, Asks(toClient'[i]), toClient'[i].wire \in {"cookie_request", "select_known_packs"}
        PROVE  version >= V1_20_5
    BY <1>0, <1>2, <1>3, <1>4, <2>1 DEF AskedKnown, Sends, p, n
  <2> QED BY <1>1, <1>3, <1>5, <2>1 DEF AskedKnown
<1>8. PICK a \in [0 .. Len(toServer) -> 0 .. Len(asked)] :
        /\ Answered(a)
        /\ result = "none" => \E c : Awaited(c) /\ c[0] = a[Len(toServer)]
        /\ result = "ok" /\ goal = "Login" => a[Len(toServer)] = Len(asked)
  BY <1>0 DEF Matching
<1>9. Answered(a)' /\ Replied'
  <2>1. CASE asked' = asked
    BY <1>0, <1>1, <1>8, <2>1 DEF Answered, Replied
  <2>2. CASE asked' = Append(asked, AnswerTo[wire]) /\ Asks(New(wire))
    <3>1. wire \in DOMAIN AnswerTo
      BY <2>2 DEF Asks, New
    <3>2. AnswerTo[wire] \in packetConstructors
      BY <3>1, AnswerNames
    <3> QED BY <1>0, <1>1, <1>8, <2>2, <3>2, AskingMore
  <2> QED BY <1>2, <2>1, <2>2 DEF Sends
<1>10. result = "none" => \E d : Awaited(d)' /\ d[0] = a[Len(toServer)]
  BY <1>0, <1>1, <1>2, <1>8, AwaitedMore
<1>11. result = "ok" /\ goal = "Login" => a[Len(toServer)] = Len(asked')
  BY <1>0, <1>2, <1>8 DEF AskedAll, Sends
<1>12. Matching'
  <2>1. a \in [0 .. Len(toServer') -> 0 .. Len(asked')]
    BY <1>9 DEF Answered
  <2>2. \A d : Awaited(d)' => d \in [0 .. Len(toClient') -> 0 .. Len(asked')]
    BY DEF Awaited
  <2>3. result' = "none" =>
          \E d \in [0 .. Len(toClient') -> 0 .. Len(asked')] : Awaited(d)' /\ d[0] = a[Len(toServer')]
    BY <1>1, <1>10, <2>2
  <2> QED BY <1>1, <1>9, <1>11, <2>1, <2>3 DEF Matching
<1> QED BY <1>6, <1>7, <1>9, <1>12

\* The server receives a packet, answer or not.
LEMMA ReceiveMatch ==
  ASSUME AnswersInv, ServerReceive
  PROVE  AskedAll' /\ AskedKnown' /\ Replied' /\ Matching'
<1>0. TypeOK /\ Outgoing /\ Order /\ ServerPlaces /\ AskedAll /\ AskedKnown /\ Replied /\ Matching
  BY DEF AnswersInv, SessionInv, ClientInv
<1>1. version' = version /\ goal' = goal /\ result' = result /\ toClient' = toClient /\ asked' = asked
  BY <1>0, Taken DEF ServerReceive
<1>2. serverStep \in {"finish", "play", "done"} => serverStep' \in {"finish", "play", "done"}
  BY <1>0, Receiving DEF Reception
<1>3. \A p : (StateAfter(p)' = StateAfter(p)) /\ (Asks(p)' <=> Asks(p))
  BY <1>1 DEF StateAfter, Asks
<1>4. AskedAll' /\ AskedKnown'
  BY <1>0, <1>1, <1>2 DEF AskedAll, AskedKnown, StateAfter, Asks
<1>5. PICK a \in [0 .. Len(toServer) -> 0 .. Len(asked)] :
        /\ Answered(a)
        /\ result = "none" => \E c : Awaited(c) /\ c[0] = a[Len(toServer)]
        /\ result = "ok" /\ goal = "Login" => a[Len(toServer)] = Len(asked)
  BY <1>0 DEF Matching
<1>6. Replied' /\ \E b : Answered(b)' /\ b[Len(toServer')] = a[Len(toServer)]
  BY <1>0, <1>5, Hearing
<1>7. \A c : Awaited(c) => Awaited(c)'
  BY <1>1 DEF Awaited, StateAfter, Asks
<1>8. Matching'
  <2>1. PICK b : Answered(b)' /\ b[Len(toServer')] = a[Len(toServer)]
    BY <1>6
  <2>2. b \in [0 .. Len(toServer') -> 0 .. Len(asked')]
    BY <2>1 DEF Answered
  <2>3. \A d : Awaited(d)' => d \in [0 .. Len(toClient') -> 0 .. Len(asked')]
    BY DEF Awaited
  <2>4. result' = "none" =>
          \E d \in [0 .. Len(toClient') -> 0 .. Len(asked')] : Awaited(d)' /\ d[0] = b[Len(toServer')]
    BY <1>1, <1>5, <1>7, <2>1, <2>3
  <2> QED BY <1>1, <1>5, <2>1, <2>2, <2>4 DEF Matching
<1> QED BY <1>4, <1>6, <1>8

-----------------------------------------------------------------------------
(* The client's steps.                                                     *)

\* A handler that answers what it reads, first thing, if that is a request, and
\* writes no other answer.
Answers(ws) ==
  /\ Len(ws) \in Nat /\ Adds(ws)
  /\ \A i \in 2 .. Len(ws) : ~IsAnswer(ws[i].name)
  /\ \/ /\ toClient' = toClient /\ result' # "ok"
        /\ Len(ws) > 0 => ~IsAnswer(ws[1].name)
     \/ /\ toClient # <<>> /\ toClient' = Tail(toClient)
        /\ IF Asks(toClient[1])
           THEN Len(ws) > 0 /\ ws[1].name = AnswerTo[toClient[1].wire]
           ELSE Len(ws) > 0 => ~IsAnswer(ws[1].name)
        /\ result' = "ok" /\ goal = "Login" => StateAfter(toClient[1]) = "Play"

\* A handler answers the first request on its way to the client, and that answer
\* is the last on its way to the server.
LEMMA HandlerMatch ==
  ASSUME AnswersInv, Client, result = "none", NEW ws, Answers(ws)
  PROVE  AskedAll' /\ AskedKnown' /\ Replied' /\ Matching'
<1>0. ClientInv /\ TypeOK /\ AskedAll /\ AskedKnown /\ Replied /\ Matching
  BY DEF AnswersInv, SessionInv, ClientInv
<1>1. /\ version' = version /\ goal' = goal /\ asked' = asked /\ answers' = answers /\ serverStep' = serverStep
  BY <1>0, ClientFrame, Zenon DEF serverVars
<1>2. PICK a \in [0 .. Len(toServer) -> 0 .. Len(asked)] :
        Answered(a) /\ \E c : Awaited(c) /\ c[0] = a[Len(toServer)]
  BY <1>0 DEF Matching
<1>3. PICK c : Awaited(c) /\ c[0] = a[Len(toServer)]
  BY <1>2
<1>4. /\ c \in [0 .. Len(toClient) -> 0 .. Len(asked)]
      /\ \A i \in 1 .. Len(toClient) :
           /\ IF Asks(toClient[i])
              THEN c[i] = c[i - 1] + 1 /\ asked[c[i]] = AnswerTo[toClient[i].wire]
              ELSE c[i] = c[i - 1]
           /\ StateAfter(toClient[i]) = "Play" => c[i] = Len(asked)
  BY <1>3 DEF Awaited
<1>5. Len(toClient) \in Nat /\ Len(asked) \in Nat
  BY <1>0, AnswerTypes
<1>6. Replied'
  BY <1>0, <1>1 DEF Replied
<1>7. CASE toClient' = toClient /\ result' # "ok" /\ (Len(ws) > 0 => ~IsAnswer(ws[1].name))
  <2>1. AskedAll' /\ AskedKnown'
    BY <1>0, <1>1, <1>7 DEF AskedAll, AskedKnown, StateAfter, Asks
  <2>2. c[0] \in 0 .. Len(asked)
    BY <1>4, <1>5
  <2>3. \E b : Answered(b)' /\ b[Len(toServer')] = c[0]
    BY <1>0, <1>1, <1>2, <1>3, <1>7, <2>2, Answering DEF Answers
  <2>4. Awaited(c)'
    BY <1>1, <1>3, <1>7 DEF Awaited, StateAfter, Asks
  <2>5. Matching'
    <3>1. PICK b : Answered(b)' /\ b[Len(toServer')] = c[0]
      BY <2>3
    <3>2. b \in [0 .. Len(toServer') -> 0 .. Len(asked')]
      BY <3>1 DEF Answered
    <3>3. c \in [0 .. Len(toClient') -> 0 .. Len(asked')]
      BY <2>4 DEF Awaited
    <3> QED BY <1>7, <2>4, <3>1, <3>2, <3>3 DEF Matching
  <2> QED BY <1>6, <2>1, <2>5
<1>8. CASE /\ toClient # <<>> /\ toClient' = Tail(toClient)
           /\ IF Asks(toClient[1])
              THEN Len(ws) > 0 /\ ws[1].name = AnswerTo[toClient[1].wire]
              ELSE Len(ws) > 0 => ~IsAnswer(ws[1].name)
           /\ result' = "ok" /\ goal = "Login" => StateAfter(toClient[1]) = "Play"
  <2>1. /\ Len(toClient) >= 1
        /\ \A i \in 1 .. Len(toClient') : toClient'[i] = toClient[i + 1] /\ i + 1 \in 2 .. Len(toClient)
    BY <1>0, <1>8, Popped
  <2>2. 1 \in 1 .. Len(toClient) /\ 1 \in 0 .. Len(toClient) /\ \A i \in 2 .. Len(toClient) : i \in 1 .. Len(toClient)
    BY <1>5, <2>1
  <2>3. AskedAll' /\ AskedKnown'
    <3>1. ASSUME NEW i \in 1 .. Len(toClient')
          PROVE  /\ StateAfter(toClient[i])' = "Play" => serverStep' \in {"finish", "play", "done"}
                 /\ Asks(toClient[i])' /\ toClient'[i].wire \in {"cookie_request", "select_known_packs"} =>
                      version' >= V1_20_5
      <4>1. i + 1 \in 1 .. Len(toClient) /\ toClient'[i] = toClient[i + 1]
        BY <2>1, <2>2
      <4>2. StateAfter(toClient[i])' = StateAfter(toClient[i + 1]) /\ (Asks(toClient[i])' <=> Asks(toClient[i + 1]))
        BY <1>1, <4>1 DEF StateAfter, Asks
      <4> QED BY <1>0, <1>1, <4>1, <4>2 DEF AskedAll, AskedKnown
    <3>2. result' = "ok" /\ goal' = "Login" => serverStep' \in {"finish", "play", "done"}
      BY <1>0, <1>1, <1>8, <2>2 DEF AskedAll
    <3> QED BY <3>1, <3>2 DEF AskedAll, AskedKnown
  <2>4. PICK d : Awaited(d)' /\ d[0] = c[1]
    BY <1>0, <1>1, <1>3, <1>8, AwaitedRest
  <2>5. c[1] \in 0 .. Len(asked)
    BY <1>4, <2>2
  <2>6. IF Asks(toClient[1])
        THEN c[1] = c[0] + 1 /\ asked[c[1]] = AnswerTo[toClient[1].wire]
        ELSE c[1] = c[0]
    <3>1. 1 - 1 = 0
      OBVIOUS
    <3> QED BY <1>4, <2>2, <3>1
  <2>7. IF Len(ws) > 0 /\ IsAnswer(ws[1].name)
        THEN c[1] = a[Len(toServer)] + 1 /\ asked[c[1]] = ws[1].name
        ELSE c[1] = a[Len(toServer)]
    <3>1. Asks(toClient[1]) => IsAnswer(AnswerTo[toClient[1].wire])
      BY AnswerNames DEF Asks
    <3> QED BY <1>3, <1>8, <2>6, <3>1
  <2>8. PICK b : Answered(b)' /\ b[Len(toServer')] = c[1]
    BY <1>0, <1>1, <1>2, <2>5, <2>7, Answering DEF Answers
  <2>9. Matching'
    <3>1. b \in [0 .. Len(toServer') -> 0 .. Len(asked')]
      BY <2>8 DEF Answered
    <3>2. d \in [0 .. Len(toClient') -> 0 .. Len(asked')]
      BY <2>4 DEF Awaited
    <3>3. result' = "ok" /\ goal' = "Login" => c[1] = Len(asked')
      BY <1>1, <1>4, <1>8, <2>2
    <3> QED BY <2>4, <2>8, <3>1, <3>2, <3>3 DEF Matching
  <2> QED BY <1>6, <2>3, <2>9
<1> QED BY <1>7, <1>8 DEF Answers

\* Every step of the client is such a handler, or writes no answer.
LEMMA ClientMatch ==
  ASSUME AnswersInv, Client
  PROVE  AskedAll' /\ AskedKnown' /\ Replied' /\ Matching'
<1>0. SessionInv /\ ClientInv /\ TypeOK /\ ClientPlaces /\ AskedKnown
  BY DEF AnswersInv, SessionInv, ClientInv
<1>1. pc # "returned" /\ result = "none"
  <2>1. pc # "returned"
    BY DEF Client, StatusStart, StatusResponse, StatusPong, LoginStart, LoginNoName, LoginCompression,
           LoginSuccess, LoginOther, ConfigurationPacket, ConfigurationFinish, ConfigurationDisconnect,
           ConnectionError, Received
  <2> QED BY <1>0, <2>1 DEF ClientPlaces
<1>2. SUFFICES \E ws : Answers(ws)
  BY <1>1, HandlerMatch
<1>4. /\ ~IsAnswer("ServerboundHandshake") /\ ~IsAnswer("ServerboundStatusRequest") /\ ~IsAnswer("ServerboundPing")
      /\ ~IsAnswer("ServerboundLoginStart") /\ ~IsAnswer("ServerboundLoginAcknowledged")
      /\ ~IsAnswer("ServerboundClientSettings") /\ ~IsAnswer(FinishConfiguration)
  BY AnswerNames DEF FinishConfiguration, Packs
\* Packets of which none is an answer.
<1>5. ASSUME NEW ws, Len(ws) \in Nat, Adds(ws), \A i \in 1 .. Len(ws) : ~IsAnswer(ws[i].name),
             \/ toClient' = toClient /\ result' # "ok"
             \/ /\ toClient # <<>> /\ toClient' = Tail(toClient) /\ ~Asks(toClient[1])
                /\ result' = "ok" /\ goal = "Login" => StateAfter(toClient[1]) = "Play"
      PROVE  Answers(ws)
  BY <1>5 DEF Answers
<1>6. ASSUME Adds(<<>>),
             \/ toClient' = toClient /\ result' # "ok"
             \/ /\ toClient # <<>> /\ toClient' = Tail(toClient) /\ ~Asks(toClient[1])
                /\ result' = "ok" /\ goal = "Login" => StateAfter(toClient[1]) = "Play"
      PROVE  \E ws : Answers(ws)
  <2> DEFINE ws == <<>>
  <2>1. Len(ws) \in Nat /\ Adds(ws) /\ \A i \in 1 .. Len(ws) : ~IsAnswer(ws[i].name)
    BY <1>6
  <2> HIDE DEF ws
  <2> QED BY <1>5, <1>6, <2>1
<1>7. ASSUME NEW s, NEW name, ~IsAnswer(name), Adds(<<W(s, name)>>),
             \/ toClient' = toClient /\ result' # "ok"
             \/ /\ toClient # <<>> /\ toClient' = Tail(toClient) /\ ~Asks(toClient[1])
                /\ result' = "ok" /\ goal = "Login" => StateAfter(toClient[1]) = "Play"
      PROVE  \E ws : Answers(ws)
  <2> DEFINE ws == <<W(s, name)>>
  <2>1. Len(ws) \in Nat /\ Adds(ws) /\ \A i \in 1 .. Len(ws) : ~IsAnswer(ws[i].name)
    BY <1>7 DEF W
  <2> HIDE DEF ws
  <2> QED BY <1>5, <1>7, <2>1
<1>8. ASSUME NEW s, NEW name, NEW t, NEW other, ~IsAnswer(name), ~IsAnswer(other), Adds(<<W(s, name), W(t, other)>>),
             \/ toClient' = toClient /\ result' # "ok"
             \/ /\ toClient # <<>> /\ toClient' = Tail(toClient) /\ ~Asks(toClient[1])
                /\ result' = "ok" /\ goal = "Login" => StateAfter(toClient[1]) = "Play"
      PROVE  \E ws : Answers(ws)
  <2> DEFINE ws == <<W(s, name), W(t, other)>>
  <2>1. Len(ws) = 2 /\ Adds(ws) /\ ws[1].name = name /\ ws[2].name = other
    BY <1>8 DEF W
  <2> HIDE DEF ws
  <2>2. \A i \in 1 .. Len(ws) : ~IsAnswer(ws[i].name)
    BY <1>8, <2>1
  <2> QED BY <1>5, <1>8, <2>1, <2>2
<1>9. \A p : Asks(p) => p.state = "Configuration"
  BY DEF Asks
<1>10. CASE StatusStart \/ LoginStart
  <2>1. toClient' = toClient /\ result' = "none"
    BY <1>0, <1>10, Effects DEF StatusStart, LoginStart, Moves
  <2>2. \/ Adds(<<W("Handshaking", "ServerboundHandshake"), W("Status", "ServerboundStatusRequest")>>)
        \/ Adds(<<W("Handshaking", "ServerboundHandshake"), W("Login", "ServerboundLoginStart")>>)
    BY <1>0, <1>10, Effects DEF Moves
  <2> QED BY <1>4, <1>8, <2>1, <2>2
<1>11. CASE LoginNoName
  <2>1. toClient' = toClient /\ result' = "error" /\ Adds(<<W("Handshaking", "ServerboundHandshake")>>)
    BY <1>0, <1>11, Effects DEF LoginNoName, Moves
  <2> QED BY <1>4, <1>7, <2>1
<1>12. CASE ConnectionError
  <2>1. toClient' = toClient /\ result' = "error" /\ Adds(<<>>)
    BY <1>0, <1>12, Effects DEF ConnectionError, Fails, Moves
  <2> QED BY <1>6, <2>1
<1>13. ASSUME toClient # <<>>, toClient' = Tail(toClient)
       PROVE  toClient[1].state = connState
  BY <1>0, <1>1, <1>13, ReadFacts
<1>14. CASE StatusResponse \/ StatusPong
  <2>1. toClient # <<>> /\ toClient' = Tail(toClient) /\ connState = "Status" /\ goal = "Status"
    BY <1>0, <1>14 DEF StatusResponse, StatusPong, Received, ClientPlaces
  <2>2. ~Asks(toClient[1])
    BY <1>9, <1>13, <2>1
  <2>3. Adds(<<>>) \/ Adds(<<W("Status", "ServerboundPing")>>)
    BY <1>0, <1>14, Effects DEF Fails, Moves
  <2> QED BY <1>4, <1>6, <1>7, <2>1, <2>2, <2>3
<1>15. CASE LoginCompression \/ LoginOther
  <2>1. toClient # <<>> /\ toClient' = Tail(toClient) /\ connState = "Login"
    BY <1>0, <1>15 DEF LoginCompression, LoginOther, Received, ClientPlaces
  <2>2. ~Asks(toClient[1])
    BY <1>9, <1>13, <2>1
  <2>3. Adds(<<>>) /\ result' # "ok"
    BY <1>0, <1>15, Effects DEF Fails, Moves
  <2> QED BY <1>6, <2>1, <2>2, <2>3
<1>16. CASE LoginSuccess
  <2>1. toClient # <<>> /\ toClient' = Tail(toClient) /\ connState = "Login"
    BY <1>0, <1>16 DEF LoginSuccess, Received, ClientPlaces
  <2>2. ~Asks(toClient[1])
    BY <1>9, <1>13, <2>1
  <2>3. CASE version >= V1_20_2
    <3>1. /\ Adds(<<W("Login", "ServerboundLoginAcknowledged"), W("Configuration", "ServerboundClientSettings")>>)
          /\ result' = "none"
      BY <1>0, <1>16, <2>3, Effects DEF Moves
    <3> QED BY <1>4, <1>8, <2>1, <2>2, <3>1
  <2>4. CASE ~(version >= V1_20_2)
    <3>1. Adds(<<W("Play", "ServerboundClientSettings")>>)
      BY <1>0, <1>16, <2>4, Effects DEF Moves
    <3>2. Type = TypeIn("Login", toClient[1].wire)
      BY <1>0, <1>1, <2>1, ReadFacts
    <3>3. toClient[1].wire = "success"
      BY <1>16, <3>2, LoginTypes DEF LoginSuccess
    <3>4. StateAfter(toClient[1]) = "Play"
      BY <2>4, <3>3 DEF StateAfter
    <3> QED BY <1>4, <1>7, <2>1, <2>2, <3>1, <3>4
  <2> QED BY <2>3, <2>4
<1>17. CASE ConfigurationDisconnect \/ ConfigurationFinish
  <2>1. toClient # <<>> /\ toClient' = Tail(toClient) /\ pc = "configuration"
    BY <1>17 DEF ConfigurationDisconnect, ConfigurationFinish, Received
  <2>2. Type = TypeIn("Configuration", toClient[1].wire) /\ version \in Int /\ version >= V1_20_2
    BY <1>0, <2>1, ConfigurationFacts
  <2>3. /\ toClient[1].wire \in {"disconnect", "finish_configuration"}
        /\ ConfigurationFinish => toClient[1].wire = "finish_configuration"
    BY <1>17, <2>2, ConfigurationTypes DEF ConfigurationDisconnect, ConfigurationFinish
  <2>4. ~Asks(toClient[1])
    BY <2>3, AnswerNames DEF Asks, Requests
  <2>5. ConfigurationFinish => StateAfter(toClient[1]) = "Play"
    BY <2>3 DEF StateAfter
  <2>6. ConfigurationDisconnect => result' = "error" /\ Adds(<<>>)
    BY <1>0, Effects DEF Fails, Moves
  <2>7. ConfigurationFinish => Adds(<<>>) \/ Adds(<<W("Configuration", FinishConfiguration)>>)
    BY <1>0, Effects DEF Moves
  <2> QED BY <1>4, <1>6, <1>7, <1>17, <2>1, <2>4, <2>5, <2>6, <2>7
<1>18. CASE ConfigurationPacket
  <2>1. toClient # <<>> /\ toClient' = Tail(toClient) /\ pc = "configuration"
    BY <1>18 DEF ConfigurationPacket, Received
  <2>2. /\ Type = TypeIn("Configuration", toClient[1].wire) /\ version \in Int /\ version >= V1_20_2
        /\ connState = "Configuration"
    BY <1>0, <2>1, ConfigurationFacts
  <2>3. Adds(ConfigurationAnswer(Type)) /\ result' = "none"
    BY <1>0, <1>18, Effects DEF Moves
  <2>4. /\ Type = "ClientboundConfigKeepAlive" <=> toClient[1].wire = "keep_alive"
        /\ Type = "ClientboundCustomPayload" <=> toClient[1].wire = "custom_payload"
        /\ Type = "ClientboundCookieRequest" <=> toClient[1].wire = "cookie_request" /\ version >= V1_20_5
        /\ Type = "ClientboundSelectKnownPacks" <=> toClient[1].wire = "select_known_packs" /\ version >= V1_20_5
    BY <2>2, ConfigurationTypes
  <2>5. Asks(toClient[1]) /\ toClient[1].wire \in {"cookie_request", "select_known_packs"} => version >= V1_20_5
    <3>1. 1 \in 1 .. Len(toClient)
      BY <1>0, <2>1, Types
    <3> QED BY <1>0, <3>1 DEF AskedKnown
  <2>6. Asks(toClient[1]) <=> toClient[1].wire \in Requests \cup {"select_known_packs"}
    BY <1>13, <2>1, <2>2, AnswerNames DEF Asks
  <2>7. ASSUME Asks(toClient[1]),
               NEW ws, Len(ws) \in {1, 2}, Adds(ws), ws[1].name = AnswerTo[toClient[1].wire],
               Len(ws) = 2 => ws[2].name = FinishConfiguration
        PROVE  Answers(ws)
    <3>1. \A i \in 2 .. Len(ws) : ~IsAnswer(ws[i].name)
      BY <1>4, <2>7
    <3> QED BY <2>1, <2>3, <2>7, <3>1 DEF Answers
  <2>8. ASSUME Asks(toClient[1]), NEW name, name = AnswerTo[toClient[1].wire],
               ConfigurationAnswer(Type) = <<W(connState, name)>>
        PROVE  \E ws : Answers(ws)
    <3> DEFINE ws == <<W(connState, name)>>
    <3>1. Len(ws) = 1 /\ Adds(ws) /\ ws[1].name = name
      BY <2>3, <2>8 DEF W
    <3> HIDE DEF ws
    <3> QED BY <2>7, <2>8, <3>1
  <2>9. CASE toClient[1].wire = "keep_alive"
    BY <2>4, <2>6, <2>8, <2>9, AnswerNames DEF ConfigurationAnswer, Requests
  <2>10. CASE toClient[1].wire = "custom_payload"
    BY <2>4, <2>6, <2>8, <2>10, AnswerNames DEF ConfigurationAnswer, Requests
  <2>11. CASE toClient[1].wire = "cookie_request"
    BY <2>4, <2>5, <2>6, <2>8, <2>11, AnswerNames DEF ConfigurationAnswer, Requests
  <2>12. CASE toClient[1].wire = "select_known_packs"
    <3>1. Asks(toClient[1]) /\ ConfigurationAnswer(Type) = KnownPacks /\ AnswerTo[toClient[1].wire] = Packs
      BY <2>4, <2>5, <2>6, <2>12, AnswerNames DEF ConfigurationAnswer
    <3>2. CASE ~FinishesFirst
      BY <2>8, <3>1, <3>2 DEF KnownPacks, Packs
    <3>3. CASE FinishesFirst
      <4> DEFINE ws == <<W(connState, Packs), W(connState, FinishConfiguration)>>
      <4>1. Len(ws) = 2 /\ Adds(ws) /\ ws[1].name = Packs /\ ws[2].name = FinishConfiguration
        BY <2>3, <3>1, <3>3 DEF W, KnownPacks, Packs
      <4> HIDE DEF ws
      <4> QED BY <2>7, <3>1, <4>1
    <3> QED BY <3>2, <3>3
  <2>13. CASE toClient[1].wire \notin Requests \cup {"select_known_packs"}
    <3>1. ConfigurationAnswer(Type) = <<>>
      BY <2>4, <2>13 DEF ConfigurationAnswer, Requests
    <3> QED BY <1>6, <2>1, <2>3, <2>6, <2>13, <3>1
  <2> QED BY <2>9, <2>10, <2>11, <2>12, <2>13 DEF Requests
<1> QED BY <1>10, <1>11, <1>12, <1>14, <1>15, <1>16, <1>17, <1>18 DEF Client

-----------------------------------------------------------------------------
\* AnswersInv is an invariant.
LEMMA AnswersInvHolds == ASSUME NoLateRequests PROVE Spec => []AnswersInv
<1>1. Init => AskedAll /\ AskedKnown /\ Replied /\ Matching
  <2> SUFFICES ASSUME Init PROVE AskedAll /\ AskedKnown /\ Replied /\ Matching
    OBVIOUS
  <2>1. /\ Len(toServer) = 0 /\ Len(toClient) = 0 /\ Len(asked) = 0 /\ Len(answers) = 0
        /\ result = "none" /\ toClient = <<>>
    BY DEF Init
  <2>2. AskedAll /\ AskedKnown /\ Replied
    BY <2>1 DEF AskedAll, AskedKnown, Replied
  <2>3. Matching
    <3> DEFINE z == [i \in 0 .. 0 |-> 0]
    <3>1. z \in [0 .. 0 -> 0 .. 0] /\ z[0] = 0
      OBVIOUS
    <3> HIDE DEF z
    <3>2. Answered(z) /\ Awaited(z)
      BY <2>1, <3>1 DEF Answered, Awaited
    <3> QED BY <2>1, <3>1, <3>2 DEF Matching
  <2> QED BY <2>2, <2>3
<1>2. AnswersInv /\ [Next]_vars => AskedAll' /\ AskedKnown' /\ Replied' /\ Matching'
  <2> SUFFICES ASSUME AnswersInv, [Next]_vars PROVE AskedAll' /\ AskedKnown' /\ Replied' /\ Matching'
    OBVIOUS
  <2>1. CASE Client
    BY <2>1, ClientMatch
  <2>2. CASE Server
    BY <2>2, ReceiveMatch, ServerSendsMatch DEF Server
  <2>3. CASE Lose \/ UNCHANGED vars
    <3>1. /\ version' = version /\ goal' = goal /\ result' = result /\ toServer' = toServer /\ toClient' = toClient
          /\ serverStep' = serverStep /\ asked' = asked /\ answers' = answers
      BY <2>3, Zenon DEF Lose, vars, clientVars, serverVars
    <3>2. AskedAll' /\ AskedKnown' /\ Replied'
      BY <3>1 DEF AnswersInv, AskedAll, AskedKnown, Replied, StateAfter, Asks
    <3>3. \A a : (Answered(a) => Answered(a)') /\ (Awaited(a) => Awaited(a)')
      BY <3>1 DEF Answered, Awaited, StateAfter, Asks
    <3>4. Matching'
      BY <3>1, <3>3 DEF AnswersInv, Matching
    <3> QED BY <3>2, <3>4
  <2> QED BY <2>1, <2>2, <2>3 DEF Next
<1>3. AnswersInv <=> SessionInv /\ (AskedAll /\ AskedKnown /\ Replied /\ Matching)
  BY DEF AnswersInv
<1> HIDE DEF AnswersInv
<1> QED BY <1>1, <1>2, <1>3, SessionInvHolds, PTL DEF Spec

\* What the server asks for during configuration is answered once and in the
\* order it was asked for, and when Join reports success the answers are all
\* with the server or on their way to it.
THEOREM AnswersInOrder == ASSUME NoLateRequests PROVE Spec => []AnswersMatch
<1>1. AnswersInv => AnswersMatch
  <2> SUFFICES ASSUME AnswersInv PROVE AnswersMatch
    OBVIOUS
  <2>0. TypeOK /\ Replied /\ Matching
    BY DEF AnswersInv, SessionInv, ClientInv
  <2>1. asked \in Seq(packetConstructors) /\ answers \in Seq(packetConstructors)
    BY <2>0, AnswerTypes
  <2>2. DOMAIN answers = 1 .. Len(answers)
    BY <2>1
  <2>3. ASSUME result = "ok", goal = "Login", toServer = <<>>
        PROVE  answers = asked
    <3>1. Len(toServer) = 0
      BY <2>3
    <3>2. PICK a : Answered(a) /\ a[Len(toServer)] = Len(asked)
      BY <2>0, <2>3 DEF Matching
    <3>3. Len(answers) = Len(asked)
      BY <3>1, <3>2 DEF Answered
    <3>4. \A i \in 1 .. Len(answers) : answers[i] = asked[i]
      BY <2>0 DEF Replied
    <3> QED BY <2>1, <3>3, <3>4, SeqEqual
  <2> QED BY <2>0, <2>2, <2>3 DEF AnswersMatch, Replied
<1> QED BY <1>1, AnswersInvHolds, PTL
=============================================================================

