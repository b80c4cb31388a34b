------------------------- MODULE MqttClient_proofs -------------------------
(***************************************************************************)
(* The shared MQTT client is there for every activation that has a working *)
(* connection, however many activations nest: for every number of          *)
(* commands, queue length and depth of nesting.                            *)
(***************************************************************************)
EXTENDS MqttClient, SequenceTheorems, TLAPS

\* What an activation may rely on until a connection is lost.
Holds(f, n, c, k) ==
  \/ f.at = "wait" \/ f.lost
  \/ n /\ (f.at = "connect" => c) /\ (f.at \in {"poll", "publish"} => c /\ k)

\* The innermost activation holds that; the others wait or have lost it, since
\* the menu runs inside an activation only when there is no network.
StackOK(s, n, c, k) ==
  /\ s \in Seq(Frame) /\ Len(s) <= MaxNest
  /\ \A i \in 1 .. Len(s) - 1 : s[i].at = "wait" \/ s[i].lost
  /\ s # <<>> => Holds(s[Len(s)], n, c, k)

\* The types of everything but the stack.
Cmd == ({"run", "item"} \X (1 .. MaxMsg)) \cup {<<"clear", 0>>}
FlagsOK ==
  /\ net \in BOOLEAN /\ listen \in BOOLEAN /\ overlap \in BOOLEAN
  /\ client \in BOOLEAN /\ conn \in BOOLEAN /\ listening \in BOOLEAN
  /\ ran \in BOOLEAN /\ erased \in BOOLEAN /\ lost \in BOOLEAN
MessagesOK ==
  /\ queue \in Seq(Cmd)
  /\ inbox \in Seq(1 .. MaxMsg)
  /\ retained \in 0 .. MaxMsg /\ published \in 0 .. MaxMsg

\* The inductive invariant.
Inv == FlagsOK /\ MessagesOK /\ ListenerAlive /\ StackOK(stack, net, client, conn)

-----------------------------------------------------------------------------
\* The ways a step changes the stack.

\* The sequence without its last element.
LEMMA Fronts ==
  ASSUME NEW S, NEW s \in Seq(S), s # <<>>
  PROVE  /\ Front(s) \in Seq(S)
         /\ Len(Front(s)) = Len(s) - 1
         /\ \A i \in 1 .. Len(s) - 1 : Front(s)[i] = s[i]
  <1> DEFINE u == SubSeq(s, 1, Len(s) - 1)
  <1>1. Len(s) \in Nat /\ Len(s) >= 1 /\ \A i \in 1 .. Len(s) - 1 : s[i] \in S
    OBVIOUS
  <1>2. /\ u \in Seq(S)
        /\ Len(u) = IF 1 <= Len(s) - 1 THEN Len(s) - 1 - 1 + 1 ELSE 0
        /\ \A i \in 1 .. Len(s) - 1 - 1 + 1 : u[i] = s[1 + i - 1]
    BY <1>1, SubSeqProperties
  <1>3. Front(s) = u
    BY DEF Front
  <1> HIDE DEF u
  <1>4. Len(s) - 1 - 1 + 1 = Len(s) - 1 /\ (~(1 <= Len(s) - 1) => Len(s) - 1 = 0)
    <2>1. \A n \in Nat : n >= 1 => n - 1 - 1 + 1 = n - 1 /\ (~(1 <= n - 1) => n - 1 = 0)
      OBVIOUS
    <2> QED
      BY <1>1, <2>1
  <1>5. Len(u) = Len(s) - 1
    BY <1>2, <1>4
  <1>6. ASSUME NEW i \in 1 .. Len(s) - 1
        PROVE  u[i] = s[i]
    <2>1. u[i] = s[1 + i - 1]
      BY <1>2, <1>4
    <2>2. 1 + i - 1 = i
      BY <1>1
    <2> QED
      BY <2>1, <2>2
  <1> QED
    BY <1>2, <1>3, <1>5, <1>6

\* Its last element replaced.
LEMMA Replaced ==
  ASSUME NEW S, NEW s \in Seq(S), s # <<>>, NEW f \in S
  PROVE  /\ Front(s) \o <<f>> \in Seq(S) /\ Len(Front(s) \o <<f>>) = Len(s)
         /\ \A i \in 1 .. Len(s) - 1 : (Front(s) \o <<f>>)[i] = s[i]
         /\ (Front(s) \o <<f>>)[Len(s)] = f
  <1> DEFINE u == Front(s)
             v == <<f>>
  <1>1. v \in Seq(S) /\ Len(v) = 1 /\ v[1] = f
    OBVIOUS
  <1>2. u \in Seq(S) /\ Len(u) = Len(s) - 1 /\ \A i \in 1 .. Len(s) - 1 : u[i] = s[i]
    BY Fronts
  <1>3. Len(s) \in Nat /\ Len(s) >= 1
    OBVIOUS
  <1> HIDE DEF u, v
  <1>4. /\ u \o v \in Seq(S) /\ Len(u \o v) = Len(u) + Len(v)
        /\ \A i \in 1 .. Len(u) + Len(v) :
             (u \o v)[i] = IF i <= Len(u) THEN u[i] ELSE v[i - Len(u)]
    BY <1>1, <1>2, ConcatProperties
  <1>5. (u \o v)[Len(s)] = f
    BY <1>1, <1>2, <1>3, <1>4
  <1>6. \A i \in 1 .. Len(s) - 1 : (u \o v)[i] = s[i]
    BY <1>1, <1>2, <1>3, <1>4
  <1>7. Len(u \o v) = Len(s)
    BY <1>1, <1>2, <1>3, <1>4
  <1> QED
    BY <1>4, <1>5, <1>6, <1>7 DEF u, v

\* The innermost activation.
LEMMA TopFrame ==
  ASSUME NEW n, NEW c, NEW k, StackOK(stack, n, c, k), stack # <<>>
  PROVE  /\ Len(stack) \in Nat /\ Len(stack) >= 1
         /\ Top = stack[Len(stack)] /\ Top \in Frame /\ Holds(Top, n, c, k)
  <1>1. stack \in Seq(Frame)
    BY DEF StackOK
  <1>2. Len(stack) \in Nat /\ Len(stack) >= 1
    BY <1>1
  <1>3. Top = stack[Len(stack)]
    BY DEF Top, Last
  <1> QED
    BY <1>1, <1>2, <1>3 DEF StackOK

\* An activation ends.
LEMMA PoppedOK ==
  ASSUME NEW s, NEW n, NEW c, NEW k, NEW m, NEW d, NEW l, StackOK(s, n, c, k), s # <<>>
  PROVE  StackOK(Front(s), m, d, l)
  <1> DEFINE t == Front(s)
  <1>1. s \in Seq(Frame) /\ Len(s) \in Nat /\ Len(s) >= 1
    BY DEF StackOK
  <1>2. t \in Seq(Frame) /\ Len(t) = Len(s) - 1 /\ \A i \in 1 .. Len(s) - 1 : t[i] = s[i]
    BY <1>1, Fronts
  <1> HIDE DEF t
  <1>3. \A i \in 1 .. Len(t) : t[i].at = "wait" \/ t[i].lost
    BY <1>1, <1>2 DEF StackOK
  <1>4. MaxNest \in Nat
    BY BoundsOK
  <1>5. Len(t) <= MaxNest
    BY <1>1, <1>2, <1>4 DEF StackOK
  <1>6. \A i \in 1 .. Len(t) - 1 : i \in 1 .. Len(t)
    BY <1>1, <1>2
  <1>7. t # <<>> => Len(t) \in 1 .. Len(t)
    BY <1>2
  <1>8. t # <<>> => Holds(t[Len(t)], m, d, l)
    BY <1>3, <1>7 DEF Holds
  <1>9. StackOK(t, m, d, l)
    BY <1>2, <1>3, <1>5, <1>6, <1>8 DEF StackOK
  <1> QED
    BY <1>9 DEF t

\* An activation goes on.
LEMMA ReplacedOK ==
  ASSUME NEW s, NEW n, NEW c, NEW k, NEW m, NEW d, NEW l, StackOK(s, n, c, k), s # <<>>,
         NEW f \in Frame, Holds(f, m, d, l)
  PROVE  StackOK(Front(s) \o <<f>>, m, d, l)
  <1> DEFINE t == Front(s) \o <<f>>
  <1>1. s \in Seq(Frame) /\ Len(s) \in Nat /\ Len(s) >= 1
    BY DEF StackOK
  <1>2. /\ t \in Seq(Frame) /\ Len(t) = Len(s) /\ t[Len(s)] = f
        /\ \A i \in 1 .. Len(s) - 1 : t[i] = s[i]
    BY <1>1, Replaced
  <1> HIDE DEF t
  <1>3. StackOK(t, m, d, l)
    BY <1>2 DEF StackOK
  <1> QED
    BY <1>3 DEF t

\* The menu starts one.
LEMMA PushedOK ==
  ASSUME NEW s, NEW n, NEW c, NEW k, StackOK(s, n, c, k),
         s = <<>> \/ (~n /\ Len(s) < MaxNest), NEW g \in Frame, g.at = "wait"
  PROVE  StackOK(Append(s, g), n, c, k)
  <1> DEFINE t == Append(s, g)
  <1>1. s \in Seq(Frame) /\ Len(s) \in Nat
    BY DEF StackOK
  <1>2. /\ t \in Seq(Frame) /\ Len(t) = Len(s) + 1 /\ t[Len(s) + 1] = g
        /\ \A i \in 1 .. Len(s) : t[i] = s[i]
    BY <1>1
  <1>3. \A i \in 1 .. Len(s) : s[i].at = "wait" \/ s[i].lost
    <2>1. s # <<>> => s[Len(s)].at = "wait" \/ s[Len(s)].lost
      BY DEF StackOK, Holds
    <2>2. \A i \in 1 .. Len(s) : i \in 1 .. Len(s) - 1 \/ (i = Len(s) /\ s # <<>>)
      BY <1>1
    <2> QED
      BY <2>1, <2>2 DEF StackOK
  <1>4. Len(s) + 1 <= MaxNest
    BY <1>1, BoundsOK
  <1> HIDE DEF t
  <1>5. \A i \in 1 .. Len(t) - 1 : t[i].at = "wait" \/ t[i].lost
    BY <1>1, <1>2, <1>3
  <1>6. Holds(t[Len(t)], n, c, k)
    BY <1>2 DEF Holds
  <1>7. StackOK(t, n, c, k)
    BY <1>2, <1>4, <1>5, <1>6 DEF StackOK
  <1> QED
    BY <1>7 DEF t

\* A connection is lost.
LEMMA LostOK ==
  ASSUME NEW n, NEW c, NEW k, NEW m, NEW d, NEW l, StackOK(stack, n, c, k), Lose
  PROVE  StackOK(stack', m, d, l)
  <1>1. stack \in Seq(Frame) /\ Len(stack) \in Nat
    BY DEF StackOK
  <1>2. \A f \in Frame : [f EXCEPT !.lost = TRUE] \in Frame /\ [f EXCEPT !.lost = TRUE].lost
    BY DEF Frame
  <1>3. stack' \in [1 .. Len(stack) -> Frame]
    BY <1>1, <1>2 DEF Lose
  <1>4. stack' \in Seq(Frame) /\ Len(stack') = Len(stack)
    BY <1>1, <1>3
  <1>5. ASSUME NEW i \in 1 .. Len(stack)
        PROVE  stack'[i].lost
    <2>1. stack'[i] = [stack[i] EXCEPT !.lost = TRUE] /\ stack[i] \in Frame
      BY <1>1 DEF Lose
    <2> QED
      BY <1>2, <2>1
  <1>6. stack' # <<>> => Len(stack) \in 1 .. Len(stack)
    BY <1>1, <1>4
  <1> QED
    BY <1>1, <1>4, <1>5, <1>6 DEF StackOK, Holds

-----------------------------------------------------------------------------
\* What the actions do to it.

\* What stays the same where the stack does.
LEMMA SameStack ==
  ASSUME Inv, UNCHANGED <<net, client, conn, stack>>
  PROVE  StackOK(stack', net', client', conn')
  BY DEF Inv

\* Finish ends an activation, or starts the second part of process().
LEMMA FinishOK ==
  ASSUME Inv, stack # <<>>, Finish, NEW m, NEW d, NEW l
  PROVE  StackOK(stack', m, d, l)
  <1>1. CASE stack' = Front(stack) \o <<Activation("process", Top.queued)>>
    <2> DEFINE f == Activation("process", Top.queued)
    <2>1. StackOK(stack, net, client, conn)
      BY DEF Inv
    <2>2. Top \in Frame
      BY <2>1, TopFrame
    <2>3. f \in Frame /\ Holds(f, m, d, l)
      BY <2>2 DEF Activation, Frame, Holds
    <2>4. stack' = Front(stack) \o <<f>>
      BY <1>1
    <2> HIDE DEF f
    <2> QED
      BY <2>1, <2>3, <2>4, ReplacedOK
  <1>2. CASE stack' = Front(stack)
    BY <1>2, PoppedOK DEF Inv
  <1> QED
    BY <1>1, <1>2 DEF Finish

\* The innermost activation goes to another point.
LEMMA GoToOK ==
  ASSUME Inv, stack # <<>>, NEW p \in {"create", "connect", "poll", "publish"}, GoTo(p),
         NEW m, NEW d, NEW l, Top.lost \/ (m /\ (p = "connect" => d)
                                           /\ (p \in {"poll", "publish"} => d /\ l))
  PROVE  StackOK(stack', m, d, l)
  <1> DEFINE f == [Top EXCEPT !.at = p]
  <1>1. StackOK(stack, net, client, conn)
    BY DEF Inv
  <1>2. Top \in Frame
    BY <1>1, TopFrame
  <1>3. f \in Frame /\ f.at = p /\ f.lost = Top.lost
    BY <1>2 DEF Frame
  <1>4. stack' = Front(stack) \o <<f>>
    BY DEF GoTo
  <1> HIDE DEF f
  <1>5. Holds(f, m, d, l)
    BY <1>3 DEF Holds
  <1> QED
    BY <1>1, <1>3, <1>4, <1>5, ReplacedOK

\* The start of an activation in loop() or in a wait.
LEMMA ActivationOK ==
  ASSUME NEW op \in {"setup", "first", "process", "call", "clear"}, NEW q \in BOOLEAN
  PROVE  Activation(op, q) \in Frame /\ Activation(op, q).at = "wait"
  BY DEF Activation, Frame

LEMMA MenuOK ==
  ASSUME Inv, MenuRuns, NEW g \in Frame, g.at = "wait", stack' = Append(stack, g),
         UNCHANGED <<net, client, conn>>
  PROVE  StackOK(stack', net', client', conn')
  <1>1. StackOK(stack, net, client, conn)
    BY DEF Inv
  <1> QED
    BY <1>1, PushedOK DEF MenuRuns

LEMMA BeginOK ==
  ASSUME Inv, MenuRuns, NEW q \in BOOLEAN, BeginProcess(q), UNCHANGED <<net, client, conn>>
  PROVE  StackOK(stack', net', client', conn')
  <1>1. PICK op \in {"first", "process"} : stack' = Append(stack, Activation(op, q))
    BY DEF BeginProcess
  <1> QED
    BY <1>1, MenuOK, ActivationOK

\* A device that has just started has at most the activation of setup().
LEMMA FreshOK ==
  ASSUME NEW s, s = <<>> \/ (\E g \in Frame : g.at = "wait" /\ s = <<g>>),
         NEW n, NEW c, NEW k
  PROVE  StackOK(s, n, c, k)
  <1>1. CASE s = <<>>
    BY <1>1, BoundsOK DEF StackOK
  <1>2. CASE \E g \in Frame : g.at = "wait" /\ s = <<g>>
    <2>1. PICK g \in Frame : g.at = "wait" /\ s = <<g>>
      BY <1>2
    <2>2. s \in Seq(Frame) /\ Len(s) = 1 /\ s[1] = g
      BY <2>1
    <2>3. Holds(s[1], n, c, k)
      BY <2>1, <2>2 DEF Holds
    <2> QED
      BY <2>2, <2>3, BoundsOK DEF StackOK
  <1> QED
    BY <1>1, <1>2

\* Facts about messages in sequences.
LEMMA Messages ==
  ASSUME NEW S
  PROVE  /\ <<>> \in Seq(S)
         /\ \A m \in S : <<m>> \in Seq(S)
         /\ \A s \in Seq(S), m \in S : Append(s, m) \in Seq(S)
         /\ \A s \in Seq(S) : s # <<>> => Head(s) \in S /\ Tail(s) \in Seq(S)
  OBVIOUS

\* mqttEnd keeps the client of a device that listens, or ends the listening.
LEMMA EndOK ==
  ASSUME Inv, MqttEnd(listening)
  PROVE  /\ client' \in BOOLEAN /\ conn' \in BOOLEAN /\ listening' \in BOOLEAN
         /\ ListenerAlive' /\ inbox' \in Seq(1 .. MaxMsg)
  <1>1. CASE listening
    <2>1. UNCHANGED <<client, conn, inbox>> /\ listening' = listening
      BY <1>1 DEF MqttEnd
    <2> QED
      BY <2>1 DEF Inv, FlagsOK, MessagesOK, ListenerAlive
  <1>2. CASE ~listening
    <2>1. ~client' /\ client' \in BOOLEAN /\ conn' = FALSE /\ listening' = listening /\ inbox' = <<>>
      BY <1>2 DEF MqttEnd
    <2>2. ~listening' /\ listening' \in BOOLEAN
      BY <1>2, <2>1 DEF Inv, FlagsOK
    <2> QED
      BY <2>1, <2>2, Messages DEF ListenerAlive
  <1> QED
    BY <1>1, <1>2

LEMMA EndAllOK ==
  ASSUME MqttEnd(FALSE)
  PROVE  /\ client' \in BOOLEAN /\ conn' \in BOOLEAN /\ listening' \in BOOLEAN
         /\ ListenerAlive' /\ inbox' \in Seq(1 .. MaxMsg)
  <1>1. client' = FALSE /\ conn' = FALSE /\ listening' = FALSE /\ inbox' = <<>>
    BY DEF MqttEnd
  <1> QED
    BY <1>1, Messages DEF ListenerAlive

\* Every step keeps the invariant.
LEMMA InvStep == Inv /\ [Next]_vars => Inv'
  <1> SUFFICES ASSUME Inv, [Next]_vars
               PROVE  Inv'
    OBVIOUS
  <1> USE DEF object, broker, history
  <1>0. FlagsOK /\ MessagesOK /\ ListenerAlive /\ StackOK(stack, net, client, conn)
    BY DEF Inv
  <1>t. stack # <<>> => Top \in Frame /\ Holds(Top, net, client, conn)
    BY <1>0, TopFrame
  <1>q. queue # <<>> => Head(queue) \in Cmd /\ Tail(queue) \in Seq(Cmd)
    BY <1>0 DEF MessagesOK
  <1>i. inbox # <<>> => Head(inbox) \in 1 .. MaxMsg /\ Tail(inbox) \in Seq(1 .. MaxMsg)
    BY <1>0, Messages DEF MessagesOK
  <1>e. <<>> \in Seq(1 .. MaxMsg) /\ <<>> \in Seq(Cmd)
    OBVIOUS
  <1>1. CASE NoWifi
    <2>0. MqttEnd(listening) \/ UNCHANGED <<object, inbox>>
      BY <1>1 DEF NoWifi
    <2>1. FlagsOK' /\ ListenerAlive'
      BY <1>0, <1>1, <2>0, EndOK DEF NoWifi, FlagsOK, ListenerAlive
    <2>2. MessagesOK'
      BY <1>0, <1>1, <2>0, EndOK DEF NoWifi, MessagesOK
    <2>3. StackOK(stack', net', client', conn')
      BY <1>1, FinishOK DEF NoWifi, At
    <2> QED
      BY <2>1, <2>2, <2>3 DEF Inv
  <1>2. CASE WifiThere
    <2>1. FlagsOK' /\ ListenerAlive' /\ MessagesOK'
      BY <1>0, <1>2 DEF WifiThere, FlagsOK, ListenerAlive, MessagesOK
    <2> DEFINE p == IF client THEN "connect" ELSE "create"
               f == [Top EXCEPT !.at = p, !.lost = FALSE]
    <2>2. stack # <<>> /\ net /\ stack' = Front(stack) \o <<f>> /\ UNCHANGED <<net, client, conn>>
      BY <1>2 DEF WifiThere, At, HasClient
    <2>3. f \in Frame /\ f.at = p
      BY <1>t, <2>2 DEF Frame
    <2> HIDE DEF f
    <2>4. Holds(f, net, client, conn)
      BY <2>2, <2>3 DEF Holds
    <2>5. StackOK(stack', net', client', conn')
      BY <1>0, <2>2, <2>3, <2>4, ReplacedOK
    <2> QED
      BY <2>1, <2>5 DEF Inv
  <1>3. CASE NewClient
    <2>1. FlagsOK' /\ ListenerAlive'
      BY <1>0, <1>3 DEF NewClient, FlagsOK, ListenerAlive
    <2>2. MessagesOK'
      BY <1>0, <1>3, <1>e DEF NewClient, MessagesOK
    <2>3. stack # <<>> /\ Top.at = "create" /\ GoTo("connect") /\ client' /\ net' = net
      BY <1>3 DEF NewClient, At
    <2>4. Top.lost \/ net'
      BY <1>t, <2>3 DEF Holds
    <2>5. StackOK(stack', net', client', conn')
      BY <2>3, <2>4, GoToOK
    <2> QED
      BY <2>1, <2>2, <2>5 DEF Inv
  <1>4. CASE Reconnect
    <2>1. FlagsOK' /\ ListenerAlive'
      BY <1>0, <1>4 DEF Reconnect, FlagsOK, ListenerAlive
    <2>2. inbox' \in {inbox, RetainedMsg, <<>>}
      BY <1>4 DEF Reconnect
    <2>3. RetainedMsg \in Seq(1 .. MaxMsg)
      <3>1. retained # 0 => retained \in 1 .. MaxMsg
        BY <1>0, BoundsOK DEF MessagesOK
      <3> QED
        BY <3>1, Messages DEF RetainedMsg
    <2>4. MessagesOK'
      BY <1>0, <1>4, <1>e, <2>2, <2>3 DEF Reconnect, MessagesOK
    <2>5. stack # <<>> /\ Top.at = "connect" /\ client' /\ conn' /\ net' = net
      BY <1>4 DEF Reconnect, At
    <2>6. Top.lost \/ net'
      BY <1>t, <2>5 DEF Holds
    <2>7. GoTo("poll") \/ GoTo("publish")
      BY <1>4 DEF Reconnect
    <2>8. StackOK(stack', net', client', conn')
      BY <2>5, <2>6, <2>7, GoToOK
    <2> QED
      BY <2>1, <2>4, <2>8 DEF Inv
  <1>5. CASE ReconnectFails
    <2>1. FlagsOK' /\ ListenerAlive'
      BY <1>0, <1>5 DEF ReconnectFails, MqttEnd, FlagsOK, ListenerAlive
    <2>2. MessagesOK'
      BY <1>0, <1>5, <1>e DEF ReconnectFails, MqttEnd, MessagesOK
    <2>3. StackOK(stack', net', client', conn')
      BY <1>5, FinishOK DEF ReconnectFails, At
    <2> QED
      BY <2>1, <2>2, <2>3 DEF Inv
  <1>6. CASE Listens
    <2>1. FlagsOK' /\ ListenerAlive' /\ MessagesOK'
      BY <1>0, <1>6 DEF Listens, FlagsOK, ListenerAlive, MessagesOK
    <2>2. stack # <<>> /\ Top.at = "poll" /\ GoTo("publish") /\ UNCHANGED <<net, client, conn>>
      BY <1>6 DEF Listens, At
    <2>3. Top.lost \/ (net' /\ client' /\ conn')
      BY <1>t, <2>2 DEF Holds
    <2>4. StackOK(stack', net', client', conn')
      BY <2>2, <2>3, GoToOK
    <2> QED
      BY <2>1, <2>4 DEF Inv
  <1>7. CASE Publish
    <2>0. erased' \in BOOLEAN
      BY <1>0, <1>7 DEF Publish, FlagsOK
    <2>1. FlagsOK' /\ ListenerAlive'
      BY <1>0, <1>7, <2>0 DEF Publish, MqttEnd, FlagsOK, ListenerAlive
    <2>2. retained' \in {0, retained}
      BY <1>7 DEF Publish
    <2>3. retained' \in 0 .. MaxMsg
      BY <1>0, <2>2, BoundsOK DEF MessagesOK
    <2>4. MessagesOK'
      BY <1>0, <1>7, <1>e, <2>3 DEF Publish, MqttEnd, MessagesOK
    <2>5. StackOK(stack', net', client', conn')
      BY <1>7, FinishOK DEF Publish, At
    <2> QED
      BY <2>1, <2>4, <2>5 DEF Inv
  <1>8. CASE Started
    <2>1. FlagsOK' /\ ListenerAlive' /\ MessagesOK'
      BY <1>0, <1>8 DEF Started, FlagsOK, ListenerAlive, MessagesOK
    <2>2. StackOK(stack', net', client', conn')
      BY <1>8, FinishOK DEF Started, At
    <2> QED
      BY <2>1, <2>2 DEF Inv
  <1>9. CASE LoseRam
    <2>0. lost' \in BOOLEAN
      BY <1>9 DEF LoseRam
    <2>1. FlagsOK' /\ ListenerAlive'
      BY <1>0, <1>9, <2>0 DEF LoseRam, FlagsOK, ListenerAlive
    <2>2. MessagesOK'
      BY <1>0, <1>9, <1>e DEF LoseRam, MessagesOK
    <2>3. StackOK(stack', net', client', conn')
      BY <1>9, FreshOK, ActivationOK DEF LoseRam
    <2> QED
      BY <2>1, <2>2, <2>3 DEF Inv
  <1>10. CASE RunPayload
    <2>0. ran' \in BOOLEAN
      BY <1>0, <1>10 DEF RunPayload, Executed, FlagsOK
    <2>1. FlagsOK' /\ ListenerAlive'
      BY <1>0, <1>10, <2>0 DEF RunPayload, FlagsOK, ListenerAlive
    <2>2. <<"item", Head(queue)[2]>> \in Cmd /\ Tail(queue) \in Seq(Cmd)
      BY <1>10, <1>q DEF RunPayload, Cmd
    <2>i. queue' \in Seq(Cmd)
      BY <1>10, <2>2, Messages DEF RunPayload
    <2>3. MessagesOK'
      BY <1>0, <1>10, <2>i DEF RunPayload, MessagesOK
    <2>4. StackOK(stack', net', client', conn')
      BY <1>10, SameStack DEF RunPayload
    <2> QED
      BY <2>1, <2>3, <2>4 DEF Inv
  <1>20. CASE RunItem
    <2>0. ran' \in BOOLEAN
      BY <1>0, <1>20 DEF RunItem, Executed, FlagsOK
    <2>1. FlagsOK' /\ ListenerAlive'
      BY <1>0, <1>20, <2>0 DEF RunItem, FlagsOK, ListenerAlive
    <2>2. MessagesOK'
      BY <1>0, <1>20, <1>q DEF RunItem, MessagesOK
    <2>3. StackOK(stack', net', client', conn')
      BY <1>20, SameStack DEF RunItem
    <2> QED
      BY <2>1, <2>2, <2>3 DEF Inv
  <1>11. CASE RunClear
    <2>1. FlagsOK' /\ ListenerAlive'
      BY <1>0, <1>11 DEF RunClear, FlagsOK, ListenerAlive
    <2>2. MessagesOK'
      BY <1>0, <1>11, <1>q DEF RunClear, MessagesOK
    <2>3. StackOK(stack', net', client', conn')
      BY <1>11, MenuOK, ActivationOK DEF RunClear
    <2> QED
      BY <2>1, <2>2, <2>3 DEF Inv
  <1>12. CASE Loop
    <2>1. CASE conn
      <3>1. /\ inbox # <<>> /\ OnReceive(Head(inbox)) /\ inbox' = Tail(inbox)
            /\ UNCHANGED <<net, listen, object, stack, broker, erased, lost>>
        BY <1>12, <2>1 DEF Loop
      <3>r. ran' \in BOOLEAN
        BY <1>0, <3>1 DEF OnReceive, Executed, FlagsOK
      <3>2. FlagsOK' /\ ListenerAlive'
        BY <1>0, <3>1, <3>r DEF FlagsOK, ListenerAlive
      <3>3. /\ <<<<"run", Head(inbox)>>, <<"clear", 0>>>> \in Seq(Cmd) /\ <<"clear", 0>> \in Cmd
            /\ <<<<"item", Head(inbox)>>, <<"clear", 0>>>> \in Seq(Cmd)
        BY <1>i, <3>1 DEF Cmd
      <3>4. queue' \in Seq(Cmd)
        <4>1. \/ queue' = queue \o <<<<"run", Head(inbox)>>, <<"clear", 0>>>>
              \/ queue' = queue \o <<<<"item", Head(inbox)>>, <<"clear", 0>>>>
              \/ queue' = Append(queue, <<"clear", 0>>)
          BY <3>1 DEF OnReceive
        <4> QED
          BY <1>0, <3>3, <4>1, ConcatProperties, Messages DEF MessagesOK
      <3>5. MessagesOK'
        BY <1>0, <1>i, <3>1, <3>4 DEF MessagesOK
      <3>6. StackOK(stack', net', client', conn')
        BY <3>1, SameStack
      <3> QED
        BY <3>2, <3>5, <3>6 DEF Inv
    <2>2. CASE ~conn
      <3>1. /\ MqttEnd(FALSE)
            /\ stack = <<>> \/ At({"poll"})
            /\ UNCHANGED <<net, listen, stack, queue, broker, history>>
        BY <1>12, <2>2 DEF Loop
      <3>e. /\ client' \in BOOLEAN /\ conn' \in BOOLEAN /\ listening' \in BOOLEAN
            /\ ListenerAlive' /\ inbox' \in Seq(1 .. MaxMsg)
        BY <3>1, EndAllOK
      <3>2. FlagsOK' /\ ListenerAlive'
        BY <1>0, <3>1, <3>e DEF FlagsOK
      <3>3. MessagesOK'
        BY <1>0, <3>1, <3>e DEF MessagesOK
      <3>4. stack # <<>> => Holds(stack[Len(stack)], net', client', conn')
        <4>1. CASE stack # <<>>
          <5>1. Top = stack[Len(stack)] /\ Top.at = "poll"
            BY <1>0, <3>1, <4>1, TopFrame DEF At
          <5>2. Top.lost
            BY <1>t, <2>2, <4>1, <5>1 DEF Holds
          <5> QED
            BY <5>1, <5>2 DEF Holds
        <4> QED
          BY <4>1
      <3>5. StackOK(stack', net', client', conn')
        BY <1>0, <3>1, <3>4 DEF StackOK
      <3> QED
        BY <3>2, <3>3, <3>5 DEF Inv
    <2> QED
      BY <2>1, <2>2
  <1>13. CASE Process
    <2>1. FlagsOK' /\ ListenerAlive' /\ MessagesOK'
      BY <1>0, <1>13 DEF Process, FlagsOK, ListenerAlive, MessagesOK
    <2>2. StackOK(stack', net', client', conn')
      BY <1>13, BeginOK DEF Process, MenuRuns
    <2> QED
      BY <2>1, <2>2 DEF Inv
  <1>21. CASE SendNow
    <2>1. FlagsOK' /\ ListenerAlive' /\ MessagesOK'
      BY <1>0, <1>21 DEF SendNow, FlagsOK, ListenerAlive, MessagesOK
    <2>2. PICK q \in {FALSE, Draining} : BeginProcess(q)
      BY <1>21 DEF SendNow
    <2>3. q \in BOOLEAN
      BY <2>2 DEF Draining
    <2>4. StackOK(stack', net', client', conn')
      BY <1>21, <2>2, <2>3, BeginOK DEF SendNow
    <2> QED
      BY <2>1, <2>4 DEF Inv
  <1>14. CASE CallMqtt
    <2>1. FlagsOK' /\ ListenerAlive' /\ MessagesOK'
      BY <1>0, <1>14 DEF CallMqtt, FlagsOK, ListenerAlive, MessagesOK
    <2>2. PICK q \in {FALSE, Draining} : stack' = Append(stack, Activation("call", q))
      BY <1>14 DEF CallMqtt
    <2>3. q \in BOOLEAN
      BY <2>2 DEF Draining
    <2>4. StackOK(stack', net', client', conn')
      BY <1>14, <2>2, <2>3, MenuOK, ActivationOK DEF CallMqtt
    <2> QED
      BY <2>1, <2>4 DEF Inv
  <1>15. CASE WifiDrops
    <2>1. FlagsOK' /\ ListenerAlive'
      BY <1>0, <1>15 DEF WifiDrops, FlagsOK, ListenerAlive
    <2>2. MessagesOK'
      BY <1>0, <1>15, <1>e DEF WifiDrops, MessagesOK
    <2>3. StackOK(stack', net', client', conn')
      BY <1>0, <1>15, LostOK DEF WifiDrops
    <2> QED
      BY <2>1, <2>2, <2>3 DEF Inv
  <1>16. CASE WifiBack
    <2>1. FlagsOK' /\ ListenerAlive' /\ MessagesOK'
      BY <1>0, <1>16 DEF WifiBack, FlagsOK, ListenerAlive, MessagesOK
    <2>2. StackOK(stack', net', client', conn')
      BY <1>0, <1>16 DEF WifiBack, StackOK, Holds
    <2> QED
      BY <2>1, <2>2 DEF Inv
  <1>17. CASE ConnectionDrops
    <2>1. FlagsOK' /\ ListenerAlive'
      BY <1>0, <1>17 DEF ConnectionDrops, FlagsOK, ListenerAlive
    <2>2. MessagesOK'
      BY <1>0, <1>17, <1>e DEF ConnectionDrops, MessagesOK
    <2>3. StackOK(stack', net', client', conn')
      BY <1>0, <1>17, LostOK DEF ConnectionDrops
    <2> QED
      BY <2>1, <2>2, <2>3 DEF Inv
  <1>18. CASE Command
    <2>1. overlap' \in BOOLEAN
      BY <1>18 DEF Command
    <2>2. FlagsOK' /\ ListenerAlive'
      BY <1>0, <1>18, <2>1 DEF Command, FlagsOK, ListenerAlive
    <2>3. published' \in 1 .. MaxMsg
      BY <1>0, <1>18, BoundsOK DEF Command, MessagesOK
    <2>4. inbox' \in Seq(1 .. MaxMsg)
      BY <1>0, <1>18, <2>3, Messages DEF Command, MessagesOK
    <2>5. MessagesOK'
      BY <1>0, <1>18, <2>3, <2>4 DEF Command, MessagesOK
    <2>6. StackOK(stack', net', client', conn')
      BY <1>18, SameStack DEF Command
    <2> QED
      BY <2>2, <2>5, <2>6 DEF Inv
  <1>19. CASE UNCHANGED vars
    <2>1. FlagsOK' /\ ListenerAlive' /\ MessagesOK'
      BY <1>0, <1>19 DEF vars, FlagsOK, ListenerAlive, MessagesOK
    <2>2. StackOK(stack', net', client', conn')
      BY <1>19, SameStack DEF vars
    <2> QED
      BY <2>1, <2>2 DEF Inv
  <1> QED
    BY <1>1, <1>2, <1>3, <1>4, <1>5, <1>6, <1>7, <1>8, <1>9, <1>10, <1>11, <1>12, <1>13, <1>14,
       <1>15, <1>16, <1>17, <1>18, <1>19, <1>20, <1>21
    DEF Next, Thread, Menu, Outside, Crash, Reset

\* So it holds throughout every behaviour.
LEMMA InvAlways == Spec => []Inv
  <1>1. ASSUME Init
        PROVE  Inv
    <2>1. FlagsOK /\ ListenerAlive
      BY <1>1 DEF Init, FlagsOK, ListenerAlive
    <2>2. MessagesOK
      BY <1>1, BoundsOK DEF Init, MessagesOK
    <2>3. StackOK(stack, net, client, conn)
      BY <1>1, FreshOK, ActivationOK DEF Init
    <2> QED
      BY <2>1, <2>2, <2>3 DEF Inv
  <1> QED
    BY <1>1, InvStep, PTL DEF Spec

\* Type correctness of the client, its activations, the queue and the broker.
THEOREM TypeCorrect == Spec => []TypeOK
  <1>1. Inv => TypeOK
    BY DEF Inv, FlagsOK, MessagesOK, StackOK, TypeOK, Cmd
  <1> QED
    BY <1>1, InvAlways, PTL

\* A listening device has its client, and an activation (process, call_mqtt, the
\* clearing of a command) that has not lost its connection finds the client it
\* looked for, whatever the menu ran in the waits of mqttStart.
THEOREM ClientAlwaysThere == Spec => []ClientThere
  <1>1. ASSUME Inv
        PROVE  ClientThere
    <2>1. ASSUME NullClient
          PROVE  Top.lost
      <3>1. stack # <<>> /\ Top.at \in {"connect", "publish"} /\ ~client
        BY <2>1 DEF NullClient, At
      <3>2. Holds(Top, net, client, conn)
        BY <1>1, <3>1, TopFrame DEF Inv
      <3> QED
        BY <3>1, <3>2 DEF Holds
    <2> QED
      BY <1>1, <2>1 DEF Inv, ClientThere
  <1> QED
    BY <1>1, InvAlways, PTL

-----------------------------------------------------------------------------
\* A command is executed before it is erased.

NoClear(s) == \A i \in 1 .. Len(s) : s[i].op # "clear"

Run == <<"run", published>>
Item == <<"item", published>>
Clear == <<"clear", 0>>

\* The last command published was executed, or its items are or were in the queue.
Handled == ran \/ Waits(published) \/ lost

\* Until commands overlap, everything under way is about the last one published,
\* and nothing erases it before it was handled.
OneAtATime ==
  overlap \/
    /\ erased => Handled
    /\ retained \in {0, published}
    /\ \A i \in DOMAIN inbox : inbox[i] = published
    /\ \A i \in DOMAIN queue : queue[i] \in {Run, Item, Clear}
    /\ \/ Handled
       \/ (queue # <<>> => Head(queue) = Run) /\ NoClear(stack)

LEMMA NoClearFront ==
  ASSUME NEW s \in Seq(Frame), s # <<>>, NoClear(s)
  PROVE  NoClear(Front(s))
  <1>1. Len(Front(s)) = Len(s) - 1 /\ \A i \in 1 .. Len(s) - 1 : Front(s)[i] = s[i]
    BY Fronts
  <1>2. Len(s) \in Nat
    OBVIOUS
  <1>3. \A i \in 1 .. Len(s) - 1 : i \in 1 .. Len(s)
    BY <1>2
  <1> QED
    BY <1>1, <1>3, Zenon DEF NoClear

LEMMA NoClearReplaced ==
  ASSUME NEW s \in Seq(Frame), s # <<>>, NoClear(s), NEW f \in Frame, f.op # "clear"
  PROVE  NoClear(Front(s) \o <<f>>)
  <1> DEFINE t == Front(s) \o <<f>>
  <1>1. Len(t) = Len(s) /\ (\A i \in 1 .. Len(s) - 1 : t[i] = s[i]) /\ t[Len(s)] = f
    BY Replaced
  <1>2. Len(s) \in Nat
    OBVIOUS
  <1> HIDE DEF t
  <1>3. \A i \in 1 .. Len(s) : i \in 1 .. Len(s) - 1 \/ i = Len(s)
    BY <1>2
  <1>4. \A i \in 1 .. Len(t) : t[i].op # "clear"
    BY <1>1, <1>3 DEF NoClear
  <1> QED
    BY <1>4 DEF NoClear, t

LEMMA NoClearPushed ==
  ASSUME NEW s \in Seq(Frame), NoClear(s), NEW f \in Frame, f.op # "clear"
  PROVE  NoClear(Append(s, f))
  <1> DEFINE t == Append(s, f)
  <1>1. Len(t) = Len(s) + 1 /\ (\A i \in 1 .. Len(s) : t[i] = s[i]) /\ t[Len(s) + 1] = f /\ Len(s) \in Nat
    OBVIOUS
  <1> HIDE DEF t
  <1>2. \A i \in 1 .. Len(s) + 1 : i \in 1 .. Len(s) \/ i = Len(s) + 1
    BY <1>1
  <1>3. \A i \in 1 .. Len(t) : t[i].op # "clear"
    BY <1>1, <1>2 DEF NoClear
  <1> QED
    BY <1>3 DEF NoClear, t

LEMMA NoClearFresh ==
  /\ NoClear(<<>>)
  /\ \A op \in {"setup", "first", "process"}, q \in BOOLEAN : NoClear(<<Activation(op, q)>>)
  BY DEF NoClear, Activation

LEMMA NoClearTop ==
  ASSUME Inv, stack # <<>>, NoClear(stack)
  PROVE  stack \in Seq(Frame) /\ Top \in Frame /\ Top.op # "clear"
  <1>1. StackOK(stack, net, client, conn)
    BY DEF Inv
  <1>2. Len(stack) \in 1 .. Len(stack) /\ Top = stack[Len(stack)] /\ Top \in Frame
    BY <1>1, TopFrame
  <1> QED
    BY <1>1, <1>2 DEF NoClear, StackOK

LEMMA NoClearGoTo ==
  ASSUME Inv, stack # <<>>, NoClear(stack), NEW p \in {"create", "connect", "poll", "publish"},
         NEW b \in BOOLEAN, stack' = Front(stack) \o <<[Top EXCEPT !.at = p, !.lost = b]>>
  PROVE  NoClear(stack')
  <1> DEFINE f == [Top EXCEPT !.at = p, !.lost = b]
  <1>1. stack \in Seq(Frame) /\ Top \in Frame /\ Top.op # "clear"
    BY NoClearTop
  <1>2. f \in Frame /\ f.op = Top.op
    BY <1>1 DEF Frame
  <1> HIDE DEF f
  <1>3. NoClear(Front(stack) \o <<f>>)
    BY <1>1, <1>2, NoClearReplaced
  <1> QED
    BY <1>3 DEF f

LEMMA NoClearGoes ==
  ASSUME Inv, stack # <<>>, NoClear(stack), NEW p \in {"create", "connect", "poll", "publish"}, GoTo(p)
  PROVE  NoClear(stack')
  <1> DEFINE f == [Top EXCEPT !.at = p]
  <1>1. stack \in Seq(Frame) /\ Top \in Frame /\ Top.op # "clear"
    BY NoClearTop
  <1>2. f \in Frame /\ f.op = Top.op
    BY <1>1 DEF Frame
  <1>3. stack' = Front(stack) \o <<f>>
    BY DEF GoTo
  <1> HIDE DEF f
  <1> QED
    BY <1>1, <1>2, <1>3, NoClearReplaced

LEMMA NoClearFinish ==
  ASSUME Inv, stack # <<>>, NoClear(stack), Finish
  PROVE  NoClear(stack')
  <1>1. stack \in Seq(Frame)
    BY NoClearTop
  <1>2. CASE stack' = Front(stack) \o <<Activation("process", Top.queued)>>
    <2>1. Top \in Frame
      BY NoClearTop
    <2>2. /\ Activation("process", Top.queued) \in Frame
          /\ Activation("process", Top.queued).op # "clear"
      BY <2>1 DEF Activation, Frame
    <2> QED
      BY <1>1, <1>2, <2>2, NoClearReplaced
  <1>3. CASE stack' = Front(stack)
    BY <1>1, <1>3, NoClearFront
  <1> QED
    BY <1>2, <1>3 DEF Finish

\* Nothing but RunClear begins an activation that erases.
LEMMA OnlyRunClear ==
  ASSUME Inv, [Next]_vars, ~RunClear, NoClear(stack)
  PROVE  NoClear(stack')
  <1>1. CASE NoWifi \/ ReconnectFails \/ Publish \/ Started
    BY <1>1, NoClearFinish DEF NoWifi, ReconnectFails, Publish, Started, At
  <1>2. CASE WifiThere
    BY <1>2, NoClearGoTo DEF WifiThere, At
  <1>3. CASE NewClient \/ Listens
    BY <1>3, NoClearGoes DEF NewClient, Listens, At
  <1>4. CASE Reconnect
    <2>1. stack # <<>> /\ (GoTo("poll") \/ GoTo("publish"))
      BY <1>4 DEF Reconnect, At
    <2> QED
      BY <2>1, NoClearGoes
  <1>5. CASE LoseRam
    BY <1>5, NoClearFresh DEF LoseRam
  <1>6. CASE Process \/ SendNow
    <2>1. PICK q \in BOOLEAN : BeginProcess(q)
      BY <1>6 DEF Process, SendNow, Draining
    <2>2. PICK op \in {"first", "process"} : stack' = Append(stack, Activation(op, q))
      BY <2>1 DEF BeginProcess
    <2>3. Activation(op, q) \in Frame /\ Activation(op, q).op # "clear"
      BY DEF Activation, Frame
    <2>4. stack \in Seq(Frame)
      BY DEF Inv, StackOK
    <2> QED
      BY <2>2, <2>3, <2>4, NoClearPushed
  <1>7. CASE CallMqtt
    <2>1. PICK q \in {FALSE, Draining} : stack' = Append(stack, Activation("call", q))
      BY <1>7 DEF CallMqtt
    <2>2. q \in BOOLEAN
      BY <2>1 DEF Draining
    <2>3. Activation("call", q) \in Frame /\ Activation("call", q).op # "clear"
      BY <2>2 DEF Activation, Frame
    <2>4. stack \in Seq(Frame)
      BY DEF Inv, StackOK
    <2> QED
      BY <2>1, <2>3, <2>4, NoClearPushed
  <1>8. CASE Lose
    <2>1. stack \in Seq(Frame) /\ Len(stack) \in Nat
      BY DEF Inv, StackOK
    <2>2. stack' = [i \in 1 .. Len(stack) |-> [stack[i] EXCEPT !.lost = TRUE]]
      BY <1>8 DEF Lose
    <2>3. Len(stack') = Len(stack)
      BY <2>1, <2>2
    <2>4. ASSUME NEW i \in 1 .. Len(stack)
          PROVE  stack'[i].op = stack[i].op
      <3>1. stack[i] \in Frame
        BY <2>1
      <3>2. stack'[i] = [stack[i] EXCEPT !.lost = TRUE]
        BY <2>2
      <3> QED
        BY <3>1, <3>2 DEF Frame
    <2> QED
      BY <2>3, <2>4 DEF NoClear
  <1>9. CASE UNCHANGED stack
    BY <1>9
  <1> QED
    BY <1>1, <1>2, <1>3, <1>4, <1>5, <1>6, <1>7, <1>8, <1>9
    DEF Next, Thread, Menu, Outside, Crash, Reset, RunPayload, RunItem, Loop, WifiDrops, WifiBack,
        ConnectionDrops, Command, vars

\* The steps that change no command, at most what is on its way to the client.
LEMMA Quietly ==
  ASSUME Inv, OneAtATime, ~overlap, [Next]_vars, ~RunClear,
         UNCHANGED <<queue, retained, published, overlap, history>>,
         inbox' \in {inbox, <<>>, RetainedMsg}
  PROVE  OneAtATime'
  <1>1. \A i \in DOMAIN inbox' : inbox'[i] = published
    <2>1. CASE inbox' = inbox
      BY <2>1 DEF OneAtATime
    <2>2. CASE inbox' = <<>>
      BY <2>2
    <2>3. CASE inbox' = RetainedMsg
      BY <2>3 DEF OneAtATime, RetainedMsg
    <2> QED
      BY <2>1, <2>2, <2>3
  <1>2. NoClear(stack) => NoClear(stack')
    BY OnlyRunClear
  <1>3. Handled' = Handled /\ Run' = Run /\ Item' = Item /\ Clear' = Clear
    BY DEF Handled, Waits, Run, Item, Clear, history
  <1>4. (queue # <<>> => Head(queue) = Run) => (queue' # <<>> => Head(queue') = Run')
    BY <1>3
  <1> QED
    BY <1>1, <1>2, <1>3, <1>4 DEF OneAtATime, history

LEMMA ShiftedQueue ==
  ASSUME NEW S, NEW T, NEW s \in Seq(S), s # <<>>, \A i \in DOMAIN s : s[i] \in T
  PROVE  Head(s) \in T /\ \A i \in DOMAIN Tail(s) : Tail(s)[i] \in T
  <1>1. Len(s) \in Nat /\ Len(s) >= 1 /\ DOMAIN s = 1 .. Len(s) /\ Head(s) = s[1]
    OBVIOUS
  <1>2. Tail(s) \in Seq(S) /\ Len(Tail(s)) = Len(s) - 1 /\ \A i \in 1 .. Len(s) - 1 : Tail(s)[i] = s[i + 1]
    OBVIOUS
  <1>3. DOMAIN Tail(s) = 1 .. Len(s) - 1
    BY <1>2
  <1> QED
    BY <1>1, <1>2, <1>3

LEMMA Scheduled ==
  ASSUME NEW S, NEW s \in Seq(S), NEW u \in Seq(S), u # <<>>, NEW T,
         \A i \in DOMAIN s : s[i] \in T, \A i \in DOMAIN u : u[i] \in T
  PROVE  /\ \A i \in DOMAIN (s \o u) : (s \o u)[i] \in T
         /\ Head(s \o u) = IF s = <<>> THEN Head(u) ELSE Head(s)
         /\ \A i \in DOMAIN s : i \in DOMAIN (s \o u) /\ (s \o u)[i] = s[i]
  <1>1. /\ s \o u \in Seq(S) /\ Len(s \o u) = Len(s) + Len(u)
        /\ \A i \in 1 .. Len(s) + Len(u) :
             (s \o u)[i] = IF i <= Len(s) THEN s[i] ELSE u[i - Len(s)]
    BY ConcatProperties
  <1>2. /\ Len(s) \in Nat /\ DOMAIN s = 1 .. Len(s) /\ Len(u) \in Nat /\ DOMAIN u = 1 .. Len(u)
        /\ Len(u) >= 1 /\ Head(u) = u[1] /\ (s # <<>> => Len(s) >= 1 /\ Head(s) = s[1])
    OBVIOUS
  <1> DEFINE v == s \o u
  <1>3. DOMAIN v = 1 .. Len(s) + Len(u) /\ Head(v) = v[1]
    BY <1>1, <1>2
  <1>4. \A i \in 1 .. Len(s) + Len(u) : v[i] = IF i <= Len(s) THEN s[i] ELSE u[i - Len(s)]
    BY <1>1
  <1> HIDE DEF v
  <1>5. ASSUME NEW i \in 1 .. Len(s) + Len(u)
        PROVE  v[i] \in T
    <2>1. CASE i <= Len(s)
      BY <1>2, <1>4, <2>1
    <2>2. CASE ~(i <= Len(s))
      <3>1. i - Len(s) \in 1 .. Len(u)
        BY <1>2, <2>2
      <3>2. v[i] = u[i - Len(s)]
        BY <1>4, <2>2
      <3> QED
        BY <1>2, <3>1, <3>2
    <2> QED
      BY <2>1, <2>2
  <1>6. v[1] = IF s = <<>> THEN u[1] ELSE s[1]
    <2>1. CASE s = <<>>
      BY <1>2, <1>4, <2>1
    <2>2. CASE s # <<>>
      BY <1>2, <1>4, <2>2
    <2> QED
      BY <2>1, <2>2
  <1>7. \A i \in 1 .. Len(s) : i \in 1 .. Len(s) + Len(u) /\ v[i] = s[i]
    BY <1>2, <1>4
  <1> QED
    BY <1>2, <1>3, <1>5, <1>6, <1>7 DEF v

LEMMA HeadBehind ==
  ASSUME NEW S, NEW s \in Seq(S), NEW u \in Seq(S), u # <<>>
  PROVE  \E i \in DOMAIN (s \o u) : (s \o u)[i] = Head(u)
  <1>1. /\ s \o u \in Seq(S) /\ Len(s \o u) = Len(s) + Len(u)
        /\ \A i \in 1 .. Len(s) + Len(u) :
             (s \o u)[i] = IF i <= Len(s) THEN s[i] ELSE u[i - Len(s)]
    BY ConcatProperties
  <1>2. Len(s) \in Nat /\ Len(u) \in Nat /\ Len(u) >= 1 /\ Head(u) = u[1]
    OBVIOUS
  <1>3. Len(s) + 1 \in 1 .. Len(s) + Len(u) /\ (s \o u)[Len(s) + 1] = u[1]
    BY <1>1, <1>2
  <1> QED
    BY <1>1, <1>2, <1>3

LEMMA PutBehind ==
  ASSUME NEW S, NEW s \in Seq(S), NEW x \in S, NEW T, x \in T, \A i \in DOMAIN s : s[i] \in T
  PROVE  /\ \A i \in DOMAIN Append(s, x) : Append(s, x)[i] \in T
         /\ \E i \in DOMAIN Append(s, x) : Append(s, x)[i] = x
  <1>1. /\ Len(s) \in Nat /\ DOMAIN s = 1 .. Len(s)
        /\ DOMAIN Append(s, x) = 1 .. Len(s) + 1
        /\ \A i \in 1 .. Len(s) : Append(s, x)[i] = s[i]
        /\ Append(s, x)[Len(s) + 1] = x
    OBVIOUS
  <1>2. \A i \in 1 .. Len(s) + 1 : i \in 1 .. Len(s) \/ i = Len(s) + 1
    BY <1>1
  <1> QED
    BY <1>1, <1>2

LEMMA StillInTail ==
  ASSUME NEW S, NEW s \in Seq(S), NEW x, \E i \in DOMAIN s : s[i] = x, Head(s) # x
  PROVE  \E i \in DOMAIN Tail(s) : Tail(s)[i] = x
  <1>1. PICK i \in DOMAIN s : s[i] = x
    OBVIOUS
  <1>2. s # <<>> /\ Len(s) \in Nat /\ i \in 1 .. Len(s) /\ Head(s) = s[1]
    OBVIOUS
  <1>3. i - 1 \in 1 .. Len(s) - 1
    BY <1>1, <1>2
  <1>4. /\ Len(Tail(s)) = Len(s) - 1 /\ DOMAIN Tail(s) = 1 .. Len(s) - 1
        /\ \A k \in 1 .. Len(s) - 1 : Tail(s)[k] = s[k + 1]
    BY <1>2
  <1>5. Tail(s)[i - 1] = x
    BY <1>1, <1>2, <1>3, <1>4
  <1> QED
    BY <1>3, <1>4, <1>5

LEMMA OneStep == Inv /\ OneAtATime /\ [Next]_vars => OneAtATime'
  <1> SUFFICES ASSUME Inv, OneAtATime, [Next]_vars
               PROVE  OneAtATime'
    OBVIOUS
  <1> USE DEF object, broker
  <1> DEFINE T == {Run, Item, Clear}
  <1>0. /\ queue \in Seq(Cmd) /\ inbox \in Seq(1 .. MaxMsg)
        /\ published \in 0 .. MaxMsg /\ retained \in 0 .. MaxMsg
        /\ ran \in BOOLEAN /\ lost \in BOOLEAN
    BY DEF Inv, MessagesOK, FlagsOK
  <1>k. Run[1] = "run" /\ Item[1] = "item" /\ Clear[1] = "clear" /\ Run[2] = published /\ Item[2] = published
    BY DEF Run, Item, Clear
  <1>1. CASE overlap
    <2>1. overlap'
      BY <1>1 DEF Next, Thread, Menu, Outside, Crash, Reset, LoseRam, RunPayload, RunItem, RunClear, Loop,
           Process, SendNow, CallMqtt, NoWifi, WifiThere, NewClient, Reconnect, ReconnectFails, Listens,
           Publish, Started, WifiDrops, WifiBack, ConnectionDrops, Command, vars
    <2> QED
      BY <2>1 DEF OneAtATime
  <1>2. CASE ~overlap
    <2>0. /\ erased => Handled
          /\ retained \in {0, published}
          /\ \A i \in DOMAIN inbox : inbox[i] = published
          /\ \A i \in DOMAIN queue : queue[i] \in T
          /\ \/ Handled
             \/ (queue # <<>> => Head(queue) = Run) /\ NoClear(stack)
      BY <1>2 DEF OneAtATime
    <2>q. queue # <<>> => Head(queue) \in T /\ \A i \in DOMAIN Tail(queue) : Tail(queue)[i] \in T
      BY <1>0, <2>0, ShiftedQueue
    <2>t. queue # <<>> => Tail(queue) \in Seq(Cmd)
      BY <1>0
    <2>w. Waits(published) = (\E i \in DOMAIN queue : queue[i] = Item)
      BY DEF Waits, Item
    \* What handled the command still has, and then OneAtATime holds.
    <2>h. ASSUME Handled', UNCHANGED <<published, retained>>, inbox' = inbox \/ inbox' = <<>>,
                 \A i \in DOMAIN queue' : queue'[i] \in T
          PROVE  OneAtATime'
      <3>1. Run' = Run /\ Item' = Item /\ Clear' = Clear
        BY <2>h DEF Run, Item, Clear
      <3>2. \A i \in DOMAIN inbox' : inbox'[i] = published'
        BY <2>0, <2>h
      <3> QED
        BY <2>0, <2>h, <3>1, <3>2 DEF OneAtATime
    <2> HIDE DEF T
    <2>1. CASE RunPayload
      <3>1. /\ queue # <<>> /\ Head(queue)[1] = "run"
            /\ UNCHANGED <<inbox, published, retained>>
        BY <2>1 DEF RunPayload
      <3>2. Head(queue) = Run
        BY <1>k, <2>q, <3>1 DEF T
      <3>3. CASE published \in Lists
        <4>1. queue' = Append(Tail(queue), Item)
          BY <1>k, <2>1, <3>2, <3>3 DEF RunPayload, Item
        <4>2. Item \in Cmd /\ Item \in T
          <5>1. Run \in Cmd
            BY <1>0, <3>1, <3>2, Messages
          <5> QED
            BY <5>1 DEF T, Run, Item, Cmd
        <4>3. /\ \A i \in DOMAIN queue' : queue'[i] \in T
              /\ \E i \in DOMAIN queue' : queue'[i] = Item
          BY <2>q, <2>t, <3>1, <4>1, <4>2, PutBehind
        <4>4. Handled'
          BY <3>1, <4>3 DEF Handled, Waits, Item
        <4> QED
          BY <2>h, <3>1, <4>3, <4>4
      <3>4. CASE published \notin Lists
        <4>1. queue' = Tail(queue) /\ ran'
          BY <1>k, <2>1, <3>2, <3>4 DEF RunPayload, Executed
        <4> QED
          BY <2>q, <2>h, <3>1, <4>1 DEF Handled
      <3> QED
        BY <3>3, <3>4
    <2>2. CASE RunItem
      <3>1. /\ queue # <<>> /\ Head(queue)[1] = "item" /\ Executed(Head(queue)[2])
            /\ queue' = Tail(queue) /\ UNCHANGED <<inbox, published, retained>>
        BY <2>2 DEF RunItem
      <3>2. Head(queue) = Item
        BY <1>k, <2>q, <3>1 DEF T
      <3>3. ran'
        BY <1>k, <3>1, <3>2 DEF Executed
      <3> QED
        BY <2>q, <2>h, <3>1, <3>3 DEF Handled
    <2>3. CASE RunClear
      <3>1. /\ queue # <<>> /\ Head(queue)[1] = "clear"
            /\ queue' = Tail(queue) /\ UNCHANGED <<inbox, published, retained, history>>
        BY <2>3 DEF RunClear
      <3>2. Head(queue) # Run /\ Head(queue) # Item
        BY <1>k, <3>1
      <3>3. Handled
        BY <2>0, <3>1, <3>2
      <3>4. Waits(published) => Waits(published)'
        <4>1. SUFFICES ASSUME \E i \in DOMAIN queue : queue[i] = Item
                       PROVE  \E i \in DOMAIN queue' : queue'[i] = Item
          BY <2>w, <3>1 DEF Waits, Item
        <4>2. \E i \in DOMAIN Tail(queue) : Tail(queue)[i] = Item
          BY <1>0, <3>2, <4>1, StillInTail
        <4> QED
          BY <3>1, <4>2
      <3>5. Handled'
        BY <3>1, <3>3, <3>4 DEF Handled, history
      <3> QED
        BY <2>q, <2>h, <3>1, <3>5
    <2>4. CASE Loop /\ conn
      <3> DEFINE m == Head(inbox)
      <3>1. /\ inbox # <<>> /\ OnReceive(m) /\ inbox' = Tail(inbox)
            /\ UNCHANGED <<stack, broker, erased, lost>>
        BY <2>4 DEF Loop
      <3>2. m \in {published} /\ \A i \in DOMAIN Tail(inbox) : Tail(inbox)[i] \in {published}
        BY <1>0, <2>0, <3>1, ShiftedQueue
      <3>3. m = published /\ m \in 1 .. MaxMsg
        BY <1>0, <3>1, <3>2, Messages
      <3> HIDE DEF m
      <3>4. {Run, Item, Clear} \subseteq T /\ {Run, Item, Clear} \subseteq Cmd
        BY <3>3 DEF T, Cmd, Run, Item, Clear
      <3>5. PICK u \in {<<Run, Clear>>, <<Item, Clear>>, <<Clear>>} :
              /\ queue' = queue \o u
              /\ (u \in {<<Run, Clear>>, <<Item, Clear>>} /\ ran' = ran) \/ ran'
        <4>1. CASE queue' = queue \o <<Run, Clear>> /\ ran' = ran
          BY <4>1
        <4>2. CASE queue' = queue \o <<Item, Clear>> /\ ran' = ran
          BY <4>2
        <4>3. CASE queue' = Append(queue, Clear) /\ ran'
          <5>1. queue' = queue \o <<Clear>>
            BY <1>0, <3>4, <4>3
          <5> QED
            BY <4>3, <5>1
        <4> QED
          BY <3>1, <3>3, <4>1, <4>2, <4>3 DEF OnReceive, Executed, Run, Item, Clear
      <3>6. u \in Seq(Cmd) /\ u # <<>> /\ \A i \in DOMAIN u : u[i] \in T
        <4>1. CASE u = <<Run, Clear>>
          BY <3>4, <4>1
        <4>2. CASE u = <<Item, Clear>>
          BY <3>4, <4>2
        <4>3. CASE u = <<Clear>>
          BY <3>4, <4>3
        <4> QED
          BY <3>5, <4>1, <4>2, <4>3
      <3>7. /\ \A i \in DOMAIN queue' : queue'[i] \in T
            /\ Head(queue') = IF queue = <<>> THEN Head(u) ELSE Head(queue)
            /\ \A i \in DOMAIN queue : i \in DOMAIN queue' /\ queue'[i] = queue[i]
            /\ \E i \in DOMAIN queue' : queue'[i] = Head(u)
        <4>1. queue' = queue \o u
          BY <3>5
        <4>2. queue \in Seq(Cmd) /\ \A i \in DOMAIN queue : queue[i] \in T
          BY <1>0, <2>0
        <4>3. /\ \A i \in DOMAIN (queue \o u) : (queue \o u)[i] \in T
              /\ Head(queue \o u) = IF queue = <<>> THEN Head(u) ELSE Head(queue)
              /\ \A i \in DOMAIN queue : i \in DOMAIN (queue \o u) /\ (queue \o u)[i] = queue[i]
          BY <3>6, <4>2, Scheduled
        <4>4. \E i \in DOMAIN (queue \o u) : (queue \o u)[i] = Head(u)
          BY <3>6, <4>2, HeadBehind
        <4> QED
          BY <4>1, <4>3, <4>4
      <3>8. Waits(published) => Waits(published)'
        BY <3>1, <3>7 DEF Waits
      <3>9. ran => ran'
        BY <3>5
      <3>10. Handled => Handled'
        BY <3>1, <3>8, <3>9 DEF Handled
      <3>11. Handled' \/ ((queue' # <<>> => Head(queue') = Run) /\ NoClear(stack))
        <4>1. CASE u = <<Run, Clear>>
          <5>1. Head(u) = Run
            BY <4>1
          <5> QED
            BY <2>0, <3>7, <3>10, <5>1
        <4>2. CASE u = <<Item, Clear>>
          <5>1. Head(u) = Item
            BY <4>2
          <5> QED
            BY <3>1, <3>7, <5>1 DEF Handled, Waits, Item
        <4>3. CASE ran'
          BY <4>3 DEF Handled
        <4> QED
          BY <3>5, <4>1, <4>2, <4>3
      <3>12. Run' = Run /\ Item' = Item /\ Clear' = Clear
        BY <3>1 DEF Run, Item, Clear
      <3> QED
        BY <2>0, <3>1, <3>2, <3>7, <3>10, <3>11, <3>12 DEF OneAtATime, T
    <2>5. CASE Publish
      <3>1. /\ stack # <<>> /\ UNCHANGED <<queue, published, overlap, ran, lost>>
            /\ inbox' \in {inbox, <<>>}
        BY <2>5 DEF Publish, At, MqttEnd
      <3>2. CASE Top.op = "clear" /\ conn
        <4>1. retained' = 0
          BY <2>5, <3>2 DEF Publish
        <4>2. ~NoClear(stack)
          BY <3>1, <3>2, NoClearTop
        <4>3. Handled
          BY <2>0, <4>2
        <4>4. Handled' /\ Run' = Run /\ Item' = Item /\ Clear' = Clear
          BY <3>1, <4>3 DEF Handled, Waits, Run, Item, Clear
        <4>5. \A i \in DOMAIN inbox' : inbox'[i] = published'
          BY <2>0, <3>1
        <4>6. \A i \in DOMAIN queue' : queue'[i] \in {Run', Item', Clear'}
          BY <2>0, <3>1, <4>4 DEF T
        <4> QED
          BY <4>1, <4>4, <4>5, <4>6 DEF OneAtATime
      <3>3. CASE ~(Top.op = "clear" /\ conn)
        <4>1. UNCHANGED <<retained, history>>
          BY <2>5, <3>1, <3>3 DEF Publish, history
        <4>2. ASSUME RunClear
              PROVE  FALSE
          <5>1. queue' = Tail(queue) /\ queue # <<>>
            BY <4>2 DEF RunClear
          <5>2. Len(Tail(queue)) # Len(queue)
            BY <1>0, <5>1
          <5> QED
            BY <3>1, <5>1, <5>2
        <4> QED
          BY <1>2, <3>1, <4>1, <4>2, Quietly
      <3> QED
        BY <3>2, <3>3
    <2>6. CASE LoseRam
      <3>1. /\ queue' = <<>> /\ inbox' = <<>> /\ UNCHANGED <<broker, ran, erased>>
            /\ lost' = (lost \/ (erased /\ Waits(published)))
        BY <2>6 DEF LoseRam
      <3>2. NoClear(stack')
        BY <2>6, NoClearFresh DEF LoseRam
      <3>3. erased' => ran' \/ lost'
        BY <2>0, <3>1 DEF Handled
      <3>4. erased' => Handled'
        BY <3>3 DEF Handled
      <3> QED
        BY <2>0, <3>1, <3>2, <3>4 DEF OneAtATime
    <2>7. CASE Command
      <3>1. /\ published' = published + 1 /\ retained' = published' /\ ~erased'
            /\ overlap' = (overlap \/ retained # 0 \/ queue # <<>> \/ inbox # <<>>
                           \/ \E i \in 1 .. Len(stack) : stack[i].op = "clear")
            /\ inbox' = IF conn /\ listening THEN Append(inbox, published') ELSE inbox
            /\ UNCHANGED <<stack, queue>>
        BY <2>7 DEF Command
      <3>2. CASE overlap'
        BY <3>2 DEF OneAtATime
      <3>3. CASE ~overlap'
        <4>1. queue = <<>> /\ inbox = <<>> /\ NoClear(stack)
          BY <3>1, <3>3 DEF NoClear
        <4>2. inbox' \in {<<>>, <<published'>>}
          BY <3>1, <4>1
        <4>3. \A i \in DOMAIN inbox' : inbox'[i] = published'
          BY <4>2
        <4>4. queue' = <<>> /\ NoClear(stack') /\ retained' \in {0, published'}
          BY <3>1, <4>1
        <4>5. \A i \in DOMAIN queue' : queue'[i] \in {Run', Item', Clear'}
          BY <4>4
        <4> QED
          BY <3>1, <4>3, <4>4, <4>5 DEF OneAtATime
      <3> QED
        BY <3>2, <3>3
    <2>8. CASE /\ UNCHANGED <<queue, retained, published, overlap, history>>
               /\ inbox' \in {inbox, <<>>, RetainedMsg}
               /\ ~RunClear
      BY <1>2, <2>8, Quietly
    <2>9. CASE RunClear \/ ~RunClear
      <3>1. CASE NoWifi
        BY <2>3, <2>8, <3>1 DEF NoWifi, MqttEnd
      <3>2. CASE WifiThere \/ NewClient \/ Listens \/ Started \/ Process \/ SendNow \/ CallMqtt
        BY <2>3, <2>8, <3>2 DEF WifiThere, NewClient, Listens, Started, Process, SendNow, CallMqtt
      <3>3. CASE Reconnect
        BY <2>3, <2>8, <3>3 DEF Reconnect
      <3>4. CASE ReconnectFails
        BY <2>3, <2>8, <3>4 DEF ReconnectFails, MqttEnd
      <3>5. CASE Loop /\ ~conn
        BY <2>3, <2>8, <3>5 DEF Loop, MqttEnd, history
      <3>6. CASE WifiDrops \/ WifiBack \/ ConnectionDrops
        BY <2>3, <2>8, <3>6 DEF WifiDrops, WifiBack, ConnectionDrops
      <3>7. CASE UNCHANGED vars
        BY <2>3, <2>8, <3>7 DEF vars
      <3> QED
        BY <2>1, <2>2, <2>3, <2>4, <2>5, <2>6, <2>7, <3>1, <3>2, <3>3, <3>4, <3>5, <3>6, <3>7
        DEF Next, Thread, Menu, Outside, Crash, Reset
    <2> QED
      BY <2>9
  <1> QED
    BY <1>1, <1>2

\* A command is erased from the broker only after it was executed, or, if it is a
\* list or a crc command, after its items were queued, whatever is lost or
\* restarted in between and as long as commands do not overlap: onReceive
\* schedules the one that erases behind the one that runs, but before what that
\* one schedules.
THEOREM NeverErasedUnrun == Spec => []ErasedAfterRun
  <1>1. ASSUME Init
        PROVE  OneAtATime
    <2>1. ~erased /\ retained = 0 /\ inbox = <<>> /\ queue = <<>>
      BY <1>1 DEF Init
    <2>2. NoClear(stack)
      BY <1>1, NoClearFresh DEF Init
    <2> QED
      BY <2>1, <2>2 DEF OneAtATime
  <1>2. OneAtATime => ErasedAfterRun
    BY DEF OneAtATime, ErasedAfterRun, Handled
  <1> QED
    BY <1>1, <1>2, OneStep, InvAlways, PTL DEF Spec
=============================================================================
