---------------------------- MODULE MqttClient ----------------------------
(***************************************************************************)
(* MQTTDest: one client object shared by everything that publishes and by  *)
(* the subscription to commands.  A wait for WiFi, and a flush of the log  *)
(* while there is no network, runs the menu, which may start a nested      *)
(* activation; stack holds the activations in progress.  Commands are      *)
(* numbered; each is published to the command topic as a retained message. *)
(* Any of them may begin with '!'.  mqtt_msg_arr, which process() reads,   *)
(* may be empty at any time.  PubSubClient and the broker are external.    *)
(***************************************************************************)
EXTENDS Naturals, Sequences, SequencesExt

CONSTANTS
  Lists,    (* the commands that are a list or a crc command               *)
  MaxMsg,   (* bound: commands published                                   *)
  MaxQueue, (* bound: queued commands                                      *)
  MaxNest   (* bound: activations in progress                              *)

ASSUME BoundsOK == MaxMsg \in Nat /\ MaxQueue \in Nat /\ MaxNest \in Nat \ {0}

VARIABLES
  net,       (* WiFi.status() == WL_CONNECTED                              *)
  listen,    (* mqtt.listen, mqtt.subs.topic are set                       *)
  client,    (* client # NULL                                              *)
  conn,      (* client->connected()                                        *)
  listening, (* isListening                                                *)
  stack,     (* activations: what for, how far, if it is a queued command, *)
             (* and (history) if a connection was lost since it looked     *)
  queue,     (* scheduled commands: <<"run", message>>, <<"clear", 0>> and *)
             (* <<"item", message>>, what a list put there                 *)
  retained,  (* broker: the retained message of the command topic, or 0    *)
  inbox,     (* messages on their way to the client                        *)
  published, (* commands published so far                                  *)
  ran,       (* history: the last command published has been executed      *)
  erased,    (* history: the device has erased it from the broker          *)
  lost,      (* history: a restart has then lost its items                 *)
  overlap    (* history: a command was published with another under way    *)

object  == <<client, conn, listening>>
broker  == <<retained, published, overlap>>
history == <<ran, erased, lost>>
vars == <<net, listen, object, stack, queue, inbox, broker, history>>

Frame == [op : {"setup", "first", "process", "call", "clear"},
          at : {"wait", "create", "connect", "poll", "publish"},
          queued : BOOLEAN, lost : BOOLEAN]

Top == Last(stack)
At(points) == stack # <<>> /\ Top.at \in points
Activation(op, q) == [op |-> op, at |-> "wait", queued |-> q, lost |-> FALSE]
GoTo(point) == stack' = Front(stack) \o <<[Top EXCEPT !.at = point]>>

\* mqttListen makes process() see to the client first (first) and then send, if
\* there is something to send.
Finish ==
  \/ stack' = Front(stack)
  \/ Top.op = "first" /\ stack' = Front(stack) \o <<Activation("process", Top.queued)>>

-----------------------------------------------------------------------------
\* Where the menu runs: in loop(), in a wait, and in a flush of the log, which
\* waits when there is no network.

MenuRuns == stack = <<>> \/ (~net /\ Len(stack) < MaxNest)
Draining == \A i \in 1 .. Len(stack) : ~stack[i].queued

Executed(m) == ran' = (ran \/ m = published)

\* cmdCallMqtt of the user, or of another command.
CallMqtt ==
  /\ MenuRuns
  /\ \E q \in {FALSE, Draining} : stack' = Append(stack, Activation("call", q))
  /\ UNCHANGED <<net, listen, object, queue, inbox, broker, history>>

\* The first of the two commands onReceive schedules. cmdListN and cmdCRC do no
\* more than schedule what they were given, behind the second.
RunPayload ==
  /\ MenuRuns /\ Draining
  /\ queue # <<>> /\ Head(queue)[1] = "run"
  /\ LET m == Head(queue)[2] IN
     IF m \in Lists
     THEN queue' = Append(Tail(queue), <<"item", m>>) /\ UNCHANGED ran
     ELSE queue' = Tail(queue) /\ Executed(m)
  /\ UNCHANGED <<net, listen, object, stack, inbox, broker, erased, lost>>

\* What a list put into the queue.
RunItem ==
  /\ MenuRuns /\ Draining
  /\ queue # <<>> /\ Head(queue)[1] = "item"
  /\ Executed(Head(queue)[2])
  /\ queue' = Tail(queue)
  /\ UNCHANGED <<net, listen, object, stack, inbox, broker, erased, lost>>

\* The second, call_mqttr with an empty message.
RunClear ==
  /\ MenuRuns /\ Draining
  /\ queue # <<>> /\ Head(queue)[1] = "clear"
  /\ queue' = Tail(queue)
  /\ stack' = Append(stack, Activation("clear", TRUE))
  /\ UNCHANGED <<net, listen, object, inbox, broker, history>>

\* process(), called by the destination manager; without listening and messages it
\* does nothing.
BeginProcess(q) ==
  stack' = Append(stack, Activation(IF listen /\ ~client THEN "first" ELSE "process", q))

Process ==
  /\ stack = <<>>
  /\ BeginProcess(FALSE)
  /\ UNCHANGED <<net, listen, object, queue, inbox, broker, history>>

\* sendNow, in any menu.
SendNow ==
  /\ MenuRuns
  /\ \E q \in {FALSE, Draining} : BeginProcess(q)
  /\ UNCHANGED <<net, listen, object, queue, inbox, broker, history>>

-----------------------------------------------------------------------------
\* mqttStart, reconnect, setupMqttListen, mqttEnd.

\* mqttEnd, with isListening = l: a listening client is kept.
MqttEnd(l) ==
  /\ listening' = l
  /\ IF l THEN UNCHANGED <<client, conn, inbox>>
     ELSE client' = FALSE /\ conn' = FALSE /\ inbox' = <<>>

\* The wait of the caller fails, or that of mqttStart, after which comes mqttEnd.
NoWifi ==
  /\ At({"wait"}) /\ ~net
  /\ Finish
  /\ \/ Top.op \notin {"setup", "first"} /\ UNCHANGED <<object, inbox>>
     \/ MqttEnd(listening)
  /\ UNCHANGED <<net, listen, queue, broker, history>>

AssumesClient == TRUE  \* mutant

\* Whether there is a client is looked at after the wait.
HasClient == client

WifiThere ==
  /\ At({"wait"}) /\ net
  /\ stack' = Front(stack) \o
       <<[Top EXCEPT !.at = IF HasClient THEN "connect" ELSE "create", !.lost = FALSE]>>
  /\ UNCHANGED <<net, listen, object, queue, inbox, broker, history>>

\* The log is written between looking and creating, and may be flushed.
NewClient ==
  /\ At({"create"})
  /\ client' = TRUE /\ conn' = FALSE /\ listening' = FALSE /\ inbox' = <<>>
  /\ GoTo("connect")
  /\ UNCHANGED <<net, listen, queue, broker, history>>

RetainedUnchecked == <<retained>>  \* mutant

\* onReceive ignores the empty message of an erased topic.
RetainedMsg == IF retained = 0 THEN <<>> ELSE <<retained>>

\* reconnect: the subscription makes the broker send the retained message.
Reconnect ==
  /\ At({"connect"}) /\ client
  /\ conn \/ net
  /\ conn' = TRUE
  /\ LET l == listening /\ conn IN
     /\ listening' = (l \/ listen)
     /\ inbox' = IF l THEN inbox
                 ELSE IF listen THEN RetainedMsg ELSE <<>>
     /\ GoTo(IF ~l /\ listen THEN "poll" ELSE "publish")
  /\ UNCHANGED <<net, listen, client, queue, broker, history>>

ReconnectFails ==
  /\ At({"connect"}) /\ client /\ ~conn
  /\ MqttEnd(FALSE)
  /\ Finish
  /\ UNCHANGED <<net, listen, queue, broker, history>>

ClearsFirst(m) == queue' = queue \o <<<<"clear", 0>>, <<"run", m>>>> /\ UNCHANGED ran  \* mutant
KeepsRetained(m) == queue' = Append(queue, <<"run", m>>) /\ UNCHANGED ran  \* mutant

\* onReceive: the command, then the one that erases it from the broker. One that
\* begins with '!' is executed before onReceive goes on (a list is put into the
\* queue); if it is a call_mqtt, it finds the connection the message came through
\* and leaves it as it is.
OnReceive(m) ==
  \/ queue' = queue \o <<<<"run", m>>, <<"clear", 0>>>> /\ UNCHANGED ran
  \/ /\ m \in Lists
     /\ queue' = queue \o <<<<"item", m>>, <<"clear", 0>>>> /\ UNCHANGED ran
  \/ /\ m \notin Lists
     /\ queue' = Append(queue, <<"clear", 0>>) /\ Executed(m)

\* MQTTDest::loop, called by loopPlugins and ten times by setupMqttListen.
Loop ==
  /\ stack = <<>> \/ At({"poll"})
  /\ client
  /\ IF conn
     THEN /\ inbox # <<>> /\ Len(queue) + 2 <= MaxQueue
          /\ OnReceive(Head(inbox))
          /\ inbox' = Tail(inbox)
          /\ UNCHANGED object
     ELSE /\ MqttEnd(FALSE)
          /\ UNCHANGED <<queue, ran>>
  /\ UNCHANGED <<net, listen, stack, broker, erased, lost>>

Listens ==
  /\ At({"poll"})
  /\ GoTo("publish")
  /\ UNCHANGED <<net, listen, object, queue, inbox, broker, history>>

\* client->publish. The empty retained message erases the topic; every other is
\* for other topics.
Publish ==
  /\ At({"publish"}) /\ Top.op \notin {"setup", "first"}
  /\ client
  /\ IF Top.op = "clear" /\ conn
     THEN /\ retained' = 0
          /\ erased' = (erased \/ retained # 0)
     ELSE UNCHANGED <<retained, erased>>
  /\ MqttEnd(listening)
  /\ Finish
  /\ UNCHANGED <<net, listen, queue, published, overlap, ran, lost>>

\* setup() and the first part of process() only start.
Started ==
  /\ At({"publish"}) /\ Top.op \in {"setup", "first"}
  /\ Finish
  /\ UNCHANGED <<net, listen, object, queue, inbox, broker, history>>

-----------------------------------------------------------------------------
\* What comes from outside, and restarts.

\* Items of a list wait in the queue.
Waits(m) == \E i \in DOMAIN queue : queue[i] = <<"item", m>>

LoseRam ==
  /\ client' = FALSE /\ conn' = FALSE /\ listening' = FALSE
  /\ inbox' = <<>> /\ queue' = <<>>
  /\ stack' = IF listen THEN <<Activation("setup", FALSE)>> ELSE <<>>
  /\ lost' = (lost \/ (erased /\ Waits(published)))
  /\ UNCHANGED <<net, listen, broker, ran, erased>>

\* A call through a client that is gone: an exception resets the chip.
NullClient == At({"connect", "publish"}) /\ ~client

Crash ==
  /\ NullClient
  /\ Top.at = "publish" => Top.op \notin {"setup", "first"}
  /\ LoseRam

Reset == LoseRam

Lose == stack' = [i \in 1 .. Len(stack) |-> [stack[i] EXCEPT !.lost = TRUE]]

WifiDrops ==
  /\ net /\ net' = FALSE
  /\ conn' = FALSE /\ inbox' = <<>>
  /\ Lose
  /\ UNCHANGED <<listen, client, listening, queue, broker, history>>

WifiBack ==
  /\ ~net /\ net' = TRUE
  /\ UNCHANGED <<listen, object, stack, queue, inbox, broker, history>>

ConnectionDrops ==
  /\ conn /\ conn' = FALSE
  /\ inbox' = <<>>
  /\ Lose
  /\ UNCHANGED <<net, listen, client, listening, queue, broker, history>>

\* Somebody publishes the next command.
Command ==
  /\ published < MaxMsg
  /\ published' = published + 1
  /\ retained' = published'
  /\ ran' = FALSE /\ erased' = FALSE /\ lost' = FALSE
  /\ overlap' = (overlap \/ retained # 0 \/ queue # <<>> \/ inbox # <<>>
                 \/ \E i \in 1 .. Len(stack) : stack[i].op = "clear")
  /\ inbox' = IF conn /\ listening THEN Append(inbox, published') ELSE inbox
  /\ UNCHANGED <<net, listen, object, stack, queue>>

Init ==
  /\ net \in BOOLEAN /\ listen \in BOOLEAN
  /\ client = FALSE /\ conn = FALSE /\ listening = FALSE
  /\ stack = IF listen THEN <<Activation("setup", FALSE)>> ELSE <<>>
  /\ queue = <<>> /\ inbox = <<>>
  /\ retained = 0 /\ published = 0 /\ overlap = FALSE
  /\ ran = FALSE /\ erased = FALSE /\ lost = FALSE

Thread ==
  \/ NoWifi \/ WifiThere \/ NewClient \/ Reconnect \/ ReconnectFails
  \/ Listens \/ Publish \/ Started \/ Crash
Menu == RunPayload \/ RunItem \/ RunClear
Outside == Reset \/ WifiDrops \/ WifiBack \/ ConnectionDrops \/ Command

Next == Thread \/ Menu \/ Loop \/ Process \/ SendNow \/ CallMqtt \/ Outside

Spec == Init /\ [][Next]_vars

\* The thread runs; every loop() drains the queue and polls the client, and the
\* send timer comes due.
FairSpec ==
  /\ Spec
  /\ WF_vars(Thread) /\ SF_vars(Menu) /\ SF_vars(Loop) /\ SF_vars(Process)

-----------------------------------------------------------------------------
\* Properties.

\* Types of the client, its activations, the queue and the broker.
TypeOK ==
  /\ {net, listen, client, conn, listening, overlap, ran, erased, lost} \subseteq BOOLEAN
  /\ stack \in Seq(Frame) /\ Len(stack) <= MaxNest
  /\ queue \in Seq(({"run", "item"} \X (1 .. MaxMsg)) \cup {<<"clear", 0>>})
  /\ inbox \in Seq(1 .. MaxMsg)
  /\ {retained, published} \subseteq 0 .. MaxMsg

\* Whatever activations nest and however the connection comes and goes, a
\* device that believes it is listening (and therefore never connects anew) has
\* the client object that listens, and there is no connection without it.
ListenerAlive == (listening \/ conn) => client

\* An activation that is about to use the client finds it, unless a connection
\* was lost since it last looked: nested activations, which delete the client
\* when they end, never take it from one with a working connection, nor from
\* the device that listens.
ClientThere == ListenerAlive /\ (NullClient => Top.lost)

\* A command is erased from the broker by the device only after it has been
\* executed, so that a reset, a lost connection or a failed publish in between
\* lets it be delivered again. The exception is a list or a crc command, which is
\* executed behind the command that erases it: until then its items wait in the
\* queue, and of an erased command a restart in that time, and nothing else,
\* loses them. All this unless it was published while another command or a
\* second delivery of one was still under way.
ErasedAfterRun == erased => ran \/ Waits(published) \/ lost \/ overlap

\* When network, broker and device stay up (a command that restarts the device
\* itself is never erased), no command stays at the broker of a device that
\* listens, to be executed again at every connect: it is erased.
Stable == <>[][~(Reset \/ WifiDrops \/ ConnectionDrops \/ ReconnectFails)]_vars
CommandsErased ==
  Stable /\ <>[](net /\ listen) => (retained # 0 ~> retained = 0)
=============================================================================
