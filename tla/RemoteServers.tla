--------------------------- MODULE RemoteServers --------------------------
(***************************************************************************)
(* The web-socket server and the web server, through which commands reach  *)
(* a device that is up.  Commands delete and create the server objects and *)
(* wait for WiFi in between; a wait runs the menu and with it the next of  *)
(* these commands.  stack holds the calls in progress.                     *)
(***************************************************************************)
EXTENDS Naturals, Sequences, SequencesExt

CONSTANTS
  Wss,       (* the web-socket server                                      *)
  Web,       (* the web server                                             *)
  MaxNest    (* bound: calls in progress                                   *)

ASSUME ServersOK == Wss # Web /\ MaxNest \in Nat \ {0}

VARIABLES
  net,      (* WiFi.status() == WL_CONNECTED                               *)
  stack,    (* calls in progress                                           *)
  server,   (* each server pointer: null, live, or to a deleted object     *)
  idle,     (* stopAfterMin minutes have passed since lastActivity         *)
  logToWss, (* the log goes to the web socket                              *)
  gaveUp,   (* history: servers whose last start found no network          *)
  outage,   (* history: the network was down at some time since boot       *)
  selfDel,  (* history: a server was deleted inside its own loop           *)
  fault     (* history: a deleted object was used, or a live one lost      *)

histories == <<gaveUp, outage, selfDel, fault>>
vars == <<net, stack, server, idle, logToWss, histories>>

Server == {Wss, Web}

\* A start in its wait, or the loop of a server in the event of a client; gone:
\* the server was deleted meanwhile.  queued: the command came from the queue.
Call(c, s, q) == [call |-> c, of |-> s, queued |-> q, gone |-> FALSE]
Frame == [call : {"start", "serve"}, of : Server, queued : BOOLEAN, gone : BOOLEAN]

Top == Last(stack)
In(call) == stack # <<>> /\ Top.call = call
Return == stack' = Front(stack)

\* Commands run in loop(), in a wait, and, with an exclamation mark, in the
\* event of a server; from the queue only when no queued one is in progress.
MayRun == stack = <<>> \/ (Len(stack) < MaxNest /\ (In("serve") \/ (In("start") /\ ~net)))
Draining == ~In("serve") /\ \A i \in 1 .. Len(stack) : ~stack[i].queued

Faulty(f) == fault' = fault \cup f

-----------------------------------------------------------------------------
\* Deleting and creating.

\* A server whose own event handler is running is deleted under it.
Gone(s) == [i \in 1 .. Len(stack) |->
              IF stack[i].call = "serve" /\ stack[i].of = s
              THEN [stack[i] EXCEPT !.gone = TRUE] ELSE stack[i]]

\* delete server: the second time undefined; here the build goes on, and may
\* crash at any time (Reset).
Delete(s) ==
  /\ Faulty(IF server[s] = "deleted" THEN {"used deleted"} ELSE {})
  /\ selfDel' = (selfDel \/ Gone(s) # stack)

KeepsOld(s, q) ==  \* mutant
  /\ stack' = Append(stack, Call("start", s, q))
  /\ UNCHANGED <<server, fault, selfDel>>

\* cmdStartServerInst and cmdStartWebServerInst, up to the wait.
StartServer(s, q) ==
  /\ Delete(s)
  /\ server' = [server EXCEPT ![s] = IF @ = "null" THEN "null" ELSE "deleted"]
  /\ stack' = Append(Gone(s), Call("start", s, q))

CmdStart(s) ==
  /\ MayRun
  /\ \E q \in {FALSE, Draining} : StartServer(s, q)
  /\ UNCHANGED <<net, outage, idle, logToWss, gaveUp>>

StartGivesUp ==
  /\ In("start") /\ ~net
  /\ Return
  /\ gaveUp' = gaveUp \cup {Top.of}
  /\ UNCHANGED <<net, outage, server, idle, logToWss, selfDel, fault>>

\* new: what a start inside the wait has created is lost.
Started ==
  /\ In("start") /\ net
  /\ Return
  /\ server' = [server EXCEPT ![Top.of] = "live"]
  /\ Faulty(IF server[Top.of] = "live" THEN {"lost object"} ELSE {})
  /\ gaveUp' = gaveUp \ {Top.of}
  /\ UNCHANGED <<net, outage, idle, logToWss, selfDel>>

KeepsPointer == server' = [server EXCEPT ![Wss] = IF @ = "live" THEN "deleted" ELSE @]  \* mutant
NullsPointer == server' = [server EXCEPT ![Wss] = "null"]

\* cmdStopServerInst: only the web-socket server can be stopped.
StopServer ==
  /\ Delete(Wss)
  /\ NullsPointer
  /\ gaveUp' = gaveUp \ {Wss}

CmdStop ==
  /\ MayRun
  /\ StopServer
  /\ stack' = Gone(Wss)
  /\ UNCHANGED <<net, outage, idle, logToWss>>

-----------------------------------------------------------------------------
\* The loops of the servers.

NeverIdle == FALSE  \* mutant

\* WebSocketServerClass::loop after server->loop(); lastActivity is 0 at boot
\* and changes with a text only.
IdleTooLong == idle

IdleStop ==
  /\ stack = <<>> /\ server[Wss] # "null" /\ IdleTooLong
  /\ StopServer
  /\ UNCHANGED <<net, outage, stack, idle, logToWss>>

Connected ==
  /\ stack = <<>> /\ net /\ server[Wss] = "live"
  /\ logToWss' = TRUE
  /\ UNCHANGED <<net, stack, server, idle, histories>>

\* A client sends a command, for the queue or executed inside the event.
Text(s) ==
  /\ stack = <<>> /\ net /\ server[s] = "live"
  /\ idle' = IF s = Wss THEN FALSE ELSE idle
  /\ stack' \in {<<>>, <<Call("serve", s, FALSE)>>}
  /\ UNCHANGED <<net, server, logToWss, histories>>

\* Back in a server that may be gone.
Served ==
  /\ In("serve")
  /\ Return
  /\ Faulty(IF Top.gone THEN {"used deleted"} ELSE {})
  /\ UNCHANGED <<net, outage, server, idle, logToWss, gaveUp, selfDel>>

\* loop() of a server through a pointer not nulled, or sendData for the log of a
\* wait to which the network has come back; without a wait a start logs nothing
\* before new.
UseDeleted(s) ==
  /\ server[s] = "deleted"
  /\ stack = <<>> \/ (s = Wss /\ logToWss /\ net /\ outage)
  /\ Faulty({"used deleted"})
  /\ UNCHANGED <<net, outage, stack, server, idle, logToWss, gaveUp, selfDel>>

-----------------------------------------------------------------------------
\* What comes from outside.

TimePasses ==
  /\ ~idle /\ idle' = TRUE
  /\ UNCHANGED <<net, stack, server, logToWss, histories>>

Network ==
  /\ net' = ~net
  /\ outage' = (outage \/ ~net')
  /\ UNCHANGED <<stack, server, idle, logToWss, gaveUp, selfDel, fault>>

Reset ==
  /\ stack' = <<>> /\ server' = [s \in Server |-> "null"]
  /\ idle' = FALSE /\ logToWss' = FALSE
  /\ gaveUp' = {} /\ selfDel' = FALSE /\ fault' = {} /\ outage' = ~net
  /\ UNCHANGED net

Init ==
  /\ net \in BOOLEAN /\ outage = ~net
  /\ stack = <<>> /\ server = [s \in Server |-> "null"]
  /\ idle = FALSE /\ logToWss = FALSE
  /\ gaveUp = {} /\ selfDel = FALSE /\ fault = {}

CallReturns == StartGivesUp \/ Started \/ Served

Next ==
  \/ \E s \in Server : CmdStart(s) \/ Text(s) \/ UseDeleted(s)
  \/ CallReturns
  \/ CmdStop \/ IdleStop \/ Connected
  \/ TimePasses \/ Network \/ Reset

Spec == Init /\ [][Next]_vars

\* Every wait ends, by the network or by the clock it looks at after each command
\* it has run, so that calls return and loop() comes round; minutes pass.
FairSpec ==
  /\ Spec
  /\ \A d \in 1 .. MaxNest : SF_vars(Len(stack) = d /\ CallReturns)
  /\ SF_vars(IdleStop) /\ WF_vars(TimePasses)

-----------------------------------------------------------------------------
\* Properties.

\* Types of the calls, the servers and the histories.
TypeOK ==
  /\ {net, idle, logToWss, outage, selfDel} \subseteq BOOLEAN
  /\ stack \in Seq(Frame) /\ Len(stack) <= MaxNest
  /\ server \in [Server -> {"null", "live", "deleted"}]
  /\ gaveUp \subseteq Server
  /\ fault \subseteq {"used deleted", "lost object"}

\* A pointer to a deleted server is left by nothing but a start: one that waits
\* for the network or one that did not get it; start, stop and idle stop in any
\* order and nesting leave no other.
DeletedByStart ==
  \A s \in Server : server[s] = "deleted" =>
    s \in gaveUp \/ \E i \in 1 .. Len(stack) : stack[i].call = "start" /\ stack[i].of = s

\* On a network that has been up since boot no deleted server is used and no
\* running one is lost, unless a client has a server deleted inside its own
\* event, with an exclamation mark.
SoundWhileUp == fault = {} \/ outage \/ selfDel

\* A web-socket server without texts is stopped, also when its start failed, as
\* long as stopAfterMin is not 0.
Untouched == <>[][~(CmdStart(Wss) \/ Text(Wss))]_vars
IdleServerStops == Untouched => (server[Wss] # "null" ~> server[Wss] = "null")
=============================================================================
