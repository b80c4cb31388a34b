---------------------------- MODULE CommandLoop ----------------------------
(***************************************************************************)
(* The single thread of the firmware as its call stack: loop() of the      *)
(* sketch, MenuHandler::loop, command handlers, and waitForWifi, which     *)
(* calls MenuHandler::loop again from inside a handler.  A frame is the    *)
(* activation of a function at a program point; a step is what the top     *)
(* frame does up to its next call or return.                               *)
(***************************************************************************)
EXTENDS Naturals, Sequences, SequencesExt

CONSTANTS
  MaxCommands,  (* bound: commands queued in one behaviour                 *)
  MaxDepth      (* bound: frames on the stack when a line comes in         *)

ASSUME BoundsOK == MaxCommands \in Nat \ {0} /\ MaxDepth \in Nat \ {0}

\* What a command does to the control of the program: nothing, wait for the
\* network, schedule a list, restart, or set SKIP_LOOP.
Kinds == {"plain", "wait", "list", "restart", "sss"}

VARIABLES
  stack,      (* the frames, the running one last                          *)
  queue,      (* MenuHandler::pendingCommands                              *)
  next,       (* the number the next queued command gets                   *)
  executing,  (* MenuHandler::currentlyExecutingCommand                    *)
  enabled,    (* MenuHandler::schedulingEnabled                            *)
  skip,       (* SKIP_LOOP                                                 *)
  waited,     (* whether wifiAlreadyWaited is less than a minute ago       *)
  mode,       (* bttnMode                                                  *)
  chosen,     (* whether lastFunc is not -1                                *)
  pressed     (* the button itself                                         *)

menuVars == <<queue, next, executing>>
buttonVars == <<enabled, mode, chosen, pressed>>
vars == <<stack, queue, next, executing, enabled, skip, waited, mode, chosen, pressed>>

Frame(fn, pt, id) == [fn |-> fn, pt |-> pt, id |-> id]
Main(pt) == Frame("main", pt, 0)
Menu == Frame("menu", "input", 0)
Direct(kind) == Frame("direct", kind, 0)
Wait == Frame("wait", "enter", 0)

Top == Last(stack)
At(fn, pt) == Top.fn = fn /\ Top.pt = pt
IsCommand(f) == f.fn \in {"queued", "direct"}

Goto(pt) == stack' = Front(stack) \o <<[Top EXCEPT !.pt = pt]>>
GotoAndCall(pt, f) == stack' = Front(stack) \o <<[Top EXCEPT !.pt = pt], f>>
Return == stack' = Front(stack)

\* scheduleCommand for a command without the leading exclamation mark.
Schedule(kind) ==
  /\ next <= MaxCommands
  /\ queue' = Append(queue, [id |-> next, kind |-> kind])
  /\ next' = next + 1
  /\ UNCHANGED executing

Reboot ==
  /\ stack' = <<Main("setup")>>
  /\ queue' = <<>>
  /\ executing' = FALSE
  /\ enabled' = TRUE
  /\ skip' = FALSE
  /\ waited' = FALSE
  /\ mode' = "idle"
  /\ chosen' = FALSE
  /\ UNCHANGED <<next, pressed>>

-----------------------------------------------------------------------------
\* setup() and loop() of the sketch.

\* setupPlugins drains the menu after every plugin.
SetupStep ==
  /\ At("main", "setup")
  /\ GotoAndCall("setup", Menu)
  /\ UNCHANGED <<menuVars, skip, waited, buttonVars>>

\* setup ends by queueing the lists that release the gpio pins.
SetupDone ==
  /\ At("main", "setup")
  /\ Goto("first")
  /\ IF next <= MaxCommands THEN Schedule("list") ELSE UNCHANGED menuVars
  /\ UNCHANGED <<skip, waited, buttonVars>>

FirstMenuLoop ==
  /\ At("main", "first")
  /\ GotoAndCall("skipTest", Menu)
  /\ UNCHANGED <<menuVars, skip, waited, buttonVars>>

SkipLoop ==
  /\ At("main", "skipTest")
  /\ Goto(IF skip THEN "first" ELSE "plugins")
  /\ UNCHANGED <<menuVars, skip, waited, buttonVars>>

\* What the other plugins do in loopPlugins: nothing, queue a command for an event
\* or a message, execute one at once, such as a web socket text that begins with
\* an exclamation mark, or send, which waits for the network.
OtherPlugins ==
  /\ At("main", "others")
  /\ \/ Goto("second") /\ UNCHANGED menuVars
     \/ \E k \in {"plain", "wait"} : Goto("second") /\ Schedule(k)
     \/ \E f \in {Direct("wait"), Wait} : GotoAndCall("second", f) /\ UNCHANGED menuVars
  /\ UNCHANGED <<skip, waited, buttonVars>>

SecondMenuLoop ==
  /\ At("main", "second")
  /\ GotoAndCall("power", Menu)
  /\ UNCHANGED <<menuVars, skip, waited, buttonVars>>

\* loopPowerManager: quietRestart after an hour, or the flush of the log that
\* comes before deep sleep and may wait for the network.
Power ==
  /\ At("main", "power")
  /\ \/ Goto("first") /\ (Schedule("restart") \/ UNCHANGED menuVars)
     \/ GotoAndCall("sleep", Wait) /\ UNCHANGED menuVars
  /\ UNCHANGED <<skip, waited, buttonVars>>

\* Deep sleep ends in a boot.
DeepSleep ==
  /\ At("main", "sleep")
  /\ Reboot

-----------------------------------------------------------------------------
\* MenuHandler.

\* processUserInput: no input, a line, or a line executed at once.
NoInput ==
  /\ At("menu", "input")
  /\ Goto("check")
  /\ UNCHANGED <<menuVars, skip, waited, buttonVars>>

InputLine(kind) ==
  /\ At("menu", "input")
  /\ next < MaxCommands
  /\ Goto("nop")
  /\ Schedule(kind)
  /\ UNCHANGED <<skip, waited, buttonVars>>

InputBang(kind) ==
  /\ At("menu", "input")
  /\ next <= MaxCommands
  /\ Len(stack) <= MaxDepth
  /\ GotoAndCall("nop", Direct(kind))
  /\ UNCHANGED <<menuVars, skip, waited, buttonVars>>

\* Every line is followed by @nop.
InputNop ==
  /\ At("menu", "nop")
  /\ Goto("check")
  /\ IF next <= MaxCommands THEN Schedule("plain") ELSE UNCHANGED menuVars
  /\ UNCHANGED <<skip, waited, buttonVars>>

IgnoresFlag == enabled  \* mutant

IgnoresButton == ~executing  \* mutant

MayProcess == enabled /\ ~executing

ProcessCommands ==
  /\ At("menu", "check")
  /\ IF MayProcess THEN Goto("drain") ELSE Return
  /\ UNCHANGED <<menuVars, skip, waited, buttonVars>>

Draining == At("menu", "drain") \/ At("menu", "more")

ShiftUnchecked ==  \* mutant: a do-while, whose shift() of an empty list is NULL
  /\ Draining
  /\ GotoAndCall("more", IF queue = <<>> THEN Frame("queued", "null", 0)
                         ELSE Frame("queued", Head(queue).kind, Head(queue).id))
  /\ queue' = IF queue = <<>> THEN <<>> ELSE Tail(queue)
  /\ executing' = TRUE
  /\ UNCHANGED <<next, skip, waited, buttonVars>>

ShiftCommand ==
  /\ Draining
  /\ queue # <<>>
  /\ GotoAndCall("more", Frame("queued", Head(queue).kind, Head(queue).id))
  /\ queue' = Tail(queue)
  /\ executing' = TRUE
  /\ UNCHANGED <<next, skip, waited, buttonVars>>

\* After commands that were not silent the log is flushed, the last thing the
\* menu loop does; the flush may wait for the network.
QueueEmpty ==
  /\ Draining
  /\ queue = <<>>
  /\ Return \/ (At("menu", "more") /\ stack' = Append(Front(stack), Wait))
  /\ UNCHANGED <<menuVars, skip, waited, buttonVars>>

-----------------------------------------------------------------------------
\* Command handlers.

DirectClearsFlag ==  \* mutant
  /\ IsCommand(Top)
  /\ Top.pt \in {"plain", "done"}
  /\ Return
  /\ executing' = FALSE
  /\ UNCHANGED <<queue, next, skip, waited, buttonVars>>

\* The handler returns; processCommands clears its flag.
EndCommand ==
  /\ IsCommand(Top)
  /\ Top.pt \in {"plain", "done"}
  /\ Return
  /\ executing' = (executing /\ Top.fn # "queued")
  /\ UNCHANGED <<queue, next, skip, waited, buttonVars>>

\* A command that sends, or whose echo fills the log, waits before what it does.
\* Bound: a list that waited is not itself executed by a list.
WaitCommand ==
  /\ IsCommand(Top)
  /\ Top.pt = "wait"
  /\ \/ \E pt \in {"restart", "sss", "done"} : GotoAndCall(pt, Wait)
     \/ (\A i \in DOMAIN stack : stack[i].pt # "list") /\ GotoAndCall("list", Wait)
  /\ UNCHANGED <<menuVars, skip, waited, buttonVars>>

\* cmdListN: an item goes to the end of the queue or is executed at once.
ListItem ==
  /\ IsCommand(Top)
  /\ Top.pt = "list"
  /\ \/ \E k \in {"plain", "wait"} : Schedule(k) /\ UNCHANGED stack
     \/ /\ Len(stack) <= MaxDepth
        /\ GotoAndCall("list", Direct("wait"))
        /\ UNCHANGED menuVars
  /\ UNCHANGED <<skip, waited, buttonVars>>

ListDone ==
  /\ IsCommand(Top)
  /\ Top.pt = "list"
  /\ Goto("done")
  /\ UNCHANGED <<menuVars, skip, waited, buttonVars>>

StopActiveExecution ==
  /\ IsCommand(Top)
  /\ Top.pt = "sss"
  /\ skip' = TRUE
  /\ Goto("done")
  /\ UNCHANGED <<menuVars, waited, buttonVars>>

EspRestart ==
  /\ IsCommand(Top)
  /\ Top.pt = "restart"
  /\ Reboot

-----------------------------------------------------------------------------
\* waitForWifi.

\* A turn of the polling loop, which runs the menu.  Only on its entry and every
\* tenth turn does a wait look whether another one gave up less than a minute ago.
PollWifi ==
  /\ At("wait", "poll") \/ (At("wait", "enter") /\ ~waited)
  /\ GotoAndCall("poll", Menu)
  /\ UNCHANGED <<menuVars, skip, waited, buttonVars>>

\* Connected already, or gave up less than a minute ago, or a nested wait did.
WifiKnown ==
  /\ At("wait", "enter") \/ (At("wait", "poll") /\ waited)
  /\ Return
  /\ UNCHANGED <<menuVars, skip, waited, buttonVars>>

\* Connected in the loop, no such network, or timed out: handleFailedConnect
\* may queue the restart.
WifiWaited ==
  /\ At("wait", "poll")
  /\ ~waited
  /\ Return
  /\ waited' = TRUE
  /\ Schedule("restart") \/ UNCHANGED menuVars
  /\ UNCHANGED <<skip, buttonVars>>

MinutePasses ==
  /\ waited
  /\ waited' = FALSE
  /\ UNCHANGED <<stack, menuVars, skip, buttonVars>>

-----------------------------------------------------------------------------
\* Button::loop, which only loopPlugins calls.

\* The outcome of setLedColorButton(-1) in a quick click: it reads colors[-1].
QuickClickCrash ==
  /\ At("main", "plugins")
  /\ ~pressed
  /\ mode = "cycle"
  /\ ~chosen
  /\ Reboot

\* What the button does writes to the log, which may wait.
AfterButton == Goto("others") \/ GotoAndCall("others", Wait)

ButtonPressed ==
  /\ pressed
  /\ AfterButton
  /\ \/ /\ mode = "idle"
        /\ enabled' = FALSE
        /\ mode' = "cycle"
        /\ UNCHANGED <<menuVars, chosen>>
     \/ /\ mode = "cycle"
        /\ chosen' = TRUE
        /\ UNCHANGED <<menuVars, enabled, mode>>
     \/ /\ mode = "confirm"  \* fireEvent: the property may be missing
        /\ mode' = "executed"
        /\ UNCHANGED menuVars \/ \E k \in {"plain", "wait"} : Schedule(k)
        /\ UNCHANGED <<enabled, chosen>>
     \/ mode = "executed" /\ UNCHANGED <<menuVars, enabled, mode, chosen>>

ResetKeepsDisabled ==  \* mutant
  /\ mode' = "idle"
  /\ chosen' = FALSE
  /\ UNCHANGED enabled

ButtonReset ==
  /\ enabled' = TRUE
  /\ mode' = "idle"
  /\ chosen' = FALSE

ButtonReleased ==
  /\ ~pressed
  /\ AfterButton
  /\ \/ mode = "idle" /\ UNCHANGED <<enabled, mode, chosen>>
     \/ mode = "cycle" /\ mode' = "confirm" /\ UNCHANGED <<enabled, chosen>>
     \/ mode = "confirm" /\ UNCHANGED <<enabled, mode, chosen>>
     \/ mode = "executed" /\ ButtonReset
  /\ UNCHANGED menuVars

\* Five seconds after the release.
ConfirmTimeout ==
  /\ At("main", "plugins")
  /\ ~pressed
  /\ mode = "confirm"
  /\ AfterButton
  /\ ButtonReset
  /\ UNCHANGED <<menuVars, skip, waited, pressed>>

ButtonLoop ==
  /\ At("main", "plugins")
  /\ ButtonPressed \/ ButtonReleased
  /\ UNCHANGED <<skip, waited, pressed>>

Finger ==
  /\ pressed' = ~pressed
  /\ UNCHANGED <<stack, menuVars, skip, waited, enabled, mode, chosen>>

-----------------------------------------------------------------------------
Init ==
  /\ stack = <<Main("setup")>>
  /\ queue = <<>>
  /\ next = 1
  /\ executing = FALSE
  /\ enabled = TRUE
  /\ skip = FALSE
  /\ waited = FALSE
  /\ mode = "idle"
  /\ chosen = FALSE
  /\ pressed = FALSE

\* The thread itself, without what its surroundings do.
Thread ==
  \/ SetupStep \/ SetupDone \/ FirstMenuLoop \/ SkipLoop \/ OtherPlugins \/ SecondMenuLoop \/ Power \/ DeepSleep
  \/ NoInput \/ (\E k \in Kinds : InputLine(k) \/ InputBang(k)) \/ InputNop
  \/ ProcessCommands \/ ShiftCommand \/ QueueEmpty
  \/ EndCommand \/ WaitCommand \/ ListItem \/ ListDone \/ StopActiveExecution \/ EspRestart
  \/ PollWifi \/ WifiKnown \/ WifiWaited
  \/ ButtonLoop \/ ConfirmTimeout \/ QuickClickCrash

Next == Thread \/ MinutePasses \/ Finger

Spec == Init /\ [][Next]_vars

\* The thread keeps running, setup has an end, a wait has a timeout and the five
\* seconds of the button pass.
FairSpec ==
  /\ Spec
  /\ WF_vars(Thread)
  /\ SF_vars(SetupDone)
  /\ SF_vars(WifiKnown \/ WifiWaited)
  /\ SF_vars(ListDone)
  /\ SF_vars(ConfirmTimeout)

-----------------------------------------------------------------------------
\* Properties.

Points == Kinds \cup {"done", "setup", "first", "skipTest", "plugins", "others", "second",
                      "power", "sleep", "input", "nop", "check", "drain", "more", "enter", "poll"}
Frames == [fn : {"main", "menu", "queued", "direct", "wait"}, pt : Points, id : 0 .. MaxCommands]

TypeOK ==
  /\ stack \in Seq(Frames) /\ stack # <<>>
  /\ queue \in Seq([id : 1 .. MaxCommands, kind : Kinds])
  /\ next \in 1 .. MaxCommands + 1
  /\ executing \in BOOLEAN /\ enabled \in BOOLEAN /\ skip \in BOOLEAN /\ waited \in BOOLEAN
  /\ mode \in {"idle", "cycle", "confirm", "executed"}
  /\ chosen \in BOOLEAN /\ pressed \in BOOLEAN

Queued == {i \in DOMAIN stack : stack[i].fn = "queued"}

\* However deep waits and menu loops nest, the flag says exactly whether a
\* queued command is on the stack.  Were it cleared early, a nested menu loop
\* would start a second command inside the first; were it left set, no queued
\* command would ever run again.
FlagIsStack == executing <=> Queued # {}

\* While the button has scheduling disabled no queued command is in progress,
\* not even one that was waiting for the network when the button was pressed.
DisabledMeansIdle == ~enabled => Queued = {}

\* The handler implements the abstract command queue.
Ids == [i \in DOMAIN queue |-> queue[i].id]
Running == IF Queued = {} THEN 0 ELSE stack[CHOOSE i \in Queued : TRUE].id
Promise == INSTANCE CommandQueue WITH pending <- Ids, running <- Running
InOrder == Promise!Spec

\* Once the button is left alone, queued commands do not stay queued: the queue
\* is drained or dropped by a restart, unless sss stopped the loop that polls the
\* button while scheduling was disabled.
QueuedCommandsRun ==
  <>[]~pressed => (queue # <<>> ~> (queue = <<>> \/ (skip /\ ~enabled)))
=============================================================================
