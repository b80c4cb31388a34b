----------------------------- MODULE PowerCycle -----------------------------
(***************************************************************************)
(* How the device sleeps, wakes and decides when to send: PowerManager and *)
(* DestinationManager with the RTC memory that outlives deep sleep and the *)
(* properties that outlive everything.  Time is what fires a timer; a menu *)
(* point is a place where MenuHandler::loop runs queued commands.          *)
(***************************************************************************)
EXTENDS Naturals

CONSTANTS
  ByteMax,          (* 255, the largest uint8_t                            *)
  DefaultDuration,  (* 30, the iteration duration when none is stored      *)
  MinDuration,      (* 15, the shortest duration with a timeout            *)
  DefaultInterval,  (* 120, the send interval when none is stored          *)
  Durations,        (* the values pwr.iterdur is given                     *)
  Intervals,        (* the values wsi is given                             *)
  MaxEvents         (* bound: commands and resets in one behaviour         *)

ASSUME SizesOK ==
  /\ ByteMax \in Nat /\ MinDuration \in Nat /\ DefaultInterval \in Nat /\ MaxEvents \in Nat
  /\ DefaultDuration \in 1 .. ByteMax
  /\ Durations \subseteq Nat
  /\ Intervals \subseteq Nat

ByteUnbounded(n) == n  \* mutant

\* What is left of a number in a uint8_t.
Byte(n) == n % (ByteMax + 1)

Timeouts == {"unset", "zero", "some"}

VARIABLES
  pc,
  \* RTC memory.
  rtcIt,       (* interations                                              *)
  rtcSleep,    (* inDeepSleep                                              *)
  \* Properties.
  fQuiet,      (* pwr.quiet.start                                          *)
  fIter,       (* pwr.iterdur, 0 when absent                               *)
  fInt,        (* the send interval                                        *)
  fTimeout,    (* pwr.timeoutint                                           *)
  useDelay,    (* pwr.usedelay                                             *)
  \* RAM.
  isLowPower, timeout, timerOn, iterDur,
  intSend, willSend,
  armed,       (* tmrRawRead: off, due at once, or due after intSend       *)
  sec,         (* loopPowerManager's copy of the duration to sleep for     *)
  skip,        (* SKIP_LOOP                                                *)
  enabled,     (* MenuHandler::schedulingEnabled                           *)
  nopDue,      (* whether the @nop that follows a serial line is queued    *)
  restartDue,  (* whether a restart is queued                              *)
  \* Surroundings and history.
  online,      (* whether the network can be reached                       *)
  events,      (* commands and resets so far                               *)
  cause,       (* what the running session started with                    *)
  stayAwake,   (* whether nop 0 is the last power command of the session   *)
  gap,         (* iterations since the last one that sends                 *)
  period       (* the period when the last iteration started, or 0         *)

rtc == <<rtcIt, rtcSleep>>
flash == <<fQuiet, fIter, fInt, fTimeout, useDelay>>
power == <<isLowPower, timeout, timerOn, iterDur>>
send == <<intSend, willSend, armed>>
menu == <<skip, enabled, nopDue, restartDue>>
history == <<gap, period>>
session == <<cause, stayAwake, sec>>
vars == <<pc, rtc, flash, power, send, menu, online, events, session, history>>

-----------------------------------------------------------------------------
\* Starting.

\* RAM as the constructors and initialisers leave it.
Begin(why) ==
  /\ pc' = "boot"
  /\ isLowPower' = FALSE /\ timeout' = "unset" /\ timerOn' = FALSE
  /\ iterDur' = 0
  /\ intSend' = DefaultInterval /\ willSend' = FALSE /\ armed' = "off"
  /\ sec' = 0
  /\ skip' = FALSE /\ enabled' = TRUE /\ nopDue' = FALSE /\ restartDue' = FALSE
  /\ stayAwake' = FALSE
  /\ cause' = why

\* RTC memory loses its contents: the next iteration sends, whatever was planned.
ClearRtc == rtcIt' = 0 /\ rtcSleep' = FALSE /\ period' = 0 /\ UNCHANGED gap

QuietStartStays ==  \* mutant
  /\ pc = "boot"
  /\ pc' = "iteration"
  /\ iterDur' = IF Byte(fIter) = 0 THEN DefaultDuration ELSE Byte(fIter)
  /\ intSend' = fInt
  /\ timeout' = IF iterDur' < MinDuration THEN "zero"
                ELSE IF fTimeout = "unset" THEN "some" ELSE fTimeout
  /\ timerOn' = (timeout' # "zero")
  /\ isLowPower' = rtcSleep
  /\ UNCHANGED <<rtc, flash, useDelay, willSend, armed, menu, online, events, session, history>>

\* reportProperties, then PowerManager::setupInt, which consumes the quiet start.
SetupInt ==
  /\ pc = "boot"
  /\ pc' = "iteration"
  /\ iterDur' = IF Byte(fIter) = 0 THEN DefaultDuration ELSE Byte(fIter)
  /\ intSend' = fInt
  /\ fQuiet' = FALSE
  /\ timeout' = IF iterDur' < MinDuration THEN "zero"
                ELSE IF fTimeout = "unset" THEN "some" ELSE fTimeout
  /\ timerOn' = (timeout' # "zero")
  /\ isLowPower' = rtcSleep
  /\ UNCHANGED <<rtc, fIter, fInt, fTimeout, useDelay, willSend, armed, menu, online, events,
                 session, history>>

\* The iterations between two sends.
Period == intSend \div iterDur

CountEqual == IF rtcIt + 1 = Period THEN 0 ELSE rtcIt + 1  \* mutant

CountEarly == IF rtcIt + 2 >= Period THEN 0 ELSE rtcIt + 1  \* mutant

NextCount == IF rtcIt + 1 >= Period THEN 0 ELSE rtcIt + 1

\* DestinationManager::onIterationStart.
OnIterationStart ==
  /\ pc = "iteration"
  /\ pc' = "setup"
  /\ willSend' = (rtcIt = 0)
  /\ rtcIt' = Byte(NextCount)
  /\ gap' = IF rtcIt = 0 THEN 0 ELSE gap + 1
  /\ period' = Period
  /\ UNCHANGED <<rtcSleep, flash, power, intSend, armed, menu, online, events, session>>

-----------------------------------------------------------------------------
\* Commands, at the menu points.

\* Where MenuHandler::loop may run; the flush before deep sleep runs it only
\* while it waits for the network.
MenuPoint == pc \in {"setup", "timer", "menu1", "sending", "menu2", "flushing"}
AtMenu == MenuPoint /\ (pc = "flushing" => ~online)

\* DestinationManager::setup has registered its commands.
Registered == pc # "setup"

NopKeepsTimer(t) ==  \* mutant
  /\ timeout' = t
  /\ timerOn' = (timerOn \/ t # "zero")
  /\ isLowPower' = FALSE
  /\ stayAwake' = (t = "zero")

\* PowerManager::onNop with the timeout it is given or keeps.
OnNop(t) ==
  /\ timeout' = t
  /\ timerOn' = (t # "zero")
  /\ isLowPower' = FALSE
  /\ stayAwake' = (t = "zero")

NopFrame == UNCHANGED <<pc, rtc, flash, iterDur, send, cause, sec>>

CmdNop ==
  /\ \E t \in {"zero", "some"} : OnNop(t)
  /\ NopFrame
  /\ UNCHANGED <<skip, enabled>>

\* deepsleep 0 and 1 sleep at once, for a microsecond; deepsleep 2 from then on.
CmdDeepSleep ==
  /\ rtcSleep' = TRUE
  /\ stayAwake' = FALSE
  /\ \/ pc' = "asleep" /\ UNCHANGED isLowPower
     \/ isLowPower' = TRUE /\ UNCHANGED pc
  /\ UNCHANGED <<rtcIt, flash, timeout, timerOn, iterDur, send, skip, enabled, cause, sec>>

CmdStop ==
  /\ skip' = TRUE
  /\ UNCHANGED <<pc, rtc, flash, power, send, enabled, session>>

\* wsi rounds to whole iterations; wsi 0 does not divide.
CmdSendInterval ==
  /\ Registered
  /\ \/ fInt' = 0 /\ 0 \in Intervals
     \/ /\ iterDur # 0
        /\ \E i \in Intervals \ {0} :
             fInt' = (IF i < iterDur THEN 1 ELSE i \div iterDur) * iterDur
  /\ intSend' = fInt'
  /\ UNCHANGED <<pc, rtc, fQuiet, fIter, fTimeout, useDelay, power, willSend, armed,
                 skip, enabled, session>>

\* prop_set pwr.iterdur: onProperty truncates, and does not apply the default.
CmdSetDuration ==
  /\ \E d \in Durations : fIter' = d /\ iterDur' = Byte(d)
  /\ UNCHANGED <<pc, rtc, fQuiet, fInt, fTimeout, useDelay, isLowPower, timeout, timerOn,
                 send, skip, enabled, session>>

\* A send that goes out.
Rearm == armed' = IF intSend # 0 THEN "later" ELSE armed

QuietUnscheduled == fQuiet' = TRUE /\ UNCHANGED restartDue  \* mutant

QuietRestart == fQuiet' = TRUE /\ restartDue' = TRUE

\* Without a network waitForWifi gives up; after several failures
\* handleFailedConnect restarts.
GivesUp == QuietRestart \/ UNCHANGED <<fQuiet, restartDue>>

CmdSendNow ==
  /\ Registered
  /\ \/ online /\ Rearm /\ UNCHANGED <<fQuiet, restartDue>>
     \/ ~online /\ UNCHANGED armed /\ GivesUp
  /\ UNCHANGED <<pc, rtc, fIter, fInt, fTimeout, useDelay, power, intSend, willSend, skip, enabled,
                 session>>

\* One command runs, from the queue or, with scheduling disabled, because it
\* starts with an exclamation mark; a line from the serial port brings @nop after it.
Command ==
  /\ AtMenu
  /\ enabled => ~nopDue
  /\ events < MaxEvents
  /\ events' = events + 1
  /\ \/ CmdSendNow
     \/ /\ CmdNop \/ CmdDeepSleep \/ CmdStop \/ CmdSendInterval \/ CmdSetDuration
        /\ UNCHANGED restartDue
  /\ nopDue' \in {nopDue, TRUE}
  /\ UNCHANGED <<online, history>>

FollowingNop ==
  /\ AtMenu
  /\ enabled
  /\ nopDue
  /\ nopDue' = FALSE
  /\ OnNop(timeout)
  /\ NopFrame
  /\ UNCHANGED <<skip, enabled, restartDue, online, events, history>>

\* wsi with an interval while the duration is 0 divides by it; the exception resets
\* the chip.
DivideByZero ==
  /\ AtMenu
  /\ Registered
  /\ events < MaxEvents
  /\ iterDur = 0 /\ Intervals # {0}
  /\ Begin("crash")
  /\ events' = events + 1
  /\ UNCHANGED <<rtc, flash, online, history>>

\* espRestart: the one a quiet restart queued, or given as a command.
EspRestart ==
  /\ AtMenu
  /\ Begin("restart")
  /\ ClearRtc
  /\ UNCHANGED <<flash, online>>

QueuedRestart == enabled /\ restartDue /\ EspRestart /\ UNCHANGED events

CmdRestart == events < MaxEvents /\ EspRestart /\ events' = events + 1

\* The queue is empty, or cannot be drained.
Drained == enabled => ~nopDue /\ ~restartDue

-----------------------------------------------------------------------------
\* loop().

\* DestinationManager::setup, one of the plugins, starts the send timer, due at once.
SetupDestinations ==
  /\ pc = "setup"
  /\ Drained
  /\ pc' = "timer"
  /\ armed' = IF intSend # 0 THEN "now" ELSE "off"
  /\ UNCHANGED <<rtc, flash, power, intSend, willSend, menu, online, events, session, history>>

EndSetup ==
  /\ pc = "timer"
  /\ Drained
  /\ pc' = "menu1"
  /\ UNCHANGED <<rtc, flash, power, send, menu, online, events, session, history>>

FirstMenuLoop ==
  /\ pc = "menu1"
  /\ Drained
  /\ ~skip
  /\ pc' = "plugins"
  /\ UNCHANGED <<rtc, flash, power, send, menu, online, events, session, history>>

\* A press of the button gives nop 60 and disables scheduling; its end enables it.
Button ==
  /\ pc = "plugins"
  /\ \/ /\ enabled
        /\ events < MaxEvents
        /\ events' = events + 1
        /\ enabled' = FALSE
        /\ OnNop("some")
     \/ /\ ~enabled
        /\ enabled' = TRUE
        /\ UNCHANGED <<events, isLowPower, timeout, timerOn, stayAwake>>
  /\ NopFrame
  /\ UNCHANGED <<skip, nopDue, restartDue, online, history>>

\* The send timer is due: conditionalSend waits for the network if it will send.
OnRawRead ==
  /\ pc = "plugins"
  /\ armed # "off"
  /\ pc' = IF willSend THEN "sending" ELSE "timers"
  /\ UNCHANGED <<rtc, flash, power, send, menu, online, events, session, history>>

NotDue ==
  /\ pc = "plugins"
  /\ armed # "now"
  /\ pc' = "timers"
  /\ UNCHANGED <<rtc, flash, power, send, menu, online, events, session, history>>

Send ==
  /\ pc = "sending"
  /\ Drained
  /\ online
  /\ pc' = "timers"
  /\ Rearm
  /\ UNCHANGED <<rtc, flash, power, intSend, willSend, menu, online, events, session, history>>

SendFails ==
  /\ pc = "sending"
  /\ Drained
  /\ ~online
  /\ pc' = "timers"
  /\ GivesUp
  /\ UNCHANGED <<rtc, fIter, fInt, fTimeout, useDelay, power, send, skip, enabled, nopDue, online,
                 events, session, history>>

\* TimerManager, the last plugin: the power manager's timer expires or does not.
OnTimeout ==
  /\ pc = "timers"
  /\ timerOn
  /\ timerOn' = FALSE
  /\ isLowPower' = TRUE
  /\ pc' = "menu2"
  /\ UNCHANGED <<rtc, flash, timeout, iterDur, send, menu, online, events, session, history>>

NoTimeout ==
  /\ pc = "timers"
  /\ pc' = "menu2"
  /\ UNCHANGED <<rtc, flash, power, send, menu, online, events, session, history>>

SecondMenuLoop ==
  /\ pc = "menu2"
  /\ Drained
  /\ pc' = "power"
  /\ UNCHANGED <<rtc, flash, power, send, menu, online, events, session, history>>

\* loopPowerManager: decide to sleep, flush the log, sleep for the duration read
\* before the flush.  deepSleep(0) has no wake-up.
GoingToSleep ==
  /\ pc = "power"
  /\ isLowPower /\ ~useDelay
  /\ rtcSleep' = TRUE
  /\ sec' = iterDur
  /\ pc' = "flushing"
  /\ UNCHANGED <<rtcIt, flash, power, send, menu, online, events, cause, stayAwake, history>>

DeepSleep ==
  /\ pc = "flushing"
  /\ AtMenu => Drained
  /\ pc' = IF sec = 0 THEN "halted" ELSE "asleep"
  /\ (~online /\ QuietRestart) \/ UNCHANGED <<fQuiet, restartDue>>
  /\ UNCHANGED <<rtc, fIter, fInt, fTimeout, useDelay, power, send, skip, enabled, nopDue, online,
                 events, session, history>>

StaysUp == pc = "power" /\ ~(isLowPower /\ ~useDelay) /\ pc' = "menu1"

WithinTheHour ==
  /\ StaysUp
  /\ UNCHANGED <<rtc, flash, power, send, menu, online, events, session, history>>

AfterAnHour ==
  /\ StaysUp
  /\ QuietRestart
  /\ UNCHANGED <<rtc, fIter, fInt, fTimeout, useDelay, power, send, skip, enabled, nopDue, online,
                 events, session, history>>

-----------------------------------------------------------------------------
\* The surroundings.

Wake ==
  /\ pc = "asleep"
  /\ Begin("wake")
  /\ UNCHANGED <<rtc, flash, online, events, history>>

\* The reset pin leaves RTC memory alone.
ResetPin ==
  /\ events < MaxEvents
  /\ events' = events + 1
  /\ Begin("pin")
  /\ UNCHANGED <<rtc, flash, online, history>>

PowerLoss ==
  /\ events < MaxEvents
  /\ events' = events + 1
  /\ Begin("power")
  /\ ClearRtc
  /\ UNCHANGED <<flash, online>>

Network ==
  /\ online' = ~online
  /\ UNCHANGED <<pc, rtc, flash, power, send, menu, events, session, history>>

Init ==
  /\ pc = "boot"
  /\ rtcIt = 0 /\ rtcSleep = FALSE
  /\ fQuiet = FALSE
  /\ fIter \in Durations
  /\ fInt = DefaultInterval
  /\ fTimeout \in Timeouts
  /\ useDelay \in BOOLEAN
  /\ isLowPower = FALSE /\ timeout = "unset" /\ timerOn = FALSE
  /\ iterDur = 0
  /\ intSend = DefaultInterval /\ willSend = FALSE /\ armed = "off"
  /\ skip = FALSE /\ enabled = TRUE /\ nopDue = FALSE /\ restartDue = FALSE
  /\ online = TRUE
  /\ events = 0
  /\ cause = "power"
  /\ stayAwake = FALSE
  /\ sec = 0
  /\ gap = 0 /\ period = 0

Program ==
  \/ SetupInt \/ OnIterationStart \/ SetupDestinations \/ EndSetup
  \/ FollowingNop \/ QueuedRestart
  \/ FirstMenuLoop \/ OnRawRead \/ NotDue \/ Send \/ SendFails \/ OnTimeout \/ NoTimeout
  \/ SecondMenuLoop \/ GoingToSleep \/ DeepSleep \/ WithinTheHour \/ AfterAnHour \/ Wake

Next ==
  \/ Program
  \/ Command \/ DivideByZero \/ CmdRestart \/ Button
  \/ ResetPin \/ PowerLoss \/ Network

Spec == Init /\ [][Next]_vars

\* The program keeps running, the hour passes and the send timer comes due.
FairSpec ==
  /\ Spec
  /\ WF_vars(Program)
  /\ SF_vars(AfterAnHour)
  /\ SF_vars(OnRawRead)

-----------------------------------------------------------------------------
\* Properties.

TypeOK ==
  /\ pc \in {"boot", "iteration", "setup", "timer", "menu1", "plugins", "sending", "timers", "menu2",
             "power", "flushing", "asleep", "halted"}
  /\ rtcIt \in 0 .. ByteMax /\ rtcSleep \in BOOLEAN
  /\ fQuiet \in BOOLEAN /\ fIter \in Nat /\ fInt \in Nat /\ fTimeout \in Timeouts
  /\ useDelay \in BOOLEAN
  /\ isLowPower \in BOOLEAN /\ timeout \in Timeouts /\ timerOn \in BOOLEAN
  /\ iterDur \in 0 .. ByteMax
  /\ intSend \in Nat /\ willSend \in BOOLEAN /\ armed \in {"off", "now", "later"}
  /\ sec \in 0 .. ByteMax
  /\ skip \in BOOLEAN /\ enabled \in BOOLEAN /\ nopDue \in BOOLEAN /\ restartDue \in BOOLEAN
  /\ online \in BOOLEAN /\ events \in 0 .. MaxEvents
  /\ cause \in {"power", "pin", "restart", "wake", "crash"}
  /\ stayAwake \in BOOLEAN
  /\ gap \in Nat /\ period \in Nat

\* Whatever wakes, resets and commands came between, an iteration stays silent only
\* if the interval that applied at the iteration before it, and the byte of the
\* counter, have room for one more: a counter that has run past an interval that
\* was shortened meanwhile starts over at the next iteration, and the one after
\* that sends.
SendPeriod == [][gap' \in {0, gap} \/ (gap' < period /\ gap' <= ByteMax)]_vars

\* An iteration that sends comes no earlier than the interval that applied at the
\* iteration before it asks for, or the byte of the counter allows, however the
\* interval changed on the way.
Min2(a, b) == IF a < b THEN a ELSE b
SendsOnSchedule ==
  [][(willSend' /\ ~willSend /\ period # 0)
       => gap + 1 >= Min2(period, ByteMax + 1)]_vars

\* The quiet start is for one boot: once setup has run the property is set only
\* while the restart it is meant for is queued, or the device has gone to sleep
\* over it.
QuietOnce == fQuiet => restartDue \/ pc \in {"boot", "asleep", "halted"}

\* After nop 0 nothing is left that would start the power-safe mode: not the
\* flag, and no timer that sets it.
NopZeroStaysAwake == stayAwake => ~isLowPower /\ ~timerOn

\* The device keeps sending, from whatever state resets and commands leave it
\* in, as long as the network is up, the interval and the stored duration are
\* not 0, sss did not stop the loop and it did not sleep for no time.  When the
\* user keeps a device awake in an iteration that does not send, the hourly
\* restart is what makes this true.
KeepsSending ==
  <>[](online /\ enabled /\ ~skip /\ fInt # 0 /\ Byte(fIter) # 0 /\ pc # "halted")
    => []<><<Send>>_vars

\* "restart device to exit" the power-safe mode (PowerManager.cpp:83): the device
\* is not in it when the reset pin, the only event so far, has just restarted it.
RestartExitsPowerSafe == pc = "iteration" /\ cause = "pin" /\ events = 1 => ~isLowPower

\* "nop - no command, send to prevent going into power-safe operation"
\* (PowerManager.cpp:64): the device does not sleep after nop 0.
NopPreventsSleep == pc = "asleep" => ~stayAwake
=============================================================================
