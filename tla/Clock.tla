------------------------------- MODULE Clock ------------------------------
(***************************************************************************)
(* The clock of TimerManager.  The time of the last answer of a web server *)
(* and the reading of a millisecond counter at that moment are kept in RTC *)
(* memory; the counter is millis() plus GEN_MSCOUNTER, to which the power  *)
(* manager adds the time awake and the sleep ahead of each deep sleep.     *)
(* isTimeInPeriod compares the time of day with a daily period.            *)
(* The unit of time is a part of a minute; numbers wrap as uint32_t does.  *)
(***************************************************************************)
EXTENDS Integers, Sequences, SequencesExt

CONSTANTS
  Day,       (* ONE_DAY_MS                                                 *)
  Minute,    (* a minute                                                   *)
  Hour,      (* the age after which an answer is renewed                   *)
  Wrap,      (* size of the counters, 2^32                                 *)
  Durations, (* lengths of a deep sleep                                    *)
  Offsets,   (* values of tz.offset                                        *)
  MaxTime,   (* bound: time that passes                                    *)
  MaxNest    (* bound: calls in progress                                   *)

ASSUME ClockOK ==
  /\ {Day, Minute, Hour, Wrap, MaxTime} \subseteq Nat \ {0} /\ Hour < Day /\ Day < Wrap
  /\ Durations \subseteq Nat \ {0} /\ Offsets \subseteq 1 - Day .. Day - 1
  /\ MaxNest \in Nat \ {0}

VARIABLES
  time,    (* the true time, GMT                                           *)
  millis,  (* time since boot                                              *)
  asleep,  (* rest of the deep sleep, 0 when awake                         *)
  rtc,     (* RTC memory: GEN_LASTTIME, GEN_TIME_LAST_UPD_INT, GEN_MSCOUNTER *)
  calls,   (* getGMTime calls that wait for an answer: lastTime of each    *)
  told,    (* what getGMTime returned last                                 *)
  askedAt, (* history: the time of the answer kept                         *)
  missed   (* history: time since then the counter has missed, modulo Wrap *)

vars == <<time, millis, asleep, rtc, calls, told, askedAt, missed>>

NoTime == -1  \* NO_TIME
Cleared == [last |-> 0, upd |-> 0, counter |-> 0]

Plus(a, b) == (a + b) % Wrap
Minus(a, b) == (a - b) % Wrap

\* msCounter, and how old it makes the answer.
MsCounter == Plus(rtc.counter, millis)
Elapsed == Minus(MsCounter, rtc.upd)
Age == time - askedAt

-----------------------------------------------------------------------------
\* getGMTime.

NeedsUpdate == rtc.last = 0 \/ Elapsed > Hour

\* lastTime is 0 also when the answer was of the first minute of the day.
Result(last, elapsed) == IF last = 0 THEN NoTime ELSE Plus(last, elapsed)

Awake == asleep = 0

\* In loop(), or from sendNow in the wait for the network of another call.
MayAsk == Awake /\ Len(calls) < MaxNest

Known ==
  /\ MayAsk /\ ~NeedsUpdate
  /\ told' = Result(rtc.last, Elapsed)
  /\ UNCHANGED <<time, millis, asleep, rtc, calls, askedAt, missed>>

Ask ==
  /\ MayAsk /\ NeedsUpdate
  /\ calls' = Append(calls, rtc.last)
  /\ UNCHANGED <<time, millis, asleep, rtc, told, askedAt, missed>>

\* timeToMs reads hours and minutes and drops the seconds.
TimeToMs(t) == t - (t % Minute)

KeepsUpdInt == [rtc EXCEPT !.last = TimeToMs(time % Day)]  \* mutant

\* updateLastTime stores the time of day and the counter.
Updated == [rtc EXCEPT !.last = TimeToMs(time % Day), !.upd = MsCounter]

Answer ==
  /\ calls # <<>>
  /\ calls' = Front(calls)
  /\ rtc' = Updated
  /\ askedAt' = time /\ missed' = 0
  /\ told' = Result(rtc'.last, Minus(MsCounter, rtc'.upd))
  /\ UNCHANGED <<time, millis, asleep>>

\* The result of a call whose update failed: lastTime as read before the wait,
\* the counters as they are after it.
AfterFailure(last) == Plus(last, Elapsed)

NoAnswer ==
  /\ calls # <<>>
  /\ calls' = Front(calls)
  /\ told' = IF Last(calls) = 0 THEN NoTime ELSE AfterFailure(Last(calls))
  /\ UNCHANGED <<time, millis, asleep, rtc, askedAt, missed>>

-----------------------------------------------------------------------------
\* Time passes, the device sleeps and is reset.

Tick ==
  /\ Awake /\ time < MaxTime
  /\ time' = time + 1 /\ millis' = Plus(millis, 1)
  /\ UNCHANGED <<asleep, rtc, calls, told, askedAt, missed>>

SleepUncounted(d) == Plus(MsCounter, 0)  \* mutant
BeforeSleep(d) == Plus(MsCounter, d)

\* loopPowerManager.
DeepSleep ==
  /\ Awake /\ calls = <<>>
  /\ \E d \in Durations :
       asleep' = d /\ rtc' = [rtc EXCEPT !.counter = BeforeSleep(d)]
  /\ millis' = 0
  /\ UNCHANGED <<time, calls, told, askedAt, missed>>

Sleeping ==
  /\ ~Awake /\ time < MaxTime
  /\ time' = time + 1 /\ asleep' = asleep - 1
  /\ UNCHANGED <<millis, rtc, calls, told, askedAt, missed>>

\* The reset pin or an exception: RTC memory stays, the time awake is not added; in
\* a deep sleep the rest of it was added too much.
Reset ==
  /\ missed' = (missed + millis - asleep) % Wrap
  /\ millis' = 0 /\ asleep' = 0 /\ calls' = <<>> /\ told' = NoTime
  /\ UNCHANGED <<time, rtc, askedAt>>

\* espRestart, or a loss of power.
Restart ==
  /\ rtc' = Cleared /\ askedAt' = 0 /\ missed' = 0
  /\ millis' = 0 /\ asleep' = 0 /\ calls' = <<>> /\ told' = NoTime
  /\ UNCHANGED time

Init ==
  /\ time \in 0 .. Day - 1
  /\ millis = 0 /\ asleep = 0 /\ rtc = Cleared /\ calls = <<>> /\ told = NoTime
  /\ askedAt = 0 /\ missed = 0

GetGMTime == Known \/ Ask \/ Answer \/ NoAnswer
Next == GetGMTime \/ Tick \/ DeepSleep \/ Sleeping \/ Reset \/ Restart

Spec == Init /\ [][Next]_vars

-----------------------------------------------------------------------------
\* isTimeInPeriod with the time now in GMT.

Local(now, tz) == IF now + tz < 0 THEN now + tz + Day ELSE now + tz

NextMorning(start, end) == end  \* mutant
End(start, end) == IF start > end THEN end + Day ELSE end

TimeInPeriod(now, start, end, tz) ==
  \E n \in {Local(now, tz), Local(now, tz) + Day} : start < n /\ n < End(start, end)

-----------------------------------------------------------------------------
\* Properties.

\* Types of the counters, the calls and the histories.
TypeOK ==
  /\ time \in Nat /\ millis \in 0 .. Wrap - 1 /\ asleep \in Nat
  /\ rtc \in [last : 0 .. Day - 1, upd : 0 .. Wrap - 1, counter : 0 .. Wrap - 1]
  /\ calls \in Seq(0 .. Day - 1) /\ Len(calls) <= MaxNest
  /\ told \in {NoTime} \cup 0 .. Wrap - 1
  /\ askedAt \in 0 .. time /\ missed \in 0 .. Wrap - 1

\* The counter measures the age of the answer through deep sleep, resets and its
\* own overflow, but for the time awake before a reset and the sleep a reset cut
\* short; so that the clock is wrong by that much and no more.
ClockLag ==
  rtc.last # 0 => Elapsed = (Age - missed + asleep) % Wrap

\* What getGMTime tells is behind the time of day by less than a minute, as long as
\* no reset has cut the count of the time and the counter has not come round; also
\* from the old answer when the network does not give one, unless another call got
\* one in the meantime.  With the network, the answer is no older than an hour.
ToldRight ==
  [][GetGMTime /\ told' # NoTime /\ missed' = 0 /\ Age < Wrap - Day =>
       /\ \/ Ask
          \/ NoAnswer /\ Last(calls) # rtc.last
          \/ \E s \in 0 .. Minute - 1 : told' % Day = (time - s) % Day
       /\ Known \/ Answer => Age' <= Hour]_vars

\* Starts and ends of periods are written as hours and minutes.
TimesOfDay == {t \in 0 .. Day - 1 : TimeToMs(t) = t}

\* The time of day and the period, as an owner of the device means them.
Within(t, start, end) ==
  IF start <= end THEN start < t /\ t < end ELSE t > start \/ t < end

\* A period is recognised on the day of GMT, however the offset moves it.
PeriodRight ==
  told # NoTime =>
    \A tz \in Offsets, start, end \in TimesOfDay :
      told + tz < Day =>
        (TimeInPeriod(told, start, end, tz) <=> Within((told + tz) % Day, start, end))

\* pm2005quiet takes the start, the end and the offset in minutes of the quiet
\* time (PM2005Sensor.cpp:23): it is quiet from start to end, local time.
QuietFromStartToEnd ==
  told \in 0 .. Day - 1 =>
    \A tz \in Offsets, start, end \in TimesOfDay :
      TimeInPeriod(told, start, end, tz) <=> Within((told + tz) % Day, start, end)
=============================================================================
