------------------------- MODULE PowerCycle_proofs -------------------------
(***************************************************************************)
(* The types, the send schedule, the quiet start and nop 0, for every size *)
(* of the counter's byte, every duration, interval and number of events.   *)
(* Zenon proves the types of the two-valued variables and SMT the rest.    *)
(* After them the log, which is flushed before deep sleep: it stays inside *)
(* its array and is never stuck full, for every size, margin and number of *)
(* characters.                                                             *)
(***************************************************************************)
EXTENDS PowerCycle, LogBuffer, TLAPS

\* What the counter in RTC memory says of the iterations so far.
ScheduleOK ==
  /\ rtcIt # 0 => rtcIt = gap + 1 /\ rtcIt < period
  /\ rtcIt = 0 /\ period # 0 => gap + 1 >= Min2(period, ByteMax + 1)
  /\ gap <= ByteMax
  /\ pc = "iteration" => iterDur # 0

\* Nothing has been said of staying awake when setup reads inDeepSleep.
AwakeOK ==
  /\ NopZeroStaysAwake
  /\ pc = "boot" => ~stayAwake

\* The types of the two-valued variables, and of the others.
FlagsOK ==
  /\ rtcSleep \in BOOLEAN /\ fQuiet \in BOOLEAN /\ useDelay \in BOOLEAN
  /\ isLowPower \in BOOLEAN /\ timerOn \in BOOLEAN
  /\ willSend \in BOOLEAN /\ skip \in BOOLEAN /\ enabled \in BOOLEAN
  /\ nopDue \in BOOLEAN /\ restartDue \in BOOLEAN /\ online \in BOOLEAN /\ stayAwake \in BOOLEAN

OthersOK ==
  /\ pc \in {"boot", "iteration", "setup", "timer", "menu1", "plugins", "sending", "timers", "menu2",
             "power", "flushing", "asleep", "halted"}
  /\ rtcIt \in 0 .. ByteMax
  /\ fIter \in Nat /\ fInt \in Nat /\ fTimeout \in Timeouts /\ timeout \in Timeouts
  /\ iterDur \in 0 .. ByteMax /\ sec \in 0 .. ByteMax
  /\ intSend \in Nat /\ armed \in {"off", "now", "later"}
  /\ events \in 0 .. MaxEvents
  /\ cause \in {"power", "pin", "restart", "wake", "crash"}
  /\ gap \in Nat /\ period \in Nat

\* The two together are the type invariant.
LEMMA TypeParts == TypeOK <=> FlagsOK /\ OthersOK
  BY Zenon DEF TypeOK, FlagsOK, OthersOK

\* The inductive invariant.
Inv == TypeOK /\ ScheduleOK /\ QuietOnce /\ AwakeOK

\* What the byte keeps of the next count.
LEMMA ByteNext == \A n \in 0 .. ByteMax + 1 : Byte(n) = IF n = ByteMax + 1 THEN 0 ELSE n
  <1> SUFFICES ASSUME NEW n \in 0 .. ByteMax + 1
               PROVE  Byte(n) = IF n = ByteMax + 1 THEN 0 ELSE n
    OBVIOUS
  <1>1. ByteMax \in Nat
    BY SizesOK
  <1>2. CASE n = ByteMax + 1
    BY <1>1, <1>2, SMTT(30) DEF Byte
  <1>3. CASE n # ByteMax + 1
    BY <1>1, <1>3, SMTT(30) DEF Byte
  <1> QED
    BY <1>2, <1>3

\* Every step keeps the invariant.
LEMMA InvStep == Inv /\ Next => Inv'
  <1> SUFFICES ASSUME Inv, Next
               PROVE  Inv'
    OBVIOUS
  <1>1. CASE SetupInt
    <2>1. TypeOK'
      <3>1. FlagsOK'
        BY <1>1, TypeParts, Zenon
        DEF FlagsOK, SetupInt, Byte, Inv, rtc, flash, power, send, menu, session, history
      <3>2. OthersOK'
        BY <1>1, TypeParts, SizesOK
        DEF OthersOK, Timeouts, SetupInt, Byte, Inv, rtc, flash, power, send, menu,
            session, history
      <3> QED
        BY <3>1, <3>2, TypeParts DEF TypeOK, FlagsOK, OthersOK
    <2>2. ScheduleOK'
      BY <1>1, SizesOK
      DEF SetupInt, Byte, Inv, TypeOK, ScheduleOK, Min2, rtc, flash, power, send, menu,
          session, history
    <2>3. QuietOnce'
      BY <1>1, SizesOK
      DEF SetupInt, Byte, Inv, TypeOK, QuietOnce, rtc, flash, power, send, menu, session,
          history
    <2>4. AwakeOK'
      BY <1>1, SizesOK
      DEF SetupInt, Byte, Inv, TypeOK, AwakeOK, NopZeroStaysAwake, Timeouts, rtc, flash,
          power, send, menu, session, history
    <2> QED
      BY <2>1, <2>2, <2>3, <2>4 DEF Inv
  <1>2. CASE EndSetup
    BY <1>2, SizesOK
    DEF EndSetup, Drained, Inv, TypeOK, Timeouts, ScheduleOK, QuietOnce, AwakeOK,
        NopZeroStaysAwake, Min2, rtc, flash, power, send, menu, session, history
  <1>3. CASE SetupDestinations
    BY <1>3, SizesOK
    DEF SetupDestinations, Drained, Inv, TypeOK, Timeouts, ScheduleOK, QuietOnce, AwakeOK,
        NopZeroStaysAwake, Min2, rtc, flash, power, send, menu, session, history
  <1>4. CASE FollowingNop
    <2>1. TypeOK'
      <3>1. FlagsOK'
        BY <1>4, TypeParts, Zenon
        DEF FlagsOK, FollowingNop, AtMenu, MenuPoint, OnNop, NopFrame, Inv, rtc, flash, power,
            send, menu, session, history
      <3>2. OthersOK'
        BY <1>4, TypeParts, SizesOK
        DEF OthersOK, Timeouts, FollowingNop, AtMenu, MenuPoint, OnNop, NopFrame, Inv, rtc, flash,
            power, send, menu, session, history
      <3> QED
        BY <3>1, <3>2, TypeParts DEF TypeOK, FlagsOK, OthersOK
    <2>2. ScheduleOK'
      BY <1>4, SizesOK
      DEF FollowingNop, AtMenu, MenuPoint, OnNop, NopFrame, Inv, TypeOK, ScheduleOK, Min2, rtc,
          flash, power, send, menu, session, history
    <2>3. QuietOnce'
      BY <1>4, SizesOK
      DEF FollowingNop, AtMenu, MenuPoint, OnNop, NopFrame, Inv, TypeOK, QuietOnce, rtc, flash,
          power, send, menu, session, history
    <2>4. AwakeOK'
      BY <1>4, SizesOK
      DEF FollowingNop, AtMenu, MenuPoint, OnNop, NopFrame, Inv, TypeOK, AwakeOK, NopZeroStaysAwake,
          Timeouts, rtc, flash, power, send, menu, session, history
    <2> QED
      BY <2>1, <2>2, <2>3, <2>4 DEF Inv
  <1>5. CASE FirstMenuLoop
    BY <1>5, SizesOK
    DEF FirstMenuLoop, Drained, Inv, TypeOK, Timeouts, ScheduleOK, QuietOnce, AwakeOK,
        NopZeroStaysAwake, Min2, rtc, flash, power, send, menu, session, history
  <1>6. CASE OnRawRead
    BY <1>6, SizesOK
    DEF OnRawRead, Inv, TypeOK, Timeouts, ScheduleOK, QuietOnce, AwakeOK, NopZeroStaysAwake,
        Min2, rtc, flash, power, send, menu, session, history
  <1>7. CASE NotDue
    BY <1>7, SizesOK
    DEF NotDue, Inv, TypeOK, Timeouts, ScheduleOK, QuietOnce, AwakeOK, NopZeroStaysAwake, Min2,
        rtc, flash, power, send, menu, session, history
  <1>8. CASE Send
    BY <1>8, SizesOK
    DEF Send, Drained, Rearm, Inv, TypeOK, Timeouts, ScheduleOK, QuietOnce, AwakeOK,
        NopZeroStaysAwake, Min2, rtc, flash, power, send, menu, session, history
  <1>9. CASE SendFails
    <2>1. TypeOK'
      <3>1. FlagsOK'
        BY <1>9, TypeParts, Zenon
        DEF FlagsOK, SendFails, GivesUp, Drained, QuietRestart, Inv, rtc, flash, power, send, menu,
            session, history
      <3>2. OthersOK'
        BY <1>9, TypeParts, SizesOK
        DEF OthersOK, Timeouts, SendFails, GivesUp, Drained, QuietRestart, Inv, rtc, flash, power,
            send, menu, session, history
      <3> QED
        BY <3>1, <3>2, TypeParts DEF TypeOK, FlagsOK, OthersOK
    <2>2. ScheduleOK'
      BY <1>9, SizesOK
      DEF SendFails, GivesUp, Drained, QuietRestart, Inv, TypeOK, ScheduleOK, Min2, rtc, flash, power,
          send, menu, session, history
    <2>3. QuietOnce'
      <3>1. CASE QuietRestart
        BY <3>1, Zenon DEF QuietRestart, QuietOnce
      <3>2. CASE UNCHANGED <<fQuiet, restartDue>>
        BY <1>9, <3>2 DEF SendFails, Inv, QuietOnce
      <3> QED
        BY <1>9, <3>1, <3>2 DEF SendFails, GivesUp
    <2>4. AwakeOK'
      BY <1>9, SizesOK
      DEF SendFails, GivesUp, Drained, QuietRestart, Inv, TypeOK, AwakeOK, NopZeroStaysAwake,
          Timeouts, rtc, flash, power, send, menu, session, history
    <2> QED
      BY <2>1, <2>2, <2>3, <2>4 DEF Inv
  <1>10. CASE OnTimeout
    <2>1. TypeOK'
      <3>1. FlagsOK'
        BY <1>10, TypeParts, Zenon
        DEF FlagsOK, OnTimeout, Inv, rtc, flash, power, send, menu, session, history
      <3>2. OthersOK'
        BY <1>10, TypeParts, SizesOK
        DEF OthersOK, Timeouts, OnTimeout, Inv, rtc, flash, power, send, menu, session,
            history
      <3> QED
        BY <3>1, <3>2, TypeParts DEF TypeOK, FlagsOK, OthersOK
    <2>2. ScheduleOK'
      BY <1>10, SizesOK
      DEF OnTimeout, Inv, TypeOK, ScheduleOK, Min2, rtc, flash, power, send, menu, session,
          history
    <2>3. QuietOnce'
      BY <1>10, SizesOK
      DEF OnTimeout, Inv, TypeOK, QuietOnce, rtc, flash, power, send, menu, session, history
    <2>4. AwakeOK'
      BY <1>10, SizesOK
      DEF OnTimeout, Inv, TypeOK, AwakeOK, NopZeroStaysAwake, Timeouts, rtc, flash, power,
          send, menu, session, history
    <2> QED
      BY <2>1, <2>2, <2>3, <2>4 DEF Inv
  <1>11. CASE NoTimeout
    BY <1>11, SizesOK
    DEF NoTimeout, Inv, TypeOK, Timeouts, ScheduleOK, QuietOnce, AwakeOK, NopZeroStaysAwake,
        Min2, rtc, flash, power, send, menu, session, history
  <1>12. CASE SecondMenuLoop
    BY <1>12, SizesOK
    DEF SecondMenuLoop, Drained, Inv, TypeOK, Timeouts, ScheduleOK, QuietOnce, AwakeOK,
        NopZeroStaysAwake, Min2, rtc, flash, power, send, menu, session, history
  <1>13. CASE GoingToSleep
    BY <1>13, SizesOK
    DEF GoingToSleep, Inv, TypeOK, Timeouts, ScheduleOK, QuietOnce, AwakeOK, NopZeroStaysAwake,
        Min2, rtc, flash, power, send, menu, session, history
  <1>14. CASE DeepSleep
    <2>1. TypeOK'
      <3>1. FlagsOK'
        BY <1>14, TypeParts, Zenon
        DEF FlagsOK, DeepSleep, Drained, QuietRestart, Inv, rtc, flash, power, send, menu,
            session, history
      <3>2. OthersOK'
        BY <1>14, TypeParts, SizesOK
        DEF OthersOK, Timeouts, DeepSleep, Drained, QuietRestart, Inv, rtc, flash, power,
            send, menu, session, history
      <3> QED
        BY <3>1, <3>2, TypeParts DEF TypeOK, FlagsOK, OthersOK
    <2>2. ScheduleOK'
      BY <1>14, SizesOK
      DEF DeepSleep, Drained, QuietRestart, Inv, TypeOK, ScheduleOK, Min2, rtc, flash, power,
          send, menu, session, history
    <2>3. QuietOnce'
      BY <1>14, SizesOK
      DEF DeepSleep, Drained, QuietRestart, Inv, TypeOK, QuietOnce, rtc, flash, power, send,
          menu, session, history
    <2>4. AwakeOK'
      BY <1>14, SizesOK
      DEF DeepSleep, Drained, QuietRestart, Inv, TypeOK, AwakeOK, NopZeroStaysAwake,
          Timeouts, rtc, flash, power, send, menu, session, history
    <2> QED
      BY <2>1, <2>2, <2>3, <2>4 DEF Inv
  <1>15. CASE WithinTheHour
    BY <1>15, SizesOK
    DEF WithinTheHour, StaysUp, Inv, TypeOK, Timeouts, ScheduleOK, QuietOnce, AwakeOK,
        NopZeroStaysAwake, Min2, rtc, flash, power, send, menu, session, history
  <1>16. CASE AfterAnHour
    BY <1>16, SizesOK
    DEF AfterAnHour, StaysUp, QuietRestart, Inv, TypeOK, Timeouts, ScheduleOK, QuietOnce,
        AwakeOK, NopZeroStaysAwake, Min2, rtc, flash, power, send, menu, session, history
  <1>17. CASE Wake
    <2>1. TypeOK'
      <3>1. FlagsOK'
        BY <1>17, TypeParts, Zenon
        DEF FlagsOK, Wake, Begin, Inv, rtc, flash, power, send, menu, session, history
      <3>2. OthersOK'
        BY <1>17, TypeParts, SizesOK
        DEF OthersOK, Timeouts, Wake, Begin, Inv, rtc, flash, power, send, menu, session,
            history
      <3> QED
        BY <3>1, <3>2, TypeParts DEF TypeOK, FlagsOK, OthersOK
    <2>2. ScheduleOK'
      BY <1>17, SizesOK
      DEF Wake, Begin, Inv, TypeOK, ScheduleOK, Min2, rtc, flash, power, send, menu, session,
          history
    <2>3. QuietOnce'
      BY <1>17, SizesOK
      DEF Wake, Begin, Inv, TypeOK, QuietOnce, rtc, flash, power, send, menu, session,
          history
    <2>4. AwakeOK'
      BY <1>17, SizesOK
      DEF Wake, Begin, Inv, TypeOK, AwakeOK, NopZeroStaysAwake, Timeouts, rtc, flash, power,
          send, menu, session, history
    <2> QED
      BY <2>1, <2>2, <2>3, <2>4 DEF Inv
  <1>18. CASE QueuedRestart
    <2>1. TypeOK'
      <3>1. FlagsOK'
        BY <1>18, TypeParts, Zenon
        DEF FlagsOK, QueuedRestart, EspRestart, Begin, ClearRtc, Inv, rtc, flash, power,
            send, menu, session, history
      <3>2. OthersOK'
        BY <1>18, TypeParts, SizesOK
        DEF OthersOK, Timeouts, QueuedRestart, EspRestart, Begin, ClearRtc, Inv, rtc,
            flash, power, send, menu, session, history
      <3> QED
        BY <3>1, <3>2, TypeParts DEF TypeOK, FlagsOK, OthersOK
    <2>2. ScheduleOK'
      BY <1>18, SizesOK
      DEF QueuedRestart, EspRestart, AtMenu, MenuPoint, Begin, ClearRtc, Inv, TypeOK,
          ScheduleOK, Min2, rtc, flash, power, send, menu, session, history
    <2>3. QuietOnce'
      BY <1>18, SizesOK
      DEF QueuedRestart, EspRestart, AtMenu, MenuPoint, Begin, ClearRtc, Inv, TypeOK,
          QuietOnce, rtc, flash, power, send, menu, session, history
    <2>4. AwakeOK'
      BY <1>18, SizesOK
      DEF QueuedRestart, EspRestart, AtMenu, MenuPoint, Begin, ClearRtc, Inv, TypeOK,
          AwakeOK, NopZeroStaysAwake, Timeouts, rtc, flash, power, send, menu, session,
          history
    <2> QED
      BY <2>1, <2>2, <2>3, <2>4 DEF Inv
  <1>19. CASE CmdRestart
    <2>1. TypeOK'
      <3>1. FlagsOK'
        BY <1>19, TypeParts, Zenon
        DEF FlagsOK, CmdRestart, EspRestart, Begin, ClearRtc, Inv, rtc, flash, power, send,
            menu, session, history
      <3>2. OthersOK'
        BY <1>19, TypeParts, SizesOK
        DEF OthersOK, Timeouts, CmdRestart, EspRestart, Begin, ClearRtc, Inv, rtc, flash,
            power, send, menu, session, history
      <3> QED
        BY <3>1, <3>2, TypeParts DEF TypeOK, FlagsOK, OthersOK
    <2>2. ScheduleOK'
      BY <1>19, SizesOK
      DEF CmdRestart, EspRestart, AtMenu, MenuPoint, Begin, ClearRtc, Inv, TypeOK,
          ScheduleOK, Min2, rtc, flash, power, send, menu, session, history
    <2>3. QuietOnce'
      BY <1>19, SizesOK
      DEF CmdRestart, EspRestart, AtMenu, MenuPoint, Begin, ClearRtc, Inv, TypeOK, QuietOnce,
          rtc, flash, power, send, menu, session, history
    <2>4. AwakeOK'
      BY <1>19, SizesOK
      DEF CmdRestart, EspRestart, AtMenu, MenuPoint, Begin, ClearRtc, Inv, TypeOK, AwakeOK,
          NopZeroStaysAwake, Timeouts, rtc, flash, power, send, menu, session, history
    <2> QED
      BY <2>1, <2>2, <2>3, <2>4 DEF Inv
  <1>20. CASE DivideByZero
    <2>1. TypeOK'
      <3>1. FlagsOK'
        BY <1>20, TypeParts, Zenon
        DEF FlagsOK, DivideByZero, Begin, Inv, rtc, flash, power, send, menu, session,
            history
      <3>2. OthersOK'
        BY <1>20, TypeParts, SizesOK
        DEF OthersOK, Timeouts, DivideByZero, Begin, Inv, rtc, flash, power, send, menu,
            session, history
      <3> QED
        BY <3>1, <3>2, TypeParts DEF TypeOK, FlagsOK, OthersOK
    <2>2. ScheduleOK'
      BY <1>20, SizesOK
      DEF DivideByZero, AtMenu, MenuPoint, Begin, Inv, TypeOK, ScheduleOK, Min2, rtc, flash,
          power, send, menu, session, history
    <2>3. QuietOnce'
      BY <1>20, SizesOK
      DEF DivideByZero, AtMenu, MenuPoint, Begin, Inv, TypeOK, QuietOnce, rtc, flash, power,
          send, menu, session, history
    <2>4. AwakeOK'
      BY <1>20, SizesOK
      DEF DivideByZero, AtMenu, MenuPoint, Begin, Inv, TypeOK, AwakeOK, NopZeroStaysAwake,
          Timeouts, rtc, flash, power, send, menu, session, history
    <2> QED
      BY <2>1, <2>2, <2>3, <2>4 DEF Inv
  <1>21. CASE Button
    <2>1. TypeOK'
      <3>1. FlagsOK'
        BY <1>21, TypeParts, Zenon
        DEF FlagsOK, Button, OnNop, NopFrame, Inv, rtc, flash, power, send, menu, session,
            history
      <3>2. OthersOK'
        BY <1>21, TypeParts, SizesOK
        DEF OthersOK, Timeouts, Button, OnNop, NopFrame, Inv, rtc, flash, power, send,
            menu, session, history
      <3> QED
        BY <3>1, <3>2, TypeParts DEF TypeOK, FlagsOK, OthersOK
    <2>2. ScheduleOK'
      BY <1>21, SizesOK
      DEF Button, OnNop, NopFrame, Inv, TypeOK, ScheduleOK, Min2, rtc, flash, power, send,
          menu, session, history
    <2>3. QuietOnce'
      BY <1>21, SizesOK
      DEF Button, OnNop, NopFrame, Inv, TypeOK, QuietOnce, rtc, flash, power, send, menu,
          session, history
    <2>4. AwakeOK'
      BY <1>21, SizesOK
      DEF Button, OnNop, NopFrame, Inv, TypeOK, AwakeOK, NopZeroStaysAwake, Timeouts, rtc,
          flash, power, send, menu, session, history
    <2> QED
      BY <2>1, <2>2, <2>3, <2>4 DEF Inv
  <1>22. CASE ResetPin
    <2>1. TypeOK'
      <3>1. FlagsOK'
        BY <1>22, TypeParts, Zenon
        DEF FlagsOK, ResetPin, Begin, Inv, rtc, flash, power, send, menu, session, history
      <3>2. OthersOK'
        BY <1>22, TypeParts, SizesOK
        DEF OthersOK, Timeouts, ResetPin, Begin, Inv, rtc, flash, power, send, menu,
            session, history
      <3> QED
        BY <3>1, <3>2, TypeParts DEF TypeOK, FlagsOK, OthersOK
    <2>2. ScheduleOK'
      BY <1>22, SizesOK
      DEF ResetPin, Begin, Inv, TypeOK, ScheduleOK, Min2, rtc, flash, power, send, menu,
          session, history
    <2>3. QuietOnce'
      BY <1>22, SizesOK
      DEF ResetPin, Begin, Inv, TypeOK, QuietOnce, rtc, flash, power, send, menu, session,
          history
    <2>4. AwakeOK'
      BY <1>22, SizesOK
      DEF ResetPin, Begin, Inv, TypeOK, AwakeOK, NopZeroStaysAwake, Timeouts, rtc, flash,
          power, send, menu, session, history
    <2> QED
      BY <2>1, <2>2, <2>3, <2>4 DEF Inv
  <1>23. CASE PowerLoss
    <2>1. TypeOK'
      <3>1. FlagsOK'
        BY <1>23, TypeParts, Zenon
        DEF FlagsOK, PowerLoss, Begin, ClearRtc, Inv, rtc, flash, power, send, menu,
            session, history
      <3>2. OthersOK'
        BY <1>23, TypeParts, SizesOK
        DEF OthersOK, Timeouts, PowerLoss, Begin, ClearRtc, Inv, rtc, flash, power, send,
            menu, session, history
      <3> QED
        BY <3>1, <3>2, TypeParts DEF TypeOK, FlagsOK, OthersOK
    <2>2. ScheduleOK'
      BY <1>23, SizesOK
      DEF PowerLoss, Begin, ClearRtc, Inv, TypeOK, ScheduleOK, Min2, rtc, flash, power, send,
          menu, session, history
    <2>3. QuietOnce'
      BY <1>23, SizesOK
      DEF PowerLoss, Begin, ClearRtc, Inv, TypeOK, QuietOnce, rtc, flash, power, send, menu,
          session, history
    <2>4. AwakeOK'
      BY <1>23, SizesOK
      DEF PowerLoss, Begin, ClearRtc, Inv, TypeOK, AwakeOK, NopZeroStaysAwake, Timeouts, rtc,
          flash, power, send, menu, session, history
    <2> QED
      BY <2>1, <2>2, <2>3, <2>4 DEF Inv
  <1>24. CASE Network
    BY <1>24, SizesOK
    DEF Network, Inv, TypeOK, Timeouts, ScheduleOK, QuietOnce, AwakeOK, NopZeroStaysAwake,
        Min2, rtc, flash, power, send, menu, session, history
  <1>25. CASE OnIterationStart
    <2>1. Period \in Nat /\ ByteMax \in Nat \ {0}
      BY <1>25, SizesOK DEF OnIterationStart, Inv, TypeOK, ScheduleOK, Period
    <2>2. NextCount \in 0 .. ByteMax + 1
      BY <2>1 DEF Inv, TypeOK, NextCount
    <2>3. rtcIt' = IF NextCount = ByteMax + 1 THEN 0 ELSE NextCount
      BY <1>25, <2>2, ByteNext DEF OnIterationStart
    <2>4. TypeOK'
      <3>1. FlagsOK'
        BY <1>25, TypeParts, Zenon
        DEF FlagsOK, OnIterationStart, Inv, rtc, flash, power, send, menu, session
      <3>2. OthersOK'
        BY <1>25, <2>1, <2>2, <2>3, TypeParts
        DEF OthersOK, OnIterationStart, Inv, rtc, flash, power, send, menu, session
      <3> QED
        BY <3>1, <3>2, TypeParts DEF TypeOK, FlagsOK, OthersOK
    <2>5. ScheduleOK'
      <3>1. gap' = (IF rtcIt = 0 THEN 0 ELSE gap + 1)
              /\ period' = Period
              /\ pc' = "setup"
        BY <1>25 DEF OnIterationStart
      <3>2. rtcIt \in 0 .. ByteMax /\ gap \in Nat /\ period \in Nat
        BY DEF Inv, TypeOK
      <3>3. CASE rtcIt = 0
        BY <2>1, <2>3, <3>1, <3>2, <3>3 DEF Inv, ScheduleOK, NextCount, Min2
      <3>4. CASE rtcIt # 0
        BY <2>1, <2>3, <3>1, <3>2, <3>4 DEF Inv, ScheduleOK, NextCount, Min2
      <3> QED
        BY <3>3, <3>4
    <2>6. QuietOnce' /\ AwakeOK'
      BY <1>25
      DEF OnIterationStart, Inv, QuietOnce, AwakeOK, NopZeroStaysAwake, flash, power, menu,
          session
    <2> QED
      BY <2>4, <2>5, <2>6 DEF Inv
  <1>26. CASE Command
    <2>1. CASE CmdNop /\ UNCHANGED restartDue
      <3>1. TypeOK'
        <4>1. FlagsOK'
          BY <1>26, <2>1, TypeParts, Zenon
          DEF FlagsOK, Command, CmdNop, OnNop, NopFrame, Inv, rtc, flash, power, send,
              menu, session, history
        <4>2. OthersOK'
          BY <1>26, <2>1, TypeParts, SizesOK
          DEF OthersOK, Timeouts, Command, CmdNop, OnNop, NopFrame, Inv, rtc, flash,
              power, send, menu, session, history
        <4> QED
          BY <4>1, <4>2, TypeParts DEF TypeOK, FlagsOK, OthersOK
      <3>2. ScheduleOK'
        BY <1>26, <2>1, SizesOK
        DEF Command, CmdNop, OnNop, NopFrame, Inv, ScheduleOK, Min2, AtMenu, MenuPoint,
            rtc, flash, power, send, menu, session, history
      <3>3. QuietOnce'
        BY <1>26, <2>1, SizesOK
        DEF Command, CmdNop, OnNop, NopFrame, Inv, TypeOK, QuietOnce, rtc, flash, power,
            send, menu, session, history
      <3>4. AwakeOK'
        BY <1>26, <2>1, SizesOK
        DEF Command, CmdNop, OnNop, NopFrame, Inv, TypeOK, AwakeOK, NopZeroStaysAwake,
            AtMenu, MenuPoint, rtc, flash, power, send, menu, session, history
      <3> QED
        BY <3>1, <3>2, <3>3, <3>4 DEF Inv
    <2>2. CASE CmdDeepSleep /\ UNCHANGED restartDue
      <3>1. TypeOK'
        <4>1. FlagsOK'
          BY <1>26, <2>2, TypeParts, Zenon
          DEF FlagsOK, Command, CmdDeepSleep, Inv, rtc, flash, power, send, menu,
              session, history
        <4>2. OthersOK'
          BY <1>26, <2>2, TypeParts, SizesOK
          DEF OthersOK, Timeouts, Command, CmdDeepSleep, Inv, rtc, flash, power, send,
              menu, session, history
        <4> QED
          BY <4>1, <4>2, TypeParts DEF TypeOK, FlagsOK, OthersOK
      <3>2. ScheduleOK'
        BY <1>26, <2>2, SizesOK
        DEF Command, CmdDeepSleep, Inv, ScheduleOK, Min2, AtMenu, MenuPoint, rtc, flash,
            power, send, menu, session, history
      <3>3. QuietOnce'
        BY <1>26, <2>2, SizesOK
        DEF Command, CmdDeepSleep, Inv, TypeOK, QuietOnce, rtc, flash, power, send, menu,
            session, history
      <3>4. AwakeOK'
        BY <1>26, <2>2, SizesOK
        DEF Command, CmdDeepSleep, Inv, TypeOK, AwakeOK, NopZeroStaysAwake, AtMenu,
            MenuPoint, rtc, flash, power, send, menu, session, history
      <3> QED
        BY <3>1, <3>2, <3>3, <3>4 DEF Inv
    <2>3. CASE CmdStop /\ UNCHANGED restartDue
      <3>1. TypeOK'
        <4>1. FlagsOK'
          BY <1>26, <2>3, TypeParts, Zenon
          DEF FlagsOK, Command, CmdStop, Inv, rtc, flash, power, send, menu, session,
              history
        <4>2. OthersOK'
          BY <1>26, <2>3, TypeParts, SizesOK
          DEF OthersOK, Timeouts, Command, CmdStop, Inv, rtc, flash, power, send, menu,
              session, history
        <4> QED
          BY <4>1, <4>2, TypeParts DEF TypeOK, FlagsOK, OthersOK
      <3>2. ScheduleOK'
        BY <1>26, <2>3, SizesOK
        DEF Command, CmdStop, Inv, ScheduleOK, Min2, AtMenu, MenuPoint, rtc, flash, power,
            send, menu, session, history
      <3>3. QuietOnce'
        BY <1>26, <2>3, SizesOK
        DEF Command, CmdStop, Inv, TypeOK, QuietOnce, rtc, flash, power, send, menu,
            session, history
      <3>4. AwakeOK'
        BY <1>26, <2>3, SizesOK
        DEF Command, CmdStop, Inv, TypeOK, AwakeOK, NopZeroStaysAwake, AtMenu, MenuPoint,
            rtc, flash, power, send, menu, session, history
      <3> QED
        BY <3>1, <3>2, <3>3, <3>4 DEF Inv
    <2>4. CASE CmdSendInterval /\ UNCHANGED restartDue
      <3>1. TypeOK'
        <4>1. FlagsOK'
          BY <1>26, <2>4, TypeParts, Zenon
          DEF FlagsOK, Command, CmdSendInterval, Inv, rtc, flash, power, send, menu,
              session, history
        <4>2. OthersOK'
          BY <1>26, <2>4, TypeParts, SizesOK
          DEF OthersOK, Timeouts, Command, CmdSendInterval, Inv, rtc, flash, power, send,
              menu, session, history
        <4> QED
          BY <4>1, <4>2, TypeParts DEF TypeOK, FlagsOK, OthersOK
      <3>2. ScheduleOK'
        BY <1>26, <2>4, SizesOK
        DEF Command, CmdSendInterval, Inv, ScheduleOK, Min2, AtMenu, MenuPoint, rtc, flash,
            power, send, menu, session, history
      <3>3. QuietOnce'
        BY <1>26, <2>4, SizesOK
        DEF Command, CmdSendInterval, Inv, TypeOK, QuietOnce, rtc, flash, power, send,
            menu, session, history
      <3>4. AwakeOK'
        BY <1>26, <2>4, SizesOK
        DEF Command, CmdSendInterval, Inv, TypeOK, AwakeOK, NopZeroStaysAwake, AtMenu,
            MenuPoint, rtc, flash, power, send, menu, session, history
      <3> QED
        BY <3>1, <3>2, <3>3, <3>4 DEF Inv
    <2>5. CASE CmdSetDuration /\ UNCHANGED restartDue
      <3>1. TypeOK'
        <4>1. FlagsOK'
          BY <1>26, <2>5, TypeParts, Zenon
          DEF FlagsOK, Command, CmdSetDuration, Byte, Inv, rtc, flash, power, send, menu,
              session, history
        <4>2. OthersOK'
          BY <1>26, <2>5, TypeParts, SizesOK
          DEF OthersOK, Timeouts, Command, CmdSetDuration, Byte, Inv, rtc, flash, power,
              send, menu, session, history
        <4> QED
          BY <4>1, <4>2, TypeParts DEF TypeOK, FlagsOK, OthersOK
      <3>2. ScheduleOK'
        BY <1>26, <2>5, SizesOK
        DEF Command, CmdSetDuration, Byte, Inv, ScheduleOK, Min2, AtMenu, MenuPoint, rtc,
            flash, power, send, menu, session, history
      <3>3. QuietOnce'
        BY <1>26, <2>5, SizesOK
        DEF Command, CmdSetDuration, Byte, Inv, TypeOK, QuietOnce, rtc, flash, power, send,
            menu, session, history
      <3>4. AwakeOK'
        BY <1>26, <2>5, SizesOK
        DEF Command, CmdSetDuration, Byte, Inv, TypeOK, AwakeOK, NopZeroStaysAwake, AtMenu,
            MenuPoint, rtc, flash, power, send, menu, session, history
      <3> QED
        BY <3>1, <3>2, <3>3, <3>4 DEF Inv
    <2>6. CASE CmdSendNow
      <3>1. TypeOK'
        <4>1. FlagsOK'
          BY <1>26, <2>6, TypeParts, Zenon
          DEF FlagsOK, Command, CmdSendNow, GivesUp, QuietRestart, Rearm, Inv, rtc, flash, power, send, menu,
              session, history
        <4>2. OthersOK'
          BY <1>26, <2>6, TypeParts, SizesOK
          DEF OthersOK, Timeouts, Command, CmdSendNow, GivesUp, QuietRestart, Rearm, Inv, rtc, flash, power,
              send, menu, session, history
        <4> QED
          BY <4>1, <4>2, TypeParts DEF TypeOK, FlagsOK, OthersOK
      <3>2. ScheduleOK'
        BY <1>26, <2>6, SizesOK
        DEF Command, CmdSendNow, GivesUp, QuietRestart, Rearm, Inv, ScheduleOK, Min2, AtMenu,
            MenuPoint, rtc, flash, power, send, menu, session, history
      <3>3. QuietOnce'
        <4>1. CASE QuietRestart
          BY <4>1 DEF QuietRestart, QuietOnce
        <4>2. CASE UNCHANGED <<fQuiet, restartDue>>
          BY <1>26, <2>6, <4>2 DEF Command, CmdSendNow, AtMenu, MenuPoint, Inv, QuietOnce
        <4> QED
          BY <2>6, <4>1, <4>2 DEF CmdSendNow, GivesUp
      <3>4. AwakeOK'
        BY <1>26, <2>6, SizesOK
        DEF Command, CmdSendNow, GivesUp, QuietRestart, Rearm, Inv, TypeOK, AwakeOK, NopZeroStaysAwake, AtMenu,
            MenuPoint, rtc, flash, power, send, menu, session, history
      <3> QED
        BY <3>1, <3>2, <3>3, <3>4 DEF Inv
    <2> QED
      BY <1>26, <2>1, <2>2, <2>3, <2>4, <2>5, <2>6 DEF Command
  <1> QED
    BY <1>1, <1>2, <1>3, <1>4, <1>5, <1>6, <1>7, <1>8, <1>9, <1>10, <1>11, <1>12, <1>13, <1>14,
       <1>15, <1>16, <1>17, <1>18, <1>19, <1>20, <1>21, <1>22, <1>23, <1>24, <1>25, <1>26
    DEF Next, Program

\* So it holds throughout every behaviour.
LEMMA InvAlways == Spec => []Inv
  <1>1. Init => Inv
    <2> SUFFICES ASSUME Init
                 PROVE  Inv
      OBVIOUS
    <2>1. FlagsOK
      BY Zenon DEF Init, FlagsOK
    <2>2. OthersOK
      BY SizesOK DEF Init, OthersOK, Timeouts
    <2>3. ScheduleOK /\ QuietOnce /\ AwakeOK
      BY SizesOK DEF Init, ScheduleOK, Min2, QuietOnce, AwakeOK, NopZeroStaysAwake
    <2> QED
      BY <2>1, <2>2, <2>3, TypeParts DEF Inv
  <1>2. Inv /\ UNCHANGED vars => Inv'
    <2> SUFFICES ASSUME Inv, UNCHANGED vars
                 PROVE  Inv'
      OBVIOUS
    <2>1. FlagsOK'
      BY TypeParts, Zenon DEF vars, rtc, flash, power, send, menu, session, Inv, FlagsOK
    <2>2. OthersOK'
      BY TypeParts DEF vars, rtc, flash, power, send, session, history, Inv, OthersOK, Timeouts
    <2>3. TypeOK'
      BY <2>1, <2>2, TypeParts DEF TypeOK, FlagsOK, OthersOK
    <2>4. ScheduleOK'
      BY DEF vars, rtc, power, history, Inv, ScheduleOK, Min2
    <2>5. QuietOnce' /\ AwakeOK'
      BY Zenon DEF vars, flash, power, menu, session, Inv, QuietOnce, AwakeOK, NopZeroStaysAwake
    <2> QED
      BY <2>3, <2>4, <2>5 DEF Inv
  <1> QED
    BY <1>1, <1>2, InvStep, PTL DEF Spec

\* Every variable keeps its type; in particular the counter in RTC memory stays
\* within a byte although it is stored from an int (RTCMemStore::setIterations).
THEOREM TypeCorrect == Spec => []TypeOK
  <1>1. Inv => TypeOK
    BY DEF Inv
  <1> QED
    BY <1>1, InvAlways, PTL

\* Nothing else decides to send in this iteration.
LEMMA OnlyIterationDecides == Next /\ willSend' /\ ~willSend => OnIterationStart
  <1> SUFFICES ASSUME Next, willSend', ~willSend, ~OnIterationStart
               PROVE  FALSE
    BY Zenon
  <1>1. ~(\E why \in {"wake", "restart", "crash", "pin", "power"} : Begin(why))
    BY DEF Begin
  <1>2. ~UNCHANGED send
    BY DEF send
  <1>3. ~UNCHANGED willSend
    BY Zenon
  <1>4. ~(Wake \/ QueuedRestart \/ CmdRestart \/ DivideByZero \/ ResetPin \/ PowerLoss)
    BY <1>1 DEF Wake, QueuedRestart, CmdRestart, EspRestart, DivideByZero, ResetPin, PowerLoss
  <1>5. ~Command
    BY <1>2, <1>3
    DEF Command, CmdNop, NopFrame, CmdDeepSleep, CmdStop, CmdSendInterval, CmdSetDuration,
        CmdSendNow
  <1> QED
    BY <1>2, <1>3, <1>4, <1>5
    DEF Next, Program, SetupInt, SetupDestinations, EndSetup, FollowingNop, NopFrame, FirstMenuLoop,
        OnRawRead, NotDue, Send, SendFails, OnTimeout, NoTimeout, SecondMenuLoop, GoingToSleep, DeepSleep,
        WithinTheHour, AfterAnHour, Button, Network

\* Nothing else counts iterations.
LEMMA OnlyIterationCounts == Next /\ gap' # gap => OnIterationStart
  <1> SUFFICES ASSUME Next, gap' # gap, ~OnIterationStart
               PROVE  FALSE
    OBVIOUS
  <1>1. ~UNCHANGED history /\ ~ClearRtc
    BY DEF history, ClearRtc
  <1> QED
    BY <1>1
    DEF Next, Program, SetupInt, SetupDestinations, EndSetup, FollowingNop, FirstMenuLoop,
        OnRawRead, NotDue, Send, SendFails, OnTimeout, NoTimeout, SecondMenuLoop, GoingToSleep, DeepSleep,
        WithinTheHour, AfterAnHour, Button, Network, Wake, QueuedRestart, CmdRestart, EspRestart,
        DivideByZero, ResetPin, PowerLoss, Command

\* However the device is woken, reset and reconfigured, it stays silent only while
\* the interval of the iteration before asks for it: a counter that is past a
\* shortened interval starts over (the >= of DestinationManager::onIterationStart).
THEOREM NeverLate == Spec => SendPeriod
  <1>1. Inv /\ [Next]_vars => [gap' \in {0, gap} \/ (gap' < period /\ gap' <= ByteMax)]_vars
    <2> SUFFICES ASSUME Inv, Next, gap' \notin {0, gap}
                 PROVE  gap' < period /\ gap' <= ByteMax
      OBVIOUS
    <2>1. OnIterationStart
      BY OnlyIterationCounts
    <2>2. rtcIt # 0 /\ gap' = gap + 1
      BY <2>1 DEF OnIterationStart
    <2> QED
      BY <2>2, SizesOK DEF Inv, TypeOK, ScheduleOK
  <1> QED
    BY <1>1, InvAlways, PTL DEF Spec, SendPeriod

\* A device that comes to send does so no earlier than one interval after the last
\* time, the one that applied at the iteration before, or 256 iterations if it is
\* longer than the counter's byte (DestinationManager::onIterationStart,
\* RTCMemStore::setIterations).
THEOREM OnSchedule == Spec => SendsOnSchedule
  <1>1. Inv /\ [Next]_vars => [(willSend' /\ ~willSend /\ period # 0)
                                => gap + 1 >= Min2(period, ByteMax + 1)]_vars
    <2> SUFFICES ASSUME Inv, Next, willSend', ~willSend, period # 0
                 PROVE  gap + 1 >= Min2(period, ByteMax + 1)
      OBVIOUS
    <2>1. OnIterationStart
      BY OnlyIterationDecides
    <2>2. rtcIt = 0
      BY <2>1 DEF OnIterationStart
    <2> QED
      BY <2>2 DEF Inv, ScheduleOK
  <1> QED
    BY <1>1, InvAlways, PTL DEF Spec, SendsOnSchedule

\* The quiet start is consumed by the boot it was set for (PowerManager::setupInt).
THEOREM QuietForOneBoot == Spec => []QuietOnce
  <1>1. Inv => QuietOnce
    BY DEF Inv
  <1> QED
    BY <1>1, InvAlways, PTL

\* After nop 0 neither the flag nor a running timer can start the power-safe mode
\* (PowerManager::onNopInst).
THEOREM NopZeroHolds == Spec => []NopZeroStaysAwake
  <1>1. Inv => NopZeroStaysAwake
    BY DEF Inv, AwakeOK
  <1> QED
    BY <1>1, InvAlways, PTL

-----------------------------------------------------------------------------
\* What the messages of the firmware say of restarts and of nop, where it holds.

\* "restart device to exit" (PowerManager.cpp:83) is right of espRestart and of a
\* loss of power, which clear inDeepSleep; not of what leaves RTC memory alone, the
\* reset pin and an exception.
RestartLeavesPowerSafe ==
  pc = "iteration" /\ cause \in {"power", "restart"} => ~isLowPower

ClearedOK ==
  /\ pc = "boot" /\ cause \in {"power", "restart"} => ~rtcSleep
  /\ RestartLeavesPowerSafe

LEMMA ClearedStep == ClearedOK /\ [Next]_vars => ClearedOK'
  <1> SUFFICES ASSUME ClearedOK, [Next]_vars
               PROVE  ClearedOK'
    OBVIOUS
  <1> USE DEF ClearedOK, RestartLeavesPowerSafe
  <1>1. CASE SetupInt
    BY <1>1 DEF SetupInt, session, rtc
  <1>2. CASE Wake \/ ResetPin \/ DivideByZero
    BY <1>2 DEF Wake, ResetPin, DivideByZero, Begin
  <1>3. CASE QueuedRestart \/ CmdRestart \/ PowerLoss
    BY <1>3 DEF QueuedRestart, CmdRestart, PowerLoss, EspRestart, Begin, ClearRtc
  <1>4. CASE OnIterationStart \/ SetupDestinations \/ EndSetup \/ FirstMenuLoop \/ OnRawRead
             \/ NotDue \/ Send \/ SendFails \/ OnTimeout \/ NoTimeout \/ SecondMenuLoop
             \/ GoingToSleep \/ DeepSleep \/ WithinTheHour \/ AfterAnHour
    <2>1. pc' \notin {"boot", "iteration"}
      BY <1>4 DEF OnIterationStart, SetupDestinations, EndSetup, FirstMenuLoop, OnRawRead, NotDue,
         Send, SendFails, OnTimeout, NoTimeout, SecondMenuLoop, GoingToSleep, DeepSleep,
         WithinTheHour, AfterAnHour, StaysUp
    <2> QED
      BY <2>1
  <1>5. CASE Command \/ FollowingNop \/ Button
    <2>1. pc \notin {"boot", "iteration"}
      BY <1>5 DEF Command, AtMenu, MenuPoint, FollowingNop, Button
    <2>2. pc' \in {pc, "asleep"}
      BY <1>5 DEF Command, FollowingNop, Button, NopFrame, CmdNop, CmdDeepSleep, CmdStop,
         CmdSendInterval, CmdSetDuration, CmdSendNow
    <2> QED
      BY <2>1, <2>2
  <1>6. CASE Network
    BY <1>6 DEF Network, rtc, power, session
  <1>7. CASE UNCHANGED vars
    BY <1>7 DEF vars, rtc, power, session
  <1> QED
    BY <1>1, <1>2, <1>3, <1>4, <1>5, <1>6, <1>7 DEF Next, Program

\* A device that has restarted by espRestart or after a loss of power is not in
\* the power-safe mode (espRestart clears RTC memory before ESP.restart).
THEOREM RestartLeaves == Spec => []RestartLeavesPowerSafe
  <1>1. Init => ClearedOK
    BY DEF Init, ClearedOK, RestartLeavesPowerSafe
  <1>2. ClearedOK => RestartLeavesPowerSafe
    BY DEF ClearedOK
  <1> QED
    BY <1>1, <1>2, ClearedStep, PTL DEF Spec

\* "send to prevent going into power-safe operation" (PowerManager.cpp:64) is right
\* of every nop 0 that runs before the decision to sleep: after one the device does
\* not make it.  Only a nop 0 in the flush that follows the decision is ignored.
NopHeard ==
  [][stayAwake' /\ pc' \in {"flushing", "asleep", "halted"}
       => pc \in {"flushing", "asleep", "halted"}]_vars

\* The device does not begin to sleep with nop 0 as its last power command
\* (PowerManager::loopPowerManager tests isLowPower before it flushes the log).
THEOREM NopZeroHeard == Spec => NopHeard
  <1> DEFINE Step == stayAwake' /\ pc' \in {"flushing", "asleep", "halted"}
                       => pc \in {"flushing", "asleep", "halted"}
  <1>1. Inv /\ [Next]_vars => [Step]_vars
    <2> SUFFICES ASSUME Inv, Next, stayAwake', pc' \in {"flushing", "asleep", "halted"},
                        pc \notin {"flushing", "asleep", "halted"}
                 PROVE  FALSE
      OBVIOUS
    <2>1. CASE GoingToSleep
      <3>1. isLowPower /\ stayAwake
        BY <2>1 DEF GoingToSleep
      <3> QED
        BY <3>1 DEF Inv, AwakeOK, NopZeroStaysAwake
    <2>2. CASE Command
      <3>1. CASE CmdDeepSleep
        BY <3>1 DEF CmdDeepSleep
      <3>2. CASE ~CmdDeepSleep
        <4>1. pc' = pc
          BY <2>2, <3>2 DEF Command, CmdNop, CmdStop, CmdSendInterval, CmdSetDuration, CmdSendNow,
             NopFrame
        <4> QED
          BY <4>1
      <3> QED
        BY <3>1, <3>2
    <2>3. CASE FollowingNop \/ Button \/ Network
      BY <2>3 DEF FollowingNop, Button, Network, NopFrame
    <2>4. CASE DeepSleep
      BY <2>4 DEF DeepSleep
    <2>5. pc' \in {"boot", "iteration", "setup", "timer", "menu1", "plugins", "sending", "timers",
                   "menu2", "power"}
          \/ GoingToSleep \/ Command \/ FollowingNop \/ Button \/ Network \/ DeepSleep
      BY DEF Next, Program, SetupInt, OnIterationStart, SetupDestinations, EndSetup, FirstMenuLoop,
         OnRawRead, NotDue, Send, SendFails, OnTimeout, NoTimeout, SecondMenuLoop, WithinTheHour,
         AfterAnHour, StaysUp, Wake, DivideByZero, CmdRestart, QueuedRestart, EspRestart, ResetPin,
         PowerLoss, Begin
    <2> QED
      BY <2>1, <2>2, <2>3, <2>4, <2>5
  <1> QED
    BY <1>1, InvAlways, PTL DEF Spec, NopHeard

-----------------------------------------------------------------------------
\* The log, which the power manager flushes before deep sleep.

\* The types of the parts of the state the bounds depend on.
BufferOK ==
  /\ data \in Seq(Nat)
  /\ written \in Nat
  /\ flushes \in Seq({"url", "wss"})

\* The inductive invariant.
LogInv == BufferOK /\ InBounds /\ NeverStuck

\* A flush that has started leaves a flush in progress.
LEMMA StartedFlush ==
  ASSUME flushes \in Seq({"url", "wss"}), StartFlush
  PROVE  flushes' \in Seq({"url", "wss"}) /\ flushes' # <<>>
  BY DEF StartFlush

\* The flush that ends was in progress.
LEMMA EndedFlush ==
  ASSUME NEW d, flushes \in Seq({"url", "wss"}), Waiting(d)
  PROVE  Front(flushes) \in Seq({"url", "wss"})
  BY DEF Waiting, Front

\* Emptying the buffer keeps the invariant.
LEMMA Emptied ==
  ASSUME NEW d, LogInv, Waiting(d), Empty, UNCHANGED written
  PROVE  LogInv'
  <1>1. BufferOK'
    BY EndedFlush DEF LogInv, BufferOK, Empty
  <1>2. Len(data') = 0
    BY DEF Empty
  <1>3. InBounds'
    BY <1>2, LogSizesOK DEF InBounds
  <1>4. NeverStuck'
    BY <1>2, LogSizesOK DEF NeverStuck, FlushAt
  <1> QED
    BY <1>1, <1>3, <1>4 DEF LogInv

\* Every step keeps the invariant.
LEMMA LogInvStep == LogInv /\ [LogNext]_logVars => LogInv'
  <1> SUFFICES ASSUME LogInv, [LogNext]_logVars
               PROVE  LogInv'
    OBVIOUS
  <1>1. CASE Write
    <2>1. CASE ~Room
      BY <1>1, <2>1 DEF Write, LogInv, BufferOK, InBounds, NeverStuck, FlushAt
    <2>2. CASE Room
      <3>1. data' = Append(data, written + 1) /\ written' = written + 1
        BY <1>1, <2>2 DEF Write
      <3>2. Len(data') = Len(data) + 1 /\ data' \in Seq(Nat) /\ written' \in Nat
        BY <3>1 DEF LogInv, BufferOK
      <3>3. InBounds'
        BY <2>2, <3>2, LogSizesOK DEF InBounds, Room, LogInv, BufferOK
      <3>4. CASE Len(data) + 1 = FlushAt
        <4>1. StartFlush
          BY <1>1, <2>2, <3>4 DEF Write
        <4>2. flushes' \in Seq({"url", "wss"}) /\ flushes' # <<>>
          BY <4>1, StartedFlush DEF LogInv, BufferOK
        <4>3. NeverStuck'
          BY <4>2 DEF NeverStuck
        <4> QED
          BY <3>2, <3>3, <4>2, <4>3 DEF LogInv, BufferOK
      <3>5. CASE Len(data) + 1 # FlushAt
        <4>1. UNCHANGED flushes
          BY <1>1, <2>2, <3>5 DEF Write
        <4>2. Len(data) \in Nat /\ FlushAt \in Nat /\ FlushAt' = FlushAt
          BY LogSizesOK DEF FlushAt, LogInv, BufferOK
        <4>3. Len(data') >= FlushAt => Len(data) >= FlushAt
          BY <3>2, <3>5, <4>2
        <4>4. NeverStuck'
          BY <4>1, <4>2, <4>3 DEF NeverStuck, LogInv
        <4> QED
          BY <3>2, <3>3, <4>1, <4>4 DEF LogInv, BufferOK
      <3> QED
        BY <3>4, <3>5
    <2> QED
      BY <2>1, <2>2
  <1>2. CASE FlushLog
    BY <1>2, StartedFlush DEF FlushLog, LogInv, BufferOK, InBounds, NeverStuck, FlushAt
  <1>3. CASE PostUrl
    <2>1. CASE logToWss
      <3>1. flushes' = Front(flushes) \o <<"wss">> /\ UNCHANGED <<data, written>>
        BY <1>3, <2>1 DEF PostUrl
      <3>2. Front(flushes) \in Seq({"url", "wss"})
        BY <1>3, EndedFlush DEF PostUrl, LogInv, BufferOK
      <3>3. flushes' \in Seq({"url", "wss"}) /\ flushes' # <<>>
        BY <3>1, <3>2
      <3> QED
        BY <3>1, <3>3 DEF LogInv, BufferOK, InBounds, NeverStuck, FlushAt
    <2>2. CASE ~logToWss
      BY <1>3, <2>2, Emptied DEF PostUrl
    <2> QED
      BY <2>1, <2>2
  <1>4. CASE SendWss
    BY <1>4, Emptied DEF SendWss
  <1>5. CASE WssConnected
    BY <1>5 DEF WssConnected, LogInv, BufferOK, InBounds, NeverStuck, FlushAt
  <1>6. CASE UNCHANGED logVars
    BY <1>6 DEF logVars, LogInv, BufferOK, InBounds, NeverStuck, FlushAt
  <1> QED
    BY <1>1, <1>2, <1>3, <1>4, <1>5, <1>6 DEF LogNext

\* So it holds throughout every behaviour.
LEMMA LogInvAlways == LogSpec => []LogInv
  <1>1. LogInit => LogInv
    BY LogSizesOK DEF LogInit, LogInv, BufferOK, InBounds, NeverStuck, FlushAt
  <1> QED
    BY <1>1, LogInvStep, PTL DEF LogSpec

\* data[length] is inside the array whatever is logged while a flush waits for
\* the network (LoggingPrinter::myWrite).
THEOREM LogInBounds == LogSpec => []InBounds
  <1>1. LogInv => InBounds
    BY DEF LogInv
  <1> QED
    BY <1>1, LogInvAlways, PTL

\* The buffer never sits at or past its flush mark without a flush in progress,
\* after which the equality test of myWrite would never start one again.
THEOREM LogNeverStuck == LogSpec => []NeverStuck
  <1>1. LogInv => NeverStuck
    BY DEF LogInv
  <1> QED
    BY <1>1, LogInvAlways, PTL

LEMMA Longer ==
  ASSUME NEW S, NEW s \in Seq(S), NEW x \in S
  PROVE  Append(s, x) \in Seq(S) /\ s \o <<x>> \in Seq(S)
  OBVIOUS

\* What a destination is sent is a character of the buffer.
LEMMA Delivered ==
  ASSUME LogTypeOK, NEW d \in {"url", "wss"}, Deliver(d)
  PROVE  posted' \in [{"url", "wss"} -> 0 .. MaxBytes]
  <1> DEFINE x == IF data = <<>> THEN posted[d] ELSE Last(data)
  <1>1. posted \in [{"url", "wss"} -> 0 .. MaxBytes] /\ data \in Seq(1 .. MaxBytes)
    BY DEF LogTypeOK
  <1>2. x \in 0 .. MaxBytes
    BY <1>1, LogSizesOK DEF Last
  <1>3. posted' = posted \/ posted' = [posted EXCEPT ![d] = x]
    BY DEF Deliver
  <1> HIDE DEF x
  <1> QED
    BY <1>1, <1>2, <1>3

LEMMA Shorter ==
  ASSUME NEW S, Empty
  PROVE  data' \in Seq(S)
  BY DEF Empty

LEMMA LogTypeStep == LogTypeOK /\ [LogNext]_logVars => LogTypeOK'
  <1> SUFFICES ASSUME LogTypeOK, [LogNext]_logVars
               PROVE  LogTypeOK'
    OBVIOUS
  <1>0. flushes \in Seq({"url", "wss"}) /\ data \in Seq(1 .. MaxBytes) /\ written \in 0 .. MaxBytes
    BY DEF LogTypeOK
  <1>1. CASE Write
    <2>1. flushes' \in Seq({"url", "wss"})
      BY <1>0, <1>1, StartedFlush DEF Write
    <2>2. written + 1 \in 1 .. MaxBytes /\ written' \in 0 .. MaxBytes
      BY <1>0, <1>1, LogSizesOK DEF Write
    <2>3. data' \in Seq(1 .. MaxBytes)
      <3>1. Append(data, written + 1) \in Seq(1 .. MaxBytes)
        BY <1>0, <2>2, Longer
      <3> QED
        BY <1>0, <1>1, <3>1, Zenon DEF Write
    <2>4. UNCHANGED <<hasUrl, logToWss, posted>>
      BY <1>1 DEF Write
    <2> QED
      BY <2>1, <2>2, <2>3, <2>4, Zenon DEF LogTypeOK
  <1>2. CASE FlushLog
    <2>1. flushes' \in Seq({"url", "wss"}) /\ UNCHANGED <<data, written, hasUrl, logToWss, posted>>
      BY <1>0, <1>2, StartedFlush DEF FlushLog
    <2> QED
      BY <2>1, Zenon DEF LogTypeOK
  <1>3. CASE PostUrl
    <2>1. posted' \in [{"url", "wss"} -> 0 .. MaxBytes] /\ UNCHANGED <<written, hasUrl, logToWss>>
      BY <1>3, Delivered DEF PostUrl
    <2>2. Front(flushes) \in Seq({"url", "wss"})
      BY <1>0, <1>3, EndedFlush DEF PostUrl
    <2>3. CASE logToWss
      <3>1. flushes' = Front(flushes) \o <<"wss">> /\ data' = data
        BY <1>3, <2>3 DEF PostUrl
      <3>2. flushes' \in Seq({"url", "wss"})
        BY <2>2, <3>1, Longer
      <3> QED
        BY <2>1, <3>1, <3>2, Zenon DEF LogTypeOK
    <2>4. CASE ~logToWss
      <3>1. Empty
        BY <1>3, <2>4 DEF PostUrl
      <3>2. flushes' \in Seq({"url", "wss"})
        BY <2>2, <3>1 DEF Empty
      <3>3. data' \in Seq(1 .. MaxBytes)
        BY <3>1, Shorter
      <3> QED
        BY <2>1, <3>2, <3>3, Zenon DEF LogTypeOK
    <2> QED
      BY <2>3, <2>4
  <1>4. CASE SendWss
    <2>1. posted' \in [{"url", "wss"} -> 0 .. MaxBytes] /\ UNCHANGED <<written, hasUrl, logToWss>>
      BY <1>4, Delivered DEF SendWss
    <2>2. Front(flushes) \in Seq({"url", "wss"})
      BY <1>0, <1>4, EndedFlush DEF SendWss
    <2>3. flushes' \in Seq({"url", "wss"}) /\ data' \in Seq(1 .. MaxBytes)
      BY <1>4, <2>2, Shorter DEF SendWss, Empty
    <2> QED
      BY <2>1, <2>3, Zenon DEF LogTypeOK
  <1>5. CASE WssConnected
    BY <1>5, Zenon DEF WssConnected, LogTypeOK
  <1>6. CASE UNCHANGED logVars
    BY <1>6, Zenon DEF logVars, LogTypeOK
  <1> QED
    BY <1>1, <1>2, <1>3, <1>4, <1>5, <1>6 DEF LogNext

LEMMA LogTypeInit == LogInit => LogTypeOK
  <1> SUFFICES ASSUME LogInit
               PROVE  LogTypeOK
    OBVIOUS
  <1>1. data \in Seq(1 .. MaxBytes) /\ flushes \in Seq({"url", "wss"})
    BY DEF LogInit
  <1>2. written \in 0 .. MaxBytes /\ posted \in [{"url", "wss"} -> 0 .. MaxBytes]
    BY LogSizesOK DEF LogInit
  <1>3. hasUrl \in BOOLEAN /\ logToWss \in BOOLEAN
    BY DEF LogInit
  <1> QED
    BY <1>1, <1>2, <1>3, Zenon DEF LogTypeOK

\* The buffer holds characters that were written, and what a destination was sent
\* last is one of them, however flushes nest.
THEOREM LogTypeCorrect == LogSpec => []LogTypeOK
  BY LogTypeInit, LogTypeStep, PTL DEF LogSpec

-----------------------------------------------------------------------------
\* What was sent lies before what the buffer holds.

Ordered ==
  /\ \A i \in DOMAIN data : data[i] <= written
  /\ \A d \in {"url", "wss"} : posted[d] <= written

\* The last destination of a flush empties the buffer in the same step.
Unsent ==
  \A i \in DOMAIN data : data[i] > posted["wss"] /\ (~logToWss => data[i] > posted["url"])

SentInv == LogTypeOK /\ Ordered /\ Unsent

\* Only the destination a flush delivers to learns of characters, all written.
LEMMA DeliveredWritten ==
  ASSUME LogTypeOK, Ordered, NEW d \in {"url", "wss"}, Deliver(d)
  PROVE  /\ \A e \in {"url", "wss"} : posted'[e] <= written
         /\ \A e \in {"url", "wss"} : e # d => posted'[e] = posted[e]
  <1> DEFINE x == IF data = <<>> THEN posted[d] ELSE Last(data)
  <1>1. posted \in [{"url", "wss"} -> 0 .. MaxBytes] /\ data \in Seq(1 .. MaxBytes)
    BY DEF LogTypeOK
  <1>2. x <= written
    <2>1. CASE data = <<>>
      BY <2>1 DEF Ordered
    <2>2. CASE data # <<>>
      <3>1. Len(data) \in DOMAIN data /\ Last(data) = data[Len(data)]
        BY <1>1, <2>2 DEF Last
      <3> QED
        BY <2>2, <3>1 DEF Ordered
    <2> QED
      BY <2>1, <2>2
  <1>3. posted' = posted \/ posted' = [posted EXCEPT ![d] = x]
    BY DEF Deliver
  <1> HIDE DEF x
  <1> QED
    BY <1>1, <1>2, <1>3 DEF Ordered

LEMMA Elements ==
  ASSUME NEW n \in Nat, NEW s \in Seq(1 .. n)
  PROVE  \A i \in DOMAIN s : s[i] \in 1 .. n
  OBVIOUS

LEMMA AppendedElements ==
  ASSUME NEW S, NEW s \in Seq(S), NEW x \in S
  PROVE  /\ DOMAIN Append(s, x) = 1 .. Len(s) + 1 /\ DOMAIN s = 1 .. Len(s) /\ Len(s) \in Nat
         /\ Append(s, x)[Len(s) + 1] = x /\ \A i \in DOMAIN s : Append(s, x)[i] = s[i]
  OBVIOUS

LEMMA EmptiedSent ==
  ASSUME Empty, \A e \in {"url", "wss"} : posted'[e] <= written, UNCHANGED written
  PROVE  Ordered' /\ Unsent'
  <1>1. data' = <<>>
    BY DEF Empty
  <1>2. DOMAIN data' = {}
    BY <1>1
  <1> QED
    BY <1>2 DEF Ordered, Unsent

LEMMA SentStep == SentInv /\ [LogNext]_logVars => SentInv'
  <1> SUFFICES ASSUME SentInv, [LogNext]_logVars
               PROVE  Ordered' /\ Unsent'
    BY LogTypeStep DEF SentInv
  <1>0. /\ LogTypeOK /\ Ordered /\ Unsent
        /\ data \in Seq(1 .. MaxBytes) /\ written \in 0 .. MaxBytes /\ written \in Int
        /\ posted \in [{"url", "wss"} -> 0 .. MaxBytes]
    BY LogSizesOK DEF SentInv, LogTypeOK
  <1>1. CASE Write
    <2>1. written' = written + 1 /\ UNCHANGED <<logToWss, posted>>
      BY <1>1 DEF Write
    <2>0. \A i \in DOMAIN data : data[i] \in Int
      BY <1>0, LogSizesOK, Elements
    <2>2. CASE data' = data
      <3>1. \A d \in {"url", "wss"} : posted[d] \in Int
        BY <1>0, LogSizesOK
      <3> QED
        BY <1>0, <2>0, <2>1, <2>2, <3>1 DEF Ordered, Unsent
    <2>3. CASE data' = Append(data, written + 1)
      <3>1. written + 1 \in 1 .. MaxBytes
        BY <1>0, <1>1, LogSizesOK DEF Write
      <3>2. /\ DOMAIN data' = 1 .. Len(data) + 1 /\ DOMAIN data = 1 .. Len(data) /\ Len(data) \in Nat
            /\ data'[Len(data) + 1] = written + 1 /\ \A i \in DOMAIN data : data'[i] = data[i]
        BY <1>0, <2>3, <3>1, AppendedElements
      <3>3. \A d \in {"url", "wss"} : posted[d] \in Int
        BY <1>0, LogSizesOK
      <3>4. Ordered'
        BY <1>0, <2>0, <2>1, <3>2, <3>3 DEF Ordered
      <3>5. Unsent'
        BY <1>0, <2>0, <2>1, <3>2, <3>3 DEF Unsent, Ordered
      <3> QED
        BY <3>4, <3>5
    <2> QED
      BY <1>1, <2>2, <2>3 DEF Write
  <1>2. CASE FlushLog
    BY <1>0, <1>2 DEF FlushLog, Ordered, Unsent
  <1>3. CASE PostUrl
    <2>1. /\ \A e \in {"url", "wss"} : posted'[e] <= written
          /\ posted'["wss"] = posted["wss"]
      BY <1>0, <1>3, DeliveredWritten DEF PostUrl
    <2>2. UNCHANGED <<written, logToWss>>
      BY <1>3 DEF PostUrl
    <2>3. CASE logToWss
      <3>1. data' = data
        BY <1>3, <2>3 DEF PostUrl
      <3> QED
        BY <1>0, <2>1, <2>2, <2>3, <3>1 DEF Ordered, Unsent
    <2>4. CASE ~logToWss
      <3>1. Empty
        BY <1>3, <2>4 DEF PostUrl
      <3> QED
        BY <2>1, <2>2, <3>1, EmptiedSent
    <2> QED
      BY <2>3, <2>4
  <1>4. CASE SendWss
    <2>1. \A e \in {"url", "wss"} : posted'[e] <= written
      BY <1>0, <1>4, DeliveredWritten DEF SendWss
    <2> QED
      BY <1>4, <2>1, EmptiedSent DEF SendWss
  <1>5. CASE WssConnected
    BY <1>0, <1>5 DEF WssConnected, Ordered, Unsent
  <1>6. CASE UNCHANGED logVars
    BY <1>0, <1>6 DEF logVars, Ordered, Unsent
  <1> QED
    BY <1>1, <1>2, <1>3, <1>4, <1>5, <1>6 DEF LogNext

\* A destination is never sent a character twice, the first of two destinations
\* excepted, although a flush nested in the wait of another sends first.
THEOREM NothingSentTwice == LogSpec => SentOnce
  <1> DEFINE Step == \A d \in {"url", "wss"} :
               (posted'[d] # posted[d] /\ (d = "url" => ~logToWss))
                 => \A i \in DOMAIN data : data[i] > posted[d]
  <1>1. LogInit => SentInv
    <2> SUFFICES ASSUME LogInit
                 PROVE  SentInv
      OBVIOUS
    <2>1. data = <<>> /\ written = 0 /\ posted = [d \in {"url", "wss"} |-> 0]
      BY DEF LogInit
    <2>2. DOMAIN data = {}
      BY <2>1
    <2>3. LogTypeOK
      BY LogTypeInit
    <2> QED
      BY <2>1, <2>2, <2>3 DEF SentInv, Ordered, Unsent
  <1>2. SentInv /\ [LogNext]_logVars => [Step]_logVars
    BY DEF SentInv, Unsent
  <1> QED
    BY <1>1, <1>2, SentStep, PTL DEF LogSpec, SentOnce

-----------------------------------------------------------------------------
\* However flushes nest, a destination is not sent older text after newer: the
\* buffer ends with the newest character that is in it or was sent.
InOrderOfWriting == [][\A d \in {"url", "wss"} : posted'[d] >= posted[d]]_logVars

NewestLast == data # <<>> => \A d \in {"url", "wss"} : posted[d] <= data[Len(data)]

LEMMA NewestStep ==
  ASSUME SentInv, NewestLast, [LogNext]_logVars
  PROVE  NewestLast'
  <1>0. /\ LogTypeOK /\ Ordered /\ data \in Seq(1 .. MaxBytes) /\ written \in 0 .. MaxBytes
        /\ posted \in [{"url", "wss"} -> 0 .. MaxBytes]
    BY DEF SentInv, LogTypeOK
  <1>1. CASE UNCHANGED <<data, posted>>
    BY <1>1 DEF NewestLast
  <1>2. CASE Write
    <2>1. posted' = posted /\ (data' = data \/ data' = Append(data, written + 1))
      BY <1>2 DEF Write
    <2>2. CASE data' = data
      BY <2>1, <2>2 DEF NewestLast
    <2>3. CASE data' = Append(data, written + 1)
      <3>1. written + 1 \in 1 .. MaxBytes /\ written \in Int
        BY <1>0, <1>2, LogSizesOK DEF Write
      <3>2. Len(data') = Len(data) + 1 /\ data'[Len(data) + 1] = written + 1
        BY <1>0, <2>3, <3>1
      <3>3. \A d \in {"url", "wss"} : posted[d] \in Int /\ posted[d] <= written
        BY <1>0, LogSizesOK DEF Ordered
      <3> QED
        BY <2>1, <3>1, <3>2, <3>3 DEF NewestLast
    <2> QED
      BY <2>1, <2>2, <2>3
  <1>3. CASE PostUrl /\ logToWss
    <2>1. data' = data /\ Deliver("url")
      BY <1>3 DEF PostUrl
    <2>2. CASE data # <<>>
      <3>1. data[Len(data)] \in Int
        BY <1>0, <2>2, LogSizesOK
      <3>2. \A d \in {"url", "wss"} : posted'[d] \in {posted[d], data[Len(data)]}
        BY <1>0, <2>1, <2>2 DEF Deliver, Last
      <3> QED
        BY <2>1, <2>2, <3>1, <3>2 DEF NewestLast
    <2> QED
      BY <2>1, <2>2 DEF NewestLast
  <1>4. CASE (PostUrl /\ ~logToWss) \/ SendWss
    <2>1. data' = <<>>
      BY <1>4 DEF PostUrl, SendWss, Empty
    <2> QED
      BY <2>1 DEF NewestLast
  <1> QED
    BY <1>1, <1>2, <1>3, <1>4 DEF LogNext, FlushLog, WssConnected, logVars

\* The log arrives in the order in which it was written, at the URL also when both
\* destinations are in use and a nested flush posts the same text twice
\* (LoggingPrinter::flushLog hands over the whole buffer).
THEOREM LogInOrder == LogSpec => InOrderOfWriting
  <1> DEFINE Step == \A d \in {"url", "wss"} : posted'[d] >= posted[d]
  <1>1. LogInit => SentInv /\ NewestLast
    <2> SUFFICES ASSUME LogInit
                 PROVE  SentInv /\ NewestLast
      OBVIOUS
    <2>1. data = <<>> /\ written = 0 /\ posted = [d \in {"url", "wss"} |-> 0]
      BY DEF LogInit
    <2>2. DOMAIN data = {}
      BY <2>1
    <2>3. LogTypeOK
      BY LogTypeInit
    <2> QED
      BY <2>1, <2>2, <2>3 DEF SentInv, Ordered, Unsent, NewestLast
  <1>2. SentInv /\ NewestLast /\ [LogNext]_logVars => NewestLast'
    BY NewestStep
  <1>3. SentInv /\ NewestLast /\ [LogNext]_logVars => [Step]_logVars
    <2> SUFFICES ASSUME SentInv, NewestLast, LogNext,
                        NEW d \in {"url", "wss"}
                 PROVE  posted'[d] >= posted[d]
      OBVIOUS
    <2>1. /\ data \in Seq(1 .. MaxBytes) /\ posted \in [{"url", "wss"} -> 0 .. MaxBytes]
          /\ posted[d] \in Int
      BY LogSizesOK DEF SentInv, LogTypeOK
    <2>2. CASE posted' = posted
      BY <2>1, <2>2
    <2>3. CASE data # <<>>
      <3>1. data[Len(data)] \in Int /\ posted[d] <= data[Len(data)]
        BY <2>1, <2>3, LogSizesOK DEF NewestLast
      <3>2. posted'[d] \in {posted[d], data[Len(data)]}
        BY <2>1, <2>3 DEF LogNext, Write, FlushLog, PostUrl, SendWss, WssConnected, Deliver, Last
      <3> QED
        BY <2>1, <3>1, <3>2
    <2>4. CASE data = <<>>
      <3>1. posted'[d] = posted[d]
        BY <2>1, <2>4 DEF LogNext, Write, FlushLog, PostUrl, SendWss, WssConnected, Deliver
      <3> QED
        BY <2>1, <3>1
    <2> QED
      BY <2>3, <2>4
  <1> QED
    BY <1>1, <1>2, <1>3, SentStep, PTL DEF LogSpec, InOrderOfWriting
=============================================================================
