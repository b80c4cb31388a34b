---------------------------- MODULE Clock_proofs ----------------------------
(***************************************************************************)
(* The clock kept in RTC memory is wrong by what resets cost and no more,  *)
(* and a daily period is recognised on the day of GMT: for any length of   *)
(* the day, of the counters and of the sleeps, and any time zones.         *)
(***************************************************************************)
EXTENDS Clock, TLAPS

-----------------------------------------------------------------------------
\* Numbers modulo n.

Cong(a, b, n) == \E k \in Int : a - b = k * n

LEMMA DivMod ==
  ASSUME NEW a \in Int, NEW n \in Nat \ {0}
  PROVE  /\ a % n \in 0 .. n - 1 /\ a % n \in Int /\ a \div n \in Int
         /\ a = (a \div n) * n + (a % n)
  OBVIOUS

LEMMA CongMod ==
  ASSUME NEW a \in Int, NEW n \in Nat \ {0}
  PROVE  Cong(a % n, a, n)
  <1> DEFINE r == a % n
             q == a \div n
  <1>1. r \in Int /\ q \in Int /\ a = q * n + r
    BY DivMod
  <1> HIDE DEF r, q
  <1>2. -q \in Int /\ r - a = (-q) * n
    BY <1>1
  <1> QED
    BY <1>2 DEF Cong, r

LEMMA CongAdd ==
  ASSUME NEW n \in Nat \ {0}, NEW a \in Int, NEW b \in Int, NEW c \in Int, NEW d \in Int,
         Cong(a, b, n), Cong(c, d, n)
  PROVE  Cong(a + c, b + d, n) /\ Cong(a - c, b - d, n)
  <1>1. PICK k \in Int : a - b = k * n
    BY DEF Cong
  <1>2. PICK j \in Int : c - d = j * n
    BY DEF Cong
  <1>3. (k + j) * n = k * n + j * n /\ (k - j) * n = k * n - j * n
    OBVIOUS
  <1>4. (a + c) - (b + d) = (k + j) * n /\ (a - c) - (b - d) = (k - j) * n
    BY <1>1, <1>2, <1>3
  <1>5. k + j \in Int /\ k - j \in Int
    OBVIOUS
  <1>6. Cong(a + c, b + d, n)
    BY <1>4, <1>5, Zenon DEF Cong
  <1>7. Cong(a - c, b - d, n)
    BY <1>4, <1>5, Zenon DEF Cong
  <1> QED
    BY <1>6, <1>7

LEMMA CongSame ==
  ASSUME NEW n \in Nat \ {0}, NEW a \in Int
  PROVE  Cong(a, a, n)
  <1>1. a - a = 0 * n
    OBVIOUS
  <1> QED
    BY <1>1 DEF Cong

LEMMA CongTrans ==
  ASSUME NEW n \in Nat \ {0}, NEW a \in Int, NEW b \in Int, NEW c \in Int,
         Cong(a, b, n), Cong(b, c, n)
  PROVE  Cong(a, c, n)
  <1>1. PICK k \in Int : a - b = k * n
    BY DEF Cong
  <1>2. PICK j \in Int : b - c = j * n
    BY DEF Cong
  <1>3. (k + j) * n = k * n + j * n
    OBVIOUS
  <1>4. a - c = (k + j) * n /\ k + j \in Int
    BY <1>1, <1>2, <1>3
  <1> QED
    BY <1>4, Zenon DEF Cong

\* The same number in the range of the counters.
LEMMA CongUnique ==
  ASSUME NEW n \in Nat \ {0}, NEW a \in 0 .. n - 1, NEW b \in 0 .. n - 1, Cong(a, b, n)
  PROVE  a = b
  <1>1. PICK k \in Int : a - b = k * n
    BY DEF Cong
  <1>2. k >= 1 => k * n >= n
    OBVIOUS
  <1>3. k <= -1 => k * n <= -n
    OBVIOUS
  <1>4. -n < a - b /\ a - b < n
    OBVIOUS
  <1>5. k = 0
    BY <1>1, <1>2, <1>3, <1>4
  <1> QED
    BY <1>1, <1>5

LEMMA CongSym ==
  ASSUME NEW n \in Nat \ {0}, NEW a \in Int, NEW b \in Int, Cong(a, b, n)
  PROVE  Cong(b, a, n)
  <1>1. PICK k \in Int : a - b = k * n
    BY DEF Cong
  <1>2. b - a = (-k) * n
    BY <1>1
  <1> QED
    BY <1>2 DEF Cong

LEMMA CongEqual ==
  ASSUME NEW n \in Nat \ {0}, NEW a \in Int, NEW b \in Int, Cong(a, b, n)
  PROVE  a % n = b % n
  <1> DEFINE r == a % n
             s == b % n
  <1>1. r \in 0 .. n - 1 /\ s \in 0 .. n - 1 /\ r \in Int /\ s \in Int
    BY DivMod
  <1>2. Cong(r, a, n) /\ Cong(s, b, n)
    BY CongMod
  <1> HIDE DEF r, s
  <1>3. Cong(b, s, n)
    BY <1>1, <1>2, CongSym
  <1>4. Cong(r, b, n)
    BY <1>1, <1>2, CongTrans
  <1>5. Cong(r, s, n)
    BY <1>1, <1>3, <1>4, CongTrans
  <1>6. r = s
    BY <1>1, <1>5, CongUnique
  <1> QED
    BY <1>6 DEF r, s

\* A number in the range is its own remainder.
LEMMA ModSmall ==
  ASSUME NEW n \in Nat \ {0}, NEW a \in 0 .. n - 1
  PROVE  a % n = a
  <1> DEFINE r == a % n
  <1>0. a \in Int
    OBVIOUS
  <1>1. r \in 0 .. n - 1 /\ Cong(r, a, n)
    BY <1>0, DivMod, CongMod
  <1> HIDE DEF r
  <1>2. r = a
    BY <1>1, CongUnique
  <1> QED
    BY <1>2 DEF r

-----------------------------------------------------------------------------
\* The inductive invariant.

\* The counter, the age of the answer and what resets cost.
Lag ==
  rtc.last # 0 =>
    /\ Cong(rtc.counter + millis - rtc.upd, Age - missed + asleep, Wrap)
    /\ rtc.last = TimeToMs(askedAt % Day)

\* A device asleep waits for no answer.
NoWaitAsleep == asleep # 0 => calls = <<>>

Inv == TypeOK /\ Lag /\ NoWaitAsleep

LEMMA Constants ==
  /\ Wrap \in Nat \ {0} /\ Day \in Nat \ {0} /\ Day < Wrap /\ Hour \in Nat
  /\ Minute \in Nat \ {0}
  /\ Durations \subseteq Nat \ {0}
  BY ClockOK

\* The seconds dropped are less than a minute.
LEMMA TimeToMsOK ==
  ASSUME NEW t \in 0 .. Day - 1
  PROVE  /\ TimeToMs(t) \in 0 .. Day - 1
         /\ \E s \in 0 .. Minute - 1 : TimeToMs(t) = t - s
  <1> DEFINE r == t % Minute
  <1>1. /\ t \in Int /\ Day \in Int /\ Minute \in Nat \ {0}
        /\ t >= 0 /\ t <= Day - 1
    BY Constants
  <1>2. r \in 0 .. Minute - 1 /\ r \in Int /\ t = (t \div Minute) * Minute + r /\ t \div Minute \in Int
    BY <1>1, DivMod
  <1>3. t \div Minute >= 0
    BY <1>1
  <1>4. (t \div Minute) * Minute >= 0
    BY <1>1, <1>2, <1>3
  <1>5. TimeToMs(t) = t - r
    BY DEF TimeToMs
  <1> HIDE DEF r
  <1> QED
    BY <1>1, <1>2, <1>4, <1>5

\* Sums of the counters stay in their range.
LEMMA PlusOK ==
  ASSUME NEW a \in Int, NEW b \in Int
  PROVE  /\ Plus(a, b) \in 0 .. Wrap - 1 /\ Plus(a, b) \in Int /\ Cong(Plus(a, b), a + b, Wrap)
         /\ Minus(a, b) \in 0 .. Wrap - 1 /\ Minus(a, b) \in Int /\ Cong(Minus(a, b), a - b, Wrap)
  <1>1. a + b \in Int /\ a - b \in Int /\ Wrap \in Nat \ {0}
    BY Constants
  <1> QED
    BY <1>1, DivMod, CongMod DEF Plus, Minus

\* The types as numbers.
LEMMA Numbers ==
  ASSUME TypeOK
  PROVE  /\ time \in Int /\ time >= 0 /\ millis \in Int /\ asleep \in Int /\ missed \in Int /\ askedAt \in Int
         /\ rtc.last \in 0 .. Day - 1 /\ rtc.last \in Int
         /\ rtc.upd \in Int /\ rtc.counter \in Int
         /\ rtc.upd \in 0 .. Wrap - 1 /\ rtc.counter \in 0 .. Wrap - 1
         /\ Age \in Int /\ Age >= 0
  BY Constants DEF TypeOK, Age

LEMMA MsCounterOK ==
  ASSUME TypeOK
  PROVE  /\ MsCounter \in 0 .. Wrap - 1 /\ MsCounter \in Int
         /\ Cong(MsCounter, rtc.counter + millis, Wrap)
  BY Numbers, PlusOK DEF MsCounter

LEMMA ResultOK ==
  ASSUME NEW last \in 0 .. Day - 1, NEW e \in Int
  PROVE  Result(last, e) \in {NoTime} \cup 0 .. Wrap - 1
  <1>1. last \in Int
    BY Constants
  <1> QED
    BY <1>1, PlusOK DEF Result

\* ClockLag is the congruence of the invariant.
LEMMA ElapsedIs ==
  ASSUME Inv, rtc.last # 0
  PROVE  Elapsed = (Age - missed + asleep) % Wrap /\ Elapsed \in 0 .. Wrap - 1
  <1>1. Wrap \in Nat \ {0}
    BY Constants
  <1>2. /\ rtc.upd \in Int /\ rtc.counter \in Int /\ millis \in Int
        /\ missed \in Int /\ asleep \in Int /\ Age \in Int
    BY Numbers DEF Inv
  <1> DEFINE c == rtc.counter + millis
             x == Age - missed + asleep
             m == MsCounter
             u == rtc.upd
  <1>3. m \in Int /\ Cong(m, c, Wrap)
    BY MsCounterOK DEF Inv
  <1>4. c \in Int /\ x \in Int /\ u \in Int /\ c - u \in Int /\ m - u \in Int
    BY <1>2, <1>3
  <1>5. Cong(c - u, x, Wrap)
    <2>1. Lag
      BY DEF Inv
    <2>2. Cong(rtc.counter + millis - rtc.upd, Age - missed + asleep, Wrap)
      BY <2>1 DEF Lag
    <2>3. rtc.counter + millis - rtc.upd = c - u /\ Age - missed + asleep = x
      BY <1>2
    <2> QED
      BY <2>2, <2>3
  <1>6. Elapsed = (m - u) % Wrap
    BY DEF Elapsed, Minus
  <1> HIDE DEF c, x, m, u
  <1>7. Cong(m - u, c - u, Wrap)
    BY <1>1, <1>3, <1>4, CongSame, CongAdd
  <1>8. Cong(m - u, x, Wrap)
    BY <1>1, <1>4, <1>5, <1>7, CongTrans
  <1>9. (m - u) % Wrap = x % Wrap
    BY <1>1, <1>4, <1>8, CongEqual
  <1>10. (m - u) % Wrap \in 0 .. Wrap - 1
    BY <1>1, <1>4, DivMod
  <1> QED
    BY <1>6, <1>9, <1>10 DEF x

-----------------------------------------------------------------------------
\* Every step keeps the invariant.

\* Both sides move by the same.
LEMMA CongMove ==
  ASSUME NEW n \in Nat \ {0}, NEW l \in Int, NEW r \in Int, NEW m \in Int, NEW s \in Int, NEW e \in Int,
         Cong(l, r, n), Cong(m - l, e, n), Cong(s - r, e, n)
  PROVE  Cong(m, s, n)
  <1> DEFINE a == m - l
             b == s - r
  <1>1. a \in Int /\ b \in Int /\ a + l = m /\ b + r = s
    OBVIOUS
  <1>2. Cong(a, e, n) /\ Cong(b, e, n)
    OBVIOUS
  <1> HIDE DEF a, b
  <1>3. Cong(e, b, n)
    BY <1>1, <1>2, CongSym
  <1>4. Cong(a, b, n)
    BY <1>1, <1>2, <1>3, CongTrans
  <1>5. Cong(a + l, b + r, n)
    BY <1>1, <1>4, CongAdd
  <1> QED
    BY <1>1, <1>5

\* The two sides of the invariant.
Counted == rtc.counter + millis - rtc.upd
Due == Age - missed + asleep

BothInt == Counted \in Int /\ Due \in Int

LEMMA Sides == TypeOK => BothInt
  BY Numbers DEF BothInt, Counted, Due

LEMMA LagMoves ==
  ASSUME TypeOK, TypeOK', Lag, NEW e \in Int, rtc'.last = rtc.last, askedAt' = askedAt,
         rtc.last # 0 => Cong(Counted' - Counted, e, Wrap) /\ Cong(Due' - Due, e, Wrap)
  PROVE  Lag'
  <1>1. CASE rtc.last = 0
    BY <1>1 DEF Lag
  <1>2. CASE rtc.last # 0
    <2>1. Cong(Counted, Due, Wrap) /\ rtc.last = TimeToMs(askedAt % Day)
      BY <1>2 DEF Lag, Counted, Due
    <2>2. Counted \in Int /\ Due \in Int
      BY Sides DEF BothInt
    <2>3. Counted' \in Int /\ Due' \in Int
      <3>1. BothInt'
        BY Sides, PTL
      <3> QED
        BY <3>1 DEF BothInt
    <2>4. Cong(Counted', Due', Wrap)
      BY <1>2, <2>1, <2>2, <2>3, Constants, CongMove
    <2> QED
      BY <2>1, <2>4 DEF Lag, Counted, Due
  <1> QED
    BY <1>1, <1>2

\* Time passes, awake or asleep.
LEMMA TickStep == Inv /\ Tick => Inv'
  <1> SUFFICES ASSUME Inv, Tick
               PROVE  Inv'
    OBVIOUS
  <1>1. /\ asleep = 0 /\ time' = time + 1 /\ millis' = Plus(millis, 1)
        /\ UNCHANGED <<asleep, rtc, calls, told, askedAt, missed>>
    BY DEF Tick, Awake
  <1>2. TypeOK /\ Lag
    BY DEF Inv
  <1>3. /\ time \in Int /\ millis \in Int /\ asleep \in Int /\ missed \in Int /\ askedAt \in Int
        /\ rtc.upd \in Int /\ rtc.counter \in Int
    BY <1>2, Numbers
  <1>4. millis' \in 0 .. Wrap - 1 /\ millis' \in Int /\ Cong(millis', millis + 1, Wrap)
    BY <1>1, <1>3, PlusOK
  <1>5. TypeOK'
    BY <1>1, <1>2, <1>4 DEF TypeOK
  <1>6. Cong(millis' - millis, 1, Wrap)
    <2>1. Cong(millis, millis, Wrap)
      BY <1>3, Constants, CongSame
    <2>2. Cong(millis' - millis, (millis + 1) - millis, Wrap)
      BY <1>3, <1>4, <2>1, Constants, CongAdd
    <2>3. (millis + 1) - millis = 1
      BY <1>3
    <2> QED
      BY <2>2, <2>3
  <1>7. Counted' - Counted = millis' - millis /\ Due' - Due = 1
    BY <1>1, <1>3, <1>4 DEF Counted, Due, Age
  <1>8. Cong(1, 1, Wrap)
    BY Constants, CongSame
  <1>9. Lag'
    BY <1>1, <1>2, <1>5, <1>6, <1>7, <1>8, LagMoves
  <1> QED
    BY <1>1, <1>5, <1>9 DEF Inv, NoWaitAsleep

LEMMA SleepingStep == Inv /\ Sleeping => Inv'
  <1> SUFFICES ASSUME Inv, Sleeping
               PROVE  Inv'
    OBVIOUS
  <1>1. /\ asleep # 0 /\ time' = time + 1 /\ asleep' = asleep - 1
        /\ UNCHANGED <<millis, rtc, calls, told, askedAt, missed>>
    BY DEF Sleeping, Awake
  <1>2. TypeOK /\ Lag
    BY DEF Inv
  <1>3. /\ time \in Int /\ millis \in Int /\ asleep \in Int /\ missed \in Int /\ askedAt \in Int
        /\ rtc.upd \in Int /\ rtc.counter \in Int
    BY <1>2, Numbers
  <1>4. TypeOK'
    BY <1>1, <1>2 DEF TypeOK
  <1>5. Counted' - Counted = 0 /\ Due' - Due = 0
    BY <1>1, <1>3 DEF Counted, Due, Age
  <1>6. Cong(0, 0, Wrap)
    BY Constants, CongSame
  <1>7. Lag'
    BY <1>1, <1>2, <1>4, <1>5, <1>6, LagMoves
  <1> QED
    BY <1>1, <1>4, <1>7 DEF Inv, NoWaitAsleep

\* The counter is set ahead by the sleep to come.
LEMMA DeepSleepStep == Inv /\ DeepSleep => Inv'
  <1> SUFFICES ASSUME Inv, DeepSleep
               PROVE  Inv'
    OBVIOUS
  <1>1. PICK d \in Durations : asleep' = d /\ rtc' = [rtc EXCEPT !.counter = BeforeSleep(d)]
    BY DEF DeepSleep
  <1>2. asleep = 0 /\ calls = <<>> /\ millis' = 0 /\ UNCHANGED <<time, calls, told, askedAt, missed>>
    BY DEF DeepSleep, Awake
  <1>3. TypeOK /\ Lag
    BY DEF Inv
  <1>4. /\ time \in Int /\ millis \in Int /\ asleep \in Int /\ missed \in Int /\ askedAt \in Int
        /\ rtc.upd \in Int /\ rtc.counter \in Int /\ d \in Nat
    BY <1>3, Numbers, Constants
  <1> DEFINE k == BeforeSleep(d)
             m == MsCounter
  <1>5. m \in Int /\ Cong(m, rtc.counter + millis, Wrap)
    BY <1>3, MsCounterOK
  <1>6. k \in 0 .. Wrap - 1 /\ k \in Int /\ Cong(k, m + d, Wrap)
    BY <1>4, <1>5, PlusOK DEF BeforeSleep
  <1>7. rtc' = [rtc EXCEPT !.counter = k]
    BY <1>1
  <1> HIDE DEF k, m
  <1>8. /\ rtc'.counter = k /\ rtc'.upd = rtc.upd /\ rtc'.last = rtc.last
        /\ rtc' \in [last : 0 .. Day - 1, upd : 0 .. Wrap - 1, counter : 0 .. Wrap - 1]
    BY <1>3, <1>6, <1>7 DEF TypeOK
  <1>9. TypeOK'
    BY <1>1, <1>2, <1>3, <1>4, <1>8, Constants DEF TypeOK
  <1>10. Cong(k - (rtc.counter + millis), d, Wrap)
    <2> DEFINE c == rtc.counter + millis
    <2>1. c \in Int
      BY <1>4
    <2>2. Cong(m, c, Wrap)
      BY <1>5
    <2> HIDE DEF c
    <2>3. Cong(d, d, Wrap) /\ Cong(c, c, Wrap)
      BY <1>4, <2>1, Constants, CongSame
    <2>4. Cong(m + d, c + d, Wrap)
      BY <1>4, <1>5, <2>1, <2>2, <2>3, Constants, CongAdd
    <2>5. Cong(k, c + d, Wrap)
      BY <1>4, <1>5, <1>6, <2>1, <2>4, Constants, CongTrans
    <2>6. Cong(k - c, (c + d) - c, Wrap)
      BY <1>4, <1>6, <2>1, <2>3, <2>5, Constants, CongAdd
    <2>7. (c + d) - c = d
      BY <1>4, <2>1
    <2> QED
      BY <2>6, <2>7 DEF c
  <1>11. Counted' - Counted = k - (rtc.counter + millis) /\ Due' - Due = d
    BY <1>1, <1>2, <1>4, <1>6, <1>8 DEF Counted, Due, Age
  <1>12. Cong(d, d, Wrap)
    BY <1>4, Constants, CongSame
  <1>13. Lag'
    BY <1>2, <1>3, <1>4, <1>8, <1>9, <1>10, <1>11, <1>12, LagMoves
  <1> QED
    BY <1>2, <1>9, <1>13 DEF Inv, NoWaitAsleep

\* What a reset costs.
LEMMA ResetStep == Inv /\ Reset => Inv'
  <1> SUFFICES ASSUME Inv, Reset
               PROVE  Inv'
    OBVIOUS
  <1>1. /\ missed' = (missed + millis - asleep) % Wrap
        /\ millis' = 0 /\ asleep' = 0 /\ calls' = <<>> /\ told' = NoTime
        /\ UNCHANGED <<time, rtc, askedAt>>
    BY DEF Reset
  <1>2. TypeOK /\ Lag
    BY DEF Inv
  <1>3. /\ time \in Int /\ millis \in Int /\ asleep \in Int /\ missed \in Int /\ askedAt \in Int
        /\ rtc.upd \in Int /\ rtc.counter \in Int
    BY <1>2, Numbers
  <1> DEFINE x == missed + millis - asleep
             r == x % Wrap
  <1>4. x \in Int /\ x = (missed + millis) - asleep
    BY <1>3
  <1>5. missed' = r
    BY <1>1
  <1> HIDE DEF x
  <1>6. r \in 0 .. Wrap - 1 /\ r \in Int /\ Cong(r, x, Wrap)
    BY <1>4, Constants, DivMod, CongMod
  <1> HIDE DEF r
  <1>7. TypeOK'
    <2>1. calls' \in Seq(0 .. Day - 1) /\ Len(calls') <= MaxNest
      BY <1>1, ClockOK
    <2>2. millis' \in 0 .. Wrap - 1
      BY <1>1, Constants
    <2> QED
      BY <1>1, <1>2, <1>5, <1>6, <2>1, <2>2 DEF TypeOK
  <1>8. Counted' - Counted = -millis /\ Due' - Due = (missed - asleep) - r
    BY <1>1, <1>3, <1>5, <1>6 DEF Counted, Due, Age
  <1>9. Cong((missed - asleep) - r, -millis, Wrap)
    <2> DEFINE y == missed - asleep
    <2>1. y \in Int /\ y - x = -millis
      BY <1>3, <1>4
    <2> HIDE DEF y
    <2>2. Cong(y, y, Wrap)
      BY <2>1, Constants, CongSame
    <2>3. Cong(y - r, y - x, Wrap)
      BY <1>4, <1>6, <2>1, <2>2, Constants, CongAdd
    <2> QED
      BY <2>1, <2>3 DEF y
  <1>10. -millis \in Int /\ Cong(-millis, -millis, Wrap)
    BY <1>3, Constants, CongSame
  <1>11. Lag'
    BY <1>1, <1>2, <1>7, <1>8, <1>9, <1>10, LagMoves
  <1> QED
    BY <1>1, <1>7, <1>11 DEF Inv, NoWaitAsleep

\* Counters cleared: nothing is known.
LEMMA RestartStep == Inv /\ Restart => Inv'
  <1> SUFFICES ASSUME Inv, Restart
               PROVE  Inv'
    OBVIOUS
  <1>1. /\ rtc' = [last |-> 0, upd |-> 0, counter |-> 0] /\ askedAt' = 0 /\ missed' = 0
        /\ millis' = 0 /\ asleep' = 0 /\ calls' = <<>> /\ told' = NoTime /\ time' = time
    BY DEF Restart, Cleared
  <1>2. time \in Nat
    BY DEF Inv, TypeOK
  <1>3. calls' \in Seq(0 .. Day - 1) /\ Len(calls') <= MaxNest
    BY <1>1, ClockOK
  <1>4. rtc' \in [last : 0 .. Day - 1, upd : 0 .. Wrap - 1, counter : 0 .. Wrap - 1]
    BY <1>1, Constants
  <1>5. TypeOK'
    BY <1>1, <1>2, <1>3, <1>4, Constants DEF TypeOK
  <1>6. Lag'
    BY <1>1 DEF Lag
  <1> QED
    BY <1>1, <1>5, <1>6 DEF Inv, NoWaitAsleep

LEMMA KnownStep == Inv /\ Known => Inv'
  <1> SUFFICES ASSUME Inv, Known
               PROVE  Inv'
    OBVIOUS
  <1>1. /\ told' = Result(rtc.last, Elapsed)
        /\ UNCHANGED <<time, millis, asleep, rtc, calls, askedAt, missed>>
    BY DEF Known
  <1>2. Elapsed \in Int /\ rtc.last \in 0 .. Day - 1
    BY Numbers, MsCounterOK, PlusOK DEF Inv, Elapsed
  <1>3. told' \in {NoTime} \cup 0 .. Wrap - 1
    BY <1>1, <1>2, ResultOK
  <1> QED
    BY <1>1, <1>3 DEF Inv, TypeOK, Lag, Age, NoWaitAsleep

LEMMA AskStep == Inv /\ Ask => Inv'
  <1> SUFFICES ASSUME Inv, Ask
               PROVE  Inv'
    OBVIOUS
  <1>1. /\ asleep = 0 /\ Len(calls) < MaxNest /\ calls' = Append(calls, rtc.last)
        /\ UNCHANGED <<time, millis, asleep, rtc, told, askedAt, missed>>
    BY DEF Ask, MayAsk, Awake
  <1>2. rtc.last \in 0 .. Day - 1 /\ calls \in Seq(0 .. Day - 1)
    BY Numbers DEF Inv, TypeOK
  <1>3. calls' \in Seq(0 .. Day - 1) /\ Len(calls') <= MaxNest
    BY <1>1, <1>2, ClockOK
  <1> QED
    BY <1>1, <1>3 DEF Inv, TypeOK, Lag, Age, NoWaitAsleep

\* A sequence without its last element.
LEMMA Fronts ==
  ASSUME NEW S, NEW s \in Seq(S), s # <<>>
  PROVE  Front(s) \in Seq(S) /\ Len(Front(s)) = Len(s) - 1 /\ Last(s) \in S
  <1>1. Len(s) \in Nat /\ Len(s) >= 1 /\ \A i \in 1 .. Len(s) : s[i] \in S
    OBVIOUS
  <1>2. Last(s) \in S
    BY <1>1 DEF Last
  <1>3. Front(s) = [i \in 1 .. Len(s) - 1 |-> s[i]]
    BY DEF Front
  <1> QED
    BY <1>1, <1>2, <1>3

\* The calls that remain when one returns, and the time the last one began with.
LEMMA Remaining ==
  ASSUME TypeOK, calls # <<>>
  PROVE  /\ Front(calls) \in Seq(0 .. Day - 1) /\ Len(Front(calls)) <= MaxNest
         /\ Last(calls) \in 0 .. Day - 1
  <1>1. calls \in Seq(0 .. Day - 1) /\ Len(calls) \in Nat /\ Len(calls) <= MaxNest
    BY DEF TypeOK
  <1>2. /\ Front(calls) \in Seq(0 .. Day - 1) /\ Len(Front(calls)) = Len(calls) - 1
        /\ Last(calls) \in 0 .. Day - 1
    BY <1>1, Fronts
  <1>3. MaxNest \in Nat
    BY ClockOK
  <1> QED
    BY <1>1, <1>2, <1>3

\* A call that waits keeps the device awake.
LEMMA AnswerStep == Inv /\ Answer => Inv'
  <1> SUFFICES ASSUME Inv, Answer
               PROVE  Inv'
    OBVIOUS
  <1> DEFINE m == MsCounter
             l == TimeToMs(time % Day)
  <1>1. /\ calls # <<>> /\ calls' = Front(calls) /\ rtc' = [rtc EXCEPT !.last = l, !.upd = m]
        /\ askedAt' = time /\ missed' = 0
        /\ told' = Result(rtc'.last, Minus(m, rtc'.upd))
        /\ UNCHANGED <<time, millis, asleep>>
    BY DEF Answer, Updated
  <1>2. TypeOK /\ asleep = 0
    BY <1>1 DEF Inv, NoWaitAsleep
  <1>3. /\ time \in Int /\ millis \in Int /\ rtc.counter \in Int
    BY <1>2, Numbers
  <1>4. m \in 0 .. Wrap - 1 /\ m \in Int /\ Cong(m, rtc.counter + millis, Wrap)
    BY <1>2, MsCounterOK
  <1>5. l \in 0 .. Day - 1
    BY <1>3, Constants, DivMod, TimeToMsOK
  <1>6. l = TimeToMs(askedAt' % Day)
    BY <1>1
  <1> HIDE DEF m, l
  <1>7. rtc \in [last : 0 .. Day - 1, upd : 0 .. Wrap - 1, counter : 0 .. Wrap - 1]
    BY <1>2 DEF TypeOK
  <1>8. /\ rtc'.last = l /\ rtc'.upd = m /\ rtc'.counter = rtc.counter
        /\ rtc' \in [last : 0 .. Day - 1, upd : 0 .. Wrap - 1, counter : 0 .. Wrap - 1]
    BY <1>1, <1>4, <1>5, <1>7
  <1>9. told' \in {NoTime} \cup 0 .. Wrap - 1
    <2>1. Minus(m, rtc'.upd) \in Int
      BY <1>4, <1>8, PlusOK
    <2> QED
      BY <1>1, <1>5, <1>8, <2>1, ResultOK
  <1>10. TypeOK'
    <2>1. calls' \in Seq(0 .. Day - 1) /\ Len(calls') <= MaxNest
      BY <1>1, <1>2, Remaining
    <2>2. missed' \in 0 .. Wrap - 1 /\ askedAt' \in 0 .. time'
      BY <1>1, <1>2, Constants DEF TypeOK
    <2> QED
      BY <1>1, <1>2, <1>8, <1>9, <2>1, <2>2 DEF TypeOK
  <1>11. Lag'
    <2> DEFINE c == rtc.counter + millis
    <2>1. c \in Int /\ c - m = (c - m) /\ Cong(m, c, Wrap)
      BY <1>3, <1>4
    <2>2. rtc'.counter + millis' - rtc'.upd = c - m /\ Age' - missed' + asleep' = 0
      BY <1>1, <1>2, <1>3, <1>4, <1>8 DEF Age
    <2> HIDE DEF c
    <2>3. Cong(c, m, Wrap) /\ Cong(m, m, Wrap)
      BY <1>4, <2>1, Constants, CongSym, CongSame
    <2>4. Cong(c - m, m - m, Wrap)
      BY <1>4, <2>1, <2>3, Constants, CongAdd
    <2>5. m - m = 0
      BY <1>4
    <2> QED
      BY <1>6, <1>8, <2>2, <2>4, <2>5 DEF Lag
  <1> QED
    BY <1>1, <1>2, <1>10, <1>11 DEF Inv, NoWaitAsleep

LEMMA NoAnswerStep == Inv /\ NoAnswer => Inv'
  <1> SUFFICES ASSUME Inv, NoAnswer
               PROVE  Inv'
    OBVIOUS
  <1>1. /\ calls # <<>> /\ calls' = Front(calls)
        /\ told' = IF Last(calls) = 0 THEN NoTime ELSE AfterFailure(Last(calls))
        /\ UNCHANGED <<time, millis, asleep, rtc, askedAt, missed>>
    BY DEF NoAnswer
  <1>2. TypeOK /\ asleep = 0
    BY <1>1 DEF Inv, NoWaitAsleep
  <1>3. Front(calls) \in Seq(0 .. Day - 1) /\ Len(Front(calls)) <= MaxNest /\ Last(calls) \in Int
    BY <1>1, <1>2, Remaining, Constants
  <1>4. Elapsed \in Int
    BY <1>2, Numbers, MsCounterOK, PlusOK DEF Elapsed
  <1>5. told' \in {NoTime} \cup 0 .. Wrap - 1
    BY <1>1, <1>3, <1>4, PlusOK DEF AfterFailure
  <1>6. TypeOK'
    BY <1>1, <1>2, <1>3, <1>5 DEF TypeOK
  <1> QED
    BY <1>1, <1>2, <1>6 DEF Inv, Lag, Age, NoWaitAsleep

LEMMA InvStep == Inv /\ [Next]_vars => Inv'
  <1> SUFFICES ASSUME Inv, [Next]_vars
               PROVE  Inv'
    OBVIOUS
  <1>1. CASE UNCHANGED vars
    BY <1>1 DEF vars, Inv, TypeOK, Lag, Age, NoWaitAsleep
  <1> QED
    BY <1>1, TickStep, SleepingStep, DeepSleepStep, ResetStep, RestartStep,
       KnownStep, AskStep, AnswerStep, NoAnswerStep DEF Next, GetGMTime

\* So it holds throughout every behaviour.
LEMMA InvAlways == Spec => []Inv
  <1>1. Init => Inv
    <2> SUFFICES ASSUME Init
                 PROVE  Inv
      OBVIOUS
    <2>1. /\ rtc = [last |-> 0, upd |-> 0, counter |-> 0] /\ askedAt = 0 /\ missed = 0
          /\ millis = 0 /\ asleep = 0 /\ calls = <<>> /\ told = NoTime /\ time \in 0 .. Day - 1
      BY DEF Init, Cleared
    <2>2. calls \in Seq(0 .. Day - 1) /\ Len(calls) <= MaxNest
      BY <2>1, ClockOK
    <2>3. rtc \in [last : 0 .. Day - 1, upd : 0 .. Wrap - 1, counter : 0 .. Wrap - 1]
      BY <2>1, Constants
    <2>4. TypeOK
      BY <2>1, <2>2, <2>3, Constants DEF TypeOK
    <2> QED
      BY <2>1, <2>4 DEF Inv, Lag, NoWaitAsleep
  <1> QED
    BY <1>1, InvStep, PTL DEF Spec

-----------------------------------------------------------------------------
\* What the invariant gives.

\* The counters kept in RTC memory, the result and the waiting calls have their
\* types after any number of sleeps, resets and overflows.
THEOREM TypeCorrect == Spec => []TypeOK
  <1>1. Inv => TypeOK
    BY DEF Inv
  <1> QED
    BY <1>1, InvAlways, PTL

\* The age getGMTime computes differs from the true one by the time resets cut
\* out of the count and by the sleep counted ahead, and by nothing else.
THEOREM LagBounded == Spec => []ClockLag
  <1>1. Inv => ClockLag
    BY ElapsedIs DEF ClockLag
  <1> QED
    BY <1>1, InvAlways, PTL

LEMMA ModOnce ==
  ASSUME NEW n \in Nat \ {0}, NEW x \in -n .. n - 1
  PROVE  x % n = IF x < 0 THEN x + n ELSE x
  <1>1. CASE x >= 0
    <2>1. x \in 0 .. n - 1
      BY <1>1
    <2> QED
      BY <1>1, <2>1, ModSmall
  <1>2. CASE x < 0
    <2> DEFINE y == x + n
    <2>1. x \in Int /\ y \in 0 .. n - 1 /\ y \in Int /\ x - y = (-1) * n
      BY <1>2
    <2>2. Cong(x, y, n)
      BY <2>1 DEF Cong
    <2> HIDE DEF y
    <2>3. x % n = y % n /\ y % n = y
      BY <2>1, <2>2, CongEqual, ModSmall
    <2> QED
      BY <1>2, <2>3 DEF y
  <1> QED
    BY <1>1, <1>2

\* isTimeInPeriod, for a time of day that the offset leaves on the day of GMT or
\* moves to the day before.
LEMMA InPeriod ==
  ASSUME NEW now \in Nat, NEW tz \in 1 - Day .. Day - 1, now + tz < Day,
         NEW start \in 0 .. Day - 1, NEW end \in 0 .. Day - 1
  PROVE  TimeInPeriod(now, start, end, tz) <=> Within((now + tz) % Day, start, end)
  <1> DEFINE x == now + tz
             n == Local(now, tz)
  <1>1. Day \in Nat \ {0} /\ now \in Int /\ tz \in Int /\ start \in Int /\ end \in Int /\ Day \in Int
    BY Constants
  <1>2. x \in -Day .. Day - 1 /\ x \in Int
    BY <1>1
  <1>3. n = (IF x < 0 THEN x + Day ELSE x)
    BY DEF Local
  <1>4. (now + tz) % Day = n
    BY <1>1, <1>2, <1>3, ModOnce
  <1>5. n \in 0 .. Day - 1 /\ n \in Int
    BY <1>1, <1>2, <1>3
  <1> HIDE DEF x
  <1>6. TimeInPeriod(now, start, end, tz)
          <=> \/ start < n /\ n < End(start, end)
              \/ start < n + Day /\ n + Day < End(start, end)
    BY DEF TimeInPeriod
  <1> HIDE DEF n
  <1>7. (\/ start < n /\ n < End(start, end)
         \/ start < n + Day /\ n + Day < End(start, end)) <=> Within(n, start, end)
    <2>1. CASE start <= end
      BY <1>1, <1>5, <2>1 DEF End, Within
    <2>2. CASE start > end
      BY <1>1, <1>5, <2>2 DEF End, Within
    <2> QED
      BY <1>1, <2>1, <2>2
  <1> QED
    BY <1>4, <1>6, <1>7

\* isTimeInPeriod recognises a period of any day length, start and end as it is
\* meant, as long as the local time is not on the day after that of GMT.
THEOREM PeriodOnItsDay == Spec => []PeriodRight
  <1>1. Inv => PeriodRight
    <2> SUFFICES ASSUME Inv, told # NoTime, NEW tz \in Offsets,
                        NEW start \in TimesOfDay, NEW end \in TimesOfDay, told + tz < Day
                 PROVE  TimeInPeriod(told, start, end, tz) <=> Within((told + tz) % Day, start, end)
      BY DEF PeriodRight
    <2>1. told \in Nat
      BY Constants DEF Inv, TypeOK
    <2>2. tz \in 1 - Day .. Day - 1 /\ start \in 0 .. Day - 1 /\ end \in 0 .. Day - 1
      BY ClockOK DEF TimesOfDay
    <2> QED
      BY <2>1, <2>2, InPeriod
  <1> QED
    BY <1>1, InvAlways, PTL

\* A time told that is behind by less than a minute.
Behind(t) == \E s \in 0 .. Minute - 1 : t % Day = (time - s) % Day

\* The old answer and the time the counter measures since it.
LEMMA OldAnswer ==
  ASSUME Inv, rtc.last # 0, missed = 0, asleep = 0, Age < Wrap - Day
  PROVE  Elapsed = Age /\ Behind(Plus(rtc.last, Elapsed))
  <1>1. TypeOK /\ Wrap \in Nat \ {0} /\ Day \in Nat \ {0} /\ Wrap \in Int /\ Day \in Int
    BY Constants DEF Inv
  <1>2. Age \in Int /\ Age >= 0 /\ askedAt \in Int /\ time \in Int /\ rtc.last \in 0 .. Day - 1 /\ rtc.last \in Int
    BY <1>1, Numbers
  <1>3. Elapsed = Age
    <2>1. Elapsed = (Age - missed + asleep) % Wrap
      BY ElapsedIs
    <2>2. Age - missed + asleep = Age /\ Age \in 0 .. Wrap - 1
      BY <1>1, <1>2
    <2> QED
      BY <1>1, <2>1, <2>2, ModSmall
  <1> DEFINE l == rtc.last
             a == Age
  <1>5. l + a \in 0 .. Wrap - 1 /\ l + a \in Int
    BY <1>1, <1>2
  <1> DEFINE d == askedAt % Day
  <1>6. l = TimeToMs(d) /\ d \in 0 .. Day - 1 /\ d \in Int
    BY <1>1, <1>2, DivMod DEF Inv, Lag
  <1>4. PICK s \in 0 .. Minute - 1 : l = d - s
    BY <1>6, TimeToMsOK
  <1>s. s \in Int /\ Minute \in Int
    BY Constants
  <1>7. Plus(l, Elapsed) = l + a
    BY <1>1, <1>3, <1>5, ModSmall DEF Plus
  <1>t. (askedAt + a) - s = time - s
    BY <1>2, <1>s DEF Age
  <1> HIDE DEF a
  <1>8. Cong(d, askedAt, Day) /\ Cong(a, a, Day) /\ Cong(s, s, Day)
    BY <1>1, <1>2, <1>s, CongMod, CongSame DEF a
  <1>9. l \in Int /\ a \in Int
    BY <1>2 DEF a
  <1> HIDE DEF d, l
  <1>10. Cong((d + a) - s, (askedAt + a) - s, Day)
    <2>1. Cong(d + a, askedAt + a, Day)
      BY <1>1, <1>2, <1>6, <1>8, <1>9, CongAdd
    <2>2. d + a \in Int /\ askedAt + a \in Int
      BY <1>2, <1>6, <1>9
    <2> QED
      BY <1>1, <1>s, <1>8, <2>1, <2>2, CongAdd
  <1>11. (d + a) - s = l + a
    BY <1>4, <1>6, <1>9, <1>s
  <1>12. (l + a) % Day = (time - s) % Day
    <2>1. Cong(l + a, time - s, Day)
      BY <1>10, <1>11, <1>t
    <2>2. l + a \in Int /\ time - s \in Int
      BY <1>2, <1>9, <1>s
    <2> QED
      BY <1>1, <2>1, <2>2, CongEqual
  <1> QED
    BY <1>3, <1>7, <1>12 DEF l, Behind

\* The clock getGMTime tells is right, from the answer just received or from the
\* one kept, whatever sleeps lie between, as ToldRight states it.
THEOREM ClockToldRight == Spec => ToldRight
  <1> DEFINE Right == \/ Ask
                      \/ NoAnswer /\ Last(calls) # rtc.last
                      \/ \E s \in 0 .. Minute - 1 : told' % Day = (time - s) % Day
             Fresh == Known \/ Answer => Age' <= Hour
             Step == GetGMTime /\ told' # NoTime /\ missed' = 0 /\ Age < Wrap - Day
                       => Right /\ Fresh
  <1>1. Inv /\ [Next]_vars => [Step]_vars
    <2> SUFFICES ASSUME Inv, GetGMTime, told' # NoTime, missed' = 0, Age < Wrap - Day
                 PROVE  Right /\ Fresh
      OBVIOUS
    <2>1. ASSUME Known
          PROVE  Behind(told') /\ Age' <= Hour
      <3>1. /\ asleep = 0 /\ ~NeedsUpdate /\ told' = Result(rtc.last, Elapsed)
            /\ missed = 0 /\ Age' = Age
        BY <2>1 DEF Known, MayAsk, Awake, Age
      <3>2. rtc.last # 0 /\ told' = Plus(rtc.last, Elapsed)
        BY <3>1 DEF Result
      <3>3. Elapsed = Age /\ Behind(Plus(rtc.last, Elapsed))
        BY <3>1, <3>2, OldAnswer
      <3>4. Age \in Int /\ Hour \in Int
        BY Numbers, Constants DEF Inv
      <3>5. Elapsed <= Hour
        BY <3>1, <3>3, <3>4 DEF NeedsUpdate
      <3> QED
        BY <3>1, <3>2, <3>3, <3>5
    <2>2. ASSUME Answer
          PROVE  Behind(told') /\ Age' <= Hour
      <3> DEFINE m == MsCounter
                 d == time % Day
                 l == TimeToMs(d)
      <3>1. /\ rtc' = [rtc EXCEPT !.last = l, !.upd = m] /\ askedAt' = time /\ time' = time
            /\ told' = Result(rtc'.last, Minus(m, rtc'.upd))
        BY <2>2 DEF Answer, Updated
      <3>2. m \in Int /\ time \in Int
        BY MsCounterOK, Numbers DEF Inv
      <3>d. d \in 0 .. Day - 1 /\ d \in Int /\ Cong(d, time, Day)
        BY <3>2, Constants, DivMod, CongMod
      <3>s. PICK s \in 0 .. Minute - 1 : l = d - s
        BY <3>d, TimeToMsOK
      <3>3. l \in 0 .. Day - 1 /\ s \in Int
        BY <3>d, Constants, TimeToMsOK
      <3>4. rtc \in [last : 0 .. Day - 1, upd : 0 .. Wrap - 1, counter : 0 .. Wrap - 1]
        BY DEF Inv, TypeOK
      <3> HIDE DEF m, d, l
      <3>5. rtc'.last = l /\ rtc'.upd = m
        BY <3>1, <3>4
      <3>6. m - m = 0 /\ 0 \in 0 .. Wrap - 1 /\ l \in 0 .. Wrap - 1 /\ l + 0 = l /\ l \in Int
        BY <3>2, <3>3, Constants
      <3>7. Minus(m, m) = 0
        BY <3>6, Constants, ModSmall DEF Minus
      <3>8. told' = Plus(l, 0)
        BY <3>1, <3>5, <3>7 DEF Result
      <3>9. Plus(l, 0) = l
        BY <3>6, Constants, ModSmall DEF Plus
      <3>10. Age' = 0
        BY <3>1, <3>2 DEF Age
      <3>11. l % Day = (time - s) % Day
        <4>1. Cong(d - s, time - s, Day)
          BY <3>2, <3>3, <3>d, Constants, CongSame, CongAdd
        <4>2. d - s \in Int /\ time - s \in Int
          BY <3>2, <3>3, <3>d
        <4> QED
          BY <3>s, <4>1, <4>2, Constants, CongEqual
      <3> QED
        BY <3>8, <3>9, <3>10, <3>11, Constants DEF Behind
    <2>3. ASSUME NoAnswer, Last(calls) = rtc.last
          PROVE  Behind(told')
      <3>1. calls # <<>> /\ missed = 0
        BY <2>3 DEF NoAnswer
      <3>2. asleep = 0
        BY <3>1 DEF Inv, NoWaitAsleep
      <3>3. rtc.last # 0 /\ told' = Plus(rtc.last, Elapsed)
        BY <2>3 DEF NoAnswer, AfterFailure
      <3> QED
        BY <3>1, <3>2, <3>3, OldAnswer
    <2> QED
      BY <2>1, <2>2, <2>3 DEF GetGMTime, Behind
  <1> QED
    BY <1>1, InvAlways, PTL DEF Spec, ToldRight

-----------------------------------------------------------------------------
\* The rest of isTimeInPeriod.

\* When the offset moves the time to the day after that of GMT, or getGMTime tells
\* the time of a later day, which it does when it can not renew its answer, then
\* isTimeInPeriod sees nothing but the morning of a period that spans midnight: it
\* corrects a local time below zero, but none past midnight
\* (TimerManager::isTimeInPeriod).  It misses periods and never makes one up.
THEOREM PeriodAfterMidnight ==
  ASSUME NEW now \in Nat, NEW tz \in 1 - Day .. Day - 1, now + tz \in Day .. 2 * Day - 1,
         NEW start \in 0 .. Day - 1, NEW end \in 0 .. Day - 1
  PROVE  /\ TimeInPeriod(now, start, end, tz) <=> start > end /\ (now + tz) % Day < end
         /\ TimeInPeriod(now, start, end, tz) => Within((now + tz) % Day, start, end)
  <1> DEFINE x == now + tz
             t == x - Day
             seen == \/ start < x /\ x < End(start, end)
                     \/ start < x + Day /\ x + Day < End(start, end)
  <1>1. /\ Day \in Nat \ {0} /\ Day \in Int
        /\ now \in Int /\ tz \in Int /\ start \in 0 .. Day - 1 /\ end \in 0 .. Day - 1
        /\ start \in Int /\ end \in Int
    BY Constants
  <1>2. x \in Int /\ t \in Int /\ t \in 0 .. Day - 1 /\ x = t + Day
    BY <1>1
  <1>3. (now + tz) % Day = t
    <2>1. x - t = 1 * Day
      BY <1>1, <1>2
    <2>2. Cong(x, t, Day)
      BY <2>1 DEF Cong
    <2> HIDE DEF t
    <2>3. x % Day = t % Day /\ t % Day = t
      BY <1>1, <1>2, <2>2, CongEqual, ModSmall
    <2> QED
      BY <2>3
  <1>4. Local(now, tz) = x
    BY <1>1, <1>2 DEF Local
  <1>5. TimeInPeriod(now, start, end, tz) <=> seen
    BY <1>4 DEF TimeInPeriod
  <1>6. seen <=> start > end /\ t < end
    <2> HIDE DEF x, t
    <2>1. CASE start <= end
      BY <1>1, <1>2, <2>1 DEF End
    <2>2. CASE start > end
      BY <1>1, <1>2, <2>2 DEF End
    <2> QED
      BY <1>1, <2>1, <2>2
  <1>7. start > end /\ t < end => Within(t, start, end)
    BY <1>1 DEF Within
  <1> QED
    BY <1>3, <1>5, <1>6, <1>7
=============================================================================
