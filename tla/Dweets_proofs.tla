---------------------------- MODULE Dweets_proofs ---------------------------
(***************************************************************************)
(* No dweet runs twice and none sent before RTC memory was lost runs       *)
(* without consent, for any keys, number of dweets, length of the queue    *)
(* and depth to which dweet_process calls nest.                            *)
(***************************************************************************)
EXTENDS Dweets, WellFoundedInduction, TLAPS

\* A set of natural numbers with a bound has a greatest element: the least
\* distance from the bound is that of the greatest.
LEMMA Greatest ==
  ASSUME NEW n \in Nat, NEW S \in SUBSET (0 .. n), S # {}
  PROVE  \E x \in S : \A y \in S : x >= y
  <1> DEFINE R == OpToRel(<, Nat)
             T == {n - x : x \in S}
  <1>1. IsWellFoundedOn(R, Nat)
    BY NatLessThanWellFounded
  <1>2. T \subseteq Nat /\ T # {}
    <2>1. PICK z : z \in S
      OBVIOUS
    <2>2. \A x \in S : n - x \in Nat
      OBVIOUS
    <2> QED
      BY <2>1, <2>2
  <1> HIDE DEF R
  <1>3. \E x \in T : \A y \in T : ~(<<y, x>> \in R)
    BY <1>1, <1>2, WFMin
  <1>4. \A x, y \in Nat : x < y => <<x, y>> \in R
    BY DEF R, OpToRel
  <1>5. PICK x \in S : \A y \in S : ~(<<n - y, n - x>> \in R)
    BY <1>3
  <1>6. ASSUME NEW y \in S
        PROVE  x >= y
    <2>1. n - x \in Nat /\ n - y \in Nat /\ x \in Nat /\ y \in Nat
      OBVIOUS
    <2>2. ~(n - y < n - x)
      BY <1>4, <1>5, <2>1
    <2> QED
      BY <2>1, <2>2
  <1> QED
    BY <1>6

\* Latest finds the last dweet of a key, if there is one.
LEMMA LatestIsLast ==
  ASSUME sent \in Seq(Keys), NEW k
  PROVE  /\ Latest(k) \in 0 .. Sent
         /\ Latest(k) # None => sent[Latest(k)] = k
         /\ \A i \in 1 .. Sent : sent[i] = k => i <= Latest(k)
  <1> DEFINE S == {i \in 1 .. Sent : sent[i] = k} \cup {None}
  <1>1. Sent \in Nat
    BY DEF Sent
  <1>2. S \in SUBSET (0 .. Sent) /\ S # {}
    BY <1>1 DEF None
  <1>3. \A i \in S : i # None => sent[i] = k
    OBVIOUS
  <1>4. \A i \in 1 .. Sent : sent[i] = k => i \in S
    OBVIOUS
  <1>5. Latest(k) = Max(S)
    BY DEF Latest
  <1> HIDE DEF S
  <1>6. \E x \in S : \A y \in S : x >= y
    BY <1>1, <1>2, Greatest
  <1>7. Max(S) \in S /\ \A y \in S : Max(S) >= y
    BY <1>6 DEF Max
  <1>8. \A i \in 1 .. Sent : i \in S => i <= Max(S)
    BY <1>1, <1>2, <1>7
  <1> QED
    BY <1>2, <1>3, <1>4, <1>5, <1>7, <1>8

-----------------------------------------------------------------------------
\* The inductive invariant.

\* Types, and what was remembered or stored was sent.
Cells ==
  /\ net \in BOOLEAN /\ timer \in BOOLEAN /\ accept \in BOOLEAN
  /\ raced \in BOOLEAN /\ switched \in BOOLEAN
  /\ key \in Keys \cup {NoKey}
  /\ sent \in Seq(Keys) /\ Sent <= MaxDweet
  /\ last \in 0 .. Sent /\ stored \in 0 .. Sent
  /\ runs \in [Dweet -> 0 .. 2]
QueueOK == queue \in Seq(Command) /\ Len(queue) <= MaxQueue
StackOK ==
  /\ stack \in Seq(Frame) /\ Len(stack) <= MaxNest
  /\ \A i \in DOMAIN stack : stack[i].asked \/ stack[i].seen = None

\* A dweet in the queue is there once, is no later than what is remembered and has
\* not run; nor has any later one: a dweet is remembered before it is scheduled.
Waiting(i) ==
  /\ queue[i].dweet <= last /\ runs[queue[i].dweet] = 0
  /\ \A j \in DOMAIN queue : j # i => queue[j].dweet # queue[i].dweet
Fresh ==
  /\ \A i \in DOMAIN queue : queue[i].dweet # None => Waiting(i)
  /\ \A d \in Dweet : runs[d] <= 1 /\ (d > last => runs[d] = 0)
OnceInv == raced \/ switched \/ Fresh

\* The dweet remembered is no older than any of its key that was stored when RTC
\* memory was lost, and so is the one a request has read.
NoOlder(d) == \A i \in 1 .. stored : sent[i] = sent[last] => i <= d
Seen(f) == f.seen # None =>
  last # None /\ f.seen <= last /\ sent[f.seen] = sent[last] /\ NoOlder(f.seen)
Marks ==
  /\ last # None => NoOlder(last)
  /\ \A i \in DOMAIN stack : Seen(stack[i])
Unconsented ==
  /\ \A i \in DOMAIN queue : queue[i].dweet # None => queue[i].dweet > stored
  /\ \A d \in 1 .. stored : runs[d] = 0
ConsentInv == switched \/ (Marks /\ (accept \/ Unconsented))

Inv == Cells /\ QueueOK /\ StackOK /\ OnceInv /\ ConsentInv

-----------------------------------------------------------------------------
\* Sequences that grow and shrink.

LEMMA Fronts ==
  ASSUME NEW S, NEW s \in Seq(S), s # <<>>
  PROVE  /\ Front(s) \in Seq(S) /\ Len(Front(s)) = Len(s) - 1
         /\ DOMAIN Front(s) = 1 .. Len(s) - 1
         /\ \A i \in 1 .. Len(s) - 1 : Front(s)[i] = s[i]
  <1>1. Len(s) \in Nat /\ Len(s) >= 1 /\ \A i \in 1 .. Len(s) - 1 : s[i] \in S
    OBVIOUS
  <1>2. Front(s) = [i \in 1 .. Len(s) - 1 |-> s[i]]
    BY <1>1 DEF Front
  <1> DEFINE u == [i \in 1 .. Len(s) - 1 |-> s[i]]
  <1>3. u \in Seq(S) /\ Len(u) = Len(s) - 1
    BY <1>1
  <1> QED
    BY <1>2, <1>3

LEMMA Tails ==
  ASSUME NEW S, NEW s \in Seq(S), s # <<>>
  PROVE  /\ Head(s) \in S /\ Head(s) = s[1] /\ 1 \in DOMAIN s
         /\ Tail(s) \in Seq(S) /\ Len(Tail(s)) = Len(s) - 1
         /\ \A i \in DOMAIN Tail(s) : i + 1 \in DOMAIN s /\ i \in Nat \ {0} /\ Tail(s)[i] = s[i + 1]
  OBVIOUS

LEMMA Appended ==
  ASSUME NEW S, NEW s \in Seq(S), NEW x \in S
  PROVE  /\ Append(s, x) \in Seq(S) /\ Len(Append(s, x)) = Len(s) + 1
         /\ \A i \in DOMAIN Append(s, x) :
              \/ i \in DOMAIN s /\ Append(s, x)[i] = s[i]
              \/ i = Len(s) + 1 /\ Append(s, x)[i] = x
         /\ \A i \in DOMAIN s : i \in DOMAIN Append(s, x) /\ Append(s, x)[i] = s[i] /\ i # Len(s) + 1
  OBVIOUS

\* A return leaves the other calls as they are.
LEMMA Returned ==
  ASSUME StackOK, stack # <<>>, Return
  PROVE  /\ StackOK'
         /\ \A i \in DOMAIN stack' : i \in DOMAIN stack /\ stack'[i] = stack[i]
  <1>1. stack \in Seq(Frame) /\ Len(stack) <= MaxNest /\ Len(stack) \in Nat /\ MaxNest \in Nat
    BY DweetsOK DEF StackOK
  <1>2. /\ stack' \in Seq(Frame) /\ Len(stack') = Len(stack) - 1
        /\ DOMAIN stack' = 1 .. Len(stack) - 1
        /\ \A i \in 1 .. Len(stack) - 1 : stack'[i] = stack[i]
    BY <1>1, Fronts DEF Return
  <1>3. \A i \in 1 .. Len(stack) - 1 : i \in DOMAIN stack
    BY <1>1
  <1>4. \A i \in DOMAIN stack' : i \in DOMAIN stack /\ stack'[i] = stack[i]
    BY <1>2, <1>3
  <1>5. \A i \in DOMAIN stack' : stack'[i].asked \/ stack'[i].seen = None
    BY <1>4, Zenon DEF StackOK
  <1>6. StackOK'
    BY <1>1, <1>2, <1>5 DEF StackOK
  <1> QED
    BY <1>4, <1>6

\* A call that begins has seen nothing.
LEMMA Called ==
  ASSUME StackOK, Len(stack) < MaxNest, NEW q \in BOOLEAN, Call(q)
  PROVE  /\ StackOK'
         /\ \A i \in DOMAIN stack' :
              (i \in DOMAIN stack /\ stack'[i] = stack[i]) \/ stack'[i].seen = None
  <1> DEFINE f == [seen |-> None, asked |-> FALSE, queued |-> q]
  <1>1. stack \in Seq(Frame) /\ f \in Frame /\ Len(stack) \in Nat /\ MaxNest \in Nat
    BY DweetsOK DEF StackOK, Frame
  <1>2. stack' = Append(stack, f)
    BY DEF Call
  <1>3. f.seen = None
    OBVIOUS
  <1> HIDE DEF f
  <1>4. /\ stack' \in Seq(Frame) /\ Len(stack') = Len(stack) + 1
        /\ \A i \in DOMAIN stack' : (i \in DOMAIN stack /\ stack'[i] = stack[i]) \/ stack'[i] = f
    BY <1>1, <1>2, Appended
  <1>5. \A i \in DOMAIN stack' : stack'[i].asked \/ stack'[i].seen = None
    BY <1>3, <1>4, Zenon DEF StackOK
  <1>6. Len(stack') <= MaxNest
    BY <1>1, <1>4
  <1>7. StackOK'
    BY <1>4, <1>5, <1>6 DEF StackOK
  <1> QED
    BY <1>3, <1>4, <1>7

\* A call that reads the last dweet is the only one that changes.
LEMMA ReadTop ==
  ASSUME Cells, StackOK, stack # <<>>,
         stack' = Append(Front(stack), [Top EXCEPT !.seen = last, !.asked = TRUE])
  PROVE  /\ StackOK'
         /\ \A i \in DOMAIN stack' :
              (i \in DOMAIN stack /\ stack'[i] = stack[i]) \/ stack'[i].seen = last
  <1> DEFINE f == [Top EXCEPT !.seen = last, !.asked = TRUE]
  <1>1. /\ stack \in Seq(Frame) /\ Len(stack) <= MaxNest /\ Len(stack) \in Nat \ {0} /\ MaxNest \in Nat
    BY DweetsOK DEF StackOK
  <1>2. Top \in Frame
    BY <1>1 DEF Top, Last
  <1>3. last \in Dweet \cup {None}
    <2>1. Sent \in Nat /\ MaxDweet \in Nat /\ Sent <= MaxDweet /\ last \in 0 .. Sent
      BY DweetsOK DEF Cells, Sent
    <2> QED
      BY <2>1 DEF Dweet, None
  <1>4. f \in Frame /\ f.seen = last /\ f.asked
    BY <1>2, <1>3 DEF Frame
  <1>5. stack' = Append(Front(stack), f)
    OBVIOUS
  <1> HIDE DEF f
  <1>6. /\ Front(stack) \in Seq(Frame) /\ Len(Front(stack)) = Len(stack) - 1
        /\ DOMAIN Front(stack) = 1 .. Len(stack) - 1
        /\ \A i \in 1 .. Len(stack) - 1 : Front(stack)[i] = stack[i]
    BY <1>1, Fronts
  <1>7. /\ stack' \in Seq(Frame) /\ Len(stack') = Len(Front(stack)) + 1
        /\ \A i \in DOMAIN stack' :
             (i \in DOMAIN Front(stack) /\ stack'[i] = Front(stack)[i]) \/ stack'[i] = f
    BY <1>4, <1>5, <1>6, Appended
  <1>8. \A i \in 1 .. Len(stack) - 1 : i \in DOMAIN stack
    BY <1>1
  <1>9. \A i \in DOMAIN stack' : (i \in DOMAIN stack /\ stack'[i] = stack[i]) \/ stack'[i] = f
    BY <1>6, <1>7, <1>8
  <1>10. \A i \in DOMAIN stack' : stack'[i].asked \/ stack'[i].seen = None
    BY <1>4, <1>9, Zenon DEF StackOK
  <1>11. Len(stack') <= MaxNest
    BY <1>1, <1>6, <1>7
  <1>12. StackOK'
    BY <1>7, <1>10, <1>11 DEF StackOK
  <1> QED
    BY <1>4, <1>9, <1>12

\* What was sent stays.
LEMMA SentGrows ==
  ASSUME Cells, NEW k \in Keys, SendDweet(k)
  PROVE  /\ sent' \in Seq(Keys) /\ Sent' = Sent + 1 /\ Sent' <= MaxDweet
         /\ \A i \in 1 .. Sent : sent'[i] = sent[i]
  <1>1. sent \in Seq(Keys) /\ Sent \in Nat /\ MaxDweet \in Nat /\ Sent < MaxDweet /\ sent' = Append(sent, k)
    BY DweetsOK DEF Cells, Sent, SendDweet
  <1>2. /\ sent' \in Seq(Keys) /\ Len(sent') = Len(sent) + 1
        /\ \A i \in DOMAIN sent : sent'[i] = sent[i]
    BY <1>1, Appended
  <1> QED
    BY <1>1, <1>2 DEF Sent

\* The latest dweet of a key is one that was sent, and the number of one.
LEMMA LatestType ==
  ASSUME Cells, NEW k
  PROVE  /\ Latest(k) \in 0 .. Sent /\ Latest(k) \in 0 .. MaxDweet /\ Sent \in 0 .. MaxDweet
         /\ Latest(k) # None => Latest(k) \in Dweet
  <1>1. Sent \in Nat /\ MaxDweet \in Nat /\ Sent <= MaxDweet /\ sent \in Seq(Keys)
    BY DweetsOK DEF Cells, Sent
  <1>2. Latest(k) \in 0 .. Sent
    BY <1>1, LatestIsLast
  <1> QED
    BY <1>1, <1>2 DEF Dweet, None

\* Appending a dweet.
Queued(d) ==
  /\ Len(queue) < MaxQueue
  /\ queue' = Append(queue, [dweet |-> d, list |-> d \in Lists])

LEMMA QueuedType ==
  ASSUME QueueOK, NEW d \in Dweet, Queued(d)
  PROVE  /\ QueueOK'
         /\ \A i \in DOMAIN queue' :
              \/ i \in DOMAIN queue /\ queue'[i] = queue[i]
              \/ i = Len(queue) + 1 /\ queue'[i].dweet = d
         /\ \A i \in DOMAIN queue : i \in DOMAIN queue' /\ queue'[i] = queue[i] /\ i # Len(queue) + 1
  <1> DEFINE c == [dweet |-> d, list |-> d \in Lists]
  <1>1. c \in Command /\ c.dweet = d
    <2>1. (d \in Lists) \in BOOLEAN
      OBVIOUS
    <2> QED
      BY <2>1 DEF Command
  <1>2. /\ queue \in Seq(Command) /\ queue' = Append(queue, c) /\ Len(queue) < MaxQueue
        /\ MaxQueue \in Nat /\ Len(queue) \in Nat
    BY DweetsOK DEF QueueOK, Queued
  <1> HIDE DEF c
  <1>3. /\ queue' \in Seq(Command) /\ Len(queue') = Len(queue) + 1
        /\ \A i \in DOMAIN queue' :
              \/ i \in DOMAIN queue /\ queue'[i] = queue[i]
              \/ i = Len(queue) + 1 /\ queue'[i] = c
        /\ \A i \in DOMAIN queue : i \in DOMAIN queue' /\ queue'[i] = queue[i] /\ i # Len(queue) + 1
    BY <1>1, <1>2, Appended
  <1>4. QueueOK'
    BY <1>2, <1>3 DEF QueueOK
  <1> QED
    BY <1>1, <1>3, <1>4

\* Counting a run touches one dweet, and none after the key has changed.
LEMMA RunType ==
  ASSUME Cells, NEW d \in Dweet, Run(d)
  PROVE  /\ runs' \in [Dweet -> 0 .. 2]
         /\ \A e \in Dweet : e # d => runs'[e] = runs[e]
         /\ runs[d] = 0 => runs'[d] <= 1
         /\ switched => runs' = runs
  <1> DEFINE n == IF runs[d] < 2 /\ ~switched THEN runs[d] + 1 ELSE runs[d]
  <1>1. runs \in [Dweet -> 0 .. 2] /\ runs[d] \in 0 .. 2
    BY DEF Cells
  <1>2. n \in 0 .. 2 /\ (runs[d] = 0 => n <= 1) /\ (switched => n = runs[d])
    BY <1>1
  <1>3. runs' = [runs EXCEPT ![d] = n]
    BY DEF Run
  <1> HIDE DEF n
  <1>4. runs' \in [Dweet -> 0 .. 2] /\ runs'[d] = n /\ \A e \in Dweet : e # d => runs'[e] = runs[e]
    BY <1>1, <1>2, <1>3
  <1>5. switched => runs' = runs
    BY <1>1, <1>2, <1>3
  <1> QED
    BY <1>2, <1>4, <1>5

\* The ways in which a new dweet is scheduled and in which a command of the queue is
\* executed.
LEMMA NewDweetDoes ==
  ASSUME NewDweet
  PROVE  \/ UNCHANGED <<queue, runs>>
         \/ Accepted(Top.seen) /\ Run(Latest(key)) /\ UNCHANGED queue
         \/ Accepted(Top.seen) /\ Queued(Latest(key)) /\ UNCHANGED runs
  BY DEF NewDweet, ScheduleCommand, Queued

Calls == Head(queue).dweet = None /\ ShiftCommand /\ Call(TRUE) /\ UNCHANGED runs
Runs == Head(queue).dweet # None /\ ShiftCommand /\ Run(Head(queue).dweet) /\ UNCHANGED stack
Requeues == Head(queue).dweet # None /\ Requeue(Head(queue))

LEMMA RunQueuedDoes ==
  ASSUME RunQueued
  PROVE  Calls \/ Runs \/ Requeues
  BY DEF RunQueued, Calls, Runs, Requeues

-----------------------------------------------------------------------------
\* Types.

LEMMA TypesInit == Init => Cells /\ QueueOK /\ StackOK
  <1> SUFFICES ASSUME Init
               PROVE  Cells /\ QueueOK /\ StackOK
    OBVIOUS
  <1>1. MaxDweet \in Nat /\ MaxQueue \in Nat /\ MaxNest \in Nat
    BY DweetsOK
  <1>2. Sent = 0 /\ sent \in Seq(Keys)
    BY DEF Init, Sent
  <1>3. /\ net \in BOOLEAN /\ timer \in BOOLEAN /\ accept \in BOOLEAN
        /\ raced \in BOOLEAN /\ switched \in BOOLEAN
    BY DEF Init
  <1>4. runs \in [Dweet -> 0 .. 2] /\ last = 0 /\ stored = 0 /\ key \in Keys \cup {NoKey}
    BY DEF Init, None
  <1>5. Cells
    BY <1>1, <1>2, <1>3, <1>4 DEF Cells
  <1>6. QueueOK /\ StackOK
    BY <1>1 DEF Init, QueueOK, StackOK
  <1> QED
    BY <1>5, <1>6

LEMMA TypesStep ==
  ASSUME Cells, QueueOK, StackOK, [Next]_vars
  PROVE  Cells' /\ QueueOK' /\ StackOK'
  <1> USE DEF histories
  <1>q. /\ queue \in Seq(Command) /\ Len(queue) <= MaxQueue /\ Len(queue) \in Nat
        /\ MaxDweet \in Nat /\ MaxQueue \in Nat /\ MaxNest \in Nat
    BY DweetsOK DEF QueueOK
  <1>1. CASE ReadLastDweet
    <2>1. Cells' /\ QueueOK'
      BY <1>1 DEF ReadLastDweet, Cells, QueueOK, Sent
    <2>2. StackOK'
      BY <1>1, Returned, ReadTop DEF ReadLastDweet
    <2> QED
      BY <2>1, <2>2
  <1>2. CASE WaitFails \/ GetFails \/ NothingNew
    <2>1. Cells' /\ QueueOK'
      BY <1>2 DEF WaitFails, GetFails, NothingNew, Cells, QueueOK, Sent
    <2>2. StackOK'
      BY <1>2, Returned DEF WaitFails, GetFails, NothingNew, Answered
    <2> QED
      BY <2>1, <2>2
  <1>3. CASE NewDweet
    <2>1. StackOK'
      BY <1>3, Returned DEF NewDweet, Answered
    <2>2. Latest(key) \in 0 .. Sent /\ Latest(key) \in Dweet /\ UNCHANGED <<net, key, timer, accept, sent, stored>>
      BY <1>3, LatestType DEF NewDweet
    <2>3. QueueOK' /\ runs' \in [Dweet -> 0 .. 2]
      <3>1. CASE UNCHANGED <<queue, runs>>
        BY <3>1 DEF QueueOK, Cells
      <3>2. CASE Run(Latest(key)) /\ UNCHANGED queue
        BY <2>2, <3>2, RunType DEF QueueOK
      <3>3. CASE Queued(Latest(key)) /\ UNCHANGED runs
        BY <2>2, <3>3, QueuedType DEF Cells
      <3> QED
        BY <1>3, <3>1, <3>2, <3>3, NewDweetDoes
    <2>4. Cells'
      <3>1. last' = Latest(key)
        BY <1>3 DEF NewDweet, SetLastDweet
      <3>2. raced' \in BOOLEAN /\ switched' \in BOOLEAN
        <4>1. switched' = (switched \/ (last # None /\ sent[last] # key)) /\ raced' = (~switched' /\ (raced \/ Top.seen # last))
          BY <1>3 DEF NewDweet
        <4> QED
          BY <4>1 DEF Cells
      <3> QED
        BY <2>2, <2>3, <3>1, <3>2 DEF Cells, Sent
    <2> QED
      BY <2>1, <2>3, <2>4
  <1>4. CASE OnGetDweets
    <2>1. Cells' /\ StackOK'
      BY <1>4 DEF OnGetDweets, Cells, StackOK, Sent
    <2>2. queue' = Append(queue, Process) /\ Len(queue) < MaxQueue /\ Process \in Command
      BY <1>4 DEF OnGetDweets, Process, Command
    <2>3. queue' \in Seq(Command) /\ Len(queue') = Len(queue) + 1
      BY <1>q, <2>2, Appended
    <2>4. QueueOK'
      BY <1>q, <2>2, <2>3 DEF QueueOK
    <2> QED
      BY <2>1, <2>4
  <1>5. CASE RunQueued
    <2>1. queue # <<>> /\ MayRun /\ UNCHANGED <<net, key, timer, accept, last, sent, stored, raced, switched>>
      BY <1>5 DEF RunQueued
    <2>2. /\ Head(queue) \in Command /\ Tail(queue) \in Seq(Command)
          /\ Len(Tail(queue)) = Len(queue) - 1
      BY <1>q, <2>1, Tails
    <2>3. Cells' /\ QueueOK' /\ StackOK'
      <3>1. CASE Calls
        <4>1. Len(stack) < MaxNest
          BY <2>1, DweetsOK DEF MayRun
        <4>2. StackOK'
          BY <3>1, <4>1, Called DEF Calls
        <4> QED
          BY <1>q, <2>1, <2>2, <3>1, <4>2 DEF Calls, ShiftCommand, Cells, QueueOK, Sent
      <3>2. CASE Runs
        <4>1. Head(queue).dweet \in Dweet
          BY <2>2, <3>2 DEF Runs, Command
        <4>2. runs' \in [Dweet -> 0 .. 2]
          BY <3>2, <4>1, RunType DEF Runs
        <4>3. Cells'
          BY <2>1, <4>2 DEF Cells, Sent
        <4> QED
          BY <1>q, <2>2, <3>2, <4>3 DEF Runs, ShiftCommand, QueueOK, StackOK
      <3>3. CASE Requeues
        <4> DEFINE c == [dweet |-> Head(queue).dweet, list |-> FALSE]
        <4>1. c \in Command /\ queue' = Append(Tail(queue), c)
          BY <2>2, <3>3 DEF Requeues, Requeue, Command
        <4> HIDE DEF c
        <4>2. queue' \in Seq(Command) /\ Len(queue') = Len(Tail(queue)) + 1
          BY <2>2, <4>1, Appended
        <4>3. QueueOK'
          BY <1>q, <2>2, <4>2 DEF QueueOK
        <4> QED
          BY <2>1, <3>3, <4>3 DEF Requeues, Requeue, Cells, StackOK, Sent
      <3> QED
        BY <1>5, <3>1, <3>2, <3>3, RunQueuedDoes
    <2> QED
      BY <2>3
  <1>6. CASE CmdDweetProcess
    <2>1. Cells' /\ QueueOK'
      BY <1>6 DEF CmdDweetProcess, Cells, QueueOK, Sent
    <2>2. Len(stack) < MaxNest
      BY <1>6, DweetsOK DEF CmdDweetProcess, MayRun
    <2>3. StackOK'
      BY <1>6, <2>2, Called DEF CmdDweetProcess
    <2> QED
      BY <2>1, <2>3
  <1>7. CASE \E k \in Keys, b \in BOOLEAN : CmdDweetStart(k, b)
    BY <1>7 DEF CmdDweetStart, Cells, QueueOK, StackOK, Sent
  <1>8. CASE \E k \in Keys : SendDweet(k)
    <2>1. PICK k \in Keys : SendDweet(k)
      BY <1>8
    <2>2. sent' \in Seq(Keys) /\ Sent' = Sent + 1 /\ Sent' <= MaxDweet /\ Sent \in Nat
      BY <2>1, SentGrows DEF Cells, Sent
    <2>3. 0 .. Sent \subseteq 0 .. Sent'
      BY <2>2
    <2>4. Cells'
      BY <2>1, <2>2, <2>3 DEF SendDweet, device, Cells
    <2>5. QueueOK' /\ StackOK'
      BY <2>1 DEF SendDweet, device, QueueOK, StackOK
    <2> QED
      BY <2>4, <2>5
  <1>9. CASE Network
    BY <1>9 DEF Network, device, Cells, QueueOK, StackOK, Sent
  <1>10. CASE Reset \/ Restart
    <2>1. stack' = <<>> /\ queue' = <<>> /\ UNCHANGED <<net, accept, sent>>
          /\ key' \in Keys \cup {NoKey} /\ timer' \in BOOLEAN
      BY <1>10 DEF Reset, Restart, LoseRam
    <2>2. QueueOK' /\ StackOK'
      BY <1>q, <2>1 DEF QueueOK, StackOK
    <2>3. Sent \in Nat /\ Sent' = Sent
      BY <2>1 DEF Cells, Sent
    <2>b. net' \in BOOLEAN /\ accept' \in BOOLEAN
      BY <2>1 DEF Cells
    <2>4. CASE Reset
      <3>1. raced' \in BOOLEAN /\ switched' \in BOOLEAN /\ UNCHANGED <<last, runs, stored>>
        BY <2>4 DEF Reset, Cells
      <3>2. Cells'
        BY <2>1, <2>3, <2>b, <3>1 DEF Cells
      <3> QED
        BY <2>2, <3>2
    <2>5. CASE Restart
      <3>1. last' = 0 /\ stored' = Sent /\ raced' = FALSE /\ switched' = FALSE
        BY <2>5 DEF Restart, None
      <3>2. runs' \in [Dweet -> 0 .. 2]
        BY <2>5 DEF Restart
      <3>3. raced' \in BOOLEAN /\ switched' \in BOOLEAN
        BY <3>1
      <3>4. /\ last' \in 0 .. Sent' /\ stored' \in 0 .. Sent'
            /\ sent' \in Seq(Keys) /\ Sent' <= MaxDweet
        BY <2>1, <2>3, <3>1 DEF Cells
      <3>5. Cells'
        BY <2>1, <2>b, <3>2, <3>3, <3>4 DEF Cells
      <3> QED
        BY <2>2, <3>5
    <2> QED
      BY <1>10, <2>2, <2>4, <2>5
  <1>11. CASE UNCHANGED vars
    BY <1>11 DEF vars, device, Cells, QueueOK, StackOK, Sent
  <1> QED
    BY <1>1, <1>2, <1>3, <1>4, <1>5, <1>6, <1>7, <1>8, <1>9, <1>10, <1>11
    DEF Next, CallReturns, Commands, Outside

-----------------------------------------------------------------------------
\* A dweet runs once.

\* Commands of the queue that only move stay fresh: f says where each was.
LEMMA FreshMoved ==
  ASSUME Fresh, last' = last, NEW f,
         \A i \in DOMAIN queue' : queue'[i].dweet # None =>
           /\ f[i] \in DOMAIN queue /\ queue[f[i]].dweet = queue'[i].dweet
           /\ runs'[queue'[i].dweet] = 0,
         \A i, j \in DOMAIN queue' :
           i # j /\ queue'[i].dweet # None /\ queue'[j].dweet # None => f[i] # f[j],
         \A d \in Dweet : runs'[d] <= 1 /\ (d > last => runs'[d] = 0)
  PROVE  Fresh'
  <1>1. ASSUME NEW i \in DOMAIN queue', queue'[i].dweet # None
        PROVE  Waiting(i)'
    <2>1. f[i] \in DOMAIN queue /\ queue[f[i]].dweet = queue'[i].dweet /\ runs'[queue'[i].dweet] = 0
      BY <1>1
    <2>2. Waiting(f[i])
      BY <1>1, <2>1 DEF Fresh
    <2>3. ASSUME NEW j \in DOMAIN queue', j # i
          PROVE  queue'[j].dweet # queue'[i].dweet
      <3>1. CASE queue'[j].dweet = None
        BY <1>1, <3>1
      <3>2. CASE queue'[j].dweet # None
        <4>1. f[j] \in DOMAIN queue /\ queue[f[j]].dweet = queue'[j].dweet /\ f[j] # f[i]
          BY <1>1, <2>3, <3>2
        <4> QED
          BY <2>1, <2>2, <4>1 DEF Waiting
      <3> QED
        BY <3>1, <3>2
    <2> QED
      BY <2>1, <2>2, <2>3 DEF Waiting
  <1> QED
    BY <1>1 DEF Fresh

\* What a list holds is where it belongs: everything moved up, the first is the last.
LEMMA Requeued ==
  ASSUME QueueOK, queue # <<>>, Requeue(Head(queue))
  PROVE  /\ DOMAIN queue' = 1 .. Len(queue) /\ DOMAIN queue = 1 .. Len(queue) /\ Len(queue) \in Nat \ {0}
         /\ queue'[Len(queue)].dweet = queue[1].dweet
         /\ \A i \in 1 .. Len(queue) - 1 : queue'[i].dweet = queue[i + 1].dweet
  <1> DEFINE c == [dweet |-> Head(queue).dweet, list |-> FALSE]
             t == Tail(queue)
  <1>1. queue \in Seq(Command) /\ Len(queue) \in Nat \ {0} /\ DOMAIN queue = 1 .. Len(queue)
    BY DEF QueueOK
  <1>2. /\ Head(queue) \in Command /\ Head(queue) = queue[1] /\ t \in Seq(Command)
        /\ Len(t) = Len(queue) - 1 /\ \A i \in DOMAIN t : t[i] = queue[i + 1]
    BY <1>1, Tails
  <1>3. c \in Command /\ c.dweet = queue[1].dweet /\ queue' = Append(t, c)
    BY <1>2 DEF Command, Requeue
  <1> HIDE DEF c, t
  <1>4. /\ queue' \in Seq(Command) /\ Len(queue') = Len(t) + 1
        /\ \A i \in DOMAIN queue' : (i \in DOMAIN t /\ queue'[i] = t[i]) \/ (i = Len(t) + 1 /\ queue'[i] = c)
        /\ \A i \in DOMAIN t : queue'[i] = t[i]
    BY <1>2, <1>3, Appended
  <1>5. DOMAIN t = 1 .. Len(queue) - 1 /\ Len(t) + 1 = Len(queue) /\ DOMAIN queue' = 1 .. Len(queue)
    BY <1>1, <1>2, <1>4
  <1>6. Len(queue) \in DOMAIN queue' /\ ~(Len(queue) \in DOMAIN t)
    BY <1>1, <1>5
  <1>7. queue'[Len(queue)] = c
    BY <1>4, <1>6
  <1>8. \A i \in 1 .. Len(queue) - 1 : queue'[i] = queue[i + 1]
    BY <1>2, <1>4, <1>5
  <1> QED
    BY <1>1, <1>3, <1>5, <1>7, <1>8

LEMMA OnceStep ==
  ASSUME Cells, QueueOK, OnceInv, [Next]_vars
  PROVE  OnceInv'
  <1> USE DEF histories
  <1>q. /\ queue \in Seq(Command) /\ Len(queue) \in Nat /\ MaxDweet \in Nat
        /\ DOMAIN queue = 1 .. Len(queue) /\ last \in Nat /\ runs \in [Dweet -> 0 .. 2]
        /\ \A i \in DOMAIN queue : queue[i] \in Command
    BY DweetsOK DEF QueueOK, Cells, Sent
  <1>d. /\ \A d \in Dweet : d \in Nat
        /\ \A i \in DOMAIN queue : queue[i].dweet # None => queue[i].dweet \in Dweet
    BY <1>q DEF Command, Dweet
  <1>1. CASE NewDweet
    <2>1. /\ switched' = (switched \/ (last # None /\ sent[last] # key))
          /\ raced' = (~switched' /\ (raced \/ Top.seen # last))
          /\ last' = Latest(key) /\ Latest(key) \notin {None, Top.seen}
      BY <1>1 DEF NewDweet, SetLastDweet
    <2>2. CASE raced' \/ switched'
      BY <2>2 DEF OnceInv
    <2>3. CASE ~raced' /\ ~switched'
      <3> DEFINE n == Latest(key)
      <3>1. ~raced /\ ~switched /\ Top.seen = last /\ (last # None => sent[last] = key)
        BY <2>1, <2>3, Zenon
      <3>2. Fresh
        BY <3>1 DEF OnceInv
      <3>3. n \in Dweet /\ n \in 0 .. MaxDweet /\ n # 0 /\ last' = n
        BY <2>1, LatestType DEF None
      <3>4. n > last
        <4>1. \A i \in 1 .. Sent : sent[i] = key => i <= n
          BY LatestIsLast DEF Cells
        <4>2. Sent \in Nat /\ last \in 0 .. Sent /\ n \in Nat /\ n # last
          BY <2>1, <3>1, <3>3 DEF Cells, Sent
        <4>3. CASE last = None
          BY <3>3, <4>2, <4>3 DEF None
        <4>4. CASE last # None
          <5>1. last \in 1 .. Sent /\ sent[last] = key
            BY <3>1, <4>2, <4>4 DEF None
          <5>2. last <= n
            BY <4>1, <5>1
          <5> QED
            BY <4>2, <5>2
        <4> QED
          BY <4>3, <4>4
      <3>d. UNCHANGED <<queue, runs>> \/ (Run(n) /\ UNCHANGED queue) \/ (Queued(n) /\ UNCHANGED runs)
        BY <1>1, NewDweetDoes
      <3> HIDE DEF n
      <3>5. runs[n] = 0 /\ \A d \in Dweet : d > n => d > last /\ d # n
        BY <1>q, <1>d, <3>2, <3>3, <3>4 DEF Fresh
      <3>6. \A i \in DOMAIN queue : queue[i].dweet # None =>
              Waiting(i) /\ queue[i].dweet < n /\ queue[i].dweet <= n /\ queue[i].dweet # n /\ queue[i].dweet \in Dweet
        <4> SUFFICES ASSUME NEW i \in DOMAIN queue, queue[i].dweet # None
                     PROVE  Waiting(i) /\ queue[i].dweet < n /\ queue[i].dweet <= n /\ queue[i].dweet # n /\ queue[i].dweet \in Dweet
          OBVIOUS
        <4>1. Waiting(i) /\ queue[i].dweet <= last /\ queue[i].dweet \in Dweet /\ queue[i].dweet \in Nat
          BY <1>d, <3>2 DEF Fresh, Waiting
        <4> QED
          BY <1>q, <1>d, <3>3, <3>4, <4>1
      <3>7. CASE UNCHANGED <<queue, runs>>
        <4>1. \A d \in Dweet : runs'[d] <= 1 /\ (d > last' => runs'[d] = 0)
          BY <3>2, <3>3, <3>5, <3>7 DEF Fresh
        <4>2. \A i \in DOMAIN queue' : queue'[i].dweet # None => Waiting(i)'
          <5> SUFFICES ASSUME NEW i \in DOMAIN queue, queue[i].dweet # None
                       PROVE  Waiting(i)'
            BY <3>7
          <5>1. queue[i].dweet <= n
            BY <1>d, <3>3, <3>6
          <5> QED
            BY <3>3, <3>6, <3>7, <5>1 DEF Waiting
        <4> QED
          BY <4>1, <4>2 DEF Fresh, OnceInv
      <3>8. CASE Run(n) /\ UNCHANGED queue
        <4>1. /\ runs'[n] <= 1 /\ \A d \in Dweet : d # n => runs'[d] = runs[d]
          BY <3>3, <3>5, <3>8, RunType
        <4>2. \A d \in Dweet : runs'[d] <= 1 /\ (d > last' => runs'[d] = 0)
          BY <3>2, <3>3, <3>5, <4>1 DEF Fresh
        <4>3. \A i \in DOMAIN queue' : queue'[i].dweet # None => Waiting(i)'
          <5> SUFFICES ASSUME NEW i \in DOMAIN queue, queue[i].dweet # None
                       PROVE  Waiting(i)'
            BY <3>8
          <5>1. queue[i].dweet <= n /\ queue[i].dweet # n
            BY <1>d, <3>3, <3>6
          <5>2. runs'[queue[i].dweet] = 0
            BY <3>6, <4>1, <5>1 DEF Waiting
          <5> QED
            BY <3>3, <3>6, <3>8, <5>1, <5>2 DEF Waiting
        <4> QED
          BY <4>2, <4>3 DEF Fresh, OnceInv
      <3>9. CASE Queued(n) /\ UNCHANGED runs
        <4>1. /\ \A i \in DOMAIN queue' :
                   \/ i \in DOMAIN queue /\ queue'[i] = queue[i]
                   \/ i = Len(queue) + 1 /\ queue'[i].dweet = n
              /\ \A i \in DOMAIN queue : i \in DOMAIN queue' /\ queue'[i] = queue[i] /\ i # Len(queue) + 1
          BY <3>3, <3>9, QueuedType
        <4>2. \A d \in Dweet : runs'[d] <= 1 /\ (d > last' => runs'[d] = 0)
          BY <3>2, <3>3, <3>5, <3>9 DEF Fresh
        <4>3. ASSUME NEW i \in DOMAIN queue', queue'[i].dweet # None
              PROVE  Waiting(i)'
          <5>n. n <= n /\ \A j \in DOMAIN queue : queue[j].dweet # n
            <6>1. n <= n
              BY <1>d, <3>3
            <6>2. ASSUME NEW j \in DOMAIN queue
                  PROVE  queue[j].dweet # n
              <7>1. n # None
                BY <3>3 DEF None
              <7>2. queue[j].dweet # None => queue[j].dweet < n /\ queue[j].dweet \in Nat
                BY <1>d, <3>6
              <7> QED
                BY <1>d, <3>3, <7>1, <7>2
            <6> QED
              BY <6>1, <6>2
          <5>1. CASE i \in DOMAIN queue /\ queue'[i] = queue[i]
            <6>1. Waiting(i) /\ queue[i].dweet <= n
              BY <1>d, <3>3, <3>6, <4>3, <5>1
            <6>2. \A j \in DOMAIN queue' : j # i => queue'[j].dweet # queue'[i].dweet
              BY <4>1, <5>1, <5>n, <6>1 DEF Waiting
            <6> QED
              BY <3>3, <3>9, <5>1, <6>1, <6>2 DEF Waiting
          <5>2. CASE i = Len(queue) + 1 /\ queue'[i].dweet = n
            <6>1. \A j \in DOMAIN queue' : j # i => queue'[j].dweet # n
              BY <4>1, <5>2, <5>n
            <6> QED
              BY <3>3, <3>5, <3>9, <5>2, <5>n, <6>1 DEF Waiting
          <5> QED
            BY <4>1, <5>1, <5>2
        <4> QED
          BY <4>2, <4>3 DEF Fresh, OnceInv
      <3> QED
        BY <3>d, <3>7, <3>8, <3>9
    <2> QED
      BY <2>2, <2>3
  <1>2. CASE OnGetDweets
    <2>1. queue' = Append(queue, Process) /\ UNCHANGED <<last, runs, raced, switched>>
      BY <1>2 DEF OnGetDweets
    <2>2. \A j \in DOMAIN queue' :
            (j \in DOMAIN queue /\ queue'[j] = queue[j]) \/ queue'[j].dweet = None
      <3>1. Process \in Command /\ Process.dweet = None
        BY DEF Process, Command
      <3> QED
        BY <1>q, <2>1, <3>1, Appended
    <2>3. CASE Fresh
      <3> DEFINE f == [i \in DOMAIN queue' |-> i]
      <3>1. \A i \in DOMAIN queue' : f[i] = i /\ \A j \in DOMAIN queue' : i # j => f[i] # f[j]
        OBVIOUS
      <3> HIDE DEF f
      <3>2. \A i \in DOMAIN queue' : queue'[i].dweet # None =>
              /\ f[i] \in DOMAIN queue /\ queue[f[i]].dweet = queue'[i].dweet
              /\ runs'[queue'[i].dweet] = 0
        BY <2>1, <2>2, <2>3, <3>1 DEF Fresh, Waiting
      <3>3. \A d \in Dweet : runs'[d] <= 1 /\ (d > last => runs'[d] = 0)
        BY <2>1, <2>3 DEF Fresh
      <3> QED
        BY <2>1, <2>3, <3>1, <3>2, <3>3, FreshMoved DEF OnceInv
    <2> QED
      BY <2>1, <2>3 DEF OnceInv
  <1>3. CASE RunQueued
    <2>1. queue # <<>> /\ UNCHANGED <<last, raced, switched>>
      BY <1>3 DEF RunQueued
    <2>2. CASE Fresh /\ ~Requeues
      <3>1. queue' = Tail(queue)
        BY <1>3, <2>2, RunQueuedDoes DEF Calls, Runs, ShiftCommand
      <3>2. /\ Head(queue) = queue[1] /\ 1 \in DOMAIN queue
            /\ \A i \in DOMAIN queue' : i + 1 \in DOMAIN queue /\ i \in Nat \ {0} /\ queue'[i] = queue[i + 1]
        BY <1>q, <2>1, <3>1, Tails
      <3> DEFINE f == [i \in DOMAIN queue' |-> i + 1]
                 h == Head(queue).dweet
      <3>3. \A i \in DOMAIN queue' : f[i] = i + 1 /\ i + 1 # 1 /\ \A j \in DOMAIN queue' : i # j => f[i] # f[j]
        BY <3>2
      <3> HIDE DEF f
      <3>4. ASSUME NEW i \in DOMAIN queue', queue'[i].dweet # None
            PROVE  /\ f[i] \in DOMAIN queue /\ queue[f[i]].dweet = queue'[i].dweet /\ f[i] # 1
                   /\ runs[queue'[i].dweet] = 0 /\ queue'[i].dweet # h /\ queue'[i].dweet \in Dweet
        <4>1. f[i] \in DOMAIN queue /\ f[i] # 1 /\ queue[f[i]] = queue'[i]
          BY <3>2, <3>3
        <4>2. Waiting(f[i]) /\ queue[f[i]].dweet \in Dweet
          BY <1>d, <2>2, <3>4, <4>1 DEF Fresh
        <4> QED
          BY <3>2, <4>1, <4>2 DEF Waiting
      <3>5. /\ \A d \in Dweet : runs'[d] <= 1 /\ (d > last => runs'[d] = 0)
            /\ \A d \in Dweet : d # h => runs'[d] = runs[d]
        <4>1. CASE UNCHANGED runs
          BY <2>2, <4>1 DEF Fresh
        <4>2. CASE h # None /\ Run(h)
          <5>1. h \in Dweet /\ Waiting(1)
            BY <1>d, <2>2, <3>2, <4>2 DEF Fresh
          <5>2. runs[h] = 0 /\ h <= last
            BY <3>2, <5>1 DEF Waiting
          <5>3. runs'[h] <= 1 /\ \A d \in Dweet : d # h => runs'[d] = runs[d]
            BY <4>2, <5>1, <5>2, RunType
          <5>4. ~(h > last)
            BY <1>q, <1>d, <5>1, <5>2
          <5> QED
            BY <2>2, <5>3, <5>4 DEF Fresh
        <4> QED
          BY <1>3, <2>2, <4>1, <4>2, RunQueuedDoes DEF Calls, Runs
      <3>6. \A i \in DOMAIN queue' : queue'[i].dweet # None => runs'[queue'[i].dweet] = 0
        BY <3>4, <3>5
      <3>7. Fresh'
        BY <2>1, <2>2, <3>3, <3>4, <3>5, <3>6, FreshMoved
      <3> QED
        BY <3>7 DEF OnceInv
    <2>3. CASE Fresh /\ Requeues
      <3>1. Requeue(Head(queue)) /\ UNCHANGED runs
        BY <2>3 DEF Requeues, Requeue
      <3> DEFINE f == [i \in DOMAIN queue' |-> IF i = Len(queue) THEN 1 ELSE i + 1]
      <3>2. /\ DOMAIN queue' = 1 .. Len(queue) /\ Len(queue) \in Nat \ {0}
            /\ queue'[Len(queue)].dweet = queue[1].dweet
            /\ \A i \in 1 .. Len(queue) - 1 : queue'[i].dweet = queue[i + 1].dweet
        BY <2>1, <3>1, Requeued
      <3>3. /\ \A i \in DOMAIN queue' : f[i] \in DOMAIN queue /\ queue[f[i]].dweet = queue'[i].dweet
            /\ \A i, j \in DOMAIN queue' : i # j => f[i] # f[j]
        BY <1>q, <3>2
      <3> HIDE DEF f
      <3>4. \A d \in Dweet : runs'[d] <= 1 /\ (d > last => runs'[d] = 0)
        BY <2>3, <3>1 DEF Fresh
      <3>5. \A i \in DOMAIN queue' : queue'[i].dweet # None => runs'[queue'[i].dweet] = 0
        BY <2>3, <3>1, <3>3 DEF Fresh, Waiting
      <3>6. Fresh'
        BY <2>1, <2>3, <3>3, <3>4, <3>5, FreshMoved
      <3> QED
        BY <3>6 DEF OnceInv
    <2> QED
      BY <2>1, <2>2, <2>3 DEF OnceInv
  <1>4. CASE Reset
    <2>1. queue' = <<>> /\ UNCHANGED <<last, runs, raced, switched>>
      BY <1>4 DEF Reset, LoseRam
    <2> QED
      BY <2>1 DEF OnceInv, Fresh
  <1>5. CASE Restart
    <2>1. queue' = <<>> /\ runs' = [d \in Dweet |-> 0]
      BY <1>5 DEF Restart, LoseRam
    <2> QED
      BY <2>1 DEF OnceInv, Fresh
  <1>6. CASE UNCHANGED <<queue, last, runs, raced, switched>>
    BY <1>6 DEF OnceInv, Fresh, Waiting
  <1> QED
    BY <1>1, <1>2, <1>3, <1>4, <1>5, <1>6
    DEF Next, CallReturns, Commands, Outside, ReadLastDweet, WaitFails, GetFails, NothingNew,
        CmdDweetProcess, CmdDweetStart, SendDweet, Network, vars, device

-----------------------------------------------------------------------------
\* A stored dweet needs consent.

\* The marks stand when nothing they are about changes.
LEMMA MarksKept ==
  ASSUME Cells, ConsentInv, UNCHANGED <<last, sent, stored, runs, accept, switched>>,
         \A i \in DOMAIN stack' :
           (i \in DOMAIN stack /\ stack'[i] = stack[i]) \/ stack'[i].seen \in {None, last},
         Unconsented => Unconsented'
  PROVE  ConsentInv'
  <1>1. CASE switched
    BY <1>1 DEF ConsentInv
  <1>2. CASE Marks /\ (accept \/ Unconsented)
    <2>1. last' # None => NoOlder(last)'
      BY <1>2 DEF Marks, NoOlder
    <2>2. ASSUME NEW i \in DOMAIN stack'
          PROVE  Seen(stack[i])'
      <3>1. CASE i \in DOMAIN stack /\ stack'[i] = stack[i]
        <4>1. Seen(stack[i])
          BY <1>2, <3>1 DEF Marks
        <4> QED
          BY <3>1, <4>1 DEF Seen, NoOlder
      <3>2. CASE stack'[i].seen = None
        BY <3>2 DEF Seen
      <3>3. CASE stack'[i].seen = last /\ last # None
        <4>1. last <= last
          BY DEF Cells, Sent
        <4>2. NoOlder(last)
          BY <1>2, <3>3 DEF Marks
        <4> QED
          BY <3>3, <4>1, <4>2 DEF Seen, NoOlder
      <3> QED
        BY <3>1, <3>2, <3>3
    <2> QED
      BY <1>2, <2>1, <2>2 DEF ConsentInv, Marks
  <1> QED
    BY <1>1, <1>2 DEF ConsentInv

LEMMA ConsentStep ==
  ASSUME Cells, QueueOK, StackOK, ConsentInv, [Next]_vars
  PROVE  ConsentInv'
  <1> USE DEF histories
  <1>q. /\ queue \in Seq(Command) /\ Len(queue) \in Nat /\ MaxDweet \in Nat
        /\ DOMAIN queue = 1 .. Len(queue) /\ runs \in [Dweet -> 0 .. 2]
        /\ Sent \in Nat /\ last \in 0 .. Sent /\ stored \in 0 .. Sent /\ Sent <= MaxDweet
    BY DweetsOK DEF QueueOK, Cells, Sent
  <1>1. CASE ReadLastDweet
    <2>1. \A i \in DOMAIN stack' :
            (i \in DOMAIN stack /\ stack'[i] = stack[i]) \/ stack'[i].seen \in {None, last}
      BY <1>1, Returned, ReadTop DEF ReadLastDweet
    <2>2. UNCHANGED <<queue, last, sent, stored, runs, accept, switched>>
      BY <1>1 DEF ReadLastDweet
    <2>3. Unconsented => Unconsented'
      BY <2>2 DEF Unconsented
    <2> QED
      BY <2>1, <2>2, <2>3, MarksKept
  <1>2. CASE WaitFails \/ GetFails \/ NothingNew
    <2>1. \A i \in DOMAIN stack' :
            (i \in DOMAIN stack /\ stack'[i] = stack[i]) \/ stack'[i].seen \in {None, last}
      BY <1>2, Returned DEF WaitFails, GetFails, NothingNew, Answered
    <2>2. UNCHANGED <<queue, last, sent, stored, runs, accept, switched>>
      BY <1>2 DEF WaitFails, GetFails, NothingNew
    <2>3. Unconsented => Unconsented'
      BY <2>2 DEF Unconsented
    <2> QED
      BY <2>1, <2>2, <2>3, MarksKept
  <1>3. CASE NewDweet
    <2>1. /\ switched' = (switched \/ (last # None /\ sent[last] # key))
          /\ last' = Latest(key) /\ Latest(key) \notin {None, Top.seen}
          /\ UNCHANGED <<sent, stored, accept>>
      BY <1>3 DEF NewDweet, SetLastDweet
    <2>2. CASE switched'
      BY <2>2 DEF ConsentInv
    <2>3. CASE ~switched'
      <3> DEFINE d == Latest(key)
      <3>1. ~switched /\ (last # None => sent[last] = key)
        BY <2>1, <2>3
      <3>2. Marks /\ (accept \/ Unconsented)
        BY <3>1 DEF ConsentInv
      <3>3. /\ d \in 1 .. Sent /\ sent[d] = key /\ d \in 0 .. MaxDweet /\ d # 0
            /\ \A i \in 1 .. Sent : sent[i] = key => i <= d
        <4>1. d \in 0 .. Sent /\ d # 0
          BY <2>1, LatestType DEF None
        <4>2. sent[d] = key /\ \A i \in 1 .. Sent : sent[i] = key => i <= d
          BY <2>1, LatestIsLast DEF Cells
        <4> QED
          BY <1>q, <4>1, <4>2
      <3>m. /\ last' = d /\ d # Top.seen /\ d \in Dweet
            /\ \/ UNCHANGED <<queue, runs>>
               \/ Accepted(Top.seen) /\ Run(d) /\ UNCHANGED queue
               \/ Accepted(Top.seen) /\ Queued(d) /\ UNCHANGED runs
        BY <1>3, <2>1, LatestType, NewDweetDoes
      <3> HIDE DEF d
      <3>4. last # None => last <= d
        BY <1>q, <3>1, <3>3 DEF None
      <3>5. /\ stack # <<>> /\ Top \in Frame /\ Seen(Top)
            /\ \A i \in DOMAIN stack' : i \in DOMAIN stack /\ stack'[i] = stack[i]
        <4>1. stack # <<>> /\ stack \in Seq(Frame)
          BY <1>3 DEF NewDweet, Answered, StackOK
        <4>2. Len(stack) \in DOMAIN stack /\ Top = stack[Len(stack)] /\ Top \in Frame
          BY <4>1 DEF Top, Last
        <4>3. Seen(Top)
          BY <3>2, <4>2 DEF Marks
        <4>4. \A i \in DOMAIN stack' : i \in DOMAIN stack /\ stack'[i] = stack[i]
          BY <1>3, <4>1, Returned DEF NewDweet
        <4> QED
          BY <4>1, <4>2, <4>3, <4>4
      <3>6. NoOlder(last)'
        <4>1. \A i \in 1 .. stored : i \in 1 .. Sent
          BY <1>q
        <4> QED
          BY <2>1, <3>3, <3>m, <4>1 DEF NoOlder
      <3>7. ASSUME NEW i \in DOMAIN stack'
            PROVE  Seen(stack[i])'
        <4>1. stack'[i] = stack[i] /\ Seen(stack[i]) /\ stack[i] \in Frame
          BY <3>2, <3>5 DEF Marks, StackOK
        <4>2. CASE stack[i].seen = None
          BY <4>1, <4>2 DEF Seen
        <4>3. CASE stack[i].seen # None
          <5> DEFINE s == stack[i].seen
          <5>1. last # None /\ s <= last /\ sent[s] = sent[last] /\ NoOlder(s)
            BY <4>1, <4>3 DEF Seen
          <5>2. s \in Nat
            BY <4>1, DweetsOK DEF Frame, Dweet, None
          <5>3. sent[s] = sent[d] /\ s <= d
            BY <1>q, <3>1, <3>3, <3>4, <5>1, <5>2
          <5>4. \A j \in 1 .. stored : sent[j] = sent[d] => j <= s
            BY <3>1, <3>3, <5>1 DEF NoOlder
          <5> QED
            BY <2>1, <3>3, <3>m, <4>1, <5>3, <5>4 DEF Seen, NoOlder, None
        <4> QED
          BY <4>2, <4>3
      <3>8. Marks'
        BY <3>6, <3>7 DEF Marks
      <3>9. accept' \/ Unconsented'
        <4>1. CASE accept
          BY <2>1, <4>1
        <4>2. CASE ~accept /\ UNCHANGED <<queue, runs>>
          BY <2>1, <3>2, <4>2 DEF Unconsented
        <4>3. CASE ~accept /\ Accepted(Top.seen)
          <5>1. Top.seen # None /\ Unconsented
            BY <3>2, <4>3 DEF Accepted
          <5>2. /\ last # None /\ Top.seen <= last /\ sent[Top.seen] = sent[last]
                /\ NoOlder(Top.seen) /\ Top.seen \in Nat
            BY <3>5, <5>1, DweetsOK DEF Seen, Frame, Dweet, None
          <5>3. d > stored
            <6> SUFFICES ASSUME d <= stored
                         PROVE  FALSE
              BY <1>q, <3>3
            <6>1. d \in 1 .. stored
              BY <1>q, <3>3
            <6>2. d <= Top.seen
              BY <3>1, <3>3, <5>2, <6>1 DEF NoOlder
            <6>3. Top.seen <= d
              BY <1>q, <3>3, <3>4, <5>2
            <6> QED
              BY <1>q, <3>3, <3>m, <5>2, <6>2, <6>3
          <5>4. CASE Run(d) /\ UNCHANGED queue
            <6>1. \A e \in 1 .. stored : e \in Dweet /\ e # d
              BY <1>q, <3>3, <5>3 DEF Dweet
            <6>2. \A e \in 1 .. stored : runs'[e] = 0
              BY <3>m, <5>1, <5>4, <6>1, RunType DEF Unconsented
            <6> QED
              BY <2>1, <5>1, <5>4, <6>2 DEF Unconsented
          <5>5. CASE Queued(d) /\ UNCHANGED runs
            <6>1. \A j \in DOMAIN queue' :
                    (j \in DOMAIN queue /\ queue'[j] = queue[j]) \/ queue'[j].dweet = d
              BY <3>m, <5>5, QueuedType
            <6> QED
              BY <2>1, <5>1, <5>3, <5>5, <6>1 DEF Unconsented
          <5> QED
            BY <3>m, <4>2, <4>3, <5>4, <5>5
        <4> QED
          BY <3>m, <4>1, <4>2, <4>3
      <3> QED
        BY <3>8, <3>9 DEF ConsentInv
    <2> QED
      BY <2>2, <2>3
  <1>4. CASE OnGetDweets
    <2>1. /\ queue' = Append(queue, Process)
          /\ UNCHANGED <<stack, last, sent, stored, runs, accept, switched>>
      BY <1>4 DEF OnGetDweets
    <2>2. \A j \in DOMAIN queue' :
            (j \in DOMAIN queue /\ queue'[j] = queue[j]) \/ queue'[j].dweet = None
      <3>1. Process \in Command /\ Process.dweet = None
        BY DEF Process, Command
      <3> QED
        BY <1>q, <2>1, <3>1, Appended
    <2>3. Unconsented => Unconsented'
      BY <2>1, <2>2 DEF Unconsented
    <2> QED
      BY <2>1, <2>3, MarksKept
  <1>5. CASE RunQueued
    <2>1. queue # <<>> /\ UNCHANGED <<last, sent, stored, accept, switched>>
      BY <1>5 DEF RunQueued
    <2>2. CASE Calls
      <3>1. \A i \in DOMAIN queue' : i + 1 \in DOMAIN queue /\ queue'[i] = queue[i + 1]
        BY <1>q, <2>1, <2>2, Tails DEF Calls, ShiftCommand
      <3>2. \A i \in DOMAIN stack' :
              (i \in DOMAIN stack /\ stack'[i] = stack[i]) \/ stack'[i].seen \in {None, last}
        <4>1. Len(stack) < MaxNest
          BY <1>5, DweetsOK DEF RunQueued, MayRun
        <4> QED
          BY <2>2, <4>1, Called DEF Calls
      <3>3. Unconsented => Unconsented'
        BY <2>1, <2>2, <3>1 DEF Calls, Unconsented
      <3>4. UNCHANGED runs
        BY <2>2 DEF Calls
      <3> QED
        BY <2>1, <3>2, <3>3, <3>4, MarksKept
    <2>3. CASE Runs
      <3> DEFINE h == Head(queue).dweet
      <3>1. /\ Head(queue) \in Command /\ Head(queue) = queue[1] /\ 1 \in DOMAIN queue
            /\ \A i \in DOMAIN queue' : i + 1 \in DOMAIN queue /\ queue'[i] = queue[i + 1]
        BY <1>q, <2>1, <2>3, Tails DEF Runs, ShiftCommand
      <3>2. h # None /\ h \in Dweet /\ Run(h) /\ UNCHANGED stack
        BY <2>3, <3>1 DEF Runs, Command
      <3>3. Unconsented => Unconsented'
        <4> SUFFICES ASSUME Unconsented
                     PROVE  Unconsented'
          OBVIOUS
        <4>1. h > stored /\ h \in Nat
          BY <3>1, <3>2 DEF Unconsented, Dweet
        <4> HIDE DEF h
        <4>2. \A d \in 1 .. stored : d \in Dweet /\ d # h
          BY <1>q, <4>1 DEF Dweet
        <4>3. \A d \in 1 .. stored : runs'[d] = 0
          BY <3>2, <4>2, RunType DEF Unconsented
        <4>4. \A i \in DOMAIN queue' : queue'[i].dweet # None => queue'[i].dweet > stored
          BY <3>1 DEF Unconsented
        <4> QED
          BY <2>1, <4>3, <4>4 DEF Unconsented
      <3>4. CASE switched
        BY <2>1, <3>4 DEF ConsentInv
      <3>5. CASE Marks /\ (accept \/ Unconsented)
        <4>1. Marks'
          BY <2>1, <3>2, <3>5 DEF Marks, Seen, NoOlder
        <4> QED
          BY <2>1, <3>3, <3>5, <4>1 DEF ConsentInv
      <3> QED
        BY <3>4, <3>5 DEF ConsentInv
    <2>4. CASE Requeues
      <3>1. Requeue(Head(queue)) /\ UNCHANGED <<stack, runs>>
        BY <2>4 DEF Requeues, Requeue
      <3>2. \A i \in DOMAIN queue' : \E j \in DOMAIN queue : queue'[i].dweet = queue[j].dweet
        <4>1. /\ DOMAIN queue' = 1 .. Len(queue) /\ Len(queue) \in Nat \ {0}
              /\ queue'[Len(queue)].dweet = queue[1].dweet
              /\ \A i \in 1 .. Len(queue) - 1 : queue'[i].dweet = queue[i + 1].dweet
          BY <2>1, <3>1, Requeued
        <4> SUFFICES ASSUME NEW i \in DOMAIN queue'
                     PROVE  \E j \in DOMAIN queue : queue'[i].dweet = queue[j].dweet
          OBVIOUS
        <4>2. CASE i = Len(queue)
          BY <1>q, <4>1, <4>2
        <4>3. CASE i # Len(queue)
          <5>1. i \in 1 .. Len(queue) - 1 /\ i + 1 \in DOMAIN queue
            BY <1>q, <4>1, <4>3
          <5> QED
            BY <4>1, <5>1
        <4> QED
          BY <4>2, <4>3
      <3>3. Unconsented => Unconsented'
        BY <2>1, <3>1, <3>2 DEF Unconsented
      <3> QED
        BY <2>1, <3>1, <3>3, MarksKept
    <2> QED
      BY <1>5, <2>2, <2>3, <2>4, RunQueuedDoes
  <1>6. CASE CmdDweetProcess
    <2>1. UNCHANGED <<queue, last, sent, stored, runs, accept, switched>>
      BY <1>6 DEF CmdDweetProcess
    <2>2. \A i \in DOMAIN stack' :
            (i \in DOMAIN stack /\ stack'[i] = stack[i]) \/ stack'[i].seen \in {None, last}
      <3>1. Len(stack) < MaxNest
        BY <1>6, DweetsOK DEF CmdDweetProcess, MayRun
      <3>2. Call(FALSE)
        BY <1>6 DEF CmdDweetProcess
      <3> QED
        BY <3>1, <3>2, Called
    <2>3. Unconsented => Unconsented'
      BY <2>1 DEF Unconsented
    <2> QED
      BY <2>1, <2>2, <2>3, MarksKept
  <1>7. CASE \E k \in Keys : SendDweet(k)
    <2>1. PICK k \in Keys : SendDweet(k)
      BY <1>7
    <2>2. UNCHANGED <<queue, stack, last, stored, runs, accept, switched>>
      BY <2>1 DEF SendDweet, device
    <2>3. \A i \in 1 .. Sent : sent'[i] = sent[i]
      BY <2>1, SentGrows
    <2>4. ASSUME NEW d \in 0 .. Sent, last # None
          PROVE  NoOlder(d) => NoOlder(d)'
      <3>1. last \in 1 .. Sent /\ \A i \in 1 .. stored : i \in 1 .. Sent
        BY <1>q, <2>4 DEF None
      <3> QED
        BY <2>2, <2>3, <3>1 DEF NoOlder
    <2>5. CASE switched
      BY <2>2, <2>5 DEF ConsentInv
    <2>6. CASE Marks /\ (accept \/ Unconsented)
      <3>1. last # None => NoOlder(last)'
        <4>1. last' = last
          BY <2>2
        <4> QED
          BY <1>q, <2>4, <2>6, <4>1 DEF Marks, NoOlder
      <3>2. ASSUME NEW i \in DOMAIN stack, stack[i].seen # None
            PROVE  Seen(stack[i])'
        <4> DEFINE s == stack[i].seen
        <4>1. last # None /\ s <= last /\ sent[s] = sent[last] /\ NoOlder(s)
          BY <2>6, <3>2 DEF Marks, Seen
        <4>f. stack[i] \in Frame
          BY <3>2 DEF StackOK
        <4>2. s \in Nat /\ s # 0
          BY <3>2, <4>f, DweetsOK DEF Frame, Dweet, None
        <4>3. s \in 1 .. Sent /\ last \in 1 .. Sent /\ s \in 0 .. Sent
          BY <1>q, <4>1, <4>2 DEF None
        <4>4. sent'[s] = sent'[last] /\ NoOlder(s)'
          BY <2>2, <2>3, <2>4, <4>1, <4>3
        <4> QED
          BY <2>2, <4>1, <4>4 DEF Seen
      <3>3. Marks'
        BY <2>2, <3>1, <3>2 DEF Marks, Seen, NoOlder
      <3>4. Unconsented => Unconsented'
        BY <2>2 DEF Unconsented
      <3> QED
        BY <2>2, <2>6, <3>3, <3>4 DEF ConsentInv
    <2> QED
      BY <2>5, <2>6 DEF ConsentInv
  <1>8. CASE Reset
    <2>1. stack' = <<>> /\ queue' = <<>> /\ UNCHANGED <<accept, sent, last, runs, stored, switched>>
      BY <1>8 DEF Reset, LoseRam
    <2>2. Unconsented => Unconsented'
      BY <2>1 DEF Unconsented
    <2> QED
      BY <2>1, <2>2, MarksKept
  <1>9. CASE Restart
    <2>1. /\ stack' = <<>> /\ queue' = <<>> /\ last' = None /\ stored' = Sent
          /\ runs' = [d \in Dweet |-> 0]
      BY <1>9 DEF Restart, LoseRam
    <2>2. \A d \in 1 .. Sent : d \in Dweet
      BY <1>q DEF Dweet
    <2>3. Marks'
      BY <2>1 DEF Marks
    <2>4. Unconsented'
      BY <2>1, <2>2 DEF Unconsented
    <2> QED
      BY <2>3, <2>4 DEF ConsentInv
  <1>10. CASE UNCHANGED <<queue, stack, last, sent, stored, runs, accept, switched>>
    <2>1. Unconsented => Unconsented'
      BY <1>10 DEF Unconsented
    <2> QED
      BY <1>10, <2>1, MarksKept
  <1> QED
    BY <1>1, <1>2, <1>3, <1>4, <1>5, <1>6, <1>7, <1>8, <1>9, <1>10
    DEF Next, CallReturns, Commands, Outside, CmdDweetStart, Network, vars, device

-----------------------------------------------------------------------------

\* Together they are inductive.
LEMMA InvInit == Init => Inv
  <1> SUFFICES ASSUME Init
               PROVE  Inv
    OBVIOUS
  <1>1. Cells /\ QueueOK /\ StackOK
    BY TypesInit
  <1>2. /\ stack = <<>> /\ queue = <<>> /\ last = None /\ stored = 0
        /\ runs = [d \in Dweet |-> 0]
    BY DEF Init, None
  <1>3. OnceInv
    BY <1>2 DEF OnceInv, Fresh
  <1>4. ConsentInv
    BY <1>2 DEF ConsentInv, Marks, Unconsented
  <1> QED
    BY <1>1, <1>3, <1>4 DEF Inv

LEMMA InvStep == Inv /\ [Next]_vars => Inv'
  BY TypesStep, OnceStep, ConsentStep DEF Inv

LEMMA InvAlways == Spec => []Inv
  BY InvInit, InvStep, PTL DEF Spec

\* The commands in the queue, the dweet remembered and those that calls in progress
\* have read are dweets or none (getDweetCommand and RTC memory in Dweet_io).
THEOREM TypeCorrect == Spec => []TypeOK
  <1>1. Inv => TypeOK
    <2> SUFFICES ASSUME Inv
                 PROVE  TypeOK
      OBVIOUS
    <2>1. Cells /\ QueueOK /\ StackOK
      BY DEF Inv
    <2>2. MaxDweet \in Nat /\ Sent \in Nat
      BY <2>1, DweetsOK DEF Cells, Sent
    <2>3. \A i \in 1 .. Len(stack) : stack[i].asked \/ stack[i].seen = None
      BY <2>1 DEF StackOK
    <2>4. {last, stored} \subseteq Dweet \cup {None}
      BY <2>1, <2>2 DEF Cells, Dweet, None
    <2>5. {net, timer, accept, raced, switched} \subseteq BOOLEAN
      BY <2>1 DEF Cells
    <2> QED
      BY <2>1, <2>3, <2>4, <2>5 DEF TypeOK, Cells, QueueOK, StackOK
  <1> QED
    BY <1>1, InvAlways, PTL

\* While RTC memory lasts no dweet runs twice, whatever is reset and however calls
\* of dweet_process nest, unless they overlapped or the key has changed: it is
\* remembered before it is scheduled (setLastDweet before menuHandler.scheduleCommand).
THEOREM RunsOnce == Spec => []DweetOnce
  <1>1. Inv => DweetOnce
    BY DEF Inv, OnceInv, Fresh, DweetOnce
  <1> QED
    BY <1>1, InvAlways, PTL

\* A dweet that was stored when RTC memory was lost runs only with
\* dweet.acceptStoredDweets: the first dweet seen is remembered but not run, and a
\* call in progress has read one that is not older than any stored.
THEOREM StoredByConsent == Spec => []StoredNeedConsent
  <1>1. Inv => StoredNeedConsent
    BY DEF Inv, ConsentInv, Unconsented, StoredNeedConsent
  <1> QED
    BY <1>1, InvAlways, PTL

-----------------------------------------------------------------------------
\* A dweet that is not scheduled when a later one is remembered never runs.
Overtaken(d) == d <= last /\ \A i \in DOMAIN queue : queue[i].dweet # d
NoWayBack ==
  [][\A d \in Dweet : Overtaken(d) =>
       \/ raced' \/ switched' \/ last' = None
       \/ Overtaken(d)' /\ runs'[d] = runs[d]]_vars

\* What is remembered only grows, and only what is later than it is scheduled or run
\* at once (getDweetCommand): of the dweets of a key the ones that were skipped stay
\* skipped, whatever is reset and however calls nest, as long as RTC memory lasts,
\* calls do not overlap and the key stays.
THEOREM SkippedForGood == Spec => NoWayBack
  <1> DEFINE Step == \A d \in Dweet : Overtaken(d) =>
                       \/ raced' \/ switched' \/ last' = None
                       \/ Overtaken(d)' /\ runs'[d] = runs[d]
  <1>1. Inv /\ [Next]_vars => [Step]_vars
    <2> SUFFICES ASSUME Inv, [Next]_vars, NEW d \in Dweet, Overtaken(d),
                        ~raced', ~switched', last' # None
                 PROVE  Overtaken(d)' /\ runs'[d] = runs[d]
      BY DEF Step
    <2> USE DEF histories
    <2>1. Cells /\ QueueOK
      BY DEF Inv
    <2>2. /\ queue \in Seq(Command) /\ MaxDweet \in Nat /\ d \in Nat /\ d # None /\ last \in Nat
          /\ DOMAIN queue = 1 .. Len(queue) /\ Len(queue) \in Nat
      BY <2>1, DweetsOK DEF QueueOK, Cells, Sent, Dweet, None
    <2>3. CASE NewDweet
      <3> DEFINE n == Latest(key)
      <3>1. /\ switched' = (switched \/ (last # None /\ sent[last] # key))
            /\ raced' = (~switched' /\ (raced \/ Top.seen # last))
            /\ last' = n /\ n \notin {None, Top.seen}
        BY <2>3 DEF NewDweet, SetLastDweet
      <3>2. Top.seen = last /\ (last # None => sent[last] = key)
        BY <3>1, Zenon
      <3>3. n \in Dweet /\ n \in Nat /\ \A i \in 1 .. Sent : sent[i] = key => i <= n
        BY <2>1, <3>1, LatestType, LatestIsLast DEF Cells, None
      <3>4. last \in 1 .. Sent
        <4>1. d <= last
          BY Zenon DEF Overtaken
        <4>2. d >= 1 /\ last \in 0 .. Sent /\ Sent \in Nat
          BY <2>1, <2>2 DEF Dweet, Cells, Sent
        <4> QED
          BY <2>2, <4>1, <4>2
      <3>5. last <= n /\ n # last
        BY <2>2, <3>1, <3>2, <3>3, <3>4 DEF None
      <3>6. UNCHANGED <<queue, runs>> \/ (Run(n) /\ UNCHANGED queue) \/ (Queued(n) /\ UNCHANGED runs)
        BY <2>3, NewDweetDoes
      <3> HIDE DEF n
      <3>7. d <= last' /\ d # n
        BY <2>2, <3>1, <3>3, <3>5 DEF Overtaken
      <3>8. CASE UNCHANGED <<queue, runs>>
        BY <3>7, <3>8 DEF Overtaken
      <3>9. CASE Run(n) /\ UNCHANGED queue
        BY <2>1, <3>3, <3>7, <3>9, RunType DEF Overtaken
      <3>10. CASE Queued(n) /\ UNCHANGED runs
        <4>1. \A i \in DOMAIN queue' :
                (i \in DOMAIN queue /\ queue'[i] = queue[i]) \/ queue'[i].dweet = n
          BY <2>1, <3>3, <3>10, QueuedType
        <4> QED
          BY <3>7, <3>10, <4>1 DEF Overtaken
      <3> QED
        BY <3>6, <3>8, <3>9, <3>10
    <2>4. CASE OnGetDweets
      <3>1. queue' = Append(queue, Process) /\ UNCHANGED <<last, runs>>
        BY <2>4 DEF OnGetDweets
      <3>2. Process \in Command /\ Process.dweet = None
        BY DEF Process, Command
      <3>3. \A j \in DOMAIN queue' :
              (j \in DOMAIN queue /\ queue'[j] = queue[j]) \/ queue'[j].dweet = None
        BY <2>2, <3>1, <3>2, Appended
      <3> QED
        BY <2>2, <3>1, <3>3 DEF Overtaken
    <2>5. CASE RunQueued
      <3>1. queue # <<>> /\ UNCHANGED last
        BY <2>5 DEF RunQueued
      <3>2. CASE Requeues
        <4>1. Requeue(Head(queue)) /\ UNCHANGED runs
          BY <3>2 DEF Requeues, Requeue
        <4>2. /\ DOMAIN queue' = 1 .. Len(queue) /\ Len(queue) \in Nat \ {0}
              /\ queue'[Len(queue)].dweet = queue[1].dweet
              /\ \A i \in 1 .. Len(queue) - 1 : queue'[i].dweet = queue[i + 1].dweet
          BY <2>1, <3>1, <4>1, Requeued
        <4>3. ASSUME NEW i \in DOMAIN queue'
              PROVE  queue'[i].dweet # d
          <5>1. CASE i = Len(queue)
            <6>1. 1 \in DOMAIN queue
              BY <2>2, <4>2
            <6> QED
              BY <4>2, <5>1, <6>1 DEF Overtaken
          <5>2. CASE i # Len(queue)
            <6>1. i \in 1 .. Len(queue) - 1 /\ i + 1 \in DOMAIN queue
              BY <2>2, <4>2, <4>3, <5>2
            <6> QED
              BY <4>2, <6>1 DEF Overtaken
          <5> QED
            BY <5>1, <5>2
        <4> QED
          BY <3>1, <4>1, <4>3 DEF Overtaken
      <3>3. CASE Calls \/ Runs
        <4>1. /\ Head(queue) = queue[1] /\ 1 \in DOMAIN queue /\ Head(queue) \in Command
              /\ \A i \in DOMAIN queue' : i + 1 \in DOMAIN queue /\ queue'[i] = queue[i + 1]
          <5>1. queue' = Tail(queue)
            BY <3>3 DEF Calls, Runs, ShiftCommand
          <5> QED
            BY <2>2, <3>1, <5>1, Tails
        <4>2. Head(queue).dweet # d
          BY <4>1 DEF Overtaken
        <4>3. runs'[d] = runs[d]
          <5>1. CASE Calls
            BY <5>1 DEF Calls
          <5>2. CASE Runs
            <6>1. Head(queue).dweet \in Dweet /\ Run(Head(queue).dweet)
              BY <4>1, <5>2 DEF Runs, Command
            <6> QED
              BY <2>1, <4>2, <6>1, RunType
          <5> QED
            BY <3>3, <5>1, <5>2
        <4> QED
          BY <3>1, <4>1, <4>3 DEF Overtaken
      <3> QED
        BY <2>5, <3>2, <3>3, RunQueuedDoes
    <2>6. CASE Reset
      <3>1. queue' = <<>> /\ UNCHANGED <<last, runs>>
        BY <2>6 DEF Reset, LoseRam
      <3> QED
        BY <3>1 DEF Overtaken
    <2>7. CASE Restart
      BY <2>7 DEF Restart
    <2>8. CASE UNCHANGED <<queue, last, runs>>
      BY <2>8 DEF Overtaken
    <2> QED
      BY <2>3, <2>4, <2>5, <2>6, <2>7, <2>8
      DEF Next, CallReturns, Commands, Outside, ReadLastDweet, WaitFails, GetFails, NothingNew,
          CmdDweetProcess, CmdDweetStart, SendDweet, Network, vars, device
  <1> QED
    BY <1>1, InvAlways, PTL DEF Spec, NoWayBack
=============================================================================
