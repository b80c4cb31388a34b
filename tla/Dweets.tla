------------------------------- MODULE Dweets -----------------------------
(***************************************************************************)
(* Commands by dweet: a timer queues dweet_process, which asks dweet.io    *)
(* for the latest dweet of a key and schedules its command unless it is    *)
(* the one remembered in RTC memory.  A command that begins with ! runs at *)
(* once, a list (or crc) only queues what it holds, once more.  The device *)
(* may be reset or restarted at any step.  stack holds the dweet_process   *)
(* calls in progress: each waits for WiFi, and a wait runs the menu.       *)
(***************************************************************************)
EXTENDS Naturals, Sequences, SequencesExt, FiniteSetsExt

CONSTANTS
  Keys,      (* the names dweets are sent to                               *)
  NoKey,     (* dwKey is empty                                             *)
  Lists,     (* the dweets whose command is a list or crc                  *)
  MaxDweet,  (* bound: dweets sent                                         *)
  MaxQueue,  (* bound: length of the command queue                         *)
  MaxNest    (* bound: calls in progress                                   *)

ASSUME DweetsOK ==
  /\ NoKey \notin Keys
  /\ {MaxDweet, MaxQueue} \subseteq Nat /\ MaxNest \in Nat \ {0}

VARIABLES
  net,      (* WiFi.status() == WL_CONNECTED                               *)
  stack,    (* dweet_process calls in progress                             *)
  queue,    (* commands scheduled                                          *)
  key,      (* dwKey                                                       *)
  timer,    (* the timer of dweet_start runs                               *)
  accept,   (* dweet.acceptStoredDweets                                    *)
  last,     (* RTC memory: lastDweetCreated                                *)
  sent,     (* dweet.io: the key of each dweet, in the order they were sent *)
  runs,     (* history: how often each dweet ran since RTC memory was lost *)
  stored,   (* history: number of dweets when RTC memory was lost          *)
  raced,    (* history: lastDweet changed under a dweet_process            *)
  switched  (* history: the one remembered was of another key              *)

device == <<stack, queue, key, timer>>
histories == <<runs, stored, raced, switched>>
vars == <<net, device, accept, last, sent, histories>>

Dweet == 1 .. MaxDweet
None == 0     \* no dweet seen, or none sent

\* A command of a dweet, still a list or not; that of none is dweet_process.
Command == [dweet : Dweet \cup {None}, list : BOOLEAN]
Process == [dweet |-> None, list |-> FALSE]

Sent == Len(sent)
Latest(k) == Max({i \in 1 .. Sent : sent[i] = k} \cup {None})

\* seen: lastDweet as read; asked: after the first wait; queued: from the queue.
Frame == [seen : Dweet \cup {None}, asked : BOOLEAN, queued : BOOLEAN]

Top == Last(stack)
Return == stack' = Front(stack)

\* Commands run in loop() and in a wait.
MayRun == stack = <<>> \/ (Len(stack) < MaxNest /\ ~net)
DrainsInWaits == stack # <<>> /\ \A i \in 1 .. Len(stack) : ~stack[i].queued  \* mutant
Draining == \A i \in 1 .. Len(stack) : ~stack[i].queued

-----------------------------------------------------------------------------
\* getDweetCommand waits, reads lastDweet and waits again.
CallReadsFirst(q) == stack' = Append(stack, [seen |-> last, asked |-> FALSE, queued |-> q])  \* mutant
Call(q) == stack' = Append(stack, [seen |-> None, asked |-> FALSE, queued |-> q])

ReadLastDweet ==
  /\ stack # <<>> /\ net /\ ~Top.asked
  /\ IF key = NoKey THEN Return
     ELSE stack' = Append(Front(stack), [Top EXCEPT !.seen = last, !.asked = TRUE])
  /\ UNCHANGED <<net, queue, key, timer, accept, last, sent, histories>>

WaitFails ==
  /\ stack # <<>> /\ ~net
  /\ Return
  /\ UNCHANGED <<net, queue, key, timer, accept, last, sent, histories>>

Answered == stack # <<>> /\ net /\ Top.asked

\* No answer, one that fails to parse, or one without success.
GetFails ==
  /\ Answered
  /\ Return
  /\ UNCHANGED <<net, queue, key, timer, accept, last, sent, histories>>

NothingNew ==
  /\ Answered
  /\ Latest(key) \in {None, Top.seen}
  /\ Return
  /\ UNCHANGED <<net, queue, key, timer, accept, last, sent, histories>>

ForgetsDweet == last' = last  \* mutant
SetLastDweet == last' = Latest(key)

AcceptsAll(seen) == TRUE  \* mutant

\* The first dweet ever seen is only remembered, unless stored ones are accepted.
Accepted(seen) == seen # None \/ accept

\* scheduleCommand: to the end of the queue, or executed at once.  What runs after
\* the key has changed is not counted.
Run(d) == runs' = [runs EXCEPT ![d] = IF @ < 2 /\ ~switched THEN @ + 1 ELSE @]
ScheduleCommand(d) ==
  \/ Run(d) /\ UNCHANGED queue
  \/ /\ Len(queue) < MaxQueue
     /\ queue' = Append(queue, [dweet |-> d, list |-> d \in Lists])
     /\ UNCHANGED runs

\* setLastDweet comes before the command is scheduled.
NewDweet ==
  /\ Answered
  /\ Latest(key) \notin {None, Top.seen}
  /\ SetLastDweet
  /\ switched' = (switched \/ (last # None /\ sent[last] # key))
  /\ raced' = (~switched' /\ (raced \/ Top.seen # last))
  /\ IF Accepted(Top.seen) THEN ScheduleCommand(Latest(key)) ELSE UNCHANGED <<queue, runs>>
  /\ Return
  /\ UNCHANGED <<net, key, timer, accept, sent, stored>>

-----------------------------------------------------------------------------
\* The menu and the timer.

\* dweet_start; interval 0 stops the timer.
CmdDweetStart(k, runs_) ==
  /\ MayRun
  /\ key' = k /\ timer' = runs_
  /\ UNCHANGED <<net, stack, queue, accept, last, sent, histories>>

CmdDweetProcess ==
  /\ MayRun
  /\ Call(FALSE)
  /\ UNCHANGED <<net, queue, key, timer, accept, last, sent, histories>>

\* onGetDweets: the timers are looked at by loop() only.
OnGetDweets ==
  /\ stack = <<>> /\ timer /\ Len(queue) < MaxQueue
  /\ queue' = Append(queue, Process)
  /\ UNCHANGED <<net, stack, key, timer, accept, last, sent, histories>>

ShiftCommand == queue' = Tail(queue)

\* What a list holds goes to the end of the queue.
Requeue(c) ==
  /\ queue' = Append(Tail(queue), [dweet |-> c.dweet, list |-> FALSE])
  /\ UNCHANGED <<stack, runs>>

RunQueued ==
  /\ MayRun /\ Draining /\ queue # <<>>
  /\ LET c == Head(queue) IN
       \/ c.dweet = None /\ ShiftCommand /\ Call(TRUE) /\ UNCHANGED runs
       \/ c.dweet # None /\ ~c.list /\ ShiftCommand /\ Run(c.dweet) /\ UNCHANGED stack
       \/ c.dweet # None /\ c.list /\ Requeue(c)
  /\ UNCHANGED <<net, key, timer, accept, last, sent, stored, raced, switched>>

-----------------------------------------------------------------------------
\* What comes from outside.

SendDweet(k) ==
  /\ Sent < MaxDweet
  /\ sent' = Append(sent, k)
  /\ UNCHANGED <<net, device, accept, last, histories>>

Network ==
  /\ net' = ~net
  /\ UNCHANGED <<device, accept, last, sent, histories>>

\* dweet.autostart queues dweet_start, which runs before any other dweet command.
LoseRam ==
  /\ stack' = <<>> /\ queue' = <<>>
  /\ \/ key' = NoKey /\ timer' = FALSE
     \/ key' \in Keys /\ timer' \in BOOLEAN
  /\ UNCHANGED <<net, accept, sent>>

\* The reset pin, an exception, deep sleep.
Reset == LoseRam /\ UNCHANGED <<last, histories>>

\* espRestart and a loss of power.
Restart ==
  /\ LoseRam
  /\ last' = None
  /\ runs' = [d \in Dweet |-> 0] /\ stored' = Sent
  /\ raced' = FALSE /\ switched' = FALSE

Init ==
  /\ net \in BOOLEAN /\ accept \in BOOLEAN
  /\ stack = <<>> /\ queue = <<>> /\ key = NoKey /\ timer = FALSE
  /\ last = None /\ sent = <<>>
  /\ runs = [d \in Dweet |-> 0] /\ stored = None /\ raced = FALSE /\ switched = FALSE

CallReturns == ReadLastDweet \/ WaitFails \/ GetFails \/ NothingNew \/ NewDweet
Commands == CmdDweetProcess \/ \E k \in Keys, b \in BOOLEAN : CmdDweetStart(k, b)
Outside == Network \/ Reset \/ Restart \/ \E k \in Keys : SendDweet(k)

Next == CallReturns \/ OnGetDweets \/ RunQueued \/ Commands \/ Outside

Spec == Init /\ [][Next]_vars

\* Waits end, loop() comes round, the timer fires.
FairSpec ==
  /\ Spec
  /\ \A d \in 1 .. MaxNest : SF_vars(Len(stack) = d /\ CallReturns)
  /\ SF_vars(RunQueued) /\ SF_vars(OnGetDweets)

-----------------------------------------------------------------------------
\* Properties.

\* Types of the calls, the queue and the dweets; a call has read no dweet before its
\* first wait is over.
TypeOK ==
  /\ {net, timer, accept, raced, switched} \subseteq BOOLEAN
  /\ stack \in Seq(Frame) /\ Len(stack) <= MaxNest
  /\ \A i \in 1 .. Len(stack) : stack[i].asked \/ stack[i].seen = None
  /\ queue \in Seq(Command) /\ Len(queue) <= MaxQueue
  /\ key \in Keys \cup {NoKey} /\ sent \in Seq(Keys) /\ Sent <= MaxDweet
  /\ {last, stored} \subseteq Dweet \cup {None}
  /\ runs \in [Dweet -> 0 .. 2]

\* While RTC memory lasts no dweet runs twice, also across resets and deep sleep:
\* it is remembered before it is scheduled.  Two exceptions: the key has changed
\* (one memory for all keys), or two dweet_process overlapped between the waits.
DweetOnce == raced \/ switched \/ \A d \in Dweet : runs[d] <= 1

\* Without acceptStoredDweets no dweet sent before RTC memory was lost is
\* executed, unless the key has changed.
StoredNeedConsent == accept \/ switched \/ \A d \in 1 .. stored : runs[d] = 0

\* In the end the latest dweet is the one remembered and the commands of dweets
\* have been executed, if the device, its timer and its network stay up, dweet.io
\* answers and nobody types commands.
Undisturbed ==
  /\ <>[](net /\ timer /\ key # NoKey)
  /\ <>[][~(GetFails \/ Commands \/ Outside)]_vars
Arrived ==
  /\ \A k \in Keys : key = k => Latest(k) \in {None, last}
  /\ \A i \in 1 .. Len(queue) : queue[i] = Process
DweetsArrive == Undisturbed => <>[]Arrived
=============================================================================
