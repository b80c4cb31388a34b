---------------------------- MODULE CommandQueue ----------------------------
(***************************************************************************)
(* What the menu handler promises of the commands it queues: they run one  *)
(* at a time, each to its end, in the order they were scheduled, once.     *)
(* Only a restart drops commands, and it drops all of them.                *)
(***************************************************************************)
EXTENDS Naturals, Sequences

CONSTANT MaxCommands  (* commands scheduled in one behaviour               *)

VARIABLES
  pending,   (* the numbers of the scheduled commands, oldest first        *)
  running,   (* the number of the command being executed, 0 for none       *)
  next       (* the number of the next command                             *)

Init ==
  /\ pending = <<>>
  /\ running = 0
  /\ next = 1

\* A command is scheduled behind all others.
Submit ==
  /\ next <= MaxCommands
  /\ pending' = Append(pending, next)
  /\ next' = next + 1
  /\ UNCHANGED running

Start ==
  /\ running = 0
  /\ pending # <<>>
  /\ running' = Head(pending)
  /\ pending' = Tail(pending)
  /\ UNCHANGED next

Finish ==
  /\ running # 0
  /\ running' = 0
  /\ UNCHANGED <<pending, next>>

Restart ==
  /\ pending' = <<>>
  /\ running' = 0
  /\ UNCHANGED next

Next == Submit \/ Start \/ Finish \/ Restart

Spec == Init /\ [][Next]_<<pending, running, next>>
=============================================================================
