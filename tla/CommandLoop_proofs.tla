------------------------- MODULE CommandLoop_proofs -------------------------
(***************************************************************************)
(* However deep waits and menu loops nest: the executing flag is exact,    *)
(* disabled scheduling means that no queued command is in progress, and    *)
(* the menu handler implements the abstract command queue.  For every      *)
(* number of commands and every depth of the stack.                        *)
(***************************************************************************)
EXTENDS CommandLoop, SequenceTheorems, TLAPS

\* A menu loop inside processCommands' while loop.
InDrain(f) == f.fn = "menu" /\ f.pt \in {"drain", "more"}
NoDrain(s) == \A i \in DOMAIN s : ~InDrain(s[i])

\* The queued commands of a stack, and the number of the one.
QueuedIn(s) == {i \in DOMAIN s : s[i].fn = "queued"}
RunningIn(s) == IF QueuedIn(s) = {} THEN 0 ELSE s[CHOOSE i \in QueuedIn(s) : TRUE].id

\* The sketch is at the bottom and nowhere else; a menu loop that drains the
\* queue is either on top, or what it called is a queued command; there is at
\* most one such command, and the flag tells.
StackOK(s, e) ==
  /\ s \in Seq(Frames) /\ s # <<>>
  /\ \A i \in DOMAIN s : s[i].fn = "main" <=> i = 1
  /\ \A i \in DOMAIN s : i < Len(s) /\ InDrain(s[i]) => s[i + 1].fn = "queued"
  /\ \A i, j \in DOMAIN s : s[i].fn = "queued" /\ s[j].fn = "queued" => i = j
  /\ \A i \in DOMAIN s : s[i].fn = "queued" => s[i].id # 0
  /\ e <=> \E i \in DOMAIN s : s[i].fn = "queued"
  /\ InDrain(s[Len(s)]) => ~e

DisabledOK == ~enabled => ~executing /\ NoDrain(stack)

QueueOK ==
  /\ queue \in Seq([id : 1 .. MaxCommands, kind : Kinds])
  /\ next \in 1 .. MaxCommands + 1

FlagsOK ==
  /\ executing \in BOOLEAN /\ enabled \in BOOLEAN /\ skip \in BOOLEAN /\ waited \in BOOLEAN
  /\ chosen \in BOOLEAN /\ pressed \in BOOLEAN

ModeOK == mode \in {"idle", "cycle", "confirm", "executed"}

\* The inductive invariant.
Inv == StackOK(stack, executing) /\ DisabledOK /\ QueueOK /\ FlagsOK /\ ModeOK

-----------------------------------------------------------------------------
\* The three ways a step changes the stack.

LEMMA Fronts ==
  ASSUME NEW S, NEW s \in Seq(S), s # <<>>
  PROVE  /\ Front(s) \in Seq(S)
         /\ Len(Front(s)) = Len(s) - 1
         /\ \A i \in 1 .. Len(s) - 1 : Front(s)[i] = s[i]
  <1> DEFINE u == SubSeq(s, 1, Len(s) - 1)
  <1>1. Len(s) \in Nat /\ Len(s) >= 1 /\ \A i \in 1 .. Len(s) - 1 : s[i] \in S
    OBVIOUS
  <1>2. /\ u \in Seq(S)
        /\ Len(u) = IF 1 <= Len(s) - 1 THEN Len(s) - 1 - 1 + 1 ELSE 0
        /\ \A i \in 1 .. Len(s) - 1 - 1 + 1 : u[i] = s[1 + i - 1]
    BY <1>1, SubSeqProperties
  <1>3. Front(s) = u
    BY DEF Front
  <1> HIDE DEF u
  <1>4. Len(s) - 1 - 1 + 1 = Len(s) - 1 /\ (~(1 <= Len(s) - 1) => Len(s) - 1 = 0)
    <2>1. \A n \in Nat : n >= 1 => n - 1 - 1 + 1 = n - 1 /\ (~(1 <= n - 1) => n - 1 = 0)
      OBVIOUS
    <2> QED
      BY <1>1, <2>1
  <1>5. Len(u) = Len(s) - 1
    BY <1>2, <1>4
  <1>6. ASSUME NEW i \in 1 .. Len(s) - 1
        PROVE  u[i] = s[i]
    <2>1. u[i] = s[1 + i - 1]
      BY <1>2, <1>4
    <2>2. 1 + i - 1 = i
      BY <1>1
    <2> QED
      BY <2>1, <2>2
  <1> QED
    BY <1>2, <1>3, <1>5, <1>6

LEMMA Replaced ==
  ASSUME NEW S, NEW s \in Seq(S), s # <<>>, NEW f \in S
  PROVE  /\ Front(s) \o <<f>> \in Seq(S) /\ Len(Front(s) \o <<f>>) = Len(s)
         /\ \A i \in 1 .. Len(s) - 1 : (Front(s) \o <<f>>)[i] = s[i]
         /\ (Front(s) \o <<f>>)[Len(s)] = f
  <1> DEFINE u == Front(s)
             v == <<f>>
  <1>1. v \in Seq(S) /\ Len(v) = 1 /\ v[1] = f
    OBVIOUS
  <1>2. u \in Seq(S) /\ Len(u) = Len(s) - 1 /\ \A i \in 1 .. Len(s) - 1 : u[i] = s[i]
    BY Fronts
  <1>3. Len(s) \in Nat /\ Len(s) >= 1
    OBVIOUS
  <1> HIDE DEF u, v
  <1>4. /\ u \o v \in Seq(S) /\ Len(u \o v) = Len(u) + Len(v)
        /\ \A i \in 1 .. Len(u) + Len(v) :
             (u \o v)[i] = IF i <= Len(u) THEN u[i] ELSE v[i - Len(u)]
    BY <1>1, <1>2, ConcatProperties
  <1>5. (u \o v)[Len(s)] = f
    BY <1>1, <1>2, <1>3, <1>4
  <1>6. \A i \in 1 .. Len(s) - 1 : (u \o v)[i] = s[i]
    BY <1>1, <1>2, <1>3, <1>4
  <1>7. Len(u \o v) = Len(s)
    BY <1>1, <1>2, <1>3, <1>4
  <1> QED
    BY <1>4, <1>5, <1>6, <1>7 DEF u, v

LEMMA Called ==
  ASSUME NEW S, NEW s \in Seq(S), s # <<>>, NEW f \in S, NEW g \in S
  PROVE  /\ Front(s) \o <<f, g>> \in Seq(S) /\ Len(Front(s) \o <<f, g>>) = Len(s) + 1
         /\ \A i \in 1 .. Len(s) - 1 : (Front(s) \o <<f, g>>)[i] = s[i]
         /\ (Front(s) \o <<f, g>>)[Len(s)] = f
         /\ (Front(s) \o <<f, g>>)[Len(s) + 1] = g
  <1> DEFINE u == Front(s)
             v == <<f, g>>
  <1>1. v \in Seq(S) /\ Len(v) = 2 /\ v[1] = f /\ v[2] = g
    OBVIOUS
  <1>2. u \in Seq(S) /\ Len(u) = Len(s) - 1 /\ \A i \in 1 .. Len(s) - 1 : u[i] = s[i]
    BY Fronts
  <1>3. Len(s) \in Nat /\ Len(s) >= 1
    OBVIOUS
  <1> HIDE DEF u, v
  <1>4. /\ u \o v \in Seq(S) /\ Len(u \o v) = Len(u) + Len(v)
        /\ \A i \in 1 .. Len(u) + Len(v) :
             (u \o v)[i] = IF i <= Len(u) THEN u[i] ELSE v[i - Len(u)]
    BY <1>1, <1>2, ConcatProperties
  <1>5. (u \o v)[Len(s)] = f /\ (u \o v)[Len(s) + 1] = g
    BY <1>1, <1>2, <1>3, <1>4
  <1>6. \A i \in 1 .. Len(s) - 1 : (u \o v)[i] = s[i]
    BY <1>1, <1>2, <1>3, <1>4
  <1>7. Len(u \o v) = Len(s) + 1
    BY <1>1, <1>2, <1>3, <1>4
  <1> QED
    BY <1>4, <1>5, <1>6, <1>7 DEF u, v

\* The running number is that of any queued frame when there is at most one.
LEMMA TheQueued ==
  ASSUME NEW s, NEW q \in QueuedIn(s), \A i, j \in QueuedIn(s) : i = j
  PROVE  RunningIn(s) = s[q].id
  <1> DEFINE c == CHOOSE i \in QueuedIn(s) : TRUE
  <1>1. c \in QueuedIn(s)
    OBVIOUS
  <1>2. c = q
    BY <1>1
  <1> QED
    BY <1>2 DEF RunningIn

\* Two stacks with the same queued frame run the same command.
LEMMA SameRunning ==
  ASSUME NEW s, NEW t, NEW e, StackOK(s, e), QueuedIn(t) = QueuedIn(s),
         \A i \in QueuedIn(s) : t[i].id = s[i].id
  PROVE  RunningIn(t) = RunningIn(s)
  <1>1. CASE QueuedIn(s) = {}
    BY <1>1 DEF RunningIn
  <1>2. CASE QueuedIn(s) # {}
    <2>1. PICK q : q \in QueuedIn(s)
      BY <1>2
    <2>2. \A i, j \in QueuedIn(s) : i = j
      BY DEF StackOK, QueuedIn
    <2>3. RunningIn(s) = s[q].id
      BY <2>1, <2>2, TheQueued
    <2>4. RunningIn(t) = t[q].id
      BY <2>1, <2>2, TheQueued
    <2> QED
      BY <2>1, <2>3, <2>4
  <1> QED
    BY <1>1, <1>2

\* What the steps that start and end no queued command keep.
After(s, t, e) ==
  /\ StackOK(t, e)
  /\ RunningIn(t) = RunningIn(s)
  /\ NoDrain(s) => NoDrain(t)

LEMMA ReplacedOK ==
  ASSUME NEW s, NEW e, StackOK(s, e), NEW f \in Frames, NEW t, t = Front(s) \o <<f>>,
         ~InDrain(f),
         f.fn = "queued" <=> s[Len(s)].fn = "queued",
         f.fn = "queued" => f.id = s[Len(s)].id,
         f.fn = "main" <=> s[Len(s)].fn = "main"
  PROVE  After(s, t, e)
  <1>1. s \in Seq(Frames) /\ s # <<>> /\ Len(s) \in Nat /\ Len(s) >= 1
    BY DEF StackOK
  <1>2. /\ t \in Seq(Frames) /\ Len(t) = Len(s)
        /\ \A i \in 1 .. Len(s) - 1 : t[i] = s[i]
        /\ t[Len(s)] = f
    BY <1>1, Replaced
  <1>3. DOMAIN s = 1 .. Len(s) /\ DOMAIN t = 1 .. Len(s)
    BY <1>1, <1>2
  <1>4. \A i \in DOMAIN s : t[i].fn = "queued" <=> s[i].fn = "queued"
    BY <1>1, <1>2, <1>3
  <1>5. \A i \in DOMAIN s : t[i].fn = "queued" => t[i].id = s[i].id
    BY <1>1, <1>2, <1>3, SMTT(30)
  <1>6. \A i \in DOMAIN s : t[i].fn = "main" <=> s[i].fn = "main"
    BY <1>1, <1>2, <1>3, SMTT(30)
  <1>7. \A i \in DOMAIN t : InDrain(t[i]) => InDrain(s[i]) /\ i < Len(s)
    BY <1>1, <1>2, <1>3, SMTT(30)
  <1>8. StackOK(t, e)
    <2>1. t # <<>>
      BY <1>1, <1>2
    <2>2. \A i \in DOMAIN t : t[i].fn = "main" <=> i = 1
      BY <1>3, <1>6 DEF StackOK
    <2>3. ASSUME NEW i \in DOMAIN t, i < Len(t), InDrain(t[i])
          PROVE  t[i + 1].fn = "queued"
      <3>1. s[i + 1].fn = "queued" /\ i + 1 \in DOMAIN s
        BY <1>1, <1>2, <1>3, <1>7, <2>3 DEF StackOK
      <3> QED
        BY <3>1, <1>4
    <2>4. \A i, j \in DOMAIN t : t[i].fn = "queued" /\ t[j].fn = "queued" => i = j
      BY <1>3, <1>4 DEF StackOK
    <2>5. \A i \in DOMAIN t : t[i].fn = "queued" => t[i].id # 0
      BY <1>3, <1>4, <1>5 DEF StackOK
    <2>6. e <=> \E i \in DOMAIN t : t[i].fn = "queued"
      BY <1>3, <1>4 DEF StackOK
    <2> QED
      BY <1>2, <2>1, <2>2, <2>3, <2>4, <2>5, <2>6, SMTT(30) DEF StackOK
  <1>9. QueuedIn(t) = QueuedIn(s)
    BY <1>3, <1>4 DEF QueuedIn
  <1>10. RunningIn(t) = RunningIn(s)
    <2>1. \A i \in QueuedIn(s) : t[i].id = s[i].id
      BY <1>3, <1>4, <1>5 DEF QueuedIn
    <2> QED
      BY <1>9, <2>1, SameRunning
  <1>11. NoDrain(s) => NoDrain(t)
    BY <1>3, <1>7 DEF NoDrain
  <1> QED
    BY <1>8, <1>10, <1>11 DEF After

LEMMA PushedOK ==
  ASSUME NEW s, NEW e, StackOK(s, e), ~InDrain(s[Len(s)]), NEW g \in Frames, NEW t,
         t \in Seq(Frames), Len(t) = Len(s) + 1,
         \A i \in 1 .. Len(s) : t[i] = s[i],
         t[Len(s) + 1] = g, ~InDrain(g), g.fn \notin {"queued", "main"}
  PROVE  After(s, t, e)
  <1>1. s \in Seq(Frames) /\ s # <<>> /\ Len(s) \in Nat /\ Len(s) >= 1
    BY DEF StackOK
  <1>2. DOMAIN s = 1 .. Len(s) /\ DOMAIN t = 1 .. Len(s) + 1
    BY <1>1
  <1>3. \A i \in DOMAIN t : t[i].fn = "queued" => i \in DOMAIN s /\ s[i] = t[i]
    BY <1>1, <1>2
  <1>4. \A i \in DOMAIN s : i \in DOMAIN t /\ s[i] = t[i]
    BY <1>1, <1>2
  <1>5. \A i \in DOMAIN t : InDrain(t[i]) => i \in DOMAIN s /\ i < Len(s) /\ InDrain(s[i])
    BY <1>1, <1>2
  <1>6. StackOK(t, e)
    <2>1. t # <<>>
      BY <1>1
    <2>2. \A i \in DOMAIN t : t[i].fn = "main" <=> i = 1
      BY <1>1, <1>2, <1>4 DEF StackOK
    <2>3. ASSUME NEW i \in DOMAIN t, i < Len(t), InDrain(t[i])
          PROVE  t[i + 1].fn = "queued"
      <3>1. s[i + 1].fn = "queued" /\ i + 1 \in DOMAIN s
        BY <1>1, <1>2, <1>5, <2>3 DEF StackOK
      <3> QED
        BY <3>1, <1>4
    <2>4. \A i, j \in DOMAIN t : t[i].fn = "queued" /\ t[j].fn = "queued" => i = j
      BY <1>3 DEF StackOK
    <2>5. \A i \in DOMAIN t : t[i].fn = "queued" => t[i].id # 0
      BY <1>3 DEF StackOK
    <2>6. e <=> \E i \in DOMAIN t : t[i].fn = "queued"
      BY <1>3, <1>4 DEF StackOK
    <2>7. ~InDrain(t[Len(t)])
      BY <1>1
    <2> QED
      BY <2>1, <2>2, <2>3, <2>4, <2>5, <2>6, <2>7 DEF StackOK
  <1>7. QueuedIn(t) = QueuedIn(s)
    BY <1>3, <1>4 DEF QueuedIn
  <1>8. RunningIn(t) = RunningIn(s)
    <2>1. \A i \in QueuedIn(s) : t[i].id = s[i].id
      BY <1>4 DEF QueuedIn
    <2> QED
      BY <1>7, <2>1, SameRunning
  <1>9. NoDrain(s) => NoDrain(t)
    BY <1>5 DEF NoDrain
  <1> QED
    BY <1>6, <1>8, <1>9 DEF After

\* A call is a change of the calling frame and then a push.
LEMMA CalledOK ==
  ASSUME NEW s, NEW e, StackOK(s, e), NEW f \in Frames, NEW g \in Frames, NEW t,
         t = Front(s) \o <<f, g>>,
         ~InDrain(f),
         f.fn = "queued" <=> s[Len(s)].fn = "queued",
         f.fn = "queued" => f.id = s[Len(s)].id,
         f.fn = "main" <=> s[Len(s)].fn = "main",
         ~InDrain(g), g.fn \notin {"queued", "main"}
  PROVE  After(s, t, e)
  <1> DEFINE u == Front(s) \o <<f>>
  <1>1. s \in Seq(Frames) /\ s # <<>> /\ Len(s) \in Nat /\ Len(s) >= 1
    BY DEF StackOK
  <1>2. After(s, u, e)
    BY ReplacedOK
  <1>3. /\ u \in Seq(Frames) /\ Len(u) = Len(s)
        /\ \A i \in 1 .. Len(s) - 1 : u[i] = s[i]
        /\ u[Len(s)] = f
    BY <1>1, Replaced, ZenonT(30)
  <1>4. /\ t \in Seq(Frames) /\ Len(t) = Len(s) + 1
        /\ \A i \in 1 .. Len(s) - 1 : t[i] = s[i]
        /\ t[Len(s)] = f /\ t[Len(s) + 1] = g
    BY <1>1, Called
  <1>5. \A i \in 1 .. Len(u) : t[i] = u[i]
    BY <1>1, <1>3, <1>4
  <1> HIDE DEF u
  <1>6. After(u, t, e)
    BY <1>2, <1>3, <1>4, <1>5, PushedOK DEF After
  <1> QED
    BY <1>2, <1>6 DEF After

\* The frame below one that is not a queued command does not drain.
LEMMA ReturnedOK ==
  ASSUME NEW s, NEW e, StackOK(s, e), s[Len(s)].fn \notin {"queued", "main"},
         NEW t, t = Front(s)
  PROVE  After(s, t, e)
  <1>1. s \in Seq(Frames) /\ s # <<>> /\ Len(s) \in Nat /\ Len(s) >= 1
    BY DEF StackOK
  <1>2. Len(s) # 1
    BY <1>1 DEF StackOK
  <1>3. /\ t \in Seq(Frames) /\ Len(t) = Len(s) - 1
        /\ \A i \in 1 .. Len(s) - 1 : t[i] = s[i]
    BY <1>1, Fronts
  <1>4. DOMAIN s = 1 .. Len(s) /\ DOMAIN t = 1 .. Len(s) - 1
    BY <1>1, <1>3
  <1>5. \A i \in DOMAIN s : s[i].fn = "queued" => i \in DOMAIN t /\ s[i] = t[i]
    BY <1>1, <1>3, <1>4
  <1>6. \A i \in DOMAIN t : i \in DOMAIN s /\ s[i] = t[i]
    BY <1>1, <1>3, <1>4
  <1>7. StackOK(t, e)
    <2>1. t # <<>>
      BY <1>1, <1>2, <1>3
    <2>2. \A i \in DOMAIN t : t[i].fn = "main" <=> i = 1
      BY <1>6 DEF StackOK
    <2>3. ASSUME NEW i \in DOMAIN t, i < Len(t), InDrain(t[i])
          PROVE  t[i + 1].fn = "queued"
      <3>1. i < Len(s) /\ i \in DOMAIN s /\ InDrain(s[i]) /\ i + 1 \in DOMAIN t
        BY <1>1, <1>3, <1>4, <1>6, <2>3
      <3>2. s[i + 1].fn = "queued"
        BY <3>1 DEF StackOK
      <3> QED
        BY <3>1, <3>2, <1>6
    <2>4. \A i, j \in DOMAIN t : t[i].fn = "queued" /\ t[j].fn = "queued" => i = j
      BY <1>6 DEF StackOK
    <2>5. \A i \in DOMAIN t : t[i].fn = "queued" => t[i].id # 0
      BY <1>6 DEF StackOK
    <2>6. e <=> \E i \in DOMAIN t : t[i].fn = "queued"
      BY <1>5, <1>6 DEF StackOK
    <2>7. ~InDrain(t[Len(t)])
      <3>1. Len(t) \in DOMAIN t /\ Len(t) < Len(s) /\ Len(t) + 1 = Len(s)
        BY <1>1, <1>2, <1>3, <1>4
      <3>2. ~InDrain(s[Len(t)])
        BY <3>1, <1>6 DEF StackOK
      <3> QED
        BY <3>1, <3>2, <1>6
    <2> QED
      BY <1>3, <2>1, <2>2, <2>3, <2>4, <2>5, <2>6, <2>7 DEF StackOK
  <1>8. QueuedIn(t) = QueuedIn(s)
    BY <1>5, <1>6 DEF QueuedIn
  <1>9. RunningIn(t) = RunningIn(s)
    <2>1. \A i \in QueuedIn(s) : t[i].id = s[i].id
      BY <1>5 DEF QueuedIn
    <2> QED
      BY <1>8, <2>1, SameRunning
  <1>10. NoDrain(s) => NoDrain(t)
    BY <1>6 DEF NoDrain
  <1> QED
    BY <1>7, <1>9, <1>10 DEF After

-----------------------------------------------------------------------------
\* The same for the operators the actions are written with.

LEMMA TopFrame ==
  ASSUME Inv
  PROVE  /\ stack \in Seq(Frames) /\ stack # <<>> /\ Len(stack) \in Nat /\ Len(stack) >= 1
         /\ Top = stack[Len(stack)] /\ Top \in Frames
  <1>1. stack \in Seq(Frames) /\ stack # <<>>
    BY DEF Inv, StackOK
  <1>2. Len(stack) \in Nat /\ Len(stack) >= 1
    BY <1>1
  <1> QED
    BY <1>1, <1>2 DEF Top, Last

LEMMA Repointed ==
  ASSUME NEW f \in Frames, NEW pt \in Points
  PROVE  /\ [f EXCEPT !.pt = pt] \in Frames
         /\ [f EXCEPT !.pt = pt].fn = f.fn
         /\ [f EXCEPT !.pt = pt].id = f.id
         /\ [f EXCEPT !.pt = pt].pt = pt
  BY DEF Frames

LEMMA CalledFrames ==
  ASSUME NEW g \in {Menu, Wait} \cup {Direct(k) : k \in Kinds}
  PROVE  g \in Frames /\ ~InDrain(g) /\ g.fn \notin {"queued", "main"}
  <1>1. Menu \in Frames /\ ~InDrain(Menu) /\ Menu.fn \notin {"queued", "main"}
    BY BoundsOK DEF Menu, Frame, Frames, Points, InDrain
  <1>2. Wait \in Frames /\ ~InDrain(Wait) /\ Wait.fn \notin {"queued", "main"}
    BY BoundsOK DEF Wait, Frame, Frames, Points, InDrain
  <1>3. ASSUME NEW k \in Kinds
        PROVE  Direct(k) \in Frames /\ ~InDrain(Direct(k)) /\ Direct(k).fn \notin {"queued", "main"}
    BY BoundsOK DEF Direct, Frame, Frames, Points, InDrain
  <1> QED
    BY <1>1, <1>2, <1>3

LEMMA GotoOK ==
  ASSUME Inv, NEW pt \in Points, Goto(pt), ~(Top.fn = "menu" /\ pt \in {"drain", "more"})
  PROVE  After(stack, stack', executing)
  <1> DEFINE f == [Top EXCEPT !.pt = pt]
  <1>1. f \in Frames /\ f.fn = Top.fn /\ f.id = Top.id /\ f.pt = pt
    BY TopFrame, Repointed
  <1>2. stack' = Front(stack) \o <<f>>
    BY DEF Goto
  <1> HIDE DEF f
  <1>3. ~InDrain(f)
    BY <1>1 DEF InDrain
  <1> QED
    BY <1>1, <1>2, <1>3, TopFrame, ReplacedOK DEF Inv

LEMMA CallOK ==
  ASSUME Inv, NEW pt \in Points, NEW g \in {Menu, Wait} \cup {Direct(k) : k \in Kinds},
         GotoAndCall(pt, g), ~(Top.fn = "menu" /\ pt \in {"drain", "more"})
  PROVE  After(stack, stack', executing)
  <1> DEFINE f == [Top EXCEPT !.pt = pt]
  <1>1. f \in Frames /\ f.fn = Top.fn /\ f.id = Top.id /\ f.pt = pt
    BY TopFrame, Repointed
  <1>2. stack' = Front(stack) \o <<f, g>>
    BY DEF GotoAndCall
  <1> HIDE DEF f
  <1>3. ~InDrain(f)
    BY <1>1 DEF InDrain
  <1>4. g \in Frames /\ ~InDrain(g) /\ g.fn \notin {"queued", "main"}
    BY CalledFrames
  <1> QED
    BY <1>1, <1>2, <1>3, <1>4, TopFrame, CalledOK DEF Inv

LEMMA ReturnOK ==
  ASSUME Inv, Return, Top.fn \notin {"queued", "main"}
  PROVE  After(stack, stack', executing)
  BY TopFrame, ReturnedOK DEF Inv, Return

-----------------------------------------------------------------------------
\* What a step is to the abstract queue: nothing or a submission, a restart,
\* the start of a command, or its end.

Kept == UNCHANGED <<queue, next>>
Scheduled == \E k \in Kinds : Schedule(k)

Quiet ==
  /\ StackOK(stack', executing') /\ executing' = executing
  /\ RunningIn(stack') = RunningIn(stack)
  /\ DisabledOK'
  /\ Kept \/ Scheduled

Started == ShiftCommand
Finished == EndCommand /\ Top.fn = "queued"

LEMMA Settled ==
  ASSUME Inv, After(stack, stack', executing), executing' = executing, enabled' = enabled,
         Kept \/ Scheduled
  PROVE  Quiet
  <1>1. DisabledOK'
    BY DEF Inv, DisabledOK, After
  <1> QED
    BY <1>1 DEF Quiet, After

LEMMA Unmoved ==
  ASSUME Inv, stack' = stack
  PROVE  After(stack, stack', executing)
  BY DEF Inv, After

\* The button disables scheduling only where nothing else is in progress.
LEMMA AtTheBottom ==
  ASSUME Inv, Top.fn = "main"
  PROVE  ~executing /\ NoDrain(stack)
  <1>1. Len(stack) = 1
    <2>1. \A i \in DOMAIN stack : stack[i].fn = "main" <=> i = 1
      BY DEF Inv, StackOK
    <2>2. Len(stack) \in DOMAIN stack /\ stack[Len(stack)].fn = "main"
      BY TopFrame
    <2> QED
      BY <2>1, <2>2
  <1>2. DOMAIN stack = {1} /\ stack[1].fn = "main"
    <2>1. DOMAIN stack = 1 .. 1
      BY <1>1, TopFrame
    <2> QED
      BY <1>1, <2>1, TopFrame
  <1>3. ~executing
    <2>1. ~\E i \in DOMAIN stack : stack[i].fn = "queued"
      BY <1>2
    <2>2. executing <=> \E i \in DOMAIN stack : stack[i].fn = "queued"
      BY DEF Inv, StackOK
    <2> QED
      BY <2>1, <2>2
  <1>4. NoDrain(stack)
    BY <1>2 DEF NoDrain, InDrain
  <1> QED
    BY <1>3, <1>4

LEMMA SettledAtTheBottom ==
  ASSUME Inv, Top.fn = "main", After(stack, stack', executing), executing' = executing,
         Kept \/ Scheduled
  PROVE  Quiet
  <1>1. ~executing' /\ NoDrain(stack')
    BY AtTheBottom DEF After
  <1> QED
    BY <1>1 DEF Quiet, After, DisabledOK

-----------------------------------------------------------------------------
\* The actions, one by one.

\* Points the frames are moved to.
LEMMA PointsOK ==
  /\ {"setup", "first", "skipTest", "plugins", "others", "second", "power", "sleep"} \subseteq Points
  /\ {"nop", "check", "done", "restart", "sss", "list", "poll", "drain", "more"} \subseteq Points
  BY DEF Points, Kinds

LEMMA SketchSteps ==
  ASSUME Inv,
         \/ SetupStep \/ SetupDone \/ FirstMenuLoop \/ SkipLoop
         \/ OtherPlugins \/ SecondMenuLoop \/ Power
  PROVE  Quiet
  <1> USE PointsOK
  <1>1. CASE SetupStep
    <2>1. After(stack, stack', executing)
      BY <1>1, CallOK DEF SetupStep, At
    <2> QED
      BY <1>1, <2>1, Settled DEF SetupStep, menuVars, buttonVars, Kept
  <1>2. CASE SetupDone
    <2>1. After(stack, stack', executing)
      BY <1>2, GotoOK DEF SetupDone, At
    <2>2. Kept \/ Scheduled
      BY <1>2 DEF SetupDone, Kept, Scheduled, Kinds, menuVars
    <2> QED
      BY <1>2, <2>1, <2>2, Settled DEF SetupDone, menuVars, buttonVars, Schedule
  <1>3. CASE FirstMenuLoop
    <2>1. After(stack, stack', executing)
      BY <1>3, CallOK DEF FirstMenuLoop, At
    <2> QED
      BY <1>3, <2>1, Settled DEF FirstMenuLoop, menuVars, buttonVars, Kept
  <1>4. CASE SkipLoop
    <2>1. After(stack, stack', executing)
      BY <1>4, GotoOK DEF SkipLoop, At
    <2> QED
      BY <1>4, <2>1, Settled DEF SkipLoop, menuVars, buttonVars, Kept
  <1>5. CASE OtherPlugins
    <2>1. CASE Goto("second") /\ UNCHANGED menuVars
      <3>1. After(stack, stack', executing)
        BY <1>5, <2>1, GotoOK DEF OtherPlugins, At
      <3> QED
        BY <1>5, <2>1, <3>1, Settled DEF OtherPlugins, menuVars, buttonVars, Kept
    <2>2. CASE \E k \in {"plain", "wait"} : Goto("second") /\ Schedule(k)
      <3>1. After(stack, stack', executing)
        BY <1>5, <2>2, GotoOK DEF OtherPlugins, At
      <3> QED
        BY <1>5, <2>2, <3>1, Settled DEF OtherPlugins, buttonVars, Scheduled, Schedule, Kinds
    <2>3. CASE \E f \in {Direct("wait"), Wait} : GotoAndCall("second", f) /\ UNCHANGED menuVars
      <3>1. After(stack, stack', executing)
        BY <1>5, <2>3, CallOK DEF OtherPlugins, At, Kinds
      <3> QED
        BY <1>5, <2>3, <3>1, Settled DEF OtherPlugins, menuVars, buttonVars, Kept
    <2> QED
      BY <1>5, <2>1, <2>2, <2>3 DEF OtherPlugins
  <1>6. CASE SecondMenuLoop
    <2>1. After(stack, stack', executing)
      BY <1>6, CallOK DEF SecondMenuLoop, At
    <2> QED
      BY <1>6, <2>1, Settled DEF SecondMenuLoop, menuVars, buttonVars, Kept
  <1>7. CASE Power
    <2>1. CASE Goto("first")
      <3>1. After(stack, stack', executing)
        BY <1>7, <2>1, GotoOK DEF Power, At
      <3>2. Kept \/ Scheduled
        BY <1>7 DEF Power, Kept, Scheduled, Kinds, menuVars
      <3> QED
        BY <1>7, <3>1, <3>2, Settled DEF Power, menuVars, buttonVars, Schedule
    <2>2. CASE GotoAndCall("sleep", Wait) /\ UNCHANGED menuVars
      <3>1. After(stack, stack', executing)
        BY <1>7, <2>2, CallOK DEF Power, At
      <3> QED
        BY <1>7, <2>2, <3>1, Settled DEF Power, menuVars, buttonVars, Kept
    <2> QED
      BY <1>7, <2>1, <2>2 DEF Power
  <1> QED
    BY <1>1, <1>2, <1>3, <1>4, <1>5, <1>6, <1>7

LEMMA AppendsToTheFront ==
  ASSUME Inv, NEW f \in Frames
  PROVE  Append(Front(stack), f) = Front(stack) \o <<f>>
  <1>1. Front(stack) \in Seq(Frames)
    BY TopFrame, Fronts
  <1> QED
    BY <1>1, AppendIsConcat

\* Without a queued command on the stack no menu loop drains below the top.
LEMMA NoneBelow ==
  ASSUME Inv, ~executing
  PROVE  \A i \in DOMAIN stack : i < Len(stack) => ~InDrain(stack[i])
  <1>1. \A i \in DOMAIN stack : stack[i].fn # "queued"
    BY DEF Inv, StackOK
  <1>2. \A i \in DOMAIN stack : i < Len(stack) /\ InDrain(stack[i]) => stack[i + 1].fn = "queued"
    BY DEF Inv, StackOK
  <1>3. \A i \in DOMAIN stack : i < Len(stack) => i + 1 \in DOMAIN stack
    BY TopFrame
  <1> QED
    BY <1>1, <1>2, <1>3

\* The menu loop starts to drain: only where nothing is executing.
LEMMA DrainStep ==
  ASSUME Inv, At("menu", "check"), MayProcess, Goto("drain"), UNCHANGED <<menuVars, enabled>>
  PROVE  Quiet
  <1> DEFINE s == stack
             f == [Top EXCEPT !.pt = "drain"]
             t == Front(s) \o <<f>>
  <1>1. f \in Frames /\ f.fn = "menu"
    BY TopFrame, Repointed, PointsOK DEF At
  <1>2. stack' = t
    BY DEF Goto
  <1>3. s \in Seq(Frames) /\ s # <<>> /\ Len(s) \in Nat /\ Len(s) >= 1 /\ s[Len(s)] = Top
    BY TopFrame
  <1> HIDE DEF f
  <1>4. /\ t \in Seq(Frames) /\ Len(t) = Len(s)
        /\ \A i \in 1 .. Len(s) - 1 : t[i] = s[i]
        /\ t[Len(s)] = f
    BY <1>1, <1>3, Replaced
  <1>5. executing' = executing /\ ~executing /\ enabled' = enabled /\ enabled
    BY DEF MayProcess, menuVars
  <1>6. StackOK(s, executing)
    BY DEF Inv
  <1>7. \A i \in DOMAIN s : s[i].fn # "queued"
    BY <1>5, <1>6 DEF StackOK
  <1>8. DOMAIN s = 1 .. Len(s) /\ DOMAIN t = 1 .. Len(s)
    BY <1>3, <1>4
  <1> HIDE DEF s, t
  <1>9. \A i \in DOMAIN t : t[i].fn # "queued"
    BY <1>1, <1>3, <1>4, <1>7, <1>8
  <1>10. \A i \in DOMAIN t : t[i].fn = "main" <=> i = 1
    <2>1. Top.fn = "menu"
      BY DEF At
    <2>2. \A i \in DOMAIN s : s[i].fn = "main" <=> i = 1
      BY <1>6 DEF StackOK
    <2> QED
      BY <1>1, <1>3, <1>4, <1>8, <2>1, <2>2
  <1>11. \A i \in DOMAIN t : i < Len(t) => ~InDrain(t[i])
    <2>1. \A i \in DOMAIN s : i < Len(s) => ~InDrain(s[i])
      BY <1>5, NoneBelow DEF s
    <2> QED
      BY <1>3, <1>4, <1>8, <2>1
  <1>12. StackOK(t, executing)
    BY <1>3, <1>4, <1>5, <1>9, <1>10, <1>11 DEF StackOK
  <1>13. QueuedIn(t) = {} /\ QueuedIn(s) = {}
    BY <1>7, <1>9 DEF QueuedIn
  <1>14. RunningIn(t) = RunningIn(s)
    BY <1>13 DEF RunningIn
  <1> QED
    BY <1>2, <1>5, <1>12, <1>14 DEF Quiet, DisabledOK, Kept, menuVars, s

LEMMA MenuSteps ==
  ASSUME Inv,
         \/ NoInput \/ (\E k \in Kinds : InputLine(k) \/ InputBang(k)) \/ InputNop
         \/ ProcessCommands \/ QueueEmpty
  PROVE  Quiet
  <1> USE PointsOK
  <1>1. CASE NoInput
    <2>1. After(stack, stack', executing)
      BY <1>1, GotoOK DEF NoInput, At
    <2> QED
      BY <1>1, <2>1, Settled DEF NoInput, menuVars, buttonVars, Kept
  <1>2. CASE \E k \in Kinds : InputLine(k)
    <2>1. After(stack, stack', executing)
      BY <1>2, GotoOK DEF InputLine, At
    <2>2. Scheduled
      BY <1>2 DEF InputLine, Scheduled
    <2> QED
      BY <1>2, <2>1, <2>2, Settled DEF InputLine, buttonVars, Schedule
  <1>3. CASE \E k \in Kinds : InputBang(k)
    <2>1. PICK k \in Kinds : InputBang(k)
      BY <1>3
    <2>2. After(stack, stack', executing)
      BY <2>1, CallOK DEF InputBang, At
    <2> QED
      BY <2>1, <2>2, Settled DEF InputBang, menuVars, buttonVars, Kept
  <1>4. CASE InputNop
    <2>1. After(stack, stack', executing)
      BY <1>4, GotoOK DEF InputNop, At
    <2>2. Kept \/ Scheduled
      BY <1>4 DEF InputNop, Kept, Scheduled, Kinds, menuVars
    <2> QED
      BY <1>4, <2>1, <2>2, Settled DEF InputNop, menuVars, buttonVars, Schedule
  <1>5. CASE ProcessCommands
    <2>1. CASE MayProcess
      BY <1>5, <2>1, DrainStep DEF ProcessCommands, buttonVars
    <2>2. CASE ~MayProcess
      <3>1. After(stack, stack', executing)
        BY <1>5, <2>2, ReturnOK DEF ProcessCommands, At
      <3> QED
        BY <1>5, <3>1, Settled DEF ProcessCommands, menuVars, buttonVars, Kept
    <2> QED
      BY <2>1, <2>2
  <1>6. CASE QueueEmpty
    <2>1. Top.fn = "menu"
      BY <1>6 DEF QueueEmpty, Draining, At
    <2>2. After(stack, stack', executing)
      <3>1. CASE Return
        BY <3>1, <2>1, ReturnOK
      <3>2. CASE stack' = Append(Front(stack), Wait)
        <4>1. Wait \in Frames /\ ~InDrain(Wait) /\ Wait.fn \notin {"queued", "main"}
          BY CalledFrames
        <4>2. stack' = Front(stack) \o <<Wait>>
          BY <3>2, <4>1, AppendsToTheFront
        <4>3. StackOK(stack, executing) /\ stack[Len(stack)].fn = "menu"
          BY <2>1, TopFrame DEF Inv
        <4> HIDE DEF After
        <4> QED
          BY <4>1, <4>2, <4>3, ReplacedOK
      <3> QED
        BY <1>6, <3>1, <3>2 DEF QueueEmpty
    <2> QED
      BY <1>6, <2>2, Settled DEF QueueEmpty, menuVars, buttonVars, Kept
  <1> QED
    BY <1>1, <1>2, <1>3, <1>4, <1>5, <1>6

LEMMA HandlerSteps ==
  ASSUME Inv,
         \/ EndCommand /\ Top.fn # "queued"
         \/ WaitCommand \/ ListItem \/ ListDone \/ StopActiveExecution
  PROVE  Quiet
  <1> USE PointsOK
  <1>1. CASE EndCommand /\ Top.fn # "queued"
    <2>1. Return /\ Top.fn = "direct" /\ executing \in BOOLEAN
      BY <1>1 DEF EndCommand, IsCommand, Inv, FlagsOK
    <2>2. After(stack, stack', executing)
      BY <2>1, ReturnOK
    <2>3. executing' = executing
      BY <1>1, <2>1 DEF EndCommand
    <2> QED
      BY <1>1, <2>2, <2>3, Settled DEF EndCommand, buttonVars, Kept
  <1>2. CASE WaitCommand
    <2>1. PICK pt \in {"list", "restart", "sss", "done"} : GotoAndCall(pt, Wait)
      BY <1>2 DEF WaitCommand
    <2>2. Top.fn \in {"queued", "direct"}
      BY <1>2 DEF WaitCommand, IsCommand
    <2>3. After(stack, stack', executing)
      BY <2>1, <2>2, CallOK
    <2> QED
      BY <1>2, <2>3, Settled DEF WaitCommand, menuVars, buttonVars, Kept
  <1>3. CASE ListItem
    <2>1. Top.fn \in {"queued", "direct"}
      BY <1>3 DEF ListItem, IsCommand
    <2>2. CASE \E k \in {"plain", "wait"} : Schedule(k) /\ UNCHANGED stack
      <3>1. After(stack, stack', executing)
        BY <2>2, Unmoved
      <3>2. Scheduled
        BY <2>2 DEF Scheduled, Kinds
      <3> QED
        BY <1>3, <2>2, <3>1, <3>2, Settled DEF ListItem, buttonVars, Schedule
    <2>3. CASE GotoAndCall("list", Direct("wait")) /\ UNCHANGED menuVars
      <3>1. Direct("wait") \in {Direct(k) : k \in Kinds}
        BY DEF Kinds
      <3>2. After(stack, stack', executing)
        BY <2>1, <2>3, <3>1, CallOK
      <3> QED
        BY <1>3, <2>3, <3>2, Settled DEF ListItem, menuVars, buttonVars, Kept
    <2> QED
      BY <1>3, <2>2, <2>3 DEF ListItem
  <1>4. CASE ListDone
    <2>1. Top.fn # "menu" /\ Goto("done") /\ "done" \in Points
      BY <1>4 DEF ListDone, IsCommand, Points
    <2>2. After(stack, stack', executing)
      BY <2>1, GotoOK
    <2> QED
      BY <1>4, <2>2, Settled DEF ListDone, menuVars, buttonVars, Kept
  <1>5. CASE StopActiveExecution
    <2>1. Top.fn # "menu" /\ Goto("done") /\ "done" \in Points
      BY <1>5 DEF StopActiveExecution, IsCommand, Points
    <2>2. After(stack, stack', executing)
      BY <2>1, GotoOK
    <2> QED
      BY <1>5, <2>2, Settled DEF StopActiveExecution, menuVars, buttonVars, Kept
  <1> QED
    BY <1>1, <1>2, <1>3, <1>4, <1>5

LEMMA WifiSteps ==
  ASSUME Inv, PollWifi \/ WifiKnown \/ WifiWaited \/ MinutePasses
  PROVE  Quiet
  <1> USE PointsOK
  <1>1. CASE PollWifi
    <2>1. After(stack, stack', executing)
      BY <1>1, CallOK DEF PollWifi, At
    <2> QED
      BY <1>1, <2>1, Settled DEF PollWifi, menuVars, buttonVars, Kept
  <1>2. CASE WifiKnown
    <2>1. After(stack, stack', executing)
      BY <1>2, ReturnOK DEF WifiKnown, At
    <2> QED
      BY <1>2, <2>1, Settled DEF WifiKnown, menuVars, buttonVars, Kept
  <1>3. CASE WifiWaited
    <2>1. After(stack, stack', executing)
      BY <1>3, ReturnOK DEF WifiWaited, At
    <2>2. Kept \/ Scheduled
      BY <1>3 DEF WifiWaited, Kept, Scheduled, Kinds, menuVars
    <2> QED
      BY <1>3, <2>1, <2>2, Settled DEF WifiWaited, menuVars, buttonVars, Schedule
  <1>4. CASE MinutePasses
    <2>1. After(stack, stack', executing)
      BY <1>4, Unmoved DEF MinutePasses
    <2> QED
      BY <1>4, <2>1, Settled DEF MinutePasses, menuVars, buttonVars, Kept
  <1> QED
    BY <1>1, <1>2, <1>3, <1>4

LEMMA ButtonSteps ==
  ASSUME Inv, ButtonLoop \/ ConfirmTimeout \/ Finger
  PROVE  Quiet
  <1> USE PointsOK
  <1>1. ASSUME At("main", "plugins"), AfterButton
        PROVE  Top.fn = "main" /\ After(stack, stack', executing)
    <2>1. Top.fn = "main"
      BY <1>1 DEF At
    <2>2. CASE Goto("others")
      BY <2>1, <2>2, GotoOK
    <2>3. CASE GotoAndCall("others", Wait)
      BY <2>1, <2>3, CallOK
    <2> QED
      BY <1>1, <2>1, <2>2, <2>3 DEF AfterButton
  <1>2. CASE ButtonLoop /\ ButtonPressed
    <2>1. Kept \/ Scheduled
      BY <1>2 DEF ButtonPressed, Kept, Scheduled, Kinds, menuVars
    <2>2. executing' = executing
      BY <1>2 DEF ButtonPressed, menuVars, Schedule
    <2> QED
      BY <1>1, <1>2, <2>1, <2>2, SettledAtTheBottom DEF ButtonLoop, ButtonPressed
  <1>3. CASE ButtonLoop /\ ButtonReleased
    <2>1. Kept /\ executing' = executing
      BY <1>3 DEF ButtonReleased, Kept, menuVars
    <2> QED
      BY <1>1, <1>3, <2>1, SettledAtTheBottom DEF ButtonLoop, ButtonReleased
  <1>4. CASE ConfirmTimeout
    <2>1. Kept /\ executing' = executing
      BY <1>4 DEF ConfirmTimeout, Kept, menuVars
    <2> QED
      BY <1>1, <1>4, <2>1, SettledAtTheBottom DEF ConfirmTimeout
  <1>5. CASE Finger
    <2>1. After(stack, stack', executing)
      BY <1>5, Unmoved DEF Finger
    <2> QED
      BY <1>5, <2>1, Settled DEF Finger, menuVars, Kept
  <1> QED
    BY <1>2, <1>3, <1>4, <1>5 DEF ButtonLoop

LEMMA RestartStep ==
  ASSUME Reboot
  PROVE  StackOK(stack', executing') /\ DisabledOK' /\ QueuedIn(stack') = {}
  <1>1. /\ stack' = <<Main("setup")>> /\ executing' = FALSE /\ enabled' = TRUE
        /\ Main("setup") \in Frames /\ Main("setup").fn = "main"
    BY BoundsOK DEF Reboot, Main, Frame, Frames, Points
  <1> DEFINE f == Main("setup")
             t == <<f>>
  <1> HIDE DEF f
  <1>2. t \in Seq(Frames) /\ t # <<>> /\ Len(t) = 1 /\ DOMAIN t = {1} /\ t[1] = f
    BY <1>1 DEF f
  <1> HIDE DEF t
  <1>3. f.fn = "main" /\ ~InDrain(f)
    BY <1>1 DEF f, InDrain
  <1>4. \A i \in DOMAIN t : i = 1 /\ t[i] = f
    BY <1>2
  <1>5. StackOK(t, FALSE)
    <2>1. \A i \in DOMAIN t : t[i].fn = "main" <=> i = 1
      BY <1>3, <1>4
    <2>2. \A i \in DOMAIN t : ~InDrain(t[i]) /\ t[i].fn # "queued"
      BY <1>3, <1>4
    <2>3. ~InDrain(t[Len(t)]) /\ t \in Seq(Frames)
      BY <1>1, <1>2, <1>3 DEF f
    <2> QED
      BY <1>2, <2>1, <2>2, <2>3 DEF StackOK
  <1>6. QueuedIn(t) = {}
    BY <1>3, <1>4 DEF QueuedIn
  <1> QED
    BY <1>1, <1>5, <1>6 DEF DisabledOK, t, f

-----------------------------------------------------------------------------
\* The start and the end of a queued command.

\* A queued command goes on top of a stack that holds none.
LEMMA StartedOK ==
  ASSUME NEW s, StackOK(s, FALSE), s[Len(s)].fn = "menu",
         NEW f \in Frames, f.fn = "menu", NEW g \in Frames, g.fn = "queued", g.id # 0,
         NEW t, t = Front(s) \o <<f, g>>
  PROVE  StackOK(t, TRUE) /\ RunningIn(s) = 0 /\ RunningIn(t) = g.id
  <1>1. s \in Seq(Frames) /\ s # <<>> /\ Len(s) \in Nat /\ Len(s) >= 1
    BY DEF StackOK
  <1>2. /\ t \in Seq(Frames) /\ Len(t) = Len(s) + 1
        /\ \A i \in 1 .. Len(s) - 1 : t[i] = s[i]
        /\ t[Len(s)] = f /\ t[Len(s) + 1] = g
    BY <1>1, Called
  <1>3. DOMAIN s = 1 .. Len(s) /\ DOMAIN t = 1 .. Len(s) + 1
    BY <1>1, <1>2
  <1>4. \A i \in DOMAIN s : s[i].fn # "queued"
    BY DEF StackOK
  <1>5. \A i \in DOMAIN t : t[i].fn = "queued" <=> i = Len(s) + 1
    BY <1>1, <1>2, <1>3, <1>4
  <1>6. \A i \in DOMAIN t : t[i].fn = "main" <=> i = 1
    <2>1. \A i \in DOMAIN s : s[i].fn = "main" <=> i = 1
      BY DEF StackOK
    <2> QED
      BY <1>1, <1>2, <1>3, <2>1
  <1>7. \A i \in DOMAIN t : i < Len(t) /\ InDrain(t[i]) => i = Len(s)
    <2>1. \A i \in DOMAIN s : i < Len(s) => i + 1 \in DOMAIN s
      BY <1>1
    <2>2. \A i \in DOMAIN s : i < Len(s) => ~InDrain(s[i])
      BY <1>4, <2>1 DEF StackOK
    <2> QED
      BY <1>1, <1>2, <1>3, <2>2, SMTT(30)
  <1>8. StackOK(t, TRUE)
    <2>1. t # <<>> /\ Len(s) + 1 \in DOMAIN t /\ t[Len(t)] = g
      BY <1>1, <1>2
    <2>2. \A i \in DOMAIN t : i < Len(t) /\ InDrain(t[i]) => t[i + 1].fn = "queued"
      BY <1>2, <1>7
    <2>3. ~InDrain(t[Len(t)])
      BY <2>1 DEF InDrain
    <2>4. \A i \in DOMAIN t : t[i].fn = "queued" => t[i].id # 0
      BY <1>2, <1>5
    <2>5. \A i, j \in DOMAIN t : t[i].fn = "queued" /\ t[j].fn = "queued" => i = j
      BY <1>5
    <2>6. \E i \in DOMAIN t : t[i].fn = "queued"
      BY <1>5, <2>1
    <2>7. t \in Seq(Frames)
      BY <1>2
    <2> QED
      BY <1>6, <2>1, <2>2, <2>3, <2>4, <2>5, <2>6, <2>7, Zenon DEF StackOK
  <1>9. RunningIn(s) = 0
    BY <1>4 DEF RunningIn, QueuedIn
  <1>10. RunningIn(t) = g.id
    <2>1. Len(s) + 1 \in QueuedIn(t) /\ \A i, j \in QueuedIn(t) : i = j
      BY <1>1, <1>2, <1>3, <1>5 DEF QueuedIn
    <2>2. RunningIn(t) = t[Len(s) + 1].id
      BY <2>1, TheQueued
    <2> QED
      BY <1>2, <2>2, Zenon
  <1> QED
    BY <1>8, <1>9, <1>10

\* When it returns there is none, and the loop that called it may go on.
LEMMA FinishedOK ==
  ASSUME NEW s, NEW e, StackOK(s, e), s[Len(s)].fn = "queued", NEW t, t = Front(s)
  PROVE  StackOK(t, FALSE) /\ RunningIn(s) # 0 /\ RunningIn(t) = 0
  <1>1. s \in Seq(Frames) /\ s # <<>> /\ Len(s) \in Nat /\ Len(s) >= 1
    BY DEF StackOK
  <1>2. \A i \in DOMAIN s : s[i].fn = "main" <=> i = 1
    BY DEF StackOK
  <1>3. Len(s) # 1 /\ Len(s) \in DOMAIN s
    BY <1>1, <1>2
  <1>4. /\ t \in Seq(Frames) /\ Len(t) = Len(s) - 1
        /\ \A i \in 1 .. Len(s) - 1 : t[i] = s[i]
    BY <1>1, Fronts
  <1>5. \A i \in DOMAIN t : i \in DOMAIN s /\ i < Len(s) /\ s[i] = t[i]
    BY <1>1, <1>3, <1>4
  <1>6. \A i \in DOMAIN s : s[i].fn = "queued" => i = Len(s)
    BY <1>3 DEF StackOK
  <1>7. \A i \in DOMAIN t : t[i].fn # "queued"
    <2>1. \A i \in DOMAIN t : i # Len(s)
      BY <1>1, <1>5
    <2> QED
      BY <1>5, <1>6, <2>1
  <1>8. \A i \in DOMAIN t : i < Len(t) => ~InDrain(t[i])
    <2>1. ASSUME NEW i \in DOMAIN t, i < Len(t), InDrain(t[i])
          PROVE  FALSE
      <3>1. i \in DOMAIN s /\ i < Len(s) /\ InDrain(s[i]) /\ i + 1 \in DOMAIN t
        BY <1>1, <1>4, <1>5, <2>1
      <3>2. s[i + 1].fn = "queued"
        BY <3>1 DEF StackOK
      <3> QED
        BY <1>5, <1>7, <3>1, <3>2
    <2> QED
      BY <2>1
  <1>9. t # <<>>
    BY <1>1, <1>3, <1>4
  <1>10. \A i \in DOMAIN t : t[i].fn = "main" <=> i = 1
    BY <1>2, <1>5
  <1>11. StackOK(t, FALSE)
    BY <1>4, <1>7, <1>8, <1>9, <1>10 DEF StackOK
  <1>12. RunningIn(t) = 0
    BY <1>7 DEF RunningIn, QueuedIn
  <1>13. RunningIn(s) # 0
    <2>1. Len(s) \in QueuedIn(s) /\ \A i, j \in QueuedIn(s) : i = j
      BY <1>3, <1>6 DEF QueuedIn
    <2>2. s[Len(s)].id # 0
      BY <1>3 DEF StackOK
    <2> QED
      BY <2>1, <2>2, TheQueued
  <1> QED
    BY <1>11, <1>12, <1>13

\* A menu loop that drains the queue does so with scheduling enabled and
\* nothing executing.
LEMMA DrainsAlone ==
  ASSUME Inv, Draining
  PROVE  ~executing /\ enabled /\ Top.fn = "menu" /\ StackOK(stack, FALSE)
  <1>1. Top.fn = "menu" /\ InDrain(stack[Len(stack)])
    BY TopFrame DEF Draining, At, InDrain
  <1>2. ~executing
    BY <1>1 DEF Inv, StackOK
  <1>3. Len(stack) \in DOMAIN stack
    BY TopFrame
  <1>4. enabled
    BY <1>1, <1>3 DEF Inv, DisabledOK, NoDrain
  <1>5. executing = FALSE
    BY <1>2 DEF Inv, FlagsOK
  <1> QED
    BY <1>1, <1>2, <1>4, <1>5 DEF Inv

LEMMA StartStep ==
  ASSUME Inv, ShiftCommand
  PROVE  /\ StackOK(stack', executing') /\ DisabledOK'
         /\ RunningIn(stack) = 0 /\ RunningIn(stack') = Head(queue).id
         /\ queue # <<>> /\ queue' = Tail(queue) /\ next' = next
  <1>1. ~executing /\ enabled /\ Top.fn = "menu" /\ StackOK(stack, FALSE)
    BY DrainsAlone DEF ShiftCommand
  <1>2. Head(queue) \in [id : 1 .. MaxCommands, kind : Kinds]
    BY HeadTailProperties DEF Inv, QueueOK, ShiftCommand
  <1> DEFINE f == [Top EXCEPT !.pt = "more"]
             g == Frame("queued", Head(queue).kind, Head(queue).id)
  <1>3. f \in Frames /\ f.fn = "menu"
    BY <1>1, TopFrame, Repointed, PointsOK
  <1>4. g \in Frames /\ g.fn = "queued" /\ g.id = Head(queue).id /\ g.id # 0
    BY <1>2, BoundsOK DEF Frame, Frames, Points
  <1>5. stack' = Front(stack) \o <<f, g>> /\ executing' = TRUE /\ enabled' = enabled
    BY DEF ShiftCommand, GotoAndCall, buttonVars
  <1> HIDE DEF f, g
  <1>6. StackOK(stack', TRUE) /\ RunningIn(stack) = 0 /\ RunningIn(stack') = g.id
    <2>1. stack[Len(stack)].fn = "menu"
      BY <1>1, TopFrame
    <2> QED
      BY <1>1, <1>3, <1>4, <1>5, <2>1, StartedOK
  <1>7. StackOK(stack', executing') /\ DisabledOK'
    BY <1>1, <1>5, <1>6 DEF DisabledOK
  <1> QED
    BY <1>4, <1>6, <1>7 DEF ShiftCommand

\* Before a queued command returns, scheduling is enabled: the button cannot
\* have disabled it meanwhile.
LEMMA FinishStep ==
  ASSUME Inv, EndCommand, Top.fn = "queued"
  PROVE  /\ StackOK(stack', executing') /\ DisabledOK'
         /\ RunningIn(stack) # 0 /\ RunningIn(stack') = 0
         /\ UNCHANGED <<queue, next>>
  <1>1. stack' = Front(stack) /\ executing' = FALSE /\ enabled' = enabled /\ UNCHANGED <<queue, next>>
    BY DEF EndCommand, Return, buttonVars
  <1>2. stack[Len(stack)].fn = "queued" /\ Len(stack) \in DOMAIN stack
    BY TopFrame
  <1>3. StackOK(stack', FALSE) /\ RunningIn(stack) # 0 /\ RunningIn(stack') = 0
    BY <1>1, <1>2, FinishedOK DEF Inv
  <1>4. executing
    BY <1>2 DEF Inv, StackOK
  <1>5. enabled
    BY <1>4 DEF Inv, DisabledOK
  <1>6. StackOK(stack', executing') /\ DisabledOK'
    BY <1>1, <1>3, <1>5 DEF DisabledOK
  <1> QED
    BY <1>1, <1>3, <1>6

-----------------------------------------------------------------------------
\* The invariant.

LEMMA Steps ==
  ASSUME Inv, Next
  PROVE  Quiet \/ Reboot \/ Started \/ Finished
  <1>1. CASE DeepSleep \/ EspRestart \/ QuickClickCrash
    BY <1>1 DEF DeepSleep, EspRestart, QuickClickCrash
  <1>2. CASE ShiftCommand
    BY <1>2 DEF Started
  <1>3. CASE EndCommand
    BY <1>3, HandlerSteps DEF Finished
  <1> QED
    BY <1>1, <1>2, <1>3, SketchSteps, MenuSteps, HandlerSteps, WifiSteps, ButtonSteps
       DEF Next, Thread

LEMMA QueueStep ==
  ASSUME Inv, Quiet \/ Reboot \/ Started \/ Finished
  PROVE  QueueOK'
  <1>1. CASE Kept
    BY <1>1 DEF Inv, QueueOK, Kept
  <1>2. CASE Scheduled
    <2>1. PICK k \in Kinds : Schedule(k)
      BY <1>2 DEF Scheduled
    <2>2. next \in 1 .. MaxCommands
      BY <2>1, BoundsOK DEF Schedule, Inv, QueueOK
    <2>3. queue' \in Seq([id : 1 .. MaxCommands, kind : Kinds])
      BY <2>1, <2>2 DEF Schedule, Inv, QueueOK
    <2>4. next' \in 1 .. MaxCommands + 1
      BY <2>1, <2>2, BoundsOK DEF Schedule
    <2> QED
      BY <2>3, <2>4 DEF QueueOK
  <1>3. CASE Reboot
    BY <1>3 DEF Reboot, Inv, QueueOK
  <1>4. CASE Started
    <2>1. queue' = Tail(queue) /\ queue # <<>> /\ next' = next
      BY <1>4 DEF Started, ShiftCommand
    <2>2. queue' \in Seq([id : 1 .. MaxCommands, kind : Kinds])
      BY <2>1, HeadTailProperties DEF Inv, QueueOK
    <2> QED
      BY <2>1, <2>2 DEF Inv, QueueOK
  <1>5. CASE Finished
    BY <1>5 DEF Finished, EndCommand, Inv, QueueOK
  <1> QED
    BY <1>1, <1>2, <1>3, <1>4, <1>5 DEF Quiet

LEMMA FlagsStep ==
  ASSUME Inv, Next
  PROVE  FlagsOK' /\ ModeOK'
  <1> USE DEF Inv, FlagsOK, ModeOK, menuVars, buttonVars, Schedule
  <1>1. CASE SetupStep \/ FirstMenuLoop \/ SkipLoop \/ SecondMenuLoop \/ NoInput
             \/ ProcessCommands \/ QueueEmpty \/ WaitCommand \/ ListDone \/ PollWifi \/ WifiKnown
    BY <1>1, Zenon DEF SetupStep, FirstMenuLoop, SkipLoop, SecondMenuLoop, NoInput,
       ProcessCommands, QueueEmpty, WaitCommand, ListDone, PollWifi, WifiKnown
  <1>2. CASE SetupDone \/ InputNop
    BY <1>2, Zenon DEF SetupDone, InputNop
  <1>3. CASE OtherPlugins \/ Power \/ ListItem
    BY <1>3, Zenon DEF OtherPlugins, Power, ListItem
  <1>4. CASE \E k \in Kinds : InputLine(k) \/ InputBang(k)
    BY <1>4, Zenon DEF InputLine, InputBang
  <1>5. CASE Reboot
    BY <1>5 DEF Reboot
  <1>6. CASE ShiftCommand
    BY <1>6 DEF ShiftCommand
  <1>7. CASE EndCommand
    <2>1. executing' \in BOOLEAN
      BY <1>7 DEF EndCommand
    <2> QED
      BY <1>7, <2>1, Zenon DEF EndCommand
  <1>8. CASE StopActiveExecution
    BY <1>8 DEF StopActiveExecution
  <1>9. CASE WifiWaited
    BY <1>9 DEF WifiWaited
  <1>10. CASE MinutePasses
    BY <1>10 DEF MinutePasses
  <1>11. CASE ButtonLoop /\ ButtonPressed
    <2>1. UNCHANGED <<skip, waited, pressed, executing>>
      BY <1>11, Zenon DEF ButtonLoop, ButtonPressed
    <2>2. enabled' \in BOOLEAN /\ chosen' \in BOOLEAN /\ ModeOK'
      BY <1>11 DEF ButtonPressed
    <2> QED
      BY <2>1, <2>2, Zenon
  <1>12. CASE ButtonLoop /\ ButtonReleased
    <2>1. UNCHANGED <<skip, waited, pressed, executing>>
      BY <1>12, Zenon DEF ButtonLoop, ButtonReleased
    <2>2. enabled' \in BOOLEAN /\ chosen' \in BOOLEAN /\ ModeOK'
      BY <1>12 DEF ButtonReleased, ButtonReset
    <2> QED
      BY <2>1, <2>2, Zenon
  <1>13. CASE ConfirmTimeout
    BY <1>13 DEF ConfirmTimeout, ButtonReset
  <1>14. CASE Finger
    BY <1>14 DEF Finger
  <1> HIDE DEF Inv, FlagsOK, ModeOK, menuVars, buttonVars, Schedule
  <1> QED
    BY <1>1, <1>2, <1>3, <1>4, <1>5, <1>6, <1>7, <1>8, <1>9, <1>10, <1>11, <1>12, <1>13, <1>14
       DEF Next, Thread, DeepSleep, EspRestart, QuickClickCrash, ButtonLoop

LEMMA InvInit ==
  ASSUME Init
  PROVE  Inv
  <1>1. /\ Main("setup") \in Frames /\ Main("setup").fn = "main"
    BY BoundsOK DEF Main, Frame, Frames, Points
  <1> DEFINE f == Main("setup")
             t == <<f>>
  <1>2. f \in Frames /\ f.fn = "main" /\ ~InDrain(f)
    BY <1>1 DEF InDrain
  <1> HIDE DEF f
  <1>3. /\ t \in Seq(Frames) /\ t # <<>> /\ Len(t) = 1 /\ t[1] = f
        /\ \A i \in DOMAIN t : i = 1
    BY <1>2
  <1> HIDE DEF t
  <1>4. StackOK(t, FALSE)
    BY <1>2, <1>3 DEF StackOK
  <1>5. StackOK(stack, executing)
    BY <1>4 DEF Init, t, f
  <1>6. DisabledOK /\ QueueOK /\ FlagsOK /\ ModeOK
    <2>1. queue = <<>> /\ next = 1 /\ 1 \in 1 .. MaxCommands + 1
      BY BoundsOK DEF Init
    <2>2. QueueOK
      BY <2>1 DEF QueueOK
    <2>3. DisabledOK
      BY DEF Init, DisabledOK
    <2>4. FlagsOK /\ ModeOK
      BY DEF Init, FlagsOK, ModeOK
    <2> QED
      BY <2>2, <2>3, <2>4
  <1> QED
    BY <1>5, <1>6 DEF Inv

LEMMA InvStep ==
  ASSUME Inv, [Next]_vars
  PROVE  Inv'
  <1>1. CASE Next
    <2>1. Quiet \/ Reboot \/ Started \/ Finished
      BY <1>1, Steps
    <2>2. StackOK(stack', executing') /\ DisabledOK'
      BY <2>1, RestartStep, StartStep, FinishStep DEF Quiet, Started, Finished
    <2>3. QueueOK'
      BY <2>1, QueueStep
    <2>4. FlagsOK' /\ ModeOK'
      BY <1>1, FlagsStep
    <2> QED
      BY <2>2, <2>3, <2>4 DEF Inv
  <1>2. CASE UNCHANGED vars
    BY <1>2 DEF vars, Inv, DisabledOK, QueueOK, FlagsOK, ModeOK
  <1> QED
    BY <1>1, <1>2

LEMMA InvAlways == Spec => []Inv
  <1>1. Init => Inv
    BY InvInit
  <1>2. Inv /\ [Next]_vars => Inv'
    BY InvStep
  <1> QED
    BY <1>1, <1>2, PTL DEF Spec

-----------------------------------------------------------------------------
\* The theorems.

LEMMA TheStackTells ==
  /\ Queued = QueuedIn(stack)
  /\ Running = RunningIn(stack)
  BY Zenon DEF Queued, QueuedIn, Running, RunningIn

\* Type correctness, for every number of commands and depth of the stack: the
\* state of MenuHandler, of the button and of the calls in progress.
THEOREM TypeCorrect == Spec => []TypeOK
  <1>1. Inv => TypeOK
    BY DEF Inv, StackOK, QueueOK, FlagsOK, ModeOK, TypeOK
  <1> QED
    BY <1>1, InvAlways, PTL

\* currentlyExecutingCommand is set exactly while a queued command is on the
\* call stack, however deep waitForWifi and MenuHandler::loop call each other.
THEOREM FlagExact == Spec => []FlagIsStack
  <1>1. Inv => FlagIsStack
    <2>1. ASSUME Inv
          PROVE  executing <=> \E i \in DOMAIN stack : stack[i].fn = "queued"
      BY <2>1 DEF Inv, StackOK
    <2>2. (\E i \in DOMAIN stack : stack[i].fn = "queued") <=> Queued # {}
      BY DEF Queued
    <2> QED
      BY <2>1, <2>2 DEF FlagIsStack
  <1> QED
    BY <1>1, InvAlways, PTL

\* While the button has scheduling disabled, no queued command is in progress:
\* processCommands' loop, which does not look at the flag again, cannot be
\* suspended below the button.
THEOREM DisabledIdle == Spec => []DisabledMeansIdle
  <1>1. Inv => DisabledMeansIdle
    <2> SUFFICES ASSUME Inv, ~enabled
                 PROVE  Queued = {}
      BY DEF DisabledMeansIdle
    <2>1. ~executing
      BY DEF Inv, DisabledOK
    <2>2. \A i \in DOMAIN stack : stack[i].fn # "queued"
      BY <2>1 DEF Inv, StackOK
    <2> QED
      BY <2>2 DEF Queued
  <1> QED
    BY <1>1, InvAlways, PTL

IdsOf(q) == [i \in DOMAIN q |-> q[i].id]
Commands == [id : 1 .. MaxCommands, kind : Kinds]

\* The numbers of a queue form a sequence as long as the queue.
LEMMA IdsSequence ==
  ASSUME NEW q \in Seq(Commands)
  PROVE  /\ IdsOf(q) \in Seq(1 .. MaxCommands)
         /\ Len(IdsOf(q)) = Len(q)
         /\ \A i \in 1 .. Len(q) : IdsOf(q)[i] = q[i].id
  <1>1. DOMAIN q = 1 .. Len(q) /\ Len(q) \in Nat /\ \A i \in 1 .. Len(q) : q[i] \in Commands
    OBVIOUS
  <1>2. \A i \in 1 .. Len(q) : q[i].id \in 1 .. MaxCommands
    BY <1>1 DEF Commands
  <1>3. IdsOf(q) = [i \in 1 .. Len(q) |-> q[i].id]
    BY <1>1 DEF IdsOf
  <1>4. IdsOf(q) \in [1 .. Len(q) -> 1 .. MaxCommands]
    BY <1>2, <1>3
  <1> QED
    BY <1>1, <1>3, <1>4

LEMMA IdsEmpty == IdsOf(<<>>) = <<>>
  <1> DEFINE q == <<>>
             u == IdsOf(q)
  <1>1. q \in Seq(Commands) /\ Len(q) = 0
    BY EmptySeq
  <1> HIDE DEF q
  <1>2. u \in Seq(1 .. MaxCommands) /\ Len(u) = 0
    BY <1>1, IdsSequence
  <1> HIDE DEF u
  <1>3. u = <<>>
    BY <1>2
  <1> QED
    BY <1>3 DEF u, q

LEMMA IdsAppend ==
  ASSUME NEW q \in Seq(Commands), NEW c \in Commands
  PROVE  IdsOf(Append(q, c)) = Append(IdsOf(q), c.id)
  <1> DEFINE a == Append(q, c)
             u == IdsOf(a)
             v == Append(IdsOf(q), c.id)
             S == 1 .. MaxCommands
  <1>1. c.id \in S /\ Len(q) \in Nat
    BY DEF Commands
  <1>2. /\ a \in Seq(Commands) /\ Len(a) = Len(q) + 1
        /\ \A i \in 1 .. Len(q) : a[i] = q[i]
        /\ a[Len(q) + 1] = c
    BY AppendProperties
  <1>3. /\ IdsOf(q) \in Seq(S) /\ Len(IdsOf(q)) = Len(q)
        /\ \A i \in 1 .. Len(q) : IdsOf(q)[i] = q[i].id
    BY IdsSequence
  <1>4. /\ v \in Seq(S) /\ Len(v) = Len(q) + 1
        /\ \A i \in 1 .. Len(q) : v[i] = q[i].id
        /\ v[Len(q) + 1] = c.id
    BY <1>1, <1>3, AppendProperties
  <1> HIDE DEF a, v
  <1>5. u \in Seq(S) /\ Len(u) = Len(a) /\ \A i \in 1 .. Len(a) : u[i] = a[i].id
    BY <1>2, IdsSequence
  <1> HIDE DEF u, S
  <1>6. \A i \in 1 .. Len(u) : u[i] = v[i]
    BY <1>1, <1>2, <1>4, <1>5
  <1>7. u = v
    BY <1>2, <1>4, <1>5, <1>6, SeqEqual
  <1> QED
    BY <1>7 DEF u, v, a

LEMMA IdsTail ==
  ASSUME NEW q \in Seq(Commands), q # <<>>
  PROVE  /\ IdsOf(q) # <<>> /\ Head(IdsOf(q)) = Head(q).id
         /\ IdsOf(Tail(q)) = Tail(IdsOf(q))
  <1> DEFINE a == Tail(q)
             p == IdsOf(q)
             u == IdsOf(a)
             v == Tail(p)
             S == 1 .. MaxCommands
  <1>1. /\ p \in Seq(S) /\ Len(p) = Len(q)
        /\ \A i \in 1 .. Len(q) : p[i] = q[i].id
    BY IdsSequence
  <1>2. Len(q) \in Nat /\ Len(q) >= 1
    OBVIOUS
  <1> HIDE DEF p
  <1>3. p # <<>>
    BY <1>1, <1>2
  <1>4. Head(p) = Head(q).id
    <2>1. Head(p) = p[1] /\ Head(q) = q[1]
      BY <1>3
    <2> QED
      BY <1>1, <1>2, <2>1
  <1>5. /\ a \in Seq(Commands) /\ Len(a) = Len(q) - 1
        /\ \A i \in 1 .. Len(a) : a[i] = q[i + 1]
    BY HeadTailProperties
  <1>6. /\ v \in Seq(S) /\ Len(v) = Len(p) - 1
        /\ \A i \in 1 .. Len(v) : v[i] = p[i + 1]
    BY <1>1, <1>3, HeadTailProperties
  <1> HIDE DEF a, v
  <1>7. u \in Seq(S) /\ Len(u) = Len(a) /\ \A i \in 1 .. Len(a) : u[i] = a[i].id
    BY <1>5, IdsSequence
  <1> HIDE DEF u, S
  <1>8. \A i \in 1 .. Len(u) : u[i] = v[i]
    <2> SUFFICES ASSUME NEW i \in 1 .. Len(u)
                 PROVE  u[i] = v[i]
      OBVIOUS
    <2>1. i \in 1 .. Len(a) /\ i \in 1 .. Len(v) /\ i + 1 \in 1 .. Len(q)
      BY <1>1, <1>2, <1>5, <1>6, <1>7
    <2>2. u[i] = a[i].id /\ a[i] = q[i + 1]
      BY <1>5, <1>7, <2>1
    <2>3. v[i] = p[i + 1] /\ p[i + 1] = q[i + 1].id
      BY <1>1, <1>6, <2>1
    <2> QED
      BY <2>2, <2>3
  <1>9. u = v
    BY <1>1, <1>5, <1>6, <1>7, <1>8, SeqEqual
  <1> QED
    BY <1>3, <1>4, <1>9 DEF u, v, a, p

\* What each kind of step is to the abstract queue.
LEMMA PromiseStep ==
  ASSUME Inv, Next
  PROVE  Promise!Next \/ UNCHANGED <<Ids, Running, next>>
  <1> DEFINE I == IdsOf(queue)
  <1>1. /\ Ids = I /\ Ids' = IdsOf(queue')
        /\ Running = RunningIn(stack) /\ Running' = RunningIn(stack')
    BY TheStackTells DEF Ids, IdsOf, Queued, QueuedIn, Running, RunningIn
  <1>2. queue \in Seq(Commands) /\ next \in 1 .. MaxCommands + 1
    BY DEF Inv, QueueOK, Commands
  <1> HIDE DEF I
  <1>3. CASE Quiet /\ Kept
    <2>1. UNCHANGED <<Ids, Running, next>>
      BY <1>1, <1>3 DEF Quiet, Kept, I
    <2> QED
      BY <2>1
  <1>4. CASE Quiet /\ Scheduled
    <2>1. PICK k \in Kinds : Schedule(k)
      BY <1>4 DEF Scheduled
    <2> DEFINE c == [id |-> next, kind |-> k]
    <2>2. next <= MaxCommands /\ queue' = Append(queue, c) /\ next' = next + 1
      BY <2>1 DEF Schedule
    <2>3. c \in Commands /\ c.id = next
      BY <1>2, <2>2, BoundsOK DEF Commands
    <2> HIDE DEF c
    <2>4. Ids' = Append(Ids, next)
      BY <1>1, <1>2, <2>2, <2>3, IdsAppend DEF I
    <2>5. Running' = Running
      BY <1>1, <1>4 DEF Quiet
    <2>6. Promise!Submit
      BY <2>2, <2>4, <2>5 DEF Promise!Submit
    <2> QED
      BY <2>6 DEF Promise!Next
  <1>5. CASE Reboot
    <2>1. queue' = <<>> /\ next' = next
      BY <1>5 DEF Reboot
    <2>2. Ids' = <<>>
      BY <1>1, <2>1, IdsEmpty
    <2>3. Running' = 0
      BY <1>1, <1>5, RestartStep DEF RunningIn
    <2>4. Promise!Restart
      BY <2>1, <2>2, <2>3 DEF Promise!Restart
    <2> QED
      BY <2>4 DEF Promise!Next
  <1>6. CASE Started
    <2>1. /\ RunningIn(stack) = 0 /\ RunningIn(stack') = Head(queue).id
          /\ queue # <<>> /\ queue' = Tail(queue) /\ next' = next
      BY <1>6, StartStep DEF Started
    <2>2. I # <<>> /\ Head(I) = Head(queue).id /\ IdsOf(queue') = Tail(I)
      BY <1>2, <2>1, IdsTail DEF I
    <2>3. Promise!Start
      BY <1>1, <2>1, <2>2 DEF Promise!Start
    <2> QED
      BY <2>3 DEF Promise!Next
  <1>7. CASE Finished
    <2>1. RunningIn(stack) # 0 /\ RunningIn(stack') = 0 /\ UNCHANGED <<queue, next>>
      BY <1>7, FinishStep DEF Finished
    <2>2. Promise!Finish
      BY <1>1, <2>1 DEF Promise!Finish, I
    <2> QED
      BY <2>2 DEF Promise!Next
  <1> QED
    BY <1>3, <1>4, <1>5, <1>6, <1>7, Steps DEF Quiet

\* The menu handler implements the abstract command queue: commands run one at
\* a time, in the order they were scheduled, each once and to its end; only a
\* restart drops them.
THEOREM Implements == Spec => InOrder
  <1>1. Init => Promise!Init
    <2> SUFFICES ASSUME Init
                 PROVE  Promise!Init
      OBVIOUS
    <2>1. Inv /\ queue = <<>> /\ next = 1 /\ executing = FALSE
      BY InvInit DEF Init
    <2>2. Ids = <<>>
      BY <2>1, IdsEmpty DEF Ids, IdsOf
    <2>3. Running = 0
      <3>1. \A i \in DOMAIN stack : stack[i].fn # "queued"
        BY <2>1 DEF Inv, StackOK
      <3> QED
        BY <3>1 DEF Running, Queued
    <2> QED
      BY <2>1, <2>2, <2>3 DEF Promise!Init
  <1>2. Inv /\ [Next]_vars => [Promise!Next]_<<Ids, Running, next>>
    <2> SUFFICES ASSUME Inv, [Next]_vars
                 PROVE  Promise!Next \/ UNCHANGED <<Ids, Running, next>>
      OBVIOUS
    <2>1. CASE Next
      BY <2>1, PromiseStep
    <2>2. CASE UNCHANGED vars
      BY <2>2 DEF vars, Ids, Running, Queued
    <2> QED
      BY <2>1, <2>2
  <1> QED
    BY <1>1, <1>2, InvAlways, PTL DEF Spec, InOrder, Promise!Spec

-----------------------------------------------------------------------------
\* What the abstract queue is good for: a command that has begun is past.

AbstractVars == <<Ids, Running, next>>

\* The commands that wait are in the order of their numbers, all of them later than
\* the one that runs and none as late as the next.
Numbered ==
  /\ Ids \in Seq(Nat) /\ Running \in Nat /\ next \in Nat \ {0}
  /\ Running < next
  /\ \A i \in DOMAIN Ids : Running < Ids[i] /\ Ids[i] < next
  /\ \A i, j \in DOMAIN Ids : i < j => Ids[i] < Ids[j]

Runs(c) == Running = c

\* Command c has been scheduled, and neither waits nor runs.
Past(c) ==
  /\ c < next /\ ~Runs(c)
  /\ \A i \in DOMAIN Ids : Ids[i] # c

LEMMA Added ==
  ASSUME NEW s \in Seq(Nat), NEW x \in Nat
  PROVE  /\ Append(s, x) \in Seq(Nat) /\ Len(s) \in Nat
         /\ \A i \in DOMAIN Append(s, x) : i \in Nat
         /\ \A i \in DOMAIN Append(s, x) :
              (i \in DOMAIN s /\ i < Len(s) + 1 /\ Append(s, x)[i] = s[i])
                \/ (i = Len(s) + 1 /\ Append(s, x)[i] = x)
  OBVIOUS

LEMMA Removed ==
  ASSUME NEW s \in Seq(Nat), s # <<>>
  PROVE  /\ Head(s) \in Nat /\ 1 \in DOMAIN s /\ Head(s) = s[1] /\ Tail(s) \in Seq(Nat)
         /\ \A i \in DOMAIN Tail(s) :
              i \in Nat /\ i + 1 \in DOMAIN s /\ 1 < i + 1 /\ Tail(s)[i] = s[i + 1]
  OBVIOUS

LEMMA NumberedStep ==
  ASSUME Numbered, [Promise!Next]_AbstractVars
  PROVE  Numbered'
  <1>1. CASE Promise!Submit
    <2>1. Ids' = Append(Ids, next) /\ next' = next + 1 /\ Running' = Running
      BY <1>1 DEF Promise!Submit
    <2>2. /\ Ids' \in Seq(Nat) /\ Len(Ids) \in Nat /\ \A i \in DOMAIN Ids' : i \in Nat
          /\ \A i \in DOMAIN Ids' : (i \in DOMAIN Ids /\ i < Len(Ids) + 1 /\ Ids'[i] = Ids[i])
                                      \/ (i = Len(Ids) + 1 /\ Ids'[i] = next)
      BY <2>1, Added DEF Numbered
    <2>3. \A i \in DOMAIN Ids : Ids[i] \in Nat
      BY DEF Numbered
    <2>4. \A i \in DOMAIN Ids' : Running' < Ids'[i] /\ Ids'[i] < next'
      BY <2>1, <2>2, <2>3 DEF Numbered
    <2>5. ASSUME NEW i \in DOMAIN Ids', NEW j \in DOMAIN Ids', i < j
          PROVE  Ids'[i] < Ids'[j]
      <3>1. Len(Ids) \in Nat /\ i \in Nat /\ j \in Nat
        BY <2>2
      <3>2. i # Len(Ids) + 1
        <4>1. j < Len(Ids) + 1 \/ j = Len(Ids) + 1
          BY <2>2
        <4> QED
          BY <2>5, <3>1, <4>1
      <3>3. i \in DOMAIN Ids /\ Ids'[i] = Ids[i]
        BY <2>2, <3>2
      <3> QED
        BY <2>2, <2>5, <3>3 DEF Numbered
    <2> QED
      BY <2>1, <2>2, <2>4, <2>5 DEF Numbered
  <1>2. CASE Promise!Start
    <2>1. /\ Ids # <<>> /\ Ids' = Tail(Ids) /\ Running' = Head(Ids) /\ next' = next
      BY <1>2 DEF Promise!Start
    <2>2. /\ Head(Ids) \in Nat /\ 1 \in DOMAIN Ids /\ Head(Ids) = Ids[1] /\ Ids' \in Seq(Nat)
          /\ \A i \in DOMAIN Ids' :
               i \in Nat /\ i + 1 \in DOMAIN Ids /\ 1 < i + 1 /\ Ids'[i] = Ids[i + 1]
      BY <2>1, Removed DEF Numbered
    <2>3. \A i, j \in DOMAIN Ids' : i < j => Ids'[i] < Ids'[j]
      <3>1. \A i, j \in Nat : i < j => i + 1 < j + 1
        OBVIOUS
      <3> QED
        BY <2>2, <3>1 DEF Numbered
    <2> QED
      BY <2>1, <2>2, <2>3 DEF Numbered
  <1>3. CASE Promise!Finish
    <2>1. \A i \in DOMAIN Ids : Ids[i] \in Nat
      BY DEF Numbered
    <2>2. Ids' = Ids /\ next' = next /\ Running' = 0
      BY <1>3 DEF Promise!Finish
    <2>3. \A i \in DOMAIN Ids : 0 < Ids[i]
      BY <2>1 DEF Numbered
    <2> QED
      BY <2>2, <2>3 DEF Numbered
  <1>4. CASE Promise!Restart
    BY <1>4 DEF Promise!Restart, Numbered
  <1>5. CASE UNCHANGED AbstractVars
    BY <1>5 DEF AbstractVars, Numbered
  <1> QED
    BY <1>1, <1>2, <1>3, <1>4, <1>5 DEF Promise!Next

LEMMA PastStep ==
  ASSUME NEW c \in 1 .. MaxCommands, Numbered, Past(c), [Promise!Next]_AbstractVars
  PROVE  Past(c)'
  <1>0. c \in Nat /\ c # 0
    BY BoundsOK
  <1>1. CASE Promise!Submit
    <2>1. Ids' = Append(Ids, next) /\ next' = next + 1 /\ Running' = Running
      BY <1>1 DEF Promise!Submit
    <2>2. \A i \in DOMAIN Ids' : (i \in DOMAIN Ids /\ Ids'[i] = Ids[i]) \/ Ids'[i] = next
      BY <2>1, Added DEF Numbered
    <2> QED
      BY <1>0, <2>1, <2>2 DEF Past, Runs, Numbered
  <1>2. CASE Promise!Start
    <2>1. /\ Ids # <<>> /\ Ids' = Tail(Ids) /\ Running' = Head(Ids) /\ next' = next
      BY <1>2 DEF Promise!Start
    <2>2. /\ 1 \in DOMAIN Ids /\ Head(Ids) = Ids[1]
          /\ \A i \in DOMAIN Ids' : i + 1 \in DOMAIN Ids /\ Ids'[i] = Ids[i + 1]
      BY <2>1, Removed DEF Numbered
    <2> QED
      BY <2>1, <2>2 DEF Past, Runs
  <1>3. CASE Promise!Finish
    BY <1>0, <1>3 DEF Promise!Finish, Past, Runs
  <1>4. CASE Promise!Restart
    BY <1>0, <1>4 DEF Promise!Restart, Past, Runs
  <1>5. CASE UNCHANGED AbstractVars
    BY <1>5 DEF AbstractVars, Past, Runs
  <1> QED
    BY <1>1, <1>2, <1>3, <1>4, <1>5 DEF Promise!Next

\* A command that runs stays until it ends, and is past from then on.
LEMMA RunsToItsEnd ==
  ASSUME NEW c \in 1 .. MaxCommands, Numbered, Runs(c), [Promise!Next]_AbstractVars
  PROVE  Runs(c)' \/ Past(c)'
  <1>0. c \in Nat /\ c # 0
    BY BoundsOK
  <1>1. c < next /\ \A i \in DOMAIN Ids : Ids[i] \in Nat /\ Ids[i] # c
    BY <1>0 DEF Numbered, Runs
  <1>2. CASE Promise!Submit \/ Promise!Start
    BY <1>0, <1>2 DEF Promise!Submit, Promise!Start, Runs
  <1>3. CASE Promise!Finish
    BY <1>0, <1>1, <1>3 DEF Promise!Finish, Past, Runs
  <1>4. CASE Promise!Restart
    BY <1>0, <1>1, <1>4 DEF Promise!Restart, Past, Runs
  <1>5. CASE UNCHANGED AbstractVars
    BY <1>5 DEF AbstractVars, Runs
  <1> QED
    BY <1>2, <1>3, <1>4, <1>5 DEF Promise!Next

LEMMA NumberedAlways == InOrder => []Numbered /\ [][Promise!Next]_AbstractVars
  <1>1. Promise!Init => Numbered
    BY DEF Promise!Init, Numbered
  <1>2. Numbered /\ [Promise!Next]_AbstractVars => Numbered'
    BY NumberedStep
  <1>3. [Promise!Next]_<<Ids, Running, next>> => [Promise!Next]_AbstractVars
    BY DEF AbstractVars
  <1> QED
    BY <1>1, <1>2, <1>3, PTL DEF InOrder, Promise!Spec

\* A command that has ended never runs again, whatever waits, menu loops and
\* buttons come in between (MenuHandler::loop takes it off the queue first).
THEOREM NeverAgain ==
  ASSUME NEW c \in 1 .. MaxCommands
  PROVE  Spec => [](Runs(c) => [](~Runs(c) => []~Runs(c)))
  <1>1. Numbered /\ Runs(c) /\ [Promise!Next]_AbstractVars => Runs(c)' \/ Past(c)'
    BY RunsToItsEnd
  <1>2. Numbered /\ Past(c) /\ [Promise!Next]_AbstractVars => Past(c)'
    BY PastStep
  <1>3. Past(c) => ~Runs(c)
    BY DEF Past, Runs
  <1> QED
    BY <1>1, <1>2, <1>3, NumberedAlways, Implements, PTL

\* Once a command runs, none that was scheduled before it runs any more.
THEOREM InSequence ==
  ASSUME NEW c \in 1 .. MaxCommands, NEW d \in 1 .. MaxCommands, c < d
  PROVE  Spec => [](Runs(d) => []~Runs(c))
  <1>1. Numbered /\ Runs(d) => Past(c)
    <2>1. c \in Nat /\ d \in Nat
      BY BoundsOK
    <2>2. Numbered => \A i \in DOMAIN Ids : Ids[i] \in Nat
      BY DEF Numbered
    <2> QED
      BY <2>1, <2>2 DEF Numbered, Past, Runs
  <1>2. Numbered /\ Past(c) /\ [Promise!Next]_AbstractVars => Past(c)'
    BY PastStep
  <1>3. Past(c) => ~Runs(c)
    BY DEF Past, Runs
  <1> QED
    BY <1>1, <1>2, <1>3, NumberedAlways, Implements, PTL
=============================================================================
