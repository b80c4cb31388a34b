------------------------ MODULE RemoteServers_proofs ------------------------
(***************************************************************************)
(* No pointer to a deleted server is left but by a start, and none is used *)
(* while the network stays up, for every depth to which calls nest.        *)
(***************************************************************************)
EXTENDS RemoteServers, SequenceTheorems, TLAPS

\* The start of a server is in progress.
Starting(s, st) == \E i \in 1 .. Len(st) : st[i].call = "start" /\ st[i].of = s

\* DeletedByStart for any values of the variables.
Accounted(sv, up, st) ==
  \A s \in Server : sv[s] = "deleted" => s \in up \/ Starting(s, st)

Types ==
  /\ net \in BOOLEAN /\ idle \in BOOLEAN /\ logToWss \in BOOLEAN
  /\ outage \in BOOLEAN /\ selfDel \in BOOLEAN
  /\ stack \in Seq(Frame) /\ Len(stack) <= MaxNest
  /\ server \in [Server -> {"null", "live", "deleted"}]
  /\ gaveUp \subseteq Server
  /\ fault \subseteq {"used deleted", "lost object"}

\* With the network up since boot no start has given up, and nothing can run
\* inside a start, so that only the innermost call is one and the server it
\* starts is not there yet.
Steady ==
  ~outage =>
    /\ net /\ gaveUp = {}
    /\ \A i \in 1 .. Len(stack) - 1 : stack[i].call = "serve"
    /\ stack # <<>> /\ stack[Len(stack)].call = "start"
         => server[stack[Len(stack)].of] # "live"

\* An event whose server is gone is the history of selfDel.
GoneOnce == \A i \in 1 .. Len(stack) : stack[i].gone => selfDel

\* The inductive invariant.
Inv == Types /\ DeletedByStart /\ Steady /\ GoneOnce /\ SoundWhileUp

-----------------------------------------------------------------------------
\* The ways a step changes the stack.

\* The sequence without its last element.
LEMMA Fronts ==
  ASSUME NEW S, NEW s \in Seq(S), s # <<>>
  PROVE  /\ Front(s) \in Seq(S)
         /\ Len(Front(s)) = Len(s) - 1
         /\ \A i \in 1 .. Len(s) - 1 : Front(s)[i] = s[i]
  <1> DEFINE u == SubSeq(s, 1, Len(s) - 1)
  <1>1. Len(s) \in Nat /\ Len(s) >= 1 /\ \A i \in 1 .. Len(s) - 1 : s[i] \in S
    OBVIOUS
  <1>2. /\ u \in Seq(S)
        /\ Len(u) = IF 1 <= Len(s) - 1 THEN Len(s) - 1 - 1 + 1 ELSE 0
        /\ \A i \in 1 .. Len(s) - 1 - 1 + 1 : u[i] = s[1 + i - 1]
    BY <1>1, SubSeqProperties
  <1>3. Front(s) = u
    BY DEF Front
  <1> HIDE DEF u
  <1>4. Len(s) - 1 - 1 + 1 = Len(s) - 1 /\ (~(1 <= Len(s) - 1) => Len(s) - 1 = 0)
    <2>1. \A n \in Nat : n >= 1 => n - 1 - 1 + 1 = n - 1 /\ (~(1 <= n - 1) => n - 1 = 0)
      OBVIOUS
    <2> QED
      BY <1>1, <2>1
  <1>5. Len(u) = Len(s) - 1
    BY <1>2, <1>4
  <1>6. ASSUME NEW i \in 1 .. Len(s) - 1
        PROVE  u[i] = s[i]
    <2>1. u[i] = s[1 + i - 1]
      BY <1>2, <1>4
    <2>2. 1 + i - 1 = i
      BY <1>1
    <2> QED
      BY <2>1, <2>2
  <1> QED
    BY <1>2, <1>3, <1>5, <1>6

\* The innermost call.
LEMMA TopCall ==
  ASSUME Inv, stack # <<>>
  PROVE  /\ Len(stack) \in Nat /\ Len(stack) >= 1 /\ Len(stack) \in 1 .. Len(stack)
         /\ Top = stack[Len(stack)] /\ Top \in Frame /\ Top.of \in Server
  <1>1. stack \in Seq(Frame)
    BY DEF Inv, Types
  <1>2. Len(stack) \in Nat /\ Len(stack) >= 1
    BY <1>1
  <1>3. Top = stack[Len(stack)]
    BY DEF Top, Last
  <1>4. Top \in Frame
    BY <1>1, <1>2, <1>3
  <1> QED
    BY <1>2, <1>3, <1>4 DEF Frame

\* A return leaves the other calls.
LEMMA Returned ==
  ASSUME Inv, stack # <<>>, Return
  PROVE  /\ stack' \in Seq(Frame) /\ Len(stack') = Len(stack) - 1 /\ Len(stack') <= MaxNest
         /\ \A i \in 1 .. Len(stack) - 1 : stack'[i] = stack[i]
         /\ \A s \in Server : Starting(s, stack) =>
              Starting(s, stack') \/ (Top.call = "start" /\ s = Top.of)
  <1>1. stack \in Seq(Frame) /\ Len(stack) <= MaxNest
    BY DEF Inv, Types
  <1>2. Len(stack) \in Nat /\ Len(stack) >= 1 /\ Top = stack[Len(stack)]
    BY TopCall
  <1>3. /\ stack' \in Seq(Frame) /\ Len(stack') = Len(stack) - 1
        /\ \A i \in 1 .. Len(stack) - 1 : stack'[i] = stack[i]
    BY <1>1, Fronts DEF Return
  <1>4. Len(stack') <= MaxNest
    BY <1>1, <1>2, <1>3, ServersOK
  <1>5. ASSUME NEW s \in Server, Starting(s, stack)
        PROVE  Starting(s, stack') \/ (Top.call = "start" /\ s = Top.of)
    <2>1. PICK i \in 1 .. Len(stack) : stack[i].call = "start" /\ stack[i].of = s
      BY <1>5 DEF Starting
    <2>2. CASE i = Len(stack)
      BY <1>2, <2>1, <2>2
    <2>3. CASE i # Len(stack)
      <3>1. i \in 1 .. Len(stack')
        BY <1>2, <1>3, <2>3
      <3>2. stack'[i] = stack[i]
        BY <1>3, <3>1
      <3> QED
        BY <2>1, <3>1, <3>2 DEF Starting
    <2> QED
      BY <2>2, <2>3
  <1> QED
    BY <1>3, <1>4, <1>5

\* Deleting a server changes no call but for its own events.
LEMMA Deleted ==
  ASSUME Inv, NEW s \in Server, Delete(s), NEW st, st = Gone(s)
  PROVE  /\ st \in Seq(Frame) /\ Len(st) = Len(stack)
         /\ \A i \in 1 .. Len(stack) : st[i].call = stack[i].call /\ st[i].of = stack[i].of
         /\ \A i \in 1 .. Len(stack) : st[i].gone => selfDel'
         /\ \A t \in Server : Starting(t, stack) => Starting(t, st)
  <1>0. stack \in Seq(Frame)
    BY DEF Inv, Types
  <1>1. stack \in Seq(Frame) /\ Len(stack) \in Nat
    BY <1>0
  <1>2. \A f \in Frame : /\ [f EXCEPT !.gone = TRUE] \in Frame
                         /\ [f EXCEPT !.gone = TRUE].call = f.call
                         /\ [f EXCEPT !.gone = TRUE].of = f.of
    BY DEF Frame
  <1>3. \A i \in 1 .. Len(stack) : stack[i] \in Frame
    BY <1>1
  <1>4. \A i \in 1 .. Len(stack) : st[i] \in {stack[i], [stack[i] EXCEPT !.gone = TRUE]}
    BY <1>1 DEF Gone
  <1>5. st \in [1 .. Len(stack) -> Frame]
    BY <1>2, <1>3, <1>4 DEF Gone
  <1>6. st \in Seq(Frame) /\ Len(st) = Len(stack)
    BY <1>1, <1>5
  <1>7. \A i \in 1 .. Len(stack) : st[i].call = stack[i].call /\ st[i].of = stack[i].of
    BY <1>2, <1>3, <1>4
  <1>8. ASSUME NEW i \in 1 .. Len(stack), st[i].gone
        PROVE  selfDel'
    <2>1. CASE st = stack
      BY <1>8, <2>1 DEF Inv, GoneOnce, Delete
    <2>2. CASE st # stack
      BY <2>2 DEF Delete
    <2> QED
      BY <2>1, <2>2
  <1>9. \A t \in Server : Starting(t, stack) => Starting(t, st)
    BY <1>6, <1>7 DEF Starting
  <1> QED
    BY <1>6, <1>7, <1>8, <1>9

\* One more call.
LEMMA Pushed ==
  ASSUME NEW st \in Seq(Frame), NEW f \in Frame
  PROVE  /\ Append(st, f) \in Seq(Frame) /\ Len(Append(st, f)) = Len(st) + 1
         /\ Len(st) \in Nat
         /\ \A i \in 1 .. Len(st) : Append(st, f)[i] = st[i]
         /\ Append(st, f)[Len(st) + 1] = f
         /\ \A t \in Server : Starting(t, st) => Starting(t, Append(st, f))
         /\ f.call = "start" => Starting(f.of, Append(st, f))
  <1> DEFINE u == Append(st, f)
  <1>1. /\ u \in Seq(Frame) /\ Len(u) = Len(st) + 1 /\ Len(st) \in Nat
        /\ \A i \in 1 .. Len(st) : u[i] = st[i]
        /\ u[Len(st) + 1] = f
    OBVIOUS
  <1> HIDE DEF u
  <1>2. ASSUME NEW t \in Server, Starting(t, st)
        PROVE  Starting(t, u)
    <2>1. PICK i \in 1 .. Len(st) : st[i].call = "start" /\ st[i].of = t
      BY <1>2 DEF Starting
    <2>2. i \in 1 .. Len(u) /\ u[i] = st[i]
      BY <1>1
    <2> QED
      BY <2>1, <2>2 DEF Starting
  <1>3. f.call = "start" => Starting(f.of, u)
    <2>1. Len(st) + 1 \in 1 .. Len(u)
      BY <1>1
    <2> QED
      BY <1>1, <2>1 DEF Starting
  <1> QED
    BY <1>1, <1>2, <1>3 DEF u

-----------------------------------------------------------------------------
\* What the actions do to the invariant.

\* A command runs inside no start while the network stays up, so that it finds
\* no deleted server.
LEMMA NothingDeleted ==
  ASSUME Inv, MayRun \/ stack = <<>>, ~outage
  PROVE  /\ \A i \in 1 .. Len(stack) : stack[i].call = "serve"
         /\ \A s \in Server : ~Starting(s, stack) /\ server[s] # "deleted"
  <1>1. net /\ gaveUp = {} /\ \A i \in 1 .. Len(stack) - 1 : stack[i].call = "serve"
    BY DEF Inv, Steady
  <1>2. stack # <<>> => Top.call = "serve"
    BY <1>1 DEF MayRun, In
  <1>3. ASSUME NEW i \in 1 .. Len(stack)
        PROVE  stack[i].call = "serve"
    <2>0. stack \in Seq(Frame)
      BY DEF Inv, Types
    <2>1. stack # <<>>
      BY <2>0
    <2>2. Len(stack) \in Nat /\ Top = stack[Len(stack)]
      BY <2>1, TopCall
    <2>3. i = Len(stack) \/ i \in 1 .. Len(stack) - 1
      BY <2>2
    <2> QED
      BY <1>1, <1>2, <2>1, <2>2, <2>3
  <1>4. \A s \in Server : ~Starting(s, stack)
    BY <1>3 DEF Starting
  <1>5. \A s \in Server : server[s] # "deleted"
    BY <1>1, <1>4 DEF Inv, DeletedByStart, Starting
  <1> QED
    BY <1>3, <1>4, <1>5

\* Deleting and creating, with the pointers that result.
LEMMA ServersTyped ==
  ASSUME Inv, NEW s \in Server, NEW v \in {"null", "live", "deleted"}
  PROVE  /\ [server EXCEPT ![s] = v] \in [Server -> {"null", "live", "deleted"}]
         /\ [server EXCEPT ![s] = v][s] = v
         /\ \A t \in Server : t # s => [server EXCEPT ![s] = v][t] = server[t]
  BY DEF Inv, Types

LEMMA CmdStartOK ==
  ASSUME Inv, NEW s \in Server, CmdStart(s)
  PROVE  Inv'
  <1>1. PICK q \in {FALSE, Draining} : StartServer(s, q)
    BY DEF CmdStart
  <1>2. q \in BOOLEAN
    BY DEF Draining
  <1>3. MayRun /\ UNCHANGED <<net, outage, idle, logToWss, gaveUp>>
    BY DEF CmdStart
  <1> DEFINE g == Gone(s)
             c == Call("start", s, q)
             v == IF server[s] = "null" THEN "null" ELSE "deleted"
  <1>4. Delete(s) /\ stack' = Append(g, c) /\ server' = [server EXCEPT ![s] = v]
    BY <1>1 DEF StartServer
  <1>5. c \in Frame /\ c.call = "start" /\ c.of = s /\ c.gone = FALSE
    BY <1>2 DEF Call, Frame
  <1>6. /\ g \in Seq(Frame) /\ Len(g) = Len(stack)
        /\ \A i \in 1 .. Len(stack) : g[i].call = stack[i].call /\ g[i].of = stack[i].of
        /\ \A i \in 1 .. Len(stack) : g[i].gone => selfDel'
        /\ \A t \in Server : Starting(t, stack) => Starting(t, g)
    BY <1>4, Deleted
  <1>7. v \in {"null", "deleted"}
    OBVIOUS
  <1>8. /\ server' \in [Server -> {"null", "live", "deleted"}] /\ server'[s] = v
        /\ \A t \in Server : t # s => server'[t] = server[t]
    BY <1>4, <1>7, ServersTyped
  <1> HIDE DEF g, c, v
  <1>9. /\ stack' \in Seq(Frame) /\ Len(stack') = Len(stack) + 1 /\ Len(stack) \in Nat
        /\ \A i \in 1 .. Len(stack) : stack'[i] = g[i]
        /\ stack'[Len(stack) + 1] = c
        /\ \A t \in Server : Starting(t, stack) => Starting(t, stack')
        /\ Starting(s, stack')
    BY <1>4, <1>5, <1>6, Pushed
  <1>10. Types'
    <2>1. Len(stack') <= MaxNest
      BY <1>3, <1>9, ServersOK DEF MayRun
    <2>2. fault' \subseteq {"used deleted", "lost object"} /\ selfDel' \in BOOLEAN
      BY <1>4 DEF Inv, Types, Delete, Faulty
    <2> QED
      BY <1>3, <1>8, <1>9, <2>1, <2>2 DEF Inv, Types
  <1>11. DeletedByStart'
    <2>1. \A t \in Server : server'[t] = "deleted" => t \in gaveUp' \/ Starting(t, stack')
      BY <1>3, <1>8, <1>9 DEF Inv, DeletedByStart, Starting
    <2> QED
      BY <2>1 DEF DeletedByStart, Starting
  <1>12. Steady'
    <2> SUFFICES ASSUME ~outage'
                 PROVE  /\ net' /\ gaveUp' = {}
                        /\ \A i \in 1 .. Len(stack') - 1 : stack'[i].call = "serve"
                        /\ stack' # <<>> /\ stack'[Len(stack')].call = "start"
                             => server'[stack'[Len(stack')].of] # "live"
      BY DEF Steady
    <2>1. net' /\ gaveUp' = {}
      BY <1>3 DEF Inv, Steady
    <2>2. \A i \in 1 .. Len(stack) : stack[i].call = "serve"
      BY <1>3, NothingDeleted
    <2>3. ASSUME NEW i \in 1 .. Len(stack') - 1
          PROVE  stack'[i].call = "serve"
      <3>1. i \in 1 .. Len(stack)
        BY <1>9
      <3> QED
        BY <1>6, <1>9, <2>2, <3>1
    <2>4. stack'[Len(stack')] = c
      BY <1>9
    <2>5. server'[c.of] # "live"
      BY <1>5, <1>7, <1>8
    <2> QED
      BY <2>1, <2>3, <2>4, <2>5
  <1>13. GoneOnce'
    <2> SUFFICES ASSUME NEW i \in 1 .. Len(stack'), stack'[i].gone
                 PROVE  selfDel'
      BY DEF GoneOnce
    <2>1. CASE i = Len(stack) + 1
      BY <1>5, <1>9, <2>1
    <2>2. CASE i # Len(stack) + 1
      <3>1. i \in 1 .. Len(stack)
        BY <1>9, <2>2
      <3> QED
        BY <1>6, <1>9, <3>1
    <2> QED
      BY <2>1, <2>2
  <1>14. SoundWhileUp'
    <2> SUFFICES ASSUME ~outage', ~selfDel'
                 PROVE  fault' = {}
      BY DEF SoundWhileUp
    <2>1. ~outage /\ ~selfDel
      BY <1>3, <1>4 DEF Delete
    <2>2. server[s] # "deleted"
      BY <1>3, <2>1, NothingDeleted
    <2> QED
      BY <1>4, <2>1, <2>2 DEF Inv, SoundWhileUp, Delete, Faulty
  <1> QED
    BY <1>10, <1>11, <1>12, <1>13, <1>14 DEF Inv

\* StopServer, as a command inside an event or from loop().
LEMMA StopOK ==
  ASSUME Inv, StopServer, MayRun \/ stack = <<>>, stack' = Gone(Wss),
         UNCHANGED <<net, outage, idle, logToWss>>
  PROVE  Inv'
  <1>1. Wss \in Server
    BY DEF Server
  <1>2. Delete(Wss) /\ server' = [server EXCEPT ![Wss] = "null"] /\ gaveUp' = gaveUp \ {Wss}
    BY DEF StopServer, NullsPointer
  <1>3. /\ stack' \in Seq(Frame) /\ Len(stack') = Len(stack)
        /\ \A i \in 1 .. Len(stack) : stack'[i].call = stack[i].call /\ stack'[i].of = stack[i].of
        /\ \A i \in 1 .. Len(stack) : stack'[i].gone => selfDel'
        /\ \A t \in Server : Starting(t, stack) => Starting(t, stack')
    BY <1>1, <1>2, Deleted
  <1>4. /\ server' \in [Server -> {"null", "live", "deleted"}] /\ server'[Wss] = "null"
        /\ \A t \in Server : t # Wss => server'[t] = server[t]
    BY <1>1, <1>2, ServersTyped
  <1>5. Types'
    <2>1. fault' \subseteq {"used deleted", "lost object"} /\ selfDel' \in BOOLEAN
      BY <1>2 DEF Inv, Types, Delete, Faulty
    <2> QED
      BY <1>2, <1>3, <1>4, <2>1 DEF Inv, Types
  <1>6. DeletedByStart'
    <2>1. \A t \in Server : server'[t] = "deleted" => t \in gaveUp' \/ Starting(t, stack')
      BY <1>2, <1>3, <1>4 DEF Inv, DeletedByStart, Starting
    <2> QED
      BY <2>1 DEF DeletedByStart, Starting
  <1>7. Steady'
    <2> SUFFICES ASSUME ~outage'
                 PROVE  /\ net' /\ gaveUp' = {}
                        /\ \A i \in 1 .. Len(stack') - 1 : stack'[i].call = "serve"
                        /\ stack' # <<>> /\ stack'[Len(stack')].call = "start"
                             => server'[stack'[Len(stack')].of] # "live"
      BY DEF Steady
    <2>1. net' /\ gaveUp' = {}
      BY <1>2 DEF Inv, Steady
    <2>2. \A i \in 1 .. Len(stack) : stack[i].call = "serve"
      BY NothingDeleted
    <2>3. \A i \in 1 .. Len(stack') : stack'[i].call = "serve"
      BY <1>3, <2>2
    <2>4. Len(stack') \in Nat /\ (stack' # <<>> => Len(stack') \in 1 .. Len(stack'))
      BY <1>3
    <2>5. \A i \in 1 .. Len(stack') - 1 : i \in 1 .. Len(stack')
      BY <2>4
    <2> QED
      BY <2>1, <2>3, <2>4, <2>5
  <1>8. GoneOnce'
    BY <1>3 DEF GoneOnce
  <1>9. SoundWhileUp'
    <2> SUFFICES ASSUME ~outage', ~selfDel'
                 PROVE  fault' = {}
      BY DEF SoundWhileUp
    <2>1. ~outage /\ ~selfDel
      BY <1>2 DEF Delete
    <2>2. server[Wss] # "deleted"
      BY <1>1, <2>1, NothingDeleted
    <2> QED
      BY <1>2, <2>1, <2>2 DEF Inv, SoundWhileUp, Delete, Faulty
  <1> QED
    BY <1>5, <1>6, <1>7, <1>8, <1>9 DEF Inv

\* What a return keeps of the invariant.
LEMMA ReturnOK ==
  ASSUME Inv, stack # <<>>, Return, UNCHANGED <<selfDel, outage>>
  PROVE  /\ GoneOnce'
         /\ ~outage => \A i \in 1 .. Len(stack') : stack'[i].call = "serve"
  <1>1. /\ stack' \in Seq(Frame) /\ Len(stack') = Len(stack) - 1
        /\ \A i \in 1 .. Len(stack) - 1 : stack'[i] = stack[i]
    BY Returned
  <1>2. Len(stack) \in Nat /\ Len(stack) >= 1
    BY TopCall
  <1>3. \A i \in 1 .. Len(stack') : i \in 1 .. Len(stack) - 1 /\ i \in 1 .. Len(stack)
    BY <1>1, <1>2
  <1>4. GoneOnce'
    BY <1>1, <1>3 DEF Inv, GoneOnce
  <1> QED
    BY <1>1, <1>3, <1>4 DEF Inv, Steady

\* A stack of events only is steady with any servers.
LEMMA SteadyEvents ==
  ASSUME stack' \in Seq(Frame),
         ~outage' => net' /\ gaveUp' = {} /\ \A i \in 1 .. Len(stack') : stack'[i].call = "serve"
  PROVE  Steady'
  <1>1. stack' # <<>> => Len(stack') \in 1 .. Len(stack')
    OBVIOUS
  <1>2. \A i \in 1 .. Len(stack') - 1 : i \in 1 .. Len(stack')
    OBVIOUS
  <1> QED
    BY <1>1, <1>2 DEF Steady

LEMMA StartGivesUpOK == Inv /\ StartGivesUp => Inv'
  <1> SUFFICES ASSUME Inv, StartGivesUp
               PROVE  Inv'
    OBVIOUS
  <1>1. /\ stack # <<>> /\ Top.call = "start" /\ ~net /\ Return
        /\ gaveUp' = gaveUp \cup {Top.of}
        /\ UNCHANGED <<net, outage, server, idle, logToWss, selfDel, fault>>
    BY DEF StartGivesUp, In
  <1>2. outage
    BY <1>1 DEF Inv, Steady
  <1>3. /\ stack' \in Seq(Frame) /\ Len(stack') <= MaxNest
        /\ \A s \in Server : Starting(s, stack) => Starting(s, stack') \/ s = Top.of
    BY <1>1, Returned
  <1>4. Types'
    BY <1>1, <1>3, TopCall DEF Inv, Types
  <1>5. DeletedByStart'
    <2>1. \A s \in Server : server'[s] = "deleted" => s \in gaveUp' \/ Starting(s, stack')
      BY <1>1, <1>3 DEF Inv, DeletedByStart, Starting
    <2> QED
      BY <2>1 DEF DeletedByStart, Starting
  <1>6. Steady' /\ SoundWhileUp'
    BY <1>1, <1>2 DEF Steady, SoundWhileUp
  <1>7. GoneOnce'
    BY <1>1, ReturnOK
  <1> QED
    BY <1>4, <1>5, <1>6, <1>7 DEF Inv

LEMMA StartedOK == Inv /\ Started => Inv'
  <1> SUFFICES ASSUME Inv, Started
               PROVE  Inv'
    OBVIOUS
  <1>1. /\ stack # <<>> /\ Top.call = "start" /\ net /\ Return
        /\ server' = [server EXCEPT ![Top.of] = "live"]
        /\ Faulty(IF server[Top.of] = "live" THEN {"lost object"} ELSE {})
        /\ gaveUp' = gaveUp \ {Top.of}
        /\ UNCHANGED <<net, outage, idle, logToWss, selfDel>>
    BY DEF Started, In
  <1>2. Top.of \in Server /\ Top = stack[Len(stack)]
    BY <1>1, TopCall
  <1>3. /\ stack' \in Seq(Frame) /\ Len(stack') <= MaxNest
        /\ \A s \in Server : Starting(s, stack) => Starting(s, stack') \/ s = Top.of
    BY <1>1, Returned
  <1>4. /\ server' \in [Server -> {"null", "live", "deleted"}] /\ server'[Top.of] = "live"
        /\ \A s \in Server : s # Top.of => server'[s] = server[s]
    BY <1>1, <1>2, ServersTyped
  <1>5. Types'
    BY <1>1, <1>3, <1>4 DEF Inv, Types, Faulty
  <1>6. DeletedByStart'
    <2>1. \A s \in Server : server'[s] = "deleted" => s \in gaveUp' \/ Starting(s, stack')
      BY <1>1, <1>3, <1>4 DEF Inv, DeletedByStart, Starting
    <2> QED
      BY <2>1 DEF DeletedByStart, Starting
  <1>7. GoneOnce' /\ (~outage => \A i \in 1 .. Len(stack') : stack'[i].call = "serve")
    BY <1>1, ReturnOK
  <1>8. Steady'
    <2>1. ~outage' => net' /\ gaveUp' = {}
      BY <1>1 DEF Inv, Steady
    <2> QED
      BY <1>1, <1>3, <1>7, <2>1, SteadyEvents
  <1>9. SoundWhileUp'
    <2>1. ~outage => server[Top.of] # "live"
      BY <1>1, <1>2 DEF Inv, Steady
    <2> QED
      BY <1>1, <2>1 DEF Inv, SoundWhileUp, Faulty
  <1> QED
    BY <1>5, <1>6, <1>7, <1>8, <1>9 DEF Inv

LEMMA ServedOK == Inv /\ Served => Inv'
  <1> SUFFICES ASSUME Inv, Served
               PROVE  Inv'
    OBVIOUS
  <1>1. /\ stack # <<>> /\ Top.call = "serve" /\ Return
        /\ Faulty(IF Top.gone THEN {"used deleted"} ELSE {})
        /\ UNCHANGED <<net, outage, server, idle, logToWss, gaveUp, selfDel>>
    BY DEF Served, In
  <1>2. Top = stack[Len(stack)] /\ Len(stack) \in 1 .. Len(stack)
    BY <1>1, TopCall
  <1>3. /\ stack' \in Seq(Frame) /\ Len(stack') <= MaxNest
        /\ \A s \in Server : Starting(s, stack) => Starting(s, stack')
    BY <1>1, Returned
  <1>4. Types'
    BY <1>1, <1>3 DEF Inv, Types, Faulty
  <1>5. DeletedByStart'
    <2>1. \A s \in Server : server'[s] = "deleted" => s \in gaveUp' \/ Starting(s, stack')
      BY <1>1, <1>3 DEF Inv, DeletedByStart, Starting
    <2> QED
      BY <2>1 DEF DeletedByStart, Starting
  <1>6. GoneOnce' /\ (~outage => \A i \in 1 .. Len(stack') : stack'[i].call = "serve")
    BY <1>1, ReturnOK
  <1>7. Steady'
    <2>1. ~outage' => net' /\ gaveUp' = {}
      BY <1>1 DEF Inv, Steady
    <2> QED
      BY <1>1, <1>3, <1>6, <2>1, SteadyEvents
  <1>8. SoundWhileUp'
    <2>1. Top.gone => selfDel
      BY <1>2 DEF Inv, GoneOnce
    <2> QED
      BY <1>1, <2>1 DEF Inv, SoundWhileUp, Faulty
  <1> QED
    BY <1>4, <1>5, <1>6, <1>7, <1>8 DEF Inv

\* The state after a reset.
FreshState ==
  /\ stack = <<>> /\ server = [s \in Server |-> "null"] /\ net \in BOOLEAN
  /\ idle = FALSE /\ logToWss = FALSE /\ gaveUp = {} /\ selfDel = FALSE /\ fault = {}
  /\ outage = ~net

LEMMA Fresh == FreshState => Inv
  <1> SUFFICES ASSUME FreshState
               PROVE  Inv
    OBVIOUS
  <1> USE DEF FreshState
  <1>1. stack \in Seq(Frame) /\ Len(stack) = 0
    OBVIOUS
  <1>2. Types
    <2>1. server \in [Server -> {"null", "live", "deleted"}]
      OBVIOUS
    <2>2. Len(stack) <= MaxNest
      BY <1>1, ServersOK
    <2> QED
      BY <1>1, <2>1, <2>2 DEF Types
  <1>3. DeletedByStart
    <2>1. \A s \in Server : server[s] # "deleted"
      OBVIOUS
    <2> QED
      BY <2>1 DEF DeletedByStart
  <1>4. Steady
    <2>1. \A i \in 1 .. Len(stack) - 1 : FALSE
      BY <1>1
    <2> QED
      BY <2>1 DEF Steady
  <1>5. GoneOnce
    BY <1>1 DEF GoneOnce
  <1> QED
    BY <1>2, <1>3, <1>4, <1>5 DEF Inv, SoundWhileUp

\* Every step keeps the invariant.
LEMMA InvStep == Inv /\ [Next]_vars => Inv'
  <1> SUFFICES ASSUME Inv, [Next]_vars
               PROVE  Inv'
    OBVIOUS
  <1>1. CASE \E s \in Server : CmdStart(s)
    BY <1>1, CmdStartOK
  <1>2. ASSUME NEW s \in Server, Text(s)
        PROVE  Inv'
    <2>1. /\ stack = <<>> /\ net /\ idle' \in BOOLEAN
          /\ stack' \in {<<>>, <<Call("serve", s, FALSE)>>}
          /\ UNCHANGED <<net, server, logToWss, gaveUp, outage, selfDel, fault>>
      BY <1>2 DEF Text, histories, Inv, Types
    <2>2. /\ Call("serve", s, FALSE) \in Frame /\ Call("serve", s, FALSE).call = "serve"
          /\ Call("serve", s, FALSE).gone = FALSE
      BY DEF Call, Frame
    <2>3. /\ stack' \in Seq(Frame) /\ Len(stack') <= MaxNest
          /\ \A i \in 1 .. Len(stack') : stack'[i].call = "serve" /\ stack'[i].gone = FALSE
      <3>1. CASE stack' = <<>>
        BY <3>1, ServersOK
      <3>2. CASE stack' # <<>>
        <4> DEFINE c == Call("serve", s, FALSE)
        <4>1. stack' = <<c>>
          BY <2>1, <3>2
        <4>2. c \in Frame /\ c.call = "serve" /\ c.gone = FALSE
          BY <2>2
        <4> HIDE DEF c
        <4>3. stack' \in Seq(Frame) /\ Len(stack') = 1 /\ stack'[1] = c
          BY <4>1, <4>2
        <4> QED
          BY <4>2, <4>3, ServersOK
      <3> QED
        BY <3>1, <3>2
    <2>4. Types'
      BY <2>1, <2>3 DEF Inv, Types
    <2>5. DeletedByStart'
      <3>1. \A t \in Server : ~Starting(t, stack)
        BY <2>1 DEF Starting
      <3>2. \A t \in Server : server'[t] = "deleted" => t \in gaveUp'
        BY <2>1, <3>1 DEF Inv, DeletedByStart, Starting
      <3> QED
        BY <3>2 DEF DeletedByStart
    <2>6. Steady'
      <3>1. ~outage' => net' /\ gaveUp' = {}
        BY <2>1 DEF Inv, Steady
      <3> QED
        BY <2>3, <3>1, SteadyEvents
    <2>7. GoneOnce' /\ SoundWhileUp'
      BY <2>1, <2>3 DEF Inv, GoneOnce, SoundWhileUp
    <2> QED
      BY <2>4, <2>5, <2>6, <2>7 DEF Inv
  <1>3. ASSUME NEW s \in Server, UseDeleted(s)
        PROVE  Inv'
    <2>1. /\ server[s] = "deleted"
          /\ stack = <<>> \/ outage
          /\ Faulty({"used deleted"})
          /\ UNCHANGED <<net, outage, stack, server, idle, logToWss, gaveUp, selfDel>>
      BY <1>3 DEF UseDeleted
    <2>2. Types' /\ DeletedByStart' /\ Steady' /\ GoneOnce'
      BY <2>1 DEF Inv, Types, DeletedByStart, Steady, GoneOnce, Faulty
    <2>3. outage
      BY <2>1, NothingDeleted
    <2> QED
      BY <2>1, <2>2, <2>3 DEF Inv, SoundWhileUp
  <1>4. CASE StartGivesUp
    BY <1>4, StartGivesUpOK
  <1>5. CASE Started
    BY <1>5, StartedOK
  <1>6. CASE Served
    BY <1>6, ServedOK
  <1>7. CASE CmdStop
    BY <1>7, StopOK DEF CmdStop
  <1>8. CASE IdleStop
    <2>1. /\ stack = <<>> /\ StopServer
          /\ UNCHANGED <<net, outage, stack, idle, logToWss>>
      BY <1>8 DEF IdleStop
    <2>2. Gone(Wss) = <<>>
      BY <2>1 DEF Gone
    <2> QED
      BY <2>1, <2>2, StopOK
  <1>9. CASE Connected
    <2>1. logToWss' = TRUE /\ UNCHANGED <<net, stack, server, idle, gaveUp, outage, selfDel, fault>>
      BY <1>9 DEF Connected, histories
    <2>2. Types'
      BY <2>1 DEF Inv, Types
    <2>3. DeletedByStart' /\ Steady' /\ GoneOnce' /\ SoundWhileUp'
      BY <2>1 DEF Inv, DeletedByStart, Steady, GoneOnce, SoundWhileUp
    <2> QED
      BY <2>2, <2>3 DEF Inv
  <1>10. CASE TimePasses
    BY <1>10 DEF TimePasses, histories, Inv, Types, DeletedByStart, Steady, GoneOnce, SoundWhileUp
  <1>11. CASE Network
    <2>1. net' = ~net /\ outage' = (outage \/ ~net')
          /\ UNCHANGED <<stack, server, idle, logToWss, gaveUp, selfDel, fault>>
      BY <1>11 DEF Network
    <2>2. net' \in BOOLEAN /\ outage' \in BOOLEAN
      BY <2>1
    <2>3. outage'
      BY <2>1 DEF Inv, Steady
    <2> QED
      BY <2>1, <2>2, <2>3 DEF Inv, Types, DeletedByStart, Steady, GoneOnce, SoundWhileUp
  <1>12. CASE Reset
    <2>1. /\ stack' = <<>> /\ server' = [s \in Server |-> "null"]
          /\ idle' = FALSE /\ logToWss' = FALSE
          /\ gaveUp' = {} /\ selfDel' = FALSE /\ fault' = {} /\ outage' = ~net /\ net' = net
      BY <1>12 DEF Reset
    <2>2. FreshState'
      BY <2>1 DEF Inv, Types, FreshState
    <2> QED
      BY <2>2, Fresh, PTL
  <1>13. CASE UNCHANGED vars
    BY <1>13 DEF vars, histories, Inv, Types, DeletedByStart, Steady, GoneOnce, SoundWhileUp
  <1> QED
    BY <1>1, <1>2, <1>3, <1>4, <1>5, <1>6, <1>7, <1>8, <1>9, <1>10, <1>11, <1>12, <1>13
    DEF Next, CallReturns

\* So it holds throughout every behaviour.
LEMMA InvAlways == Spec => []Inv
  <1>1. ASSUME Init
        PROVE  Inv
    BY <1>1, Fresh DEF Init, FreshState
  <1> QED
    BY <1>1, InvStep, PTL DEF Spec

\* Type correctness of the calls, the servers and the histories.
THEOREM TypeCorrect == Spec => []TypeOK
  <1>1. Inv => TypeOK
    BY DEF Inv, Types, TypeOK
  <1> QED
    BY <1>1, InvAlways, PTL

\* However starts, stops and idle stops nest, a pointer to a deleted server is
\* accounted for by a start that waits or gave up (cmdStartServerInst).
THEOREM OnlyStartsLeaveDeleted == Spec => []DeletedByStart
  <1>1. Inv => DeletedByStart
    BY DEF Inv
  <1> QED
    BY <1>1, InvAlways, PTL

\* With the network up since boot and no server deleted in its own event, no
\* deleted server is used and no running one is lost (loop, sendData, new).
THEOREM AlwaysSound == Spec => []SoundWhileUp
  <1>1. Inv => SoundWhileUp
    BY DEF Inv
  <1> QED
    BY <1>1, InvAlways, PTL
=============================================================================
