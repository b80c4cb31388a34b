----------------------- MODULE WifiConnection_proofs -----------------------
(***************************************************************************)
(* An address is reused only when it was earned, and a time without a      *)
(* network is counted once, for any addresses, limit of failures and depth *)
(* to which waits nest.                                                    *)
(***************************************************************************)
EXTENDS WifiConnection, TLAPS

Addresses == Addr \cup {NoAddr}
Points == {"boot", "wifi", "check", "menu", "plugins", "send", "menu2", "power", "flush", "asleep"}
RtcOK == [ip : Addresses, fails : 0 .. FailLimit + 1, slept : BOOLEAN]

ThreadOK ==
  /\ pc \in Points /\ waits \in Seq(Frame)
  /\ pc = "check" => waits # <<>>
RadioOK ==
  /\ radio \in {"off", "trying", "up", "ap"}
  /\ localIp \in Addresses /\ seen \in Addresses /\ staticIp \in Addresses
FlagsOK ==
  /\ waited \in {"never", "recent", "old"}
  /\ portal \in BOOLEAN /\ late \in BOOLEAN /\ autoOff \in BOOLEAN /\ woke \in BOOLEAN
  /\ skip \in BOOLEAN
  /\ configured \in BOOLEAN /\ quiet \in BOOLEAN /\ sleeps \in BOOLEAN
  /\ mayCount \in BOOLEAN
KeptOK ==
  /\ queue \subseteq {"restart", "autoconfig"}
  /\ rtc \in RtcOK
  /\ trial \in {"good", "tried"}

\* An address that is kept has not been tried since the device had it.
Earned == rtc.ip # NoAddr => trial = "good"

\* What was counted is remembered by wifiAlreadyWaited, until a minute has passed
\* or the device boots.
Counted == (mayCount \/ waited = "recent") /\ (pc = "boot" => mayCount)

\* The inductive invariant.
Inv == ThreadOK /\ RadioOK /\ FlagsOK /\ KeptOK /\ Earned /\ Counted

-----------------------------------------------------------------------------
\* Parts of the actions.

\* RAM after a reset.
LEMMA LoseRamOK ==
  ASSUME Inv, LoseRam
  PROVE  ThreadOK' /\ RadioOK' /\ Counted' /\ queue' \subseteq {"restart", "autoconfig"}
         /\ waited' \in {"never", "recent", "old"}
         /\ portal' \in BOOLEAN /\ late' \in BOOLEAN /\ autoOff' \in BOOLEAN /\ woke' \in BOOLEAN /\ skip' \in BOOLEAN
         /\ mayCount' \in BOOLEAN
  <1>1. ThreadOK'
    BY DEF LoseRam, ThreadOK, Points
  <1>2. RadioOK'
    BY DEF LoseRam, RadioOK, Addresses
  <1>3. mayCount' = TRUE /\ Counted'
    BY DEF LoseRam, Counted
  <1> QED
    BY <1>1, <1>2, <1>3 DEF LoseRam

LEMMA ClearedRtc == ClearRtc \in RtcOK /\ ClearRtc.ip = NoAddr /\ ClearRtc.fails = 0
  BY ConstantsOK DEF ClearRtc, RtcOK, Addresses

\* wifiConnectMulti: the address it asks for is the one it removes from RTC memory.
LEMMA ConnectOK ==
  ASSUME Inv, NEW w \in BOOLEAN, NEW ssid \in BOOLEAN, NEW off, Connect(w, ssid, off)
  PROVE  /\ radio' \in {"off", "trying", "up", "ap"} /\ localIp' \in Addresses
         /\ staticIp' \in Addresses /\ waited' \in {"never", "recent"}
         /\ KeptOK' /\ Earned' /\ rtc'.fails = rtc.fails
         /\ (staticIp' # staticIp => trial = "good")
  <1>1. rtc \in RtcOK /\ (rtc.ip # NoAddr => trial = "good")
    BY DEF Inv, KeptOK, Earned
  <1>2. /\ radio' \in {"off", "trying", "up", "ap"} /\ localIp' \in Addresses
        /\ waited' \in {"never", "recent"}
    BY DEF Connect, Inv, RadioOK, Addresses
  <1>3. queue' \subseteq {"restart", "autoconfig"}
    BY DEF Connect, Inv, KeptOK
  <1>4. CASE w
    <2>1. rtc' = [rtc EXCEPT !.ip = NoAddr]
      BY <1>4 DEF Connect, TakeAddress
    <2>2. rtc' \in RtcOK /\ rtc'.ip = NoAddr /\ rtc'.fails = rtc.fails
      BY <1>1, <2>1 DEF RtcOK, Addresses
    <2>3. CASE rtc.ip # NoAddr
      <3>1. staticIp' = rtc.ip /\ trial' = "tried"
        BY <1>4, <2>3 DEF Connect
      <3>2. rtc.ip \in Addresses
        BY <1>1 DEF RtcOK
      <3> QED
        BY <1>1, <1>2, <1>3, <2>2, <2>3, <3>1, <3>2 DEF KeptOK, Earned
    <2>4. CASE rtc.ip = NoAddr
      <3>1. staticIp' = staticIp /\ trial' = trial
        BY <2>4 DEF Connect
      <3> QED
        BY <1>2, <1>3, <2>2, <3>1 DEF Inv, KeptOK, RadioOK, Earned
    <2> QED
      BY <2>3, <2>4
  <1>5. CASE ~w
    <2>1. staticIp' = staticIp /\ trial' = trial /\ rtc' = rtc
      BY <1>5 DEF Connect, TakeAddress
    <2> QED
      BY <1>2, <1>3, <2>1 DEF Inv, KeptOK, RadioOK, Earned
  <1> QED
    BY <1>4, <1>5

\* waitForWifi starts a wait and, after a minute, connects anew.
LEMMA WaitForWifiOK ==
  ASSUME Inv, NEW b \in {"menu", "menu2", "asleep"}, NEW q \in BOOLEAN, WaitForWifi(b, q),
         UNCHANGED <<seen, portal, late, autoOff, woke, skip, configured, quiet, sleeps, mayCount>>
  PROVE  Inv' /\ rtc'.fails = rtc.fails /\ (staticIp' # staticIp => trial = "good")
  <1>1. waits' \in Seq(Frame) /\ pc' = "menu"
    <2>1. [back |-> b, queued |-> q] \in Frame
      BY DEF Frame
    <2>2. waits \in Seq(Frame)
      BY DEF Inv, ThreadOK
    <2> QED
      BY <2>1, <2>2 DEF WaitForWifi
  <1>2. ThreadOK'
    BY <1>1 DEF ThreadOK, Points
  <1>3. CASE waited = "old"
    <2>1. Connect(woke, configured, autoOff) /\ mayCount
      BY <1>3 DEF WaitForWifi, Inv, Counted
    <2>2. woke \in BOOLEAN /\ configured \in BOOLEAN
      BY DEF Inv, FlagsOK
    <2>3. /\ radio' \in {"off", "trying", "up", "ap"} /\ localIp' \in Addresses
          /\ staticIp' \in Addresses /\ waited' \in {"never", "recent"}
          /\ KeptOK' /\ Earned' /\ rtc'.fails = rtc.fails
          /\ (staticIp' # staticIp => trial = "good")
      BY <2>1, <2>2, ConnectOK
    <2>4. RadioOK' /\ FlagsOK' /\ Counted'
      BY <1>1, <2>1, <2>3 DEF Inv, RadioOK, FlagsOK, Counted
    <2> QED
      BY <1>2, <2>3, <2>4 DEF Inv
  <1>4. CASE waited # "old"
    <2>1. UNCHANGED <<staticIp, trial, rtc, waited, radio, queue, localIp>>
      BY <1>4 DEF WaitForWifi
    <2>2. RadioOK' /\ FlagsOK' /\ KeptOK' /\ Earned' /\ Counted'
      BY <1>1, <2>1 DEF Inv, RadioOK, FlagsOK, KeptOK, Earned, Counted
    <2> QED
      BY <1>2, <2>1, <2>2 DEF Inv
  <1> QED
    BY <1>3, <1>4

\* A wait returns to one of three places.
LEMMA ReturnOK ==
  ASSUME Inv, Return, waits # <<>>
  PROVE  ThreadOK' /\ pc' # "boot"
  <1>1. waits \in Seq(Frame)
    BY DEF Inv, ThreadOK
  <1>2. Last(waits) \in Frame
    BY <1>1 DEF Last
  <1>3. Front(waits) \in Seq(Frame)
    BY <1>1 DEF Front
  <1> QED
    BY <1>2, <1>3 DEF Return, Frame, ThreadOK, Points

\* Another count, or the restart and its quiet start.
LEMMA FailedConnectOK ==
  ASSUME Inv, HandleFailedConnect
  PROVE  /\ rtc' \in RtcOK /\ rtc'.ip = rtc.ip
         /\ woke' \in BOOLEAN /\ quiet' \in BOOLEAN /\ queue' \subseteq {"restart", "autoconfig"}
  <1>1. rtc \in RtcOK
    BY DEF Inv, KeptOK
  <1>2. CASE rtc.fails > FailLimit
    <2>1. rtc' = rtc /\ quiet' = TRUE /\ woke' = TRUE /\ queue' = queue \cup {"restart"}
      BY <1>2 DEF HandleFailedConnect
    <2> QED
      BY <1>1, <2>1 DEF Inv, KeptOK
  <1>3. CASE ~(rtc.fails > FailLimit)
    <2>1. rtc' = [rtc EXCEPT !.fails = @ + 1] /\ UNCHANGED <<quiet, woke, queue>>
      BY <1>3 DEF HandleFailedConnect
    <2>2. rtc.fails \in Nat /\ rtc.fails <= FailLimit
      BY <1>1, <1>3, ConstantsOK DEF RtcOK
    <2>3. rtc.fails + 1 \in 0 .. FailLimit + 1
      BY <2>2, ConstantsOK
    <2>4. rtc' \in RtcOK /\ rtc'.ip = rtc.ip
      BY <1>1, <2>1, <2>3 DEF RtcOK
    <2> QED
      BY <2>1, <2>4 DEF Inv, KeptOK, FlagsOK
  <1> QED
    BY <1>2, <1>3

-----------------------------------------------------------------------------
\* Every step keeps the invariant, and is what the two action properties allow.

\* What ReuseIsEarned and CountsOnce say of a step.
Allowed ==
  /\ (staticIp # staticIp' /\ staticIp' # NoAddr) => trial = "good"
  /\ rtc'.fails > rtc.fails \/ (quiet' /\ ~quiet) => mayCount

LEMMA NotMore ==
  ASSUME Inv, rtc'.fails = rtc.fails \/ rtc'.fails = 0
  PROVE  ~(rtc'.fails > rtc.fails)
  <1>1. rtc.fails \in Nat
    BY ConstantsOK DEF Inv, KeptOK, RtcOK
  <1> QED
    BY <1>1

LEMMA BootStep == Inv /\ Boot => Inv' /\ Allowed
  <1> SUFFICES ASSUME Inv, Boot
               PROVE  Inv' /\ Allowed
    OBVIOUS
  <1>1. /\ pc = "boot" /\ pc' = "wifi" /\ quiet' = FALSE /\ autoOff' \in BOOLEAN
        /\ woke' = (rtc.slept \/ quiet)
        /\ UNCHANGED <<waits, seen, portal, late, skip, configured, sleeps, mayCount>>
    BY DEF Boot
  <1>2. woke' \in BOOLEAN /\ configured \in BOOLEAN /\ mayCount
    BY <1>1 DEF Inv, FlagsOK, Counted
  <1>3. ThreadOK'
    BY <1>1 DEF Inv, ThreadOK, Points
  <1>4. CASE Connect(woke', configured, autoOff')
    <2>1. /\ radio' \in {"off", "trying", "up", "ap"} /\ localIp' \in Addresses
          /\ staticIp' \in Addresses /\ waited' \in {"never", "recent"}
          /\ KeptOK' /\ Earned' /\ rtc'.fails = rtc.fails
          /\ (staticIp' # staticIp => trial = "good")
      BY <1>2, <1>4, ConnectOK
    <2>2. RadioOK' /\ FlagsOK' /\ Counted'
      BY <1>1, <1>2, <2>1 DEF Inv, RadioOK, FlagsOK, Counted
    <2>3. Allowed
      BY <1>1, <2>1, NotMore DEF Allowed
    <2> QED
      BY <1>3, <2>1, <2>2, <2>3 DEF Inv
  <1>5. CASE UNCHANGED <<staticIp, trial, rtc, waited, radio, queue, localIp>>
    <2>1. RadioOK' /\ FlagsOK' /\ KeptOK' /\ Earned' /\ Counted'
      BY <1>1, <1>2, <1>5 DEF Inv, RadioOK, FlagsOK, KeptOK, Earned, Counted
    <2>2. Allowed
      BY <1>1, <1>5, NotMore DEF Allowed
    <2> QED
      BY <1>3, <2>1, <2>2 DEF Inv
  <1> QED
    BY <1>4, <1>5 DEF Boot

LEMMA AfterHandleWifiOK ==
  ASSUME Inv, AfterHandleWifi, UNCHANGED waits
  PROVE  ThreadOK' /\ pc' # "boot"
  BY DEF Inv, ThreadOK, AfterHandleWifi, Points

LEMMA HandleWifiStep == Inv /\ HandleWifi => Inv' /\ Allowed
  <1> SUFFICES ASSUME Inv, HandleWifi
               PROVE  Inv' /\ Allowed
    OBVIOUS
  <1>1. CASE PortalSaved
    <2>1. ThreadOK' /\ pc' # "boot"
      BY <1>1, AfterHandleWifiOK DEF PortalSaved
    <2>2. portal' \in BOOLEAN
      BY <1>1 DEF PortalSaved
    <2>3. radio' \in {"ap", "off"} /\ localIp' = NoAddr /\ seen' = NoAddr
      BY <1>1 DEF PortalSaved
    <2>4. RadioOK'
      BY <1>1, <2>3 DEF PortalSaved, Inv, RadioOK, Addresses
    <2>5. FlagsOK'
      BY <1>1, <2>2 DEF PortalSaved, Inv, FlagsOK
    <2>6. KeptOK' /\ Earned' /\ Counted'
      BY <1>1, <2>1 DEF PortalSaved, Inv, KeptOK, Earned, Counted
    <2>7. Allowed
      BY <1>1, NotMore DEF PortalSaved, Allowed
    <2> QED
      BY <2>1, <2>4, <2>5, <2>6, <2>7 DEF Inv
  <1>2. CASE AutoPortal
    <2>1. ThreadOK' /\ pc' # "boot"
      BY <1>2, AfterHandleWifiOK DEF AutoPortal
    <2>2. RadioOK' /\ FlagsOK'
      BY <1>2 DEF AutoPortal, OpenPortal, flash, Inv, RadioOK, FlagsOK, Addresses
    <2>3. KeptOK' /\ Earned' /\ Counted'
      BY <1>2, <2>1 DEF AutoPortal, OpenPortal, flash, Inv, KeptOK, Earned, Counted
    <2>4. Allowed
      BY <1>2, NotMore DEF AutoPortal, flash, Allowed
    <2> QED
      BY <2>1, <2>2, <2>3, <2>4 DEF Inv
  <1>3. CASE GotIp
    <2>1. ThreadOK' /\ pc' # "boot"
      BY <1>3, AfterHandleWifiOK DEF GotIp
    <2>2. RadioOK' /\ FlagsOK'
      BY <1>3 DEF GotIp, flash, Inv, RadioOK, FlagsOK
    <2>3. rtc' = [rtc EXCEPT !.ip = localIp] /\ rtc \in RtcOK /\ localIp \in Addresses
      BY <1>3 DEF GotIp, Inv, KeptOK, RadioOK
    <2>4. rtc' \in RtcOK /\ rtc'.fails = rtc.fails
      BY <2>3 DEF RtcOK
    <2>5. KeptOK' /\ Earned' /\ Counted'
      BY <1>3, <2>1, <2>4 DEF GotIp, Inv, KeptOK, Earned, Counted
    <2>6. Allowed
      BY <1>3, <2>4, NotMore DEF GotIp, flash, Allowed
    <2> QED
      BY <2>1, <2>2, <2>5, <2>6 DEF Inv
  <1>4. CASE NothingNew
    <2>1. ThreadOK' /\ pc' # "boot"
      BY <1>4, AfterHandleWifiOK DEF NothingNew
    <2>2. RadioOK' /\ FlagsOK'
      BY <1>4 DEF NothingNew, flash, Inv, RadioOK, FlagsOK, Addresses
    <2>3. KeptOK' /\ Earned' /\ Counted'
      BY <1>4, <2>1 DEF NothingNew, flash, Inv, KeptOK, Earned, Counted
    <2>4. Allowed
      BY <1>4, NotMore DEF NothingNew, flash, Allowed
    <2> QED
      BY <2>1, <2>2, <2>3, <2>4 DEF Inv
  <1> QED
    BY <1>1, <1>2, <1>3, <1>4 DEF HandleWifi

LEMMA WaitEndsStep == Inv /\ WaitEnds => Inv' /\ Allowed
  <1> SUFFICES ASSUME Inv, WaitEnds
               PROVE  Inv' /\ Allowed
    OBVIOUS
  <1>1. /\ pc = "check" /\ waited # "recent" /\ Return /\ waited' = "recent"
        /\ UNCHANGED <<radio, localIp, seen, staticIp, portal, late, autoOff, skip, configured, sleeps,
                     trial>>
    BY DEF WaitEnds, StillUnknown
  <1>2. ThreadOK' /\ pc' # "boot"
    BY <1>1, ReturnOK DEF Inv, ThreadOK
  <1>3. RadioOK' /\ mayCount
    BY <1>1 DEF Inv, RadioOK, Counted
  <1>4. CASE radio = "up"
    <2>1. UNCHANGED <<rtc, quiet, woke, queue, mayCount>>
      BY <1>4 DEF WaitEnds
    <2>2. FlagsOK' /\ KeptOK' /\ Earned' /\ Counted'
      BY <1>1, <1>2, <2>1 DEF Inv, FlagsOK, KeptOK, Earned, Counted
    <2>3. Allowed
      BY <1>1, <1>3 DEF Allowed
    <2> QED
      BY <1>2, <1>3, <2>2, <2>3 DEF Inv
  <1>5. CASE radio # "up"
    <2>1. HandleFailedConnect /\ mayCount' = FALSE
      BY <1>5 DEF WaitEnds
    <2>2. /\ rtc' \in RtcOK /\ rtc'.ip = rtc.ip
          /\ woke' \in BOOLEAN /\ quiet' \in BOOLEAN /\ queue' \subseteq {"restart", "autoconfig"}
      BY <2>1, FailedConnectOK
    <2>3. FlagsOK' /\ KeptOK' /\ Earned' /\ Counted'
      BY <1>1, <1>2, <2>1, <2>2 DEF Inv, FlagsOK, KeptOK, Earned, Counted
    <2>4. Allowed
      BY <1>1, <1>3 DEF Allowed
    <2> QED
      BY <1>2, <1>3, <2>3, <2>4 DEF Inv
  <1> QED
    BY <1>4, <1>5

LEMMA CmdWifiStep == Inv /\ CmdWifi => Inv' /\ Allowed
  <1> SUFFICES ASSUME Inv, CmdWifi
               PROVE  Inv' /\ Allowed
    OBVIOUS
  <1>1. /\ pc \in {"menu", "menu2"} /\ pc' = "menu" /\ configured' = TRUE /\ mayCount' = TRUE
        /\ Connect(woke, TRUE, autoOff)
        /\ UNCHANGED <<seen, portal, late, autoOff, woke, skip, quiet, sleeps>>
    BY DEF CmdWifi, AtMenu
  <1>2. PICK q \in {FALSE, Draining} : waits' = Append(waits, [back |-> pc, queued |-> q])
    BY DEF CmdWifi
  <1>3. [back |-> pc, queued |-> q] \in Frame
    BY <1>1 DEF Draining, Frame
  <1>4. ThreadOK'
    BY <1>1, <1>2, <1>3 DEF Inv, ThreadOK, Points
  <1>5. woke \in BOOLEAN /\ TRUE \in BOOLEAN
    BY DEF Inv, FlagsOK
  <1>6. /\ radio' \in {"off", "trying", "up", "ap"} /\ localIp' \in Addresses
        /\ staticIp' \in Addresses /\ waited' \in {"never", "recent"}
        /\ KeptOK' /\ Earned' /\ rtc'.fails = rtc.fails
        /\ (staticIp' # staticIp => trial = "good")
    BY <1>1, <1>5, ConnectOK
  <1>7. RadioOK' /\ FlagsOK' /\ Counted'
    BY <1>1, <1>6 DEF Inv, RadioOK, FlagsOK, Counted
  <1>8. Allowed
    BY <1>1, <1>6, NotMore DEF Allowed
  <1> QED
    BY <1>4, <1>6, <1>7, <1>8 DEF Inv

\* A wait that a command, a send or the flush before deep sleep starts.
LEMMA WaitStep ==
  ASSUME Inv, NEW b \in {"menu", "menu2", "asleep"}, NEW q \in BOOLEAN, WaitForWifi(b, q),
         UNCHANGED <<seen, portal, late, autoOff, woke, skip, flash, mayCount>>
  PROVE  Inv' /\ Allowed
  <1>1. UNCHANGED <<seen, portal, late, autoOff, woke, skip, configured, quiet, sleeps, mayCount>>
    BY DEF flash
  <1>2. Inv' /\ rtc'.fails = rtc.fails /\ (staticIp' # staticIp => trial = "good")
    BY <1>1, WaitForWifiOK
  <1> QED
    BY <1>1, <1>2, NotMore DEF Allowed

\* A restart, a wake-up or a reset.
LEMMA RestartStep ==
  ASSUME Inv, LoseRam, rtc' \in {rtc, ClearRtc}, UNCHANGED <<flash, trial>>
  PROVE  Inv' /\ Allowed
  <1>1. /\ ThreadOK' /\ RadioOK' /\ Counted' /\ queue' \subseteq {"restart", "autoconfig"}
        /\ waited' \in {"never", "recent", "old"}
        /\ portal' \in BOOLEAN /\ late' \in BOOLEAN /\ autoOff' \in BOOLEAN /\ woke' \in BOOLEAN /\ skip' \in BOOLEAN
        /\ mayCount' \in BOOLEAN
    BY LoseRamOK
  <1>2. FlagsOK'
    BY <1>1 DEF flash, Inv, FlagsOK
  <1>3. rtc' = rtc \/ (rtc' \in RtcOK /\ rtc'.ip = NoAddr /\ rtc'.fails = 0)
    BY ClearedRtc
  <1>4. KeptOK' /\ Earned'
    BY <1>1, <1>3 DEF Inv, KeptOK, Earned
  <1>5. ~(rtc'.fails > rtc.fails) /\ staticIp' = NoAddr /\ quiet' = quiet
    BY <1>3, NotMore DEF LoseRam, flash
  <1> QED
    BY <1>1, <1>2, <1>4, <1>5 DEF Inv, Allowed

LEMMA Step == Inv /\ [Next]_vars => Inv' /\ Allowed
  <1> SUFFICES ASSUME Inv, [Next]_vars
               PROVE  Inv' /\ Allowed
    OBVIOUS
  <1>1. CASE Boot
    BY <1>1, BootStep
  <1>2. CASE HandleWifi
    BY <1>2, HandleWifiStep
  <1>3. CASE WaitEnds
    BY <1>3, WaitEndsStep
  <1>4. CASE CmdWifi
    BY <1>4, CmdWifiStep
  <1>5. CASE CmdWaits
    <2>1. PICK q \in {FALSE, Draining} : WaitForWifi(pc, q)
      BY <1>5 DEF CmdWaits
    <2>2. q \in BOOLEAN /\ pc \in {"menu", "menu2", "asleep"}
      BY <1>5 DEF CmdWaits, AtMenu, Draining
    <2> QED
      BY <1>5, <2>1, <2>2, WaitStep DEF CmdWaits
  <1>6. CASE SendWaits
    <2>1. FALSE \in BOOLEAN /\ WaitForWifi("menu2", FALSE)
      BY <1>6 DEF SendWaits
    <2> QED
      BY <1>6, <2>1, WaitStep DEF SendWaits
  <1>7. CASE Flush
    <2>1. CASE pc' = "asleep" /\ UNCHANGED <<waits, radio, localIp, ram, flash, rtc, trial, mayCount>>
      <3>1. ThreadOK' /\ Counted'
        BY <2>1 DEF ram, Inv, ThreadOK, Points, Counted
      <3>2. RadioOK' /\ FlagsOK' /\ KeptOK' /\ Earned'
        BY <2>1 DEF ram, flash, Inv, RadioOK, FlagsOK, KeptOK, Earned
      <3>3. Allowed
        BY <2>1, NotMore DEF ram, flash, Allowed
      <3> QED
        BY <3>1, <3>2, <3>3 DEF Inv
    <2>2. CASE /\ WaitForWifi("asleep", FALSE)
               /\ UNCHANGED <<seen, portal, late, autoOff, woke, skip, flash, mayCount>>
      <3>1. FALSE \in BOOLEAN
        OBVIOUS
      <3> QED
        BY <2>2, <3>1, WaitStep
    <2> QED
      BY <1>7, <2>1, <2>2 DEF Flush
  <1>8. CASE RunRestart
    BY <1>8, RestartStep DEF RunRestart, EspRestart
  <1>9. CASE Wake
    BY <1>9, RestartStep DEF Wake
  <1>10. CASE Reset
    BY <1>10, RestartStep DEF Reset
  <1>11. CASE MenuDone
    <2>1. ThreadOK'
      BY <1>11 DEF MenuDone, AtMenu, Inv, ThreadOK, Points
    <2>2. RadioOK' /\ FlagsOK'
      BY <1>11 DEF MenuDone, AtMenu, ram, flash, Inv, RadioOK, FlagsOK, Addresses
    <2>3. KeptOK' /\ Earned' /\ Counted'
      BY <1>11 DEF MenuDone, AtMenu, ram, flash, Inv, KeptOK, Earned, Counted
    <2>4. Allowed
      BY <1>11, NotMore DEF MenuDone, AtMenu, ram, flash, Allowed
    <2> QED
      BY <2>1, <2>2, <2>3, <2>4 DEF Inv
  <1>12. CASE PluginLoop
    <2>1. ThreadOK'
      BY <1>12 DEF PluginLoop, Inv, ThreadOK, Points
    <2>2. RadioOK' /\ FlagsOK'
      <3>1. /\ portal' \in {portal, FALSE} /\ autoOff' \in {autoOff, TRUE} /\ radio' \in {radio, "off"}
            /\ UNCHANGED <<localIp, seen, staticIp, waited, late, woke, skip, flash, mayCount>>
        BY <1>12 DEF PluginLoop
      <3>2. portal' \in BOOLEAN /\ autoOff' \in BOOLEAN
        BY <3>1 DEF Inv, FlagsOK
      <3>3. RadioOK'
        BY <3>1 DEF Inv, RadioOK
      <3> QED
        BY <3>1, <3>2, <3>3 DEF flash, Inv, FlagsOK
    <2>3. KeptOK' /\ Earned' /\ Counted'
      BY <1>12 DEF PluginLoop, ram, flash, Inv, KeptOK, Earned, Counted
    <2>4. Allowed
      BY <1>12, NotMore DEF PluginLoop, ram, flash, Allowed
    <2> QED
      BY <2>1, <2>2, <2>3, <2>4 DEF Inv
  <1>13. CASE NoSend
    <2>1. ThreadOK'
      BY <1>13 DEF NoSend, Inv, ThreadOK, Points
    <2>2. RadioOK' /\ FlagsOK'
      BY <1>13 DEF NoSend, ram, flash, Inv, RadioOK, FlagsOK, Addresses
    <2>3. KeptOK' /\ Earned' /\ Counted'
      BY <1>13 DEF NoSend, ram, flash, Inv, KeptOK, Earned, Counted
    <2>4. Allowed
      BY <1>13, NotMore DEF NoSend, ram, flash, Allowed
    <2> QED
      BY <2>1, <2>2, <2>3, <2>4 DEF Inv
  <1>14. CASE FallAsleep
    <2>1. rtc' = rtc \/ (rtc \in RtcOK /\ rtc' = [rtc EXCEPT !.slept = TRUE])
      BY <1>14 DEF FallAsleep, Inv, KeptOK
    <2>2. rtc' \in RtcOK /\ rtc'.ip = rtc.ip /\ rtc'.fails = rtc.fails
      BY <2>1 DEF RtcOK, Inv, KeptOK
    <2>3. /\ pc' \in {"flush", "wifi"}
          /\ UNCHANGED <<waits, radio, localIp, ram, flash, trial, mayCount>>
      BY <1>14 DEF FallAsleep
    <2>4. ThreadOK' /\ RadioOK' /\ FlagsOK'
      BY <2>3 DEF ram, flash, Inv, ThreadOK, Points, RadioOK, FlagsOK
    <2>5. KeptOK' /\ Earned' /\ Counted'
      BY <2>2, <2>3 DEF ram, Inv, KeptOK, Earned, Counted
    <2>6. Allowed
      BY <2>2, <2>3, NotMore DEF ram, flash, Allowed
    <2> QED
      BY <2>4, <2>5, <2>6 DEF Inv
  <1>15. CASE WaitIsRecent
    <2>1. ThreadOK' /\ pc' # "boot"
      BY <1>15, ReturnOK DEF WaitIsRecent, Inv, ThreadOK
    <2>2. RadioOK' /\ FlagsOK' /\ KeptOK' /\ Earned' /\ Counted'
      BY <1>15, <2>1 DEF WaitIsRecent, ram, flash, Inv, RadioOK, FlagsOK, KeptOK, Earned, Counted
    <2>3. Allowed
      BY <1>15, NotMore DEF WaitIsRecent, ram, flash, Allowed
    <2> QED
      BY <2>1, <2>2, <2>3 DEF Inv
  <1>16. CASE WaitGoesOn
    <2>1. ThreadOK'
      BY <1>16 DEF WaitGoesOn, Inv, ThreadOK, Points
    <2>2. RadioOK' /\ FlagsOK'
      BY <1>16 DEF WaitGoesOn, ram, flash, Inv, RadioOK, FlagsOK, Addresses
    <2>3. KeptOK' /\ Earned' /\ Counted'
      BY <1>16 DEF WaitGoesOn, ram, flash, Inv, KeptOK, Earned, Counted
    <2>4. Allowed
      BY <1>16, NotMore DEF WaitGoesOn, ram, flash, Allowed
    <2> QED
      BY <2>1, <2>2, <2>3, <2>4 DEF Inv
  <1>17. CASE CmdAutoconfig
    <2>1. ThreadOK'
      BY <1>17 DEF CmdAutoconfig, OpenPortal, thread, Inv, ThreadOK, Points
    <2>2. RadioOK' /\ FlagsOK'
      BY <1>17, ZenonT(30) DEF CmdAutoconfig, OpenPortal, thread, ram, flash, Inv, RadioOK, FlagsOK, Addresses
    <2>3. KeptOK' /\ Earned' /\ Counted'
      BY <1>17 DEF CmdAutoconfig, OpenPortal, thread, ram, flash, Inv, KeptOK, Earned, Counted
    <2>4. Allowed
      BY <1>17, NotMore DEF CmdAutoconfig, OpenPortal, thread, ram, flash, Allowed
    <2> QED
      BY <2>1, <2>2, <2>3, <2>4 DEF Inv
  <1>18. CASE CmdScan
    <2>1. ThreadOK'
      BY <1>18 DEF CmdScan, thread, Inv, ThreadOK, Points
    <2>2. RadioOK' /\ FlagsOK'
      BY <1>18 DEF CmdScan, thread, ram, flash, Inv, RadioOK, FlagsOK, Addresses
    <2>3. KeptOK' /\ Earned' /\ Counted'
      BY <1>18 DEF CmdScan, thread, ram, flash, Inv, KeptOK, Earned, Counted
    <2>4. Allowed
      BY <1>18, NotMore DEF CmdScan, thread, ram, flash, Allowed
    <2> QED
      BY <2>1, <2>2, <2>3, <2>4 DEF Inv
  <1>19. CASE Joins
    <2>1. ThreadOK'
      BY <1>19 DEF Joins, thread, Inv, ThreadOK, Points
    <2>2. RadioOK' /\ FlagsOK'
      BY <1>19 DEF Joins, thread, ram, flash, Inv, RadioOK, FlagsOK, Addresses
    <2>3. KeptOK' /\ Earned' /\ Counted'
      BY <1>19 DEF Joins, thread, ram, flash, Inv, KeptOK, Earned, Counted
    <2>4. Allowed
      BY <1>19, NotMore DEF Joins, thread, ram, flash, Allowed
    <2> QED
      BY <2>1, <2>2, <2>3, <2>4 DEF Inv
  <1>20. CASE Drops
    <2>1. ThreadOK'
      BY <1>20 DEF Drops, thread, Inv, ThreadOK, Points
    <2>2. RadioOK' /\ FlagsOK'
      BY <1>20 DEF Drops, thread, ram, flash, Inv, RadioOK, FlagsOK, Addresses
    <2>3. KeptOK' /\ Earned' /\ Counted'
      BY <1>20 DEF Drops, thread, ram, flash, Inv, KeptOK, Earned, Counted
    <2>4. Allowed
      BY <1>20, NotMore DEF Drops, thread, ram, flash, Allowed
    <2> QED
      BY <2>1, <2>2, <2>3, <2>4 DEF Inv
  <1>21. CASE MinutePasses
    <2>1. ThreadOK'
      BY <1>21 DEF MinutePasses, thread, Inv, ThreadOK, Points
    <2>2. RadioOK' /\ FlagsOK'
      BY <1>21 DEF MinutePasses, thread, ram, flash, Inv, RadioOK, FlagsOK, Addresses
    <2>3. KeptOK' /\ Earned' /\ Counted'
      BY <1>21 DEF MinutePasses, thread, ram, flash, Inv, KeptOK, Earned, Counted
    <2>4. Allowed
      BY <1>21, NotMore DEF MinutePasses, thread, ram, flash, Allowed
    <2> QED
      BY <2>1, <2>2, <2>3, <2>4 DEF Inv
  <1>22. CASE FiveMinutes
    <2>1. ThreadOK'
      BY <1>22 DEF FiveMinutes, thread, Inv, ThreadOK, Points
    <2>2. RadioOK' /\ FlagsOK'
      BY <1>22 DEF FiveMinutes, thread, ram, flash, Inv, RadioOK, FlagsOK, Addresses
    <2>3. KeptOK' /\ Earned' /\ Counted'
      BY <1>22 DEF FiveMinutes, thread, ram, flash, Inv, KeptOK, Earned, Counted
    <2>4. Allowed
      BY <1>22, NotMore DEF FiveMinutes, thread, ram, flash, Allowed
    <2> QED
      BY <2>1, <2>2, <2>3, <2>4 DEF Inv
  <1>23. CASE UNCHANGED vars
    <2>1. ThreadOK'
      BY <1>23 DEF vars, thread, Inv, ThreadOK, Points
    <2>2. RadioOK' /\ FlagsOK'
      BY <1>23 DEF vars, thread, ram, flash, Inv, RadioOK, FlagsOK, Addresses
    <2>3. KeptOK' /\ Earned' /\ Counted'
      BY <1>23 DEF vars, thread, ram, flash, Inv, KeptOK, Earned, Counted
    <2>4. Allowed
      BY <1>23, NotMore DEF vars, thread, ram, flash, Allowed
    <2> QED
      BY <2>1, <2>2, <2>3, <2>4 DEF Inv
  <1>24. CASE CmdStop
    <2>1. ThreadOK'
      BY <1>24 DEF CmdStop, thread, Inv, ThreadOK, Points
    <2>2. RadioOK' /\ FlagsOK'
      BY <1>24 DEF CmdStop, thread, ram, flash, Inv, RadioOK, FlagsOK, Addresses
    <2>3. KeptOK' /\ Earned' /\ Counted'
      BY <1>24 DEF CmdStop, thread, ram, flash, Inv, KeptOK, Earned, Counted
    <2>4. Allowed
      BY <1>24, NotMore DEF CmdStop, thread, ram, flash, Allowed
    <2> QED
      BY <2>1, <2>2, <2>3, <2>4 DEF Inv
  <1> QED
    BY <1>1, <1>2, <1>3, <1>4, <1>5, <1>6, <1>7, <1>8, <1>9, <1>10, <1>11, <1>12, <1>13, <1>14,
       <1>15, <1>16, <1>17, <1>18, <1>19, <1>20, <1>21, <1>22, <1>23, <1>24
    DEF Next, Program, Commands, Outside

\* So it holds throughout every behaviour.
LEMMA InvAlways == Spec => []Inv
  <1>1. ASSUME Init
        PROVE  Inv
    <2>1. ThreadOK /\ RadioOK
      BY <1>1 DEF Init, ThreadOK, RadioOK, Points, Addresses
    <2>2. FlagsOK
      BY <1>1 DEF Init, FlagsOK
    <2>3. KeptOK /\ Earned /\ Counted
      BY <1>1, ClearedRtc DEF Init, KeptOK, Earned, Counted
    <2> QED
      BY <2>1, <2>2, <2>3 DEF Inv
  <1> QED
    BY <1>1, Step, PTL DEF Spec

\* Type correctness; the count of failures stays within what handleFailedConnect
\* compares it with.
THEOREM TypeCorrect == Spec => []TypeOK
  <1>1. Inv => TypeOK
    BY DEF Inv, ThreadOK, RadioOK, FlagsOK, KeptOK, TypeOK, Points, RtcOK, Addresses
  <1> QED
    BY <1>1, InvAlways, PTL

\* wifiConnectMulti asks for an address only if the device has had it since it
\* was last asked for, for any interleaving of waits, sleeps and resets.
THEOREM AddressEarned == Spec => ReuseIsEarned
  <1>1. Inv /\ [Next]_vars =>
          [(staticIp # staticIp' /\ staticIp' # NoAddr) => trial = "good"]_vars
    BY Step DEF Allowed
  <1> QED
    BY <1>1, InvAlways, PTL DEF Spec, ReuseIsEarned

\* handleFailedConnect counts once for a minute without a network, however waits
\* nest.
THEOREM CountedOnce == Spec => CountsOnce
  <1>1. Inv /\ [Next]_vars =>
          [rtc'.fails > rtc.fails \/ (quiet' /\ ~quiet) => mayCount]_vars
    BY Step DEF Allowed
  <1> QED
    BY <1>1, InvAlways, PTL DEF Spec, CountsOnce
=============================================================================
