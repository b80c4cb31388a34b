-------------------------- MODULE WifiConnection --------------------------
(***************************************************************************)
(* WifiStuff: connecting, waiting for the network, the configuration       *)
(* portal, the address kept in RTC memory for the next wake-up, and the    *)
(* count of failed waits that restarts the device.  A wait runs the menu,  *)
(* where a command may wait again: waits is the stack of the waits in      *)
(* progress.  The property wifi.staticip is absent; pwr's hourly restart   *)
(* is the business of PowerCycle.                                          *)
(***************************************************************************)
EXTENDS Naturals, Sequences, SequencesExt

CONSTANTS
  Addr,      (* addresses the network hands out                            *)
  NoAddr,    (* 0, no address                                              *)
  FailLimit, (* 5: failed waits beyond which the device restarts           *)
  MaxNest    (* bound: waits in progress                                   *)

ASSUME ConstantsOK == NoAddr \notin Addr /\ FailLimit \in Nat /\ MaxNest \in Nat

VARIABLES
  pc,         (* where loop() is, or the innermost wait                     *)
  waits,      (* waits in progress: where each returns, and if it drains no *)
              (* commands because it is inside a queued one                 *)
  radio,      (* off, trying, up, or access point                           *)
  localIp,    (* the address while up                                       *)
  seen,       (* ip and wifiState: the address handleWifi last saw up       *)
  staticIp,   (* the address to ask for                                     *)
  waited,     (* wifiAlreadyWaited: never, recent (a minute), old           *)
  portal,     (* wifiManager # NULL                                         *)
  late,       (* five minutes since boot                                    *)
  autoOff,    (* autoCfgDisable                                             *)
  woke,       (* isWokeFromDeepSleep()                                      *)
  skip,       (* SKIP_LOOP                                                  *)
  queue,      (* the queued commands that matter here                       *)
  configured, (* flash: there is an SSID                                    *)
  quiet,      (* flash: pwr.quiet.start                                     *)
  sleeps,     (* whether the device is in power-safe mode                   *)
  rtc,        (* RTC memory: kept address, failed waits, inDeepSleep        *)
  trial,      (* history: whether there was a connection since an address   *)
              (* was last taken from RTC memory                             *)
  mayCount    (* history: a minute, a boot or new credentials since the     *)
              (* last counted failure                                       *)

thread == <<pc, waits>>
ram    == <<seen, staticIp, waited, portal, late, autoOff, woke, skip, queue>>
flash  == <<configured, quiet, sleeps>>
vars   == <<thread, radio, localIp, ram, flash, rtc, trial, mayCount>>

Frame == [back : {"menu", "menu2", "asleep"}, queued : BOOLEAN]
ClearRtc == [ip |-> NoAddr, fails |-> 0, slept |-> FALSE]

-----------------------------------------------------------------------------
\* Boot.

LoseRam ==
  /\ pc' = "boot" /\ waits' = <<>>
  /\ radio' = "off" /\ localIp' = NoAddr /\ seen' = NoAddr /\ staticIp' = NoAddr
  /\ waited' = "never" /\ portal' = FALSE /\ late' = FALSE
  /\ autoOff' = FALSE /\ woke' = FALSE /\ skip' = FALSE /\ queue' = {}
  /\ mayCount' = TRUE

KeepsAddress(w) == rtc' = rtc  \* mutant

\* The part of wifiConnectMulti that touches RTC memory: load and clear.
TakeAddress(w) == rtc' = IF w THEN [rtc EXCEPT !.ip = NoAddr] ELSE rtc

\* wifiConnectMulti, called with isWokeFromDeepSleep() = w, an SSID or none.
Connect(w, ssid, off) ==
  LET load == w /\ rtc.ip # NoAddr IN
  /\ staticIp' = IF load THEN rtc.ip ELSE staticIp
  /\ trial' = IF load THEN "tried" ELSE trial
  /\ TakeAddress(w)
  /\ waited' = IF ssid THEN "never" ELSE "recent"
  /\ radio' = IF ssid THEN "trying" ELSE radio
  /\ queue' = IF ~ssid /\ ~w /\ ~off THEN queue \cup {"autoconfig"} ELSE queue
  /\ localIp' = IF ssid THEN NoAddr ELSE localIp

\* setup(): setupInt consumes the quiet start; a boot that will not send
\* leaves WiFi off.
Boot ==
  /\ pc = "boot"
  /\ pc' = "wifi"
  /\ woke' = (rtc.slept \/ quiet)
  /\ quiet' = FALSE
  /\ autoOff' \in BOOLEAN
  /\ \/ Connect(woke', configured, autoOff')
     \/ UNCHANGED <<staticIp, trial, rtc, waited, radio, queue, localIp>>
  /\ UNCHANGED <<waits, seen, portal, late, skip, configured, sleeps, mayCount>>

-----------------------------------------------------------------------------
\* handleWifi: serve the portal, open it when offline, note a connection.

OpenPortal ==
  /\ ~portal
  /\ portal' = TRUE /\ radio' = "ap" /\ localIp' = NoAddr

PortalUnwatched == FALSE  \* mutant

\* WifiStuffClass::loop: five minutes after boot.
Overdue == portal /\ late

AfterHandleWifi == pc' = IF waits = <<>> THEN "menu" ELSE "check"

\* loopConfigPortal calls back cbOnSaveConfig, which stores the credentials and
\* deletes the portal; the rest of handleWifi then finds none and opens another.
MayOpen == radio # "up" /\ waited # "never" /\ ~woke /\ ~autoOff

PortalSaved ==
  /\ pc = "wifi" /\ portal
  /\ configured' = TRUE
  /\ queue' = queue \cup {"restart"}
  /\ portal' = (waited # "never" /\ ~woke /\ ~autoOff)
  /\ radio' = IF portal' THEN "ap" ELSE "off"
  /\ localIp' = NoAddr /\ seen' = NoAddr
  /\ AfterHandleWifi
  /\ UNCHANGED <<waits, staticIp, waited, late, autoOff, woke, skip, quiet, sleeps, rtc, trial, mayCount>>

AutoPortal ==
  /\ pc = "wifi" /\ MayOpen
  /\ OpenPortal
  /\ seen' = NoAddr
  /\ AfterHandleWifi
  /\ UNCHANGED <<waits, staticIp, waited, late, autoOff, woke, skip, queue, flash, rtc, trial, mayCount>>

\* A connection ends the portal (stopAutoWifiConfig) and keeps the address.
GotIp ==
  /\ pc = "wifi" /\ radio = "up" /\ seen # localIp
  /\ seen' = localIp
  /\ portal' = FALSE
  /\ queue' = IF portal THEN queue \cup {"restart"} ELSE queue
  /\ rtc' = [rtc EXCEPT !.ip = localIp]
  /\ trial' = "good"
  /\ autoOff' = TRUE
  /\ AfterHandleWifi
  /\ UNCHANGED <<waits, radio, localIp, staticIp, waited, late, woke, skip, flash, mayCount>>

NothingNew ==
  /\ pc = "wifi"
  /\ ~(MayOpen /\ ~portal)
  /\ radio = "up" => seen = localIp
  /\ seen' = IF radio = "up" THEN seen ELSE NoAddr
  /\ AfterHandleWifi
  /\ UNCHANGED <<waits, radio, localIp, staticIp, waited, portal, late, autoOff, woke, skip, queue,
                 flash, rtc, trial, mayCount>>

-----------------------------------------------------------------------------
\* waitForWifi.

\* Entered unless the answer is known; after more than a minute it connects anew.
WaitForWifi(back, inQueued) ==
  /\ radio # "up" /\ waited # "recent"
  /\ Len(waits) < MaxNest
  /\ waits' = Append(waits, [back |-> back, queued |-> inQueued])
  /\ pc' = "menu"
  /\ IF waited = "old" THEN Connect(woke, configured, autoOff)
     ELSE UNCHANGED <<staticIp, trial, rtc, waited, radio, queue, localIp>>

Return == pc' = Last(waits).back /\ waits' = Front(waits)

\* i % 10 == 0, or the loop is over: somebody else has waited meanwhile.
WaitIsRecent ==
  /\ pc = "check" /\ waited = "recent"
  /\ Return
  /\ UNCHANGED <<radio, localIp, ram, flash, rtc, trial, mayCount>>

WaitGoesOn ==
  /\ pc = "check" /\ radio # "up"
  /\ pc' = "menu"
  /\ UNCHANGED <<waits, radio, localIp, ram, flash, rtc, trial, mayCount>>

MarksQuietOnly ==  \* mutant
  IF rtc.fails > FailLimit
  THEN quiet' = TRUE /\ woke' = TRUE /\ UNCHANGED <<rtc, queue>>
  ELSE rtc' = [rtc EXCEPT !.fails = @ + 1] /\ UNCHANGED <<quiet, woke, queue>>

CountsOn ==  \* mutant
  /\ rtc' = [rtc EXCEPT !.fails = @ + 1]
  /\ IF rtc.fails > FailLimit
     THEN quiet' = TRUE /\ woke' = TRUE /\ queue' = queue \cup {"restart"}
     ELSE UNCHANGED <<quiet, woke, queue>>

\* quietRestart stores pwr.quiet.start, which putProperty reports at once: until
\* the restart, too, the device is one that woke from deep sleep, and connects
\* like one.
HandleFailedConnect ==
  IF rtc.fails > FailLimit
  THEN /\ quiet' = TRUE /\ woke' = TRUE
       /\ queue' = queue \cup {"restart"}
       /\ UNCHANGED rtc
  ELSE /\ rtc' = [rtc EXCEPT !.fails = @ + 1]
       /\ UNCHANGED <<quiet, woke, queue>>

Unwaited == TRUE  \* mutant

\* The third look at wifiAlreadyWaited, after the loop.
StillUnknown == waited # "recent"

\* Connected, timed out, or the SSID is not there.
WaitEnds ==
  /\ pc = "check" /\ StillUnknown
  /\ Return
  /\ waited' = "recent"
  /\ IF radio = "up"
     THEN UNCHANGED <<rtc, quiet, woke, queue, mayCount>>
     ELSE HandleFailedConnect /\ mayCount' = FALSE
  /\ UNCHANGED <<radio, localIp, seen, staticIp, portal, late, autoOff, skip, configured, sleeps,
                 trial>>

-----------------------------------------------------------------------------
\* The menu, at its two places in loop() and inside a wait.

AtMenu == pc \in {"menu", "menu2"}
Draining == \A i \in 1 .. Len(waits) : ~waits[i].queued

EspRestart ==
  /\ LoseRam
  /\ rtc' = ClearRtc
  /\ UNCHANGED <<flash, trial>>

RunRestart == AtMenu /\ Draining /\ "restart" \in queue /\ EspRestart

\* startAutoWifiConfig, from the queue or from the user.
CmdAutoconfig ==
  /\ AtMenu
  /\ Draining \/ "autoconfig" \notin queue
  /\ IF portal THEN UNCHANGED <<portal, radio, localIp>> ELSE OpenPortal
  /\ queue' = queue \ {"autoconfig"}
  /\ UNCHANGED <<thread, seen, staticIp, waited, late, autoOff, woke, skip, flash, rtc, trial, mayCount>>

\* connectToWifi: store the credentials, connect, wait.
CmdWifi ==
  /\ AtMenu
  /\ Len(waits) < MaxNest
  /\ \E q \in {FALSE, Draining} : waits' = Append(waits, [back |-> pc, queued |-> q])
  /\ pc' = "menu"
  /\ configured' = TRUE
  /\ UNCHANGED autoOff
  /\ Connect(woke, TRUE, autoOff)
  /\ mayCount' = TRUE
  /\ UNCHANGED <<seen, portal, late, woke, skip, quiet, sleeps>>

\* wifiScanNetworks leaves the radio disconnected.
CmdScan ==
  /\ AtMenu
  /\ radio' = "off" /\ localIp' = NoAddr
  /\ UNCHANGED <<thread, ram, flash, rtc, trial, mayCount>>

\* Any other command that needs the network, or the flush after the commands.
CmdWaits ==
  /\ AtMenu
  /\ \E q \in {FALSE, Draining} : WaitForWifi(pc, q)
  /\ UNCHANGED <<seen, portal, late, autoOff, woke, skip, flash, mayCount>>

\* sss: from now on loop() returns after its first menu.
CmdStop ==
  /\ AtMenu
  /\ skip' = TRUE
  /\ UNCHANGED <<thread, radio, localIp, seen, staticIp, waited, portal, late, autoOff, woke, queue,
                 flash, rtc, trial, mayCount>>

\* The line is empty and the queue drained, if this menu may drain it.
MenuDone ==
  /\ AtMenu
  /\ Draining => queue = {}
  /\ pc' = CASE waits # <<>> \/ (pc = "menu" /\ skip) -> "wifi"
             [] waits = <<>> /\ pc = "menu" /\ ~skip  -> "plugins"
             [] waits = <<>> /\ pc = "menu2"           -> "power"
  /\ UNCHANGED <<waits, radio, localIp, ram, flash, rtc, trial, mayCount>>

-----------------------------------------------------------------------------
\* loopPlugins and loopPowerManager.

PluginLoop ==
  /\ pc = "plugins"
  /\ pc' = "send"
  /\ IF Overdue
     THEN /\ portal' = FALSE /\ autoOff' = TRUE
          /\ radio' = IF radio = "ap" THEN "off" ELSE radio
     ELSE UNCHANGED <<portal, autoOff, radio>>
  /\ UNCHANGED <<waits, localIp, seen, staticIp, waited, late, woke, skip, queue, flash, rtc, trial, mayCount>>

\* conditionalSend and the logger, called from the plugins, wait for the network.
SendWaits ==
  /\ pc = "send"
  /\ WaitForWifi("menu2", FALSE)
  /\ UNCHANGED <<seen, portal, late, autoOff, woke, skip, flash, mayCount>>

NoSend ==
  /\ pc = "send"
  /\ pc' = "menu2"
  /\ UNCHANGED <<waits, radio, localIp, ram, flash, rtc, trial, mayCount>>

\* loopPowerManager sets inDeepSleep, flushes the log, which may wait, and sleeps.
FallAsleep ==
  /\ pc = "power"
  /\ IF sleeps
     THEN pc' = "flush" /\ rtc' = [rtc EXCEPT !.slept = TRUE]
     ELSE pc' = "wifi" /\ UNCHANGED rtc
  /\ UNCHANGED <<waits, radio, localIp, ram, flash, trial, mayCount>>

Flush ==
  /\ pc = "flush"
  /\ \/ /\ WaitForWifi("asleep", FALSE)
        /\ UNCHANGED <<seen, portal, late, autoOff, woke, skip, flash, mayCount>>
     \/ /\ pc' = "asleep"
        /\ UNCHANGED <<waits, radio, localIp, ram, flash, rtc, trial, mayCount>>

-----------------------------------------------------------------------------
\* What comes from outside.

Wake == pc = "asleep" /\ LoseRam /\ UNCHANGED <<flash, rtc, trial>>

\* The reset pin and an exception keep RTC memory, a loss of power does not.
Reset == LoseRam /\ rtc' \in {rtc, ClearRtc} /\ UNCHANGED <<flash, trial>>

Joins ==
  /\ radio = "trying"
  /\ radio' = "up"
  /\ localIp' \in IF staticIp = NoAddr THEN Addr ELSE {staticIp}
  /\ UNCHANGED <<thread, ram, flash, rtc, trial, mayCount>>

Drops ==
  /\ radio = "up"
  /\ radio' = "trying" /\ localIp' = NoAddr
  /\ UNCHANGED <<thread, ram, flash, rtc, trial, mayCount>>

MinutePasses ==
  /\ waited = "recent"
  /\ waited' = "old" /\ mayCount' = TRUE
  /\ UNCHANGED <<thread, radio, localIp, seen, staticIp, portal, late, autoOff, woke, skip, queue,
                 flash, rtc, trial>>

FiveMinutes ==
  /\ ~late /\ pc # "boot"
  /\ late' = TRUE
  /\ UNCHANGED <<thread, radio, localIp, seen, staticIp, waited, portal, autoOff, woke, skip, queue,
                 flash, rtc, trial, mayCount>>

Init ==
  /\ pc = "boot" /\ waits = <<>>
  /\ radio = "off" /\ localIp = NoAddr /\ seen = NoAddr /\ staticIp = NoAddr
  /\ waited = "never" /\ portal = FALSE /\ late = FALSE
  /\ autoOff = FALSE /\ woke = FALSE /\ skip = FALSE /\ queue = {}
  /\ configured \in BOOLEAN /\ quiet = FALSE /\ sleeps \in BOOLEAN
  /\ rtc = ClearRtc
  /\ trial = "good" /\ mayCount = TRUE

HandleWifi == PortalSaved \/ AutoPortal \/ GotIp \/ NothingNew
Program ==
  \/ Boot \/ HandleWifi \/ MenuDone \/ RunRestart \/ PluginLoop \/ NoSend
  \/ FallAsleep \/ Flush \/ Wake \/ WaitIsRecent \/ WaitGoesOn \/ WaitEnds
Commands == CmdAutoconfig \/ CmdWifi \/ CmdScan \/ CmdWaits \/ CmdStop
Outside == Reset \/ Joins \/ Drops \/ MinutePasses \/ FiveMinutes

Next == Program \/ Commands \/ SendWaits \/ Outside

\* The thread runs and the minutes pass; waits end; the device keeps trying to
\* send; a queued autoconfig is executed.
Fairness ==
  /\ WF_vars(Program) /\ SF_vars(WaitIsRecent \/ WaitEnds) /\ SF_vars(SendWaits)
  /\ WF_vars(MinutePasses) /\ WF_vars(FiveMinutes)
  /\ WF_vars(CmdAutoconfig /\ "autoconfig" \in queue)

Spec == Init /\ [][Next]_vars
FairSpec == Spec /\ Fairness

-----------------------------------------------------------------------------
\* Properties.

\* Types of the connection, the portal and RTC memory; in particular the count
\* of failures never passes what handleFailedConnect compares it with.
TypeOK ==
  /\ pc \in {"boot", "wifi", "check", "menu", "plugins", "send", "menu2", "power", "flush", "asleep"}
  /\ waits \in Seq(Frame)
  /\ radio \in {"off", "trying", "up", "ap"}
  /\ {localIp, seen, staticIp} \subseteq Addr \cup {NoAddr}
  /\ waited \in {"never", "recent", "old"}
  /\ {portal, late, autoOff, woke, skip, configured, quiet, sleeps, mayCount} \subseteq BOOLEAN
  /\ queue \subseteq {"restart", "autoconfig"}
  /\ rtc \in [ip : Addr \cup {NoAddr}, fails : 0 .. FailLimit + 1, slept : BOOLEAN]
  /\ trial \in {"good", "tried"}

\* An address is taken from RTC memory only if the device connected since the
\* last time one was taken, whatever resets, sleeps and failed waits lie
\* between: an address that did not work is not tried again at the next boot.
ReuseIsEarned ==
  [][(staticIp # staticIp' /\ staticIp' # NoAddr) => trial = "good"]_vars

\* Waits nest and share wifiAlreadyWaited, so that one time without a network
\* counts as one failure: between two counts lies a minute, a boot or a wifi
\* command with new credentials.
CountsOnce ==
  [][rtc'.fails > rtc.fails \/ (quiet' /\ ~quiet) => mayCount]_vars

UserCommand ==
  (CmdAutoconfig /\ "autoconfig" \notin queue) \/ CmdWifi \/ CmdScan \/ CmdWaits
Calm == <>[][~(Reset \/ UserCommand)]_vars

\* The plugins run: sss has not been given since the last boot.
PluginsRun == <>[]~skip

\* A portal that nobody uses is closed (loop() five minutes after boot), also
\* when it was opened from inside a wait; unless sss has stopped the plugins,
\* whose loop looks at the time: then it stays open.
PortalCloses == Calm /\ PluginsRun => (portal ~> ~portal)

\* Without a network the count goes up until the device restarts, which starts
\* it again: handleFailedConnect gives up again and again, asleep or awake. After
\* sss nothing is sent, and nothing waits for the network.
OfflineRestarts ==
  Calm /\ PluginsRun /\ <>[](configured /\ radio # "up") => []<>(rtc.fails = 0) /\ []<>(rtc.fails > 0)
=============================================================================
