# Verification of the vESPrino firmware

TLA+ specifications of the firmware in `src/src` (an ESP8266 that reads sensors
and sends their values), the TLC runs that check them and the TLAPS proofs of
their most important properties.

    tlc -workers 2 -config MCPropertyStore.cfg MCPropertyStore
    tlapm PropertyStore_proofs.tla

## 1. The system

One thread runs everything. `setup()` mounts the flash, tells all plugins the
stored properties, decides whether this iteration sends, and lets every plugin
register its commands; `loop()` runs the menu, the plugins, sensors and
destinations, the menu again and the power manager, until the device sleeps or
is restarted. There are no threads and no interrupt handlers with state.
What makes it concurrent all the same is `waitForWifi()`: whoever needs the
network calls it, and it runs `MenuHandler::loop()` while it waits, so that a
command is executed in the middle of another function, at any depth. And the
device may lose power, be reset or be put to sleep between any two steps.

| Component | State | Operations | Interacts with | Hard behaviour | What makes it correct |
|---|---|---|---|---|---|
| PropertyList | `/vs_cfg.txt`, `/vs_cfg.tmp`, mount state, `initialized` | put, put array, remove array, read, list, format, factory wipe | tells all plugins (`reportProperty`); used by all | reset inside a rewrite; mount and unmount that do not nest; copies in the plugins | a durable map; one line per key; plugins agree with the store |
| CommonCommands | `SKIP_LOOP` | factory reset, restart, sss | PropertyList, RTC memory | reset in the middle of a factory reset | calibration survives |
| MenuHandler | queue of commands, executing flag, scheduling flag | schedule, execute, drain, list, serial input | called from `loop`, `setupPlugins`, `waitForWifi`; calls every handler | re-entry; disabled scheduling | each command once, in order, one at a time; none forgotten |
| Button | mode, last function | press, hold, release, time-out | switches scheduling off and on; fires events | quick click; a restart while held | always gives scheduling back |
| PowerManager | `isLowPower`, time-out, timer, duration | nop, deepsleep, time-out, sleep, quiet restart | RTC memory, PropertyList, menu | state that outlives a reset; a menu loop inside the flush | sleeps when it should and only then; keeps sending |
| DestinationManager | iteration counter (RTC), send timer | decide, send, wsi | PowerManager, sensors, destinations | byte overflow; interval changed half-way | sends exactly on schedule |
| RTCMemStore | a record with a CRC in RTC memory | get, set, clear | all of the above | kept by sleep, pin and exception; lost with power | either as written or initial |
| TimerManager, Timer | list of timers; clock in RTC memory | start, stop, tick; time of day | everyone with a timer | time wrap-around | fires once per interval |
| LoggingPrinter | buffer and its length | write, flush | every component logs; flush waits for WiFi | flush nested in flush | in bounds, never stuck, nothing twice |
| WifiStuff | connection, last wait, portal, kept address | connect, wait, configure | runs the menu; restarts | nested waits; portal deleted under itself | one wait per minute; gives up in the end |
| WebSocketServer, WebServer | server object, `stopAfterMin` | start, stop, serve | menu, logger | object deleted before a wait | no use after delete |
| MQTTDest, Dweet_io | client, listening; last dweet | connect, publish, receive | menu, WiFi, RTC memory | retained or stored command executed again | a command runs once |
| GPIO, LED, sensors, other destinations | pins, colours, frames | read, write | DestinationManager | boundary values | mapping in range |

The hazards of the code, each at its line and with the properties that cover
it, are listed in `PROJECT.json`.

## 2. The modules

| Module | Role |
|---|---|
| `PropertyMap` | abstract: a persistent map, updated as a whole, that may be lost only while it is at risk |
| `PropertyText` | the names, values and lines of the configuration file: trimming, matching by prefix |
| `PropertyStore` | PropertyList, `factoryReset`, flash, boot; implements `PropertyMap` |
| `PropertyStore_proofs` | its theorems |
| `CommandQueue` | abstract: commands run one at a time, in order, once; only a restart drops them |
| `CommandLoop` | the sketch, MenuHandler, `waitForWifi` and Button as a call stack; implements `CommandQueue` |
| `CommandLoop_proofs` | its theorems |
| `PowerCycle` | PowerManager, DestinationManager, RTC memory, sleep and reset |
| `PowerCycle_proofs` | its theorems, and those of `LogBuffer` |
| `LogBuffer` | LoggingPrinter |
| `WifiConnection` | WifiStuff: connecting, nested waits, the portal, the kept address, the count of failures |
| `WifiConnection_proofs` | its theorems |
| `MqttClient` | MQTTDest: the client object, the subscription, retained commands |
| `MqttClient_proofs` | its theorems |
| `RemoteServers` | WebSocketServer and WebServer: the life of the two server objects |
| `RemoteServers_proofs` | its theorems |
| `Dweets` | Dweet_io: commands by dweet, remembered in RTC memory |
| `Dweets_proofs` | its theorems |
| `Clock` | TimerManager: the time of day kept in RTC memory, `isTimeInPeriod` |
| `Clock_proofs` | its theorems |
| `MC...` | what TLC runs; the values of the constants are in the `.cfg` |

### PropertyStore

State: the two files as sets of lines, whether the file system mounts, `mounted` and
`initialized`, where the running operation is (`pc`), its parameters (`op`) and the
lines it has still to copy (`unread`), the calibration a factory reset holds in RAM
(`saved`, `restore`), and `live`, the value of each property as the plugins last
heard it. `shadowed`, `strays` and `before` are history variables: the names whose
value in RAM was deliberately set past the store, the names that were also put with
blanks at their ends or an `=` in them, and what a factory reset has to keep.

A put is `Put` (report, read, compare, open), one `CopyLine` for each line,
`WriteNewLine`, `RemoveOld`, `RenameTmp`: one step for each operation on the
flash, so that `Reset` can come between any two. The order of lines is not
modelled: where several begin with the name that is looked for, any of them may be
the first (`Reads`) or the last (`Told`), of which the code takes the one or the other.

Nothing in the code keeps a name from having blanks at its ends or an `=` in it, and
lines are copied and read trimmed and matched by prefix. `PropertyText` has these
conversions as they are: a name is a word, whether a blank stands before it or before its
`=`, and what follows an `=` in it; `key=` is a prefix of a line of `key=b`
(`StartsWith`), and ` key` is never found again once its line was trimmed (`Trim`). A
put tells the plugins the value as it came, a boot the trimmed one (`TrimValue`). What
the properties claim of a name therefore ends when it was put in one of these other
forms (`strays`), until the next wipe. A word is never a part of another word here; what
remains of `readArray` is membership in `ArrayKeys`. That a file
system whose formatting is cut short does not mount is an assumption about SPIFFS,
as is that a single remove or rename is atomic. The flash never fills up.

### CommandLoop

State: `stack`, the activations of functions, each with the program point it
continues at and, for a queued command, its number; `pendingCommands` (`queue`),
`currentlyExecutingCommand`, `schedulingEnabled`, `SKIP_LOOP`, the state of the
button and whether WiFi was waited for in the last minute. A step is what the
top frame does until it calls or returns. A command is of one of five kinds by
what it does to control: `plain` nothing, `wait` it may run `waitForWifi`
and then end, restart or stop the loop, `list` it schedules more, `restart`, and `sss`.
A wait runs the menu on every turn of its polling, but looks whether another wait has given up on every
tenth only, so that a turn may go by without it. The flush of the log that ends the drain loop, the button and the power
manager can wait for WiFi too. `handleCommand` reached through an exclamation
mark gives a `direct` frame. Reading `colors[-1]` in `Button.cpp` is undefined:
`QuickClickCrash` is the outcome that resets the chip, `ButtonReleased` the one that does not.

### PowerCycle

State: RTC memory (the iteration counter and `inDeepSleep`), the properties
that matter here, the fields of the power manager and the destination manager,
the queue reduced to "a nop is queued" and "a restart is queued", and whether
the network is up. Without a network `sendNow` gives up like a sending iteration, which may queue the quiet
restart. Where the menu may run (`MenuPoint`) any command may come in.
Deep sleep and restart go through `Begin`, which resets RAM; `ClearRtc` tells a
loss of power and `espRestart` from the reset pin, an exception and a wake-up.
Real time is left out: a timer that runs may fire at any visit of its `loop`.
`period` and `gap` are history: the interval, in iterations, that applied when the last iteration
started, and how many iterations have started since one that sent.
`pwr.timeoutint` and `pwr.usedelay` take any value but do not change within a behaviour.

### LogBuffer

State: the buffered characters as the numbers of their writing, the flushes in
progress and where each one waits, the two destinations. Any number of
characters is written and any flush started while another waits.

### WifiConnection

State: where `loop()` is, the stack of the waits in progress, the radio, the
address in use and the one to ask for (`staticIp`), `wifiAlreadyWaited`, the portal,
the flash (whether an SSID is stored, `pwr.quiet.start`), the words of RTC memory (the
kept address, the number of failed waits, whether the device slept) and two
history variables. Every step of `setup()` and `loop()` that concerns the
network is an action; who waits is told apart only by where the wait returns
to. `waitForWifi` runs the menu, in which any command that concerns the network
may be executed and may wait again. The flush before the deep sleep waits too, so
that a restart that is queued during it is lost with the RAM. After new
credentials were stored from the portal, `handleWifi` may open another portal before
the restart that `saveConfig` queued; both are in the model. A failed wait beyond the limit stores
`pwr.quiet.start`, of which the power manager is told at once, so that from there on,
before the restart, the device connects as if it had woken from deep sleep (`woke`). `sss` sets `skip`,
after which the loop comes round without the plugins, `WifiStuff`'s among them. The property
`wifi.staticip` is taken to be absent, and the ESP8266 connecting
by itself is `Joins`, external.

### MqttClient

State: the one client object that all activations share (`client`, `conn`,
`listening`), the stack of activations (`setup`, the `process` of the
destination manager, `call_mqtt`, the clearing of a command), each with where it is, the
command queue, and the broker: the retained message and what is on its way. A
wait, and a flush while there is no network, runs the menu and with it a nested
activation, whose `mqttEnd` may delete the client. `lost` is history: whether a
connection has gone since the activation last looked. `onReceive` queues the command and
after it the one that erases it from the broker; a command with an exclamation mark it executes at once, inside
the callback. A list or a crc command (`Lists`) does nothing but queue its items, which then stand behind
the one that erases (`RunPayload`, `RunItem`). `sendNow` in any menu starts a `process` inside
an activation (`SendNow`), and `process` without messages only sees to the client (`Finish`). `ran`,
`erased` and `lost` are history of the command published last. PubSubClient and the broker
are external, modelled by what `MQTTDest.cpp` relies on. A `call_mqtt` that is itself such an
exclamation-mark command finds the connection its message came through and is taken to leave it as it is.

### RemoteServers

State: each server pointer (null, to a live object, or to a deleted one), the
calls in progress, whether the log goes to the web socket and whether the server
has been idle. The start of a server deletes the old object, waits for WiFi (where
the menu may start or stop it again) and creates the new one. A command with an exclamation
mark runs inside the event of a client and may delete the server that is
calling it. Deleting twice and calling a deleted object are undefined: the model records
them in `fault`, and both goes on and, with `Reset`, may crash at any time.

### Dweets

State: the queue, the calls of `dweet_process`, the key and the timer, the last
dweet remembered in RTC memory, and dweet.io as the sequence of what was sent.
`getDweetCommand` waits, reads what it remembers, and waits again inside the request;
the two waits are separate steps, so that another `dweet_process` can come between. That is
more than the code allows when the network does not drop in between; `raced` marks these
behaviours. A dweet with an exclamation mark runs inside the call that got it, and one that is a list
(`Lists`) is queued once more behind what is there. There is one word for what is remembered, whatever the key.

### Clock

State: the true time, `millis()`, the rest of a deep sleep, the three words in RTC memory
(the time of the last answer, the counter when it came, what sleeps have added to the counter), and
the calls that wait for an answer. An answer is kept to the minute: `timeToMs` drops the seconds, so the
clock is behind by up to a minute. Counters are modulo `Wrap`. `isTimeInPeriod` is a pure
operator, checked for every start, end and offset against what the period means.

### Between the modules

The modules meet at few points, and each abstracts the others. The wait for
WiFi is where they meet most: `CommandLoop`, `LogBuffer`, `MqttClient`,
`RemoteServers` and `Dweets` each make it nest in any way the others might,
and `WifiConnection` has the wait itself; the network comes and goes at any
time in the others. The queue of `MqttClient` and of `Dweets` is the part of
the queue of `CommandLoop` they put commands into; that it is drained in order
and one command at a time is what `CommandLoop` shows. `PowerCycle` takes from `CommandLoop` that commands are
drained at menu points; `PowerCycle` treats a put of a property as one step, which
is what `PropertyStore` proves of it outside the window between remove and rename.

## 3. What is checked

| Run | Checks | Bounds |
|---|---|---|
| `property_store` | `TypeOK`, `OneLinePerKey`, `RewritesMounted`, `LiveAgrees`, `FactoryKeepsCalibration`, `Durable` (refinement of `PropertyMap`) | three words for names, one in an array, one the calibration, one empty; four names, of which one has a blank before it and one an `=` in it; two values, one with an `=` in it and one with blanks around it, and the empty one. Two plain names are needed for a rewrite to copy a line it does not change, two values to tell old from new. A line has one `=` beyond that of `putProperty` (`OneMore`). No bound on the number of operations or resets. |
| `command_loop` | `TypeOK`, `FlagIsStack`, `DisabledMeansIdle`, `InOrder` (refinement of `CommandQueue`), `QueuedCommandsRun` (liveness) | three queued commands and five frames: a command that waits, a menu loop in the wait, a direct command in it that waits again. |
| `power_cycle` | `TypeOK`, `SendPeriod`, `QuietOnce`, `NopZeroStaysAwake`, `SendsOnSchedule`, `KeepsSending` (liveness) | a byte that holds 0 to 3; durations 1, 3 and 4 (below the shortest with a time-out, above it, truncated to 0); intervals of 0 and 2, and 6 by default, so that 6 iterations of 1 overflow the byte; two commands or resets. Boots and sleeps are not bounded. |
| `log_buffer` | `LogTypeOK`, `InBounds`, `NeverStuck`, `SentOnce` | an array of 7, flushed at 4, 11 characters, 4 nested flushes. It stops when all characters are written, so deadlock is not checked. |
| `wifi_connection` | `TypeOK`, `ReuseIsEarned`, `CountsOnce`, `PortalCloses` and `OfflineRestarts` (liveness) | one address, restart beyond 1 failed wait, two nested waits: one is needed for a command to wait inside a wait and to share `wifiAlreadyWaited`; a second address would only be another name for the one kept. |
| `mqtt_client` | `TypeOK`, `ClientThere`, `ErasedAfterRun`, `CommandsErased` (liveness) | two commands, the first of which may be a list; a queue of 3 (a command, the one that erases it, and the items of the one before), two activations, one nested in the other. |
| `remote_servers` | `DeletedByStart`, `SoundWhileUp`, `IdleServerStops` (liveness) | both servers, three calls: an event, a start in it, another in the wait of that one. |
| `dweets` | `TypeOK`, `DweetOnce`, `StoredNeedConsent`, `DweetsArrive` (liveness) | two keys, two dweets, the first a list, a queue of 2, two calls; resets and restarts are not bounded. |
| `clock` | `ClockLag`, `PeriodRight`, `ToldRight` | a day of 6 units, a minute of 2, answers renewed after 2, counters that come round at 13, sleeps of 1 and 3, offsets -2, 0 and 2, 13 units of time in all (more than two days and one round of the counters), two calls. All starts and ends of a period. |
| `clock_quiet_period` | `QuietFromStartToEnd`, violated | as `clock` |
| `power_reset_pin` | `RestartExitsPowerSafe`, violated | as `power_cycle` |
| `power_nop_flush` | `NopPreventsSleep`, violated | as `power_cycle` |

Where the names and the comments in the modules are not enough:

* `Durable` says that a request happens as a whole or not at all whatever
  resets come, and it names the three places where the firmware gives this up: between the
  remove and the rename, during a format, and during a factory reset.
* `LiveAgrees` is the agreement of RAM and flash that a reboot would show. Its
  exceptions are the code's own: run-time puts, array removals and wipes, of which plugins are not told, and
  names the store mistakes for others. It is agreement up to blanks at the ends of a value: a put tells them, a boot does not.
* `InOrder` together with `FlagIsStack` is what `currentlyExecutingCommand` is for.
* `SendPeriod` and `SendsOnSchedule` are the two sides of one promise, about every iteration and
  however `wsi`, `iterdur` and resets have changed the interval before it: one stays silent only while the interval of the iteration before
  has room for it, and one sends only when that interval has passed. Both take
  the overflow of the byte as it is: an interval of more than 256 iterations sends every 256.
* `KeepsSending` fails for a device with a duration that has become 0 (it sleeps
  for ever), in offline operation, with the loop stopped by `sss`, and with scheduling disabled by a button
  held for ever. These are its premises, and nothing else is.

* `ReuseIsEarned` is why a device that has moved to another network gets out of
  the address it kept: whoever takes it from RTC memory (a boot, or a connection after the quiet restart was prepared) clears
  it there, and only a connection writes it again.
* `CountsOnce` is what the look at `wifiAlreadyWaited` after the wait is for: a nested wait that
  has failed meanwhile has been counted already.
* `ClientThere` holds although `mqttStart` waits between looking at the client and using
  it, because the menu runs inside an activation only while there is no network.
* `ErasedAfterRun` and `CommandsErased` together are "at least once" for a command by
  MQTT that is neither a list nor a crc command. The items of those run behind the command that erases them, and a restart
  in between loses them for good; the property says that nothing else does. It is not "exactly once": a reset between the two queued commands has it executed again,
  and two commands that overlap can erase each other, which is what its exception says.
* `DweetOnce` is "at most once", the opposite choice: a dweet is remembered before it is
  executed. Its exceptions are real in the code: one memory for all keys, and two
  overlapping requests. With stored dweets accepted, a dweet that restarts the device
  restarts it for ever, because the restart clears what is remembered.
* `SoundWhileUp` says exactly when the servers are used after they are deleted: after an
  outage, in which a start gave up and left its pointer, or from inside the event of a client.
* `ToldRight` and `ClockLag` take the overflow of the counters as it is, and say what a reset costs:
  the time awake before it, which nothing adds to the counter.

The three violations are disagreements of the code with its own messages. The quiet
period is given with a time zone, but `isTimeInPeriod` corrects a local time
below zero only: ahead of GMT, after local midnight, a period is missed unless it began before midnight. A reset by the pin leaves
`inDeepSleep` set, so the device that says "restart device to exit" does not exit; and
`nop 0` that is answered during the flush before deep sleep does not prevent the sleep.

### Fairness

The one thread runs: `WF` on the steps of the program. Beyond that only what time brings about:
in `CommandLoop` the end of setup, of a wait (`millis() < st + timeoutMs`), of a
list (it is finite) and the five seconds of the button (`SF`, because the step is
disabled while the thread is elsewhere in the loop); in `PowerCycle` the hour after which
the device restarts and the send timer coming due. `WifiConnection` adds that minutes
pass, that a wait ends and that a queued portal command is executed when the menu comes
round (`WF`); strong fairness where a wait can end only at one point of its loop, and that a device that
keeps coming to send waits for the network. `MqttClient` assumes that `loop()` drains the queue, polls the client and comes to send (`SF`, since
each is disabled while an activation is in progress); `RemoteServers` and `Dweets` that the call
at each depth of nesting returns, because it looks at the clock after each command it has run, and that
the loop then comes round. `Clock` has no liveness. Nothing is assumed of users, of the network or of resets, except
in the premises of a property, which it names: `KeepsSending` is about a network that is up from some time on and `QueuedCommandsRun` about a button that is left alone
from some time on; each of the others about behaviours
that are quiet from some time on, everything before that being arbitrary: without resets and commands of users
and without `sss`, after which the plugins do not run (`PortalCloses`, `OfflineRestarts`, the second also without a network),
without resets and losses of the connection (`CommandsErased`) and calls of users (`DweetsArrive`), without starts of and texts to the web-socket server (`IdleServerStops`). Resets are bounded in `PowerCycle`; in `PropertyStore` nothing is claimed of liveness.

Every property of a passing run has a mutant in its module, marked `mutant`, that a plausible
slip in the code would amount to, and that breaks it.

## 4. What is proved

The theorems hold for every value of the constants that meets the named
assumption of its module (`ConstantsOK`, `BoundsOK`, `SizesOK`, `LogSizesOK`, `ServersOK`, `DweetsOK`, `ClockOK`), of
which none says more than that the bounds are natural numbers, special values are no
ordinary ones, and (in `Clock`) an hour is shorter than a day and a day than a round of the
counters; and they hold for any number of steps.

* `PropertyStore_proofs`: all six properties of the run. The invariant adds to
  them what the files hold between the steps of a rewrite: the temporary file is
  the part of the configuration already read without the stale lines, which makes
  `RenameTmp` a stutter and `RemoveOld` the step of the abstract map; that
  `initialized` is exactly what a rewrite has; and what a factory reset has put back so far. Lemmas about `PropertyText`
  say what trimming and matching do to the lines of a name that is not among the strays.
* `PowerCycle_proofs`: types, `SendPeriod`, `SendsOnSchedule`, `QuietOnce`,
  `NopZeroStaysAwake`. The schedule rests on `ScheduleOK`, which relates the counter in RTC
  memory to the iterations since the last send and to the interval of the iteration before; that only
  `OnIterationStart` moves either is a lemma. Two more theorems say how far
  the two messages hold that the runs refute: `RestartLeaves` (`espRestart` and a loss of power exit the power-safe mode; the reset
  pin and an exception, which keep RTC memory, do not) and `NopZeroHeard` (only a `nop 0` in the flush before the deep sleep is ignored).
* `PowerCycle_proofs` also has the theorems of the log, which is flushed before deep sleep: types, `InBounds`, `NeverStuck`
  and `SentOnce`, for every size of the array and depth of nesting. `SentOnce` rests on an order: what the buffer holds was
  written after everything that was sent to the last destination. `LogInOrder` adds that no destination is
  sent older text after newer, and it needs no exception for the first of two destinations: what that one gets twice is
  the whole buffer again, which ends with the newest.
* `CommandLoop_proofs`: types, `FlagIsStack`, `DisabledMeansIdle` and `InOrder`, for every number of commands and
  depth of nesting. The invariant relates neighbouring frames: a menu loop that is draining the queue is either
  on top, with nothing executing, or what it called is the queued command; there is at most one such frame, and the
  flag tells. Scheduling can be disabled only by the button, at the bottom of the stack, so a loop that drains never
  sees it disabled. Lemmas show what changing, pushing and popping a frame does to that; every action is then one of four
  things to the abstract queue (nothing or a submission, a start, an end, a restart), which is the refinement.
  What users have of it are `NeverAgain` (a command that has ended never runs again) and `InSequence`
  (once a command runs, none scheduled before it does); both follow from the abstract queue alone.

* `WifiConnection_proofs`: types, `ReuseIsEarned` and `CountsOnce`, for any number of addresses, any limit and depth. The
  invariant says that an address in RTC memory has not been tried since the device had it (`Earned`), and that
  what was counted is remembered by `wifiAlreadyWaited` until a minute has passed or the device boots (`Counted`).
  Both hold although the quiet restart lets a running device take the kept address.
* `MqttClient_proofs`: types, `ClientThere` and `ErasedAfterRun`, for any number of commands, length of queue and depth.
  For `ClientThere` the invariant says of the whole stack, not only of its top, that
  an activation under another is still in its wait or has lost its connection, and that the
  top has what its place needs unless it lost it. For `ErasedAfterRun` it says that until
  commands overlap everything in the inbox and the queue is the last command or the one that erases it,
  and that no activation is about to erase it before it has run or, a list, has put its items into the queue, where they
  stay until they run or a restart drops them.
* `RemoteServers_proofs`: types, `DeletedByStart` and `SoundWhileUp`, for every depth. The invariant
  adds that without an outage only the innermost call is a start, its server is not live, and none
  has given up, since nothing runs inside a start that finds the network.
* `Dweets_proofs`: types, `DweetOnce` and `StoredNeedConsent`, for any keys, number of dweets, length of queue and depth.
  For `DweetOnce` the invariant says of every dweet in the queue that it is not later than the one
  remembered and that neither it nor any later one has run (`Fresh`); the one remembered is at least what is queued because
  `setLastDweet` comes before `scheduleCommand`. `SkippedForGood` says what there is of an order: a dweet that was not
  scheduled when a later one of its key was remembered never runs. It is not the order of sending: a dweet with an exclamation mark
  runs before one that is still queued, and the items of a list after it. For `StoredNeedConsent` it says that what is
  remembered, and what a request in progress has read, is no older than any stored dweet of its key (`Marks`). That
  `Latest` finds the last dweet of a key needs a greatest element of a bounded set, which is well-founded induction
  (`Greatest`); the library's theorem for it takes a set and not an operator.
* `Clock_proofs`: types, `ClockLag`, `PeriodRight` and `ToldRight`, for every length of the day, size of the counters, period and
  offset. The counter is a sum modulo `Wrap`; the lemmas are about congruences, so that no case of
  an overflow has to be told apart. `ToldRight` follows from `ClockLag` as long as the age does not
  come round. `PeriodAfterMidnight` says exactly what `isTimeInPeriod` answers where `PeriodRight` does not
  reach and `QuietFromStartToEnd` is violated: it sees only the morning of a period that spans midnight, so it misses periods but
  never makes one up. It holds for any time told, also beyond 24 hours, which `getGMTime` returns when it could not renew its answer.

Every safety property of a passing run is proved. Only model-checked is liveness (`QueuedCommandsRun`, `KeepsSending`,
`PortalCloses`, `OfflineRestarts`, `CommandsErased`, `IdleServerStops`, `DweetsArrive`), which is beyond the prover.
Nothing is proved of recursive definitions; there are none.

## 5. Not modelled

* GPIO, PIR and servo: a pin is read or written in one loop and a command is queued,
  which `CommandLoop` has from the queue on.
* The sensors: device I/O and floating-point conversions. Which sensors are found is decided once, by what answers on
  the bus during the first boot.
* The other destinations and the LED output: each sends or shows what it is given and keeps nothing
  that is read back. The colour table of `RGBLedDest` is a formula over user data; its edge is listed as a hazard.
* Over-the-air update, modem firmware, web shortcuts and cloud services: a request made from properties and an answer that is printed.
* The migration from EEPROM, and the helpers for lists and quoted strings: they work on characters, which the models abstract to kinds of commands.
* The flash becoming full: no result of a write is looked at, so there is no path in the code to model.
* The stack of the chip: nesting is bounded in the models, not by the code.
* Everything under `lib` except `RTCMemStore` and `Timer` is third-party code (drivers, fonts, protocol
  libraries) and most of the repository by size; what the firmware needs of it is modelled from its use and marked external.

## 6. Plan

Done: the store, the command loop, the power cycle, the log, the connection, MQTT, dweets, the
servers and the clock, with proofs of all safety properties.

Left, in this order:

1. A module that composes `WifiConnection` with `MqttClient`, in place of a network that comes and goes at any time, so that
   the failed waits of an activation count towards the restart.
2. `SensorDiscovery`: the list of sensors across boots with sensors that answer or do not.
3. List items, quoted strings, colour interpolation and the frame parsers as pure operators, each against a
   reference definition over bounded inputs.
