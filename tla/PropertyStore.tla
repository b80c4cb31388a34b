--------------------------- MODULE PropertyStore ---------------------------
(***************************************************************************)
(* The configuration store of PropertyList.cpp, down to the flash          *)
(* operations of one rewrite.  A file is the set of its key=value lines;   *)
(* where several lines begin with the name that is looked for, the one     *)
(* found is any of them, and a file that does not exist reads as an empty  *)
(* one.  The device can lose power or be reset between any two flash       *)
(* operations, and the next boot runs begin() and reportProperties().      *)
(***************************************************************************)
EXTENDS PropertyText

CONSTANTS
  Names,        (* the names users put                                        *)
  Texts,        (* the values they put                                        *)
  ArrayKeys,    (* the names an array prefix covers, such as custom_url_arr0  *)
  EmptyKey,     (* the empty name, which putProperty stores and nothing reads *)
  Calibration,  (* temp.adjustment and cubic.co2.powersafe                    *)
  Unset         (* a plugin's built-in default: the property was not reported *)

ASSUME ConstantsOK ==
  /\ Names \subseteq Name /\ Texts \subseteq Value
  /\ ArrayKeys \subseteq Keys
  /\ Calibration \subseteq Keys \ {EmptyKey}
  /\ EmptyKey \in Keys
  /\ NoHead \notin Heads /\ NoWord \notin Words
  /\ Unset \notin Value

VARIABLES
  \* Flash.
  cfg,          (* /vs_cfg.txt                                              *)
  tmp,          (* /vs_cfg.tmp                                              *)
  fsOk,         (* whether SPIFFS.begin() can mount the file system         *)
  \* RAM.
  mounted,      (* whether SPIFFS is mounted                                *)
  initialized,  (* PropertyListClass::initialized                           *)
  pc,           (* where the running operation is                           *)
  op,           (* its parameters                                           *)
  unread,       (* the lines of cfg it has not read yet                     *)
  restore,      (* calibration values a factory reset has still to put back *)
  saved,        (* the calibration values it read before it wiped           *)
  resetting,    (* whether CommonCommands::factoryReset is running          *)
  live,         (* the value of each property as the plugins know it        *)
  shadowed,     (* history: names whose value in RAM was set past the store *)
  strays,       (* history: names also put with blanks or an =, which the   *)
                (* store can take for one another                           *)
  before        (* history: the calibration a factory reset must keep       *)

flashVars == <<cfg, tmp, fsOk>>
resetVars == <<restore, saved, resetting, before>>
vars == <<cfg, tmp, fsOk, mounted, initialized, pc, op, unread,
          restore, saved, resetting, before, live, shadowed, strays>>

NoOp == [kind |-> "none", name |-> Plain(EmptyKey), val |-> NoValue]
NothingSaved == [k \in Calibration |-> NoValue]
NothingKept == [k \in Calibration |-> {NoValue}]

-----------------------------------------------------------------------------
\* Reading a file.

FoundUntrimmed(f, n) == {l \in f : StartsWith(l, n)}  \* mutant

\* The lines of a file, trimmed, that begin with a name.
Found(f, n) == {t \in {Trim(l) : l \in f} : StartsWith(t, n)}

\* readProperty: one of the lines found, or the empty string, which the empty
\* name always reads as.
Reads(n) ==
  IF n = Plain(EmptyKey) \/ Found(cfg, n) = {} THEN {NoValue}
  ELSE {After(l, n) : l \in Found(cfg, n)}

\* What reportProperties tells of a name: one of its lines, or nothing.
Told(f, k) ==
  IF \E l \in f : l.word = k
  THEN {TrimValue(l.val) : l \in {m \in f : m.word = k}} ELSE {Unset}

\* assertInit mounts unless it believes that it has.
AssertInit ==
  /\ mounted' = (mounted \/ ~initialized)
  /\ initialized' = TRUE

EndIntKeepsFlag ==  \* mutant
  /\ mounted' = (mounted /\ ~initialized)
  /\ UNCHANGED initialized

\* endInt unmounts only what assertInit mounted.
EndInt ==
  /\ mounted' = (mounted /\ ~initialized)
  /\ initialized' = FALSE

\* What readProperty, an assertInit and then an endInt, leaves.
Unmounted == mounted' = FALSE /\ initialized' = FALSE

\* What an assertInit after a readProperty leaves.
Remounted == mounted' = TRUE /\ initialized' = TRUE

-----------------------------------------------------------------------------
\* putProperty and removeArrayProperty: copy, remove, rename.

\* reportProperty tells every plugin, sensor and destination; none of them knows
\* a name with blanks at its ends or an =.
Report(n, v) == live' = IF n = Plain(n.word) THEN [live EXCEPT ![n.word] = v] ELSE live

\* Open cfg for reading and an empty tmp for writing.
StartRewrite(o) ==
  /\ op' = o
  /\ pc' = "copy"
  /\ unread' = cfg
  /\ tmp' = {}
  /\ UNCHANGED <<cfg, fsOk>>

\* What a put says of the agreement of store and plugins.
Confuse(n) ==
  IF n = Plain(n.word)
  THEN shadowed' = shadowed \ {n.word} /\ strays' = strays
  ELSE shadowed' = shadowed /\ strays' = strays \cup {n.word}

PutPropertyReportsLast(n, v) ==  \* mutant
  /\ Confuse(n)
  /\ \E current \in Reads(n) :
       IF current = v
       THEN /\ Unmounted
            /\ UNCHANGED <<flashVars, pc, op, unread, live>>
       ELSE /\ Remounted
            /\ StartRewrite([kind |-> "put", name |-> n, val |-> v])
            /\ Report(n, v)

\* putProperty(key, value) up to the decision to rewrite the file.
PutProperty(n, v) ==
  /\ Report(n, v)
  /\ Confuse(n)
  /\ \E current \in Reads(n) :
       IF current = v
       THEN /\ Unmounted
            /\ UNCHANGED <<flashVars, pc, op, unread>>
       ELSE /\ Remounted
            /\ StartRewrite([kind |-> "put", name |-> n, val |-> v])

Ready == pc = "idle" /\ ~resetting

\* Bound: a line has one = beyond the one putProperty writes.
OneMore(n, v) == n.head = NoHead \/ v.head = NoHead

Put(n, v) ==
  /\ Ready /\ OneMore(n, v)
  /\ PutProperty(n, v)
  /\ UNCHANGED resetVars

\* prop_setr, prop_jsetr: the plugins are told and nothing is stored.
PutRuntime(n, v) ==
  /\ Ready
  /\ Report(n, v)
  /\ shadowed' = shadowed \cup (IF n = Plain(n.word) THEN {n.word} ELSE {})
  /\ UNCHANGED <<flashVars, mounted, initialized, pc, op, unread, resetVars, strays>>

\* The plugins are not told of a removed array.
RemoveArrayProperty ==
  /\ Ready
  /\ AssertInit
  /\ StartRewrite([NoOp EXCEPT !.kind = "remove"])
  /\ shadowed' = shadowed \cup ArrayKeys
  /\ UNCHANGED <<live, resetVars, strays>>

StaleWholeLine(l) == l = Written(op.name, op.val)  \* mutant

\* Whether the rewrite drops a line of the old file, which it has trimmed.
Stale(l) == IF op.kind = "put" THEN StartsWith(l, op.name) ELSE l.word \in ArrayKeys

CopyLine ==
  /\ pc = "copy"
  /\ \E l \in unread :
       /\ unread' = unread \ {l}
       /\ tmp' = IF Stale(Trim(l)) THEN tmp ELSE tmp \cup {Trim(l)}
  /\ UNCHANGED <<cfg, fsOk, mounted, initialized, pc, op, resetVars, live, shadowed, strays>>

\* The line a put adds; storing the empty value only deletes.
NewLines ==
  IF op.kind = "put" /\ op.val # NoValue
  THEN {Written(op.name, op.val)} ELSE {}

WriteNewLineEarly ==  \* mutant
  /\ pc = "copy"
  /\ tmp' = tmp \cup NewLines
  /\ pc' = "remove"
  /\ UNCHANGED <<cfg, fsOk, mounted, initialized, op, unread, resetVars, live, shadowed, strays>>

WriteNewLine ==
  /\ pc = "copy"
  /\ unread = {}
  /\ tmp' = tmp \cup NewLines
  /\ pc' = "remove"
  /\ UNCHANGED <<cfg, fsOk, mounted, initialized, op, unread, resetVars, live, shadowed, strays>>

\* finalizeChangeFile, first half.  From here to the rename there is no cfg.
RemoveOld ==
  /\ pc = "remove"
  /\ cfg' = {}
  /\ pc' = "rename"
  /\ UNCHANGED <<tmp, fsOk, mounted, initialized, op, unread, resetVars, live, shadowed, strays>>

\* finalizeChangeFile, second half, and the endInt of the caller.
RenameTmp ==
  /\ pc = "rename"
  /\ cfg' = tmp
  /\ tmp' = {}
  /\ pc' = "idle"
  /\ op' = NoOp
  /\ EndInt
  /\ UNCHANGED <<fsOk, unread, resetVars, live, shadowed, strays>>

-----------------------------------------------------------------------------
\* prop_list, format_spiffs and the factory reset.

\* prop_list mounts with beginInt, so its endInt leaves the store mounted.
PropList ==
  /\ Ready
  /\ mounted' = TRUE
  /\ UNCHANGED <<flashVars, initialized, pc, op, unread, resetVars, live, shadowed, strays>>

StartFormat ==
  /\ Ready
  /\ pc' = "format"
  /\ UNCHANGED <<flashVars, mounted, initialized, op, unread, resetVars, live, shadowed, strays>>

\* SPIFFS.format, mount, begin(): an empty configuration the plugins are not told of.
FormatSpiffs ==
  /\ pc = "format"
  /\ cfg' = {}
  /\ tmp' = {}
  /\ mounted' = TRUE
  /\ pc' = "idle"
  /\ shadowed' = Keys
  /\ strays' = {}
  /\ UNCHANGED <<fsOk, initialized, op, unread, resetVars, live>>

StartFactoryResetUnread(full) ==  \* mutant
  /\ Ready
  /\ saved' = NothingSaved
  /\ restore' = IF full THEN {} ELSE Calibration
  /\ before' = [k \in Calibration |-> IF full THEN {NoValue} ELSE Reads(Plain(k))]
  /\ resetting' = TRUE
  /\ pc' = "wipe"
  /\ mounted' = TRUE
  /\ initialized' = FALSE
  /\ UNCHANGED <<flashVars, op, unread, live, shadowed, strays>>

\* "factory" reads the calibration first, "factoryr" drops it too.
StartFactoryReset(full) ==
  /\ Ready
  /\ saved' \in {s \in [Calibration -> Value] :
                 \A k \in Calibration : s[k] \in (IF full THEN {NoValue} ELSE Reads(Plain(k)))}
  /\ restore' = IF full THEN {} ELSE Calibration
  /\ before' = [k \in Calibration |-> IF full THEN {NoValue} ELSE Reads(Plain(k))]
  /\ resetting' = TRUE
  /\ pc' = "wipe"
  /\ mounted' = TRUE
  /\ initialized' = FALSE
  /\ UNCHANGED <<flashVars, op, unread, live, shadowed, strays>>

WipeConfig ==
  /\ pc = "wipe"
  /\ cfg' = {}
  /\ pc' = "idle"
  /\ shadowed' = Keys
  /\ strays' = {}
  /\ EndInt
  /\ UNCHANGED <<tmp, fsOk, op, unread, resetVars, live>>

RestoreCalibration ==
  /\ pc = "idle"
  /\ \E k \in restore :
       /\ PutProperty(Plain(k), saved[k])
       /\ restore' = restore \ {k}
  /\ UNCHANGED <<saved, resetting, before>>

-----------------------------------------------------------------------------
\* Power and boot.

\* What a reset leaves of RAM.
LoseRam ==
  /\ pc' = "off"
  /\ op' = NoOp
  /\ unread' = {}
  /\ restore' = {}
  /\ saved' = NothingSaved
  /\ resetting' = FALSE
  /\ before' = NothingKept
  /\ live' = [k \in Keys |-> Unset]
  /\ shadowed' = {}
  /\ Unmounted

\* The espRestart that ends a factory reset.
FactoryRestart ==
  /\ pc = "idle"
  /\ resetting
  /\ restore = {}
  /\ LoseRam
  /\ UNCHANGED <<flashVars, strays>>

\* Power loss, watchdog, exception, deep sleep or restart.  A format cut short
\* leaves a file system that does not mount.
Reset ==
  /\ pc # "off"
  /\ LoseRam
  /\ fsOk' = (fsOk /\ pc # "format")
  /\ UNCHANGED <<cfg, tmp, strays>>

\* begin() and then reportProperties() of setup(): format what does not mount,
\* create a missing cfg, pay tmp no attention, and tell the plugins every line.
Boot ==
  /\ pc = "off"
  /\ cfg' = IF fsOk THEN cfg ELSE {}
  /\ tmp' = IF fsOk THEN tmp ELSE {}
  /\ fsOk' = TRUE
  /\ live' \in {t \in [Keys -> Value \cup {Unset}] : \A k \in Keys : t[k] \in Told(cfg', k)}
  /\ pc' = "idle"
  /\ Unmounted
  /\ UNCHANGED <<op, unread, resetVars, shadowed, strays>>

Init ==
  /\ cfg = {}
  /\ tmp = {}
  /\ fsOk = TRUE
  /\ mounted = FALSE
  /\ initialized = FALSE
  /\ pc = "off"
  /\ op = NoOp
  /\ unread = {}
  /\ restore = {}
  /\ saved = NothingSaved
  /\ resetting = FALSE
  /\ before = NothingKept
  /\ live = [k \in Keys |-> Unset]
  /\ shadowed = {}
  /\ strays = {}

Next ==
  \/ \E n \in Names, v \in Texts \cup {NoValue} : Put(n, v) \/ PutRuntime(n, v)
  \/ RemoveArrayProperty
  \/ CopyLine \/ WriteNewLine \/ RemoveOld \/ RenameTmp
  \/ PropList \/ StartFormat \/ FormatSpiffs
  \/ \E full \in BOOLEAN : StartFactoryReset(full)
  \/ WipeConfig \/ RestoreCalibration \/ FactoryRestart
  \/ Reset \/ Boot

Spec == Init /\ [][Next]_vars

-----------------------------------------------------------------------------
\* Properties.

\* What a factory reset has read to put back has no blanks at its end.
TypeOK ==
  /\ cfg \in SUBSET Line /\ tmp \in SUBSET Line
  /\ fsOk \in BOOLEAN /\ mounted \in BOOLEAN /\ initialized \in BOOLEAN
  /\ pc \in {"off", "idle", "copy", "remove", "rename", "format", "wipe"}
  /\ op \in [kind : {"none", "put", "remove"}, name : Name, val : Value]
  /\ unread \in SUBSET Line
  /\ restore \in SUBSET Calibration
  /\ saved \in [Calibration -> {v \in Value : ~v.trail}]
  /\ resetting \in BOOLEAN
  /\ before \in [Calibration -> SUBSET Value]
  /\ live \in [Keys -> Value \cup {Unset}]
  /\ shadowed \in SUBSET Keys /\ strays \in SUBSET Keys

\* No name ever has two lines in a file, whatever put, array removal, reset or
\* interrupted rewrite produced it: readProperty would return the first one and
\* reportProperties would leave the plugins with the last one.  That is so unless
\* the name was also put with blanks at its ends or an = in it since the last
\* wipe: the store does not find the line of such a name, or takes it for another.
Rewriting == pc \in {"copy", "remove", "rename"}
OneLineEach(f) == \A l, m \in f : l.word = m.word /\ l.word \notin strays => l = m

OneLinePerKey == OneLineEach(cfg) /\ (Rewriting => OneLineEach(tmp))

\* Every read and write of a rewrite happens on a mounted file system, although
\* assertInit and endInt do not nest and prop_list mounts past them.
RewritesMounted == Rewriting => mounted

\* What the plugins were told is what the next boot will tell them, up to the
\* blanks at its ends: a put tells a value as it came, a boot trims it.  Not so
\* for names set at run time only, removed as an array, wiped, or mistaken for
\* another.  The empty name is left out: readProperty never finds it, so that a
\* put of the empty value tells the plugins and keeps the line.
Trimmed(v) == IF v = Unset THEN v ELSE TrimValue(v)

LiveAgrees ==
  pc = "idle" =>
    \A k \in Keys \ (shadowed \cup strays \cup {EmptyKey}) :
      \A t \in Told(cfg, k) : Trimmed(live[k]) = t \/ (t = Unset /\ live[k] = NoValue)

\* When a factory reset reaches its restart the store reads the calibration it
\* read before, and holds nothing else.
FactoryKeepsCalibration ==
  resetting /\ pc = "idle" /\ restore = {} =>
    /\ \A l \in cfg : l.word \in Calibration
    /\ \A k \in Calibration : Reads(Plain(k)) \subseteq before[k]

\* The abstract store this one implements: a request changes the map at one name
\* or an array, once and as a whole, wherever the device is reset; all of it can be
\* lost between the remove and the rename, in a format and in a factory reset, and
\* nowhere else.  A name with blanks at its ends or an = changes what is read for
\* the name without them, if anything.
Contents == IF pc = "rename" THEN tmp ELSE cfg
Lookup(f, k) == IF Found(f, Plain(k)) = {} THEN NoValue
                ELSE (CHOOSE l \in Found(f, Plain(k)) : TRUE).val
Map == [k \in Keys |-> Lookup(Contents, k)]
AtRisk == pc \in {"rename", "format", "wipe"} \/ ~fsOk
Store == INSTANCE PropertyMap WITH map <- Map, atRisk <- AtRisk, Values <- Value
Durable == Store!Spec
=============================================================================
