------------------------ MODULE PropertyStore_proofs ------------------------
(***************************************************************************)
(* The invariants of PropertyStore and its refinement of PropertyMap, for  *)
(* every set of names and values.                                          *)
(***************************************************************************)
EXTENDS PropertyStore, TLAPS

PCs == {"off", "idle", "copy", "remove", "rename", "format", "wipe"}
Ops == [kind : {"none", "put", "remove"}, name : Name, val : Value]
TrimmedValue == {v \in Value : ~v.trail}

-----------------------------------------------------------------------------
\* What the conversions of texts return.

LEMMA PlainType == ASSUME NEW k \in Keys PROVE Plain(k) \in Name /\ Plain(k).word = k
BY DEF Plain, Name

LEMMA NoValueType == NoValue \in TrimmedValue /\ NoValue \in Value /\ TrimValue(NoValue) = NoValue
BY DEF NoValue, Value, TrimmedValue, TrimValue

LEMMA WrittenType ==
  ASSUME NEW n \in Name, NEW v \in Value
  PROVE  /\ Written(n, v) \in Line
         /\ Written(n, v).word = n.word
         /\ Written(n, v).lead = n.lead /\ Written(n, v).trail = n.trail
BY DEF Written, Line, Name, Value

\* Trimming a line leaves nothing more to trim and its name to be found.
LEMMA TrimType ==
  ASSUME NEW l \in Line
  PROVE  /\ Trim(l) \in Line /\ Trim(l).val \in TrimmedValue
         /\ Trim(l).word = l.word /\ Trim(l).trail = l.trail /\ ~Trim(l).lead
         /\ Trim(Trim(l)) = Trim(l)
         /\ TrimValue(Trim(l).val) = TrimValue(l.val)
BY DEF Trim, TrimValue, Line, Value, TrimmedValue

LEMMA TrimValueType ==
  ASSUME NEW v \in Value
  PROVE  TrimValue(v) \in Value /\ TrimValue(TrimValue(v)) = TrimValue(v)
BY DEF TrimValue, Value

LEMMA AfterType ==
  ASSUME NEW l \in Line, l.val \in TrimmedValue, NEW n \in Name
  PROVE  After(l, n) \in TrimmedValue
BY DEF After, Line, TrimmedValue, Value

LEMMA FoundType ==
  ASSUME NEW f \in SUBSET Line, NEW n
  PROVE  \A l \in Found(f, n) : l \in Line /\ l.val \in TrimmedValue
BY TrimType DEF Found

\* A read returns some value without blanks at its end.
LEMMA ReadsType ==
  ASSUME cfg \in SUBSET Line, NEW n \in Name
  PROVE  Reads(n) \subseteq TrimmedValue /\ Reads(n) # {}
<1>1. CASE n = Plain(EmptyKey) \/ Found(cfg, n) = {}
  BY <1>1, NoValueType DEF Reads
<1>2. CASE ~(n = Plain(EmptyKey) \/ Found(cfg, n) = {})
  BY <1>2, FoundType, AfterType DEF Reads
<1> QED BY <1>1, <1>2

LEMMA LookupType ==
  ASSUME NEW f \in SUBSET Line, NEW k \in Keys
  PROVE  Lookup(f, k) \in Value
<1>1. CASE Found(f, Plain(k)) = {}
  BY <1>1, NoValueType DEF Lookup
<1>2. CASE Found(f, Plain(k)) # {}
  <2>1. (CHOOSE l \in Found(f, Plain(k)) : TRUE) \in Found(f, Plain(k))
    BY <1>2
  <2> QED BY <1>2, <2>1, FoundType DEF Lookup, TrimmedValue
<1> QED BY <1>1, <1>2

\* Type correctness is inductive.
LEMMA TypeInit == Init => TypeOK
<1> SUFFICES ASSUME Init PROVE TypeOK
  OBVIOUS
<1>1. op \in Ops
  BY ConstantsOK, PlainType, NoValueType DEF Init, NoOp, Ops
<1>2. saved \in [Calibration -> TrimmedValue] /\ before \in [Calibration -> SUBSET Value]
  BY NoValueType DEF Init, NothingSaved, NothingKept
<1>3. live \in [Keys -> Value \cup {Unset}]
  BY DEF Init
<1> QED BY <1>1, <1>2, <1>3 DEF Init, TypeOK, Ops, TrimmedValue

LEMMA TypeStep == TypeOK /\ [Next]_vars => TypeOK'
<1> SUFFICES ASSUME TypeOK, [Next]_vars PROVE TypeOK'
  OBVIOUS
<1> USE ConstantsOK
<1>0. /\ Calibration \subseteq Keys /\ ArrayKeys \subseteq Keys /\ NoOp \in Ops
      /\ Names \subseteq Name /\ Texts \cup {NoValue} \subseteq Value
  BY PlainType, NoValueType DEF NoOp, Ops
<1>1. ASSUME NEW n \in Name, NEW v \in Value, PutProperty(n, v) PROVE
        /\ cfg' \in SUBSET Line /\ tmp' \in SUBSET Line /\ fsOk' \in BOOLEAN
        /\ mounted' \in BOOLEAN /\ initialized' \in BOOLEAN /\ pc' \in PCs
        /\ op' \in Ops /\ unread' \in SUBSET Line
        /\ live' \in [Keys -> Value \cup {Unset}] /\ shadowed' \in SUBSET Keys
        /\ strays' \in SUBSET Keys
  <2>0. n.word \in Keys
    BY DEF Name
  <2>1. /\ live' \in [Keys -> Value \cup {Unset}] /\ shadowed' \in SUBSET Keys
        /\ strays' \in SUBSET Keys
    BY <1>1, <2>0 DEF PutProperty, Report, Confuse, TypeOK
  <2>2. CASE UNCHANGED <<flashVars, pc, op, unread>> /\ Unmounted
    BY <2>1, <2>2 DEF Unmounted, TypeOK, PCs, Ops, flashVars
  <2>3. CASE Remounted /\ StartRewrite([kind |-> "put", name |-> n, val |-> v])
    BY <2>1, <2>3 DEF Remounted, StartRewrite, TypeOK, PCs, Ops
  <2> QED BY <2>2, <2>3, <1>1 DEF PutProperty
<1>2. ASSUME NEW n \in Names, NEW v \in Texts \cup {NoValue}, Put(n, v) PROVE TypeOK'
  BY <1>0, <1>1, <1>2 DEF Put, TypeOK, resetVars, PCs, Ops
<1>3. ASSUME NEW n \in Names, NEW v \in Texts \cup {NoValue}, PutRuntime(n, v) PROVE TypeOK'
  <2>1. n.word \in Keys /\ v \in Value
    BY <1>0 DEF Name
  <2> QED BY <1>3, <2>1 DEF PutRuntime, Report, TypeOK, resetVars, flashVars
<1>4. CASE RemoveArrayProperty
  <2>1. [NoOp EXCEPT !.kind = "remove"] \in Ops
    BY <1>0 DEF Ops
  <2> QED BY <1>4, <1>0, <2>1
          DEF RemoveArrayProperty, AssertInit, StartRewrite, TypeOK, resetVars, Ops
<1>5. CASE CopyLine
  <2>1. PICK l \in unread : /\ unread' = unread \ {l}
                            /\ tmp' = IF Stale(Trim(l)) THEN tmp ELSE tmp \cup {Trim(l)}
    BY <1>5 DEF CopyLine
  <2>2. Trim(l) \in Line
    BY TrimType DEF TypeOK
  <2> QED BY <1>5, <2>1, <2>2 DEF CopyLine, TypeOK, resetVars
<1>6. CASE WriteNewLine
  <2>1. NewLines \subseteq Line
    BY WrittenType DEF NewLines, TypeOK
  <2> QED BY <2>1, <1>6 DEF WriteNewLine, TypeOK, resetVars
<1>7. CASE RemoveOld
  BY <1>7 DEF RemoveOld, TypeOK, resetVars
<1>8. CASE RenameTmp
  BY <1>8, <1>0 DEF RenameTmp, EndInt, TypeOK, resetVars, Ops
<1>9. CASE PropList
  BY <1>9 DEF PropList, TypeOK, resetVars, flashVars
<1>10. CASE StartFormat
  BY <1>10 DEF StartFormat, TypeOK, resetVars, flashVars
<1>11. CASE FormatSpiffs
  BY <1>11 DEF FormatSpiffs, TypeOK, resetVars, flashVars
<1>12. ASSUME NEW full \in BOOLEAN, StartFactoryReset(full) PROVE TypeOK'
  <2>1. \A k \in Calibration : Reads(Plain(k)) \subseteq TrimmedValue
    BY <1>0, ReadsType, PlainType DEF TypeOK
  <2>2. before' \in [Calibration -> SUBSET Value]
    BY <1>12, <2>1, NoValueType DEF StartFactoryReset, TrimmedValue
  <2>3. saved' \in [Calibration -> TrimmedValue]
    <3>1. PICK s \in [Calibration -> Value] :
            /\ saved' = s
            /\ \A k \in Calibration : s[k] \in (IF full THEN {NoValue} ELSE Reads(Plain(k)))
      BY <1>12 DEF StartFactoryReset
    <3>2. \A k \in Calibration : s[k] \in TrimmedValue
      BY <2>1, <3>1, NoValueType
    <3> QED BY <3>1, <3>2
  <2> QED BY <2>2, <2>3, <1>12 DEF StartFactoryReset, TypeOK, flashVars, TrimmedValue
<1>13. CASE WipeConfig
  BY <1>13 DEF WipeConfig, EndInt, TypeOK, resetVars
<1>14. CASE RestoreCalibration
  <2>1. PICK k \in restore : PutProperty(Plain(k), saved[k]) /\ restore' = restore \ {k}
    BY <1>14 DEF RestoreCalibration
  <2>2. Plain(k) \in Name /\ saved[k] \in Value
    BY <1>0, PlainType DEF TypeOK
  <2> QED BY <2>1, <2>2, <1>1, <1>14 DEF RestoreCalibration, TypeOK, PCs, Ops
<1>15. ASSUME LoseRam PROVE
        /\ mounted' \in BOOLEAN /\ initialized' \in BOOLEAN /\ pc' \in PCs /\ op' \in Ops
        /\ unread' \in SUBSET Line /\ restore' \in SUBSET Calibration
        /\ saved' \in [Calibration -> TrimmedValue] /\ resetting' \in BOOLEAN
        /\ before' \in [Calibration -> SUBSET Value]
        /\ live' \in [Keys -> Value \cup {Unset}] /\ shadowed' \in SUBSET Keys
  BY <1>15, <1>0, NoValueType DEF LoseRam, NothingSaved, NothingKept, Unmounted, PCs
<1>16. CASE FactoryRestart
  BY <1>15, <1>16 DEF FactoryRestart, TypeOK, flashVars, PCs, Ops, TrimmedValue
<1>17. CASE Reset
  BY <1>15, <1>17 DEF Reset, TypeOK, PCs, Ops, TrimmedValue
<1>18. CASE Boot
  <2>1. cfg' \in SUBSET Line /\ tmp' \in SUBSET Line
    BY <1>18 DEF Boot, TypeOK
  <2>2. live' \in [Keys -> Value \cup {Unset}]
    BY <1>18 DEF Boot
  <2> QED BY <1>18, <2>1, <2>2 DEF Boot, TypeOK, Unmounted, resetVars
<1>19. CASE UNCHANGED vars
  BY <1>19 DEF vars, TypeOK
<1> QED BY <1>2, <1>3, <1>4, <1>5, <1>6, <1>7, <1>8, <1>9, <1>10, <1>11, <1>12, <1>13,
           <1>14, <1>16, <1>17, <1>18, <1>19 DEF Next

\* Every variable keeps the type its C++ counterpart has.
THEOREM TypeCorrect == Spec => []TypeOK
BY TypeInit, TypeStep, PTL DEF Spec

-----------------------------------------------------------------------------
\* What a name without blanks and = finds: the lines of its word.

LEMMA FoundPlain ==
  ASSUME NEW f \in SUBSET Line, NEW k \in Keys
  PROVE  /\ Found(f, Plain(k)) = {t \in {Trim(l) : l \in f} : t.word = k /\ ~t.trail}
         /\ \A t \in Found(f, Plain(k)) : After(t, Plain(k)) = t.val
<1>1. \A t \in {Trim(l) : l \in f} : t \in Line /\ ~t.lead
  BY TrimType
<1>2. \A t \in {Trim(l) : l \in f} : StartsWith(t, Plain(k)) <=> t.word = k /\ ~t.trail
  BY <1>1 DEF StartsWith, Plain, Line
<1>3. \A t \in Line : After(t, Plain(k)) = t.val
  BY DEF After, Plain, Line, Value
<1> QED BY <1>1, <1>2, <1>3 DEF Found

LEMMA WrittenPlain ==
  ASSUME NEW k \in Keys, NEW v \in Value
  PROVE  Written(Plain(k), v) = [word |-> k, lead |-> FALSE, trail |-> FALSE, val |-> v]
BY DEF Written, Plain, Value

-----------------------------------------------------------------------------
\* Each file holds one line per key.  The rewrite is why: what it has copied is
\* exactly the lines it has read and keeps, none of which has the new key.

Kept(f) == {t \in {Trim(l) : l \in f} : ~Stale(t)}

Neat(f) == \A l \in f : l.word \notin strays =>
  ~l.lead /\ ~l.trail /\ \A m \in f : m.word = l.word => m = l

RewriteInv ==
  /\ Neat(cfg) /\ (Rewriting => Neat(tmp))
  /\ pc = "copy" => unread \subseteq cfg /\ tmp = Kept(cfg \ unread)
  /\ pc = "remove" => tmp = Kept(cfg) \cup NewLines
  /\ pc = "rename" => cfg = {}
  /\ pc \in {"copy", "remove"} /\ op.kind = "put" =>
       op.name = Plain(op.name.word) \/ op.name.word \in strays

LEMMA RewriteInit == Init => RewriteInv
BY DEF Init, RewriteInv, Neat, Rewriting

\* Copying keeps a file neat.
LEMMA KeptNeat ==
  ASSUME NEW f \in SUBSET Line, Neat(f)
  PROVE  Neat(Kept(f)) /\ Kept(f) \subseteq Line
<1>1. \A l \in f : Trim(l) \in Line /\ Trim(l).word = l.word /\ Trim(l).trail = l.trail /\ ~Trim(l).lead
  BY TrimType
<1>2. Kept(f) \subseteq Line
  BY <1>1 DEF Kept
<1>3. ASSUME NEW t \in Kept(f), t.word \notin strays
      PROVE  ~t.lead /\ ~t.trail /\ \A u \in Kept(f) : u.word = t.word => u = t
  <2>1. PICK l \in f : t = Trim(l)
    BY DEF Kept
  <2>2. l.word \notin strays
    BY <1>1, <1>3, <2>1
  <2>3. ASSUME NEW u \in Kept(f), u.word = t.word PROVE u = t
    <3>1. PICK m \in f : u = Trim(m)
      BY DEF Kept
    <3>2. m = l
      BY <1>1, <2>1, <2>2, <2>3, <3>1 DEF Neat
    <3> QED BY <2>1, <3>1, <3>2
  <2> QED BY <1>1, <2>1, <2>2, <2>3 DEF Neat
<1> QED BY <1>2, <1>3 DEF Neat

\* The line a put adds clashes with none of the lines it kept.
LEMMA NewLinesFresh ==
  ASSUME NEW f \in SUBSET Line, Neat(f), op \in Ops,
         op.kind = "put" => op.name = Plain(op.name.word) \/ op.name.word \in strays
  PROVE  Neat(Kept(f) \cup NewLines)
<1>1. Neat(Kept(f)) /\ Kept(f) \subseteq Line
  BY KeptNeat
<1>2. CASE NewLines = {}
  BY <1>1, <1>2
<1>3. CASE NewLines # {}
  <2>1. op.kind = "put" /\ NewLines = {Written(op.name, op.val)} /\ op.name.word \in Keys
    BY <1>3 DEF NewLines, Ops, Name
  <2> DEFINE new == Written(op.name, op.val)
  <2>2. new.word = op.name.word /\ new.lead = op.name.lead /\ new.trail = op.name.trail
    BY WrittenType DEF Ops
  <2>3. CASE op.name.word \in strays
    BY <1>1, <2>1, <2>2, <2>3 DEF Neat
  <2>4. CASE op.name.word \notin strays
    <3>1. op.name = Plain(op.name.word)
      BY <2>1, <2>4
    <3>2. ~new.lead /\ ~new.trail
      BY <2>2, <3>1 DEF Plain
    <3>3. \A t \in Kept(f) : t.word # op.name.word
      <4>1. SUFFICES ASSUME NEW t \in Kept(f), t.word = op.name.word PROVE FALSE
        OBVIOUS
      <4>2. ~t.lead /\ ~t.trail /\ t \in Line
        BY <1>1, <2>4, <4>1 DEF Neat
      <4>3. StartsWith(t, Plain(op.name.word))
        BY <4>1, <4>2 DEF StartsWith, Plain, Line
      <4> QED BY <2>1, <3>1, <4>3 DEF Kept, Stale
    <3> QED BY <1>1, <2>1, <2>2, <3>2, <3>3 DEF Neat
  <2> QED BY <2>3, <2>4
<1> QED BY <1>2, <1>3

\* A rewrite that starts satisfies the invariant, whether or not its name is new
\* among the confusing ones.
LEMMA RewriteStarts ==
  ASSUME Neat(cfg), NEW o, StartRewrite(o), strays \subseteq strays',
         o.kind = "put" => o.name = Plain(o.name.word) \/ o.name.word \in strays'
  PROVE  RewriteInv'
<1>1. Neat(cfg)'
  BY DEF StartRewrite, Neat
<1>2. tmp' = {} /\ (Kept(cfg \ unread))' = {} /\ Neat(tmp)'
  BY DEF StartRewrite, Kept, Neat
<1> QED BY <1>1, <1>2 DEF StartRewrite, RewriteInv

LEMMA RewriteStep == TypeOK /\ RewriteInv /\ [Next]_vars => RewriteInv'
<1> SUFFICES ASSUME TypeOK, RewriteInv, [Next]_vars PROVE RewriteInv'
  OBVIOUS
<1>0. Neat({}) /\ (Neat({}))' /\ cfg \in SUBSET Line /\ op \in Ops
  BY DEF Neat, TypeOK, Ops
<1>1. ASSUME NEW n \in Name, NEW v, pc = "idle", PutProperty(n, v) PROVE RewriteInv'
  <2>1. strays \subseteq strays' /\ (n = Plain(n.word) \/ n.word \in strays')
    BY <1>1 DEF PutProperty, Confuse
  <2>2. CASE UNCHANGED <<flashVars, pc, op, unread>>
    BY <2>1, <2>2, <1>1 DEF RewriteInv, Neat, Rewriting, flashVars
  <2>3. CASE StartRewrite([kind |-> "put", name |-> n, val |-> v])
    BY <2>1, <2>3, RewriteStarts DEF RewriteInv
  <2> QED BY <2>2, <2>3, <1>1 DEF PutProperty
<1>2. ASSUME NEW n \in Names, NEW v \in Texts \cup {NoValue}, Put(n, v) PROVE RewriteInv'
  BY <1>1, <1>2, ConstantsOK DEF Put, Ready
<1>3. ASSUME NEW n \in Names, NEW v \in Texts \cup {NoValue}, PutRuntime(n, v) PROVE RewriteInv'
  BY <1>3 DEF PutRuntime, Ready, RewriteInv, Neat, Rewriting, flashVars
<1>4. CASE RemoveArrayProperty
  <2>1. [NoOp EXCEPT !.kind = "remove"].kind # "put"
    BY DEF NoOp
  <2> QED BY <1>4, <2>1, RewriteStarts DEF RemoveArrayProperty, RewriteInv
<1>5. CASE CopyLine
  <2>1. PICK l \in unread : /\ unread' = unread \ {l}
                            /\ tmp' = IF Stale(Trim(l)) THEN tmp ELSE tmp \cup {Trim(l)}
    BY <1>5 DEF CopyLine
  <2>2. l \in cfg /\ unread \subseteq cfg /\ tmp = Kept(cfg \ unread)
    BY <2>1, <1>5 DEF CopyLine, RewriteInv
  <2>3. tmp' = Kept(cfg \ unread')
    BY <2>1, <2>2 DEF Kept
  <2>4. cfg \ unread' \in SUBSET Line /\ Neat(cfg \ unread')
    BY <1>0 DEF RewriteInv, Neat
  <2>5. Neat(tmp')
    BY <2>3, <2>4, KeptNeat
  <2>6. UNCHANGED <<cfg, pc, op, strays>> /\ pc = "copy"
    BY <1>5 DEF CopyLine
  <2>7. tmp' = (Kept(cfg \ unread))' /\ Neat(tmp)'
    BY <2>3, <2>5, <2>6 DEF Kept, Stale, Neat
  <2> QED BY <2>1, <2>2, <2>6, <2>7 DEF RewriteInv, Neat
<1>6. CASE WriteNewLine
  <2>1. tmp' = Kept(cfg) \cup NewLines
    BY <1>6 DEF WriteNewLine, RewriteInv
  <2>2. Neat(tmp')
    BY <2>1, <1>0, <1>6, NewLinesFresh DEF RewriteInv, WriteNewLine
  <2>3. UNCHANGED <<cfg, op, strays>> /\ pc = "copy" /\ pc' = "remove"
    BY <1>6 DEF WriteNewLine
  <2>4. (Kept(cfg) \cup NewLines)' = Kept(cfg) \cup NewLines
    BY <2>3 DEF Kept, Stale, NewLines
  <2>5. Neat(tmp)'
    BY <2>2, <2>3 DEF Neat
  <2> QED BY <2>1, <2>3, <2>4, <2>5 DEF RewriteInv, Neat
<1>7. CASE RemoveOld
  BY <1>7, <1>0 DEF RemoveOld, RewriteInv, Rewriting, Neat
<1>8. CASE RenameTmp
  BY <1>8, <1>0 DEF RenameTmp, RewriteInv, Rewriting, Neat
<1>9. CASE PropList
  BY <1>9 DEF PropList, Ready, RewriteInv, Rewriting, Neat, flashVars
<1>10. CASE StartFormat
  BY <1>10 DEF StartFormat, RewriteInv, Rewriting, Neat, flashVars
<1>11. CASE FormatSpiffs
  BY <1>11, <1>0 DEF FormatSpiffs, RewriteInv, Rewriting, Neat
<1>12. ASSUME NEW full \in BOOLEAN, StartFactoryReset(full) PROVE RewriteInv'
  BY <1>12 DEF StartFactoryReset, RewriteInv, Rewriting, Neat, flashVars
<1>13. CASE WipeConfig
  BY <1>13, <1>0 DEF WipeConfig, RewriteInv, Rewriting, Neat
<1>14. CASE RestoreCalibration
  <2>1. PICK k \in restore : PutProperty(Plain(k), saved[k])
    BY <1>14 DEF RestoreCalibration
  <2>2. Plain(k) \in Name
    BY ConstantsOK, PlainType DEF TypeOK
  <2> QED BY <2>1, <2>2, <1>1, <1>14 DEF RestoreCalibration
<1>15. CASE FactoryRestart
  BY <1>15 DEF FactoryRestart, LoseRam, RewriteInv, Rewriting, Neat, flashVars
<1>16. CASE Reset
  BY <1>16 DEF Reset, LoseRam, RewriteInv, Rewriting, Neat
<1>17. CASE Boot
  BY <1>17, <1>0 DEF Boot, RewriteInv, Rewriting, Neat
<1>18. CASE UNCHANGED vars
  BY <1>18 DEF vars, RewriteInv, Rewriting, Neat, Kept, Stale, NewLines
<1> QED BY <1>2, <1>3, <1>4, <1>5, <1>6, <1>7, <1>8, <1>9, <1>10, <1>11, <1>12, <1>13,
           <1>14, <1>15, <1>16, <1>17, <1>18 DEF Next

LEMMA RewriteCorrect == Spec => []RewriteInv
BY TypeCorrect, RewriteInit, RewriteStep, PTL DEF Spec

\* No sequence of puts, array removals, resets and interrupted rewrites leaves
\* two lines for one name, in either file, unless the name was also put with
\* blanks at its ends or an = in it.
THEOREM OneLineAlways == Spec => []OneLinePerKey
<1>1. RewriteInv => OneLinePerKey
  BY DEF RewriteInv, OneLinePerKey, OneLineEach, Neat
<1> QED BY <1>1, RewriteCorrect, PTL

-----------------------------------------------------------------------------
\* The refinement.  The abstract request happens at the remove, where what the
\* store holds changes from the old file to the new one.

LEMMA StoreInit == Init => Store!Init
<1>1. \A k \in Keys : Found({}, Plain(k)) = {}
  BY DEF Found
<1> QED BY <1>1 DEF Init, Store!Init, Map, AtRisk, Contents, Lookup

\* What a name finds in the new file of a rewrite is what it found in the old one,
\* but for the name that was put and the names of a removed array.
LEMMA RewriteEffect ==
  ASSUME cfg \in SUBSET Line, op \in Ops, NEW k \in Keys
  PROVE  /\ ~(op.kind = "put" /\ k = op.name.word) /\ ~(op.kind # "put" /\ k \in ArrayKeys) =>
              Found(Kept(cfg) \cup NewLines, Plain(k)) = Found(cfg, Plain(k))
         /\ op.kind # "put" /\ k \in ArrayKeys =>
              Found(Kept(cfg) \cup NewLines, Plain(k)) = {}
<1> DEFINE new == Kept(cfg) \cup NewLines
<1>1. \A t \in Kept(cfg) : t \in Line /\ Trim(t) = t
  BY TrimType DEF Kept
<1>2. \A l \in NewLines : l \in Line /\ op.kind = "put" /\ Trim(l).word = op.name.word
  BY WrittenType, TrimType DEF NewLines, Ops
<1>3. new \in SUBSET Line
  BY <1>1, <1>2
<1>4. ASSUME ~(op.kind = "put" /\ k = op.name.word), ~(op.kind # "put" /\ k \in ArrayKeys)
      PROVE  Found(new, Plain(k)) = Found(cfg, Plain(k))
  <2>1. ASSUME NEW t \in Found(new, Plain(k)) PROVE t \in Found(cfg, Plain(k))
    <3>1. t.word = k /\ StartsWith(t, Plain(k))
      BY <1>3, FoundPlain DEF Found
    <3>2. PICK l \in new : t = Trim(l)
      BY DEF Found
    <3>3. l \in Kept(cfg)
      BY <1>2, <1>4, <3>1, <3>2
    <3> QED BY <1>1, <3>1, <3>2, <3>3 DEF Found, Kept
  <2>2. ASSUME NEW t \in Found(cfg, Plain(k)) PROVE t \in Found(new, Plain(k))
    <3>1. t.word = k /\ StartsWith(t, Plain(k))
      BY FoundPlain DEF Found
    <3>2. ~Stale(t)
      BY <1>4, <3>1 DEF Stale, StartsWith
    <3>3. t \in Kept(cfg)
      BY <3>2 DEF Found, Kept
    <3>4. t \in new /\ Trim(t) = t
      BY <1>1, <3>3
    <3> QED BY <3>1, <3>4 DEF Found
  <2> QED BY <2>1, <2>2
<1>5. ASSUME op.kind # "put", k \in ArrayKeys
      PROVE  Found(new, Plain(k)) = {}
  <2>1. SUFFICES ASSUME NEW t \in Found(new, Plain(k)) PROVE FALSE
    OBVIOUS
  <2>2. t.word = k
    BY <1>3, FoundPlain
  <2>3. PICK l \in new : t = Trim(l)
    BY DEF Found
  <2>4. l \in Kept(cfg) /\ l.word = k
    BY <1>1, <1>2, <1>5, <2>2, <2>3
  <2> QED BY <1>5, <2>4 DEF Kept, Stale
<1> QED BY <1>4, <1>5

\* A look-up depends on what the name finds only.
LEMMA LookupFound ==
  ASSUME NEW f, NEW g, NEW k
  PROVE  /\ Found(f, Plain(k)) = Found(g, Plain(k)) => Lookup(f, k) = Lookup(g, k)
         /\ Found(f, Plain(k)) = {} => Lookup(f, k) = NoValue
<1> DEFINE found(h) == Found(h, Plain(k))
          look(F) == IF F = {} THEN NoValue ELSE (CHOOSE l \in F : TRUE).val
<1>1. \A h : Lookup(h, k) = look(found(h))
  BY DEF Lookup
<1>2. look({}) = NoValue
  OBVIOUS
<1> HIDE DEF look
<1> QED BY <1>1, <1>2

LEMMA SameMap ==
  ASSUME TypeOK', Contents' = Contents
  PROVE  Store!Next
<1>1. Map' = Map
  BY DEF Map, Lookup, Found
<1>2. AtRisk' \in BOOLEAN
  BY DEF AtRisk, TypeOK
<1> QED BY <1>1, <1>2 DEF Store!Next

LEMMA Cleared ==
  ASSUME TypeOK', Contents' = {}, AtRisk
  PROVE  Store!Next
<1>1. \A k \in Keys : Found({}, Plain(k)) = {}
  BY DEF Found
<1>2. Map' = [k \in Keys |-> NoValue]
  BY <1>1 DEF Map, Lookup
<1>3. AtRisk' \in BOOLEAN
  BY DEF AtRisk, TypeOK
<1> QED BY <1>2, <1>3 DEF Store!Next, Store!Clear

LEMMA StoreStep ==
  TypeOK /\ TypeOK' /\ RewriteInv /\ [Next]_vars => [Store!Next]_<<Map, AtRisk>>
<1>0. UNCHANGED vars => UNCHANGED <<Map, AtRisk>>
  <2>1. UNCHANGED vars => Contents' = Contents /\ AtRisk' = AtRisk
    BY DEF vars, Contents, AtRisk
  <2>2. Contents' = Contents => Map' = Map
    BY DEF Map, Lookup, Found
  <2> QED BY <2>1, <2>2
<1> SUFFICES ASSUME TypeOK, TypeOK', RewriteInv, Next PROVE Store!Next
  BY <1>0
<1>1. ASSUME NEW n, NEW v, pc = "idle", PutProperty(n, v) PROVE Contents' = Contents
  BY <1>1 DEF PutProperty, StartRewrite, Contents, flashVars
<1>2. (\E n \in Names, v \in Texts \cup {NoValue} : Put(n, v) \/ PutRuntime(n, v)) => Store!Next
  BY <1>1, SameMap DEF Put, PutRuntime, Ready, Contents, flashVars
<1>4. CASE RemoveArrayProperty
  BY <1>4, SameMap DEF RemoveArrayProperty, Ready, StartRewrite, Contents
<1>5. CASE CopyLine
  BY <1>5, SameMap DEF CopyLine, Contents
<1>6. CASE WriteNewLine
  BY <1>6, SameMap DEF WriteNewLine, Contents
<1>7. CASE RemoveOld
  <2> DEFINE new == Kept(cfg) \cup NewLines
  <2>1. Contents = cfg /\ Contents' = new
    BY <1>7 DEF RemoveOld, Contents, RewriteInv
  <2>2. op \in Ops /\ cfg \in SUBSET Line /\ new \in SUBSET Line
    BY <2>1, <1>7 DEF RemoveOld, Contents, TypeOK, Ops
  <2>3. Map' = [k \in Keys |-> Lookup(new, k)]
    BY <2>1 DEF Map, Lookup, Found
  <2>4. AtRisk' \in BOOLEAN
    BY DEF AtRisk, TypeOK
  <2>5. CASE op.kind = "put"
    <3> DEFINE w == op.name.word
    <3>1. \A k \in Keys \ {w} : Lookup(new, k) = Lookup(cfg, k)
      <4>1. \A k \in Keys \ {w} : Found(new, Plain(k)) = Found(cfg, Plain(k))
        BY <2>2, <2>5, RewriteEffect
      <4> QED BY <4>1, LookupFound
    <3>2. w \in Keys /\ Lookup(new, w) \in Value
      BY <2>2, LookupType DEF Ops, Name
    <3>3. Map' = [Map EXCEPT ![w] = Lookup(new, w)]
      BY <2>1, <2>3, <3>1 DEF Map
    <3> QED BY <2>4, <3>2, <3>3 DEF Store!Next, Store!Put
  <2>6. CASE op.kind # "put"
    <3>1. \A k \in Keys : Lookup(new, k) = IF k \in ArrayKeys THEN NoValue ELSE Lookup(cfg, k)
      <4>1. \A k \in Keys : Found(new, Plain(k)) =
              IF k \in ArrayKeys THEN {} ELSE Found(cfg, Plain(k))
        BY <2>2, <2>6, RewriteEffect
      <4> QED BY <4>1, LookupFound
    <3>2. Store!RemoveArray
      BY <2>1, <2>3, <3>1 DEF Map, Store!RemoveArray
    <3> QED BY <2>4, <3>2 DEF Store!Next
  <2> QED BY <2>5, <2>6
<1>8. CASE RenameTmp
  BY <1>8, SameMap DEF RenameTmp, Contents
<1>9. CASE PropList
  BY <1>9, SameMap DEF PropList, Contents, flashVars
<1>10. CASE StartFormat
  BY <1>10, SameMap DEF StartFormat, Ready, Contents, flashVars
<1>11. CASE FormatSpiffs
  BY <1>11, Cleared DEF FormatSpiffs, Contents, AtRisk
<1>12. ASSUME NEW full \in BOOLEAN, StartFactoryReset(full) PROVE Store!Next
  BY <1>12, SameMap DEF StartFactoryReset, Ready, Contents, flashVars
<1>13. CASE WipeConfig
  BY <1>13, Cleared DEF WipeConfig, Contents, AtRisk
<1>14. CASE RestoreCalibration
  BY <1>1, <1>14, SameMap DEF RestoreCalibration
<1>15. CASE FactoryRestart
  BY <1>15, SameMap DEF FactoryRestart, LoseRam, Contents, flashVars
<1>16. CASE Reset
  <2>1. CASE pc = "rename"
    BY <1>16, <2>1, Cleared DEF Reset, LoseRam, Contents, AtRisk, RewriteInv
  <2>2. CASE pc # "rename"
    BY <1>16, <2>2, SameMap DEF Reset, LoseRam, Contents
  <2> QED BY <2>1, <2>2
<1>17. CASE Boot
  <2>1. CASE fsOk
    BY <1>17, <2>1, SameMap DEF Boot, Contents
  <2>2. CASE ~fsOk
    BY <1>17, <2>2, Cleared DEF Boot, Contents, AtRisk
  <2> QED BY <2>1, <2>2
<1> QED BY <1>2, <1>4, <1>5, <1>6, <1>7, <1>8, <1>9, <1>10, <1>11, <1>12, <1>13,
           <1>14, <1>15, <1>16, <1>17 DEF Next

\* The store implements the abstract map: a request takes effect as a whole, at
\* one step, and what is stored is lost only where PropertyMap says it can be.
THEOREM Implements == Spec => Durable
<1>1. TypeOK /\ TypeOK' /\ RewriteInv /\ [Next]_vars => [Store!Next]_<<Map, AtRisk>>
  BY StoreStep
<1>2. Spec => Store!Init
  BY StoreInit DEF Spec
<1>3. Spec => [][Store!Next]_<<Map, AtRisk>>
  BY <1>1, TypeCorrect, RewriteCorrect, PTL DEF Spec
<1> QED BY <1>2, <1>3 DEF Durable, Store!Spec

-----------------------------------------------------------------------------
\* Mounting.  Between operations initialized is FALSE, whatever prop_list left
\* mounted, so the assertInit of the next rewrite mounts.

MountInv ==
  IF Rewriting THEN mounted /\ initialized ELSE ~initialized

LEMMA MountStep == TypeOK /\ MountInv /\ [Next]_vars => MountInv'
<1> SUFFICES ASSUME TypeOK, MountInv, [Next]_vars PROVE MountInv'
  OBVIOUS
<1> USE DEF MountInv, Rewriting, TypeOK, Ready, flashVars, resetVars
<1>1. ASSUME NEW n, NEW v, PutProperty(n, v), pc = "idle" PROVE MountInv'
  BY <1>1 DEF PutProperty, Unmounted, Remounted, StartRewrite
<1>2. (\E n \in Names, v \in Texts \cup {NoValue} : Put(n, v) \/ PutRuntime(n, v)) => MountInv'
  BY <1>1 DEF Put, PutRuntime
<1>3. RemoveArrayProperty => MountInv'
  BY DEF RemoveArrayProperty, StartRewrite, AssertInit
<1>4. CopyLine \/ WriteNewLine => MountInv'
  BY DEF CopyLine, WriteNewLine
<1>5. RemoveOld \/ RenameTmp => MountInv'
  BY DEF RemoveOld, RenameTmp, EndInt
<1>6. PropList \/ StartFormat \/ FormatSpiffs \/ WipeConfig => MountInv'
  BY DEF PropList, StartFormat, FormatSpiffs, WipeConfig, EndInt
<1>7. (\E full \in BOOLEAN : StartFactoryReset(full)) => MountInv'
  BY DEF StartFactoryReset
<1>8. RestoreCalibration => MountInv'
  BY <1>1 DEF RestoreCalibration
<1>9. FactoryRestart \/ Reset \/ Boot => MountInv'
  BY DEF FactoryRestart, Reset, Boot, LoseRam, Unmounted
<1>10. UNCHANGED vars => MountInv'
  BY DEF vars
<1> QED BY <1>2, <1>3, <1>4, <1>5, <1>6, <1>7, <1>8, <1>9, <1>10 DEF Next

\* Every step of a rewrite finds the file system mounted.
THEOREM AlwaysMounted == Spec => []RewritesMounted
<1>1. Init => MountInv
  BY DEF Init, MountInv, Rewriting
<1>2. MountInv => RewritesMounted
  BY DEF MountInv, RewritesMounted
<1> QED BY <1>1, <1>2, MountStep, TypeCorrect, PTL DEF Spec

-----------------------------------------------------------------------------
\* The factory reset.  At each point of it the store holds the calibration
\* values put back so far; a put in flight is the next one.

CalibrationLines(S) == {Written(Plain(k), saved[k]) : k \in {c \in S : saved[c] # NoValue}}
Restored == Calibration \ restore

FactoryInv ==
  /\ pc = "wipe" => resetting /\ CalibrationLines(Restored) = {}
  /\ resetting =>
       /\ \A k \in Calibration : saved[k] \in before[k]
       /\ pc \notin {"off", "format"}
       /\ pc = "idle" => cfg = CalibrationLines(Restored)
       /\ pc = "rename" => tmp = CalibrationLines(Restored)
       /\ pc \in {"copy", "remove"} =>
            /\ op.kind = "put" /\ op.name = Plain(op.name.word)
            /\ op.name.word \in Restored /\ op.val = saved[op.name.word]
            /\ cfg = CalibrationLines(Restored \ {op.name.word})

\* The calibration lines are lines, have nothing to trim, and each name finds its own.
LEMMA CalibrationLine ==
  ASSUME TypeOK, NEW k \in Calibration
  PROVE  /\ Written(Plain(k), saved[k]).word = k /\ Written(Plain(k), saved[k]).val = saved[k]
         /\ ~Written(Plain(k), saved[k]).trail
         /\ Written(Plain(k), saved[k]) \in Line
         /\ Trim(Written(Plain(k), saved[k])) = Written(Plain(k), saved[k])
<1>1. k \in Keys /\ saved[k] \in TrimmedValue
  BY ConstantsOK DEF TypeOK, TrimmedValue
<1> DEFINE l == [word |-> k, lead |-> FALSE, trail |-> FALSE, val |-> saved[k]]
<1>2. Written(Plain(k), saved[k]) = l
  BY <1>1, WrittenPlain DEF TrimmedValue
<1>3. l \in Line /\ Trim(l) = l
  BY <1>1 DEF Line, Trim, TrimmedValue, Value
<1> QED BY <1>2, <1>3

\* What a put in flight leaves in the file.
LEMMA PutLines ==
  ASSUME TypeOK, NEW S \in SUBSET Calibration, NEW k \in S, op.kind = "put", op.name = Plain(k),
         op.val = saved[k], cfg = CalibrationLines(S \ {k})
  PROVE  Kept(cfg) \cup NewLines = CalibrationLines(S)
<1>1. \A c \in S \ {k} : ~Stale(Written(Plain(c), saved[c]))
  <2>1. Plain(k).word = k
    BY DEF Plain
  <2>2. \A c \in S \ {k} : Written(Plain(c), saved[c]).word = c
    BY CalibrationLine
  <2> QED BY <2>1, <2>2 DEF Stale, StartsWith
<1>2. Kept(cfg) = cfg
  BY <1>1, CalibrationLine DEF Kept, CalibrationLines
<1>3. NewLines = IF saved[k] # NoValue THEN {Written(Plain(k), saved[k])} ELSE {}
  BY DEF NewLines
<1> QED BY <1>2, <1>3 DEF CalibrationLines

\* What reading a calibration value returns when these lines are all there is.
LEMMA ReadLines ==
  ASSUME TypeOK, NEW S \in SUBSET Calibration, cfg = CalibrationLines(S), NEW k \in Calibration
  PROVE  Reads(Plain(k)) = {IF k \in S THEN saved[k] ELSE NoValue}
<1>1. k \in Keys /\ cfg \in SUBSET Line /\ Plain(k) # Plain(EmptyKey)
  BY ConstantsOK DEF TypeOK, Plain
<1>2. {Trim(l) : l \in cfg} = cfg
  BY CalibrationLine DEF CalibrationLines
<1>3. Found(cfg, Plain(k)) = {t \in cfg : t.word = k /\ ~t.trail}
  BY <1>1, <1>2, FoundPlain
<1>4. \A c \in S : /\ Written(Plain(c), saved[c]).word = c
                   /\ ~Written(Plain(c), saved[c]).trail
                   /\ Written(Plain(c), saved[c]).val = saved[c]
  BY CalibrationLine
<1>5. CASE k \in S /\ saved[k] # NoValue
  <2>1. Found(cfg, Plain(k)) = {Written(Plain(k), saved[k])}
    BY <1>3, <1>4, <1>5 DEF CalibrationLines
  <2>2. After(Written(Plain(k), saved[k]), Plain(k)) = saved[k]
    BY <1>1, <1>4, <1>5, <2>1, FoundPlain
  <2> QED BY <1>1, <1>5, <2>1, <2>2 DEF Reads
<1>6. CASE ~(k \in S /\ saved[k] # NoValue)
  <2>1. Found(cfg, Plain(k)) = {}
    BY <1>3, <1>4, <1>6 DEF CalibrationLines
  <2> QED BY <1>6, <2>1 DEF Reads
<1> QED BY <1>5, <1>6

LEMMA FactoryStep == TypeOK /\ RewriteInv /\ FactoryInv /\ [Next]_vars => FactoryInv'
<1> SUFFICES ASSUME TypeOK, RewriteInv, FactoryInv, [Next]_vars PROVE FactoryInv'
  OBVIOUS
<1>1. ASSUME NEW n, NEW v, ~resetting, pc = "idle", PutProperty(n, v), UNCHANGED resetVars
      PROVE FactoryInv'
  BY <1>1 DEF PutProperty, StartRewrite, FactoryInv, resetVars, flashVars
<1>2. (\E n \in Names, v \in Texts \cup {NoValue} : Put(n, v) \/ PutRuntime(n, v)) => FactoryInv'
  BY <1>1 DEF Put, PutRuntime, Ready, FactoryInv, resetVars, flashVars
<1>3. CASE RemoveArrayProperty
  BY <1>3 DEF RemoveArrayProperty, Ready, StartRewrite, FactoryInv, resetVars
<1>4. CASE CopyLine
  BY <1>4 DEF CopyLine, FactoryInv, CalibrationLines, Restored, resetVars
<1>5. CASE WriteNewLine
  BY <1>5 DEF WriteNewLine, FactoryInv, CalibrationLines, Restored, resetVars
<1>6. CASE RemoveOld
  <2>1. resetting => tmp = CalibrationLines(Restored)
    BY <1>6, PutLines DEF RemoveOld, FactoryInv, RewriteInv, Restored
  <2> QED BY <2>1, <1>6 DEF RemoveOld, FactoryInv, CalibrationLines, Restored, resetVars
<1>7. CASE RenameTmp
  BY <1>7 DEF RenameTmp, FactoryInv, CalibrationLines, Restored, resetVars
<1>8. CASE PropList \/ StartFormat \/ FormatSpiffs
  BY <1>8 DEF PropList, StartFormat, FormatSpiffs, Ready, FactoryInv, CalibrationLines,
              Restored, resetVars, flashVars
<1>9. ASSUME NEW full \in BOOLEAN, StartFactoryReset(full) PROVE FactoryInv'
  <2>1. (CalibrationLines(Restored))' = {}
    BY <1>9 DEF StartFactoryReset, CalibrationLines, Restored
  <2>2. \A k \in Calibration : saved'[k] \in before'[k]
    BY <1>9 DEF StartFactoryReset
  <2> QED BY <2>1, <2>2, <1>9 DEF StartFactoryReset, FactoryInv
<1>10. CASE WipeConfig
  BY <1>10 DEF WipeConfig, FactoryInv, CalibrationLines, Restored, resetVars
<1>11. CASE RestoreCalibration
  <2>1. PICK k \in restore : PutProperty(Plain(k), saved[k]) /\ restore' = restore \ {k}
    BY <1>11 DEF RestoreCalibration
  <2>2. k \in Calibration /\ k \notin Restored /\ Restored' = Restored \cup {k}
    BY <2>1, <1>11 DEF TypeOK, Restored, RestoreCalibration
  <2>3. pc = "idle" /\ saved' = saved /\ resetting' = resetting /\ before' = before
    BY <1>11 DEF RestoreCalibration
  <2>4. CASE resetting
    <3>1. cfg = CalibrationLines(Restored)
      BY <2>3, <2>4 DEF FactoryInv
    <3>2. Reads(Plain(k)) = {NoValue}
      BY <2>2, <3>1, ReadLines DEF Restored
    <3>3. CASE saved[k] = NoValue
      <4>1. UNCHANGED <<cfg, pc>>
        BY <2>1, <3>2, <3>3 DEF PutProperty, flashVars
      <4>2. CalibrationLines(Restored) = CalibrationLines(Restored \cup {k})
        BY <3>3 DEF CalibrationLines
      <4> QED BY <4>1, <4>2, <3>1, <2>2, <2>3, <2>4 DEF FactoryInv, CalibrationLines
    <3>4. CASE saved[k] # NoValue
      <4>1. StartRewrite([kind |-> "put", name |-> Plain(k), val |-> saved[k]])
        BY <2>1, <3>2, <3>4 DEF PutProperty
      <4>2. Restored' \ {k} = Restored
        BY <2>2
      <4>3. cfg' = CalibrationLines(Restored) /\ pc' = "copy" /\ op'.kind = "put"
            /\ op'.name = Plain(k) /\ op'.val = saved[k] /\ op'.name.word = k
        BY <4>1, <3>1 DEF StartRewrite, Plain
      <4>4. \A c \in Calibration : saved[c] \in before[c]
        BY <2>4 DEF FactoryInv
      <4> QED BY <4>2, <4>3, <4>4, <2>2, <2>3, <2>4 DEF FactoryInv, CalibrationLines
    <3> QED BY <3>3, <3>4
  <2>5. CASE ~resetting
    BY <2>1, <2>3, <2>5 DEF PutProperty, StartRewrite, FactoryInv
  <2> QED BY <2>4, <2>5
<1>12. CASE FactoryRestart \/ Reset \/ Boot
  BY <1>12 DEF FactoryRestart, Reset, Boot, LoseRam, FactoryInv, resetVars
<1>13. CASE UNCHANGED vars
  BY <1>13 DEF vars, FactoryInv, CalibrationLines, Restored
<1> QED BY <1>2, <1>3, <1>4, <1>5, <1>6, <1>7, <1>8, <1>9, <1>10, <1>11, <1>12, <1>13 DEF Next

\* A factory reset that reaches its restart leaves the calibration it read and
\* nothing else, whatever was interrupted before it.
THEOREM CalibrationKept == Spec => []FactoryKeepsCalibration
<1>1. Init => FactoryInv
  BY DEF Init, FactoryInv
<1>2. TypeOK /\ FactoryInv => FactoryKeepsCalibration
  <2> SUFFICES ASSUME TypeOK, FactoryInv, resetting, pc = "idle", restore = {}
               PROVE  /\ \A l \in cfg : l.word \in Calibration
                      /\ \A k \in Calibration : Reads(Plain(k)) \subseteq before[k]
    BY DEF FactoryKeepsCalibration
  <2>1. cfg = CalibrationLines(Calibration) /\ \A k \in Calibration : saved[k] \in before[k]
    BY DEF FactoryInv, Restored
  <2>2. \A l \in cfg : l.word \in Calibration
    BY <2>1, CalibrationLine DEF CalibrationLines
  <2>3. \A k \in Calibration : Reads(Plain(k)) \subseteq before[k]
    BY <2>1, ReadLines
  <2> QED BY <2>2, <2>3
<1> QED BY <1>1, <1>2, FactoryStep, TypeCorrect, RewriteCorrect, PTL DEF Spec

-----------------------------------------------------------------------------
\* What the plugins know.  During a rewrite they are one request ahead of the
\* file; the remove closes the gap.

Agree(f, k) == \A t \in Told(f, k) : Trimmed(live[k]) = t \/ (t = Unset /\ live[k] = NoValue)
Faithful == Keys \ (shadowed \cup strays \cup {EmptyKey})
Pending(k) == op.kind = "put" /\ k = op.name.word

LiveInv ==
  /\ pc = "idle" => \A k \in Faithful : Agree(cfg, k)
  /\ pc \in {"copy", "remove"} =>
       /\ \A k \in Faithful : Agree(cfg, k) \/ Pending(k)
       /\ op.kind = "put" => op.name # Plain(op.name.word) \/ live[op.name.word] = op.val
       /\ op.kind # "put" => ArrayKeys \subseteq shadowed
  /\ pc = "rename" => \A k \in Faithful : Agree(tmp, k)

\* What the next boot tells of a name, by the lines of its word.
LEMMA ToldPlain ==
  ASSUME NEW f \in SUBSET Line, NEW k \in Keys
  PROVE  /\ (\A l \in f : l.word # k) => Told(f, k) = {Unset}
         /\ \A l \in f : l.word = k /\ (\A m \in f : m.word = k => m = l) =>
              Told(f, k) = {TrimValue(l.val)}
BY DEF Told

\* It tells one value of a name that is not mistaken for another.
LEMMA ToldOnce ==
  ASSUME NEW f \in SUBSET Line, Neat(f), NEW k \in Keys, k \notin strays
  PROVE  \E t : Told(f, k) = {t} /\ Trimmed(t) = t
<1>1. CASE \E l \in f : l.word = k
  <2>1. PICK l \in f : l.word = k
    BY <1>1
  <2>2. Told(f, k) = {TrimValue(l.val)}
    BY <2>1, ToldPlain DEF Neat
  <2>3. Trimmed(TrimValue(l.val)) = TrimValue(l.val)
    BY TrimValueType DEF Trimmed, Line
  <2> QED BY <2>2, <2>3
<1>2. CASE ~(\E l \in f : l.word = k)
  BY <1>2, ToldPlain DEF Trimmed
<1> QED BY <1>1, <1>2

\* A name whose current value is put again agrees with the file.
LEMMA SameAgrees ==
  ASSUME cfg \in SUBSET Line, Neat(cfg), NEW k \in Keys, k \notin strays, k # EmptyKey,
         NEW v \in Reads(Plain(k))
  PROVE  \A t \in Told(cfg, k) : Trimmed(v) = t \/ (t = Unset /\ v = NoValue)
<1>1. Plain(k) # Plain(EmptyKey)
  BY DEF Plain
<1>2. Found(cfg, Plain(k)) = {t \in {Trim(l) : l \in cfg} : t.word = k /\ ~t.trail}
  BY FoundPlain
<1>3. \A l \in cfg : /\ Trim(l).word = l.word /\ Trim(l).trail = l.trail
                     /\ TrimValue(Trim(l).val) = TrimValue(l.val)
                     /\ Trim(l).val \in Value
  BY TrimType DEF TrimmedValue
<1>4. CASE \E l \in cfg : l.word = k
  <2>1. PICK l \in cfg : l.word = k
    BY <1>4
  <2>2. ~l.trail /\ \A m \in cfg : m.word = k => m = l
    BY <2>1 DEF Neat
  <2>3. Found(cfg, Plain(k)) = {Trim(l)}
    BY <1>2, <1>3, <2>1, <2>2
  <2>4. v = Trim(l).val
    BY <1>1, <2>3, FoundPlain DEF Reads
  <2>5. Told(cfg, k) = {TrimValue(l.val)}
    BY <2>1, <2>2, ToldPlain
  <2>6. v # Unset
    BY <1>3, <2>4, ConstantsOK
  <2> QED BY <1>3, <2>4, <2>5, <2>6 DEF Trimmed
<1>5. CASE ~(\E l \in cfg : l.word = k)
  <2>1. Found(cfg, Plain(k)) = {}
    BY <1>2, <1>3, <1>5
  <2>2. v = NoValue
    BY <2>1 DEF Reads
  <2>3. Told(cfg, k) = {Unset}
    BY <1>5, ToldPlain
  <2> QED BY <2>2, <2>3
<1> QED BY <1>4, <1>5

\* What a boot tells of a name after a rewrite: what it told before, but for the
\* name that was put and the names of a removed array.
LEMMA RewriteTells ==
  ASSUME cfg \in SUBSET Line, op \in Ops, Neat(cfg), NEW k \in Keys
  PROVE  /\ (op.kind = "put" /\ k # op.name.word) \/ (op.kind # "put" /\ k \notin ArrayKeys) =>
              Told(Kept(cfg) \cup NewLines, k) = Told(cfg, k)
         /\ op.kind = "put" /\ k = op.name.word /\ op.name = Plain(k) /\ k \notin strays =>
              Told(Kept(cfg) \cup NewLines, k) =
                {IF op.val = NoValue THEN Unset ELSE TrimValue(op.val)}
<1> DEFINE new == Kept(cfg) \cup NewLines
<1>1. \A l \in cfg : /\ Trim(l).word = l.word /\ Trim(l).trail = l.trail /\ ~Trim(l).lead
                     /\ TrimValue(Trim(l).val) = TrimValue(l.val)
  BY TrimType
<1>2. \A l \in NewLines : op.kind = "put" /\ l = Written(op.name, op.val) /\ l.word = op.name.word
  BY WrittenType DEF NewLines, Ops
<1>3. ASSUME (op.kind = "put" /\ k # op.name.word) \/ (op.kind # "put" /\ k \notin ArrayKeys)
      PROVE  Told(new, k) = Told(cfg, k)
  <2>1. \A l \in cfg : l.word = k => Trim(l) \in new
    BY <1>1, <1>3 DEF Kept, Stale, StartsWith
  <2>2. \A t \in new : t.word = k => \E l \in cfg : t = Trim(l) /\ l.word = k
    BY <1>1, <1>2, <1>3 DEF Kept
  <2>3. {TrimValue(l.val) : l \in {m \in new : m.word = k}} =
        {TrimValue(l.val) : l \in {m \in cfg : m.word = k}}
    BY <1>1, <2>1, <2>2
  <2>4. (\E l \in new : l.word = k) <=> (\E l \in cfg : l.word = k)
    BY <1>1, <2>1, <2>2
  <2> QED BY <2>3, <2>4 DEF Told
<1>4. ASSUME op.kind = "put", k = op.name.word, op.name = Plain(k), k \notin strays
      PROVE  Told(new, k) = {IF op.val = NoValue THEN Unset ELSE TrimValue(op.val)}
  <2>1. \A t \in Kept(cfg) : t.word # k
    <3>1. SUFFICES ASSUME NEW t \in Kept(cfg), t.word = k PROVE FALSE
      OBVIOUS
    <3>2. PICK l \in cfg : t = Trim(l)
      BY DEF Kept
    <3>3. l.word = k /\ ~l.trail
      BY <1>1, <1>4, <3>1, <3>2 DEF Neat
    <3>4. t \in Line /\ ~t.lead /\ ~t.trail
      BY <1>1, <3>2, <3>3, TrimType
    <3>5. StartsWith(t, Plain(k))
      BY <3>1, <3>4 DEF StartsWith, Plain, Line
    <3> QED BY <1>4, <3>5 DEF Kept, Stale
  <2>2. CASE op.val = NoValue
    BY <1>4, <2>1, <2>2 DEF Told, NewLines
  <2>3. CASE op.val # NoValue
    <3>1. NewLines = {Written(Plain(k), op.val)}
      BY <1>4, <2>3 DEF NewLines
    <3>2. Written(Plain(k), op.val).word = k /\ Written(Plain(k), op.val).val = op.val
      BY WrittenPlain DEF Ops
    <3> QED BY <2>1, <2>3, <3>1, <3>2 DEF Told
  <2> QED BY <2>2, <2>3
<1> QED BY <1>3, <1>4

LEMMA LiveStep == TypeOK /\ RewriteInv /\ LiveInv /\ [Next]_vars => LiveInv'
<1> SUFFICES ASSUME TypeOK, RewriteInv, LiveInv, [Next]_vars PROVE LiveInv'
  OBVIOUS
<1>0. cfg \in SUBSET Line /\ op \in Ops /\ Neat(cfg) /\ live \in [Keys -> Value \cup {Unset}]
  BY DEF TypeOK, Ops, RewriteInv
<1>1. ASSUME NEW n \in Name, NEW v \in Value, pc = "idle", PutProperty(n, v) PROVE LiveInv'
  <2> DEFINE k == n.word
  <2>1. \A c \in Faithful' : c \in Keys /\ c \notin strays /\ c # EmptyKey
                             /\ (c # k => c \in Faithful /\ live'[c] = live[c])
    BY <1>0, <1>1 DEF PutProperty, Report, Confuse, Faithful
  <2>2. k \in Faithful' => n = Plain(k)
    BY <1>1 DEF PutProperty, Confuse, Faithful
  <2>3. k \in Keys /\ (n = Plain(k) => live'[k] = v)
    BY <1>0, <1>1 DEF PutProperty, Report, Name
  <2>4. cfg' = cfg
    BY <1>1 DEF PutProperty, StartRewrite, flashVars
  <2>5. ASSUME NEW c \in Faithful', c # k PROVE Agree(cfg, c)'
    BY <1>1, <2>1, <2>4, <2>5 DEF LiveInv, Agree, Told
  <2>6. PICK current \in Reads(n) :
          IF current = v
          THEN UNCHANGED <<flashVars, pc, op, unread>>
          ELSE StartRewrite([kind |-> "put", name |-> n, val |-> v])
    BY <1>1 DEF PutProperty
  <2>7. CASE current = v
    <3>1. ASSUME k \in Faithful' PROVE Agree(cfg, k)'
      <4>1. \A t \in Told(cfg, k) : Trimmed(v) = t \/ (t = Unset /\ v = NoValue)
        BY <1>0, <2>1, <2>2, <2>6, <2>7, <3>1, SameAgrees
      <4> QED BY <4>1, <2>2, <2>3, <2>4, <3>1 DEF Agree, Told
    <3>2. pc' = "idle"
      BY <1>1, <2>6, <2>7
    <3> QED BY <2>5, <3>1, <3>2 DEF LiveInv
  <2>8. CASE current # v
    <3>1. pc' = "copy" /\ op' = [kind |-> "put", name |-> n, val |-> v]
      BY <2>6, <2>8 DEF StartRewrite
    <3>2. Pending(k)'
      BY <3>1 DEF Pending
    <3> QED BY <2>3, <2>5, <3>1, <3>2 DEF LiveInv
  <2> QED BY <2>7, <2>8
<1>2. ASSUME NEW n \in Names, NEW v \in Texts \cup {NoValue}, Put(n, v) PROVE LiveInv'
  BY <1>1, <1>2, ConstantsOK, NoValueType DEF Put, Ready
<1>3. ASSUME NEW n \in Names, NEW v \in Texts \cup {NoValue}, PutRuntime(n, v) PROVE LiveInv'
  <2>1. \A k \in Faithful' : k \in Faithful /\ live'[k] = live[k]
    BY <1>0, <1>3 DEF PutRuntime, Report, Faithful
  <2>2. cfg' = cfg /\ pc' = "idle" /\ pc = "idle"
    BY <1>3 DEF PutRuntime, Ready, flashVars
  <2> QED BY <2>1, <2>2 DEF LiveInv, Agree, Told
<1>4. CASE RemoveArrayProperty
  <2>1. /\ pc = "idle" /\ pc' = "copy" /\ cfg' = cfg /\ live' = live /\ strays' = strays
        /\ shadowed' = shadowed \cup ArrayKeys /\ op' = [NoOp EXCEPT !.kind = "remove"]
    BY <1>4 DEF RemoveArrayProperty, Ready, StartRewrite
  <2>2. op'.kind # "put"
    BY <2>1 DEF NoOp
  <2> QED BY <2>1, <2>2 DEF LiveInv, Agree, Told, Faithful
<1>5. CASE CopyLine
  BY <1>5 DEF CopyLine, LiveInv, Agree, Told, Faithful, Pending
<1>6. CASE WriteNewLine
  BY <1>6 DEF WriteNewLine, LiveInv, Agree, Told, Faithful, Pending
<1>7. CASE RemoveOld
  <2>1. tmp = Kept(cfg) \cup NewLines
    BY <1>7 DEF RemoveOld, RewriteInv
  <2>2. ASSUME NEW k \in Faithful PROVE Agree(tmp, k)
    <3>1. k \in Keys /\ k \notin strays /\ k \notin shadowed
      BY DEF Faithful
    <3>2. CASE Pending(k)
      <4>1. op.name = Plain(k) /\ live[k] = op.val
        BY <1>7, <3>1, <3>2 DEF RemoveOld, RewriteInv, LiveInv, Pending
      <4>2. Told(tmp, k) = {IF op.val = NoValue THEN Unset ELSE TrimValue(op.val)}
        BY <1>0, <2>1, <3>1, <3>2, <4>1, RewriteTells DEF Pending
      <4>3. op.val # Unset
        BY <1>0, ConstantsOK DEF Ops
      <4> QED BY <4>1, <4>2, <4>3 DEF Agree, Trimmed
    <3>3. CASE ~Pending(k)
      <4>1. Agree(cfg, k)
        BY <1>7, <3>3 DEF RemoveOld, LiveInv
      <4>2. Told(tmp, k) = Told(cfg, k)
        <5>1. (op.kind = "put" /\ k # op.name.word) \/ (op.kind # "put" /\ k \notin ArrayKeys)
          BY <1>7, <3>1, <3>3 DEF RemoveOld, LiveInv, Pending
        <5> QED BY <1>0, <2>1, <3>1, <5>1, RewriteTells
      <4> QED BY <4>1, <4>2 DEF Agree
    <3> QED BY <3>2, <3>3
  <2> QED BY <2>2, <1>7 DEF RemoveOld, LiveInv, Agree, Told, Faithful
<1>8. CASE RenameTmp
  BY <1>8 DEF RenameTmp, LiveInv, Agree, Told, Faithful
<1>9. CASE PropList
  BY <1>9 DEF PropList, LiveInv, Agree, Told, Faithful, Pending, flashVars
<1>10. CASE StartFormat
  BY <1>10 DEF StartFormat, LiveInv
<1>11. CASE FormatSpiffs \/ WipeConfig
  BY <1>11 DEF FormatSpiffs, WipeConfig, LiveInv, Faithful
<1>12. ASSUME NEW full \in BOOLEAN, StartFactoryReset(full) PROVE LiveInv'
  BY <1>12 DEF StartFactoryReset, LiveInv
<1>13. CASE RestoreCalibration
  <2>1. PICK k \in restore : PutProperty(Plain(k), saved[k])
    BY <1>13 DEF RestoreCalibration
  <2>2. Plain(k) \in Name /\ saved[k] \in Value
    BY ConstantsOK, PlainType DEF TypeOK
  <2> QED BY <2>1, <2>2, <1>1, <1>13 DEF RestoreCalibration
<1>14. CASE FactoryRestart \/ Reset
  BY <1>14 DEF FactoryRestart, Reset, LoseRam, LiveInv
<1>15. CASE Boot
  <2>1. cfg' \in SUBSET Line /\ pc' = "idle" /\ Neat(cfg') /\ strays' = strays
    BY <1>0, <1>15 DEF Boot, Neat
  <2>2. ASSUME NEW k \in Keys, k \notin strays PROVE Agree(cfg, k)'
    <3>1. live'[k] \in Told(cfg', k)
      BY <1>15 DEF Boot
    <3>2. PICK t : Told(cfg', k) = {t} /\ Trimmed(t) = t
      BY <2>1, <2>2, ToldOnce
    <3>3. live'[k] = t
      BY <3>1, <3>2
    <3> QED BY <3>2, <3>3 DEF Agree, Told, Trimmed
  <2> QED BY <2>1, <2>2 DEF LiveInv, Faithful
<1>16. CASE UNCHANGED vars
  BY <1>16 DEF vars, LiveInv, Agree, Told, Faithful, Pending
<1> QED BY <1>2, <1>3, <1>4, <1>5, <1>6, <1>7, <1>8, <1>9, <1>10, <1>11, <1>12, <1>13,
           <1>14, <1>15, <1>16 DEF Next

\* Between operations every plugin knows, of each name neither set at run time
\* only, nor removed or wiped behind its back, nor mistaken for another, what the
\* next boot would tell it, up to the blanks at the ends.
THEOREM LiveAlwaysAgrees == Spec => []LiveAgrees
<1>1. Init => LiveInv
  BY DEF Init, LiveInv
<1>2. LiveInv => LiveAgrees
  BY DEF LiveInv, LiveAgrees, Agree, Faithful
<1> QED BY <1>1, <1>2, LiveStep, TypeCorrect, RewriteCorrect, PTL DEF Spec
=============================================================================
