---------------------------- MODULE PropertyText ----------------------------
(***************************************************************************)
(* The names, values and lines of the configuration file, and what         *)
(* PropertyList.cpp does to them: it writes name=value, trims lines when   *)
(* it copies or reads them, finds a property by its name= at the start of  *)
(* a line, and trims name and value when it tells them to the plugins.     *)
(* Nothing keeps users from names with blanks at their ends or with an =   *)
(* in them; a text is a word with what these conversions look at.          *)
(***************************************************************************)
CONSTANTS
  Keys,    (* the names plugins know: no blanks at their ends and no =      *)
  Words,   (* what is left of a value without blanks at its ends            *)
  NoWord,  (* nothing is left                                               *)
  Heads,   (* what stands between the first = of a line and another =       *)
  NoHead   (* there is no other =                                           *)

\* A name: blanks before it, blanks before its first =, what follows that =.
Name == [word : Keys, lead : BOOLEAN, trail : BOOLEAN, head : Heads \cup {NoHead}]

\* A value: what stands before an = in it, and blanks around the rest.
Value == {v \in [head : Heads \cup {NoHead}, lead : BOOLEAN,
                 word : Words \cup {NoWord}, trail : BOOLEAN] :
            v.lead => v.word # NoWord}

\* A line up to its first =, and all that follows as its value.
Line == [word : Keys, lead : BOOLEAN, trail : BOOLEAN, val : Value]

Plain(k) == [word |-> k, lead |-> FALSE, trail |-> FALSE, head |-> NoHead]
NoValue == [head |-> NoHead, lead |-> FALSE, word |-> NoWord, trail |-> FALSE]

\* out << key << "=" << value
Written(n, v) ==
  [word |-> n.word, lead |-> n.lead, trail |-> n.trail,
   val |-> [head |-> IF n.head = NoHead THEN v.head ELSE n.head,
            lead |-> v.lead, word |-> v.word, trail |-> v.trail]]

\* line.trim()
Trim(l) ==
  [word |-> l.word, lead |-> FALSE, trail |-> l.trail,
   val |-> [head |-> l.val.head, lead |-> l.val.lead, word |-> l.val.word, trail |-> FALSE]]

\* line.startsWith(key + "=")
StartsWith(l, n) ==
  /\ l.word = n.word /\ l.lead = n.lead /\ l.trail = n.trail
  /\ n.head \in {NoHead, l.val.head}

\* line.c_str() + _key.length(): what follows name= on a line that starts with it.
After(l, n) ==
  [head |-> IF n.head = NoHead THEN l.val.head ELSE NoHead,
   lead |-> l.val.lead, word |-> l.val.word, trail |-> l.val.trail]

\* value.trim(): the blanks behind an = inside the value stay.
TrimValue(v) ==
  [head |-> v.head, lead |-> v.lead /\ v.head # NoHead, word |-> v.word, trail |-> FALSE]
=============================================================================
