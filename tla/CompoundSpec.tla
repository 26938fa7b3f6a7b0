---------------------------- MODULE CompoundSpec ----------------------------
(***************************************************************************)
(* What a Compound promises through find, upsert and the typed accessors:  *)
(* an ordered map.  Keys keep the order in which they arrived, a reference *)
(* to a key's value is as good as the key until a new key is added, and    *)
(* entries that repeat an earlier key are not seen.                        *)
(***************************************************************************)
CONSTANTS
  Names, Values, Kinds,
  KindOf(_),    \* the arm of a Value
  Holders       \* the callers' references

VARIABLES
  value,        \* the value of every key that is there
  before,       \* the pairs of keys whose first is ahead of the second
  refs,         \* per reference: {the key whose value it refers to}, or {}
  answer        \* what the last call or read gave

vars == <<value, before, refs, answer>>

Here == DOMAIN value

\* Not a Value.
No(code) == <<code, 0>>

Init ==
  /\ value \in UNION {[N -> Values] : N \in SUBSET Names}
  /\ before \in SUBSET (Here \X Here)
  /\ refs = [h \in Holders |-> {}]
  /\ answer = No("nullptr")

Find(h, n) ==
  /\ refs' = [refs EXCEPT ![h] = IF n \in Here THEN {n} ELSE {}]
  /\ answer' = IF n \in Here THEN value[n] ELSE No("nullptr")
  /\ UNCHANGED <<value, before>>

Get(n, kind) ==
  /\ answer' = IF n \notin Here THEN No("UnknownTagId")
               ELSE IF KindOf(value[n]) = kind THEN value[n]
               ELSE No("UnexpectedRootType")
  /\ UNCHANGED <<value, before, refs>>

Replace(h, n, v) ==
  /\ n \in Here
  /\ value' = [value EXCEPT ![n] = v]
  /\ refs' = [refs EXCEPT ![h] = {n}]
  /\ answer' = v
  /\ UNCHANGED before

\* A new key comes last.  The other references may or may not survive.
Add(h, n, v) ==
  /\ n \notin Here
  /\ value' = [m \in Here \cup {n} |-> IF m = n THEN v ELSE value[m]]
  /\ before' = before \cup (Here \X {n})
  /\ \E kept \in {refs, [g \in Holders |-> {}]} :
       refs' = [kept EXCEPT ![h] = {n}]
  /\ answer' = v

Read(h) ==
  /\ \E n \in refs[h] : answer' = value[n]
  /\ UNCHANGED <<value, before, refs>>

Assign(h, v) ==
  /\ \E n \in refs[h] : value' = [value EXCEPT ![n] = v]
  /\ answer' = v
  /\ UNCHANGED <<before, refs>>

Next ==
  \/ \E h \in Holders, n \in Names : Find(h, n)
  \/ \E n \in Names, kind \in Kinds : Get(n, kind)
  \/ \E h \in Holders, n \in Names, v \in Values : Replace(h, n, v)
  \/ \E h \in Holders, n \in Names, v \in Values : Add(h, n, v)
  \/ \E h \in Holders : Read(h)
  \/ \E h \in Holders, v \in Values : Assign(h, v)

Spec == Init /\ [][Next]_vars

=============================================================================
