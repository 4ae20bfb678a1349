---------------------------- MODULE StoreTable ----------------------------
(***************************************************************************)
(* What the configuration store promises to the methods of the Manager: a   *)
(* table of entries, each with a text that never changes and a label that    *)
(* says what the classifier made of it.  An entry appears whole, is          *)
(* unlabelled for a moment after it appears and before it goes, and an id    *)
(* that was used once is never used again.  Store.tla, with its files,       *)
(* concurrent calls and crashes, implements this specification.              *)
(***************************************************************************)
CONSTANTS
  Id,        \* configuration ids
  Text,      \* contents of configurations
  SafeText,  \* those `is_safe` accepts
  Nothing    \* no entry

VARIABLES
  table,     \* id -> its entry, or Nothing
  spent      \* ids that have had an entry

Verdict(t) == IF t \in SafeText THEN "safe" ELSE "unsafe"
Entry == [text : Text, label : {"safe", "unsafe", "none"}]

TableInit ==
  /\ table = [i \in Id |-> Nothing]
  /\ spent = {}

Put(i, t) ==
  /\ i \notin spent
  /\ table' = [table EXCEPT ![i] = [text |-> t, label |-> "none"]]
  /\ spent' = spent \cup {i}

Label(i, label) ==
  /\ table[i] # Nothing
  /\ label \in {"none", Verdict(table[i].text)}
  /\ table' = [table EXCEPT ![i].label = label]
  /\ UNCHANGED spent

Drop(i) ==
  /\ table' = [table EXCEPT ![i] = Nothing]
  /\ UNCHANGED spent

TableNext == \E i \in Id :
  \/ \E t \in Text : Put(i, t)
  \/ \E label \in {"safe", "unsafe", "none"} : Label(i, label)
  \/ Drop(i)

TableSpec == TableInit /\ [][TableNext]_<<table, spent>>
=============================================================================
