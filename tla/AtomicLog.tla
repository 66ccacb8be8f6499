------------------------------ MODULE AtomicLog ------------------------------
(***************************************************************************)
(* What audit.Log promises, without transactions: the table grows by one row *)
(* at a time, each newer than every row before it and chained to the newest, *)
(* and no row is ever altered or removed.                                    *)
(***************************************************************************)
EXTENDS Integers, Sequences

CONSTANTS
  Entries,      \* what can be logged
  Ids,
  First,        \* the table as it was found
  HMAC(_, _)    \* the hash of an entry chained to a hash

VARIABLE rows

Init == rows = First

(* The hashes a new row may link to: that of the newest row, or nothing.     *)
Tips ==
  IF DOMAIN rows = {} THEN {<< >>}
  ELSE {rows[i].hash : i \in {i \in DOMAIN rows : \A j \in DOMAIN rows : j <= i}}

AppendRow(i, e, tip) ==
  /\ \A j \in DOMAIN rows : j < i
  /\ rows' = [j \in DOMAIN rows \cup {i} |->
                IF j = i THEN [event |-> e.event, target |-> e.target, cipher |-> e.cipher,
                               prev |-> tip, hash |-> HMAC(e, tip)]
                ELSE rows[j]]

Next == \E i \in Ids, e \in Entries, tip \in Tips : AppendRow(i, e, tip)

Spec == Init /\ [][Next]_rows
=============================================================================
