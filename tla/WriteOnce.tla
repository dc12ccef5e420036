------------------------------- MODULE WriteOnce -------------------------------
(***************************************************************************)
(* A table with a unique key, as the rest of the program sees it: a row    *)
(* appears once, whole, and is never changed or removed.  Accounts (the    *)
(* users table) and Ratings (the ratings table) implement this.            *)
(***************************************************************************)
CONSTANTS Keys, Values, Absent

VARIABLE store   \* the value stored under each key, or Absent

Init == store = [k \in Keys |-> Absent]

Put(k, v) == store[k] = Absent /\ store' = [store EXCEPT ![k] = v]

Next == \E k \in Keys, v \in Values : Put(k, v)

Spec == Init /\ [][Next]_store
================================================================================
