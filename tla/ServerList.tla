----------------------------- MODULE ServerList -----------------------------
(***************************************************************************)
(* The vector `active_servers_` of ConsistentHashRing: the ids of the      *)
(* backends that are on the ring, in the order in which they were added.   *)
(* The order matters to SessionManager::forceReassign, which takes the     *)
(* first entry that differs from the session's current backend.            *)
(***************************************************************************)
EXTENDS Integers, Sequences

(* The ids a list holds. *)
Members(list) == {list[i] : i \in 1..Len(list)}

(* The list never holds an id twice: addServer returns early for an id     *)
(* that is already there.                                                  *)
NoRepeats(list) ==
  \A i, j \in 1..Len(list) : list[i] = list[j] => i = j

(* The position of an id that is in the list. *)
IndexOf(list, s) == CHOOSE i \in 1..Len(list) : list[i] = s

(* std::remove followed by erase.  On a list without repeats there is at   *)
(* most one entry to take out; the entries behind it move up by one.       *)
Without(list, s) ==
  IF s \in Members(list)
  THEN [i \in 1..(Len(list) - 1) |->
          IF i < IndexOf(list, s) THEN list[i] ELSE list[i + 1]]
  ELSE list
=============================================================================
