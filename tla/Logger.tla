-------------------------------- MODULE Logger --------------------------------
(***************************************************************************)
(* The logger singleton (logger.cpp): whether logging is enabled and the   *)
(* state of its two output streams.  What matters to a caller is whether a *)
(* line it logs reaches the file.  A stream drops every line while it is   *)
(* closed or not good, without a word; only a successful open makes it     *)
(* good again.                                                             *)
(***************************************************************************)

VARIABLES
  enabled,        \* enabled_
  request_file,   \* request_file_
  system_file     \* system_file_

Stream == [is_open : BOOLEAN, good : BOOLEAN]

(* Opening a stream that is open already fails and leaves it open.         *)
opened(f, ok) ==
  IF f.is_open THEN [f EXCEPT !.good = FALSE]
  ELSE [is_open |-> ok, good |-> ok]

closed(f) == [f EXCEPT !.is_open = FALSE]

written(f) == [f EXCEPT !.good = f.good /\ f.is_open]

(* A line logged to stream f now would be in the file.                     *)
Records(f) == enabled /\ f.is_open /\ f.good

TypeOK ==
  /\ enabled \in BOOLEAN
  /\ request_file \in Stream
  /\ system_file \in Stream

Init ==
  /\ enabled = FALSE
  /\ request_file = [is_open |-> FALSE, good |-> TRUE]
  /\ system_file = [is_open |-> FALSE, good |-> TRUE]
-----------------------------------------------------------------------------
logRequest ==
  request_file' = IF enabled THEN written(request_file) ELSE request_file

logSystem ==
  system_file' = IF enabled THEN written(system_file) ELSE system_file

(* init(false). *)
InitOff ==
  /\ enabled' = FALSE
  /\ UNCHANGED <<request_file, system_file>>

(* init(true) returns false.  It has set enabled_ first, and what it had   *)
(* opened before the failure stays open.                                   *)
InitFails ==
  /\ enabled' = TRUE
  /\ \/ UNCHANGED <<request_file, system_file>>
     \/ /\ request_file' = opened(request_file, FALSE)
        /\ ~request_file'.is_open
        /\ UNCHANGED system_file
     \/ /\ request_file' = opened(request_file, TRUE)
        /\ system_file' = opened(system_file, FALSE)
        /\ ~system_file'.is_open

(* init(true) returns true; its first line goes to the system log.         *)
InitOn ==
  /\ enabled' = TRUE
  /\ request_file' = opened(request_file, TRUE)
  /\ system_file' = written(opened(system_file, TRUE))

(* Also run by the destructor.  It leaves enabled_ as it is.               *)
shutdown ==
  /\ IF enabled
     THEN /\ request_file' = closed(request_file)
          /\ system_file' = closed(written(system_file))
     ELSE UNCHANGED <<request_file, system_file>>
  /\ UNCHANGED enabled
=============================================================================
