------------------------------ MODULE UdpServer ------------------------------
(***************************************************************************)
(* The server loop of main1.cpp: one thread receives the packets one at a  *)
(* time and decides which of the two load balancers handles each.  The     *)
(* primary's heartbeat is the time of its last request.  Time passes in    *)
(* ticks between the packets; ages are counted up to Threshold + 1, which  *)
(* is past the takeover threshold.                                         *)
(***************************************************************************)
EXTENDS Integers

CONSTANT Threshold   \* LB_FAILOVER_THRESHOLD_MS, in ticks

ASSUME TimingAssumption == Threshold \in Nat

VARIABLES
  primary_active,   \* active_ of the primary load balancer
  standby_active,   \* active_ of the standby load balancer
  heartbeat_age,    \* ticks since last_primary_heartbeat
  handled_by,       \* who handled the last packet
  unserved          \* history: ticks since the primary last handled a
                    \* request, or since the start

vars == <<primary_active, standby_active, heartbeat_age, handled_by, unserved>>

Age == 0..(Threshold + 1)

Handler == {"nobody", "primary", "standby", "refused", "command"}

(* Mutant: microseconds are compared with milliseconds.                    *)
shouldTakeoverLate == heartbeat_age > 1000 * Threshold

shouldTakeover == heartbeat_age > Threshold
-----------------------------------------------------------------------------
(* Mutant: the standby does not yield.                                     *)
PrimaryHandlesAlone ==
  /\ primary_active
  /\ heartbeat_age' = 0
  /\ handled_by' = "primary"
  /\ unserved' = 0
  /\ UNCHANGED <<primary_active, standby_active>>

(* A request while the primary is active: it counts as the heartbeat, a    *)
(* standby that was active yields, and the primary handles it.             *)
PrimaryHandles ==
  /\ primary_active
  /\ heartbeat_age' = 0
  /\ standby_active' = FALSE
  /\ handled_by' = "primary"
  /\ unserved' = 0
  /\ UNCHANGED primary_active

(* A request while it is not: the standby handles it if it is active, or   *)
(* becomes active for it.                                                  *)
StandbyHandles ==
  /\ ~primary_active
  /\ standby_active \/ shouldTakeover
  /\ standby_active' = TRUE
  /\ handled_by' = "standby"
  /\ UNCHANGED <<primary_active, heartbeat_age, unserved>>

(* "No active Load Balancer available."                                    *)
Refuse ==
  /\ ~primary_active
  /\ ~(standby_active \/ shouldTakeover)
  /\ handled_by' = "refused"
  /\ UNCHANGED <<primary_active, standby_active, heartbeat_age, unserved>>

Request == PrimaryHandles \/ StandbyHandles \/ Refuse

(* Mutant: a command counts as a heartbeat, like a request.                *)
KillPrimaryFreshly ==
  /\ primary_active' = FALSE
  /\ heartbeat_age' = 0
  /\ handled_by' = "command"
  /\ UNCHANGED <<standby_active, unserved>>

(* The packets CMD:KILL_PRIMARY and CMD:REVIVE_PRIMARY: deactivate and     *)
(* activate of the primary, and nothing else.                              *)
KillPrimary ==
  /\ primary_active' = FALSE
  /\ handled_by' = "command"
  /\ UNCHANGED <<standby_active, heartbeat_age, unserved>>

RevivePrimary ==
  /\ primary_active' = TRUE
  /\ handled_by' = "command"
  /\ UNCHANGED <<standby_active, heartbeat_age, unserved>>

Older(age) == IF age > Threshold THEN age ELSE age + 1

(* The steady clock advances. *)
Tick ==
  /\ heartbeat_age' = Older(heartbeat_age)
  /\ unserved' = Older(unserved)
  /\ UNCHANGED <<primary_active, standby_active, handled_by>>
-----------------------------------------------------------------------------
(* Mutant: last_primary_heartbeat is left at the clock's epoch.            *)
InitAtEpoch ==
  /\ primary_active = TRUE
  /\ standby_active = FALSE
  /\ heartbeat_age = 10 * Threshold
  /\ handled_by = "nobody"
  /\ unserved = 0

Init ==
  /\ primary_active = TRUE
  /\ standby_active = FALSE
  /\ heartbeat_age = 0
  /\ handled_by = "nobody"
  /\ unserved = 0

Next == Request \/ KillPrimary \/ RevivePrimary \/ Tick

Safety == Init /\ [][Next]_vars

(* Clients keep sending requests, and time passes. *)
Spec == Safety /\ WF_vars(Request) /\ WF_vars(Tick)
-----------------------------------------------------------------------------
(* Every variable has its type. *)
TypeOK ==
  /\ primary_active \in BOOLEAN
  /\ standby_active \in BOOLEAN
  /\ heartbeat_age \in Age
  /\ handled_by \in Handler
  /\ unserved \in Age

(* No premature takeover: the standby handles a request only when the      *)
(* primary has handled none for more than the threshold, through any       *)
(* sequence of kills and revivals: a standby left active by an earlier     *)
(* takeover never goes on beside a primary that was revived and killed     *)
(* again.                                                                  *)
NoPrematureTakeover ==
  [][(handled_by' = "standby" /\ Request) => unserved > Threshold]_vars

(* The outage is bounded: a request is refused only within the threshold   *)
(* of the last one the primary handled (or of the start).                  *)
OutageBounded ==
  [][(handled_by' = "refused" /\ Request) => unserved <= Threshold]_vars

(* Service resumes: after a refusal, clients that keep trying are served,  *)
(* by the one or by the other, whoever kills and revives the primary.      *)
ServiceResumes ==
  handled_by = "refused" ~> handled_by \in {"primary", "standby"}

(* Failback: two active load balancers do not stay that way. *)
StandbyYields ==
  primary_active /\ standby_active ~> ~(primary_active /\ standby_active)
=============================================================================
