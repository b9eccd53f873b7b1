--------------------------- MODULE UdpServerProofs ---------------------------
(***************************************************************************)
(* Proofs about the handover between the two load balancers, for every     *)
(* takeover threshold.                                                     *)
(***************************************************************************)
EXTENDS UdpServer, TLAPS

(* The heartbeat is the primary's last request, and an active standby      *)
(* means that it is older than the threshold: only a request the primary   *)
(* handles makes it younger, and that request makes the standby yield.     *)
Handover ==
  /\ heartbeat_age = unserved
  /\ standby_active => unserved > Threshold

Inv == TypeOK /\ Handover

(* A tick keeps what is past the threshold past it.                        *)
LEMMA Ageing ==
  ASSUME NEW age \in Age
  PROVE  Older(age) \in Age /\ (age > Threshold => Older(age) > Threshold)
BY TimingAssumption DEF Older, Age

(* The invariant holds of every reachable state.                           *)
LEMMA InvInductive == Safety => []Inv
<1>0. 0 \in Age
  BY TimingAssumption DEF Age
<1>1. Init => Inv
  BY <1>0 DEF Init, Inv, TypeOK, Handover, Handler
<1>2. ASSUME Inv, [Next]_vars PROVE Inv'
  <2> USE <1>2 DEF Inv, TypeOK, Handover, Handler
  <2>1. CASE PrimaryHandles
    BY <1>0, <2>1 DEF PrimaryHandles
  <2>2. CASE StandbyHandles
    BY <2>2 DEF StandbyHandles, shouldTakeover
  <2>3. CASE Refuse
    BY <2>3 DEF Refuse
  <2>4. CASE KillPrimary
    BY <2>4 DEF KillPrimary
  <2>5. CASE RevivePrimary
    BY <2>5 DEF RevivePrimary
  <2>6. CASE Tick
    BY <2>6, Ageing DEF Tick
  <2>7. CASE UNCHANGED vars
    BY <2>7 DEF vars
  <2> QED
    BY <2>1, <2>2, <2>3, <2>4, <2>5, <2>6, <2>7 DEF Next, Request
<1> QED BY <1>1, <1>2, PTL DEF Safety

(* The type invariant of the loop. *)
THEOREM TypeCorrect == Spec => []TypeOK
<1>1. Inv => TypeOK
  BY DEF Inv
<1> QED BY <1>1, InvInductive, PTL DEF Spec

(* The standby never handles a request within the threshold of one the     *)
(* primary handled.                                                        *)
THEOREM NoPrematureTakeoverHolds == Spec => NoPrematureTakeover
<1>1. ASSUME Inv, [Next]_vars
      PROVE  [(handled_by' = "standby" /\ Request) =>
                unserved > Threshold]_vars
  <2> SUFFICES ASSUME handled_by' = "standby", Request
               PROVE  unserved > Threshold
    OBVIOUS
  <2>1. StandbyHandles
    BY DEF Request, PrimaryHandles, Refuse
  <2> QED BY <1>1, <2>1 DEF StandbyHandles, shouldTakeover, Inv, Handover
<1> QED BY <1>1, InvInductive, PTL DEF Spec, Safety, NoPrematureTakeover

(* A request is refused only within the threshold of the primary's last.   *)
THEOREM OutageBoundedHolds == Spec => OutageBounded
<1>1. ASSUME Inv, [Next]_vars
      PROVE  [(handled_by' = "refused" /\ Request) =>
                unserved <= Threshold]_vars
  <2> SUFFICES ASSUME handled_by' = "refused", Request
               PROVE  unserved <= Threshold
    OBVIOUS
  <2>1. Refuse
    BY DEF Request, PrimaryHandles, StandbyHandles
  <2> QED BY <1>1, <2>1, TimingAssumption
          DEF Refuse, shouldTakeover, Inv, Handover, TypeOK, Age
<1> QED BY <1>1, InvInductive, PTL DEF Spec, Safety, OutageBounded
=============================================================================
