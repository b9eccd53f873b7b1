-------------------------- MODULE SessionDocClaims --------------------------
(***************************************************************************)
(* What session_manager.h says about blocking, stated over the session     *)
(* table with a history variable: the keys the administrator has blocked   *)
(* and not unblocked.                                                      *)
(***************************************************************************)
EXTENDS MCSessionManager

VARIABLE banned   \* keys for which blockSession(k, TRUE) last succeeded

claimVars == <<vars, banned>>

ClaimInit == Init /\ banned = {}

Block(k, block) ==
  /\ blockSession(k, block)
  /\ banned' = IF block THEN banned \cup {k} ELSE banned \ {k}

Other ==
  /\ \/ \E k \in Key : routeRequest(k) \/ forceReassign(k)
     \/ \E k \in Key, t \in CustomTimeout : setSessionExpiry(k, t)
     \/ \E s \in Server : handleServerDown(s)
     \/ cleanupExpired
     \/ Tick
     \/ RingChange
  /\ UNCHANGED banned

ClaimNext == (\E k \in Key, block \in BOOLEAN : Block(k, block)) \/ Other

ClaimSpec == ClaimInit /\ [][ClaimNext]_claimVars

(* session_manager.h, line 86: "Blocks a session - all subsequent requests *)
(* will be rejected."  cleanupExpired erases a blocked session with the    *)
(* rest, and its next request is admitted as a new session.                *)
BlockHolds ==
  answer # None /\ answer.key \in banned => answer.status = "SESSION_BLOCKED"
=============================================================================
