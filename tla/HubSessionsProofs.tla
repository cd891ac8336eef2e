------------------------- MODULE HubSessionsProofs -------------------------
(***************************************************************************)
(* Proofs about HubSessions for any set of sessions and devices, orderly   *)
(* or not.                                                                 *)
(***************************************************************************)
EXTENDS HubSessions, TLAPS

(* A session about to enter the table has a device name and believes it is *)
(* registered; without this the table could list a nameless session.       *)
AnnouncedIsNamed ==
  \A s \in Sessions :
    pc[s] = "announced" => device[s] \in Devices /\ registered[s]

IInv ==
  /\ TypeOK
  /\ AnnouncedIsNamed
  /\ TableListsServing
  /\ StuckOnlyInCall
  /\ CallerPresent

(* Initially nothing is connected, registered or locked.                   *)
LEMMA InitEstablishes == Init => IInv
BY SessionAssumption
   DEF Init, IInv, TypeOK, PcStates, AnnouncedIsNamed, TableListsServing,
       StuckOnlyInCall, CallerPresent, InCall

(* Each step of a thread keeps the shape of the state.                      *)
LEMMA TypePreserved == TypeOK /\ [Next]_vars => TypeOK'
<1> SUFFICES ASSUME TypeOK, [Next]_vars PROVE TypeOK'
  OBVIOUS
<1> USE SessionAssumption DEF TypeOK, PcStates, Goto, LockFree
<1>1. CASE UNCHANGED vars
  BY <1>1 DEF vars
<1>2. ASSUME NEW s \in Sessions, Accept(s) PROVE TypeOK'
  BY <1>2 DEF Accept
<1>3. ASSUME NEW s \in Sessions, FinishRegistration(s) PROVE TypeOK'
  BY <1>3 DEF FinishRegistration
<1>4. ASSUME NEW s \in Sessions, RegisterSession(s) PROVE TypeOK'
  BY <1>4 DEF RegisterSession
<1>5. ASSUME NEW s \in Sessions, BeginOutbound(s) PROVE TypeOK'
  BY <1>5 DEF BeginOutbound
<1>6. ASSUME NEW s \in Sessions, Ring(s) PROVE TypeOK'
  BY <1>6 DEF Ring, Rung, AfterSend
<1>7. ASSUME NEW s \in Sessions, Leave(s) PROVE TypeOK'
  BY <1>7 DEF Leave
<1>8. ASSUME NEW s \in Sessions, UnregisterSession(s) PROVE TypeOK'
  BY <1>8 DEF UnregisterSession, Dropped
<1>9. ASSUME NEW s \in Sessions, NEW d \in Devices, OnRegister(s, d) PROVE TypeOK'
  BY <1>9 DEF OnRegister
<1>10. ASSUME NEW s \in Sessions, NEW d \in Devices, LookUp(s, d) PROVE TypeOK'
  BY <1>10 DEF LookUp
<1>11. ASSUME NEW s \in Sessions, NEW c \in Sessions, EndCall(s, c) PROVE TypeOK'
  BY <1>11 DEF EndCall, AfterSend
<1>12. ASSUME NEW c \in Sessions, AdminEndCall(c) PROVE TypeOK'
  BY <1>12 DEF AdminEndCall
<1>13. QED
  BY <1>1, <1>2, <1>3, <1>4, <1>5, <1>6, <1>7, <1>8, <1>9, <1>10, <1>11, <1>12
     DEF Next

(* Each step keeps the table, the lock and the calls consistent.            *)
LEMMA StepPreserves == IInv /\ [Next]_vars => IInv'
<1> SUFFICES ASSUME IInv, [Next]_vars PROVE IInv'
  OBVIOUS
<1>0. TypeOK'
  BY TypePreserved DEF IInv
<1> DEFINE Rest == AnnouncedIsNamed /\ TableListsServing
                     /\ StuckOnlyInCall /\ CallerPresent
<1> USE SessionAssumption
    DEF IInv, TypeOK, PcStates, AnnouncedIsNamed, TableListsServing,
        StuckOnlyInCall, CallerPresent, InCall, Goto, LockFree
<1>1. CASE UNCHANGED vars
  BY <1>1 DEF vars
<1>2. ASSUME NEW s \in Sessions, Accept(s) PROVE Rest'
  BY <1>2 DEF Accept
<1>3. ASSUME NEW s \in Sessions, FinishRegistration(s) PROVE Rest'
  BY <1>3 DEF FinishRegistration
<1>4. ASSUME NEW s \in Sessions, RegisterSession(s) PROVE Rest'
  BY <1>4 DEF RegisterSession
<1>5. ASSUME NEW s \in Sessions, BeginOutbound(s) PROVE Rest'
  BY <1>5 DEF BeginOutbound
<1>6. ASSUME NEW s \in Sessions, Ring(s) PROVE Rest'
  BY <1>6 DEF Ring, Rung, AfterSend
<1>7. ASSUME NEW s \in Sessions, Leave(s) PROVE Rest'
  BY <1>7 DEF Leave
<1>8. ASSUME NEW s \in Sessions, UnregisterSession(s) PROVE Rest'
  BY <1>8 DEF UnregisterSession, Dropped
<1>9. ASSUME NEW s \in Sessions, NEW d \in Devices, OnRegister(s, d) PROVE Rest'
  BY <1>9 DEF OnRegister
<1>10. ASSUME NEW s \in Sessions, NEW d \in Devices, LookUp(s, d) PROVE Rest'
  BY <1>10 DEF LookUp
<1>11. ASSUME NEW s \in Sessions, NEW c \in Sessions, EndCall(s, c) PROVE Rest'
  BY <1>11 DEF EndCall, AfterSend, CallParties
<1>12. ASSUME NEW c \in Sessions, AdminEndCall(c) PROVE Rest'
  BY <1>12 DEF AdminEndCall, CallParties
<1>13. QED
  BY <1>0, <1>1, <1>2, <1>3, <1>4, <1>5, <1>6, <1>7, <1>8, <1>9, <1>10,
     <1>11, <1>12
     DEF Next

LEMMA InvariantHolds == Spec => []IInv
BY InitEstablishes, StepPreserves, PTL DEF Spec

(* The session threads keep the shape of their state, and a thread holds on *)
(* to a session_for_dn result exactly while it is about to ring it.         *)
THEOREM SessionsTypeOK == Spec => []TypeOK
BY InvariantHolds, PTL DEF IInv

(* hub._by_device and hub._by_dn list only sessions that are still served,  *)
(* under the name they registered with.                                     *)
THEOREM TableIsServing == Spec => []TableListsServing
BY InvariantHolds, PTL DEF IInv

(* hub._lock is left held only by a session that dropped out of a live call. *)
THEOREM LockStuckOnlyInCall == Spec => []StuckOnlyInCall
BY InvariantHolds, PTL DEF IInv

(* A session that is cleaned up leaves no call of its own behind.           *)
THEOREM CallersArePresent == Spec => []CallerPresent
BY InvariantHolds, PTL DEF IInv
=============================================================================
