---------------------------- MODULE HubSessions ----------------------------
(***************************************************************************)
(* Skinny sessions coming and going, step by step: one thread per TCP      *)
(* connection (simulator/server.py, simulator/session.py), the hub's table *)
(* of registered sessions, and hub._lock, a threading.Lock that is not     *)
(* reentrant (simulator/call_hub.py).                                      *)
(*                                                                         *)
(* What a call is to CallHub is reduced here to its caller and callee; a   *)
(* session dials at most one call at a time, and may be called by others.  *)
(* Between two steps of a thread any other thread may run.                 *)
(***************************************************************************)
EXTENDS FiniteSets

CONSTANTS
  Sessions,     \* TCP connections over the life of the simulator
  Devices,      \* device names; a name also stands for its DN
  Orderly,      \* TRUE iff phones leave only after hanging up everything
  NoSession,    \* no session: a dialing call has no callee yet
  NoDevice,     \* device_name of a connection that has not sent RegisterReq
  Idle          \* the session has dialed no call

ASSUME SessionAssumption ==
  /\ NoSession \notin Sessions
  /\ Idle \notin Sessions \cup {NoSession}
  /\ NoDevice \notin Devices
  /\ Orderly \in BOOLEAN

VARIABLES
  pc,           \* where the session's thread is
  device,       \* session.device_name
  registered,   \* session._registered
  table,        \* hub._by_device and hub._by_dn
  dials,        \* the live call a session is the caller of, by its callee
  found,        \* the result of session_for_dn the thread is holding on to
  lock          \* the thread that holds hub._lock when no step is running

vars == <<pc, device, registered, table, dials, found, lock>>

-----------------------------------------------------------------------------
(* closed: not connected yet; serve: waiting for a message; announced:      *)
(* TimeDateRes sent, about to call register_session; ring: session_for_dn   *)
(* has returned; leaving: in run()'s finally; stuck: waiting inside         *)
(* unregister_session for the lock it holds itself; gone: socket closed.    *)
PcStates == {"closed", "serve", "announced", "ring", "leaving", "stuck", "gone"}

InCall(s) == dials[s] # Idle \/ \E c \in Sessions : dials[c] = s

(* Taking hub._lock and releasing it again within one step. *)
LockFree == lock = NoSession

Init ==
  /\ pc = [s \in Sessions |-> "closed"]
  /\ device = [s \in Sessions |-> NoDevice]
  /\ registered = [s \in Sessions |-> FALSE]
  /\ table = [d \in Devices |-> NoSession]
  /\ dials = [s \in Sessions |-> Idle]
  /\ found = [s \in Sessions |-> NoSession]
  /\ lock = NoSession

Goto(s, to) == pc' = [pc EXCEPT ![s] = to]

(* server._serve_forever accepts a connection and starts its thread. *)
Accept(s) ==
  /\ pc[s] = "closed"
  /\ Goto(s, "serve")
  /\ UNCHANGED <<device, registered, table, dials, found, lock>>

(* session._on_register: RegisterReq names the device, RegisterAck follows. *)
OnRegister(s, d) ==
  /\ pc[s] = "serve" /\ device[s] = NoDevice
  /\ device' = [device EXCEPT ![s] = d]
  /\ UNCHANGED <<pc, registered, table, dials, found, lock>>

(* session._finish_registration up to hub.register_session: TimeDateRes and *)
(* the Ready prompt are sent, so the phone now believes it is registered.   *)
FinishRegistration(s) ==
  /\ pc[s] = "serve" /\ device[s] # NoDevice /\ ~registered[s]
  /\ registered' = [registered EXCEPT ![s] = TRUE]
  /\ Goto(s, "announced")
  /\ UNCHANGED <<device, table, dials, found, lock>>

(* hub.register_session *)
RegisterSession(s) ==
  /\ pc[s] = "announced" /\ LockFree
  /\ table' = [table EXCEPT ![device[s]] = s]
  /\ Goto(s, "serve")
  /\ UNCHANGED <<device, registered, dials, found, lock>>

(* session._start_outbound and hub.begin_outbound *)
BeginOutbound(s) ==
  /\ pc[s] = "serve" /\ device[s] # NoDevice /\ dials[s] = Idle /\ LockFree
  /\ dials' = [dials EXCEPT ![s] = NoSession]
  /\ UNCHANGED <<pc, device, registered, table, found, lock>>

(* hub._try_complete_dial, first half: session_for_dn under the lock. *)
LookUp(s, d) ==
  /\ pc[s] = "serve" /\ dials[s] = NoSession /\ LockFree
  /\ table[d] \notin {NoSession, s}
  /\ found' = [found EXCEPT ![s] = table[d]]
  /\ Goto(s, "ring")
  /\ UNCHANGED <<device, registered, table, dials, lock>>

(* A thread that has sent something to the sessions in Q: to a closed       *)
(* socket, send raises and run() leaves its loop; to a socket whose phone   *)
(* has hung up the connection, it may.                                      *)
AfterSend(Q) ==
  IF \E q \in Q : pc[q] = "gone" THEN {"leaving"}
  ELSE IF \E q \in Q : pc[q] \in {"leaving", "stuck"} THEN {"serve", "leaving"}
  ELSE {"serve"}

(* Second half, without the lock: the callee is set, unless the call ended  *)
(* in the meantime, and it is sent the ring.                                *)
Rung(s) == IF dials[s] = NoSession THEN [dials EXCEPT ![s] = found[s]] ELSE dials

RingKeepsFound(s) ==                                               \* mutant
  /\ pc[s] = "ring"
  /\ dials' = Rung(s)
  /\ \E to \in AfterSend({found[s]}) : Goto(s, to)
  /\ UNCHANGED <<device, registered, table, found, lock>>

Ring(s) ==
  /\ pc[s] = "ring"
  /\ dials' = Rung(s)
  /\ \E to \in AfterSend({found[s]}) : Goto(s, to)
  /\ found' = [found EXCEPT ![s] = NoSession]
  /\ UNCHANGED <<device, registered, table, lock>>

(* hub.end_call for the call dialed by c: its parties are sent stop tones   *)
(* by the thread that called it.                                            *)
CallParties(c) == {c, dials[c]} \cap Sessions

EndCall(s, c) ==
  /\ pc[s] = "serve" /\ LockFree
  /\ dials[c] # Idle /\ s \in CallParties(c)
  /\ dials' = [dials EXCEPT ![c] = Idle]
  /\ \E to \in AfterSend(CallParties(c)) : Goto(s, to)
  /\ UNCHANGED <<device, registered, table, found, lock>>

(* hub.end_call_for_device, and reset or restart of a device in a call, from *)
(* a thread of the admin page, whatever the parties' own threads are doing.  *)
AdminEndCall(c) ==
  /\ LockFree
  /\ dials[c] # Idle /\ \E d \in Devices : table[d] \in CallParties(c)
  /\ dials' = [dials EXCEPT ![c] = Idle]
  /\ UNCHANGED <<pc, device, registered, table, found, lock>>

(* UnregisterReq (after its end_call), or the end of the TCP stream. *)
Leave(s) ==
  /\ pc[s] = "serve"
  /\ Orderly => ~InCall(s)
  /\ Goto(s, "leaving")
  /\ UNCHANGED <<device, registered, table, dials, found, lock>>

(* hub.unregister_session, then conn.close().  The session's name and DN    *)
(* are dropped from the table whoever they point to; then end_call is       *)
(* called with the lock held for each call that has s as caller or callee.  *)
DroppedNothing(s) == table                                         \* mutant

Dropped(s) ==
  IF device[s] = NoDevice THEN table ELSE [table EXCEPT ![device[s]] = NoSession]

UnregisterKeepsLock(s) ==                                          \* mutant
  /\ pc[s] = "leaving" /\ LockFree
  /\ table' = Dropped(s)
  /\ Goto(s, IF InCall(s) THEN "stuck" ELSE "gone")
  /\ lock' = s
  /\ UNCHANGED <<device, registered, dials, found>>

UnregisterCalleeOnly(s) ==                                         \* mutant
  LET stuck == \E c \in Sessions : dials[c] = s IN
  /\ pc[s] = "leaving" /\ LockFree
  /\ table' = Dropped(s)
  /\ Goto(s, IF stuck THEN "stuck" ELSE "gone")
  /\ lock' = IF stuck THEN s ELSE NoSession
  /\ UNCHANGED <<device, registered, dials, found>>

UnregisterSession(s) ==
  /\ pc[s] = "leaving" /\ LockFree
  /\ table' = Dropped(s)
  /\ Goto(s, IF InCall(s) THEN "stuck" ELSE "gone")
  /\ lock' = IF InCall(s) THEN s ELSE NoSession
  /\ UNCHANGED <<device, registered, dials, found>>

-----------------------------------------------------------------------------
Next ==
  \E s \in Sessions :
    \/ Accept(s) \/ FinishRegistration(s) \/ RegisterSession(s)
    \/ BeginOutbound(s) \/ Ring(s) \/ Leave(s) \/ UnregisterSession(s)
    \/ \E d \in Devices : OnRegister(s, d) \/ LookUp(s, d)
    \/ \E c \in Sessions : EndCall(s, c)
    \/ AdminEndCall(s)

Spec == Init /\ [][Next]_vars

(* A thread that is not waiting for its phone or for the lock runs on.      *)
FairSpec ==
  /\ Spec
  /\ \A s \in Sessions : WF_vars(RegisterSession(s) \/ Ring(s) \/ UnregisterSession(s))

-----------------------------------------------------------------------------
(* Properties *)

TypeOK ==
  /\ pc \in [Sessions -> PcStates]
  /\ device \in [Sessions -> Devices \cup {NoDevice}]
  /\ registered \in [Sessions -> BOOLEAN]
  /\ table \in [Devices -> Sessions \cup {NoSession}]
  /\ dials \in [Sessions -> Sessions \cup {NoSession, Idle}]
  /\ found \in [Sessions -> Sessions \cup {NoSession}]
  /\ lock \in Sessions \cup {NoSession}
  /\ \A s \in Sessions : found[s] # NoSession <=> pc[s] = "ring"

(* The hub routes calls only to sessions that are still being served, under *)
(* the device name they registered with, however registrations and          *)
(* departures of the same device overlap.                                   *)
TableListsServing ==
  \A d \in Devices : table[d] # NoSession =>
    /\ device[table[d]] = d
    /\ registered[table[d]]
    /\ pc[table[d]] \in {"serve", "ring", "leaving"}

(* hub._lock is left held only by a session that dropped out while it was   *)
(* the caller or the callee of a live call; that thread never moves again.  *)
StuckOnlyInCall ==
  /\ \A s \in Sessions : lock = s <=> pc[s] = "stuck"
  /\ \A s \in Sessions : pc[s] = "stuck" => InCall(s)

(* No live call was dialed by a session whose socket is closed.             *)
CallerPresent == \A s \in Sessions : pc[s] = "gone" => dials[s] = Idle

(* A phone that was told it is registered, and that is still connected, can *)
(* be called.                                                               *)
RegisteredIsReachable ==
  \A s \in Sessions : pc[s] = "serve" /\ registered[s] => table[device[s]] # NoSession

(* A phone that was told it is registered gets into the table.              *)
RegistrationCompletes ==
  \A s \in Sessions : pc[s] = "announced" ~> pc[s] # "announced"

(* A session that ends is cleaned up, unless some other session, or itself, *)
(* is stuck on the lock it holds: nothing else can keep a thread from going.*)
SessionsEndUnlessStuck ==
  \A s \in Sessions :
    pc[s] = "leaving" ~> (pc[s] = "gone" \/ \E q \in Sessions : pc[q] = "stuck")
=============================================================================
