---------------------------- MODULE ClientCalls ----------------------------
(***************************************************************************)
(* What a phone knows of its calls: the call table and flags of PhoneState *)
(* as utils/call_management.py, the handlers of messages/phone.py and the  *)
(* key presses of client.py change them.  A phone is a record; every       *)
(* operator takes the record before and gives the record after.            *)
(*                                                                         *)
(* Calls are named by the CallManager's numeric reference (the synthetic   *)
(* names of CM2 button phones are not used by the simulator).              *)
(***************************************************************************)
EXTENDS Naturals, Sequences

CONSTANTS
  CallRefs,      \* call references
  NoRef,         \* no call reference (0 or None)
  Records        \* TRUE iff rtp recording is enabled

(* The members of a sequence. *)
Elements(s) == {s[i] : i \in 1..Len(s)}

CallStates == {"none", "offhook", "proceed", "ringout", "ringin",
               "connected", "hold", "onhook"}
Events == {"ringing", "connected", "media", "ended"}

Phone ==
  [st: [CallRefs -> CallStates],          \* calls[ref].call_state
   act: Seq(CallRefs),                    \* active_calls_list
   sel: CallRefs \cup {NoRef},            \* selected_call_reference
   active: BOOLEAN,                       \* active_call
   connected: BOOLEAN,                    \* call_connected
   media: BOOLEAN,                        \* media_active
   ev: SUBSET Events,                     \* the events that are set
   rx: BOOLEAN, tx: BOOLEAN,              \* _rtp_rx and _rtp_tx are not None
   rec: BOOLEAN,                          \* _rtp_recorder is open
   lost: SUBSET {"rx", "tx"}]             \* running, but no longer referenced

NewPhone ==
  [st |-> [r \in CallRefs |-> "none"], act |-> <<>>, sel |-> NoRef,
   active |-> FALSE, connected |-> FALSE, media |-> FALSE, ev |-> {},
   rx |-> FALSE, tx |-> FALSE, rec |-> FALSE, lost |-> {}]

-----------------------------------------------------------------------------
(* Looking calls up *)

Known(ph, r) == r # NoRef /\ ph.st[r] # "none"

(* selected_call_reference, then the active calls from the newest *)
Preferred(ph) ==
  (IF ph.sel = NoRef THEN <<>> ELSE <<ph.sel>>)
    \o [i \in 1..Len(ph.act) |-> ph.act[Len(ph.act) + 1 - i]]

FirstOf(s, Test(_)) ==
  LET at == {i \in 1..Len(s) : Test(s[i])}
  IN IF at = {} THEN NoRef ELSE s[CHOOSE i \in at : \A j \in at : i <= j]

(* resolve_active_call_key: a reference nobody knows falls back to the     *)
(* selected call, then to the newest one.                                  *)
ActiveKey(ph, r) ==
  IF Known(ph, r) THEN r ELSE FirstOf(Preferred(ph), LAMBDA q : Known(ph, q))

(* The call that a message naming r is taken to mean *)
Keyed(ph, r) == IF ActiveKey(ph, r) = NoRef THEN r ELSE ActiveKey(ph, r)

(* _call_ref_for_state *)
RefInState(ph, s) == FirstOf(Preferred(ph), LAMBDA q : ph.st[q] = s)

(* resolve_call_target: the call reference a softkey is sent with.         *)
(* selected_softkeys never decides: SelectSoftKeys also selects its call.  *)
Target(ph, key) ==
  LET s == IF key = "Resume" THEN "hold" ELSE "connected"
      found == RefInState(ph, s)
  IN IF key = "NewCall" THEN NoRef
     ELSE IF key \in {"Resume", "Hold", "EndCall"} /\ found # NoRef THEN found
     ELSE IF ph.active
          THEN FirstOf((IF ph.sel = NoRef THEN <<>> ELSE <<ph.sel>>) \o ph.act,
                       LAMBDA q : TRUE)
     ELSE NoRef

-----------------------------------------------------------------------------
(* utils/call_management.py *)

Listed(ph, r) == IF r \in Elements(ph.act) THEN ph.act ELSE Append(ph.act, r)

(* list.remove; a call is listed once. *)
Without(s, r) ==
  LET i == CHOOSE i \in 1..Len(s) : s[i] = r
  IN IF r \in Elements(s) THEN SubSeq(s, 1, i - 1) \o SubSeq(s, i + 1, Len(s)) ELSE s

AnyConnected(ph) == \E r \in Elements(ph.act) : ph.st[r] = "connected"

MarkRinging(ph, r, s) ==
  [ph EXCEPT !.st[r] = s, !.act = Listed(ph, r), !.sel = r, !.active = TRUE,
             !.ev = (@ \cup {"ringing"}) \ {"ended"}]

MarkConnected(ph, r) ==
  [ph EXCEPT !.st[r] = "connected", !.act = Listed(ph, r), !.sel = r,
             !.active = TRUE, !.connected = TRUE,
             !.ev = (@ \cup {"connected"}) \ {"ended"}]

MarkHeldStillConnected(ph, r) ==                                   \* mutant
  [ph EXCEPT !.st[r] = "hold", !.act = Listed(ph, r), !.sel = r,
             !.active = TRUE, !.media = FALSE,
             !.ev = @ \ {"connected", "media"}]

MarkHeld(ph, r) ==
  LET held == [ph EXCEPT !.st[r] = "hold", !.act = Listed(ph, r)]
  IN [held EXCEPT !.sel = r, !.active = TRUE, !.media = FALSE,
                  !.connected = AnyConnected(held),
                  !.ev = @ \ {"connected", "media"}]

(* sync_call_flags *)

SyncFlags(ph) ==
  [ph EXCEPT !.active = ph.act # <<>>, !.connected = AnyConnected(ph),
             !.media = @ /\ AnyConnected(ph),
             !.sel = IF ph.act = <<>> THEN NoRef ELSE @]

(* Which calls mark_call_ended ends: the one a reference resolves to, or    *)
(* without a reference all active ones, or the selected one.                *)
EndedKeys(ph, r) ==
  IF r # NoRef THEN {Keyed(ph, r)}
  ELSE IF ph.act # <<>> THEN Elements(ph.act)
  ELSE {ph.sel} \ {NoRef}

MarkEnded(ph, r) ==
  LET keys == EndedKeys(ph, r)
      gone == SyncFlags([ph EXCEPT
        !.st  = [q \in CallRefs |-> IF q \in keys /\ @[q] # "none" THEN "onhook" ELSE @[q]],
        !.act = IF r = NoRef THEN <<>> ELSE Without(@, Keyed(ph, r))])
  IN [gone EXCEPT !.ev =
        IF gone.act = <<>> THEN {"ended"}
        ELSE (@ \ {"ended"}) \cup (IF gone.connected THEN {"connected"} ELSE {})]

-----------------------------------------------------------------------------
(* messages/phone.py: the media of a phone *)

(* _teardown_local_media *)

Teardown(ph) ==
  [ph EXCEPT !.rx = FALSE, !.tx = FALSE, !.rec = FALSE, !.media = FALSE,
             !.ev = @ \ {"media"}]

(* OpenReceiveChannel: a new receiver takes the place of the old one, which *)
(* nobody stops.                                                            *)
OpenReceive(ph) ==
  [ph EXCEPT !.rx = TRUE, !.rec = @ \/ Records,
             !.lost = @ \cup (IF ph.rx THEN {"rx"} ELSE {})]

CloseReceive(ph) == [ph EXCEPT !.rx = FALSE, !.rec = FALSE]

(* StartMediaTransmission: a new sender, likewise; the call is connected.   *)
StartSending(ph, r) ==
  MarkConnected(
    [ph EXCEPT !.media = TRUE, !.tx = TRUE, !.rec = @ \/ Records,
               !.ev = @ \cup {"media"},
               !.lost = @ \cup (IF ph.tx THEN {"tx"} ELSE {})],
    Keyed(ph, r))

StopSending(ph) ==
  [ph EXCEPT !.tx = FALSE, !.rec = FALSE, !.media = FALSE, !.ev = @ \ {"media"}]

-----------------------------------------------------------------------------
(* The message handlers *)

(* CallState: idle and on-hook end the call (and the media, with the last   *)
(* one); the dialing states only enter the table.                           *)
OnHookMediaLeft(ph, r) == MarkEnded(ph, r)                         \* mutant

OnHook(ph, r) ==
  LET ended == MarkEnded(ph, r)
  IN IF ended.act = <<>> THEN Teardown(ended) ELSE ended

ApplyCallState(ph, s, r) ==
  CASE s = "onhook"                -> OnHook(ph, r)
    [] s \in {"ringout", "ringin"} -> MarkRinging(ph, r, s)
    [] s = "connected"             -> MarkConnected(ph, r)
    [] s = "hold"                  -> MarkHeld(ph, r)
    [] OTHER                       -> [ph EXCEPT !.st[r] = s]

(* ActivateCallPlane, SelectSoftKeys *)
ActivatePlane(ph) == [ph EXCEPT !.active = TRUE]

SelectKeys(ph, r) == [ph EXCEPT !.sel = IF r = NoRef THEN @ ELSE r]

(* What the handler of message m leaves of the phone. *)
Handled(ph, m) ==
  CASE m.type = "CallState"              -> ApplyCallState(ph, m.state, m.ref)
    [] m.type = "ActivateCallPlane"      -> ActivatePlane(ph)
    [] m.type = "SelectSoftKeys"         -> SelectKeys(ph, m.ref)
    [] m.type = "OpenReceiveChannel"     -> OpenReceive(ph)
    [] m.type = "CloseReceiveChannel"    -> CloseReceive(ph)
    [] m.type = "StartMediaTransmission" -> StartSending(ph, m.ref)
    [] m.type = "StopMediaTransmission"  -> StopSending(ph)

-----------------------------------------------------------------------------
(* The user's keys *)

(* EndCall ends its call here before CallManager hears of it. *)
EndLocally(ph, r) == MarkEnded(Teardown(ph), r)

(* client.on_hook: every call the phone lists, and what send_onhook ends.   *)
OnHookLocally(ph) ==
  LET torn == Teardown(ph)
      all  == IF ph.act # <<>> THEN MarkEnded(torn, NoRef)
              ELSE MarkEnded(torn, Target(torn, "EndCall"))
  IN MarkEnded(all, NoRef)

Pressed(ph, key) ==
  CASE key = "EndCall" -> EndLocally(ph, Target(ph, key))
    [] key = "OnHook"  -> OnHookLocally(ph)
    [] OTHER           -> ph
=============================================================================
