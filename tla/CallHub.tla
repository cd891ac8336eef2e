------------------------------ MODULE CallHub ------------------------------
(***************************************************************************)
(* The call routing core of the CallManager simulator:                     *)
(* simulator/call_hub.py (class CallHub) as the handlers of                *)
(* simulator/session.py drive it, for phones that stay registered.         *)
(*                                                                         *)
(* A call is named by its call_ref.  calls[r] is the SimCall object,       *)
(* which Python code may still hold after the hub forgot it; live is the   *)
(* key set of hub._calls; active[p] is session.active_call of phone p.     *)
(*                                                                         *)
(* One action is one handler, run to its end, as if handlers never         *)
(* overlapped.  Sessions that come and go are the subject of HubSessions.  *)
(***************************************************************************)
EXTENDS Naturals, FiniteSets

CONSTANTS
  Phones,        \* the registered phones; a phone also stands for its DN
  AutoAnswer,    \* the phones in hub.auto_answer_devices
  IvrDns,        \* the DN of the virtual IVR (hub.ivr_dn), or nothing
  Offered,       \* the feature softkeys the phones use
  Ackers,        \* the phones that ack an OpenReceiveChannel
  MediaHub,      \* TRUE iff a SimMediaHub in a mode other than "off" is wired
  MaxCalls,      \* bound: SimCall objects created in a behaviour
  NoPhone, NoCall, NoDigits, WrongNumber

ASSUME HubAssumption ==
  /\ AutoAnswer \subseteq Phones
  /\ Ackers \subseteq Phones
  /\ MediaHub \in BOOLEAN
  /\ MaxCalls \in Nat
  /\ NoPhone \notin Phones
  /\ NoCall \notin Nat
  /\ IvrDns \cap Phones = {}
  /\ Offered \subseteq {"transfer", "conference"}
  /\ NoDigits \notin Phones \cup IvrDns
  /\ WrongNumber \notin Phones \cup IvrDns \cup {NoDigits}

VARIABLES
  calls,         \* SimCall objects by call_ref
  live,          \* keys of hub._calls
  active,        \* session.active_call
  feature,       \* transfer_* and conference_* fields of each SimCall
  media,         \* keys of media_hub._sessions
  ringTimers,    \* phones with an auto-answer thread asleep
  ivrTimers,     \* calls with an ivr-answer thread asleep
  nextRef        \* hub._next_call_ref

vars == <<calls, live, active, feature, media, ringTimers, ivrTimers, nextRef>>

-----------------------------------------------------------------------------
(* Data *)

Refs   == 1..MaxCalls
Modes  == {"transfer", "conference"}
States == {"idle", "dialing", "ringing", "connected", "held", "ended"}

(* Digit strings, as far as the hub can tell them apart: nothing, exactly  *)
(* the DN of a phone or of the IVR, or a string that matches no DN.  A     *)
(* digit is one of the DNs: the numbering plan has one-digit DNs.          *)
Dialed == Phones \cup IvrDns \cup {NoDigits, WrongNumber}
Digits == Phones \cup IvrDns

Call == [caller: Phones \cup {NoPhone}, callee: Phones \cup {NoPhone},
         third: Phones \cup {NoPhone}, heldBy: Phones \cup {NoPhone},
         state: States, dialed: Dialed, ivr: BOOLEAN, menu: BOOLEAN,
         conf: BOOLEAN, ports: SUBSET Phones]

Feature == [on: BOOLEAN, by: Phones \cup {NoPhone}, digits: Dialed,
            consult: Refs \cup {NoCall}, primary: Refs \cup {NoCall}]

NewCallBy(p, st) ==
  [caller |-> p, callee |-> NoPhone, third |-> NoPhone, heldBy |-> NoPhone,
   state |-> st, dialed |-> NoDigits, ivr |-> FALSE, menu |-> FALSE,
   conf |-> FALSE, ports |-> {}]

NoFeature ==
  [on |-> FALSE, by |-> NoPhone, digits |-> NoDigits,
   consult |-> NoCall, primary |-> NoCall]

(* dialed += digit *)
AddDigit(str, d) == IF str = NoDigits THEN d ELSE WrongNumber

Parties(c) == {c.caller, c.callee, c.third} \ {NoPhone}

(* The party across from p on the two-way call c. *)
Other(c, p) == IF p = c.caller THEN c.callee ELSE c.caller

(* p's focus call is in state st. *)
InState(p, st) == active[p] # NoCall /\ calls[active[p]].state = st

Init ==
  /\ calls = [r \in Refs |-> NewCallBy(NoPhone, "idle")]
  /\ live = {}
  /\ active = [p \in Phones |-> NoCall]
  /\ feature = [m \in Modes |-> [r \in Refs |-> NoFeature]]
  /\ media = {}
  /\ ringTimers = {}
  /\ ivrTimers = {}
  /\ nextRef = 1

-----------------------------------------------------------------------------
(* Placing and answering calls *)

(* media_hub.stop_call for each call in R *)
StopMediaForgotten(R) == media                                     \* mutant

StopMedia(R) == media \ R

(* session._start_outbound and hub.begin_outbound: a phone with no call, or *)
(* one whose focus call is held, gets a fresh call in state dialing.  The   *)
(* media of the held call is torn down.                                     *)
MayDialAnyTime(p) == TRUE                                          \* mutant

MayDial(p) == active[p] = NoCall \/ InState(p, "held")

NewCall(p) ==
  /\ MayDial(p)
  /\ nextRef \in Refs
  /\ calls' = [calls EXCEPT ![nextRef] = NewCallBy(p, "dialing")]
  /\ live' = live \cup {nextRef}
  /\ active' = [active EXCEPT ![p] = nextRef]
  /\ media' = StopMedia({active[p]})
  /\ nextRef' = nextRef + 1
  /\ UNCHANGED <<feature, ringTimers, ivrTimers>>

(* hub._try_complete_dial on call c (with its dialed digits already         *)
(* updated), when act gives the phones' focus calls: the IVR rings, a free  *)
(* phone rings, and any other number leaves the call dialing.               *)
RingsBusy(c, act) ==                                               \* mutant
  c.dialed \in Phones /\ c.dialed # c.caller

Rings(c, act) ==
  c.dialed \in Phones /\ c.dialed # c.caller /\ act[c.dialed] = NoCall

Dialled(c, act) ==
  CASE c.dialed \in IvrDns -> [c EXCEPT !.ivr = TRUE, !.state = "ringing"]
    [] Rings(c, act)    -> [c EXCEPT !.callee = c.dialed, !.state = "ringing"]
    [] OTHER            -> c

(* hub.should_auto_answer: the thread started for a phone that rings. *)
RingTimerAlways(q) == {q}                                          \* mutant

RingTimer(q) == {q} \cap AutoAnswer

TryCompleteDial(cs, r, c, act) ==
  /\ calls' = [cs EXCEPT ![r] = Dialled(c, act)]
  /\ active' = IF Rings(c, act) THEN [act EXCEPT ![c.dialed] = r] ELSE act
  /\ ringTimers' = ringTimers \cup
       (IF Rings(c, act) THEN RingTimer(c.dialed) ELSE {})
  /\ ivrTimers' = ivrTimers \cup (IF c.dialed \in IvrDns THEN {r} ELSE {})

(* hub.on_digit for a phone whose focus call is dialing. *)
DialDigit(p, d) ==
  /\ InState(p, "dialing")
  /\ LET r == active[p] IN
       /\ ~feature["transfer"][r].on /\ ~feature["conference"][r].on
       /\ TryCompleteDial(calls, r,
            [calls[r] EXCEPT !.dialed = AddDigit(@, d)], active)
  /\ UNCHANGED <<live, feature, media, nextRef>>

DialHash(p) ==
  /\ InState(p, "dialing")
  /\ LET r == active[p] IN
       /\ ~feature["transfer"][r].on /\ ~feature["conference"][r].on
       /\ TryCompleteDial(calls, r, calls[r], active)
  /\ UNCHANGED <<live, feature, media, nextRef>>

(* hub.answer: only the callee of a ringing call connects it. *)
AnsweredByNobody(p) == calls                                       \* mutant

Answered(p) ==
  IF InState(p, "ringing") /\ p = calls[active[p]].callee
  THEN [calls EXCEPT ![active[p]].state = "connected"]
  ELSE calls

Answer(p) ==
  /\ calls' = Answered(p)
  /\ UNCHANGED <<live, active, feature, media, ringTimers, ivrTimers, nextRef>>

(* hub._auto_answer_after_delay: the sleeping thread calls hub.answer. *)
AutoAnswerFires(p) ==
  /\ p \in ringTimers
  /\ ringTimers' = ringTimers \ {p}
  /\ calls' = Answered(p)
  /\ UNCHANGED <<live, active, feature, media, ivrTimers, nextRef>>

(* hub._auto_connect_ivr and _connect_ivr: connect unless the call is gone. *)
IvrConnectedBlindly(r) ==                                          \* mutant
  [calls EXCEPT ![r].state = "connected"]

IvrConnected(r) ==
  IF r \in live THEN [calls EXCEPT ![r].state = "connected"] ELSE calls

IvrConnects(r) ==
  /\ r \in ivrTimers
  /\ ivrTimers' = ivrTimers \ {r}
  /\ calls' = IvrConnected(r)
  /\ UNCHANGED <<live, active, feature, media, ringTimers, nextRef>>

-----------------------------------------------------------------------------
(* Hold, resume, media, hang up *)

(* hub.hold: either party, on a connected call that has a callee. *)

OnHold(c, p) == [c EXCEPT !.state = "held", !.heldBy = p]

Hold(p) ==
  /\ InState(p, "connected")
  /\ calls[active[p]].callee # NoPhone
  /\ calls' = [calls EXCEPT ![active[p]] = OnHold(@, p)]
  /\ UNCHANGED <<live, active, feature, media, ringTimers, ivrTimers, nextRef>>

(* hub.resume: any party, whoever held the call; both sides will open new   *)
(* receive channels.                                                        *)
Resumed(c) == [c EXCEPT !.state = "connected", !.heldBy = NoPhone, !.ports = {}]

Resume(p) ==
  /\ InState(p, "held")
  /\ calls[active[p]].callee # NoPhone
  /\ calls' = [calls EXCEPT ![active[p]] = Resumed(@)]
  /\ UNCHANGED <<live, active, feature, media, ringTimers, ivrTimers, nextRef>>

(* hub.on_media_ack: the ack is booked on the phone's focus call, whichever *)
(* call it answers; the media hub starts once every party has acked.  A     *)
(* client acks each OpenReceiveChannel, so an ack may come at any time.     *)
MediaReady(c, p) ==
  IF c.ivr THEN p = c.caller
  ELSE IF c.conf /\ c.third # NoPhone THEN Parties(c) \subseteq c.ports
  ELSE c.callee # NoPhone /\ {c.caller, c.callee} \subseteq c.ports

MediaAck(p) ==
  /\ p \in Ackers
  /\ InState(p, "connected")
  /\ LET r  == active[p]
         c  == [calls[r] EXCEPT !.ports = @ \cup {p}]
         up == MediaHub /\ MediaReady(c, p)
     IN /\ calls' = [calls EXCEPT ![r] = [c EXCEPT !.menu = @ \/ (c.ivr /\ up)]]
        /\ media' = IF up THEN media \cup {r} ELSE media
  /\ UNCHANGED <<live, active, feature, ringTimers, ivrTimers, nextRef>>

(* hub._other_calls_for_party and _pick_focus_call over the calls in L. *)
Rank == [held |-> 0, connected |-> 1, ringing |-> 2, dialing |-> 3,
         idle |-> 9, ended |-> 9]

CallsOf(p, L) == {r \in L : p \in Parties(calls[r])}

Before(r, q) == \/ Rank[calls[r].state] < Rank[calls[q].state]
                \/ Rank[calls[r].state] = Rank[calls[q].state] /\ r >= q

Focus(C) == CHOOSE r \in C : \A q \in C : Before(r, q)

(* hub.end_call(r), under the hub lock: forget the call, stop its media and *)
(* give each party another of its calls as focus, if it has one.            *)
OtherCallsDialed(p, r) == {q \in live \ {r} : calls[q].caller = p}  \* mutant

OtherCalls(p, r) ==
  {q \in CallsOf(p, live \ {r}) : calls[q].state \notin {"idle", "ended"}}

ClearedTwoParties(r) == {calls[r].caller, calls[r].callee}         \* mutant

Cleared(r) == Parties(calls[r])

EndCall(r) ==
  /\ r \in live
  /\ calls' = [calls EXCEPT ![r].state = "ended"]
  /\ live' = live \ {r}
  /\ active' = [p \in Phones |->
       IF p \notin Cleared(r)           THEN active[p]
       ELSE IF OtherCalls(p, r) # {}   THEN Focus(OtherCalls(p, r))
       ELSE IF active[p] = r           THEN NoCall
       ELSE active[p]]
  /\ media' = StopMedia({r})
  /\ UNCHANGED <<feature, ringTimers, ivrTimers, nextRef>>

(* OnHook, the EndCall softkey, UnregisterReq, and the admin reset, restart *)
(* and end-call requests: hub.end_call(source=session).                     *)
HangUp(p) == active[p] # NoCall /\ EndCall(active[p])

(* The IVR macro of a call whose media has started reaches END. *)
IvrHangsUp(r) == calls[r].ivr /\ calls[r].menu /\ EndCall(r)

-----------------------------------------------------------------------------
(* Transfer and conference.  feature[m][r] is the bookkeeping of mode m on  *)
(* call r: a primary call names its consult leg, a leg names its primary.   *)

FeatureOn(r) == \E m \in Modes : feature[m][r].on

(* on_digit looks at the transfer fields first. *)
FeatureMode(r) == IF feature["transfer"][r].on THEN "transfer" ELSE "conference"

InIvrMenu(r) == calls[r].ivr /\ calls[r].menu /\ calls[r].state = "connected"

(* p's focus call has a feature under way that p started. *)
EnteringAnyParty(p) ==                                             \* mutant
  active[p] # NoCall /\ ~InIvrMenu(active[p]) /\ FeatureOn(active[p])

Entering(p) ==
  /\ active[p] # NoCall
  /\ ~InIvrMenu(active[p])
  /\ FeatureOn(active[p])
  /\ feature[FeatureMode(active[p])][active[p]].by = p

(* hub._begin_transfer, hub._begin_conference *)
BeginFeature(m, r, p) ==
  /\ calls[r].state = "connected" /\ ~calls[r].ivr
  /\ m = "conference" => ~calls[r].conf
  /\ feature' = [feature EXCEPT ![m][r] =
                   [@ EXCEPT !.on = TRUE, !.by = p, !.digits = NoDigits]]
  /\ UNCHANGED <<calls, live, active, media, ringTimers, ivrTimers, nextRef>>

(* on_digit while a feature is on: the digit is collected ...               *)
Consultable(f, p) ==
  /\ f.consult = NoCall
  /\ f.digits \in Phones \ {p}
  /\ active[f.digits] = NoCall

FeatureDigit(p, d) ==
  /\ Entering(p)
  /\ LET r == active[p]
         m == FeatureMode(r)
         f == [feature[m][r] EXCEPT !.digits = AddDigit(@, d)]
     IN /\ ~Consultable(f, p)
        /\ feature' = [feature EXCEPT ![m][r] = f]
  /\ UNCHANGED <<calls, live, active, media, ringTimers, ivrTimers, nextRef>>

(* ... and when the digits name a free phone, hub._start_consult_leg holds  *)
(* the primary call and rings that phone on a consult leg.  (_notify_hold   *)
(* asserts that the call it holds has a callee.)                            *)
ConsultDial(p, d) ==
  /\ Entering(p)
  /\ nextRef \in Refs
  /\ LET r == active[p]
         m == FeatureMode(r)
         f == [feature[m][r] EXCEPT !.digits = AddDigit(@, d)]
     IN /\ Consultable(f, p)
        /\ calls[r].state = "held" \/ calls[r].callee # NoPhone
        /\ calls' = [calls EXCEPT
             ![r] = IF @.state = "held" THEN @ ELSE OnHold(@, p),
             ![nextRef] = [NewCallBy(p, "ringing") EXCEPT
                             !.callee = f.digits, !.dialed = f.digits]]
        /\ live' = live \cup {nextRef}
        /\ active' = [active EXCEPT ![p] = nextRef, ![f.digits] = nextRef]
        /\ feature' = [feature EXCEPT
             ![m][r] = [f EXCEPT !.consult = nextRef],
             ![m][nextRef].primary = r]
        /\ media' = StopMedia({r})
        /\ ringTimers' = ringTimers \cup RingTimer(f.digits)
  /\ nextRef' = nextRef + 1
  /\ UNCHANGED ivrTimers

(* hub._cancel_consult_leg(p, k) for the consult leg k in K, if there is    *)
(* one: the leg ends and its parties fall back to the primary p or to none. *)
ConsultOf(m, p) == {feature[m][p].consult} \cap live

LegCallsLeft(K) == calls                                           \* mutant

LegCalls(K) == [r \in Refs |-> IF r \in K
                  THEN [calls[r] EXCEPT !.state = "ended", !.ports = {}]
                  ELSE calls[r]]

LegActive(p, K) == [q \in Phones |->
  IF active[q] \in K /\ q \in {calls[active[q]].caller, calls[active[q]].callee}
  THEN IF q \in {calls[p].caller, calls[p].callee} THEN p ELSE NoCall
  ELSE active[q]]

(* The fields of mode m on p go back to their defaults, and no field of p   *)
(* names a leg in K any more.                                               *)

Forgotten(f, K) == IF f.consult \in K THEN [f EXCEPT !.consult = NoCall] ELSE f

SwitchedOff(f) == [f EXCEPT !.on = FALSE, !.by = NoPhone, !.digits = NoDigits]

FeatureOff(m, p, K) == [n \in Modes |-> [feature[n] EXCEPT ![p] =
  IF n = m THEN SwitchedOff(Forgotten(@, K)) ELSE Forgotten(@, K)]]

(* hub._complete_blind_transfer without digits *)
CancelTransfer(p) ==
  /\ feature["transfer"][p].on
  /\ feature["transfer"][p].digits = NoDigits
  /\ feature' = FeatureOff("transfer", p, {})
  /\ UNCHANGED <<calls, live, active, media, ringTimers, ivrTimers, nextRef>>

(* hub._complete_blind_transfer with digits and hub._execute_blind_transfer: *)
(* the initiator goes on hook and the other party dials the target.          *)
BlindTransfer(p) ==
  LET f         == feature["transfer"][p]
      remaining == Other(calls[p], f.by)
      K         == ConsultOf("transfer", p)
      act       == [LegActive(p, K) EXCEPT ![f.by] = NoCall, ![remaining] = p]
      c         == [calls[p] EXCEPT
                      !.caller = remaining, !.callee = NoPhone,
                      !.dialed = f.digits, !.state = "dialing",
                      !.ivr = FALSE, !.menu = FALSE, !.ports = {}]
  IN /\ f.on /\ f.digits # NoDigits
     /\ remaining # NoPhone
     /\ TryCompleteDial(LegCalls(K), p, c, act)
     /\ live' = live \ K
     /\ media' = StopMedia(K \cup {p})
     /\ feature' = FeatureOff("transfer", p, K)
     /\ UNCHANGED nextRef

(* hub._abort_conference: the consult leg is dropped and, if the primary is  *)
(* held, its holder resumes whatever call it now has in focus.               *)
AbortConference(p) ==
  LET f      == feature["conference"][p]
      holder == IF calls[p].heldBy # NoPhone THEN calls[p].heldBy ELSE f.by
      K      == ConsultOf("conference", p)
      cs     == LegCalls(K)
      act    == LegActive(p, K)
      r      == act[holder]
  IN /\ f.on
     /\ calls' = IF /\ calls[p].state = "held"
                    /\ r # NoCall /\ cs[r].state = "held" /\ cs[r].callee # NoPhone
                 THEN [cs EXCEPT ![r] = Resumed(@)]
                 ELSE cs
     /\ live' = live \ K
     /\ active' = act
     /\ media' = StopMedia(K)
     /\ feature' = FeatureOff("conference", p, K)
     /\ UNCHANGED <<ringTimers, ivrTimers, nextRef>>

(* hub._complete_consulted_transfer(p, k, s): the initiator drops out and    *)
(* the remaining party of p is joined with the callee of the consult leg k.  *)
CompleteTransfer(p, k, s) ==
  LET remaining == Other(calls[p], s)
      target    == calls[k].callee
  IN /\ target \notin {NoPhone, s}
     /\ remaining \notin {NoPhone, s}
     /\ calls' = [calls EXCEPT
          ![k] = [@ EXCEPT !.state = "ended", !.ports = {}],
          ![p] = [@ EXCEPT !.caller = remaining, !.callee = target,
                           !.state = "connected", !.dialed = target,
                           !.ivr = FALSE, !.menu = FALSE,
                           !.heldBy = NoPhone, !.ports = {}]]
     /\ live' = live \ {k}
     /\ active' = [active EXCEPT ![s] = NoCall, ![remaining] = p, ![target] = p]
     /\ media' = StopMedia({p, k})
     /\ feature' = FeatureOff("transfer", p, {feature["transfer"][p].consult})
     /\ UNCHANGED <<ringTimers, ivrTimers, nextRef>>

(* hub._complete_conference(p, k, s): the consult callee joins p as third.   *)
CompleteConference(p, k, s) ==
  LET held    == Other(calls[p], s)
      newcomer == calls[k].callee
  IN /\ newcomer \notin {NoPhone, s}
     /\ held \notin {NoPhone, s}
     /\ calls' = [calls EXCEPT
          ![k] = [@ EXCEPT !.state = "ended", !.ports = {}],
          ![p] = [@ EXCEPT !.conf = TRUE, !.third = newcomer,
                           !.state = "connected", !.heldBy = NoPhone,
                           !.ports = {}]]
     /\ live' = live \ {k}
     /\ active' = [active EXCEPT ![s] = p, ![held] = p, ![newcomer] = p]
     /\ media' = StopMedia({p, k})
     /\ feature' = FeatureOff("conference", p, {feature["conference"][p].consult})
     /\ UNCHANGED <<ringTimers, ivrTimers, nextRef>>

Complete(m, p, k, s) ==
  IF m = "transfer" THEN CompleteTransfer(p, k, s) ELSE CompleteConference(p, k, s)

GiveUp(m, p) ==
  IF m = "transfer" THEN CancelTransfer(p) \/ BlindTransfer(p) ELSE AbortConference(p)

IsConnected(k) == k \in live /\ calls[k].state = "connected"

(* The initiator s finishes mode m on its primary call p. *)
Finish(m, p, s) ==
  IF IsConnected(feature[m][p].consult)
  THEN Complete(m, p, feature[m][p].consult, s)
  ELSE GiveUp(m, p)

(* on_digit with "#" while a feature is on *)
FeatureHash(p) == Entering(p) /\ Finish(FeatureMode(active[p]), active[p], p)

(* hub.on_transfer_softkey, hub.on_conference_softkey.  Confrn may name any  *)
(* call of the phone; Transfer always acts on the focus call.                *)
Targets(m, p) ==
  ({active[p]} \ {NoCall}) \cup (IF m = "conference" THEN CallsOf(p, live) ELSE {})

FeatureKey(m, p, r) ==
  LET prim == feature[m][r].primary
      mine == ~calls[r].ivr /\ feature[m][r].on
  IN /\ r \in Targets(m, p)
     /\ \/ prim \in live /\ calls[r].state = "connected" /\ Complete(m, prim, r, p)
        \/ /\ prim \in live /\ calls[r].state # "connected"
           /\ feature[m][prim].on /\ feature[m][prim].by = p
           /\ GiveUp(m, prim)
        \/ prim = NoCall /\ mine /\ feature[m][r].by = p /\ Finish(m, r, p)
        \/ prim = NoCall /\ ~mine /\ BeginFeature(m, r, p)

-----------------------------------------------------------------------------
(* The specification *)

PhoneStep(p) ==
  \/ NewCall(p) \/ Answer(p) \/ Hold(p) \/ Resume(p)
  \/ MediaAck(p) \/ HangUp(p) \/ DialHash(p) \/ FeatureHash(p)
  \/ \E d \in Digits : DialDigit(p, d) \/ FeatureDigit(p, d) \/ ConsultDial(p, d)
  \/ \E m \in Offered, r \in Refs : FeatureKey(m, p, r)

TimerStep ==
  \/ \E p \in Phones : AutoAnswerFires(p)
  \/ \E r \in Refs : IvrConnects(r)

Next == (\E p \in Phones : PhoneStep(p)) \/ TimerStep
        \/ (\E r \in Refs : IvrHangsUp(r))

Spec == Init /\ [][Next]_vars

(* Sleeping threads wake up and run; what users do is not forced. *)
FairSpec ==
  /\ Spec
  /\ \A p \in Phones : WF_vars(AutoAnswerFires(p))
  /\ \A r \in Refs : WF_vars(IvrConnects(r))

-----------------------------------------------------------------------------
(* Properties *)

TypeOK ==
  /\ calls \in [Refs -> Call]
  /\ live \subseteq Refs
  /\ active \in [Phones -> Refs \cup {NoCall}]
  /\ feature \in [Modes -> [Refs -> Feature]]
  /\ media \subseteq Refs
  /\ ringTimers \subseteq AutoAnswer
  /\ ivrTimers \subseteq Refs
  /\ nextRef \in 1..(MaxCalls + 1)

(* The focus call of a phone is one the hub still knows (end_call).          *)
FocusIsLive == \A p \in Phones : active[p] # NoCall => active[p] \in live

(* What begin_outbound says when it refuses a phone: it is in a call.        *)
BusyMeansInCall ==
  \A p \in Phones : ~MayDial(p) => CallsOf(p, live) # {}

(* ... and one the phone is a party of (_cleanup_consult_leg).               *)
FocusIsMine ==
  \A p \in Phones : active[p] # NoCall => p \in Parties(calls[active[p]])

(* Both: a phone whose focus is anything else is bricked, as begin_outbound  *)
(* refuses it as busy and end_call finds nothing to end.                     *)
FocusIsOwn == FocusIsLive /\ FocusIsMine

(* hub._calls holds exactly the calls that are neither unused nor ended.     *)
TableMatchesState ==
  \A r \in Refs : r \in live <=> calls[r].state \notin {"idle", "ended"}

(* No RTP endpoint of the media hub outlives its call (stop_call in every    *)
(* path that ends or replaces a call).                                       *)
MediaOnlyWhileLive == media \subseteq live

(* A call that rings a phone is that phone's focus call, so that Answer, its *)
(* off-hook and its auto-answer thread all reach it.                         *)
RingingCanBeAnswered ==
  \A r \in live : calls[r].state = "ringing" /\ calls[r].callee # NoPhone
                   => active[calls[r].callee] = r

(* A phone that is party to a call can act on some call: it is never on hook *)
(* with a call of its own left in the hub.                                   *)
NoPhoneStranded ==
  \A p \in Phones : CallsOf(p, live) # {} => active[p] # NoCall

(* A live consult leg and its live primary name each other, the feature is   *)
(* still on, and the leg was dialed by the phone that started the feature.   *)
ConsultLinked ==
  \A m \in Modes, p, k \in live :
    /\ feature[m][p].consult = k <=> feature[m][k].primary = p
    /\ feature[m][p].consult = k =>
         feature[m][p].on /\ feature[m][p].by = calls[k].caller

(* Only a party of a call has a transfer or conference under way on it.      *)
FeatureByParty ==
  \A m \in Modes, r \in live :
    feature[m][r].on => feature[m][r].by \in Parties(calls[r])

(* Both: a transfer or conference under way has a party that can finish it,  *)
(* and finds its two legs by each other (_complete_transfer, on_digit).      *)
FeaturesLinked == ConsultLinked /\ FeatureByParty

(* A call that has ended never comes back, whatever thread still holds the   *)
(* SimCall object, and its call_ref is never used again.                     *)
EndedIsFinal ==
  [][\A r \in Refs : calls[r].state = "ended" => calls'[r].state = "ended"]_vars

(* A phone in conversation keeps that call in focus until the call is held   *)
(* or over, or another call of that phone ends: nobody else's dialing,       *)
(* answering or hanging up takes it away.                                    *)
ConversationKept ==
  [][\A p \in Phones :
       /\ InState(p, "connected")
       /\ active'[p] # active[p]
       /\ calls'[active[p]].state = "connected"
       => \E r \in live \ live' : p \in Parties(calls[r])]_vars

(* Resuming a held call brings its parties back together: each of them has   *)
(* the call in focus again.                                                  *)
ResumeReunites ==
  [][\A p \in Phones :
       InState(p, "held") /\ calls'[active[p]].state = "connected"
         => \A q \in Parties(calls'[active[p]]) : active'[q] = active[p]]_vars

(* A call that rings an auto-answer phone, or the IVR, is connected or over  *)
(* in the end.                                                               *)
RingingSettles ==
  \A r \in Refs :
    (calls[r].state = "ringing" /\ (calls[r].ivr \/ calls[r].callee \in AutoAnswer))
      ~> calls[r].state # "ringing"
=============================================================================
