---------------------------- MODULE PhoneScreen ----------------------------
(***************************************************************************)
(* What a phone shows.  The simulator paints its screen packet by packet:  *)
(* call states, softkey sets, tones, prompts, and on a legacy phone (7912) *)
(* ringer and lamp, which the client reads as call states too.  The user   *)
(* presses the softkeys the screen shows, whatever packets are still to    *)
(* come.  The hub's calls are seen from the phone; transfer, conference    *)
(* and media are in CallHub and PhoneLink.                                 *)
(***************************************************************************)
EXTENDS Naturals, Sequences

CONSTANTS
  Refs,          \* the call references, handed out in order
  NoCall,        \* no call
  Kinds,         \* the phones, and what their users do
  Behind         \* bound: packets on their way to the phone when the hub acts

(* The profile of the phone, and whether a NewCall reaches the hub while a  *)
(* call is held.                                                            *)
Kind == [legacy : BOOLEAN, second : BOOLEAN]

ASSUME ScreenAssumption ==
  /\ Refs \subseteq Nat \ {0} /\ NoCall \notin Refs
  /\ Kinds \subseteq Kind /\ Behind \in Nat

VARIABLES
  kind,          \* the one of this run
  calls,         \* the hub's calls of this phone
  active,        \* its session's active_call
  phone,         \* its call table (ClientCalls)
  face,          \* softkeys, tone and prompt of the client
  key,           \* the softkey on its way to the hub
  toMe           \* packets on their way to the phone

screenVars == <<kind, calls, active, phone, face, key, toMe>>

Legacy == kind.legacy
SecondCalls == kind.second

Client == INSTANCE ClientCalls WITH CallRefs <- Refs, NoRef <- NoCall, Records <- FALSE

-----------------------------------------------------------------------------
(* Softkeys *)

(* The events of SoftKeyTemplateRes, in order. *)
Template ==
  IF Legacy
  THEN <<1, 2, 3, 4, 5, 8, 9, 10, 11, 13, 14, 15, 16, 17, 18, 21, 28, 29, 30, 33>>
  ELSE <<1, 2, 11, 3, 10, 9, 4, 13>>

(* The template indices of SoftKeySetRes, by the set's name. *)
KeySets ==
  IF Legacy
  THEN [idle |-> <<1, 2, 5>>,
        connected |-> <<3, 7, 4, 11, 10, 19, 18, 12, 17, 20>>,
        held |-> <<8, 2, 17, 18, 12>>, ringin |-> <<11, 9>>,
        dialing |-> <<1, 7, 5, 14, 15, 13>>, ringout |-> <<0, 7>>]
  ELSE [idle |-> <<2, 1>>, connected |-> <<3, 9, 4, 13>>, held |-> <<10, 9>>,
        ringin |-> <<11>>, dialing |-> <<9>>, ringout |-> <<9>>]

NewCallKey == 2
HoldKey == 3
EndCallKey == 9
ResumeKey == 10
AnswerKey == 11

(* resolve_template_by_index: an event of the template goes before a        *)
(* position.  (A label of the enumeration stands for the event of the same  *)
(* number; a legacy template has no readable labels.)                       *)

Resolve(i) ==
  IF i \in Client!Elements(Template) \/ i \notin 1..Len(Template) THEN i
  ELSE Template[i]

(* ui_softkey_context: the set of the selected or newest call; a call that  *)
(* rings has its set whatever was selected.                                 *)
ShownSet(ph, f) ==
  LET refs == Client!Preferred(ph)
      with == Client!FirstOf(refs, LAMBDA r : f.keys[r] # "none")
  IN IF refs # <<>> /\ ph.st[refs[1]] \in {"ringin", "ringout"}
     THEN ph.st[refs[1]]
     ELSE IF with # NoCall THEN f.keys[with] ELSE f.set

(* get_current_softkeys *)
ShownKeys(ph, f) ==
  LET s == KeySets[ShownSet(ph, f)] IN {Resolve(s[i]) : i \in 1..Len(s)} \ {0}

NewFace ==
  [keys |-> [r \in Refs |-> "none"],     \* selected_softkeys
   set |-> "idle",                       \* selected_softkey_set
   tone |-> "none", prompt |-> "Ready"]

-----------------------------------------------------------------------------
(* The packets and their handlers *)

Packet(do, r, arg) == [do |-> do, ref |-> r, arg |-> arg]
State(s, r)   == Packet("State", r, s)
Info(way, r)  == Packet("Info", r, way)
Softkeys(s, r) == Packet("Keys", r, s)
Tone(t)       == Packet("Tone", NoCall, t)
Prompt(t)     == Packet("Prompt", NoCall, t)
Lamp(mode)    == Packet("Lamp", NoCall, mode)
Ringer(r)     == Packet("Ringer", r, "on")
Plane         == Packet("Plane", NoCall, "on")

Talked(ph, r) == ph.st[r] \in {"connected", "hold"}

(* SetRinger: any mode but 0 rings its call, or the selected, or the newest.*)
SetRinger(ph, r) ==
  LET ref == IF r # NoCall THEN r
             ELSE IF ph.sel # NoCall THEN ph.sel
             ELSE IF ph.act # <<>> THEN ph.act[Len(ph.act)] ELSE NoCall
  IN IF ref = NoCall \/ Talked(ph, ref) THEN ph
     ELSE Client!MarkRinging(ph, ref, "ringin")

(* SetLamp on the line: apply_line_lamp_state; there is one line. *)
SetLamp(ph, mode) ==
  LET r == Client!ActiveKey(ph, NoCall) IN
  IF r = NoCall \/ r \notin Client!Elements(ph.act) THEN ph
  ELSE IF mode = "on" /\ ph.st[r] = "hold" THEN Client!MarkConnected(ph, r)
  ELSE IF mode = "off" /\ Talked(ph, r) /\ Len(ph.act) = 1
       THEN Client!MarkEnded(ph, r)
  ELSE ph

(* CallInfo: a call that talks keeps its state, any other rings. *)
CallInfoRegresses(ph, way, r) ==                                   \* mutant
  IF way = "in" THEN Client!MarkRinging(ph, r, "ringin")
  ELSE [ph EXCEPT !.st[r] = "ringout", !.act = Client!Listed(ph, r),
                  !.active = TRUE, !.ev = @ \ {"ended"}, !.sel = r]

CallInfo(ph, way, r) ==
  LET listed == [ph EXCEPT !.act = Client!Listed(ph, r), !.active = TRUE,
                           !.ev = @ \ {"ended"}]
  IN IF Talked(ph, r) THEN listed
     ELSE IF way = "in" THEN Client!MarkRinging(ph, r, "ringin")
     ELSE [listed EXCEPT !.st[r] = "ringout", !.sel = r]

(* What the call table is after packet m. *)
PhoneAfter(ph, m) ==
  CASE m.do = "State"  -> Client!ApplyCallState(ph, m.arg, m.ref)
    [] m.do = "Info"   -> CallInfo(ph, m.arg, m.ref)
    [] m.do = "Keys"   -> Client!SelectKeys(ph, m.ref)
    [] m.do = "Ringer" -> SetRinger(ph, m.ref)
    [] m.do = "Lamp"   -> SetLamp(ph, m.arg)
    [] m.do = "Plane"  -> Client!ActivatePlane(ph)
    [] OTHER           -> ph

SelectSet(f, s, r) ==
  [f EXCEPT !.set = s, !.keys = [q \in Refs |-> IF q = r THEN s ELSE @[q]]]
PlayTone(f, t)   == [f EXCEPT !.tone = t]
ShowPrompt(f, t) == [f EXCEPT !.prompt = t]

(* SelectSoftKeys, StartTone and StopTone, DisplayPromptStatus. *)
FaceAfter(f, m) ==
  CASE m.do = "Keys"   -> SelectSet(f, m.arg, m.ref)
    [] m.do = "Tone"   -> PlayTone(f, m.arg)
    [] m.do = "Prompt" -> ShowPrompt(f, m.arg)
    [] OTHER           -> f

-----------------------------------------------------------------------------
(* What the simulator sends *)

OutboundPackets(r) ==
  IF Legacy
  THEN <<Ringer(NoCall), Lamp("on"), State("offhook", r), Softkeys("dialing", r),
         Prompt("blank"), Plane, Tone("dial")>>
  ELSE <<State("offhook", r), Plane, State("proceed", r), Tone("none"),
         Tone("dial"), Softkeys("dialing", r), Prompt("blank")>>

RingOutPackets(r) ==
  <<Tone("none"), State("ringout", r), Info("out", r), Prompt("RingOut"),
    Softkeys("ringout", r)>>

RingInPackets(r) ==
  IF Legacy
  THEN <<State("ringin", r), Softkeys("ringin", r), Prompt("number"), Info("in", r),
         Lamp("flash"), Ringer(r), Softkeys("ringin", r)>>
  ELSE <<State("ringin", r), Info("in", r), Tone("ring"), Prompt("RingIn"),
         Softkeys("ringin", r)>>

(* A connected IVR call has the keys of a call being dialed. *)
IvrPackets(r) ==
  IF Legacy
  THEN <<Tone("none"), State("connected", r), Softkeys("dialing", r),
         Prompt("number"), Info("out", r), Softkeys("dialing", r)>>
  ELSE <<Tone("none"), State("connected", r), Info("out", r),
         Prompt("Connected"), Softkeys("dialing", r), Softkeys("dialing", r)>>

Way(c) == IF c.out THEN "out" ELSE "in"

(* _modern_connect_packets, and _notify_resumed on any phone *)
ConnectKeepsKeys(c, r) ==                                          \* mutant
  <<Tone("none"), State("connected", r), Info(Way(c), r), Prompt("Connected")>>

ConnectPackets(c, r) ==
  <<Tone("none"), State("connected", r), Info(Way(c), r), Prompt("Connected"),
    Softkeys("connected", r)>>

(* _legacy_callee_connect_packets *)
AnswerPackets(r) ==
  <<Ringer(NoCall), Lamp("on"), State("offhook", r), Plane, Ringer(r),
    Tone("none"), Tone("none"), State("connected", r), Softkeys("connected", r),
    Prompt("number"), Info("in", r)>>

TalkPackets(c, r) ==
  IF Legacy /\ ~c.out THEN AnswerPackets(r) ELSE ConnectPackets(c, r)

HoldPackets(c, r) ==
  <<Tone("none"), State("hold", r), Info(Way(c), r),
    Tone(IF c.mine THEN "hold" ELSE "remote_hold"),
    Prompt(IF c.mine THEN "OnHold" ELSE "RemoteHold"), Softkeys("held", r)>>

(* _send_party_focus: a call being dialed, or at the IVR, is not shown.     *)
FocusPackets(r) ==
  LET c == calls[r] IN
  CASE c.st = "held" -> HoldPackets(c, r)
    [] c.st = "connected" /\ ~c.ivr -> TalkPackets(c, r)
    [] c.st = "ringing" /\ ~c.ivr ->
         IF c.out THEN RingOutPackets(r) ELSE RingInPackets(r)
    [] OTHER -> <<>>

IdlePackets ==
  IF Legacy THEN <<Lamp("off"), Prompt("blank"), Softkeys("idle", NoCall)>>
  ELSE <<Prompt("Ready"), Softkeys("idle", NoCall)>>

-----------------------------------------------------------------------------
(* The hub *)

Live == {r \in Refs : calls[r].st \notin {"none", "ended"}}
InState(s) == active # NoCall /\ calls[active].st = s

(* _pick_focus_call: the held before the connected before the rest, and of  *)
(* these the newest.                                                        *)
Rank == [held |-> 0, connected |-> 1, ringing |-> 2, dialing |-> 3]

FocusOf(rs) ==
  IF rs = {} THEN NoCall
  ELSE CHOOSE r \in rs : \A q \in rs :
         \/ Rank[calls[r].st] < Rank[calls[q].st]
         \/ calls[r].st = calls[q].st /\ r >= q

(* The next reference, if the bound allows one. *)
Free == {r \in Refs : \A q \in Refs : calls[q].st = "none" <=> q >= r}

Becomes(r, c) == calls' = [calls EXCEPT ![r] = c]
Sends(packets) == toMe' = toMe \o packets
Call(s, out, ivr) == [st |-> s, out |-> out, ivr |-> ivr, mine |-> FALSE]

(* hub.begin_outbound and session._start_outbound *)
MayDial == active = NoCall \/ InState("held")

StartOutbound ==
  /\ MayDial
  /\ \E r \in Free :
       /\ Becomes(r, Call("dialing", TRUE, FALSE))
       /\ active' = r /\ Sends(OutboundPackets(r))

(* _try_complete_dial and _start_ivr_call *)
DialOther ==
  /\ InState("dialing")
  /\ \E ivr \in BOOLEAN : Becomes(active, Call("ringing", TRUE, ivr))
  /\ Sends(RingOutPackets(active)) /\ UNCHANGED active

(* hub.answer, by either side *)
Talk(r) ==
  LET c == [calls[r] EXCEPT !.st = "connected", !.mine = FALSE]
  IN Becomes(r, c) /\ Sends(TalkPackets(c, r)) /\ UNCHANGED active

(* hub.hold *)
HoldCall(r, mine) ==
  LET c == [calls[r] EXCEPT !.st = "held", !.mine = mine]
  IN Becomes(r, c) /\ Sends(HoldPackets(c, r)) /\ UNCHANGED active

(* hub.resume: the same packets on every phone *)
ResumeCall(r) ==
  LET c == [calls[r] EXCEPT !.st = "connected", !.mine = FALSE]
  IN Becomes(r, c) /\ Sends(ConnectPackets(c, r)) /\ UNCHANGED active

(* hub.end_call: the phone goes on with the call in focus *)

EndStaysActive(r) ==                                               \* mutant
  /\ Becomes(r, [calls[r] EXCEPT !.st = "ended"]) /\ UNCHANGED active
  /\ Sends(<<Tone("none"), State("onhook", r)>> \o IdlePackets)

EndCall(r) ==
  LET next == FocusOf(Live \ {r}) IN
  /\ Becomes(r, [calls[r] EXCEPT !.st = "ended"])
  /\ active' = next
  /\ Sends(<<Tone("none"), State("onhook", r)>>
           \o (IF next = NoCall THEN IdlePackets ELSE FocusPackets(next)))

-----------------------------------------------------------------------------
(* The other parties *)

KeepsUp == Len(toMe) <= Behind

Ring ==
  /\ active = NoCall
  /\ \E r \in Free :
       /\ Becomes(r, Call("ringing", FALSE, FALSE))
       /\ active' = r /\ Sends(RingInPackets(r))

OtherAnswers == \E r \in Live :
  calls[r].st = "ringing" /\ calls[r].out /\ ~calls[r].ivr /\ Talk(r)

IvrConnects == \E r \in Live :
  /\ calls[r].st = "ringing" /\ calls[r].ivr
  /\ Becomes(r, [calls[r] EXCEPT !.st = "connected"])
  /\ Sends(IvrPackets(r)) /\ UNCHANGED active

OtherHolds == \E r \in Live :
  calls[r].st = "connected" /\ ~calls[r].ivr /\ HoldCall(r, FALSE)

(* A remote Resume while this phone is in its second call is left to        *)
(* PhoneLink.                                                               *)
OtherResumes == InState("held") /\ ResumeCall(active)

OtherEnds == \E r \in Live :
  calls[r].st # "dialing" /\ ~calls[r].ivr /\ EndCall(r)

Others ==
  /\ KeepsUp /\ UNCHANGED <<phone, face, key>>
  /\ Ring \/ OtherAnswers \/ IvrConnects \/ OtherHolds \/ OtherResumes \/ OtherEnds

-----------------------------------------------------------------------------
(* The phone *)

NoKey == 0
DialKeys == 99                             \* the digits of a number

(* The receive loop handles one packet. *)
ReceivePacket ==
  /\ toMe # <<>>
  /\ phone' = PhoneAfter(phone, Head(toMe))
  /\ face' = FaceAfter(face, Head(toMe))
  /\ toMe' = Tail(toMe)
  /\ UNCHANGED <<calls, active, key>>

(* The keys at hand: those on the screen, and NewCall, which the command    *)
(* line and the web page offer whatever the screen shows.                   *)
AtHand ==
  (ShownKeys(phone, face) \cap {HoldKey, EndCallKey, ResumeKey, AnswerKey})
    \cup (IF SecondCalls \/ phone.act = <<>> THEN {NewCallKey} ELSE {})

(* The user presses a softkey; an EndCall with that label is PressEndCall.  *)
PressSoftkey ==
  /\ key = NoKey
  /\ key' \in AtHand \ (IF Legacy THEN {} ELSE {EndCallKey})
  /\ UNCHANGED <<calls, active, phone, face, toMe>>

(* EndCall by its name, on the screen or by the console's key during a call:*)
(* the phone ends the call before the hub hears of it.                      *)
PressEndCall ==
  /\ key = NoKey /\ key' = EndCallKey
  /\ phone.act = <<>> => ~Legacy /\ EndCallKey \in ShownKeys(phone, face)
  /\ phone' = Client!EndLocally(phone, Client!Target(phone, "EndCall"))
  /\ face' = PlayTone(face, "none")
  /\ UNCHANGED <<calls, active, toMe>>

(* He dials when the phone asks for a number. *)
Dial ==
  /\ key = NoKey /\ ShownSet(phone, face) = "dialing"
  /\ key' = DialKeys
  /\ UNCHANGED <<calls, active, phone, face, toMe>>

(* session._on_softkey and _on_keypad, for the phone's active call; what    *)
(* does not fit its state is ignored.                                       *)
Refused(k) ==
  \/ k = NewCallKey /\ ~(MayDial /\ Free # {})
  \/ k = DialKeys /\ ~InState("dialing")
  \/ k = AnswerKey /\ ~(InState("ringing") /\ ~calls[active].out)
  \/ k = HoldKey /\ ~(InState("connected") /\ ~calls[active].ivr)
  \/ k = ResumeKey /\ ~InState("held")
  \/ k = EndCallKey /\ active = NoCall

Served(k) ==
  \/ k = NewCallKey /\ StartOutbound
  \/ k = DialKeys /\ DialOther
  \/ k = AnswerKey /\ InState("ringing") /\ ~calls[active].out /\ Talk(active)
  \/ k = HoldKey /\ InState("connected") /\ ~calls[active].ivr
       /\ HoldCall(active, TRUE)
  \/ k = ResumeKey /\ InState("held") /\ ResumeCall(active)
  \/ k = EndCallKey /\ active # NoCall /\ EndCall(active)

HubHandles ==
  /\ key # NoKey /\ key' = NoKey /\ KeepsUp
  /\ key = NewCallKey /\ InState("held") => SecondCalls
  /\ \/ Served(key)
     \/ Refused(key) /\ UNCHANGED <<calls, active, toMe>>
  /\ UNCHANGED <<phone, face>>

-----------------------------------------------------------------------------
ScreenInit ==
  /\ kind \in Kinds
  /\ calls = [r \in Refs |-> Call("none", FALSE, FALSE)]
  /\ active = NoCall
  /\ phone = Client!NewPhone /\ face = NewFace
  /\ key = NoKey /\ toMe = <<>>

ScreenNext ==
  /\ UNCHANGED kind
  /\ Others \/ ReceivePacket \/ PressSoftkey \/ PressEndCall \/ Dial \/ HubHandles

ScreenSpec == ScreenInit /\ [][ScreenNext]_screenVars

-----------------------------------------------------------------------------
(* Properties *)

(* The types, and: an active call is a live one. *)
ScreenTypeOK ==
  /\ calls \in [Refs -> [st: {"none", "dialing", "ringing", "connected", "held", "ended"},
                         out: BOOLEAN, ivr: BOOLEAN, mine: BOOLEAN]]
  /\ active \in Live \cup {NoCall}
  /\ phone \in Client!Phone
  /\ face.keys \in [Refs -> DOMAIN KeySets \cup {"none"}]
  /\ face.set \in DOMAIN KeySets

(* Nothing is on its way. *)
Quiet == toMe = <<>> /\ key = NoKey

(* How the phone lists a call of the hub. *)
ListedAs(r) ==
  LET c == calls[r] IN
  CASE c.st = "connected" -> "connected"
    [] c.st = "held"      -> "hold"
    [] c.st = "ringing"   -> IF c.out THEN "ringout" ELSE "ringin"

(* Whatever keys were pressed in the middle of which packets, once nothing  *)
(* is on its way the phone lists the hub's calls in their states (a call    *)
(* being dialed is not listed) and has selected the active one, unless that *)
(* is one the focus packets do not show: a ringer or a lamp has brought no  *)
(* call back to ringing, and no CallInfo.                                   *)
ScreenAgrees == Quiet =>
  /\ Client!Elements(phone.act) = {r \in Live : calls[r].st # "dialing"}
  /\ \A r \in Client!Elements(phone.act) : phone.st[r] = ListedAs(r)
  /\ active = NoCall \/ InState("dialing") \/ calls[active].ivr \/ phone.sel = active

(* ... and the softkeys it shows are ones the hub acts on now: a quiet      *)
(* phone can place, answer, hold and end its calls by the keys it shows.    *)
KeysFit == Quiet =>
  LET shown == ShownKeys(phone, face) IN
  CASE active = NoCall        -> NewCallKey \in shown
    [] InState("dialing")   -> EndCallKey \in shown
    [] InState("ringing")   -> (IF calls[active].out THEN EndCallKey ELSE AnswerKey) \in shown
    [] InState("connected") ->
         EndCallKey \in shown /\ (HoldKey \in shown <=> ~calls[active].ivr)
    [] InState("held")      -> TRUE

(* A quiet modern phone with a call on hold shows Resume. *)
ResumeFits == Quiet /\ ~Legacy /\ InState("held") => ResumeKey \in ShownKeys(phone, face)

(* A quiet phone plays the tone of its active call, and no tone of a call   *)
(* that has ended or moved on: end_call, the local EndCall and the focus    *)
(* packets stop and start tones in several orders.                          *)
TonesFit == Quiet =>
  CASE InState("held")    -> face.tone = (IF calls[active].mine THEN "hold" ELSE "remote_hold")
    [] InState("ringing") -> face.tone = (IF calls[active].out \/ Legacy THEN "none" ELSE "ring")
    [] InState("dialing") -> face.tone \in {"dial", "none"}
    [] OTHER              -> face.tone = "none"

(* The prompt of a quiet modern phone is the one of its active call, or of  *)
(* the idle phone; a call the focus packets do not show has any.            *)
PromptFits == Quiet /\ ~Legacy /\ (active = NoCall \/ ~calls[active].ivr) =>
  CASE InState("held")    -> face.prompt = (IF calls[active].mine THEN "OnHold" ELSE "RemoteHold")
    [] InState("ringing") -> face.prompt = (IF calls[active].out THEN "RingOut" ELSE "RingIn")
    [] InState("connected") -> face.prompt = "Connected"
    [] active = NoCall      -> face.prompt = "Ready"
    [] OTHER              -> TRUE

(* A quiet phone shows keys the hub acts on now, plays the tone of its      *)
(* active call and, a modern one, shows its prompt.                         *)
ShownFits == KeysFit /\ ResumeFits /\ TonesFit /\ PromptFits
=============================================================================
