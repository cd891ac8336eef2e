----------------------------- MODULE PhoneLink -----------------------------
(***************************************************************************)
(* One phone and the call hub, with the two ordered byte streams between   *)
(* them.  The phone Me is a whole client (ClientCalls): it acts on its own *)
(* table of calls, tells the hub by messages, and learns from the hub by   *)
(* messages, so both sides are often out of date.  The other phones act on *)
(* the hub directly, as in CallHub; a hub step that concerns Me also sends *)
(* Me what the code sends.                                                 *)
(***************************************************************************)
EXTENDS CallHub, Sequences

CONSTANTS
  Me,            \* the phone whose client is modelled
  Keys,          \* the keys its user presses
  OthersDo,      \* what the other phones do besides answering
  MaxUp,         \* bound: messages of Me on their way to the hub
  MaxDown,       \* bound: messages on their way to Me when anybody acts
  Records        \* rtp recording

ASSUME LinkAssumption ==
  /\ Me \in Phones \cap Ackers
  /\ Keys \subseteq {"NewCall", "Answer", "Hold", "Resume", "EndCall", "OnHook"}
  /\ OthersDo \subseteq {"call", "hold", "end"}
  /\ Records \in BOOLEAN
  /\ {MaxUp, MaxDown} \subseteq Nat

VARIABLES
  phone,         \* PhoneState of Me
  up,            \* from Me to the hub
  toMe           \* from the hub to Me

linkVars == <<vars, phone, up, toMe>>

INSTANCE ClientCalls WITH CallRefs <- Refs, NoRef <- NoCall

Pending == [key: {"NewCall", "Answer", "Hold", "Resume", "EndCall", "OnHook",
                  "Digit", "Ack"},
            ref: Refs \cup {NoCall}, digit: Dialed]

Say(key, r) == [key |-> key, ref |-> r, digit |-> NoDigits]

-----------------------------------------------------------------------------
(* What the hub sends *)

State(s, r) == [type |-> "CallState", state |-> s, ref |-> r]
Tell(t, r)  == [type |-> t, ref |-> r]

OutboundPackets(r) ==
  <<State("offhook", r), Tell("ActivateCallPlane", r), State("proceed", r),
    Tell("SelectSoftKeys", r)>>

RingPackets(s, r) == <<State(s, r), Tell("SelectSoftKeys", r)>>

ConnectPackets(r) ==
  <<State("connected", r), Tell("SelectSoftKeys", r), Tell("OpenReceiveChannel", r)>>

HoldPackets(r) == <<State("hold", r), Tell("SelectSoftKeys", r)>>

(* hub._send_party_focus: a call that is still being dialed, or connected   *)
(* to the IVR, is not shown again.                                          *)
FocusPackets(p, r) ==
  CASE calls[r].state = "held" -> HoldPackets(r)
    [] calls[r].state = "connected" /\ calls[r].callee # NoPhone -> ConnectPackets(r)
    [] calls[r].state = "ringing" /\ calls[r].callee = p -> RingPackets("ringin", r)
    [] calls[r].state = "ringing" /\ calls[r].callee \notin {p, NoPhone} ->
         RingPackets("ringout", r)
    [] OTHER -> <<>>

EndPackets(p, r) ==
  (IF calls[r].ports = {} THEN <<>>
   ELSE <<Tell("StopMediaTransmission", r), Tell("CloseReceiveChannel", r)>>)
  \o <<State("onhook", r)>>
  \o (IF OtherCalls(p, r) = {} THEN <<Tell("SelectSoftKeys", NoCall)>>
      ELSE FocusPackets(p, Focus(OtherCalls(p, r))))

(* Send what concerns Me. *)
Shows(packets) == toMe' = toMe \o packets
Unshown == UNCHANGED toMe

-----------------------------------------------------------------------------
(* The hub's steps for phone p, each with what it sends to Me.  A request   *)
(* the hub refuses changes nothing.                                         *)

HubNewCall(p) ==
  \/ /\ NewCall(p)
     /\ Shows(IF p = Me THEN OutboundPackets(nextRef) ELSE <<>>)
  \/ ~(MayDial(p) /\ nextRef \in Refs) /\ UNCHANGED vars /\ Unshown

HubDigit(p, d) ==
  \/ /\ DialDigit(p, d)
     /\ LET r == active[p] IN
        Shows(IF calls'[r].state # "ringing" THEN <<>>
              ELSE IF p = Me THEN RingPackets("ringout", r)
              ELSE IF calls'[r].callee = Me THEN RingPackets("ringin", r)
              ELSE <<>>)
  \/ ~InState(p, "dialing") /\ UNCHANGED vars /\ Unshown

(* Answer, and OffHook on a ringing call *)
HubAnswer(p) ==
  /\ Answer(p)
  /\ Shows(IF calls' # calls /\ Me \in Parties(calls[active[p]])
           THEN ConnectPackets(active[p]) ELSE <<>>)

HubHold(p) ==
  \/ /\ Hold(p)
     /\ Shows(IF Me \in Parties(calls[active[p]])
              THEN HoldPackets(active[p]) ELSE <<>>)
  \/ /\ ~(InState(p, "connected") /\ calls[active[p]].callee # NoPhone)
     /\ UNCHANGED vars /\ Unshown

HubResume(p) ==
  \/ /\ Resume(p)
     /\ Shows(IF Me \in Parties(calls[active[p]])
              THEN ConnectPackets(active[p]) ELSE <<>>)
  \/ /\ ~(InState(p, "held") /\ calls[active[p]].callee # NoPhone)
     /\ UNCHANGED vars /\ Unshown

(* Both sides have acked: the media starts. *)
HubAck(p) ==
  \/ /\ MediaAck(p)
     /\ LET r == active[p] IN
        Shows(IF MediaReady(calls'[r], p) /\ Me \in Parties(calls[r])
              THEN <<Tell("StartMediaTransmission", r)>> ELSE <<>>)
  \/ ~InState(p, "connected") /\ UNCHANGED vars /\ Unshown

HubEndsCallerOnly(p) ==                                            \* mutant
  HangUp(p) /\ p = calls[active[p]].caller /\ Shows(EndPackets(Me, active[p]))

HubEnds(p) ==
  \/ /\ HangUp(p)
     /\ Shows(IF Me \in Cleared(active[p]) THEN EndPackets(Me, active[p]) ELSE <<>>)
  \/ active[p] = NoCall /\ UNCHANGED vars /\ Unshown

-----------------------------------------------------------------------------
(* Me: its messages to the hub, its receive loop and its user *)

(* session.handle for the first message of Me; the call it names is ignored.*)
HubHandles ==
  /\ up # <<>> /\ up' = Tail(up)
  /\ LET m == Head(up) IN
       \/ m.key = "NewCall" /\ HubNewCall(Me)
       \/ m.key = "Digit"   /\ HubDigit(Me, m.digit)
       \/ m.key = "Answer"  /\ HubAnswer(Me)
       \/ m.key = "Hold"    /\ HubHold(Me)
       \/ m.key = "Resume"  /\ HubResume(Me)
       \/ m.key = "Ack"     /\ HubAck(Me)
       \/ m.key \in {"EndCall", "OnHook"} /\ HubEnds(Me)
  /\ UNCHANGED phone

(* The receive loop handles the next message; OpenReceiveChannel is acked.  *)
Receive ==
  /\ toMe # <<>> /\ toMe' = Tail(toMe)
  /\ phone' = Handled(phone, Head(toMe))
  /\ up' = IF Head(toMe).type = "OpenReceiveChannel"
           THEN Append(up, Say("Ack", Head(toMe).ref)) ELSE up
  /\ UNCHANGED vars

(* A key, while the phone shows something it could be for. *)
Press(key) ==
  /\ Len(up) < MaxUp /\ Len(toMe) <= MaxDown
  /\ key \in {"Hold", "Resume"} =>
       RefInState(phone, IF key = "Hold" THEN "connected" ELSE "hold") # NoCall
  /\ key = "Answer" => RefInState(phone, "ringin") # NoCall
  /\ key \in {"EndCall", "OnHook"} => phone.active
  /\ phone' = Pressed(phone, key)
  /\ up' = Append(up, Say(key, Target(phone, key)))
  /\ UNCHANGED <<vars, toMe>>

Dial(d) ==
  /\ Len(up) < MaxUp /\ Len(toMe) <= MaxDown
  /\ \E r \in Refs : phone.st[r] = "proceed"
  /\ up' = Append(up, [Say("Digit", NoCall) EXCEPT !.digit = d])
  /\ UNCHANGED <<vars, toMe, phone>>

(* The other phones, whose clients are not modelled: they call Me, and act  *)
(* where the hub does not refuse them.                                      *)
OthersStep(p) ==
  /\ Len(toMe) <= MaxDown
  /\ \/ "call" \in OthersDo /\ active[p] = NoCall /\ nextRef \in Refs /\ HubNewCall(p)
     \/ InState(p, "dialing") /\ calls[active[p]].dialed = NoDigits /\ HubDigit(p, Me)
     \/ InState(p, "ringing") /\ HubAnswer(p)
     \/ "hold" \in OthersDo /\ InState(p, "connected") /\ HubHold(p)
     \/ "hold" \in OthersDo /\ InState(p, "held") /\ HubResume(p)
     \/ InState(p, "connected") /\ p \in Ackers \ calls[active[p]].ports /\ HubAck(p)
     \/ "end" \in OthersDo /\ active[p] # NoCall /\ HubEnds(p)
  /\ UNCHANGED <<phone, up>>

LinkInit ==
  /\ Init
  /\ phone = NewPhone
  /\ up = <<>> /\ toMe = <<>>

LinkNext ==
  \/ HubHandles \/ Receive
  \/ \E key \in Keys : Press(key)
  \/ \E d \in Phones \ {Me} : Dial(d)
  \/ \E p \in Phones \ {Me} : OthersStep(p)

LinkSpec == LinkInit /\ [][LinkNext]_linkVars

-----------------------------------------------------------------------------
(* Properties *)

LinkTypeOK ==
  /\ phone \in Phone
  /\ up \in Seq(Pending)
  /\ \A i \in 1..Len(toMe) : toMe[i].ref \in Refs \cup {NoCall}

Quiet == up = <<>> /\ toMe = <<>>

(* How a phone should show the hub's call r. *)
ShownAs(r) ==
  CASE calls[r].state = "connected" -> "connected"
    [] calls[r].state = "held"      -> "hold"
    [] calls[r].state = "ringing"   -> IF calls[r].callee = Me THEN "ringin" ELSE "ringout"
    [] calls[r].state = "dialing"   -> "proceed"

(* When nothing is under way between them, the phone lists exactly the      *)
(* calls the hub has for it (but for one being dialed), each in the state   *)
(* it has in the hub, and the call the hub acts on is the selected one.     *)
(* (A call being dialed loses its selection when another call ends.)        *)
QuietAgree ==
  Quiet =>
    /\ Elements(phone.act) = {r \in CallsOf(Me, live) : calls[r].state # "dialing"}
    /\ \A r \in CallsOf(Me, live) : phone.st[r] = ShownAs(r)
    /\ active[Me] # NoCall /\ ~InState(Me, "dialing") => phone.sel = active[Me]

(* The flags and events of the phone agree with its own table: waits for    *)
(* call_ended end only without an active call, and call_connected is the    *)
(* state of some active call.                                               *)
EventsAgree ==
  /\ phone.connected <=> AnyConnected(phone)
  /\ "ended" \in phone.ev => ~phone.connected
  /\ "media" \in phone.ev => phone.media

(* RTP ends with the calls: a phone that shows no call, with nothing under  *)
(* way, runs no sender, no receiver and no recorder, referenced or not.     *)
MediaEndsWithCalls ==
  Quiet /\ phone.act = <<>> =>
    ~phone.rx /\ ~phone.tx /\ ~phone.rec /\ phone.lost = {}

(* The recorder is open only while the phone has a sender or a receiver it  *)
(* could be recording.                                                      *)
RecorderFollowsMedia == phone.rec => phone.rx \/ phone.tx

(* The phone is never of two minds: its flags and events agree with its own *)
(* call table, and its recorder with its media, however old the messages it *)
(* handles are (call_management.py, _teardown_local_media).                 *)
ClientConsistent == LinkTypeOK /\ EventsAgree /\ RecorderFollowsMedia

(* EndCall leaves the held call alone: when the hub handles the EndCall of  *)
(* the second call, it does not end another call that is held               *)
(* (docs/lab-cookbook.md, "Second call while on hold").  Does not hold: the *)
(* hub ends the phone's focus call (session.py:312).                        *)
EndCallKeepsHeld ==
  [][\A r \in Refs :
       up # <<>> /\ up' = Tail(up) /\ Head(up).key = "EndCall" /\ Head(up).ref = r
       => \A q \in live \ live' : q = r \/ calls[q].state # "held"]_linkVars
=============================================================================
