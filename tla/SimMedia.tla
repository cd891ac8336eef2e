------------------------------ MODULE SimMedia ------------------------------
(***************************************************************************)
(* The simulator's media hub (simulator/media_hub.py): its RTP endpoints   *)
(* for a call's parties and what each sends.  The hub starts them in the   *)
(* handler of OpenReceiveChannelAck, in the session thread of the party    *)
(* that acks last, without the lock of the call hub; it stops them when    *)
(* the call ends, in whatever thread ends it.                              *)
(*                                                                         *)
(* An endpoint (_PartyLeg: a receiver and a sender) is its index in legs.  *)
(* An EchoSource is the pair of endpoints it leads from and to.            *)
(***************************************************************************)
EXTENDS Naturals, Sequences, FiniteSets

CONSTANTS
  Calls, Caller, Callee, Third, NoCall,
  Settings,      \* how the hub may be set up, and what its phones do
  Orderly,       \* TRUE iff the handlers of two sessions never overlap, and
                 \* the acks of a call are in before it is changed again
  MaxLegs        \* bound: endpoints started

(* The hub's media mode, whether calls are held and resumed, and whether a  *)
(* third party joins them.                                                  *)
Setting == [mode : {"tone", "loopback", "bridge"}, hold : BOOLEAN, confer : BOOLEAN]

ASSUME MediaAssumption ==
  /\ Caller # Callee /\ Caller # Third /\ Callee # Third /\ NoCall \notin Calls
  /\ Settings \subseteq Setting
  /\ Orderly \in BOOLEAN /\ MaxLegs \in Nat

VARIABLES
  setting,       \* the one of this run
  state,         \* the state of each call
  three,         \* calls that are conferences
  ports,         \* call.media_ports: the parties whose ack was booked
  acks,          \* how many acks of a party for a call are on their way
  thread,        \* the ack handler of each party's session
  sessions,      \* _sessions: the endpoints stored for a call
  legs           \* all endpoints started

vars == <<setting, state, three, ports, acks, thread, sessions, legs>>

Phones == {Caller, Callee, Third}
Legs == 1..Len(legs)
Members(c) == IF three[c] THEN <<Caller, Callee, Third>> ELSE <<Caller, Callee>>
MembersOf(c) == {Members(c)[i] : i \in 1..Len(Members(c))}

Idle == [pc |-> "idle", call |-> NoCall, todo |-> <<>>, mine |-> <<>>]
Silence == <<0, 0>>
Tone == <<0, 1>>

Init ==
  /\ setting \in Settings
  /\ state = [c \in Calls |-> "none"] /\ three = [c \in Calls |-> FALSE]
  /\ ports = [c \in Calls |-> {}]
  /\ acks = [p \in Phones |-> [c \in Calls |-> 0]]
  /\ thread = [p \in Phones |-> Idle]
  /\ sessions = [c \in Calls |-> {}]
  /\ legs = <<>>

Quiet == \A p \in Phones : thread[p].pc = "idle"
MayChange(c) == Orderly => Quiet /\ \A p \in Phones : acks[p][c] = 0
MayRun(p) == Orderly => \A q \in Phones \ {p} : thread[q].pc = "idle"

(* stop_call: the stored endpoints stop, their receivers lose their echo.   *)
StopNothing(c) == legs' = legs /\ sessions' = [sessions EXCEPT ![c] = {}]  \* mutant
StopCall(c) ==
  /\ legs' = [i \in Legs |-> IF i \in sessions[c]
                             THEN [legs[i] EXCEPT !.run = FALSE, !.echo = Silence]
                             ELSE legs[i]]
  /\ sessions' = [sessions EXCEPT ![c] = {}]

-----------------------------------------------------------------------------
(* The call hub, as far as it decides over media *)

(* OpenReceiveChannel to some parties, each of which will ack it. *)
OpensChannels(ps, c) ==
  acks' = [p \in Phones |-> IF p \in ps THEN [acks[p] EXCEPT ![c] = @ + 1] ELSE acks[p]]

Connect(c) ==
  /\ state[c] = "none" /\ \A d \in Calls : state[d] \notin {"connected", "held"}
  /\ state' = [state EXCEPT ![c] = "connected"]
  /\ OpensChannels({Caller, Callee}, c)
  /\ UNCHANGED <<setting, three, ports, thread, sessions, legs>>

Hold(c) ==
  /\ setting.hold /\ MayChange(c) /\ state[c] = "connected" /\ ~three[c]
  /\ state' = [state EXCEPT ![c] = "held"]
  /\ UNCHANGED <<setting, three, ports, acks, thread, sessions, legs>>

Resume(c) ==
  /\ MayChange(c) /\ state[c] = "held"
  /\ state' = [state EXCEPT ![c] = "connected"]
  /\ ports' = [ports EXCEPT ![c] = {}]
  /\ OpensChannels({Caller, Callee}, c)
  /\ UNCHANGED <<setting, three, thread, sessions, legs>>

(* _complete_conference stops the media of the call before all three ack.  *)
Confer(c) ==
  /\ MayChange(c) /\ setting.confer /\ state[c] = "connected" /\ ~three[c]
  /\ three' = [three EXCEPT ![c] = TRUE]
  /\ StopCall(c)
  /\ ports' = [ports EXCEPT ![c] = {}]
  /\ OpensChannels(Phones, c)
  /\ UNCHANGED <<setting, state, thread>>

End(c) ==
  /\ (Orderly => Quiet)
  /\ state[c] \in {"connected", "held"}
  /\ state' = [state EXCEPT ![c] = "ended"]
  /\ StopCall(c)
  /\ UNCHANGED <<setting, three, ports, acks, thread>>

-----------------------------------------------------------------------------
(* on_media_ack *)

AckLeft(p, c) == [acks EXCEPT ![p][c] = @ + 1]                     \* mutant
AckTaken(p, c) == [acks EXCEPT ![p][c] = @ - 1]

(* The ack is booked, whether or not the media of the call is up. *)
Ack(p, c) ==
  /\ acks[p][c] > 0 /\ thread[p].pc = "idle" /\ MayRun(p)
  /\ acks' = AckTaken(p, c)
  /\ IF state[c] = "connected"
     THEN /\ ports' = [ports EXCEPT ![c] = @ \cup {p}]
          /\ thread' = [thread EXCEPT ![p] = [Idle EXCEPT !.pc = "booked", !.call = c]]
     ELSE UNCHANGED <<ports, thread>>
  /\ UNCHANGED <<setting, state, three, sessions, legs>>

AllAcked(c) == MembersOf(c) \subseteq ports[c]

(* The last party's thread starts the endpoints, all others leave. *)
StartCall(p) ==
  LET c == thread[p].call IN
  /\ thread[p].pc = "booked" /\ MayRun(p)
  /\ thread' = [thread EXCEPT ![p] =
       IF AllAcked(c) THEN [@ EXCEPT !.pc = "starting", !.todo = Members(c)] ELSE Idle]
  /\ UNCHANGED <<setting, state, three, ports, acks, sessions, legs>>

(* What a new endpoint i sends: a tone, the loopback's echo, or nothing.    *)
NoEchoYet(c, i) == IF setting.mode = "tone" THEN Tone ELSE Silence         \* mutant
FirstSource(c, i) ==
  CASE setting.mode = "tone" -> Tone
    [] setting.mode = "loopback" /\ ~three[c] -> <<i, i>>
    [] OTHER -> Silence

(* One endpoint; the thread that arms a loopback's receiver starts to wait. *)
StartLeg(p) ==
  LET c == thread[p].call  i == Len(legs) + 1 IN
  /\ thread[p].pc = "starting" /\ thread[p].todo # <<>> /\ MayRun(p)
  /\ i <= MaxLegs
  /\ legs' = Append(legs, [party |-> Head(thread[p].todo), call |-> c, run |-> TRUE,
                           src |-> FirstSource(c, i), echo |-> Silence,
                           arms |-> FirstSource(c, i) = <<i, i>>])
  /\ thread' = [thread EXCEPT ![p].todo = Tail(@), ![p].mine = Append(@, i)]
  /\ UNCHANGED <<setting, state, three, ports, acks, sessions>>

Arm(i) ==
  /\ i \in Legs /\ legs[i].arms
  /\ legs' = [legs EXCEPT ![i].arms = FALSE, ![i].echo = <<i, i>>]
  /\ UNCHANGED <<setting, state, three, ports, acks, thread, sessions>>

(* The echoes of a bridge over the endpoints e: every receiver and every    *)
(* sender has one echo, the one assigned to it last.                        *)
LastOther(e, i) == IF i = Len(e) THEN Len(e) - 1 ELSE Len(e)
BridgeEcho(e) == [i \in 1..Len(e) |-> <<e[i], e[LastOther(e, i)]>>]
BridgeSource(e) == [i \in 1..Len(e) |-> <<e[LastOther(e, i)], e[i]>>]

Wired(e) ==
  LET At(i) == CHOOSE k \in 1..Len(e) : e[k] = i
  IN [i \in Legs |->
        IF setting.mode = "bridge" /\ \E k \in 1..Len(e) : e[k] = i
        THEN [legs[i] EXCEPT !.echo = BridgeEcho(e)[At(i)], !.src = BridgeSource(e)[At(i)]]
        ELSE legs[i]]

Stored(c, e) == [sessions EXCEPT ![c] = {e[k] : k \in 1..Len(e)}]

(* The endpoints are stored, over those of the call that are there. *)
Store(p) ==
  LET e == thread[p].mine IN
  /\ thread[p].pc = "starting" /\ thread[p].todo = <<>> /\ MayRun(p)
  /\ legs' = Wired(e)
  /\ sessions' = Stored(thread[p].call, e)
  /\ thread' = [thread EXCEPT ![p] = Idle]
  /\ UNCHANGED <<setting, state, three, ports, acks>>

Handler(p) == StartCall(p) \/ StartLeg(p) \/ Store(p)

-----------------------------------------------------------------------------
Next ==
  \/ \E c \in Calls : Connect(c) \/ Hold(c) \/ Resume(c) \/ Confer(c) \/ End(c)
  \/ \E p \in Phones, c \in Calls : Ack(p, c)
  \/ \E p \in Phones : Handler(p)
  \/ \E i \in 1..MaxLegs : Arm(i)

Spec == Init /\ [][Next]_vars

(* The phones ack, the handlers run on and the preamble ends. *)
FairSpec ==
  /\ Spec
  /\ \A p \in Phones :
       /\ \A c \in Calls : WF_vars(Ack(p, c))
       /\ WF_vars(Handler(p))
  /\ \A i \in 1..MaxLegs : WF_vars(Arm(i))

-----------------------------------------------------------------------------
(* Properties *)

Echoes == {Silence, Tone} \cup {<<i, j>> : i, j \in 1..MaxLegs}

(* Every variable has its type. *)
TypeOK ==
  /\ setting \in Setting
  /\ state \in [Calls -> {"none", "connected", "held", "ended"}]
  /\ three \in [Calls -> BOOLEAN]
  /\ ports \in [Calls -> SUBSET Phones]
  /\ acks \in [Phones -> [Calls -> IF Orderly THEN 0..1 ELSE Nat]]
  /\ sessions \in [Calls -> SUBSET Legs]
  /\ \A i \in Legs :
       legs[i] \in [party : Phones, call : Calls, run : BOOLEAN, src : Echoes,
                    echo : Echoes, arms : BOOLEAN]

(* Endpoints live as long as their call: between handlers, one that runs is *)
(* stored for a call that is up, where the end of the call will stop it.    *)
EndpointsEndWithCalls ==
  Quiet => \A i \in Legs : legs[i].run =>
    i \in sessions[legs[i].call] /\ state[legs[i].call] \in {"connected", "held"}

(* What i's receiver takes in is what j's sender sends. *)
Hears(j, i) == legs[j].src = legs[i].echo /\ legs[i].echo # Silence

(* The endpoints of a call with media are one for each party that was told  *)
(* to send to it, none twice and none left out.                             *)
OneEndpointEach ==
  \A c \in Calls : sessions[c] # {} =>
    \A p \in MembersOf(c) : Cardinality({i \in sessions[c] : legs[i].party = p}) = 1

(* With a bridge the two parties of a call hear each other, not themselves. *)
BridgeHeard ==
  \A c \in Calls : \A i, j \in sessions[c] :
    setting.mode = "bridge" /\ ~three[c] => (Hears(i, j) <=> i # j)

(* A call with media has one endpoint for each party, and a bridge connects *)
(* the two; without hold, an endpoint that runs is one of a call that is up *)
(* (start_call, start_conference and stop_call together).                   *)
EndpointsMatchCalls ==
  OneEndpointEach /\ BridgeHeard /\ (~setting.hold => EndpointsEndWithCalls)

(* In a conference every party is heard by another one and hears one.  Does *)
(* not hold of three legs: an endpoint keeps its last echo (media_hub.py:245). *)
ConferenceHeard ==
  \A c \in Calls : \A i \in sessions[c] : three[c] =>
    (\E j \in sessions[c] \ {i} : Hears(i, j)) /\ (\E j \in sessions[c] \ {i} : Hears(j, i))
=============================================================================
