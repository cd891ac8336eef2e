------------------------------ MODULE MCVoice ------------------------------
(***************************************************************************)
(* Small instances, for TLC, of what makes the simulator's calls audible:  *)
(* the endpoints of its media hub, the echo of one endpoint, the script of *)
(* the IVR and the codecs.  A behaviour is one of one part; the variables  *)
(* of the others stay in an initial state.                                 *)
(***************************************************************************)
EXTENDS SimMedia

VARIABLES
  part,
  heard, attached, inHand, arming, chunks, queued, pushed, source, toned,
  picked, packet, strays, running, turn,                          \* EchoLoop
  pc, ch, last, queue, event, stop, plays, session, pressed, handled, \* IvrScript
  s                                                               \* G711

echoVars  == <<heard, attached, inHand, arming, chunks, queued, pushed, source, toned,
               picked, packet, strays, running, turn>>
ivrVars   == <<pc, ch, last, queue, event, stop, plays, session, pressed, handled>>
allVars   == <<part, vars, echoVars, ivrVars, s>>

(* The media hub: bridged calls that become conferences, the same held and  *)
(* resumed, and loopback.                                                   *)
Bridged  == [mode |-> "bridge", hold |-> FALSE, confer |-> TRUE]
Held     == [mode |-> "bridge", hold |-> TRUE, confer |-> TRUE]
Loopback == [mode |-> "loopback", hold |-> FALSE, confer |-> FALSE]
VoiceSettings == {Bridged, Held, Loopback}

(* The echo of a loopback call, of the menu, and between two bridged legs.  *)
CallEcho == INSTANCE EchoLoop WITH
  Packet <- 2, Chunks <- {1, 2, 3}, Delay <- 3, Queue <- 4, Preamble <- 3,
  Menu <- FALSE, Paced <- FALSE, MaxHeard <- 11
MenuEcho == INSTANCE EchoLoop WITH
  Packet <- 2, Chunks <- {1, 3}, Delay <- 2, Queue <- 3, Preamble <- 0,
  Menu <- TRUE, Paced <- FALSE, MaxHeard <- 7
PairEcho == INSTANCE EchoLoop WITH
  Packet <- 2, Chunks <- {1, 2, 3}, Delay <- 0, Queue <- 4, Preamble <- 0,
  Menu <- FALSE, Paced <- FALSE, MaxHeard <- 11

(* The caller waits for the menu, and the runner for the key to be given.   *)
Ivr == INSTANCE IvrScript WITH
  Keys <- {"1", "2", "5", "9"}, NoKey <- "none",
  LoopbackKeys <- {"1"}, ToneKeys <- {"2"}, HangupKeys <- {"9"},
  MaxPresses <- 3, Patient <- TRUE, Prompt <- TRUE, source <- plays

(* Every 16-bit sample. *)
Codec == INSTANCE G711

ASSUME PartsAssumption ==
  /\ CallEcho!EchoAssumption /\ MenuEcho!EchoAssumption /\ PairEcho!EchoAssumption
  /\ Ivr!IvrAssumption

-----------------------------------------------------------------------------
VoiceInit ==
  /\ part \in {"media", "call echo", "menu echo", "bridge echo", "ivr", "codec"}
  /\ Init /\ (part # "media" => setting = Loopback)
  /\ IF part = "call echo" THEN CallEcho!Init
     ELSE IF part = "menu echo" THEN MenuEcho!Init ELSE PairEcho!Init
  /\ Ivr!Init
  /\ Codec!Init

EchoNext ==
  /\ UNCHANGED <<part, vars, ivrVars, s>>
  /\ \/ part = "call echo" /\ CallEcho!Next
     \/ part = "menu echo" /\ MenuEcho!Next
     \/ part = "bridge echo" /\ PairEcho!Next

VoiceNext ==
  \/ part = "media" /\ Next /\ UNCHANGED <<part, echoVars, ivrVars, s>>
  \/ EchoNext
  \/ part = "ivr" /\ Ivr!Next /\ UNCHANGED <<part, vars, echoVars, s>>
  \/ part = "codec" /\ Codec!Sweep /\ UNCHANGED <<part, vars, echoVars, ivrVars>>

(* The fairness of each part, in its own behaviours. *)
VoiceFair ==
  /\ \A p \in {Caller, Callee} :
       /\ \A c \in Calls : WF_vars(setting = Loopback /\ Ack(p, c))
       /\ WF_vars(setting = Loopback /\ Handler(p))
  /\ \A i \in 1..MaxLegs : WF_vars(setting = Loopback /\ Arm(i))
  /\ WF_echoVars(\/ part = "call echo" /\ CallEcho!Sender
                 \/ part = "bridge echo" /\ PairEcho!Sender)
  /\ WF_ivrVars(part = "ivr" /\ Ivr!Submit)
  /\ WF_ivrVars(part = "ivr" /\ Ivr!Runner)

VoiceSpec == VoiceInit /\ [][VoiceNext]_allVars /\ VoiceFair

-----------------------------------------------------------------------------
(* Properties *)

(* Media hub and IVR have their types, and the counter of an echo's queue   *)
(* agrees with its chunks.                                                  *)
PartsTypeOK ==
  /\ TypeOK /\ Ivr!TypeOK
  /\ part = "call echo" => CallEcho!QueuedCounts
  /\ part = "menu echo" => MenuEcho!QueuedCounts
  /\ part = "bridge echo" => PairEcho!QueuedCounts

(* A party of a loopback does not hear itself yet, or an echo has more      *)
(* queued than its delay.                                                   *)
Unheard ==
  \/ setting = Loopback /\ \E c \in Calls :
       /\ state[c] = "connected"
       /\ sessions[c] = {} \/ \E i \in sessions[c] : ~Hears(i, i)
  \/ part = "call echo" /\ CallEcho!Waiting /\ running
  \/ part = "bridge echo" /\ PairEcho!Waiting /\ running

(* A party of a loopback hears itself in the end (SimMedia): what is queued *)
(* beyond the delay is heard (EchoLoop).                                    *)
PartiesHeard == Unheard ~> ~Unheard

(* The chunks of an echo are a delay line (EchoLoop, DelayLine); the line   *)
(* of an echo that is not the part's is empty.                              *)
LineOf(p, x, empty) == IF part = p THEN x ELSE empty
CallLine == INSTANCE DelayLine WITH
  Delay <- 3, Queue <- 4, Samples <- 1..11,
  line <- LineOf("call echo", CallEcho!Line(chunks), <<>>),
  newest <- LineOf("call echo", pushed, 0), out <- LineOf("call echo", packet, <<>>)
MenuLine == INSTANCE DelayLine WITH
  Delay <- 2, Queue <- 3, Samples <- 1..7,
  line <- LineOf("menu echo", MenuEcho!Line(chunks), <<>>),
  newest <- LineOf("menu echo", pushed, 0), out <- LineOf("menu echo", packet, <<>>)
BridgeLine == INSTANCE DelayLine WITH
  Delay <- 0, Queue <- 4, Samples <- 1..11,
  line <- LineOf("bridge echo", PairEcho!Line(chunks), <<>>),
  newest <- LineOf("bridge echo", pushed, 0), out <- LineOf("bridge echo", packet, <<>>)
AreDelayLines == CallLine!LineSpec /\ MenuLine!LineSpec /\ BridgeLine!LineSpec

(* The menu owes an answer to a key, or its end to a call that is over.     *)
Owed ==
  \/ part = "ivr" /\ Len(pressed) > Len(handled) /\ ~stop
  \/ plays = "none" /\ pc # "ended"

(* The menu acts on every key, each once and in order, gives the source its *)
(* key chose, and ends with its call (IvrScript); when it has left the      *)
(* loopback, one packet of echo is sent at most (EchoLoop).                 *)
MenuServes ==
  /\ [](Ivr!HandledInOrder /\ Ivr!MenuHeard)
  /\ Owed ~> ~Owed
  /\ [](part = "menu echo" => MenuEcho!OneStrayPacket)

(* A sample is heard within its step, and a louder one no softer (G711).    *)
UlawInStep == part = "codec" => Codec!UlawInStep
=============================================================================
