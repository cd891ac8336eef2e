------------------------------ MODULE EchoLoop ------------------------------
(***************************************************************************)
(* One leg of the simulator's loopback (audio_worker.py): the thread of    *)
(* the RTP receiver decodes what the phone says into the queue of an       *)
(* EchoSource, the thread of the RTP sender reads a packet's worth of its  *)
(* source every ptime.  The source is chosen by simulator/media_hub.py: a  *)
(* loopback call starts with a tone and hears itself after it, the menu of *)
(* an IVR call switches between loopback, tone and silence.                *)
(*                                                                         *)
(* A sample is its number in the stream of the phone.                      *)
(***************************************************************************)
EXTENDS Naturals, Sequences, SequencesExt

CONSTANTS
  Packet,        \* samples the sender reads at a time
  Chunks,        \* how many samples a received packet may hold
  Delay,         \* _delay_samples
  Queue,         \* MAX_QUEUE_MS, in samples
  Preamble,      \* samples of tone before a loopback call hears itself
  Menu,          \* TRUE iff the call is to the IVR
  Paced,         \* TRUE iff a packet is received for each one sent
  MaxHeard       \* bound: samples of the phone

EchoAssumption ==
  /\ Packet \in Nat \ {0} /\ Chunks \subseteq Nat \ {0}
  /\ {Delay, Queue, Preamble, MaxHeard} \subseteq Nat
  /\ {Menu, Paced} \subseteq BOOLEAN

VARIABLES
  heard,         \* the phone's samples received so far
  attached,      \* TRUE iff the receiver's echo_source is set
  inHand,        \* what the receiver decoded for the echo and has not pushed
  arming,        \* TRUE while the thread that attaches the echo sleeps
  chunks,        \* EchoSource._buf: the samples of each chunk
  queued,        \* EchoSource._queued
  pushed,        \* the sample queued last
  source,        \* the sender's source
  toned,         \* ToneThenEchoSource._emitted
  picked,        \* the source the sender's thread is about to read
  packet,        \* the phone's samples in the packet sent last
  strays,        \* packets of echo sent since the source is another one
  running,       \* FALSE once the call stopped
  turn           \* of a Paced run: who is next

vars == <<heard, attached, inHand, arming, chunks, queued, pushed, source, toned,
          picked, packet, strays, running, turn>>

Line(cs) == FlattenSeq(cs)
Size(cs) == Len(Line(cs))
Lesser(a, b) == IF a < b THEN a ELSE b

Init ==
  /\ heard = 0 /\ inHand = <<>> /\ chunks = <<>> /\ queued = 0 /\ pushed = 0
  /\ attached = (~Menu /\ Preamble = 0)
  /\ arming = (~Menu /\ Preamble > 0)
  /\ source = IF Menu THEN "silence" ELSE IF Preamble > 0 THEN "preamble" ELSE "echo"
  /\ toned = 0 /\ picked = "none" /\ packet = <<>> /\ strays = 0
  /\ running = TRUE /\ turn = "receiver"

-----------------------------------------------------------------------------
(* EchoSource *)

(* The chunks less their first n samples: whole chunks leave the deque, the *)
(* next one is cut.                                                         *)
LessFirst(cs, n) ==
  LET before(j) == Size(SubSeq(cs, 1, j))
      j == CHOOSE i \in 0..Len(cs) :
             /\ before(i) <= n
             /\ i < Len(cs) => before(i + 1) > n
  IN IF j = Len(cs) THEN <<>>
     ELSE <<SubSeq(cs[j + 1], n - before(j) + 1, Len(cs[j + 1]))>> \o SubSeq(cs, j + 2, Len(cs))

MostQueued == Queue + Delay

Push(pcm) ==
  LET longer == Append(chunks, pcm)
      size   == queued + Len(pcm)
      excess == IF size > MostQueued THEN size - MostQueued ELSE 0
  IN /\ chunks' = IF excess > 0 THEN LessFirst(longer, excess) ELSE longer
     /\ queued' = size - excess

(* How many of n samples a read returns. *)
AllQueued(n) == Lesser(n, queued)                                  \* mutant
Released(n) ==
  IF Delay = 0 THEN Lesser(n, queued)
  ELSE Lesser(n, IF queued > Delay THEN queued - Delay ELSE 0)

CountLess(n) == queued - Released(n)

ReadEcho(n) ==
  /\ chunks' = LessFirst(chunks, Released(n))
  /\ queued' = CountLess(n)
  /\ packet' = SubSeq(Line(chunks), 1, Released(n))

-----------------------------------------------------------------------------
(* The receiver's thread *)

Turn(who) == ~Paced \/ turn = who
Pass(to) == turn' = IF Paced THEN to ELSE turn

(* A packet is decoded; then the thread looks at echo_source. *)
Receive(k) ==
  /\ running /\ inHand = <<>> /\ heard + k <= MaxHeard /\ Turn("receiver")
  /\ heard' = heard + k
  /\ inHand' = IF attached THEN [i \in 1..k |-> heard + i] ELSE <<>>
  /\ turn' = IF Paced /\ ~attached THEN "sender" ELSE turn
  /\ UNCHANGED <<attached, arming, chunks, queued, pushed, source, toned, picked, packet, strays, running>>

PushHeard ==
  /\ inHand # <<>>
  /\ Push(inHand)
  /\ inHand' = <<>> /\ pushed' = Last(inHand)
  /\ Pass("sender")
  /\ UNCHANGED <<heard, attached, arming, source, toned, picked, packet, strays, running>>

-----------------------------------------------------------------------------
(* The sender's thread *)

(* It takes the source under the lock and reads it after the unlock. *)
Pick ==
  /\ running /\ picked = "none" /\ Turn("sender")
  /\ picked' = source
  /\ UNCHANGED <<heard, attached, inHand, arming, chunks, queued, pushed, source, toned, packet, strays, running, turn>>

NextPick == picked' = "none"

(* What the source gives is filled up with zeros; once the socket is        *)
(* closed the thread ends.                                                  *)
Send ==
  /\ picked # "none"
  /\ NextPick
  /\ \/ /\ picked \in {"silence", "tone"}
        /\ packet' = <<>>
        /\ UNCHANGED <<chunks, queued, toned>>
     \/ /\ picked = "echo"
        /\ ReadEcho(Packet)
        /\ UNCHANGED toned
     \/ /\ picked = "preamble"
        /\ LET tone == Lesser(Packet, Preamble - toned) IN
           /\ toned' = toned + tone
           /\ IF tone < Packet THEN ReadEcho(Packet - tone)
              ELSE packet' = <<>> /\ UNCHANGED <<chunks, queued>>
  /\ strays' = IF picked = "echo" /\ source # "echo" THEN strays + 1 ELSE strays
  /\ Pass("receiver")
  /\ UNCHANGED <<heard, attached, inHand, arming, pushed, source, running>>

Sender == Pick \/ Send

-----------------------------------------------------------------------------
(* simulator/media_hub.py *)

(* The thread of a loopback call that sleeps for the preamble. *)
Arm ==
  /\ arming /\ arming' = FALSE
  /\ attached' = TRUE
  /\ UNCHANGED <<heard, inHand, chunks, queued, pushed, source, toned, picked, packet, strays, running, turn>>

Choose(src) ==
  /\ Menu /\ running
  /\ source' = src /\ strays' = 0
  /\ UNCHANGED <<heard, inHand, arming, chunks, queued, pushed, toned, picked, packet, running, turn>>

(* The echo of the leg is attached again, with what it still holds. *)
SetLoopback == Choose("echo") /\ attached' = TRUE
SetTone == Choose("tone") /\ attached' = FALSE
StopPlayback == Choose("silence") /\ UNCHANGED attached

StopCall ==
  /\ running /\ running' = FALSE
  /\ attached' = FALSE
  /\ UNCHANGED <<heard, inHand, arming, chunks, queued, pushed, source, toned, picked, packet, strays, turn>>

Next ==
  \/ \E k \in Chunks : Receive(k)
  \/ PushHeard \/ Sender
  \/ Arm \/ SetLoopback \/ SetTone \/ StopPlayback \/ StopCall

Spec == Init /\ [][Next]_vars

(* The sender's thread runs on; nothing is said of the phone. *)
FairSpec == Spec /\ WF_vars(Sender)

-----------------------------------------------------------------------------
(* Properties *)

(* The counter of the queue agrees with its chunks after every partial read *)
(* and every partial drop, and stays under the cap.                         *)
QueuedCounts == queued = Size(chunks) /\ queued <= MostQueued

(* After the menu left the loopback the phone hears at most the one packet  *)
(* of echo whose source the sender had already taken.                       *)
OneStrayPacket == strays <= 1

(* Samples that are due: queued beyond the delay, with the echo on.         *)
Waiting == source \in {"preamble", "echo"} /\ queued > Delay

(* "Loopback echo delay in ms": while a packet is received for each one     *)
(* sent, no more than the delay and two packets wait.  Does not hold: the   *)
(* call's second loopback starts with a full queue (media_hub.py:273).      *)
EchoOnTime ==
  (source = "echo" /\ picked = "echo" /\ running) => queued <= Delay + 2 * Packet
=============================================================================
