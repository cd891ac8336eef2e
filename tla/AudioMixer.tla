----------------------------- MODULE AudioMixer -----------------------------
(***************************************************************************)
(* The audio engine of a phone (audio_worker.py, LoopingAudioWorker): the  *)
(* threads of the client put commands into a queue, one render thread      *)
(* applies them and mixes tones, one-shots and the received stream, block  *)
(* after block.  The RTP receivers of the phone's calls, one thread each,  *)
(* all feed the one stream "rx".                                           *)
(*                                                                         *)
(* A sample of the stream is <<r, k>>: the k-th sample that receiver r     *)
(* decoded.  A tone is the length of its file, 0 when there is no file     *)
(* (an empty one is loaded as a single sample); gains are left out.        *)
(***************************************************************************)
EXTENDS Naturals, Sequences

CONSTANTS
  MaxReceivers,  \* bound: receivers opened, one after the other
  MaxPackets,    \* bound: packets a receiver gets
  PacketLen,     \* samples of a packet, resampled
  Block,         \* samples of a block
  Tones,         \* the tones, by their length in samples
  NoTone,        \* no tone on the line
  ShotLen,       \* samples of the key beep
  MaxCommands    \* bound: commands of the client threads besides the receivers'

ASSUME MixerAssumption ==
  /\ MaxReceivers \in Nat /\ MaxPackets \in Nat /\ MaxCommands \in Nat
  /\ PacketLen \in Nat \ {0} /\ Block \in Nat \ {0} /\ ShotLen \in Nat \ {0}
  /\ Tones \subseteq Nat /\ NoTone \notin Tones

VARIABLES
  q,             \* cmd_q
  stream,        \* streams["rx"]: whether it is there, and its buffer
  tone,          \* active[line] of the one line: the tone and its position
  shots,         \* oneshots: their positions
  engine,        \* the render thread: "top", "drain", "ended", or "died"
  stopping,      \* stop_ev
  rx,            \* the receivers
  asked,         \* the tone of the last set_tone, clear_tone or clear_all
  blocks,        \* blocks rendered since the tone was set, modulo its length
  heard,         \* the samples of the stream that were played
  commands       \* commands put so far

mixerVars == <<q, stream, tone, shots, engine, stopping, rx, asked, blocks, heard,
               commands>>

Receivers == 1..MaxReceivers
Running == engine \in {"top", "drain"}

MixerInit ==
  /\ q = <<>>
  /\ stream = [on |-> FALSE, buf |-> <<>>]
  /\ tone = [id |-> NoTone, pos |-> 0]
  /\ shots = <<>>
  /\ engine = "top" /\ stopping = FALSE
  /\ rx = [r \in Receivers |-> [pc |-> "new", stop |-> FALSE, got |-> 0]]
  /\ asked = NoTone /\ blocks = 0 /\ heard = <<>> /\ commands = 0

-----------------------------------------------------------------------------
(* The client's threads *)

PutWith(op, arg, pcm) == q' = Append(q, [op |-> op, arg |-> arg, pcm |-> pcm])
Put(op, arg) == PutWith(op, arg, <<>>)

Command ==
  /\ ~stopping /\ commands < MaxCommands
  /\ commands' = commands + 1
  /\ UNCHANGED <<stream, tone, shots, engine, stopping, rx, blocks, heard>>

SetTone(t) == Command /\ Put("set_tone", t) /\ asked' = IF t = 0 THEN NoTone ELSE t
ClearTone == Command /\ Put("clear_tone", NoTone) /\ asked' = NoTone
Beep == Command /\ Put("play_wav_once", ShotLen) /\ UNCHANGED asked
ClearAll == Command /\ Put("clear_all", NoTone) /\ asked' = NoTone

(* The last event of the client's stop: close(). *)
Close ==
  /\ ~stopping /\ stopping' = TRUE
  /\ Put("__quit__", NoTone)
  /\ UNCHANGED <<stream, tone, shots, engine, rx, asked, blocks, heard, commands>>

(* The receive loop opens a receiver, even over one that runs. *)
Open(r) ==
  /\ ~stopping
  /\ rx[r].pc = "new" /\ (r > 1 => rx[r - 1].pc # "new")
  /\ rx' = [rx EXCEPT ![r].pc = "listening"]
  /\ Put("add_stream", r)
  /\ UNCHANGED <<stream, tone, shots, engine, stopping, asked, blocks, heard, commands>>

(* It stops the receiver it opened last: the only one it still refers to. *)
Stop(r) ==
  /\ rx[r].pc # "new" /\ ~rx[r].stop
  /\ r < MaxReceivers => rx[r + 1].pc = "new"
  /\ rx' = [rx EXCEPT ![r].stop = TRUE]
  /\ Put("remove_stream", r)
  /\ UNCHANGED <<stream, tone, shots, engine, stopping, asked, blocks, heard, commands>>

-----------------------------------------------------------------------------
(* A receiver's thread *)

Listens(r) == rx[r].pc = "listening" /\ ~rx[r].stop

Receive(r) ==
  /\ Listens(r) /\ rx[r].got < MaxPackets
  /\ rx' = [rx EXCEPT ![r].pc = "decoded", ![r].got = @ + 1]
  /\ UNCHANGED <<q, stream, tone, shots, engine, stopping, asked, blocks, heard, commands>>

Samples(r, k) == [i \in 1..PacketLen |-> <<r, (k - 1) * PacketLen + i>>]

Feed(r) ==
  /\ rx[r].pc = "decoded"
  /\ rx' = [rx EXCEPT ![r].pc = "listening"]
  /\ PutWith("feed_stream", r, Samples(r, rx[r].got))
  /\ UNCHANGED <<stream, tone, shots, engine, stopping, asked, blocks, heard, commands>>

Leave(r) ==
  /\ rx[r].pc = "listening" /\ rx[r].stop
  /\ rx' = [rx EXCEPT ![r].pc = "ended"]
  /\ UNCHANGED <<q, stream, tone, shots, engine, stopping, asked, blocks, heard, commands>>

-----------------------------------------------------------------------------
(* The render thread *)

LoopTop ==
  /\ engine = "top"
  /\ engine' = IF stopping THEN "ended" ELSE "drain"
  /\ UNCHANGED <<q, stream, tone, shots, stopping, rx, asked, blocks, heard, commands>>

FeedFront(st, s) == [on |-> TRUE, buf |-> s \o st.buf]             \* mutant
(* A stream that is not there is made on the way. *)
FeedStream(st, s) == [on |-> TRUE, buf |-> st.buf \o s]

ToneAfter(c) ==
  CASE c.op = "set_tone" -> [id |-> IF c.arg = 0 THEN NoTone ELSE c.arg, pos |-> 0]
    [] c.op \in {"clear_tone", "clear_all"} -> [id |-> NoTone, pos |-> 0]
    [] OTHER -> tone

Apply ==
  /\ engine = "drain" /\ q # <<>>
  /\ LET c == Head(q) IN
       /\ q' = Tail(q)
       /\ engine' = IF c.op = "__quit__" THEN "ended" ELSE "drain"
       /\ stream' = CASE c.op \in {"add_stream", "remove_stream"} ->
                           [on |-> c.op = "add_stream", buf |-> <<>>]
                      [] c.op = "feed_stream" -> FeedStream(stream, c.pcm)
                      [] OTHER -> stream
       /\ tone' = ToneAfter(c)
       /\ blocks' = IF c.op = "set_tone" THEN 0 ELSE blocks
       /\ shots' = CASE c.op = "clear_all" -> <<>>
                     [] c.op = "play_wav_once" -> Append(shots, 0)
                     [] OTHER -> shots
  /\ UNCHANGED <<stopping, rx, asked, heard, commands>>

(* A block of a tone is its samples from pos on, then from its start: once, *)
(* so a tone that ends a second time within the block does not fit.         *)
ToneFits(L, pos) == pos + Block <= 2 * L
NextPos(L, pos) == IF pos + Block <= L THEN pos + Block ELSE pos + Block - L

ShotsLeft == SelectSeq([i \in 1..Len(shots) |-> shots[i] + Block], LAMBDA p : p < ShotLen)

TakeBlocks(buf) == IF Len(buf) < Block THEN 0 ELSE Block           \* mutant
Take(buf) == IF Len(buf) < Block THEN Len(buf) ELSE Block

Render ==
  /\ engine = "drain" /\ q = <<>>
  /\ LET L == IF tone.id = NoTone THEN 0 ELSE tone.id
         take == Take(stream.buf) IN
     IF L # 0 /\ ~ToneFits(L, tone.pos)
     THEN engine' = "died" /\ UNCHANGED <<tone, blocks, shots, stream, heard>>
     ELSE /\ engine' = "top"
          /\ tone' = [tone EXCEPT !.pos = IF L = 0 THEN 0 ELSE NextPos(L, @)]
          /\ blocks' = IF L = 0 THEN 0 ELSE (blocks + 1) % L
          /\ shots' = ShotsLeft
          /\ stream' = [stream EXCEPT !.buf = SubSeq(@, take + 1, Len(@))]
          /\ heard' = heard \o SubSeq(stream.buf, 1, take)
  /\ UNCHANGED <<q, stopping, rx, asked, commands>>

Engine == LoopTop \/ Apply \/ Render

-----------------------------------------------------------------------------
MixerNext ==
  \/ \E t \in Tones : SetTone(t)
  \/ ClearTone \/ Beep \/ ClearAll \/ Close
  \/ \E r \in Receivers : Open(r) \/ Stop(r) \/ Receive(r) \/ Feed(r) \/ Leave(r)
  \/ Engine

MixerSpec == MixerInit /\ [][MixerNext]_mixerVars

(* The threads run: the engine's, and a receiver's with what it holds.      *)
MixerFairSpec ==
  /\ MixerSpec
  /\ WF_mixerVars(Engine)
  /\ \A r \in Receivers : WF_mixerVars(Feed(r)) /\ WF_mixerVars(Leave(r))

-----------------------------------------------------------------------------
(* Properties *)

(* Every variable has its type. *)
MixerTypeOK ==
  /\ engine \in {"top", "drain", "ended", "died"} /\ stopping \in BOOLEAN
  /\ stream.on \in BOOLEAN /\ (~stream.on => stream.buf = <<>>)
  /\ tone.id \in Tones \cup {NoTone} /\ asked \in Tones \cup {NoTone}
  /\ rx \in [Receivers -> [pc : {"new", "listening", "decoded", "ended"},
                           stop : BOOLEAN, got : 0..MaxPackets]]
  /\ \A i \in 1..Len(shots) : shots[i] < ShotLen
  /\ commands \in 0..MaxCommands

(* The caller is heard in order: the engine plays the samples of a receiver *)
(* in the order they came, none twice, although they pass two threads, a    *)
(* queue, and a stream that other receivers reset and remove.               *)
HeardInOrder ==
  \A i, j \in 1..Len(heard) :
    i < j /\ heard[i][1] = heard[j][1] => heard[i][2] < heard[j][2]

(* The samples of receiver r in s are all of its packet k. *)
OfPacket(s, r, k) ==
  \A i \in 1..Len(s) : s[i][1] = r =>
    \E n \in 1..PacketLen : s[i][2] = (k - 1) * PacketLen + n

(* A call that is over is not heard: once the stop of a receiver has been   *)
(* applied, at most the one packet its thread held at that time is played.  *)
(* (The stream it feeds it to is made again, and nobody removes it.)        *)
OneStrayPacket ==
  \A r \in Receivers :
    rx[r].stop /\ ~(\E i \in 1..Len(q) : q[i].op = "remove_stream" /\ q[i].arg = r)
      => OfPacket(stream.buf, r, rx[r].got)

(* A loop has no seam: after any number of blocks the tone goes on with the *)
(* sample that follows the last one played.                                 *)
Seamless ==
  tone.id # NoTone => tone.pos % tone.id = (blocks * Block) % tone.id

(* Commands of several threads take effect in the order they were given:    *)
(* with nothing in the queue, the tone that loops is the one last asked for.*)
ToneAsAsked == Running /\ q = <<>> => tone.id = asked

(* The render thread survives whatever it is given (audio_worker.py:493).   *)
EngineAlive == engine # "died"

(* A phone plays what it should: each caller in order and none that has     *)
(* gone, the tone last asked for and without a seam; and it goes on playing *)
(* (LoopingAudioWorker).                                                    *)
PlaysRight == HeardInOrder /\ OneStrayPacket /\ Seamless /\ ToneAsAsked /\ EngineAlive
=============================================================================
