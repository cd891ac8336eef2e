----------------------------- MODULE PhoneProofs -----------------------------
(***************************************************************************)
(* Proofs about what the user of a phone hears and sees.                   *)
(*                                                                         *)
(* AudioMixer, for any receivers, packets, blocks, tones and commands:     *)
(* what a phone plays of its callers and of its tones.                     *)
(*                                                                         *)
(* PhoneScreen, for any references and any delay of the packets, while no  *)
(* second call is placed: the screen agrees with the hub's calls and shows *)
(* what fits them.  The proof follows the packets on their way: each takes *)
(* the phone from one mode (the call it may list) to the next, and each    *)
(* part of the screen is settled by a last packet, after which none of     *)
(* those to come disturbs it.                                              *)
(*                                                                         *)
(* MacroRun, for any keys and any number of calls: the script of a phone   *)
(* that answers by itself keeps to its caller.                             *)
(***************************************************************************)
EXTENDS AudioMixer, PhoneScreen, Integers, SequenceTheorems, WellFoundedInduction, TLAPS

-----------------------------------------------------------------------------
(* The inductive invariant *)

Sample == Receivers \X Nat
Operations == {"set_tone", "clear_tone", "clear_all", "play_wav_once", "__quit__",
               "add_stream", "remove_stream", "feed_stream"}
Commands == [op : Operations, arg : Nat \cup {NoTone}, pcm : Seq(Sample)]
Audible == (Tones \ {0}) \cup {NoTone}

Typed ==
  /\ q \in Seq(Commands)
  /\ \A k \in 1..Len(q) : q[k].op = "set_tone" => q[k].arg \in Tones
  /\ stream \in [on : BOOLEAN, buf : Seq(Sample)]
  /\ tone \in [id : Audible, pos : Nat]
  /\ engine \in {"top", "drain", "ended", "died"}
  /\ rx \in [Receivers -> [pc : {"new", "listening", "decoded", "ended"},
                           stop : BOOLEAN, got : Nat]]
  /\ \A r \in Receivers : rx[r].pc = "decoded" => rx[r].got >= 1
  /\ asked \in Audible /\ blocks \in Nat /\ heard \in Seq(Sample)

(* Samples of one receiver come in their order; those of t after those of s.*)
Ordered(s) ==
  \A i, j \in 1..Len(s) : i < j /\ s[i][1] = s[j][1] => s[i][2] < s[j][2]
Before(s, t) ==
  \A i \in 1..Len(s), j \in 1..Len(t) : s[i][1] = t[j][1] => s[i][2] < t[j][2]

(* What was heard, is in the stream, or waits in the queue, is one line, ...*)
InLine ==
  /\ Ordered(heard) /\ Ordered(stream.buf) /\ Before(heard, stream.buf)
  /\ \A k \in 1..Len(q) :
       /\ Ordered(q[k].pcm)
       /\ Before(heard, q[k].pcm) /\ Before(stream.buf, q[k].pcm)
  /\ \A k, l \in 1..Len(q) : k < l => Before(q[k].pcm, q[l].pcm)

(* ... none of it ahead of the last packet its receiver has fed.            *)
Fed(r) == IF rx[r].pc = "decoded" THEN rx[r].got - 1 ELSE rx[r].got
UpTo(s) == \A i \in 1..Len(s) : s[i][2] <= Fed(s[i][1]) * PacketLen

NoneAhead ==
  UpTo(heard) /\ UpTo(stream.buf) /\ \A k \in 1..Len(q) : UpTo(q[k].pcm)

(* After the removal of a stopped receiver's stream only the packet it held *)
(* may come.                                                                *)
Removes(c, r) == c.op = "remove_stream" /\ c.arg = r
RestOf(r, k) == \A l \in k..Len(q) : OfPacket(q[l].pcm, r, rx[r].got)
Strays ==
  \A r \in Receivers : rx[r].stop =>
    \/ \E k \in 1..Len(q) : Removes(q[k], r) /\ RestOf(r, k + 1)
    \/ OfPacket(stream.buf, r, rx[r].got) /\ RestOf(r, 1)

(* The last command about the tone asks for what was asked last.            *)
ToneOps == {"set_tone", "clear_tone", "clear_all"}
Asks(c) == IF c.op = "set_tone" /\ c.arg # 0 THEN c.arg ELSE NoTone
NoToneFrom(k) == \A l \in k..Len(q) : q[l].op \notin ToneOps
LastAsked ==
  Running =>
    \/ tone.id = asked /\ NoToneFrom(1)
    \/ \E k \in 1..Len(q) :
         q[k].op \in ToneOps /\ Asks(q[k]) = asked /\ NoToneFrom(k + 1)

(* The tone's place is where the blocks since its start have brought it.    *)
InPlace == tone.id # NoTone => tone.pos <= tone.id

LineInv == Typed /\ InLine /\ NoneAhead /\ Strays /\ LastAsked
LoopInv == InPlace /\ Seamless /\ EngineAlive

(* It holds when no tone is shorter than a block.  A shorter one moves on   *)
(* by Block - L in every block, until it does not fit (ToneFits).           *)
LongTones == \A t \in Tones : t = 0 \/ t >= Block

-----------------------------------------------------------------------------
(* Arithmetic *)

LEMMA Quotient ==
  ASSUME NEW a \in Nat, NEW n \in Nat \ {0}
  PROVE  a = n * (a \div n) + (a % n) /\ a % n \in 0..n - 1 /\ a \div n \in Nat
OBVIOUS

LEMMA OneRemainder ==
  ASSUME NEW n \in Nat \ {0}, NEW r \in 0..n - 1, NEW s \in 0..n - 1,
         NEW k \in Int, NEW l \in Int, n * k + r = n * l + s
  PROVE  r = s
<1>1. k < l + 1
  <2> SUFFICES ASSUME k >= l + 1 PROVE FALSE
    OBVIOUS
  <2>1. n * k >= n * (l + 1) /\ n * (l + 1) = n * l + n
    OBVIOUS
  <2> QED
    BY <2>1
<1>2. l < k + 1
  <2> SUFFICES ASSUME l >= k + 1 PROVE FALSE
    OBVIOUS
  <2>1. n * l >= n * (k + 1) /\ n * (k + 1) = n * k + n
    OBVIOUS
  <2> QED
    BY <2>1
<1> QED
  BY <1>1, <1>2

(* Numbers that differ by a multiple of n leave the same remainder. *)
LEMMA SameRemainder ==
  ASSUME NEW n \in Nat \ {0}, NEW a \in Nat, NEW b \in Nat, NEW k \in Int, a = b + n * k
  PROVE  a % n = b % n
<1> DEFINE c == a \div n
           d == b \div n
           r == a % n
           s == b % n
<1>1. a = n * c + r /\ r \in 0..n - 1 /\ c \in Int
  BY Quotient
<1>2. b = n * d + s /\ s \in 0..n - 1 /\ d + k \in Int /\ d \in Int
  BY Quotient
<1> HIDE DEF c, d, r, s
<1>3. n * c + r = n * (d + k) + s
  <2>1. n * (d + k) = n * d + n * k
    BY <1>2
  <2> QED
    BY <1>1, <1>2, <2>1
<1>4. r = s
  BY <1>1, <1>2, <1>3, OneRemainder
<1> QED
  BY <1>4 DEF r, s

(* A block on, place and time still agree, however the time is counted.     *)
LEMMA BlockOn ==
  ASSUME NEW n \in Nat \ {0}, NEW a \in Nat, NEW b \in Nat, NEW m \in Nat,
         a % n = (b * m) % n
  PROVE  (a + m) % n = (((b + 1) % n) * m) % n
<1> DEFINE c == a \div n
           d == (b * m) \div n
           e == (b + 1) \div n
           r == (b + 1) % n
<1>1. a = n * c + (a % n) /\ c \in Nat
  BY Quotient
<1>2. b * m \in Nat /\ b + 1 \in Nat
  OBVIOUS
<1>3. b * m = n * d + ((b * m) % n) /\ d \in Nat
  BY <1>2, Quotient
<1>4. b + 1 = n * e + r /\ e \in Nat /\ r \in Nat
  BY <1>2, Quotient
<1> HIDE DEF c, d, e, r
<1>5. a = b * m + n * (c - d)
  BY <1>1, <1>3
<1>6. b * m + m = n * (e * m) + r * m
  <2>1. (b + 1) * m = b * m + m /\ (n * e + r) * m = n * (e * m) + r * m
    BY <1>4
  <2> QED
    BY <1>4, <2>1
<1>7. a + m = r * m + n * ((e * m) + (c - d))
  <2>1. n * ((e * m) + (c - d)) = n * (e * m) + n * (c - d)
    BY <1>1, <1>3, <1>4
  <2> QED
    BY <1>5, <1>6, <2>1, <1>1, <1>3, <1>4
<1>8. a + m \in Nat /\ r * m \in Nat /\ (e * m) + (c - d) \in Int
  BY <1>1, <1>3, <1>4
<1>9. (a + m) % n = (r * m) % n
  BY <1>7, <1>8, SameRemainder
<1> QED
  BY <1>9 DEF r

-----------------------------------------------------------------------------
(* Sequences of samples *)

LEMMA EmptyInLine ==
  /\ Ordered(<<>>) /\ UpTo(<<>>)
  /\ \A t : Before(<<>>, t) /\ Before(t, <<>>)
  /\ \A r, k : OfPacket(<<>>, r, k)
BY DEF Ordered, Before, UpTo, OfPacket

LEMMA JoinedInLine ==
  ASSUME NEW s \in Seq(Sample), NEW t \in Seq(Sample)
  PROVE  /\ s \o t \in Seq(Sample)
         /\ Ordered(s) /\ Ordered(t) /\ Before(s, t) => Ordered(s \o t)
         /\ \A u : Before(s, u) /\ Before(t, u) => Before(s \o t, u)
         /\ \A u : Before(u, s) /\ Before(u, t) => Before(u, s \o t)
         /\ UpTo(s) /\ UpTo(t) => UpTo(s \o t)
         /\ \A r, k : OfPacket(s, r, k) /\ OfPacket(t, r, k) => OfPacket(s \o t, r, k)
<1> DEFINE st == s \o t
<1>1. /\ st \in Seq(Sample) /\ Len(st) = Len(s) + Len(t)
      /\ Len(s) \in Nat /\ Len(t) \in Nat
      /\ \A i \in 1..Len(st) :
           st[i] = IF i <= Len(s) THEN s[i] ELSE t[i - Len(s)]
  BY ConcatProperties
<1>2. \A i \in 1..Len(st) :
        \/ i \in 1..Len(s) /\ st[i] = s[i]
        \/ i - Len(s) \in 1..Len(t) /\ st[i] = t[i - Len(s)] /\ i > Len(s)
  BY <1>1
<1> HIDE DEF st
<1>3. ASSUME Ordered(s), Ordered(t), Before(s, t)
      PROVE  Ordered(st)
  <2> SUFFICES ASSUME NEW i \in 1..Len(st), NEW j \in 1..Len(st), i < j,
                      st[i][1] = st[j][1]
               PROVE  st[i][2] < st[j][2]
    BY DEF Ordered
  <2>1. CASE j <= Len(s)
    BY <1>1, <1>2, <1>3, <2>1 DEF Ordered
  <2>2. CASE i > Len(s)
    <3>1. /\ i - Len(s) \in 1..Len(t) /\ j - Len(s) \in 1..Len(t)
          /\ st[i] = t[i - Len(s)] /\ st[j] = t[j - Len(s)] /\ i - Len(s) < j - Len(s)
      BY <1>1, <1>2, <2>2
    <3> QED
      BY <1>3, <3>1 DEF Ordered
  <2>3. CASE i <= Len(s) /\ j > Len(s)
    <3>1. /\ i \in 1..Len(s) /\ j - Len(s) \in 1..Len(t)
          /\ st[i] = s[i] /\ st[j] = t[j - Len(s)]
      BY <1>1, <1>2, <2>3
    <3> QED
      BY <1>3, <3>1 DEF Before
  <2> QED
    BY <1>1, <2>1, <2>2, <2>3
<1>4. \A u : /\ Before(s, u) /\ Before(t, u) => Before(st, u)
             /\ Before(u, s) /\ Before(u, t) => Before(u, st)
  BY <1>2 DEF Before
<1>5. UpTo(s) /\ UpTo(t) => UpTo(st)
  BY <1>2 DEF UpTo
<1>6. ASSUME NEW r, NEW k, OfPacket(s, r, k), OfPacket(t, r, k)
      PROVE  OfPacket(st, r, k)
  <2> DEFINE In(x) == x[1] = r => \E n \in 1..PacketLen : x[2] = (k - 1) * PacketLen + n
  <2>1. \A i \in 1..Len(s) : In(s[i])
    BY <1>6 DEF OfPacket
  <2>2. \A i \in 1..Len(t) : In(t[i])
    BY <1>6 DEF OfPacket
  <2> SUFFICES \A i \in 1..Len(st) : In(st[i])
    BY DEF OfPacket
  <2> HIDE DEF In
  <2> QED
    BY <1>2, <2>1, <2>2
<1> QED
  BY <1>1, <1>3, <1>4, <1>5, <1>6 DEF st

(* What one block takes of a stream, and what it leaves. *)
LEMMA CutInLine ==
  ASSUME NEW s \in Seq(Sample), NEW n \in 0..Len(s)
  PROVE  LET a == SubSeq(s, 1, n)
             b == SubSeq(s, n + 1, Len(s)) IN
         /\ a \in Seq(Sample) /\ b \in Seq(Sample)
         /\ Ordered(s) => Ordered(a) /\ Ordered(b) /\ Before(a, b)
         /\ \A u : Before(s, u) => Before(a, u) /\ Before(b, u)
         /\ \A u : Before(u, s) => Before(u, a) /\ Before(u, b)
         /\ UpTo(s) => UpTo(a) /\ UpTo(b)
         /\ \A r, k : OfPacket(s, r, k) => OfPacket(b, r, k)
<1> DEFINE a == SubSeq(s, 1, n)
           b == SubSeq(s, n + 1, Len(s))
<1>1. Len(s) \in Nat /\ n \in Nat /\ n <= Len(s) /\ \A i \in 1..Len(s) : s[i] \in Sample
  BY LenProperties, ElementOfSeq
<1>2. /\ a \in Seq(Sample) /\ Len(a) = n
      /\ \A i \in 1..n : a[i] = s[i]
  <2>1. \A i \in 1..n : s[i] \in Sample
    BY <1>1
  <2>2. /\ a \in Seq(Sample) /\ Len(a) = (IF 1 <= n THEN n - 1 + 1 ELSE 0)
        /\ \A i \in 1..n - 1 + 1 : a[i] = s[1 + i - 1]
    BY <1>1, <2>1, SubSeqProperties
  <2> HIDE DEF a
  <2> QED
    BY <1>1, <2>2
<1>3. /\ b \in Seq(Sample) /\ Len(b) = Len(s) - n
      /\ \A i \in 1..Len(s) - n : b[i] = s[n + i]
  <2>1. \A i \in n + 1..Len(s) : s[i] \in Sample
    BY <1>1
  <2>2. /\ b \in Seq(Sample)
        /\ Len(b) = (IF n + 1 <= Len(s) THEN Len(s) - (n + 1) + 1 ELSE 0)
        /\ \A i \in 1..Len(s) - (n + 1) + 1 : b[i] = s[(n + 1) + i - 1]
    BY <1>1, <2>1, SubSeqProperties
  <2> HIDE DEF b
  <2> QED
    BY <1>1, <2>2
<1> HIDE DEF a, b
<1>4. /\ \A i \in 1..Len(a) : i \in 1..Len(s) /\ a[i] = s[i]
      /\ \A i \in 1..Len(b) : n + i \in 1..Len(s) /\ b[i] = s[n + i]
  BY <1>1, <1>2, <1>3
<1>5. ASSUME Ordered(s) PROVE Ordered(a) /\ Ordered(b) /\ Before(a, b)
  <2>1. Ordered(a)
    BY <1>4, <1>5 DEF Ordered
  <2>2. Ordered(b)
    BY <1>1, <1>3, <1>4, <1>5 DEF Ordered
  <2>3. Before(a, b)
    <3> SUFFICES ASSUME NEW i \in 1..Len(a), NEW j \in 1..Len(b), a[i][1] = b[j][1]
                 PROVE  a[i][2] < b[j][2]
      BY DEF Before
    <3>1. /\ i \in 1..Len(s) /\ a[i] = s[i]
          /\ n + j \in 1..Len(s) /\ b[j] = s[n + j]
      BY <1>4
    <3>2. i < n + j
      BY <1>1, <1>2, <1>3
    <3>3. s[i][1] = s[n + j][1]
      BY <3>1
    <3>4. s[i][2] < s[n + j][2]
      BY <1>5, <3>1, <3>2, <3>3 DEF Ordered
    <3> QED
      BY <3>1, <3>4
  <2> QED
    BY <2>1, <2>2, <2>3
<1>6. \A u : /\ Before(s, u) => Before(a, u) /\ Before(b, u)
             /\ Before(u, s) => Before(u, a) /\ Before(u, b)
  <2> TAKE u
  <2>1. Before(s, u) => Before(a, u)
    BY <1>4 DEF Before
  <2>2. Before(s, u) => Before(b, u)
    BY <1>4 DEF Before
  <2>3. Before(u, s) => Before(u, a)
    BY <1>4 DEF Before
  <2>4. Before(u, s) => Before(u, b)
    BY <1>4 DEF Before
  <2> QED
    BY <2>1, <2>2, <2>3, <2>4
<1>7. UpTo(s) => UpTo(a) /\ UpTo(b)
  BY <1>4 DEF UpTo
<1>8. ASSUME NEW r, NEW k, OfPacket(s, r, k) PROVE OfPacket(b, r, k)
  <2> SUFFICES ASSUME NEW i \in 1..Len(b), b[i][1] = r
               PROVE  \E m \in 1..PacketLen : b[i][2] = (k - 1) * PacketLen + m
    BY DEF OfPacket
  <2>1. n + i \in 1..Len(s) /\ b[i] = s[n + i]
    BY <1>4
  <2> QED
    BY <1>8, <2>1 DEF OfPacket
<1> QED
  BY <1>2, <1>3, <1>5, <1>6, <1>7, <1>8 DEF a, b

LEMMA FunctionIsSeq ==
  ASSUME NEW S, NEW n \in Nat, NEW f \in [1..n -> S]
  PROVE  f \in Seq(S) /\ Len(f) = n
<1>1. f \in Seq(S)
  BY SeqDef
<1>2. Len(f) \in Nat /\ 1..Len(f) = 1..n
  BY <1>1, LenProperties
<1> QED
  BY <1>1, <1>2

(* A packet is in order, none of it ahead of itself, and all of it comes    *)
(* after what its receiver has fed before.                                  *)
LEMMA PacketInLine ==
  ASSUME MixerAssumption, Typed, NEW r \in Receivers, NEW k \in Nat \ {0}
  PROVE  LET s == Samples(r, k) IN
         /\ s \in Seq(Sample) /\ Ordered(s)
         /\ OfPacket(s, r, k) /\ \A p \in Receivers \ {r} : \A l : OfPacket(s, p, l)
         /\ \A i \in 1..Len(s) : s[i][1] = r /\ s[i][2] <= k * PacketLen
         /\ Fed(r) = k - 1 => \A u \in Seq(Sample) : UpTo(u) => Before(u, s)
<1> DEFINE s == Samples(r, k)
<1>1. PacketLen \in Nat \ {0} /\ (k - 1) * PacketLen \in Nat
  BY MixerAssumption
<1>2. \A i \in 1..PacketLen : <<r, (k - 1) * PacketLen + i>> \in Sample
  BY <1>1 DEF Sample
<1>3. s \in [1..PacketLen -> Sample]
  BY <1>2 DEF Samples
<1>4. s \in Seq(Sample) /\ Len(s) = PacketLen
  <2>1. PacketLen \in Nat
    BY <1>1
  <2> HIDE DEF s
  <2> QED
    BY <2>1, <1>3, FunctionIsSeq
<1>5. \A i \in 1..PacketLen : s[i][1] = r /\ s[i][2] = (k - 1) * PacketLen + i
  BY DEF Samples
<1> HIDE DEF s
<1>6. k * PacketLen = (k - 1) * PacketLen + PacketLen
  BY <1>1
<1>7. Ordered(s)
  BY <1>1, <1>4, <1>5 DEF Ordered
<1>8. OfPacket(s, r, k) /\ \A p \in Receivers \ {r} : \A l : OfPacket(s, p, l)
  BY <1>4, <1>5 DEF OfPacket
<1>9. \A i \in 1..Len(s) : s[i][1] = r /\ s[i][2] <= k * PacketLen
  BY <1>1, <1>4, <1>5, <1>6
<1>10. ASSUME Fed(r) = k - 1, NEW u \in Seq(Sample), UpTo(u)
       PROVE  Before(u, s)
  <2> SUFFICES ASSUME NEW i \in 1..Len(u), NEW j \in 1..Len(s), u[i][1] = s[j][1]
               PROVE  u[i][2] < s[j][2]
    BY DEF Before
  <2>1. u[i] \in Sample
    BY ElementOfSeq
  <2>2. u[i][2] \in Nat /\ u[i][2] <= (k - 1) * PacketLen
    BY <1>4, <1>5, <1>10, <2>1 DEF UpTo, Sample
  <2> QED
    BY <1>1, <1>4, <1>5, <2>2
<1> QED
  BY <1>4, <1>7, <1>8, <1>9, <1>10 DEF s

-----------------------------------------------------------------------------
(* The queue *)

LEMMA QueuePut ==
  ASSUME q \in Seq(Commands), NEW c \in Commands, q' = Append(q, c)
  PROVE  /\ q' \in Seq(Commands) /\ Len(q) \in Nat /\ Len(q') = Len(q) + 1
         /\ \A k \in 1..Len(q) : k \in 1..Len(q') /\ q'[k] = q[k]
         /\ Len(q') \in 1..Len(q') /\ q'[Len(q')] = c
         /\ \A k \in 1..Len(q') : k \in 1..Len(q) \/ k = Len(q')
<1>1. /\ q' \in Seq(Commands) /\ Len(q) \in Nat /\ Len(q') = Len(q) + 1
      /\ \A k \in 1..Len(q) : q'[k] = q[k]
      /\ q'[Len(q) + 1] = c
  BY AppendProperties, LenProperties
<1> QED
  BY <1>1

LEMMA QueueTaken ==
  ASSUME q \in Seq(Commands), q # <<>>, q' = Tail(q)
  PROVE  /\ q' \in Seq(Commands) /\ Len(q) \in Nat /\ Len(q') = Len(q) - 1
         /\ 1 \in 1..Len(q) /\ Head(q) = q[1] /\ q[1] \in Commands
         /\ \A k \in 1..Len(q') : k + 1 \in 1..Len(q) /\ q'[k] = q[k + 1]
         /\ \A k \in 2..Len(q) : k - 1 \in 1..Len(q') /\ q'[k - 1] = q[k]
<1>1. /\ q' \in Seq(Commands) /\ Len(q) \in Nat /\ Len(q) >= 1 /\ Len(q') = Len(q) - 1
      /\ \A k \in 1..Len(q') : q'[k] = q[k + 1]
  BY HeadTailProperties, LenProperties, EmptySeq
<1>2. Head(q) = q[1] /\ q[1] \in Commands
  BY <1>1, ElementOfSeq
<1> QED
  BY <1>1, <1>2

LEMMA InQueue ==
  ASSUME Typed, NEW k \in 1..Len(q)
  PROVE  q[k] \in Commands /\ q[k].pcm \in Seq(Sample)
<1>1. q[k] \in Commands
  BY ElementOfSeq DEF Typed
<1> QED
  BY <1>1 DEF Commands

(* What a command of a thread does to what is on its way. *)
LEMMA PutInLine ==
  ASSUME MixerAssumption, Typed, InLine, NoneAhead, NEW c \in Commands, q' = Append(q, c),
         UNCHANGED <<stream, heard>>,
         Ordered(c.pcm), Before(heard, c.pcm), Before(stream.buf, c.pcm),
         \A k \in 1..Len(q) : Before(q[k].pcm, c.pcm),
         UpTo(c.pcm)',
         \A r \in Receivers : Fed(r) \in Int /\ Fed(r)' \in Int /\ Fed(r) <= Fed(r)'
  PROVE  InLine' /\ NoneAhead'
<1>1. q \in Seq(Commands)
  BY DEF Typed
<1>2. /\ Len(q) \in Nat /\ Len(q') = Len(q) + 1
      /\ \A k \in 1..Len(q) : q'[k] = q[k]
      /\ q'[Len(q')] = c
      /\ \A k \in 1..Len(q') : k \in 1..Len(q) \/ k = Len(q')
  BY <1>1, QueuePut
<1>3. InLine'
  <2>1. ASSUME NEW k \in 1..Len(q')
        PROVE  Ordered(q'[k].pcm) /\ Before(heard, q'[k].pcm) /\ Before(stream.buf, q'[k].pcm)
    BY <1>2, <2>1 DEF InLine
  <2>2. ASSUME NEW k \in 1..Len(q'), NEW l \in 1..Len(q'), k < l
        PROVE  Before(q'[k].pcm, q'[l].pcm)
    <3>1. k \in 1..Len(q)
      BY <1>2, <2>2
    <3> QED
      BY <1>2, <2>2, <3>1 DEF InLine
  <2> QED
    BY <2>1, <2>2 DEF InLine
<1>4. NoneAhead'
  <2>1. ASSUME NEW s \in Seq(Sample), UpTo(s) PROVE UpTo(s)'
    <3> SUFFICES ASSUME NEW i \in 1..Len(s) PROVE s[i][2] <= Fed(s[i][1])' * PacketLen
      BY DEF UpTo
    <3>1. s[i] \in Sample
      BY ElementOfSeq
    <3>2. /\ s[i][1] \in Receivers /\ s[i][2] \in Nat
          /\ s[i][2] <= Fed(s[i][1]) * PacketLen
      BY <2>1, <3>1 DEF Sample, UpTo
    <3> DEFINE a == Fed(s[i][1])
               b == Fed(s[i][1])'
    <3>3. a \in Int /\ b \in Int /\ a <= b /\ PacketLen \in Nat
      BY <3>2, MixerAssumption
    <3>4. a * PacketLen <= b * PacketLen /\ a * PacketLen \in Int /\ b * PacketLen \in Int
      <4> HIDE DEF a, b
      <4> QED
        BY <3>3
    <3>5. s[i][2] <= a * PacketLen
      BY <3>2
    <3> HIDE DEF a, b
    <3>6. s[i][2] <= b * PacketLen
      BY <3>2, <3>4, <3>5
    <3> QED
      BY <3>6 DEF b
  <2>2. heard \in Seq(Sample) /\ stream.buf \in Seq(Sample)
    BY DEF Typed
  <2>3. ASSUME NEW k \in 1..Len(q') PROVE UpTo(q[k].pcm)'
    <3>1. CASE k \in 1..Len(q)
      <4>1. q[k] \in Commands
        BY <1>1, <3>1, ElementOfSeq
      <4> QED
        BY <1>2, <2>1, <3>1, <4>1 DEF NoneAhead, Commands
    <3>2. CASE k = Len(q')
      BY <1>2, <3>2
    <3> QED
      BY <1>2, <3>1, <3>2
  <2> QED
    BY <2>1, <2>2, <2>3 DEF NoneAhead
<1> QED
  BY <1>3, <1>4

LEMMA PutStrays ==
  ASSUME Typed, Strays, NEW c \in Commands, q' = Append(q, c), UNCHANGED stream,
         \A r \in Receivers : /\ rx[r].stop => OfPacket(c.pcm, r, rx[r].got)
                              /\ rx[r].stop => rx'[r].got = rx[r].got
                              /\ rx'[r].stop => rx[r].stop \/ Removes(c, r)
  PROVE  Strays'
<1>1. q \in Seq(Commands)
  BY DEF Typed
<1>2. /\ Len(q) \in Nat /\ Len(q') = Len(q) + 1
      /\ \A k \in 1..Len(q) : k \in 1..Len(q') /\ q'[k] = q[k]
      /\ Len(q') \in 1..Len(q') /\ q'[Len(q')] = c
      /\ \A k \in 1..Len(q') : k \in 1..Len(q) \/ k = Len(q')
  BY <1>1, QueuePut
<1> SUFFICES ASSUME NEW r \in Receivers, rx'[r].stop
             PROVE  \/ \E k \in 1..Len(q') : Removes(q'[k], r) /\ RestOf(r, k + 1)'
                    \/ OfPacket(stream.buf, r, rx'[r].got) /\ RestOf(r, 1)'
  BY DEF Strays
<1>3. ASSUME NEW k \in Nat \ {0}, RestOf(r, k), rx[r].stop
      PROVE  RestOf(r, k)'
  <2> SUFFICES ASSUME NEW l \in k..Len(q') PROVE OfPacket(q'[l].pcm, r, rx'[r].got)
    BY DEF RestOf
  <2>1. CASE l \in 1..Len(q)
    BY <1>2, <1>3, <2>1 DEF RestOf
  <2>2. CASE l = Len(q')
    BY <1>2, <1>3, <2>2
  <2>3. l \in 1..Len(q')
    BY <1>2
  <2> QED
    BY <1>2, <2>1, <2>2, <2>3
<1>4. CASE rx[r].stop
  <2>1. CASE \E k \in 1..Len(q) : Removes(q[k], r) /\ RestOf(r, k + 1)
    BY <1>2, <1>3, <1>4, <2>1
  <2>2. CASE OfPacket(stream.buf, r, rx[r].got) /\ RestOf(r, 1)
    BY <1>3, <1>4, <2>2
  <2> QED
    BY <1>4, <2>1, <2>2 DEF Strays
<1>5. CASE ~rx[r].stop
  <2>1. PICK n \in Nat : n = Len(q')
    BY <1>2
  <2>2. Removes(q'[n], r)
    BY <1>2, <1>5, <2>1
  <2>3. RestOf(r, n + 1)'
    BY <2>1 DEF RestOf
  <2> QED
    BY <1>2, <2>1, <2>2, <2>3
<1> QED
  BY <1>4, <1>5

LEMMA PutAsks ==
  ASSUME Typed, LastAsked, NEW c \in Commands, q' = Append(q, c),
         UNCHANGED <<tone, engine>>,
         asked' = IF c.op \in ToneOps THEN Asks(c) ELSE asked
  PROVE  LastAsked'
<1>1. q \in Seq(Commands)
  BY DEF Typed
<1>2. /\ Len(q) \in Nat /\ Len(q') = Len(q) + 1
      /\ \A k \in 1..Len(q) : k \in 1..Len(q') /\ q'[k] = q[k]
      /\ Len(q') \in 1..Len(q') /\ q'[Len(q')] = c
      /\ \A k \in 1..Len(q') : k \in 1..Len(q) \/ k = Len(q')
  BY <1>1, QueuePut
<1> SUFFICES ASSUME Running
             PROVE  \/ tone.id = asked' /\ NoToneFrom(1)'
                    \/ \E k \in 1..Len(q') : /\ q'[k].op \in ToneOps /\ Asks(q'[k]) = asked'
                                             /\ NoToneFrom(k + 1)'
  BY DEF LastAsked, Running
<1>3. CASE c.op \in ToneOps
  <2>1. PICK n \in Nat : n = Len(q')
    BY <1>2
  <2>2. NoToneFrom(n + 1)'
    BY <2>1 DEF NoToneFrom
  <2> QED
    BY <1>2, <1>3, <2>1, <2>2
<1>4. CASE c.op \notin ToneOps
  <2>1. ASSUME NEW k \in 1..Len(q) + 1, NoToneFrom(k)
        PROVE  NoToneFrom(k)'
    BY <1>2, <1>4, <2>1 DEF NoToneFrom
  <2>2. CASE tone.id = asked /\ NoToneFrom(1)
    BY <1>2, <1>4, <2>1, <2>2
  <2>3. CASE \E k \in 1..Len(q) : /\ q[k].op \in ToneOps /\ Asks(q[k]) = asked
                                  /\ NoToneFrom(k + 1)
    <3>1. PICK k \in 1..Len(q) : /\ q[k].op \in ToneOps /\ Asks(q[k]) = asked
                                 /\ NoToneFrom(k + 1)
      BY <2>3
    <3>2. NoToneFrom(k + 1)'
      BY <1>2, <2>1, <3>1
    <3> QED
      BY <1>2, <1>4, <3>1, <3>2
  <2> QED
    BY <2>2, <2>3 DEF LastAsked
<1> QED
  BY <1>3, <1>4

LEMMA FedIsNat ==
  ASSUME Typed, NEW r \in Receivers
  PROVE  Fed(r) \in Nat
BY DEF Typed, Fed

(* A command with no samples. *)
LEMMA QuietPut ==
  ASSUME MixerAssumption, LineInv, NEW c \in Commands, c.pcm = <<>>, q' = Append(q, c),
         UNCHANGED <<stream, tone, engine, blocks, heard>>,
         c.op = "set_tone" => c.arg \in Tones,
         asked' \in Audible, asked' = IF c.op \in ToneOps THEN Asks(c) ELSE asked,
         rx' \in [Receivers -> [pc : {"new", "listening", "decoded", "ended"},
                                stop : BOOLEAN, got : Nat]],
         \A r \in Receivers : /\ rx'[r].got = rx[r].got
                              /\ rx'[r].pc = "decoded" <=> rx[r].pc = "decoded"
                              /\ rx'[r].stop => rx[r].stop \/ Removes(c, r)
  PROVE  LineInv'
<1>1. Typed
  BY DEF LineInv
<1>2. /\ q' \in Seq(Commands) /\ Len(q) \in Nat
      /\ \A k \in 1..Len(q) : q'[k] = q[k]
      /\ q'[Len(q')] = c
      /\ \A k \in 1..Len(q') : k \in 1..Len(q) \/ k = Len(q')
  BY <1>1, QueuePut DEF Typed
<1>3. Typed'
  <2>1. \A k \in 1..Len(q') : q'[k].op = "set_tone" => q'[k].arg \in Tones
    BY <1>1, <1>2 DEF Typed
  <2> QED
    BY <1>1, <1>2, <2>1 DEF Typed
<1>4. InLine' /\ NoneAhead'
  <2>1. \A r \in Receivers : Fed(r) \in Int /\ Fed(r)' \in Int /\ Fed(r) <= Fed(r)'
    BY <1>1, FedIsNat DEF Fed
  <2>2. /\ Ordered(c.pcm) /\ Before(heard, c.pcm) /\ Before(stream.buf, c.pcm)
        /\ \A k \in 1..Len(q) : Before(q[k].pcm, c.pcm)
    BY EmptyInLine
  <2>3. UpTo(c.pcm)'
    BY DEF UpTo
  <2> QED
    BY <1>1, <2>1, <2>2, <2>3, PutInLine DEF LineInv
<1>5. Strays'
  BY <1>1, PutStrays, EmptyInLine DEF LineInv
<1>6. LastAsked'
  BY <1>1, PutAsks DEF LineInv
<1> QED
  BY <1>3, <1>4, <1>5, <1>6 DEF LineInv

-----------------------------------------------------------------------------
(* The threads of the client *)

LEMMA CommandKeeps ==
  ASSUME MixerAssumption, LineInv,
         (\E t \in Tones : SetTone(t)) \/ ClearTone \/ Beep \/ ClearAll \/ Close
  PROVE  LineInv'
<1>1. Typed /\ <<>> \in Seq(Sample)
  BY DEF LineInv
<1>2. ASSUME NEW op \in Operations, NEW arg \in Nat \cup {NoTone}, Put(op, arg),
             UNCHANGED <<stream, tone, engine, blocks, heard, rx>>,
             op = "set_tone" => arg \in Tones,
             asked' \in Audible,
             asked' = IF op \notin ToneOps THEN asked
                      ELSE IF op = "set_tone" /\ arg # 0 THEN arg ELSE NoTone
      PROVE  LineInv'
  <2> DEFINE c == [op |-> op, arg |-> arg, pcm |-> <<>>]
  <2>1. c \in Commands
    BY <1>1 DEF Commands
  <2>2. q' = Append(q, c)
    BY <1>2 DEF Put, PutWith
  <2>3. asked' = IF c.op \in ToneOps THEN Asks(c) ELSE asked
    BY <1>2 DEF Asks
  <2>4. c.pcm = <<>> /\ (c.op = "set_tone" => c.arg \in Tones)
    BY <1>2
  <2>5. rx' = rx /\ rx' \in [Receivers -> [pc : {"new", "listening", "decoded", "ended"},
                                stop : BOOLEAN, got : Nat]]
    BY <1>1, <1>2 DEF Typed
  <2> HIDE DEF c
  <2> QED
    BY <1>2, <2>1, <2>2, <2>3, <2>4, <2>5, QuietPut
<1>3. ASSUME NEW t \in Tones, SetTone(t) PROVE LineInv'
  <2>1. /\ "set_tone" \in Operations /\ t \in Nat /\ "set_tone" \in ToneOps
        /\ Put("set_tone", t) /\ UNCHANGED <<stream, tone, engine, blocks, heard, rx>>
        /\ asked' = IF t = 0 THEN NoTone ELSE t
    BY <1>3, MixerAssumption DEF SetTone, Command, Operations, ToneOps
  <2>2. asked' \in Audible
    BY <2>1 DEF Audible
  <2> QED
    BY <1>2, <2>1, <2>2
<1>4. CASE ClearTone \/ ClearAll
  BY <1>2, <1>4 DEF ClearTone, ClearAll, Command, Operations, ToneOps, Audible
<1>5. CASE Beep
  BY <1>1, <1>2, <1>5, MixerAssumption DEF Beep, Command, Operations, ToneOps, Typed
<1>6. CASE Close
  BY <1>1, <1>2, <1>6 DEF Close, Operations, ToneOps, Typed
<1> QED
  BY <1>3, <1>4, <1>5, <1>6

LEMMA ReceiverKeeps ==
  ASSUME MixerAssumption, LineInv, NEW r \in Receivers, Open(r) \/ Stop(r)
  PROVE  LineInv'
<1>1. Typed /\ <<>> \in Seq(Sample) /\ r \in Nat
  BY DEF LineInv, Receivers
<1>2. ASSUME NEW op \in {"add_stream", "remove_stream"}, Put(op, r),
             UNCHANGED <<stream, tone, engine, asked, blocks, heard>>,
             rx' \in [Receivers -> [pc : {"new", "listening", "decoded", "ended"},
                                    stop : BOOLEAN, got : Nat]],
             \A p \in Receivers : /\ rx'[p].got = rx[p].got
                                  /\ rx'[p].pc = "decoded" <=> rx[p].pc = "decoded"
                                  /\ rx'[p].stop => \/ rx[p].stop
                                                    \/ op = "remove_stream" /\ p = r
      PROVE  LineInv'
  <2> DEFINE c == [op |-> op, arg |-> r, pcm |-> <<>>]
  <2>1. c \in Commands
    BY <1>1 DEF Commands, Operations
  <2>2. q' = Append(q, c)
    BY <1>2 DEF Put, PutWith
  <2>3. c.op \notin ToneOps /\ c.op # "set_tone" /\ c.pcm = <<>>
    BY DEF ToneOps
  <2>4. asked' = asked /\ asked \in Audible
    BY <1>1, <1>2 DEF Typed
  <2>5. \A p \in Receivers : /\ rx'[p].got = rx[p].got
                             /\ rx'[p].pc = "decoded" <=> rx[p].pc = "decoded"
                             /\ rx'[p].stop => rx[p].stop \/ Removes(c, p)
    BY <1>2 DEF Removes
  <2> HIDE DEF c
  <2> QED
    BY <1>2, <2>1, <2>2, <2>3, <2>4, <2>5, QuietPut
<1>3. CASE Open(r)
  BY <1>1, <1>2, <1>3 DEF Open, Typed
<1>4. CASE Stop(r)
  BY <1>1, <1>2, <1>4 DEF Stop, Typed
<1> QED
  BY <1>3, <1>4

-----------------------------------------------------------------------------
(* The threads of the receivers *)

LEMMA FeedKeeps ==
  ASSUME MixerAssumption, LineInv, NEW r \in Receivers, Feed(r)
  PROVE  LineInv'
<1> DEFINE s == Samples(r, rx[r].got)
           c == [op |-> "feed_stream", arg |-> r, pcm |-> s]
<1>1. Typed /\ r \in Nat
  BY DEF LineInv, Receivers
<1>2. /\ rx[r].pc = "decoded" /\ rx[r].got \in Nat \ {0}
      /\ rx' = [rx EXCEPT ![r].pc = "listening"]
      /\ q' = Append(q, c)
      /\ UNCHANGED <<stream, tone, engine, asked, blocks, heard>>
  BY <1>1 DEF Feed, PutWith, Typed
<1>3. PICK k \in Nat \ {0} : k = rx[r].got
  BY <1>2
<1>4. Fed(r) = k - 1
  BY <1>2, <1>3 DEF Fed
<1>5. /\ s \in Seq(Sample) /\ Ordered(s)
      /\ OfPacket(s, r, rx[r].got)
      /\ \A p \in Receivers \ {r} : OfPacket(s, p, rx[p].got)
      /\ \A i \in 1..Len(s) : s[i][1] = r /\ s[i][2] <= k * PacketLen
      /\ \A u \in Seq(Sample) : UpTo(u) => Before(u, s)
  BY <1>1, <1>3, <1>4, PacketInLine
<1>6. c \in Commands /\ c.op = "feed_stream" /\ c.pcm = s
  BY <1>1, <1>5 DEF Commands, Operations
<1> HIDE DEF s, c
<1>7. /\ q' \in Seq(Commands) /\ Len(q) \in Nat
      /\ \A i \in 1..Len(q) : q'[i] = q[i]
      /\ q'[Len(q')] = c
      /\ \A i \in 1..Len(q') : i \in 1..Len(q) \/ i = Len(q')
  BY <1>1, <1>2, <1>6, QueuePut DEF Typed
<1>8. /\ rx' \in [Receivers -> [pc : {"new", "listening", "decoded", "ended"},
                                stop : BOOLEAN, got : Nat]]
      /\ rx'[r].pc = "listening"
      /\ \A p \in Receivers : /\ rx'[p].got = rx[p].got /\ rx'[p].stop = rx[p].stop
                              /\ p # r => rx'[p].pc = rx[p].pc
  BY <1>1, <1>2 DEF Typed
<1>9. Typed'
  <2>1. \A i \in 1..Len(q') : q'[i].op = "set_tone" => q'[i].arg \in Tones
    BY <1>1, <1>6, <1>7 DEF Typed
  <2>2. \A p \in Receivers : rx'[p].pc = "decoded" => rx'[p].got >= 1
    BY <1>1, <1>8 DEF Typed
  <2> QED
    BY <1>1, <1>2, <1>7, <1>8, <2>1, <2>2 DEF Typed
<1>10. InLine' /\ NoneAhead'
  <2>1. ASSUME NEW p \in Receivers
        PROVE  Fed(p) \in Int /\ Fed(p)' \in Int /\ Fed(p) <= Fed(p)'
    BY <1>1, <1>2, <1>8 DEF Fed, Typed
  <2>2. \A i \in 1..Len(q) : q[i].pcm \in Seq(Sample)
    BY <1>1, InQueue
  <2>3. /\ Before(heard, s) /\ Before(stream.buf, s)
        /\ \A i \in 1..Len(q) : Before(q[i].pcm, s)
    BY <1>1, <1>5, <2>2 DEF LineInv, NoneAhead, Typed
  <2>4. PICK t : t = s
    OBVIOUS
  <2>5. UpTo(t)'
    <3>1. Fed(r)' = k
      BY <1>3, <1>8 DEF Fed
    <3>2. \A i \in 1..Len(t) : t[i][1] = r /\ t[i][2] <= k * PacketLen
      BY <1>5, <2>4
    <3> QED
      BY <3>1, <3>2 DEF UpTo
  <2>6. PICK d \in Commands : d = c
    BY <1>6
  <2>7. UpTo(d.pcm)'
    BY <1>6, <2>4, <2>5, <2>6
  <2>8. /\ q' = Append(q, d) /\ UNCHANGED <<stream, heard>>
        /\ Ordered(d.pcm) /\ Before(heard, d.pcm) /\ Before(stream.buf, d.pcm)
        /\ \A i \in 1..Len(q) : Before(q[i].pcm, d.pcm)
    BY <1>2, <1>5, <1>6, <2>3, <2>6
  <2> QED
    BY <1>1, <2>1, <2>7, <2>8, PutInLine DEF LineInv
<1>11. Strays'
  <2>1. PICK d \in Commands : d = c
    BY <1>6
  <2>2. q' = Append(q, d) /\ UNCHANGED stream
    BY <1>2, <2>1
  <2>3. \A p \in Receivers : OfPacket(d.pcm, p, rx[p].got)
    BY <1>5, <1>6, <2>1
  <2> QED
    BY <1>1, <1>8, <2>2, <2>3, PutStrays DEF LineInv
<1>12. LastAsked'
  <2>1. PICK d \in Commands : d = c
    BY <1>6
  <2>2. q' = Append(q, d) /\ UNCHANGED <<tone, engine>>
    BY <1>2, <2>1
  <2>3. d.op \notin ToneOps
    BY <1>6, <2>1 DEF ToneOps
  <2> QED
    BY <1>1, <1>2, <2>2, <2>3, PutAsks DEF LineInv
<1> QED
  BY <1>9, <1>10, <1>11, <1>12 DEF LineInv

(* The steps that put nothing into the queue and play nothing. *)
LEMMA SilentKeeps ==
  ASSUME LineInv, Typed', UNCHANGED <<q, stream, tone, asked, heard>>,
         Running' => Running,
         \A r \in Receivers : /\ Fed(r)' = Fed(r) /\ rx'[r].stop = rx[r].stop
                              /\ rx[r].stop => rx'[r].got = rx[r].got
  PROVE  LineInv'
<1>1. InLine'
  BY DEF LineInv, InLine
<1>2. NoneAhead'
  <2>1. ASSUME NEW s \in Seq(Sample), UpTo(s) PROVE UpTo(s)'
    <3> SUFFICES ASSUME NEW i \in 1..Len(s) PROVE s[i][2] <= Fed(s[i][1])' * PacketLen
      BY DEF UpTo
    <3>1. s[i] \in Sample
      BY ElementOfSeq
    <3> QED
      BY <2>1, <3>1 DEF Sample, UpTo
  <2>2. /\ heard \in Seq(Sample) /\ stream.buf \in Seq(Sample)
        /\ \A i \in 1..Len(q) : q[i].pcm \in Seq(Sample)
    BY InQueue DEF LineInv, Typed
  <2> QED
    BY <2>1, <2>2 DEF LineInv, NoneAhead
<1>3. Strays'
  <2> SUFFICES ASSUME NEW r \in Receivers, rx'[r].stop
               PROVE  \/ \E k \in 1..Len(q') : Removes(q'[k], r) /\ RestOf(r, k + 1)'
                      \/ OfPacket(stream'.buf, r, rx'[r].got) /\ RestOf(r, 1)'
    BY DEF Strays
  <2>1. rx[r].stop /\ rx'[r].got = rx[r].got
    OBVIOUS
  <2>2. ASSUME NEW k PROVE RestOf(r, k) => RestOf(r, k)'
    BY <2>1 DEF RestOf
  <2> QED
    BY <2>1, <2>2 DEF LineInv, Strays
<1>4. LastAsked'
  BY DEF LineInv, LastAsked, NoToneFrom
<1> QED
  BY <1>1, <1>2, <1>3, <1>4 DEF LineInv

LEMMA ListenerKeeps ==
  ASSUME MixerAssumption, LineInv, NEW r \in Receivers, Receive(r) \/ Leave(r)
  PROVE  LineInv'
<1>1. Typed
  BY DEF LineInv
<1>2. CASE Receive(r)
  <2>1. /\ (Running' => Running) /\ UNCHANGED <<q, stream, tone, engine, asked, blocks, heard>>
        /\ rx' = [rx EXCEPT ![r].pc = "decoded", ![r].got = @ + 1]
        /\ rx[r].pc # "decoded" /\ ~rx[r].stop
    BY <1>1, <1>2 DEF Receive, Listens, Running, Typed
  <2>2. rx' \in [Receivers -> [pc : {"new", "listening", "decoded", "ended"},
                               stop : BOOLEAN, got : Nat]]
    <3>1. rx \in [Receivers -> [pc : {"new", "listening", "decoded", "ended"},
                                stop : BOOLEAN, got : Nat]]
      BY <1>1 DEF Typed
    <3> QED
      BY <2>1, <3>1
  <2>3. /\ rx'[r].pc = "decoded" /\ rx'[r].stop = rx[r].stop /\ rx'[r].got = rx[r].got + 1
        /\ \A p \in Receivers : p # r => rx'[p] = rx[p]
        /\ rx[r].got \in Nat
    BY <1>1, <2>1 DEF Typed
  <2>4. \A p \in Receivers : rx'[p].pc = "decoded" => rx'[p].got >= 1
    BY <1>1, <2>3 DEF Typed
  <2>5. Typed'
    BY <1>1, <2>1, <2>2, <2>4 DEF Typed
  <2>6. \A p \in Receivers : /\ Fed(p)' = Fed(p) /\ rx'[p].stop = rx[p].stop
                             /\ rx[p].stop => rx'[p].got = rx[p].got
    <3>1. Fed(r)' = Fed(r)
      BY <2>1, <2>3 DEF Fed
    <3>2. \A p \in Receivers : p # r => Fed(p)' = Fed(p)
      BY <2>3 DEF Fed
    <3> QED
      BY <2>1, <2>3, <3>1, <3>2
  <2> QED
    BY <2>1, <2>5, <2>6, SilentKeeps
<1>3. CASE Leave(r)
  <2>1. Typed' /\ (Running' => Running) /\ UNCHANGED <<q, stream, tone, asked, heard>>
    BY <1>1, <1>3 DEF Leave, Typed, Running
  <2>2. \A p \in Receivers : /\ Fed(p)' = Fed(p) /\ rx'[p].stop = rx[p].stop
                             /\ rx[p].stop => rx'[p].got = rx[p].got
    BY <1>1, <1>3 DEF Leave, Fed, Typed
  <2> QED
    BY <2>1, <2>2, SilentKeeps
<1> QED
  BY <1>2, <1>3

-----------------------------------------------------------------------------
(* The render thread *)

LEMMA LoopTopKeeps ==
  ASSUME LineInv, LoopTop
  PROVE  LineInv'
<1>1. Typed' /\ (Running' => Running) /\ UNCHANGED <<q, stream, tone, asked, heard>>
  BY DEF LineInv, LoopTop, Typed, Running
<1>2. \A p \in Receivers : /\ Fed(p)' = Fed(p) /\ rx'[p].stop = rx[p].stop
                           /\ rx[p].stop => rx'[p].got = rx[p].got
  BY DEF LoopTop, Fed
<1> QED
  BY <1>1, <1>2, SilentKeeps

LEMMA ApplyKeeps ==
  ASSUME MixerAssumption, LineInv, Apply
  PROVE  LineInv'
<1> DEFINE c == q[1]
<1>1. Typed /\ InLine /\ NoneAhead /\ Strays /\ LastAsked
  BY DEF LineInv
<1>2. /\ engine = "drain" /\ q # <<>> /\ q' = Tail(q)
      /\ UNCHANGED <<rx, asked, heard>>
  BY DEF Apply
<1>3. /\ q' \in Seq(Commands) /\ Len(q) \in Nat /\ Len(q') = Len(q) - 1
      /\ 1 \in 1..Len(q) /\ Head(q) = c /\ c \in Commands
      /\ \A k \in 1..Len(q') : k + 1 \in 1..Len(q) /\ q'[k] = q[k + 1]
      /\ \A k \in 2..Len(q) : k - 1 \in 1..Len(q') /\ q'[k - 1] = q[k]
  BY <1>1, <1>2, QueueTaken DEF Typed
<1>4. /\ engine' = IF c.op = "__quit__" THEN "ended" ELSE "drain"
      /\ c.op \in {"add_stream", "remove_stream"} =>
           stream' = [on |-> c.op = "add_stream", buf |-> <<>>]
      /\ c.op = "feed_stream" => stream' = [on |-> TRUE, buf |-> stream.buf \o c.pcm]
      /\ c.op \notin {"add_stream", "remove_stream", "feed_stream"} => stream' = stream
      /\ c.op = "set_tone" =>
           tone' = [id |-> IF c.arg = 0 THEN NoTone ELSE c.arg, pos |-> 0] /\ blocks' = 0
      /\ c.op \in {"clear_tone", "clear_all"} => tone' = [id |-> NoTone, pos |-> 0]
      /\ c.op \notin ToneOps => tone' = tone
      /\ c.op # "set_tone" => blocks' = blocks
  BY <1>3 DEF Apply, FeedStream, ToneAfter, ToneOps
<1>5. c.pcm \in Seq(Sample) /\ stream.buf \in Seq(Sample) /\ stream.on \in BOOLEAN
      /\ heard \in Seq(Sample) /\ (c.op = "set_tone" => c.arg \in Tones)
  BY <1>1, <1>3, InQueue DEF Typed
<1> HIDE DEF c
<1>6. /\ stream'.on \in BOOLEAN
      /\ stream' \in [on : BOOLEAN, buf : Seq(Sample)]
      /\ \/ stream'.buf = <<>>
         \/ stream' = stream
         \/ c.op = "feed_stream" /\ stream'.buf = stream.buf \o c.pcm
      /\ c.op = "remove_stream" => stream'.buf = <<>>
  <2>1. CASE c.op \in {"add_stream", "remove_stream"}
    <3>1. (c.op = "add_stream") \in BOOLEAN /\ <<>> \in Seq(Sample)
      OBVIOUS
    <3> DEFINE b == c.op = "add_stream"
    <3>2. b \in BOOLEAN
      BY <3>1
    <3>3. stream' = [on |-> b, buf |-> <<>>]
      BY <1>4, <2>1
    <3> HIDE DEF b
    <3> QED
      BY <3>1, <3>2, <3>3
  <2>2. CASE c.op = "feed_stream"
    <3>1. stream.buf \o c.pcm \in Seq(Sample)
      BY <1>5, ConcatProperties
    <3>2. stream' = [on |-> TRUE, buf |-> stream.buf \o c.pcm]
      BY <1>4, <2>2
    <3>3. stream' \in [on : BOOLEAN, buf : Seq(Sample)]
      BY <3>1, <3>2
    <3> QED
      BY <2>2, <3>2, <3>3
  <2>3. CASE c.op \notin {"add_stream", "remove_stream", "feed_stream"}
    BY <1>1, <1>4, <1>5, <2>3 DEF Typed
  <2> QED
    BY <2>1, <2>2, <2>3
<1>7. Typed'
  <2>1. tone' \in [id : Audible, pos : Nat] /\ blocks' \in Nat
    <3>1. CASE c.op = "set_tone"
      BY <1>4, <1>5, <3>1 DEF Audible
    <3>2. CASE c.op \in {"clear_tone", "clear_all"}
      BY <1>1, <1>4, <3>2 DEF Audible, Typed
    <3>3. CASE c.op \notin ToneOps
      BY <1>1, <1>4, <3>3 DEF Typed, ToneOps
    <3> QED
      BY <3>1, <3>2, <3>3 DEF ToneOps
  <2>2. \A k \in 1..Len(q') : q'[k].op = "set_tone" => q'[k].arg \in Tones
    BY <1>1, <1>3 DEF Typed
  <2>3. engine' \in {"top", "drain", "ended", "died"}
    BY <1>4
  <2> QED
    BY <1>1, <1>2, <1>3, <1>6, <2>1, <2>2, <2>3 DEF Typed
<1>8. /\ Ordered(stream'.buf) /\ Before(heard, stream'.buf) /\ UpTo(stream'.buf)
      /\ \A k \in 1..Len(q') : Before(stream'.buf, q'[k].pcm)
  <2>1. /\ Ordered(c.pcm) /\ Before(heard, c.pcm) /\ Before(stream.buf, c.pcm) /\ UpTo(c.pcm)
        /\ \A k \in 1..Len(q') : Before(c.pcm, q'[k].pcm) /\ Before(stream.buf, q'[k].pcm)
    <3>1. ASSUME NEW k \in 1..Len(q')
          PROVE  Before(c.pcm, q'[k].pcm) /\ Before(stream.buf, q'[k].pcm)
      <4>1. k + 1 \in 1..Len(q) /\ q'[k] = q[k + 1] /\ 1 < k + 1
        BY <1>3
      <4> QED
        BY <1>1, <1>3, <4>1 DEF InLine, c
    <3> QED
      BY <1>1, <1>3, <3>1 DEF InLine, NoneAhead, c
  <2>2. CASE stream'.buf = <<>>
    BY <2>2, EmptyInLine
  <2>3. CASE stream' = stream
    BY <1>1, <2>1, <2>3 DEF InLine, NoneAhead
  <2>4. CASE stream'.buf = stream.buf \o c.pcm
    BY <1>1, <1>5, <2>1, <2>4, JoinedInLine DEF InLine, NoneAhead
  <2> QED
    BY <1>6, <2>2, <2>3, <2>4
<1>9. InLine'
  <2>1. \A k \in 1..Len(q') : Ordered(q'[k].pcm) /\ Before(heard, q'[k].pcm)
    BY <1>1, <1>3 DEF InLine
  <2>2. ASSUME NEW k \in 1..Len(q'), NEW l \in 1..Len(q'), k < l
        PROVE  Before(q'[k].pcm, q'[l].pcm)
    <3>1. /\ k + 1 \in 1..Len(q) /\ q'[k] = q[k + 1]
          /\ l + 1 \in 1..Len(q) /\ q'[l] = q[l + 1]
          /\ k + 1 < l + 1
      BY <1>3, <2>2
    <3> QED
      BY <1>1, <3>1 DEF InLine
  <2> QED
    BY <1>1, <1>2, <1>8, <2>1, <2>2 DEF InLine
<1>10. NoneAhead'
  <2>1. \A s : UpTo(s)' <=> UpTo(s)
    BY <1>2 DEF UpTo, Fed
  <2>2. \A k \in 1..Len(q') : UpTo(q'[k].pcm)
    BY <1>1, <1>3 DEF NoneAhead
  <2>3. UpTo(heard)
    BY <1>1 DEF NoneAhead
  <2> QED
    BY <1>2, <1>8, <2>1, <2>2, <2>3 DEF NoneAhead, UpTo, Fed
<1>11. Strays'
  <2> SUFFICES ASSUME NEW r \in Receivers, rx[r].stop
               PROVE  \/ \E k \in 1..Len(q') : Removes(q'[k], r) /\ RestOf(r, k + 1)'
                      \/ OfPacket(stream'.buf, r, rx[r].got) /\ RestOf(r, 1)'
    BY <1>2 DEF Strays
  <2>1. ASSUME NEW k \in 2..Len(q) + 1, NEW m \in Nat, m = k - 1, RestOf(r, k)
        PROVE  RestOf(r, m)'
    <3> SUFFICES ASSUME NEW l \in m..Len(q') PROVE OfPacket(q'[l].pcm, r, rx[r].got)
      BY <1>2 DEF RestOf
    <3>1. l \in 1..Len(q') /\ l + 1 \in k..Len(q)
      BY <1>3, <2>1
    <3> QED
      BY <1>3, <2>1, <3>1 DEF RestOf
  <2>2. ASSUME NEW k \in 1..Len(q), Removes(q[k], r), RestOf(r, k + 1), k # 1
        PROVE  \E l \in 1..Len(q') : Removes(q'[l], r) /\ RestOf(r, l + 1)'
    <3>1. PICK l \in Nat : l = k - 1
      BY <1>3
    <3>2. l \in 1..Len(q') /\ q'[l] = q[k] /\ k + 1 \in 2..Len(q) + 1 /\ l + 1 = (k + 1) - 1
      BY <1>3, <2>2, <3>1
    <3>3. RestOf(r, l + 1)'
      BY <2>1, <2>2, <3>2
    <3> QED
      BY <2>2, <3>2, <3>3
  <2>3. CASE Removes(c, r) /\ RestOf(r, 2)
    <3>1. OfPacket(stream'.buf, r, rx[r].got)
      BY <1>6, <2>3, EmptyInLine DEF Removes
    <3>2. RestOf(r, 1)'
      BY <1>3, <2>1, <2>3
    <3> QED
      BY <3>1, <3>2
  <2>4. CASE OfPacket(stream.buf, r, rx[r].got) /\ RestOf(r, 1)
    <3>1. OfPacket(c.pcm, r, rx[r].got)
      BY <1>3, <2>4 DEF RestOf, c
    <3>2. OfPacket(stream'.buf, r, rx[r].got)
      <4>1. OfPacket(<<>>, r, rx[r].got)
        BY EmptyInLine
      <4>2. OfPacket(stream.buf \o c.pcm, r, rx[r].got)
        BY <1>5, <2>4, <3>1, JoinedInLine
      <4> QED
        BY <1>6, <2>4, <4>1, <4>2
    <3>3. RestOf(r, 2)
      BY <1>3, <2>4 DEF RestOf
    <3>4. RestOf(r, 1)'
      BY <1>3, <2>1, <3>3
    <3> QED
      BY <3>2, <3>4
  <2>5. \/ \E k \in 1..Len(q) : Removes(q[k], r) /\ RestOf(r, k + 1)
        \/ OfPacket(stream.buf, r, rx[r].got) /\ RestOf(r, 1)
    BY <1>1 DEF Strays
  <2>6. (\E k \in 1..Len(q) : Removes(q[k], r) /\ RestOf(r, k + 1) /\ k = 1)
          => Removes(c, r) /\ RestOf(r, 2)
    BY DEF c
  <2> QED
    BY <2>2, <2>3, <2>4, <2>5, <2>6
<1>12. LastAsked'
  <2> SUFFICES ASSUME c.op # "__quit__"
               PROVE  \/ tone'.id = asked /\ NoToneFrom(1)'
                      \/ \E k \in 1..Len(q') :
                           /\ q'[k].op \in ToneOps /\ Asks(q'[k]) = asked
                           /\ NoToneFrom(k + 1)'
    BY <1>2, <1>4 DEF LastAsked, Running
  <2>1. ASSUME NEW k \in 2..Len(q) + 1, NEW m \in Nat, m = k - 1, NoToneFrom(k)
        PROVE  NoToneFrom(m)'
    <3> SUFFICES ASSUME NEW l \in m..Len(q') PROVE q'[l].op \notin ToneOps
      BY DEF NoToneFrom
    <3>1. l \in 1..Len(q') /\ l + 1 \in k..Len(q)
      BY <1>3, <2>1
    <3> QED
      BY <1>3, <2>1, <3>1 DEF NoToneFrom
  <2>2. ASSUME NEW k \in 1..Len(q), q[k].op \in ToneOps, Asks(q[k]) = asked,
               NoToneFrom(k + 1), k # 1
        PROVE  \E l \in 1..Len(q') : /\ q'[l].op \in ToneOps /\ Asks(q'[l]) = asked
                                      /\ NoToneFrom(l + 1)'
    <3>1. PICK l \in Nat : l = k - 1
      BY <1>3
    <3>2. l \in 1..Len(q') /\ q'[l] = q[k] /\ k + 1 \in 2..Len(q) + 1 /\ l + 1 = (k + 1) - 1
      BY <1>3, <2>2, <3>1
    <3>3. NoToneFrom(l + 1)'
      BY <2>1, <2>2, <3>2
    <3> QED
      BY <2>2, <3>2, <3>3
  <2>3. CASE c.op \in ToneOps /\ Asks(c) = asked /\ NoToneFrom(2)
    <3>1. tone'.id = asked
      BY <1>4, <2>3 DEF Asks, ToneOps
    <3>2. NoToneFrom(1)'
      BY <1>3, <2>1, <2>3
    <3> QED
      BY <3>1, <3>2
  <2>4. CASE tone.id = asked /\ NoToneFrom(1)
    <3>1. c.op \notin ToneOps /\ NoToneFrom(2)
      BY <1>3, <2>4 DEF NoToneFrom, c
    <3>2. tone'.id = asked
      BY <1>4, <2>4, <3>1
    <3>3. NoToneFrom(1)'
      BY <1>3, <2>1, <3>1
    <3> QED
      BY <3>2, <3>3
  <2>5. \/ tone.id = asked /\ NoToneFrom(1)
        \/ \E k \in 1..Len(q) : /\ q[k].op \in ToneOps /\ Asks(q[k]) = asked
                                /\ NoToneFrom(k + 1)
    BY <1>1, <1>2 DEF LastAsked, Running
  <2>6. (\E k \in 1..Len(q) : /\ q[k].op \in ToneOps /\ Asks(q[k]) = asked
                              /\ NoToneFrom(k + 1) /\ k = 1)
          => c.op \in ToneOps /\ Asks(c) = asked /\ NoToneFrom(2)
    BY DEF c
  <2> QED
    BY <2>2, <2>3, <2>4, <2>5, <2>6
<1> QED
  BY <1>7, <1>9, <1>10, <1>11, <1>12 DEF LineInv

LEMMA RenderKeeps ==
  ASSUME MixerAssumption, LineInv, Render
  PROVE  LineInv'
<1> DEFINE take == Take(stream.buf)
           L == IF tone.id = NoTone THEN 0 ELSE tone.id
           a == SubSeq(stream.buf, 1, take)
           b == SubSeq(stream.buf, take + 1, Len(stream.buf))
<1>1. Typed /\ InLine /\ NoneAhead /\ Strays /\ LastAsked
  BY DEF LineInv
<1>2. q = <<>> /\ engine = "drain" /\ UNCHANGED <<q, rx, asked>>
  BY DEF Render
<1>3. \A r \in Receivers : /\ Fed(r)' = Fed(r) /\ rx'[r].stop = rx[r].stop
                           /\ rx[r].stop => rx'[r].got = rx[r].got
  BY <1>2 DEF Fed
<1>4. CASE engine' = "died" /\ UNCHANGED <<tone, blocks, shots, stream, heard>>
  <2>1. Typed'
    BY <1>1, <1>2, <1>4 DEF Typed
  <2> QED
    BY <1>2, <1>3, <1>4, <2>1, SilentKeeps DEF Running
<1>5. CASE /\ engine' = "top"
           /\ tone' = [tone EXCEPT !.pos = IF L = 0 THEN 0 ELSE NextPos(L, @)]
           /\ blocks' = IF L = 0 THEN 0 ELSE (blocks + 1) % L
           /\ stream' = [stream EXCEPT !.buf = SubSeq(@, take + 1, Len(@))]
           /\ heard' = heard \o a
  <2>1. stream.buf \in Seq(Sample) /\ heard \in Seq(Sample) /\ Len(stream.buf) \in Nat
    BY <1>1 DEF Typed
  <2>2. take \in 0..Len(stream.buf)
    BY <2>1, MixerAssumption DEF Take
  <2> HIDE DEF take
  <2>3. /\ a \in Seq(Sample) /\ b \in Seq(Sample)
        /\ Ordered(stream.buf) => Ordered(a) /\ Ordered(b) /\ Before(a, b)
        /\ \A u : Before(u, stream.buf) => Before(u, a) /\ Before(u, b)
        /\ UpTo(stream.buf) => UpTo(a) /\ UpTo(b)
        /\ \A r, k : OfPacket(stream.buf, r, k) => OfPacket(b, r, k)
    BY <2>1, <2>2, CutInLine
  <2>4. stream'.buf = b /\ stream'.on = stream.on /\ stream' \in [on : BOOLEAN, buf : Seq(Sample)]
    BY <1>1, <1>5, <2>3 DEF Typed
  <2> HIDE DEF a, b
  <2>5. /\ Ordered(heard) /\ Ordered(a) /\ Ordered(b) /\ Before(a, b)
        /\ Before(heard, a) /\ Before(heard, b) /\ UpTo(a) /\ UpTo(b) /\ UpTo(heard)
    BY <1>1, <2>3 DEF InLine, NoneAhead
  <2>6. /\ heard' \in Seq(Sample) /\ Ordered(heard') /\ Before(heard', b)
        /\ UpTo(heard \o a)
    BY <1>5, <2>1, <2>3, <2>5, JoinedInLine
  <2>7. Typed'
    <3>1. tone.id \in Audible /\ tone.pos \in Nat /\ blocks \in Nat /\ Block \in Nat
      BY <1>1, MixerAssumption DEF Typed
    <3>2. L \in Nat /\ Audible \subseteq Nat \cup {NoTone}
      BY <3>1, MixerAssumption DEF Audible
    <3> HIDE DEF L
    <3>3. blocks' \in Nat
      BY <1>5, <3>1, <3>2
    <3>4. (IF L = 0 THEN 0 ELSE NextPos(L, tone.pos)) \in Nat
      BY <3>1, <3>2 DEF NextPos
    <3>5. tone' \in [id : Audible, pos : Nat]
      BY <1>1, <1>5, <3>4 DEF Typed
    <3> QED
      BY <1>1, <1>2, <1>5, <2>4, <2>6, <3>3, <3>5 DEF Typed
  <2>8. Len(q') = 0
    BY <1>2
  <2>9. InLine'
    BY <2>4, <2>5, <2>6, <2>8 DEF InLine
  <2>10. NoneAhead'
    <3>1. heard' = heard \o a /\ UpTo(heard \o a)
      BY <1>5, <2>6 DEF a
    <3>2. \A i \in 1..Len(heard') : heard'[i][2] <= Fed(heard'[i][1]) * PacketLen
      BY <3>1 DEF UpTo
    <3>3. \A i \in 1..Len(stream'.buf) :
            stream'.buf[i][2] <= Fed(stream'.buf[i][1]) * PacketLen
      BY <2>4, <2>5 DEF UpTo
    <3> QED
      BY <1>2, <2>8, <3>2, <3>3 DEF NoneAhead, UpTo, Fed
  <2>11. Strays'
    <3> SUFFICES ASSUME NEW r \in Receivers, rx[r].stop
                 PROVE  OfPacket(b, r, rx[r].got) /\ RestOf(r, 1)'
      BY <1>2, <2>4 DEF Strays
    <3>1. OfPacket(stream.buf, r, rx[r].got)
      BY <1>1, <1>2 DEF Strays
    <3> QED
      BY <2>3, <2>8, <3>1 DEF RestOf
  <2>12. LastAsked'
    <3>1. tone.id = asked
      BY <1>1, <1>2 DEF LastAsked, Running
    <3>2. tone'.id = tone.id
      BY <1>1, <1>5 DEF Typed
    <3> QED
      BY <1>2, <2>8, <3>1, <3>2 DEF LastAsked, NoToneFrom
  <2> QED
    BY <2>7, <2>9, <2>10, <2>11, <2>12 DEF LineInv
<1> QED
  BY <1>2, <1>4, <1>5 DEF Render

-----------------------------------------------------------------------------
(* The tone's loop *)

LEMMA LoopKeeps ==
  ASSUME MixerAssumption, LongTones, LineInv, LoopInv, [MixerNext]_mixerVars
  PROVE  LoopInv'
<1>1. Typed
  BY DEF LineInv
<1>2. CASE UNCHANGED <<tone, blocks>> /\ engine' # "died"
  BY <1>2 DEF LoopInv, InPlace, Seamless, EngineAlive
<1>3. CASE Apply
  <2>1. /\ engine' # "died"
        /\ \/ UNCHANGED <<tone, blocks>>
           \/ tone'.id = NoTone
           \/ tone'.pos = 0 /\ blocks' = 0 /\ tone'.id \in Tones \ {0}
    <3>1. q \in Seq(Commands) /\ q # <<>>
      BY <1>1, <1>3 DEF Apply, Typed
    <3>2. PICK c \in Commands : c = Head(q) /\ (c.op = "set_tone" => c.arg \in Tones)
      <4>1. q' = Tail(q)
        BY <1>3 DEF Apply
      <4> QED
        BY <1>1, <3>1, <4>1, QueueTaken DEF Typed
    <3>3. /\ engine' = IF c.op = "__quit__" THEN "ended" ELSE "drain"
          /\ tone' = ToneAfter(c)
          /\ blocks' = IF c.op = "set_tone" THEN 0 ELSE blocks
      BY <1>3, <3>2 DEF Apply
    <3> QED
      BY <3>2, <3>3 DEF ToneAfter
  <2>2. 0 * Block = 0
    <3>1. Block \in Nat
      BY MixerAssumption
    <3> QED
      BY <3>1
  <2>3. \A t \in Tones : 0 <= t
    BY MixerAssumption
  <2> QED
    BY <2>1, <2>2, <2>3 DEF LoopInv, InPlace, Seamless, EngineAlive
<1>4. CASE Render
  <2> DEFINE L == IF tone.id = NoTone THEN 0 ELSE tone.id
             p == tone.pos
  <2>1. /\ Block \in Nat \ {0} /\ blocks \in Nat /\ p \in Nat
        /\ tone.id # NoTone => tone.id \in Tones \ {0} /\ tone.id \in Nat \ {0}
    BY <1>1, MixerAssumption DEF Typed, Audible
  <2>2. CASE tone.id = NoTone
    <3>1. engine' # "died" /\ tone'.id = NoTone
      BY <1>1, <1>4, <2>2 DEF Render, Typed
    <3> QED
      BY <3>1 DEF LoopInv, InPlace, Seamless, EngineAlive
  <2>3. CASE tone.id # NoTone
    <3>1. L = tone.id /\ L \in Nat \ {0} /\ L >= Block /\ p <= L
      BY <2>1, <2>3 DEF LongTones, LoopInv, InPlace
    <3>2. p % L = (blocks * Block) % L
      BY <2>3, <3>1 DEF LoopInv, Seamless
    <3> HIDE DEF p
    <3>3. ToneFits(L, p)
      BY <2>1, <3>1 DEF ToneFits
    <3>4. /\ engine' = "top" /\ tone'.id = L /\ tone'.pos = NextPos(L, p)
          /\ blocks' = (blocks + 1) % L
      BY <1>1, <1>4, <3>1, <3>3 DEF Render, Typed, p
    <3> HIDE DEF L
    <3>5. (p + Block) % L = (((blocks + 1) % L) * Block) % L
      <4>1. L \in Nat \ {0} /\ p \in Nat /\ blocks \in Nat /\ Block \in Nat
        BY <2>1, <3>1
      <4> QED
        BY ONLY <4>1, <3>2, BlockOn
    <3>6. NextPos(L, p) \in Nat /\ NextPos(L, p) <= L
      BY <2>1, <3>1 DEF NextPos
    <3>7. (p + Block) % L = NextPos(L, p) % L
      <4>1. CASE p + Block <= L
        BY <4>1 DEF NextPos
      <4>2. CASE ~(p + Block <= L)
        <5>1. /\ NextPos(L, p) = p + Block - L /\ p + Block \in Nat
              /\ p + Block = NextPos(L, p) + L * 1
          BY <2>1, <3>1, <4>2 DEF NextPos
        <5> QED
          BY <3>1, <3>6, <5>1, SameRemainder
      <4> QED
        BY <4>1, <4>2
    <3> QED
      BY <3>4, <3>5, <3>6, <3>7 DEF LoopInv, InPlace, Seamless, EngineAlive
  <2> QED
    BY <2>2, <2>3
<1>5. CASE LoopTop
  BY <1>2, <1>5 DEF LoopTop
<1>6. CASE ~(Engine)
  BY <1>2, <1>6 DEF LoopInv, EngineAlive, MixerNext, mixerVars, Command, SetTone, ClearTone,
     Beep, ClearAll, Close, Open, Stop, Receive, Feed, Leave
<1> QED
  BY <1>3, <1>4, <1>5, <1>6 DEF Engine

-----------------------------------------------------------------------------
(* The invariants of the specification *)

LEMMA LineStarts ==
  ASSUME MixerAssumption, MixerInit
  PROVE  LineInv /\ LoopInv
<1>1. q = <<>> /\ stream.buf = <<>> /\ heard = <<>> /\ Len(q) = 0
  BY DEF MixerInit
<1>2. Typed
  BY <1>1 DEF MixerInit, Typed, Audible
<1>3. InLine /\ NoneAhead
  BY <1>1, EmptyInLine DEF InLine, NoneAhead
<1>4. Strays
  BY DEF MixerInit, Strays
<1>5. LastAsked
  BY <1>1 DEF MixerInit, LastAsked, NoToneFrom
<1>6. LoopInv
  BY DEF MixerInit, LoopInv, InPlace, Seamless, EngineAlive
<1> QED
  BY <1>2, <1>3, <1>4, <1>5, <1>6 DEF LineInv

LEMMA LineKeeps ==
  ASSUME MixerAssumption, LineInv, [MixerNext]_mixerVars
  PROVE  LineInv'
<1>1. CASE UNCHANGED mixerVars
  <2>1. Typed' /\ UNCHANGED <<q, stream, tone, asked, heard, rx, engine>>
    BY <1>1 DEF LineInv, Typed, mixerVars
  <2> QED
    BY <2>1, SilentKeeps DEF Running, Fed
<1>2. CASE MixerNext
  BY <1>2, CommandKeeps, ReceiverKeeps, FeedKeeps, ListenerKeeps, LoopTopKeeps,
     ApplyKeeps, RenderKeeps DEF MixerNext, Engine
<1> QED
  BY <1>1, <1>2

LEMMA LinePlaysRight ==
  ASSUME LineInv
  PROVE  HeardInOrder /\ OneStrayPacket /\ ToneAsAsked
<1>1. HeardInOrder
  BY DEF LineInv, InLine, Ordered, HeardInOrder
<1>2. OneStrayPacket
  BY DEF LineInv, Strays, Removes, OneStrayPacket
<1>3. ToneAsAsked
  <2> SUFFICES ASSUME Running, q = <<>> PROVE tone.id = asked
    BY DEF ToneAsAsked
  <2>1. Len(q) = 0
    OBVIOUS
  <2> QED
    BY <2>1 DEF LineInv, LastAsked
<1> QED
  BY <1>1, <1>2, <1>3

(* Whatever the tones: no caller is heard out of order or twice, none is    *)
(* heard after he has gone but for the packet his thread held, and the tone *)
(* that loops is the one last asked for (_apply_cmd, _render_block and the  *)
(* rx_worker of the client).                                                *)
THEOREM CallersHeardRight == MixerSpec => [](HeardInOrder /\ OneStrayPacket /\ ToneAsAsked)
<1>1. MixerInit => LineInv
  BY LineStarts, MixerAssumption
<1>2. LineInv /\ [MixerNext]_mixerVars => LineInv'
  BY LineKeeps, MixerAssumption
<1>3. LineInv => HeardInOrder /\ OneStrayPacket /\ ToneAsAsked
  BY LinePlaysRight
<1> QED
  BY <1>1, <1>2, <1>3, PTL DEF MixerSpec

(* With tones that last a block or more the phone plays what it should, and *)
(* nothing it is given ends its render thread.                              *)
THEOREM PhonePlaysRight ==
  ASSUME LongTones
  PROVE  MixerSpec => []PlaysRight
<1>1. MixerInit => LineInv /\ LoopInv
  BY LineStarts, MixerAssumption
<1>2. LineInv /\ LoopInv /\ [MixerNext]_mixerVars => (LineInv /\ LoopInv)'
  BY LineKeeps, LoopKeeps, MixerAssumption, LongTones
<1>3. LineInv /\ LoopInv => PlaysRight
  BY LinePlaysRight DEF LoopInv, PlaysRight
<1> QED
  BY <1>1, <1>2, <1>3, PTL DEF MixerSpec

-----------------------------------------------------------------------------
(* The screen: what a packet does to a phone with one call                  *)

(* What the hub has on one phone at a time. *)
Modes == {a \in [ref : Refs \cup {NoCall}, on : BOOLEAN] : a.on => a.ref # NoCall}

Listing == {"ringin", "ringout", "connected", "hold"}

In(ph, a) ==
  /\ ph \in Client!Phone
  /\ ph.act = <<>> \/ (a.on /\ ph.act = <<a.ref>>)
  /\ ph.sel \in {NoCall, a.ref}
  /\ ~a.on /\ a.ref # NoCall => ph.st[a.ref] \notin Listing

(* A set of naturals has a least one, and CHOOSE finds it.                  *)
LEMMA LeastNatural ==
  ASSUME NEW S \in SUBSET Nat, S # {}
  PROVE  /\ \E i \in S : \A j \in S : i <= j
         /\ (CHOOSE i \in S : \A j \in S : i <= j) \in S
<1> DEFINE Less == {ss \in Nat \X Nat : ss[1] < ss[2]}
<1>1. IsWellFoundedOn(Less, Nat)
  BY NatLessThanWellFounded DEF OpToRel
<1>2. PICK i \in S : \A j \in S : ~ (<<j, i>> \in Less)
  <2> HIDE DEF Less
  <2> QED BY <1>1, WFMin
<1>3. \A j \in S : ~ (j < i)
  BY <1>2
<1>4. \A j \in S : i <= j
  BY <1>3
<1> QED
  BY <1>4

LEMMA OneElement ==
  ASSUME NEW r
  PROVE  /\ Len(<<r>>) = 1 /\ <<r>>[1] = r /\ Client!Elements(<<r>>) = {r}
         /\ Client!Elements(<<>>) = {} /\ <<r>> # <<>> /\ Append(<<>>, r) = <<r>>
<1>1. Len(<<r>>) = 1 /\ <<r>>[1] = r /\ <<r>> # <<>> /\ Append(<<>>, r) = <<r>>
  OBVIOUS
<1>2. Client!Elements(<<r>>) = {r}
  BY <1>1 DEF Client!Elements
<1>3. Client!Elements(<<>>) = {}
  BY EmptySeq DEF Client!Elements
<1> QED
  BY <1>1, <1>2, <1>3

(* What a phone with one call prefers is that call. *)
LEMMA PreferredOne ==
  ASSUME NEW a \in Modes, NEW ph, In(ph, a)
  PROVE  /\ Len(Client!Preferred(ph)) \in Nat
         /\ \A i \in 1..Len(Client!Preferred(ph)) : Client!Preferred(ph)[i] = a.ref
         /\ Client!Preferred(ph) = <<>> <=> ph.sel = NoCall /\ ph.act = <<>>
         /\ Len(Client!Preferred(ph)) > 0 <=> ~(ph.sel = NoCall /\ ph.act = <<>>)
<1> DEFINE sel == IF ph.sel = NoCall THEN <<>> ELSE <<ph.sel>>
           rev == [i \in 1..Len(ph.act) |-> ph.act[Len(ph.act) + 1 - i]]
<1>1. sel = <<>> \/ (ph.sel = a.ref /\ sel = <<a.ref>>)
  BY DEF In
<1>2. rev = <<>> \/ (ph.act = <<a.ref>> /\ rev = <<a.ref>>)
  <2>1. CASE ph.act = <<>>
    <3>1. rev \in Seq(Refs) /\ Len(rev) = 0
      BY <2>1, EmptySeq
    <3> QED
      BY <3>1, EmptySeq
  <2>2. CASE ph.act = <<a.ref>>
    <3>1. Len(ph.act) = 1 /\ ph.act[1] = a.ref
      BY <2>2
    <3>2. rev = [i \in 1..1 |-> a.ref]
      BY <3>1
    <3> QED
      BY <2>2, <3>2
  <2> QED
    BY <2>1, <2>2 DEF In
<1>3. ph.act = <<>> => rev = <<>>
  BY <1>2
<1>4. Client!Preferred(ph) = sel \o rev
  BY DEF Client!Preferred
<1>5. sel \in Seq({a.ref}) /\ rev \in Seq({a.ref})
  BY <1>1, <1>2
<1>6. /\ sel = <<>> <=> ph.sel = NoCall
      /\ rev = <<>> <=> ph.act = <<>>
  BY <1>1, <1>2, OneElement
<1> HIDE DEF sel, rev
<1>7. sel \o rev \in Seq({a.ref}) /\ Len(sel \o rev) = Len(sel) + Len(rev)
  BY <1>5, ConcatProperties
<1>8. /\ Len(sel) \in Nat /\ Len(rev) \in Nat /\ Len(sel \o rev) \in Nat
      /\ Len(sel) = 0 <=> sel = <<>>
      /\ Len(rev) = 0 <=> rev = <<>>
      /\ Len(sel \o rev) = 0 <=> sel \o rev = <<>>
  BY <1>5, <1>7, EmptySeq, LenProperties
<1>9. \A i \in 1..Len(sel \o rev) : (sel \o rev)[i] = a.ref
  BY <1>7, ElementOfSeq
<1> QED
  BY <1>4, <1>6, <1>7, <1>8, <1>9

(* The phone lists call r alone, in state s. *)
Shows(ph, r, s) ==
  ph \in Client!Phone /\ ph.act = <<r>> /\ ph.sel = r /\ ph.st[r] = s

LEMMA ListedOne ==
  ASSUME NEW a \in Modes, NEW ph, In(ph, a), NEW r \in Refs, a.ref \in {NoCall, r}
  PROVE  /\ Client!Listed(ph, r) = <<r>>
         /\ Client!Listed(ph, r) \in Seq(Refs)
<1>1. ph.act = <<>> \/ ph.act = <<r>>
  BY ScreenAssumption DEF In, Modes
<1>2. Client!Listed(ph, r) = <<r>>
  BY <1>1, OneElement DEF Client!Listed
<1> QED
  BY <1>2

LEMMA Rings ==
  ASSUME NEW a \in Modes, NEW ph, In(ph, a), NEW r \in Refs, a.ref \in {NoCall, r},
         NEW s \in {"ringin", "ringout"}
  PROVE  Shows(Client!MarkRinging(ph, r, s), r, s)
<1>1. Client!Listed(ph, r) = <<r>> /\ Client!Listed(ph, r) \in Seq(Refs)
  BY ListedOne
<1>2. s \in Client!CallStates
  BY DEF Client!CallStates
<1> QED
  BY <1>1, <1>2 DEF In, Shows, Client!MarkRinging, Client!Phone, Client!Events

LEMMA Connects ==
  ASSUME NEW a \in Modes, NEW ph, In(ph, a), NEW r \in Refs, a.ref \in {NoCall, r}
  PROVE  Shows(Client!MarkConnected(ph, r), r, "connected")
<1>1. Client!Listed(ph, r) = <<r>> /\ Client!Listed(ph, r) \in Seq(Refs)
  BY ListedOne
<1> QED
  BY <1>1 DEF In, Shows, Client!MarkConnected, Client!Phone, Client!Events, Client!CallStates

LEMMA Holds ==
  ASSUME NEW a \in Modes, NEW ph, In(ph, a), NEW r \in Refs, a.ref \in {NoCall, r}
  PROVE  Shows(Client!MarkHeld(ph, r), r, "hold")
<1> DEFINE held == [ph EXCEPT !.st[r] = "hold", !.act = Client!Listed(ph, r)]
<1>1. Client!Listed(ph, r) = <<r>> /\ Client!Listed(ph, r) \in Seq(Refs)
  BY ListedOne
<1>2. held \in Client!Phone /\ held.act = <<r>> /\ held.st[r] = "hold"
  BY <1>1 DEF In, Client!Phone, Client!CallStates
<1>3. Client!AnyConnected(held) \in BOOLEAN
  BY DEF Client!AnyConnected
<1>4. Client!MarkHeld(ph, r)
        = [held EXCEPT !.sel = r, !.active = TRUE, !.media = FALSE,
                  !.connected = Client!AnyConnected(held),
                  !.ev = @ \ {"connected", "media"}]
  BY DEF Client!MarkHeld
<1>5. Client!MarkHeld(ph, r) \in Client!Phone
  BY <1>1, <1>3 DEF In, Client!MarkHeld, Client!Phone, Client!CallStates, Client!Events
<1>6. /\ Client!MarkHeld(ph, r).act = held.act /\ Client!MarkHeld(ph, r).sel = r
      /\ Client!MarkHeld(ph, r).st = held.st
  BY DEF In, Client!MarkHeld, Client!Phone
<1> QED
  BY <1>2, <1>5, <1>6 DEF Shows

(* A call that is listed is the one on. *)
LEMMA ShowsIn ==
  ASSUME NEW ph, NEW r \in Refs, NEW s, Shows(ph, r, s)
  PROVE  In(ph, [ref |-> r, on |-> TRUE])
BY DEF Shows, In

(* The call a phone of one call takes a message to mean, if any *)
LEMMA KeyedOne ==
  ASSUME NEW a \in Modes, NEW ph, In(ph, a)
  PROVE  /\ Client!ActiveKey(ph, NoCall) \in {NoCall, a.ref}
         /\ \A r \in Refs : a.ref \in {NoCall, r} => Client!Keyed(ph, r) = r
<1> DEFINE s == Client!Preferred(ph)
           at == {i \in 1..Len(s) : Client!Known(ph, s[i])}
           first == Client!FirstOf(s, LAMBDA z : Client!Known(ph, z))
<1>1. first = IF at = {} THEN NoCall ELSE s[CHOOSE i \in at : \A j \in at : i <= j]
  BY DEF Client!FirstOf
<1>2. Len(s) \in Nat /\ \A i \in 1..Len(s) : s[i] = a.ref
  BY PreferredOne
<1>3. first \in {NoCall, a.ref}
  <2>1. at \in SUBSET (1..Len(s)) /\ at \in SUBSET Nat
    BY <1>2
  <2> HIDE DEF at, first
  <2>2. at # {} => (CHOOSE i \in at : \A j \in at : i <= j) \in at
    BY <2>1, LeastNatural
  <2> QED
    BY <1>1, <1>2, <2>1, <2>2
<1>4. \A r : Client!ActiveKey(ph, r) = IF Client!Known(ph, r) THEN r ELSE first
  BY DEF Client!ActiveKey
<1> HIDE DEF first
<1>5. Client!ActiveKey(ph, NoCall) \in {NoCall, a.ref}
  BY <1>3, <1>4
<1>6. ASSUME NEW r \in Refs, a.ref \in {NoCall, r} PROVE Client!Keyed(ph, r) = r
  BY <1>3, <1>4, <1>6 DEF Client!Keyed
<1> QED
  BY <1>5, <1>6

LEMMA WithoutOne ==
  ASSUME NEW r \in Refs
  PROVE  Client!Without(<<r>>, r) = <<>> /\ Client!Without(<<>>, r) = <<>>
<1> DEFINE n == CHOOSE i \in 1..Len(<<r>>) : <<r>>[i] = r
<1>1. n = 1
  <2>1. 1..Len(<<r>>) = {1} /\ <<r>>[1] = r
    BY OneElement
  <2> QED
    BY <2>1
<1>2. Client!Without(<<r>>, r) = SubSeq(<<r>>, 1, n - 1) \o SubSeq(<<r>>, n + 1, Len(<<r>>))
  BY OneElement DEF Client!Without
<1> HIDE DEF n
<1> DEFINE b == SubSeq(<<r>>, 1, n - 1)
           e == SubSeq(<<r>>, n + 1, Len(<<r>>))
<1>3. b = <<>> /\ e = <<>>
  <2>1. <<r>> \in Seq(Refs) /\ Len(<<r>>) = 1
    BY OneElement
  <2>2. b \in Seq(Refs) /\ Len(b) = 0
    BY <1>1, <2>1, SubSeqProperties
  <2>3. e \in Seq(Refs) /\ Len(e) = 0
    BY <1>1, <2>1, SubSeqProperties
  <2> HIDE DEF b, e
  <2> QED
    BY <2>2, <2>3, EmptySeq
<1>4. b \o e = <<>>
  <2> HIDE DEF b, e
  <2>1. b \in Seq(Refs) /\ e \in Seq(Refs) /\ Len(b) = 0 /\ Len(e) = 0
    BY <1>3, EmptySeq
  <2>2. b \o e \in Seq(Refs) /\ Len(b \o e) = 0
    BY <2>1, ConcatProperties
  <2> QED
    BY <2>2, EmptySeq
<1> HIDE DEF b, e
<1>5. Client!Without(<<>>, r) = <<>>
  BY OneElement DEF Client!Without
<1> QED
  BY <1>2, <1>4, <1>5 DEF b, e

(* Ending its call, or every call, leaves the phone without any.            *)
LEMMA EndsOne ==
  ASSUME NEW a \in Modes, NEW ph, In(ph, a), NEW r \in {NoCall, a.ref},
         NEW x, x = Client!MarkEnded(ph, r)
  PROVE  /\ x \in Client!Phone /\ x.act = <<>> /\ x.sel = NoCall
         /\ \A z \in Refs : x.st[z] \in {ph.st[z], "onhook"}
<1> DEFINE keys == Client!EndedKeys(ph, r)
           st == [z \in Refs |-> IF z \in keys /\ ph.st[z] # "none" THEN "onhook" ELSE ph.st[z]]
           act == IF r = NoCall THEN <<>> ELSE Client!Without(ph.act, Client!Keyed(ph, r))
           cut == [ph EXCEPT !.st = st, !.act = act]
           gone == Client!SyncFlags(cut)
<1>1. act = <<>>
  <2>1. CASE r # NoCall
    <3>1. r \in Refs /\ a.ref = r /\ Client!Keyed(ph, r) = r
      BY <2>1, KeyedOne DEF Modes
    <3>2. ph.act \in {<<>>, <<r>>}
      BY <3>1 DEF In
    <3> QED
      BY <2>1, <3>1, <3>2, WithoutOne
  <2> QED
    BY <2>1
<1>2. st \in [Refs -> Client!CallStates]
  BY DEF In, Client!Phone, Client!CallStates
<1>3. cut \in Client!Phone /\ cut.st = st /\ cut.act = <<>> /\ cut.ev = ph.ev
  <2> HIDE DEF st
  <2>0. <<>> \in Seq(Refs)
    OBVIOUS
  <2> HIDE DEF act
  <2>1. cut = [ph EXCEPT !.st = st, !.act = <<>>]
    BY <1>1
  <2> HIDE DEF cut
  <2> QED
    BY <1>2, <2>0, <2>1 DEF In, Client!Phone
<1> HIDE DEF cut
<1> DEFINE any == Client!AnyConnected(cut)
           m == cut.media /\ any
<1>4. gone = [cut EXCEPT !.active = FALSE, !.connected = any, !.media = m, !.sel = NoCall]
  BY <1>3 DEF Client!SyncFlags, Client!Phone
<1>5. any \in BOOLEAN /\ m \in BOOLEAN
  BY <1>3 DEF Client!AnyConnected, Client!Phone
<1> HIDE DEF any, m
<1>6. gone \in Client!Phone /\ gone.act = <<>> /\ gone.sel = NoCall /\ gone.st = st
  <2> HIDE DEF gone, st
  <2> QED
    BY <1>3, <1>4, <1>5 DEF Client!Phone
<1>7. x = [gone EXCEPT !.ev = {"ended"}]
  <2>1. x = [gone EXCEPT !.ev = IF gone.act = <<>> THEN {"ended"}
                              ELSE (@ \ {"ended"}) \cup (IF gone.connected THEN {"connected"} ELSE {})]
    BY DEF Client!MarkEnded, cut
  <2> HIDE DEF gone
  <2> QED
    BY <1>6, <2>1
<1> HIDE DEF gone
<1>8. x \in Client!Phone /\ x.act = <<>> /\ x.sel = NoCall /\ x.st = st
  <2> HIDE DEF st
  <2> QED
    BY <1>6, <1>7 DEF Client!Phone, Client!Events
<1> QED
  BY <1>8

(* The media of a phone do not touch its calls.                             *)
LEMMA Tears ==
  ASSUME NEW ph \in Client!Phone, NEW x, x = Client!Teardown(ph)
  PROVE  x \in Client!Phone /\ x.act = ph.act /\ x.sel = ph.sel /\ x.st = ph.st
<1>1. x \in Client!Phone
  BY DEF Client!Teardown, Client!Phone, Client!Events
<1> QED
  BY <1>1 DEF Client!Teardown, Client!Phone

(* What On-hook does to the one call, *)
LEMMA HangsUp ==
  ASSUME NEW a \in Modes, NEW ph, In(ph, a), NEW r \in Refs, r = a.ref
  PROVE  In(Client!OnHook(ph, r), [ref |-> NoCall, on |-> FALSE])
<1> DEFINE x == Client!MarkEnded(ph, r)
           y == Client!Teardown(x)
<1>1. x \in Client!Phone /\ x.act = <<>> /\ x.sel = NoCall
  BY EndsOne
<1>2. Client!OnHook(ph, r) = y
  BY <1>1 DEF Client!OnHook
<1> HIDE DEF x
<1>3. y \in Client!Phone /\ y.act = <<>> /\ y.sel = NoCall
  BY <1>1, Tears
<1> QED
  BY <1>2, <1>3 DEF In

(* ... and the user's EndCall.                                              *)
LEMMA TargetOne ==
  ASSUME NEW a \in Modes, NEW ph, In(ph, a)
  PROVE  Client!Target(ph, "EndCall") \in {NoCall, a.ref}
<1> DEFINE s == Client!Preferred(ph)
           at == {i \in 1..Len(s) : ph.st[s[i]] = "connected"}
           found == Client!RefInState(ph, "connected")
           t == (IF ph.sel = NoCall THEN <<>> ELSE <<ph.sel>>) \o ph.act
           all == {i \in 1..Len(t) : TRUE}
           first == Client!FirstOf(t, LAMBDA z : TRUE)
<1>1. found = IF at = {} THEN NoCall ELSE s[CHOOSE i \in at : \A j \in at : i <= j]
  BY DEF Client!RefInState, Client!FirstOf
<1>2. first = IF all = {} THEN NoCall ELSE t[CHOOSE i \in all : \A j \in all : i <= j]
  BY DEF Client!FirstOf
<1>3. Client!Target(ph, "EndCall") \in {found, first, NoCall}
  BY DEF Client!Target
<1>4. Len(s) \in Nat /\ \A i \in 1..Len(s) : s[i] = a.ref
  BY PreferredOne
<1>5. Len(t) \in Nat /\ \A i \in 1..Len(t) : t[i] = a.ref
  <2> DEFINE only == {a.ref}
  <2>0. /\ ph.act = <<>> \/ ph.act = <<a.ref>>
        /\ ph.sel = NoCall \/ ph.sel = a.ref
        /\ <<>> \in Seq(only) /\ a.ref \in only
    BY DEF In
  <2>4. <<a.ref>> \in Seq(only)
    BY <2>0
  <2> HIDE DEF only
  <2>1. ph.act \in Seq(only)
    BY <2>0, <2>4
  <2>2. (IF ph.sel = NoCall THEN <<>> ELSE <<ph.sel>>) \in Seq(only)
    BY <2>0, <2>4
  <2>3. t \in Seq({a.ref})
    BY <2>1, <2>2, ConcatProperties DEF only
  <2> HIDE DEF t
  <2> QED
    BY <2>3, ElementOfSeq, LenProperties
<1> HIDE DEF s, t, found, first
<1>6. found \in {NoCall, a.ref}
  <2>1. at \in SUBSET (1..Len(s)) /\ at \in SUBSET Nat
    BY <1>4
  <2> HIDE DEF at
  <2>2. at # {} => (CHOOSE i \in at : \A j \in at : i <= j) \in at
    BY <2>1, LeastNatural
  <2> QED
    BY <1>1, <1>4, <2>1, <2>2
<1>7. first \in {NoCall, a.ref}
  <2>1. all \in SUBSET (1..Len(t)) /\ all \in SUBSET Nat
    BY <1>5
  <2> HIDE DEF all
  <2>2. all # {} => (CHOOSE i \in all : \A j \in all : i <= j) \in all
    BY <2>1, LeastNatural
  <2> QED
    BY <1>2, <1>5, <2>1, <2>2
<1> QED
  BY <1>3, <1>6, <1>7

LEMMA EndsByHand ==
  ASSUME NEW a \in Modes, NEW ph, In(ph, a)
  PROVE  In(Client!EndLocally(ph, Client!Target(ph, "EndCall")), a)
<1> DEFINE t == Client!Target(ph, "EndCall")
           x == Client!Teardown(ph)
           y == Client!MarkEnded(x, t)
<1>1. t \in {NoCall, a.ref}
  BY TargetOne
<1>2. x \in Client!Phone /\ x.act = ph.act /\ x.sel = ph.sel /\ x.st = ph.st
  BY Tears DEF In
<1>3. Client!EndLocally(ph, t) = y
  BY DEF Client!EndLocally
<1> HIDE DEF t, x
<1>4. In(x, a)
  BY <1>2 DEF In
<1>5. /\ y \in Client!Phone /\ y.act = <<>> /\ y.sel = NoCall
      /\ \A z \in Refs : y.st[z] \in {x.st[z], "onhook"}
  BY <1>1, <1>4, EndsOne
<1> HIDE DEF y
<1>6. a.ref # NoCall => a.ref \in Refs
  BY DEF Modes
<1>7. ~a.on /\ a.ref # NoCall => y.st[a.ref] \notin Listing
  BY <1>4, <1>5, <1>6 DEF In, Listing
<1> QED
  BY <1>3, <1>5, <1>7 DEF In, t

-----------------------------------------------------------------------------
(* The packets in order *)

SetNames == {"idle", "connected", "held", "ringin", "dialing", "ringout"}
ToneNames == {"none", "dial", "ring", "hold", "remote_hold"}
PromptNames == {"blank", "number", "Ready", "RingIn", "RingOut", "Connected",
                "OnHold", "RemoteHold"}
Packets ==
  [do : {"State", "Info", "Keys", "Tone", "Prompt", "Lamp", "Ringer", "Plane"},
   ref : Refs \cup {NoCall},
   arg : SetNames \cup ToneNames \cup PromptNames \cup Listing
           \cup {"offhook", "proceed", "onhook", "in", "out", "on", "off", "flash"}]

Face == [keys : [Refs -> SetNames \cup {"none"}], set : SetNames,
         tone : ToneNames, prompt : PromptNames]

(* Packet m may come to a phone in mode a, and leaves it in mode b.         *)
Fits(m, a, b) ==
  \/ m.do = "Tone" /\ m.arg \in ToneNames /\ b = a
  \/ m.do = "Prompt" /\ m.arg \in PromptNames /\ b = a
  \/ m.do \in {"Plane", "Lamp"} /\ b = a
  \/ m.do = "Keys" /\ m.ref \in {NoCall, a.ref} /\ m.arg \in SetNames /\ b = a
  \/ m.do = "Ringer" /\ m.ref \in {NoCall, a.ref} /\ (a.on \/ a.ref = NoCall) /\ b = a
  \/ m.do = "Info" /\ m.ref = a.ref /\ a.on /\ m.arg \in {"in", "out"} /\ b = a
  \/ m.do = "State" /\ m.ref \in Refs /\ a.ref \in {NoCall, m.ref} /\
       \/ m.arg \in Listing /\ b = [ref |-> m.ref, on |-> TRUE]
       \/ m.arg \in {"offhook", "proceed"} /\ b = [ref |-> m.ref, on |-> a.on]
       \/ m.arg = "onhook" /\ a.ref = m.ref /\ b = [ref |-> NoCall, on |-> FALSE]

LEMMA StateStep ==
  ASSUME NEW a \in Modes, NEW b, NEW ph, In(ph, a), NEW m, m.do = "State", Fits(m, a, b)
  PROVE  In(PhoneAfter(ph, m), b) /\ b \in Modes
<1>1. m.ref \in Refs /\ a.ref \in {NoCall, m.ref}
  BY DEF Fits
<1>2. PhoneAfter(ph, m) = Client!ApplyCallState(ph, m.arg, m.ref)
  BY DEF PhoneAfter
<1>3. CASE m.arg \in {"ringin", "ringout"}
  <2>1. Client!ApplyCallState(ph, m.arg, m.ref) = Client!MarkRinging(ph, m.ref, m.arg)
    BY <1>3 DEF Client!ApplyCallState
  <2>2. b = [ref |-> m.ref, on |-> TRUE]
    BY <1>3 DEF Fits
  <2> QED
    <3>1. Shows(Client!MarkRinging(ph, m.ref, m.arg), m.ref, m.arg)
      BY <1>1, <1>3, Rings
    <3>2. b \in Modes
      BY <1>1, <2>2, ScreenAssumption DEF Modes
    <3> QED
      BY <1>1, <1>2, <2>1, <2>2, <3>1, <3>2, ShowsIn
<1>4. CASE m.arg = "connected"
  <2>1. Client!ApplyCallState(ph, m.arg, m.ref) = Client!MarkConnected(ph, m.ref)
    BY <1>4 DEF Client!ApplyCallState
  <2>2. b = [ref |-> m.ref, on |-> TRUE]
    BY <1>4 DEF Fits
  <2> QED
    <3>1. Shows(Client!MarkConnected(ph, m.ref), m.ref, "connected")
      BY <1>1, Connects
    <3>2. b \in Modes
      BY <1>1, <2>2, ScreenAssumption DEF Modes
    <3> QED
      BY <1>1, <1>2, <2>1, <2>2, <3>1, <3>2, ShowsIn
<1>5. CASE m.arg = "hold"
  <2>1. Client!ApplyCallState(ph, m.arg, m.ref) = Client!MarkHeld(ph, m.ref)
    BY <1>5 DEF Client!ApplyCallState
  <2>2. b = [ref |-> m.ref, on |-> TRUE]
    BY <1>5 DEF Fits
  <2> QED
    <3>1. Shows(Client!MarkHeld(ph, m.ref), m.ref, "hold")
      BY <1>1, Holds
    <3>2. b \in Modes
      BY <1>1, <2>2, ScreenAssumption DEF Modes
    <3> QED
      BY <1>1, <1>2, <2>1, <2>2, <3>1, <3>2, ShowsIn
<1>6. CASE m.arg \in {"offhook", "proceed"}
  <2>1. Client!ApplyCallState(ph, m.arg, m.ref) = [ph EXCEPT !.st[m.ref] = m.arg]
    BY <1>6 DEF Client!ApplyCallState
  <2>2. b = [ref |-> m.ref, on |-> a.on] /\ m.ref # NoCall
    BY <1>1, <1>6, ScreenAssumption DEF Fits, Listing
  <2> DEFINE x == [ph EXCEPT !.st[m.ref] = m.arg]
  <2>3. /\ x \in Client!Phone /\ x.act = ph.act /\ x.sel = ph.sel
        /\ x.st[m.ref] = m.arg
    BY <1>1, <1>6 DEF In, Client!Phone, Client!CallStates
  <2> HIDE DEF x
  <2>4. b \in Modes
    BY <1>1, <2>2 DEF Modes
  <2>5. b.ref = m.ref /\ b.on = a.on
    BY <2>2
  <2>6. a.on => a.ref = m.ref
    BY <1>1 DEF Modes
  <2>7. In(x, b)
    BY <1>1, <1>6, <2>3, <2>5, <2>6 DEF In, Listing
  <2> QED
    BY <1>2, <2>1, <2>4, <2>7 DEF x
<1>7. CASE m.arg = "onhook"
  <2>1. Client!ApplyCallState(ph, m.arg, m.ref) = Client!OnHook(ph, m.ref)
    BY <1>7 DEF Client!ApplyCallState
  <2>2. b = [ref |-> NoCall, on |-> FALSE] /\ a.ref = m.ref
    BY <1>7 DEF Fits, Listing
  <2> QED
    <3>1. In(Client!OnHook(ph, m.ref), b)
      BY <1>1, <2>2, HangsUp
    <3>2. b \in Modes
      BY <2>2 DEF Modes
    <3> QED
      BY <1>2, <2>1, <3>1, <3>2
<1> QED
  BY <1>3, <1>4, <1>5, <1>6, <1>7 DEF Fits, Listing

LEMMA InfoStep ==
  ASSUME NEW a \in Modes, NEW ph, In(ph, a), NEW r \in Refs, r = a.ref, a.on,
         NEW way \in {"in", "out"}
  PROVE  /\ In(CallInfo(ph, way, r), a)
         /\ Talked(ph, r) => \A s : Shows(ph, r, s) => Shows(CallInfo(ph, way, r), r, s)
         /\ ~Talked(ph, r) => Shows(CallInfo(ph, way, r), r, IF way = "in" THEN "ringin" ELSE "ringout")
<1> DEFINE listed == [ph EXCEPT !.act = Client!Listed(ph, r), !.active = TRUE,
                                !.ev = @ \ {"ended"}]
<1>1. Client!Listed(ph, r) = <<r>> /\ Client!Listed(ph, r) \in Seq(Refs)
  BY ListedOne
<1>2. listed \in Client!Phone /\ listed.act = <<r>> /\ listed.sel = ph.sel /\ listed.st = ph.st
  <2>1. listed \in Client!Phone
    BY <1>1 DEF In, Client!Phone, Client!Events
  <2> QED
    BY <1>1, <2>1 DEF In, Client!Phone
<1>3. CallInfo(ph, way, r) = IF Talked(ph, r) THEN listed
                             ELSE IF way = "in" THEN Client!MarkRinging(ph, r, "ringin")
                             ELSE [listed EXCEPT !.st[r] = "ringout", !.sel = r]
  BY DEF CallInfo
<1> HIDE DEF listed
<1>4. CASE Talked(ph, r)
  <2>1. In(listed, a)
    BY <1>2 DEF In
  <2>2. \A s : Shows(ph, r, s) => Shows(listed, r, s)
    BY <1>2 DEF Shows
  <2> QED
    BY <1>3, <1>4, <2>1, <2>2
<1>5. CASE ~Talked(ph, r) /\ way = "in"
  <2>1. Shows(Client!MarkRinging(ph, r, "ringin"), r, "ringin")
    BY Rings
  <2>2. a = [ref |-> r, on |-> TRUE]
    BY DEF Modes
  <2> QED
    BY <1>3, <1>5, <2>1, <2>2, ShowsIn DEF Shows
<1>6. CASE ~Talked(ph, r) /\ way # "in"
  <2> DEFINE x == [listed EXCEPT !.st[r] = "ringout", !.sel = r]
  <2>1. Shows(x, r, "ringout")
    BY <1>2 DEF Shows, Client!Phone, Client!CallStates
  <2>2. a = [ref |-> r, on |-> TRUE]
    BY DEF Modes
  <2>3. CallInfo(ph, way, r) = x
    BY <1>3, <1>6
  <2> HIDE DEF x
  <2> QED
    BY <1>6, <2>1, <2>2, <2>3, ShowsIn DEF Shows
<1> QED
  BY <1>4, <1>5, <1>6

LEMMA RingerStep ==
  ASSUME NEW a \in Modes, NEW ph, In(ph, a), NEW r \in {NoCall, a.ref}, a.on \/ a.ref = NoCall
  PROVE  /\ In(SetRinger(ph, r), a)
         /\ r # NoCall /\ Shows(ph, r, "ringin") => Shows(SetRinger(ph, r), r, "ringin")
<1> DEFINE ref == IF r # NoCall THEN r
                  ELSE IF ph.sel # NoCall THEN ph.sel
                  ELSE IF ph.act # <<>> THEN ph.act[Len(ph.act)] ELSE NoCall
<1>1. SetRinger(ph, r) = IF ref = NoCall \/ Talked(ph, ref) THEN ph
                         ELSE Client!MarkRinging(ph, ref, "ringin")
  BY DEF SetRinger
<1>2. ref \in {NoCall, a.ref}
  <2>1. ph.act = <<>> \/ ph.act[Len(ph.act)] = a.ref
    BY OneElement DEF In
  <2> QED
    BY <2>1 DEF In
<1>3. r # NoCall => ref = r
  OBVIOUS
<1> HIDE DEF ref
<1>4. ref # NoCall => a = [ref |-> ref, on |-> TRUE] /\ ref \in Refs
  BY <1>2 DEF Modes
<1>5. ref # NoCall => Shows(Client!MarkRinging(ph, ref, "ringin"), ref, "ringin")
  BY <1>2, <1>4, Rings
<1> QED
  BY <1>1, <1>3, <1>4, <1>5, ShowsIn

LEMMA LampStep ==
  ASSUME NEW a \in Modes, NEW ph, In(ph, a), NEW mode
  PROVE  In(SetLamp(ph, mode), a) /\ (mode = "flash" => SetLamp(ph, mode) = ph)
<1> DEFINE r == Client!ActiveKey(ph, NoCall)
<1>1. SetLamp(ph, mode) =
        IF r = NoCall \/ r \notin Client!Elements(ph.act) THEN ph
        ELSE IF mode = "on" /\ ph.st[r] = "hold" THEN Client!MarkConnected(ph, r)
        ELSE IF mode = "off" /\ Talked(ph, r) /\ Len(ph.act) = 1
             THEN Client!MarkEnded(ph, r)
        ELSE ph
  BY DEF SetLamp
<1>2. r \in {NoCall, a.ref}
  BY KeyedOne
<1> HIDE DEF r
<1>3. CASE r # NoCall /\ r \in Client!Elements(ph.act)
  <2>1. ph.act # <<>>
    BY <1>3, OneElement
  <2>2. a.on /\ r = a.ref /\ r \in Refs /\ a = [ref |-> r, on |-> TRUE]
    BY <1>2, <1>3, <2>1 DEF In, Modes
  <2>3. In(Client!MarkConnected(ph, r), a)
    BY <2>2, Connects, ShowsIn
  <2>4. In(Client!MarkEnded(ph, r), a)
    BY <2>2, EndsOne DEF In
  <2> QED
    BY <1>1, <2>3, <2>4
<1>4. CASE ~(r # NoCall /\ r \in Client!Elements(ph.act))
  BY <1>1, <1>4
<1> QED
  BY <1>3, <1>4

(* A phone goes from mode to mode with its packets.                         *)
LEMMA PacketStep ==
  ASSUME NEW a \in Modes, NEW b, NEW ph, In(ph, a), NEW m, Fits(m, a, b)
  PROVE  In(PhoneAfter(ph, m), b) /\ b \in Modes
<1>1. CASE m.do = "State"
  BY <1>1, StateStep
<1>2. CASE m.do = "Info"
  <2>1. PhoneAfter(ph, m) = CallInfo(ph, m.arg, m.ref) /\ b = a
    BY <1>2 DEF PhoneAfter, Fits
  <2>2. m.ref = a.ref /\ a.on /\ m.arg \in {"in", "out"} /\ m.ref \in Refs
    BY <1>2 DEF Fits, Modes
  <2> QED
    BY <2>1, <2>2, InfoStep
<1>3. CASE m.do = "Keys"
  <2>1. PhoneAfter(ph, m) = [ph EXCEPT !.sel = IF m.ref = NoCall THEN @ ELSE m.ref] /\ b = a
    BY <1>3 DEF PhoneAfter, Fits, Client!SelectKeys
  <2>2. m.ref \in {NoCall, a.ref}
    BY <1>3 DEF Fits
  <2> DEFINE s == IF m.ref = NoCall THEN ph.sel ELSE m.ref
             x == [ph EXCEPT !.sel = s]
  <2>3. PhoneAfter(ph, m) = x
    BY <2>1 DEF In, Client!Phone
  <2>4. s \in Refs \cup {NoCall} /\ s \in {NoCall, a.ref}
    BY <2>2 DEF In, Client!Phone, Modes
  <2> HIDE DEF s
  <2>5. x \in Client!Phone /\ x.act = ph.act /\ x.st = ph.st /\ x.sel = s
    BY <2>4 DEF In, Client!Phone
  <2> HIDE DEF x
  <2> QED
    BY <2>1, <2>3, <2>4, <2>5 DEF In
<1>4. CASE m.do = "Ringer"
  <2>1. PhoneAfter(ph, m) = SetRinger(ph, m.ref) /\ b = a
    BY <1>4 DEF PhoneAfter, Fits
  <2>2. m.ref \in {NoCall, a.ref} /\ (a.on \/ a.ref = NoCall)
    BY <1>4 DEF Fits
  <2> QED
    BY <2>1, <2>2, RingerStep
<1>5. CASE m.do = "Lamp"
  <2>1. PhoneAfter(ph, m) = SetLamp(ph, m.arg) /\ b = a
    BY <1>5 DEF PhoneAfter, Fits
  <2> QED
    BY <2>1, LampStep
<1>6. CASE m.do = "Plane"
  <2>1. PhoneAfter(ph, m) = [ph EXCEPT !.active = TRUE] /\ b = a
    BY <1>6 DEF PhoneAfter, Fits, Client!ActivatePlane
  <2> DEFINE x == [ph EXCEPT !.active = TRUE]
  <2>2. x \in Client!Phone /\ x.act = ph.act /\ x.st = ph.st /\ x.sel = ph.sel
    BY DEF In, Client!Phone
  <2> HIDE DEF x
  <2>3. In(x, a)
    BY <2>2 DEF In
  <2> QED
    BY <2>1, <2>3 DEF x
<1>7. CASE m.do = "Tone" \/ m.do = "Prompt"
  <2>1. PhoneAfter(ph, m) = ph /\ b = a
    BY <1>7 DEF PhoneAfter, Fits
  <2> QED
    BY <2>1
<1> QED
  BY <1>1, <1>2, <1>3, <1>4, <1>5, <1>6, <1>7 DEF Fits

LEMMA FaceStep ==
  ASSUME NEW f \in Face, NEW m, NEW a, NEW b, Fits(m, a, b)
  PROVE  FaceAfter(f, m) \in Face
<1>1. CASE m.do = "Keys"
  <2>1. FaceAfter(f, m)
          = [f EXCEPT !.set = m.arg, !.keys = [z \in Refs |-> IF z = m.ref THEN m.arg ELSE f.keys[z]]]
    BY <1>1 DEF FaceAfter, SelectSet, Face
  <2>2. m.arg \in SetNames
    BY <1>1 DEF Fits
  <2> DEFINE ks == [z \in Refs |-> IF z = m.ref THEN m.arg ELSE f.keys[z]]
  <2>3. ks \in [Refs -> SetNames \cup {"none"}]
    BY <2>2 DEF Face
  <2> HIDE DEF ks
  <2>4. [f EXCEPT !.set = m.arg, !.keys = ks] \in Face
    BY <2>2, <2>3 DEF Face
  <2> QED
    BY <2>1, <2>4 DEF ks
<1>2. CASE m.do = "Tone"
  BY <1>2 DEF FaceAfter, PlayTone, Face, Fits
<1>3. CASE m.do = "Prompt"
  BY <1>3 DEF FaceAfter, ShowPrompt, Face, Fits
<1>4. CASE m.do \notin {"Keys", "Tone", "Prompt"}
  BY <1>4 DEF FaceAfter
<1> QED
  BY <1>1, <1>2, <1>3, <1>4

(* Packets ms lead a phone from mode a to mode b.                           *)
Leads(ms, a, b) ==
  /\ ms \in Seq(Packets) /\ a \in Modes /\ b \in Modes
  /\ \E cur \in [0..Len(ms) -> Modes] :
       /\ cur[0] = a /\ cur[Len(ms)] = b
       /\ \A i \in 1..Len(ms) : Fits(ms[i], cur[i - 1], cur[i])

LEMMA LeadsNowhere ==
  ASSUME NEW a \in Modes, NEW b \in Modes
  PROVE  Leads(<<>>, a, b) <=> a = b
<1>1. <<>> \in Seq(Packets) /\ Len(<<>>) = 0
  OBVIOUS
<1>2. ASSUME a = b PROVE Leads(<<>>, a, b)
  <2> DEFINE cur == [i \in 0..0 |-> a]
  <2>1. cur \in [0..Len(<<>>) -> Modes] /\ cur[0] = a
    BY <1>1
  <2> HIDE DEF cur
  <2> QED
    BY <1>1, <1>2, <2>1 DEF Leads
<1> QED
  BY <1>1, <1>2 DEF Leads

LEMMA LeadsTail ==
  ASSUME NEW ms, NEW a, NEW c, Leads(ms, a, c), ms # <<>>
  PROVE  \E b \in Modes : Fits(Head(ms), a, b) /\ Leads(Tail(ms), b, c)
<1>1. PICK cur \in [0..Len(ms) -> Modes] :
        /\ cur[0] = a /\ cur[Len(ms)] = c
        /\ \A i \in 1..Len(ms) : Fits(ms[i], cur[i - 1], cur[i])
  BY DEF Leads
<1>2. /\ ms \in Seq(Packets) /\ Len(ms) \in Nat /\ Len(ms) >= 1 /\ Head(ms) = ms[1]
      /\ Tail(ms) \in Seq(Packets) /\ Len(Tail(ms)) = Len(ms) - 1
      /\ \A i \in 1..Len(Tail(ms)) : Tail(ms)[i] = ms[i + 1]
  BY HeadTailProperties, LenProperties, EmptySeq DEF Leads
<1> DEFINE nxt == [i \in 0..Len(Tail(ms)) |-> cur[i + 1]]
<1>3. nxt \in [0..Len(Tail(ms)) -> Modes]
  BY <1>2
<1>4. nxt[0] = cur[1] /\ nxt[Len(Tail(ms))] = c
  BY <1>1, <1>2
<1>5. ASSUME NEW i \in 1..Len(Tail(ms)) PROVE Fits(Tail(ms)[i], nxt[i - 1], nxt[i])
  <2>1. i + 1 \in 1..Len(ms) /\ i - 1 \in 0..Len(Tail(ms)) /\ i \in 0..Len(Tail(ms))
    BY <1>2
  <2>2. nxt[i - 1] = cur[(i + 1) - 1] /\ nxt[i] = cur[i + 1]
    BY <2>1
  <2>3. Fits(ms[i + 1], cur[(i + 1) - 1], cur[i + 1])
    BY <1>1, <2>1
  <2>4. Tail(ms)[i] = ms[i + 1]
    BY <1>2
  <2> HIDE DEF nxt
  <2> QED
    BY <2>2, <2>3, <2>4
<1> HIDE DEF nxt
<1>6. cur[1] \in Modes /\ Fits(ms[1], a, cur[1])
  <2>1. 1 \in 1..Len(ms) /\ 1 - 1 = 0 /\ 1 \in 0..Len(ms)
    BY <1>2
  <2> QED
    BY <1>1, <2>1
<1>7. c \in Modes
  BY DEF Leads
<1>8. Leads(Tail(ms), cur[1], c)
  BY <1>2, <1>3, <1>4, <1>5, <1>6, <1>7 DEF Leads
<1> QED
  BY <1>2, <1>6, <1>8

LEMMA LeadsOn ==
  ASSUME NEW ms, NEW ns, NEW a, NEW b, NEW c, Leads(ms, a, b), Leads(ns, b, c)
  PROVE  Leads(ms \o ns, a, c)
<1>1. PICK cur \in [0..Len(ms) -> Modes] :
        /\ cur[0] = a /\ cur[Len(ms)] = b
        /\ \A i \in 1..Len(ms) : Fits(ms[i], cur[i - 1], cur[i])
  BY DEF Leads
<1>2. PICK nxt \in [0..Len(ns) -> Modes] :
        /\ nxt[0] = b /\ nxt[Len(ns)] = c
        /\ \A i \in 1..Len(ns) : Fits(ns[i], nxt[i - 1], nxt[i])
  BY DEF Leads
<1>3. /\ ms \in Seq(Packets) /\ ns \in Seq(Packets) /\ a \in Modes /\ c \in Modes
      /\ Len(ms) \in Nat /\ Len(ns) \in Nat
  BY LenProperties DEF Leads
<1>4. /\ ms \o ns \in Seq(Packets) /\ Len(ms \o ns) = Len(ms) + Len(ns)
      /\ \A i \in 1..Len(ms) + Len(ns) :
           (ms \o ns)[i] = IF i <= Len(ms) THEN ms[i] ELSE ns[i - Len(ms)]
  BY <1>3, ConcatProperties
<1> DEFINE all == [i \in 0..Len(ms \o ns) |-> IF i <= Len(ms) THEN cur[i] ELSE nxt[i - Len(ms)]]
<1>5. all \in [0..Len(ms \o ns) -> Modes]
  BY <1>3, <1>4
<1>6. all[0] = a /\ all[Len(ms \o ns)] = c
  <2>1. all[0] = a
    BY <1>1, <1>3, <1>4
  <2>2. all[Len(ms \o ns)] = IF Len(ns) = 0 THEN cur[Len(ms)] ELSE nxt[Len(ns)]
    <3>1. Len(ms \o ns) \in 0..Len(ms \o ns) /\ Len(ms \o ns) - Len(ms) = Len(ns)
          /\ (Len(ms \o ns) <= Len(ms) <=> Len(ns) = 0)
          /\ (Len(ns) = 0 => Len(ms \o ns) = Len(ms))
      BY <1>3, <1>4
    <3> QED
      BY <3>1
  <2> HIDE DEF all
  <2> QED
    BY <1>1, <1>2, <2>1, <2>2
<1>7. ASSUME NEW i \in 1..Len(ms \o ns) PROVE Fits((ms \o ns)[i], all[i - 1], all[i])
  <2>1. i - 1 \in 0..Len(ms \o ns) /\ i \in 0..Len(ms \o ns)
    BY <1>3, <1>4
  <2>2. CASE i <= Len(ms)
    <3>1. i \in 1..Len(ms) /\ i - 1 <= Len(ms)
      BY <1>3, <2>2
    <3>2. all[i - 1] = cur[i - 1] /\ all[i] = cur[i] /\ (ms \o ns)[i] = ms[i]
      BY <1>4, <2>1, <2>2, <3>1
    <3> HIDE DEF all
    <3> QED
      BY <1>1, <3>1, <3>2
  <2>3. CASE ~(i <= Len(ms))
    <3>1. PICK j \in 1..Len(ns) : j = i - Len(ms)
      BY <1>3, <1>4, <2>3
    <3>2. all[i] = nxt[j] /\ (ms \o ns)[i] = ns[j]
      BY <1>3, <1>4, <2>1, <2>3, <3>1
    <3>3. all[i - 1] = nxt[j - 1]
      <4>1. CASE j = 1
        <5>1. i - 1 = Len(ms) /\ j - 1 = 0
          BY <1>3, <3>1, <4>1
        <5>2. all[i - 1] = cur[Len(ms)]
          BY <2>1, <5>1
        <5> HIDE DEF all
        <5> QED
          BY <1>1, <1>2, <5>1, <5>2
      <4>2. CASE j # 1
        <5>1. ~(i - 1 <= Len(ms)) /\ (i - 1) - Len(ms) = j - 1
          BY <1>3, <3>1, <4>2
        <5> QED
          BY <2>1, <5>1
      <4> QED
        BY <4>1, <4>2
    <3> HIDE DEF all
    <3> QED
      BY <1>2, <3>1, <3>2, <3>3
  <2> QED
    BY <2>2, <2>3
<1> HIDE DEF all
<1> QED
  BY <1>3, <1>4, <1>5, <1>6, <1>7 DEF Leads

(* One packet turns the mode, those before and after it keep it.            *)
LEMMA LeadsByOne ==
  ASSUME NEW ms \in Seq(Packets), NEW a \in Modes, NEW b \in Modes, NEW p \in 1..Len(ms),
         \A i \in 1..Len(ms) : Fits(ms[i], IF i <= p THEN a ELSE b, IF i < p THEN a ELSE b)
  PROVE  Leads(ms, a, b)
<1> DEFINE cur == [i \in 0..Len(ms) |-> IF i < p THEN a ELSE b]
<1>1. Len(ms) \in Nat /\ Len(ms) >= p
  BY LenProperties
<1>2. cur \in [0..Len(ms) -> Modes] /\ cur[0] = a /\ cur[Len(ms)] = b
  BY <1>1
<1>3. ASSUME NEW i \in 1..Len(ms) PROVE Fits(ms[i], cur[i - 1], cur[i])
  <2>1. i - 1 \in 0..Len(ms) /\ i \in 0..Len(ms) /\ (i - 1 < p <=> i <= p)
    BY <1>1
  <2>2. cur[i - 1] = (IF i <= p THEN a ELSE b) /\ cur[i] = (IF i < p THEN a ELSE b)
    BY <2>1
  <2> HIDE DEF cur
  <2> QED
    BY <2>2
<1> HIDE DEF cur
<1> QED
  BY <1>2, <1>3 DEF Leads

LEMMA LeadsAlong ==
  ASSUME NEW ms \in Seq(Packets), NEW a \in Modes, \A i \in 1..Len(ms) : Fits(ms[i], a, a)
  PROVE  Leads(ms, a, a)
<1> DEFINE cur == [i \in 0..Len(ms) |-> a]
<1>1. Len(ms) \in Nat
  BY LenProperties
<1>2. cur \in [0..Len(ms) -> Modes] /\ cur[0] = a /\ cur[Len(ms)] = a
  BY <1>1
<1>3. ASSUME NEW i \in 1..Len(ms) PROVE Fits(ms[i], cur[i - 1], cur[i])
  <2>1. i - 1 \in 0..Len(ms) /\ i \in 0..Len(ms)
    BY <1>1
  <2> QED
    BY <2>1
<1> HIDE DEF cur
<1> QED
  BY <1>2, <1>3 DEF Leads

-----------------------------------------------------------------------------
(* What the screen comes to *)

(* What a screen is to show of call r, which is c for the hub, ...          *)
Goal(r, c) ==
  [ref    |-> r,
   st     |-> CASE c.st = "connected" -> "connected"
                [] c.st = "held"      -> "hold"
                [] c.st = "ringing"   -> IF c.out THEN "ringout" ELSE "ringin"
                [] OTHER              -> "none",
   keys   |-> CASE c.st = "connected" -> IF c.ivr THEN "dialing" ELSE "connected"
                [] c.st = "held"      -> "held"
                [] c.st = "ringing"   -> IF c.out THEN "ringout" ELSE "ringin"
                [] OTHER              -> "dialing",
   tone   |-> CASE c.st = "held"      -> IF c.mine THEN "hold" ELSE "remote_hold"
                [] c.st = "ringing"   -> IF c.out \/ Legacy THEN "none" ELSE "ring"
                [] c.st = "dialing"   -> "dial"
                [] OTHER              -> "none",
   prompt |-> IF Legacy \/ c.ivr THEN "any"
              ELSE CASE c.st = "connected" -> "Connected"
                     [] c.st = "held"      -> IF c.mine THEN "OnHold" ELSE "RemoteHold"
                     [] c.st = "ringing"   -> IF c.out THEN "RingOut" ELSE "RingIn"
                     [] OTHER              -> "any"]

(* ... and of no call.                                                      *)
IdleGoal ==
  [ref |-> NoCall, st |-> "none", keys |-> "idle", tone |-> "none",
   prompt |-> IF Legacy THEN "any" ELSE "Ready"]

Registers == {"list", "keys", "tone", "prompt"}

(* One part of the screen shows goal g.                                     *)
Right(reg, g, ph, f) ==
  /\ reg = "list" => g.st = "none" \/ Shows(ph, g.ref, g.st)
  /\ reg = "keys" => f.set = g.keys /\ (g.ref # NoCall => f.keys[g.ref] = g.keys)
  /\ reg = "tone" => f.tone = g.tone
  /\ reg = "prompt" => g.prompt = "any" \/ f.prompt = g.prompt

(* Packet m makes it right; packet m leaves it right.                       *)
Rights(reg, g, m) ==
  /\ reg = "list" => g.st = "none" \/ (g.st \in Listing /\ m = State(g.st, g.ref))
  /\ reg = "keys" => m = Softkeys(g.keys, g.ref)
  /\ reg = "tone" => m = Tone(g.tone)
  /\ reg = "prompt" => g.prompt = "any" \/ m = Prompt(g.prompt)

Leaves(reg, g, m) ==
  /\ reg = "list" =>
       \/ g.st = "none"
       \/ m.do \in {"Tone", "Prompt", "Plane"}
       \/ m.do = "Keys" /\ m.ref = g.ref
       \/ m.do = "Info" /\ m.ref = g.ref /\
            (g.st \in {"connected", "hold"} \/ g.st = (IF m.arg = "in" THEN "ringin" ELSE "ringout"))
       \/ m.do = "Lamp" /\ m.arg = "flash"
       \/ m.do = "Ringer" /\ m.ref = g.ref /\ g.st = "ringin"
  /\ reg = "keys" => m.do # "Keys" \/ m = Softkeys(g.keys, g.ref)
  /\ reg = "tone" => m.do # "Tone" \/ m = Tone(g.tone)
  /\ reg = "prompt" => g.prompt = "any" \/ m.do # "Prompt" \/ m = Prompt(g.prompt)

(* Packets ms make it right, whatever it was before.                        *)
Settles(reg, g, ms) ==
  \E k \in 1..Len(ms) :
    Rights(reg, g, ms[k]) /\ \A j \in 1..Len(ms) : j > k => Leaves(reg, g, ms[j])

(* It is right when the packets ms have been handled.                       *)
Settled(reg, g, ph, f, ms) ==
  \/ Right(reg, g, ph, f) /\ \A j \in 1..Len(ms) : Leaves(reg, g, ms[j])
  \/ Settles(reg, g, ms)

LEMMA RightsStep ==
  ASSUME NEW a \in Modes, NEW b, NEW ph, In(ph, a), NEW f \in Face, NEW m, Fits(m, a, b),
         NEW g, g.ref \in Refs \cup {NoCall}, NEW reg \in Registers, Rights(reg, g, m)
  PROVE  Right(reg, g, PhoneAfter(ph, m), FaceAfter(f, m))
<1>1. CASE reg = "list" /\ g.st # "none"
  <2>1. g.st \in Listing /\ m.do = "State" /\ m.ref = g.ref /\ m.arg = g.st
    BY <1>1 DEF Rights, State, Packet
  <2>2. m.ref \in Refs /\ a.ref \in {NoCall, m.ref}
    BY <2>1 DEF Fits
  <2>3. PhoneAfter(ph, m) = Client!ApplyCallState(ph, g.st, m.ref)
    BY <2>1 DEF PhoneAfter
  <2>4. CASE g.st \in {"ringin", "ringout"}
    BY <1>1, <2>1, <2>2, <2>3, <2>4, Rings DEF Client!ApplyCallState, Right
  <2>5. CASE g.st = "connected"
    BY <1>1, <2>1, <2>2, <2>3, <2>5, Connects DEF Client!ApplyCallState, Right
  <2>6. CASE g.st = "hold"
    BY <1>1, <2>1, <2>2, <2>3, <2>6, Holds DEF Client!ApplyCallState, Right
  <2> QED
    BY <2>1, <2>4, <2>5, <2>6 DEF Listing
<1>2. CASE reg = "list" /\ g.st = "none"
  BY <1>2 DEF Right
<1>3. CASE reg = "keys"
  <2>0. m.do = "Keys" /\ m.ref = g.ref /\ m.arg = g.keys
    BY <1>3 DEF Rights, Softkeys, Packet
  <2>1. FaceAfter(f, m)
          = [f EXCEPT !.set = g.keys, !.keys = [z \in Refs |-> IF z = g.ref THEN g.keys ELSE f.keys[z]]]
    BY <2>0 DEF FaceAfter, SelectSet, Face
  <2>2. FaceAfter(f, m).set = g.keys /\ (g.ref \in Refs => FaceAfter(f, m).keys[g.ref] = g.keys)
    BY <2>1 DEF Face
  <2> QED
    BY <1>3, <2>2 DEF Right
<1>4. CASE reg = "tone"
  <2>1. FaceAfter(f, m) = [f EXCEPT !.tone = g.tone]
    BY <1>4 DEF Rights, FaceAfter, PlayTone, Tone, Packet
  <2> QED
    BY <1>4, <2>1 DEF Right, Face
<1>5. CASE reg = "prompt" /\ g.prompt # "any"
  <2>1. FaceAfter(f, m) = [f EXCEPT !.prompt = g.prompt]
    BY <1>5 DEF Rights, FaceAfter, ShowPrompt, Prompt, Packet
  <2> QED
    BY <1>5, <2>1 DEF Right, Face
<1>6. CASE reg = "prompt" /\ g.prompt = "any"
  BY <1>6 DEF Right
<1> QED
  BY <1>1, <1>2, <1>3, <1>4, <1>5, <1>6 DEF Registers

LEMMA LeavesStep ==
  ASSUME NEW a \in Modes, NEW b, NEW ph, In(ph, a), NEW f \in Face, NEW m, Fits(m, a, b),
         NEW g, g.ref \in Refs \cup {NoCall}, NEW reg \in Registers,
         Right(reg, g, ph, f), Leaves(reg, g, m)
  PROVE  Right(reg, g, PhoneAfter(ph, m), FaceAfter(f, m))
<1>1. CASE reg = "list" /\ g.st # "none"
  <2> DEFINE r == g.ref
  <2>1. Shows(ph, r, g.st) /\ ph \in Client!Phone /\ ph.act = <<r>>
    BY <1>1 DEF Right, Shows
  <2>2. a.on /\ a.ref = r /\ r \in Refs
    <3>1. ph.act # <<>>
      BY <2>1, OneElement
    <3>2. a.on /\ <<r>> = <<a.ref>>
      BY <2>1, <3>1 DEF In
    <3> QED
      BY <3>2 DEF Modes
  <2>3. CASE m.do \in {"Tone", "Prompt"}
    BY <1>1, <2>1, <2>3 DEF PhoneAfter, Right
  <2>4. CASE m.do = "Plane"
    <3>1. PhoneAfter(ph, m) = [ph EXCEPT !.active = TRUE]
      BY <2>4 DEF PhoneAfter, Client!ActivatePlane
    <3>2. Shows(PhoneAfter(ph, m), r, g.st)
      BY <2>1, <3>1 DEF Shows, Client!Phone
    <3> QED
      BY <1>1, <3>2 DEF Right
  <2>5. CASE m.do = "Keys" /\ m.ref = r
    <3>1. PhoneAfter(ph, m) = [ph EXCEPT !.sel = r]
      <4>1. r # NoCall
        BY <2>2, ScreenAssumption
      <4> QED
        BY <2>5, <4>1 DEF PhoneAfter, Client!SelectKeys
    <3>2. Shows(PhoneAfter(ph, m), r, g.st)
      BY <2>1, <2>2, <3>1 DEF Shows, Client!Phone
    <3> QED
      BY <1>1, <3>2 DEF Right
  <2>6. CASE /\ m.do = "Info" /\ m.ref = r
             /\ g.st \in {"connected", "hold"} \/ g.st = (IF m.arg = "in" THEN "ringin" ELSE "ringout")
    <3>1. PhoneAfter(ph, m) = CallInfo(ph, m.arg, r) /\ m.arg \in {"in", "out"}
      BY <2>6 DEF PhoneAfter, Fits
    <3>2. Talked(ph, r) <=> g.st \in {"connected", "hold"}
      BY <2>1 DEF Talked, Shows
    <3>3. In(CallInfo(ph, m.arg, r), a)
      BY <2>2, <3>1, InfoStep
    <3>4. Shows(CallInfo(ph, m.arg, r), r, g.st)
      <4>1. CASE Talked(ph, r)
        BY <2>1, <2>2, <3>1, <4>1, InfoStep
      <4>2. CASE ~Talked(ph, r)
        BY <2>2, <2>6, <3>1, <3>2, <4>2, InfoStep
      <4> QED
        BY <4>1, <4>2
    <3> QED
      BY <1>1, <3>1, <3>4 DEF Right
  <2>7. CASE m.do = "Lamp" /\ m.arg = "flash"
    <3>1. PhoneAfter(ph, m) = ph
      BY <2>7, LampStep DEF PhoneAfter
    <3> QED
      BY <1>1, <2>1, <3>1 DEF Right
  <2>8. CASE m.do = "Ringer" /\ m.ref = r /\ g.st = "ringin"
    <3>1. PhoneAfter(ph, m) = SetRinger(ph, r) /\ r # NoCall
      BY <2>2, <2>8, ScreenAssumption DEF PhoneAfter
    <3>2. Shows(SetRinger(ph, r), r, "ringin")
      BY <2>1, <2>2, <2>8, <3>1, RingerStep
    <3> QED
      BY <1>1, <2>8, <3>1, <3>2 DEF Right
  <2> QED
    BY <1>1, <2>3, <2>4, <2>5, <2>6, <2>7, <2>8 DEF Leaves
<1>2. CASE reg = "list" /\ g.st = "none"
  BY <1>2 DEF Right
<1>3. CASE reg = "keys"
  <2>1. CASE m.do = "Keys"
    <3>1. Rights(reg, g, m)
      BY <1>3, <2>1 DEF Leaves, Rights
    <3> QED
      BY <3>1, RightsStep
  <2>2. CASE m.do # "Keys"
    <3>1. FaceAfter(f, m).set = f.set /\ FaceAfter(f, m).keys = f.keys
      BY <2>2 DEF FaceAfter, PlayTone, ShowPrompt, Face
    <3> QED
      BY <1>3, <3>1 DEF Right
  <2> QED
    BY <2>1, <2>2
<1>4. CASE reg = "tone"
  <2>1. CASE m.do = "Tone"
    <3>1. Rights(reg, g, m)
      BY <1>4, <2>1 DEF Leaves, Rights
    <3> QED
      BY <3>1, RightsStep
  <2>2. CASE m.do # "Tone"
    <3>1. FaceAfter(f, m).tone = f.tone
      BY <2>2 DEF FaceAfter, SelectSet, ShowPrompt, Face
    <3> QED
      BY <1>4, <3>1 DEF Right
  <2> QED
    BY <2>1, <2>2
<1>5. CASE reg = "prompt"
  <2>1. CASE m.do = "Prompt"
    <3>1. Rights(reg, g, m)
      BY <1>5, <2>1 DEF Leaves, Rights
    <3> QED
      BY <3>1, RightsStep
  <2>2. CASE m.do # "Prompt"
    <3>1. FaceAfter(f, m).prompt = f.prompt
      BY <2>2 DEF FaceAfter, SelectSet, PlayTone, Face
    <3> QED
      BY <1>5, <3>1 DEF Right
  <2> QED
    BY <2>1, <2>2
<1> QED
  BY <1>1, <1>2, <1>3, <1>4, <1>5 DEF Registers

(* What settles stays settled as the packets are handled, ...               *)
LEMMA SettledTail ==
  ASSUME NEW a \in Modes, NEW b, NEW ph, In(ph, a), NEW f \in Face,
         NEW ms \in Seq(Packets), ms # <<>>, Fits(Head(ms), a, b),
         NEW g, g.ref \in Refs \cup {NoCall}, NEW reg \in Registers,
         Settled(reg, g, ph, f, ms)
  PROVE  Settled(reg, g, PhoneAfter(ph, Head(ms)), FaceAfter(f, Head(ms)), Tail(ms))
<1>1. /\ Len(ms) \in Nat /\ Len(ms) >= 1 /\ Head(ms) = ms[1]
      /\ Len(Tail(ms)) = Len(ms) - 1
      /\ \A i \in 1..Len(Tail(ms)) : Tail(ms)[i] = ms[i + 1]
  BY HeadTailProperties, LenProperties, EmptySeq
<1>2. CASE Right(reg, g, ph, f) /\ \A j \in 1..Len(ms) : Leaves(reg, g, ms[j])
  <2>1. Leaves(reg, g, Head(ms))
    BY <1>1, <1>2
  <2>2. Right(reg, g, PhoneAfter(ph, Head(ms)), FaceAfter(f, Head(ms)))
    BY <1>2, <2>1, LeavesStep
  <2>3. \A j \in 1..Len(Tail(ms)) : Leaves(reg, g, Tail(ms)[j])
    BY <1>1, <1>2
  <2> QED
    BY <2>2, <2>3 DEF Settled
<1>3. CASE Settles(reg, g, ms)
  <2>1. PICK k \in 1..Len(ms) :
          Rights(reg, g, ms[k]) /\ \A j \in 1..Len(ms) : j > k => Leaves(reg, g, ms[j])
    BY <1>3 DEF Settles
  <2>2. CASE k = 1
    <3>1. Right(reg, g, PhoneAfter(ph, Head(ms)), FaceAfter(f, Head(ms)))
      BY <1>1, <2>1, <2>2, RightsStep
    <3>2. \A j \in 1..Len(Tail(ms)) : Leaves(reg, g, Tail(ms)[j])
      BY <1>1, <2>1, <2>2
    <3> QED
      BY <3>1, <3>2 DEF Settled
  <2>3. CASE k # 1
    <3>1. PICK i \in 1..Len(Tail(ms)) : i + 1 = k
      BY <1>1, <2>3
    <3>2. Rights(reg, g, Tail(ms)[i])
      BY <1>1, <2>1, <3>1
    <3>3. \A j \in 1..Len(Tail(ms)) : j > i => Leaves(reg, g, Tail(ms)[j])
      BY <1>1, <2>1, <3>1
    <3> QED
      BY <3>2, <3>3 DEF Settled, Settles
  <2> QED
    BY <2>2, <2>3
<1> QED
  BY <1>2, <1>3 DEF Settled

(* ... and when more come.                                                  *)
LEMMA SettlesOn ==
  ASSUME NEW ms \in Seq(Packets), NEW ns \in Seq(Packets), NEW g, NEW reg
  PROVE  /\ Settles(reg, g, ns) => Settles(reg, g, ms \o ns)
         /\ (\A j \in 1..Len(ns) : Leaves(reg, g, ns[j])) =>
              /\ Settles(reg, g, ms) => Settles(reg, g, ms \o ns)
              /\ \A ph, f : Settled(reg, g, ph, f, ms) => Settled(reg, g, ph, f, ms \o ns)
<1>1. Len(ms) \in Nat /\ Len(ns) \in Nat
  BY LenProperties
<1>2. /\ Len(ms \o ns) = Len(ms) + Len(ns)
      /\ \A i \in 1..Len(ms) + Len(ns) :
           (ms \o ns)[i] = IF i <= Len(ms) THEN ms[i] ELSE ns[i - Len(ms)]
  BY ConcatProperties
<1> DEFINE t == ms \o ns
<1>3. \A i \in 1..Len(ms) : i \in 1..Len(t) /\ t[i] = ms[i]
  BY <1>1, <1>2
<1>4. \A i \in 1..Len(ns) : Len(ms) + i \in 1..Len(t) /\ t[Len(ms) + i] = ns[i]
  BY <1>1, <1>2
<1>5. \A j \in 1..Len(t) : j \in 1..Len(ms) \/ \E i \in 1..Len(ns) : j = Len(ms) + i /\ t[j] = ns[i]
  <2> SUFFICES ASSUME NEW j \in 1..Len(t), j \notin 1..Len(ms)
               PROVE  \E i \in 1..Len(ns) : j = Len(ms) + i /\ t[j] = ns[i]
    OBVIOUS
  <2>1. PICK i \in 1..Len(ns) : i = j - Len(ms)
    BY <1>1, <1>2
  <2> QED
    BY <1>1, <1>4, <2>1
<1> HIDE DEF t
<1>6. ASSUME Settles(reg, g, ns) PROVE Settles(reg, g, t)
  <2>1. PICK k \in 1..Len(ns) :
          Rights(reg, g, ns[k]) /\ \A j \in 1..Len(ns) : j > k => Leaves(reg, g, ns[j])
    BY <1>6 DEF Settles
  <2>2. PICK n \in 1..Len(t) : n = Len(ms) + k /\ t[n] = ns[k]
    BY <1>4
  <2>3. ASSUME NEW j \in 1..Len(t), j > n PROVE Leaves(reg, g, t[j])
    <3>1. j \notin 1..Len(ms)
      BY <1>1, <2>2, <2>3
    <3>2. PICK i \in 1..Len(ns) : j = Len(ms) + i /\ t[j] = ns[i]
      BY <1>5, <3>1
    <3>3. i > k
      BY <1>1, <2>2, <2>3, <3>2
    <3> QED
      BY <2>1, <3>2, <3>3
  <2> QED
    BY <2>1, <2>2, <2>3 DEF Settles
<1>7. ASSUME \A j \in 1..Len(ns) : Leaves(reg, g, ns[j]), Settles(reg, g, ms)
      PROVE  Settles(reg, g, t)
  <2>1. PICK k \in 1..Len(ms) :
          Rights(reg, g, ms[k]) /\ \A j \in 1..Len(ms) : j > k => Leaves(reg, g, ms[j])
    BY <1>7 DEF Settles
  <2>2. \A j \in 1..Len(t) : j > k => Leaves(reg, g, t[j])
    BY <1>3, <1>5, <1>7, <2>1
  <2> QED
    BY <1>3, <2>1, <2>2 DEF Settles
<1>8. ASSUME \A j \in 1..Len(ns) : Leaves(reg, g, ns[j]), NEW ph, NEW f, Settled(reg, g, ph, f, ms)
      PROVE  Settled(reg, g, ph, f, t)
  <2>1. CASE Settles(reg, g, ms)
    BY <1>7, <1>8, <2>1 DEF Settled
  <2>2. CASE Right(reg, g, ph, f) /\ \A j \in 1..Len(ms) : Leaves(reg, g, ms[j])
    <3>1. \A j \in 1..Len(t) : Leaves(reg, g, t[j])
      BY <1>3, <1>5, <1>8, <2>2
    <3> QED
      BY <2>2, <3>1 DEF Settled
  <2> QED
    BY <1>8, <2>1, <2>2 DEF Settled
<1> QED
  BY <1>6, <1>7, <1>8 DEF t

-----------------------------------------------------------------------------
(* What the simulator sends settles the screen. *)

NoMode == [ref |-> NoCall, on |-> FALSE]
Mode(r, on) == [ref |-> r, on |-> on]

SettlesAll(g, ms) == \A reg \in Registers : Settles(reg, g, ms)

(* The last word on one part is packet k.                                   *)
Last(reg, g, ms, k) ==
  k \in 1..Len(ms) /\ Rights(reg, g, ms[k]) /\ \A j \in 1..Len(ms) : j > k => Leaves(reg, g, ms[j])

LEMMA SettlesParts ==
  ASSUME NEW ms, NEW g, NEW l, Last("list", g, ms, l), NEW k, Last("keys", g, ms, k),
         NEW t, Last("tone", g, ms, t), NEW p, Last("prompt", g, ms, p)
  PROVE  SettlesAll(g, ms)
<1>1. Settles("list", g, ms) /\ Settles("keys", g, ms) /\ Settles("tone", g, ms)
      /\ Settles("prompt", g, ms)
  BY DEF Last, Settles
<1> QED
  BY <1>1 DEF SettlesAll, Registers

LEMMA ModesOf ==
  ASSUME NEW r \in Refs
  PROVE  NoMode \in Modes /\ Mode(r, TRUE) \in Modes /\ Mode(r, FALSE) \in Modes /\ r # NoCall
BY ScreenAssumption DEF NoMode, Mode, Modes

LEMMA PacketsTyped ==
  ASSUME NEW r \in Refs
  PROVE  /\ \A s \in Listing \cup {"offhook", "proceed", "onhook"} : State(s, r) \in Packets
         /\ Info("in", r) \in Packets /\ Info("out", r) \in Packets
         /\ \A s \in SetNames : Softkeys(s, r) \in Packets /\ Softkeys(s, NoCall) \in Packets
         /\ \A t \in ToneNames : Tone(t) \in Packets
         /\ \A p \in PromptNames : Prompt(p) \in Packets
         /\ \A mode \in {"on", "off", "flash"} : Lamp(mode) \in Packets
         /\ Ringer(r) \in Packets /\ Ringer(NoCall) \in Packets /\ Plane \in Packets
BY DEF State, Info, Softkeys, Tone, Prompt, Lamp, Ringer, Plane, Packet, Packets,
       Listing, SetNames, ToneNames, PromptNames

LEMMA FitsFacts ==
  ASSUME NEW a
  PROVE  /\ \A t \in ToneNames : Fits(Tone(t), a, a)
         /\ \A p \in PromptNames : Fits(Prompt(p), a, a)
         /\ \A mode : Fits(Lamp(mode), a, a)
         /\ Fits(Plane, a, a)
         /\ \A s \in SetNames : Fits(Softkeys(s, NoCall), a, a) /\ Fits(Softkeys(s, a.ref), a, a)
         /\ a.on \/ a.ref = NoCall => Fits(Ringer(NoCall), a, a) /\ Fits(Ringer(a.ref), a, a)
         /\ a.on => Fits(Info("in", a.ref), a, a) /\ Fits(Info("out", a.ref), a, a)
         /\ \A r \in Refs : a.ref \in {NoCall, r} =>
              /\ \A s \in Listing : Fits(State(s, r), a, Mode(r, TRUE))
              /\ \A s \in {"offhook", "proceed"} : Fits(State(s, r), a, Mode(r, a.on))
         /\ a.ref \in Refs => Fits(State("onhook", a.ref), a, NoMode)
BY DEF Fits, NoMode, Mode, State, Info, Softkeys, Tone, Prompt, Lamp, Ringer, Plane, Packet

LEMMA PacketIs ==
  /\ \A s, r : State(s, r).do = "State" /\ State(s, r).ref = r /\ State(s, r).arg = s
  /\ \A w, r : Info(w, r).do = "Info" /\ Info(w, r).ref = r /\ Info(w, r).arg = w
  /\ \A s, r : Softkeys(s, r).do = "Keys" /\ Softkeys(s, r).ref = r /\ Softkeys(s, r).arg = s
  /\ \A t : Tone(t).do = "Tone" /\ Tone(t).arg = t
  /\ \A p : Prompt(p).do = "Prompt" /\ Prompt(p).arg = p
  /\ \A w : Lamp(w).do = "Lamp" /\ Lamp(w).arg = w
  /\ \A r : Ringer(r).do = "Ringer" /\ Ringer(r).ref = r
  /\ Plane.do = "Plane"
BY DEF State, Info, Softkeys, Tone, Prompt, Lamp, Ringer, Plane, Packet

(* What there is to know of packets in a row                                *)
LEMMA TwoPackets ==
  ASSUME NEW a1 \in Packets, NEW a2 \in Packets, NEW ms, ms = <<a1, a2>>
  PROVE  /\ ms \in Seq(Packets) /\ Len(ms) = 2
         /\ ms[1] = a1 /\ ms[2] = a2
         /\ \A i \in 1..Len(ms) :
              i = 1 \/ i = 2
<1>1. ms \in Seq(Packets) /\ Len(ms) = 2
  OBVIOUS
<1>2. ms[1] = a1 /\ ms[2] = a2
  OBVIOUS
<1>3. \A i \in 1..2 :
        i = 1 \/ i = 2
  BY ONLY SMT
<1> QED
  BY <1>1, <1>2, <1>3

LEMMA ThreePackets ==
  ASSUME NEW a1 \in Packets, NEW a2 \in Packets, NEW a3 \in Packets, NEW ms,
         ms = <<a1, a2, a3>>
  PROVE  /\ ms \in Seq(Packets) /\ Len(ms) = 3
         /\ ms[1] = a1 /\ ms[2] = a2 /\ ms[3] = a3
         /\ \A i \in 1..Len(ms) :
              i = 1 \/ i = 2 \/ i = 3
<1>1. ms \in Seq(Packets) /\ Len(ms) = 3
  OBVIOUS
<1>2. ms[1] = a1 /\ ms[2] = a2 /\ ms[3] = a3
  OBVIOUS
<1>3. \A i \in 1..3 :
        i = 1 \/ i = 2 \/ i = 3
  BY ONLY SMT
<1> QED
  BY <1>1, <1>2, <1>3

LEMMA FivePackets ==
  ASSUME NEW a1 \in Packets, NEW a2 \in Packets, NEW a3 \in Packets,
         NEW a4 \in Packets, NEW a5 \in Packets, NEW ms,
         ms = <<a1, a2, a3, a4, a5>>
  PROVE  /\ ms \in Seq(Packets) /\ Len(ms) = 5
         /\ ms[1] = a1 /\ ms[2] = a2 /\ ms[3] = a3 /\ ms[4] = a4 /\ ms[5] = a5
         /\ \A i \in 1..Len(ms) :
              i = 1 \/ i = 2 \/ i = 3 \/
              i = 4 \/ i = 5
<1>1. ms \in Seq(Packets) /\ Len(ms) = 5
  OBVIOUS
<1>2. ms[1] = a1 /\ ms[2] = a2 /\ ms[3] = a3 /\ ms[4] = a4 /\ ms[5] = a5
  OBVIOUS
<1>3. \A i \in 1..5 :
        i = 1 \/ i = 2 \/ i = 3 \/ i = 4 \/ i = 5
  BY ONLY SMT
<1> QED
  BY <1>1, <1>2, <1>3

LEMMA SixPackets ==
  ASSUME NEW a1 \in Packets, NEW a2 \in Packets, NEW a3 \in Packets,
         NEW a4 \in Packets, NEW a5 \in Packets, NEW a6 \in Packets, NEW ms,
         ms = <<a1, a2, a3, a4, a5, a6>>
  PROVE  /\ ms \in Seq(Packets) /\ Len(ms) = 6
         /\ ms[1] = a1 /\ ms[2] = a2 /\ ms[3] = a3 /\ ms[4] = a4 /\
            ms[5] = a5 /\ ms[6] = a6
         /\ \A i \in 1..Len(ms) :
              i = 1 \/ i = 2 \/ i = 3 \/
              i = 4 \/ i = 5 \/ i = 6
<1>1. ms \in Seq(Packets) /\ Len(ms) = 6
  OBVIOUS
<1>2. ms[1] = a1 /\ ms[2] = a2 /\ ms[3] = a3 /\ ms[4] = a4 /\ ms[5] = a5 /\
      ms[6] = a6
  OBVIOUS
<1>3. \A i \in 1..6 :
        i = 1 \/ i = 2 \/ i = 3 \/ i = 4 \/ i = 5 \/ i = 6
  BY ONLY SMT
<1> QED
  BY <1>1, <1>2, <1>3

LEMMA SevenPackets ==
  ASSUME NEW a1 \in Packets, NEW a2 \in Packets, NEW a3 \in Packets,
         NEW a4 \in Packets, NEW a5 \in Packets, NEW a6 \in Packets,
         NEW a7 \in Packets, NEW ms, ms = <<a1, a2, a3, a4, a5, a6, a7>>
  PROVE  /\ ms \in Seq(Packets) /\ Len(ms) = 7
         /\ ms[1] = a1 /\ ms[2] = a2 /\ ms[3] = a3 /\ ms[4] = a4 /\
            ms[5] = a5 /\ ms[6] = a6 /\ ms[7] = a7
         /\ \A i \in 1..Len(ms) :
              i = 1 \/ i = 2 \/ i = 3 \/
              i = 4 \/ i = 5 \/ i = 6 \/ i = 7
<1>1. ms \in Seq(Packets) /\ Len(ms) = 7
  OBVIOUS
<1>2. ms[1] = a1 /\ ms[2] = a2 /\ ms[3] = a3 /\ ms[4] = a4 /\ ms[5] = a5 /\
      ms[6] = a6 /\ ms[7] = a7
  OBVIOUS
<1>3. \A i \in 1..7 :
        i = 1 \/ i = 2 \/ i = 3 \/ i = 4 \/ i = 5 \/ i = 6 \/ i = 7
  BY ONLY SMT
<1> QED
  BY <1>1, <1>2, <1>3

LEMMA ElevenPackets ==
  ASSUME NEW a1 \in Packets, NEW a2 \in Packets, NEW a3 \in Packets,
         NEW a4 \in Packets, NEW a5 \in Packets, NEW a6 \in Packets,
         NEW a7 \in Packets, NEW a8 \in Packets, NEW a9 \in Packets,
         NEW a10 \in Packets, NEW a11 \in Packets, NEW ms,
         ms = <<a1, a2, a3, a4, a5, a6, a7, a8, a9, a10, a11>>
  PROVE  /\ ms \in Seq(Packets) /\ Len(ms) = 11
         /\ ms[1] = a1 /\ ms[2] = a2 /\ ms[3] = a3 /\ ms[4] = a4 /\
            ms[5] = a5 /\ ms[6] = a6 /\ ms[7] = a7 /\ ms[8] = a8 /\
            ms[9] = a9 /\ ms[10] = a10 /\ ms[11] = a11
         /\ \A i \in 1..Len(ms) :
              i = 1 \/ i = 2 \/ i = 3 \/
              i = 4 \/ i = 5 \/ i = 6 \/ i = 7 \/ i = 8 \/ i = 9 \/ i = 10 \/
              i = 11
<1>1. ms \in Seq(Packets) /\ Len(ms) = 11
  OBVIOUS
<1>2. ms[1] = a1 /\ ms[2] = a2 /\ ms[3] = a3 /\ ms[4] = a4 /\ ms[5] = a5 /\
      ms[6] = a6 /\ ms[7] = a7 /\ ms[8] = a8 /\ ms[9] = a9 /\ ms[10] = a10 /\
      ms[11] = a11
  OBVIOUS
<1>3. \A i \in 1..11 :
        i = 1 \/ i = 2 \/ i = 3 \/ i = 4 \/ i = 5 \/ i = 6 \/ i = 7 \/
        i = 8 \/ i = 9 \/ i = 10 \/ i = 11
  BY ONLY SMT
<1> QED
  BY <1>1, <1>2, <1>3

(* A dialed call: the phone is off-hook, and nothing is listed yet.          *)
LEMMA OutboundSays ==
  ASSUME NEW r \in Refs
  PROVE  /\ Leads(OutboundPackets(r), NoMode, Mode(r, FALSE))
         /\ SettlesAll(Goal(r, Call("dialing", TRUE, FALSE)), OutboundPackets(r))
<1> DEFINE ms == OutboundPackets(r)
           g == Goal(r, Call("dialing", TRUE, FALSE))
           off == Mode(r, FALSE)
           on == Mode(r, TRUE)
<1>1. g.ref = r /\ g.st = "none" /\ g.keys = "dialing" /\ g.tone = "dial" /\ g.prompt = "any"
  BY DEF Goal, Call
<1> HIDE DEF g
<1>2. /\ NoMode.ref = NoCall /\ ~NoMode.on
      /\ off.ref = r /\ ~off.on /\ off = Mode(r, NoMode.on) /\ off = Mode(r, off.on)
      /\ on.ref = r /\ on.on /\ on = Mode(r, TRUE) /\ on = Mode(r, on.on) /\ r # NoCall
  BY ScreenAssumption DEF Mode, NoMode
<1>3. NoMode \in Modes /\ on \in Modes /\ off \in Modes
  BY ModesOf
<1> HIDE DEF off, on
<1>4. CASE Legacy
  <2>1. ms = <<Ringer(NoCall), Lamp("on"), State("offhook", r),
               Softkeys("dialing", r), Prompt("blank"), Plane, Tone("dial")>>
    BY <1>4 DEF OutboundPackets
  <2> HIDE DEF ms
  <2>2. Ringer(NoCall) \in Packets /\ Lamp("on") \in Packets /\
        State("offhook", r) \in Packets /\
        Softkeys("dialing", r) \in Packets /\ Prompt("blank") \in Packets /\
        Plane \in Packets /\ Tone("dial") \in Packets
    BY PacketsTyped DEF Listing, SetNames, PromptNames, ToneNames
  <2>3. /\ ms \in Seq(Packets) /\ Len(ms) = 7
        /\ ms[1] = Ringer(NoCall) /\ ms[2] = Lamp("on") /\
           ms[3] = State("offhook", r) /\ ms[4] = Softkeys("dialing", r) /\
           ms[5] = Prompt("blank") /\ ms[6] = Plane /\ ms[7] = Tone("dial")
        /\ \A i \in 1..Len(ms) : i = 1 \/ i = 2 \/ i = 3 \/ i = 4 \/ i = 5 \/
           i = 6 \/ i = 7
    BY <2>1, <2>2, SevenPackets
  <2>4. Fits(Ringer(NoCall), NoMode, NoMode) /\
        Fits(Lamp("on"), NoMode, NoMode) /\
        Fits(State("offhook", r), NoMode, off) /\
        Fits(Softkeys("dialing", r), off, off) /\
        Fits(Prompt("blank"), off, off) /\ Fits(Plane, off, off) /\
        Fits(Tone("dial"), off, off)
    BY <1>2, FitsFacts DEF Listing, SetNames, PromptNames, ToneNames
  <2>5. \A i \in 1..Len(ms) : Fits(ms[i], IF i <= 3 THEN NoMode ELSE off,
                                            IF i < 3 THEN NoMode ELSE off)
    BY <2>3, <2>4
  <2>6. Leads(ms, NoMode, off)
    <3>1. 3 \in 1..Len(ms)
      BY <2>3
    <3> QED
      BY <1>3, <2>3, <2>5, <3>1, LeadsByOne
  <2>7. Last("list", g, ms, 4) /\ Last("keys", g, ms, 4) /\
        Last("tone", g, ms, 7) /\ Last("prompt", g, ms, 7)
    <3>1. Last("list", g, ms, 4)
      BY <1>1, <1>4, <2>3, PacketIs DEF Last, Rights, Leaves, Listing
    <3>2. Last("keys", g, ms, 4)
      BY <1>1, <1>4, <2>3, PacketIs DEF Last, Rights, Leaves, Listing
    <3>3. Last("tone", g, ms, 7)
      BY <1>1, <1>4, <2>3, PacketIs DEF Last, Rights, Leaves, Listing
    <3>4. Last("prompt", g, ms, 7)
      BY <1>1, <1>4, <2>3, PacketIs DEF Last, Rights, Leaves, Listing
    <3> QED
      BY <3>1, <3>2, <3>3, <3>4
  <2> QED
    BY <2>6, <2>7, SettlesParts DEF ms, g, on, off
<1>5. CASE ~Legacy
  <2>1. ms = <<State("offhook", r), Plane, State("proceed", r), Tone("none"),
               Tone("dial"), Softkeys("dialing", r), Prompt("blank")>>
    BY <1>5 DEF OutboundPackets
  <2> HIDE DEF ms
  <2>2. State("offhook", r) \in Packets /\ Plane \in Packets /\
        State("proceed", r) \in Packets /\ Tone("none") \in Packets /\
        Tone("dial") \in Packets /\ Softkeys("dialing", r) \in Packets /\
        Prompt("blank") \in Packets
    BY PacketsTyped DEF Listing, SetNames, PromptNames, ToneNames
  <2>3. /\ ms \in Seq(Packets) /\ Len(ms) = 7
        /\ ms[1] = State("offhook", r) /\ ms[2] = Plane /\
           ms[3] = State("proceed", r) /\ ms[4] = Tone("none") /\
           ms[5] = Tone("dial") /\ ms[6] = Softkeys("dialing", r) /\
           ms[7] = Prompt("blank")
        /\ \A i \in 1..Len(ms) : i = 1 \/ i = 2 \/ i = 3 \/ i = 4 \/ i = 5 \/
           i = 6 \/ i = 7
    BY <2>1, <2>2, SevenPackets
  <2>4. Fits(State("offhook", r), NoMode, off) /\ Fits(Plane, off, off) /\
        Fits(State("proceed", r), off, off) /\ Fits(Tone("none"), off, off) /\
        Fits(Tone("dial"), off, off) /\
        Fits(Softkeys("dialing", r), off, off) /\
        Fits(Prompt("blank"), off, off)
    BY <1>2, FitsFacts DEF Listing, SetNames, PromptNames, ToneNames
  <2>5. \A i \in 1..Len(ms) : Fits(ms[i], IF i <= 1 THEN NoMode ELSE off,
                                            IF i < 1 THEN NoMode ELSE off)
    BY <2>3, <2>4
  <2>6. Leads(ms, NoMode, off)
    <3>1. 1 \in 1..Len(ms)
      BY <2>3
    <3> QED
      BY <1>3, <2>3, <2>5, <3>1, LeadsByOne
  <2>7. Last("list", g, ms, 4) /\ Last("keys", g, ms, 6) /\
        Last("tone", g, ms, 5) /\ Last("prompt", g, ms, 7)
    <3>1. Last("list", g, ms, 4)
      BY <1>1, <1>5, <2>3, PacketIs DEF Last, Rights, Leaves, Listing
    <3>2. Last("keys", g, ms, 6)
      BY <1>1, <1>5, <2>3, PacketIs DEF Last, Rights, Leaves, Listing
    <3>3. Last("tone", g, ms, 5)
      BY <1>1, <1>5, <2>3, PacketIs DEF Last, Rights, Leaves, Listing
    <3>4. Last("prompt", g, ms, 7)
      BY <1>1, <1>5, <2>3, PacketIs DEF Last, Rights, Leaves, Listing
    <3> QED
      BY <3>1, <3>2, <3>3, <3>4
  <2> QED
    BY <2>6, <2>7, SettlesParts DEF ms, g, on, off
<1> QED
  BY <1>4, <1>5

(* The other side rings.                                                    *)
LEMMA RingOutSays ==
  ASSUME NEW r \in Refs, NEW c, c.st = "ringing", c.out = TRUE
  PROVE  /\ Leads(RingOutPackets(r), Mode(r, FALSE), Mode(r, TRUE))
         /\ SettlesAll(Goal(r, c), RingOutPackets(r))
<1> DEFINE ms == RingOutPackets(r)
           g == Goal(r, c)
           off == Mode(r, FALSE)
           on == Mode(r, TRUE)
<1>1. g.ref = r /\ g.st = "ringout" /\ g.keys = "ringout" /\ g.tone = "none"
      /\ g.prompt \in {"any", "RingOut"}
  BY DEF Goal
<1> HIDE DEF g
<1>2. /\ NoMode.ref = NoCall /\ ~NoMode.on
      /\ off.ref = r /\ ~off.on /\ off = Mode(r, NoMode.on) /\ off = Mode(r, off.on)
      /\ on.ref = r /\ on.on /\ on = Mode(r, TRUE) /\ on = Mode(r, on.on) /\ r # NoCall
  BY ScreenAssumption DEF Mode, NoMode
<1>3. NoMode \in Modes /\ on \in Modes /\ off \in Modes
  BY ModesOf
<1> HIDE DEF off, on
<1>4. Leads(ms, off, on) /\ SettlesAll(g, ms)
  <2>1. ms = <<Tone("none"), State("ringout", r), Info("out", r),
               Prompt("RingOut"), Softkeys("ringout", r)>>
    BY DEF RingOutPackets
  <2> HIDE DEF ms
  <2>2. Tone("none") \in Packets /\ State("ringout", r) \in Packets /\
        Info("out", r) \in Packets /\ Prompt("RingOut") \in Packets /\
        Softkeys("ringout", r) \in Packets
    BY PacketsTyped DEF Listing, SetNames, PromptNames, ToneNames
  <2>3. /\ ms \in Seq(Packets) /\ Len(ms) = 5
        /\ ms[1] = Tone("none") /\ ms[2] = State("ringout", r) /\
           ms[3] = Info("out", r) /\ ms[4] = Prompt("RingOut") /\
           ms[5] = Softkeys("ringout", r)
        /\ \A i \in 1..Len(ms) : i = 1 \/ i = 2 \/ i = 3 \/ i = 4 \/ i = 5
    BY <2>1, <2>2, FivePackets
  <2>4. Fits(Tone("none"), off, off) /\ Fits(State("ringout", r), off, on) /\
        Fits(Info("out", r), on, on) /\ Fits(Prompt("RingOut"), on, on) /\
        Fits(Softkeys("ringout", r), on, on)
    BY <1>2, FitsFacts DEF Listing, SetNames, PromptNames, ToneNames
  <2>5. \A i \in 1..Len(ms) : Fits(ms[i], IF i <= 2 THEN off ELSE on,
                                            IF i < 2 THEN off ELSE on)
    BY <2>3, <2>4
  <2>6. Leads(ms, off, on)
    <3>1. 2 \in 1..Len(ms)
      BY <2>3
    <3> QED
      BY <1>3, <2>3, <2>5, <3>1, LeadsByOne
  <2>7. Last("list", g, ms, 2) /\ Last("keys", g, ms, 5) /\
        Last("tone", g, ms, 1) /\ Last("prompt", g, ms, 4)
    <3>1. Last("list", g, ms, 2)
      BY <1>1, <2>3, PacketIs DEF Last, Rights, Leaves, Listing
    <3>2. Last("keys", g, ms, 5)
      BY <1>1, <2>3, PacketIs DEF Last, Rights, Leaves, Listing
    <3>3. Last("tone", g, ms, 1)
      BY <1>1, <2>3, PacketIs DEF Last, Rights, Leaves, Listing
    <3>4. Last("prompt", g, ms, 4)
      BY <1>1, <2>3, PacketIs DEF Last, Rights, Leaves, Listing
    <3> QED
      BY <3>1, <3>2, <3>3, <3>4
  <2> QED
    BY <2>6, <2>7, SettlesParts
<1> QED
  BY <1>4 DEF ms, g, on, off

(* The IVR answers.                                                         *)
LEMMA IvrSays ==
  ASSUME NEW r \in Refs, NEW c, c.st = "connected", c.ivr = TRUE
  PROVE  /\ Leads(IvrPackets(r), Mode(r, TRUE), Mode(r, TRUE))
         /\ SettlesAll(Goal(r, c), IvrPackets(r))
<1> DEFINE ms == IvrPackets(r)
           g == Goal(r, c)
           off == Mode(r, FALSE)
           on == Mode(r, TRUE)
<1>1. g.ref = r /\ g.st = "connected" /\ g.keys = "dialing" /\ g.tone = "none" /\ g.prompt = "any"
  BY DEF Goal
<1> HIDE DEF g
<1>2. /\ NoMode.ref = NoCall /\ ~NoMode.on
      /\ off.ref = r /\ ~off.on /\ off = Mode(r, NoMode.on) /\ off = Mode(r, off.on)
      /\ on.ref = r /\ on.on /\ on = Mode(r, TRUE) /\ on = Mode(r, on.on) /\ r # NoCall
  BY ScreenAssumption DEF Mode, NoMode
<1>3. NoMode \in Modes /\ on \in Modes /\ off \in Modes
  BY ModesOf
<1> HIDE DEF off, on
<1>4. CASE Legacy
  <2>1. ms = <<Tone("none"), State("connected", r), Softkeys("dialing", r),
               Prompt("number"), Info("out", r), Softkeys("dialing", r)>>
    BY <1>4 DEF IvrPackets
  <2> HIDE DEF ms
  <2>2. Tone("none") \in Packets /\ State("connected", r) \in Packets /\
        Softkeys("dialing", r) \in Packets /\ Prompt("number") \in Packets /\
        Info("out", r) \in Packets
    BY PacketsTyped DEF Listing, SetNames, PromptNames, ToneNames
  <2>3. /\ ms \in Seq(Packets) /\ Len(ms) = 6
        /\ ms[1] = Tone("none") /\ ms[2] = State("connected", r) /\
           ms[3] = Softkeys("dialing", r) /\ ms[4] = Prompt("number") /\
           ms[5] = Info("out", r) /\ ms[6] = Softkeys("dialing", r)
        /\ \A i \in 1..Len(ms) : i = 1 \/ i = 2 \/ i = 3 \/ i = 4 \/ i = 5 \/
           i = 6
    BY <2>1, <2>2, SixPackets
  <2>4. Fits(Tone("none"), on, on) /\ Fits(State("connected", r), on, on) /\
        Fits(Softkeys("dialing", r), on, on) /\
        Fits(Prompt("number"), on, on) /\ Fits(Info("out", r), on, on)
    BY <1>2, FitsFacts DEF Listing, SetNames, PromptNames, ToneNames
  <2>5. \A i \in 1..Len(ms) : Fits(ms[i], on, on)
    BY <2>3, <2>4
  <2>6. Leads(ms, on, on)
    BY <1>3, <2>3, <2>5, LeadsAlong
  <2>7. Last("list", g, ms, 2) /\ Last("keys", g, ms, 6) /\
        Last("tone", g, ms, 1) /\ Last("prompt", g, ms, 6)
    <3>1. Last("list", g, ms, 2)
      BY <1>1, <1>4, <2>3, PacketIs DEF Last, Rights, Leaves, Listing
    <3>2. Last("keys", g, ms, 6)
      BY <1>1, <1>4, <2>3, PacketIs DEF Last, Rights, Leaves, Listing
    <3>3. Last("tone", g, ms, 1)
      BY <1>1, <1>4, <2>3, PacketIs DEF Last, Rights, Leaves, Listing
    <3>4. Last("prompt", g, ms, 6)
      BY <1>1, <1>4, <2>3, PacketIs DEF Last, Rights, Leaves, Listing
    <3> QED
      BY <3>1, <3>2, <3>3, <3>4
  <2> QED
    BY <2>6, <2>7, SettlesParts DEF ms, g, on, off
<1>5. CASE ~Legacy
  <2>1. ms = <<Tone("none"), State("connected", r), Info("out", r),
               Prompt("Connected"), Softkeys("dialing", r),
               Softkeys("dialing", r)>>
    BY <1>5 DEF IvrPackets
  <2> HIDE DEF ms
  <2>2. Tone("none") \in Packets /\ State("connected", r) \in Packets /\
        Info("out", r) \in Packets /\ Prompt("Connected") \in Packets /\
        Softkeys("dialing", r) \in Packets
    BY PacketsTyped DEF Listing, SetNames, PromptNames, ToneNames
  <2>3. /\ ms \in Seq(Packets) /\ Len(ms) = 6
        /\ ms[1] = Tone("none") /\ ms[2] = State("connected", r) /\
           ms[3] = Info("out", r) /\ ms[4] = Prompt("Connected") /\
           ms[5] = Softkeys("dialing", r) /\ ms[6] = Softkeys("dialing", r)
        /\ \A i \in 1..Len(ms) : i = 1 \/ i = 2 \/ i = 3 \/ i = 4 \/ i = 5 \/
           i = 6
    BY <2>1, <2>2, SixPackets
  <2>4. Fits(Tone("none"), on, on) /\ Fits(State("connected", r), on, on) /\
        Fits(Info("out", r), on, on) /\ Fits(Prompt("Connected"), on, on) /\
        Fits(Softkeys("dialing", r), on, on)
    BY <1>2, FitsFacts DEF Listing, SetNames, PromptNames, ToneNames
  <2>5. \A i \in 1..Len(ms) : Fits(ms[i], on, on)
    BY <2>3, <2>4
  <2>6. Leads(ms, on, on)
    BY <1>3, <2>3, <2>5, LeadsAlong
  <2>7. Last("list", g, ms, 2) /\ Last("keys", g, ms, 6) /\
        Last("tone", g, ms, 1) /\ Last("prompt", g, ms, 6)
    <3>1. Last("list", g, ms, 2)
      BY <1>1, <1>5, <2>3, PacketIs DEF Last, Rights, Leaves, Listing
    <3>2. Last("keys", g, ms, 6)
      BY <1>1, <1>5, <2>3, PacketIs DEF Last, Rights, Leaves, Listing
    <3>3. Last("tone", g, ms, 1)
      BY <1>1, <1>5, <2>3, PacketIs DEF Last, Rights, Leaves, Listing
    <3>4. Last("prompt", g, ms, 6)
      BY <1>1, <1>5, <2>3, PacketIs DEF Last, Rights, Leaves, Listing
    <3> QED
      BY <3>1, <3>2, <3>3, <3>4
  <2> QED
    BY <2>6, <2>7, SettlesParts DEF ms, g, on, off
<1> QED
  BY <1>4, <1>5

(* The other side answers, or a held call is resumed.                       *)
LEMMA ConnectSays ==
  ASSUME NEW r \in Refs, NEW c, c.st = "connected", c.ivr = FALSE
  PROVE  /\ Leads(ConnectPackets(c, r), Mode(r, TRUE), Mode(r, TRUE))
         /\ SettlesAll(Goal(r, c), ConnectPackets(c, r))
<1> DEFINE ms == ConnectPackets(c, r)
           g == Goal(r, c)
           off == Mode(r, FALSE)
           on == Mode(r, TRUE)
<1>1. g.ref = r /\ g.st = "connected" /\ g.keys = "connected" /\ g.tone = "none"
      /\ g.prompt \in {"any", "Connected"} /\ Way(c) \in {"in", "out"}
  BY DEF Goal, Way
<1> HIDE DEF g
<1>2. /\ NoMode.ref = NoCall /\ ~NoMode.on
      /\ off.ref = r /\ ~off.on /\ off = Mode(r, NoMode.on) /\ off = Mode(r, off.on)
      /\ on.ref = r /\ on.on /\ on = Mode(r, TRUE) /\ on = Mode(r, on.on) /\ r # NoCall
  BY ScreenAssumption DEF Mode, NoMode
<1>3. NoMode \in Modes /\ on \in Modes /\ off \in Modes
  BY ModesOf
<1> HIDE DEF off, on
<1>4. Leads(ms, on, on) /\ SettlesAll(g, ms)
  <2>1. ms = <<Tone("none"), State("connected", r), Info(Way(c), r),
               Prompt("Connected"), Softkeys("connected", r)>>
    BY DEF ConnectPackets
  <2> HIDE DEF ms
  <2>2. Tone("none") \in Packets /\ State("connected", r) \in Packets /\
        Info(Way(c), r) \in Packets /\ Prompt("Connected") \in Packets /\
        Softkeys("connected", r) \in Packets
    BY <1>1, PacketsTyped DEF Listing, SetNames, PromptNames, ToneNames
  <2>3. /\ ms \in Seq(Packets) /\ Len(ms) = 5
        /\ ms[1] = Tone("none") /\ ms[2] = State("connected", r) /\
           ms[3] = Info(Way(c), r) /\ ms[4] = Prompt("Connected") /\
           ms[5] = Softkeys("connected", r)
        /\ \A i \in 1..Len(ms) : i = 1 \/ i = 2 \/ i = 3 \/ i = 4 \/ i = 5
    BY <2>1, <2>2, FivePackets
  <2>4. Fits(Tone("none"), on, on) /\ Fits(State("connected", r), on, on) /\
        Fits(Info(Way(c), r), on, on) /\ Fits(Prompt("Connected"), on, on) /\
        Fits(Softkeys("connected", r), on, on)
    BY <1>1, <1>2, FitsFacts DEF Listing, SetNames, PromptNames, ToneNames
  <2>5. \A i \in 1..Len(ms) : Fits(ms[i], on, on)
    BY <2>3, <2>4
  <2>6. Leads(ms, on, on)
    BY <1>3, <2>3, <2>5, LeadsAlong
  <2>7. Last("list", g, ms, 2) /\ Last("keys", g, ms, 5) /\
        Last("tone", g, ms, 1) /\ Last("prompt", g, ms, 4)
    <3>1. Last("list", g, ms, 2)
      BY <1>1, <2>3, PacketIs DEF Last, Rights, Leaves, Listing
    <3>2. Last("keys", g, ms, 5)
      BY <1>1, <2>3, PacketIs DEF Last, Rights, Leaves, Listing
    <3>3. Last("tone", g, ms, 1)
      BY <1>1, <2>3, PacketIs DEF Last, Rights, Leaves, Listing
    <3>4. Last("prompt", g, ms, 4)
      BY <1>1, <2>3, PacketIs DEF Last, Rights, Leaves, Listing
    <3> QED
      BY <3>1, <3>2, <3>3, <3>4
  <2> QED
    BY <2>6, <2>7, SettlesParts
<1> QED
  BY <1>4 DEF ms, g, on, off

(* A legacy phone has answered.                                             *)
LEMMA AnswerSays ==
  ASSUME NEW r \in Refs, NEW c, c.st = "connected", c.ivr = FALSE, Legacy
  PROVE  /\ Leads(AnswerPackets(r), Mode(r, TRUE), Mode(r, TRUE))
         /\ SettlesAll(Goal(r, c), AnswerPackets(r))
<1> DEFINE ms == AnswerPackets(r)
           g == Goal(r, c)
           off == Mode(r, FALSE)
           on == Mode(r, TRUE)
<1>1. g.ref = r /\ g.st = "connected" /\ g.keys = "connected" /\ g.tone = "none" /\ g.prompt = "any"
  BY DEF Goal
<1> HIDE DEF g
<1>2. /\ NoMode.ref = NoCall /\ ~NoMode.on
      /\ off.ref = r /\ ~off.on /\ off = Mode(r, NoMode.on) /\ off = Mode(r, off.on)
      /\ on.ref = r /\ on.on /\ on = Mode(r, TRUE) /\ on = Mode(r, on.on) /\ r # NoCall
  BY ScreenAssumption DEF Mode, NoMode
<1>3. NoMode \in Modes /\ on \in Modes /\ off \in Modes
  BY ModesOf
<1> HIDE DEF off, on
<1>4. Leads(ms, on, on) /\ SettlesAll(g, ms)
  <2>1. ms = <<Ringer(NoCall), Lamp("on"), State("offhook", r), Plane,
               Ringer(r), Tone("none"), Tone("none"), State("connected", r),
               Softkeys("connected", r), Prompt("number"), Info("in", r)>>
    BY DEF AnswerPackets
  <2> HIDE DEF ms
  <2>2. Ringer(NoCall) \in Packets /\ Lamp("on") \in Packets /\
        State("offhook", r) \in Packets /\ Plane \in Packets /\
        Ringer(r) \in Packets /\ Tone("none") \in Packets /\
        State("connected", r) \in Packets /\
        Softkeys("connected", r) \in Packets /\
        Prompt("number") \in Packets /\ Info("in", r) \in Packets
    BY PacketsTyped DEF Listing, SetNames, PromptNames, ToneNames
  <2>3. /\ ms \in Seq(Packets) /\ Len(ms) = 11
        /\ ms[1] = Ringer(NoCall) /\ ms[2] = Lamp("on") /\
           ms[3] = State("offhook", r) /\ ms[4] = Plane /\
           ms[5] = Ringer(r) /\ ms[6] = Tone("none") /\
           ms[7] = Tone("none") /\ ms[8] = State("connected", r) /\
           ms[9] = Softkeys("connected", r) /\ ms[10] = Prompt("number") /\
           ms[11] = Info("in", r)
        /\ \A i \in 1..Len(ms) : i = 1 \/ i = 2 \/ i = 3 \/ i = 4 \/ i = 5 \/
           i = 6 \/ i = 7 \/ i = 8 \/ i = 9 \/ i = 10 \/ i = 11
    BY <2>1, <2>2, ElevenPackets
  <2>4. Fits(Ringer(NoCall), on, on) /\ Fits(Lamp("on"), on, on) /\
        Fits(State("offhook", r), on, on) /\ Fits(Plane, on, on) /\
        Fits(Ringer(r), on, on) /\ Fits(Tone("none"), on, on) /\
        Fits(State("connected", r), on, on) /\
        Fits(Softkeys("connected", r), on, on) /\
        Fits(Prompt("number"), on, on) /\ Fits(Info("in", r), on, on)
    BY <1>2, FitsFacts DEF Listing, SetNames, PromptNames, ToneNames
  <2>5. \A i \in 1..Len(ms) : Fits(ms[i], on, on)
    BY <2>3, <2>4
  <2>6. Leads(ms, on, on)
    BY <1>3, <2>3, <2>5, LeadsAlong
  <2>7. Last("list", g, ms, 8) /\ Last("keys", g, ms, 9) /\
        Last("tone", g, ms, 7) /\ Last("prompt", g, ms, 11)
    <3>1. Last("list", g, ms, 8)
      BY <1>1, <2>3, PacketIs DEF Last, Rights, Leaves, Listing
    <3>2. Last("keys", g, ms, 9)
      BY <1>1, <2>3, PacketIs DEF Last, Rights, Leaves, Listing
    <3>3. Last("tone", g, ms, 7)
      BY <1>1, <2>3, PacketIs DEF Last, Rights, Leaves, Listing
    <3>4. Last("prompt", g, ms, 11)
      BY <1>1, <2>3, PacketIs DEF Last, Rights, Leaves, Listing
    <3> QED
      BY <3>1, <3>2, <3>3, <3>4
  <2> QED
    BY <2>6, <2>7, SettlesParts
<1> QED
  BY <1>4 DEF ms, g, on, off

(* One side holds.                                                          *)
LEMMA HoldSays ==
  ASSUME NEW r \in Refs, NEW c, c.st = "held"
  PROVE  /\ Leads(HoldPackets(c, r), Mode(r, TRUE), Mode(r, TRUE))
         /\ SettlesAll(Goal(r, c), HoldPackets(c, r))
<1> DEFINE ms == HoldPackets(c, r)
           g == Goal(r, c)
           off == Mode(r, FALSE)
           on == Mode(r, TRUE)
<1>1. g.ref = r /\ g.st = "hold" /\ g.keys = "held" /\ g.tone \in ToneNames
      /\ g.tone = (IF c.mine THEN "hold" ELSE "remote_hold")
      /\ g.prompt \in {"any", IF c.mine THEN "OnHold" ELSE "RemoteHold"} /\ Way(c) \in {"in", "out"}
  BY DEF Goal, Way, ToneNames
<1> HIDE DEF g
<1>2. /\ NoMode.ref = NoCall /\ ~NoMode.on
      /\ off.ref = r /\ ~off.on /\ off = Mode(r, NoMode.on) /\ off = Mode(r, off.on)
      /\ on.ref = r /\ on.on /\ on = Mode(r, TRUE) /\ on = Mode(r, on.on) /\ r # NoCall
  BY ScreenAssumption DEF Mode, NoMode
<1>3. NoMode \in Modes /\ on \in Modes /\ off \in Modes
  BY ModesOf
<1> HIDE DEF off, on
<1>4. Leads(ms, on, on) /\ SettlesAll(g, ms)
  <2>1. ms = <<Tone("none"), State("hold", r), Info(Way(c), r), Tone(g.tone),
               Prompt(IF c.mine THEN "OnHold" ELSE "RemoteHold"),
               Softkeys("held", r)>>
    BY <1>1 DEF HoldPackets
  <2> HIDE DEF ms
  <2>2. Tone("none") \in Packets /\ State("hold", r) \in Packets /\
        Info(Way(c), r) \in Packets /\ Tone(g.tone) \in Packets /\
        Prompt(IF c.mine THEN "OnHold" ELSE "RemoteHold") \in Packets /\
        Softkeys("held", r) \in Packets
    BY <1>1, PacketsTyped DEF Listing, SetNames, PromptNames, ToneNames
  <2>3. /\ ms \in Seq(Packets) /\ Len(ms) = 6
        /\ ms[1] = Tone("none") /\ ms[2] = State("hold", r) /\
           ms[3] = Info(Way(c), r) /\ ms[4] = Tone(g.tone) /\
           ms[5] = Prompt(IF c.mine THEN "OnHold" ELSE "RemoteHold") /\
           ms[6] = Softkeys("held", r)
        /\ \A i \in 1..Len(ms) : i = 1 \/ i = 2 \/ i = 3 \/ i = 4 \/ i = 5 \/
           i = 6
    BY <2>1, <2>2, SixPackets
  <2>4. Fits(Tone("none"), on, on) /\ Fits(State("hold", r), on, on) /\
        Fits(Info(Way(c), r), on, on) /\ Fits(Tone(g.tone), on, on) /\
        Fits(Prompt(IF c.mine THEN "OnHold" ELSE "RemoteHold"), on, on) /\
        Fits(Softkeys("held", r), on, on)
    BY <1>1, <1>2, FitsFacts DEF Listing, SetNames, PromptNames, ToneNames
  <2>5. \A i \in 1..Len(ms) : Fits(ms[i], on, on)
    BY <2>3, <2>4
  <2>6. Leads(ms, on, on)
    BY <1>3, <2>3, <2>5, LeadsAlong
  <2>7. Last("list", g, ms, 2) /\ Last("keys", g, ms, 6) /\
        Last("tone", g, ms, 4) /\ Last("prompt", g, ms, 5)
    <3>1. Last("list", g, ms, 2)
      BY <1>1, <2>3, PacketIs DEF Last, Rights, Leaves, Listing
    <3>2. Last("keys", g, ms, 6)
      BY <1>1, <2>3, PacketIs DEF Last, Rights, Leaves, Listing
    <3>3. Last("tone", g, ms, 4)
      BY <1>1, <2>3, PacketIs DEF Last, Rights, Leaves, Listing
    <3>4. Last("prompt", g, ms, 5)
      BY <1>1, <2>3, PacketIs DEF Last, Rights, Leaves, Listing
    <3> QED
      BY <3>1, <3>2, <3>3, <3>4
  <2> QED
    BY <2>6, <2>7, SettlesParts
<1> QED
  BY <1>4 DEF ms, g, on, off

LEMMA SettlesOnce ==
  ASSUME NEW reg, NEW g, NEW ms, NEW k, Last(reg, g, ms, k)
  PROVE  Settles(reg, g, ms)
BY DEF Last, Settles

(* A call comes in; a legacy phone gets no tone.                            *)
LEMMA RingInSays ==
  ASSUME NEW r \in Refs, NEW c, c.st = "ringing", c.out = FALSE, c.ivr = FALSE, kind \in Kind
  PROVE  /\ Leads(RingInPackets(r), NoMode, Mode(r, TRUE))
         /\ Settles("list", Goal(r, c), RingInPackets(r))
         /\ Settles("keys", Goal(r, c), RingInPackets(r))
         /\ Settles("prompt", Goal(r, c), RingInPackets(r))
         /\ \/ Settles("tone", Goal(r, c), RingInPackets(r))
            \/ /\ Goal(r, c).tone = "none"
               /\ \A j \in 1..Len(RingInPackets(r)) : Leaves("tone", Goal(r, c), RingInPackets(r)[j])
<1> DEFINE ms == RingInPackets(r)
           g == Goal(r, c)
           off == Mode(r, FALSE)
           on == Mode(r, TRUE)
<1>1. g.ref = r /\ g.st = "ringin" /\ g.keys = "ringin"
      /\ g.tone = (IF Legacy THEN "none" ELSE "ring")
      /\ g.prompt = (IF Legacy THEN "any" ELSE "RingIn")
  BY DEF Goal, Kind, Legacy
<1> HIDE DEF g
<1>2. /\ NoMode.ref = NoCall /\ ~NoMode.on
      /\ off.ref = r /\ ~off.on /\ off = Mode(r, NoMode.on) /\ off = Mode(r, off.on)
      /\ on.ref = r /\ on.on /\ on = Mode(r, TRUE) /\ on = Mode(r, on.on) /\ r # NoCall
  BY ScreenAssumption DEF Mode, NoMode
<1>3. NoMode \in Modes /\ on \in Modes /\ off \in Modes
  BY ModesOf
<1> HIDE DEF off, on
<1>4. CASE Legacy
  <2>1. ms = <<State("ringin", r), Softkeys("ringin", r), Prompt("number"),
               Info("in", r), Lamp("flash"), Ringer(r), Softkeys("ringin", r)>>
    BY <1>4 DEF RingInPackets
  <2> HIDE DEF ms
  <2>2. State("ringin", r) \in Packets /\ Softkeys("ringin", r) \in Packets /\
        Prompt("number") \in Packets /\ Info("in", r) \in Packets /\
        Lamp("flash") \in Packets /\ Ringer(r) \in Packets
    BY PacketsTyped DEF Listing, SetNames, PromptNames, ToneNames
  <2>3. /\ ms \in Seq(Packets) /\ Len(ms) = 7
        /\ ms[1] = State("ringin", r) /\ ms[2] = Softkeys("ringin", r) /\
           ms[3] = Prompt("number") /\ ms[4] = Info("in", r) /\
           ms[5] = Lamp("flash") /\ ms[6] = Ringer(r) /\
           ms[7] = Softkeys("ringin", r)
        /\ \A i \in 1..Len(ms) : i = 1 \/ i = 2 \/ i = 3 \/ i = 4 \/ i = 5 \/
           i = 6 \/ i = 7
    BY <2>1, <2>2, SevenPackets
  <2>4. Fits(State("ringin", r), NoMode, on) /\
        Fits(Softkeys("ringin", r), on, on) /\
        Fits(Prompt("number"), on, on) /\ Fits(Info("in", r), on, on) /\
        Fits(Lamp("flash"), on, on) /\ Fits(Ringer(r), on, on)
    BY <1>2, FitsFacts DEF Listing, SetNames, PromptNames, ToneNames
  <2>5. \A i \in 1..Len(ms) : Fits(ms[i], IF i <= 1 THEN NoMode ELSE on,
                                            IF i < 1 THEN NoMode ELSE on)
    BY <2>3, <2>4
  <2>6. Leads(ms, NoMode, on)
    <3>1. 1 \in 1..Len(ms)
      BY <2>3
    <3> QED
      BY <1>3, <2>3, <2>5, <3>1, LeadsByOne
  <2>7. Last("list", g, ms, 1) /\ Last("keys", g, ms, 7) /\
        Last("prompt", g, ms, 7) /\
        \A j \in 1..Len(ms) : Leaves("tone", g, ms[j])
    <3>1. Last("list", g, ms, 1)
      BY <1>1, <1>4, <2>3, PacketIs DEF Last, Rights, Leaves, Listing
    <3>2. Last("keys", g, ms, 7)
      BY <1>1, <1>4, <2>3, PacketIs DEF Last, Rights, Leaves, Listing
    <3>3. Last("prompt", g, ms, 7)
      BY <1>1, <1>4, <2>3, PacketIs DEF Last, Rights, Leaves, Listing
    <3>4. \A j \in 1..Len(ms) : Leaves("tone", g, ms[j])
      BY <1>1, <1>4, <2>3, PacketIs DEF Last, Rights, Leaves, Listing
    <3> QED
      BY <3>1, <3>2, <3>3, <3>4
  <2> QED
    BY <1>1, <1>4, <2>6, <2>7, SettlesOnce DEF ms, g, on, off
<1>5. CASE ~Legacy
  <2>1. ms = <<State("ringin", r), Info("in", r), Tone("ring"),
               Prompt("RingIn"), Softkeys("ringin", r)>>
    BY <1>5 DEF RingInPackets
  <2> HIDE DEF ms
  <2>2. State("ringin", r) \in Packets /\ Info("in", r) \in Packets /\
        Tone("ring") \in Packets /\ Prompt("RingIn") \in Packets /\
        Softkeys("ringin", r) \in Packets
    BY PacketsTyped DEF Listing, SetNames, PromptNames, ToneNames
  <2>3. /\ ms \in Seq(Packets) /\ Len(ms) = 5
        /\ ms[1] = State("ringin", r) /\ ms[2] = Info("in", r) /\
           ms[3] = Tone("ring") /\ ms[4] = Prompt("RingIn") /\
           ms[5] = Softkeys("ringin", r)
        /\ \A i \in 1..Len(ms) : i = 1 \/ i = 2 \/ i = 3 \/ i = 4 \/ i = 5
    BY <2>1, <2>2, FivePackets
  <2>4. Fits(State("ringin", r), NoMode, on) /\ Fits(Info("in", r), on, on) /\
        Fits(Tone("ring"), on, on) /\ Fits(Prompt("RingIn"), on, on) /\
        Fits(Softkeys("ringin", r), on, on)
    BY <1>2, FitsFacts DEF Listing, SetNames, PromptNames, ToneNames
  <2>5. \A i \in 1..Len(ms) : Fits(ms[i], IF i <= 1 THEN NoMode ELSE on,
                                            IF i < 1 THEN NoMode ELSE on)
    BY <2>3, <2>4
  <2>6. Leads(ms, NoMode, on)
    <3>1. 1 \in 1..Len(ms)
      BY <2>3
    <3> QED
      BY <1>3, <2>3, <2>5, <3>1, LeadsByOne
  <2>7. Last("list", g, ms, 1) /\ Last("keys", g, ms, 5) /\
        Last("tone", g, ms, 3) /\ Last("prompt", g, ms, 4)
    <3>1. Last("list", g, ms, 1)
      BY <1>1, <1>5, <2>3, PacketIs DEF Last, Rights, Leaves, Listing
    <3>2. Last("keys", g, ms, 5)
      BY <1>1, <1>5, <2>3, PacketIs DEF Last, Rights, Leaves, Listing
    <3>3. Last("tone", g, ms, 3)
      BY <1>1, <1>5, <2>3, PacketIs DEF Last, Rights, Leaves, Listing
    <3>4. Last("prompt", g, ms, 4)
      BY <1>1, <1>5, <2>3, PacketIs DEF Last, Rights, Leaves, Listing
    <3> QED
      BY <3>1, <3>2, <3>3, <3>4
  <2> QED
    BY <1>1, <1>5, <2>6, <2>7, SettlesOnce DEF ms, g, on, off
<1> QED
  BY <1>4, <1>5

(* No call is left, ...                                                     *)
LEMMA IdleSays ==
  ASSUME NEW r \in Refs
  PROVE  /\ Leads(IdlePackets, NoMode, NoMode)
         /\ Settles("list", IdleGoal, IdlePackets)
         /\ Settles("keys", IdleGoal, IdlePackets)
         /\ Settles("prompt", IdleGoal, IdlePackets)
         /\ \A j \in 1..Len(IdlePackets) : Leaves("tone", IdleGoal, IdlePackets[j])
<1> DEFINE ms == IdlePackets
           g == IdleGoal
           off == Mode(r, FALSE)
           on == Mode(r, TRUE)
<1>1. g.ref = NoCall /\ g.st = "none" /\ g.keys = "idle" /\ g.tone = "none"
      /\ g.prompt = (IF Legacy THEN "any" ELSE "Ready")
  BY DEF IdleGoal
<1> HIDE DEF g
<1>2. /\ NoMode.ref = NoCall /\ ~NoMode.on
      /\ off.ref = r /\ ~off.on /\ off = Mode(r, NoMode.on) /\ off = Mode(r, off.on)
      /\ on.ref = r /\ on.on /\ on = Mode(r, TRUE) /\ on = Mode(r, on.on) /\ r # NoCall
  BY ScreenAssumption DEF Mode, NoMode
<1>3. NoMode \in Modes /\ on \in Modes /\ off \in Modes
  BY ModesOf
<1> HIDE DEF off, on
<1>4. CASE Legacy
  <2>1. ms = <<Lamp("off"), Prompt("blank"), Softkeys("idle", NoCall)>>
    BY <1>4 DEF IdlePackets
  <2> HIDE DEF ms
  <2>2. Lamp("off") \in Packets /\ Prompt("blank") \in Packets /\
        Softkeys("idle", NoCall) \in Packets
    BY PacketsTyped DEF Listing, SetNames, PromptNames, ToneNames
  <2>3. /\ ms \in Seq(Packets) /\ Len(ms) = 3
        /\ ms[1] = Lamp("off") /\ ms[2] = Prompt("blank") /\
           ms[3] = Softkeys("idle", NoCall)
        /\ \A i \in 1..Len(ms) : i = 1 \/ i = 2 \/ i = 3
    BY <2>1, <2>2, ThreePackets
  <2>4. Fits(Lamp("off"), NoMode, NoMode) /\
        Fits(Prompt("blank"), NoMode, NoMode) /\
        Fits(Softkeys("idle", NoCall), NoMode, NoMode)
    BY <1>2, FitsFacts DEF Listing, SetNames, PromptNames, ToneNames
  <2>5. \A i \in 1..Len(ms) : Fits(ms[i], NoMode, NoMode)
    BY <2>3, <2>4
  <2>6. Leads(ms, NoMode, NoMode)
    BY <1>3, <2>3, <2>5, LeadsAlong
  <2>7. Last("list", g, ms, 3) /\ Last("keys", g, ms, 3) /\
        Last("prompt", g, ms, 3) /\
        \A j \in 1..Len(ms) : Leaves("tone", g, ms[j])
    <3>1. Last("list", g, ms, 3)
      BY <1>1, <1>4, <2>3, PacketIs DEF Last, Rights, Leaves, Listing
    <3>2. Last("keys", g, ms, 3)
      BY <1>1, <1>4, <2>3, PacketIs DEF Last, Rights, Leaves, Listing
    <3>3. Last("prompt", g, ms, 3)
      BY <1>1, <1>4, <2>3, PacketIs DEF Last, Rights, Leaves, Listing
    <3>4. \A j \in 1..Len(ms) : Leaves("tone", g, ms[j])
      BY <1>1, <1>4, <2>3, PacketIs DEF Last, Rights, Leaves, Listing
    <3> QED
      BY <3>1, <3>2, <3>3, <3>4
  <2> QED
    BY <1>1, <1>4, <2>6, <2>7, SettlesOnce DEF ms, g, on, off
<1>5. CASE ~Legacy
  <2>1. ms = <<Prompt("Ready"), Softkeys("idle", NoCall)>>
    BY <1>5 DEF IdlePackets
  <2> HIDE DEF ms
  <2>2. Prompt("Ready") \in Packets /\ Softkeys("idle", NoCall) \in Packets
    BY PacketsTyped DEF Listing, SetNames, PromptNames, ToneNames
  <2>3. /\ ms \in Seq(Packets) /\ Len(ms) = 2
        /\ ms[1] = Prompt("Ready") /\ ms[2] = Softkeys("idle", NoCall)
        /\ \A i \in 1..Len(ms) : i = 1 \/ i = 2
    BY <2>1, <2>2, TwoPackets
  <2>4. Fits(Prompt("Ready"), NoMode, NoMode) /\
        Fits(Softkeys("idle", NoCall), NoMode, NoMode)
    BY <1>2, FitsFacts DEF Listing, SetNames, PromptNames, ToneNames
  <2>5. \A i \in 1..Len(ms) : Fits(ms[i], NoMode, NoMode)
    BY <2>3, <2>4
  <2>6. Leads(ms, NoMode, NoMode)
    BY <1>3, <2>3, <2>5, LeadsAlong
  <2>7. Last("list", g, ms, 2) /\ Last("keys", g, ms, 2) /\
        Last("prompt", g, ms, 1) /\
        \A j \in 1..Len(ms) : Leaves("tone", g, ms[j])
    <3>1. Last("list", g, ms, 2)
      BY <1>1, <1>5, <2>3, PacketIs DEF Last, Rights, Leaves, Listing
    <3>2. Last("keys", g, ms, 2)
      BY <1>1, <1>5, <2>3, PacketIs DEF Last, Rights, Leaves, Listing
    <3>3. Last("prompt", g, ms, 1)
      BY <1>1, <1>5, <2>3, PacketIs DEF Last, Rights, Leaves, Listing
    <3>4. \A j \in 1..Len(ms) : Leaves("tone", g, ms[j])
      BY <1>1, <1>5, <2>3, PacketIs DEF Last, Rights, Leaves, Listing
    <3> QED
      BY <3>1, <3>2, <3>3, <3>4
  <2> QED
    BY <1>1, <1>5, <2>6, <2>7, SettlesOnce DEF ms, g, on, off
<1> QED
  BY <1>4, <1>5

(* ... and the last is gone.                                                *)
LEMMA ByeSays ==
  ASSUME NEW r \in Refs, NEW b \in BOOLEAN
  PROVE  /\ Leads(<<Tone("none"), State("onhook", r)>>, Mode(r, b), NoMode)
         /\ Settles("tone", IdleGoal, <<Tone("none"), State("onhook", r)>>)
<1> DEFINE ms == <<Tone("none"), State("onhook", r)>>
           a == Mode(r, b)
<1>1. a \in Modes /\ NoMode \in Modes /\ a.ref = r /\ r # NoCall
  BY ModesOf DEF Mode
<1>2. Tone("none") \in Packets /\ State("onhook", r) \in Packets
  BY PacketsTyped DEF Listing, ToneNames
<1> DEFINE p == Tone("none")
           z == State("onhook", r)
<1>3. /\ ms \in Seq(Packets) /\ Len(ms) = 2 /\ ms[1] = p /\ ms[2] = z
      /\ \A i \in 1..Len(ms) : i = 1 \/ i = 2
  BY <1>2, TwoPackets
<1> HIDE DEF ms
<1>4. Fits(p, a, a) /\ Fits(z, a, NoMode)
  BY <1>1, FitsFacts DEF ToneNames
<1>5. Leads(ms, a, NoMode)
  <2> HIDE DEF a, p, z
  <2>1. \A i \in 1..Len(ms) : Fits(ms[i], IF i <= 2 THEN a ELSE NoMode, IF i < 2 THEN a ELSE NoMode)
    BY <1>3, <1>4
  <2>2. 2 \in 1..Len(ms)
    BY <1>3
  <2> QED
    BY <1>1, <1>3, <2>1, <2>2, LeadsByOne
<1>6. Last("tone", IdleGoal, ms, 1)
  BY <1>3, PacketIs DEF Last, Rights, Leaves, IdleGoal
<1> QED
  BY <1>5, <1>6, SettlesOnce DEF ms

EndPackets(r) == <<Tone("none"), State("onhook", r)>> \o IdlePackets

LEMMA EndSays ==
  ASSUME NEW r \in Refs, NEW b \in BOOLEAN
  PROVE  /\ Leads(EndPackets(r), Mode(r, b), NoMode)
         /\ SettlesAll(IdleGoal, EndPackets(r))
<1> DEFINE ms == <<Tone("none"), State("onhook", r)>>
<1>1. Leads(ms, Mode(r, b), NoMode) /\ Settles("tone", IdleGoal, ms)
  BY ByeSays
<1>2. /\ Leads(IdlePackets, NoMode, NoMode)
      /\ \A reg \in {"list", "keys", "prompt"} : Settles(reg, IdleGoal, IdlePackets)
      /\ \A j \in 1..Len(IdlePackets) : Leaves("tone", IdleGoal, IdlePackets[j])
  BY IdleSays
<1>3. EndPackets(r) = ms \o IdlePackets
  BY DEF EndPackets
<1> HIDE DEF ms
<1>4. Leads(ms \o IdlePackets, Mode(r, b), NoMode)
  BY <1>1, <1>2, LeadsOn
<1>5. ms \in Seq(Packets) /\ IdlePackets \in Seq(Packets)
  BY <1>1, <1>2 DEF Leads
<1>6. \A reg \in Registers : Settles(reg, IdleGoal, ms \o IdlePackets)
  BY <1>1, <1>2, <1>5, SettlesOn DEF Registers
<1> QED
  BY <1>3, <1>4, <1>6 DEF SettlesAll

-----------------------------------------------------------------------------
(* One call at a time *)

Calls == [st: {"none", "dialing", "ringing", "connected", "held", "ended"},
          out: BOOLEAN, ivr: BOOLEAN, mine: BOOLEAN]

(* What the hub has made of a live call *)
OnHub(c) ==
  /\ c.st \in {"dialing", "ringing", "connected", "held"}
  /\ c.st = "dialing" => c.out = TRUE /\ c.ivr = FALSE
  /\ c.ivr = TRUE => c.out = TRUE /\ c.st \in {"ringing", "connected"}

(* The hub has one live call or none, and it is the active one.             *)
HubOK ==
  /\ calls \in [Refs -> Calls]
  /\ active \in Refs \cup {NoCall}
  /\ \A r \in Refs : r # active => calls[r].st \in {"none", "ended"}
  /\ active # NoCall => OnHub(calls[active])

(* The mode and the screen the phone comes to when all packets are handled. *)
Final ==
  IF active = NoCall THEN NoMode ELSE Mode(active, calls[active].st # "dialing")
Current == IF active = NoCall THEN IdleGoal ELSE Goal(active, calls[active])

(* The packets on their way lead the phone there.                           *)
Stream == \E a \in Modes : In(phone, a) /\ Leads(toMe, a, Final)

(* The user has ended the call on the phone, and the hub is still to hear.  *)
Disturbed == key = EndCallKey /\ active # NoCall

Settling == \A reg \in Registers : Settled(reg, Current, phone, face, toMe)

ScreenInv ==
  /\ ~SecondCalls /\ kind \in Kind /\ HubOK /\ face \in Face
  /\ Stream
  /\ Disturbed \/ Settling

LEMMA Moves ==
  ASSUME HubOK, NEW r \in Refs, active \in {NoCall, r}, NEW c \in Calls, OnHub(c),
         Becomes(r, c), active' = r, kind' = kind
  PROVE  HubOK' /\ Final' = Mode(r, c.st # "dialing") /\ Current' = Goal(r, c)
<1>1. r # NoCall
  BY ScreenAssumption
<1>2. calls' \in [Refs -> Calls] /\ calls'[r] = c /\ \A z \in Refs \ {r} : calls'[z] = calls[z]
  BY DEF HubOK, Becomes
<1>3. HubOK'
  <2>1. \A z \in Refs : z # r => calls'[z].st \in {"none", "ended"}
    BY <1>2, ScreenAssumption DEF HubOK
  <2>2. OnHub(calls'[r])
    BY <1>2
  <2> QED
    BY <1>2, <2>1, <2>2 DEF HubOK
<1>4. Final' = Mode(r, c.st # "dialing")
  BY <1>1, <1>2 DEF Final, Mode
<1>5. Current' = Goal(r, c)
  BY <1>1, <1>2 DEF Current, Goal, Legacy
<1> QED
  BY <1>3, <1>4, <1>5

LEMMA HangsUpOne ==
  ASSUME HubOK, active # NoCall, EndCall(active), kind' = kind
  PROVE  /\ HubOK' /\ active' = NoCall /\ Final' = NoMode /\ Current' = IdleGoal
         /\ toMe' = toMe \o EndPackets(active)
<1>1. active \in Refs
  BY DEF HubOK
<1>2. Live \ {active} = {}
  BY DEF Live, HubOK
<1>3. FocusOf(Live \ {active}) = NoCall
  BY <1>2 DEF FocusOf
<1>4. active' = NoCall /\ toMe' = toMe \o EndPackets(active)
  BY <1>3 DEF EndCall, EndPackets, Sends
<1>5. /\ calls' \in [Refs -> Calls]
      /\ \A z \in Refs : calls'[z].st \in {"none", "ended"}
  <2>1. calls' = [calls EXCEPT ![active] = [calls[active] EXCEPT !.st = "ended"]]
    BY DEF EndCall, Becomes
  <2>2. [calls[active] EXCEPT !.st = "ended"] \in Calls
    BY <1>1 DEF HubOK, Calls
  <2>3. [calls[active] EXCEPT !.st = "ended"].st = "ended"
    BY <1>1 DEF HubOK, Calls
  <2> QED
    BY <1>1, <2>1, <2>2, <2>3 DEF HubOK
<1>6. HubOK'
  BY <1>4, <1>5 DEF HubOK
<1> QED
  BY <1>4, <1>6 DEF Final, Current, IdleGoal, Legacy, NoMode

(* Whatever the hub says that leads the phone on and settles the screen     *)
LEMMA SaysOn ==
  ASSUME ScreenInv, HubOK', UNCHANGED <<kind, phone, face>>, NEW ms, toMe' = toMe \o ms,
         Leads(ms, Final, Final'),
         \A reg \in Registers :
           \/ Settles(reg, Current', ms)
           \/ /\ \A j \in 1..Len(ms) : Leaves(reg, Current', ms[j])
              /\ Settled(reg, Current', phone, face, toMe)
  PROVE  ScreenInv'
<1>1. PICK a \in Modes : In(phone, a) /\ Leads(toMe, a, Final)
  BY DEF ScreenInv, Stream
<1>2. Leads(toMe', a, Final')
  BY <1>1, LeadsOn
<1>3. Stream'
  BY <1>1, <1>2 DEF Stream
<1>4. toMe \in Seq(Packets) /\ ms \in Seq(Packets)
  BY <1>1 DEF Leads
<1>5. ASSUME NEW reg \in Registers PROVE Settled(reg, Current', phone', face', toMe')
  <2> DEFINE g == Current'
  <2> HIDE DEF g
  <2>1. CASE Settles(reg, g, ms)
    <3>1. Settles(reg, g, toMe \o ms)
      BY <1>4, <2>1, SettlesOn
    <3> QED
      BY <3>1 DEF Settled, g
  <2>2. CASE /\ \A j \in 1..Len(ms) : Leaves(reg, g, ms[j])
             /\ Settled(reg, g, phone, face, toMe)
    <3>1. Settled(reg, g, phone, face, toMe \o ms)
      BY <1>4, <2>2, SettlesOn
    <3> QED
      BY <3>1 DEF g
  <2> QED
    BY <1>5, <2>1, <2>2 DEF g
<1>6. Settling'
  BY <1>5 DEF Settling
<1> QED
  BY <1>3, <1>6 DEF ScreenInv, SecondCalls


(* ... keeps the invariant; and so the steps of the hub do.                 *)
LEMMA Says ==
  ASSUME ScreenInv, HubOK', UNCHANGED <<kind, phone, face>>, NEW ms, toMe' = toMe \o ms,
         Leads(ms, Final, Final'), SettlesAll(Current', ms)
  PROVE  ScreenInv'
BY SaysOn DEF SettlesAll

(* A phone with no call is asked to dial.                                   *)
LEMMA StartOutboundStep ==
  ASSUME ScreenInv, StartOutbound, active = NoCall, UNCHANGED <<kind, phone, face>>
  PROVE  ScreenInv'
<1> DEFINE c == Call("dialing", TRUE, FALSE)
<1>1. PICK r \in Refs : Becomes(r, c) /\ active' = r /\ Sends(OutboundPackets(r))
  BY DEF StartOutbound, Free
<1>2. c \in Calls /\ OnHub(c) /\ c.st = "dialing"
  BY DEF Call, Calls, OnHub
<1>3. /\ Leads(OutboundPackets(r), NoMode, Mode(r, FALSE))
      /\ SettlesAll(Goal(r, c), OutboundPackets(r))
  BY OutboundSays
<1> HIDE DEF c
<1>4. HubOK' /\ Final' = Mode(r, c.st # "dialing") /\ Current' = Goal(r, c)
  BY <1>1, <1>2, Moves DEF ScreenInv
<1>5. Final = NoMode /\ Final' = Mode(r, FALSE)
  BY <1>2, <1>4 DEF Final
<1> QED
  BY <1>1, <1>3, <1>4, <1>5, Says DEF Sends

(* The phone's one call turns into c.                                       *)
LEMMA TurnsTo ==
  ASSUME ScreenInv, active # NoCall, NEW c \in Calls, OnHub(c), c.st # "dialing",
         Becomes(active, c), UNCHANGED <<active, kind, phone, face>>,
         NEW ms, Sends(ms), SettlesAll(Goal(active, c), ms),
         Leads(ms, Mode(active, calls[active].st # "dialing"), Mode(active, TRUE))
  PROVE  ScreenInv'
<1>1. PICK r \in Refs : r = active
  BY DEF ScreenInv, HubOK
<1>2. HubOK' /\ Final' = Mode(r, c.st # "dialing") /\ Current' = Goal(r, c)
  BY <1>1, Moves DEF ScreenInv
<1>3. Final' = Mode(r, TRUE) /\ Final = Mode(active, calls[active].st # "dialing")
  BY <1>2 DEF Final
<1> QED
  BY <1>1, <1>2, <1>3, Says DEF Sends

(* The call that is the phone's                                             *)
LEMMA TheCall ==
  ASSUME ScreenInv, active # NoCall
  PROVE  /\ active \in Refs /\ calls[active] \in Calls /\ OnHub(calls[active])
         /\ \A s \in {"ringing", "connected", "held"}, mine \in BOOLEAN :
              LET c == [calls[active] EXCEPT !.st = s, !.mine = mine]
              IN c \in Calls /\ c.st = s /\ c.mine = mine /\ c.out = calls[active].out
                 /\ c.ivr = calls[active].ivr
<1>1. active \in Refs /\ calls[active] \in Calls /\ OnHub(calls[active])
  BY DEF ScreenInv, HubOK
<1> QED
  BY <1>1 DEF Calls

LEMMA DialOtherStep ==
  ASSUME ScreenInv, DialOther, UNCHANGED <<kind, phone, face>>
  PROVE  ScreenInv'
<1>1. PICK ivr \in BOOLEAN : Becomes(active, Call("ringing", TRUE, ivr))
  BY DEF DialOther
<1> DEFINE c == Call("ringing", TRUE, ivr)
<1>2. c \in Calls /\ OnHub(c) /\ c.st = "ringing" /\ c.out = TRUE
  BY DEF Call, Calls, OnHub
<1> HIDE DEF c
<1>3. active # NoCall /\ active \in Refs /\ calls[active].st = "dialing"
  BY TheCall DEF DialOther, InState
<1>4. /\ Leads(RingOutPackets(active), Mode(active, FALSE), Mode(active, TRUE))
      /\ SettlesAll(Goal(active, c), RingOutPackets(active))
  BY <1>2, <1>3, RingOutSays
<1> QED
  BY <1>1, <1>2, <1>3, <1>4, TurnsTo DEF DialOther, c

LEMMA TalkStep ==
  ASSUME ScreenInv, active # NoCall, calls[active].st = "ringing", calls[active].ivr = FALSE,
         Talk(active), UNCHANGED <<kind, phone, face>>
  PROVE  ScreenInv'
<1> DEFINE c == [calls[active] EXCEPT !.st = "connected", !.mine = FALSE]
<1>1. /\ active \in Refs /\ c \in Calls /\ c.st = "connected" /\ c.ivr = FALSE
      /\ Becomes(active, c) /\ Sends(TalkPackets(c, active)) /\ UNCHANGED active
  BY TheCall DEF Talk
<1> HIDE DEF c
<1>2. OnHub(c)
  BY <1>1 DEF OnHub
<1>3. /\ Leads(TalkPackets(c, active), Mode(active, TRUE), Mode(active, TRUE))
      /\ SettlesAll(Goal(active, c), TalkPackets(c, active))
  BY <1>1, AnswerSays, ConnectSays DEF TalkPackets
<1> QED
  BY <1>1, <1>2, <1>3, TurnsTo

LEMMA HoldStep ==
  ASSUME ScreenInv, active # NoCall, calls[active].st = "connected", calls[active].ivr = FALSE,
         NEW mine \in BOOLEAN, HoldCall(active, mine), UNCHANGED <<kind, phone, face>>
  PROVE  ScreenInv'
<1> DEFINE c == [calls[active] EXCEPT !.st = "held", !.mine = mine]
<1>1. /\ active \in Refs /\ c \in Calls /\ c.st = "held" /\ c.ivr = FALSE
      /\ Becomes(active, c) /\ Sends(HoldPackets(c, active)) /\ UNCHANGED active
  BY TheCall DEF HoldCall
<1> HIDE DEF c
<1>2. OnHub(c)
  BY <1>1 DEF OnHub
<1>3. /\ Leads(HoldPackets(c, active), Mode(active, TRUE), Mode(active, TRUE))
      /\ SettlesAll(Goal(active, c), HoldPackets(c, active))
  BY <1>1, HoldSays
<1> QED
  BY <1>1, <1>2, <1>3, TurnsTo

LEMMA ResumeStep ==
  ASSUME ScreenInv, active # NoCall, calls[active].st = "held", ResumeCall(active),
         UNCHANGED <<kind, phone, face>>
  PROVE  ScreenInv'
<1> DEFINE c == [calls[active] EXCEPT !.st = "connected", !.mine = FALSE]
<1>1. /\ active \in Refs /\ c \in Calls /\ c.st = "connected" /\ c.ivr = calls[active].ivr
      /\ Becomes(active, c) /\ Sends(ConnectPackets(c, active)) /\ UNCHANGED active
  BY TheCall DEF ResumeCall
<1> HIDE DEF c
<1>2. OnHub(c) /\ c.ivr = FALSE
  BY <1>1, TheCall DEF OnHub, Calls
<1>3. /\ Leads(ConnectPackets(c, active), Mode(active, TRUE), Mode(active, TRUE))
      /\ SettlesAll(Goal(active, c), ConnectPackets(c, active))
  BY <1>1, <1>2, ConnectSays
<1> QED
  BY <1>1, <1>2, <1>3, TurnsTo

LEMMA IvrConnectsStep ==
  ASSUME ScreenInv, IvrConnects, UNCHANGED <<kind, phone, face>>
  PROVE  ScreenInv'
<1>1. PICK r \in Live : /\ calls[r].st = "ringing" /\ calls[r].ivr
                        /\ Becomes(r, [calls[r] EXCEPT !.st = "connected"])
                        /\ Sends(IvrPackets(r)) /\ UNCHANGED active
  BY DEF IvrConnects
<1>2. r = active /\ r \in Refs /\ active # NoCall
  BY <1>1, ScreenAssumption DEF Live, ScreenInv, HubOK
<1> DEFINE c == [calls[active] EXCEPT !.st = "connected"]
<1>3. /\ c \in Calls /\ c.st = "connected" /\ c.ivr = TRUE /\ c.out = TRUE
  BY <1>1, <1>2, TheCall DEF Calls, OnHub
<1>4. Becomes(active, c) /\ Sends(IvrPackets(active)) /\ UNCHANGED active
  BY <1>1, <1>2
<1> HIDE DEF c
<1>5. OnHub(c)
  BY <1>3 DEF OnHub
<1>6. /\ Leads(IvrPackets(active), Mode(active, TRUE), Mode(active, TRUE))
      /\ SettlesAll(Goal(active, c), IvrPackets(active))
  BY <1>2, <1>3, IvrSays
<1> QED
  BY <1>1, <1>2, <1>3, <1>4, <1>5, <1>6, TurnsTo

LEMMA EndCallStep ==
  ASSUME ScreenInv, active # NoCall, EndCall(active), UNCHANGED <<kind, phone, face>>
  PROVE  ScreenInv'
<1>1. /\ HubOK' /\ active' = NoCall /\ Final' = NoMode /\ Current' = IdleGoal
      /\ toMe' = toMe \o EndPackets(active)
  BY HangsUpOne DEF ScreenInv
<1>2. active \in Refs
  BY TheCall
<1>3. /\ Leads(EndPackets(active), Mode(active, calls[active].st # "dialing"), NoMode)
      /\ SettlesAll(IdleGoal, EndPackets(active))
  BY <1>2, EndSays
<1>4. Final = Mode(active, calls[active].st # "dialing")
  BY DEF Final
<1> QED
  BY <1>1, <1>3, <1>4, Says

(* A call comes in; a legacy phone has stopped its tone with the last one.  *)
LEMMA RingStep ==
  ASSUME ScreenInv, Ring, UNCHANGED <<kind, phone, face>>
  PROVE  ScreenInv'
<1> DEFINE c == Call("ringing", FALSE, FALSE)
<1>1. PICK r \in Refs : Becomes(r, c) /\ active' = r /\ Sends(RingInPackets(r))
  BY DEF Ring, Free
<1>2. /\ c \in Calls /\ OnHub(c) /\ c.st = "ringing" /\ c.out = FALSE /\ c.ivr = FALSE
      /\ active = NoCall /\ kind \in Kind
  BY DEF Call, Calls, OnHub, Ring, ScreenInv
<1> HIDE DEF c
<1>3. HubOK' /\ Final' = Mode(r, TRUE) /\ Current' = Goal(r, c)
  BY <1>1, <1>2, Moves DEF ScreenInv
<1> DEFINE g == Goal(r, c)
           ms == RingInPackets(r)
<1>4. /\ Leads(ms, NoMode, Mode(r, TRUE))
      /\ \A reg \in {"list", "keys", "prompt"} : Settles(reg, g, ms)
      /\ \/ Settles("tone", g, ms)
         \/ g.tone = "none" /\ \A j \in 1..Len(ms) : Leaves("tone", g, ms[j])
  BY <1>2, RingInSays
<1>5. Final = NoMode /\ Current = IdleGoal /\ IdleGoal.tone = "none"
  BY <1>2 DEF Final, Current, IdleGoal
<1> HIDE DEF g, ms
<1>6. ASSUME g.tone = "none" PROVE Settled("tone", g, phone, face, toMe)
  <2>1. Settled("tone", IdleGoal, phone, face, toMe)
    BY <1>2, <1>5 DEF ScreenInv, Disturbed, Settling, Registers
  <2>2. Right("tone", IdleGoal, phone, face) <=> Right("tone", g, phone, face)
    BY <1>5, <1>6 DEF Right
  <2>3. \A m : /\ Leaves("tone", IdleGoal, m) <=> Leaves("tone", g, m)
               /\ Rights("tone", IdleGoal, m) <=> Rights("tone", g, m)
    BY <1>5, <1>6 DEF Leaves, Rights
  <2> QED
    BY <2>1, <2>2, <2>3 DEF Settled, Settles
<1>7. \A reg \in Registers :
        \/ Settles(reg, g, ms)
        \/ (\A j \in 1..Len(ms) : Leaves(reg, g, ms[j])) /\ Settled(reg, g, phone, face, toMe)
  BY <1>4, <1>6 DEF Registers
<1> QED
  BY <1>1, <1>3, <1>4, <1>5, <1>7, SaysOn DEF Sends, g, ms

LEMMA ReceiveStep ==
  ASSUME ScreenInv, ReceivePacket, UNCHANGED kind
  PROVE  ScreenInv'
<1>1. PICK a \in Modes : In(phone, a) /\ Leads(toMe, a, Final)
  BY DEF ScreenInv, Stream
<1>2. toMe # <<>> /\ toMe \in Seq(Packets)
  BY <1>1 DEF ReceivePacket, Leads
<1>3. PICK b \in Modes : Fits(Head(toMe), a, b) /\ Leads(Tail(toMe), b, Final)
  BY <1>1, <1>2, LeadsTail
<1>4. /\ phone' = PhoneAfter(phone, Head(toMe)) /\ face' = FaceAfter(face, Head(toMe))
      /\ toMe' = Tail(toMe) /\ UNCHANGED <<calls, active, key, kind>>
  BY DEF ReceivePacket
<1>5. In(phone', b) /\ face' \in Face
  BY <1>1, <1>3, <1>4, PacketStep, FaceStep DEF ScreenInv
<1>6. HubOK' /\ Final' = Final /\ Current' = Current
  BY <1>4 DEF ScreenInv, HubOK, Final, Current, Goal, IdleGoal, Legacy
<1>7. Stream'
  BY <1>3, <1>4, <1>5, <1>6 DEF Stream
<1>8. Current.ref \in Refs \cup {NoCall}
  BY DEF Current, Goal, IdleGoal, ScreenInv, HubOK
<1>9. ASSUME Settling PROVE Settling'
  <2>1. ASSUME NEW reg \in Registers PROVE Settled(reg, Current, phone', face', toMe')
    <3>1. Settled(reg, Current, phone, face, toMe)
      BY <1>9 DEF Settling
    <3> QED
      BY <1>1, <1>2, <1>3, <1>4, <1>8, <3>1, SettledTail DEF ScreenInv
  <2> QED
    BY <1>6, <2>1 DEF Settling
<1> QED
  BY <1>4, <1>5, <1>6, <1>7, <1>9 DEF ScreenInv, Disturbed, SecondCalls

(* EndCall on the phone: an idle one shows what it did; of a call the hub   *)
(* has yet to hear.                                                         *)
LEMMA PressEndCallStep ==
  ASSUME ScreenInv, PressEndCall, UNCHANGED kind
  PROVE  ScreenInv'
<1>1. PICK a \in Modes : In(phone, a) /\ Leads(toMe, a, Final)
  BY DEF ScreenInv, Stream
<1>2. /\ phone' = Client!EndLocally(phone, Client!Target(phone, "EndCall"))
      /\ face' = PlayTone(face, "none") /\ key = NoKey /\ key' = EndCallKey
      /\ UNCHANGED <<calls, active, toMe, kind>>
  BY DEF PressEndCall
<1>3. In(phone', a)
  BY <1>1, <1>2, EndsByHand
<1>4. /\ face' \in Face /\ face'.set = face.set /\ face'.keys = face.keys
      /\ face'.prompt = face.prompt /\ face'.tone = "none"
  BY <1>2 DEF PlayTone, Face, ToneNames, ScreenInv
<1>5. HubOK' /\ Final' = Final /\ Current' = Current
  BY <1>2 DEF ScreenInv, HubOK, Final, Current, Goal, IdleGoal, Legacy
<1>6. Stream'
  BY <1>1, <1>2, <1>3, <1>5 DEF Stream
<1>7. ASSUME active = NoCall PROVE Settling'
  <2>1. Settling /\ Current = IdleGoal
    BY <1>2, <1>7 DEF ScreenInv, Disturbed, Current
  <2>2. ASSUME NEW reg \in Registers PROVE Settled(reg, IdleGoal, phone', face', toMe)
    <3>1. Settled(reg, IdleGoal, phone, face, toMe)
      BY <2>1 DEF Settling
    <3>2. Right(reg, IdleGoal, phone, face) => Right(reg, IdleGoal, phone', face')
      BY <1>4 DEF Right, IdleGoal
    <3> QED
      BY <3>1, <3>2 DEF Settled
  <2> QED
    BY <1>2, <1>5, <2>1, <2>2 DEF Settling
<1> QED
  BY <1>2, <1>4, <1>5, <1>6, <1>7 DEF ScreenInv, Disturbed, SecondCalls

(* What touches only the key                                                *)
LEMMA KeyStep ==
  ASSUME ScreenInv, UNCHANGED <<kind, calls, active, phone, face, toMe>>, ~Disturbed
  PROVE  ScreenInv'
<1>1. HubOK' /\ Final' = Final /\ Current' = Current
  BY DEF ScreenInv, HubOK, Final, Current, Goal, IdleGoal, Legacy
<1>2. Stream' /\ Settling'
  BY <1>1 DEF ScreenInv, Stream, Settling
<1> QED
  BY <1>1, <1>2 DEF ScreenInv, SecondCalls

LEMMA OthersStep ==
  ASSUME ScreenInv, Others, UNCHANGED kind
  PROVE  ScreenInv'
<1>0. UNCHANGED <<kind, phone, face, key>>
  BY DEF Others
<1>1. \A r \in Live : r = active /\ active # NoCall
  BY ScreenAssumption DEF Live, ScreenInv, HubOK
<1>2. CASE Ring
  BY <1>0, <1>2, RingStep
<1>3. CASE OtherAnswers
  <2>1. PICK r \in Live : calls[r].st = "ringing" /\ calls[r].out /\ ~calls[r].ivr /\ Talk(r)
    BY <1>3 DEF OtherAnswers
  <2>2. r = active /\ active # NoCall /\ calls[active].ivr = FALSE
    BY <1>1, <2>1, TheCall DEF Calls
  <2> QED
    BY <1>0, <2>1, <2>2, TalkStep
<1>4. CASE IvrConnects
  BY <1>0, <1>4, IvrConnectsStep
<1>5. CASE OtherHolds
  <2>1. PICK r \in Live : calls[r].st = "connected" /\ ~calls[r].ivr /\ HoldCall(r, FALSE)
    BY <1>5 DEF OtherHolds
  <2>2. r = active /\ active # NoCall /\ calls[active].ivr = FALSE
    BY <1>1, <2>1, TheCall DEF Calls
  <2> QED
    BY <1>0, <2>1, <2>2, HoldStep
<1>6. CASE OtherResumes
  BY <1>0, <1>6, ResumeStep DEF OtherResumes, InState
<1>7. CASE OtherEnds
  <2>1. PICK r \in Live : EndCall(r)
    BY <1>7 DEF OtherEnds
  <2> QED
    BY <1>0, <1>1, <2>1, EndCallStep
<1> QED
  BY <1>2, <1>3, <1>4, <1>5, <1>6, <1>7 DEF Others

LEMMA HubHandlesStep ==
  ASSUME ScreenInv, HubHandles, UNCHANGED kind
  PROVE  ScreenInv'
<1>0. UNCHANGED <<kind, phone, face>>
  BY DEF HubHandles
<1>1. CASE Served(key)
  <2>1. CASE key = NewCallKey /\ StartOutbound
    <3>1. active = NoCall
      BY <2>1 DEF HubHandles, StartOutbound, MayDial, ScreenInv
    <3> QED
      BY <1>0, <2>1, <3>1, StartOutboundStep
  <2>2. CASE DialOther
    BY <1>0, <2>2, DialOtherStep
  <2>3. CASE InState("ringing") /\ ~calls[active].out /\ Talk(active)
    <3>1. active # NoCall /\ calls[active].st = "ringing" /\ calls[active].ivr = FALSE
      BY <2>3, TheCall DEF InState, OnHub, Calls
    <3> QED
      BY <1>0, <2>3, <3>1, TalkStep
  <2>4. CASE InState("connected") /\ ~calls[active].ivr /\ HoldCall(active, TRUE)
    <3>1. active # NoCall /\ calls[active].st = "connected" /\ calls[active].ivr = FALSE
      BY <2>4, TheCall DEF InState, Calls
    <3> QED
      BY <1>0, <2>4, <3>1, HoldStep
  <2>5. CASE InState("held") /\ ResumeCall(active)
    BY <1>0, <2>5, ResumeStep DEF InState
  <2>6. CASE active # NoCall /\ EndCall(active)
    BY <1>0, <2>6, EndCallStep
  <2> QED
    BY <1>1, <2>1, <2>2, <2>3, <2>4, <2>5, <2>6 DEF Served
<1>2. CASE Refused(key) /\ UNCHANGED <<calls, active, toMe>>
  <2>1. ~Disturbed
    BY <1>2 DEF Disturbed, Refused, EndCallKey, NewCallKey, DialKeys, AnswerKey,
                HoldKey, ResumeKey
  <2> QED
    BY <1>0, <1>2, <2>1, KeyStep
<1> QED
  BY <1>1, <1>2 DEF HubHandles

LEMMA ScreenStep == ScreenInv /\ [ScreenNext]_screenVars => ScreenInv'
<1> SUFFICES ASSUME ScreenInv, [ScreenNext]_screenVars PROVE ScreenInv'
  OBVIOUS
<1>0. ASSUME UNCHANGED kind, key = NoKey PROVE ~Disturbed
  BY <1>0 DEF Disturbed, NoKey, EndCallKey
<1>1. CASE ScreenNext
  <2>0. UNCHANGED kind
    BY <1>1 DEF ScreenNext
  <2>1. CASE Others
    BY <2>0, <2>1, OthersStep
  <2>2. CASE ReceivePacket
    BY <2>0, <2>2, ReceiveStep
  <2>3. CASE PressSoftkey
    BY <1>0, <2>0, <2>3, KeyStep DEF PressSoftkey
  <2>4. CASE PressEndCall
    BY <2>0, <2>4, PressEndCallStep
  <2>5. CASE Dial
    BY <1>0, <2>0, <2>5, KeyStep DEF Dial
  <2>6. CASE HubHandles
    BY <2>0, <2>6, HubHandlesStep
  <2> QED
    BY <1>1, <2>1, <2>2, <2>3, <2>4, <2>5, <2>6 DEF ScreenNext
<1>2. CASE UNCHANGED screenVars
  <2>1. HubOK' /\ Final' = Final /\ Current' = Current
    BY <1>2 DEF screenVars, ScreenInv, HubOK, Final, Current, Goal, IdleGoal, Legacy
  <2>2. Stream' /\ (Settling => Settling')
    BY <1>2, <2>1 DEF screenVars, ScreenInv, Stream, Settling
  <2> QED
    BY <1>2, <2>1, <2>2 DEF screenVars, ScreenInv, SecondCalls, Disturbed
<1> QED
  BY <1>1, <1>2

LEMMA ScreenStart == ScreenInit /\ ~SecondCalls => ScreenInv
<1> SUFFICES ASSUME ScreenInit, ~SecondCalls PROVE ScreenInv
  OBVIOUS
<1>1. kind \in Kind /\ active = NoCall /\ toMe = <<>> /\ phone = Client!NewPhone /\ face = NewFace
  BY ScreenAssumption DEF ScreenInit
<1>2. HubOK
  BY <1>1 DEF ScreenInit, HubOK, Call, Calls
<1>3. face \in Face /\ face.set = "idle" /\ face.tone = "none" /\ face.prompt = "Ready"
  BY <1>1 DEF NewFace, Face, SetNames, ToneNames, PromptNames
<1>4. Final = NoMode /\ NoMode \in Modes /\ NoMode.ref = NoCall /\ ~NoMode.on
  BY <1>1 DEF Final, NoMode, Modes
<1>5. In(phone, NoMode)
  <2>1. <<>> \in Seq(Refs)
    OBVIOUS
  <2>2. phone \in Client!Phone /\ phone.act = <<>> /\ phone.sel = NoCall
    BY <1>1, <2>1 DEF Client!NewPhone, Client!Phone, Client!CallStates, Client!Events
  <2> QED
    BY <1>4, <2>2 DEF In
<1>6. Stream
  BY <1>1, <1>4, <1>5, LeadsNowhere DEF Stream
<1>7. Settling
  <2>1. \A reg \in Registers : Right(reg, Current, phone, face)
    BY <1>1, <1>3 DEF Right, Current, IdleGoal
  <2>2. 1..Len(toMe) = {}
    BY <1>1
  <2> QED
    BY <2>1, <2>2 DEF Settling, Settled
<1> QED
  BY <1>1, <1>2, <1>3, <1>6, <1>7 DEF ScreenInv


-----------------------------------------------------------------------------
(* What a quiet phone shows *)

(* Nothing on its way, the screen has come to where it is led.              *)
LEMMA AtRest ==
  ASSUME ScreenInv, Quiet
  PROVE  /\ In(phone, Final) /\ Final \in Modes
         /\ \A reg \in Registers : Right(reg, Current, phone, face)
<1>1. PICK a \in Modes : In(phone, a) /\ Leads(<<>>, a, Final)
  BY DEF ScreenInv, Stream, Quiet
<1>2. a = Final
  BY <1>1, LeadsNowhere DEF Leads
<1>3. Settling
  BY DEF ScreenInv, Disturbed, Quiet, NoKey, EndCallKey
<1>4. ASSUME NEW reg \in Registers PROVE Right(reg, Current, phone, face)
  <2>1. Settled(reg, Current, phone, face, <<>>)
    BY <1>3 DEF Settling, Quiet
  <2>2. 1..Len(<<>>) = {}
    OBVIOUS
  <2> QED
    BY <2>1, <2>2 DEF Settled, Settles
<1> QED
  BY <1>1, <1>2, <1>4

LEMMA ScreenInvAgrees == ScreenInv => ScreenAgrees
<1> SUFFICES ASSUME ScreenInv, Quiet
             PROVE  /\ Client!Elements(phone.act) = {r \in Live : calls[r].st # "dialing"}
                    /\ \A r \in Client!Elements(phone.act) : phone.st[r] = ListedAs(r)
                    /\ active = NoCall \/ InState("dialing") \/ calls[active].ivr
                         \/ phone.sel = active
  BY DEF ScreenAgrees
<1>1. In(phone, Final) /\ Right("list", Current, phone, face)
  BY AtRest DEF Registers
<1>2. \A r \in Refs : r \in Live => r = active
  BY DEF Live, ScreenInv, HubOK
<1>3. CASE active = NoCall
  <2>1. phone.act = <<>>
    BY <1>1, <1>3 DEF Final, NoMode, In
  <2>2. Live = {}
    BY <1>2, <1>3, ScreenAssumption DEF Live
  <2> QED
    BY <1>3, <2>1, <2>2, OneElement
<1>4. CASE active # NoCall
  <2>1. active \in Refs /\ OnHub(calls[active]) /\ Live = {active}
    BY <1>2, <1>4, TheCall DEF Live, OnHub
  <2>2. CASE calls[active].st = "dialing"
    <3>1. phone.act = <<>>
      BY <1>1, <1>4, <2>2 DEF Final, Mode, In
    <3> QED
      BY <1>4, <2>1, <2>2, <3>1, OneElement DEF InState
  <2>3. CASE calls[active].st # "dialing"
    <3>1. Current.ref = active /\ Current.st # "none" /\ Current.st = ListedAs(active)
      BY <1>4, <2>1, <2>3, TheCall DEF Current, Goal, OnHub, ListedAs, Calls
    <3>2. Shows(phone, active, ListedAs(active))
      BY <1>1, <3>1 DEF Right
    <3>3. Client!Elements(phone.act) = {active} /\ phone.sel = active
          /\ phone.st[active] = ListedAs(active)
      BY <3>2, OneElement DEF Shows
    <3> QED
      BY <2>1, <2>3, <3>3
  <2> QED
    BY <2>2, <2>3
<1> QED
  BY <1>3, <1>4

(* The set of a phone with one call                                         *)
LEMMA ShownOne ==
  ASSUME NEW a \in Modes, NEW ph, In(ph, a), NEW f \in Face, NEW n, f.set = n,
         a.ref # NoCall => f.keys[a.ref] = n,
         a.ref # NoCall /\ ph.st[a.ref] \in {"ringin", "ringout"} => ph.st[a.ref] = n
  PROVE  ShownSet(ph, f) = n
<1> DEFINE s == Client!Preferred(ph)
           at == {i \in 1..Len(s) : f.keys[s[i]] # "none"}
           with == Client!FirstOf(s, LAMBDA r : f.keys[r] # "none")
<1>1. with = IF at = {} THEN NoCall ELSE s[CHOOSE i \in at : \A j \in at : i <= j]
  BY DEF Client!FirstOf
<1>2. Len(s) \in Nat /\ (\A i \in 1..Len(s) : s[i] = a.ref)
  BY PreferredOne
<1>3. s # <<>> => Len(s) > 0 /\ a.ref # NoCall
  BY PreferredOne DEF In, Modes
<1>4. with \in {NoCall, a.ref}
  <2>1. at \in SUBSET (1..Len(s)) /\ at \in SUBSET Nat
    BY <1>2
  <2> HIDE DEF at, with
  <2>2. at # {} => (CHOOSE i \in at : \A j \in at : i <= j) \in at
    BY <2>1, LeastNatural
  <2> QED
    BY <1>1, <1>2, <2>1, <2>2
<1>5. ShownSet(ph, f) =
        IF s # <<>> /\ ph.st[s[1]] \in {"ringin", "ringout"} THEN ph.st[s[1]]
        ELSE IF with # NoCall THEN f.keys[with] ELSE f.set
  BY DEF ShownSet
<1> HIDE DEF s, with, at
<1>6. s # <<>> => s[1] = a.ref
  BY <1>2, <1>3
<1> QED
  BY <1>3, <1>4, <1>5, <1>6


(* The labels of the keys a phone needs                                     *)
LEMMA InTemplate ==
  ASSUME NEW n \in 1..Len(Template)
  PROVE  Template[n] \in Client!Elements(Template)
BY DEF Client!Elements

LEMMA LegacyLabels ==
  ASSUME Legacy
  PROVE  /\ \A k \in {1, 2, 3, 5, 11, 13, 14, 15} : Resolve(k) = k
         /\ Resolve(7) = 9
<1> DEFINE t == Template
<1>1. t = <<1, 2, 3, 4, 5, 8, 9, 10, 11, 13, 14, 15, 16, 17, 18, 21, 28, 29, 30, 33>>
  BY DEF Template
<1> HIDE DEF t
<1>2. Len(t) = 20 /\ t[1] = 1 /\ t[2] = 2 /\ t[3] = 3 /\ t[5] = 5 /\ t[9] = 11 /\ t[10] = 13
      /\ t[11] = 14 /\ t[12] = 15 /\ t[7] = 9
  BY <1>1
<1>3. \A k \in {1, 2, 3, 5, 11, 13, 14, 15} : k \in Client!Elements(t)
  BY <1>2, InTemplate DEF t
<1>4. 7 \notin Client!Elements(t)
  <2>1. t[4] = 4 /\ t[6] = 8 /\ t[8] = 10 /\ t[13] = 16 /\ t[14] = 17 /\ t[15] = 18
        /\ t[16] = 21 /\ t[17] = 28 /\ t[18] = 29 /\ t[19] = 30 /\ t[20] = 33
    BY <1>1
  <2>2. \A n \in 1..20 : \/ n \in 1..5 \/ n \in 6..10 \/ n \in 11..15 \/ n \in 16..20
    BY ONLY SMT
  <2>3. \A n \in 1..20 : t[n] # 7
    <3>1. \A n \in 1..5 : t[n] # 7
      BY <1>2, <2>1
    <3>2. \A n \in 6..10 : t[n] # 7
      BY <1>2, <2>1
    <3>3. \A n \in 11..15 : t[n] # 7
      BY <1>2, <2>1
    <3>4. \A n \in 16..20 : t[n] # 7
      BY <1>2, <2>1
    <3> QED
      BY <2>2, <3>1, <3>2, <3>3, <3>4
  <2> QED
    BY <1>2, <2>3 DEF Client!Elements
<1> QED
  BY <1>2, <1>3, <1>4 DEF Resolve, t

LEMMA ModernLabels ==
  ASSUME ~Legacy
  PROVE  \A k \in {1, 2, 3, 4, 9, 10, 11, 13} : Resolve(k) = k
<1> DEFINE t == Template
<1>1. t = <<1, 2, 11, 3, 10, 9, 4, 13>>
  BY DEF Template
<1> HIDE DEF t
<1>2. Len(t) = 8 /\ t[1] = 1 /\ t[2] = 2 /\ t[3] = 11 /\ t[4] = 3 /\ t[5] = 10 /\ t[6] = 9
      /\ t[7] = 4 /\ t[8] = 13
  BY <1>1
<1>3. \A k \in {1, 2, 3, 4, 9, 10, 11, 13} : k \in Client!Elements(t)
  BY <1>2, InTemplate DEF t
<1> QED
  BY <1>3 DEF Resolve, t

LEMMA ShownAre ==
  ASSUME NEW ph, NEW f, NEW n, ShownSet(ph, f) = n, NEW s, s = KeySets[n]
  PROVE  ShownKeys(ph, f) = {Resolve(s[i]) : i \in 1..Len(s)} \ {0}
BY DEF ShownKeys

(* What each set offers                                                     *)
LEMMA Offers ==
  ASSUME NEW ph, NEW f, NEW n \in SetNames, ShownSet(ph, f) = n
  PROVE  LET shown == ShownKeys(ph, f)
         IN /\ n = "idle" => NewCallKey \in shown
            /\ n \in {"dialing", "ringout"} => EndCallKey \in shown
            /\ n = "dialing" => HoldKey \notin shown
            /\ n = "ringin" => AnswerKey \in shown
            /\ n = "connected" => EndCallKey \in shown /\ HoldKey \in shown
            /\ n = "held" /\ ~Legacy => ResumeKey \in shown
<1> DEFINE s == KeySets[n]
           shown == ShownKeys(ph, f)
<1> USE DEF NewCallKey, HoldKey, EndCallKey, ResumeKey, AnswerKey
<1>0. /\ shown = {Resolve(s[i]) : i \in 1..Len(s)} \ {0}
      /\ \A i \in 1..Len(s) : Resolve(s[i]) # 0 => Resolve(s[i]) \in shown
  BY ShownAre
<1> HIDE DEF shown
<1>1. CASE Legacy
  <2>1. CASE n = "idle"
    <3>1. s = <<1, 2, 5>>
      BY <1>1, <2>1 DEF KeySets
    <3> HIDE DEF s
    <3>2. Len(s) = 3 /\ s[2] = 2
      BY <3>1
    <3> QED
      BY <1>0, <1>1, <2>1, <3>2, LegacyLabels DEF shown
  <2>2. CASE n = "dialing"
    <3>1. s = <<1, 7, 5, 14, 15, 13>>
      BY <1>1, <2>2 DEF KeySets
    <3> HIDE DEF s
    <3>2. Len(s) = 6 /\ s[1] = 1 /\ s[2] = 7 /\ s[3] = 5 /\ s[4] = 14 /\ s[5] = 15 /\ s[6] = 13
      BY <3>1
    <3>3. EndCallKey \in shown
      BY <1>0, <1>1, <3>2, LegacyLabels
    <3>4. \A i \in 1..6 : s[i] \in {1, 5, 7, 13, 14, 15}
      BY <3>2
    <3>5. HoldKey \notin shown
      <4>1. \A i \in 1..6 : Resolve(s[i]) # 3
        BY <1>1, <3>4, LegacyLabels
      <4> QED
        BY <1>0, <3>2, <4>1
    <3> QED
      BY <2>2, <3>3, <3>5 DEF shown
  <2>3. CASE n = "ringout"
    <3>1. s = <<0, 7>>
      BY <1>1, <2>3 DEF KeySets
    <3> HIDE DEF s
    <3>2. Len(s) = 2 /\ s[2] = 7
      BY <3>1
    <3> QED
      BY <1>0, <1>1, <2>3, <3>2, LegacyLabels DEF shown
  <2>4. CASE n = "ringin"
    <3>1. s = <<11, 9>>
      BY <1>1, <2>4 DEF KeySets
    <3> HIDE DEF s
    <3>2. Len(s) = 2 /\ s[1] = 11
      BY <3>1
    <3> QED
      BY <1>0, <1>1, <2>4, <3>2, LegacyLabels DEF shown
  <2>5. CASE n = "connected"
    <3>1. s = <<3, 7, 4, 11, 10, 19, 18, 12, 17, 20>>
      BY <1>1, <2>5 DEF KeySets
    <3> HIDE DEF s
    <3>2. Len(s) = 10 /\ s[1] = 3 /\ s[2] = 7
      BY <3>1
    <3> QED
      BY <1>0, <1>1, <2>5, <3>2, LegacyLabels DEF shown
  <2> QED
    BY <1>1, <2>1, <2>2, <2>3, <2>4, <2>5 DEF SetNames
<1>2. CASE ~Legacy
  <2>1. CASE n = "idle"
    <3>1. s = <<2, 1>>
      BY <1>2, <2>1 DEF KeySets
    <3> HIDE DEF s
    <3>2. Len(s) = 2 /\ s[1] = 2
      BY <3>1
    <3> QED
      BY <1>0, <1>2, <2>1, <3>2, ModernLabels DEF shown
  <2>2. CASE n \in {"dialing", "ringout"}
    <3>1. s = <<9>>
      BY <1>2, <2>2 DEF KeySets
    <3> HIDE DEF s
    <3>2. Len(s) = 1 /\ s[1] = 9
      BY <3>1
    <3>3. EndCallKey \in shown
      BY <1>0, <1>2, <3>2, ModernLabels
    <3>4. HoldKey \notin shown
      <4>1. \A i \in 1..1 : Resolve(s[i]) # 3
        BY <1>2, <3>2, ModernLabels
      <4> QED
        BY <1>0, <3>2, <4>1
    <3> QED
      BY <2>2, <3>3, <3>4 DEF shown
  <2>4. CASE n = "ringin"
    <3>1. s = <<11>>
      BY <1>2, <2>4 DEF KeySets
    <3> HIDE DEF s
    <3>2. Len(s) = 1 /\ s[1] = 11
      BY <3>1
    <3> QED
      BY <1>0, <1>2, <2>4, <3>2, ModernLabels DEF shown
  <2>5. CASE n = "connected"
    <3>1. s = <<3, 9, 4, 13>>
      BY <1>2, <2>5 DEF KeySets
    <3> HIDE DEF s
    <3>2. Len(s) = 4 /\ s[1] = 3 /\ s[2] = 9
      BY <3>1
    <3> QED
      BY <1>0, <1>2, <2>5, <3>2, ModernLabels DEF shown
  <2>6. CASE n = "held"
    <3>1. s = <<10, 9>>
      BY <1>2, <2>6 DEF KeySets
    <3> HIDE DEF s
    <3>2. Len(s) = 2 /\ s[1] = 10
      BY <3>1
    <3> QED
      BY <1>0, <1>2, <2>6, <3>2, ModernLabels DEF shown
  <2> QED
    BY <1>2, <2>1, <2>2, <2>4, <2>5, <2>6 DEF SetNames
<1> QED
  BY <1>1, <1>2

LEMMA ScreenInvFits == ScreenInv => ShownFits
<1> SUFFICES ASSUME ScreenInv, Quiet PROVE ShownFits
  BY DEF ShownFits, KeysFit, ResumeFits, TonesFit, PromptFits
<1>1. /\ In(phone, Final) /\ Final \in Modes
      /\ \A reg \in Registers : Right(reg, Current, phone, face)
  BY AtRest
<1>2. /\ Right("list", Current, phone, face) /\ Right("keys", Current, phone, face)
      /\ Right("tone", Current, phone, face) /\ Right("prompt", Current, phone, face)
  BY <1>1 DEF Registers
<1>3. face \in Face /\ kind \in Kind
  BY DEF ScreenInv
<1>4. CASE active = NoCall
  <2>1. Current = IdleGoal /\ Final.ref = NoCall
    BY <1>4 DEF Current, Final, NoMode
  <2>2. face.set = "idle" /\ face.tone = "none" /\ (~Legacy => face.prompt = "Ready")
    BY <1>2, <2>1 DEF Right, IdleGoal
  <2>3. ShownSet(phone, face) = "idle"
    BY <1>1, <1>3, <2>1, <2>2, ShownOne
  <2>4. NewCallKey \in ShownKeys(phone, face)
    BY <2>3, Offers DEF SetNames
  <2> QED
    BY <1>4, <2>2, <2>4 DEF ShownFits, KeysFit, ResumeFits, TonesFit, PromptFits, InState
<1>5. CASE active # NoCall
  <2> DEFINE c == calls[active]
             g == Current
             n == Current.keys
  <2>1. active \in Refs /\ c \in Calls /\ OnHub(c)
    BY <1>5, TheCall
  <2>2. Current = Goal(active, c) /\ Final.ref = active /\ Final.on = (c.st # "dialing")
    BY <1>5 DEF Current, Final, Mode
  <2> HIDE DEF g
  <2>3. g.ref = active /\ active # NoCall
    BY <1>5, <2>2 DEF Goal, g
  <2>4. /\ face.set = g.keys /\ face.keys[active] = g.keys /\ face.tone = g.tone
        /\ g.prompt = "any" \/ face.prompt = g.prompt
        /\ g.st = "none" \/ phone.st[active] = g.st
    BY <1>2, <2>3 DEF Right, Shows, g
  <2>5. CASE c.st = "dialing"
    <3>1. g.keys = "dialing" /\ g.tone = "dial"
      BY <2>2, <2>5 DEF Goal, g
    <3>2. phone.st[active] \notin Listing
      BY <1>1, <1>5, <2>2, <2>5 DEF In
    <3>3. ShownSet(phone, face) = "dialing"
      BY <1>1, <1>3, <2>2, <2>4, <3>1, <3>2, ShownOne DEF Listing
    <3>4. EndCallKey \in ShownKeys(phone, face)
      BY <3>3, Offers DEF SetNames
    <3> QED
      BY <1>5, <2>4, <2>5, <3>1, <3>4
         DEF ShownFits, KeysFit, ResumeFits, TonesFit, PromptFits, InState
  <2>6. CASE c.st = "ringing"
    <3>1. /\ g.st = (IF c.out THEN "ringout" ELSE "ringin") /\ g.keys = g.st
          /\ g.tone = (IF c.out \/ Legacy THEN "none" ELSE "ring")
          /\ ~Legacy /\ ~c.ivr => g.prompt = (IF c.out THEN "RingOut" ELSE "RingIn")
      BY <2>1, <2>2, <2>6 DEF Goal, g
    <3>2. ShownSet(phone, face) = g.keys
      BY <1>1, <1>3, <2>2, <2>4, <3>1, ShownOne
    <3>3. (IF c.out THEN EndCallKey ELSE AnswerKey) \in ShownKeys(phone, face)
      BY <3>1, <3>2, Offers DEF SetNames
    <3>4. g.prompt # "any" \/ Legacy \/ c.ivr
      BY <3>1
    <3> QED
      BY <1>5, <2>4, <2>6, <3>1, <3>3, <3>4
         DEF ShownFits, KeysFit, ResumeFits, TonesFit, PromptFits, InState
  <2>7. CASE c.st = "connected"
    <3>1. /\ g.st = "connected" /\ g.keys = (IF c.ivr THEN "dialing" ELSE "connected")
          /\ g.tone = "none"
          /\ ~Legacy /\ ~c.ivr => g.prompt = "Connected"
      BY <2>1, <2>2, <2>7 DEF Goal, g
    <3>2. ShownSet(phone, face) = g.keys
      BY <1>1, <1>3, <2>2, <2>4, <3>1, ShownOne
    <3>3. /\ EndCallKey \in ShownKeys(phone, face)
          /\ HoldKey \in ShownKeys(phone, face) <=> ~c.ivr
      BY <3>1, <3>2, Offers DEF SetNames
    <3> QED
      BY <1>5, <2>4, <2>7, <3>1, <3>3
         DEF ShownFits, KeysFit, ResumeFits, TonesFit, PromptFits, InState
  <2>8. CASE c.st = "held"
    <3>1. /\ g.st = "hold" /\ g.keys = "held"
          /\ g.tone = (IF c.mine THEN "hold" ELSE "remote_hold")
          /\ ~Legacy /\ ~c.ivr => g.prompt = (IF c.mine THEN "OnHold" ELSE "RemoteHold")
      BY <2>1, <2>2, <2>8 DEF Goal, g
    <3>2. ShownSet(phone, face) = g.keys
      BY <1>1, <1>3, <2>2, <2>4, <3>1, ShownOne
    <3>3. ~Legacy => ResumeKey \in ShownKeys(phone, face)
      BY <3>1, <3>2, Offers DEF SetNames
    <3> QED
      BY <1>5, <2>4, <2>8, <3>1, <3>3
         DEF ShownFits, KeysFit, ResumeFits, TonesFit, PromptFits, InState
  <2> QED
    BY <2>1, <2>5, <2>6, <2>7, <2>8 DEF OnHub
<1> QED
  BY <1>4, <1>5

-----------------------------------------------------------------------------
LEMMA ScreenInvHolds == ScreenSpec /\ ~SecondCalls => []ScreenInv
<1>1. ScreenInit /\ ~SecondCalls => ScreenInv
  BY ScreenStart
<1>2. ScreenInv /\ [ScreenNext]_screenVars => ScreenInv'
  BY ScreenStep
<1> QED
  BY <1>1, <1>2, PTL DEF ScreenSpec

(* While the user places no second call, whatever he presses in the middle  *)
(* of whichever packets: once nothing is on its way the phone lists the     *)
(* calls the hub has, in their states (_send_party_focus and _notify_* of   *)
(* the hub; the handlers of messages/phone.py).                             *)
THEOREM ScreenIsTheHubs == ScreenSpec /\ ~SecondCalls => []ScreenAgrees
BY ScreenInvHolds, ScreenInvAgrees, PTL

(* ... shows keys the hub acts on now, and plays the tone and, if it is a   *)
(* modern phone, shows the prompt of its call.                              *)
THEOREM ScreenFitsTheCall == ScreenSpec /\ ~SecondCalls => []ShownFits
BY ScreenInvHolds, ScreenInvFits, PTL

(* ... and the records of both sides stay well formed: the hub's active     *)
(* call is a live one, and no packet leaves the client's call table outside *)
(* its type.                                                                *)
THEOREM ScreenTyped == ScreenSpec /\ ~SecondCalls => []ScreenTypeOK
<1>1. ScreenInv => ScreenTypeOK
  <2> SUFFICES ASSUME ScreenInv PROVE ScreenTypeOK
    OBVIOUS
  <2>1. phone \in Client!Phone
    BY DEF ScreenInv, Stream, In
  <2>2. active \in Live \cup {NoCall}
    BY TheCall DEF ScreenInv, HubOK, OnHub, Live
  <2>3. DOMAIN KeySets = SetNames
    BY DEF KeySets, SetNames
  <2> QED
    BY <2>1, <2>2, <2>3 DEF ScreenTypeOK, ScreenInv, HubOK, Calls, Face
<1> QED
  BY <1>1, ScreenInvHolds, PTL

-----------------------------------------------------------------------------
(* The macro of a phone that answers by itself *)

CONSTANTS
  Keys, Hash, ExtensionKeys, TransferKeys, MaxLen, MaxCalls, MaxKeys, Unhurried, Split, Tidy
VARIABLES call, ended, buf, rings, presses, pc, looked, digits, digit, taken

Run == INSTANCE MacroRun WITH calls <- rings, DialKeys <- ExtensionKeys

(* The macro is past WAIT_CALL only with a call or with an end to see, past *)
(* ANSWER only with one that it answered, and between the two looks of      *)
(* GETDIGITS with no end to see.                                            *)
InCall ==
  /\ call \in {"idle", "ringing", "connected", "leaving"}
  /\ pc = "getdigits2" => ~ended
  /\ pc # "WAIT_CALL" => call # "idle" \/ ended
  /\ pc \notin {"WAIT_CALL", "ANSWER"} => call \in {"connected", "leaving"} \/ ended

(* A key that was not read is of this call, and there is none after it.     *)
KeysOfCall ==
  /\ buf \in Seq(Nat \X Keys)
  /\ \A i \in 1..Len(buf) : buf[i][1] = rings
  /\ call = "idle" => buf = <<>>
  /\ rings \in Nat /\ Run!OwnDigits

LEMMA InCallInductive ==
  ASSUME Unhurried, ~Split, InCall, [Run!Next]_(Run!vars)
  PROVE  InCall'
<1> USE DEF InCall, Run!Goto, Run!Jump, Run!OnDisconnect, Run!Disconnected, Run!At, Run!phoneVars
<1>1. CASE Run!Ring \/ Run!Gone
  BY <1>1 DEF Run!Ring, Run!Gone, Run!EndSeen, Run!macroVars
<1>2. ASSUME NEW k \in Keys, Run!Key(k)
      PROVE  InCall'
  BY <1>2 DEF Run!Key, Run!macroVars
<1>3. CASE Run!Look \/ Run!AfterBlocking \/ Run!GetDigitsJumps
  BY <1>3 DEF Run!Look, Run!AfterBlocking, Run!Blocks, Run!GetDigitsJumps
<1>4. CASE Run!WaitCall \/ Run!Answer
  BY <1>4 DEF Run!WaitCall, Run!Answer
<1>5. CASE Run!Play \/ Run!WaitDigit \/ Run!IfEq \/ Run!Transfer
  BY <1>5 DEF Run!Play, Run!WaitDigit, Run!IfEq, Run!Transfer
<1>6. CASE Run!Switch
  <2>1. (CASE digit \in ExtensionKeys -> "GETDIGITS"
           [] digit \in TransferKeys -> "TRANSFER"
           [] OTHER -> "PLAY") \notin {"WAIT_CALL", "ANSWER", "getdigits2"}
    OBVIOUS
  <2> QED
    BY <1>6, <2>1 DEF Run!Switch
<1>7. CASE Run!GetDigits \/ Run!GetDigit
  BY <1>7 DEF Run!GetDigits, Run!GetDigit
<1>8. CASE UNCHANGED Run!vars
  BY <1>8 DEF Run!vars
<1> QED
  BY <1>1, <1>2, <1>3, <1>4, <1>5, <1>6, <1>7, <1>8 DEF Run!Next, Run!Macro

(* The script of a macro whose calls come one after the end of the other    *)
(* was seen is in its menus only while a call is up, or has its end to see, *)
(* for any keys and any number of calls (MacroRun; run_macro, macro_cli.py).*)
THEOREM ScriptHasItsCall ==
  ASSUME Unhurried, ~Split
  PROVE  Run!Spec => []Run!ScriptNeedsCall
<1>1. Run!Init => InCall
  BY DEF Run!Init, InCall
<1>2. InCall => Run!ScriptNeedsCall
  BY DEF InCall, Run!ScriptNeedsCall
<1> QED
  BY <1>1, <1>2, InCallInductive, PTL DEF Run!Spec

LEMMA KeysInductive ==
  ASSUME Tidy, KeysOfCall, [Run!Next]_(Run!vars)
  PROVE  KeysOfCall'
<1> USE DEF KeysOfCall, Run!OwnDigits
<1>1. CASE Run!Ring
  BY <1>1 DEF Run!Ring, Run!macroVars
<1>2. ASSUME NEW k \in Keys, Run!Key(k)
      PROVE  KeysOfCall'
  <2>1. buf' = Append(buf, <<rings, k>>) /\ call = "connected"
        /\ UNCHANGED <<call, rings, taken>>
    BY <1>2 DEF Run!Key, Run!macroVars
  <2>2. /\ buf' \in Seq(Nat \X Keys) /\ Len(buf') = Len(buf) + 1
        /\ \A i \in 1..Len(buf) : buf'[i] = buf[i]
        /\ buf'[Len(buf) + 1] = <<rings, k>>
    BY <2>1
  <2>3. ASSUME NEW i \in 1..Len(buf')
        PROVE  buf'[i][1] = rings
    <3>1. Len(buf) \in Nat
      OBVIOUS
    <3>2. CASE i = Len(buf) + 1
      BY <2>2, <3>2
    <3>3. CASE i \in 1..Len(buf)
      BY <2>2, <3>3
    <3> QED
      BY <2>2, <3>1, <3>2, <3>3
  <2> QED
    BY <2>1, <2>2, <2>3
<1>3. CASE Run!Gone
  BY <1>3 DEF Run!Gone, Run!macroVars
<1>4. CASE Run!Look \/ Run!AfterBlocking \/ Run!GetDigitsJumps
  BY <1>4 DEF Run!Look, Run!AfterBlocking, Run!GetDigitsJumps, Run!Disconnected, Run!phoneVars
<1>5. CASE Run!WaitCall \/ Run!Answer \/ Run!Play \/ Run!Switch \/ Run!GetDigits
           \/ Run!IfEq \/ Run!Transfer
  BY <1>5 DEF Run!WaitCall, Run!Answer, Run!Play, Run!Switch, Run!GetDigits, Run!IfEq,
     Run!Transfer, Run!phoneVars, Run!At
<1>6. ASSUME buf # <<>>, Run!TakeDigit, UNCHANGED <<call, rings>>
      PROVE  KeysOfCall'
  <2>1. buf' = Tail(buf) /\ taken' = <<buf[1][1], rings>> /\ buf[1][1] = rings
    BY <1>6 DEF Run!TakeDigit
  <2>2. /\ buf' \in Seq(Nat \X Keys) /\ Len(buf') = Len(buf) - 1
        /\ \A i \in 1..Len(buf') : buf'[i] = buf[i + 1]
    BY <1>6, <2>1
  <2>3. ASSUME NEW i \in 1..Len(buf')
        PROVE  buf'[i][1] = rings
    <3>1. i + 1 \in 1..Len(buf)
      BY <2>2
    <3> QED
      BY <2>2, <3>1
  <2> QED
    BY <1>6, <2>1, <2>2, <2>3
<1>7. CASE Run!WaitDigit
  BY <1>6, <1>7 DEF Run!WaitDigit
<1>8. CASE Run!GetDigit
  <2>1. CASE buf = <<>>
    BY <1>8, <2>1 DEF Run!GetDigit
  <2>2. CASE buf # <<>>
    BY <1>6, <1>8, <2>2 DEF Run!GetDigit
  <2> QED
    BY <2>1, <2>2
<1>9. CASE UNCHANGED Run!vars
  BY <1>9 DEF Run!vars
<1> QED
  BY <1>1, <1>2, <1>3, <1>4, <1>5, <1>7, <1>8, <1>9 DEF Run!Next, Run!Macro

(* The menu acts on the keys of the caller it talks to, if callers wait     *)
(* until their keys are read: the buffer outlives the call (client.py:790). *)
THEOREM DigitsAreTheCallers ==
  ASSUME Tidy
  PROVE  Run!Spec => []Run!OwnDigits
<1>1. Run!Init => KeysOfCall
  BY DEF Run!Init, KeysOfCall, Run!OwnDigits
<1>2. KeysOfCall => Run!OwnDigits
  BY DEF KeysOfCall
<1> QED
  BY <1>1, <1>2, KeysInductive, PTL DEF Run!Spec

LEMMA TimesMonotone ==
  ASSUME NEW a \in Nat, NEW b \in Nat, NEW c \in Nat, a <= b
  PROVE  a * c \in Nat /\ a * c <= b * c /\ (a + 1) * c = a * c + c
<1>1. PICK d \in Nat : b = a + d
  <2>1. b - a \in Nat /\ b = a + (b - a)
    OBVIOUS
  <2> QED
    BY <2>1
<1>2. b * c = a * c + d * c
  BY <1>1
<1>3. d * c \in Nat /\ a * c \in Nat
  OBVIOUS
<1> QED
  BY <1>2, <1>3

(* GETDIGITS reads a digit only where there is room for it.                 *)
RunPlain ==
  /\ call \in {"idle", "ringing", "connected", "leaving"}
  /\ ended \in BOOLEAN /\ looked \in BOOLEAN
  /\ buf \in Seq((1..MaxCalls) \X Keys)
  /\ rings \in 0..MaxCalls /\ presses \in 0..MaxKeys
  /\ pc \in Run!Instructions /\ digit \in Keys
  /\ digits \in Seq(Keys \ {Hash}) /\ Len(digits) <= MaxLen
  /\ pc = "getdigits2" => Len(digits) < MaxLen

(* No call is without its number, and none adds more keys than it may.      *)
KeysCounted ==
  /\ rings = 0 => call = "idle" /\ buf = <<>>
  /\ rings # 0 => Len(buf) + MaxKeys <= rings * MaxKeys + presses

LEMMA PlainInductive ==
  ASSUME Run!MacroAssumption, RunPlain, KeysCounted, [Run!Next]_(Run!vars)
  PROVE  RunPlain'
<1> USE DEF RunPlain, Run!MacroAssumption
<1>1. CASE Run!Ring
  <2>1. /\ call' = "ringing" /\ ended' = FALSE
        /\ UNCHANGED <<buf, pc, looked, digits, digit>>
    BY <1>1 DEF Run!Ring, Run!macroVars
  <2>2. rings' \in 0..MaxCalls /\ presses' \in 0..MaxKeys
    BY <1>1 DEF Run!Ring
  <2> QED
    BY <2>1, <2>2
<1>2. ASSUME NEW k \in Keys, Run!Key(k)
      PROVE  RunPlain'
  BY <1>2 DEF Run!Key, Run!macroVars, KeysCounted
<1>3. CASE Run!Gone
  BY <1>3 DEF Run!Gone, Run!EndSeen, Run!macroVars
<1>4. CASE Run!Look \/ Run!AfterBlocking \/ Run!GetDigitsJumps
  BY <1>4 DEF Run!Look, Run!AfterBlocking, Run!GetDigitsJumps, Run!Disconnected, Run!phoneVars,
     Run!OnDisconnect, Run!Jump, Run!Goto, Run!Instructions
<1>5. CASE Run!WaitCall \/ Run!Answer \/ Run!Play \/ Run!GetDigits \/ Run!IfEq \/ Run!Transfer
  BY <1>5 DEF Run!WaitCall, Run!Answer, Run!Play, Run!GetDigits, Run!IfEq, Run!Transfer,
     Run!phoneVars, Run!At, Run!Goto, Run!Room, Run!Instructions
<1>6. CASE Run!Switch
  <2>1. /\ pc' \in {"GETDIGITS", "TRANSFER", "PLAY"} /\ looked' = FALSE /\ digits' = <<>>
        /\ UNCHANGED <<call, ended, buf, rings, presses, digit>>
    BY <1>6 DEF Run!Switch, Run!Goto, Run!phoneVars
  <2>2. digits' \in Seq(Keys \ {Hash}) /\ Len(digits') = 0
    BY <2>1
  <2>3. pc' \in Run!Instructions /\ pc' # "getdigits2"
    BY <2>1 DEF Run!Instructions
  <2>4. Len(digits') <= MaxLen
    BY <2>2
  <2> QED
    BY <2>1, <2>2, <2>3, <2>4
<1>7. ASSUME buf # <<>>, Run!TakeDigit
      PROVE  buf' \in Seq((1..MaxCalls) \X Keys) /\ Head(buf)[2] \in Keys
  BY <1>7 DEF Run!TakeDigit
<1>8. CASE Run!WaitDigit
  BY <1>7, <1>8 DEF Run!WaitDigit, Run!Goto, Run!Instructions
<1>9. CASE Run!GetDigit
  <2>1. CASE buf = <<>>
    BY <1>9, <2>1 DEF Run!GetDigit, Run!Instructions
  <2>2. CASE buf # <<>>
    <3>1. Run!TakeDigit /\ UNCHANGED <<call, ended, rings, presses, digit>>
      BY <1>9, <2>2 DEF Run!GetDigit
    <3>2. CASE Head(buf)[2] = Hash
      BY <1>7, <1>9, <2>2, <3>1, <3>2 DEF Run!GetDigit, Run!Goto, Run!Instructions
    <3>3. CASE Head(buf)[2] # Hash
      <4>1. /\ pc' = "GETDIGITS" /\ looked' = looked
            /\ digits' = Append(digits, Head(buf)[2]) /\ Len(digits) < MaxLen
        BY <1>9, <2>2, <3>3 DEF Run!GetDigit
      <4> QED
        BY <1>7, <2>2, <3>1, <3>3, <4>1 DEF Run!Instructions
    <3> QED
      BY <3>2, <3>3
  <2> QED
    BY <2>1, <2>2
<1>10. CASE UNCHANGED Run!vars
  BY <1>10 DEF Run!vars
<1> QED
  BY <1>1, <1>2, <1>3, <1>4, <1>5, <1>6, <1>8, <1>9, <1>10 DEF Run!Next, Run!Macro

LEMMA CountedInductive ==
  ASSUME Run!MacroAssumption, RunPlain, KeysCounted, [Run!Next]_(Run!vars)
  PROVE  KeysCounted'
<1>0. MaxKeys \in Nat /\ rings \in Nat /\ presses \in Nat /\ presses <= MaxKeys
      /\ Len(buf) \in Nat /\ buf \in Seq((1..MaxCalls) \X Keys)
  BY DEF RunPlain, Run!MacroAssumption
<1>1. CASE Run!Ring
  <2>1. rings' = rings + 1 /\ presses' = 0 /\ buf' = buf
    BY <1>1 DEF Run!Ring
  <2>2. rings' # 0 /\ rings' * MaxKeys = rings * MaxKeys + MaxKeys
    BY <1>0, <2>1, TimesMonotone
  <2>3. rings * MaxKeys \in Nat /\ Len(buf) <= rings * MaxKeys
    <3>1. rings * MaxKeys \in Nat
      BY <1>0
    <3>2. PICK n \in Nat : n = rings * MaxKeys
      BY <3>1
    <3>3. rings = 0 => Len(buf) = 0
      BY DEF KeysCounted
    <3>4. rings # 0 => Len(buf) + MaxKeys <= n + presses
      BY <3>2 DEF KeysCounted
    <3>5. Len(buf) <= n
      BY <1>0, <3>3, <3>4
    <3> QED
      BY <3>2, <3>5
  <2>4. Len(buf') + MaxKeys <= rings' * MaxKeys + presses'
    <3>1. PICK n \in Nat : n = rings * MaxKeys /\ rings' * MaxKeys = n + MaxKeys /\ Len(buf) <= n
      BY <2>2, <2>3
    <3>2. Len(buf) + MaxKeys <= (n + MaxKeys) + 0
      BY <1>0, <3>1
    <3> QED
      BY <2>1, <3>1, <3>2
  <2> QED
    BY <2>2, <2>4 DEF KeysCounted
<1>2. ASSUME NEW k \in Keys, Run!Key(k)
      PROVE  KeysCounted'
  <2>1. /\ call = "connected" /\ presses' = presses + 1 /\ rings' = rings
        /\ buf' = Append(buf, <<rings, k>>)
    BY <1>2 DEF Run!Key
  <2>2. rings # 0 /\ Len(buf') = Len(buf) + 1
    BY <1>0, <2>1 DEF KeysCounted
  <2>3. PICK n \in Nat : n = rings * MaxKeys
    BY <1>0
  <2>4. Len(buf) + MaxKeys <= n + presses
    BY <2>2, <2>3 DEF KeysCounted
  <2>5. Len(buf') + MaxKeys <= n + presses'
    BY <1>0, <2>1, <2>2, <2>4
  <2> QED
    BY <2>1, <2>2, <2>3, <2>5 DEF KeysCounted
<1>3. CASE /\ UNCHANGED <<rings, presses>>
           /\ rings = 0 => call' = "idle"
           /\ buf' = buf \/ (buf # <<>> /\ buf' = Tail(buf))
  <2>1. /\ rings = 0 => buf' = <<>>
        /\ Len(buf') \in Nat /\ Len(buf') <= Len(buf)
    BY <1>0, <1>3 DEF KeysCounted
  <2>2. PICK n \in Nat : n = rings * MaxKeys
    BY <1>0
  <2>3. rings # 0 => Len(buf) + MaxKeys <= n + presses
    BY <2>2 DEF KeysCounted
  <2>4. rings # 0 => Len(buf') + MaxKeys <= n + presses
    BY <1>0, <2>1, <2>3
  <2> QED
    BY <1>3, <2>1, <2>2, <2>4 DEF KeysCounted
<1>4. CASE Run!Gone
  BY <1>3, <1>4 DEF Run!Gone, KeysCounted
<1>5. CASE Run!Macro
  <2>1. UNCHANGED <<rings, presses>>
    BY <1>5 DEF Run!Macro, Run!Look, Run!AfterBlocking, Run!WaitCall, Run!Answer, Run!Play,
       Run!WaitDigit, Run!Switch, Run!GetDigits, Run!GetDigitsJumps, Run!GetDigit, Run!IfEq,
       Run!Transfer, Run!Disconnected, Run!phoneVars
  <2>2. call' # call => call \in {"ringing", "connected"}
    BY <1>5 DEF Run!Macro, Run!Look, Run!AfterBlocking, Run!WaitCall, Run!Answer, Run!Play,
       Run!WaitDigit, Run!Switch, Run!GetDigits, Run!GetDigitsJumps, Run!GetDigit, Run!IfEq,
       Run!Transfer, Run!Disconnected, Run!phoneVars
  <2>3. buf' = buf \/ (buf # <<>> /\ buf' = Tail(buf))
    BY <1>5 DEF Run!Macro, Run!Look, Run!AfterBlocking, Run!WaitCall, Run!Answer, Run!Play,
       Run!WaitDigit, Run!Switch, Run!GetDigits, Run!GetDigitsJumps, Run!GetDigit, Run!IfEq,
       Run!Transfer, Run!Disconnected, Run!phoneVars, Run!TakeDigit
  <2> QED
    BY <1>3, <2>1, <2>2, <2>3 DEF KeysCounted
<1>6. CASE UNCHANGED Run!vars
  BY <1>6 DEF Run!vars, KeysCounted
<1> QED
  BY <1>1, <1>2, <1>4, <1>5, <1>6 DEF Run!Next

(* The macro, its phone and its digits keep their types for any keys and    *)
(* any number of calls: GETDIGITS reads no more than it has room for, and   *)
(* the buffer holds no more than was pressed (MacroRun).                    *)
THEOREM MacroTyped ==
  ASSUME Run!MacroAssumption
  PROVE  Run!Spec => []Run!TypeOK
<1>1. Run!Init => RunPlain /\ KeysCounted
  <2>1. SUFFICES ASSUME Run!Init PROVE RunPlain /\ KeysCounted
    OBVIOUS
  <2>2. /\ buf \in Seq((1..MaxCalls) \X Keys)
        /\ digits \in Seq(Keys \ {Hash}) /\ Len(digits) = 0
    BY <2>1 DEF Run!Init
  <2>3. RunPlain
    <3>1. pc \in Run!Instructions /\ pc # "getdigits2"
      BY <2>1 DEF Run!Init, Run!Instructions
    <3>2. Len(digits) <= MaxLen /\ rings \in 0..MaxCalls /\ presses \in 0..MaxKeys
      BY <2>1, <2>2 DEF Run!Init, Run!MacroAssumption
    <3>3. digit \in Keys
      BY <2>1 DEF Run!Init, Run!MacroAssumption
    <3> QED
      BY <2>1, <2>2, <3>1, <3>2, <3>3 DEF Run!Init, RunPlain
  <2> QED
    BY <2>1, <2>3 DEF Run!Init, KeysCounted
<1>2. RunPlain /\ KeysCounted => Run!TypeOK
  <2>1. SUFFICES ASSUME RunPlain, KeysCounted PROVE Run!TypeOK
    OBVIOUS
  <2>2. PICK n \in Nat, most \in Nat :
          n = rings * MaxKeys /\ most = MaxCalls * MaxKeys /\ n <= most
    BY <2>1, TimesMonotone DEF RunPlain, Run!MacroAssumption
  <2>3. Len(buf) <= n
    <3>1. rings = 0 => Len(buf) = 0
      BY <2>1 DEF KeysCounted
    <3>2. rings # 0 => Len(buf) + MaxKeys <= n + presses
      BY <2>1, <2>2 DEF KeysCounted
    <3>3. presses <= MaxKeys /\ presses \in Nat /\ MaxKeys \in Nat /\ Len(buf) \in Nat
      BY <2>1 DEF RunPlain, Run!MacroAssumption
    <3> QED
      BY <3>1, <3>2, <3>3
  <2>4. Len(buf) <= MaxCalls * MaxKeys
    <3>1. Len(buf) <= most
      BY <2>1, <2>2, <2>3 DEF RunPlain
    <3> QED
      BY <2>2, <3>1
  <2> QED
    BY <2>1, <2>4 DEF RunPlain, Run!TypeOK
<1>3. RunPlain /\ KeysCounted /\ [Run!Next]_(Run!vars) => RunPlain' /\ KeysCounted'
  BY PlainInductive, CountedInductive
<1> QED
  BY <1>1, <1>2, <1>3, PTL DEF Run!Spec
=============================================================================
