-------------------------------- MODULE G711 --------------------------------
(***************************************************************************)
(* The voice codecs of the RTP sender and receiver, sample by sample: the  *)
(* u-law and A-law encoders of audio_worker.py, the decoders of            *)
(* utils/g711.py and the u-law encoder beside them.  A code is its fields; *)
(* the order of its bits on the wire and their inversion are left out.     *)
(***************************************************************************)
EXTENDS Integers, FiniteSetsExt

VARIABLE s        \* a sample, as a 16-bit integer

Codes == [neg: BOOLEAN, exp: 0..7, mant: 0..15]

Smaller(a, b) == IF a < b THEN a ELSE b
Magnitude(x)  == IF x < 0 THEN -x ELSE x
Signed(neg, m) == IF neg THEN -m ELSE m

Bias == 132
Clip == 32635

-----------------------------------------------------------------------------
(* The encoders of audio_worker.py *)

(* Both turn a negative sample into -x - 1. *)
Folded(x) == IF x < 0 THEN -x - 1 ELSE x

EncodeUlawNoBias(x) ==                                             \* mutant
  LET v == Smaller(Folded(x), Clip)
      e == Max({0} \cup {k \in 0..7 : v >= 2^(k + 7)})
  IN [neg |-> x < 0, exp |-> e, mant |-> (v \div 2^(e + 3)) % 16]

(* The exponent is the place of the leading bit. *)
EncodeUlaw(x) ==
  LET v == Smaller(Folded(x), Clip) + Bias
      e == Max({0} \cup {k \in 0..7 : v >= 2^(k + 7)})
  IN [neg |-> x < 0, exp |-> e, mant |-> (v \div 2^(e + 3)) % 16]

EncodeAlaw(x) ==
  LET v == Folded(x) \div 16
      e == Max({0} \cup {k \in 1..7 : v >= 2^(k + 5)})
  IN [neg |-> x < 0, exp |-> e, mant |-> (v \div 2^(e + 1)) % 16]

(* utils/g711.py *)
DecodeUlaw(c) == Signed(c.neg, (c.mant * 8 + Bias) * 2^c.exp)

DecodeAlaw(c) ==
  Signed(c.neg, IF c.exp = 0 THEN c.mant * 16 + 8
                ELSE (c.mant * 16 + 264) * 2^(c.exp - 1))

(* pcmu_encode_from_float32 of utils/g711.py: the exponent counts the       *)
(* halvings, at most seven, until the value is below 128.                   *)
EncodeUtil(x) ==
  LET v == Smaller(Magnitude(x) + Bias, 32767)
      e == Min({7} \cup {k \in 0..7 : v \div 2^k <= 127})
  IN [neg |-> x < 0, exp |-> e, mant |-> (v \div 2^(e + 3)) % 16]

-----------------------------------------------------------------------------
(* Every sample, from the lowest on. *)

Init == s = -32767
Sweep == s < 32767 /\ s' = s + 1
Spec == Init /\ [][Sweep]_s

-----------------------------------------------------------------------------
(* Properties *)

UlawHeard(x) == DecodeUlaw(EncodeUlaw(x))
AlawHeard(x) == DecodeAlaw(EncodeAlaw(x))

(* The quantising step at a magnitude: a 16th of its octave. *)
Step(m) == Max({8} \cup {2^(k - 4) : k \in {j \in 7..14 : 2^j <= m}})

(* What the receiver hears of a u-law sample has its sign and is within     *)
(* half a step of the biased magnitude, and a louder one is heard no        *)
(* softer: the two sides cut the range into the same segments.              *)
UlawInStep ==
  LET v == Smaller(Folded(s), Clip) + Bias IN
  /\ EncodeUlaw(s) \in Codes
  /\ (UlawHeard(s) < 0) = (s < 0)
  /\ 2 * Magnitude(Magnitude(UlawHeard(s)) - v) <= Step(v)
  /\ s < 32767 => UlawHeard(s) <= UlawHeard(s + 1)

(* The A-law sample heard is within a step, and the 16 of the lowest        *)
(* segments, of the one sent: the encoder "matches your PCMU/PCMA           *)
(* decoders".  Does not hold (audio_worker.py:920).                         *)
AlawInStep == Magnitude(AlawHeard(s) - s) <= Step(Magnitude(s)) + 16

(* Silence is heard as silence: the bias the encoder adds is taken off by   *)
(* the decoder.  Does not hold (utils/g711.py:10).                          *)
SilenceHeard == Magnitude(s) <= 8 => Magnitude(UlawHeard(s)) <= 16

(* The encoder beside the decoder is "the inverse of decode": it gives back *)
(* every code.  Does not hold (utils/g711.py:44).                           *)
UtilInverts == EncodeUtil(UlawHeard(s)) = EncodeUlaw(s)
=============================================================================
