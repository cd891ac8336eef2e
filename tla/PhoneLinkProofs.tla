-------------------------- MODULE PhoneLinkProofs --------------------------
(***************************************************************************)
(* A client and the hub with any number of messages between them: whatever *)
(* the client sends, and however old the messages it handles are, the hub  *)
(* takes only steps of CallHub, and the flags and events of the client     *)
(* agree with its own call table.                                          *)
(***************************************************************************)
EXTENDS PhoneLink, CallHubProofs, SequenceTheorems, TLAPS

-----------------------------------------------------------------------------
(* What sequences of messages hold, and in which order *)

Has(s, P) == \E i \in 1..Len(s) : s[i] \in P

(* Every Q is preceded by a P; no Q is preceded by a P; a P comes before    *)
(* any Q; and every A is followed by a P before any Q.                      *)
Preceded(s, P, Q) ==
  \A i \in 1..Len(s) : s[i] \in Q => \E j \in 1..(i - 1) : s[j] \in P

NoneBefore(s, P, Q) ==
  \A i \in 1..Len(s) : s[i] \in Q => \A j \in 1..(i - 1) : s[j] \notin P

ComesFirst(s, P, Q) ==
  \E j \in 1..Len(s) : s[j] \in P /\ \A i \in 1..(j - 1) : s[i] \notin Q

Followed(s, A, P, Q) ==
  \A i \in 1..Len(s) : s[i] \in A =>
    \E j \in (i + 1)..Len(s) : s[j] \in P /\ \A k \in (i + 1)..(j - 1) : s[k] \notin Q

(* Reading the first message *)
LEMMA TailFacts ==
  ASSUME NEW S, NEW s \in Seq(S), s # <<>>
  PROVE  /\ Head(s) = s[1] /\ Head(s) \in S
         /\ Tail(s) \in Seq(S) /\ Len(s) \in Nat /\ Len(s) >= 1
         /\ Len(Tail(s)) = Len(s) - 1
         /\ \A i \in 1..(Len(s) - 1) : Tail(s)[i] = s[i + 1]
BY HeadTailProperties, EmptySeq

LEMMA HasTail ==
  ASSUME NEW S, NEW s \in Seq(S), s # <<>>, NEW P
  PROVE  Has(s, P) <=> Head(s) \in P \/ Has(Tail(s), P)
<1>1. ASSUME Has(s, P) PROVE Head(s) \in P \/ Has(Tail(s), P)
  <2>1. PICK i \in 1..Len(s) : s[i] \in P
    BY <1>1 DEF Has
  <2>2. CASE i = 1
    BY <2>1, <2>2, TailFacts
  <2>3. CASE i # 1
    <3>1. i - 1 \in 1..Len(Tail(s)) /\ Tail(s)[i - 1] = s[i]
      BY <2>3, TailFacts
    <3> QED
      BY <2>1, <3>1 DEF Has
  <2> QED
    BY <2>2, <2>3
<1>2. ASSUME Head(s) \in P PROVE Has(s, P)
  <2>1. 1 \in 1..Len(s) /\ s[1] \in P
    BY <1>2, TailFacts
  <2> QED
    BY <2>1 DEF Has
<1>3. ASSUME Has(Tail(s), P) PROVE Has(s, P)
  <2>1. PICK i \in 1..Len(Tail(s)) : Tail(s)[i] \in P
    BY <1>3 DEF Has
  <2>2. i + 1 \in 1..Len(s) /\ s[i + 1] \in P
    BY <2>1, TailFacts
  <2> QED
    BY <2>2 DEF Has
<1> QED
  BY <1>1, <1>2, <1>3

LEMMA PrecededTail ==
  ASSUME NEW S, NEW s \in Seq(S), s # <<>>, NEW P, NEW Q, Preceded(s, P, Q)
  PROVE  Head(s) \notin Q /\ (Head(s) \notin P => Preceded(Tail(s), P, Q))
<1>1. Head(s) \notin Q
  <2>1. 1 \in 1..Len(s) /\ s[1] = Head(s) /\ 1..(1 - 1) = {}
    BY TailFacts
  <2> QED
    BY <2>1 DEF Preceded
<1>2. ASSUME Head(s) \notin P, NEW i \in 1..Len(Tail(s)), Tail(s)[i] \in Q
      PROVE  \E j \in 1..(i - 1) : Tail(s)[j] \in P
  <2>1. i + 1 \in 1..Len(s) /\ s[i + 1] \in Q
    BY <1>2, TailFacts
  <2>2. PICK j \in 1..((i + 1) - 1) : s[j] \in P
    BY <2>1 DEF Preceded
  <2>3. j # 1
    BY <1>2, <2>2, TailFacts
  <2>4. j - 1 \in 1..(i - 1) /\ Tail(s)[j - 1] = s[j]
    BY <2>3, TailFacts
  <2> QED
    BY <2>2, <2>4
<1> QED
  BY <1>1, <1>2 DEF Preceded

LEMMA NoneBeforeTail ==
  ASSUME NEW S, NEW s \in Seq(S), s # <<>>, NEW P, NEW Q, NoneBefore(s, P, Q)
  PROVE  NoneBefore(Tail(s), P, Q) /\ (Head(s) \in P => ~Has(Tail(s), Q))
<1>1. ASSUME NEW i \in 1..Len(Tail(s)), Tail(s)[i] \in Q
      PROVE  Head(s) \notin P /\ \A j \in 1..(i - 1) : Tail(s)[j] \notin P
  <2>1. i + 1 \in 1..Len(s) /\ s[i + 1] \in Q
    BY <1>1, TailFacts
  <2>2. \A j \in 1..((i + 1) - 1) : s[j] \notin P
    BY <2>1 DEF NoneBefore
  <2>3. 1 \in 1..((i + 1) - 1) /\ s[1] = Head(s)
    BY TailFacts
  <2>4. \A j \in 1..(i - 1) : j + 1 \in 1..((i + 1) - 1) /\ Tail(s)[j] = s[j + 1]
    BY TailFacts
  <2> QED
    BY <2>2, <2>3, <2>4
<1> QED
  BY <1>1 DEF NoneBefore, Has

LEMMA ComesFirstTail ==
  ASSUME NEW S, NEW s \in Seq(S), s # <<>>, NEW P, NEW Q, ComesFirst(s, P, Q), Head(s) \notin P
  PROVE  Head(s) \notin Q /\ ComesFirst(Tail(s), P, Q)
<1>1. PICK j \in 1..Len(s) : s[j] \in P /\ \A i \in 1..(j - 1) : s[i] \notin Q
  BY DEF ComesFirst
<1>2. j # 1
  BY <1>1, TailFacts
<1>3. 1 \in 1..(j - 1) /\ s[1] = Head(s)
  BY <1>2, TailFacts
<1>4. j - 1 \in 1..Len(Tail(s)) /\ Tail(s)[j - 1] \in P
  BY <1>1, <1>2, TailFacts
<1>5. \A i \in 1..((j - 1) - 1) : Tail(s)[i] = s[i + 1] /\ i + 1 \in 1..(j - 1)
  BY TailFacts
<1> QED
  BY <1>1, <1>3, <1>4, <1>5 DEF ComesFirst

LEMMA FollowedTail ==
  ASSUME NEW S, NEW s \in Seq(S), s # <<>>, NEW A, NEW P, NEW Q, Followed(s, A, P, Q)
  PROVE  /\ Followed(Tail(s), A, P, Q)
         /\ Head(s) \in A => ComesFirst(Tail(s), P, Q)
<1>1. ASSUME NEW i \in 1..Len(s), s[i] \in A
      PROVE  \E j \in i..Len(Tail(s)) : /\ Tail(s)[j] \in P
                                        /\ \A k \in i..(j - 1) : Tail(s)[k] \notin Q
  <2>1. PICK j \in (i + 1)..Len(s) : s[j] \in P /\ \A k \in (i + 1)..(j - 1) : s[k] \notin Q
    BY <1>1 DEF Followed
  <2>2. j - 1 \in i..Len(Tail(s)) /\ Tail(s)[j - 1] \in P
    BY <2>1, TailFacts
  <2>3. \A k \in i..((j - 1) - 1) : Tail(s)[k] = s[k + 1] /\ k + 1 \in (i + 1)..(j - 1)
    BY TailFacts
  <2> QED
    BY <2>1, <2>2, <2>3
<1>2. Followed(Tail(s), A, P, Q)
  <2> SUFFICES ASSUME NEW i \in 1..Len(Tail(s)), Tail(s)[i] \in A
               PROVE  \E j \in (i + 1)..Len(Tail(s)) :
                        Tail(s)[j] \in P /\ \A k \in (i + 1)..(j - 1) : Tail(s)[k] \notin Q
    BY DEF Followed
  <2>1. i + 1 \in 1..Len(s) /\ s[i + 1] \in A
    BY TailFacts
  <2> QED
    BY <1>1, <2>1
<1>3. ASSUME Head(s) \in A PROVE ComesFirst(Tail(s), P, Q)
  <2>1. 1 \in 1..Len(s) /\ s[1] \in A
    BY <1>3, TailFacts
  <2>2. PICK j \in 1..Len(Tail(s)) : /\ Tail(s)[j] \in P
                                    /\ \A k \in 1..(j - 1) : Tail(s)[k] \notin Q
    BY <1>1, <2>1
  <2> QED
    BY <2>2 DEF ComesFirst
<1> QED
  BY <1>2, <1>3

(* Messages that come after the others *)
LEMMA ConcatFacts ==
  ASSUME NEW S, NEW s \in Seq(S), NEW t \in Seq(S)
  PROVE  /\ s \o t \in Seq(S) /\ Len(s \o t) = Len(s) + Len(t)
         /\ Len(s) \in Nat /\ Len(t) \in Nat
         /\ \A i \in 1..Len(s) : (s \o t)[i] = s[i] /\ i \in 1..Len(s \o t)
         /\ \A i \in 1..Len(t) : (s \o t)[Len(s) + i] = t[i] /\ Len(s) + i \in 1..Len(s \o t)
         /\ \A i \in 1..Len(s \o t) : i \in 1..Len(s) \/ (i - Len(s) \in 1..Len(t)
                                                      /\ (s \o t)[i] = t[i - Len(s)])
<1>1. /\ s \o t \in Seq(S) /\ Len(s \o t) = Len(s) + Len(t)
      /\ \A i \in 1..Len(s) + Len(t) : (s \o t)[i] = IF i <= Len(s) THEN s[i] ELSE t[i - Len(s)]
  BY ConcatProperties
<1>2. Len(s) \in Nat /\ Len(t) \in Nat
  BY LenProperties
<1> QED
  BY <1>1, <1>2

LEMMA HasConcat ==
  ASSUME NEW S, NEW s \in Seq(S), NEW t \in Seq(S), NEW P
  PROVE  Has(s \o t, P) <=> Has(s, P) \/ Has(t, P)
<1>1. ASSUME Has(s \o t, P) PROVE Has(s, P) \/ Has(t, P)
  <2>1. PICK i \in 1..Len(s \o t) : (s \o t)[i] \in P
    BY <1>1 DEF Has
  <2>2. i \in 1..Len(s) \/ (i - Len(s) \in 1..Len(t) /\ (s \o t)[i] = t[i - Len(s)])
    BY ConcatFacts
  <2>3. CASE i \in 1..Len(s)
    BY <2>1, <2>3, ConcatFacts DEF Has
  <2>4. CASE i - Len(s) \in 1..Len(t) /\ (s \o t)[i] = t[i - Len(s)]
    BY <2>1, <2>4 DEF Has
  <2> QED
    BY <2>2, <2>3, <2>4
<1>2. ASSUME Has(s, P) PROVE Has(s \o t, P)
  BY <1>2, ConcatFacts DEF Has
<1>3. ASSUME Has(t, P) PROVE Has(s \o t, P)
  <2>1. PICK i \in 1..Len(t) : t[i] \in P
    BY <1>3 DEF Has
  <2>2. Len(s) + i \in 1..Len(s \o t) /\ (s \o t)[Len(s) + i] \in P
    BY <2>1, ConcatFacts
  <2> QED
    BY <2>2 DEF Has
<1> QED
  BY <1>1, <1>2, <1>3

LEMMA PrecededConcat ==
  ASSUME NEW S, NEW s \in Seq(S), NEW t \in Seq(S), NEW P, NEW Q,
         Preceded(s, P, Q), Has(s, P) \/ Preceded(t, P, Q)
  PROVE  Preceded(s \o t, P, Q)
<1> SUFFICES ASSUME NEW i \in 1..Len(s \o t), (s \o t)[i] \in Q
             PROVE  \E j \in 1..(i - 1) : (s \o t)[j] \in P
  BY DEF Preceded
<1>1. CASE i \in 1..Len(s)
  <2>1. PICK j \in 1..(i - 1) : s[j] \in P
    BY <1>1, ConcatFacts DEF Preceded
  <2>2. j \in 1..Len(s)
    BY <1>1, ConcatFacts
  <2> QED
    BY <2>1, <2>2, ConcatFacts
<1>2. CASE i \notin 1..Len(s)
  <2>1. i - Len(s) \in 1..Len(t) /\ t[i - Len(s)] \in Q /\ Len(s) < i
    BY <1>2, ConcatFacts
  <2>2. CASE Has(s, P)
    <3>1. PICK j \in 1..Len(s) : s[j] \in P
      BY <2>2 DEF Has
    <3>2. j \in 1..(i - 1) /\ (s \o t)[j] \in P
      BY <2>1, <3>1, ConcatFacts
    <3> QED
      BY <3>2
  <2>3. CASE Preceded(t, P, Q)
    <3>1. PICK j \in 1..((i - Len(s)) - 1) : t[j] \in P
      BY <2>1, <2>3 DEF Preceded
    <3>2. j \in 1..Len(t)
      BY <2>1, <3>1, ConcatFacts
    <3>3. Len(s) + j \in 1..(i - 1) /\ (s \o t)[Len(s) + j] \in P
      BY <2>1, <3>1, <3>2, ConcatFacts
    <3> QED
      BY <3>3
  <2> QED
    BY <2>2, <2>3
<1> QED
  BY <1>1, <1>2

LEMMA NoneBeforeConcat ==
  ASSUME NEW S, NEW s \in Seq(S), NEW t \in Seq(S), NEW P, NEW Q,
         NoneBefore(s, P, Q), NoneBefore(t, P, Q), ~Has(s, P) \/ ~Has(t, Q)
  PROVE  NoneBefore(s \o t, P, Q)
<1> SUFFICES ASSUME NEW i \in 1..Len(s \o t), (s \o t)[i] \in Q, NEW j \in 1..(i - 1)
             PROVE  (s \o t)[j] \notin P
  BY DEF NoneBefore
<1>1. CASE i \in 1..Len(s)
  <2>1. j \in 1..Len(s)
    BY <1>1, ConcatFacts
  <2> QED
    BY <1>1, <2>1, ConcatFacts DEF NoneBefore
<1>2. CASE i \notin 1..Len(s)
  <2>1. i - Len(s) \in 1..Len(t) /\ t[i - Len(s)] \in Q
    BY <1>2, ConcatFacts
  <2>2. ~Has(s, P)
    BY <2>1 DEF Has
  <2>3. CASE j \in 1..Len(s)
    BY <2>2, <2>3, ConcatFacts DEF Has
  <2>4. CASE j \notin 1..Len(s)
    <3>1. j \in 1..Len(s \o t)
      BY ConcatFacts
    <3>2. j - Len(s) \in 1..((i - Len(s)) - 1) /\ (s \o t)[j] = t[j - Len(s)]
      BY <2>1, <2>4, <3>1, ConcatFacts
    <3> QED
      BY <2>1, <3>2 DEF NoneBefore
  <2> QED
    BY <2>3, <2>4
<1> QED
  BY <1>1, <1>2

LEMMA ComesFirstConcat ==
  ASSUME NEW S, NEW s \in Seq(S), NEW t \in Seq(S), NEW P, NEW Q,
         ComesFirst(s, P, Q) \/ (~Has(s, Q) /\ ComesFirst(t, P, Q))
  PROVE  ComesFirst(s \o t, P, Q)
<1>1. CASE ComesFirst(s, P, Q)
  <2>1. PICK j \in 1..Len(s) : s[j] \in P /\ \A i \in 1..(j - 1) : s[i] \notin Q
    BY <1>1 DEF ComesFirst
  <2>2. \A i \in 1..(j - 1) : i \in 1..Len(s)
    BY ConcatFacts
  <2> QED
    BY <2>1, <2>2, ConcatFacts DEF ComesFirst
<1>2. CASE ~Has(s, Q) /\ ComesFirst(t, P, Q)
  <2>1. PICK j \in 1..Len(t) : t[j] \in P /\ \A i \in 1..(j - 1) : t[i] \notin Q
    BY <1>2 DEF ComesFirst
  <2>2. Len(s) + j \in 1..Len(s \o t) /\ (s \o t)[Len(s) + j] \in P
    BY <2>1, ConcatFacts
  <2>3. ASSUME NEW i \in 1..((Len(s) + j) - 1) PROVE (s \o t)[i] \notin Q
    <3>1. CASE i \in 1..Len(s)
      BY <1>2, <3>1, ConcatFacts DEF Has
    <3>2. CASE i \notin 1..Len(s)
      <4>1. i \in 1..Len(s \o t) /\ i - Len(s) \in 1..(j - 1)
        BY <3>2, ConcatFacts
      <4> QED
        BY <2>1, <3>2, <4>1, ConcatFacts
    <3> QED
      BY <3>1, <3>2
  <2> QED
    BY <2>2, <2>3 DEF ComesFirst
<1> QED
  BY <1>1, <1>2

LEMMA FollowedConcat ==
  ASSUME NEW S, NEW s \in Seq(S), NEW t \in Seq(S), NEW A, NEW P, NEW Q, ~Has(t, A),
         Followed(s, A, P, Q) \/ (~Has(s, Q) /\ ComesFirst(t, P, Q))
  PROVE  Followed(s \o t, A, P, Q)
<1> SUFFICES ASSUME NEW i \in 1..Len(s \o t), (s \o t)[i] \in A
             PROVE  \E j \in (i + 1)..Len(s \o t) :
                      (s \o t)[j] \in P /\ \A k \in (i + 1)..(j - 1) : (s \o t)[k] \notin Q
  BY DEF Followed
<1>1. i \in 1..Len(s) /\ s[i] \in A
  BY ConcatFacts DEF Has
<1>2. CASE Followed(s, A, P, Q)
  <2>1. PICK j \in (i + 1)..Len(s) : s[j] \in P /\ \A k \in (i + 1)..(j - 1) : s[k] \notin Q
    BY <1>1, <1>2 DEF Followed
  <2>2. j \in 1..Len(s) /\ j \in (i + 1)..Len(s \o t) /\ \A k \in (i + 1)..(j - 1) : k \in 1..Len(s)
    BY <1>1, ConcatFacts
  <2> QED
    BY <2>1, <2>2, ConcatFacts
<1>3. CASE ~Has(s, Q) /\ ComesFirst(t, P, Q)
  <2>1. PICK j \in 1..Len(t) : t[j] \in P /\ \A k \in 1..(j - 1) : t[k] \notin Q
    BY <1>3 DEF ComesFirst
  <2>2. Len(s) + j \in (i + 1)..Len(s \o t) /\ (s \o t)[Len(s) + j] \in P
    BY <1>1, <2>1, ConcatFacts
  <2>3. ASSUME NEW k \in (i + 1)..((Len(s) + j) - 1) PROVE (s \o t)[k] \notin Q
    <3>1. CASE k \in 1..Len(s)
      BY <1>3, <3>1, ConcatFacts DEF Has
    <3>2. CASE k \notin 1..Len(s)
      <4>1. k \in 1..Len(s \o t) /\ k - Len(s) \in 1..(j - 1)
        BY <1>1, <3>2, ConcatFacts
      <4> QED
        BY <2>1, <3>2, <4>1, ConcatFacts
    <3> QED
      BY <3>1, <3>2
  <2> QED
    BY <2>2, <2>3
<1> QED
  BY <1>2, <1>3

-----------------------------------------------------------------------------
(* The inductive invariant *)

(* What the two streams carry: digits are numbers of phones, and a message  *)
(* about a state is about a call.                                           *)
Asked == {m \in Pending : m.key = "Digit" => m.digit \in Phones}

Told == {"ActivateCallPlane", "SelectSoftKeys", "OpenReceiveChannel",
         "CloseReceiveChannel", "StartMediaTransmission", "StopMediaTransmission"}

Packets ==
  [type: {"CallState"}, state: CallStates \ {"none"}, ref: Refs]
    \cup [type: Told, ref: Refs] \cup [type: {"SelectSoftKeys"}, ref: {NoCall}]

OfState(S, r) ==
  {m \in Packets : m.type = "CallState" /\ m.ref = r /\ m.state \in S}

Starts(r)   == {m \in Packets : m.type = "StartMediaTransmission" /\ m.ref = r}
Dialings(r) == OfState({"offhook", "proceed"}, r)
Alerts(r)    == OfState({"ringin", "ringout"}, r)
OnHooks(r)  == OfState({"onhook"}, r)
Names(r)    == OfState(CallStates \ {"none", "onhook"}, r)
Connects(r) == OfState({"connected"}, r) \cup Starts(r)
Lists(r)    == OfState({"ringin", "ringout", "connected", "hold"}, r) \cup Starts(r)
Clears      == {m \in Packets : \/ m.type = "StopMediaTransmission"
                                \/ m.type = "CallState" /\ m.state = "hold"}

(* A call is dialed, then rings, then is connected or held, then ends; the  *)
(* hub says so in this order, so a phone never hears of an earlier state of *)
(* a call it lists or shows connected.                                      *)
InOrder(r) ==
  /\ Has(toMe, Dialings(r)) => r \notin Elements(phone.act)
  /\ NoneBefore(toMe, Lists(r), Dialings(r))
  /\ Has(toMe, Alerts(r)) => phone.st[r] # "connected"
  /\ NoneBefore(toMe, Connects(r), Alerts(r))
  /\ calls[r].state \in {"idle", "dialing", "ringing"} =>
       phone.st[r] # "connected" /\ ~Has(toMe, Connects(r))
  /\ calls[r].state # "ended" => ~Has(toMe, OnHooks(r))

(* A call_ref that was never allocated is unheard of.                       *)
Unheard(r) ==
  r >= nextRef =>
    calls[r].state = "idle" /\ r \notin live /\ r \notin Elements(phone.act)
      /\ ~Has(toMe, Lists(r))

(* A phone knows the calls it is a party of, or is about to; its media      *)
(* starts for a call it knows.                                              *)
IsKnown(r) ==
  /\ phone.st[r] # "none" \/ Preceded(toMe, Names(r), Starts(r) \cup OnHooks(r))
  /\ Me \in Parties(calls[r]) => phone.st[r] # "none" \/ Has(toMe, Names(r))

(* While the hub holds the ports of a call of Me it has said nothing that   *)
(* ends the media; before it forgets them, it does.                         *)
Sounding(r) ==
  calls[r].state = "connected" /\ calls[r].ports # {} /\ Me \in Parties(calls[r])

StartsEnd(r) == Sounding(r) \/ Followed(toMe, Starts(r), Clears, OnHooks(r))

CallInv == \A r \in Refs : InOrder(r) /\ Unheard(r) /\ IsKnown(r) /\ StartsEnd(r)

(* Media belongs to a listed call that the phone shows connected until      *)
(* something ends the media.                                                *)
Streams(r) ==
  /\ r \in Elements(phone.act) /\ phone.st[r] = "connected"
  /\ Sounding(r) \/ ComesFirst(toMe, Clears, OnHooks(r))

MediaInv == phone.media => \E r \in Refs : Streams(r)

StreamTypes == phone \in Phone /\ up \in Seq(Asked) /\ toMe \in Seq(Packets)

LinkInv ==
  /\ TypeOK /\ StreamTypes
  /\ CallInv /\ MediaInv
  /\ EventsAgree /\ RecorderFollowsMedia

-----------------------------------------------------------------------------
(* Steps of the hub: what the hub may say, and when *)

Early == {"idle", "dialing", "ringing"}

(* What the hub may say of call r.                                          *)
SaysOf(t, r) ==
  /\ NoneBefore(t, Lists(r), Dialings(r))
  /\ Has(t, Dialings(r)) => r >= nextRef
  /\ NoneBefore(t, Connects(r), Alerts(r))
  /\ Has(t, Alerts(r)) => calls[r].state \in Early
  /\ calls'[r].state \in Early => calls[r].state \in Early /\ ~Has(t, Connects(r))
  /\ calls'[r].state # "ended" => calls[r].state # "ended" /\ ~Has(t, OnHooks(r))
  /\ r >= nextRef' =>
       r >= nextRef /\ calls'[r].state = "idle" /\ r \notin live' /\ ~Has(t, Lists(r))
  /\ Me \in Parties(calls[r]) \/ Preceded(t, Names(r), Starts(r) \cup OnHooks(r))
  /\ Me \in Parties(calls'[r]) => Me \in Parties(calls[r]) \/ Has(t, Names(r))
  /\ Sounding(r) /\ ~Sounding(r)' => ComesFirst(t, Clears, OnHooks(r)) /\ ~Has(t, Starts(r))
  /\ Has(t, Starts(r)) => Sounding(r)'

HubSays(t) ==
  /\ t \in Seq(Packets) /\ toMe' = toMe \o t
  /\ \A r \in Refs : SaysOf(t, r)

LEMMA HubKeeps ==
  ASSUME LinkInv, TypeOK', NEW t, HubSays(t), UNCHANGED phone, up' \in Seq(Asked)
  PROVE  LinkInv'
<1>1. toMe \in Seq(Packets) /\ t \in Seq(Packets) /\ toMe' = toMe \o t /\ toMe' \in Seq(Packets)
  BY ConcatFacts DEF LinkInv, StreamTypes, HubSays
<1>2. \A P : Has(toMe', P) <=> Has(toMe, P) \/ Has(t, P)
  BY <1>1, HasConcat
<1>3. ASSUME NEW r \in Refs PROVE InOrder(r)'
  <2>1. InOrder(r) /\ Unheard(r)
    BY DEF LinkInv, CallInv
  <2>2. Has(toMe', Dialings(r)) => r \notin Elements(phone'.act)
    BY <1>2, <2>1 DEF InOrder, Unheard, HubSays, SaysOf
  <2>3. NoneBefore(toMe', Lists(r), Dialings(r))
    BY <1>1, <2>1, NoneBeforeConcat DEF InOrder, Unheard, HubSays, SaysOf
  <2>4. Has(toMe', Alerts(r)) => phone'.st[r] # "connected"
    BY <1>2, <2>1 DEF InOrder, HubSays, SaysOf, Early
  <2>5. NoneBefore(toMe', Connects(r), Alerts(r))
    BY <1>1, <2>1, NoneBeforeConcat DEF InOrder, HubSays, SaysOf, Early
  <2>6. calls'[r].state \in Early => phone'.st[r] # "connected" /\ ~Has(toMe', Connects(r))
    BY <1>2, <2>1 DEF InOrder, HubSays, SaysOf, Early
  <2>7. calls'[r].state # "ended" => ~Has(toMe', OnHooks(r))
    BY <1>2, <2>1 DEF InOrder, HubSays, SaysOf
  <2> QED
    BY <2>2, <2>3, <2>4, <2>5, <2>6, <2>7 DEF InOrder, Early
<1>4. ASSUME NEW r \in Refs PROVE Unheard(r)' /\ IsKnown(r)'
  <2>1. Unheard(r) /\ IsKnown(r)
    BY DEF LinkInv, CallInv
  <2>2. Unheard(r)'
    BY <1>2, <2>1 DEF Unheard, HubSays, SaysOf
  <2>3. phone'.st[r] # "none" \/ Preceded(toMe', Names(r), Starts(r) \cup OnHooks(r))
    <3>1. CASE Me \in Parties(calls[r])
      BY <1>1, <2>1, <3>1, PrecededConcat DEF IsKnown
    <3>2. CASE Me \notin Parties(calls[r])
      BY <1>1, <2>1, <3>2, PrecededConcat DEF IsKnown, HubSays, SaysOf
    <3> QED
      BY <3>1, <3>2
  <2>4. Me \in Parties(calls'[r]) => phone'.st[r] # "none" \/ Has(toMe', Names(r))
    BY <1>2, <2>1 DEF IsKnown, HubSays, SaysOf
  <2> QED
    BY <2>2, <2>3, <2>4 DEF IsKnown
<1>5. ASSUME NEW r \in Refs, Sounding(r), ~Sounding(r)'
      PROVE  ComesFirst(t, Clears, OnHooks(r)) /\ ~Has(toMe, OnHooks(r)) /\ ~Has(t, Starts(r))
  BY <1>5 DEF LinkInv, CallInv, InOrder, Sounding, HubSays, SaysOf
<1>6. ASSUME NEW r \in Refs PROVE StartsEnd(r)'
  <2> SUFFICES ASSUME ~Sounding(r)' PROVE Followed(toMe', Starts(r), Clears, OnHooks(r))
    BY DEF StartsEnd
  <2>1. CASE Sounding(r)
    BY <1>1, <1>5, <2>1, FollowedConcat
  <2>2. CASE ~Sounding(r)
    BY <1>1, <2>2, FollowedConcat DEF LinkInv, CallInv, StartsEnd, HubSays, SaysOf
  <2> QED
    BY <2>1, <2>2
<1>7. MediaInv'
  <2> SUFFICES ASSUME phone.media PROVE \E r \in Refs : Streams(r)'
    BY DEF MediaInv
  <2>1. PICK r \in Refs : Streams(r)
    BY DEF LinkInv, MediaInv
  <2>2. Sounding(r)' \/ ComesFirst(toMe', Clears, OnHooks(r))
    BY <1>1, <1>5, <2>1, ComesFirstConcat DEF Streams
  <2> QED
    BY <2>1, <2>2 DEF Streams
<1>8. EventsAgree' /\ RecorderFollowsMedia'
  BY DEF LinkInv, EventsAgree, RecorderFollowsMedia, AnyConnected
<1> QED
  BY <1>1, <1>3, <1>4, <1>6, <1>7, <1>8 DEF LinkInv, CallInv, StreamTypes

-----------------------------------------------------------------------------
(* The client's operators *)

LEMMA ElementsFacts ==
  ASSUME NEW s \in Seq(Refs)
  PROVE  /\ Elements(s) \subseteq Refs
         /\ \A r \in Refs : /\ Append(s, r) \in Seq(Refs)
                            /\ Elements(Append(s, r)) = Elements(s) \cup {r}
         /\ Elements(<<>>) = {}
<1>1. Elements(s) \subseteq Refs
  BY ElementOfSeq DEF Elements
<1>2. ASSUME NEW r \in Refs PROVE Append(s, r) \in Seq(Refs) /\ Elements(Append(s, r)) = Elements(s) \cup {r}
  <2>1. /\ Append(s, r) \in Seq(Refs) /\ Len(Append(s, r)) = Len(s) + 1 /\ Len(s) \in Nat
        /\ \A i \in 1..Len(s) : Append(s, r)[i] = s[i]
        /\ Append(s, r)[Len(s) + 1] = r
    BY AppendProperties, LenProperties
  <2>2. \A i \in 1..Len(Append(s, r)) : i \in 1..Len(s) \/ i = Len(s) + 1
    BY <2>1
  <2>3. \A i \in 1..Len(s) : i \in 1..Len(Append(s, r))
    BY <2>1
  <2>4. Len(s) + 1 \in 1..Len(Append(s, r))
    BY <2>1
  <2> QED
    BY <2>1, <2>2, <2>3, <2>4 DEF Elements
<1>3. Elements(<<>>) = {}
  BY EmptySeq DEF Elements
<1> QED
  BY <1>1, <1>2, <1>3

LEMMA ListedFacts ==
  ASSUME NEW ph \in Phone, NEW r \in Refs
  PROVE  Listed(ph, r) \in Seq(Refs) /\ Elements(Listed(ph, r)) = Elements(ph.act) \cup {r}
BY ElementsFacts DEF Phone, Listed

(* list.remove takes one entry out and leaves the others.                   *)
LEMMA WithoutFacts ==
  ASSUME NEW s \in Seq(Refs), NEW r
  PROVE  /\ Without(s, r) \in Seq(Refs)
         /\ Elements(Without(s, r)) \subseteq Elements(s)
         /\ Elements(s) \ {r} \subseteq Elements(Without(s, r))
<1>1. CASE r \notin Elements(s)
  BY <1>1 DEF Without
<1>2. CASE r \in Elements(s)
  <2> DEFINE n == CHOOSE i \in 1..Len(s) : s[i] = r
             a == SubSeq(s, 1, n - 1)
             b == SubSeq(s, n + 1, Len(s))
  <2>1. n \in 1..Len(s) /\ s[n] = r /\ Len(s) \in Nat
    BY <1>2, LenProperties DEF Elements
  <2>2. Without(s, r) = a \o b
    BY <1>2 DEF Without
  <2> HIDE DEF n
  <2>3. /\ a \in Seq(Refs) /\ Len(a) = n - 1 /\ \A i \in 1..(n - 1) : a[i] = s[i]
    BY <2>1, SubSeqProperties, ElementOfSeq
  <2>4. /\ b \in Seq(Refs) /\ Len(b) = Len(s) - n
        /\ \A i \in 1..(Len(s) - n) : b[i] = s[n + i]
    BY <2>1, SubSeqProperties, ElementOfSeq
  <2> HIDE DEF a, b
  <2>0. /\ Len(a \o b) = Len(a) + Len(b)
        /\ \A i \in 1..Len(a) : (a \o b)[i] = a[i] /\ i \in 1..Len(a \o b)
        /\ \A i \in 1..Len(b) : (a \o b)[Len(a) + i] = b[i] /\ Len(a) + i \in 1..Len(a \o b)
        /\ \A i \in 1..Len(a \o b) : i \in 1..Len(a) \/ (i - Len(a) \in 1..Len(b)
                                                     /\ (a \o b)[i] = b[i - Len(a)])
    <3>1. a \in Seq(Refs) /\ b \in Seq(Refs)
      BY <2>3, <2>4
    <3> QED
      BY <3>1, ConcatFacts
  <2>5. Elements(a \o b) \subseteq Elements(s)
    <3> SUFFICES ASSUME NEW i \in 1..Len(a \o b) PROVE \E j \in 1..Len(s) : (a \o b)[i] = s[j]
      BY DEF Elements
    <3>1. CASE i \in 1..Len(a)
      BY <2>0, <2>1, <2>3, <3>1
    <3>2. CASE i \notin 1..Len(a)
      <4>1. i - Len(a) \in 1..Len(b) /\ (a \o b)[i] = b[i - Len(a)]
        BY <2>0, <3>2
      <4>2. PICK k \in 1..(Len(s) - n) : k = i - Len(a)
        BY <2>4, <4>1
      <4>3. n + k \in 1..Len(s) /\ b[k] = s[n + k]
        BY <2>1, <2>4
      <4> QED
        BY <4>1, <4>2, <4>3
    <3> QED
      BY <3>1, <3>2
  <2>6. Elements(s) \ {r} \subseteq Elements(a \o b)
    <3> SUFFICES ASSUME NEW i \in 1..Len(s), s[i] # r
                 PROVE  \E j \in 1..Len(a \o b) : (a \o b)[j] = s[i]
      BY DEF Elements
    <3>1. CASE i < n
      <4>1. i \in 1..Len(a) /\ a[i] = s[i]
        BY <2>1, <2>3, <3>1
      <4> QED
        BY <2>0, <4>1
    <3>2. CASE ~(i < n)
      <4>1. i # n
        BY <2>1
      <4>2. i - n \in 1..Len(b) /\ n + (i - n) = i
        BY <2>1, <2>4, <3>2, <4>1
      <4>3. b[i - n] = s[n + (i - n)]
        BY <2>4, <4>2
      <4>4. Len(a) + (i - n) \in 1..Len(a \o b) /\ (a \o b)[Len(a) + (i - n)] = s[i]
        BY <2>0, <4>2, <4>3
      <4> QED
        BY <4>4
    <3> QED
      BY <3>1, <3>2
  <2>7. a \o b \in Seq(Refs)
    BY <2>3, <2>4, ConcatFacts
  <2> QED
    BY <2>2, <2>5, <2>6, <2>7
<1> QED
  BY <1>1, <1>2

FlagsAgree(ph) ==
  (ph.connected <=> AnyConnected(ph)) /\ ("ended" \in ph.ev => ~ph.connected)

MediaAgrees(ph) == ("media" \in ph.ev => ph.media) /\ (ph.rec => ph.rx \/ ph.tx)

LEMMA AgreeIs ==
  EventsAgree /\ RecorderFollowsMedia <=> FlagsAgree(phone) /\ MediaAgrees(phone)
BY DEF EventsAgree, RecorderFollowsMedia, FlagsAgree, MediaAgrees

SameMedia(q, ph) ==
  q.rx = ph.rx /\ q.tx = ph.tx /\ q.rec = ph.rec

(* Call r enters the table in state s, and what the phone knows agrees.     *)
ListedAs(q, ph, r, s) ==
  /\ q \in Phone /\ FlagsAgree(q) /\ MediaAgrees(q)
  /\ q.st = [ph.st EXCEPT ![r] = s]
  /\ Elements(q.act) = Elements(ph.act) \cup {r}

LEMMA RingingStep ==
  ASSUME NEW ph \in Phone, NEW r \in Refs, NEW s \in {"ringin", "ringout"},
         FlagsAgree(ph), MediaAgrees(ph), ph.st[r] # "connected",
         NEW q, q = MarkRinging(ph, r, s)
  PROVE  ListedAs(q, ph, r, s) /\ q.media = ph.media
<1>1. /\ q.st = [ph.st EXCEPT ![r] = s] /\ q.act = Listed(ph, r) /\ q.connected = ph.connected
      /\ q.media = ph.media /\ q.ev = (ph.ev \cup {"ringing"}) \ {"ended"} /\ SameMedia(q, ph)
  BY DEF Phone, MarkRinging, SameMedia
<1>2. Listed(ph, r) \in Seq(Refs) /\ Elements(q.act) = Elements(ph.act) \cup {r}
  BY <1>1, ListedFacts
<1>3. q \in Phone
  BY <1>2 DEF Phone, MarkRinging, CallStates, Events
<1>4. AnyConnected(q) <=> AnyConnected(ph)
  <2>1. ph.st \in [Refs -> CallStates] /\ Elements(ph.act) \subseteq Refs
    BY ElementsFacts DEF Phone
  <2>2. \A x \in Elements(ph.act) \cup {r} : q.st[x] = "connected" <=> ph.st[x] = "connected"
    BY <1>1, <2>1
  <2> QED
    BY <1>2, <2>2 DEF AnyConnected
<1> QED
  BY <1>1, <1>2, <1>3, <1>4 DEF ListedAs, FlagsAgree, MediaAgrees, SameMedia

LEMMA ConnectedStep ==
  ASSUME NEW ph \in Phone, NEW r \in Refs, MediaAgrees(ph), NEW q, q = MarkConnected(ph, r)
  PROVE  ListedAs(q, ph, r, "connected") /\ q.media = ph.media
<1>1. /\ q.st = [ph.st EXCEPT ![r] = "connected"] /\ q.act = Listed(ph, r) /\ q.connected
      /\ q.media = ph.media /\ q.ev = (ph.ev \cup {"connected"}) \ {"ended"} /\ SameMedia(q, ph)
  BY DEF Phone, MarkConnected, SameMedia
<1>2. Listed(ph, r) \in Seq(Refs) /\ Elements(q.act) = Elements(ph.act) \cup {r}
  BY <1>1, ListedFacts
<1>3. q \in Phone
  BY <1>2 DEF Phone, MarkConnected, CallStates, Events
<1>4. q.st[r] = "connected" /\ r \in Elements(q.act)
  BY <1>1, <1>2 DEF Phone
<1> QED
  BY <1>1, <1>2, <1>3, <1>4 DEF ListedAs, FlagsAgree, MediaAgrees, SameMedia, AnyConnected

LEMMA HeldStep ==
  ASSUME NEW ph \in Phone, NEW r \in Refs, FlagsAgree(ph), MediaAgrees(ph),
         NEW q, q = MarkHeld(ph, r)
  PROVE  ListedAs(q, ph, r, "hold") /\ ~q.media
<1> DEFINE held == [ph EXCEPT !.st[r] = "hold", !.act = Listed(ph, r)]
<1>1. /\ q.st = [ph.st EXCEPT ![r] = "hold"] /\ q.act = Listed(ph, r)
      /\ q.connected = AnyConnected(held) /\ ~q.media
      /\ q.ev = ph.ev \ {"connected", "media"} /\ SameMedia(q, ph)
  BY DEF Phone, MarkHeld, SameMedia
<1>2. Listed(ph, r) \in Seq(Refs) /\ Elements(q.act) = Elements(ph.act) \cup {r}
  BY <1>1, ListedFacts
<1>3. AnyConnected(held) <=> AnyConnected(q)
  <2>1. held.st = q.st /\ held.act = q.act
    BY <1>1 DEF Phone
  <2> HIDE DEF held
  <2> QED
    BY <2>1 DEF AnyConnected
<1>4. q \in Phone
  <2>1. AnyConnected(held) \in BOOLEAN
    BY DEF AnyConnected
  <2> QED
    BY <1>2, <2>1 DEF Phone, MarkHeld, CallStates, Events
<1>5. AnyConnected(q) => AnyConnected(ph)
  <2>1. ph.st \in [Refs -> CallStates] /\ Elements(ph.act) \subseteq Refs
    BY ElementsFacts DEF Phone
  <2>2. \A x \in Elements(ph.act) \cup {r} :
          q.st[x] = "connected" => x \in Elements(ph.act) /\ ph.st[x] = "connected"
    BY <1>1, <2>1
  <2> QED
    BY <1>2, <2>2 DEF AnyConnected
<1> HIDE DEF held
<1> QED
  BY <1>1, <1>2, <1>3, <1>4, <1>5 DEF ListedAs, FlagsAgree, MediaAgrees, SameMedia

(* Whatever mark_call_ended ends, it leaves the flags right, and the other  *)
(* calls alone when it is told a call the phone knows.                      *)
Ends(q, ph, r) ==
  /\ q \in Phone /\ FlagsAgree(q) /\ SameMedia(q, ph)
  /\ \A x \in Refs : /\ q.st[x] \in {ph.st[x], "onhook"}
                     /\ q.st[x] = "none" <=> ph.st[x] = "none"
  /\ Elements(q.act) \subseteq Elements(ph.act)
  /\ q.media <=> ph.media /\ AnyConnected(q)
  /\ "media" \in q.ev => "media" \in ph.ev /\ q.act # <<>>
  /\ r \in Refs /\ ph.st[r] # "none" =>
       \A x \in Elements(ph.act) \ {r} : x \in Elements(q.act) /\ q.st[x] = ph.st[x]

LEMMA EndedStep ==
  ASSUME NEW ph \in Phone, NEW r, NEW q, q = MarkEnded(ph, r)
  PROVE  Ends(q, ph, r)
<1> DEFINE keys == EndedKeys(ph, r)
           st == [x \in Refs |-> IF x \in keys /\ ph.st[x] # "none" THEN "onhook" ELSE ph.st[x]]
           act == IF r = NoCall THEN <<>> ELSE Without(ph.act, Keyed(ph, r))
           cut == [ph EXCEPT !.st = st, !.act = act]
           gone == SyncFlags(cut)
<1>1. act \in Seq(Refs) /\ Elements(act) \subseteq Elements(ph.act)
      /\ (r # NoCall => Elements(ph.act) \ {Keyed(ph, r)} \subseteq Elements(act))
  <2>1. ph.act \in Seq(Refs)
    BY DEF Phone
  <2>2. CASE r = NoCall
    BY <2>1, <2>2, ElementsFacts
  <2>3. CASE r # NoCall
    BY <2>1, <2>3, WithoutFacts
  <2> QED
    BY <2>2, <2>3
<1>2. st \in [Refs -> CallStates]
  BY DEF Phone, CallStates
<1> DEFINE ev == IF gone.act = <<>> THEN {"ended"}
                 ELSE (ph.ev \ {"ended"}) \cup (IF gone.connected THEN {"connected"} ELSE {})
<1>3. q = [gone EXCEPT !.ev = ev]
  <2>1. q = [gone EXCEPT !.ev = IF gone.act = <<>> THEN {"ended"}
                              ELSE (@ \ {"ended"}) \cup (IF gone.connected THEN {"connected"} ELSE {})]
    BY DEF MarkEnded
  <2>2. gone.ev = ph.ev
    BY DEF SyncFlags, Phone
  <2> QED
    BY <2>1, <2>2
<1>4. cut \in Phone /\ cut.st = st /\ cut.act = act /\ cut.media = ph.media /\ SameMedia(cut, ph)
  <2> HIDE DEF st, act
  <2> QED
    BY <1>1, <1>2 DEF Phone, SameMedia
<1> HIDE DEF cut
<1>5. /\ gone.st = st /\ gone.act = act /\ SameMedia(gone, ph) /\ gone \in Phone
      /\ gone.connected <=> AnyConnected(cut)
      /\ gone.media <=> ph.media /\ AnyConnected(cut)
  <2> DEFINE any == AnyConnected(cut)
             busy == cut.act # <<>>
             sel == IF cut.act = <<>> THEN NoCall ELSE cut.sel
  <2>1. any \in BOOLEAN /\ busy \in BOOLEAN /\ (cut.media /\ any) \in BOOLEAN
        /\ sel \in Refs \cup {NoCall}
    BY <1>4 DEF AnyConnected, Phone
  <2>2. gone = [cut EXCEPT !.active = busy, !.connected = any, !.media = cut.media /\ any, !.sel = sel]
    BY <1>4 DEF SyncFlags, Phone
  <2> HIDE DEF any, busy, sel, gone
  <2>3. gone \in Phone
    <3> DEFINE m == cut.media /\ any
    <3>1. m \in BOOLEAN /\ gone = [cut EXCEPT !.active = busy, !.connected = any, !.media = m, !.sel = sel]
      BY <2>1, <2>2
    <3> HIDE DEF m
    <3> QED
      BY <1>4, <2>1, <3>1 DEF Phone
  <2>5. gone.st = cut.st /\ gone.act = cut.act /\ SameMedia(gone, cut)
    BY <1>4, <2>2 DEF SameMedia, Phone
  <2>4. (gone.connected <=> any) /\ (gone.media <=> cut.media /\ any)
    BY <1>4, <2>1, <2>2 DEF Phone
  <2> QED
    BY <1>4, <2>3, <2>4, <2>5 DEF SameMedia, any
<1> HIDE DEF gone
<1>6. /\ q.st = st /\ q.act = act /\ q.connected = gone.connected /\ q.media = gone.media
      /\ SameMedia(q, ph) /\ q \in Phone /\ q.ev = ev
  <2>1. ev \in SUBSET Events
    BY DEF Phone, Events
  <2> HIDE DEF st, act, ev
  <2> QED
    BY <1>3, <1>5, <2>1 DEF SameMedia, Phone
<1>7. AnyConnected(q) <=> AnyConnected(cut)
  BY <1>4, <1>6 DEF AnyConnected
<1>8. act = <<>> => ~AnyConnected(q)
  BY <1>6, EmptySeq DEF AnyConnected, Elements
<1>9. FlagsAgree(q)
  <2> HIDE DEF act, st
  <2> QED
    BY <1>5, <1>6, <1>7, <1>8 DEF FlagsAgree
<1>10. \A x \in Refs : q.st[x] \in {ph.st[x], "onhook"} /\ (q.st[x] = "none" <=> ph.st[x] = "none")
  BY <1>6
<1>11. r \in Refs /\ ph.st[r] # "none" =>
         \A x \in Elements(ph.act) \ {r} : x \in Elements(q.act) /\ q.st[x] = ph.st[x]
  <2> SUFFICES ASSUME r \in Refs, ph.st[r] # "none", NEW x \in Elements(ph.act) \ {r}
               PROVE  x \in Elements(q.act) /\ q.st[x] = ph.st[x]
    OBVIOUS
  <2>1. r # NoCall
    BY HubAssumption DEF Refs
  <2>2. Keyed(ph, r) = r
    BY <2>1 DEF Keyed, ActiveKey, Known
  <2>3. keys = {r}
    BY <2>1, <2>2 DEF EndedKeys
  <2>4. x \in Refs
    BY ElementsFacts DEF Phone
  <2> QED
    BY <1>1, <1>6, <2>1, <2>2, <2>3, <2>4
<1>12. q.media <=> ph.media /\ AnyConnected(q)
  <2> HIDE DEF act, st, ev
  <2> QED
    BY <1>5, <1>6, <1>7
<1>13. "media" \in q.ev => "media" \in ph.ev /\ q.act # <<>>
  <2> HIDE DEF act, st
  <2> QED
    BY <1>5, <1>6
<1> QED
  <2> HIDE DEF act, st, ev
  <2> QED
    BY <1>1, <1>6, <1>9, <1>10, <1>11, <1>12, <1>13 DEF Ends

LEMMA TornStep ==
  ASSUME NEW ph \in Phone, NEW q, q = Teardown(ph)
  PROVE  /\ q \in Phone /\ MediaAgrees(q)
         /\ q.st = ph.st /\ q.act = ph.act /\ q.connected = ph.connected
         /\ ~q.media /\ q.ev = ph.ev \ {"media"}
<1>1. /\ q.st = ph.st /\ q.act = ph.act /\ q.connected = ph.connected
      /\ q.media = FALSE /\ q.rec = FALSE /\ q.ev = ph.ev \ {"media"}
  BY DEF Teardown, Phone
<1>2. q \in Phone
  BY DEF Teardown, Phone, Events
<1> QED
  BY <1>1, <1>2 DEF MediaAgrees

-----------------------------------------------------------------------------
(* Steps of the client *)

HubRests == UNCHANGED vars

(* What the first message may make of the phone, call by call.              *)
Hears(m, r) ==
  /\ r \in Elements(phone'.act) => r \in Elements(phone.act) \/ m \in Lists(r)
  /\ phone'.st[r] = "connected" => phone.st[r] = "connected" \/ m \in Connects(r)
  /\ phone.st[r] # "none" \/ m \in Names(r) => phone'.st[r] # "none"

LEMMA HearingKeeps ==
  ASSUME LinkInv, HubRests, toMe # <<>>, toMe' = Tail(toMe),
         phone' \in Phone, up' \in Seq(Asked),
         \A r \in Refs : Hears(Head(toMe), r),
         MediaInv', FlagsAgree(phone'), MediaAgrees(phone')
  PROVE  LinkInv'
<1>1. toMe \in Seq(Packets) /\ toMe' \in Seq(Packets)
  BY TailFacts DEF LinkInv, StreamTypes
<1>2. \A P : Has(toMe, P) <=> Head(toMe) \in P \/ Has(toMe', P)
  BY <1>1, HasTail
<1>3. /\ calls' = calls /\ live' = live /\ nextRef' = nextRef /\ TypeOK'
  BY DEF HubRests, vars, LinkInv, TypeOK
<1>4. ASSUME NEW r \in Refs PROVE InOrder(r)'
  <2>1. InOrder(r) /\ Hears(Head(toMe), r)
    BY DEF LinkInv, CallInv
  <2>2. NoneBefore(toMe', Lists(r), Dialings(r)) /\ NoneBefore(toMe', Connects(r), Alerts(r))
        /\ (Head(toMe) \in Lists(r) => ~Has(toMe', Dialings(r)))
        /\ (Head(toMe) \in Connects(r) => ~Has(toMe', Alerts(r)))
    BY <1>1, <2>1, NoneBeforeTail DEF InOrder
  <2> QED
    BY <1>2, <1>3, <2>1, <2>2 DEF InOrder, Hears
<1>5. ASSUME NEW r \in Refs PROVE Unheard(r)' /\ IsKnown(r)'
  <2>1. Unheard(r) /\ IsKnown(r) /\ Hears(Head(toMe), r)
    BY DEF LinkInv, CallInv
  <2>2. Unheard(r)'
    BY <1>2, <1>3, <2>1 DEF Unheard, Hears
  <2>3. phone'.st[r] # "none" \/ Preceded(toMe', Names(r), Starts(r) \cup OnHooks(r))
    BY <1>1, <2>1, PrecededTail DEF IsKnown, Hears
  <2>4. Me \in Parties(calls'[r]) => phone'.st[r] # "none" \/ Has(toMe', Names(r))
    BY <1>2, <1>3, <2>1 DEF IsKnown, Hears
  <2> QED
    BY <2>2, <2>3, <2>4 DEF IsKnown
<1>6. ASSUME NEW r \in Refs PROVE StartsEnd(r)'
  BY <1>1, <1>3, FollowedTail DEF LinkInv, CallInv, StartsEnd, Sounding
<1>7. EventsAgree' /\ RecorderFollowsMedia'
  BY DEF EventsAgree, RecorderFollowsMedia, FlagsAgree, MediaAgrees
<1> QED
  BY <1>1, <1>3, <1>4, <1>5, <1>6, <1>7 DEF LinkInv, CallInv, StreamTypes

(* Media goes on when its call stays listed and connected and nothing read  *)
(* ends it.                                                                 *)
LEMMA MediaGoesOn ==
  ASSUME LinkInv, HubRests, toMe # <<>>, toMe' = Tail(toMe), phone'.media => phone.media,
         \A r \in Refs : Streams(r) =>
           \/ ~phone'.media
           \/ /\ r \in Elements(phone'.act) /\ phone'.st[r] = "connected"
              /\ Head(toMe) \notin Clears
  PROVE  MediaInv'
<1> SUFFICES ASSUME phone'.media PROVE \E r \in Refs : Streams(r)'
  BY DEF MediaInv
<1>1. PICK r \in Refs : Streams(r)
  BY DEF LinkInv, MediaInv
<1>2. Sounding(r)' \/ ComesFirst(toMe', Clears, OnHooks(r))
  <2>1. CASE Sounding(r)
    BY <2>1 DEF Sounding, HubRests, vars
  <2>2. CASE ComesFirst(toMe, Clears, OnHooks(r))
    BY <1>1, <2>2, ComesFirstTail DEF LinkInv, StreamTypes
  <2> QED
    BY <1>1, <2>1, <2>2 DEF Streams
<1> QED
  BY <1>1, <1>2 DEF Streams

LEMMA FirstFacts ==
  ASSUME LinkInv, toMe # <<>>
  PROVE  /\ Head(toMe) \in Packets
         /\ \A P : Head(toMe) \in P => Has(toMe, P)
         /\ \A r \in Refs : Head(toMe) \in Starts(r) \cup OnHooks(r) => phone.st[r] # "none"
         /\ \A r \in Refs : Streams(r) => Head(toMe) \notin OnHooks(r)
<1>1. toMe \in Seq(Packets) /\ Head(toMe) \in Packets
  BY TailFacts DEF LinkInv, StreamTypes
<1>2. \A P : Head(toMe) \in P => Has(toMe, P)
  BY <1>1, HasTail
<1>3. ASSUME NEW r \in Refs, Head(toMe) \in Starts(r) \cup OnHooks(r) PROVE phone.st[r] # "none"
  BY <1>1, <1>3, PrecededTail DEF LinkInv, CallInv, IsKnown
<1>4. ASSUME NEW r \in Refs, Streams(r) PROVE Head(toMe) \notin OnHooks(r)
  <2>1. CASE Sounding(r)
    BY <1>2, <2>1 DEF LinkInv, CallInv, InOrder, Sounding
  <2>2. CASE ComesFirst(toMe, Clears, OnHooks(r)) /\ Head(toMe) \notin Clears
    BY <1>1, <2>2, ComesFirstTail
  <2>3. CASE Head(toMe) \in Clears
    BY <2>3 DEF Clears, OnHooks, OfState
  <2> QED
    BY <1>4, <2>1, <2>2, <2>3 DEF Streams
<1> QED
  BY <1>1, <1>2, <1>3, <1>4

(* OnHook from the hub *)
LEMMA HearsOnHook ==
  ASSUME LinkInv, HubRests, toMe # <<>>, toMe' = Tail(toMe), up' \in Seq(Asked),
         NEW r \in Refs, Head(toMe) \in OnHooks(r), phone' = OnHook(phone, r)
  PROVE  LinkInv'
<1> DEFINE e == MarkEnded(phone, r)
<1>1. phone \in Phone /\ phone.st[r] # "none" /\ FlagsAgree(phone) /\ MediaAgrees(phone)
  BY FirstFacts, AgreeIs DEF LinkInv, StreamTypes
<1>2. /\ e \in Phone /\ FlagsAgree(e) /\ SameMedia(e, phone)
      /\ \A x \in Refs : /\ e.st[x] \in {phone.st[x], "onhook"}
                         /\ e.st[x] = "none" <=> phone.st[x] = "none"
      /\ Elements(e.act) \subseteq Elements(phone.act)
      /\ e.media <=> phone.media /\ AnyConnected(e)
      /\ "media" \in e.ev => "media" \in phone.ev /\ e.act # <<>>
      /\ \A x \in Elements(phone.act) \ {r} : x \in Elements(e.act) /\ e.st[x] = phone.st[x]
  <2>1. e = MarkEnded(phone, r)
    OBVIOUS
  <2> HIDE DEF e
  <2>2. Ends(e, phone, r)
    BY <1>1, <2>1, EndedStep
  <2> QED
    BY <1>1, <2>2 DEF Ends
<1>3. phone' = IF e.act = <<>> THEN Teardown(e) ELSE e
  BY DEF OnHook
<1> HIDE DEF e
<1>4. \A q \in Refs : Streams(q) => q # r /\ q \in Elements(e.act) /\ e.st[q] = "connected" /\ e.act # <<>>
  <2> TAKE q \in Refs
  <2> HAVE Streams(q)
  <2>1. q # r
    BY FirstFacts
  <2>2. q \in Elements(e.act) /\ e.st[q] = "connected"
    BY <1>2, <2>1 DEF Streams
  <2>3. Elements(<<>>) = {}
    BY EmptySeq DEF Elements
  <2> QED
    BY <2>1, <2>2, <2>3
<1>5. /\ phone' \in Phone /\ phone'.st = e.st /\ phone'.act = e.act /\ phone'.connected = e.connected
      /\ phone'.media => e.media
      /\ phone'.ev \subseteq e.ev
      /\ FlagsAgree(phone')
  <2>1. CASE e.act = <<>>
    <3>1. phone' = Teardown(e)
      BY <1>3, <2>1
    <3>2. /\ phone'.st = e.st /\ phone'.act = e.act /\ phone'.connected = e.connected
          /\ ~phone'.media /\ phone'.ev = e.ev \ {"media"} /\ phone' \in Phone
      BY <1>2, <3>1, TornStep
    <3> QED
      BY <1>2, <3>2 DEF FlagsAgree, AnyConnected
  <2>2. CASE e.act # <<>>
    BY <1>2, <1>3, <2>2
  <2> QED
    BY <2>1, <2>2
<1>6. MediaAgrees(phone')
  <2>1. CASE e.act = <<>>
    BY <1>2, <1>3, <2>1, TornStep
  <2>2. CASE e.act # <<>>
    <3>1. phone' = e
      BY <1>3, <2>2
    <3>2. "media" \in e.ev => e.media
      <4>1. "media" \in e.ev => phone.media
        BY <1>1, <1>2 DEF MediaAgrees
      <4>2. phone.media => AnyConnected(e)
        BY <1>4 DEF LinkInv, MediaInv, AnyConnected
      <4> QED
        BY <1>2, <4>1, <4>2
    <3> QED
      BY <1>1, <1>2, <3>1, <3>2 DEF MediaAgrees, SameMedia
  <2> QED
    BY <2>1, <2>2
<1>7. \A x \in Refs : Hears(Head(toMe), x)
  <2>1. \A x \in Refs : Head(toMe) \notin Names(x)
    BY DEF OnHooks, Names, OfState
  <2> QED
    BY <1>2, <1>5, <2>1 DEF Hears
<1>8. MediaInv'
  <2>1. Head(toMe) \notin Clears
    BY DEF OnHooks, Clears, OfState
  <2>2. phone'.media => phone.media
    BY <1>2, <1>5
  <2> QED
    BY <1>4, <1>5, <2>1, <2>2, MediaGoesOn
<1> QED
  BY <1>5, <1>6, <1>7, <1>8, HearingKeeps

(* RingIn, RingOut, Connected and Hold from the hub, and media that starts: *)
(* the call is listed in that state, and only Hold ends media.              *)
LEMMA HearsListing ==
  ASSUME LinkInv, HubRests, toMe # <<>>, toMe' = Tail(toMe), up' \in Seq(Asked),
         NEW r \in Refs, NEW s \in {"ringin", "ringout", "connected", "hold"},
         phone' \in Phone, FlagsAgree(phone'), MediaAgrees(phone'),
         phone'.st = [phone.st EXCEPT ![r] = s],
         Elements(phone'.act) = Elements(phone.act) \cup {r},
         Head(toMe) \in Lists(r), s = "connected" => Head(toMe) \in Connects(r),
         s \in {"ringin", "ringout"} => phone.st[r] # "connected",
         MediaInv'
  PROVE  LinkInv'
<1>1. phone.st \in [Refs -> CallStates]
  BY DEF LinkInv, StreamTypes, Phone
<1>2. \A x \in Refs : Hears(Head(toMe), x)
  <2> TAKE x \in Refs
  <2>1. CASE x = r
    BY <1>1, <2>1 DEF Hears
  <2>2. CASE x # r
    <3>1. phone'.st[x] = phone.st[x] /\ (x \in Elements(phone'.act) => x \in Elements(phone.act))
      BY <1>1, <2>2
    <3>2. Head(toMe) \notin Names(x)
      BY <2>2 DEF Lists, Names, OfState, Starts
    <3> QED
      BY <3>1, <3>2 DEF Hears
  <2> QED
    BY <2>1, <2>2
<1> QED
  BY <1>2, HearingKeeps

LEMMA KeepsStreams ==
  ASSUME LinkInv, HubRests, toMe # <<>>, toMe' = Tail(toMe),
         NEW r \in Refs, NEW s, s = "connected" \/ phone.st[r] # "connected",
         phone'.st = [phone.st EXCEPT ![r] = s],
         Elements(phone.act) \subseteq Elements(phone'.act),
         Head(toMe) \notin Clears, phone'.media => phone.media
  PROVE  MediaInv'
<1>1. phone.st \in [Refs -> CallStates]
  BY DEF LinkInv, StreamTypes, Phone
<1>2. \A x \in Refs : Streams(x) => x \in Elements(phone'.act) /\ phone'.st[x] = "connected"
  BY <1>1 DEF Streams
<1> QED
  BY <1>2, MediaGoesOn

LEMMA HearsState ==
  ASSUME LinkInv, HubRests, toMe # <<>>, toMe' = Tail(toMe), up' \in Seq(Asked),
         Head(toMe).type = "CallState", phone' = Handled(phone, Head(toMe))
  PROVE  LinkInv'
<1> DEFINE m == Head(toMe)
           r == m.ref
           s == m.state
<1>1. m \in Packets /\ r \in Refs /\ s \in CallStates \ {"none"}
  BY FirstFacts DEF Packets, Told
<1>2. phone' = ApplyCallState(phone, s, r)
  BY DEF Handled
<1>3. phone \in Phone /\ FlagsAgree(phone) /\ MediaAgrees(phone) /\ InOrder(r)
  BY <1>1, AgreeIs DEF LinkInv, StreamTypes, CallInv
<1>4. \A S : s \in S => m \in OfState(S, r)
  BY <1>1 DEF OfState
<1>5. s # "hold" => m \notin Clears
  BY DEF Clears
<1> HIDE DEF s, r
<1>6. CASE s = "onhook"
  <2>1. m \in OnHooks(r)
    BY <1>4, <1>6 DEF OnHooks
  <2>2. phone' = OnHook(phone, r)
    BY <1>2, <1>6 DEF ApplyCallState
  <2> QED
    BY <1>1, <2>1, <2>2, HearsOnHook
<1>7. CASE s \in {"ringin", "ringout"}
  <2>1. m \in Alerts(r) /\ m \in Lists(r)
    BY <1>4, <1>7 DEF Alerts, Lists
  <2>2. phone.st[r] # "connected"
    BY <1>3, <2>1, FirstFacts DEF InOrder
  <2>3. phone' = MarkRinging(phone, r, s)
    BY <1>2, <1>7 DEF ApplyCallState
  <2>4. ListedAs(phone', phone, r, s) /\ phone'.media = phone.media
    BY <1>1, <1>3, <1>7, <2>2, <2>3, RingingStep
  <2>5. MediaInv'
    <3>1. m \notin Clears
      BY <1>5, <1>7
    <3>2. /\ phone'.st = [phone.st EXCEPT ![r] = s] /\ (phone'.media => phone.media)
          /\ Elements(phone.act) \subseteq Elements(phone'.act)
      BY <2>4 DEF ListedAs
    <3> QED
      BY <1>1, <2>2, <3>1, <3>2, KeepsStreams
  <2> QED
    BY <1>1, <1>7, <2>1, <2>2, <2>4, <2>5, HearsListing DEF ListedAs
<1>8. CASE s = "connected"
  <2>1. m \in Lists(r) /\ m \in Connects(r)
    BY <1>4, <1>8 DEF Lists, Connects
  <2>2. phone' = MarkConnected(phone, r)
    BY <1>2, <1>8 DEF ApplyCallState
  <2>3. ListedAs(phone', phone, r, s) /\ phone'.media = phone.media
    BY <1>1, <1>3, <1>8, <2>2, ConnectedStep
  <2>4. MediaInv'
    <3>1. m \notin Clears
      BY <1>5, <1>8
    <3>2. /\ phone'.st = [phone.st EXCEPT ![r] = s] /\ (phone'.media => phone.media)
          /\ Elements(phone.act) \subseteq Elements(phone'.act)
      BY <2>3 DEF ListedAs
    <3> QED
      BY <1>1, <1>8, <3>1, <3>2, KeepsStreams
  <2> QED
    BY <1>1, <1>8, <2>1, <2>3, <2>4, HearsListing DEF ListedAs
<1>9. CASE s = "hold"
  <2>1. m \in Lists(r)
    BY <1>4, <1>9 DEF Lists
  <2>2. phone' = MarkHeld(phone, r)
    BY <1>2, <1>9 DEF ApplyCallState
  <2>3. ListedAs(phone', phone, r, s) /\ ~phone'.media
    BY <1>1, <1>3, <1>9, <2>2, HeldStep
  <2>4. MediaInv'
    BY <2>3 DEF MediaInv
  <2> QED
    BY <1>1, <1>9, <2>1, <2>3, <2>4, HearsListing DEF ListedAs
<1>10. CASE s \in {"offhook", "proceed"}
  <2>1. m \in Dialings(r) /\ r \notin Elements(phone.act)
    BY <1>3, <1>4, <1>10, FirstFacts DEF Dialings, InOrder
  <2>2. phone' = [phone EXCEPT !.st[r] = s]
    BY <1>2, <1>10 DEF ApplyCallState
  <2>3. /\ phone'.st = [phone.st EXCEPT ![r] = s] /\ phone'.act = phone.act
        /\ phone'.connected = phone.connected /\ phone'.media = phone.media
        /\ phone'.ev = phone.ev /\ SameMedia(phone', phone) /\ phone' \in Phone
    <3> DEFINE st == [phone.st EXCEPT ![r] = s]
    <3>1. st \in [Refs -> CallStates] /\ phone' = [phone EXCEPT !.st = st]
      BY <1>1, <1>3, <2>2 DEF Phone
    <3>2. phone'.st = st
      BY <1>3, <3>1 DEF Phone
    <3> HIDE DEF st
    <3>3. /\ phone'.act = phone.act
          /\ phone'.connected = phone.connected /\ phone'.media = phone.media
          /\ phone'.ev = phone.ev /\ SameMedia(phone', phone) /\ phone' \in Phone
      BY <1>3, <3>1 DEF Phone, SameMedia
    <3> QED
      BY <3>2, <3>3 DEF st
  <2>4. phone.st \in [Refs -> CallStates] /\ Elements(phone.act) \subseteq Refs
    BY <1>3, ElementsFacts DEF Phone
  <2>5. \A x \in Refs : x # r => phone'.st[x] = phone.st[x]
    BY <2>3, <2>4
  <2>6. phone'.st[r] = s
    BY <1>1, <2>3, <2>4
  <2>7. FlagsAgree(phone') /\ MediaAgrees(phone')
    BY <1>3, <2>1, <2>3, <2>4, <2>5 DEF FlagsAgree, MediaAgrees, SameMedia, AnyConnected
  <2>8. MediaInv'
    <3>1. \A x \in Refs : Streams(x) => x \in Elements(phone'.act) /\ phone'.st[x] = "connected"
      BY <2>1, <2>3, <2>5 DEF Streams
    <3> QED
      BY <1>5, <1>10, <2>3, <3>1, MediaGoesOn
  <2>9. \A x \in Refs : Hears(m, x)
    <3> TAKE x \in Refs
    <3>1. CASE x = r
      BY <1>1, <1>10, <2>1, <2>3, <2>6, <3>1 DEF Hears
    <3>2. CASE x # r
      <4>1. m \notin Names(x)
        BY <2>1, <3>2 DEF Dialings, Names, OfState
      <4> QED
        BY <2>3, <2>5, <3>2, <4>1 DEF Hears
    <3> QED
      BY <3>1, <3>2
  <2> QED
    BY <2>3, <2>7, <2>8, <2>9, HearingKeeps
<1> QED
  BY <1>1, <1>6, <1>7, <1>8, <1>9, <1>10 DEF CallStates

(* The messages that leave the call table alone *)
LEMMA HearsOther ==
  ASSUME LinkInv, HubRests, toMe # <<>>, toMe' = Tail(toMe), up' \in Seq(Asked),
         Head(toMe).type # "CallState",
         phone' \in Phone, phone'.st = phone.st, phone'.act = phone.act,
         phone'.connected = phone.connected, phone'.ev \subseteq phone.ev,
         MediaAgrees(phone'),
         phone'.media => phone.media /\ Head(toMe) \notin Clears
  PROVE  LinkInv'
<1>1. \A x \in Refs : Hears(Head(toMe), x)
  BY DEF Hears, Names, OfState
<1>2. FlagsAgree(phone')
  BY AgreeIs DEF LinkInv, FlagsAgree, AnyConnected
<1>3. MediaInv'
  <2>1. \A x \in Refs : Streams(x) => x \in Elements(phone'.act) /\ phone'.st[x] = "connected"
    BY DEF Streams
  <2> QED
    BY <2>1, MediaGoesOn
<1> QED
  BY <1>1, <1>2, <1>3, HearingKeeps

LEMMA HearsStart ==
  ASSUME LinkInv, HubRests, toMe # <<>>, toMe' = Tail(toMe), up' \in Seq(Asked),
         Head(toMe).type = "StartMediaTransmission", phone' = Handled(phone, Head(toMe))
  PROVE  LinkInv'
<1> DEFINE rec == phone.rec \/ Records
           lost == phone.lost \cup (IF phone.tx THEN {"tx"} ELSE {})
           sends == [phone EXCEPT !.media = TRUE, !.tx = TRUE, !.rec = rec,
                                  !.ev = phone.ev \cup {"media"}, !.lost = lost]
<1>0. PICK r \in Refs : r = Head(toMe).ref
  BY FirstFacts DEF Packets, Told
<1>1. r \in Refs /\ Head(toMe) \in Starts(r) /\ Head(toMe) \notin Clears
  BY <1>0, FirstFacts DEF Starts, Clears
<1>2. phone.st[r] # "none" /\ phone \in Phone
  BY <1>1, FirstFacts DEF LinkInv, StreamTypes
<1>3. Keyed(phone, r) = r
  BY <1>1, <1>2, HubAssumption DEF Keyed, ActiveKey, Known, Refs
<1>4. phone' = MarkConnected(sends, r)
  BY <1>0, <1>3 DEF Handled, StartSending
<1>5. sends \in Phone /\ sends.media = TRUE /\ sends.tx = TRUE /\ sends.st = phone.st
      /\ sends.act = phone.act
  <2>1. rec \in BOOLEAN /\ lost \in SUBSET {"rx", "tx"}
    BY <1>2, LinkAssumption DEF Phone
  <2> HIDE DEF rec, lost
  <2> QED
    BY <1>2, <2>1 DEF Phone, Events
<1> HIDE DEF sends
<1>6. ListedAs(phone', sends, r, "connected") /\ phone'.media = sends.media
  BY <1>1, <1>4, <1>5, ConnectedStep DEF MediaAgrees
<1>7. /\ phone'.st = [phone.st EXCEPT ![r] = "connected"]
      /\ Elements(phone'.act) = Elements(phone.act) \cup {r}
  BY <1>5, <1>6 DEF ListedAs
<1>8. MediaInv'
  <2>1. r \in Elements(phone'.act) /\ phone'.st[r] = "connected"
    BY <1>1, <1>2, <1>7 DEF Phone
  <2>2. CASE Sounding(r)
    <3>1. Sounding(r)'
      BY <2>2 DEF Sounding, HubRests, vars
    <3> QED
      BY <1>1, <2>1, <3>1 DEF MediaInv, Streams
  <2>3. CASE Followed(toMe, Starts(r), Clears, OnHooks(r))
    <3>1. ComesFirst(toMe', Clears, OnHooks(r))
      BY <1>1, <2>3, FollowedTail DEF LinkInv, StreamTypes
    <3> QED
      BY <1>1, <2>1, <3>1 DEF MediaInv, Streams
  <2> QED
    BY <1>1, <2>2, <2>3 DEF LinkInv, CallInv, StartsEnd
<1>9. Head(toMe) \in Lists(r) /\ Head(toMe) \in Connects(r)
  BY <1>1 DEF Lists, Connects
<1> QED
  BY <1>1, <1>6, <1>7, <1>8, <1>9, HearsListing DEF ListedAs

LEMMA ReceiveKeeps ==
  ASSUME LinkInv, Receive
  PROVE  LinkInv'
<1> DEFINE m == Head(toMe)
<1>1. toMe # <<>> /\ toMe' = Tail(toMe) /\ phone' = Handled(phone, m) /\ HubRests
  BY DEF Receive, HubRests
<1>2. m \in Packets /\ m.ref \in Refs \cup {NoCall}
  BY <1>1, FirstFacts DEF Packets
<1>3. up' \in Seq(Asked)
  <2>1. up \in Seq(Asked)
    BY DEF LinkInv, StreamTypes
  <2>2. Say("Ack", m.ref) \in Asked
    BY <1>2 DEF Say, Asked, Pending, Dialed
  <2> QED
    BY <2>1, <2>2, AppendProperties DEF Receive
<1>4. phone \in Phone /\ MediaAgrees(phone)
  BY AgreeIs DEF LinkInv, StreamTypes
<1>5. CASE m.type = "CallState"
  BY <1>1, <1>3, <1>5, HearsState
<1>6. CASE m.type = "StartMediaTransmission"
  BY <1>1, <1>3, <1>6, HearsStart
<1> DEFINE Quietly == /\ phone' \in Phone /\ phone'.st = phone.st /\ phone'.act = phone.act
                      /\ phone'.connected = phone.connected /\ phone'.ev \subseteq phone.ev
                      /\ MediaAgrees(phone')
                      /\ phone'.media => phone.media /\ m \notin Clears
<1>7. ASSUME m.type # "CallState", Quietly PROVE LinkInv'
  BY <1>1, <1>3, <1>7, HearsOther
<1>8. CASE m.type = "ActivateCallPlane"
  <2>1. phone' = [phone EXCEPT !.active = TRUE] /\ m \notin Clears
    BY <1>1, <1>8 DEF Handled, ActivatePlane, Clears
  <2>2. Quietly
    BY <1>4, <2>1 DEF Phone, MediaAgrees
  <2> QED
    BY <1>7, <1>8, <2>2
<1>9. CASE m.type = "SelectSoftKeys"
  <2> DEFINE sel == IF m.ref = NoCall THEN phone.sel ELSE m.ref
  <2>1. phone' = [phone EXCEPT !.sel = sel] /\ m \notin Clears
    BY <1>1, <1>4, <1>9 DEF Handled, SelectKeys, Clears, Phone
  <2>2. sel \in Refs \cup {NoCall}
    BY <1>2, <1>4 DEF Phone
  <2>3. Quietly
    <3> HIDE DEF sel
    <3> QED
      BY <1>4, <2>1, <2>2 DEF Phone, MediaAgrees
  <2> QED
    BY <1>7, <1>9, <2>3
<1>10. CASE m.type = "OpenReceiveChannel"
  <2> DEFINE rec == phone.rec \/ Records
             lost == phone.lost \cup (IF phone.rx THEN {"rx"} ELSE {})
  <2>1. phone' = [phone EXCEPT !.rx = TRUE, !.rec = rec, !.lost = lost] /\ m \notin Clears
    BY <1>1, <1>4, <1>10 DEF Handled, OpenReceive, Clears, Phone
  <2>2. rec \in BOOLEAN /\ lost \in SUBSET {"rx", "tx"}
    BY <1>4, LinkAssumption DEF Phone
  <2>3. Quietly
    <3> HIDE DEF rec, lost
    <3> QED
      BY <1>4, <2>1, <2>2 DEF Phone, MediaAgrees
  <2> QED
    BY <1>7, <1>10, <2>3
<1>11. CASE m.type = "CloseReceiveChannel"
  <2>1. phone' = [phone EXCEPT !.rx = FALSE, !.rec = FALSE] /\ m \notin Clears
    BY <1>1, <1>11 DEF Handled, CloseReceive, Clears
  <2>2. Quietly
    BY <1>4, <2>1 DEF Phone, MediaAgrees
  <2> QED
    BY <1>7, <1>11, <2>2
<1>12. CASE m.type = "StopMediaTransmission"
  <2>1. phone' = [phone EXCEPT !.tx = FALSE, !.rec = FALSE, !.media = FALSE, !.ev = phone.ev \ {"media"}]
    BY <1>1, <1>4, <1>12 DEF Handled, StopSending, Phone
  <2>2. Quietly
    BY <1>4, <2>1 DEF Phone, MediaAgrees, Events
  <2> QED
    BY <1>7, <1>12, <2>2
<1> QED
  BY <1>2, <1>5, <1>6, <1>8, <1>9, <1>10, <1>11, <1>12 DEF Packets, Told

(* The user's keys end calls in the table and the media with them, or       *)
(* change nothing.                                                          *)
Silent(q, ph) ==
  /\ q \in Phone /\ MediaAgrees(q) /\ ~q.media
  /\ \A x \in Refs : /\ q.st[x] \in {ph.st[x], "onhook"}
                     /\ q.st[x] = "none" <=> ph.st[x] = "none"
  /\ Elements(q.act) \subseteq Elements(ph.act)

LEMMA SilentTorn ==
  ASSUME NEW ph \in Phone, NEW q, q = Teardown(ph)
  PROVE  Silent(q, ph)
BY TornStep DEF Silent

LEMMA SilentEnd ==
  ASSUME NEW ph, NEW mid, Silent(mid, ph), NEW r, NEW q, q = MarkEnded(mid, r)
  PROVE  Silent(q, ph) /\ FlagsAgree(q)
<1>1. mid \in Phone /\ Ends(q, mid, r)
  BY EndedStep DEF Silent
<1>2. q \in Phone /\ FlagsAgree(q) /\ ~q.media
  BY <1>1 DEF Ends, Silent
<1>3. MediaAgrees(q)
  BY <1>1 DEF Ends, Silent, SameMedia, MediaAgrees
<1>4. \A x \in Refs : /\ q.st[x] \in {ph.st[x], "onhook"}
                      /\ q.st[x] = "none" <=> ph.st[x] = "none"
  BY <1>1 DEF Ends, Silent
<1>5. Elements(q.act) \subseteq Elements(ph.act)
  BY <1>1 DEF Ends, Silent
<1> QED
  BY <1>2, <1>3, <1>4, <1>5 DEF Silent

LEMMA PressedFacts ==
  ASSUME NEW ph \in Phone, NEW key, NEW q, q = Pressed(ph, key)
  PROVE  q = ph \/ (Silent(q, ph) /\ FlagsAgree(q))
<1>1. CASE key = "EndCall"
  <2>1. q = MarkEnded(Teardown(ph), Target(ph, key))
    BY <1>1 DEF Pressed, EndLocally
  <2> QED
    BY <2>1, SilentTorn, SilentEnd
<1>2. CASE key = "OnHook"
  <2> DEFINE torn == Teardown(ph)
             all == IF ph.act # <<>> THEN MarkEnded(torn, NoCall)
                    ELSE MarkEnded(torn, Target(torn, "EndCall"))
  <2>1. q = MarkEnded(all, NoCall)
    BY <1>2 DEF Pressed, OnHookLocally
  <2>2. Silent(torn, ph)
    BY SilentTorn
  <2> HIDE DEF torn
  <2>3. Silent(all, ph)
    BY <2>2, SilentEnd
  <2> HIDE DEF all
  <2> QED
    BY <2>1, <2>3, SilentEnd
<1>3. CASE key \notin {"EndCall", "OnHook"}
  BY <1>3 DEF Pressed
<1> QED
  BY <1>1, <1>2, <1>3

LEMMA LocalKeeps ==
  ASSUME LinkInv, HubRests, UNCHANGED toMe, up' \in Seq(Asked),
         phone' = phone \/ (Silent(phone', phone) /\ FlagsAgree(phone'))
  PROVE  LinkInv'
<1>1. /\ calls' = calls /\ live' = live /\ nextRef' = nextRef /\ TypeOK'
  BY DEF HubRests, vars, LinkInv, TypeOK
<1>2. /\ phone' \in Phone /\ FlagsAgree(phone') /\ MediaAgrees(phone')
      /\ \A x \in Refs : /\ phone'.st[x] = "connected" => phone.st[x] = "connected"
                         /\ phone'.st[x] = "none" <=> phone.st[x] = "none"
      /\ Elements(phone'.act) \subseteq Elements(phone.act)
  <2>1. CASE phone' = phone
    BY <2>1, AgreeIs DEF LinkInv, StreamTypes
  <2>2. CASE Silent(phone', phone) /\ FlagsAgree(phone')
    BY <2>2 DEF Silent
  <2> QED
    BY <2>1, <2>2
<1>3. ASSUME NEW r \in Refs PROVE InOrder(r)' /\ Unheard(r)' /\ IsKnown(r)' /\ StartsEnd(r)'
  <2>1. InOrder(r) /\ Unheard(r) /\ IsKnown(r) /\ StartsEnd(r)
    BY DEF LinkInv, CallInv
  <2>2. InOrder(r)'
    BY <1>1, <1>2, <2>1 DEF InOrder
  <2>3. Unheard(r)' /\ IsKnown(r)'
    BY <1>1, <1>2, <2>1 DEF Unheard, IsKnown
  <2>4. StartsEnd(r)'
    BY <1>1, <2>1 DEF StartsEnd, Sounding
  <2> QED
    BY <2>2, <2>3, <2>4
<1>4. MediaInv'
  <2>1. CASE phone' = phone
    BY <1>1, <2>1 DEF LinkInv, MediaInv, Streams, Sounding
  <2>2. CASE Silent(phone', phone)
    BY <2>2 DEF Silent, MediaInv
  <2> QED
    BY <2>1, <2>2
<1>5. EventsAgree' /\ RecorderFollowsMedia'
  BY <1>2 DEF EventsAgree, RecorderFollowsMedia, FlagsAgree, MediaAgrees
<1>6. toMe' \in Seq(Packets)
  BY DEF LinkInv, StreamTypes
<1> QED
  BY <1>1, <1>2, <1>3, <1>4, <1>5, <1>6 DEF LinkInv, CallInv, StreamTypes

(* The first entry of a list that passes a test is one of the list.         *)
LEMMA FirstIsOne ==
  ASSUME NEW s \in Seq(Refs), NEW at \in SUBSET (1..Len(s)), at # {}
  PROVE  s[CHOOSE i \in at : \A j \in at : i <= j] \in Refs
<1>1. at \in SUBSET Nat
  BY LenProperties
<1>2. (CHOOSE i \in at : \A j \in at : i <= j) \in at
  BY <1>1, LeastNatural
<1> QED
  BY <1>2, ElementOfSeq

LEMMA TargetTyped ==
  ASSUME NEW ph \in Phone, NEW key
  PROVE  Target(ph, key) \in Refs \cup {NoCall}
<1> DEFINE sel == IF ph.sel = NoCall THEN <<>> ELSE <<ph.sel>>
           s == IF key = "Resume" THEN "hold" ELSE "connected"
           at == {i \in 1..Len(Preferred(ph)) : ph.st[Preferred(ph)[i]] = s}
<1>1. ph.act \in Seq(Refs) /\ sel \in Seq(Refs) /\ Len(ph.act) \in Nat
  BY LenProperties DEF Phone
<1>2. [i \in 1..Len(ph.act) |-> ph.act[Len(ph.act) + 1 - i]] \in Seq(Refs)
  BY <1>1, ElementOfSeq
<1>3. Preferred(ph) \in Seq(Refs)
  BY <1>1, <1>2, ConcatFacts DEF Preferred
<1>4. RefInState(ph, s) \in Refs \cup {NoCall}
  <2>1. RefInState(ph, s) = IF at = {} THEN NoCall
                            ELSE Preferred(ph)[CHOOSE i \in at : \A j \in at : i <= j]
    BY DEF RefInState, FirstOf
  <2> QED
    BY <1>3, <2>1, FirstIsOne
<1>5. FirstOf(sel \o ph.act, LAMBDA q : TRUE) \in Refs \cup {NoCall}
  <2> DEFINE ls == sel \o ph.act
             all == {i \in 1..Len(ls) : TRUE}
  <2>1. FirstOf(ls, LAMBDA q : TRUE)
          = IF all = {} THEN NoCall ELSE ls[CHOOSE i \in all : \A j \in all : i <= j]
    BY DEF FirstOf
  <2>2. ls \in Seq(Refs)
    BY <1>1, ConcatFacts
  <2>3. all \in SUBSET (1..Len(ls))
    OBVIOUS
  <2> HIDE DEF all, ls
  <2>4. (IF all = {} THEN NoCall ELSE ls[CHOOSE i \in all : \A j \in all : i <= j])
          \in Refs \cup {NoCall}
    BY <2>2, <2>3, FirstIsOne
  <2>5. FirstOf(ls, LAMBDA q : TRUE) \in Refs \cup {NoCall}
    BY ONLY <2>1, <2>4, Zenon
  <2> QED
    BY <2>5 DEF ls
<1> QED
  BY <1>4, <1>5 DEF Target

LEMMA PressKeeps ==
  ASSUME LinkInv, NEW key \in Keys, Press(key)
  PROVE  LinkInv'
<1>1. HubRests /\ UNCHANGED toMe /\ phone \in Phone
  BY DEF Press, HubRests, LinkInv, StreamTypes
<1>2. up' \in Seq(Asked)
  <2>1. Say(key, Target(phone, key)) \in Asked
    BY <1>1, TargetTyped, LinkAssumption DEF Say, Asked, Pending, Dialed
  <2> QED
    BY <2>1, AppendProperties DEF Press, LinkInv, StreamTypes
<1>3. phone' = phone \/ (Silent(phone', phone) /\ FlagsAgree(phone'))
  BY <1>1, PressedFacts DEF Press
<1> QED
  BY <1>1, <1>2, <1>3, LocalKeeps

LEMMA DialKeeps ==
  ASSUME LinkInv, NEW d \in Phones \ {Me}, Dial(d)
  PROVE  LinkInv'
<1>1. HubRests /\ UNCHANGED toMe /\ phone' = phone
  BY DEF Dial, HubRests
<1>2. up' \in Seq(Asked)
  <2>1. [Say("Digit", NoCall) EXCEPT !.digit = d] \in Asked
    BY DEF Say, Asked, Pending, Dialed
  <2> QED
    BY <2>1, AppendProperties DEF Dial, LinkInv, StreamTypes
<1> QED
  BY <1>1, <1>2, LocalKeeps

-----------------------------------------------------------------------------
(* What the hub says, packet by packet *)

LEMMA OneMessage ==
  ASSUME NEW a, NEW P, NEW Q
  PROVE  /\ Has(<<a>>, P) <=> a \in P
         /\ Preceded(<<a>>, P, Q) <=> a \notin Q
         /\ NoneBefore(<<a>>, P, Q)
         /\ ComesFirst(<<a>>, P, Q) <=> a \in P
<1>1. Len(<<a>>) = 1 /\ <<a>>[1] = a /\ 1..1 = {1} /\ 1..(1 - 1) = {}
  OBVIOUS
<1> HIDE DEF Has
<1> QED
  BY <1>1 DEF Has, Preceded, NoneBefore, ComesFirst

LEMMA Nothing ==
  ASSUME NEW P
  PROVE  ~Has(<<>>, P)
BY DEF Has

(* A sequence without the messages that a condition is about meets it.      *)
LEMMA Absent ==
  ASSUME NEW t, NEW P, NEW Q
  PROVE  /\ ~Has(t, Q) => Preceded(t, P, Q) /\ NoneBefore(t, P, Q)
         /\ (Len(t) \in Nat /\ ~Has(t, P)) => NoneBefore(t, P, Q)
<1>1. ASSUME ~Has(t, Q) PROVE Preceded(t, P, Q) /\ NoneBefore(t, P, Q)
  BY <1>1 DEF Has, Preceded, NoneBefore
<1>2. ASSUME Len(t) \in Nat, ~Has(t, P) PROVE NoneBefore(t, P, Q)
  <2> SUFFICES ASSUME NEW i \in 1..Len(t), NEW j \in 1..(i - 1) PROVE t[j] \notin P
    BY DEF NoneBefore
  <2>1. j \in 1..Len(t)
    BY <1>2
  <2> QED
    BY <1>2, <2>1 DEF Has
<1> QED
  BY <1>1, <1>2

(* A message about a state of call q is about call q alone.                 *)
LEMMA StateKinds ==
  ASSUME NEW s \in CallStates \ {"none"}, NEW q \in Refs, NEW r \in Refs
  PROVE  /\ State(s, q) \in Packets
         /\ State(s, q) \in Dialings(r) <=> q = r /\ s \in {"offhook", "proceed"}
         /\ State(s, q) \in Alerts(r) <=> q = r /\ s \in {"ringin", "ringout"}
         /\ State(s, q) \in OnHooks(r) <=> q = r /\ s = "onhook"
         /\ State(s, q) \in Names(r) <=> q = r /\ s # "onhook"
         /\ State(s, q) \in Connects(r) <=> q = r /\ s = "connected"
         /\ State(s, q) \in Lists(r)
              <=> q = r /\ s \in {"ringin", "ringout", "connected", "hold"}
         /\ State(s, q) \notin Starts(r)
         /\ State(s, q) \in Clears <=> s = "hold"
BY DEF State, Packets, CallStates, Dialings, Alerts, OnHooks, Names, Connects, Lists,
       Starts, Clears, OfState

(* Any other message is about no call's state.                              *)
LEMMA TellKinds ==
  ASSUME NEW k \in Told, NEW q \in Refs \cup {NoCall}, NEW r \in Refs,
         q = NoCall => k = "SelectSoftKeys"
  PROVE  /\ Tell(k, q) \in Packets
         /\ Tell(k, q) \notin Dialings(r) \cup Alerts(r) \cup OnHooks(r) \cup Names(r)
         /\ Tell(k, q) \in Starts(r) <=> q = r /\ k = "StartMediaTransmission"
         /\ Tell(k, q) \in Connects(r) <=> Tell(k, q) \in Starts(r)
         /\ Tell(k, q) \in Lists(r) <=> Tell(k, q) \in Starts(r)
         /\ Tell(k, q) \in Clears <=> k = "StopMediaTransmission"
BY DEF Tell, Told, Packets, CallStates, Dialings, Alerts, OnHooks, Names, Connects, Lists,
       Starts, Clears, OfState

LEMMA TwoMessages ==
  ASSUME NEW a, NEW b, NEW P
  PROVE  Has(<<a, b>>, P) <=> a \in P \/ b \in P
<1>1. 1..2 = {1, 2}
  OBVIOUS
<1> QED
  BY <1>1 DEF Has

LEMMA ThreeMessages ==
  ASSUME NEW a, NEW b, NEW c, NEW P
  PROVE  Has(<<a, b, c>>, P) <=> a \in P \/ b \in P \/ c \in P
<1>1. 1..3 = {1, 2, 3}
  OBVIOUS
<1> QED
  BY <1>1 DEF Has

LEMMA FourMessages ==
  ASSUME NEW a, NEW b, NEW c, NEW d, NEW P
  PROVE  Has(<<a, b, c, d>>, P) <=> a \in P \/ b \in P \/ c \in P \/ d \in P
<1>1. 1..4 = {1, 2, 3, 4}
  OBVIOUS
<1> QED
  BY <1>1 DEF Has

(* What a phrase about call q holds for call r: whether the call is dialed, *)
(* rings, is connected or listed or named.                                  *)
About(t, r, dials, rings, connects, lists) ==
  /\ t \in Seq(Packets)
  /\ Has(t, Dialings(r)) <=> dials
  /\ Has(t, Alerts(r)) <=> rings
  /\ Has(t, Connects(r)) <=> connects
  /\ Has(t, Lists(r)) <=> lists
  /\ Has(t, Names(r)) <=> dials \/ rings \/ connects \/ lists
  /\ ~Has(t, OnHooks(r)) /\ ~Has(t, Starts(r))

LEMMA Phrases ==
  ASSUME NEW q \in Refs, NEW r \in Refs
  PROVE  /\ About(<<>>, r, FALSE, FALSE, FALSE, FALSE)
         /\ About(OutboundPackets(q), r, q = r, FALSE, FALSE, FALSE)
         /\ \A s \in {"ringin", "ringout"} :
              About(RingPackets(s, q), r, FALSE, q = r, FALSE, q = r)
         /\ About(ConnectPackets(q), r, FALSE, FALSE, q = r, q = r)
         /\ About(HoldPackets(q), r, FALSE, FALSE, FALSE, q = r)
<1>1. \A s \in CallStates \ {"none"} :
        /\ State(s, q) \in Packets
        /\ State(s, q) \in Dialings(r) <=> q = r /\ s \in {"offhook", "proceed"}
        /\ State(s, q) \in Alerts(r) <=> q = r /\ s \in {"ringin", "ringout"}
        /\ State(s, q) \in OnHooks(r) <=> q = r /\ s = "onhook"
        /\ State(s, q) \in Names(r) <=> q = r /\ s # "onhook"
        /\ State(s, q) \in Connects(r) <=> q = r /\ s = "connected"
        /\ State(s, q) \in Lists(r)
             <=> q = r /\ s \in {"ringin", "ringout", "connected", "hold"}
        /\ State(s, q) \notin Starts(r)
  BY StateKinds
<1>2. \A k \in {"ActivateCallPlane", "SelectSoftKeys", "OpenReceiveChannel"} :
        /\ Tell(k, q) \in Packets
        /\ Tell(k, q) \notin Dialings(r) /\ Tell(k, q) \notin Alerts(r)
        /\ Tell(k, q) \notin OnHooks(r) /\ Tell(k, q) \notin Names(r)
        /\ Tell(k, q) \notin Starts(r) /\ Tell(k, q) \notin Connects(r)
        /\ Tell(k, q) \notin Lists(r)
  <2> SUFFICES ASSUME NEW k \in {"ActivateCallPlane", "SelectSoftKeys", "OpenReceiveChannel"}
               PROVE  /\ Tell(k, q) \in Packets
                      /\ Tell(k, q) \notin Dialings(r) /\ Tell(k, q) \notin Alerts(r)
                      /\ Tell(k, q) \notin OnHooks(r) /\ Tell(k, q) \notin Names(r)
                      /\ Tell(k, q) \notin Starts(r) /\ Tell(k, q) \notin Connects(r)
                      /\ Tell(k, q) \notin Lists(r)
    OBVIOUS
  <2>1. k \in Told /\ k # "StartMediaTransmission" /\ (q = NoCall => k = "SelectSoftKeys")
    BY HubAssumption DEF Told, Refs
  <2> QED
    BY <2>1, TellKinds
<1>3. About(<<>>, r, FALSE, FALSE, FALSE, FALSE)
  BY Nothing, EmptySeq DEF About
<1>4. About(OutboundPackets(q), r, q = r, FALSE, FALSE, FALSE)
  <2>1. OutboundPackets(q) \in Seq(Packets)
    BY <1>1, <1>2 DEF OutboundPackets, CallStates
  <2>2. \A P : Has(OutboundPackets(q), P)
          <=> State("offhook", q) \in P \/ Tell("ActivateCallPlane", q) \in P
              \/ State("proceed", q) \in P \/ Tell("SelectSoftKeys", q) \in P
    BY FourMessages DEF OutboundPackets
  <2> QED
    BY <1>1, <1>2, <2>1, <2>2 DEF About, CallStates
<1>5. ASSUME NEW s \in {"ringin", "ringout"}
      PROVE  About(RingPackets(s, q), r, FALSE, q = r, FALSE, q = r)
  <2>1. RingPackets(s, q) \in Seq(Packets)
    BY <1>1, <1>2 DEF RingPackets, CallStates
  <2> QED
    BY <1>1, <1>2, <2>1, TwoMessages DEF About, RingPackets, CallStates
<1>6. About(ConnectPackets(q), r, FALSE, FALSE, q = r, q = r)
  <2>1. ConnectPackets(q) \in Seq(Packets)
    BY <1>1, <1>2 DEF ConnectPackets, CallStates
  <2>2. \A P : Has(ConnectPackets(q), P)
          <=> State("connected", q) \in P \/ Tell("SelectSoftKeys", q) \in P
              \/ Tell("OpenReceiveChannel", q) \in P
    BY ThreeMessages DEF ConnectPackets
  <2> QED
    BY <1>1, <1>2, <2>1, <2>2 DEF About, CallStates
<1>7. About(HoldPackets(q), r, FALSE, FALSE, FALSE, q = r)
  <2>1. HoldPackets(q) \in Seq(Packets)
    BY <1>1, <1>2 DEF HoldPackets, CallStates
  <2> QED
    BY <1>1, <1>2, <2>1, TwoMessages DEF About, HoldPackets, CallStates
<1> QED
  BY <1>3, <1>4, <1>5, <1>6, <1>7

(* The call on which a party of an ended call falls back is shown as it is. *)
LEMMA FocusSays ==
  ASSUME TypeOK, NEW q \in Refs, NEW r \in Refs
  PROVE  LET t == FocusPackets(Me, q)
         IN /\ t \in Seq(Packets)
            /\ ~Has(t, Dialings(r)) /\ ~Has(t, OnHooks(r)) /\ ~Has(t, Starts(r))
            /\ Has(t, Alerts(r)) => r = q /\ calls[q].state = "ringing"
            /\ Has(t, Connects(r)) => r = q /\ calls[q].state = "connected"
            /\ Has(t, Lists(r)) => r = q
<1> DEFINE t == FocusPackets(Me, q)
<1>1. CASE t = <<>>
  BY <1>1, Phrases DEF About
<1>2. CASE t = HoldPackets(q)
  BY <1>2, Phrases DEF About
<1>3. CASE t = ConnectPackets(q) /\ calls[q].state = "connected"
  BY <1>3, Phrases DEF About
<1>4. CASE calls[q].state = "ringing" /\ t = RingPackets("ringin", q)
  BY <1>4, Phrases DEF About
<1>5. CASE calls[q].state = "ringing" /\ t = RingPackets("ringout", q)
  BY <1>5, Phrases DEF About
<1> QED
  BY <1>1, <1>2, <1>3, <1>4, <1>5 DEF FocusPackets

(* A call the step leaves alone, and of which it says nothing.              *)
LEMMA Uninvolved ==
  ASSUME LinkInv, NEW r \in Refs, NEW t, About(t, r, FALSE, FALSE, FALSE, FALSE),
         calls'[r] = calls[r], r \in live' => r \in live, nextRef' \in Nat, nextRef' >= nextRef
  PROVE  SaysOf(t, r)
<1>1. InOrder(r) /\ Unheard(r) /\ r \in Nat /\ nextRef \in Nat
  BY HubAssumption DEF LinkInv, CallInv, TypeOK, Refs
<1>2. ~Has(t, Starts(r) \cup OnHooks(r))
  BY DEF About, Has
<1>3. /\ NoneBefore(t, Lists(r), Dialings(r)) /\ NoneBefore(t, Connects(r), Alerts(r))
      /\ Preceded(t, Names(r), Starts(r) \cup OnHooks(r))
  BY <1>2, Absent DEF About
<1>4. r >= nextRef' => r >= nextRef
  BY <1>1
<1>5. Sounding(r)' <=> Sounding(r)
  BY DEF Sounding
<1> QED
  BY <1>1, <1>3, <1>4, <1>5 DEF SaysOf, About, Unheard

(* A call in the hub's hands has been allocated.                            *)
LEMMA IsAllocated ==
  ASSUME LinkInv, NEW r \in Refs, r \in live \/ calls[r].state # "idle"
  PROVE  ~(r >= nextRef) /\ r \in Nat /\ nextRef \in Nat
BY HubAssumption DEF LinkInv, CallInv, Unheard, TypeOK, Refs

LEMMA FocusTyped ==
  ASSUME LinkInv, NEW p \in Phones, active[p] # NoCall
  PROVE  active[p] \in Refs
BY DEF LinkInv, TypeOK

(* A step that writes one call, which the hub had, says what the state of   *)
(* that call allows.                                                        *)
LEMMA SaysOfOne ==
  ASSUME LinkInv, NEW q \in Refs, NEW c, NEW t, calls' = [calls EXCEPT ![q] = c],
         live' \subseteq live, nextRef' = nextRef, t \in Seq(Packets), toMe' = toMe \o t,
         SaysOf(t, q),
         \A r \in Refs \ {q} : About(t, r, FALSE, FALSE, FALSE, FALSE)
  PROVE  HubSays(t)
<1> SUFFICES ASSUME NEW r \in Refs, r # q PROVE SaysOf(t, r)
  BY DEF HubSays
<1>1. calls'[r] = calls[r] /\ nextRef' \in Nat /\ nextRef' >= nextRef
  BY HubAssumption DEF LinkInv, TypeOK
<1> QED
  BY <1>1, Uninvolved

LEMMA SilenceSays ==
  ASSUME LinkInv, UNCHANGED <<calls, live, nextRef, toMe>>
  PROVE  HubSays(<<>>)
<1>1. toMe \in Seq(Packets) /\ toMe' = toMe \o <<>> /\ <<>> \in Seq(Packets)
  BY ConcatEmptySeq DEF LinkInv, StreamTypes
<1>2. ASSUME NEW r \in Refs PROVE SaysOf(<<>>, r)
  <2>1. nextRef' \in Nat /\ nextRef' >= nextRef
    BY HubAssumption DEF LinkInv, TypeOK
  <2> QED
    BY <2>1, Phrases, Uninvolved
<1> QED
  BY <1>1, <1>2 DEF HubSays

(* A phrase that names no later state after an earlier one, starts no media *)
(* and ends no call.                                                        *)
LEMMA PlainlySaid ==
  ASSUME NEW r \in Refs, NEW t, NEW dials \in BOOLEAN, NEW rings \in BOOLEAN,
         NEW connects \in BOOLEAN, NEW lists \in BOOLEAN,
         About(t, r, dials, rings, connects, lists),
         ~(dials /\ lists), ~(rings /\ connects)
  PROVE  /\ NoneBefore(t, Lists(r), Dialings(r)) /\ NoneBefore(t, Connects(r), Alerts(r))
         /\ Preceded(t, Names(r), Starts(r) \cup OnHooks(r))
<1>1. ~Has(t, Starts(r) \cup OnHooks(r)) /\ Len(t) \in Nat
  BY LenProperties DEF About, Has
<1> QED
  BY <1>1, Absent DEF About

LEMMA NewCallSays ==
  ASSUME LinkInv, NEW p \in Phones, HubNewCall(p)
  PROVE  \E t : HubSays(t)
<1>1. CASE UNCHANGED vars /\ Unshown
  BY <1>1, SilenceSays DEF vars, Unshown
<1>2. CASE NewCall(p) /\ Shows(IF p = Me THEN OutboundPackets(nextRef) ELSE <<>>)
  <2> DEFINE t == IF p = Me THEN OutboundPackets(nextRef) ELSE <<>>
             n == nextRef
  <2>1. /\ n \in Refs /\ calls' = [calls EXCEPT ![n] = NewCallBy(p, "dialing")]
        /\ live' = live \cup {n} /\ nextRef' = n + 1 /\ toMe' = toMe \o t
        /\ n \in Nat /\ Refs \subseteq Nat /\ calls \in [Refs -> Call]
    BY <1>2, HubAssumption DEF NewCall, Shows, Refs, LinkInv, TypeOK
  <2>2. ASSUME NEW r \in Refs
        PROVE  About(t, r, p = Me /\ n = r, FALSE, FALSE, FALSE)
    BY <2>1, Phrases
  <2> HIDE DEF t
  <2>3. SaysOf(t, n)
    <3>1. /\ NoneBefore(t, Lists(n), Dialings(n)) /\ NoneBefore(t, Connects(n), Alerts(n))
          /\ Preceded(t, Names(n), Starts(n) \cup OnHooks(n))
      BY <2>1, <2>2, PlainlySaid
    <3>2. calls[n].state = "idle" /\ ~(n >= nextRef')
      BY <2>1 DEF LinkInv, CallInv, Unheard
    <3>3. calls'[n].state = "dialing" /\ Parties(calls'[n]) \subseteq {p}
      BY <2>1 DEF NewCallBy, Parties
    <3>4. ~Sounding(n)
      BY <3>2 DEF Sounding
    <3>5. /\ ~Has(t, Alerts(n)) /\ ~Has(t, Connects(n)) /\ ~Has(t, OnHooks(n))
          /\ ~Has(t, Starts(n)) /\ (p = Me => Has(t, Names(n)))
      BY <2>1, <2>2 DEF About
    <3>6. n >= nextRef
      BY <2>1
    <3> QED
      BY <3>1, <3>2, <3>3, <3>4, <3>5, <3>6 DEF SaysOf, Early
  <2>4. ASSUME NEW r \in Refs, r # n PROVE SaysOf(t, r)
    <3>1. calls'[r] = calls[r] /\ (r \in live' => r \in live) /\ nextRef' \in Nat
          /\ nextRef' >= nextRef
      BY <2>1, <2>4
    <3>2. About(t, r, FALSE, FALSE, FALSE, FALSE)
      BY <2>2, <2>4
    <3> QED
      BY <3>1, <3>2, Uninvolved
  <2>5. t \in Seq(Packets)
    BY <2>1, <2>2 DEF About
  <2> QED
    BY <2>1, <2>3, <2>4, <2>5 DEF HubSays
<1> QED
  BY <1>1, <1>2 DEF HubNewCall

(* The hub writes call q, c from then on, and says of it that it rings, is  *)
(* connected or is listed, or says nothing.                                 *)
LEMMA PhraseSays ==
  ASSUME LinkInv, NEW q \in Refs, NEW c, NEW t, NEW rings \in BOOLEAN,
         NEW connects \in BOOLEAN, NEW lists \in BOOLEAN,
         calls' = [calls EXCEPT ![q] = c], live' = live, nextRef' = nextRef,
         toMe' = toMe \o t,
         calls[q].state \notin {"idle", "ended"}, c.state # "ended",
         \A r \in Refs : About(t, r, FALSE, rings /\ q = r, connects /\ q = r, lists /\ q = r),
         rings => calls[q].state \in Early /\ ~connects,
         c.state \in Early => calls[q].state \in Early /\ ~connects,
         Me \in Parties(c) => Me \in Parties(calls[q]) \/ rings \/ connects \/ lists,
         Sounding(q) /\ ~Sounding(q)' => ComesFirst(t, Clears, OnHooks(q))
  PROVE  HubSays(t)
<1>1. t \in Seq(Packets) /\ calls'[q] = c /\ ~(q >= nextRef')
  <2>1. calls \in [Refs -> Call] /\ ~(q >= nextRef)
    BY IsAllocated DEF LinkInv, TypeOK
  <2> QED
    BY <2>1 DEF About
<1>2. /\ ~Has(t, Dialings(q)) /\ ~Has(t, OnHooks(q)) /\ ~Has(t, Starts(q))
      /\ Has(t, Alerts(q)) <=> rings
  BY DEF About
<1>3. Has(t, Connects(q)) <=> connects
  BY DEF About
<1>4. Has(t, Names(q)) <=> rings \/ connects \/ lists
  BY DEF About
<1>5. /\ NoneBefore(t, Lists(q), Dialings(q)) /\ NoneBefore(t, Connects(q), Alerts(q))
      /\ Preceded(t, Names(q), Starts(q) \cup OnHooks(q))
  <2>1. ~Has(t, Starts(q) \cup OnHooks(q)) /\ Len(t) \in Nat
    BY <1>1, <1>2, LenProperties DEF Has
  <2> QED
    BY <1>2, <1>3, <2>1, Absent
<1>6. SaysOf(t, q)
  BY <1>1, <1>2, <1>3, <1>4, <1>5 DEF SaysOf
<1>7. \A r \in Refs \ {q} : About(t, r, FALSE, FALSE, FALSE, FALSE)
  BY DEF About
<1> QED
  BY <1>1, <1>6, <1>7, SaysOfOne

LEMMA DigitSays ==
  ASSUME LinkInv, NEW p \in Phones, NEW d \in Phones, HubDigit(p, d)
  PROVE  \E t : HubSays(t)
<1>1. CASE UNCHANGED vars /\ Unshown
  BY <1>1, SilenceSays DEF vars, Unshown
<1>2. ASSUME DialDigit(p, d), NEW q, q = active[p], NEW t,
             t = IF calls'[q].state # "ringing" THEN <<>>
                 ELSE IF p = Me THEN RingPackets("ringout", q)
                 ELSE IF calls'[q].callee = Me THEN RingPackets("ringin", q)
                 ELSE <<>>,
             toMe' = toMe \o t
      PROVE  HubSays(t)
  <2> DEFINE b == [calls[q] EXCEPT !.dialed = AddDigit(@, d)]
             c == Dialled(b, active)
  <2>1. /\ q \in Refs /\ calls[q].state = "dialing" /\ calls' = [calls EXCEPT ![q] = c]
        /\ live' = live /\ nextRef' = nextRef /\ calls \in [Refs -> Call]
        /\ calls'[q] = c
    BY <1>2, FocusTyped DEF DialDigit, InState, TryCompleteDial, LinkInv, TypeOK
  <2>2. /\ b.caller = calls[q].caller /\ b.callee = calls[q].callee
        /\ b.third = calls[q].third /\ b.state = "dialing" /\ b \in Call
        /\ b.dialed \in Phones \cup {WrongNumber}
    BY <2>1, HubAssumption DEF Call, AddDigit, Dialed
  <2> HIDE DEF b
  <2>3. \/ c = b
        \/ /\ c.state = "ringing" /\ c.callee \in Phones
           /\ c.caller = b.caller /\ c.third = b.third
    BY <2>2, HubAssumption DEF Dialled, Rings, Call
  <2> HIDE DEF c
  <2>4. c.state \in {"dialing", "ringing"} /\ ~Sounding(q)
    BY <2>1, <2>2, <2>3 DEF Sounding
  <2>5. CASE t = <<>>
    <3>1. \A r \in Refs : About(t, r, FALSE, FALSE /\ q = r, FALSE /\ q = r, FALSE /\ q = r)
      BY <2>1, <2>5, Phrases DEF About
    <3>2. Me \in Parties(c) => Me \in Parties(calls[q])
      <4>1. c = b \/ (p # Me /\ c.callee # Me)
        BY <1>2, <2>1, <2>3, <2>5 DEF RingPackets
      <4> QED
        BY <2>2, <2>3, <4>1 DEF Parties
    <3> QED
      BY <1>2, <2>1, <2>4, <3>1, <3>2, PhraseSays DEF Early
  <2>6. CASE c.state = "ringing" /\ \E s \in {"ringin", "ringout"} : t = RingPackets(s, q)
    <3>1. \A r \in Refs : About(t, r, FALSE, TRUE /\ q = r, FALSE /\ q = r, TRUE /\ q = r)
      BY <2>1, <2>6, Phrases DEF About
    <3>2. /\ calls[q].state \notin {"idle", "ended"} /\ c.state # "ended"
          /\ calls[q].state \in Early /\ toMe' = toMe \o t
      BY <1>2, <2>1, <2>4 DEF Early
    <3> QED
      BY <2>1, <2>4, <3>1, <3>2, PhraseSays
  <2> QED
    BY <1>2, <2>1, <2>5, <2>6
<1> QED
  BY <1>1, <1>2 DEF HubDigit, Shows

LEMMA AnswerSays ==
  ASSUME LinkInv, NEW p \in Phones, HubAnswer(p)
  PROVE  \E t : HubSays(t)
<1> DEFINE q == active[p]
           t == IF calls' # calls /\ Me \in Parties(calls[q]) THEN ConnectPackets(q) ELSE <<>>
<1>1. live' = live /\ nextRef' = nextRef /\ toMe' = toMe \o t /\ calls' = Answered(p)
  BY DEF HubAnswer, Answer, Shows
<1>2. CASE calls' = calls
  <2>1. toMe' = toMe
    BY <1>1, <1>2, ConcatEmptySeq DEF LinkInv, StreamTypes
  <2> QED
    BY <1>1, <1>2, <2>1, SilenceSays
<1>3. CASE calls' # calls
  <2>1. /\ q \in Refs /\ calls[q].state = "ringing"
        /\ calls' = [calls EXCEPT ![q].state = "connected"]
    BY <1>1, <1>3, FocusTyped DEF Answered, InState
  <2> DEFINE c == [calls[q] EXCEPT !.state = "connected"]
  <2>2. calls' = [calls EXCEPT ![q] = c] /\ c.state = "connected"
        /\ Parties(c) = Parties(calls[q]) /\ ~Sounding(q)
    BY <2>1 DEF LinkInv, TypeOK, Call, Parties, Sounding
  <2> HIDE DEF c, q
  <2>3. CASE Me \in Parties(calls[q])
    <3>1. t = ConnectPackets(q)
      BY <1>3, <2>3
    <3>2. \A r \in Refs : About(t, r, FALSE, FALSE /\ q = r, TRUE /\ q = r, TRUE /\ q = r)
      BY <2>1, <3>1, Phrases DEF About
    <3> HIDE DEF t
    <3> QED
      BY <1>1, <2>1, <2>2, <3>2, PhraseSays DEF Early
  <2>4. CASE Me \notin Parties(calls[q])
    <3>1. t = <<>>
      BY <2>4
    <3>2. \A r \in Refs : About(t, r, FALSE, FALSE /\ q = r, FALSE /\ q = r, FALSE /\ q = r)
      BY <2>1, <3>1, Phrases DEF About
    <3> HIDE DEF t
    <3> QED
      BY <1>1, <2>1, <2>2, <3>2, <2>4, PhraseSays DEF Early
  <2> QED
    BY <2>3, <2>4
<1> QED
  BY <1>2, <1>3

LEMMA HoldSays ==
  ASSUME LinkInv, NEW p \in Phones, HubHold(p)
  PROVE  \E t : HubSays(t)
<1>1. CASE UNCHANGED vars /\ Unshown
  BY <1>1, SilenceSays DEF vars, Unshown
<1>2. ASSUME Hold(p), NEW q, q = active[p], NEW t,
             t = IF Me \in Parties(calls[q]) THEN HoldPackets(q) ELSE <<>>,
             toMe' = toMe \o t
      PROVE  HubSays(t)
  <2> DEFINE c == OnHold(calls[q], p)
  <2>1. /\ q \in Refs /\ calls[q].state = "connected" /\ calls' = [calls EXCEPT ![q] = c]
        /\ live' = live /\ nextRef' = nextRef
    BY <1>2, FocusTyped DEF Hold, InState
  <2>2. c.state = "held" /\ Parties(c) = Parties(calls[q])
    BY <2>1 DEF LinkInv, TypeOK, Call, Parties, OnHold
  <2> HIDE DEF c
  <2>3. CASE Me \in Parties(calls[q])
    <3>1. \A r \in Refs : About(t, r, FALSE, FALSE /\ q = r, FALSE /\ q = r, TRUE /\ q = r)
      BY <1>2, <2>1, <2>3, Phrases DEF About
    <3>2. ComesFirst(t, Clears, OnHooks(q))
      <4>1. Len(t) = 2 /\ t[1] = State("hold", q) /\ 1 \in 1..2 /\ 1..(1 - 1) = {}
        BY <1>2, <2>3 DEF HoldPackets
      <4>2. State("hold", q) \in Clears
        BY <2>1, StateKinds DEF CallStates
      <4> QED
        BY <4>1, <4>2 DEF ComesFirst
    <3> QED
      BY <1>2, <2>1, <2>2, <3>1, <3>2, PhraseSays DEF Early
  <2>4. CASE Me \notin Parties(calls[q])
    <3>1. \A r \in Refs : About(t, r, FALSE, FALSE /\ q = r, FALSE /\ q = r, FALSE /\ q = r)
      BY <1>2, <2>1, <2>4, Phrases DEF About
    <3>2. ~Sounding(q)
      BY <2>4 DEF Sounding
    <3> QED
      BY <1>2, <2>1, <2>2, <2>4, <3>1, <3>2, PhraseSays DEF Early
  <2> QED
    BY <2>3, <2>4
<1> QED
  BY <1>1, <1>2 DEF HubHold, Shows

LEMMA ResumeSays ==
  ASSUME LinkInv, NEW p \in Phones, HubResume(p)
  PROVE  \E t : HubSays(t)
<1>1. CASE UNCHANGED vars /\ Unshown
  BY <1>1, SilenceSays DEF vars, Unshown
<1>2. ASSUME Resume(p), NEW q, q = active[p], NEW t,
             t = IF Me \in Parties(calls[q]) THEN ConnectPackets(q) ELSE <<>>,
             toMe' = toMe \o t
      PROVE  HubSays(t)
  <2> DEFINE c == Resumed(calls[q])
  <2>1. /\ q \in Refs /\ calls[q].state = "held" /\ calls' = [calls EXCEPT ![q] = c]
        /\ live' = live /\ nextRef' = nextRef
    BY <1>2, FocusTyped DEF Resume, InState
  <2>2. c.state = "connected" /\ Parties(c) = Parties(calls[q]) /\ ~Sounding(q)
    BY <2>1 DEF LinkInv, TypeOK, Call, Parties, Resumed, Sounding
  <2> HIDE DEF c
  <2>3. CASE Me \in Parties(calls[q])
    <3>1. \A r \in Refs : About(t, r, FALSE, FALSE /\ q = r, TRUE /\ q = r, TRUE /\ q = r)
      BY <1>2, <2>1, <2>3, Phrases DEF About
    <3> QED
      BY <1>2, <2>1, <2>2, <3>1, PhraseSays DEF Early
  <2>4. CASE Me \notin Parties(calls[q])
    <3>1. \A r \in Refs : About(t, r, FALSE, FALSE /\ q = r, FALSE /\ q = r, FALSE /\ q = r)
      BY <1>2, <2>1, <2>4, Phrases DEF About
    <3> QED
      BY <1>2, <2>1, <2>2, <2>4, <3>1, PhraseSays DEF Early
  <2> QED
    BY <2>3, <2>4
<1> QED
  BY <1>1, <1>2 DEF HubResume, Shows

LEMMA AckSays ==
  ASSUME LinkInv, NEW p \in Phones, HubAck(p)
  PROVE  \E t : HubSays(t)
<1>1. CASE UNCHANGED vars /\ Unshown
  BY <1>1, SilenceSays DEF vars, Unshown
<1>2. ASSUME MediaAck(p), NEW q, q = active[p], NEW t,
             t = IF MediaReady(calls'[q], p) /\ Me \in Parties(calls[q])
                 THEN <<Tell("StartMediaTransmission", q)>> ELSE <<>>,
             toMe' = toMe \o t
      PROVE  HubSays(t)
  <2>1. /\ q \in Refs /\ calls[q].state = "connected" /\ calls \in [Refs -> Call]
        /\ live' = live /\ nextRef' = nextRef
    BY <1>2, FocusTyped DEF MediaAck, InState, LinkInv, TypeOK
  <2>2. PICK c : calls' = [calls EXCEPT ![q] = c]
               /\ c.state = "connected" /\ Parties(c) = Parties(calls[q])
               /\ p \in c.ports
    <3> DEFINE b  == [calls[q] EXCEPT !.ports = @ \cup {p}]
               mr == MediaHub /\ MediaReady(b, p)
               c  == [b EXCEPT !.menu = @ \/ (b.ivr /\ mr)]
    <3>1. calls' = [calls EXCEPT ![q] = c]
      BY <1>2 DEF MediaAck
    <3> HIDE DEF mr
    <3>2. c.state = "connected" /\ Parties(c) = Parties(calls[q]) /\ p \in c.ports
      BY <2>1 DEF Call, Parties
    <3> QED
      BY <3>1, <3>2
  <2>3. calls'[q] = c /\ (Sounding(q)' <=> Me \in Parties(calls[q]))
    BY <2>1, <2>2 DEF Sounding
  <2>4. CASE t = <<>>
    <3>1. \A r \in Refs : About(t, r, FALSE, FALSE /\ q = r, FALSE /\ q = r, FALSE /\ q = r)
      BY <2>1, <2>4, Phrases DEF About
    <3> QED
      BY <1>2, <2>1, <2>2, <2>3, <3>1, PhraseSays DEF Early, Sounding
  <2>5. CASE t = <<Tell("StartMediaTransmission", q)>> /\ Me \in Parties(calls[q])
    <3> DEFINE m == Tell("StartMediaTransmission", q)
    <3>1. ASSUME NEW r \in Refs
          PROVE  /\ m \in Packets
                 /\ m \in Starts(r) <=> q = r
                 /\ m \in Connects(r) <=> q = r
                 /\ m \in Lists(r) <=> q = r
                 /\ m \notin Dialings(r) /\ m \notin Alerts(r) /\ m \notin OnHooks(r)
                 /\ m \notin Names(r)
      <4>1. q \in Refs \cup {NoCall} /\ q # NoCall /\ "StartMediaTransmission" \in Told
        BY <2>1, HubAssumption DEF Told, Refs
      <4> QED
        BY <4>1, TellKinds
    <3> HIDE DEF m
    <3>2. SaysOf(t, q)
      <4>1. /\ ~Has(t, Dialings(q)) /\ ~Has(t, Alerts(q)) /\ ~Has(t, OnHooks(q))
            /\ Has(t, Starts(q))
        BY <2>1, <2>5, <3>1, OneMessage DEF m
      <4>2. NoneBefore(t, Lists(q), Dialings(q)) /\ NoneBefore(t, Connects(q), Alerts(q))
        BY <4>1, Absent
      <4>3. ~(q >= nextRef) /\ ~(q >= nextRef')
        BY <2>1, IsAllocated
      <4>4. calls'[q].state = "connected" /\ Parties(calls'[q]) = Parties(calls[q])
        BY <2>2, <2>3
      <4> QED
        BY <2>1, <2>3, <2>5, <4>1, <4>2, <4>3, <4>4 DEF SaysOf, Early
    <3>3. \A r \in Refs \ {q} : About(t, r, FALSE, FALSE, FALSE, FALSE)
      <4> SUFFICES ASSUME NEW r \in Refs, r # q PROVE About(t, r, FALSE, FALSE, FALSE, FALSE)
        OBVIOUS
      <4>1. \A P : Has(t, P) <=> m \in P
        BY <2>5, OneMessage DEF m
      <4>2. t \in Seq(Packets)
        BY <2>5, <3>1 DEF m
      <4> QED
        BY <3>1, <4>1, <4>2 DEF About
    <3>4. t \in Seq(Packets)
      BY <2>1, <2>5, <3>1 DEF m
    <3> QED
      BY <1>2, <2>1, <2>2, <3>2, <3>3, <3>4, SaysOfOne
  <2> QED
    BY <1>2, <2>4, <2>5
<1> QED
  BY <1>1, <1>2 DEF HubAck, Shows

(* What Me is told when call q ends: first that its media stops, if it has  *)
(* any, then that q is on hook, then what its focus call shows.             *)
LEMMA Farewell ==
  ASSUME LinkInv, NEW q \in Refs, NEW t, t = EndPackets(Me, q)
  PROVE  /\ t \in Seq(Packets)
         /\ calls[q].ports # {} => ComesFirst(t, Clears, OnHooks(q))
         /\ \A r \in Refs :
              /\ ~Has(t, Dialings(r)) /\ ~Has(t, Starts(r))
              /\ Has(t, OnHooks(r)) => r = q
              /\ Has(t, Alerts(r)) => r # q /\ calls[r].state = "ringing"
              /\ Has(t, Connects(r)) => r # q /\ calls[r].state = "connected"
              /\ Has(t, Lists(r)) => r \in live
<1> DEFINE stop == Tell("StopMediaTransmission", q)
           close == Tell("CloseReceiveChannel", q)
           a == IF calls[q].ports = {} THEN <<>> ELSE <<stop, close>>
           b == State("onhook", q)
           none == Tell("SelectSoftKeys", NoCall)
           f == Focus(OtherCalls(Me, q))
           c == IF OtherCalls(Me, q) = {} THEN <<none>> ELSE FocusPackets(Me, f)
<1>1. t = (a \o <<b>>) \o c
  BY DEF EndPackets
<1>2. ASSUME NEW r \in Refs
      PROVE  /\ stop \in Packets /\ close \in Packets /\ none \in Packets /\ stop \in Clears
             /\ \A m \in {stop, close, none} :
                  /\ m \notin Dialings(r) /\ m \notin Alerts(r) /\ m \notin OnHooks(r)
                  /\ m \notin Starts(r) /\ m \notin Connects(r) /\ m \notin Lists(r)
  <2>1. /\ {"StopMediaTransmission", "CloseReceiveChannel", "SelectSoftKeys"} \subseteq Told
        /\ q # NoCall
    BY HubAssumption DEF Told, Refs
  <2> QED
    BY <2>1, TellKinds
<1>3. ASSUME NEW r \in Refs
      PROVE  /\ b \in Packets
             /\ b \notin Dialings(r) /\ b \notin Alerts(r) /\ b \notin Starts(r)
             /\ b \notin Connects(r) /\ b \notin Lists(r)
             /\ b \in OnHooks(r) => r = q
  BY StateKinds DEF CallStates
<1>4. OtherCalls(Me, q) # {} => f \in live \ {q} /\ f \in Refs
  <2>1. OtherCalls(Me, q) \in SUBSET Refs /\ OtherCalls(Me, q) \subseteq live \ {q} /\ TypeOK
    BY DEF OtherCalls, CallsOf, LinkInv, TypeOK
  <2> QED
    BY <2>1, FocusIsOneOf
<1> HIDE DEF stop, close, b, none, f
<1>5. ASSUME NEW r \in Refs
      PROVE  /\ a \in Seq(Packets)
             /\ ~Has(a, Dialings(r)) /\ ~Has(a, Starts(r)) /\ ~Has(a, OnHooks(r))
             /\ ~Has(a, Alerts(r)) /\ ~Has(a, Connects(r)) /\ ~Has(a, Lists(r))
  <2>1. CASE a = <<>>
    BY <2>1, Nothing
  <2>2. CASE a = <<stop, close>>
    BY <2>2, <1>2, TwoMessages
  <2> QED
    BY <2>1, <2>2
<1>6. ASSUME NEW r \in Refs
      PROVE  /\ c \in Seq(Packets)
             /\ ~Has(c, Dialings(r)) /\ ~Has(c, Starts(r)) /\ ~Has(c, OnHooks(r))
             /\ Has(c, Alerts(r)) => r # q /\ calls[r].state = "ringing"
             /\ Has(c, Connects(r)) => r # q /\ calls[r].state = "connected"
             /\ Has(c, Lists(r)) => r \in live
  <2>1. CASE OtherCalls(Me, q) = {}
    <3>1. c = <<none>> /\ none \in Packets
      BY <1>2, <2>1
    <3>2. \A P : Has(c, P) <=> none \in P
      BY <3>1, OneMessage
    <3>3. /\ none \notin Dialings(r) /\ none \notin Alerts(r) /\ none \notin OnHooks(r)
          /\ none \notin Starts(r) /\ none \notin Connects(r) /\ none \notin Lists(r)
      BY <1>2
    <3> HIDE DEF c
    <3> QED
      BY <3>1, <3>2, <3>3
  <2>2. CASE OtherCalls(Me, q) # {}
    BY <2>2, <1>4, FocusSays DEF LinkInv
  <2> QED
    BY <2>1, <2>2
<1>7. a \in Seq(Packets) /\ <<b>> \in Seq(Packets) /\ c \in Seq(Packets)
  BY <1>3, <1>5, <1>6
<1>8. calls[q].ports # {} => ComesFirst(a, Clears, OnHooks(q))
  <2> SUFFICES ASSUME a = <<stop, close>> PROVE ComesFirst(a, Clears, OnHooks(q))
    OBVIOUS
  <2>1. Len(a) = 2 /\ a[1] = stop /\ 1 \in 1..2 /\ 1..(1 - 1) = {}
    OBVIOUS
  <2> QED
    BY <2>1, <1>2 DEF ComesFirst
<1> HIDE DEF a, c
<1>9. /\ a \o <<b>> \in Seq(Packets) /\ t \in Seq(Packets)
      /\ \A P : Has(t, P) <=> Has(a, P) \/ b \in P \/ Has(c, P)
  <2> DEFINE ab == a \o <<b>>
  <2>1. ab \in Seq(Packets)
    BY <1>7, ConcatFacts
  <2>2. \A P : Has(ab, P) <=> Has(a, P) \/ b \in P
    BY <1>7, HasConcat, OneMessage
  <2>3. t = ab \o c
    BY <1>1
  <2> HIDE DEF ab
  <2>4. t \in Seq(Packets)
    BY <1>7, <2>1, <2>3, ConcatFacts
  <2>5. \A P : Has(t, P) <=> Has(ab, P) \/ Has(c, P)
    BY <1>7, <2>1, <2>3, HasConcat
  <2>6. \A P : Has(t, P) <=> Has(a, P) \/ b \in P \/ Has(c, P)
    BY <2>2, <2>5
  <2> QED
    BY <2>1, <2>4, <2>6 DEF ab
<1>10. calls[q].ports # {} => ComesFirst(t, Clears, OnHooks(q))
  BY <1>1, <1>7, <1>8, <1>9, ComesFirstConcat
<1>11. ASSUME NEW r \in Refs
       PROVE  /\ ~Has(t, Dialings(r)) /\ ~Has(t, Starts(r))
              /\ Has(t, OnHooks(r)) => r = q
              /\ Has(t, Alerts(r)) => r # q /\ calls[r].state = "ringing"
              /\ Has(t, Connects(r)) => r # q /\ calls[r].state = "connected"
              /\ Has(t, Lists(r)) => r \in live
  BY <1>3, <1>5, <1>6, <1>9
<1> QED
  BY <1>9, <1>10, <1>11

LEMMA EndSays ==
  ASSUME LinkInv, NEW p \in Phones, HubEnds(p)
  PROVE  \E t : HubSays(t)
<1>1. CASE UNCHANGED vars /\ Unshown
  BY <1>1, SilenceSays DEF vars, Unshown
<1>2. ASSUME HangUp(p), NEW q, q = active[p], NEW t,
             t = IF Me \in Cleared(q) THEN EndPackets(Me, q) ELSE <<>>,
             toMe' = toMe \o t
      PROVE  HubSays(t)
  <2>1. /\ q \in live /\ q \in Refs /\ calls \in [Refs -> Call]
        /\ calls' = [calls EXCEPT ![q].state = "ended"]
        /\ live' = live \ {q} /\ nextRef' = nextRef
    BY <1>2, FocusTyped DEF HangUp, EndCall, LinkInv, TypeOK
  <2>2. /\ calls'[q].state = "ended" /\ Parties(calls'[q]) = Parties(calls[q])
        /\ \A r \in Refs \ {q} : calls'[r] = calls[r]
    BY <2>1 DEF Call, Parties
  <2>3. t \in Seq(Packets)
    BY <1>2, <2>1, Farewell, EmptySeq
  <2>4. ASSUME NEW r \in Refs
        PROVE  /\ ~Has(t, Dialings(r)) /\ ~Has(t, Starts(r))
               /\ Has(t, OnHooks(r)) => r = q /\ Me \in Parties(calls[q])
               /\ Has(t, Alerts(r)) => r # q /\ calls[r].state = "ringing"
               /\ Has(t, Connects(r)) => r # q /\ calls[r].state = "connected"
               /\ Has(t, Lists(r)) => r \in live
    BY <1>2, <2>1, Farewell, Nothing DEF Cleared
  <2>5. ASSUME NEW r \in Refs
        PROVE  NoneBefore(t, Lists(r), Dialings(r)) /\ NoneBefore(t, Connects(r), Alerts(r))
    <3>1. ~Has(t, Alerts(r)) \/ ~Has(t, Connects(r))
      BY <2>4
    <3>2. Len(t) \in Nat
      BY <2>3, LenProperties
    <3> QED
      BY <2>4, <3>1, <3>2, Absent
  <2>6. ASSUME NEW r \in Refs, Has(t, Lists(r)) \/ r = q PROVE ~(r >= nextRef')
    BY <2>1, <2>4, <2>6, IsAllocated
  <2>7. SaysOf(t, q)
    <3>1. Me \in Parties(calls[q]) \/ Preceded(t, Names(q), Starts(q) \cup OnHooks(q))
      <4>1. Me \notin Parties(calls[q]) => ~Has(t, Starts(q) \cup OnHooks(q))
        BY <1>2, Nothing DEF Cleared
      <4> QED
        BY <4>1, Absent
    <3>2. Sounding(q) => ComesFirst(t, Clears, OnHooks(q))
      BY <1>2, <2>1, Farewell DEF Sounding, Cleared
    <3>3. /\ ~Has(t, Dialings(q)) /\ ~Has(t, Starts(q)) /\ ~Has(t, Alerts(q))
          /\ ~(q >= nextRef') /\ calls'[q].state \notin Early
          /\ NoneBefore(t, Lists(q), Dialings(q)) /\ NoneBefore(t, Connects(q), Alerts(q))
      BY <2>1, <2>2, <2>4, <2>5, <2>6 DEF Early
    <3> QED
      BY <2>2, <3>1, <3>2, <3>3 DEF SaysOf
  <2>8. ASSUME NEW r \in Refs, r # q PROVE SaysOf(t, r)
    <3>1. InOrder(r) /\ Unheard(r)
      BY DEF LinkInv, CallInv
    <3>2. Preceded(t, Names(r), Starts(r) \cup OnHooks(r))
      <4>1. ~Has(t, Starts(r) \cup OnHooks(r))
        BY <2>4, <2>8 DEF Has
      <4> QED
        BY <4>1, Absent
    <3>3. (Sounding(r)' <=> Sounding(r)) /\ calls'[r] = calls[r] /\ (r \in live' <=> r \in live)
      BY <2>1, <2>2, <2>8 DEF Sounding
    <3> QED
      BY <2>1, <2>4, <2>5, <2>6, <2>8, <3>1, <3>2, <3>3 DEF SaysOf, Early, Unheard
  <2> QED
    BY <1>2, <2>3, <2>7, <2>8 DEF HubSays
<1> QED
  BY <1>1, <1>2 DEF HubEnds, Shows

-----------------------------------------------------------------------------
(* Every step of the link *)

(* A step of the hub for phone p: what a message of p, or p itself, asks.   *)
HubActs(p) ==
  \/ HubNewCall(p) \/ (\E d \in Phones : HubDigit(p, d)) \/ HubAnswer(p)
  \/ HubHold(p) \/ HubResume(p) \/ HubAck(p) \/ HubEnds(p)

LEMMA ActsAreSteps ==
  ASSUME NEW p \in Phones, HubActs(p)
  PROVE  [Next]_vars
<1>1. \/ UNCHANGED vars
      \/ NewCall(p) \/ Answer(p) \/ Hold(p) \/ Resume(p) \/ MediaAck(p) \/ HangUp(p)
      \/ \E d \in Digits : DialDigit(p, d)
  BY DEF HubActs, HubNewCall, HubDigit, HubAnswer, HubHold, HubResume, HubAck, HubEnds, Digits
<1> QED
  BY <1>1 DEF Next, PhoneStep

LEMMA ActKeeps ==
  ASSUME LinkInv, NEW p \in Phones, HubActs(p), UNCHANGED phone, up' \in Seq(Asked)
  PROVE  LinkInv'
<1>1. TypeOK'
  BY ActsAreSteps, TypePreserved DEF LinkInv
<1>2. PICK t : HubSays(t)
  BY NewCallSays, DigitSays, AnswerSays, HoldSays, ResumeSays, AckSays, EndSays DEF HubActs
<1> QED
  BY <1>1, <1>2, HubKeeps

LEMMA HandlesActs ==
  ASSUME LinkInv, HubHandles
  PROVE  HubActs(Me) /\ up' \in Seq(Asked)
<1>1. up # <<>> /\ up \in Seq(Asked) /\ up' = Tail(up)
  BY DEF HubHandles, LinkInv, StreamTypes
<1>2. Head(up) \in Asked /\ Tail(up) \in Seq(Asked)
  BY <1>1, TailFacts
<1>3. Head(up).key = "Digit" => Head(up).digit \in Phones
  BY <1>2 DEF Asked
<1> QED
  BY <1>1, <1>2, <1>3 DEF HubHandles, HubActs

LEMMA OthersAct ==
  ASSUME NEW p \in Phones \ {Me}, OthersStep(p)
  PROVE  HubActs(p) /\ UNCHANGED <<phone, up>>
BY LinkAssumption DEF OthersStep, HubActs

LEMMA InitLink == LinkInit => LinkInv
<1> SUFFICES ASSUME LinkInit PROVE LinkInv
  OBVIOUS
<1>1. TypeOK /\ up \in Seq(Asked) /\ toMe \in Seq(Packets)
  BY InitTyped, EmptySeq DEF LinkInit
<1>2. phone \in Phone /\ FlagsAgree(phone) /\ MediaAgrees(phone) /\ ~phone.media
      /\ Elements(phone.act) = {} /\ \A r \in Refs : phone.st[r] = "none"
  <2>1. Elements(<<>>) = {}
    BY ElementsFacts, EmptySeq
  <2>2. NewPhone \in Phone
    BY EmptySeq DEF NewPhone, Phone, CallStates
  <2>3. phone = NewPhone
    BY DEF LinkInit
  <2> QED
    BY <2>1, <2>2, <2>3 DEF NewPhone, FlagsAgree, MediaAgrees, AnyConnected
<1>3. \A P : ~Has(toMe, P)
  BY Nothing DEF LinkInit
<1>4. ASSUME NEW r \in Refs PROVE InOrder(r) /\ Unheard(r) /\ IsKnown(r) /\ StartsEnd(r)
  <2>1. /\ calls[r].state = "idle" /\ Me \notin Parties(calls[r]) /\ live = {}
    BY LinkAssumption, HubAssumption DEF LinkInit, Init, NewCallBy, Parties
  <2>2. \A P, Q : Preceded(toMe, P, Q) /\ NoneBefore(toMe, P, Q)
    BY <1>3, Absent
  <2>3. Followed(toMe, Starts(r), Clears, OnHooks(r))
    BY <1>3 DEF Followed, Has
  <2> QED
    BY <1>2, <1>3, <2>1, <2>2, <2>3 DEF InOrder, Unheard, IsKnown, StartsEnd
<1> QED
  BY <1>1, <1>2, <1>4, AgreeIs DEF LinkInv, StreamTypes, CallInv, MediaInv

LEMMA LinkPreserved == LinkInv /\ [LinkNext]_linkVars => LinkInv' /\ [Next]_vars
<1> SUFFICES ASSUME LinkInv, [LinkNext]_linkVars PROVE LinkInv' /\ [Next]_vars
  OBVIOUS
<1>1. CASE HubHandles
  <2>1. UNCHANGED phone /\ Me \in Phones
    BY <1>1, LinkAssumption DEF HubHandles
  <2> QED
    BY <1>1, <2>1, HandlesActs, ActKeeps, ActsAreSteps
<1>2. CASE Receive
  BY <1>2, ReceiveKeeps DEF Receive
<1>3. ASSUME NEW key \in Keys, Press(key) PROVE LinkInv' /\ [Next]_vars
  BY <1>3, PressKeeps DEF Press
<1>4. ASSUME NEW d \in Phones \ {Me}, Dial(d) PROVE LinkInv' /\ [Next]_vars
  BY <1>4, DialKeeps DEF Dial
<1>5. ASSUME NEW p \in Phones \ {Me}, OthersStep(p) PROVE LinkInv' /\ [Next]_vars
  <2>1. HubActs(p) /\ UNCHANGED phone /\ up' \in Seq(Asked)
    BY <1>5, OthersAct DEF LinkInv, StreamTypes
  <2> QED
    BY <2>1, ActKeeps, ActsAreSteps
<1>6. CASE UNCHANGED linkVars
  <2>1. UNCHANGED <<calls, live, nextRef, toMe, phone, up>> /\ UNCHANGED vars
    BY <1>6 DEF linkVars, vars
  <2>2. TypeOK' /\ up' \in Seq(Asked)
    BY <2>1, TypePreserved DEF LinkInv, StreamTypes
  <2> QED
    BY <2>1, <2>2, SilenceSays, HubKeeps
<1> QED
  BY <1>1, <1>2, <1>3, <1>4, <1>5, <1>6 DEF LinkNext

LEMMA LinkHolds == LinkSpec => []LinkInv
BY InitLink, LinkPreserved, PTL DEF LinkSpec

-----------------------------------------------------------------------------
(* Theorems *)

(* The composition of a client, two streams and the hub is a CallHub:       *)
(* whatever the client sends, and however late it is handled, the hub takes *)
(* steps of Next only (session.handle), so every safety theorem about the   *)
(* hub holds with a real client on the line.                                *)
THEOREM LinkRefinesHub == LinkSpec => Spec
<1>1. LinkInit => Init
  BY DEF LinkInit
<1> QED
  BY <1>1, LinkHolds, LinkPreserved, PTL DEF LinkSpec, Spec

(* The phone is never of two minds: its flags and events agree with its own *)
(* call table, and its recorder with its media, for any number of calls and *)
(* of messages under way (call_management.py, _teardown_local_media).       *)
THEOREM ClientStaysConsistent == LinkSpec => []ClientConsistent
<1>1. LinkInv => ClientConsistent
  <2> SUFFICES ASSUME LinkInv PROVE LinkTypeOK
    BY DEF LinkInv, ClientConsistent
  <2>1. phone \in Phone /\ up \in Seq(Asked) /\ toMe \in Seq(Packets)
    BY DEF LinkInv, StreamTypes
  <2>2. up \in Seq(Pending)
    BY <2>1 DEF Asked
  <2>3. \A i \in 1..Len(toMe) : toMe[i] \in Packets
    BY <2>1, ElementOfSeq
  <2> QED
    BY <2>1, <2>2, <2>3 DEF LinkTypeOK, Packets
<1> QED
  BY <1>1, LinkHolds, PTL
=============================================================================
