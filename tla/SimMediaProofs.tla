--------------------------- MODULE SimMediaProofs ---------------------------
(***************************************************************************)
(* Proofs about SimMedia for any set of calls, any settings of the hub and *)
(* any number of endpoints: who has an endpoint of a call, who hears whom, *)
(* and which endpoints a call leaves behind; and about IvrScript for any   *)
(* keys and any number of presses: what its menu makes of them.            *)
(***************************************************************************)
EXTENDS SimMedia, FiniteSetTheorems, SequenceTheorems, TLAPS

-----------------------------------------------------------------------------
(* The inductive invariant *)

Leg == [party : Phones, call : Calls, run : BOOLEAN, src : Echoes, echo : Echoes,
        arms : BOOLEAN]
Thread == [pc : {"idle", "booked", "starting"}, call : Calls \cup {NoCall},
           todo : Seq(Phones), mine : Seq(Nat)]

(* The endpoints a handler has started and not stored yet. *)
Mine(p) == {thread[p].mine[k] : k \in 1..Len(thread[p].mine)}

(* A handler that starts endpoints starts two or three. *)
Typed ==
  /\ setting \in Setting
  /\ state \in [Calls -> {"none", "connected", "held", "ended"}]
  /\ three \in [Calls -> BOOLEAN]
  /\ ports \in [Calls -> SUBSET Phones]
  /\ acks \in [Phones -> [Calls -> Nat]]
  /\ sessions \in [Calls -> SUBSET Legs]
  /\ legs \in Seq(Leg) /\ Len(legs) <= MaxLegs
  /\ thread \in [Phones -> Thread]
  /\ \A p \in Phones :
       /\ thread[p].pc # "idle" => thread[p].call \in Calls
       /\ Mine(p) \subseteq Legs
       /\ thread[p].pc = "starting" =>
            Len(thread[p].mine) + Len(thread[p].todo) \in {2, 3}
       /\ thread[p].pc # "starting" => thread[p].mine = <<>>

(* No endpoint is stored twice, or stored while its handler still holds it. *)
Apart ==
  /\ \A p \in Phones, c \in Calls : Mine(p) \cap sessions[c] = {}
  /\ \A p, q \in Phones : p # q => Mine(p) \cap Mine(q) = {}
  /\ \A c, d \in Calls : c # d => sessions[c] \cap sessions[d] = {}

(* The members of a call stay the same while its endpoints are started. *)
Steady == Orderly \/ ~setting.confer

NoThirds == ~setting.confer => \A c \in Calls : ~three[c]
NoHolds == ~setting.hold => \A c \in Calls : state[c] # "held"
Unarmed == setting.mode = "bridge" => \A i \in Legs : ~legs[i].arms

(* A handler's endpoints are those of the first members of its call, those  *)
(* it has still to start are for the others.                                *)
HasTurn(t) ==
  LET m == Members(t.call) IN
  /\ Len(t.mine) + Len(t.todo) = Len(m)
  /\ \A k \in 1..Len(t.mine) : legs[t.mine[k]].party = m[k]
  /\ \A k \in 1..Len(t.todo) : t.todo[k] = m[Len(t.mine) + k]

InTurn ==
  Steady => \A p \in Phones : thread[p].pc = "starting" => HasTurn(thread[p])

(* The endpoints stored for a call are those of its members, in their       *)
(* order, and a bridge has wired them.                                      *)
AreFor(e, c) ==
  /\ sessions[c] = {e[k] : k \in 1..Len(Members(c))}
  /\ \A k \in 1..Len(Members(c)) : legs[e[k]].party = Members(c)[k]
  /\ setting.mode = "bridge" /\ ~three[c] =>
       /\ legs[e[1]].echo = <<e[1], e[2]>> /\ legs[e[1]].src = <<e[2], e[1]>>
       /\ legs[e[2]].echo = <<e[2], e[1]>> /\ legs[e[2]].src = <<e[1], e[2]>>

Matched ==
  Steady => \A c \in Calls : sessions[c] # {} =>
    \E e \in [1..Len(Members(c)) -> Legs] : AreFor(e, c)

(* In an orderly hub one handler runs at a time, ... *)
OneHandler ==
  Orderly => \A p, q \in Phones :
    p # q => thread[p].pc = "idle" \/ thread[q].pc = "idle"

(* ... each member of a call whose media is up owes the hub its ack once    *)
(* until it is booked, ...                                                  *)
AckedOnce ==
  Orderly => \A c \in Calls :
    /\ ports[c] \subseteq MembersOf(c)
    /\ state[c] \in {"none", "held"} => ~three[c]
    /\ state[c] = "none" => ports[c] = {}
    /\ \A p \in Phones :
         /\ acks[p][c] \in 0..1
         /\ state[c] # "ended" =>
              (acks[p][c] = 1 <=> state[c] = "connected" /\ p \in MembersOf(c) \ ports[c])

(* ... and a handler's call stays up until its endpoints are stored.        *)
HandlesLive ==
  Orderly => \A p \in Phones : thread[p].pc # "idle" =>
    /\ state[thread[p].call] = "connected" /\ p \in ports[thread[p].call]
    /\ thread[p].pc = "starting" => AllAcked(thread[p].call)

(* Without hold the acks of a call come once, so that endpoints are stored  *)
(* over nothing, and those that run are stored or about to be.              *)
NoneForgotten ==
  Orderly /\ ~setting.hold =>
    /\ \A c \in Calls : sessions[c] # {} => state[c] = "connected" /\ AllAcked(c)
    /\ \A p \in Phones : thread[p].pc # "idle" => sessions[thread[p].call] = {}
    /\ \A i \in Legs : legs[i].run =>
         /\ state[legs[i].call] = "connected"
         /\ \/ i \in sessions[legs[i].call]
            \/ \E p \in Phones : /\ thread[p].pc = "starting"
                                 /\ thread[p].call = legs[i].call /\ i \in Mine(p)

MediaInv ==
  /\ Typed /\ Apart /\ NoThirds /\ NoHolds /\ Unarmed /\ InTurn /\ Matched
  /\ OneHandler /\ AckedOnce /\ HandlesLive /\ NoneForgotten

-----------------------------------------------------------------------------
(* The data *)

LEMMA FunctionIsSeq ==
  ASSUME NEW S, NEW n \in Nat, NEW f \in [1..n -> S]
  PROVE  f \in Seq(S) /\ Len(f) = n
<1>1. f \in Seq(S)
  BY SeqDef
<1>2. Len(f) \in Nat /\ 1..Len(f) = 1..n
  BY <1>1, LenProperties
<1> QED
  BY <1>1, <1>2

(* A call has two members, a conference three. *)
LEMMA MembersAre ==
  ASSUME Typed, NEW c \in Calls
  PROVE  /\ Members(c) \in Seq(Phones)
         /\ Len(Members(c)) = IF three[c] THEN 3 ELSE 2
         /\ Members(c)[1] = Caller /\ Members(c)[2] = Callee
         /\ three[c] => Members(c)[3] = Third
         /\ MembersOf(c) = IF three[c] THEN Phones ELSE {Caller, Callee}
         /\ \A k, l \in 1..Len(Members(c)) : Members(c)[k] = Members(c)[l] => k = l
<1>1. CASE three[c]
  <2>1. /\ Members(c) = <<Caller, Callee, Third>> /\ Len(Members(c)) = 3
        /\ Members(c) \in Seq(Phones)
        /\ Members(c)[1] = Caller /\ Members(c)[2] = Callee /\ Members(c)[3] = Third
    BY <1>1 DEF Members, Phones
  <2>2. MembersOf(c) = Phones
    BY <2>1 DEF MembersOf, Phones
  <2> QED
    BY <1>1, <2>1, <2>2, MediaAssumption
<1>2. CASE ~three[c]
  <2>1. /\ Members(c) = <<Caller, Callee>> /\ Len(Members(c)) = 2
        /\ Members(c) \in Seq(Phones)
        /\ Members(c)[1] = Caller /\ Members(c)[2] = Callee
    BY <1>2 DEF Members, Phones
  <2>2. MembersOf(c) = {Caller, Callee}
    BY <2>1 DEF MembersOf
  <2> QED
    BY <1>2, <2>1, <2>2, MediaAssumption
<1> QED
  BY <1>1, <1>2 DEF Typed

(* The echo of a bridge leads from the other member of a pair. *)
LEMMA PairsAre ==
  ASSUME NEW e, Len(e) = 2
  PROVE  /\ BridgeEcho(e)[1] = <<e[1], e[2]>> /\ BridgeSource(e)[1] = <<e[2], e[1]>>
         /\ BridgeEcho(e)[2] = <<e[2], e[1]>> /\ BridgeSource(e)[2] = <<e[1], e[2]>>
BY DEF BridgeEcho, BridgeSource, LastOther

LEMMA LegsAre ==
  ASSUME Typed
  PROVE  /\ Len(legs) \in Nat /\ Legs = 1..Len(legs)
         /\ legs \in [Legs -> Leg] /\ \A i \in Legs : legs[i] \in Leg
BY LenProperties DEF Typed, Legs

(* stop_call leaves every endpoint where it is, and stops those of its call. *)
LEMMA Stopped ==
  ASSUME Typed, NEW c \in Calls, StopCall(c)
  PROVE  /\ legs' \in Seq(Leg) /\ Len(legs') = Len(legs) /\ Legs' = Legs
         /\ sessions' = [sessions EXCEPT ![c] = {}]
         /\ \A i \in Legs :
              /\ legs'[i].party = legs[i].party /\ legs'[i].call = legs[i].call
              /\ legs'[i].arms = legs[i].arms
              /\ legs'[i].run => legs[i].run
              /\ i \in sessions[c] => ~legs'[i].run
              /\ i \notin sessions[c] => legs'[i] = legs[i]
<1>1. legs' = [i \in Legs |-> IF i \in sessions[c]
                              THEN [legs[i] EXCEPT !.run = FALSE, !.echo = Silence]
                              ELSE legs[i]]
  BY DEF StopCall
<1>2. \A i \in Legs : legs'[i] \in Leg
  <2>1. Silence \in Echoes
    BY DEF Echoes
  <2>2. ASSUME NEW l \in Leg PROVE [l EXCEPT !.run = FALSE, !.echo = Silence] \in Leg
    BY <2>1 DEF Leg
  <2> QED
    BY <1>1, <2>2, LegsAre
<1>3. legs' \in [1..Len(legs) -> Leg]
  BY <1>1, <1>2, LegsAre
<1>4. legs' \in Seq(Leg) /\ Len(legs') = Len(legs)
  BY <1>3, LegsAre, FunctionIsSeq
<1>5. \A i \in Legs :
        /\ legs'[i].party = legs[i].party /\ legs'[i].call = legs[i].call
        /\ legs'[i].arms = legs[i].arms
        /\ legs'[i].run => legs[i].run
        /\ i \in sessions[c] => ~legs'[i].run
        /\ i \notin sessions[c] => legs'[i] = legs[i]
  BY <1>1, LegsAre DEF Leg
<1> QED
  BY <1>4, <1>5 DEF StopCall, Legs

(* One more endpoint leaves the others as they are. *)
LEMMA Started ==
  ASSUME Typed, NEW p \in Phones, StartLeg(p)
  PROVE  LET c == thread[p].call  n == Len(legs) + 1 IN
         /\ legs' \in Seq(Leg) /\ Len(legs') = n /\ n <= MaxLegs
         /\ Legs' = Legs \cup {n} /\ n \notin Legs
         /\ \A i \in Legs : legs'[i] = legs[i]
         /\ legs'[n].party = Head(thread[p].todo) /\ legs'[n].call = c
         /\ legs'[n].run /\ (legs'[n].arms => setting.mode = "loopback")
         /\ thread'[p].mine \in Seq(Nat) /\ Len(thread'[p].mine) = Len(thread[p].mine) + 1
         /\ \A k \in 1..Len(thread[p].mine) : thread'[p].mine[k] = thread[p].mine[k]
         /\ thread'[p].mine[Len(thread[p].mine) + 1] = n
         /\ Mine(p)' = Mine(p) \cup {n}
         /\ thread'[p].todo \in Seq(Phones)
         /\ Len(thread'[p].todo) = Len(thread[p].todo) - 1
         /\ \A k \in 1..Len(thread'[p].todo) : thread'[p].todo[k] = thread[p].todo[k + 1]
         /\ thread'[p].pc = "starting" /\ thread'[p].call = c
         /\ \A q \in Phones : q # p => thread'[q] = thread[q]
<1> DEFINE t == thread[p]  c == t.call  n == Len(legs) + 1
           x == [party |-> Head(t.todo), call |-> c, run |-> TRUE,
                 src |-> FirstSource(c, n), echo |-> Silence,
                 arms |-> FirstSource(c, n) = <<n, n>>]
<1>1. /\ t.pc = "starting" /\ t.todo # <<>> /\ n <= MaxLegs
      /\ legs' = Append(legs, x)
      /\ thread' = [thread EXCEPT
           ![p] = [t EXCEPT !.todo = Tail(t.todo), !.mine = Append(t.mine, n)]]
  BY DEF StartLeg
<1>2. /\ t \in Thread /\ c \in Calls /\ legs \in Seq(Leg) /\ thread \in [Phones -> Thread]
  BY <1>1 DEF Typed
<1>3. /\ t.todo \in Seq(Phones) /\ t.mine \in Seq(Nat)
  BY <1>2 DEF Thread
<1>4. n \in 1..MaxLegs /\ n \in Nat /\ n \notin Legs /\ n # 0
  BY <1>1, LegsAre, MediaAssumption
<1>5. /\ Head(t.todo) \in Phones /\ Tail(t.todo) \in Seq(Phones)
      /\ Len(Tail(t.todo)) = Len(t.todo) - 1
      /\ \A k \in 1..Len(Tail(t.todo)) : Tail(t.todo)[k] = t.todo[k + 1]
  BY <1>1, <1>3, HeadTailProperties
<1>6. FirstSource(c, n) \in Echoes
  BY <1>4 DEF FirstSource, Echoes
<1>7. FirstSource(c, n) = <<n, n>> => setting.mode = "loopback"
  BY <1>4 DEF FirstSource, Tone, Silence
<1>8. x \in Leg
  BY <1>2, <1>5, <1>6 DEF Leg, Echoes
<1>9. /\ legs' \in Seq(Leg) /\ Len(legs') = n /\ legs'[n] = x
      /\ \A i \in Legs : legs'[i] = legs[i]
  <2> HIDE DEF x
  <2> QED
    BY <1>1, <1>2, <1>8, AppendProperties DEF Legs
<1>10. Legs' = Legs \cup {n}
  BY <1>4, <1>9, LegsAre DEF Legs
<1>11. /\ Append(t.mine, n) \in Seq(Nat) /\ Len(Append(t.mine, n)) = Len(t.mine) + 1
       /\ \A k \in 1..Len(t.mine) : Append(t.mine, n)[k] = t.mine[k]
       /\ Append(t.mine, n)[Len(t.mine) + 1] = n /\ Len(t.mine) \in Nat
  BY <1>3, <1>4, AppendProperties, LenProperties
<1>12. /\ thread'[p].mine = Append(t.mine, n) /\ thread'[p].todo = Tail(t.todo)
       /\ thread'[p].pc = "starting" /\ thread'[p].call = c
       /\ \A q \in Phones : q # p => thread'[q] = thread[q]
  BY <1>1, <1>2 DEF Thread
<1>13. Mine(p)' = Mine(p) \cup {n}
  BY <1>11, <1>12 DEF Mine
<1>14. /\ x.party = Head(t.todo) /\ x.call = c
       /\ x.run /\ (x.arms => setting.mode = "loopback")
  BY <1>7
<1>15. /\ legs'[n].party = Head(t.todo) /\ legs'[n].call = c
       /\ legs'[n].run /\ (legs'[n].arms => setting.mode = "loopback")
  <2> HIDE DEF x
  <2> QED
    BY <1>9, <1>14
<1> HIDE DEF x
<1> QED
  <2>1. /\ legs' \in Seq(Leg) /\ Len(legs') = n /\ n <= MaxLegs
        /\ Legs' = Legs \cup {n} /\ n \notin Legs
        /\ \A i \in Legs : legs'[i] = legs[i]
    BY <1>1, <1>4, <1>9, <1>10
  <2>2. /\ thread'[p].mine \in Seq(Nat) /\ Len(thread'[p].mine) = Len(t.mine) + 1
        /\ \A k \in 1..Len(t.mine) : thread'[p].mine[k] = t.mine[k]
        /\ thread'[p].mine[Len(t.mine) + 1] = n
    BY <1>11, <1>12
  <2>3. /\ thread'[p].todo \in Seq(Phones) /\ Len(thread'[p].todo) = Len(t.todo) - 1
        /\ \A k \in 1..Len(thread'[p].todo) : thread'[p].todo[k] = t.todo[k + 1]
    BY <1>5, <1>12
  <2> QED
    BY <1>12, <1>13, <1>15, <2>1, <2>2, <2>3

(* Storing a handler's endpoints wires them, and only them. *)
LEMMA StoredNow ==
  ASSUME Typed, NEW p \in Phones, Store(p)
  PROVE  LET c == thread[p].call  e == thread[p].mine IN
         /\ thread[p].pc = "starting" /\ thread[p].todo = <<>> /\ c \in Calls
         /\ Len(e) \in {2, 3} /\ Mine(p) = {e[k] : k \in 1..Len(e)} /\ Mine(p) \subseteq Legs
         /\ legs' \in Seq(Leg) /\ Len(legs') = Len(legs) /\ Legs' = Legs
         /\ \A i \in Legs :
              /\ legs'[i].party = legs[i].party /\ legs'[i].call = legs[i].call
              /\ legs'[i].arms = legs[i].arms /\ legs'[i].run = legs[i].run
              /\ i \notin Mine(p) => legs'[i] = legs[i]
         /\ (\A k, l \in 1..Len(e) : e[k] = e[l] => k = l) /\ setting.mode = "bridge" =>
              \A k \in 1..Len(e) : /\ legs'[e[k]].echo = BridgeEcho(e)[k]
                                   /\ legs'[e[k]].src = BridgeSource(e)[k]
         /\ sessions' = [sessions EXCEPT ![c] = Mine(p)]
         /\ thread' = [thread EXCEPT ![p] = Idle]
<1> DEFINE c == thread[p].call  e == thread[p].mine  D == 1..Len(e)
           At(i) == CHOOSE k \in D : e[k] = i
           w(i) == [legs[i] EXCEPT !.echo = BridgeEcho(e)[At(i)], !.src = BridgeSource(e)[At(i)]]
           on(i) == setting.mode = "bridge" /\ i \in Mine(p)
<1>1. /\ thread[p].pc = "starting" /\ thread[p].todo = <<>>
      /\ legs' = Wired(e) /\ sessions' = Stored(c, e)
      /\ thread' = [thread EXCEPT ![p] = Idle]
  BY DEF Store
<1>2. thread[p] \in Thread /\ c \in Calls /\ Len(thread[p].todo) = 0
  BY <1>1, EmptySeq DEF Typed
<1>3. e \in Seq(Nat) /\ Len(e) \in Nat
  BY <1>2, LenProperties DEF Thread
<1>4. Len(e) \in {2, 3} /\ Mine(p) = {e[k] : k \in D} /\ Mine(p) \subseteq Legs
  <2>1. Mine(p) = {e[k] : k \in D}
    BY DEF Mine
  <2>2. Mine(p) \subseteq Legs /\ Len(e) + Len(thread[p].todo) \in {2, 3}
    BY <1>1 DEF Typed
  <2> HIDE DEF e
  <2> QED
    BY <1>2, <1>3, <2>1, <2>2
<1> HIDE DEF e
<1>5. ASSUME NEW k \in D
      PROVE  /\ e[k] \in 1..MaxLegs /\ LastOther(e, k) \in D
             /\ BridgeEcho(e)[k] = <<e[k], e[LastOther(e, k)]>>
             /\ BridgeSource(e)[k] = <<e[LastOther(e, k)], e[k]>>
  <2>1. e[k] \in 1..MaxLegs
    <3>1. Len(legs) <= MaxLegs /\ MaxLegs \in Nat
      BY MediaAssumption DEF Typed
    <3>2. e[k] \in Legs
      BY <1>4
    <3> QED
      BY <3>1, <3>2, LegsAre
  <2>2. LastOther(e, k) \in D
    BY <1>4 DEF LastOther
  <2> QED
    BY <2>1, <2>2 DEF BridgeEcho, BridgeSource
<1>6. ASSUME NEW k \in D
      PROVE  BridgeEcho(e)[k] \in Echoes /\ BridgeSource(e)[k] \in Echoes
  <2> DEFINE o == e[LastOther(e, k)]
  <2>1. /\ e[k] \in 1..MaxLegs /\ o \in 1..MaxLegs
        /\ BridgeEcho(e)[k] = <<e[k], o>> /\ BridgeSource(e)[k] = <<o, e[k]>>
    BY <1>5
  <2>2. \A i, j \in 1..MaxLegs : <<i, j>> \in Echoes
    BY DEF Echoes
  <2> QED
    BY <2>1, <2>2
<1>7. legs' = [i \in Legs |-> IF on(i) THEN w(i) ELSE legs[i]]
  BY <1>1, <1>4 DEF Wired
<1>8. ASSUME NEW i \in Mine(p)
      PROVE  At(i) \in D /\ e[At(i)] = i
  BY <1>4
<1> HIDE DEF At
<1>9. ASSUME NEW i \in Legs
      PROVE  /\ legs'[i] \in Leg
             /\ legs'[i].party = legs[i].party /\ legs'[i].call = legs[i].call
             /\ legs'[i].arms = legs[i].arms /\ legs'[i].run = legs[i].run
             /\ ~on(i) => legs'[i] = legs[i]
             /\ on(i) => /\ legs'[i].echo = BridgeEcho(e)[At(i)]
                         /\ legs'[i].src = BridgeSource(e)[At(i)]
  <2> DEFINE x == BridgeEcho(e)[At(i)]  y == BridgeSource(e)[At(i)]
  <2>1. on(i) => x \in Echoes /\ y \in Echoes
    BY <1>6, <1>8
  <2>2. legs[i] \in Leg
    BY LegsAre
  <2>3. legs'[i] = IF on(i) THEN [legs[i] EXCEPT !.echo = x, !.src = y] ELSE legs[i]
    BY <1>7
  <2> HIDE DEF x, y, on
  <2>4. /\ legs'[i] \in Leg
        /\ legs'[i].party = legs[i].party /\ legs'[i].call = legs[i].call
        /\ legs'[i].arms = legs[i].arms /\ legs'[i].run = legs[i].run
        /\ on(i) => legs'[i].echo = x /\ legs'[i].src = y
    BY <2>1, <2>2, <2>3 DEF Leg
  <2> QED
    BY <2>3, <2>4 DEF x, y
<1>10. legs' \in [1..Len(legs) -> Leg]
  BY <1>7, <1>9, LegsAre
<1>11. legs' \in Seq(Leg) /\ Len(legs') = Len(legs)
  BY <1>10, LegsAre, FunctionIsSeq
<1>12. Legs' = Legs
  BY <1>11 DEF Legs
<1>13. ASSUME \A k, l \in D : e[k] = e[l] => k = l, setting.mode = "bridge", NEW k \in D
       PROVE  legs'[e[k]].echo = BridgeEcho(e)[k] /\ legs'[e[k]].src = BridgeSource(e)[k]
  <2>1. e[k] \in Mine(p) /\ e[k] \in Legs /\ on(e[k])
    BY <1>4, <1>13
  <2>2. At(e[k]) = k
    BY <1>8, <1>13, <2>1
  <2> QED
    BY <1>9, <2>1, <2>2
<1>14. sessions' = [sessions EXCEPT ![c] = Mine(p)]
  BY <1>1, <1>4 DEF Stored
<1>15. \A i \in Legs :
         /\ legs'[i].party = legs[i].party /\ legs'[i].call = legs[i].call
         /\ legs'[i].arms = legs[i].arms /\ legs'[i].run = legs[i].run
         /\ i \notin Mine(p) => legs'[i] = legs[i]
  BY <1>9
<1> HIDE DEF w, on
<1>16. (\A k, l \in D : e[k] = e[l] => k = l) /\ setting.mode = "bridge" =>
         \A k \in D : legs'[e[k]].echo = BridgeEcho(e)[k] /\ legs'[e[k]].src = BridgeSource(e)[k]
  BY <1>13
<1> QED
  BY <1>1, <1>2, <1>4, <1>11, <1>12, <1>14, <1>15, <1>16 DEF e

(* on_media_ack and the start of start_call. *)
LEMMA Booked ==
  ASSUME Typed, NEW p \in Phones, NEW c \in Calls, Ack(p, c)
  PROVE  /\ acks[p][c] > 0 /\ thread[p].pc = "idle"
         /\ acks' = [acks EXCEPT ![p][c] = @ - 1]
         /\ Mine(p) = {} /\ Mine(p)' = {}
         /\ \A q \in Phones : q # p => thread'[q] = thread[q] /\ Mine(q)' = Mine(q)
         /\ thread' \in [Phones -> Thread] /\ thread'[p].mine = <<>>
         /\ \/ /\ state[c] = "connected" /\ ports' = [ports EXCEPT ![c] = @ \cup {p}]
               /\ thread'[p].pc = "booked" /\ thread'[p].call = c
            \/ /\ state[c] # "connected" /\ ports' = ports /\ thread' = thread
<1>1. /\ thread \in [Phones -> Thread] /\ thread[p].pc = "idle" /\ thread[p].mine = <<>>
  BY DEF Ack, Typed
<1>2. [Idle EXCEPT !.pc = "booked", !.call = c] \in Thread
  BY EmptySeq DEF Idle, Thread
<1>3. /\ thread' \in [Phones -> Thread] /\ thread'[p].mine = <<>>
      /\ \A q \in Phones : q # p => thread'[q] = thread[q]
      /\ \/ /\ state[c] = "connected" /\ ports' = [ports EXCEPT ![c] = @ \cup {p}]
            /\ thread'[p].pc = "booked" /\ thread'[p].call = c
         \/ /\ state[c] # "connected" /\ ports' = ports /\ thread' = thread
  BY <1>1, <1>2 DEF Ack, Idle
<1>4. Mine(p) = {} /\ Mine(p)' = {}
  BY <1>1, <1>3, EmptySeq DEF Mine
<1>5. \A q \in Phones : q # p => Mine(q)' = Mine(q)
  BY <1>3 DEF Mine
<1> QED
  BY <1>1, <1>3, <1>4, <1>5 DEF Ack, AckTaken

LEMMA Begun ==
  ASSUME Typed, NEW p \in Phones, StartCall(p)
  PROVE  /\ thread[p].pc = "booked" /\ thread[p].call \in Calls
         /\ Mine(p) = {} /\ Mine(p)' = {}
         /\ \A q \in Phones : q # p => thread'[q] = thread[q] /\ Mine(q)' = Mine(q)
         /\ thread' \in [Phones -> Thread] /\ thread'[p].mine = <<>>
         /\ \/ /\ AllAcked(thread[p].call) /\ thread'[p].pc = "starting"
               /\ thread'[p].call = thread[p].call
               /\ thread'[p].todo = Members(thread[p].call)
            \/ ~AllAcked(thread[p].call) /\ thread'[p].pc = "idle"
<1> DEFINE c == thread[p].call
<1>1. /\ thread \in [Phones -> Thread] /\ thread[p].pc = "booked" /\ thread[p].mine = <<>>
      /\ c \in Calls
  BY DEF StartCall, Typed
<1>2. Members(c) \in Seq(Phones)
  BY <1>1, MembersAre
<1>3. Idle \in Thread /\ Idle.mine = <<>> /\ Idle.pc = "idle"
  BY EmptySeq DEF Idle, Thread
<1>4. [thread[p] EXCEPT !.pc = "starting", !.todo = Members(c)] \in Thread
  BY <1>1, <1>2 DEF Thread
<1>5. thread' = [thread EXCEPT ![p] =
        IF AllAcked(c) THEN [thread[p] EXCEPT !.pc = "starting", !.todo = Members(c)] ELSE Idle]
  BY DEF StartCall
<1>6. /\ thread' \in [Phones -> Thread] /\ thread'[p].mine = <<>>
      /\ \A q \in Phones : q # p => thread'[q] = thread[q]
      /\ \/ /\ AllAcked(c) /\ thread'[p].pc = "starting" /\ thread'[p].call = c
            /\ thread'[p].todo = Members(c)
         \/ ~AllAcked(c) /\ thread'[p].pc = "idle"
  BY <1>1, <1>3, <1>4, <1>5 DEF Thread
<1>7. Mine(p) = {} /\ Mine(p)' = {}
  BY <1>1, <1>6, EmptySeq DEF Mine
<1>8. \A q \in Phones : q # p => Mine(q)' = Mine(q)
  BY <1>6 DEF Mine
<1> QED
  BY <1>1, <1>6, <1>7, <1>8

(* The preamble of an endpoint ends. *)
LEMMA Armed ==
  ASSUME Typed, NEW i \in 1..MaxLegs, Arm(i)
  PROVE  /\ i \in Legs /\ legs[i].arms
         /\ legs' \in Seq(Leg) /\ Len(legs') = Len(legs) /\ Legs' = Legs
         /\ legs'[i].party = legs[i].party /\ legs'[i].call = legs[i].call
         /\ legs'[i].run = legs[i].run /\ ~legs'[i].arms
         /\ \A j \in Legs : j # i => legs'[j] = legs[j]
<1> DEFINE x == [legs[i] EXCEPT !.arms = FALSE, !.echo = <<i, i>>]
<1>1. i \in Legs /\ legs[i].arms /\ legs' = [legs EXCEPT ![i] = x]
  BY DEF Arm
<1>2. <<i, i>> \in Echoes
  BY DEF Echoes
<1>3. /\ x \in Leg /\ x.party = legs[i].party /\ x.call = legs[i].call
      /\ x.run = legs[i].run /\ ~x.arms
  BY <1>1, <1>2, LegsAre DEF Leg
<1> HIDE DEF x
<1>4. /\ legs' \in [1..Len(legs) -> Leg] /\ legs'[i] = x
      /\ \A j \in Legs : j # i => legs'[j] = legs[j]
  BY <1>1, <1>3, LegsAre
<1>5. legs' \in Seq(Leg) /\ Len(legs') = Len(legs)
  BY <1>4, LegsAre, FunctionIsSeq
<1> QED
  BY <1>1, <1>3, <1>4, <1>5 DEF Legs

-----------------------------------------------------------------------------
(* The steps *)

SettingKept == setting' = setting

LEMMA StepKeepsSetting == ASSUME [Next]_vars PROVE SettingKept
BY DEF SettingKept, Next, vars, Connect, Hold, Resume, Confer, End, Ack, Handler,
       StartCall, StartLeg, Store, Arm

LEMMA TypedStep ==
  ASSUME Typed, [Next]_vars
  PROVE  Typed'
<1>0. setting' = setting
  BY StepKeepsSetting DEF SettingKept
<1> DEFINE Threads == \A p \in Phones :
             /\ thread[p].pc # "idle" => thread[p].call \in Calls
             /\ Mine(p) \subseteq Legs
             /\ thread[p].pc = "starting" =>
                  Len(thread[p].mine) + Len(thread[p].todo) \in {2, 3}
             /\ thread[p].pc # "starting" => thread[p].mine = <<>>
<1>1. ASSUME thread' = thread, Legs \subseteq Legs'
      PROVE  thread' \in [Phones -> Thread] /\ Threads'
  BY <1>1 DEF Typed, Mine
<1>2. ASSUME NEW c \in Calls, Connect(c) PROVE Typed'
  <2>1. thread' = thread /\ Legs' = Legs
    BY <1>2 DEF Connect, Legs
  <2>2. \A ps : [p \in Phones |-> IF p \in ps THEN [acks[p] EXCEPT ![c] = @ + 1] ELSE acks[p]]
                  \in [Phones -> [Calls -> Nat]]
    BY DEF Typed
  <2> QED
    BY <1>0, <1>1, <1>2, <2>1, <2>2 DEF Typed, Connect, OpensChannels
<1>3. ASSUME NEW c \in Calls, Hold(c) PROVE Typed'
  <2>1. thread' = thread /\ Legs' = Legs
    BY <1>3 DEF Hold, Legs
  <2> QED
    BY <1>0, <1>1, <1>3, <2>1 DEF Typed, Hold
<1>4. ASSUME NEW c \in Calls, Resume(c) PROVE Typed'
  <2>1. thread' = thread /\ Legs' = Legs
    BY <1>4 DEF Resume, Legs
  <2>2. \A ps : [p \in Phones |-> IF p \in ps THEN [acks[p] EXCEPT ![c] = @ + 1] ELSE acks[p]]
                  \in [Phones -> [Calls -> Nat]]
    BY DEF Typed
  <2> QED
    BY <1>0, <1>1, <1>4, <2>1, <2>2 DEF Typed, Resume, OpensChannels
<1>5. ASSUME NEW c \in Calls, Confer(c) PROVE Typed'
  <2>1. thread' = thread /\ StopCall(c)
    BY <1>5 DEF Confer
  <2>2. /\ legs' \in Seq(Leg) /\ Len(legs') = Len(legs) /\ Legs' = Legs
        /\ sessions' = [sessions EXCEPT ![c] = {}]
    BY <2>1, Stopped
  <2>3. thread' \in [Phones -> Thread] /\ Threads'
    BY <1>1, <2>1, <2>2
  <2>4. \A ps : [p \in Phones |-> IF p \in ps THEN [acks[p] EXCEPT ![c] = @ + 1] ELSE acks[p]]
                  \in [Phones -> [Calls -> Nat]]
    BY DEF Typed
  <2> QED
    BY <1>0, <1>5, <2>2, <2>3, <2>4 DEF Typed, Confer, OpensChannels
<1>6. ASSUME NEW c \in Calls, End(c) PROVE Typed'
  <2>1. thread' = thread /\ StopCall(c)
    BY <1>6 DEF End
  <2>2. /\ legs' \in Seq(Leg) /\ Len(legs') = Len(legs) /\ Legs' = Legs
        /\ sessions' = [sessions EXCEPT ![c] = {}]
    BY <2>1, Stopped
  <2>3. thread' \in [Phones -> Thread] /\ Threads'
    BY <1>1, <2>1, <2>2
  <2> QED
    BY <1>0, <1>6, <2>2, <2>3 DEF Typed, End
<1>7. ASSUME NEW p \in Phones, NEW c \in Calls, Ack(p, c) PROVE Typed'
  <2>1. /\ acks[p][c] > 0
        /\ acks' = [acks EXCEPT ![p][c] = @ - 1]
        /\ Mine(p)' = {}
        /\ \A q \in Phones : q # p => thread'[q] = thread[q] /\ Mine(q)' = Mine(q)
        /\ thread' \in [Phones -> Thread] /\ thread'[p].mine = <<>>
        /\ \/ /\ ports' = [ports EXCEPT ![c] = @ \cup {p}]
              /\ thread'[p].pc = "booked" /\ thread'[p].call = c
           \/ /\ ports' = ports /\ thread' = thread
    BY <1>7, Booked
  <2>2. /\ UNCHANGED <<state, three, sessions, legs>> /\ Legs' = Legs
    BY <1>7 DEF Ack, Legs
  <2>3. Threads'
    <3>1. ASSUME NEW q \in Phones, q # p
          PROVE  /\ thread'[q].pc # "idle" => thread'[q].call \in Calls
                 /\ Mine(q)' \subseteq Legs'
                 /\ thread'[q].pc = "starting" =>
                      Len(thread'[q].mine) + Len(thread'[q].todo) \in {2, 3}
                 /\ thread'[q].pc # "starting" => thread'[q].mine = <<>>
      BY <2>1, <2>2, <3>1 DEF Typed
    <3>2. /\ thread'[p].pc # "idle" => thread'[p].call \in Calls
          /\ Mine(p)' \subseteq Legs' /\ thread'[p].pc # "starting"
      BY <1>7, <2>1 DEF Typed, Ack
    <3> QED
      BY <2>1, <3>1, <3>2
  <2>4. acks' \in [Phones -> [Calls -> Nat]] /\ ports' \in [Calls -> SUBSET Phones]
    <3>1. acks \in [Phones -> [Calls -> Nat]] /\ ports \in [Calls -> SUBSET Phones]
      BY DEF Typed
    <3>2. acks[p][c] - 1 \in Nat
      BY <2>1, <3>1
    <3> QED
      BY <2>1, <3>1, <3>2
  <2> QED
    BY <1>0, <2>1, <2>2, <2>3, <2>4 DEF Typed
<1>8. ASSUME NEW p \in Phones, StartCall(p) PROVE Typed'
  <2>1. /\ thread[p].call \in Calls
        /\ Mine(p)' = {}
        /\ \A q \in Phones : q # p => thread'[q] = thread[q] /\ Mine(q)' = Mine(q)
        /\ thread' \in [Phones -> Thread] /\ thread'[p].mine = <<>>
        /\ \/ /\ thread'[p].pc = "starting" /\ thread'[p].call = thread[p].call
              /\ thread'[p].todo = Members(thread[p].call)
           \/ thread'[p].pc = "idle"
    BY <1>8, Begun
  <2>2. /\ UNCHANGED <<state, three, ports, acks, sessions, legs>> /\ Legs' = Legs
    BY <1>8 DEF StartCall, Legs
  <2>3. Len(Members(thread[p].call)) \in {2, 3} /\ Len(thread'[p].mine) = 0
    BY <2>1, MembersAre, EmptySeq
  <2>4. Threads'
    <3>1. ASSUME NEW q \in Phones, q # p
          PROVE  /\ thread'[q].pc # "idle" => thread'[q].call \in Calls
                 /\ Mine(q)' \subseteq Legs'
                 /\ thread'[q].pc = "starting" =>
                      Len(thread'[q].mine) + Len(thread'[q].todo) \in {2, 3}
                 /\ thread'[q].pc # "starting" => thread'[q].mine = <<>>
      BY <2>1, <2>2, <3>1 DEF Typed
    <3>2. /\ thread'[p].pc # "idle" => thread'[p].call \in Calls
          /\ Mine(p)' \subseteq Legs'
          /\ thread'[p].pc = "starting" =>
               Len(thread'[p].mine) + Len(thread'[p].todo) \in {2, 3}
      BY <2>1, <2>3
    <3> QED
      BY <2>1, <3>1, <3>2
  <2> QED
    BY <1>0, <2>1, <2>2, <2>4 DEF Typed
<1>9. ASSUME NEW p \in Phones, StartLeg(p) PROVE Typed'
  <2> DEFINE n == Len(legs) + 1
  <2>1. /\ legs' \in Seq(Leg) /\ Len(legs') = n /\ n <= MaxLegs
        /\ Legs' = Legs \cup {n}
        /\ thread'[p].mine \in Seq(Nat) /\ Len(thread'[p].mine) = Len(thread[p].mine) + 1
        /\ Mine(p)' = Mine(p) \cup {n}
        /\ thread'[p].todo \in Seq(Phones)
        /\ Len(thread'[p].todo) = Len(thread[p].todo) - 1
        /\ thread'[p].pc = "starting" /\ thread'[p].call = thread[p].call
        /\ \A q \in Phones : q # p => thread'[q] = thread[q]
    BY <1>9, Started
  <2> HIDE DEF n
  <2>2. /\ UNCHANGED <<state, three, ports, acks, sessions>> /\ thread[p].pc = "starting"
        /\ thread[p].todo \in Seq(Phones) /\ thread[p].mine \in Seq(Nat)
        /\ thread[p] \in Thread
    BY <1>9 DEF StartLeg, Typed, Thread
  <2>3. thread' \in [Phones -> Thread]
    <3>1. thread' = [thread EXCEPT ![p] = thread'[p]] /\ thread'[p] \in Thread
      <4>1. thread'[p] = [thread[p] EXCEPT !.todo = thread'[p].todo, !.mine = thread'[p].mine]
        BY <1>9, <2>2 DEF StartLeg, Typed, Thread
      <4>2. thread'[p] \in Thread
        <5> DEFINE x == thread'[p].todo  y == thread'[p].mine
        <5>1. x \in Seq(Phones) /\ y \in Seq(Nat)
          BY <2>1
        <5>2. thread'[p] = [thread[p] EXCEPT !.todo = x, !.mine = y]
          BY <4>1
        <5> HIDE DEF x, y
        <5> QED
          BY <2>2, <5>1, <5>2 DEF Thread
      <4>3. thread' = [thread EXCEPT ![p] = thread'[p]]
        BY <1>9 DEF StartLeg, Typed
      <4> QED
        BY <4>2, <4>3
    <3> QED
      BY <3>1 DEF Typed
  <2>4. /\ Len(thread[p].todo) \in Nat /\ Len(thread[p].mine) \in Nat
        /\ Len(thread[p].mine) + Len(thread[p].todo) \in {2, 3}
        /\ thread[p].call \in Calls /\ Mine(p) \subseteq Legs
    BY <2>2, LenProperties DEF Typed
  <2>5. Len(thread'[p].mine) + Len(thread'[p].todo) \in {2, 3}
    <3>1. \A a, b, x, y \in Int :
            a + b \in {2, 3} /\ x = a + 1 /\ y = b - 1 => x + y \in {2, 3}
      OBVIOUS
    <3>2. /\ Len(thread'[p].mine) \in Int /\ Len(thread'[p].todo) \in Int
          /\ Len(thread[p].mine) \in Int /\ Len(thread[p].todo) \in Int
      BY <2>1, <2>4, LenProperties
    <3> QED
      BY <2>1, <2>4, <3>1, <3>2
  <2>6. ASSUME NEW q \in Phones, q # p
        PROVE  /\ thread'[q].pc # "idle" => thread'[q].call \in Calls
               /\ Mine(q)' \subseteq Legs'
               /\ thread'[q].pc = "starting" =>
                    Len(thread'[q].mine) + Len(thread'[q].todo) \in {2, 3}
               /\ thread'[q].pc # "starting" => thread'[q].mine = <<>>
    <3>1. Mine(q)' = Mine(q) /\ thread'[q] = thread[q]
      BY <2>1, <2>6 DEF Mine
    <3> QED
      BY <2>1, <3>1 DEF Typed
  <2>7. Threads'
    BY <2>1, <2>4, <2>5, <2>6
  <2>8. sessions' \in [Calls -> SUBSET Legs'] /\ Len(legs') <= MaxLegs
    BY <2>1, <2>2 DEF Typed
  <2> QED
    BY <1>0, <2>1, <2>2, <2>3, <2>7, <2>8 DEF Typed
<1>10. ASSUME NEW p \in Phones, Store(p) PROVE Typed'
  <2>1. /\ thread[p].call \in Calls /\ Mine(p) \subseteq Legs
        /\ legs' \in Seq(Leg) /\ Len(legs') = Len(legs) /\ Legs' = Legs
        /\ sessions' = [sessions EXCEPT ![thread[p].call] = Mine(p)]
        /\ thread' = [thread EXCEPT ![p] = Idle]
    BY <1>10, StoredNow
  <2>2. UNCHANGED <<state, three, ports, acks>>
    BY <1>10 DEF Store
  <2>3. /\ Idle \in Thread /\ Idle.mine = <<>> /\ Idle.pc = "idle"
    BY EmptySeq DEF Idle, Thread
  <2>4. /\ thread' \in [Phones -> Thread] /\ thread'[p] = Idle
        /\ \A q \in Phones : q # p => thread'[q] = thread[q]
    BY <2>1, <2>3 DEF Typed
  <2>5. Mine(p)' = {} /\ \A q \in Phones : q # p => Mine(q)' = Mine(q)
    BY <2>3, <2>4, EmptySeq DEF Mine
  <2>6. Threads'
    <3>1. ASSUME NEW q \in Phones, q # p
          PROVE  /\ thread'[q].pc # "idle" => thread'[q].call \in Calls
                 /\ Mine(q)' \subseteq Legs'
                 /\ thread'[q].pc = "starting" =>
                      Len(thread'[q].mine) + Len(thread'[q].todo) \in {2, 3}
                 /\ thread'[q].pc # "starting" => thread'[q].mine = <<>>
      BY <2>1, <2>4, <2>5, <3>1 DEF Typed
    <3> QED
      BY <2>3, <2>4, <2>5, <3>1
  <2>7. sessions' \in [Calls -> SUBSET Legs'] /\ Len(legs') <= MaxLegs
    BY <2>1 DEF Typed
  <2> QED
    BY <1>0, <2>1, <2>2, <2>4, <2>6, <2>7 DEF Typed
<1>11. ASSUME NEW i \in 1..MaxLegs, Arm(i) PROVE Typed'
  <2>1. legs' \in Seq(Leg) /\ Len(legs') = Len(legs) /\ Legs' = Legs
    BY <1>11, Armed
  <2>2. UNCHANGED <<state, three, ports, acks, thread, sessions>>
    BY <1>11 DEF Arm
  <2>3. thread' \in [Phones -> Thread] /\ Threads'
    BY <1>1, <2>1, <2>2
  <2> QED
    BY <1>0, <2>1, <2>2, <2>3 DEF Typed
<1>12. CASE UNCHANGED vars
  <2>1. thread' \in [Phones -> Thread] /\ Threads'
    BY <1>1, <1>12 DEF vars, Legs
  <2> QED
    BY <1>12, <2>1 DEF vars, Typed, Legs
<1> QED
  BY <1>2, <1>3, <1>4, <1>5, <1>6, <1>7, <1>8, <1>9, <1>10, <1>11, <1>12 DEF Next, Handler

LEMMA ThreadsKept ==
  ASSUME thread' = thread
  PROVE  \A p \in Phones : Mine(p)' = Mine(p)
BY DEF Mine

LEMMA ApartStep ==
  ASSUME Typed, Apart, [Next]_vars
  PROVE  Apart'
<1>1. ASSUME NEW c \in Calls, Connect(c) \/ Hold(c) \/ Resume(c) PROVE Apart'
  <2>1. thread' = thread /\ sessions' = sessions
    BY <1>1 DEF Connect, Hold, Resume
  <2> QED
    BY <2>1, ThreadsKept DEF Apart
<1>2. ASSUME NEW c \in Calls, Confer(c) \/ End(c) PROVE Apart'
  <2>1. thread' = thread /\ sessions' = [sessions EXCEPT ![c] = {}]
    BY <1>2 DEF Confer, End, StopCall
  <2>2. sessions \in [Calls -> SUBSET Legs]
    BY DEF Typed
  <2> QED
    BY <2>1, <2>2, ThreadsKept DEF Apart
<1>3. ASSUME NEW p \in Phones, NEW c \in Calls, Ack(p, c) PROVE Apart'
  <2>1. \A q \in Phones : Mine(q)' = Mine(q)
    BY <1>3, Booked
  <2>2. sessions' = sessions
    BY <1>3 DEF Ack
  <2> QED
    BY <2>1, <2>2 DEF Apart
<1>4. ASSUME NEW p \in Phones, StartCall(p) PROVE Apart'
  <2>1. \A q \in Phones : Mine(q)' = Mine(q)
    BY <1>4, Begun
  <2>2. sessions' = sessions
    BY <1>4 DEF StartCall
  <2> QED
    BY <2>1, <2>2 DEF Apart
<1>5. ASSUME NEW p \in Phones, StartLeg(p) PROVE Apart'
  <2> DEFINE n == Len(legs) + 1
  <2>1. /\ n \notin Legs /\ Mine(p)' = Mine(p) \cup {n}
        /\ \A q \in Phones : q # p => thread'[q] = thread[q]
    BY <1>5, Started
  <2>2. \A q \in Phones : q # p => Mine(q)' = Mine(q)
    BY <2>1 DEF Mine
  <2>3. /\ sessions' = sessions /\ \A c \in Calls : sessions[c] \subseteq Legs
        /\ \A q \in Phones : Mine(q) \subseteq Legs
    BY <1>5 DEF StartLeg, Typed
  <2> HIDE DEF n
  <2> QED
    BY <2>1, <2>2, <2>3 DEF Apart
<1>6. ASSUME NEW p \in Phones, Store(p) PROVE Apart'
  <2> DEFINE c == thread[p].call
  <2>1. /\ c \in Calls /\ sessions' = [sessions EXCEPT ![c] = Mine(p)]
        /\ thread' = [thread EXCEPT ![p] = Idle]
    BY <1>6, StoredNow
  <2>2. /\ sessions \in [Calls -> SUBSET Legs] /\ thread \in [Phones -> Thread]
    BY DEF Typed
  <2>3. /\ Mine(p)' = {} /\ \A q \in Phones : q # p => Mine(q)' = Mine(q)
    BY <2>1, <2>2, EmptySeq DEF Mine, Idle
  <2> HIDE DEF c
  <2>4. ASSUME NEW q \in Phones, NEW d \in Calls PROVE Mine(q)' \cap sessions'[d] = {}
    BY <2>1, <2>2, <2>3 DEF Apart
  <2>5. ASSUME NEW q \in Phones, NEW r \in Phones, q # r PROVE Mine(q)' \cap Mine(r)' = {}
    BY <2>3, <2>5 DEF Apart
  <2>6. ASSUME NEW d \in Calls, NEW x \in Calls, d # x
        PROVE  sessions'[d] \cap sessions'[x] = {}
    BY <2>1, <2>2, <2>6 DEF Apart
  <2> QED
    BY <2>4, <2>5, <2>6 DEF Apart
<1>7. ASSUME NEW i \in 1..MaxLegs, Arm(i) PROVE Apart'
  BY <1>7, ThreadsKept DEF Arm, Apart
<1>8. CASE UNCHANGED vars
  BY <1>8, ThreadsKept DEF vars, Apart
<1> QED
  BY <1>1, <1>2, <1>3, <1>4, <1>5, <1>6, <1>7, <1>8 DEF Next, Handler

LEMMA NoThirdsStep ==
  ASSUME Typed, NoThirds, NoHolds, [Next]_vars
  PROVE  NoThirds' /\ NoHolds'
<1>0. setting' = setting
  BY StepKeepsSetting DEF SettingKept
<1>1. ASSUME NEW c \in Calls, Connect(c) \/ Hold(c) \/ Resume(c) \/ Confer(c) \/ End(c)
      PROVE  NoThirds' /\ NoHolds'
  BY <1>0, <1>1 DEF Connect, Hold, Resume, Confer, End, NoThirds, NoHolds, Typed
<1>2. UNCHANGED <<state, three>> => NoThirds' /\ NoHolds'
  BY <1>0 DEF NoThirds, NoHolds
<1> QED
  BY <1>1, <1>2 DEF Next, vars, Ack, Handler, StartCall, StartLeg, Store, Arm

LEMMA UnarmedStep ==
  ASSUME Typed, Unarmed, [Next]_vars
  PROVE  Unarmed'
<1>0. setting' = setting
  BY StepKeepsSetting DEF SettingKept
<1>1. legs' = legs => Unarmed'
  BY <1>0 DEF Unarmed, Legs
<1>2. ASSUME NEW c \in Calls, StopCall(c) PROVE Unarmed'
  BY <1>0, <1>2, Stopped DEF Unarmed
<1>3. ASSUME NEW p \in Phones, StartLeg(p) PROVE Unarmed'
  BY <1>0, <1>3, Started DEF Unarmed
<1>4. ASSUME NEW p \in Phones, Store(p) PROVE Unarmed'
  BY <1>0, <1>4, StoredNow DEF Unarmed
<1>5. ASSUME NEW i \in 1..MaxLegs, Arm(i) PROVE Unarmed'
  BY <1>0, <1>5, Armed DEF Unarmed
<1> QED
  BY <1>1, <1>2, <1>3, <1>4, <1>5
     DEF Next, vars, Handler, Connect, Hold, Resume, Confer, End, Ack, StartCall

(* A handler takes its turn when no other one is under way. *)
LEMMA OneHandlerStep ==
  ASSUME Typed, OneHandler, [Next]_vars
  PROVE  OneHandler'
<1>1. ASSUME NEW p \in Phones, MayRun(p), \A q \in Phones : q # p => thread'[q] = thread[q]
      PROVE  OneHandler'
  BY <1>1 DEF OneHandler, MayRun
<1>2. thread' = thread => OneHandler'
  BY DEF OneHandler
<1>3. ASSUME NEW p \in Phones, NEW c \in Calls, Ack(p, c) PROVE OneHandler'
  BY <1>1, <1>3, Booked DEF Ack
<1>4. ASSUME NEW p \in Phones, StartCall(p) PROVE OneHandler'
  BY <1>1, <1>4, Begun DEF StartCall
<1>5. ASSUME NEW p \in Phones, StartLeg(p) PROVE OneHandler'
  BY <1>1, <1>5, Started DEF StartLeg
<1>6. ASSUME NEW p \in Phones, Store(p) PROVE OneHandler'
  BY <1>1, <1>6 DEF Store, Typed
<1> QED
  BY <1>2, <1>3, <1>4, <1>5, <1>6
     DEF Next, vars, Handler, Connect, Hold, Resume, Confer, End, Arm

(* What does not move endpoints between parties moves no handler. *)
LEMMA TurnKept ==
  ASSUME Typed, InTurn, three' = three, Steady,
         \A i \in Legs : legs'[i].party = legs[i].party,
         NEW q \in Phones, thread'[q] = thread[q], thread[q].pc = "starting"
  PROVE  HasTurn(thread[q])'
<1>1. /\ thread[q].call \in Calls /\ Mine(q) \subseteq Legs /\ HasTurn(thread[q])
  BY DEF Typed, InTurn
<1>2. Members(thread[q].call)' = Members(thread[q].call)
  <2>1. thread'[q].call = thread[q].call
    OBVIOUS
  <2> QED
    BY <2>1 DEF Members
<1>3. \A k \in 1..Len(thread[q].mine) : thread[q].mine[k] \in Legs
  BY <1>1 DEF Mine
<1> QED
  BY <1>1, <1>2, <1>3 DEF HasTurn

LEMMA InTurnStep ==
  ASSUME Typed, NoThirds, InTurn, [Next]_vars
  PROVE  InTurn'
<1>0. setting' = setting
  BY StepKeepsSetting DEF SettingKept
<1>1. SUFFICES ASSUME Steady, NEW q \in Phones, thread'[q].pc = "starting"
               PROVE  HasTurn(thread[q])'
  BY <1>0 DEF InTurn, Steady
<1>2. ASSUME UNCHANGED <<thread, legs, three>> PROVE HasTurn(thread[q])'
  BY <1>1, <1>2, TurnKept
<1>3. ASSUME NEW c \in Calls, Confer(c) PROVE HasTurn(thread[q])'
  <2>1. Orderly /\ Quiet /\ thread' = thread
    BY <1>1, <1>3 DEF Confer, MayChange, Steady
  <2> QED
    BY <1>1, <2>1 DEF Quiet
<1>4. ASSUME NEW c \in Calls, End(c) PROVE HasTurn(thread[q])'
  <2>1. thread' = thread /\ three' = three /\ StopCall(c)
    BY <1>4 DEF End
  <2> QED
    BY <1>1, <2>1, Stopped, TurnKept
<1>5. ASSUME NEW p \in Phones, NEW c \in Calls, Ack(p, c) PROVE HasTurn(thread[q])'
  <2>1. thread'[q] = thread[q]
    BY <1>1, <1>5, Booked
  <2>2. UNCHANGED <<legs, three>>
    BY <1>5 DEF Ack
  <2> QED
    BY <1>1, <2>1, <2>2, TurnKept
<1>6. ASSUME NEW p \in Phones, StartCall(p) PROVE HasTurn(thread[q])'
  <2>1. UNCHANGED <<legs, three>>
    BY <1>6 DEF StartCall
  <2>2. CASE q # p
    <3>1. thread'[q] = thread[q]
      BY <1>6, <2>2, Begun
    <3> QED
      BY <1>1, <2>1, <3>1, TurnKept
  <2>3. CASE q = p
    <3> DEFINE c == thread[p].call
    <3>1. /\ thread'[p].call = c /\ c \in Calls
          /\ thread'[p].todo = Members(c) /\ thread'[p].mine = <<>>
      BY <1>1, <1>6, <2>3, Begun
    <3>2. Members(c)' = Members(c) /\ Members(c) \in Seq(Phones) /\ Len(<<>>) = 0
      BY <2>1, <3>1, MembersAre, EmptySeq DEF Members
    <3>3. Len(Members(c)) \in Nat
      BY <3>2, LenProperties
    <3>4. Members(thread[p].call)' = Members(c)
      BY <2>1, <3>1 DEF Members
    <3> HIDE DEF c
    <3> QED
      BY <2>3, <3>1, <3>2, <3>3, <3>4 DEF HasTurn
  <2> QED
    BY <2>2, <2>3
<1>7. ASSUME NEW p \in Phones, StartLeg(p) PROVE HasTurn(thread[q])'
  <2> DEFINE n == Len(legs) + 1  t == thread[p]  u == thread'[p]
  <2>1. /\ \A i \in Legs : legs'[i] = legs[i]
        /\ legs'[n].party = Head(t.todo)
        /\ Len(u.mine) = Len(t.mine) + 1
        /\ \A k \in 1..Len(t.mine) : u.mine[k] = t.mine[k]
        /\ u.mine[Len(t.mine) + 1] = n
        /\ Len(u.todo) = Len(t.todo) - 1
        /\ \A k \in 1..Len(u.todo) : u.todo[k] = t.todo[k + 1]
        /\ u.call = t.call
        /\ \A r \in Phones : r # p => thread'[r] = thread[r]
    BY <1>7, Started
  <2>2. three' = three /\ t.pc = "starting" /\ t.todo # <<>> /\ t \in Thread
    BY <1>7 DEF StartLeg, Typed
  <2>3. CASE q # p
    BY <1>1, <2>1, <2>2, <2>3, TurnKept
  <2>4. CASE q = p
    <3>1. HasTurn(t) /\ Mine(p) \subseteq Legs
      BY <1>1, <2>2 DEF InTurn, Typed
    <3>2. /\ t.todo \in Seq(Phones) /\ t.mine \in Seq(Nat)
      BY <2>2 DEF Thread
    <3>3. /\ Len(t.todo) \in Nat \ {0} /\ Len(t.mine) \in Nat /\ Head(t.todo) = t.todo[1]
      BY <2>2, <3>2, LenProperties, EmptySeq, HeadTailProperties
    <3>4. Members(thread[p].call)' = Members(t.call)
      BY <2>1, <2>2 DEF Members
    <3> DEFINE m == Members(t.call)
    <3>5. /\ Len(t.mine) + Len(t.todo) = Len(m)
          /\ \A k \in 1..Len(t.mine) : t.mine[k] \in Legs /\ legs[t.mine[k]].party = m[k]
          /\ \A k \in 1..Len(t.todo) : t.todo[k] = m[Len(t.mine) + k]
      BY <3>1 DEF HasTurn, Mine
    <3>6. /\ Len(u.mine) + Len(u.todo) = Len(m)
          /\ \A k \in 1..Len(u.mine) : legs'[u.mine[k]].party = m[k]
          /\ \A k \in 1..Len(u.todo) : u.todo[k] = m[Len(u.mine) + k]
      <4> DEFINE mine == t.mine  todo == t.todo  mine2 == u.mine  todo2 == u.todo
      <4>1. Len(mine2) = Len(mine) + 1 /\ Len(todo2) = Len(todo) - 1
        BY <2>1
      <4>2. /\ \A k \in 1..Len(mine) : mine2[k] = mine[k]
            /\ \A k \in 1..Len(todo2) : todo2[k] = todo[k + 1]
        BY <2>1
      <4>3. /\ \A i \in Legs : legs'[i] = legs[i]
            /\ legs'[n].party = Head(todo) /\ mine2[Len(mine) + 1] = n
        BY <2>1
      <4>4. Len(mine) \in Nat /\ Len(todo) \in Nat \ {0} /\ Head(todo) = todo[1]
        BY <3>3
      <4>5. /\ Len(mine) + Len(todo) = Len(m)
            /\ \A k \in 1..Len(mine) : mine[k] \in Legs /\ legs[mine[k]].party = m[k]
            /\ \A k \in 1..Len(todo) : todo[k] = m[Len(mine) + k]
        BY <3>5
      <4> HIDE DEF m, mine, todo, mine2, todo2, n
      <4>6. Len(mine2) + Len(todo2) = Len(m)
        <5>1. /\ Len(mine) \in Nat /\ Len(todo) \in Nat
              /\ Len(mine) + Len(todo) = Len(m)
          BY <4>4, <4>5
        <5>2. \A a, b \in Nat : (a + 1) + (b - 1) = a + b
          OBVIOUS
        <5> QED
          BY <4>1, <5>1, <5>2
      <4>7. ASSUME NEW k \in 1..Len(todo2) PROVE todo2[k] = m[Len(mine2) + k]
        <5>1. k + 1 \in 1..Len(todo) /\ Len(mine) + (k + 1) = Len(mine2) + k
          BY <4>1, <4>4
        <5> QED
          BY <4>2, <4>5, <5>1
      <4>8. ASSUME NEW k \in 1..Len(mine2) PROVE legs'[mine2[k]].party = m[k]
        <5>1. CASE k \in 1..Len(mine)
          BY <4>2, <4>3, <4>5, <5>1
        <5>2. CASE k = Len(mine) + 1
          BY <4>3, <4>4, <4>5, <5>2
        <5> QED
          BY <4>1, <4>4, <5>1, <5>2
      <4> QED
        BY <4>6, <4>7, <4>8 DEF mine, todo, mine2, todo2
    <3> QED
      BY <2>4, <3>4, <3>6 DEF HasTurn
  <2> QED
    BY <2>3, <2>4
<1>8. ASSUME NEW p \in Phones, Store(p) PROVE HasTurn(thread[q])'
  <2>1. /\ three' = three /\ \A i \in Legs : legs'[i].party = legs[i].party
        /\ thread' = [thread EXCEPT ![p] = Idle] /\ thread \in [Phones -> Thread]
    BY <1>8, StoredNow DEF Store, Typed
  <2>2. thread'[q] = thread[q]
    BY <1>1, <2>1 DEF Idle
  <2> QED
    BY <1>1, <2>1, <2>2, TurnKept
<1>9. ASSUME NEW i \in 1..MaxLegs, Arm(i) PROVE HasTurn(thread[q])'
  <2>1. thread' = thread /\ three' = three /\ \A j \in Legs : legs'[j].party = legs[j].party
    BY <1>9, Armed DEF Arm
  <2> QED
    BY <1>1, <2>1, TurnKept
<1> QED
  BY <1>2, <1>3, <1>4, <1>5, <1>6, <1>7, <1>8, <1>9
     DEF Next, vars, Handler, Connect, Hold, Resume

(* Endpoints of a call that no step touches stay matched. *)
LEMMA MatchKept ==
  ASSUME Typed, Matched, Steady, setting' = setting, Legs \subseteq Legs',
         NEW c \in Calls, sessions'[c] = sessions[c], sessions[c] # {},
         three'[c] = three[c],
         \A i \in sessions[c] :
           /\ legs'[i].party = legs[i].party
           /\ setting.mode = "bridge" =>
                legs'[i].echo = legs[i].echo /\ legs'[i].src = legs[i].src
  PROVE  \E e \in [1..Len(Members(c)') -> Legs'] : AreFor(e, c)'
<1>1. PICK e \in [1..Len(Members(c)) -> Legs] : AreFor(e, c)
  BY DEF Matched
<1>2. Members(c)' = Members(c)
  BY DEF Members
<1>3. 1 \in 1..Len(Members(c)) /\ 2 \in 1..Len(Members(c))
  BY MembersAre
<1>4. \A k \in 1..Len(Members(c)) : e[k] \in sessions[c]
  BY <1>1 DEF AreFor
<1>5. AreFor(e, c)'
  BY <1>1, <1>2, <1>3, <1>4 DEF AreFor
<1> QED
  BY <1>1, <1>2, <1>5

(* The endpoints a handler stores are one for each member, and wired. *)
LEMMA MatchMade ==
  ASSUME Typed, InTurn, Steady, setting' = setting, NEW p \in Phones, Store(p),
         NEW c \in Calls, c = thread[p].call
  PROVE  \E e \in [1..Len(Members(c)') -> Legs'] : AreFor(e, c)'
<1>0. PICK e : e = thread[p].mine
  OBVIOUS
<1> DEFINE m == Members(c)
<1>1. /\ thread[p].pc = "starting" /\ thread[p].todo = <<>> /\ c \in Calls
      /\ Len(e) \in {2, 3} /\ Mine(p) = {e[k] : k \in 1..Len(e)} /\ Mine(p) \subseteq Legs
      /\ Legs' = Legs
      /\ \A i \in Legs : legs'[i].party = legs[i].party
      /\ (\A k, l \in 1..Len(e) : e[k] = e[l] => k = l) /\ setting.mode = "bridge" =>
           \A k \in 1..Len(e) : /\ legs'[e[k]].echo = BridgeEcho(e)[k]
                                /\ legs'[e[k]].src = BridgeSource(e)[k]
      /\ sessions' = [sessions EXCEPT ![c] = Mine(p)]
  BY <1>0, StoredNow
<1>2. HasTurn(thread[p]) /\ Len(<<>>) = 0 /\ three' = three
  BY <1>1, EmptySeq DEF InTurn, Store
<1>3. Len(e) = Len(m) /\ \A k \in 1..Len(e) : legs[e[k]].party = m[k]
  <2>1. Len(e) + 0 = Len(m) /\ \A k \in 1..Len(e) : legs[e[k]].party = m[k]
    BY <1>0, <1>1, <1>2 DEF HasTurn
  <2> HIDE DEF m
  <2> QED
    BY <1>1, <2>1
<1>4. \A k, l \in 1..Len(m) : m[k] = m[l] => k = l
  BY <1>1, MembersAre
<1>5. Members(c)' = m
  BY <1>2 DEF Members
<1>6. sessions'[c] = Mine(p)
  BY <1>1 DEF Typed
<1>7. Len(m) = IF three[c] THEN 3 ELSE 2
  BY <1>1, MembersAre
<1>8. e \in [1..Len(m) -> Legs]
  <2>1. e \in Seq(Nat)
    BY <1>0, <1>1 DEF Typed, Thread
  <2>2. e \in [1..Len(e) -> Nat] /\ \A k \in 1..Len(e) : e[k] \in Legs
    BY <1>1, <2>1, LenProperties
  <2> QED
    BY <1>3, <2>2
<1> HIDE DEF m
<1>9. \A k, l \in 1..Len(e) : e[k] = e[l] => k = l
  BY <1>3, <1>4
<1>10. \A k \in 1..Len(m) : legs'[e[k]].party = m[k]
  BY <1>1, <1>3, <1>8
<1>11. ASSUME setting.mode = "bridge", ~three[c]
       PROVE  /\ legs'[e[1]].echo = <<e[1], e[2]>> /\ legs'[e[1]].src = <<e[2], e[1]>>
              /\ legs'[e[2]].echo = <<e[2], e[1]>> /\ legs'[e[2]].src = <<e[1], e[2]>>
  <2>1. Len(e) = 2
    BY <1>3, <1>7, <1>11
  <2>2. /\ BridgeEcho(e)[1] = <<e[1], e[2]>> /\ BridgeSource(e)[1] = <<e[2], e[1]>>
        /\ BridgeEcho(e)[2] = <<e[2], e[1]>> /\ BridgeSource(e)[2] = <<e[1], e[2]>>
    BY <2>1, PairsAre
  <2>3. \A k \in 1..Len(e) : /\ legs'[e[k]].echo = BridgeEcho(e)[k]
                             /\ legs'[e[k]].src = BridgeSource(e)[k]
    BY <1>1, <1>9, <1>11
  <2>4. 1 \in 1..Len(e) /\ 2 \in 1..Len(e)
    BY <2>1
  <2> QED
    BY <2>2, <2>3, <2>4
<1>12. AreFor(e, c)'
  <2>1. sessions'[c] = {e[k] : k \in 1..Len(Members(c)')}
    BY <1>1, <1>3, <1>5, <1>6
  <2>2. \A k \in 1..Len(Members(c)') : legs'[e[k]].party = Members(c)'[k]
    BY <1>5, <1>10
  <2>3. three'[c] = three[c]
    BY <1>2
  <2> QED
    BY <1>11, <2>1, <2>2, <2>3 DEF AreFor
<1> QED
  BY <1>1, <1>5, <1>8, <1>12

LEMMA MatchedStep ==
  ASSUME Typed, Apart, NoThirds, Unarmed, InTurn, Matched, [Next]_vars
  PROVE  Matched'
<1>0. setting' = setting
  BY StepKeepsSetting DEF SettingKept
<1>1. SUFFICES ASSUME Steady, NEW c \in Calls, sessions'[c] # {}
               PROVE  \E e \in [1..Len(Members(c)') -> Legs'] : AreFor(e, c)'
  BY <1>0 DEF Matched, Steady
<1> DEFINE Goal == \E e \in [1..Len(Members(c)') -> Legs'] : AreFor(e, c)'
<1>2. ASSUME UNCHANGED <<legs, sessions, three>> PROVE Goal
  BY <1>0, <1>1, <1>2, MatchKept DEF Legs
<1>3. ASSUME NEW d \in Calls, Confer(d) \/ End(d) PROVE Goal
  <2>1. /\ StopCall(d) /\ (c # d => three'[c] = three[c])
    BY <1>3 DEF Confer, End, Typed
  <2>2. /\ Legs' = Legs /\ sessions' = [sessions EXCEPT ![d] = {}]
        /\ \A i \in Legs : i \notin sessions[d] => legs'[i] = legs[i]
    BY <2>1, Stopped
  <2>3. c # d /\ sessions'[c] = sessions[c]
    BY <1>1, <2>2 DEF Typed
  <2>4. \A i \in sessions[c] : legs'[i] = legs[i]
    BY <2>2, <2>3 DEF Apart, Typed
  <2> QED
    BY <1>0, <1>1, <2>1, <2>2, <2>3, <2>4, MatchKept
<1>4. ASSUME NEW p \in Phones, StartLeg(p) PROVE Goal
  <2>1. /\ Legs \subseteq Legs' /\ \A i \in Legs : legs'[i] = legs[i]
    BY <1>4, Started
  <2>2. sessions' = sessions /\ three' = three /\ sessions[c] \subseteq Legs
    BY <1>4 DEF StartLeg, Typed
  <2> QED
    BY <1>0, <1>1, <2>1, <2>2, MatchKept
<1>5. ASSUME NEW p \in Phones, Store(p) PROVE Goal
  <2>1. CASE c = thread[p].call
    BY <1>0, <1>1, <1>5, <2>1, MatchMade
  <2>2. CASE c # thread[p].call
    <3>1. /\ Legs' = Legs /\ sessions' = [sessions EXCEPT ![thread[p].call] = Mine(p)]
          /\ \A i \in Legs : i \notin Mine(p) => legs'[i] = legs[i]
      BY <1>5, StoredNow
    <3>2. three' = three
      BY <1>5 DEF Store
    <3>3. sessions'[c] = sessions[c] /\ \A i \in sessions[c] : legs'[i] = legs[i]
      BY <2>2, <3>1 DEF Apart, Typed
    <3> QED
      BY <1>0, <1>1, <3>1, <3>2, <3>3, MatchKept
  <2> QED
    BY <2>1, <2>2
<1>6. ASSUME NEW i \in 1..MaxLegs, Arm(i) PROVE Goal
  <2>1. /\ i \in Legs /\ legs[i].arms /\ Legs' = Legs
        /\ legs'[i].party = legs[i].party
        /\ \A j \in Legs : j # i => legs'[j] = legs[j]
    BY <1>6, Armed
  <2>2. setting.mode # "bridge" /\ sessions' = sessions /\ three' = three
    BY <1>6, <2>1 DEF Unarmed, Arm
  <2>3. \A j \in sessions[c] : legs'[j].party = legs[j].party
    BY <2>1 DEF Typed
  <2> QED
    BY <1>0, <1>1, <2>1, <2>2, <2>3, MatchKept
<1> QED
  BY <1>2, <1>3, <1>4, <1>5, <1>6
     DEF Next, vars, Handler, Connect, Hold, Resume, Ack, StartCall

LEMMA PhonesDiffer ==
  /\ Caller \in Phones /\ Callee \in Phones /\ Third \in Phones
  /\ Caller # Callee /\ Caller # Third /\ Callee # Third
BY MediaAssumption DEF Phones

LEMMA AckedOnceStep ==
  ASSUME Typed, AckedOnce, [Next]_vars
  PROVE  AckedOnce'
<1> SUFFICES ASSUME Orderly PROVE AckedOnce'
  BY DEF AckedOnce
<1> DEFINE Good(d) ==
      /\ ports[d] \subseteq MembersOf(d)
      /\ state[d] \in {"none", "held"} => ~three[d]
      /\ state[d] = "none" => ports[d] = {}
      /\ \A p \in Phones :
           /\ acks[p][d] \in 0..1
           /\ state[d] # "ended" =>
                (acks[p][d] = 1 <=> state[d] = "connected" /\ p \in MembersOf(d) \ ports[d])
<1>0. ASSUME NEW d \in Calls PROVE Good(d) /\ \A p \in Phones : acks[p][d] \in Nat
  BY DEF AckedOnce, Typed
<1>1. SUFFICES ASSUME NEW d \in Calls PROVE Good(d)'
  BY DEF AckedOnce
<1>2. ASSUME state'[d] = state[d], three'[d] = three[d], ports'[d] = ports[d],
             \A p \in Phones : acks'[p][d] = acks[p][d]
      PROVE  Good(d)'
  BY <1>0, <1>2 DEF MembersOf, Members
<1>3. ASSUME NEW c \in Calls, NEW ps, OpensChannels(ps, c)
      PROVE  /\ d # c => \A p \in Phones : acks'[p][d] = acks[p][d]
             /\ d = c => \A p \in Phones :
                  acks'[p][d] = IF p \in ps THEN acks[p][d] + 1 ELSE acks[p][d]
  BY <1>3 DEF OpensChannels, Typed
<1>4. MembersOf(d) = IF three[d] THEN Phones ELSE {Caller, Callee}
  BY MembersAre
<1>5. MembersOf(d)' = IF three'[d] THEN Phones ELSE {Caller, Callee}
  <2>1. CASE three'[d]
    <3>1. Members(d)' = <<Caller, Callee, Third>>
      BY <2>1 DEF Members
    <3> QED
      BY <2>1, <3>1 DEF MembersOf, Phones
  <2>2. CASE ~three'[d]
    <3>1. Members(d)' = <<Caller, Callee>>
      BY <2>2 DEF Members
    <3> QED
      BY <2>2, <3>1 DEF MembersOf
  <2> QED
    BY <2>1, <2>2
<1>6. ASSUME NEW c \in Calls, Connect(c) PROVE Good(d)'
  <2>1. /\ state[c] = "none" /\ state' = [state EXCEPT ![c] = "connected"]
        /\ OpensChannels({Caller, Callee}, c) /\ UNCHANGED <<three, ports>>
    BY <1>6 DEF Connect
  <2>2. CASE d # c
    BY <1>2, <1>3, <2>1, <2>2 DEF Typed
  <2>3. CASE d = c
    <3>1. ~three[d] /\ ports[d] = {} /\ \A p \in Phones : acks[p][d] = 0
      BY <1>0, <2>1, <2>3
    <3>2. \A p \in Phones : acks'[p][d] = IF p \in {Caller, Callee} THEN 1 ELSE 0
      BY <1>3, <2>1, <2>3, <3>1
    <3> QED
      BY <1>4, <1>5, <2>1, <2>3, <3>1, <3>2 DEF Typed
  <2> QED
    BY <2>2, <2>3
<1>7. ASSUME NEW c \in Calls, Hold(c) PROVE Good(d)'
  <2>1. /\ state[c] = "connected" /\ ~three[c] /\ \A p \in Phones : acks[p][c] = 0
        /\ state' = [state EXCEPT ![c] = "held"] /\ UNCHANGED <<three, ports, acks>>
    BY <1>7 DEF Hold, MayChange
  <2>2. CASE d # c
    BY <1>2, <2>1, <2>2 DEF Typed
  <2>3. CASE d = c
    BY <1>0, <1>4, <1>5, <2>1, <2>3 DEF Typed
  <2> QED
    BY <2>2, <2>3
<1>8. ASSUME NEW c \in Calls, Resume(c) PROVE Good(d)'
  <2>1. /\ state[c] = "held" /\ state' = [state EXCEPT ![c] = "connected"]
        /\ ports' = [ports EXCEPT ![c] = {}]
        /\ OpensChannels({Caller, Callee}, c) /\ UNCHANGED three
    BY <1>8 DEF Resume
  <2>2. CASE d # c
    BY <1>2, <1>3, <2>1, <2>2 DEF Typed
  <2>3. CASE d = c
    <3>1. ~three[d] /\ \A p \in Phones : acks[p][d] = 0
      BY <1>0, <2>1, <2>3
    <3>2. \A p \in Phones : acks'[p][d] = IF p \in {Caller, Callee} THEN 1 ELSE 0
      BY <1>3, <2>1, <2>3, <3>1
    <3> QED
      BY <1>4, <1>5, <2>1, <2>3, <3>1, <3>2 DEF Typed
  <2> QED
    BY <2>2, <2>3
<1>9. ASSUME NEW c \in Calls, Confer(c) PROVE Good(d)'
  <2>1. /\ state[c] = "connected" /\ \A p \in Phones : acks[p][c] = 0
        /\ three' = [three EXCEPT ![c] = TRUE] /\ ports' = [ports EXCEPT ![c] = {}]
        /\ OpensChannels(Phones, c) /\ UNCHANGED state
    BY <1>9 DEF Confer, MayChange
  <2>2. CASE d # c
    BY <1>2, <1>3, <2>1, <2>2 DEF Typed
  <2>3. CASE d = c
    <3>1. \A p \in Phones : acks'[p][d] = 1
      BY <1>3, <2>1, <2>3
    <3> QED
      BY <1>5, <2>1, <2>3, <3>1 DEF Typed
  <2> QED
    BY <2>2, <2>3
<1>10. ASSUME NEW c \in Calls, End(c) PROVE Good(d)'
  <2>1. /\ state' = [state EXCEPT ![c] = "ended"] /\ UNCHANGED <<three, ports, acks>>
    BY <1>10 DEF End
  <2>2. CASE d # c
    BY <1>2, <2>1, <2>2 DEF Typed
  <2>3. CASE d = c
    BY <1>0, <1>4, <1>5, <2>1, <2>3 DEF Typed
  <2> QED
    BY <2>2, <2>3
<1>11. ASSUME NEW q \in Phones, NEW c \in Calls, Ack(q, c) PROVE Good(d)'
  <2>1. /\ acks[q][c] > 0 /\ acks' = [acks EXCEPT ![q][c] = @ - 1]
        /\ \/ state[c] = "connected" /\ ports' = [ports EXCEPT ![c] = @ \cup {q}]
           \/ state[c] # "connected" /\ ports' = ports
    BY <1>11, Booked
  <2>2. UNCHANGED <<state, three>>
    BY <1>11 DEF Ack
  <2>3. \A p \in Phones :
          acks'[p][d] = IF p = q /\ d = c THEN acks[p][d] - 1 ELSE acks[p][d]
    BY <2>1 DEF Typed
  <2>4. CASE d # c
    BY <1>2, <2>1, <2>2, <2>3, <2>4 DEF Typed
  <2>5. CASE d = c
    <3>1. acks[q][d] = 1 /\ (state[d] # "ended" => state[d] = "connected" /\ q \in MembersOf(d))
      BY <1>0, <2>1, <2>5
    <3>2. ports'[d] = IF state[d] = "connected" THEN ports[d] \cup {q} ELSE ports[d]
      BY <2>1, <2>5 DEF Typed
    <3>3. \A p \in Phones : acks'[p][d] = IF p = q THEN 0 ELSE acks[p][d]
      BY <2>3, <2>5, <3>1
    <3>4. MembersOf(d)' = MembersOf(d) /\ state'[d] = state[d] /\ three'[d] = three[d]
      BY <1>4, <1>5, <2>2
    <3> QED
      BY <1>0, <3>1, <3>2, <3>3, <3>4
  <2> QED
    BY <2>4, <2>5
<1>12. ASSUME UNCHANGED <<state, three, ports, acks>> PROVE Good(d)'
  BY <1>2, <1>12
<1> QED
  BY <1>6, <1>7, <1>8, <1>9, <1>10, <1>11, <1>12
     DEF Next, vars, Handler, StartCall, StartLeg, Store, Arm

(* The calls change between handlers only. *)
LEMMA HandlesLiveStep ==
  ASSUME Typed, OneHandler, AckedOnce, HandlesLive, [Next]_vars
  PROVE  HandlesLive'
<1> SUFFICES ASSUME Orderly, NEW q \in Phones, thread'[q].pc # "idle",
                    NEW c, c = thread'[q].call
             PROVE  /\ state'[c] = "connected" /\ q \in ports'[c]
                    /\ thread'[q].pc = "starting" => AllAcked(c)'
  BY DEF HandlesLive, AllAcked, MembersOf, Members
<1> DEFINE Goal == /\ state'[c] = "connected" /\ q \in ports'[c]
                   /\ thread'[q].pc = "starting" => AllAcked(c)'
<1>1. ASSUME thread'[q] = thread[q], UNCHANGED <<state, ports, three>> PROVE Goal
  BY <1>1 DEF HandlesLive, AllAcked, MembersOf, Members
<1>2. ASSUME NEW d \in Calls, Hold(d) \/ Resume(d) \/ Confer(d) \/ End(d) PROVE Goal
  BY <1>2 DEF Hold, Resume, Confer, End, MayChange, Quiet
<1>3. ASSUME NEW d \in Calls, Connect(d) PROVE Goal
  <2>1. /\ state[d] = "none" /\ state' = [state EXCEPT ![d] = "connected"]
        /\ UNCHANGED <<three, ports, thread>>
    BY <1>3 DEF Connect
  <2>2. state[c] = "connected" /\ c \in Calls
    BY <2>1 DEF HandlesLive, Typed
  <2>3. state'[c] = state[c]
    BY <2>1, <2>2 DEF Typed
  <2> QED
    BY <2>1, <2>2, <2>3 DEF HandlesLive, AllAcked, MembersOf, Members
<1>4. ASSUME NEW p \in Phones, NEW d \in Calls, Ack(p, d) PROVE Goal
  <2>1. /\ UNCHANGED <<state, three>> /\ \A r \in Phones \ {p} : thread[r].pc = "idle"
    BY <1>4 DEF Ack, MayRun
  <2>2. /\ thread[p].pc = "idle"
        /\ \A r \in Phones : r # p => thread'[r] = thread[r]
        /\ \/ /\ state[d] = "connected" /\ ports' = [ports EXCEPT ![d] = @ \cup {p}]
              /\ thread'[p].pc = "booked" /\ thread'[p].call = d
           \/ thread' = thread
    BY <1>4, Booked
  <2>3. q = p
    BY <2>1, <2>2
  <2> QED
    BY <2>1, <2>2, <2>3 DEF Typed
<1>5. ASSUME NEW p \in Phones, StartCall(p) PROVE Goal
  <2>1. UNCHANGED <<state, ports, three>>
    BY <1>5 DEF StartCall
  <2>2. CASE q # p
    <3>1. thread'[q] = thread[q]
      BY <1>5, <2>2, Begun
    <3> QED
      BY <1>1, <2>1, <3>1
  <2>3. CASE q = p
    <3>1. /\ thread[q].pc = "booked" /\ AllAcked(thread[q].call)
          /\ thread'[q].call = thread[q].call
      BY <1>5, <2>3, Begun
    <3>2. AllAcked(c)'
      BY <2>1, <3>1 DEF AllAcked, MembersOf, Members
    <3> QED
      BY <2>1, <3>1, <3>2 DEF HandlesLive
  <2> QED
    BY <2>2, <2>3
<1>6. ASSUME NEW p \in Phones, StartLeg(p) PROVE Goal
  <2>1. UNCHANGED <<state, ports, three>> /\ thread[p].pc = "starting"
    BY <1>6 DEF StartLeg
  <2>2. CASE q # p
    <3>1. thread'[q] = thread[q]
      BY <1>6, <2>2, Started
    <3> QED
      BY <1>1, <2>1, <3>1
  <2>3. CASE q = p
    <3>1. thread'[q].call = thread[q].call
      BY <1>6, <2>3, Started
    <3> QED
      BY <2>1, <2>3, <3>1 DEF HandlesLive, AllAcked, MembersOf, Members
  <2> QED
    BY <2>2, <2>3
<1>7. ASSUME NEW p \in Phones, Store(p) PROVE Goal
  <2>1. UNCHANGED <<state, ports, three>> /\ thread' = [thread EXCEPT ![p] = Idle]
    BY <1>7 DEF Store
  <2>2. thread'[q] = thread[q]
    BY <2>1 DEF Idle, Typed
  <2> QED
    BY <1>1, <2>1, <2>2
<1>8. ASSUME NEW i \in 1..MaxLegs, Arm(i) PROVE Goal
  BY <1>1, <1>8 DEF Arm
<1> QED
  BY <1>1, <1>2, <1>3, <1>4, <1>5, <1>6, <1>7, <1>8 DEF Next, vars, Handler

LEMMA AckedKept ==
  ASSUME NEW c, three'[c] = three[c], ports[c] \subseteq ports'[c], AllAcked(c)
  PROVE  AllAcked(c)'
BY DEF AllAcked, MembersOf, Members

LEMMA NoneForgottenStep ==
  ASSUME Typed, Apart, NoHolds, OneHandler, AckedOnce, HandlesLive, NoneForgotten, [Next]_vars
  PROVE  NoneForgotten'
<1>0. setting' = setting
  BY StepKeepsSetting DEF SettingKept
<1> SUFFICES ASSUME Orderly, ~setting.hold PROVE NoneForgotten'
  BY <1>0 DEF NoneForgotten
<1> DEFINE S(d) == sessions[d] # {} => state[d] = "connected" /\ AllAcked(d)
           T(q) == thread[q].pc # "idle" => sessions[thread[q].call] = {}
           H(q, d, i) == thread[q].pc = "starting" /\ thread[q].call = d /\ i \in Mine(q)
           R(i) == legs[i].run =>
                     /\ state[legs[i].call] = "connected"
                     /\ \/ i \in sessions[legs[i].call]
                        \/ \E q \in Phones : H(q, legs[i].call, i)
<1>1. SUFFICES (\A d \in Calls : S(d)') /\ (\A q \in Phones : T(q)') /\ (\A i \in Legs' : R(i)')
  BY DEF NoneForgotten
<1>2. (\A d \in Calls : S(d)) /\ (\A q \in Phones : T(q)) /\ (\A i \in Legs : R(i))
  BY DEF NoneForgotten
<1>3. /\ \A d \in Calls : state[d] # "held"
      /\ \A i \in Legs : legs[i].call \in Calls
      /\ \A q \in Phones : thread[q].pc # "idle" => thread[q].call \in Calls
  BY LegsAre DEF NoHolds, Leg, Typed
<1> DEFINE Goal == (\A d \in Calls : S(d)') /\ (\A q \in Phones : T(q)') /\ (\A i \in Legs' : R(i)')
<1>4. ASSUME NEW c \in Calls, Connect(c) PROVE Goal
  <2>1. /\ state[c] = "none" /\ UNCHANGED <<three, ports, thread, sessions, legs>>
        /\ \A d \in Calls : d # c => state'[d] = state[d]
    BY <1>4 DEF Connect, Typed
  <2>2. Legs' = Legs /\ \A q \in Phones : Mine(q)' = Mine(q)
    BY <2>1, ThreadsKept DEF Legs
  <2>3. ASSUME NEW d \in Calls PROVE S(d)'
    BY <1>2, <2>1, AckedKept
  <2>4. ASSUME NEW i \in Legs PROVE R(i)'
    BY <1>2, <1>3, <2>1, <2>2
  <2> QED
    BY <1>2, <2>1, <2>2, <2>3, <2>4
<1>5. ASSUME NEW c \in Calls, Hold(c) \/ Resume(c) PROVE Goal
  BY <1>3, <1>5 DEF Hold, Resume
<1>6. ASSUME NEW c \in Calls, Confer(c) \/ End(c) PROVE Goal
  <2>1. /\ Quiet /\ StopCall(c) /\ thread' = thread
        /\ \A d \in Calls : d # c => /\ state'[d] = state[d] /\ three'[d] = three[d]
                                     /\ ports'[d] = ports[d]
    BY <1>6 DEF Confer, End, MayChange, Typed
  <2>2. /\ Legs' = Legs /\ sessions'[c] = {}
        /\ \A d \in Calls : d # c => sessions'[d] = sessions[d]
        /\ \A i \in Legs : /\ legs'[i].call = legs[i].call
                           /\ legs'[i].run => legs[i].run
                           /\ i \in sessions[c] => ~legs'[i].run
    BY <2>1, Stopped DEF Typed
  <2>3. ASSUME NEW d \in Calls PROVE S(d)'
    BY <1>2, <2>1, <2>2, AckedKept
  <2>4. ASSUME NEW q \in Phones PROVE T(q)'
    BY <2>1 DEF Quiet
  <2>5. ASSUME NEW i \in Legs, legs'[i].run PROVE R(i)'
    <3>1. i \in sessions[legs[i].call] /\ state[legs[i].call] = "connected"
      BY <1>2, <2>1, <2>2, <2>5 DEF Quiet
    <3>2. legs[i].call # c /\ legs[i].call \in Calls
      BY <1>3, <2>2, <2>5, <3>1
    <3> QED
      BY <2>1, <2>2, <3>1, <3>2
  <2> QED
    BY <2>2, <2>3, <2>4, <2>5
<1>7. ASSUME NEW p \in Phones, NEW c \in Calls, Ack(p, c) PROVE Goal
  <2>1. /\ UNCHANGED <<state, three, sessions, legs>> /\ Legs' = Legs
        /\ \A q \in Phones \ {p} : thread[q].pc = "idle"
    BY <1>7 DEF Ack, MayRun, Legs
  <2>2. /\ acks[p][c] > 0 /\ thread[p].pc = "idle"
        /\ \A q \in Phones : q # p => thread'[q] = thread[q]
        /\ \/ /\ state[c] = "connected" /\ ports' = [ports EXCEPT ![c] = @ \cup {p}]
              /\ thread'[p].pc = "booked" /\ thread'[p].call = c
           \/ state[c] # "connected" /\ ports' = ports /\ thread' = thread
    BY <1>7, Booked
  <2>3. state[c] = "connected" => sessions[c] = {}
    <3>1. acks[p][c] \in 0..1
      BY DEF AckedOnce
    <3>2. acks[p][c] = 1
      BY <2>2, <3>1
    <3>3. state[c] = "connected" => p \in MembersOf(c) \ ports[c]
      BY <3>2 DEF AckedOnce
    <3> QED
      BY <1>2, <3>3 DEF AllAcked
  <2>4. ASSUME NEW d \in Calls PROVE S(d)'
    <3>1. ports[d] \subseteq ports'[d]
      BY <2>2 DEF Typed
    <3> QED
      BY <1>2, <2>1, <3>1, AckedKept
  <2>5. ASSUME NEW q \in Phones PROVE T(q)'
    BY <2>1, <2>2, <2>3
  <2>6. ASSUME NEW i \in Legs PROVE R(i)'
    BY <1>2, <2>1, <2>2
  <2> QED
    BY <2>1, <2>4, <2>5, <2>6
<1>8. ASSUME NEW p \in Phones, StartCall(p) PROVE Goal
  <2>1. /\ UNCHANGED <<state, three, ports, sessions, legs>> /\ Legs' = Legs
    BY <1>8 DEF StartCall, Legs
  <2>2. /\ thread[p].pc = "booked"
        /\ \A q \in Phones : q # p => thread'[q] = thread[q] /\ Mine(q)' = Mine(q)
        /\ thread'[p].pc # "idle" => thread'[p].call = thread[p].call
    BY <1>8, Begun
  <2>3. ASSUME NEW d \in Calls PROVE S(d)'
    BY <1>2, <2>1, AckedKept
  <2>4. ASSUME NEW q \in Phones PROVE T(q)'
    BY <1>2, <2>1, <2>2
  <2>5. ASSUME NEW i \in Legs PROVE R(i)'
    <3>1. ASSUME NEW q \in Phones, H(q, legs[i].call, i) PROVE H(q, legs[i].call, i)'
      <4>1. q # p
        BY <2>2, <3>1
      <4> QED
        BY <2>1, <2>2, <3>1, <4>1
    <3> QED
      BY <1>2, <2>1, <3>1
  <2> QED
    BY <2>1, <2>3, <2>4, <2>5
<1>9. ASSUME NEW p \in Phones, StartLeg(p) PROVE Goal
  <2>0. PICK n : n = Len(legs) + 1
    OBVIOUS
  <2>1. /\ UNCHANGED <<state, three, ports, sessions>> /\ thread[p].pc = "starting"
    BY <1>9 DEF StartLeg
  <2>2. /\ Legs' = Legs \cup {n} /\ \A i \in Legs : legs'[i] = legs[i]
        /\ legs'[n].call = thread[p].call /\ Mine(p)' = Mine(p) \cup {n}
        /\ thread'[p].pc = "starting" /\ thread'[p].call = thread[p].call
        /\ \A q \in Phones : q # p => thread'[q] = thread[q]
    BY <1>9, <2>0, Started
  <2>3. \A q \in Phones : /\ Mine(q) \subseteq Mine(q)' /\ thread'[q].pc = thread[q].pc
                          /\ thread'[q].call = thread[q].call
    <3>1. ASSUME NEW q \in Phones, q # p PROVE Mine(q)' = Mine(q)
      BY <2>2, <3>1 DEF Mine
    <3> QED
      BY <2>1, <2>2, <3>1
  <2>4. ASSUME NEW d \in Calls PROVE S(d)'
    BY <1>2, <2>1, AckedKept
  <2>5. ASSUME NEW q \in Phones PROVE T(q)'
    BY <1>2, <2>1, <2>3
  <2>6. ASSUME NEW i \in Legs PROVE R(i)'
    BY <1>2, <2>1, <2>2, <2>3
  <2>7. R(n)'
    <3>1. state[thread[p].call] = "connected"
      BY <2>1 DEF HandlesLive
    <3>2. H(p, legs[n].call, n)'
      BY <2>2
    <3> QED
      BY <2>1, <2>2, <3>1, <3>2
  <2> QED
    BY <2>2, <2>4, <2>5, <2>6, <2>7
<1>10. ASSUME NEW p \in Phones, Store(p) PROVE Goal
  <2>0. PICK c \in Calls : c = thread[p].call
    BY <1>3, <1>10 DEF Store
  <2>1. /\ thread[p].pc = "starting"
        /\ Legs' = Legs
        /\ \A i \in Legs : legs'[i].call = legs[i].call /\ legs'[i].run = legs[i].run
        /\ sessions'[c] = Mine(p)
        /\ \A d \in Calls : d # c => sessions'[d] = sessions[d]
    BY <1>10, <2>0, StoredNow DEF Typed
  <2>2. /\ UNCHANGED <<state, three, ports>>
        /\ \A q \in Phones : thread'[q].pc = "idle"
    BY <1>10, <2>1 DEF Store, Idle, OneHandler, Typed
  <2>3. /\ sessions[c] = {} /\ state[c] = "connected" /\ AllAcked(c)
    BY <1>2, <2>0, <2>1 DEF HandlesLive
  <2>4. ASSUME NEW d \in Calls PROVE S(d)'
    BY <1>2, <2>1, <2>2, <2>3, AckedKept
  <2>5. ASSUME NEW q \in Phones PROVE T(q)'
    BY <2>2
  <2>6. ASSUME NEW i \in Legs PROVE R(i)'
    <3>1. CASE i \in sessions[legs[i].call]
      BY <1>2, <1>3, <2>1, <2>2, <2>3, <3>1
    <3>2. ASSUME NEW q \in Phones, H(q, legs[i].call, i) PROVE R(i)'
      <4>1. q = p
        BY <2>1, <3>2 DEF OneHandler
      <4>2. legs[i].call = c /\ i \in Mine(p)
        BY <2>0, <3>2, <4>1
      <4> QED
        BY <2>1, <2>2, <2>3, <4>2
    <3> QED
      BY <1>2, <2>1, <3>1, <3>2
  <2> QED
    BY <2>1, <2>4, <2>5, <2>6
<1>11. ASSUME NEW i \in 1..MaxLegs, Arm(i) PROVE Goal
  <2>1. /\ UNCHANGED <<state, three, ports, thread, sessions>> /\ Legs' = Legs
        /\ \A j \in Legs : legs'[j].call = legs[j].call /\ legs'[j].run = legs[j].run
    BY <1>11, Armed DEF Arm
  <2>2. \A q \in Phones : Mine(q)' = Mine(q)
    BY <2>1, ThreadsKept
  <2>3. ASSUME NEW d \in Calls PROVE S(d)'
    BY <1>2, <2>1, AckedKept
  <2> QED
    BY <1>2, <2>1, <2>2, <2>3
<1>12. CASE UNCHANGED vars
  <2>1. UNCHANGED <<state, three, ports, thread, sessions, legs>> /\ Legs' = Legs
    BY <1>12 DEF vars, Legs
  <2>2. \A q \in Phones : Mine(q)' = Mine(q)
    BY <2>1, ThreadsKept
  <2>3. ASSUME NEW d \in Calls PROVE S(d)'
    BY <1>2, <2>1, AckedKept
  <2> QED
    BY <1>2, <2>1, <2>2, <2>3
<1> QED
  BY <1>4, <1>5, <1>6, <1>7, <1>8, <1>9, <1>10, <1>11, <1>12 DEF Next, Handler

-----------------------------------------------------------------------------
(* The theorems *)

LEMMA InitEstablishes == Init => MediaInv
<1> SUFFICES ASSUME Init PROVE MediaInv
  OBVIOUS
<1>1. /\ legs = <<>> /\ Len(legs) = 0 /\ Legs = {}
  BY EmptySeq DEF Init, Legs
<1>2. Idle \in Thread /\ Idle.pc = "idle" /\ Idle.mine = <<>>
  BY EmptySeq DEF Idle, Thread
<1>3. \A p \in Phones : thread[p] = Idle /\ Mine(p) = {}
  BY <1>2, EmptySeq DEF Init, Mine
<1>4. Typed
  <2>1. legs \in Seq(Leg) /\ 0 <= MaxLegs
    BY <1>1, EmptySeq, MediaAssumption
  <2>2. setting \in Setting
    BY MediaAssumption DEF Init
  <2>3. /\ thread \in [Phones -> Thread] /\ sessions \in [Calls -> SUBSET Legs]
    BY <1>2 DEF Init
  <2> QED
    BY <1>1, <1>2, <1>3, <2>1, <2>2, <2>3 DEF Init, Typed
<1>5. Apart /\ NoThirds /\ NoHolds /\ Unarmed /\ InTurn /\ Matched /\ OneHandler
  BY <1>1, <1>2, <1>3
     DEF Apart, NoThirds, NoHolds, Unarmed, InTurn, Matched, OneHandler, Init
<1>6. AckedOnce /\ HandlesLive /\ NoneForgotten
  BY <1>1, <1>2, <1>3 DEF AckedOnce, HandlesLive, NoneForgotten, Init
<1> QED
  BY <1>4, <1>5, <1>6 DEF MediaInv

LEMMA StepPreserves == MediaInv /\ [Next]_vars => MediaInv'
BY TypedStep, ApartStep, NoThirdsStep, UnarmedStep, InTurnStep, MatchedStep,
   OneHandlerStep, AckedOnceStep, HandlesLiveStep, NoneForgottenStep DEF MediaInv

LEMMA InvariantHolds == Spec => []MediaInv
BY InitEstablishes, StepPreserves, PTL DEF Spec

(* The media hub's tables keep their types, whatever its sessions do at the *)
(* same time; in an orderly hub no party owes a call two acks.              *)
THEOREM MediaTypeOK == Spec => []TypeOK
<1>1. MediaInv => TypeOK
  <2> SUFFICES ASSUME MediaInv PROVE TypeOK
    OBVIOUS
  <2>1. Typed /\ AckedOnce
    BY DEF MediaInv
  <2>2. acks \in [Phones -> [Calls -> IF Orderly THEN 0..1 ELSE Nat]]
    BY <2>1 DEF Typed, AckedOnce
  <2>3. \A i \in Legs : legs[i] \in Leg
    BY <2>1, LegsAre
  <2> QED
    BY <2>1, <2>2, <2>3 DEF Typed, TypeOK, Leg
<1> QED
  BY <1>1, InvariantHolds, PTL

LEMMA MatchedIsOneEach ==
  ASSUME Typed, Matched, Steady
  PROVE  OneEndpointEach /\ BridgeHeard
<1>1. ASSUME NEW c \in Calls, sessions[c] # {}, NEW p \in MembersOf(c)
      PROVE  Cardinality({i \in sessions[c] : legs[i].party = p}) = 1
  <2>1. PICK e \in [1..Len(Members(c)) -> Legs] : AreFor(e, c)
    BY <1>1 DEF Matched
  <2>2. PICK k \in 1..Len(Members(c)) : Members(c)[k] = p
    BY DEF MembersOf
  <2>3. \A l \in 1..Len(Members(c)) : Members(c)[l] = p => l = k
    BY <2>2, MembersAre
  <2>4. {i \in sessions[c] : legs[i].party = p} = {e[k]}
    BY <2>1, <2>2, <2>3 DEF AreFor
  <2> QED
    BY <2>4, FS_Singleton
<1>2. ASSUME NEW c \in Calls, NEW i \in sessions[c], NEW j \in sessions[c],
             setting.mode = "bridge", ~three[c]
      PROVE  Hears(i, j) <=> i # j
  <2>1. PICK e \in [1..Len(Members(c)) -> Legs] : AreFor(e, c)
    BY <1>2 DEF Matched
  <2>2. Len(Members(c)) = 2 /\ Members(c)[1] # Members(c)[2]
    BY <1>2, MembersAre, PhonesDiffer
  <2>3. /\ sessions[c] = {e[1], e[2]} /\ e[1] # e[2]
        /\ legs[e[1]].echo = <<e[1], e[2]>> /\ legs[e[1]].src = <<e[2], e[1]>>
        /\ legs[e[2]].echo = <<e[2], e[1]>> /\ legs[e[2]].src = <<e[1], e[2]>>
        /\ e[1] \in Legs /\ e[2] \in Legs
    BY <1>2, <2>1, <2>2 DEF AreFor
  <2>4. e[1] # 0 /\ e[2] # 0
    BY <2>3, LegsAre
  <2> QED
    BY <2>3, <2>4 DEF Hears, Silence
<1> QED
  BY <1>1, <1>2 DEF OneEndpointEach, BridgeHeard

(* A call with media has one endpoint for each party, none twice and none   *)
(* left out, and over a bridge the two parties hear each other: with        *)
(* sessions that take turns, or however their handlers overlap when no      *)
(* third party joins.                                                       *)
THEOREM PartiesAreMatched ==
  Spec => [](Orderly \/ ~setting.confer => OneEndpointEach /\ BridgeHeard)
<1>1. MediaInv => (Orderly \/ ~setting.confer => OneEndpointEach /\ BridgeHeard)
  BY MatchedIsOneEach DEF MediaInv, Steady
<1> QED
  BY <1>1, InvariantHolds, PTL

(* ... and when the sessions take turns and no call is held, an endpoint    *)
(* that runs is one of a call that is up, which will stop it.               *)
THEOREM EndpointsAreMatched ==
  ASSUME Orderly
  PROVE  Spec => []EndpointsMatchCalls
<1>1. MediaInv => EndpointsMatchCalls
  <2> SUFFICES ASSUME MediaInv PROVE EndpointsMatchCalls
    OBVIOUS
  <2>1. OneEndpointEach /\ BridgeHeard
    BY MatchedIsOneEach DEF MediaInv, Steady
  <2>2. ASSUME ~setting.hold, Quiet, NEW i \in Legs, legs[i].run
        PROVE  i \in sessions[legs[i].call] /\ state[legs[i].call] \in {"connected", "held"}
    BY <2>2 DEF MediaInv, NoneForgotten, Quiet
  <2> QED
    BY <2>1, <2>2 DEF EndpointsMatchCalls, EndpointsEndWithCalls
<1> QED
  BY <1>1, InvariantHolds, PTL

-----------------------------------------------------------------------------
(* The menu of the IVR *)

CONSTANTS Keys, NoKey, LoopbackKeys, ToneKeys, HangupKeys, MaxPresses, Patient, Prompt
VARIABLES pc, ch, last, queue, event, stop, source, session, pressed, handled

Ivr == INSTANCE IvrScript

Choice(k) ==
  IF k \in LoopbackKeys THEN "echo" ELSE IF k \in ToneKeys THEN "tone" ELSE "silence"

(* No key is asked for: the menu waits, or does what the last key chose.    *)
Served(k) ==
  /\ pc \in {"wait", "clear", "waiting", "loopback", "tone", "hangup", "ended"}
  /\ pc \in {"wait", "clear", "waiting"} => source = Choice(k)
  /\ pc \in {"loopback", "tone", "hangup"} => Ivr!Label(k) = pc

Rests ==
  /\ handled = pressed
  /\ session.pc = "idle" /\ queue = <<>>
  /\ pc \notin {"got", "switch"}
  /\ pc = "waiting" /\ event => stop
  /\ ~stop /\ handled # <<>> => Served(handled[Len(handled)])
  /\ handled = <<>> => pc \notin {"loopback", "tone", "hangup"}

(* One key is: it is given to the menu, queued, taken, or to be switched on. *)
Answers(k) ==
  /\ pressed = Append(handled, k)
  /\ \/ session.pc = "append" /\ session.key = k /\ queue = <<>>
          /\ pc \in {"playing", "waiting"}
     \/ session.pc \in {"signal", "cut"} /\ queue = <<k>> /\ pc \in {"playing", "waiting"}
     \/ session.pc = "idle" /\ queue = <<k>> /\ pc \in {"playing", "waiting", "wait"}
     \/ session.pc = "idle" /\ queue = <<>> /\ pc = "got" /\ ch = k
     \/ session.pc = "idle" /\ queue = <<>> /\ pc = "switch" /\ last = k
     \/ session.pc = "idle" /\ pc = "ended"
  /\ session.pc = "idle" /\ ~stop => source = "silence"

(* Only keys are submitted, and the runner goes on with a key only.         *)
WellKept ==
  /\ Ivr!TypeOK /\ DOMAIN session = {"pc", "key"}
  /\ session.pc = "append" => session.key \in Keys
  /\ pc = "got" => ch \in Keys
  /\ pc = "switch" => last \in Keys

IvrInv ==
  /\ WellKept
  /\ stop <=> source = "none"
  /\ pc = "ended" => stop
  /\ Rests \/ \E k \in Keys : Answers(k)

(* What the menu does for a key.                                            *)
LEMMA LabelIs ==
  ASSUME Ivr!IvrAssumption, NEW k \in Keys
  PROVE  /\ k \in LoopbackKeys => Ivr!Label(k) = "loopback" /\ Choice(k) = "echo"
         /\ k \in ToneKeys => Ivr!Label(k) = "tone" /\ Choice(k) = "tone"
         /\ k \in HangupKeys => Ivr!Label(k) = "hangup" /\ Choice(k) = "silence"
         /\ k \notin LoopbackKeys \cup ToneKeys \cup HangupKeys =>
              Ivr!Label(k) = "wait" /\ Choice(k) = "silence"
<1>1. k \in LoopbackKeys => k \notin ToneKeys /\ k \notin HangupKeys
  BY DEF Ivr!IvrAssumption
<1>2. k \in ToneKeys => k \notin LoopbackKeys /\ k \notin HangupKeys
  BY DEF Ivr!IvrAssumption
<1>3. k \in HangupKeys => k \notin LoopbackKeys /\ k \notin ToneKeys
  BY DEF Ivr!IvrAssumption
<1> QED
  BY <1>1, <1>2, <1>3 DEF Ivr!Label, Choice

(* A key is taken off a queue that holds only it.                           *)
LEMMA OneQueued ==
  ASSUME NEW k \in Keys
  PROVE  /\ <<k>> \in Seq(Keys) /\ <<k>> # <<>>
         /\ Head(<<k>>) = k /\ Tail(<<k>>) = <<>> /\ Append(<<>>, k) = <<k>>
OBVIOUS

LEMMA WellKeptStep ==
  ASSUME Ivr!IvrAssumption, WellKept, Ivr!Next
  PROVE  WellKept'
<1> USE DEF WellKept, Ivr!TypeOK
<1>1. ASSUME NEW k \in Keys, Ivr!Press(k)
      PROVE  WellKept'
  BY <1>1 DEF Ivr!Press
<1>2. CASE Ivr!Enqueue
  BY <1>2 DEF Ivr!Enqueue
<1>3. CASE Ivr!WakeRunner
  BY <1>3 DEF Ivr!WakeRunner, Ivr!Signal
<1>4. CASE Ivr!CutOff
  BY <1>4 DEF Ivr!CutOff, Ivr!Plays
<1>5. CASE Ivr!HangUp
  BY <1>5 DEF Ivr!HangUp, Ivr!StopRunner
<1>6. CASE Ivr!PlayStart \/ Ivr!BargeIn \/ Ivr!PlayEnds
  BY <1>6 DEF Ivr!PlayStart, Ivr!BargeIn, Ivr!PlayEnds, Ivr!Goto, Ivr!Plays
<1>7. CASE Ivr!TakeQueued \/ Ivr!Woken
  <2>1. Ivr!Take \in Keys \cup {NoKey} /\ Ivr!Rest \in Seq(Keys)
    BY DEF Ivr!Take, Ivr!Rest
  <2>2. queue # <<>> => Ivr!Take \in Keys
    BY DEF Ivr!Take
  <2>3. /\ ch' = Ivr!Take /\ queue' = Ivr!Rest /\ event' \in BOOLEAN
        /\ pc' \in {"got", "waiting", "ended"} /\ (pc' = "got" => ch' \in Keys)
    BY <1>7, <2>1, <2>2 DEF Ivr!TakeQueued, Ivr!Woken, Ivr!Goto
  <2>4. UNCHANGED <<last, stop, source, session, pressed, handled>>
    BY <1>7 DEF Ivr!TakeQueued, Ivr!Woken
  <2> QED
    BY <2>1, <2>3, <2>4
<1>8. CASE Ivr!NothingQueued \/ Ivr!ClearEvent \/ Ivr!WaitAborted \/ Ivr!Got
  BY <1>8 DEF Ivr!NothingQueued, Ivr!ClearEvent, Ivr!WaitAborted, Ivr!Got, Ivr!Goto, Ivr!At
<1>9. CASE Ivr!Switch
  <2>1. last \in Keys
    BY <1>9 DEF Ivr!Switch, Ivr!At
  <2>2. Ivr!Label(last) \in {"loopback", "tone", "hangup", "wait"}
    BY <2>1, LabelIs
  <2> QED
    BY <1>9, <2>1, <2>2 DEF Ivr!Switch, Ivr!Goto
<1>10. CASE Ivr!SetSource("loopback") \/ Ivr!SetSource("tone")
  BY <1>10 DEF Ivr!SetSource, Ivr!SourceOf, Ivr!Plays, Ivr!Goto
<1>11. CASE Ivr!End
  BY <1>11 DEF Ivr!End
<1> QED
  BY <1>1, <1>2, <1>3, <1>4, <1>5, <1>6, <1>7, <1>8, <1>9, <1>10, <1>11
  DEF Ivr!Next, Ivr!Submit, Ivr!Runner

(* The endpoint is stopped with the runner.                                 *)
LEMMA IvrStops ==
  ASSUME IvrInv, Ivr!Next
  PROVE  (stop <=> source = "none")' /\ (pc = "ended" => stop)'
<1> USE DEF IvrInv, Ivr!Plays, Ivr!Goto, Ivr!Stopped
<1>1. ASSUME NEW k \in Keys, Ivr!Press(k)
      PROVE  (stop <=> source = "none")' /\ (pc = "ended" => stop)'
  BY <1>1 DEF Ivr!Press
<1>2. CASE Ivr!Submit
  BY <1>2 DEF Ivr!Submit, Ivr!Enqueue, Ivr!WakeRunner, Ivr!CutOff
<1>3. CASE Ivr!HangUp \/ Ivr!End
  BY <1>3 DEF Ivr!HangUp, Ivr!End, Ivr!StopRunner
<1>4. CASE Ivr!PlayStart \/ Ivr!BargeIn \/ Ivr!PlayEnds
  BY <1>4 DEF Ivr!PlayStart, Ivr!BargeIn, Ivr!PlayEnds
<1>5. CASE Ivr!TakeQueued \/ Ivr!Woken
  BY <1>5 DEF Ivr!TakeQueued, Ivr!Woken
<1>6. CASE Ivr!NothingQueued \/ Ivr!ClearEvent \/ Ivr!WaitAborted \/ Ivr!Got
  BY <1>6 DEF Ivr!NothingQueued, Ivr!ClearEvent, Ivr!WaitAborted, Ivr!Got
<1>7. CASE Ivr!Switch
  <2>1. Ivr!Label(last) # "ended"
    BY DEF Ivr!Label
  <2> QED
    BY <1>7, <2>1 DEF Ivr!Switch
<1>8. CASE Ivr!SetSource("loopback") \/ Ivr!SetSource("tone")
  BY <1>8 DEF Ivr!SetSource, Ivr!SourceOf
<1> QED
  BY <1>1, <1>2, <1>3, <1>4, <1>5, <1>6, <1>7, <1>8 DEF Ivr!Next, Ivr!Runner

(* With nothing asked for, the caller may press a key, hang up, or let the  *)
(* menu do what it was told.                                                *)
LEMMA RestsStep ==
  ASSUME Ivr!IvrAssumption, Patient, IvrInv, Rests, Ivr!Next
  PROVE  Rests' \/ \E k \in Keys : Answers(k)'
<1> USE DEF IvrInv, WellKept, Ivr!TypeOK, Ivr!Goto, Ivr!Stopped, Ivr!Plays
<1>1. ASSUME NEW k \in Keys, Ivr!Press(k)
      PROVE  Answers(k)'
  BY <1>1 DEF Ivr!Press, Ivr!Waits, Rests, Answers
<1>2. CASE Ivr!Submit
  BY <1>2 DEF Ivr!Submit, Ivr!Enqueue, Ivr!WakeRunner, Ivr!CutOff, Rests
<1>3. CASE Ivr!HangUp
  BY <1>3 DEF Ivr!HangUp, Ivr!StopRunner, Rests
<1>4. CASE Ivr!PlayStart \/ Ivr!BargeIn \/ Ivr!PlayEnds
  BY <1>4 DEF Ivr!PlayStart, Ivr!BargeIn, Ivr!PlayEnds, Ivr!At, Rests, Served
<1>5. CASE Ivr!TakeQueued \/ Ivr!Got \/ Ivr!Switch
  BY <1>5 DEF Ivr!TakeQueued, Ivr!Got, Ivr!Switch, Ivr!At, Rests
<1>6. CASE Ivr!NothingQueued
  BY <1>6 DEF Ivr!NothingQueued, Ivr!At, Rests, Served
<1>7. CASE Ivr!ClearEvent
  BY <1>7 DEF Ivr!ClearEvent, Ivr!At, Rests, Served
<1>8. CASE Ivr!Woken
  <2>1. stop /\ Ivr!Rest = queue
    BY <1>8 DEF Ivr!Woken, Ivr!At, Ivr!Rest, Rests
  <2> QED
    BY <1>8, <2>1 DEF Ivr!Woken, Rests
<1>9. CASE Ivr!WaitAborted
  BY <1>9 DEF Ivr!WaitAborted, Ivr!At, Rests
<1>10. ASSUME NEW p \in {"loopback", "tone"}, Ivr!SetSource(p)
       PROVE  Rests'
  <2>1. CASE stop
    BY <1>10, <2>1 DEF Ivr!SetSource, Rests
  <2>2. CASE ~stop
    <3>1. PICK k \in Keys : k = handled[Len(handled)] /\ Ivr!Label(k) = p
      BY <1>10, <2>2 DEF Ivr!SetSource, Ivr!At, Rests, Served
    <3>2. Choice(k) = Ivr!SourceOf(p)
      BY <3>1, LabelIs DEF Ivr!SourceOf
    <3>3. pc' = "wait" /\ source' = Choice(k) /\ UNCHANGED <<queue, event, stop, session, pressed, handled>>
      BY <1>10, <2>2, <3>2 DEF Ivr!SetSource
    <3> QED
      BY <2>2, <3>1, <3>3 DEF Rests, Served
  <2> QED
    BY <2>1, <2>2
<1>11. CASE Ivr!End
  BY <1>11 DEF Ivr!End, Rests
<1> QED
  BY <1>1, <1>2, <1>3, <1>4, <1>5, <1>6, <1>7, <1>8, <1>9, <1>10, <1>11
  DEF Ivr!Next, Ivr!Runner

(* A key that is asked for gets on towards its answer, or the call is over. *)
LEMMA AnswersStep ==
  ASSUME Ivr!IvrAssumption, Patient, Prompt, IvrInv, NEW k \in Keys, Answers(k), Ivr!Next
  PROVE  Rests' \/ Answers(k)'
<1> USE DEF IvrInv, WellKept, Ivr!TypeOK, Ivr!Goto, Ivr!Stopped, Ivr!Plays
<1>1. ~ \E l \in Keys : Ivr!Press(l)
  <2>1. Len(pressed) # Len(handled)
    BY DEF Answers
  <2> QED
    BY <2>1 DEF Ivr!Press, Ivr!Waits
<1>2. CASE Ivr!Enqueue
  BY <1>2, OneQueued DEF Ivr!Enqueue, Answers
<1>3. CASE Ivr!WakeRunner \/ Ivr!CutOff
  BY <1>3 DEF Ivr!WakeRunner, Ivr!CutOff, Ivr!Signal, Answers
<1>4. CASE Ivr!HangUp
  BY <1>4 DEF Ivr!HangUp, Ivr!StopRunner, Answers
<1>5. CASE Ivr!PlayStart \/ Ivr!BargeIn \/ Ivr!PlayEnds
  BY <1>5, OneQueued DEF Ivr!PlayStart, Ivr!BargeIn, Ivr!PlayEnds, Ivr!At, Answers
<1>6. CASE Ivr!TakeQueued \/ Ivr!Woken
  <2>1. queue = <<k>> /\ session.pc = "idle" /\ pc \in {"wait", "waiting"}
    BY <1>6 DEF Ivr!TakeQueued, Ivr!Woken, Ivr!At, Answers
  <2>2. Ivr!Take = k /\ Ivr!Rest = <<>> /\ k # NoKey
    BY <2>1, OneQueued DEF Ivr!Take, Ivr!Rest, Ivr!IvrAssumption
  <2>3. ch' = k /\ queue' = <<>> /\ pc' \in {"got", "ended"} /\ (pc' = "ended" => stop)
    BY <1>6, <2>2 DEF Ivr!TakeQueued, Ivr!Woken
  <2>4. UNCHANGED <<stop, source, session, pressed, handled>>
    BY <1>6 DEF Ivr!TakeQueued, Ivr!Woken
  <2> QED
    BY <2>1, <2>3, <2>4 DEF Answers
<1>7. CASE Ivr!NothingQueued \/ Ivr!ClearEvent
  BY <1>7, OneQueued DEF Ivr!NothingQueued, Ivr!ClearEvent, Ivr!At, Answers
<1>8. CASE Ivr!WaitAborted \/ Ivr!Got
  BY <1>8 DEF Ivr!WaitAborted, Ivr!Got, Ivr!At, Answers
<1>9. CASE Ivr!Switch
  <2>1. session.pc = "idle" /\ queue = <<>> /\ pc = "switch" /\ last = k
    BY <1>9 DEF Ivr!Switch, Ivr!At, Answers
  <2>2. pressed' = pressed /\ handled' = pressed /\ handled' # <<>> /\ handled'[Len(handled')] = k
    BY <1>9, <2>1 DEF Ivr!Switch, Answers
  <2>3. pc' = (IF stop THEN "ended" ELSE Ivr!Label(k)) /\ UNCHANGED <<source, stop, session, queue, event>>
    BY <1>9, <2>1, LabelIs DEF Ivr!Switch
  <2>4. ~stop => source = "silence"
    BY <2>1 DEF Answers
  <2>5. Ivr!Label(k) \in {"loopback", "tone", "hangup", "wait"}
        /\ (Ivr!Label(k) = "wait" => Choice(k) = "silence")
    BY LabelIs
  <2>6. ~stop => Served(k)'
    <3>1. Choice(k)' = Choice(k) /\ Ivr!Label(k)' = Ivr!Label(k)
      BY DEF Choice, Ivr!Label
    <3> QED
      BY <2>3, <2>4, <2>5, <3>1 DEF Served
  <2> QED
    BY <2>1, <2>2, <2>3, <2>5, <2>6 DEF Rests
<1>10. CASE Ivr!SetSource("loopback") \/ Ivr!SetSource("tone") \/ Ivr!End
  BY <1>10 DEF Ivr!SetSource, Ivr!End, Ivr!At, Answers
<1> QED
  BY <1>1, <1>2, <1>3, <1>4, <1>5, <1>6, <1>7, <1>8, <1>9, <1>10
  DEF Ivr!Next, Ivr!Submit, Ivr!Runner

LEMMA WellKeptHolds ==
  ASSUME Ivr!IvrAssumption
  PROVE  Ivr!Spec => []WellKept
<1>1. Ivr!Init => WellKept
  <2>1. SUFFICES ASSUME Ivr!Init PROVE WellKept
    OBVIOUS
  <2>2. /\ session.pc = "idle" /\ session.key = NoKey /\ DOMAIN session = {"pc", "key"}
        /\ <<>> \in Seq(Keys)
    BY <2>1 DEF Ivr!Init
  <2> QED
    BY <2>1, <2>2 DEF Ivr!Init, Ivr!TypeOK, WellKept
<1>2. WellKept /\ [Ivr!Next]_(Ivr!vars) => WellKept'
  <2>1. WellKept /\ UNCHANGED Ivr!vars => WellKept'
    BY DEF Ivr!vars, WellKept, Ivr!TypeOK
  <2> QED
    BY <2>1, WellKeptStep
<1> QED
  BY <1>1, <1>2, PTL DEF Ivr!Spec

(* Whenever keys are pressed, and however the two threads overlap, the      *)
(* variables of the script keep their types: what it switches on is a key   *)
(* (IvrScript; _take_digit may return None, ivr_macro_runner.py).           *)
THEOREM MenuTyped ==
  ASSUME Ivr!IvrAssumption
  PROVE  Ivr!Spec => []Ivr!TypeOK
<1>1. WellKept => Ivr!TypeOK
  BY DEF WellKept
<1> QED
  BY <1>1, WellKeptHolds, PTL

LEMMA IvrInvariant ==
  ASSUME Ivr!IvrAssumption, Patient, Prompt
  PROVE  Ivr!Spec => []IvrInv
<1> DEFINE Rest == /\ stop <=> source = "none"
                   /\ pc = "ended" => stop
                   /\ Rests \/ \E k \in Keys : Answers(k)
<1>1. Ivr!Init => Rest
  <2>1. SUFFICES ASSUME Ivr!Init PROVE Rest
    OBVIOUS
  <2>2. session.pc = "idle"
    BY <2>1 DEF Ivr!Init
  <2> QED
    BY <2>1, <2>2 DEF Ivr!Init, Rests
<1>2. WellKept /\ Rest /\ [Ivr!Next]_(Ivr!vars) => Rest'
  <2>1. SUFFICES ASSUME IvrInv, [Ivr!Next]_(Ivr!vars)
                 PROVE  Rest'
    BY DEF IvrInv
  <2>2. CASE Ivr!Next
    <3>1. Rests' \/ \E k \in Keys : Answers(k)'
      BY <2>1, <2>2, RestsStep, AnswersStep DEF IvrInv
    <3> QED
      BY <2>1, <2>2, <3>1, IvrStops
  <2>3. CASE UNCHANGED Ivr!vars
    BY <2>1, <2>3 DEF Ivr!vars, IvrInv, Rests, Served, Answers, Ivr!Label, Choice
  <2> QED
    BY <2>1, <2>2, <2>3
<1>3. WellKept /\ Rest => IvrInv
  BY DEF IvrInv
<1> HIDE DEF Rest
<1> QED
  BY <1>1, <1>2, <1>3, WellKeptHolds, PTL DEF Ivr!Spec

(* The menu of any script with one case for a key acts on the keys of a     *)
(* caller who waits for it, each once and in order, and plays what the last *)
(* one chose (IvrScript; _take_digit, ivr_macro_runner.py).                 *)
THEOREM MenuIsHeard ==
  ASSUME Ivr!IvrAssumption, Patient, Prompt
  PROVE  Ivr!Spec => [](Ivr!HandledInOrder /\ Ivr!MenuHeard)
<1>1. IvrInv => Ivr!HandledInOrder
  <2>1. SUFFICES ASSUME IvrInv PROVE Ivr!HandledInOrder
    OBVIOUS
  <2>2. handled \in Seq(Keys) /\ pressed \in Seq(Keys)
    BY <2>1 DEF IvrInv, WellKept, Ivr!TypeOK
  <2>3. handled = pressed \/ \E k \in Keys : pressed = Append(handled, k)
    BY <2>1 DEF IvrInv, Rests, Answers
  <2>4. Len(handled) <= Len(pressed) /\ SubSeq(handled, 1, Len(handled)) = SubSeq(pressed, 1, Len(handled))
    BY <2>2, <2>3
  <2> QED
    BY <2>4 DEF Ivr!HandledInOrder, Ivr!IsPrefix
<1>2. IvrInv => Ivr!MenuHeard
  <2>1. SUFFICES ASSUME IvrInv, pc = "waiting", ~stop, session.pc = "idle",
                        queue = <<>>, handled # <<>>
                 PROVE  source = CASE Ivr!Last(handled) \in LoopbackKeys -> "echo"
                                   [] Ivr!Last(handled) \in ToneKeys -> "tone"
                                   [] OTHER -> "silence"
    BY DEF Ivr!MenuHeard
  <2>2. PICK k \in Keys : k = handled[Len(handled)]
    BY <2>1 DEF IvrInv, WellKept, Ivr!TypeOK
  <2>3. ~ \E l \in Keys : Answers(l)
    BY <2>1, OneQueued DEF Answers
  <2>4. source = Choice(k)
    BY <2>1, <2>2, <2>3 DEF IvrInv, Rests, Served
  <2>5. Ivr!Last(handled) = k
    BY <2>2 DEF Ivr!Last
  <2> QED
    BY <2>4, <2>5 DEF Choice, Ivr!IvrAssumption
<1> QED
  BY <1>1, <1>2, IvrInvariant, PTL
=============================================================================
