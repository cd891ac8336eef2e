----------------------------- MODULE TftpProofs -----------------------------
(***************************************************************************)
(* Proofs about what brings a phone its configuration, for any phones,     *)
(* file sizes, versions, devices, threads and bounds: the relay implements *)
(* FileTransfer and has one open session for each phone; directory numbers *)
(* are distinct, and a phone without an export downloads its own in the    *)
(* first run.                                                              *)
(***************************************************************************)
EXTENDS DeviceConfigs, TftpRelay, SequenceTheorems, TLAPS

-----------------------------------------------------------------------------
(* The relay: the invariant *)

Under == toPhone \cup toUpstream

(* What is under way is for a session that was opened. *)
Addressed == \A m \in Under : m.to <= Len(relay)

(* A session's request reaches a server that has not started for it. *)
AskedOnce ==
  /\ \A q \in toServer : q.type = "rrq" => q.n = 0 /\ server[q.to].st = "none"
  /\ \A s \in Sessions : s > Len(relay) => server[s].st = "none"

(* A transfer of the server has one version, and so have its blocks. *)
OneVersion ==
  /\ \A s \in Sessions : server[s].st = "sending" => server[s].n >= 1 /\ server[s].v \in Versions
  /\ \A m \in Under : m.type = "data" => server[m.to].st # "none" /\ m.v = server[m.to].v

(* The version a phone has is that of the session it talks to. *)
HeardFrom == \A c \in Clients :
  /\ phone[c].pc = "getting" => phone[c].got > 0
  /\ phone[c].got > 0 =>
       /\ phone[c].face \in 1..Len(relay)
       /\ server[phone[c].face].st # "none"
       /\ phone[c].v = server[phone[c].face].v

RelayInv ==
  RelayTypeOK /\ OneSessionEach /\ Addressed /\ AskedOnce /\ OneVersion /\ HeardFrom

-----------------------------------------------------------------------------
LEMMA SettingIs ==
  ASSUME RelayTypeOK
  PROVE  setting.tries \in 0..MaxTries /\ setting.losses \in 0..MaxLost
BY RelayAssumption DEF RelayTypeOK, Setting

LEMMA NothingHeard ==
  ASSUME RelayInit
  PROVE  HeardFrom
<1>1. \A d \in Clients : phone[d] = NoDownload
  BY DEF RelayInit
<1>2. NoDownload.pc = "idle"
  BY DEF NoDownload
<1>3. NoDownload.got = 0
  BY DEF NoDownload
<1> QED
  BY <1>1, <1>2, <1>3 DEF HeardFrom

LEMMA InitRelay ==
  ASSUME RelayInit
  PROVE  RelayInv
<1>1. phone \in [Clients -> Phones]
  BY RelayAssumption DEF RelayInit, Phones, PhonePcs, NoDownload
<1>2. server \in [Sessions -> Transfers]
  BY RelayAssumption DEF RelayInit, Transfers, NoTransfer
<1>3. relay \in Seq(Sockets) /\ Len(relay) = 0 /\ sessions \in [Clients -> 0..Len(relay)]
  BY DEF RelayInit
<1>4. RelayTypeOK
  BY <1>1, <1>2, <1>3, RelayAssumption DEF RelayInit, RelayTypeOK
<1>5. Addressed /\ AskedOnce /\ OneVersion
  <2>1. NoTransfer.st = "none"
    BY DEF NoTransfer
  <2> QED
    BY <2>1 DEF RelayInit, Addressed, AskedOnce, OneVersion, Under
<1>6. OneSessionEach
  BY <1>3 DEF RelayInit, OneSessionEach
<1>7. HeardFrom
  BY NothingHeard
<1> QED
  BY <1>4, <1>5, <1>6, <1>7 DEF RelayInv

(* What a step leaves alone, it keeps. *)
LEMMA FrameKeeps ==
  ASSUME RelayInv, RelayTypeOK', UNCHANGED <<sessions, relay, server>>, Under' \subseteq Under,
         \A q \in toServer' : q.type = "rrq" => q \in toServer,
         HeardFrom'
  PROVE  RelayInv'
<1>1. OneSessionEach'
  BY DEF RelayInv, OneSessionEach
<1>2. Addressed'
  BY DEF RelayInv, Addressed
<1>3. AskedOnce'
  BY DEF RelayInv, AskedOnce
<1>4. OneVersion'
  BY DEF RelayInv, OneVersion
<1> QED
  BY <1>1, <1>2, <1>3, <1>4 DEF RelayInv

LEMMA PhoneChanged ==
  ASSUME phone \in [Clients -> Phones], NEW c \in Clients, NEW p \in Phones,
         phone' = [phone EXCEPT ![c] = p]
  PROVE  phone' \in [Clients -> Phones] /\ \A d \in Clients : phone'[d] = IF d = c THEN p ELSE phone[d]
OBVIOUS

(* What a phone has received stays as it is, unless a block comes. *)
LEMMA SameDownload ==
  ASSUME RelayInv, NEW c \in Clients,
         \/ Ask(c)
         \/ PhoneTimesOut(c)
         \/ phone[c].pc \in {"asked", "getting"} /\ phone' = [phone EXCEPT ![c].pc = "failed"]
  PROVE  /\ phone' \in [Clients -> Phones]
         /\ \A d \in Clients :
              /\ phone'[d].got = phone[d].got /\ phone'[d].face = phone[d].face
              /\ phone'[d].v = phone[d].v /\ (phone'[d].pc = "getting" => phone[d].pc = "getting")
         /\ \A d \in Clients \ {c} : phone'[d] = phone[d]
         /\ phone'[c].pc \in {"asked", "failed", phone[c].pc}
         /\ phone[c].pc \notin {"done", "failed"}
<1>1. phone \in [Clients -> Phones] /\ phone[c] \in Phones
  BY DEF RelayInv, RelayTypeOK
<1>2. phone[c].pc \in {"idle", "asked", "getting"}
  BY DEF Ask, PhoneTimesOut
<1>3. PICK p \in Phones :
        /\ phone' = [phone EXCEPT ![c] = p]
        /\ p.got = phone[c].got /\ p.face = phone[c].face /\ p.v = phone[c].v
        /\ p.pc \in {"asked", "failed", phone[c].pc}
  <2>1. ASSUME NEW x \in PhonePcs, phone' = [phone EXCEPT ![c].pc = x]
        PROVE  LET p == [phone[c] EXCEPT !.pc = x] IN
               /\ p \in Phones /\ phone' = [phone EXCEPT ![c] = p]
               /\ p.got = phone[c].got /\ p.face = phone[c].face /\ p.v = phone[c].v
               /\ p.pc = x
    BY <1>1, <2>1 DEF Phones
  <2>2. ASSUME phone[c].tries < setting.tries, phone' = [phone EXCEPT ![c].tries = @ + 1]
        PROVE  LET p == [phone[c] EXCEPT !.tries = @ + 1] IN
               /\ p \in Phones /\ phone' = [phone EXCEPT ![c] = p]
               /\ p.got = phone[c].got /\ p.face = phone[c].face /\ p.v = phone[c].v
               /\ p.pc = phone[c].pc
    BY <1>1, <2>2, SettingIs, RelayAssumption DEF RelayInv, Phones
  <2>3. "asked" \in PhonePcs /\ "failed" \in PhonePcs
    BY DEF PhonePcs
  <2>4. \/ phone' = [phone EXCEPT ![c].pc = "asked"]
        \/ phone' = [phone EXCEPT ![c].pc = "failed"]
        \/ phone[c].tries < setting.tries /\ phone' = [phone EXCEPT ![c].tries = @ + 1]
    BY DEF Ask, PhoneTimesOut
  <2> QED
    BY <2>1, <2>2, <2>3, <2>4
<1>4. phone' \in [Clients -> Phones] /\ \A d \in Clients : phone'[d] = IF d = c THEN p ELSE phone[d]
  BY <1>1, <1>3, PhoneChanged
<1>5. \A d \in Clients :
              /\ phone'[d].got = phone[d].got /\ phone'[d].face = phone[d].face
              /\ phone'[d].v = phone[d].v /\ (phone'[d].pc = "getting" => phone[d].pc = "getting")
  BY <1>3, <1>4
<1> QED
  BY <1>2, <1>3, <1>4, <1>5

LEMMA AskKeeps ==
  ASSUME RelayInv, NEW c \in Clients, Ask(c) \/ PhoneTimesOut(c)
  PROVE  RelayInv'
<1>1. UNCHANGED <<setting, sessions, relay, toPhone, toUpstream,
                  toServer, server, current, lost>>
  BY DEF Ask, PhoneTimesOut
<1>2. /\ phone' \in [Clients -> Phones]
      /\ \A d \in Clients :
              /\ phone'[d].got = phone[d].got /\ phone'[d].face = phone[d].face
              /\ phone'[d].v = phone[d].v /\ (phone'[d].pc = "getting" => phone[d].pc = "getting")
  BY SameDownload
<1>3. HeardFrom'
  BY <1>1, <1>2 DEF RelayInv, HeardFrom
<1>4. control' \subseteq Clients
  <2>1. control \subseteq Clients
    BY DEF RelayInv, RelayTypeOK
  <2> QED
    BY <2>1 DEF Ask, PhoneTimesOut, Sends
<1>5. toFace' \subseteq [to: 1..Len(relay), n: 0..Blocks]
  <2>1. toFace \subseteq [to: 1..Len(relay), n: 0..Blocks]
    BY DEF RelayInv, RelayTypeOK
  <2>2. CASE Ask(c)
    BY <2>1, <2>2 DEF Ask
  <2>3. CASE PhoneTimesOut(c)
    <3>1. phone[c].got \in 0..Blocks
      BY DEF RelayInv, RelayTypeOK, Phones
    <3>2. phone[c].pc = "getting" => phone[c].face \in 1..Len(relay)
      BY DEF RelayInv, HeardFrom
    <3>3. \/ toFace' = toFace
          \/ /\ phone[c].pc = "getting"
             /\ toFace' = toFace \cup {[to |-> phone[c].face, n |-> phone[c].got]}
      BY <2>3 DEF PhoneTimesOut, Sends
    <3> QED
      BY <2>1, <3>1, <3>2, <3>3
  <2> QED
    BY <2>2, <2>3
<1>6. RelayTypeOK'
  BY <1>1, <1>2, <1>4, <1>5 DEF RelayInv, RelayTypeOK
<1> QED
  BY <1>1, <1>3, <1>6, FrameKeeps DEF Under

LEMMA PhoneTakesKeeps ==
  ASSUME RelayInv, NEW c \in Clients, NEW m, PhoneTakes(c, m)
  PROVE  RelayInv'
<1>1. m \in toPhone /\ m \in Data \cup Error /\ m.to \in 1..Len(relay) /\ m.to \in Sessions
  <2>1. m \in toPhone /\ m \in Data \cup Error /\ m.to <= Len(relay)
    BY DEF RelayInv, RelayTypeOK, PhoneTakes, Addressed, Under
  <2>2. m.to \in Sessions /\ Len(relay) \in Nat
    BY <2>1 DEF Data, Error, RelayInv, RelayTypeOK
  <2> QED
    BY <2>1, <2>2, RelayAssumption DEF Sessions
<1>2. UNCHANGED <<setting, control, sessions, relay, toServer,
                  toUpstream, server, current, lost>>
      /\ toPhone' = toPhone \ {m}
  BY DEF PhoneTakes
<1>3. phone \in [Clients -> Phones] /\ phone[c] \in Phones
  BY DEF RelayInv, RelayTypeOK
<1>4. m.n \in 0..Blocks
  BY <1>1, RelayAssumption DEF Data, Error
<1>5. toFace' \subseteq [to: 1..Len(relay), n: 0..Blocks]
  <2>1. toFace \subseteq [to: 1..Len(relay), n: 0..Blocks]
    BY DEF RelayInv, RelayTypeOK
  <2>2. toFace' \subseteq toFace \cup {[to |-> m.to, n |-> m.n]}
    BY DEF PhoneTakes
  <2> QED
    BY <1>1, <1>4, <2>1, <2>2
<1>6. phone' \in [Clients -> Phones] /\ HeardFrom'
  <2>1. CASE phone' = phone
    BY <1>2, <1>3, <2>1 DEF RelayInv, HeardFrom
  <2>2. CASE phone[c].pc \in {"asked", "getting"} /\ phone' = [phone EXCEPT ![c].pc = "failed"]
    <3>1. /\ phone' \in [Clients -> Phones]
          /\ \A d \in Clients :
              /\ phone'[d].got = phone[d].got /\ phone'[d].face = phone[d].face
              /\ phone'[d].v = phone[d].v /\ (phone'[d].pc = "getting" => phone[d].pc = "getting")
      BY <2>2, SameDownload
    <3> QED
      BY <1>2, <3>1 DEF RelayInv, HeardFrom
  <2>3. CASE m.type # "error" /\ m.n = phone[c].got + 1 /\ phone' = [phone EXCEPT ![c] = Kept(m)]
    <3>1. m.type = "data" /\ m \in Data
      BY <1>1, <2>3 DEF Data, Error
    <3>2. m.n \in 1..Blocks /\ m.v \in Versions
      BY <3>1 DEF Data
    <3>3. server[m.to].st # "none" /\ m.v = server[m.to].v
      BY <1>1, <3>1 DEF RelayInv, OneVersion, Under
    <3>4. Kept(m) \in Phones
      BY <1>1, <3>2, RelayAssumption DEF Kept, Phones, PhonePcs, Sessions
    <3>5. /\ phone' \in [Clients -> Phones]
          /\ \A d \in Clients : phone'[d] = IF d = c THEN Kept(m) ELSE phone[d]
      BY <1>3, <2>3, <3>4, PhoneChanged
    <3>6. HeardFrom'
      <4>1. ASSUME NEW d \in Clients, d # c
            PROVE  phone'[d] = phone[d]
        BY <3>5, <4>1
      <4>2. /\ phone'[c] = Kept(m) /\ Kept(m).face = m.to /\ Kept(m).v = m.v
        BY <3>5 DEF Kept
      <4>3. m.n > 0 /\ Kept(m).got = m.n
        BY <3>2 DEF Kept
      <4>4. HeardFrom
        BY DEF RelayInv
      <4> HIDE DEF Kept
      <4> QED
        BY <1>1, <1>2, <3>3, <4>1, <4>2, <4>3, <4>4 DEF HeardFrom
    <3> QED
      BY <3>5, <3>6
  <2> QED
    BY <2>1, <2>2, <2>3 DEF PhoneTakes, Kept
<1>7. RelayTypeOK'
  BY <1>2, <1>5, <1>6 DEF RelayInv, RelayTypeOK
<1> QED
  BY <1>2, <1>6, <1>7, FrameKeeps DEF Under

-----------------------------------------------------------------------------
(* Sessions that end *)

LEMMA RelayTypes ==
  ASSUME RelayTypeOK
  PROVE  /\ relay \in Seq(Sockets) /\ Len(relay) \in Nat
         /\ \A t \in 1..Len(relay) : relay[t] \in Sockets /\ relay[t].client \in Clients
<1>1. relay \in Seq(Sockets)
  BY DEF RelayTypeOK
<1>2. \A t \in 1..Len(relay) : relay[t] \in Sockets
  BY <1>1, ElementOfSeq
<1> QED
  BY <1>1, <1>2 DEF Sockets

LEMMA ClosedSocket ==
  ASSUME NEW r \in Sockets
  PROVE  LET e == [r EXCEPT !.open = FALSE] IN
         e \in Sockets /\ e.client = r.client /\ e.open = FALSE
BY DEF Sockets

LEMMA ClosedRelay ==
  ASSUME RelayTypeOK, NEW s \in 1..Len(relay)
  PROVE  /\ Closed(s) \in Seq(Sockets) /\ Len(Closed(s)) = Len(relay)
         /\ \A t \in 1..Len(relay) :
              /\ Closed(s)[t].client = relay[t].client
              /\ Closed(s)[t].open <=> relay[t].open /\ t # s
<1> DEFINE e == [relay[s] EXCEPT !.open = FALSE]
<1>1. relay \in Seq(Sockets) /\ Len(relay) \in Nat /\ relay[s] \in Sockets
  BY RelayTypes
<1>2. e \in Sockets /\ e.client = relay[s].client /\ e.open = FALSE
  BY <1>1, ClosedSocket
<1>3. Closed(s) = [relay EXCEPT ![s] = e]
  BY <1>1 DEF Closed
<1> HIDE DEF e
<1>4. /\ Closed(s) \in Seq(Sockets) /\ Len(Closed(s)) = Len(relay)
      /\ \A t \in 1..Len(relay) : Closed(s)[t] = IF t = s THEN e ELSE relay[t]
  BY <1>1, <1>2, <1>3, ExceptSeq
<1>5. ASSUME NEW t \in 1..Len(relay)
      PROVE  /\ Closed(s)[t].client = relay[t].client
             /\ Closed(s)[t].open <=> relay[t].open /\ t # s
  <2>1. CASE t = s
    BY <1>2, <1>4, <2>1
  <2>2. CASE t # s
    BY <1>4, <2>2
  <2> QED
    BY <2>1, <2>2
<1> QED
  BY <1>4, <1>5

LEMMA EndsKeeps ==
  ASSUME RelayTypeOK, OneSessionEach, NEW s \in 1..Len(relay),
         relay[s].open, EndsSession(s)
  PROVE  /\ relay' \in Seq(Sockets) /\ Len(relay') = Len(relay)
         /\ sessions' \in [Clients -> 0..Len(relay)]
         /\ \A t \in 1..Len(relay) : relay'[t].client = relay[t].client
         /\ OneSessionEach'
<1>1. relay' = Closed(s) /\ sessions' = [sessions EXCEPT ![relay[s].client] = 0]
  BY DEF EndsSession
<1>2. /\ relay' \in Seq(Sockets) /\ Len(relay') = Len(relay)
      /\ \A t \in 1..Len(relay) :
              /\ relay'[t].client = relay[t].client
              /\ relay'[t].open <=> relay[t].open /\ t # s
  BY <1>1, ClosedRelay
<1>3. Len(relay) \in Nat /\ \A t \in 1..Len(relay) : relay[t].client \in Clients
  BY RelayTypes
<1>4. /\ sessions' \in [Clients -> 0..Len(relay)]
      /\ \A c \in Clients : sessions'[c] = IF c = relay[s].client THEN 0 ELSE sessions[c]
  <2>1. sessions \in [Clients -> 0..Len(relay)]
    BY DEF RelayTypeOK
  <2> QED
    BY <1>1, <1>3, <2>1
<1>5. sessions[relay[s].client] = s
  BY DEF OneSessionEach
<1>6. OneSessionEach'
  <2>1. ASSUME NEW t \in 1..Len(relay)
        PROVE  relay'[t].open <=> sessions'[relay'[t].client] = t
    <3>1. relay[t].open <=> sessions[relay[t].client] = t
      BY DEF OneSessionEach
    <3>2. relay'[t].client = relay[t].client /\ (relay'[t].open <=> relay[t].open /\ t # s)
      BY <1>2
    <3>3. sessions'[relay[t].client]
            = IF relay[t].client = relay[s].client THEN 0 ELSE sessions[relay[t].client]
      BY <1>3, <1>4
    <3>4. CASE relay[t].client = relay[s].client
      <4>1. sessions'[relay[t].client] = 0 /\ (relay[t].open <=> t = s)
        BY <1>5, <3>1, <3>3, <3>4
      <4>2. t # 0
        BY <1>3
      <4> QED
        BY <3>2, <4>1, <4>2
    <3>5. CASE relay[t].client # relay[s].client
      BY <3>1, <3>2, <3>3, <3>5
    <3> QED
      BY <3>4, <3>5
  <2>2. ASSUME NEW c \in Clients, sessions'[c] # 0
        PROVE  relay'[sessions'[c]].client = c
    <3>1. sessions[c] # 0 /\ sessions'[c] = sessions[c]
      BY <1>4, <2>2
    <3>2. sessions[c] \in 1..Len(relay)
      BY <1>3, <3>1 DEF RelayTypeOK
    <3>3. relay[sessions[c]].client = c
      BY <3>1 DEF OneSessionEach
    <3> QED
      BY <1>2, <3>1, <3>2, <3>3
  <2> QED
    BY <1>2, <2>1, <2>2 DEF OneSessionEach
<1> QED
  BY <1>2, <1>4, <1>6

LEMMA ExpireKeeps ==
  ASSUME RelayInv, NEW s \in Sessions, Expire(s)
  PROVE  RelayInv'
<1>1. s \in 1..Len(relay) /\ relay[s].open /\ EndsSession(s)
  BY DEF RelayInv, RelayTypeOK, Expire, Sessions
<1>2. UNCHANGED <<setting, phone, control, toFace, toPhone, toServer,
                  toUpstream, server, current, lost>>
  BY DEF Expire
<1>3. /\ relay' \in Seq(Sockets) /\ Len(relay') = Len(relay)
      /\ sessions' \in [Clients -> 0..Len(relay)] /\ OneSessionEach'
  BY <1>1, EndsKeeps DEF RelayInv
<1>4. RelayTypeOK'
  BY <1>2, <1>3 DEF RelayInv, RelayTypeOK
<1> QED
  BY <1>2, <1>3, <1>4 DEF RelayInv, Addressed, AskedOnce, OneVersion, HeardFrom, Under

-----------------------------------------------------------------------------
(* The relay's steps *)

(* A session that replaces another one: that one is closed. *)
LEMMA OnControlKeeps ==
  ASSUME RelayInv, NEW c \in Clients, OnControl(c)
  PROVE  RelayInv'
<1> USE RelayAssumption
<1> DEFINE s == Len(relay) + 1
           before == Closed(sessions[c])
           rec == [client |-> c, open |-> TRUE]
           q == [to |-> s, type |-> "rrq", n |-> 0]
<1>1. /\ relay' = Append(before, rec)
      /\ sessions' = [sessions EXCEPT ![c] = s]
      /\ toServer' = toServer \cup {q} /\ control' = control \ {c}
      /\ UNCHANGED <<setting, phone, toFace, toPhone, toUpstream, server, current, lost>>
      /\ Len(relay) < MaxSessions
  BY DEF OnControl
<1>2. /\ relay \in Seq(Sockets) /\ Len(relay) \in Nat /\ sessions[c] \in 0..Len(relay)
      /\ \A t \in 1..Len(relay) : relay[t].client \in Clients
  BY RelayTypes DEF RelayInv, RelayTypeOK
<1>3. /\ before \in Seq(Sockets) /\ Len(before) = Len(relay)
      /\ \A t \in 1..Len(relay) :
              /\ before[t].client = relay[t].client
              /\ before[t].open <=> relay[t].open /\ t # sessions[c]
  <2>1. CASE sessions[c] = 0
    BY <1>2, <2>1 DEF Closed
  <2>2. CASE sessions[c] # 0
    BY <1>2, <2>2, ClosedRelay DEF RelayInv
  <2> QED
    BY <2>1, <2>2
<1>4. /\ relay' \in Seq(Sockets) /\ Len(relay') = s /\ relay'[s] = rec
      /\ \A t \in 1..Len(relay) : relay'[t] = before[t]
  <2> HIDE DEF before
  <2>1. rec \in Sockets
    BY DEF Sockets
  <2> HIDE DEF rec
  <2> QED
    BY <1>1, <1>3, <2>1, AppendProperties DEF Sockets
<1> HIDE DEF before
<1>5. /\ sessions' \in [Clients -> 0..s] /\ sessions'[c] = s
      /\ \A d \in Clients \ {c} : sessions'[d] = sessions[d]
  BY <1>1, <1>2 DEF RelayInv, RelayTypeOK
<1>6. OneSessionEach'
  <2>1. ASSUME NEW t \in 1..s
        PROVE  relay'[t].open <=> sessions'[relay'[t].client] = t
    <3>1. CASE t = s
      BY <1>4, <1>5, <3>1
    <3>2. CASE t # s
      <4>1. t \in 1..Len(relay)
        BY <1>2, <3>2
      <4>2. /\ relay'[t].client = relay[t].client /\ relay[t].client \in Clients
            /\ (relay'[t].open <=> relay[t].open /\ t # sessions[c])
        BY <1>2, <1>3, <1>4, <4>1
      <4>3. relay[t].open <=> sessions[relay[t].client] = t
        BY <4>1 DEF RelayInv, OneSessionEach
      <4>4. CASE relay[t].client = c
        BY <1>5, <3>2, <4>2, <4>3, <4>4
      <4>5. CASE relay[t].client # c
        <5>1. sessions'[relay[t].client] = sessions[relay[t].client]
          BY <1>5, <4>2, <4>5
        <5>2. t = sessions[c] => relay[t].client = c
          BY <4>1 DEF RelayInv, OneSessionEach
        <5> QED
          BY <4>2, <4>3, <4>5, <5>1, <5>2
      <4> QED
        BY <4>4, <4>5
    <3> QED
      BY <3>1, <3>2
  <2>2. ASSUME NEW d \in Clients, sessions'[d] # 0
        PROVE  relay'[sessions'[d]].client = d
    <3>1. CASE d = c
      BY <1>4, <1>5, <3>1
    <3>2. CASE d # c
      <4>1. sessions'[d] = sessions[d] /\ sessions[d] \in 1..Len(relay)
        BY <1>2, <1>5, <2>2, <3>2 DEF RelayInv, RelayTypeOK
      <4> QED
        BY <1>3, <1>4, <2>2, <4>1 DEF RelayInv, OneSessionEach
    <3> QED
      BY <3>1, <3>2
  <2> QED
    BY <1>4, <2>1, <2>2 DEF OneSessionEach
<1>7. RelayTypeOK'
  <2>1. toFace' \subseteq [to: 1..s, n: 0..Blocks]
    BY <1>1, <1>2 DEF RelayInv, RelayTypeOK
  <2>2. toServer' \subseteq [to: 1..s, type: {"rrq", "ack"}, n: 0..Blocks]
    BY <1>1, <1>2 DEF RelayInv, RelayTypeOK
  <2> QED
    BY <1>1, <1>2, <1>4, <1>5, <2>1, <2>2 DEF RelayInv, RelayTypeOK
<1>8. s \in Sessions /\ server[s].st = "none"
  BY <1>1, <1>2 DEF RelayInv, AskedOnce, Sessions
<1>9. Addressed' /\ AskedOnce' /\ OneVersion'
  <2>1. AskedOnce'
    BY <1>1, <1>2, <1>4, <1>8 DEF RelayInv, AskedOnce, Sessions
  <2>2. Addressed' /\ OneVersion'
    BY <1>1, <1>2, <1>4 DEF RelayInv, RelayTypeOK, Addressed, OneVersion, Under, Data, Error, Sessions
  <2> QED
    BY <2>1, <2>2
<1>10. HeardFrom'
  BY <1>1, <1>2, <1>4 DEF RelayInv, HeardFrom
<1> QED
  BY <1>6, <1>7, <1>9, <1>10 DEF RelayInv

LEMMA FromServerKeeps ==
  ASSUME RelayInv, NEW m, FromServer(m)
  PROVE  RelayInv'
<1> USE RelayAssumption
<1>1. m \in toUpstream /\ m \in Data \cup Error /\ m.to \in 1..Len(relay)
  BY DEF RelayInv, RelayTypeOK, FromServer, Addressed, Under, Data, Error, Sessions
<1>2. /\ toUpstream' = toUpstream \ {m}
      /\ UNCHANGED <<setting, phone, control, toFace, toServer, server, current, lost>>
  BY DEF FromServer
<1>3. toPhone' \subseteq toPhone \cup {m}
  <2>1. [m EXCEPT !.to = SessionFor(@)] = m
    BY <1>1 DEF SessionFor, Data, Error
  <2> QED
    BY <2>1 DEF FromServer
<1>4. /\ relay' \in Seq(Sockets) /\ Len(relay') = Len(relay)
      /\ sessions' \in [Clients -> 0..Len(relay)] /\ OneSessionEach'
  <2>1. CASE UNCHANGED <<sessions, relay>>
    BY <2>1 DEF RelayInv, RelayTypeOK, OneSessionEach
  <2>2. CASE relay[m.to].open /\ EndsSession(m.to)
    BY <1>1, <2>2, EndsKeeps DEF RelayInv
  <2> QED
    BY <2>1, <2>2 DEF FromServer
<1>5. Under' \subseteq Under
  BY <1>1, <1>2, <1>3 DEF Under
<1>6. RelayTypeOK'
  BY <1>1, <1>2, <1>3, <1>4 DEF RelayInv, RelayTypeOK
<1> QED
  BY <1>2, <1>4, <1>5, <1>6 DEF RelayInv, Addressed, AskedOnce, OneVersion, HeardFrom

LEMMA FromPhoneKeeps ==
  ASSUME RelayInv, NEW a, FromPhone(a)
  PROVE  RelayInv'
<1> USE RelayAssumption
<1>1. a \in [to: 1..Len(relay), n: 0..Blocks]
  BY DEF RelayInv, RelayTypeOK, FromPhone
<1>2. /\ toFace' = toFace \ {a}
      /\ toServer' \subseteq toServer \cup {[to |-> a.to, type |-> "ack", n |-> a.n]}
      /\ UNCHANGED <<setting, phone, control, sessions, relay, toPhone,
                     toUpstream, server, current, lost>>
  BY DEF FromPhone
<1>3. RelayTypeOK'
  BY <1>1, <1>2 DEF RelayInv, RelayTypeOK
<1> QED
  BY <1>2, <1>3 DEF RelayInv, OneSessionEach, Addressed, AskedOnce, OneVersion, HeardFrom, Under

-----------------------------------------------------------------------------
(* The server's steps *)

LEMMA ServerChanged ==
  ASSUME server \in [Sessions -> Transfers], NEW s \in Sessions, NEW t \in Transfers,
         server' = [server EXCEPT ![s] = t]
  PROVE  server' \in [Sessions -> Transfers] /\ \A r \in Sessions : server'[r] = IF r = s THEN t ELSE server[r]
OBVIOUS

SentFor(s, v, m) == m \in Data \cup Error /\ m.to = s /\ (m.type = "data" => m.v = v)

(* A transfer that goes from one state to another, with its version, and    *)
(* sends what is of that version.                                           *)
LEMMA TransferMoves ==
  ASSUME RelayInv, NEW s \in 1..Len(relay), NEW t \in Transfers, t.st # "none",
         t.st = "sending" => t.n >= 1 /\ t.v \in Versions,
         server[s].st # "none" => t.v = server[s].v,
         server' = [server EXCEPT ![s] = t],
         UNCHANGED <<setting, phone, control, sessions, relay,
                     toFace, toPhone, current, lost>>,
         toServer' \subseteq toServer, \A q \in toServer' : q.type = "rrq" => q.to # s,
         \A m \in toUpstream' : m \in toUpstream \/ SentFor(s, t.v, m)
  PROVE  RelayInv'
<1>1. Len(relay) \in Nat /\ s \in Sessions /\ 1..Len(relay) \subseteq Sessions
  <2>1. Len(relay) \in Nat /\ Len(relay) <= MaxSessions
    BY RelayTypes DEF RelayInv, RelayTypeOK
  <2> QED
    BY <2>1, RelayAssumption DEF Sessions
<1>2. /\ server' \in [Sessions -> Transfers] /\ server'[s] = t
      /\ \A r \in Sessions : r # s => server'[r] = server[r]
  <2>1. server \in [Sessions -> Transfers]
    BY DEF RelayInv, RelayTypeOK
  <2> QED
    BY <1>1, <2>1, ServerChanged
<1>3. /\ \A r \in Sessions : server[r].st # "none" => server'[r].st # "none" /\ server'[r].v = server[r].v
      /\ \A r \in Sessions : r # s => server'[r].st = server[r].st
  BY <1>2
<1>4. RelayTypeOK'
  <2>1. toUpstream' \subseteq Data \cup Error
    BY DEF RelayInv, RelayTypeOK, SentFor
  <2>2. toServer' \subseteq [to: 1..Len(relay), type: {"rrq", "ack"}, n: 0..Blocks]
    BY DEF RelayInv, RelayTypeOK
  <2> QED
    BY <1>2, <2>1, <2>2 DEF RelayInv, RelayTypeOK
<1>5. \A m \in Under' : m \in Under \/ SentFor(s, t.v, m)
  BY DEF Under
<1>6. Addressed'
  BY <1>1, <1>5 DEF RelayInv, Addressed, SentFor
<1>7. AskedOnce'
  <2>1. ASSUME NEW q \in toServer', q.type = "rrq"
        PROVE  q.n = 0 /\ server'[q.to].st = "none"
    <3>1. q \in toServer /\ q.n = 0 /\ server[q.to].st = "none" /\ q.to # s
      BY <2>1 DEF RelayInv, AskedOnce
    <3>2. q.to \in Sessions
      BY <1>1, <3>1 DEF RelayInv, RelayTypeOK
    <3> QED
      BY <1>3, <3>1, <3>2
  <2>2. \A r \in Sessions : r > Len(relay) => server[r].st = "none" /\ r # s
    BY <1>1 DEF RelayInv, AskedOnce
  <2> QED
    BY <1>3, <2>1, <2>2 DEF AskedOnce
<1>8. OneVersion'
  <2>1. \A r \in Sessions : server'[r].st = "sending" => server'[r].n >= 1 /\ server'[r].v \in Versions
    <3>1. \A r \in Sessions : server[r].st = "sending" => server[r].n >= 1 /\ server[r].v \in Versions
      BY DEF RelayInv, OneVersion
    <3> QED
      BY <1>2, <3>1
  <2>2. ASSUME NEW d \in Under', d.type = "data"
        PROVE  server'[d.to].st # "none" /\ d.v = server'[d.to].v
    <3>1. CASE SentFor(s, t.v, d)
      BY <1>2, <2>2, <3>1 DEF SentFor
    <3>2. CASE d \in Under
      <4>1. server[d.to].st # "none" /\ d.v = server[d.to].v
        BY <2>2, <3>2 DEF RelayInv, OneVersion
      <4>2. d.to \in Sessions
        BY <3>2 DEF RelayInv, RelayTypeOK, Under, Data, Error
      <4> QED
        BY <1>3, <4>1, <4>2
    <3> QED
      BY <1>5, <3>1, <3>2
  <2> QED
    BY <2>1, <2>2 DEF OneVersion
<1>9. HeardFrom'
  <2>1. HeardFrom
    BY DEF RelayInv
  <2> QED
    BY <1>1, <1>3, <2>1 DEF HeardFrom
<1>10. OneSessionEach'
  BY DEF RelayInv, OneSessionEach
<1> QED
  BY <1>4, <1>6, <1>7, <1>8, <1>9, <1>10 DEF RelayInv

(* What the server knows of a session it hears from. *)
LEMMA ServerTypes ==
  ASSUME RelayInv
  PROVE  /\ \A q \in toServer : q.to \in 1..Len(relay) /\ q.to \in Sessions /\ q.n \in 0..Blocks
         /\ \A s \in Sessions : server[s] \in Transfers
         /\ \A s \in Sessions : server[s].st = "sending" =>
              s \in 1..Len(relay) /\ server[s].n \in 1..Blocks /\ server[s].v \in Versions
<1>1. Len(relay) \in Nat /\ 1..Len(relay) \subseteq Sessions
  <2>1. Len(relay) \in Nat /\ Len(relay) <= MaxSessions
    BY RelayTypes DEF RelayInv, RelayTypeOK
  <2> QED
    BY <2>1, RelayAssumption DEF Sessions
<1>2. \A q \in toServer : q.to \in 1..Len(relay) /\ q.n \in 0..Blocks
  BY DEF RelayInv, RelayTypeOK
<1>3. \A s \in Sessions : server[s] \in Transfers
  BY DEF RelayInv, RelayTypeOK
<1>4. ASSUME NEW s \in Sessions, server[s].st = "sending"
      PROVE  s \in 1..Len(relay) /\ server[s].n \in 1..Blocks /\ server[s].v \in Versions
  <2>1. s \in 1..Len(relay)
    BY <1>1, <1>4 DEF RelayInv, AskedOnce, Sessions
  <2>2. server[s].n >= 1 /\ server[s].v \in Versions
    BY <1>4 DEF RelayInv, OneVersion
  <2>3. server[s].n \in 0..Blocks
    BY <1>3 DEF Transfers
  <2> QED
    BY <2>1, <2>2, <2>3, RelayAssumption
<1> QED
  BY <1>1, <1>2, <1>3, <1>4

(* A transfer that ends. *)
LEMMA GoneTransfer ==
  ASSUME NEW r \in Transfers
  PROVE  LET g == [r EXCEPT !.st = "gone"] IN
         g \in Transfers /\ g.st = "gone" /\ g.v = r.v
BY DEF Transfers

LEMMA SendingTransfer ==
  ASSUME NEW n \in 1..Blocks, NEW v \in Versions
  PROVE  /\ Sending(n, v) \in Transfers /\ Sending(n, v).st = "sending"
         /\ Sending(n, v).n >= 1 /\ Sending(n, v).v = v
BY RelayAssumption DEF Sending, Transfers

LEMMA SentBlock ==
  ASSUME NEW s \in Sessions, NEW n \in 1..Blocks, NEW v \in Versions
  PROVE  SentFor(s, v, Block(s, n, v))
BY DEF SentFor, Block, Data

LEMMA ServerStartsKeeps ==
  ASSUME RelayInv, NEW q, ServerStarts(q)
  PROVE  RelayInv'
<1>1. /\ q \in toServer /\ q.type = "rrq" /\ toServer' = toServer \ {q}
      /\ UNCHANGED <<setting, phone, control, sessions, relay,
                     toFace, toPhone, current, lost>>
  BY DEF ServerStarts
<1>2. q.to \in 1..Len(relay) /\ q.to \in Sessions /\ server[q.to] \in Transfers
  BY <1>1, ServerTypes
<1>3. server[q.to].st = "none"
  BY <1>1 DEF RelayInv, AskedOnce
<1>4. \A r \in toServer' : r.type = "rrq" => r.to # q.to
  <2>1. \A r \in toServer : r.type = "rrq" => r.n = 0
    BY DEF RelayInv, AskedOnce
  <2>2. toServer \subseteq [to: 1..Len(relay), type: {"rrq", "ack"}, n: 0..Blocks]
    BY DEF RelayInv, RelayTypeOK
  <2> QED
    BY <1>1, <2>1, <2>2
<1>5. CASE /\ server' = [server EXCEPT ![q.to] = Sending(1, current)]
           /\ toUpstream' = toUpstream \cup {Block(q.to, 1, current)}
  <2>1. current \in Versions
    BY DEF RelayInv, RelayTypeOK
  <2> DEFINE g == Sending(1, current)
  <2>2. g \in Transfers /\ g.st = "sending" /\ g.n >= 1 /\ g.v = current
    BY <2>1, SendingTransfer, RelayAssumption
  <2>3. \A m \in toUpstream' : m \in toUpstream \/ SentFor(q.to, g.v, m)
    <3>1. SentFor(q.to, current, Block(q.to, 1, current))
      BY <1>2, <2>1, SentBlock, RelayAssumption
    <3> QED
      BY <1>5, <2>2, <3>1
  <2>4. server' = [server EXCEPT ![q.to] = g]
    BY <1>5
  <2> HIDE DEF g
  <2> QED
    BY <1>1, <1>2, <1>3, <1>4, <2>1, <2>2, <2>3, <2>4, TransferMoves
<1>6. CASE /\ server' = [server EXCEPT ![q.to].st = "gone"]
           /\ toUpstream' = toUpstream \cup {Refusal(q.to)}
  <2> DEFINE g == [server[q.to] EXCEPT !.st = "gone"]
  <2>1. g \in Transfers /\ g.st = "gone"
    BY <1>2, GoneTransfer
  <2>2. server' = [server EXCEPT ![q.to] = g]
    BY <1>6
  <2>3. SentFor(q.to, g.v, Refusal(q.to))
    BY <1>2 DEF Refusal, Error, SentFor
  <2> HIDE DEF g
  <2> QED
    BY <1>1, <1>2, <1>3, <1>4, <1>6, <2>1, <2>2, <2>3, TransferMoves
<1> QED
  BY <1>5, <1>6 DEF ServerStarts

(* No request is on its way to a server that sends. *)
LEMMA NoRequest ==
  ASSUME RelayInv, NEW s, server[s].st = "sending"
  PROVE  \A q \in toServer : q.type = "rrq" => q.to # s
BY DEF RelayInv, AskedOnce

LEMMA ServerGoesOnKeeps ==
  ASSUME RelayInv, NEW q, ServerGoesOn(q)
  PROVE  RelayInv'
<1> DEFINE s == q.to
<1>1. /\ q \in toServer /\ toServer' = toServer \ {q}
      /\ UNCHANGED <<setting, phone, control, sessions, relay,
                     toFace, toPhone, current, lost>>
  BY DEF ServerGoesOn
<1>2. s \in 1..Len(relay) /\ s \in Sessions /\ server[s] \in Transfers /\ q.n \in 0..Blocks
  BY <1>1, ServerTypes
<1>3. CASE UNCHANGED <<server, toUpstream>>
  <2>1. RelayTypeOK'
    BY <1>1, <1>3 DEF RelayInv, RelayTypeOK
  <2>2. HeardFrom'
    BY <1>1, <1>3 DEF RelayInv, HeardFrom
  <2> QED
    BY <1>1, <1>3, <2>1, <2>2, FrameKeeps DEF Under
<1>4. CASE server[s].st = "sending" /\ server' = [server EXCEPT ![s].st = "gone"] /\ UNCHANGED toUpstream
  <2> DEFINE g == [server[s] EXCEPT !.st = "gone"]
  <2>1. g \in Transfers /\ g.st = "gone" /\ g.v = server[s].v
    BY <1>2, GoneTransfer
  <2>2. server' = [server EXCEPT ![s] = g]
    BY <1>4
  <2>3. \A r \in toServer' : r.type = "rrq" => r.to # s
    BY <1>1, <1>4, NoRequest
  <2>4. /\ \A m \in toUpstream' : m \in toUpstream \/ SentFor(s, g.v, m)
        /\ toServer' \subseteq toServer
    BY <1>1, <1>4
  <2> HIDE DEF g, s
  <2> QED
    BY <1>1, <1>2, <2>1, <2>2, <2>3, <2>4, TransferMoves
<1>5. CASE /\ server[s].st = "sending" /\ q.n = server[s].n /\ q.n # Blocks
           /\ server' = [server EXCEPT ![s] = Sending(q.n + 1, server[s].v)]
           /\ toUpstream' = toUpstream \cup {Block(s, q.n + 1, server[s].v)}
  <2> DEFINE g == Sending(q.n + 1, server[s].v)
  <2>1. q.n + 1 \in 1..Blocks /\ server[s].v \in Versions
    <3>1. server[s].n \in 1..Blocks /\ server[s].v \in Versions
      BY <1>2, <1>5, ServerTypes
    <3> QED
      BY <1>5, <3>1, RelayAssumption
  <2>2. g \in Transfers /\ g.st = "sending" /\ g.n >= 1 /\ g.v = server[s].v
    BY <2>1, SendingTransfer
  <2>3. server' = [server EXCEPT ![s] = g]
    BY <1>5
  <2>4. \A r \in toServer' : r.type = "rrq" => r.to # s
    BY <1>1, <1>5, NoRequest
  <2>5. \A m \in toUpstream' : m \in toUpstream \/ SentFor(s, g.v, m)
    <3>1. SentFor(s, server[s].v, Block(s, q.n + 1, server[s].v))
      BY <1>2, <2>1, SentBlock
    <3> QED
      BY <1>5, <2>2, <3>1
  <2> HIDE DEF g, s
  <2> QED
    BY <1>1, <1>2, <2>1, <2>2, <2>3, <2>4, <2>5, TransferMoves
<1> QED
  BY <1>3, <1>4, <1>5 DEF ServerGoesOn

LEMMA ServerTimesOutKeeps ==
  ASSUME RelayInv, NEW s \in Sessions, ServerTimesOut(s)
  PROVE  RelayInv'
<1>1. /\ server[s].st = "sending" /\ UNCHANGED toServer
      /\ UNCHANGED <<setting, phone, control, sessions, relay,
                     toFace, toPhone, current, lost>>
  BY DEF ServerTimesOut
<1>2. /\ server[s] \in Transfers /\ s \in 1..Len(relay)
      /\ server[s].n \in 1..Blocks /\ server[s].v \in Versions
  BY <1>1, ServerTypes
<1>3. \A r \in toServer' : r.type = "rrq" => r.to # s
  BY <1>1, NoRequest
<1>4. CASE /\ server[s].tries < setting.tries /\ server' = [server EXCEPT ![s].tries = @ + 1]
           /\ toUpstream' = toUpstream \cup {Block(s, server[s].n, server[s].v)}
  <2> DEFINE g == [server[s] EXCEPT !.tries = @ + 1]
  <2>1. g \in Transfers /\ g.st = "sending" /\ g.n >= 1 /\ g.v = server[s].v
    BY <1>1, <1>2, <1>4, SettingIs, RelayAssumption DEF RelayInv, Transfers
  <2>2. server' = [server EXCEPT ![s] = g]
    BY <1>2, <1>4
  <2>3. \A m \in toUpstream' : m \in toUpstream \/ SentFor(s, g.v, m)
    <3>1. SentFor(s, server[s].v, Block(s, server[s].n, server[s].v))
      BY <1>2, SentBlock
    <3> QED
      BY <1>4, <2>1, <3>1
  <2> HIDE DEF g
  <2> QED
    BY <1>1, <1>2, <1>3, <1>4, <2>1, <2>2, <2>3, TransferMoves
<1>5. CASE server' = [server EXCEPT ![s].st = "gone"] /\ UNCHANGED toUpstream
  <2> DEFINE g == [server[s] EXCEPT !.st = "gone"]
  <2>1. g \in Transfers /\ g.st = "gone" /\ g.v = server[s].v
    BY <1>2, GoneTransfer
  <2>2. server' = [server EXCEPT ![s] = g]
    BY <1>5
  <2> HIDE DEF g
  <2> QED
    BY <1>1, <1>2, <1>3, <1>5, <2>1, <2>2, TransferMoves
<1> QED
  BY <1>4, <1>5 DEF ServerTimesOut

-----------------------------------------------------------------------------
(* The file, and the network *)

LEMMA OutsideKeeps ==
  ASSUME RelayInv,
         (\E v \in Versions : Rewrite(v)) \/ (\E m \in toPhone \cup toFace \cup control : Lose(m))
         \/ UNCHANGED relayVars
  PROVE  RelayInv'
<1> USE RelayAssumption
<1>1. /\ UNCHANGED <<setting, phone, sessions, relay, toServer, toUpstream, server>>
      /\ control' \subseteq control /\ toFace' \subseteq toFace /\ toPhone' \subseteq toPhone
      /\ current' \in Versions /\ lost' \in 0..MaxLost
  BY SettingIs DEF Rewrite, Lose, relayVars, RelayInv, RelayTypeOK
<1>2. RelayTypeOK'
  BY <1>1 DEF RelayInv, RelayTypeOK
<1> QED
  BY <1>1, <1>2 DEF RelayInv, OneSessionEach, Addressed, AskedOnce, OneVersion, HeardFrom, Under

LEMMA NextKeeps ==
  ASSUME RelayInv, [RelayNext]_relayVars
  PROVE  RelayInv'
<1>1. ASSUME NEW c \in Clients, Ask(c) \/ PhoneStep(c) PROVE RelayInv'
  BY <1>1, AskKeeps, PhoneTakesKeeps DEF PhoneStep
<1>2. CASE RelayStep
  BY <1>2, OnControlKeeps, FromServerKeeps, FromPhoneKeeps DEF RelayStep
<1>3. CASE ServerStep
  BY <1>3, ServerStartsKeeps, ServerGoesOnKeeps, ServerTimesOutKeeps DEF ServerStep
<1>4. CASE \E s \in Sessions : Expire(s)
  BY <1>4, ExpireKeeps
<1>5. CASE \/ \E v \in Versions : Rewrite(v)
           \/ \E m \in toPhone \cup toFace \cup control : Lose(m)
           \/ UNCHANGED relayVars
  BY <1>5, OutsideKeeps
<1> QED
  BY <1>1, <1>2, <1>3, <1>4, <1>5 DEF RelayNext

(* The invariant holds of every behaviour. *)
LEMMA RelayInvariant == RelaySpec => []RelayInv
<1>1. RelayInit => RelayInv
  BY InitRelay
<1>2. RelayInv /\ [RelayNext]_relayVars => RelayInv'
  BY NextKeeps
<1> QED
  BY <1>1, <1>2, PTL DEF RelaySpec

(* A phone has one open session, however often it asks (OneSessionEach).    *)
THEOREM OneSessionOpen == RelaySpec => [](RelayTypeOK /\ OneSessionEach)
<1>1. RelayInv => RelayTypeOK /\ OneSessionEach
  BY DEF RelayInv
<1> QED
  BY <1>1, RelayInvariant, PTL

-----------------------------------------------------------------------------
(* The relay implements FileTransfer *)

Outcome(c) == IF phone[c].pc \in {"done", "failed"} THEN phone[c].pc ELSE "open"

LEMMA InitTransfers ==
  ASSUME RelayInit
  PROVE  Transfer!TransferInit
<1>1. \A d \in Clients : phone[d] = NoDownload
  BY DEF RelayInit
<1>2. NoDownload.got = 0 /\ NoDownload.v = NoVersion
  BY DEF NoDownload
<1>3. NoDownload.pc = "idle"
  BY DEF NoDownload
<1>4. [c \in Clients |-> phone[c].got] = [c \in Clients |-> 0]
  BY <1>1, <1>2
<1>5. [c \in Clients |-> phone[c].v] = [c \in Clients |-> NoVersion]
  BY <1>1, <1>2
<1>6. [c \in Clients |-> Outcome(c)] = [c \in Clients |-> "open"]
  BY <1>1, <1>3 DEF Outcome
<1> QED
  BY <1>4, <1>5, <1>6 DEF Transfer!TransferInit, Outcome

(* A step that changes no phone changes no download; nor does a phone's     *)
(* question, or its packet sent again.                                      *)
LEMMA NothingGot ==
  ASSUME RelayInv, phone' \in [Clients -> Phones],
         \A c \in Clients : /\ phone'[c].got = phone[c].got /\ phone'[c].v = phone[c].v
                            /\ Outcome(c)' = Outcome(c)
  PROVE  UNCHANGED Transfer!transferVars
BY DEF Outcome, Transfer!transferVars

LEMMA FailureGivesUp ==
  ASSUME RelayInv, NEW c \in Clients, phone[c].pc \in {"asked", "getting"},
         phone' = [phone EXCEPT ![c].pc = "failed"]
  PROVE  Transfer!TransferNext
<1>1. /\ phone'[c].pc = "failed"
      /\ \A d \in Clients : phone'[d].got = phone[d].got /\ phone'[d].v = phone[d].v
      /\ \A d \in Clients \ {c} : phone'[d] = phone[d]
  <2>1. phone \in [Clients -> Phones] /\ phone[c] \in Phones
    BY DEF RelayInv, RelayTypeOK
  <2>2. phone'[c].pc = "failed"
    BY <2>1 DEF Phones
  <2> QED
    BY <2>2, SameDownload
<1>2. Transfer!GiveUp(c)
  BY <1>1 DEF Transfer!GiveUp
<1> QED
  BY <1>2 DEF Transfer!TransferNext

(* A block the phone keeps is the next one, of the version it has. *)
LEMMA KeptIsDelivered ==
  ASSUME RelayInv, NEW c \in Clients, NEW m \in toPhone,
         phone[c].pc \in {"asked", "getting"}, FromItsPort(c, m.to),
         m.type # "error", m.n = phone[c].got + 1,
         phone' = [phone EXCEPT ![c] = Kept(m)]
  PROVE  Transfer!TransferNext
<1>1. m \in Data /\ m.n \in 1..Blocks /\ m.v \in Versions /\ m.v = server[m.to].v
  <2>1. m \in Data /\ m.type = "data"
    BY DEF RelayInv, RelayTypeOK, Data, Error
  <2>2. m.v = server[m.to].v
    BY <2>1 DEF RelayInv, OneVersion, Under
  <2> QED
    BY <2>1, <2>2 DEF Data
<1>2. /\ phone'[c].pc = (IF phone[c].got + 1 = Blocks THEN "done" ELSE "getting")
      /\ phone'[c].got = phone[c].got + 1 /\ phone'[c].v = m.v
      /\ \A d \in Clients : d # c => phone'[d] = phone[d]
  <2>1. phone \in [Clients -> Phones]
    BY DEF RelayInv, RelayTypeOK
  <2>2. phone'[c] = Kept(m) /\ \A d \in Clients : d # c => phone'[d] = phone[d]
    BY <2>1
  <2>3. /\ Kept(m).pc = (IF phone[c].got + 1 = Blocks THEN "done" ELSE "getting")
        /\ Kept(m).got = phone[c].got + 1 /\ Kept(m).v = m.v
    BY DEF Kept
  <2> QED
    BY <2>2, <2>3
<1>3. phone[c].got \in 0..Blocks /\ phone[c].got < Blocks
  <2>1. phone[c].got \in 0..Blocks
    BY DEF RelayInv, RelayTypeOK, Phones
  <2> QED
    BY <1>1, <2>1, RelayAssumption
<1>4. phone[c].got # 0 => phone[c].v = m.v
  <2>1. SUFFICES ASSUME phone[c].got # 0 PROVE phone[c].v = m.v
    OBVIOUS
  <2>2. phone[c].face \in 1..Len(relay) /\ phone[c].v = server[phone[c].face].v
    BY <1>3, <2>1 DEF RelayInv, HeardFrom
  <2>3. phone[c].face = m.to
    BY <2>2 DEF FromItsPort
  <2> QED
    BY <1>1, <2>2, <2>3
<1>5. Transfer!Deliver(c)
  <2>1. [d \in Clients |-> phone'[d].got]
          = [[d \in Clients |-> phone[d].got] EXCEPT ![c] = @ + 1]
    <3>1. \A d \in Clients : phone'[d].got = IF d = c THEN phone[c].got + 1 ELSE phone[d].got
      BY <1>2
    <3> QED
      BY <3>1
  <2>2. [d \in Clients |-> phone'[d].v] = [[d \in Clients |-> phone[d].v] EXCEPT ![c] = m.v]
    <3>1. \A d \in Clients : phone'[d].v = IF d = c THEN m.v ELSE phone[d].v
      BY <1>2
    <3> QED
      BY <3>1
  <2>3. phone[c].got # 0 => [d \in Clients |-> phone'[d].v] = [d \in Clients |-> phone[d].v]
    BY <1>2, <1>4
  <2>4. [d \in Clients |-> Outcome(d)'] = [[d \in Clients |-> Outcome(d)] EXCEPT
           ![c] = IF phone[c].got + 1 = Blocks THEN "done" ELSE @]
    <3>1. Outcome(c) = "open"
      BY DEF Outcome
    <3>2. Outcome(c)' = IF phone[c].got + 1 = Blocks THEN "done" ELSE "open"
      BY <1>2 DEF Outcome
    <3>3. \A d \in Clients : d # c => Outcome(d)' = Outcome(d)
      BY <1>2 DEF Outcome
    <3>4. \A d \in Clients : Outcome(d)' = IF d = c
             THEN IF phone[c].got + 1 = Blocks THEN "done" ELSE Outcome(c) ELSE Outcome(d)
      BY <3>1, <3>2, <3>3
    <3> HIDE DEF Outcome
    <3> QED
      BY <3>4
  <2> QED
    BY <1>1, <1>3, <2>1, <2>2, <2>3, <2>4 DEF Transfer!Deliver, Outcome
<1> QED
  BY <1>5 DEF Transfer!TransferNext

LEMMA StepTransfers ==
  ASSUME RelayInv, RelayInv', [RelayNext]_relayVars
  PROVE  [Transfer!TransferNext]_Transfer!transferVars
<1>1. CASE UNCHANGED phone
  BY <1>1, NothingGot DEF RelayInv, RelayTypeOK, Outcome
<1>2. ASSUME NEW c \in Clients, Ask(c)
      PROVE  UNCHANGED Transfer!transferVars
  <2>1. \A d \in Clients : /\ phone'[d].got = phone[d].got /\ phone'[d].v = phone[d].v
                           /\ Outcome(d)' = Outcome(d)
    BY <1>2 DEF RelayInv, RelayTypeOK, Ask, Outcome
  <2> QED
    BY <2>1, NothingGot DEF RelayInv, RelayTypeOK
<1>3. ASSUME NEW c \in Clients, PhoneTimesOut(c)
      PROVE  [Transfer!TransferNext]_Transfer!transferVars
  <2>1. CASE phone' = [phone EXCEPT ![c].pc = "failed"]
    BY <1>3, <2>1, FailureGivesUp DEF PhoneTimesOut
  <2>2. CASE phone' = [phone EXCEPT ![c].tries = @ + 1]
    <3>1. \A d \in Clients : /\ phone'[d].got = phone[d].got /\ phone'[d].v = phone[d].v
                             /\ Outcome(d)' = Outcome(d)
      BY <2>2 DEF RelayInv, RelayTypeOK, Outcome
    <3> QED
      BY <3>1, NothingGot DEF RelayInv, RelayTypeOK
  <2> QED
    BY <1>3, <2>1, <2>2 DEF PhoneTimesOut
<1>4. ASSUME NEW c \in Clients, NEW m \in toPhone, PhoneTakes(c, m)
      PROVE  UNCHANGED phone \/ Transfer!TransferNext
  <2>1. CASE phone[c].pc \in {"asked", "getting"} /\ phone' = [phone EXCEPT ![c].pc = "failed"]
    BY <2>1, FailureGivesUp
  <2>2. CASE /\ phone[c].pc \in {"asked", "getting"} /\ FromItsPort(c, m.to)
             /\ m.type # "error" /\ m.n = phone[c].got + 1 /\ phone' = [phone EXCEPT ![c] = Kept(m)]
    BY <2>2, KeptIsDelivered
  <2> QED
    BY <1>4, <2>1, <2>2 DEF PhoneTakes
<1>5. (\E c \in Clients : Ask(c) \/ PhoneStep(c)) \/ UNCHANGED phone
  BY DEF RelayNext, relayVars, RelayStep, OnControl, FromServer, FromPhone, ServerStep, ServerStarts,
         ServerGoesOn, ServerTimesOut, Expire, Rewrite, Lose
<1> QED
  BY <1>1, <1>2, <1>3, <1>4, <1>5 DEF PhoneStep

(* What the relay brings a phone is one version of its file, in order       *)
(* (IsTransfer): the relay implements FileTransfer.                         *)
THEOREM RelayTransfers == RelaySpec => IsTransfer
<1>1. RelayInit => Transfer!TransferInit
  BY InitTransfers
<1>2. RelayInv /\ RelayInv' /\ [RelayNext]_relayVars => [Transfer!TransferNext]_Transfer!transferVars
  BY StepTransfers
<1> QED
  BY <1>1, <1>2, RelayInvariant, PTL DEF RelaySpec, IsTransfer, Transfer!TransferSpec

-----------------------------------------------------------------------------
(* Numbers and files: the invariants *)

(* Numbers given out are below the next one. *)
Below == \A d \in Devices : assigned[d] # NoDn => assigned[d] < next

NumbersInv == TypeOK /\ Below /\ DnsDistinct

(* The lock's holder is the thread that writes. *)
Exclusive == \A w \in Threads : thread[w].pc = "write" => lock = w

(* A file of the first run is the one made for its device's number. *)
Own(d, file) == assigned[d] # NoDn /\ file = Made(assigned[d])

TextOwn(w) ==
  LET d == thread[w].device IN
  d \notin Exported =>
    /\ thread[w].pc # "idle" => assigned[d] # NoDn
    /\ thread[w].pc \in {"lock", "write", "open"} => Own(d, thread[w].text)
    /\ thread[w].pc = "open" => Own(d, disk[d])

FirstRun ==
  /\ \A d \in Devices \ Exported :
       /\ disk[d] \in {NoFile, Emptied} \/ Own(d, disk[d])
       /\ served[d] = NoFile \/ Own(d, served[d])
  /\ \A w \in Threads : TextOwn(w) /\ (thread[w].pc = "open" => w = Tftp)

FilesInv == NumbersInv /\ Exclusive /\ starts >= 1 /\ (starts = 1 => FirstRun)

-----------------------------------------------------------------------------
(* AllocDn is a number not below the next one, and never the IVR's. *)
LEMMA Allocates ==
  ASSUME next \in Nat
  PROVE  AllocDn \in Nat /\ AllocDn >= next /\ AllocDn # IvrDn /\ AllocDn # NoDn
BY ConfigAssumption DEF AllocDn

LEMMA FilesAreFiles == NoFile \in File /\ Emptied \in File /\ \A n \in Nat : Made(n) \in File
BY DEF NoFile, Emptied, Made, File

LEMMA NumbersInit == Init => NumbersInv
BY ConfigAssumption, FilesAreFiles
DEF Init, NumbersInv, TypeOK, Below, DnsDistinct, Idle, NoFile, File, Threads

(* Only Assign gives out numbers. *)
LEMMA NumbersNext == NumbersInv /\ [Next]_vars => NumbersInv'
<1> SUFFICES ASSUME NumbersInv, [Next]_vars PROVE NumbersInv'
  OBVIOUS
<1> USE ConfigAssumption DEF NumbersInv
<1>1. ASSUME NEW w \in Threads, NEW d \in Devices, Assign(w, d) PROVE NumbersInv'
  <2>1. next \in Nat /\ AllocDn \in Nat /\ AllocDn >= next /\ AllocDn # IvrDn /\ AllocDn # NoDn
    BY Allocates DEF TypeOK
  <2>2. TypeOK'
    <3>1. thread' = [thread EXCEPT ![w] = [pc |-> "read", device |-> d, text |-> NoFile]]
      BY <1>1 DEF Assign
    <3>2. assigned' \in [Devices -> Nat \cup {NoDn}] /\ next' \in Nat
      BY <1>1, <2>1 DEF TypeOK, Assign
    <3> QED BY <1>1, <3>1, <3>2, FilesAreFiles DEF TypeOK, Assign
  <2>3. Below' /\ DnsDistinct'
    <3>1. CASE assigned[d] # NoDn
      BY <1>1, <3>1 DEF Assign, Below, DnsDistinct, TypeOK
    <3>2. CASE assigned[d] = NoDn
      BY <1>1, <2>1, <3>2 DEF Assign, Below, DnsDistinct, TypeOK
    <3> QED BY <3>1, <3>2
  <2> QED BY <2>2, <2>3
<1>2. ASSUME NEW w \in Threads, Materialize(w) PROVE NumbersInv'
  <2>1. Materialized(disk[thread[w].device], assigned[thread[w].device]) \in File
    BY <1>2 DEF TypeOK, Materialize, Materialized, IsCucm, Patched, Made, File
  <2>2. TypeOK'
    BY <1>2, <2>1 DEF TypeOK, Materialize
  <2> QED BY <1>2, <2>2 DEF Materialize, Below, DnsDistinct
<1>3. ASSUME NEW w \in Threads, BeginWrite(w) PROVE NumbersInv'
  <2>1. TypeOK'
    BY <1>3, FilesAreFiles DEF TypeOK, BeginWrite, Idle
  <2> QED BY <1>3, <2>1 DEF BeginWrite, Below, DnsDistinct
<1>4. ASSUME NEW w \in Threads, EndWrite(w) PROVE NumbersInv'
  <2>1. TypeOK'
    BY <1>4, FilesAreFiles DEF TypeOK, EndWrite, Idle, AfterWrite
  <2> QED BY <1>4, <2>1 DEF EndWrite, AfterWrite, Below, DnsDistinct
<1>5. CASE Serve
  <2>1. TypeOK'
    BY <1>5, FilesAreFiles DEF TypeOK, Serve, Idle, Threads
  <2> QED BY <1>5, <2>1 DEF Serve, Below, DnsDistinct
<1>6. CASE Restart
  <2>1. TypeOK'
    BY <1>6, FilesAreFiles DEF TypeOK, Restart, Idle
  <2> QED BY <1>6, <2>1 DEF Restart, Below, DnsDistinct
<1>7. CASE UNCHANGED vars
  BY <1>7 DEF vars, TypeOK, Below, DnsDistinct
<1> QED BY <1>1, <1>2, <1>3, <1>4, <1>5, <1>6, <1>7 DEF Next, ThreadStep

(* The types of registry, files and threads are invariant.                  *)
THEOREM ConfigsTypeOK == Spec => []TypeOK
<1>1. NumbersInv => TypeOK
  BY DEF NumbersInv
<1> QED BY NumbersInit, NumbersNext, <1>1, PTL DEF Spec

(* No two devices are given one number, and none the IVR's (registry.py     *)
(* _alloc_dn), however many register.                                       *)
THEOREM NumbersDistinct == Spec => []DnsDistinct
<1>1. NumbersInv => DnsDistinct
  BY DEF NumbersInv
<1> QED BY NumbersInit, NumbersNext, <1>1, PTL DEF Spec

-----------------------------------------------------------------------------
LEMMA FilesInit == Init => FilesInv
<1> SUFFICES ASSUME Init PROVE FilesInv
  OBVIOUS
<1>1. NumbersInv
  BY NumbersInit
<1>2. Exclusive /\ starts >= 1
  BY DEF Init, Exclusive, Idle
<1>3. FirstRun
  BY DEF Init, FirstRun, TextOwn, Idle
<1> QED BY <1>1, <1>2, <1>3 DEF FilesInv

(* An assignment of number leaves those given out as they are. *)
LEMMA FilesNext == FilesInv /\ [Next]_vars => FilesInv'
<1> SUFFICES ASSUME FilesInv, [Next]_vars PROVE FilesInv'
  OBVIOUS
<1>0. NumbersInv' /\ TypeOK /\ TypeOK'
  BY NumbersNext DEF FilesInv, NumbersInv
<1> USE ConfigAssumption DEF FilesInv
<1>1. ASSUME NEW w \in Threads, NEW d \in Devices, Assign(w, d) PROVE FilesInv'
  <2>1. \A e \in Devices : assigned[e] # NoDn => assigned'[e] = assigned[e]
    BY <1>1 DEF Assign, TypeOK, NumbersInv
  <2>2. assigned'[d] # NoDn
    BY <1>1, Allocates DEF Assign, TypeOK, NumbersInv
  <2>3. Exclusive'
    BY <1>1 DEF Assign, Exclusive, Idle, TypeOK, NumbersInv
  <2>4. ASSUME starts = 1 PROVE FirstRun'
    <3>1. \A e \in Devices \ Exported :
            /\ disk'[e] \in {NoFile, Emptied} \/ Own(e, disk[e])'
            /\ served'[e] = NoFile \/ Own(e, served[e])'
      BY <1>1, <2>1, <2>4 DEF FirstRun, Own, Assign
    <3>2. \A v \in Threads : TextOwn(v)' /\ (thread'[v].pc = "open" => v = Tftp)
      <4> TAKE v \in Threads
      <4>1. CASE v = w
        BY <1>1, <2>2, <4>1, <1>0 DEF TextOwn, Assign, Idle, TypeOK
      <4>2. CASE v # w
        BY <1>1, <2>1, <2>4, <4>2, <1>0 DEF FirstRun, TextOwn, Own, Assign, TypeOK
      <4> QED BY <4>1, <4>2
    <3> QED BY <3>1, <3>2 DEF FirstRun
  <2> QED BY <1>0, <1>1, <2>3, <2>4 DEF Assign
<1>2. ASSUME NEW w \in Threads, Materialize(w) PROVE FilesInv'
  <2>1. Exclusive'
    BY <1>2, <1>0 DEF Materialize, Exclusive, TypeOK
  <2>2. ASSUME starts = 1 PROVE FirstRun'
    <3>1. TextOwn(w)'
      <4> DEFINE d == thread[w].device
      <4>1. /\ thread[w].pc = "read" /\ d \in Devices
            /\ thread'[w].pc = "lock" /\ thread'[w].device = d
            /\ thread'[w].text = Materialized(disk[d], assigned[d])
        BY <1>2, <1>0 DEF Materialize, TypeOK
      <4>2. d \notin Exported =>
              assigned[d] # NoDn /\ (disk[d] \in {NoFile, Emptied} \/ disk[d] = Made(assigned[d]))
        BY <2>2, <4>1 DEF FirstRun, TextOwn, Own
      <4>3. d \notin Exported => Materialized(disk[d], assigned[d]) = Made(assigned[d])
        BY <4>2 DEF Materialized, IsCucm, Patched, Made, NoFile, Emptied
      <4>4. assigned' = assigned
        BY <1>2 DEF Materialize
      <4> QED BY <4>1, <4>2, <4>3, <4>4 DEF TextOwn, Own
    <3>2. \A v \in Threads \ {w} : TextOwn(v)' /\ (thread'[v].pc = "open" => v = Tftp)
      BY <1>2, <2>2, <1>0 DEF FirstRun, TextOwn, Own, Materialize, TypeOK
    <3>3. thread'[w].pc = "lock"
      BY <1>2, <1>0 DEF Materialize, TypeOK
    <3>4. UNCHANGED <<disk, served, assigned>>
      BY <1>2 DEF Materialize
    <3> QED BY <2>2, <3>1, <3>2, <3>3, <3>4 DEF FirstRun, Own
  <2> QED BY <1>0, <1>2, <2>1, <2>2 DEF Materialize
<1>3. ASSUME NEW w \in Threads, BeginWrite(w) PROVE FilesInv'
  <2>1. Exclusive'
    BY <1>3, <1>0 DEF BeginWrite, Exclusive, TypeOK, Idle, Threads
  <2>2. ASSUME starts = 1 PROVE FirstRun'
    <3> DEFINE d == thread[w].device
    <3>1. CASE w # Tftp /\ disk[d] = thread[w].text
      <4>1. thread' = [thread EXCEPT ![w] = Idle] /\ UNCHANGED <<disk, served, assigned>>
        BY <1>3, <3>1 DEF BeginWrite
      <4> QED BY <2>2, <4>1, <1>0 DEF FirstRun, TextOwn, Own, Idle, TypeOK
    <3>2. CASE ~(w # Tftp /\ disk[d] = thread[w].text)
      <4>1. /\ thread' = [thread EXCEPT ![w].pc = "write"]
            /\ disk' = [disk EXCEPT ![d] = Emptied] /\ UNCHANGED <<served, assigned>>
        BY <1>3, <3>2 DEF BeginWrite
      <4>2. thread[w].pc = "lock" /\ d \in Devices
        BY <1>3, <1>0 DEF BeginWrite, TypeOK
      <4>3. \A e \in Devices \ Exported :
              /\ disk'[e] \in {NoFile, Emptied} \/ Own(e, disk[e])'
              /\ served'[e] = NoFile \/ Own(e, served[e])'
        BY <2>2, <4>1, <4>2, <1>0 DEF FirstRun, Own, TypeOK
      <4>4. TextOwn(w)' /\ (thread'[w].pc = "open" => w = Tftp)
        BY <2>2, <4>1, <4>2, <1>0 DEF FirstRun, TextOwn, Own, TypeOK
      <4>5. \A v \in Threads \ {w} : TextOwn(v)' /\ (thread'[v].pc = "open" => v = Tftp)
        <5> TAKE v \in Threads \ {w}
        <5>1. thread'[v] = thread[v]
          BY <4>1, <1>0 DEF TypeOK
        <5>2. CASE thread[v].pc = "open" /\ thread[v].device = d /\ d \notin Exported
          (* v is the TFTP thread, so w would have left the file alone. *)
          <6>1. v = Tftp /\ Own(d, disk[d]) /\ Own(d, thread[w].text)
            BY <2>2, <4>2, <5>2 DEF FirstRun, TextOwn
          <6> QED BY <3>2, <6>1 DEF Own
        <5>3. CASE ~(thread[v].pc = "open" /\ thread[v].device = d /\ d \notin Exported)
          BY <2>2, <4>1, <4>2, <5>1, <5>3, <1>0 DEF FirstRun, TextOwn, Own, TypeOK
        <5> QED BY <5>2, <5>3
      <4> QED BY <4>3, <4>4, <4>5 DEF FirstRun
    <3> QED BY <3>1, <3>2
  <2> QED BY <1>0, <1>3, <2>1, <2>2 DEF BeginWrite
<1>4. ASSUME NEW w \in Threads, EndWrite(w) PROVE FilesInv'
  <2>1. Exclusive'
    BY <1>4, <1>0 DEF EndWrite, AfterWrite, Exclusive, TypeOK, Idle
  <2>2. ASSUME starts = 1 PROVE FirstRun'
    <3> DEFINE d == thread[w].device
    <3>1. thread[w].pc = "write" /\ d \in Devices
      BY <1>4, <1>0 DEF EndWrite, AfterWrite, TypeOK
    <3>2. disk' = [disk EXCEPT ![d] = thread[w].text] /\ UNCHANGED <<served, assigned>>
      BY <1>4 DEF EndWrite, AfterWrite
    <3>3. d \notin Exported => Own(d, thread[w].text)
      BY <2>2, <3>1 DEF FirstRun, TextOwn
    <3>4. \A e \in Devices \ Exported :
            /\ disk'[e] \in {NoFile, Emptied} \/ Own(e, disk[e])'
            /\ served'[e] = NoFile \/ Own(e, served[e])'
      BY <2>2, <3>1, <3>2, <3>3, <1>0 DEF FirstRun, Own, TypeOK
    <3>5. TextOwn(w)' /\ (thread'[w].pc = "open" => w = Tftp)
      <4>1. CASE w = Tftp
        <5>1. thread' = [thread EXCEPT ![w] = [@ EXCEPT !.pc = "open"]]
          BY <1>4, <4>1 DEF EndWrite, AfterWrite
        <5> QED BY <2>2, <4>1, <5>1, <3>1, <3>2, <3>3, <1>0 DEF FirstRun, TextOwn, Own, TypeOK
      <4>2. CASE w # Tftp
        <5>1. thread'[w] = Idle
          BY <1>4, <4>2, <1>0 DEF EndWrite, AfterWrite, TypeOK
        <5> QED BY <5>1 DEF TextOwn, Idle
      <4> QED BY <4>1, <4>2
    <3>6. \A v \in Threads \ {w} : TextOwn(v)' /\ (thread'[v].pc = "open" => v = Tftp)
      <4> TAKE v \in Threads \ {w}
      <4>1. thread'[v] = thread[v]
        BY <1>4, <1>0 DEF EndWrite, AfterWrite, TypeOK
      <4> QED BY <2>2, <3>1, <3>2, <3>3, <4>1, <1>0 DEF FirstRun, TextOwn, Own, TypeOK
    <3> QED BY <3>4, <3>5, <3>6 DEF FirstRun
  <2> QED BY <1>0, <1>4, <2>1, <2>2 DEF EndWrite, AfterWrite
<1>5. CASE Serve
  <2>1. Exclusive'
    BY <1>5, <1>0 DEF Serve, Exclusive, TypeOK, Idle, Threads
  <2>2. ASSUME starts = 1 PROVE FirstRun'
    <3>1. Tftp \in Threads /\ thread[Tftp].device \in Devices
      BY <1>5, <1>0 DEF Serve, TypeOK, Threads
    <3> QED BY <1>5, <2>2, <3>1, <1>0 DEF Serve, FirstRun, TextOwn, Own, Idle, TypeOK
  <2> QED BY <1>0, <1>5, <2>1, <2>2 DEF Serve
<1>6. CASE Restart
  <2>1. starts' >= 1 /\ starts' # 1
    BY <1>6, <1>0 DEF Restart, TypeOK
  <2>2. Exclusive'
    BY <1>6 DEF Restart, Exclusive, Idle
  <2> QED BY <1>0, <2>1, <2>2
<1>7. CASE UNCHANGED vars
  BY <1>0, <1>7 DEF vars, Exclusive, FirstRun, TextOwn, Own
<1> QED BY <1>1, <1>2, <1>3, <1>4, <1>5, <1>6, <1>7 DEF Next, ThreadStep

(* Until the simulator is started again, no phone without an export is      *)
(* served an unfinished file or another number than its own, in any order   *)
(* of requests, registrations and provisions.                               *)
THEOREM OwnNumberServed == Spec => []ServedOwnDn
<1>1. FilesInv => ServedOwnDn
  <2> SUFFICES ASSUME FilesInv, starts = 1, NEW d \in Devices \ Exported, served[d] # NoFile
               PROVE  served[d].kind # "empty" /\ served[d].dn = assigned[d]
    BY DEF ServedOwnDn
  <2>1. served[d] = Made(assigned[d])
    BY DEF FilesInv, FirstRun, Own
  <2> QED BY <2>1 DEF Made
<1> QED BY FilesInit, FilesNext, <1>1, PTL DEF Spec
=============================================================================
