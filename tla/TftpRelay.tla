----------------------------- MODULE TftpRelay -----------------------------
(***************************************************************************)
(* The TFTP relay between phones on port 69 and the simulator's TFTP       *)
(* server: one session per phone address, with a socket towards the phone  *)
(* (its face) and one towards the server.  The phones' TFTP client and the *)
(* server are tftpy, modelled from what the relay and utils/tftp.py expect *)
(* of them.  Datagrams may be late, reordered and, towards the phone, lost.*)
(***************************************************************************)
EXTENDS Naturals, Sequences

CONSTANTS
  Clients, Blocks, Versions, NoVersion,
  MaxSessions,   \* bound: sessions the relay opens
  MaxTries,      \* bound: times a packet is sent again
  MaxLost,       \* bound: datagrams lost on the way to or from a phone
  Settings       \* how a network and its hosts may be

(* How often a packet is sent again and how many datagrams are lost,        *)
(* whether the last block of a file may be one of them, and whether nobody  *)
(* times out while a datagram is under way.                                 *)
Setting == [tries: 0..MaxTries, losses: 0..MaxLost, losesLast: BOOLEAN, patient: BOOLEAN]

ASSUME RelayAssumption ==
  /\ Blocks \in Nat \ {0} /\ NoVersion \notin Versions
  /\ MaxSessions \in Nat /\ MaxTries \in Nat /\ MaxLost \in Nat
  /\ Settings \subseteq Setting

VARIABLES
  setting,       \* the one of this run
  phone,         \* the TFTP client of each download
  control,       \* requests on their way to port 69, by client
  sessions,      \* self._sessions: client to session, 0 for none
  relay,         \* the sessions opened so far: their client, and whether open
  toFace,        \* acks on their way to a session, from its phone
  toPhone,       \* datagrams on their way to phones
  toServer,      \* from sessions to the server
  toUpstream,    \* from the server to sessions
  server,        \* the server's transfer for each session
  current,       \* the version of the file now
  lost           \* datagrams lost so far

relayVars == <<setting, phone, control, sessions, relay, toFace, toPhone, toServer,
               toUpstream, server, current, lost>>

Sessions == 1..MaxSessions

Data == [to: Sessions, type: {"data"}, n: 1..Blocks, v: Versions]
Error == [to: Sessions, type: {"error"}, n: {0}, v: {NoVersion}]

NoDownload == [pc |-> "idle", face |-> 0, got |-> 0, v |-> NoVersion, tries |-> 0]
NoTransfer == [st |-> "none", n |-> 0, v |-> NoVersion, tries |-> 0]

RelayInit ==
  /\ setting \in Settings
  /\ phone = [c \in Clients |-> NoDownload]
  /\ control = {} /\ toFace = {} /\ toPhone = {} /\ toServer = {} /\ toUpstream = {}
  /\ sessions = [c \in Clients |-> 0]
  /\ relay = <<>>
  /\ server = [s \in Sessions |-> NoTransfer]
  /\ current \in Versions
  /\ lost = 0

-----------------------------------------------------------------------------
(* The phone: tftpy's client, with its own port for each download *)

(* Its packet goes again: the request, or the ack of the block it has. *)
Sends(c) ==
  IF phone[c].pc = "asked"
  THEN control' = control \cup {c} /\ UNCHANGED toFace
  ELSE toFace' = toFace \cup {[to |-> phone[c].face, n |-> phone[c].got]} /\ UNCHANGED control

Ask(c) ==
  /\ phone[c].pc = "idle"
  /\ phone' = [phone EXCEPT ![c].pc = "asked"]
  /\ control' = control \cup {c}
  /\ UNCHANGED <<setting, sessions, relay, toFace, toPhone, toServer,
                 toUpstream, server, current, lost>>

(* A datagram of another port than the first one is discarded. *)
FromAnyPort(c, s) == TRUE                                          \* mutant
FromItsPort(c, s) == phone[c].face \in {0, s}

Kept(m) ==
  [pc |-> IF m.n = Blocks THEN "done" ELSE "getting", face |-> m.to,
   got |-> m.n, v |-> m.v, tries |-> 0]

(* A block from the port it talks to: the next one is kept, all are acked.  *)
PhoneTakes(c, m) ==
  /\ m \in toPhone /\ relay[m.to].client = c
  /\ toPhone' = toPhone \ {m}
  /\ IF phone[c].pc \in {"asked", "getting"} /\ FromItsPort(c, m.to)
     THEN IF m.type = "error"
          THEN phone' = [phone EXCEPT ![c].pc = "failed"] /\ UNCHANGED toFace
          ELSE IF m.n = phone[c].got + 1
          THEN /\ phone' = [phone EXCEPT ![c] = Kept(m)]
               /\ toFace' = toFace \cup {[to |-> m.to, n |-> m.n]}
          ELSE /\ UNCHANGED phone
               /\ toFace' = IF m.n <= phone[c].got
                            THEN toFace \cup {[to |-> m.to, n |-> m.n]} ELSE toFace
     ELSE UNCHANGED <<phone, toFace>>
  /\ UNCHANGED <<setting, control, sessions, relay, toServer,
                 toUpstream, server, current, lost>>

(* What of download c is under way. *)
UnderWay(c) ==
  \/ c \in control
  \/ \E s \in Sessions : s <= Len(relay) /\ relay[s].client = c /\
       \E m \in toFace \cup toPhone \cup toServer \cup toUpstream : m.to = s

PhoneTimesOut(c) ==
  /\ phone[c].pc \in {"asked", "getting"}
  /\ setting.patient => ~UnderWay(c)
  /\ \/ /\ phone[c].tries < setting.tries
        /\ phone' = [phone EXCEPT ![c].tries = @ + 1]
        /\ Sends(c)
     \/ /\ phone[c].tries = setting.tries
        /\ phone' = [phone EXCEPT ![c].pc = "failed"]
        /\ UNCHANGED <<control, toFace>>
  /\ UNCHANGED <<setting, sessions, relay, toPhone, toServer,
                 toUpstream, server, current, lost>>

-----------------------------------------------------------------------------
(* The relay *)

NotClosed(s) == relay                                              \* mutant
Closed(s) == IF s = 0 THEN relay ELSE [relay EXCEPT ![s].open = FALSE]

(* _end_session *)
EndsSession(s) ==
  /\ sessions' = [sessions EXCEPT ![relay[s].client] = 0]
  /\ relay' = Closed(s)

(* _on_control: a request opens a session, and closes the one its phone had. *)
OnControl(c) ==
  /\ c \in control /\ Len(relay) < MaxSessions
  /\ LET s == Len(relay) + 1 IN
       /\ relay' = Append(Closed(sessions[c]), [client |-> c, open |-> TRUE])
       /\ sessions' = [sessions EXCEPT ![c] = s]
       /\ toServer' = toServer \cup {[to |-> s, type |-> "rrq", n |-> 0]}
  /\ control' = control \ {c}
  /\ UNCHANGED <<setting, phone, toFace, toPhone, toUpstream, server, current, lost>>

(* _session_for_socket *)
SessionFor(s) == s

(* _is_terminal_data, or an error *)
TerminalAny(m) == TRUE                                             \* mutant
Terminal(m) == m.type = "error" \/ m.n = Blocks

(* _on_session_socket for the upstream socket; a datagram to a closed       *)
(* socket vanishes.                                                         *)
FromServer(m) ==
  /\ m \in toUpstream
  /\ toUpstream' = toUpstream \ {m}
  /\ IF ~relay[m.to].open
     THEN UNCHANGED <<sessions, relay, toPhone>>
     ELSE /\ toPhone' = toPhone \cup {[m EXCEPT !.to = SessionFor(@)]}
          /\ IF Terminal(m) THEN EndsSession(m.to) ELSE UNCHANGED <<sessions, relay>>
  /\ UNCHANGED <<setting, phone, control, toFace, toServer, server, current, lost>>

(* The same for the phone's side: acks go to the server's port. *)
FromPhone(a) ==
  /\ a \in toFace
  /\ toFace' = toFace \ {a}
  /\ toServer' = IF relay[a.to].open
                 THEN toServer \cup {[to |-> a.to, type |-> "ack", n |-> a.n]} ELSE toServer
  /\ UNCHANGED <<setting, phone, control, sessions, relay, toPhone,
                 toUpstream, server, current, lost>>

(* _expire_idle after two minutes, or a socket error once the phone's port  *)
(* is closed: by then the phone has given up or is done.                    *)
Expire(s) ==
  /\ s <= Len(relay) /\ relay[s].open
  /\ phone[relay[s].client].pc \in {"done", "failed"}
  /\ EndsSession(s)
  /\ UNCHANGED <<setting, phone, control, toFace, toPhone, toServer,
                 toUpstream, server, current, lost>>

-----------------------------------------------------------------------------
(* The server: tftpy, one transfer per upstream port *)

Sending(n, v) == [st |-> "sending", n |-> n, v |-> v, tries |-> 0]
Block(s, n, v) == [to |-> s, type |-> "data", n |-> n, v |-> v]
Refusal(s) == [to |-> s, type |-> "error", n |-> 0, v |-> NoVersion]

(* A request reads the file as it is; one for a missing file is refused. *)
ServerStarts(q) ==
  /\ q \in toServer /\ q.type = "rrq"
  /\ toServer' = toServer \ {q}
  /\ \/ /\ server' = [server EXCEPT ![q.to] = Sending(1, current)]
        /\ toUpstream' = toUpstream \cup {Block(q.to, 1, current)}
     \/ /\ server' = [server EXCEPT ![q.to].st = "gone"]
        /\ toUpstream' = toUpstream \cup {Refusal(q.to)}
  /\ UNCHANGED <<setting, phone, control, sessions, relay, toFace, toPhone, current, lost>>

(* The ack of the block sent brings the next one; older acks are ignored.   *)
(* The relay never brings it the last ack.                                  *)
ServerGoesOn(q) ==
  /\ q \in toServer /\ q.type = "ack"
  /\ toServer' = toServer \ {q}
  /\ LET s == q.to IN
     IF server[s].st = "sending" /\ q.n = server[s].n
     THEN IF q.n = Blocks
          THEN server' = [server EXCEPT ![s].st = "gone"] /\ UNCHANGED toUpstream
          ELSE /\ server' = [server EXCEPT ![s] = Sending(q.n + 1, server[s].v)]
               /\ toUpstream' = toUpstream \cup {Block(s, q.n + 1, server[s].v)}
     ELSE UNCHANGED <<server, toUpstream>>
  /\ UNCHANGED <<setting, phone, control, sessions, relay, toFace, toPhone, current, lost>>

ServerTimesOut(s) ==
  /\ server[s].st = "sending"
  /\ setting.patient => ~UnderWay(relay[s].client)
  /\ IF server[s].tries < setting.tries
     THEN /\ server' = [server EXCEPT ![s].tries = @ + 1]
          /\ toUpstream' = toUpstream \cup {Block(s, server[s].n, server[s].v)}
     ELSE server' = [server EXCEPT ![s].st = "gone"] /\ UNCHANGED toUpstream
  /\ UNCHANGED <<setting, phone, control, sessions, relay, toFace,
                 toPhone, toServer, current, lost>>

(* The configuration is written anew. *)
Rewrite(v) ==
  /\ v # current /\ current' = v
  /\ UNCHANGED <<setting, phone, control, sessions, relay, toFace,
                 toPhone, toServer, toUpstream, server, lost>>

-----------------------------------------------------------------------------
Lose(m) ==
  /\ lost < setting.losses /\ lost' = lost + 1
  /\ \/ m \in toPhone /\ (setting.losesLast \/ ~Terminal(m))
        /\ toPhone' = toPhone \ {m} /\ UNCHANGED <<control, toFace>>
     \/ m \in toFace /\ toFace' = toFace \ {m} /\ UNCHANGED <<control, toPhone>>
     \/ m \in control /\ control' = control \ {m} /\ UNCHANGED <<toFace, toPhone>>
  /\ UNCHANGED <<setting, phone, sessions, relay, toServer, toUpstream, server, current>>

PhoneStep(c) ==
  (\E m \in toPhone : PhoneTakes(c, m)) \/ PhoneTimesOut(c)
RelayStep ==
  \/ \E c \in Clients : OnControl(c)
  \/ \E m \in toUpstream : FromServer(m)
  \/ \E a \in toFace : FromPhone(a)
ServerStep ==
  \/ \E q \in toServer : ServerStarts(q) \/ ServerGoesOn(q)
  \/ \E s \in Sessions : ServerTimesOut(s)

RelayNext ==
  \/ \E c \in Clients : Ask(c) \/ PhoneStep(c)
  \/ RelayStep \/ ServerStep
  \/ \E s \in Sessions : Expire(s)
  \/ \E v \in Versions : Rewrite(v)
  \/ \E m \in toPhone \cup toFace \cup control : Lose(m)

RelaySpec == RelayInit /\ [][RelayNext]_relayVars

(* The relay's loop, the phones and the server run. *)
RelayFairSpec ==
  /\ RelaySpec /\ WF_relayVars(RelayStep) /\ WF_relayVars(ServerStep)
  /\ \A c \in Clients : WF_relayVars(PhoneStep(c))
-----------------------------------------------------------------------------
(* Properties *)

PhonePcs == {"idle", "asked", "getting", "done", "failed"}
Phones == [pc: PhonePcs, face: 0..MaxSessions, got: 0..Blocks,
           v: Versions \cup {NoVersion}, tries: 0..MaxTries]
Sockets == [client: Clients, open: BOOLEAN]
Transfers == [st: {"none", "sending", "gone"}, n: 0..Blocks,
              v: Versions \cup {NoVersion}, tries: 0..MaxTries]

(* Every variable has its type, and no phone or server sends a packet more *)
(* often than it may.                                                       *)
RelayTypeOK ==
  /\ setting \in Settings
  /\ phone \in [Clients -> Phones]
  /\ control \subseteq Clients
  /\ sessions \in [Clients -> 0..Len(relay)]
  /\ Len(relay) <= MaxSessions
  /\ relay \in Seq(Sockets)
  /\ toFace \subseteq [to: 1..Len(relay), n: 0..Blocks]
  /\ toPhone \cup toUpstream \subseteq Data \cup Error
  /\ toServer \subseteq [to: 1..Len(relay), type: {"rrq", "ack"}, n: 0..Blocks]
  /\ server \in [Sessions -> Transfers]
  /\ current \in Versions /\ lost \in 0..MaxLost

(* A download through the relay is a download: whatever is late, repeated   *)
(* or lost, and however often the request was sent again, the phone gets    *)
(* the blocks of one version of its file, in order (tftp_relay.py           *)
(* _session_for_socket, _on_control).                                       *)
Transfer == INSTANCE FileTransfer WITH
  got     <- [c \in Clients |-> phone[c].got],
  version <- [c \in Clients |-> phone[c].v],
  outcome <- [c \in Clients |-> IF phone[c].pc \in {"done", "failed"}
                                THEN phone[c].pc ELSE "open"]
IsTransfer == Transfer!TransferSpec

(* A phone has one session: the others opened for it are closed, so the     *)
(* relay holds two sockets per phone and not per request.                   *)
OneSessionEach ==
  /\ \A s \in 1..Len(relay) : relay[s].open <=> sessions[relay[s].client] = s
  /\ \A c \in Clients : sessions[c] # 0 => relay[sessions[c]].client = c

Refused(c) ==
  \E s \in 1..Len(relay) : relay[s].client = c /\ server[s].st = "gone" /\ server[s].n = 0

(* A download that is not refused completes, as long as the network loses   *)
(* no more than it may (tftp_relay.py, first paragraph: the relay forwards  *)
(* DATA and ACK between the phone and the server).  Does not hold when the  *)
(* last block is lost (tftp_relay.py:206); MCTftp checks the rest.          *)
Completes ==
  \A c \in Clients : phone[c].pc = "asked" ~> phone[c].pc = "done" \/ Refused(c)
=============================================================================
