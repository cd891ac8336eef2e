------------------------ MODULE ClientRegistration ------------------------
(***************************************************************************)
(* How a phone registers, survives a Reset and quits: the threads of       *)
(* client.py (receive loop, keep-alive loop, re-registration worker and    *)
(* the caller of stop()) against one session of the simulator per socket.  *)
(*                                                                         *)
(* A connection is named by a number; the threads connect() starts carry   *)
(* the number of the connection they were started for, but they read       *)
(* self.sock anew at every call, as the code does.  A message is read by   *)
(* two calls of recv, its header and its payload.                          *)
(***************************************************************************)
EXTENDS Naturals, Sequences, FiniteSets

CONSTANTS
  MaxConns,      \* bound: connections opened in a behaviour
  MaxResets,     \* bound: Reset and Restart messages CallManager sends
  MaxDrops,      \* bound: connections CallManager loses
  Slow           \* TRUE \in Slow allows behaviours in which threads outlast a
                 \* join and a payload comes a second after its header

ASSUME RegistrationAssumption ==
  /\ MaxConns \in Nat \ {0}
  /\ {MaxResets, MaxDrops} \subseteq Nat
  /\ Slow \subseteq BOOLEAN

VARIABLES
  sock,          \* self.sock: a connection, or 0 for None
  nextConn,      \* the number of the next connection
  flags,         \* running, stop_event, is_registered, is_unregistered
  down, up,      \* what is on the wire, per connection
  closed,        \* connections the client has closed
  server,        \* the session of each connection
  reader,        \* the receive thread of each connection
  keeper,        \* the keep-alive thread of each connection
  threads,       \* self._threads: the connection they were started for
  worker,        \* the re-registration worker
  quitter,       \* the caller of stop()
  faults         \* Resets sent and connections lost so far, and whether the
                 \* whole behaviour is slow

vars == <<sock, nextConn, flags, down, up, closed, server, reader, keeper, threads, worker, quitter, faults>>

Conns == 1..MaxConns
None  == 0

DownMsgs == {"RegisterAck", "CapabilitiesReq", "ConfigStatRes", "TimeDateRes",
             "UnregisterAck", "Reset"}
UpMsgs   == {"RegisterReq", "CapsAndStats", "StatRequests2", "UnregisterReq"}

(* Each message is a header and a payload on the wire. *)
Parts == {"header", "payload"} \X DownMsgs
Whole(m) == <<<<"header", m>>, <<"payload", m>>>>

NoThread == [pc |-> "none", on |-> None, msg |-> "none"]
Reader == [pc: {"none", "loop", "header", "payload", "handle", "done"},
           on: Conns \cup {None}, msg: DownMsgs \cup {"none"}]
Keeper == {"none", "wait", "done"}

Init ==
  /\ sock = None /\ nextConn = 1 /\ threads = None
  /\ flags = [running |-> FALSE, stop |-> FALSE,
              registered |-> FALSE, unregistered |-> FALSE]
  /\ down = [c \in Conns |-> <<>>] /\ up = [c \in Conns |-> <<>>]
  /\ closed = {}
  /\ server = [c \in Conns |-> "none"]
  /\ reader = [c \in Conns |-> NoThread]
  /\ keeper = [c \in Conns |-> "none"]
  /\ worker = [pc |-> "connect", joins |-> None]
  /\ quitter = [pc |-> "not", sock |-> None, joins |-> None]
  /\ faults \in [resets: {0}, drops: {0}, slow: Slow]

-----------------------------------------------------------------------------
(* The connection *)

Usable(c) == c # None /\ c \notin closed /\ server[c] # "gone"

(* The session is gone, but this end has not noticed: what is sent is lost. *)
Lost(c) == c # None /\ c \notin closed /\ server[c] = "gone"

(* sendall(m) on self.sock: an exception, a loss, or the message goes out. *)
Sent(m) == [up EXCEPT ![sock] = Append(@, m)]

(* connect(): the socket, running, and the two threads. *)
StartThreads ==
  /\ reader' = [reader EXCEPT ![nextConn] = [NoThread EXCEPT !.pc = "loop"]]
  /\ keeper' = [keeper EXCEPT ![nextConn] = "wait"]
  /\ threads' = nextConn

Connect ==
  /\ worker.pc = "connect" /\ nextConn \in Conns
  /\ sock' = nextConn
  /\ nextConn' = nextConn + 1
  /\ flags' = [flags EXCEPT !.running = TRUE]
  /\ server' = [server EXCEPT ![nextConn] = "accepted"]
  /\ StartThreads
  /\ worker' = [worker EXCEPT !.pc = "register"]
  /\ UNCHANGED <<down, up, closed, quitter, faults>>

(* _send_register at the end of start() and of the worker; without a usable *)
(* socket it raises, and the worker gives up with running cleared.          *)
SendRegister ==
  /\ worker.pc = "register"
  /\ worker' = [worker EXCEPT !.pc = "idle"]
  /\ \/ Usable(sock) /\ up' = Sent("RegisterReq") /\ UNCHANGED flags
     \/ Lost(sock) /\ UNCHANGED <<up, flags>>
     \/ /\ ~Usable(sock) /\ UNCHANGED up
        /\ flags' = [flags EXCEPT !.running = FALSE]
  /\ UNCHANGED <<sock, nextConn, down, closed, server, reader, keeper, threads, quitter, faults>>

-----------------------------------------------------------------------------
(* The receive loop *)

(* while self.running and not stop_event: read self.sock, which may be None *)
(* (the exception ends the thread).                                         *)
Loop(t) ==
  /\ reader[t].pc = "loop"
  /\ reader' = [reader EXCEPT ![t] =
       IF flags.running /\ ~flags.stop /\ sock # None
       THEN [pc |-> "header", on |-> sock, msg |-> "none"]
       ELSE [NoThread EXCEPT !.pc = "done"]]
  /\ UNCHANGED <<sock, nextConn, flags, down, up, closed, server, keeper, threads, worker, quitter, faults>>

Reads(t, pc) ==
  /\ reader[t].pc = pc
  /\ reader[t].on \notin closed \cup {None}
  /\ down[reader[t].on] # <<>>

(* recv(12): a header; bytes that are none make a length and an id nobody  *)
(* knows, and what follows is skipped as their payload.                    *)
ReadHeader(t) ==
  /\ Reads(t, "header")
  /\ LET c == reader[t].on
         h == Head(down[c]) IN
       /\ down' = [down EXCEPT ![c] = IF h[1] = "header" THEN Tail(@) ELSE <<>>]
       /\ reader' = [reader EXCEPT ![t] =
            IF h[1] = "header"
            THEN [pc |-> "payload", on |-> sock, msg |-> h[2]]
            ELSE [NoThread EXCEPT !.pc = "loop"]]
  /\ UNCHANGED <<sock, nextConn, flags, up, closed, server, keeper, threads, worker, quitter, faults>>

(* recv(payload_length) on self.sock as it is by then. *)
ReadPayload(t) ==
  /\ Reads(t, "payload")
  /\ LET c == reader[t].on IN
       /\ down' = [down EXCEPT ![c] = Tail(@)]
       /\ reader' = [reader EXCEPT ![t].pc = "handle"]
  /\ UNCHANGED <<sock, nextConn, flags, up, closed, server, keeper, threads, worker, quitter, faults>>

(* recv fails: the client closed the socket or set it to None, or the       *)
(* session is gone and everything it sent has been read.                    *)
ReadFails(t) ==
  /\ reader[t].pc \in {"header", "payload"}
  /\ LET c == reader[t].on IN
       \/ c = None \/ c \in closed
       \/ c # None /\ server[c] = "gone" /\ down[c] = <<>>
  /\ reader' = [reader EXCEPT ![t] = [NoThread EXCEPT !.pc = "done"]]
  /\ UNCHANGED <<sock, nextConn, flags, down, up, closed, server, keeper, threads, worker, quitter, faults>>

(* recv times out after a second and the loop looks at its flags; a header  *)
(* already read is forgotten, and its payload is what recv returns next.    *)
ReadTimesOut(t) ==
  /\ reader[t].pc \in {"header", "payload"}
  /\ reader[t].on \notin closed \cup {None}
  /\ down[reader[t].on] = <<>> \/ (reader[t].pc = "payload" /\ faults.slow)
  /\ reader' = [reader EXCEPT ![t] = [NoThread EXCEPT !.pc = "loop"]]
  /\ UNCHANGED <<sock, nextConn, flags, down, up, closed, server, keeper, threads, worker, quitter, faults>>

-----------------------------------------------------------------------------
(* The handlers, run by the receive thread *)

(* What the handler of m leaves in the flags. *)
FlagsKept(m) == flags                                              \* mutant

FlagsAfter(m) ==
  CASE m = "TimeDateRes"   -> [flags EXCEPT !.registered = TRUE]
    [] m = "UnregisterAck" -> [flags EXCEPT !.registered = FALSE,
                                 !.unregistered = TRUE, !.running = FALSE]
    [] OTHER               -> flags

(* What the handler of m sends. *)
Reply(m) ==
  CASE m = "CapabilitiesReq" -> <<"CapsAndStats">>
    [] m = "ConfigStatRes"   -> <<"StatRequests2">>
    [] OTHER                 -> <<>>

(* dispatch_message returns at once when the client is not running; a send  *)
(* without a usable socket raises, and the loop goes on.  Reset starts the  *)
(* worker unless one is at work.                                            *)
Handle(t) ==
  /\ reader[t].pc = "handle"
  /\ reader' = [reader EXCEPT ![t] = [NoThread EXCEPT !.pc = "loop"]]
  /\ LET m == reader[t].msg IN
     IF ~flags.running
     THEN UNCHANGED <<flags, up, worker>>
     ELSE /\ flags' = FlagsAfter(m)
          /\ up' = IF Usable(sock) THEN [up EXCEPT ![sock] = @ \o Reply(m)] ELSE up
          /\ worker' = IF m = "Reset" /\ worker.pc = "idle"
                       THEN [worker EXCEPT !.pc = "halt"] ELSE worker
  /\ UNCHANGED <<sock, nextConn, down, closed, server, keeper, threads,
                 quitter, faults>>

-----------------------------------------------------------------------------
(* The keep-alive loop *)

(* The wait ends because stop_event is set, or after the interval; then the *)
(* request goes out (or is lost), or the failed send clears running.  What  *)
(* a request that goes out does is its ack, which changes nothing here.     *)
KeeperStops(t) ==
  /\ keeper[t] = "wait"
  /\ flags.stop \/ (~flags.running /\ sock # None /\ sock \notin closed)
  /\ keeper' = [keeper EXCEPT ![t] = "done"]
  /\ UNCHANGED <<sock, nextConn, flags, down, up, closed, server, reader,
                 threads, worker, quitter, faults>>

KeepAliveFails(t) ==
  /\ keeper[t] = "wait" /\ ~flags.stop /\ ~Usable(sock)
  /\ flags' = [flags EXCEPT !.unregistered = TRUE, !.running = FALSE]
  /\ keeper' = [keeper EXCEPT ![t] = "done"]
  /\ UNCHANGED <<sock, nextConn, down, up, closed, server, reader, threads,
                 worker, quitter, faults>>

-----------------------------------------------------------------------------
(* The re-registration worker *)

Alive(t) == t # None /\ (reader[t].pc \notin {"none", "done"} \/ keeper[t] = "wait")

JoinsNobody(t) == TRUE                                             \* mutant

(* t.join(timeout): over when the threads are; of a slow one it may give up. *)
Joined(t) == ~Alive(t) \/ faults.slow

WorkerHalts ==
  /\ worker.pc = "halt"
  /\ flags' = [flags EXCEPT !.running = FALSE, !.stop = TRUE]
  /\ worker' = [worker EXCEPT !.pc = "close"]
  /\ UNCHANGED <<sock, nextConn, down, up, closed, server, reader, keeper, threads, quitter, faults>>

WorkerCloses ==
  /\ worker.pc = "close"
  /\ closed' = closed \cup ({sock} \ {None})
  /\ sock' = None
  /\ worker' = [pc |-> "join", joins |-> threads]
  /\ UNCHANGED <<nextConn, flags, down, up, server, reader, keeper, threads, quitter, faults>>

(* stop_event and the registration flags are cleared, and running is set    *)
(* again before the new connection exists.                                  *)
FlagsRenewedKept ==                                                \* mutant
  [flags EXCEPT !.running = TRUE, !.stop = FALSE]

FlagsRenewed ==
  [running |-> TRUE, stop |-> FALSE, registered |-> FALSE, unregistered |-> FALSE]

WorkerRenews ==
  /\ worker.pc = "join" /\ Joined(worker.joins)
  /\ flags' = FlagsRenewed
  /\ threads' = None
  /\ worker' = [pc |-> "connect", joins |-> None]
  /\ UNCHANGED <<sock, nextConn, down, up, closed, server, reader, keeper,
                 quitter, faults>>

-----------------------------------------------------------------------------
(* stop(), called once by the user's thread *)

(* _close_skinny_socket(send_unregister=True) keeps the socket it starts    *)
(* with, and asks to unregister on it when is_registered is set.            *)
Quit ==
  /\ quitter.pc = "not" /\ nextConn > 1
  /\ nextConn = 2 => worker.pc # "register"      \* start() has returned
  /\ IF flags.registered /\ Usable(sock)
     THEN /\ up' = Sent("UnregisterReq")
          /\ quitter' = [quitter EXCEPT !.pc = "wait", !.sock = sock]
     ELSE /\ UNCHANGED up
          /\ quitter' = [quitter EXCEPT !.pc = "close", !.sock = sock]
  /\ UNCHANGED <<sock, nextConn, flags, down, closed, server, reader, keeper, threads, worker, faults>>

(* is_unregistered.wait(5): the ack came, or five seconds passed. *)
QuitWaits ==
  /\ quitter.pc = "wait"
  /\ flags.unregistered \/ faults.slow \/ ~Usable(quitter.sock)
       \/ \A t \in Conns : reader[t].pc \in {"none", "done"}
  /\ quitter' = [quitter EXCEPT !.pc = "close"]
  /\ UNCHANGED <<sock, nextConn, flags, down, up, closed, server, reader,
                 keeper, threads, worker, faults>>

QuitForgets ==                                                     \* mutant
  /\ quitter.pc = "close"
  /\ sock' = None
  /\ quitter' = [quitter EXCEPT !.pc = "halt"]
  /\ UNCHANGED <<nextConn, flags, down, up, closed, server, reader, keeper, threads, worker, faults>>

(* The captured socket is closed and self.sock forgotten, whichever it is   *)
(* by now; a stop() that found no socket touches nothing.                   *)
QuitCloses ==
  /\ quitter.pc = "close"
  /\ closed' = closed \cup ({quitter.sock} \ {None})
  /\ sock' = IF quitter.sock # None THEN None ELSE sock
  /\ quitter' = [quitter EXCEPT !.pc = "halt"]
  /\ UNCHANGED <<nextConn, flags, down, up, server, reader, keeper, threads, worker, faults>>

Halted == [flags EXCEPT !.running = FALSE, !.stop = TRUE]

QuitHalts ==
  /\ quitter.pc = "halt"
  /\ flags' = Halted
  /\ quitter' = [quitter EXCEPT !.pc = "join", !.joins = threads]
  /\ UNCHANGED <<sock, nextConn, down, up, closed, server, reader, keeper, threads, worker, faults>>

QuitJoins ==
  /\ quitter.pc = "join" /\ Joined(quitter.joins)
  /\ flags' = [flags EXCEPT !.registered = FALSE, !.unregistered = TRUE]
  /\ quitter' = [quitter EXCEPT !.pc = "done"]
  /\ UNCHANGED <<sock, nextConn, down, up, closed, server, reader, keeper, threads, worker, faults>>

-----------------------------------------------------------------------------
(* The sessions of the simulator *)

(* What a session sends back, and what it then is. *)
Answer(m, s) ==
  CASE m = "RegisterReq"   -> Whole("RegisterAck") \o Whole("CapabilitiesReq")
    [] m = "CapsAndStats" /\ s # "accepted" -> Whole("ConfigStatRes")
    [] m = "StatRequests2" /\ s # "accepted" -> Whole("TimeDateRes")
    [] m = "UnregisterReq" -> Whole("UnregisterAck")
    [] OTHER               -> <<>>

SessionAfter(m, s) ==
  CASE m = "RegisterReq" /\ s = "accepted"   -> "named"
    [] m = "StatRequests2" /\ s # "accepted" -> "registered"
    [] m = "UnregisterReq" -> "gone"
    [] OTHER -> s

ServerHandles(c) ==
  /\ server[c] \notin {"none", "gone"} /\ up[c] # <<>>
  /\ up' = [up EXCEPT ![c] = Tail(@)]
  /\ down' = [down EXCEPT ![c] = @ \o Answer(Head(up[c]), server[c])]
  /\ server' = [server EXCEPT ![c] = SessionAfter(Head(up[c]), @)]
  /\ UNCHANGED <<sock, nextConn, flags, closed, reader, keeper, threads, worker, quitter, faults>>

(* The session of a connection the client closed, once it has read all. *)
ServerSeesClose(c) ==
  /\ server[c] \notin {"none", "gone"} /\ c \in closed /\ up[c] = <<>>
  /\ server' = [server EXCEPT ![c] = "gone"]
  /\ UNCHANGED <<sock, nextConn, flags, down, up, closed, reader, keeper, threads, worker, quitter, faults>>

(* An administrator resets or restarts the device. *)
Reset(c) ==
  /\ server[c] = "registered" /\ faults.resets < MaxResets
  /\ down' = [down EXCEPT ![c] = @ \o Whole("Reset")]
  /\ faults' = [faults EXCEPT !.resets = @ + 1]
  /\ UNCHANGED <<sock, nextConn, flags, up, closed, server, reader, keeper, threads, worker, quitter>>

(* CallManager goes away, with what it had not read; as a bound, only where *)
(* nothing is slow.                                                         *)
Drop(c) ==
  /\ server[c] \notin {"none", "gone"} /\ faults.drops < MaxDrops /\ ~faults.slow
  /\ server' = [server EXCEPT ![c] = "gone"]
  /\ up' = [up EXCEPT ![c] = <<>>]
  /\ faults' = [faults EXCEPT !.drops = @ + 1]
  /\ UNCHANGED <<sock, nextConn, flags, down, closed, reader, keeper, threads, worker, quitter>>

-----------------------------------------------------------------------------
ReaderStep(t) ==
  Loop(t) \/ ReadHeader(t) \/ ReadPayload(t) \/ ReadFails(t)
    \/ ReadTimesOut(t) \/ Handle(t)
KeeperStep(t) == KeeperStops(t) \/ KeepAliveFails(t)
WorkerStep ==
  WorkerHalts \/ WorkerCloses \/ WorkerRenews \/ Connect \/ SendRegister
QuitStep == QuitWaits \/ QuitCloses \/ QuitHalts \/ QuitJoins
ServerStep(c) == ServerHandles(c) \/ ServerSeesClose(c)

Next ==
  \/ \E t \in Conns : ReaderStep(t) \/ KeeperStep(t) \/ ServerStep(t)
                        \/ Reset(t) \/ Drop(t)
  \/ WorkerStep \/ Quit \/ QuitStep

Spec == Init /\ [][Next]_vars

(* Every thread that can run does, the session answers, and a keep-alive    *)
(* thread wakes when its interval ends; nobody has to quit or to reset.     *)
FairSpec ==
  /\ Spec
  /\ \A t \in Conns : WF_vars(ReaderStep(t)) /\ WF_vars(KeeperStep(t))
                        /\ WF_vars(ServerStep(t))
  /\ WF_vars(WorkerStep) /\ WF_vars(QuitStep)

-----------------------------------------------------------------------------
(* Properties *)

TypeOK ==
  /\ sock \in Conns \cup {None} /\ nextConn \in 1..(MaxConns + 1)
  /\ threads \in Conns \cup {None}
  /\ flags \in [running: BOOLEAN, stop: BOOLEAN,
                registered: BOOLEAN, unregistered: BOOLEAN]
  /\ down \in [Conns -> Seq(Parts)] /\ up \in [Conns -> Seq(UpMsgs)]
  /\ closed \subseteq Conns
  /\ server \in [Conns -> {"none", "accepted", "named", "registered", "gone"}]
  /\ reader \in [Conns -> Reader] /\ keeper \in [Conns -> Keeper]
  /\ worker \in [pc: {"idle", "halt", "close", "join", "connect", "register"},
                 joins: Conns \cup {None}]
  /\ quitter \in [pc: {"not", "wait", "close", "halt", "join", "done"},
                  sock: Conns \cup {None}, joins: Conns \cup {None}]
  /\ faults \in [resets: 0..MaxResets, drops: 0..MaxDrops, slow: Slow]

(* Two receive threads never live at once: the worker of client.py joins    *)
(* the old one before it connects, so no message is split between two.      *)
OneReader ==
  ~faults.slow => Cardinality({t \in Conns : reader[t].pc \notin {"none", "done"}}) <= 1

(* A receive thread that waits for a header finds one: no reader has taken  *)
(* a header and left its payload on the socket (client.py read_skinny_      *)
(* message forgets a header whose payload is late).                         *)
StreamInStep ==
  ~faults.slow =>
    \A t \in Conns :
      Reads(t, "header") => Head(down[reader[t].on])[1] = "header"

(* A connection has one reader, which never loses its framing.              *)
ReadersInStep == OneReader /\ StreamInStep

(* While no thread is changing it, is_registered (the console's Registered  *)
(* header) is about the connection in use: its session completed the        *)
(* registration, or was lost after it.  A TimeDateRes of the connection     *)
(* before a Reset does not count.  (Where threads outlast a join it can: of *)
(* two readers of a connection one may hold its TimeDateRes until the other *)
(* has read a Reset and the worker has connected again.)                    *)
RegisteredIsReal ==
  ~faults.slow /\ flags.registered /\ worker.pc = "idle" /\ quitter.pc = "not" =>
    sock # None /\ server[sock] \in {"registered", "gone"}

(* When stop() has returned, the client is not running, its threads have    *)
(* ended and no socket is open, so that the process can exit; a Reset that  *)
(* comes in between is left out (its worker connects again).                *)
QuitIsFinal ==
  quitter.pc = "done" /\ faults.resets = 0 /\ ~faults.slow =>
    /\ ~flags.running
    /\ sock = None
    /\ \A t \in Conns : ~Alive(t)

(* A Reset or Restart brings the phone back to Registered, unless its user  *)
(* quits or CallManager goes away.                                          *)
Reconnects ==
  (worker.pc = "halt" /\ ~faults.slow) ~>
    \/ flags.registered /\ worker.pc = "idle"
    \/ quitter.pc # "not"
    \/ faults.drops > 0

(* stop() returns, whatever happens to the connection meanwhile, and        *)
(* without a Reset at that time CallManager forgets the phone.              *)
StopReturns ==
  quitter.pc # "not" ~>
    /\ quitter.pc = "done"
    /\ faults.resets = 0 => \A c \in Conns : server[c] \in {"none", "gone"}
=============================================================================
