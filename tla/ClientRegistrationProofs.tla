--------------------- MODULE ClientRegistrationProofs ---------------------
(***************************************************************************)
(* What holds of ClientRegistration for any number of connections, Resets  *)
(* and losses: its types; and, while no thread outlasts a join, that a     *)
(* connection has one reader that keeps its framing, that is_registered is *)
(* about the connection in use, and that stop() is final.                  *)
(*                                                                         *)
(* All of it rests on which connection the threads are about: whatever is  *)
(* alive was started for self._threads, the last connection made, and      *)
(* self.sock is that connection or None.                                   *)
(***************************************************************************)
EXTENDS ClientRegistration, FiniteSetTheorems, SequenceTheorems, TLAPS

-----------------------------------------------------------------------------
(* The inductive invariant *)

(* self._threads are those of the last connection, but for the time from    *)
(* the worker's join to its connect().                                      *)
ThreadsOfLast ==
  /\ IF worker.pc = "connect" THEN threads = None
     ELSE threads = nextConn - 1 /\ threads # None
  /\ worker.pc = "join" => worker.joins = threads
  /\ \A c \in Conns : c >= nextConn => server[c] = "none" /\ reader[c].pc = "none"

(* self.sock is the last connection, unless the worker or stop() closed it. *)
SockOfLast ==
  /\ sock \in {None, threads}
  /\ worker.pc = "join" => sock = None
  /\ worker.pc \notin {"join", "connect"} /\ quitter.pc \in {"not", "wait", "close"} =>
       sock # None

OneAlive == \A t \in Conns : Alive(t) => t = threads

(* A thread reads the connection it was started for, or fails on None. *)
ReadsItsOwn ==
  \A t \in Conns : reader[t].pc \in {"header", "payload"} => reader[t].on \in {None, t}

(* Headers and payloads take turns on the wire, a payload comes last. *)
Alternates(s) ==
  /\ s # <<>> => s[Len(s)][1] = "payload"
  /\ \A i \in 1..(Len(s) - 1) : s[i][1] # s[i + 1][1]

(* The next part on the wire is the one the reader is after. *)
Framed ==
  \A t \in Conns :
    /\ Alternates(down[t])
    /\ reader[t].pc \notin {"payload", "done"} /\ down[t] # <<>> => down[t][1][1] = "header"
    /\ reader[t].pc = "payload" /\ reader[t].on = t =>
         down[t] # <<>> /\ down[t][1][1] = "payload"

(* m was sent on connection c, and its handler has not run yet. *)
Coming(m, c) ==
  \/ \E i \in 1..Len(down[c]) : down[c][i][2] = m
  \/ reader[c].pc \in {"payload", "handle"} /\ reader[c].msg = m

Completed(c) == server[c] \in {"registered", "gone"}

TimeDateOfCompleted == \A c \in Conns : Coming("TimeDateRes", c) => Completed(c)

RegisteredByLast == flags.registered => threads # None /\ Completed(threads)

(* Without a Reset there is one connection, which stop() closes for good. *)
StopStages ==
  /\ worker.pc \in {"connect", "register", "idle"}
  /\ nextConn = IF worker.pc = "connect" THEN 1 ELSE 2
  /\ quitter.pc # "not" => worker.pc = "idle"
  /\ quitter.pc \in {"wait", "close"} => quitter.sock # None
  /\ quitter.pc \in {"halt", "join", "done"} => sock = None
  /\ quitter.pc \in {"join", "done"} => ~flags.running
  /\ quitter.pc = "join" => quitter.joins = threads

StaysDead == quitter.pc = "done" => ~Alive(threads)

NoReset == \A c \in Conns : ~Coming("Reset", c)

StopsForGood == faults.resets = 0 => NoReset /\ StopStages /\ StaysDead

Prompt ==
  /\ ThreadsOfLast /\ SockOfLast /\ OneAlive /\ ReadsItsOwn /\ Framed
  /\ TimeDateOfCompleted /\ RegisteredByLast /\ StopsForGood

IInv == TypeOK /\ (~faults.slow => Prompt)

-----------------------------------------------------------------------------
(* What is on the wire *)

LEMMA WholeParts ==
  ASSUME NEW m \in DownMsgs
  PROVE  /\ Whole(m) \in Seq(Parts) /\ Len(Whole(m)) = 2
         /\ Whole(m)[1] = <<"header", m>> /\ Whole(m)[2] = <<"payload", m>>
BY DEF Whole, Parts

LEMMA AnswerParts ==
  ASSUME NEW m \in UpMsgs, NEW s
  PROVE  Answer(m, s) \in Seq(Parts)
<1> DEFINE two == Whole("RegisterAck") \o Whole("CapabilitiesReq")
<1>1. \A d \in DownMsgs : Whole(d) \in Seq(Parts)
  BY WholeParts
<1>2. two \in Seq(Parts)
  BY <1>1, ConcatProperties DEF DownMsgs
<1> HIDE DEF two
<1>3. Answer(m, s) \in {two, Whole("ConfigStatRes"), Whole("TimeDateRes"),
                        Whole("UnregisterAck"), <<>>}
  BY DEF Answer, two
<1>4. /\ <<>> \in Seq(Parts) /\ Whole("ConfigStatRes") \in Seq(Parts)
      /\ Whole("TimeDateRes") \in Seq(Parts) /\ Whole("UnregisterAck") \in Seq(Parts)
  BY <1>1, EmptySeq DEF DownMsgs
<1> QED
  BY <1>2, <1>3, <1>4

LEMMA ReplyParts ==
  ASSUME NEW m
  PROVE  Reply(m) \in Seq(UpMsgs)
<1>1. Reply(m) \in {<<"CapsAndStats">>, <<"StatRequests2">>, <<>>}
  BY DEF Reply
<1>2. /\ <<"CapsAndStats">> \in Seq(UpMsgs) /\ <<"StatRequests2">> \in Seq(UpMsgs)
      /\ <<>> \in Seq(UpMsgs)
  BY DEF UpMsgs
<1> QED
  BY <1>1, <1>2

-----------------------------------------------------------------------------
(* Types *)

Flags == [running: BOOLEAN, stop: BOOLEAN, registered: BOOLEAN, unregistered: BOOLEAN]
Workers == [pc: {"idle", "halt", "close", "join", "connect", "register"},
            joins: Conns \cup {None}]
Quitters == [pc: {"not", "wait", "close", "halt", "join", "done"},
             sock: Conns \cup {None}, joins: Conns \cup {None}]
SessionStates == {"none", "accepted", "named", "registered", "gone"}
Faults == [resets: 0..MaxResets, drops: 0..MaxDrops, slow: Slow]

Typed ==
  /\ sock \in Conns \cup {None} /\ nextConn \in 1..(MaxConns + 1)
  /\ threads \in Conns \cup {None} /\ flags \in Flags
  /\ down \in [Conns -> Seq(Parts)] /\ up \in [Conns -> Seq(UpMsgs)]
  /\ closed \subseteq Conns /\ server \in [Conns -> SessionStates]
  /\ reader \in [Conns -> Reader] /\ keeper \in [Conns -> Keeper]
  /\ worker \in Workers /\ quitter \in Quitters /\ faults \in Faults

LEMMA SameTypes == (TypeOK <=> Typed) /\ (TypeOK' <=> Typed')
BY DEF TypeOK, Typed, Flags, Workers, Quitters, SessionStates, Faults

LEMMA FlagsTyped ==
  ASSUME flags \in Flags, NEW m
  PROVE  /\ Halted \in Flags /\ FlagsRenewed \in Flags /\ FlagsAfter(m) \in Flags
         /\ [flags EXCEPT !.running = TRUE] \in Flags
         /\ [flags EXCEPT !.running = FALSE] \in Flags
         /\ [flags EXCEPT !.running = FALSE, !.stop = TRUE] \in Flags
         /\ [flags EXCEPT !.unregistered = TRUE, !.running = FALSE] \in Flags
         /\ [flags EXCEPT !.registered = FALSE, !.unregistered = TRUE] \in Flags
BY DEF Flags, Halted, FlagsRenewed, FlagsAfter

LEMMA InitTypes ==
  ASSUME RegistrationAssumption, Init
  PROVE  TypeOK
<1>1. NoThread \in Reader
  BY DEF Reader, NoThread, None
<1>2. down \in [Conns -> Seq(Parts)] /\ up \in [Conns -> Seq(UpMsgs)]
  BY EmptySeq DEF Init
<1>3. flags \in Flags
  BY DEF Init, Flags
<1>4. faults \in [resets: 0..MaxResets, drops: 0..MaxDrops, slow: Slow]
  BY DEF Init, RegistrationAssumption
<1> QED
  BY <1>1, <1>2, <1>3, <1>4 DEF Init, RegistrationAssumption, TypeOK, Flags, Conns, None, Keeper


LEMMA ReaderTyped ==
  ASSUME reader \in [Conns -> Reader], NEW t \in Conns
  PROVE  /\ [reader EXCEPT ![t] = [NoThread EXCEPT !.pc = "loop"]] \in [Conns -> Reader]
         /\ [reader EXCEPT ![t] = [NoThread EXCEPT !.pc = "done"]] \in [Conns -> Reader]
         /\ [reader EXCEPT ![t].pc = "handle"] \in [Conns -> Reader]
         /\ \A c \in Conns \cup {None}, m \in DownMsgs \cup {"none"}, pc \in {"header", "payload"} :
              [reader EXCEPT ![t] = [pc |-> pc, on |-> c, msg |-> m]] \in [Conns -> Reader]
<1>1. /\ [NoThread EXCEPT !.pc = "loop"] \in Reader
      /\ [NoThread EXCEPT !.pc = "done"] \in Reader
  BY DEF Reader, NoThread, None
<1>2. [reader[t] EXCEPT !.pc = "handle"] \in Reader
  BY DEF Reader
<1>3. \A c \in Conns \cup {None}, m \in DownMsgs \cup {"none"}, pc \in {"header", "payload"} :
        [pc |-> pc, on |-> c, msg |-> m] \in Reader
  BY DEF Reader
<1>4. [reader EXCEPT ![t].pc = "handle"] = [reader EXCEPT ![t] = [reader[t] EXCEPT !.pc = "handle"]]
  OBVIOUS
<1> QED
  BY <1>1, <1>2, <1>3, <1>4

(* What a step may put into its variables. *)
LEMMA ReaderTypes ==
  ASSUME Typed, NEW t \in Conns, ReaderStep(t)
  PROVE  Typed'
<1>1. /\ reader \in [Conns -> Reader] /\ sock \in Conns \cup {None} /\ flags \in Flags
      /\ down \in [Conns -> Seq(Parts)] /\ up \in [Conns -> Seq(UpMsgs)]
  BY DEF Typed
<1>2. reader[t] \in Reader /\ reader[t].on \in Conns \cup {None}
  BY <1>1 DEF Reader
<1>3. CASE Loop(t)
  <2>1. reader' \in [Conns -> Reader]
    BY <1>1, <1>3, ReaderTyped DEF Loop
  <2> QED
    BY <1>3, <2>1 DEF Loop, Typed
<1>4. CASE ReadHeader(t)
  <2> DEFINE c == reader[t].on
  <2>1. c \in Conns /\ down[c] \in Seq(Parts) /\ down[c] # <<>>
    BY <1>1, <1>2, <1>4 DEF ReadHeader, Reads
  <2>2. Head(down[c]) \in Parts /\ Tail(down[c]) \in Seq(Parts) /\ <<>> \in Seq(Parts)
    BY <2>1, HeadTailProperties, EmptySeq
  <2>3. Head(down[c])[2] \in DownMsgs
    BY <2>2 DEF Parts
  <2>4. reader' \in [Conns -> Reader]
    BY <1>1, <1>4, <2>3, ReaderTyped DEF ReadHeader
  <2>5. down' \in [Conns -> Seq(Parts)]
    BY <1>1, <1>4, <2>1, <2>2 DEF ReadHeader
  <2> QED
    BY <1>4, <2>4, <2>5 DEF ReadHeader, Typed
<1>5. CASE ReadPayload(t)
  <2> DEFINE c == reader[t].on
  <2>1. c \in Conns /\ down[c] \in Seq(Parts) /\ down[c] # <<>>
    BY <1>1, <1>2, <1>5 DEF ReadPayload, Reads
  <2>2. Tail(down[c]) \in Seq(Parts)
    BY <2>1, HeadTailProperties
  <2>3. reader' \in [Conns -> Reader]
    BY <1>1, <1>5, ReaderTyped DEF ReadPayload
  <2>4. down' \in [Conns -> Seq(Parts)]
    BY <1>1, <1>5, <2>1, <2>2 DEF ReadPayload
  <2> QED
    BY <1>5, <2>3, <2>4 DEF ReadPayload, Typed
<1>6. CASE ReadFails(t) \/ ReadTimesOut(t)
  <2>1. \/ reader' = [reader EXCEPT ![t] = [NoThread EXCEPT !.pc = "done"]]
        \/ reader' = [reader EXCEPT ![t] = [NoThread EXCEPT !.pc = "loop"]]
    BY <1>6 DEF ReadFails, ReadTimesOut
  <2>2. reader' \in [Conns -> Reader]
    BY <1>1, <2>1, ReaderTyped
  <2> QED
    BY <1>6, <2>2 DEF ReadFails, ReadTimesOut, Typed
<1>7. CASE Handle(t)
  <2>1. reader' \in [Conns -> Reader]
    BY <1>1, <1>7, ReaderTyped DEF Handle
  <2>2. flags' \in Flags
    BY <1>1, <1>7, FlagsTyped DEF Handle
  <2>3. up' \in [Conns -> Seq(UpMsgs)]
    <3>1. \A m : Usable(sock) => up[sock] \o Reply(m) \in Seq(UpMsgs)
      BY <1>1, ReplyParts, ConcatProperties DEF Usable
    <3> QED
      BY <1>1, <1>7, <3>1 DEF Handle
  <2>4. worker' \in Workers
    BY <1>7 DEF Handle, Typed, Workers
  <2> QED
    BY <1>7, <2>1, <2>2, <2>3, <2>4 DEF Handle, Typed
<1> QED
  BY <1>3, <1>4, <1>5, <1>6, <1>7 DEF ReaderStep

LEMMA SentTyped ==
  ASSUME Typed, NEW m \in UpMsgs, Usable(sock)
  PROVE  Sent(m) \in [Conns -> Seq(UpMsgs)]
<1>1. up \in [Conns -> Seq(UpMsgs)] /\ sock \in Conns /\ up[sock] \in Seq(UpMsgs)
  BY DEF Typed, Usable
<1>2. Append(up[sock], m) \in Seq(UpMsgs)
  BY <1>1, AppendProperties
<1> QED
  BY <1>1, <1>2 DEF Sent

LEMMA WorkerTypes ==
  ASSUME RegistrationAssumption, Typed, WorkerStep
  PROVE  Typed'
<1>1. /\ flags \in Flags /\ worker \in Workers /\ reader \in [Conns -> Reader]
      /\ keeper \in [Conns -> Keeper] /\ nextConn \in 1..(MaxConns + 1) /\ MaxConns \in Nat
      /\ threads \in Conns \cup {None}
      /\ server \in [Conns -> SessionStates]
  BY DEF Typed, RegistrationAssumption
<1>2. CASE WorkerHalts
  <2>1. flags' \in Flags /\ worker' \in Workers
    BY <1>1, <1>2, FlagsTyped DEF WorkerHalts, Workers
  <2> QED
    BY <1>2, <2>1 DEF WorkerHalts, Typed
<1>3. CASE WorkerCloses
  <2>1. worker' \in Workers
    BY <1>1, <1>3 DEF WorkerCloses, Workers
  <2>2. closed' \subseteq Conns /\ sock' \in Conns \cup {None}
    BY <1>3 DEF WorkerCloses, Typed
  <2> QED
    BY <1>3, <2>1, <2>2 DEF WorkerCloses, Typed
<1>4. CASE WorkerRenews
  <2>1. flags' \in Flags /\ worker' \in Workers
    BY <1>1, <1>4, FlagsTyped DEF WorkerRenews, Workers
  <2> QED
    BY <1>4, <2>1 DEF WorkerRenews, Typed
<1>5. CASE Connect
  <2>1. nextConn \in Conns
    BY <1>5 DEF Connect
  <2>2. flags' \in Flags /\ worker' \in Workers
    BY <1>1, <1>5, FlagsTyped DEF Connect, Workers
  <2>3. reader' \in [Conns -> Reader]
    BY <1>1, <1>5, <2>1, ReaderTyped DEF Connect, StartThreads
  <2>4. keeper' \in [Conns -> Keeper]
    BY <1>1, <1>5 DEF Connect, StartThreads, Keeper
  <2>5. /\ sock' \in Conns /\ nextConn' \in 1..(MaxConns + 1) /\ threads' \in Conns
    BY <1>1, <1>5, <2>1 DEF Connect, StartThreads, Conns
  <2>6. server' \in [Conns -> SessionStates]
    BY <1>1, <1>5 DEF Connect, SessionStates
  <2> QED
    BY <1>5, <2>2, <2>3, <2>4, <2>5, <2>6 DEF Connect, Typed
<1>6. CASE SendRegister
  <2>1. flags' \in Flags /\ worker' \in Workers
    BY <1>1, <1>6, FlagsTyped DEF SendRegister, Workers
  <2>2. up' \in [Conns -> Seq(UpMsgs)]
    BY <1>6, SentTyped DEF SendRegister, Typed, UpMsgs
  <2> QED
    BY <1>6, <2>1, <2>2 DEF SendRegister, Typed
<1> QED
  BY <1>2, <1>3, <1>4, <1>5, <1>6 DEF WorkerStep

LEMMA KeeperTypes ==
  ASSUME Typed, NEW t \in Conns, KeeperStep(t)
  PROVE  Typed'
<1>1. flags \in Flags /\ keeper \in [Conns -> Keeper]
  BY DEF Typed
<1>2. flags' \in Flags
  BY <1>1, FlagsTyped DEF KeeperStep, KeeperStops, KeepAliveFails
<1>3. keeper' \in [Conns -> Keeper]
  BY <1>1 DEF KeeperStep, KeeperStops, KeepAliveFails, Keeper
<1> QED
  BY <1>2, <1>3 DEF KeeperStep, KeeperStops, KeepAliveFails, Typed

LEMMA QuitTypes ==
  ASSUME Typed, Quit \/ QuitStep
  PROVE  Typed'
<1>1. /\ flags \in Flags /\ quitter \in Quitters /\ up \in [Conns -> Seq(UpMsgs)]
      /\ sock \in Conns \cup {None} /\ threads \in Conns \cup {None}
  BY DEF Typed
<1>2. quitter' \in Quitters
  BY <1>1 DEF Quit, QuitStep, QuitWaits, QuitCloses, QuitHalts, QuitJoins, Quitters
<1>3. flags' \in Flags
  BY <1>1, FlagsTyped DEF Quit, QuitStep, QuitWaits, QuitCloses, QuitHalts, QuitJoins
<1>4. up' \in [Conns -> Seq(UpMsgs)]
  BY <1>1, SentTyped DEF Quit, QuitStep, QuitWaits, QuitCloses, QuitHalts, QuitJoins, UpMsgs
<1>5. closed' \subseteq Conns /\ sock' \in Conns \cup {None}
  BY <1>1 DEF Quit, QuitStep, QuitWaits, QuitCloses, QuitHalts, QuitJoins, Typed, Quitters
<1>6. UNCHANGED <<nextConn, down, server, reader, keeper, threads, worker, faults>>
  BY DEF Quit, QuitStep, QuitWaits, QuitCloses, QuitHalts, QuitJoins
<1> QED
  BY <1>2, <1>3, <1>4, <1>5, <1>6 DEF Typed

LEMMA ServerTypes ==
  ASSUME RegistrationAssumption, Typed, NEW c \in Conns, ServerStep(c) \/ Reset(c) \/ Drop(c)
  PROVE  Typed'
<1>1. /\ up \in [Conns -> Seq(UpMsgs)] /\ down \in [Conns -> Seq(Parts)]
      /\ server \in [Conns -> SessionStates] /\ up[c] \in Seq(UpMsgs) /\ down[c] \in Seq(Parts)
      /\ faults \in Faults /\ MaxResets \in Nat /\ MaxDrops \in Nat
  BY DEF Typed, RegistrationAssumption
<1>2. CASE ServerHandles(c)
  <2>1. Tail(up[c]) \in Seq(UpMsgs) /\ Head(up[c]) \in UpMsgs
    BY <1>1, <1>2, HeadTailProperties DEF ServerHandles
  <2>2. down[c] \o Answer(Head(up[c]), server[c]) \in Seq(Parts)
    BY <1>1, <2>1, AnswerParts, ConcatProperties
  <2>3. up' \in [Conns -> Seq(UpMsgs)] /\ down' \in [Conns -> Seq(Parts)]
    BY <1>1, <1>2, <2>1, <2>2 DEF ServerHandles
  <2>4. server' \in [Conns -> SessionStates]
    BY <1>1, <1>2 DEF ServerHandles, SessionAfter, SessionStates
  <2>5. UNCHANGED <<sock, nextConn, flags, closed, reader, keeper, threads, worker, quitter, faults>>
    BY <1>2 DEF ServerHandles
  <2> QED
    BY <2>3, <2>4, <2>5 DEF Typed
<1>3. CASE ServerSeesClose(c)
  <2>1. server' \in [Conns -> SessionStates]
    BY <1>1, <1>3 DEF ServerSeesClose, SessionStates
  <2> QED
    BY <1>3, <2>1 DEF ServerSeesClose, Typed
<1>4. CASE Reset(c)
  <2>1. down[c] \o Whole("Reset") \in Seq(Parts)
    BY <1>1, WholeParts, ConcatProperties DEF DownMsgs
  <2>2. down' \in [Conns -> Seq(Parts)]
    BY <1>1, <1>4, <2>1 DEF Reset
  <2>3. faults.resets + 1 \in 0..MaxResets
    BY <1>1, <1>4 DEF Reset, Faults
  <2>4. faults' \in Faults
    BY <1>1, <1>4, <2>3 DEF Reset, Faults
  <2>5. UNCHANGED <<sock, nextConn, flags, up, closed, server, reader, keeper, threads, worker, quitter>>
    BY <1>4 DEF Reset
  <2> QED
    BY <2>2, <2>4, <2>5 DEF Typed
<1>5. CASE Drop(c)
  <2>1. up' \in [Conns -> Seq(UpMsgs)]
    BY <1>1, <1>5, EmptySeq DEF Drop
  <2>2. faults.drops + 1 \in 0..MaxDrops
    BY <1>1, <1>5 DEF Drop, Faults
  <2>3. faults' \in Faults
    BY <1>1, <1>5, <2>2 DEF Drop, Faults
  <2>4. server' \in [Conns -> SessionStates]
    BY <1>1, <1>5 DEF Drop, SessionStates
  <2>5. UNCHANGED <<sock, nextConn, flags, down, closed, reader, keeper, threads, worker, quitter>>
    BY <1>5 DEF Drop
  <2> QED
    BY <2>1, <2>3, <2>4, <2>5 DEF Typed
<1> QED
  BY <1>2, <1>3, <1>4, <1>5 DEF ServerStep

LEMMA TypesStep ==
  ASSUME RegistrationAssumption, TypeOK, [Next]_vars
  PROVE  TypeOK'
<1>1. CASE UNCHANGED vars
  BY <1>1, SameTypes DEF vars, Typed
<1> QED
  BY <1>1, SameTypes, ReaderTypes, KeeperTypes, WorkerTypes, QuitTypes, ServerTypes DEF Next

(* Every variable has its type, whatever is slow, lost or reset.            *)
THEOREM TypeCorrect == Spec => []TypeOK
<1>1. Init => TypeOK
  BY RegistrationAssumption, InitTypes
<1>2. TypeOK /\ [Next]_vars => TypeOK'
  BY RegistrationAssumption, TypesStep
<1> QED
  BY <1>1, <1>2, PTL DEF Spec

-----------------------------------------------------------------------------
(* What is alive belongs to the last connection *)

LEMMA ReaderLeaves ==
  ASSUME Typed, NEW t \in Conns, ReaderStep(t)
  PROVE  /\ UNCHANGED <<sock, nextConn, closed, server, keeper, threads, quitter, faults>>
         /\ worker' = worker \/ (worker.pc = "idle" /\ worker'.pc = "halt")
         /\ reader[t].pc # "none" /\ \A u \in Conns \ {t} : reader'[u] = reader[u]
<1>1. worker \in Workers /\ reader \in [Conns -> Reader]
  BY DEF Typed
<1>2. reader[t].pc # "none" /\ \A u \in Conns \ {t} : reader'[u] = reader[u]
  BY <1>1 DEF ReaderStep, Loop, ReadHeader, ReadPayload, ReadFails, ReadTimesOut, Handle, Reads
<1>3. CASE Handle(t)
  <2>1. worker' \in {worker, [worker EXCEPT !.pc = "halt"]}
    BY <1>3 DEF Handle
  <2>2. worker' = worker \/ worker.pc = "idle"
    BY <1>3 DEF Handle
  <2>3. [worker EXCEPT !.pc = "halt"].pc = "halt"
    BY <1>1 DEF Workers
  <2>4. UNCHANGED <<sock, nextConn, closed, server, keeper, threads, quitter, faults>>
    BY <1>3 DEF Handle
  <2> QED
    BY <1>2, <2>1, <2>2, <2>3, <2>4
<1>4. ASSUME Loop(t) \/ ReadHeader(t) \/ ReadPayload(t) \/ ReadFails(t) \/ ReadTimesOut(t)
      PROVE  UNCHANGED <<sock, nextConn, closed, server, keeper, threads, quitter, worker, faults>>
  BY <1>4 DEF Loop, ReadHeader, ReadPayload, ReadFails, ReadTimesOut
<1> QED
  BY <1>2, <1>3, <1>4 DEF ReaderStep

LEMMA ThreadsOfLastStep ==
  ASSUME Typed, Next, ThreadsOfLast
  PROVE  ThreadsOfLast'
<1> DEFINE Unused(c) == server[c] = "none" /\ reader[c].pc = "none"
<1>1. /\ nextConn \in Nat /\ server \in [Conns -> SessionStates] /\ Conns \subseteq Nat
      /\ worker \in Workers /\ reader \in [Conns -> Reader]
  BY DEF Typed, Conns
<1>2. ASSUME UNCHANGED <<nextConn, threads>>,
             worker' = worker \/ (worker.pc = "idle" /\ worker'.pc = "halt"),
             \A c \in Conns : Unused(c) => Unused(c)'
      PROVE  ThreadsOfLast'
  BY <1>2 DEF ThreadsOfLast
<1> HIDE DEF Unused
<1>3. ASSUME NEW t \in Conns, KeeperStep(t) \/ Reset(t)
      PROVE  UNCHANGED <<nextConn, threads, worker, server, reader>>
  BY <1>3 DEF KeeperStep, KeeperStops, KeepAliveFails, Reset
<1>4. ASSUME NEW t \in Conns, ReaderStep(t), NEW c \in Conns, Unused(c)
      PROVE  Unused(c)'
  BY <1>1, <1>4, ReaderLeaves DEF Unused
<1>5. ASSUME Quit \/ QuitStep
      PROVE  UNCHANGED <<nextConn, threads, worker, server, reader>>
  BY <1>5 DEF Quit, QuitStep, QuitWaits, QuitCloses, QuitHalts, QuitJoins
<1>6. ASSUME NEW t \in Conns, ServerStep(t) \/ Drop(t)
      PROVE  /\ UNCHANGED <<nextConn, threads, worker>>
             /\ \A c \in Conns : Unused(c) => Unused(c)'
  BY <1>1, <1>6 DEF ServerStep, ServerHandles, ServerSeesClose, Drop, Unused
<1>7. CASE WorkerHalts \/ SendRegister
  BY <1>1, <1>7 DEF WorkerHalts, SendRegister, Workers, ThreadsOfLast
<1>8. CASE WorkerCloses \/ WorkerRenews
  BY <1>1, <1>8 DEF WorkerCloses, WorkerRenews, ThreadsOfLast
<1>9. CASE Connect
  BY <1>1, <1>9 DEF Connect, StartThreads, ThreadsOfLast, Workers, None, Conns
<1>10. ASSUME UNCHANGED <<nextConn, threads, worker, server, reader>>
       PROVE  ThreadsOfLast'
  BY <1>10 DEF ThreadsOfLast
<1>11. ASSUME NEW t \in Conns, KeeperStep(t) \/ ServerStep(t) \/ Reset(t) \/ Drop(t)
       PROVE  ThreadsOfLast'
  BY <1>2, <1>3, <1>6, <1>10, <1>11
<1>12. ASSUME NEW t \in Conns, ReaderStep(t)
       PROVE  ThreadsOfLast'
  BY <1>2, <1>4, <1>12, ReaderLeaves
<1> QED
  BY <1>5, <1>7, <1>8, <1>9, <1>10, <1>11, <1>12 DEF Next, WorkerStep

LEMMA SockOfLastStep ==
  ASSUME Typed, Next, ThreadsOfLast, SockOfLast
  PROVE  SockOfLast'
<1>1. /\ worker \in Workers /\ quitter \in Quitters /\ sock \in Conns \cup {None}
      /\ threads \in Conns \cup {None}
  BY DEF Typed
<1>2. ASSUME NEW t \in Conns, KeeperStep(t) \/ ServerStep(t) \/ Reset(t) \/ Drop(t)
      PROVE  UNCHANGED <<sock, threads, worker, quitter>>
  BY <1>2 DEF KeeperStep, KeeperStops, KeepAliveFails, ServerStep, ServerHandles, ServerSeesClose, Reset, Drop
<1>3. ASSUME NEW t \in Conns, ReaderStep(t)
      PROVE  /\ UNCHANGED <<sock, threads, quitter>>
             /\ worker' = worker \/ (worker.pc = "idle" /\ worker'.pc = "halt")
  BY <1>3, ReaderLeaves
<1>4. ASSUME UNCHANGED <<sock, threads, quitter>>,
             worker' = worker \/ (worker.pc = "idle" /\ worker'.pc = "halt")
      PROVE  SockOfLast'
  BY <1>4 DEF SockOfLast
<1>5. CASE Quit \/ QuitStep
  BY <1>1, <1>5 DEF Quit, QuitStep, QuitWaits, QuitCloses, QuitHalts, QuitJoins, SockOfLast, Quitters
<1>6. CASE WorkerHalts \/ SendRegister
  BY <1>1, <1>6 DEF WorkerHalts, SendRegister, SockOfLast, Workers
<1>7. CASE WorkerCloses \/ WorkerRenews
  BY <1>1, <1>7 DEF WorkerCloses, WorkerRenews, SockOfLast
<1>8. CASE Connect
  BY <1>1, <1>8 DEF Connect, StartThreads, SockOfLast, Workers, Conns, None
<1>9. ASSUME NEW t \in Conns, KeeperStep(t) \/ ServerStep(t) \/ Reset(t) \/ Drop(t) \/ ReaderStep(t)
      PROVE  SockOfLast'
  <2>1. UNCHANGED <<sock, threads, quitter>>
    BY <1>2, <1>3, <1>9
  <2>2. worker' = worker \/ (worker.pc = "idle" /\ worker'.pc = "halt")
    BY <1>2, <1>3, <1>9
  <2> QED
    BY <1>4, <2>1, <2>2
<1>10. CASE WorkerStep
  BY <1>6, <1>7, <1>8, <1>10 DEF WorkerStep
<1> QED
  BY <1>5, <1>9, <1>10 DEF Next

(* Nothing but connect() brings a thread to life. *)
LEMMA AliveShrinks ==
  ASSUME Typed, Next, ~Connect, NEW t \in Conns, Alive(t)'
  PROVE  Alive(t)
<1>1. reader \in [Conns -> Reader] /\ keeper \in [Conns -> Keeper]
  BY DEF Typed
<1>2. ASSUME NEW u \in Conns, ReaderStep(u)
      PROVE  Alive(t)
  BY <1>1, <1>2 DEF ReaderStep, Loop, ReadHeader, ReadPayload, ReadFails, ReadTimesOut, Handle, Reads, Alive
<1>3. ASSUME NEW u \in Conns, KeeperStep(u)
      PROVE  Alive(t)
  BY <1>1, <1>3 DEF KeeperStep, KeeperStops, KeepAliveFails, Alive
<1>4. ASSUME UNCHANGED <<reader, keeper>>
      PROVE  Alive(t)
  BY <1>4 DEF Alive
<1>5. ASSUME NEW u \in Conns, ServerStep(u) \/ Reset(u) \/ Drop(u)
      PROVE  UNCHANGED <<reader, keeper>>
  BY <1>5 DEF ServerStep, ServerHandles, ServerSeesClose, Reset, Drop
<1>6. ASSUME WorkerStep \/ Quit \/ QuitStep
      PROVE  UNCHANGED <<reader, keeper>>
  BY <1>6 DEF WorkerStep, WorkerHalts, WorkerCloses, WorkerRenews, SendRegister,
              Quit, QuitStep, QuitWaits, QuitCloses, QuitHalts, QuitJoins
<1> QED
  BY <1>2, <1>3, <1>4, <1>5, <1>6 DEF Next

LEMMA OneAliveStep ==
  ASSUME Typed, Next, ThreadsOfLast, OneAlive, ~faults.slow
  PROVE  OneAlive'
<1>1. /\ reader \in [Conns -> Reader] /\ keeper \in [Conns -> Keeper] /\ threads \in Conns \cup {None}
  BY DEF Typed
<1>2. CASE Connect
  <2>1. \A t \in Conns : ~Alive(t)
    BY <1>2 DEF Connect, ThreadsOfLast, OneAlive, Alive
  <2> QED
    BY <1>1, <1>2, <2>1 DEF Connect, StartThreads, OneAlive, Alive
<1>3. CASE WorkerRenews
  <2>1. \A t \in Conns : ~Alive(t)
    BY <1>3 DEF WorkerRenews, Joined, ThreadsOfLast, OneAlive
  <2> QED
    BY <1>3, <2>1, AliveShrinks DEF Connect, WorkerRenews, OneAlive
<1>4. CASE ~Connect /\ ~WorkerRenews
  <2>1. threads' = threads
    BY <1>4 DEF Next, ReaderStep, Loop, ReadHeader, ReadPayload, ReadFails, ReadTimesOut, Handle,
       KeeperStep, KeeperStops, KeepAliveFails, ServerStep, ServerHandles, ServerSeesClose, Reset, Drop,
       WorkerStep, WorkerHalts, WorkerCloses, SendRegister,
       Quit, QuitStep, QuitWaits, QuitCloses, QuitHalts, QuitJoins
  <2> QED
    BY <1>4, <2>1, AliveShrinks DEF OneAlive
<1> QED
  BY <1>2, <1>3, <1>4

-----------------------------------------------------------------------------
(* The framing *)

(* t is s with more sent after it. *)
Extends(t, s) ==
  /\ Alternates(t)
  /\ s # <<>> => t # <<>> /\ t[1] = s[1]
  /\ s = <<>> /\ t # <<>> => t[1][1] = "header"

NewAreIn(t, s, ms) ==
  \A i \in 1..Len(t) : (i <= Len(s) /\ t[i] = s[i]) \/ t[i][2] \in ms

LEMMA WholeSent ==
  ASSUME NEW s \in Seq(Parts), Alternates(s), NEW m \in DownMsgs
  PROVE  /\ s \o Whole(m) \in Seq(Parts) /\ Extends(s \o Whole(m), s)
         /\ NewAreIn(s \o Whole(m), s, {m})
<1> DEFINE w == Whole(m)  t == s \o w
<1>1. /\ w \in Seq(Parts) /\ Len(w) = 2 /\ w[1] = <<"header", m>> /\ w[2] = <<"payload", m>>
  BY WholeParts
<1>2. /\ t \in Seq(Parts) /\ Len(t) = Len(s) + 2 /\ Len(s) \in Nat
      /\ \A i \in 1..Len(s) : t[i] = s[i]
      /\ t[Len(s) + 1] = w[1] /\ t[Len(s) + 2] = w[2]
  <2> HIDE DEF w
  <2>0. w \in Seq(Parts) /\ Len(w) = 2
    BY <1>1
  <2>1. t \in Seq(Parts) /\ Len(t) = Len(s) + 2 /\ Len(s) \in Nat
    <3>1. s \o w \in Seq(Parts) /\ Len(s \o w) = Len(s) + Len(w)
      BY <2>0, ConcatProperties
    <3>2. Len(s) \in Nat
      BY LenProperties
    <3> QED
      BY <2>0, <3>1, <3>2
  <2>2. \A i \in 1..(Len(s) + Len(w)) : t[i] = IF i <= Len(s) THEN s[i] ELSE w[i - Len(s)]
    BY <1>1, ConcatProperties
  <2> QED
    BY <1>1, <2>1, <2>2
<1> HIDE DEF w, t
<1>3. t[Len(s) + 1][1] = "header" /\ t[Len(s) + 2][1] = "payload"
  BY <1>1, <1>2
<1>4. Len(s) > 0 <=> s # <<>>
  BY EmptySeq
<1>5. t # <<>>
  BY <1>2, EmptySeq
<1>6. Alternates(t)
  <2>1. ASSUME NEW i \in 1..(Len(t) - 1)
        PROVE  t[i][1] # t[i + 1][1]
    <3>1. CASE i < Len(s)
      BY <1>2, <3>1 DEF Alternates
    <3>2. CASE i = Len(s)
      BY <1>2, <1>3, <1>4, <3>2 DEF Alternates
    <3>3. CASE i = Len(s) + 1
      BY <1>3, <3>3
    <3> QED
      BY <1>2, <3>1, <3>2, <3>3
  <2> QED
    BY <1>2, <1>3, <2>1 DEF Alternates
<1>7. NewAreIn(t, s, {m})
  BY <1>1, <1>2 DEF NewAreIn
<1>8. Extends(t, s)
  BY <1>2, <1>3, <1>4, <1>5, <1>6 DEF Extends
<1> QED
  BY <1>2, <1>7, <1>8 DEF t, w

AnswerNames(m, x) ==
  {"RegisterAck", "CapabilitiesReq", "ConfigStatRes", "UnregisterAck"} \cup
    (IF m = "StatRequests2" /\ x # "accepted" THEN {"TimeDateRes"} ELSE {})

LEMMA AnswerSent ==
  ASSUME NEW s \in Seq(Parts), Alternates(s), NEW m \in UpMsgs, NEW x
  PROVE  /\ Extends(s \o Answer(m, x), s)
         /\ NewAreIn(s \o Answer(m, x), s, AnswerNames(m, x))
<1> DEFINE ms == AnswerNames(m, x)
<1>1. ASSUME NEW d \in DownMsgs \cap ms, Answer(m, x) = Whole(d)
      PROVE  /\ Extends(s \o Answer(m, x), s) /\ NewAreIn(s \o Answer(m, x), s, ms)
  BY <1>1, WholeSent DEF NewAreIn
<1>2. CASE m = "RegisterReq"
  <2> DEFINE r == s \o Whole("RegisterAck")  t == r \o Whole("CapabilitiesReq")
  <2>1. /\ "RegisterAck" \in DownMsgs /\ "CapabilitiesReq" \in DownMsgs
        /\ Whole("RegisterAck") \in Seq(Parts) /\ Whole("CapabilitiesReq") \in Seq(Parts)
    BY WholeParts DEF DownMsgs
  <2>2. r \in Seq(Parts) /\ Extends(r, s) /\ NewAreIn(r, s, {"RegisterAck"})
    BY <2>1, WholeSent
  <2>3. Alternates(r)
    BY <2>2 DEF Extends
  <2> HIDE DEF r
  <2>4. t \in Seq(Parts) /\ Extends(t, r) /\ NewAreIn(t, r, {"CapabilitiesReq"})
    BY <2>1, <2>2, <2>3, WholeSent
  <2> HIDE DEF t
  <2>5. Len(r) \in Nat /\ Len(t) \in Nat
    BY <2>2, <2>4, LenProperties
  <2>6. Extends(t, s)
    BY <2>2, <2>4 DEF Extends
  <2>7. NewAreIn(t, s, ms)
    BY <2>2, <2>4, <2>5 DEF NewAreIn, AnswerNames
  <2>8. s \o Answer(m, x) = t
    BY <1>2, <2>1, ConcatAssociative DEF Answer, r, t
  <2> QED
    BY <2>6, <2>7, <2>8
<1>3. CASE Answer(m, x) = <<>>
  <2>1. s \o <<>> = s
    BY ConcatEmptySeq
  <2> QED
    BY <1>3, <2>1 DEF Extends, NewAreIn
<1>4. CASE m # "RegisterReq" /\ Answer(m, x) # <<>>
  <2>1. \E d \in DownMsgs \cap ms : Answer(m, x) = Whole(d)
    BY <1>4 DEF Answer, DownMsgs, AnswerNames
  <2> QED
    BY <1>1, <2>1
<1> QED
  BY <1>2, <1>3, <1>4

LEMMA PartTaken ==
  ASSUME NEW s \in Seq(Parts), Alternates(s), s # <<>>
  PROVE  /\ Alternates(Tail(s)) /\ Head(s) = s[1]
         /\ Tail(s) # <<>> => Tail(s)[1][1] # s[1][1]
         /\ s[1][1] = "header" => Tail(s) # <<>>
         /\ s[1] \in Parts /\ s[1][1] \in {"header", "payload"}
         /\ Len(Tail(s)) = Len(s) - 1 /\ Len(s) \in Nat
         /\ \A i \in 1..Len(Tail(s)) : Tail(s)[i] = s[i + 1]
<1> DEFINE t == Tail(s)
<1>1. /\ Len(s) \in Nat /\ Len(s) > 0 /\ Head(s) = s[1]
      /\ t \in Seq(Parts) /\ Len(t) = Len(s) - 1 /\ \A i \in 1..Len(t) : t[i] = s[i + 1]
  BY HeadTailProperties, LenProperties, EmptySeq
<1>2. s[1] \in Parts
  BY <1>1, ElementOfSeq
<1> HIDE DEF t
<1>3. t # <<>> <=> Len(t) > 0
  BY <1>1, EmptySeq
<1>4. Alternates(t)
  BY <1>1, <1>3 DEF Alternates
<1>5. t # <<>> => t[1][1] # s[1][1]
  BY <1>1, <1>3 DEF Alternates
<1>6. s[1][1] = "header" => t # <<>>
  BY <1>1, <1>3 DEF Alternates
<1>7. s[1][1] \in {"header", "payload"}
  BY <1>2 DEF Parts
<1> QED
  BY <1>1, <1>2, <1>4, <1>5, <1>6, <1>7 DEF t

LEMMA ReadsItsOwnStep ==
  ASSUME Typed, Next, SockOfLast, OneAlive, ReadsItsOwn
  PROVE  ReadsItsOwn'
<1>1. reader \in [Conns -> Reader]
  BY DEF Typed
<1>2. ASSUME NEW t \in Conns, ReaderStep(t)
      PROVE  ReadsItsOwn'
  <2>1. reader[t].pc \in {"loop", "header"} => sock \in {None, t}
    BY DEF SockOfLast, OneAlive, Alive, Conns, None
  <2>2. CASE Loop(t) \/ ReadHeader(t)
    <3>1. \/ reader'[t].pc \in {"loop", "done"}
          \/ reader'[t].on = sock /\ reader[t].pc \in {"loop", "header"}
      BY <1>1, <2>2 DEF Loop, ReadHeader, Reads, NoThread
    <3> QED
      BY <2>1, <3>1, <1>2, ReaderLeaves DEF ReadsItsOwn
  <2>3. CASE ReadPayload(t) \/ ReadFails(t) \/ ReadTimesOut(t) \/ Handle(t)
    <3>1. \/ reader' = [reader EXCEPT ![t].pc = "handle"]
          \/ reader' = [reader EXCEPT ![t] = [NoThread EXCEPT !.pc = "done"]]
          \/ reader' = [reader EXCEPT ![t] = [NoThread EXCEPT !.pc = "loop"]]
      BY <2>3 DEF ReadPayload, ReadFails, ReadTimesOut, Handle
    <3>2. reader'[t].pc \in {"handle", "loop", "done"}
      BY <1>1, <3>1 DEF NoThread, Reader
    <3> QED
      BY <1>2, <3>2, ReaderLeaves DEF ReadsItsOwn
  <2> QED
    BY <1>2, <2>2, <2>3 DEF ReaderStep
<1>3. CASE Connect
  BY <1>1, <1>3 DEF Connect, StartThreads, ReadsItsOwn, NoThread
<1>4. ASSUME reader' = reader
      PROVE  ReadsItsOwn'
  BY <1>4 DEF ReadsItsOwn
<1>5. ASSUME NEW u \in Conns, KeeperStep(u) \/ ServerStep(u) \/ Reset(u) \/ Drop(u)
      PROVE  reader' = reader
  BY <1>5 DEF KeeperStep, KeeperStops, KeepAliveFails, ServerStep, ServerHandles, ServerSeesClose, Reset, Drop
<1>6. ASSUME WorkerStep \/ Quit \/ QuitStep, ~Connect
      PROVE  reader' = reader
  BY <1>6 DEF WorkerStep, WorkerHalts, WorkerCloses, WorkerRenews, SendRegister,
              Quit, QuitStep, QuitWaits, QuitCloses, QuitHalts, QuitJoins
<1> QED
  BY <1>2, <1>3, <1>4, <1>5, <1>6 DEF Next

(* The framing of one thread's connection. *)
InFrame(t) ==
  /\ Alternates(down[t])
  /\ reader[t].pc \notin {"payload", "done"} /\ down[t] # <<>> => down[t][1][1] = "header"
  /\ reader[t].pc = "payload" /\ reader[t].on = t =>
       down[t] # <<>> /\ down[t][1][1] = "payload"

LEMMA ReaderKeepsFrame ==
  ASSUME Typed, SockOfLast, OneAlive, ReadsItsOwn, ~faults.slow, NEW t \in Conns, ReaderStep(t), InFrame(t)
  PROVE  InFrame(t)' /\ \A u \in Conns \ {t} : down'[u] = down[u]
<1>1. /\ reader \in [Conns -> Reader] /\ down \in [Conns -> Seq(Parts)] /\ down[t] \in Seq(Parts)
  BY DEF Typed
<1>2. CASE Loop(t) \/ Handle(t)
  <2>1. reader[t].pc \in {"loop", "handle"} /\ down' = down
    BY <1>2 DEF Loop, Handle
  <2>2. \/ reader' = [reader EXCEPT ![t] = [pc |-> "header", on |-> sock, msg |-> "none"]]
        \/ reader' = [reader EXCEPT ![t] = [NoThread EXCEPT !.pc = "done"]]
        \/ reader' = [reader EXCEPT ![t] = [NoThread EXCEPT !.pc = "loop"]]
    BY <1>2 DEF Loop, Handle
  <2>3. reader'[t].pc \in {"loop", "header", "done"}
    BY <1>1, <2>2 DEF NoThread
  <2> QED
    BY <2>1, <2>3 DEF InFrame
<1>3. CASE ReadFails(t)
  <2>1. reader'[t].pc = "done" /\ down' = down
    BY <1>1, <1>3 DEF ReadFails, NoThread
  <2> QED
    BY <2>1 DEF InFrame
<1>4. CASE ReadTimesOut(t)
  <2>1. reader'[t].pc = "loop" /\ down' = down /\ reader[t].on = t /\ down[t] = <<>>
    BY <1>1, <1>4 DEF ReadTimesOut, NoThread, ReadsItsOwn
  <2> QED
    BY <2>1 DEF InFrame
<1>5. CASE ReadHeader(t)
  <2>1. reader[t].pc = "header" /\ reader[t].on = t /\ down[t] # <<>>
    BY <1>1, <1>5 DEF ReadHeader, Reads, ReadsItsOwn
  <2>2. down[t][1][1] = "header" /\ Alternates(down[t])
    BY <2>1 DEF InFrame
  <2>3. /\ Head(down[t]) = down[t][1] /\ Tail(down[t]) # <<>> /\ Alternates(Tail(down[t]))
        /\ Tail(down[t])[1] \in Parts /\ Tail(down[t])[1][1] = "payload"
    BY <1>1, <2>1, <2>2, PartTaken, HeadTailProperties
  <2>4. down' = [down EXCEPT ![t] = Tail(down[t])] /\ reader'[t].pc = "payload"
    BY <1>1, <1>5, <2>1, <2>2, <2>3 DEF ReadHeader
  <2> QED
    BY <1>1, <2>3, <2>4 DEF InFrame
<1>6. CASE ReadPayload(t)
  <2>1. reader[t].pc = "payload" /\ reader[t].on = t
    BY <1>1, <1>6 DEF ReadPayload, Reads, ReadsItsOwn
  <2>2. down[t] # <<>> /\ down[t][1][1] = "payload" /\ Alternates(down[t])
    BY <2>1 DEF InFrame
  <2>3. /\ Alternates(Tail(down[t])) /\ Tail(down[t]) \in Seq(Parts)
        /\ Tail(down[t]) # <<>> => Tail(down[t])[1][1] = "header"
    <3>1. /\ Alternates(Tail(down[t])) /\ Tail(down[t]) \in Seq(Parts)
          /\ Tail(down[t]) # <<>> => Tail(down[t])[1][1] # "payload"
      BY <1>1, <2>2, PartTaken, HeadTailProperties
    <3> QED
      BY <3>1, PartTaken
  <2>4. down' = [down EXCEPT ![t] = Tail(down[t])] /\ reader'[t].pc = "handle"
    BY <1>1, <1>6, <2>1 DEF ReadPayload
  <2> QED
    BY <1>1, <2>3, <2>4 DEF InFrame
<1> QED
  BY <1>2, <1>3, <1>4, <1>5, <1>6 DEF ReaderStep

LEMMA FramedStep ==
  ASSUME Typed, Next, ThreadsOfLast, SockOfLast, OneAlive, ReadsItsOwn, Framed, ~faults.slow
  PROVE  Framed'
<1>1. /\ reader \in [Conns -> Reader] /\ down \in [Conns -> Seq(Parts)]
      /\ up \in [Conns -> Seq(UpMsgs)]
  BY DEF Typed
<1>2. \A u \in Conns : InFrame(u)
  BY DEF Framed, InFrame
<1>3. ASSUME \A u \in Conns : InFrame(u)'
      PROVE  Framed'
  BY <1>3 DEF Framed, InFrame
<1>4. ASSUME NEW u \in Conns, down'[u] = down[u], reader'[u] = reader[u]
      PROVE  InFrame(u)'
  BY <1>2, <1>4 DEF InFrame
<1>5. ASSUME NEW u \in Conns, reader'[u] = reader[u], Extends(down'[u], down[u])
      PROVE  InFrame(u)'
  BY <1>2, <1>5 DEF InFrame, Extends
<1>6. ASSUME NEW t \in Conns, ReaderStep(t)
      PROVE  Framed'
  BY <1>2, <1>3, <1>4, <1>6, ReaderKeepsFrame, ReaderLeaves
<1>7. CASE Connect
  <2>1. PICK n \in Conns : n = nextConn
    BY <1>7 DEF Connect
  <2>2. down' = down /\ reader[n].pc = "none"
    BY <1>7, <2>1 DEF Connect, ThreadsOfLast, Conns
  <2>3. reader'[n].pc = "loop" /\ \A u \in Conns \ {n} : reader'[u] = reader[u]
    BY <1>1, <1>7, <2>1 DEF Connect, StartThreads, NoThread
  <2>4. InFrame(n)'
    BY <1>2, <2>2, <2>3 DEF InFrame
  <2> QED
    BY <1>3, <1>4, <2>2, <2>3, <2>4
<1>8. ASSUME NEW c \in Conns, ServerHandles(c)
      PROVE  Framed'
  <2>1. down[c] \in Seq(Parts) /\ Head(up[c]) \in UpMsgs /\ Alternates(down[c])
    BY <1>1, <1>2, <1>8, HeadTailProperties DEF ServerHandles, InFrame
  <2>2. Extends(down[c] \o Answer(Head(up[c]), server[c]), down[c])
    BY <2>1, AnswerSent
  <2>3. /\ down'[c] = down[c] \o Answer(Head(up[c]), server[c]) /\ reader' = reader
        /\ \A u \in Conns \ {c} : down'[u] = down[u]
    BY <1>1, <1>8 DEF ServerHandles
  <2> QED
    BY <1>3, <1>4, <1>5, <2>2, <2>3
<1>9. ASSUME NEW c \in Conns, Reset(c)
      PROVE  Framed'
  <2>1. down[c] \in Seq(Parts) /\ "Reset" \in DownMsgs /\ Alternates(down[c])
    BY <1>1, <1>2 DEF InFrame, DownMsgs
  <2>2. Extends(down[c] \o Whole("Reset"), down[c])
    BY <2>1, WholeSent
  <2>3. /\ down'[c] = down[c] \o Whole("Reset") /\ reader' = reader
        /\ \A u \in Conns \ {c} : down'[u] = down[u]
    BY <1>1, <1>9 DEF Reset
  <2> QED
    BY <1>3, <1>4, <1>5, <2>2, <2>3
<1>10. ASSUME UNCHANGED <<down, reader>>
       PROVE  Framed'
  BY <1>3, <1>4, <1>10
<1>11. ASSUME NEW u \in Conns, KeeperStep(u) \/ ServerSeesClose(u) \/ Drop(u)
       PROVE  UNCHANGED <<down, reader>>
  BY <1>11 DEF KeeperStep, KeeperStops, KeepAliveFails, ServerSeesClose, Drop
<1>12. ASSUME WorkerStep \/ Quit \/ QuitStep, ~Connect
       PROVE  UNCHANGED <<down, reader>>
  BY <1>12 DEF WorkerStep, WorkerHalts, WorkerCloses, WorkerRenews, SendRegister,
               Quit, QuitStep, QuitWaits, QuitCloses, QuitHalts, QuitJoins
<1> QED
  BY <1>6, <1>7, <1>8, <1>9, <1>10, <1>11, <1>12 DEF Next, ServerStep

-----------------------------------------------------------------------------
(* The registration *)

(* What reaches a handler was sent to its own connection. *)
LEMMA ReaderComing ==
  ASSUME Typed, ReadsItsOwn, Framed, NEW t \in Conns, ReaderStep(t),
         NEW m \in DownMsgs, NEW c \in Conns, Coming(m, c)'
  PROVE  Coming(m, c)
<1>1. /\ reader \in [Conns -> Reader] /\ down \in [Conns -> Seq(Parts)] /\ down[t] \in Seq(Parts)
  BY DEF Typed
<1>2. CASE UNCHANGED down /\ (reader' = [reader EXCEPT ![t] = [NoThread EXCEPT !.pc = "done"]]
                             \/ reader' = [reader EXCEPT ![t] = [NoThread EXCEPT !.pc = "loop"]]
                             \/ reader' = [reader EXCEPT ![t] = [pc |-> "header", on |-> sock, msg |-> "none"]])
  BY <1>1, <1>2 DEF Coming, NoThread
<1>3. CASE Loop(t) \/ ReadFails(t) \/ ReadTimesOut(t) \/ Handle(t)
  BY <1>2, <1>3 DEF Loop, ReadFails, ReadTimesOut, Handle
<1>4. CASE ReadHeader(t) \/ ReadPayload(t)
  <2>1. reader[t].on = t /\ down[t] # <<>> /\ Alternates(down[t])
    BY <1>1, <1>4 DEF ReadHeader, ReadPayload, Reads, ReadsItsOwn, Framed
  <2>2. /\ Head(down[t]) = down[t][1] /\ Len(down[t]) \in Nat /\ Len(down[t]) > 0
        /\ Len(Tail(down[t])) = Len(down[t]) - 1
        /\ \A i \in 1..Len(Tail(down[t])) : Tail(down[t])[i] = down[t][i + 1]
    BY <1>1, <2>1, PartTaken, EmptySeq
  <2>3. /\ down' = [down EXCEPT ![t] = Tail(down[t])] \/ down' = [down EXCEPT ![t] = <<>>]
        /\ \A u \in Conns \ {t} : reader'[u] = reader[u]
    BY <1>1, <1>4, <2>1 DEF ReadHeader, ReadPayload
  <2>4. \A i \in 1..Len(down'[c]) : \E k \in 1..Len(down[c]) : down'[c][i] = down[c][k]
    <3>1. down'[c] \in {down[c], Tail(down[t]), <<>>} /\ (down'[c] = Tail(down[t]) => c = t \/ down'[c] = down[c])
      BY <1>1, <2>3
    <3>2. CASE down'[c] = Tail(down[t]) /\ c = t
      BY <2>2, <3>2
    <3>3. CASE down'[c] = down[c]
      BY <3>3
    <3>4. CASE down'[c] = <<>>
      BY <3>4
    <3> QED
      BY <3>1, <3>2, <3>3, <3>4
  <2>5. CASE reader'[c].pc \in {"payload", "handle"} /\ reader'[c].msg = m /\ c = t
    <3>1. CASE ReadPayload(t)
      <4>1. reader'[t].msg = reader[t].msg /\ reader[t].pc = "payload"
        BY <1>1, <3>1 DEF ReadPayload, Reads
      <4> QED
        BY <2>5, <4>1 DEF Coming
    <3>2. CASE ReadHeader(t)
      <4>1. reader'[t].pc = "loop" \/ reader'[t].msg = down[t][1][2]
        BY <1>1, <2>1, <2>2, <3>2 DEF ReadHeader, NoThread
      <4> QED
        BY <2>2, <2>5, <4>1 DEF Coming
    <3> QED
      BY <1>4, <3>1, <3>2
  <2> QED
    BY <2>3, <2>4, <2>5 DEF Coming
<1> QED
  BY <1>3, <1>4 DEF ReaderStep

LEMMA ServerComing ==
  ASSUME Typed, Framed, NEW u \in Conns, ServerStep(u) \/ Reset(u) \/ Drop(u),
         NEW m \in {"TimeDateRes", "Reset"}, NEW c \in Conns, Coming(m, c)'
  PROVE  \/ Coming(m, c)
         \/ m = "TimeDateRes" /\ server'[c] = "registered"
         \/ m = "Reset" /\ Reset(u)
<1>1. /\ down \in [Conns -> Seq(Parts)] /\ down[u] \in Seq(Parts) /\ Alternates(down[u])
      /\ up \in [Conns -> Seq(UpMsgs)] /\ server \in [Conns -> SessionStates]
  BY DEF Typed, Framed
<1>2. reader' = reader
  BY DEF ServerStep, ServerHandles, ServerSeesClose, Reset, Drop
<1>3. CASE down'[c] = down[c]
  BY <1>2, <1>3 DEF Coming
<1>4. ASSUME NEW ms, NewAreIn(down'[c], down[c], ms)
      PROVE  Coming(m, c) \/ m \in ms
  BY <1>2, <1>4 DEF Coming, NewAreIn
<1>5. CASE ServerHandles(u)
  <2> DEFINE q == Head(up[u])
  <2>1. q \in UpMsgs
    BY <1>1, <1>5, HeadTailProperties DEF ServerHandles
  <2>2. CASE c # u
    BY <1>1, <1>3, <1>5, <2>2 DEF ServerHandles
  <2>3. CASE c = u
    <3>1. down'[c] = down[c] \o Answer(q, server[c])
      BY <1>1, <1>5, <2>3 DEF ServerHandles
    <3>2. NewAreIn(down'[c], down[c], AnswerNames(q, server[c]))
      BY <1>1, <2>1, <2>3, <3>1, AnswerSent
    <3>3. Coming(m, c) \/ m \in AnswerNames(q, server[c])
      BY <1>4, <3>2
    <3>4. m \in AnswerNames(q, server[c]) =>
            m = "TimeDateRes" /\ q = "StatRequests2" /\ server[c] # "accepted"
      BY DEF AnswerNames
    <3>5. q = "StatRequests2" /\ server[c] # "accepted" => server'[c] = "registered"
      BY <1>1, <1>5, <2>3 DEF ServerHandles, SessionAfter
    <3> QED
      BY <3>3, <3>4, <3>5
  <2> QED
    BY <2>2, <2>3
<1>6. CASE ServerSeesClose(u) \/ Drop(u)
  BY <1>3, <1>6 DEF ServerSeesClose, Drop
<1>7. CASE Reset(u)
  <2>1. CASE c # u
    BY <1>1, <1>3, <1>7, <2>1 DEF Reset
  <2>2. CASE c = u
    <3>1. down'[c] = down[c] \o Whole("Reset")
      BY <1>1, <1>7, <2>2 DEF Reset
    <3>2. NewAreIn(down'[c], down[c], {"Reset"})
      BY <1>1, <2>2, <3>1, WholeSent DEF DownMsgs
    <3> QED
      BY <1>4, <1>7, <3>2
  <2> QED
    BY <2>1, <2>2
<1> QED
  BY <1>5, <1>6, <1>7 DEF ServerStep

LEMMA CompletedStays ==
  ASSUME Typed, Next, ThreadsOfLast, NEW c \in Conns, Completed(c)
  PROVE  Completed(c)'
<1>1. server \in [Conns -> SessionStates]
  BY DEF Typed
<1>2. ASSUME UNCHANGED server
      PROVE  Completed(c)'
  BY <1>2 DEF Completed
<1>3. CASE Connect
  <2>1. PICK n \in Conns : n = nextConn
    BY <1>3 DEF Connect
  <2>2. server[n] = "none"
    BY <1>3, <2>1 DEF ThreadsOfLast, Conns
  <2> QED
    BY <1>1, <1>3, <2>1, <2>2 DEF Connect, Completed
<1>4. ASSUME NEW u \in Conns, ServerStep(u) \/ Drop(u)
      PROVE  Completed(c)'
  BY <1>1, <1>4 DEF ServerStep, ServerHandles, SessionAfter, ServerSeesClose, Drop, Completed
<1>5. ASSUME NEW u \in Conns, ReaderStep(u) \/ KeeperStep(u) \/ Reset(u)
      PROVE  UNCHANGED server
  BY <1>5, ReaderLeaves DEF KeeperStep, KeeperStops, KeepAliveFails, Reset
<1>6. ASSUME WorkerStep \/ Quit \/ QuitStep, ~Connect
      PROVE  UNCHANGED server
  BY <1>6 DEF WorkerStep, WorkerHalts, WorkerCloses, WorkerRenews, SendRegister,
              Quit, QuitStep, QuitWaits, QuitCloses, QuitHalts, QuitJoins
<1> QED
  BY <1>2, <1>3, <1>4, <1>5, <1>6 DEF Next

(* A step of the worker or of stop() brings no message nearer. *)
LEMMA OthersComing ==
  ASSUME Typed, NEW m \in DownMsgs, NEW c \in Conns, Coming(m, c)',
         WorkerStep \/ Quit \/ QuitStep \/ \E u \in Conns : KeeperStep(u)
  PROVE  Coming(m, c)
<1>1. reader \in [Conns -> Reader]
  BY DEF Typed
<1>2. CASE UNCHANGED <<down, reader>>
  BY <1>2 DEF Coming
<1>3. CASE Connect
  BY <1>1, <1>3 DEF Connect, StartThreads, NoThread, Coming
<1>4. ASSUME ~Connect
      PROVE  UNCHANGED <<down, reader>>
  BY <1>4 DEF KeeperStep, KeeperStops, KeepAliveFails,
              WorkerStep, WorkerHalts, WorkerCloses, WorkerRenews, SendRegister,
              Quit, QuitStep, QuitWaits, QuitCloses, QuitHalts, QuitJoins
<1> QED
  BY <1>2, <1>3, <1>4

LEMMA TimeDateStep ==
  ASSUME Typed, Next, ThreadsOfLast, ReadsItsOwn, Framed, TimeDateOfCompleted
  PROVE  TimeDateOfCompleted'
<1> SUFFICES ASSUME NEW c \in Conns, Coming("TimeDateRes", c)'
             PROVE  Completed(c)'
  BY DEF TimeDateOfCompleted
<1>1. CASE Coming("TimeDateRes", c)
  BY <1>1, CompletedStays DEF TimeDateOfCompleted
<1>2. "TimeDateRes" \in DownMsgs
  BY DEF DownMsgs
<1>3. ASSUME NEW u \in Conns, ServerStep(u) \/ Reset(u) \/ Drop(u)
      PROVE  Coming("TimeDateRes", c) \/ server'[c] = "registered"
  BY <1>3, ServerComing
<1>4. ASSUME server'[c] = "registered"
      PROVE  Completed(c)'
  BY <1>4 DEF Completed
<1>5. ASSUME NEW u \in Conns, ReaderStep(u)
      PROVE  Coming("TimeDateRes", c)
  BY <1>2, <1>5, ReaderComing
<1>6. ASSUME WorkerStep \/ Quit \/ QuitStep \/ \E u \in Conns : KeeperStep(u)
      PROVE  Coming("TimeDateRes", c)
  BY <1>2, <1>6, OthersComing
<1> QED
  BY <1>1, <1>3, <1>4, <1>5, <1>6 DEF Next

LEMMA RegisteredStep ==
  ASSUME Typed, Next, ThreadsOfLast, OneAlive, TimeDateOfCompleted, RegisteredByLast
  PROVE  RegisteredByLast'
<1>1. flags \in Flags /\ threads \in Conns \cup {None} /\ reader \in [Conns -> Reader]
  BY DEF Typed
<1>2. ASSUME UNCHANGED threads, flags'.registered => flags.registered
      PROVE  RegisteredByLast'
  <2>1. SUFFICES ASSUME flags'.registered
                 PROVE  threads' # None /\ Completed(threads)'
    BY DEF RegisteredByLast
  <2>2. PICK c \in Conns : c = threads /\ Completed(c) /\ c # None
    BY <1>1, <1>2, <2>1 DEF RegisteredByLast
  <2>3. Completed(c)'
    BY <2>2, CompletedStays
  <2> QED
    BY <1>2, <2>2, <2>3 DEF Completed
<1>3. CASE Connect \/ WorkerRenews
  <2>1. ~flags'.registered
    BY <1>1, <1>3 DEF Connect, ThreadsOfLast, RegisteredByLast, WorkerRenews, FlagsRenewed, Flags
  <2> QED
    BY <2>1 DEF RegisteredByLast
<1>4. ASSUME NEW t \in Conns, Handle(t)
      PROVE  RegisteredByLast'
  <2>1. CASE flags' = flags
    BY <1>2, <1>4, <2>1 DEF Handle
  <2>2. CASE reader[t].msg = "TimeDateRes"
    <3>1. Alive(t) /\ t = threads /\ Coming("TimeDateRes", t)
      BY <1>4, <2>2 DEF Handle, OneAlive, Alive, Coming, Conns, None
    <3>2. Completed(t)' /\ threads' = t /\ t # None
      BY <1>4, <3>1, CompletedStays DEF TimeDateOfCompleted, Handle, Conns, None
    <3> QED
      BY <3>2 DEF RegisteredByLast, Completed
  <2>3. CASE flags' = FlagsAfter(reader[t].msg) /\ reader[t].msg # "TimeDateRes"
    <3>1. flags'.registered => flags.registered
      BY <1>1, <2>3 DEF FlagsAfter, Flags
    <3> QED
      BY <1>2, <1>4, <3>1 DEF Handle
  <2> QED
    BY <1>4, <2>1, <2>2, <2>3 DEF Handle
<1>5. ASSUME NEW t \in Conns, KeeperStep(t)
      PROVE  UNCHANGED threads /\ (flags'.registered => flags.registered)
  BY <1>1, <1>5 DEF KeeperStep, KeeperStops, KeepAliveFails, Flags
<1>6. ASSUME NEW t \in Conns, ServerStep(t) \/ Reset(t) \/ Drop(t) \/ (ReaderStep(t) /\ ~Handle(t))
      PROVE  UNCHANGED <<threads, flags>>
  BY <1>6 DEF ServerStep, ServerHandles, ServerSeesClose, Reset, Drop, ReaderStep, Loop,
              ReadHeader, ReadPayload, ReadFails, ReadTimesOut
<1>7. ASSUME WorkerHalts \/ WorkerCloses \/ SendRegister \/ Quit \/ QuitStep
      PROVE  UNCHANGED threads /\ (flags'.registered => flags.registered)
  BY <1>1, <1>7 DEF WorkerHalts, WorkerCloses, SendRegister, Quit, QuitStep, QuitWaits,
                    QuitCloses, QuitHalts, QuitJoins, Halted, Flags
<1> QED
  BY <1>2, <1>3, <1>4, <1>5, <1>6, <1>7 DEF Next, WorkerStep

-----------------------------------------------------------------------------
(* stop() *)

LEMMA StopsStep ==
  ASSUME Typed, Next, ThreadsOfLast, SockOfLast, OneAlive, ReadsItsOwn, Framed, StopsForGood,
         ~faults.slow
  PROVE  StopsForGood'
<1>1. /\ flags \in Flags /\ threads \in Conns \cup {None} /\ reader \in [Conns -> Reader]
      /\ worker \in Workers /\ quitter \in Quitters /\ faults \in Faults
      /\ nextConn \in Nat /\ Conns \subseteq Nat /\ sock \in Conns \cup {None}
  BY DEF Typed, Conns
<1>2. faults'.resets = 0 => faults.resets = 0
  <2>1. faults' = faults \/ faults'.resets = faults.resets \/ faults'.resets = faults.resets + 1
    BY <1>1 DEF Next, ReaderStep, Loop, ReadHeader, ReadPayload, ReadFails, ReadTimesOut, Handle,
       KeeperStep, KeeperStops, KeepAliveFails, ServerStep, ServerHandles, ServerSeesClose, Reset, Drop,
       WorkerStep, WorkerHalts, WorkerCloses, WorkerRenews, Connect, SendRegister,
       Quit, QuitStep, QuitWaits, QuitCloses, QuitHalts, QuitJoins, Faults
  <2>2. faults.resets \in 0..MaxResets
    BY <1>1 DEF Faults
  <2> QED
    BY <2>1, <2>2
<1> SUFFICES ASSUME faults.resets = 0, faults'.resets = 0
             PROVE  NoReset' /\ StopStages' /\ StaysDead'
  BY <1>2 DEF StopsForGood
<1>3. NoReset /\ StopStages /\ StaysDead
  BY DEF StopsForGood
<1>4. ASSUME NEW u \in Conns
      PROVE  ~Reset(u)
  BY <1>1 DEF Reset, Faults
<1>5. NoReset'
  <2>1. "Reset" \in DownMsgs
    BY DEF DownMsgs
  <2> SUFFICES ASSUME NEW c \in Conns, Coming("Reset", c)'
               PROVE  Coming("Reset", c)
    BY <1>3 DEF NoReset
  <2>2. ASSUME NEW u \in Conns, ReaderStep(u)
        PROVE  Coming("Reset", c)
    BY <2>1, <2>2, ReaderComing
  <2>3. ASSUME NEW u \in Conns, ServerStep(u) \/ Reset(u) \/ Drop(u)
        PROVE  Coming("Reset", c)
    BY <1>4, <2>3, ServerComing
  <2>4. ASSUME WorkerStep \/ Quit \/ QuitStep \/ \E u \in Conns : KeeperStep(u)
        PROVE  Coming("Reset", c)
    BY <2>1, <2>4, OthersComing
  <2> QED
    BY <2>2, <2>3, <2>4 DEF Next
<1> SUFFICES StopStages' /\ StaysDead'
  BY <1>5
<1>6. ASSUME UNCHANGED <<sock, nextConn, threads, quitter, worker>>,
             flags'.running => flags.running
      PROVE  StopStages' /\ StaysDead'
  <2>1. ~Connect
    BY <1>1, <1>6 DEF Connect
  <2>2. ~Alive(threads) => ~Alive(threads)'
    <3>1. CASE threads = None
      BY <1>6, <3>1 DEF Alive
    <3>2. CASE threads \in Conns
      <4>1. PICK t \in Conns : t = threads
        BY <3>2
      <4>2. Alive(t)' => Alive(t)
        BY <2>1, AliveShrinks
      <4> QED
        BY <1>6, <4>1, <4>2 DEF Alive
    <3> QED
      BY <1>1, <3>1, <3>2
  <2>3. StaysDead'
    BY <1>3, <1>6, <2>2 DEF StaysDead
  <2> QED
    BY <1>3, <1>6, <2>3 DEF StopStages
<1>7. ASSUME NEW t \in Conns, ReaderStep(t)
      PROVE  StopStages' /\ StaysDead'
  <2>1. CASE Handle(t)
    <3>1. reader[t].msg # "Reset"
      BY <1>3, <2>1 DEF NoReset, Coming, Handle
    <3>2. UNCHANGED <<sock, nextConn, threads, quitter, worker>>
      BY <2>1, <3>1 DEF Handle
    <3>3. flags'.running => flags.running
      BY <1>1, <2>1 DEF Handle, FlagsAfter, Flags
    <3> QED
      BY <1>6, <3>2, <3>3
  <2>2. CASE Loop(t) \/ ReadHeader(t) \/ ReadPayload(t) \/ ReadFails(t) \/ ReadTimesOut(t)
    BY <1>6, <2>2 DEF Loop, ReadHeader, ReadPayload, ReadFails, ReadTimesOut
  <2> QED
    BY <1>7, <2>1, <2>2 DEF ReaderStep
<1>8. ASSUME NEW t \in Conns, KeeperStep(t)
      PROVE  StopStages' /\ StaysDead'
  <2>1. UNCHANGED <<sock, nextConn, threads, quitter, worker>> /\ (flags'.running => flags.running)
    BY <1>1, <1>8 DEF KeeperStep, KeeperStops, KeepAliveFails, Flags
  <2> QED
    BY <1>6, <2>1
<1>9. ASSUME NEW t \in Conns, ServerStep(t) \/ Drop(t)
      PROVE  StopStages' /\ StaysDead'
  <2>1. UNCHANGED <<sock, nextConn, threads, quitter, worker, flags>>
    BY <1>9 DEF ServerStep, ServerHandles, ServerSeesClose, Drop
  <2> QED
    BY <1>6, <2>1
<1>10. CASE WorkerStep
  <2>1. worker.pc \in {"connect", "register"} /\ quitter.pc = "not"
    BY <1>1, <1>3, <1>10 DEF WorkerStep, WorkerHalts, WorkerCloses, WorkerRenews, Connect,
                             SendRegister, StopStages, Quitters
  <2>2. CASE Connect
    BY <1>1, <1>3, <2>1, <2>2 DEF Connect, StopStages, StaysDead, Workers
  <2>3. CASE SendRegister
    BY <1>1, <1>3, <2>1, <2>3 DEF SendRegister, StopStages, StaysDead, Workers
  <2> QED
    BY <1>10, <2>1, <2>2, <2>3 DEF WorkerStep, WorkerHalts, WorkerCloses, WorkerRenews
<1>11. CASE Quit
  <2>1. worker.pc = "idle" /\ quitter.pc = "not" /\ sock # None
    BY <1>1, <1>3, <1>11 DEF Quit, StopStages, SockOfLast
  <2>2. quitter'.pc \in {"wait", "close"} /\ quitter'.sock = sock
    BY <1>1, <1>11 DEF Quit, Quitters
  <2>3. UNCHANGED <<worker, nextConn>>
    BY <1>11 DEF Quit
  <2>4. StaysDead'
    BY <2>2 DEF StaysDead
  <2>5. StopStages'
    BY <1>3, <2>1, <2>2, <2>3 DEF StopStages
  <2> QED
    BY <2>4, <2>5
<1>12. CASE QuitWaits \/ QuitCloses
  BY <1>1, <1>3, <1>12 DEF QuitWaits, QuitCloses, StopStages, StaysDead, Quitters
<1>13. CASE QuitHalts
  BY <1>1, <1>3, <1>13 DEF QuitHalts, Halted, StopStages, StaysDead, Quitters, Flags
<1>14. CASE QuitJoins
  <2>1. ~Alive(threads) /\ quitter.pc = "join"
    BY <1>3, <1>14 DEF QuitJoins, Joined, StopStages
  <2>2. UNCHANGED <<sock, nextConn, threads, worker, reader, keeper>> /\ quitter'.pc = "done"
    BY <1>1, <1>14 DEF QuitJoins, Quitters
  <2>3. flags'.running = flags.running
    BY <1>1, <1>14 DEF QuitJoins, Flags
  <2>4. ~Alive(threads)'
    BY <2>1, <2>2 DEF Alive
  <2> QED
    BY <1>3, <2>1, <2>2, <2>3, <2>4 DEF StopStages, StaysDead
<1> QED
  BY <1>4, <1>7, <1>8, <1>9, <1>10, <1>11, <1>12, <1>13, <1>14 DEF Next, QuitStep

-----------------------------------------------------------------------------
(* The theorems *)

LEMMA InitPrompt ==
  ASSUME RegistrationAssumption, Init
  PROVE  Prompt
<1>1. /\ \A c \in Conns : reader[c] = NoThread /\ keeper[c] = "none" /\ down[c] = <<>>
      /\ Conns \subseteq Nat
  BY DEF Init, Conns
<1>2. NoThread.pc = "none"
  BY DEF NoThread
<1>3. ThreadsOfLast /\ SockOfLast /\ OneAlive /\ ReadsItsOwn
  BY <1>1, <1>2 DEF Init, ThreadsOfLast, SockOfLast, OneAlive, ReadsItsOwn, Alive, Conns, None
<1>4. Alternates(<<>>)
  BY DEF Alternates
<1>5. Framed
  BY <1>1, <1>2, <1>4 DEF Framed
<1>6. \A c \in Conns, m \in DownMsgs : ~Coming(m, c)
  <2> TAKE c \in Conns, m \in DownMsgs
  <2>1. reader[c].pc = "none"
    BY <1>1, <1>2
  <2>2. down[c] = <<>> /\ Len(<<>>) = 0
    BY <1>1
  <2>3. 1..Len(down[c]) = {}
    BY <2>2
  <2> QED
    BY <2>1, <2>3 DEF Coming
<1>7. TimeDateOfCompleted /\ NoReset
  BY <1>6 DEF TimeDateOfCompleted, NoReset, DownMsgs
<1>8. RegisteredByLast
  BY DEF Init, RegisteredByLast
<1>9. StopStages /\ StaysDead
  BY DEF Init, StopStages, StaysDead
<1> QED
  BY <1>3, <1>5, <1>7, <1>8, <1>9 DEF Prompt, StopsForGood

LEMMA PromptStep ==
  ASSUME RegistrationAssumption, IInv, [Next]_vars
  PROVE  IInv'
<1>1. TypeOK /\ TypeOK' /\ Typed
  BY TypesStep, SameTypes DEF IInv
<1>2. faults'.slow = faults.slow
  <2>1. faults \in Faults
    BY <1>1 DEF Typed
  <2>2. \/ faults' = faults
        \/ faults' = [faults EXCEPT !.resets = @ + 1] \/ faults' = [faults EXCEPT !.drops = @ + 1]
    BY DEF Next, vars, ReaderStep, Loop, ReadHeader, ReadPayload, ReadFails, ReadTimesOut, Handle,
       KeeperStep, KeeperStops, KeepAliveFails, ServerStep, ServerHandles, ServerSeesClose, Reset, Drop,
       WorkerStep, WorkerHalts, WorkerCloses, WorkerRenews, Connect, SendRegister,
       Quit, QuitStep, QuitWaits, QuitCloses, QuitHalts, QuitJoins
  <2> QED
    BY <2>1, <2>2 DEF Faults
<1> SUFFICES ASSUME ~faults.slow, Prompt
             PROVE  Prompt'
  BY <1>1, <1>2 DEF IInv
<1>3. CASE UNCHANGED vars
  BY <1>3 DEF vars, Prompt, ThreadsOfLast, SockOfLast, OneAlive, Alive, ReadsItsOwn, Framed,
     TimeDateOfCompleted, Coming, RegisteredByLast, Completed, StopsForGood, NoReset, StopStages, StaysDead
<1>4. CASE Next
  <2>1. ThreadsOfLast' /\ SockOfLast' /\ OneAlive'
    BY <1>1, <1>4, ThreadsOfLastStep, SockOfLastStep, OneAliveStep DEF Prompt
  <2>2. ReadsItsOwn' /\ Framed'
    BY <1>1, <1>4, ReadsItsOwnStep, FramedStep DEF Prompt
  <2>3. TimeDateOfCompleted' /\ RegisteredByLast'
    BY <1>1, <1>4, TimeDateStep, RegisteredStep DEF Prompt
  <2>4. StopsForGood'
    BY <1>1, <1>4, StopsStep DEF Prompt
  <2> QED
    BY <2>1, <2>2, <2>3, <2>4 DEF Prompt
<1> QED
  BY <1>3, <1>4

LEMMA Invariant == Spec => []IInv
<1>1. Init => IInv
  BY RegistrationAssumption, InitTypes, InitPrompt DEF IInv
<1>2. IInv /\ [Next]_vars => IInv'
  BY RegistrationAssumption, PromptStep
<1> QED
  BY <1>1, <1>2, PTL DEF Spec

LEMMA OneReaderInv ==
  ASSUME IInv
  PROVE  OneReader
<1> SUFFICES ASSUME ~faults.slow
             PROVE  Cardinality({t \in Conns : reader[t].pc \notin {"none", "done"}}) <= 1
  BY DEF OneReader
<1> DEFINE live == {t \in Conns : reader[t].pc \notin {"none", "done"}}
<1>1. live \subseteq {threads}
  BY DEF IInv, Prompt, OneAlive, Alive, Conns, None
<1>2. Cardinality({}) = 0 /\ Cardinality({threads}) = 1
  BY FS_EmptySet, FS_Singleton
<1>3. live = {} \/ live = {threads}
  BY <1>1
<1>4. Cardinality(live) = 0 \/ Cardinality(live) = 1
  <2> HIDE DEF live
  <2> QED
    BY <1>2, <1>3
<1> QED
  BY <1>4

LEMMA StreamInStepInv ==
  ASSUME IInv
  PROVE  StreamInStep
<1> SUFFICES ASSUME ~faults.slow, NEW t \in Conns, Reads(t, "header")
             PROVE  Head(down[reader[t].on])[1] = "header"
  BY DEF StreamInStep
<1>1. reader[t].on = t /\ down[t] # <<>> /\ reader[t].pc = "header"
  BY DEF Reads, IInv, Prompt, ReadsItsOwn
<1>2. down[t] \in Seq(Parts) /\ down[t][1][1] = "header"
  BY <1>1 DEF IInv, TypeOK, Prompt, Framed
<1>3. Head(down[t]) = down[t][1]
  BY <1>1, <1>2
<1> QED
  BY <1>1, <1>2, <1>3

(* While no thread outlasts a join and no payload comes a second after its  *)
(* header, a connection has one receive thread, and what that takes for a   *)
(* header is one, however often the phone is reset (client.py               *)
(* _reconnect_and_register, read_skinny_message).                           *)
THEOREM ReadersStayInStep == Spec => []ReadersInStep
<1>1. IInv => ReadersInStep
  BY OneReaderInv, StreamInStepInv DEF ReadersInStep
<1> QED
  BY <1>1, Invariant, PTL

(* is_registered is about the connection in use.                            *)
THEOREM RegistrationIsReal == Spec => []RegisteredIsReal
<1>1. IInv => RegisteredIsReal
  BY DEF IInv, Prompt, ThreadsOfLast, SockOfLast, RegisteredByLast, Completed, RegisteredIsReal
<1> QED
  BY <1>1, Invariant, PTL

(* A stop() that no Reset interferes with is final: not running, no socket, *)
(* no thread.                                                               *)
THEOREM StopIsFinal == Spec => []QuitIsFinal
<1>1. IInv => QuitIsFinal
  BY DEF IInv, Prompt, OneAlive, StopsForGood, StopStages, StaysDead, QuitIsFinal
<1> QED
  BY <1>1, Invariant, PTL

=============================================================================
