----------------------------- MODULE IvrScript -----------------------------
(***************************************************************************)
(* The virtual IVR of one call: the thread that runs its script            *)
(* (simulator/ivr_macro_runner.py), the session thread of the caller that  *)
(* brings the keys, and what the hub's endpoint plays.  The script is      *)
(* simulator/ivr_assets/ivr.macro, the same as DEFAULT_IVR_SCRIPT: play a  *)
(* welcome, then wait for a key and switch on it, for ever.                *)
(***************************************************************************)
EXTENDS Naturals, Sequences, SequencesExt

CONSTANTS
  Keys, NoKey,
  LoopbackKeys, ToneKeys, HangupKeys,   \* the cases of the SWITCH
  MaxPresses,    \* bound: keys the caller presses
  Patient,       \* TRUE iff the caller presses a key only when the menu waits
  Prompt         \* TRUE iff the runner never runs while a key is submitted

IvrAssumption ==
  /\ NoKey \notin Keys /\ MaxPresses \in Nat
  /\ LoopbackKeys \cup ToneKeys \cup HangupKeys \subseteq Keys
  /\ LoopbackKeys \cap ToneKeys = {}                 \* one case for a key
  /\ (LoopbackKeys \cup ToneKeys) \cap HangupKeys = {}
  /\ {Patient, Prompt} \subseteq BOOLEAN

VARIABLES
  pc,            \* where the runner is
  ch,            \* the key WAIT_DIGIT returned
  last,          \* kv["last_digit"]
  queue,         \* _digit_queue
  event,         \* _digit_event is set
  stop,          \* _stop is set
  source,        \* what the endpoint sends, "none" once it is stopped
  session,       \* the caller's session thread, and the key it submits
  pressed,       \* keys pressed
  handled        \* keys the SWITCH decided on

vars == <<pc, ch, last, queue, event, stop, source, session, pressed, handled>>

Init ==
  /\ pc = "play" /\ ch = NoKey /\ last = NoKey
  /\ queue = <<>> /\ event = FALSE /\ stop = FALSE
  /\ source = "silence"
  /\ session = [pc |-> "idle", key |-> NoKey]
  /\ pressed = <<>> /\ handled = <<>>

(* A media hub call: nothing happens once stop_call removed the endpoint.   *)
Plays(s) == source' = IF source = "none" THEN "none" ELSE s

-----------------------------------------------------------------------------
(* The caller's session thread: submit_digit, step by step *)

Waits == pc \in {"playing", "waiting"} /\ Len(handled) = Len(pressed)

Press(k) ==
  /\ session.pc = "idle" /\ ~stop /\ Len(pressed) < MaxPresses
  /\ Patient => Waits
  /\ pressed' = Append(pressed, k)
  /\ last' = k
  /\ session' = [pc |-> "append", key |-> k]
  /\ UNCHANGED <<pc, ch, queue, event, stop, source, handled>>

Enqueue ==
  /\ session.pc = "append"
  /\ queue' = Append(queue, session.key)
  /\ session' = [session EXCEPT !.pc = "signal"]
  /\ UNCHANGED <<pc, ch, last, event, stop, source, pressed, handled>>

NoSignal == event' = event                                         \* mutant
Signal == event' = TRUE

WakeRunner ==
  /\ session.pc = "signal"
  /\ Signal
  /\ session' = [session EXCEPT !.pc = "cut"]
  /\ UNCHANGED <<pc, ch, last, queue, stop, source, pressed, handled>>

(* Barge-in: whatever plays is cut off. *)
CutOff ==
  /\ session.pc = "cut"
  /\ Plays("silence")
  /\ session' = [pc |-> "idle", key |-> NoKey]
  /\ UNCHANGED <<pc, ch, last, queue, event, stop, pressed, handled>>

(* The caller hangs up: end_call stops the endpoint, then the runner. *)
StopRunner == stop' = TRUE /\ event' = TRUE

HangUp ==
  /\ session.pc = "idle" /\ ~stop
  /\ source' = "none"
  /\ StopRunner
  /\ UNCHANGED <<pc, ch, last, queue, session, pressed, handled>>

-----------------------------------------------------------------------------
(* The runner *)

At(p) == pc = p /\ (Prompt => session.pc = "idle")

(* The loop of _run, and the one of a PLAY or a WAIT_DIGIT, look at _stop.  *)
Stopped(p) == stop /\ p # "ended"
Goto(p) == pc' = IF Stopped(p) THEN "ended" ELSE p

(* PLAY: the prompt runs until it is over, a key is queued, or the stop.   *)
PlayStart ==
  /\ At("play")
  /\ Plays("wav")
  /\ Goto("playing")
  /\ UNCHANGED <<ch, last, queue, event, stop, session, pressed, handled>>

BargeIn ==
  /\ At("playing") /\ queue # <<>>
  /\ Plays("silence")
  /\ Goto("wait")
  /\ UNCHANGED <<ch, last, queue, event, stop, session, pressed, handled>>

PlayEnds ==
  /\ At("playing")
  /\ Goto("wait")
  /\ UNCHANGED <<ch, last, queue, event, stop, source, session, pressed, handled>>

(* _take_digit: the oldest key, or the last one when none is queued. *)
Take == IF queue # <<>> THEN Head(queue) ELSE last
Rest == IF queue # <<>> THEN Tail(queue) ELSE queue

(* WAIT_DIGIT 0: a queued key is taken at once ... *)
TakeQueued ==
  /\ At("wait") /\ queue # <<>>
  /\ ch' = Take /\ queue' = Rest
  /\ Goto("got")
  /\ UNCHANGED <<last, event, stop, source, session, pressed, handled>>

NothingQueued ==
  /\ At("wait") /\ queue = <<>>
  /\ pc' = "clear"
  /\ UNCHANGED <<ch, last, queue, event, stop, source, session, pressed, handled>>

(* ... else the event is cleared, and the thread waits for it to be set.   *)
ClearEvent ==
  /\ At("clear")
  /\ event' = FALSE
  /\ Goto("waiting")
  /\ UNCHANGED <<ch, last, queue, stop, source, session, pressed, handled>>

Woken ==
  /\ At("waiting") /\ event
  /\ event' = FALSE
  /\ ch' = Take
  /\ queue' = Rest
  /\ Goto(IF Take = NoKey THEN "waiting" ELSE "got")
  /\ UNCHANGED <<last, stop, source, session, pressed, handled>>

WaitAborted ==
  /\ At("waiting") /\ stop
  /\ pc' = "ended"
  /\ UNCHANGED <<ch, last, queue, event, stop, source, session, pressed, handled>>

Got ==
  /\ At("got")
  /\ last' = ch
  /\ Goto("switch")
  /\ UNCHANGED <<ch, queue, event, stop, source, session, pressed, handled>>

(* SWITCH reads the variable, which a key may have replaced meanwhile. *)
Label(k) ==
  CASE k \in LoopbackKeys -> "loopback"
    [] k \in ToneKeys -> "tone"
    [] k \in HangupKeys -> "hangup"
    [] OTHER -> "wait"

Switch ==
  /\ At("switch")
  /\ handled' = Append(handled, last)
  /\ Goto(Label(last))
  /\ UNCHANGED <<ch, last, queue, event, stop, source, session, pressed>>

SourceOf(p) == IF p = "loopback" THEN "echo" ELSE "tone"

(* LOOPBACK and TONE, each with a PROMPT to the caller. *)
SetSource(p) ==
  /\ p \in {"loopback", "tone"} /\ At(p)
  /\ Plays(SourceOf(p))
  /\ Goto("wait")
  /\ UNCHANGED <<ch, last, queue, event, stop, session, pressed, handled>>

(* END: hub.end_call, which stops the endpoint and this runner. *)
End ==
  /\ At("hangup")
  /\ source' = "none"
  /\ stop' = TRUE /\ event' = TRUE
  /\ pc' = "ended"
  /\ UNCHANGED <<ch, last, queue, session, pressed, handled>>

Runner ==
  \/ PlayStart \/ BargeIn \/ PlayEnds
  \/ TakeQueued \/ NothingQueued \/ ClearEvent \/ Woken \/ WaitAborted \/ Got
  \/ Switch \/ SetSource("loopback") \/ SetSource("tone") \/ End

Submit == Enqueue \/ WakeRunner \/ CutOff

Next == (\E k \in Keys : Press(k)) \/ Submit \/ HangUp \/ Runner

Spec == Init /\ [][Next]_vars

(* Both threads run on; a caller need not press a key or hang up. *)
FairSpec == Spec /\ WF_vars(Submit) /\ WF_vars(Runner)

-----------------------------------------------------------------------------
(* Properties *)

(* Every variable has its type. *)
TypeOK ==
  /\ pc \in {"play", "playing", "wait", "clear", "waiting", "got", "switch",
             "loopback", "tone", "hangup", "ended"}
  /\ {ch, last, session.key} \subseteq Keys \cup {NoKey}
  /\ queue \in Seq(Keys) /\ pressed \in Seq(Keys) /\ handled \in Seq(Keys)
  /\ {event, stop} \subseteq BOOLEAN
  /\ source \in {"silence", "wav", "echo", "tone", "none"}
  /\ session.pc \in {"idle", "append", "signal", "cut"}

(* The menu acts on the keys the caller presses, each once and in order.    *)
HandledInOrder == IsPrefix(handled, pressed)

(* With the menu waiting again, the caller hears what the last key chose:   *)
(* a key of the menu gives its source, another one silence.                 *)
MenuHeard ==
  pc = "waiting" /\ ~stop /\ session.pc = "idle" /\ queue = <<>> /\ handled # <<>> =>
    source = CASE Last(handled) \in LoopbackKeys -> "echo"
               [] Last(handled) \in ToneKeys -> "tone"
               [] OTHER -> "silence"
=============================================================================
