------------------------------ MODULE MacroRun ------------------------------
(***************************************************************************)
(* A phone that answers by itself: the macro thread (ui/macro_cli.py,      *)
(* run_macro) with the script examples/ivr.macro, the receive thread that  *)
(* keeps the phone's call flags and its digit buffer (client.py), and the  *)
(* callers.  One line, one call at a time.                                 *)
(***************************************************************************)
EXTENDS Naturals, Sequences

CONSTANTS
  Keys, Hash,    \* keys a caller presses; # ends GETDIGITS
  DialKeys,      \* keys of the menu that lead to GETDIGITS
  TransferKeys,  \* keys of the menu that lead to a transfer
  MaxLen,        \* digits GETDIGITS reads
  MaxCalls,      \* bound: calls that come in
  MaxKeys,       \* bound: keys of a call
  Unhurried,     \* TRUE iff a call only comes in after the end of the last was seen
  Split,         \* TRUE iff a hang-up may fall between the two looks of GETDIGITS
  Tidy           \* TRUE iff callers hang up with no digit unread

MacroAssumption ==
  /\ Hash \in Keys /\ DialKeys \cup TransferKeys \subseteq Keys
  /\ MaxLen \in Nat /\ MaxCalls \in Nat /\ MaxKeys \in Nat
  /\ {Unhurried, Split, Tidy} \subseteq BOOLEAN

VARIABLES
  call,          \* the phone's call: "idle", "ringing", "connected", "leaving"
  ended,         \* events.call_ended
  buf,           \* dtmf.buf: <<call it was pressed in, key>>
  calls,         \* calls so far
  presses,       \* keys pressed in this call
  pc,            \* the instruction the macro is at
  looked,        \* the check for a disconnect before it is done
  digits,        \* what GETDIGITS has read
  digit,         \* kv["last_digit"]
  taken          \* the last digit that was read: its call, and the call then

vars == <<call, ended, buf, calls, presses, pc, looked, digits, digit, taken>>
phoneVars == <<call, ended, buf, calls, presses>>

Init ==
  /\ call = "idle" /\ ended = FALSE /\ buf = <<>> /\ calls = 0 /\ presses = 0
  /\ pc = "WAIT_CALL" /\ looked = FALSE
  /\ digits = <<>> /\ digit = Hash /\ taken = <<0, 0>>

-----------------------------------------------------------------------------
(* The callers and the hub; the handlers of the receive thread *)

macroVars == <<pc, looked, digits, digit, taken>>

Ring ==
  /\ call = "idle" /\ calls < MaxCalls
  /\ Unhurried => ~ended
  /\ call' = "ringing" /\ ended' = FALSE
  /\ calls' = calls + 1 /\ presses' = 0
  /\ UNCHANGED <<buf, macroVars>>

Key(k) ==
  /\ call = "connected" /\ presses < MaxKeys
  /\ presses' = presses + 1
  /\ buf' = Append(buf, <<calls, k>>)
  /\ UNCHANGED <<call, ended, calls, macroVars>>

EndUnseen == ended' = ended                                        \* mutant
EndSeen == ended' = TRUE

(* The call is over: the last active call ends, which sets call_ended. *)
Gone ==
  /\ call # "idle"
  /\ Tidy => buf = <<>>
  /\ pc = "getdigits2" => Split
  /\ call' = "idle"
  /\ EndSeen
  /\ UNCHANGED <<buf, calls, presses, macroVars>>

-----------------------------------------------------------------------------
(* The macro's loop: ON_DISCONNECT GOTO TOP is looked at before every       *)
(* instruction; the event is consumed.                                      *)

Instructions == {"WAIT_CALL", "ANSWER", "PLAY", "WAIT_DIGIT", "SWITCH",
                 "GETDIGITS", "getdigits2", "IF_EQ", "TRANSFER"}

Disconnected ==
  /\ ended
  /\ ended' = FALSE
  /\ UNCHANGED <<call, buf, calls, presses>>

Jump == pc' = "WAIT_CALL" /\ looked' = FALSE
OnDisconnect == Jump

Look ==
  /\ ~looked /\ pc # "getdigits2"
  /\ IF ended
     THEN Disconnected /\ OnDisconnect
     ELSE looked' = TRUE /\ UNCHANGED <<phoneVars, pc>>
  /\ UNCHANGED <<digits, digit, taken>>

At(i) == pc = i /\ looked
Goto(i) == pc' = i /\ looked' = FALSE

(* A blocking instruction that sees the end of the call: after_blocking. *)
Blocks == {"WAIT_CALL", "WAIT_DIGIT", "GETDIGITS"}
AfterBlocking ==
  /\ pc \in Blocks /\ looked
  /\ Disconnected
  /\ OnDisconnect
  /\ UNCHANGED <<digits, digit, taken>>

(* WAIT_CALL 0 RING: any active call will do. *)
WaitCall ==
  /\ At("WAIT_CALL") /\ ~ended /\ call # "idle"
  /\ Goto("ANSWER")
  /\ UNCHANGED <<phoneVars, digits, digit, taken>>

(* SOFTKEY Answer, with the rest of the menu's beginning. *)
Answer ==
  /\ At("ANSWER")
  /\ call' = IF call = "ringing" THEN "connected" ELSE call
  /\ Goto("PLAY")
  /\ UNCHANGED <<ended, buf, calls, presses, digits, digit, taken>>

(* PLAY ends by itself, by a digit (which it leaves), or by a hang-up. *)
Play ==
  /\ At("PLAY")
  /\ Goto("WAIT_DIGIT")
  /\ UNCHANGED <<phoneVars, digits, digit, taken>>

TakeDigit == buf' = Tail(buf) /\ taken' = <<Head(buf)[1], calls>>

WaitDigit ==
  /\ At("WAIT_DIGIT") /\ ~ended /\ buf # <<>>
  /\ TakeDigit
  /\ digit' = Head(buf)[2]
  /\ Goto("SWITCH")
  /\ UNCHANGED <<call, ended, calls, presses, digits>>

Switch ==
  /\ At("SWITCH")
  /\ Goto(CASE digit \in DialKeys -> "GETDIGITS"
            [] digit \in TransferKeys -> "TRANSFER"
            [] OTHER -> "PLAY")
  /\ digits' = <<>>
  /\ UNCHANGED <<phoneVars, digit, taken>>

Room == Len(digits) < MaxLen

(* GETDIGITS: its loop has tested for the end of the call ... *)
GetDigits ==
  /\ At("GETDIGITS") /\ ~ended
  /\ IF Room
     THEN pc' = "getdigits2" /\ looked' = TRUE
     ELSE Goto("IF_EQ")
  /\ UNCHANGED <<phoneVars, digits, digit, taken>>

(* ... and looks a second time: the jump leaves the inner loop only, and    *)
(* what follows steps over the instruction jumped to.                       *)
GetDigitsJumps ==
  /\ pc = "getdigits2" /\ Disconnected
  /\ Goto("ANSWER")
  /\ UNCHANGED <<digits, digit, taken>>

(* A digit, or none within the slice. *)
GetDigit ==
  /\ pc = "getdigits2" /\ ~ended
  /\ IF buf = <<>>
     THEN pc' = "GETDIGITS" /\ UNCHANGED <<buf, digits, looked, taken>>
     ELSE /\ TakeDigit
          /\ IF Head(buf)[2] = Hash
             THEN Goto("IF_EQ") /\ UNCHANGED digits
             ELSE /\ digits' = Append(digits, Head(buf)[2])
                  /\ pc' = "GETDIGITS" /\ UNCHANGED looked
  /\ UNCHANGED <<call, ended, calls, presses, digit>>

(* IF_EQ extension "" MENU *)
IfEq ==
  /\ At("IF_EQ")
  /\ Goto(IF digits = <<>> THEN "PLAY" ELSE "TRANSFER")
  /\ UNCHANGED <<phoneVars, digits, digit, taken>>

(* TRANSFER dials between two softkeys; the hub will end this call. *)
Transfer ==
  /\ At("TRANSFER")
  /\ call' = IF call = "connected" THEN "leaving" ELSE call
  /\ Goto("WAIT_CALL")
  /\ UNCHANGED <<ended, buf, calls, presses, digits, digit, taken>>

Macro ==
  \/ Look \/ AfterBlocking \/ WaitCall \/ Answer \/ Play \/ WaitDigit \/ Switch
  \/ GetDigits \/ GetDigitsJumps \/ GetDigit \/ IfEq \/ Transfer

Next == Ring \/ (\E k \in Keys : Key(k)) \/ Gone \/ Macro

Spec == Init /\ [][Next]_vars

(* The macro's thread runs. *)
FairSpec == Spec /\ WF_vars(Macro)

-----------------------------------------------------------------------------
(* Properties *)

(* Every variable has its type. *)
TypeOK ==
  /\ call \in {"idle", "ringing", "connected", "leaving"}
  /\ ended \in BOOLEAN /\ looked \in BOOLEAN
  /\ buf \in Seq((1..MaxCalls) \X Keys) /\ Len(buf) <= MaxCalls * MaxKeys
  /\ calls \in 0..MaxCalls /\ presses \in 0..MaxKeys
  /\ pc \in Instructions
  /\ digits \in Seq(Keys \ {Hash}) /\ Len(digits) <= MaxLen
  /\ digit \in Keys

(* The menu acts on the keys of the caller it talks to.  Does not hold with *)
(* Tidy = FALSE: the keys outlive the call (client.py:790).                 *)
OwnDigits == taken[1] = taken[2]

(* The macro is in the middle of its script only while a call is up, or has *)
(* the end of that call still to see.                                       *)
ScriptNeedsCall ==
  pc \in {"WAIT_DIGIT", "GETDIGITS", "SWITCH", "IF_EQ", "TRANSFER"} =>
    call \in {"connected", "leaving"} \/ ended
=============================================================================
