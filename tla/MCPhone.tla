------------------------------ MODULE MCPhone ------------------------------
(***************************************************************************)
(* Small instances, for TLC, of the parts of one phone that are modelled   *)
(* each on its own: its registration, its screen (a modern phone and a     *)
(* 7912), its macros and its audio engine.  A behaviour is one of one      *)
(* part; the variables of the others stay in an initial state.             *)
(***************************************************************************)
EXTENDS ClientRegistration, PhoneScreen, AudioMixer

CONSTANTS
  K1, K3, KHash  \* keys of the callers of the macro: transfer, dial, #

VARIABLES
  part,
  call, ended, buf, rings, presses, pc, looked, digits, digit, taken  \* MacroRun

macroVars  == <<call, ended, buf, rings, presses, pc, looked, digits, digit, taken>>
allVars    == <<part, vars, screenVars, macroVars, mixerVars>>

(* Two calls of a modern phone, second calls while on hold included; two   *)
(* calls of a 7912, one at a time.                                          *)
ModernKind == [legacy |-> FALSE, second |-> TRUE]
LegacyKind == [legacy |-> TRUE, second |-> FALSE]
ScreenKinds == {ModernKind, LegacyKind}

(* Two callers who press three keys; a hang-up may fall anywhere, with keys *)
(* unread.                                                                  *)
Careless == INSTANCE MacroRun WITH
  Keys <- {K1, K3, KHash}, Hash <- KHash, DialKeys <- {K3}, TransferKeys <- {K1},
  MaxLen <- 1, MaxCalls <- 2, MaxKeys <- 3,
  Unhurried <- FALSE, Split <- TRUE, Tidy <- FALSE, calls <- rings

(* Two callers, each after the end of the call before was seen. *)
Careful == INSTANCE MacroRun WITH
  Keys <- {K1, K3, KHash}, Hash <- KHash, DialKeys <- {K3}, TransferKeys <- {K1},
  MaxLen <- 2, MaxCalls <- 2, MaxKeys <- 3,
  Unhurried <- TRUE, Split <- FALSE, Tidy <- TRUE, calls <- rings

ASSUME PartsAssumption ==
  /\ Careless!MacroAssumption /\ Careful!MacroAssumption

-----------------------------------------------------------------------------
PhoneInit ==
  /\ part \in {"registration", "screen", "careless", "careful", "receivers", "tones"}
  /\ Init
  /\ part # "registration" => ~faults.slow
  /\ ScreenInit /\ (part # "screen" => kind = ModernKind)
  /\ Careful!Init
  /\ MixerInit

PhoneNext ==
  /\ UNCHANGED part
  /\ \/ part = "registration" /\ Next /\ UNCHANGED <<screenVars, macroVars, mixerVars>>
     \/ part = "screen" /\ ScreenNext /\ UNCHANGED <<vars, macroVars, mixerVars>>
     \/ part = "careless" /\ Careless!Next /\ UNCHANGED <<vars, screenVars, mixerVars>>
     \/ part = "careful" /\ Careful!Next /\ UNCHANGED <<vars, screenVars, mixerVars>>
     \/ part = "receivers" /\ MixerNext /\ commands' = commands
          /\ UNCHANGED <<vars, screenVars, macroVars>>
     \/ part = "tones" /\ MixerNext /\ rx' = rx
          /\ UNCHANGED <<vars, screenVars, macroVars>>

-----------------------------------------------------------------------------
(* The fairness of each part, in its own behaviours. *)

RegistrationFair ==
  /\ \A t \in Conns :
       /\ WF_vars(part = "registration" /\ ReaderStep(t))
       /\ WF_vars(part = "registration" /\ KeeperStep(t))
       /\ WF_vars(part = "registration" /\ ServerStep(t))
  /\ WF_vars(part = "registration" /\ WorkerStep)
  /\ WF_vars(part = "registration" /\ QuitStep)

MacroFair ==
  WF_macroVars(\/ part = "careless" /\ Careless!Macro
               \/ part = "careful" /\ Careful!Macro)

AudioFair == WF_mixerVars(part = "receivers" /\ Engine)

PhoneSpec ==
  /\ PhoneInit /\ [][PhoneNext]_allVars
  /\ RegistrationFair /\ MacroFair /\ AudioFair

-----------------------------------------------------------------------------
(* Properties *)

(* Every part has its types. *)
PartsTypeOK ==
  /\ TypeOK
  /\ ScreenTypeOK
  /\ IF part = "careless" THEN Careless!TypeOK ELSE Careful!TypeOK
  /\ MixerTypeOK

(* stop() returns, and what it stopped stays stopped (ClientRegistration).  *)
QuitEnds == []QuitIsFinal /\ StopReturns

(* A call rings the macro, or its caller has keys that were not read.       *)
CallerWaits ==
  \/ part = "careful" /\ call = "ringing"
  \/ part = "careless" /\ call = "connected" /\ buf # <<>>

(* The callers of a macro are served: each call is answered, the script is  *)
(* in its menus only while there is a call, and a key is read as long as    *)
(* its caller is there (MacroRun).                                          *)
CallersServed ==
  /\ CallerWaits ~> ~CallerWaits
  /\ [](part = "careful" => Careful!ScriptNeedsCall)

(* What is fed is played or thrown away (AudioMixer).                       *)
ReceiversHeard ==
  (part = "receivers" /\ stream.buf # <<>>) ~> (stream.buf = <<>> \/ ~Running)
=============================================================================
