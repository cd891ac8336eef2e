---------------------------- MODULE MCPhoneLink ----------------------------
(***************************************************************************)
(* Small instances of PhoneLink for TLC.  In the one, phones hold calls    *)
(* and place second ones; in the other there is one call, whose media      *)
(* every phone acks.  Which one is a choice of the initial state.          *)
(***************************************************************************)
EXTENDS PhoneLink, TLC

VARIABLE setup   \* "hold" or "media"

Media ==
  INSTANCE PhoneLink WITH Ackers <- Phones, Records <- TRUE,
                          Keys <- {"NewCall", "Answer", "EndCall", "OnHook"}

(* The hub with all its calls but one behind it. *)
LastCall == INSTANCE PhoneLink WITH nextRef <- nextRef - (MaxCalls - 1)

setupVars == <<linkVars, setup>>

SetupInit ==
  \/ setup = "hold" /\ LinkInit
  \/ setup = "media" /\ nextRef = MaxCalls /\ LastCall!LinkInit

SetupNext ==
  /\ UNCHANGED setup
  /\ \/ setup = "hold" /\ LinkNext
     \/ setup = "media" /\ Media!LinkNext

SetupSpec ==
  /\ SetupInit /\ [][SetupNext]_setupVars
  /\ WF_setupVars(setup = "media" /\ Media!HubHandles /\ UNCHANGED setup)
  /\ WF_setupVars(setup = "media" /\ Media!Receive /\ UNCHANGED setup)

(* The phone agrees with the hub whenever nothing is under way (hub         *)
(* _send_party_focus, mark_call_ended); without hold, and with one call at  *)
(* a time, its sender, receiver and recorder then end with the call         *)
(* (_teardown_local_media).                                                 *)
ClientAgrees == QuietAgree /\ (setup = "media" => MediaEndsWithCalls)

(* With one call at a time, the hub forgets the call its user hangs up.     *)
HangUpHeard ==
  \A r \in Refs :
    (setup = "media" /\ \E i \in 1..Len(up) : up[i].key = "EndCall" /\ up[i].ref = r)
      ~> r \notin live
=============================================================================
