------------------------------- MODULE MCTftp -------------------------------
(***************************************************************************)
(* Small instances, for TLC, of what brings a phone its configuration: the *)
(* relay, with one phone whose datagrams may be as late as its patience    *)
(* allows, with two phones and a lossy network, and with one phone and a   *)
(* network that loses anything but the last block; and the files with the  *)
(* numbers in them.  Which one is a choice of the initial state.           *)
(***************************************************************************)
EXTENDS DeviceConfigs, TftpRelay

CONSTANT One     \* the client that is alone

VARIABLE part    \* "late", "two", "kind" or "configs"

allVars == <<part, vars, relayVars>>

(* What is each network's; the last is also that of the files.              *)
Late == [tries |-> 1, losses |-> 0, losesLast |-> FALSE, patient |-> FALSE]
Two  == [tries |-> 1, losses |-> 1, losesLast |-> TRUE, patient |-> TRUE]
Kind == [tries |-> 2, losses |-> 1, losesLast |-> FALSE, patient |-> TRUE]
TftpSettings == {Late, Two, Kind}

Of(p) == CASE p = "late" -> Late [] p = "two" -> Two [] OTHER -> Kind

-----------------------------------------------------------------------------
TftpInit ==
  /\ part \in {"late", "two", "kind", "configs"}
  /\ Init /\ RelayInit /\ setting = Of(part)

Alone == UNCHANGED [c \in Clients \ {One} |-> phone[c]]

DownloadNext ==
  /\ RelayNext /\ UNCHANGED <<part, vars>>
  /\ \/ part = "late" /\ Alone /\ Len(relay') <= 2
     \/ part = "two"
     \/ part = "kind" /\ Alone

TftpNext ==
  \/ DownloadNext
  \/ part = "configs" /\ Next /\ UNCHANGED <<part, relayVars>>

(* The relay's loop, the phone and the server run; so do the threads of the *)
(* service, and a free lock comes to every thread that waits for it.        *)
RelayFair ==
  /\ WF_relayVars(part = "kind" /\ RelayStep)
  /\ WF_relayVars(part = "kind" /\ ServerStep)
  /\ WF_relayVars(part = "kind" /\ PhoneStep(One))

ConfigsFair ==
  /\ \A w \in Threads :
       /\ WF_vars(part = "configs" /\ Materialize(w))
       /\ SF_vars(part = "configs" /\ BeginWrite(w))
       /\ WF_vars(part = "configs" /\ EndWrite(w))
  /\ WF_vars(part = "configs" /\ Serve)

TftpSpec == TftpInit /\ [][TftpNext]_allVars /\ RelayFair /\ ConfigsFair

-----------------------------------------------------------------------------
(* Properties *)

(* A download that is not refused completes, as long as the network loses   *)
(* nothing but what the phone or the server sends again (tftp_relay.py      *)
(* forwards DATA and ACK; the last block is not sent again to a session     *)
(* that has ended).                                                         *)
CompletesKindly ==
  part = "kind" /\ phone[One].pc = "asked" ~> phone[One].pc = "done" \/ Refused(One)
=============================================================================
