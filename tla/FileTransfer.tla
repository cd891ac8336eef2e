---------------------------- MODULE FileTransfer ----------------------------
(***************************************************************************)
(* What a download promises a phone, whatever carries it: the blocks of    *)
(* one version of the file, in order, each once, until the last one; or a  *)
(* failure the phone knows of.                                             *)
(***************************************************************************)
EXTENDS Naturals

CONSTANTS
  Clients,       \* downloads, each from a port of its own
  Blocks,        \* the number of blocks of the file
  Versions,      \* what the file may say
  NoVersion      \* nothing was received yet

VARIABLES
  got,           \* the blocks received of each download
  version,       \* the version they are of
  outcome        \* how it ended

transferVars == <<got, version, outcome>>

TransferInit ==
  /\ got = [c \in Clients |-> 0]
  /\ version = [c \in Clients |-> NoVersion]
  /\ outcome = [c \in Clients |-> "open"]

(* The next block arrives; the first one decides the version. *)
Deliver(c) ==
  /\ outcome[c] = "open" /\ got[c] < Blocks
  /\ got' = [got EXCEPT ![c] = @ + 1]
  /\ IF got[c] = 0
     THEN \E v \in Versions : version' = [version EXCEPT ![c] = v]
     ELSE UNCHANGED version
  /\ outcome' = [outcome EXCEPT ![c] = IF got[c] + 1 = Blocks THEN "done" ELSE @]

GiveUp(c) ==
  /\ outcome[c] = "open"
  /\ outcome' = [outcome EXCEPT ![c] = "failed"]
  /\ UNCHANGED <<got, version>>

TransferNext == \E c \in Clients : Deliver(c) \/ GiveUp(c)

TransferSpec == TransferInit /\ [][TransferNext]_transferVars
=============================================================================
