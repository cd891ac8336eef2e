--------------------------- MODULE DeviceConfigs ---------------------------
(***************************************************************************)
(* The simulator's directory numbers and the SEP*.cnf.xml files it keeps   *)
(* for its devices: the registry assigns a number on first sight, the TFTP *)
(* thread writes and serves a file, and the threads of sessions and of the *)
(* administrator (provision) refresh it.  A write truncates the file       *)
(* first; files outlive the simulator, the registry does not.              *)
(***************************************************************************)
EXTENDS Naturals

CONSTANTS
  Devices,       \* device names
  Exported,      \* devices whose CUCM export lies in the TFTP root
  Writers,       \* threads that run write_device_config
  Tftp,          \* the TFTP server's thread
  IvrDn,         \* the directory number kept for the IVR, or NoDn
  MaxStarts,     \* bound: times the simulator is started
  NoDn, NoThread, NoDevice

ASSUME ConfigAssumption ==
  /\ Exported \subseteq Devices /\ IvrDn \in Nat \cup {NoDn}
  /\ Tftp \notin Writers /\ NoThread \notin Writers \cup {Tftp}
  /\ NoDevice \notin Devices
  /\ NoDn \notin Nat /\ MaxStarts \in Nat

VARIABLES
  assigned,      \* registry._by_device
  next,          \* registry._next
  disk,          \* the files in the TFTP root
  thread,        \* the threads: where they are, for which device, their text
  lock,          \* service._lock
  served,        \* what the phone of each device downloaded last
  starts         \* times the simulator was started

vars == <<assigned, next, disk, thread, lock, served, starts>>

Threads == Writers \cup {Tftp}

(* A file is missing, truncated, made by build_sep_config, or an export;    *)
(* an export shows no number until one is patched in.                       *)
File == [kind: {"none", "empty", "made", "export"}, dn: Nat \cup {NoDn}]
NoFile   == [kind |-> "none", dn |-> NoDn]
Emptied  == [kind |-> "empty", dn |-> NoDn]
Made(dn) == [kind |-> "made", dn |-> dn]
Idle     == [pc |-> "idle", device |-> NoDevice, text |-> NoFile]

Init ==
  /\ assigned = [d \in Devices |-> NoDn] /\ next = 0
  /\ disk = [d \in Devices |->
       IF d \in Exported THEN [kind |-> "export", dn |-> NoDn] ELSE NoFile]
  /\ thread = [w \in Threads |-> Idle]
  /\ lock = NoThread
  /\ served = [d \in Devices |-> NoFile]
  /\ starts = 1

-----------------------------------------------------------------------------
(* registry.assign: one number per device, and never the IVR's *)

AllocReserved == next                                              \* mutant
AllocDn == IF next = IvrDn THEN next + 1 ELSE next

(* A request for a file, a registration, or a provision. *)
Assign(w, d) ==
  /\ thread[w].pc = "idle"
  /\ thread' = [thread EXCEPT ![w] = [pc |-> "read", device |-> d, text |-> NoFile]]
  /\ IF assigned[d] # NoDn
     THEN UNCHANGED <<assigned, next>>
     ELSE /\ assigned' = [assigned EXCEPT ![d] = AllocDn]
          /\ next' = AllocDn + 1
  /\ UNCHANGED <<disk, lock, served, starts>>

(* is_cucm_sep_config: what build_sep_config makes passes it too *)
IsCucm(file) == file.kind \in {"made", "export"}

(* patch_sep_config_for_sim adds a number only where there are no lines *)
Patched(file, dn) == [file EXCEPT !.dn = IF @ = NoDn THEN dn ELSE @]

(* _materialize_sep_config, before the lock is taken *)
MaterializedAsIs(file, dn) == IF IsCucm(file) THEN file ELSE Made(0)   \* mutant
Materialized(file, dn) == IF IsCucm(file) THEN Patched(file, dn) ELSE Made(dn)

Materialize(w) ==
  /\ thread[w].pc = "read"
  /\ LET d == thread[w].device IN
       thread' = [thread EXCEPT ![w].pc = "lock", ![w].text = Materialized(disk[d], assigned[d])]
  /\ UNCHANGED <<assigned, next, disk, lock, served, starts>>

(* Under the lock: write_device_config compares and may leave the file      *)
(* alone, _dyn_file writes always; writing starts by emptying the file.     *)
BeginWrite(w) ==
  /\ thread[w].pc = "lock" /\ lock = NoThread
  /\ LET d == thread[w].device IN
     IF w # Tftp /\ disk[d] = thread[w].text
     THEN /\ thread' = [thread EXCEPT ![w] = Idle]
          /\ UNCHANGED <<disk, lock>>
     ELSE /\ thread' = [thread EXCEPT ![w].pc = "write"]
          /\ disk' = [disk EXCEPT ![d] = Emptied]
          /\ lock' = w
  /\ UNCHANGED <<assigned, next, served, starts>>

(* A writer is done; the TFTP thread goes on to open what it wrote. *)
AfterWrite(w) == IF w = Tftp THEN [thread[w] EXCEPT !.pc = "open"] ELSE Idle

EndWriteHolding(w) ==                                              \* mutant
  /\ thread[w].pc = "write"
  /\ disk' = [disk EXCEPT ![thread[w].device] = thread[w].text]
  /\ thread' = [thread EXCEPT ![w] = AfterWrite(w)]
  /\ UNCHANGED <<assigned, next, lock, served, starts>>

EndWrite(w) ==
  /\ thread[w].pc = "write"
  /\ disk' = [disk EXCEPT ![thread[w].device] = thread[w].text]
  /\ lock' = NoThread
  /\ thread' = [thread EXCEPT ![w] = AfterWrite(w)]
  /\ UNCHANGED <<assigned, next, served, starts>>

(* _dyn_file opens the file after it has let go of the lock *)
Serve ==
  /\ thread[Tftp].pc = "open"
  /\ served' = [served EXCEPT ![thread[Tftp].device] = disk[thread[Tftp].device]]
  /\ thread' = [thread EXCEPT ![Tftp] = Idle]
  /\ UNCHANGED <<assigned, next, disk, lock, starts>>

(* The simulator stops, wherever its threads are, and is started again with *)
(* the same root: a new registry, the old files.                            *)
Restart ==
  /\ starts < MaxStarts /\ starts' = starts + 1
  /\ assigned' = [d \in Devices |-> NoDn] /\ next' = 0
  /\ thread' = [w \in Threads |-> Idle]
  /\ lock' = NoThread
  /\ served' = [d \in Devices |-> NoFile]
  /\ UNCHANGED disk

ThreadStep(w) == Materialize(w) \/ BeginWrite(w) \/ EndWrite(w) \/ (w = Tftp /\ Serve)

Next ==
  \/ \E w \in Threads : ThreadStep(w) \/ \E d \in Devices : Assign(w, d)
  \/ Restart

Spec == Init /\ [][Next]_vars

(* Threads run, and a free lock comes to every thread that waits for it. *)
FairSpec ==
  /\ Spec
  /\ \A w \in Threads : WF_vars(Materialize(w)) /\ SF_vars(BeginWrite(w)) /\ WF_vars(EndWrite(w))
  /\ WF_vars(Serve)

-----------------------------------------------------------------------------
(* Properties *)

TypeOK ==
  /\ assigned \in [Devices -> Nat \cup {NoDn}] /\ next \in Nat
  /\ disk \in [Devices -> File] /\ served \in [Devices -> File]
  /\ thread \in [Threads -> [pc: {"idle", "read", "lock", "write", "open"},
                             device: Devices \cup {NoDevice}, text: File]]
  /\ \A w \in Threads : thread[w].pc # "idle" => thread[w].device \in Devices
  /\ lock \in Threads \cup {NoThread} /\ starts \in Nat

(* No two devices have one number, and nobody has the IVR's.                *)
DnsDistinct ==
  \A d, e \in Devices :
    assigned[d] # NoDn =>
      /\ assigned[d] # IvrDn
      /\ assigned[e] = assigned[d] => e = d

(* Until the simulator is started again, a phone without an export          *)
(* downloads a file that is whole and shows the number CallManager calls it *)
(* by (tftp_service.py _dyn_file, registry.py assign).                      *)
ServedOwnDn ==
  \A d \in Devices \ Exported :
    starts = 1 /\ served[d] # NoFile => served[d].kind # "empty" /\ served[d].dn = assigned[d]

(* A file that was asked for is served, however many sessions refresh it.   *)
RequestServed == thread[Tftp].pc = "read" ~> thread[Tftp].pc = "idle"
=============================================================================
