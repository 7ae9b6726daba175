--------------------------- MODULE CheckpointStore --------------------------
(***************************************************************************)
(* What checkpoints are for: the processes of a job put objects of theirs  *)
(* under a name, all at once; whatever was put there in full is found      *)
(* there after a restart, process by process, until the job begins to put  *)
(* something else under the same name.                                     *)
(***************************************************************************)
EXTENDS Integers

CONSTANTS Proc,     \* processes: 1 .. n, as many as a job may have
          Id,       \* identifiers of objects
          File      \* names of checkpoints

VARIABLES size,        \* number of processes of the job
          object,      \* the objects of a process
          registered,  \* those that go into its checkpoints
          own,         \* a checkpoint that a process keeps in memory
          disk,        \* checkpoints: the number of processes, and their objects
          loaded       \* what a process has read: nothing, something, or a checkpoint

vars == <<size, object, registered, own, disk, loaded>>

Nothing == [kind |-> "nothing", objects |-> <<>>]
Something == [kind |-> "something", objects |-> <<>>]
Checkpoint(objects) == [kind |-> "checkpoint", objects |-> objects]

\* Nothing has been put there, or not in full.
Torn == [size |-> 0, objects |-> <<>>]

Snapshot(p) == [i \in registered[p] |-> object[p][i]]

Memory == <<size, object, registered, loaded>>

Init ==
  /\ registered = [p \in Proc |-> {}]
  /\ own = [p \in Proc |-> Nothing]
  /\ loaded = [p \in Proc |-> Nothing]
  /\ disk = [f \in File |-> Torn]

\* All but object i of process p stay what they are.
OnlyChanges(p, i) ==
  \A q \in Proc : \A j \in DOMAIN object[q] : q # p \/ j # i => object'[q][j] = object[q][j]

Compute(p) ==
  /\ \E i \in Id : OnlyChanges(p, i)
  /\ UNCHANGED <<size, registered, own, disk, loaded>>

Register(p, i) ==
  /\ registered' \in {[registered EXCEPT ![p] = @ \cup {i}], [registered EXCEPT ![p] = @ \ {i}]}
  /\ UNCHANGED <<size, object, own, disk, loaded>>

\* The job begins to write under f, and has written.
Begin(f) == disk' = [disk EXCEPT ![f] = Torn] /\ UNCHANGED <<own, Memory>>
Store(f) ==
  /\ disk' = [disk EXCEPT ![f] = [size |-> size, objects |-> [p \in 1 .. size |-> Snapshot(p)]]]
  /\ UNCHANGED <<own, Memory>>

\* As many processes read as have written, or they read something that is torn.
Load(f) ==
  /\ \A p \in 1 .. size : loaded[p] = Nothing
  /\ \/ /\ disk[f].size = size
        /\ loaded' = [p \in Proc |-> IF p \in 1 .. size THEN Checkpoint(disk[f].objects[p])
                                     ELSE Nothing]
     \/ /\ disk[f] = Torn
        /\ loaded' = [p \in Proc |-> IF p \in 1 .. size THEN Something ELSE Nothing]
  /\ UNCHANGED <<size, object, registered, own, disk>>

\* A process keeps a checkpoint for itself, as long as the job runs.
StoreOwn(p) ==
  /\ own' = [own EXCEPT ![p] = Checkpoint(Snapshot(p))]
  /\ UNCHANGED <<disk, Memory>>

LoadOwn(p) ==
  /\ loaded[p] = Nothing /\ own[p] # Nothing
  /\ loaded' = [loaded EXCEPT ![p] = own[p]]
  /\ UNCHANGED <<size, object, registered, disk, own>>

Forget(p) ==
  /\ loaded' = [loaded EXCEPT ![p] = Nothing]
  /\ UNCHANGED <<size, object, registered, own, disk>>

Restore(p, i) ==
  /\ loaded[p] # Nothing
  /\ OnlyChanges(p, i)
  /\ loaded[p].kind = "checkpoint" =>
       i \in DOMAIN loaded[p].objects /\ object'[p][i] = loaded[p].objects[i]
  /\ registered' \in {registered, [registered EXCEPT ![p] = @ \cup {i}]}
  /\ UNCHANGED <<size, own, disk, loaded>>

\* The job ends, or fails; the next one has its own number of processes.
Restart ==
  /\ registered' = [p \in Proc |-> {}]
  /\ own' = [p \in Proc |-> Nothing]
  /\ loaded' = [p \in Proc |-> Nothing]
  /\ UNCHANGED disk

Next ==
  \/ \E p \in Proc : Compute(p) \/ StoreOwn(p) \/ LoadOwn(p) \/ Forget(p)
  \/ \E p \in Proc, i \in Id : Register(p, i) \/ Restore(p, i)
  \/ \E f \in File : Begin(f) \/ Store(f) \/ Load(f)
  \/ Restart

Spec == Init /\ [][Next]_vars
=============================================================================
