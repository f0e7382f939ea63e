----------------------------- MODULE MCSharing ------------------------------
(***************************************************************************)
(* Model-checking instance of the components that several tasks, or a task *)
(* and a device, use at the same time.  They share no state: the first     *)
(* state says which one runs, and the others stay as they begin.           *)
(***************************************************************************)
EXTENDS FileTable, Vfs, HashMap, Slab, VirtioDisk, Virtqueue, Keyboard, Tty, Screen, Bitwise, TLC

CONSTANTS u1, u2, n1, n2

VARIABLE layer

\* Two callers, two names, and paths into a directory that may be one of the disk.
MCNames == {n1, n2}
MCImages == {[entries |-> {<<2, n1, 3>>}, dirs |-> {}],
             [entries |-> {<<2, n1, 3>>}, dirs |-> {3}],
             [entries |-> {<<1, n1, 3>>, <<3, n2, 4>>}, dirs |-> {3}]}
MCPaths == {<<>>, <<n1>>, <<n1, n2>>, <<n2, n1>>}
MCTargets == {<<n2>>}
MCQuiet == {"unlink", "rmdir", "umount"}

\* Slabs of two objects and slabs of one.
TwoAndOne == <<2, 1>>

\* The element of the used ring, as the driver masks the index.
MCUsedSlot == [i \in 0..IdxMod - 1 |-> i & (DQSize - 1)]

SharingInit ==
  /\ layer \in {"files", "names", "hash", "slab", "disk", "queue", "keyboard", "tty", "screen"}
  /\ FInit /\ VfsInit /\ HInit /\ SlabInit /\ DInit /\ VInit /\ KInit /\ TInit /\ SInit
  /\ layer # "names" => dirs = {1, 2}

Active(l) == layer = l /\ UNCHANGED layer

SharingNext ==
  \/ /\ Active("files") /\ FNext
     /\ UNCHANGED <<vfsVars, hVars, slVars, dVars, qVars, kVars, tVars, sVars>>
  \/ /\ Active("names") /\ VfsNext
     /\ UNCHANGED <<fvars, hVars, slVars, dVars, qVars, kVars, tVars, sVars>>
  \/ /\ Active("hash") /\ HNext
     /\ UNCHANGED <<fvars, vfsVars, slVars, dVars, qVars, kVars, tVars, sVars>>
  \/ /\ Active("slab") /\ SlabNext
     /\ UNCHANGED <<fvars, vfsVars, hVars, dVars, qVars, kVars, tVars, sVars>>
  \/ /\ Active("disk") /\ DNext
     /\ UNCHANGED <<fvars, vfsVars, hVars, slVars, qVars, kVars, tVars, sVars>>
  \/ /\ Active("queue") /\ VNext
     /\ UNCHANGED <<fvars, vfsVars, hVars, slVars, dVars, kVars, tVars, sVars>>
  \/ /\ Active("keyboard") /\ KNext
     /\ UNCHANGED <<fvars, vfsVars, hVars, slVars, dVars, qVars, tVars, sVars>>
  \/ /\ Active("tty") /\ TNext
     /\ UNCHANGED <<fvars, vfsVars, hVars, slVars, dVars, qVars, kVars, sVars>>
  \/ /\ Active("screen") /\ SNext
     /\ UNCHANGED <<fvars, vfsVars, hVars, slVars, dVars, qVars, kVars, tVars>>

SharingSpec == SharingInit /\ [][SharingNext]_<<layer, fvars, vfsVars, hVars, slVars, dVars, qVars, kVars, tVars, sVars>>

\* The tasks of every component are interchangeable.
TaskSymmetry == Permutations({u1, u2})
=============================================================================
