------------------------------ MODULE MCWaits -------------------------------
(***************************************************************************)
(* Model-checking instance of what tasks wait for: a sleep lock, a request *)
(* to the disk, a key.  The three share no state: the first state says     *)
(* which one runs.  A lock that runs is fair; the driver and the keyboard  *)
(* have nothing to be fair about until they are called.                    *)
(***************************************************************************)
EXTENDS SleeplockInv, VirtioDisk, Keyboard, Bitwise

VARIABLE layer

\* The element of the used ring, as the driver masks the index.
MCUsedSlot == [i \in 0..IdxMod - 1 |-> i & (DQSize - 1)]

WaitsInit ==
  /\ layer \in {"lock", "disk", "keyboard"}
  /\ Init /\ DInit /\ KInit

Active(l) == layer = l /\ UNCHANGED layer

WaitsNext ==
  \/ Active("lock") /\ Next /\ UNCHANGED <<dVars, kVars>>
  \/ Active("disk") /\ DNext /\ UNCHANGED <<vars, kVars>>
  \/ Active("keyboard") /\ KNext /\ UNCHANGED <<vars, dVars>>

WaitsFair == (layer = "lock" => Fairness) /\ DFair /\ KFair

WaitsSpec == WaitsInit /\ [][WaitsNext]_<<layer, vars, dVars, kVars>> /\ WaitsFair
=============================================================================
