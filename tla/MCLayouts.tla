----------------------------- MODULE MCLayouts ------------------------------
(***************************************************************************)
(* Model-checking instance of the components that lay something out: pages *)
(* in memory, blocks in a heap, files on a disk, names in a buffer.  They  *)
(* share no state: the first state says which one runs, and the others     *)
(* stay as they begin.                                                     *)
(***************************************************************************)
EXTENDS PageAlloc, AddressSpace, Malloc, UserPath, Ext2Cache, Ext2, Fat32, FatTime, TLC

CONSTANTS u1, u2, u3, p1, p2, p3

VARIABLE layer

\* The order of three pages after init_memory().
ThreePages == <<p1, p2, p3>>

\* Grow the heap by a page and a half, shrink it by a page.
MCDeltas == {0 - 2, 3}

\* A short and a long name; the long one takes three times the space of a directory block.
MCLen == [a |-> 1, b |-> 2]
MCSpace == [a |-> 1, b |-> 3]
MCTree == {<<"a">>, <<"b">>, <<"a", "a">>, <<"a", "b">>, <<"b", "b">>, <<"a", "b", "a">>}

\* Weeks around a leap day, the first leap century year, the end of FAT and of 32-bit time.
MCDays == (3640..3720) \cup (11000..11080) \cup (47470..47550) \cup (49700..49710)

LayoutsInit ==
  /\ layer \in {"pages", "spaces", "malloc", "path", "cache", "ext2", "fat32", "time"}
  /\ Init /\ AInit /\ MInit /\ PInit /\ CInit /\ EInit /\ FatInit /\ FTInit
  /\ layer # "time" => clock = [day |-> 3640, sec |-> 0]

Active(l) == layer = l /\ UNCHANGED layer

LayoutsNext ==
  \/ /\ Active("pages") /\ Next
     /\ UNCHANGED <<asVars, mVars, pVars, cVars, eVars, fVars, clockVars>>
  \/ /\ Active("spaces") /\ ANext
     /\ UNCHANGED <<vars, mVars, pVars, cVars, eVars, fVars, clockVars>>
  \/ /\ Active("malloc") /\ MNext
     /\ UNCHANGED <<vars, asVars, pVars, cVars, eVars, fVars, clockVars>>
  \/ /\ Active("path") /\ PNext
     /\ UNCHANGED <<vars, asVars, mVars, cVars, eVars, fVars, clockVars>>
  \/ /\ Active("cache") /\ CacheNext
     /\ UNCHANGED <<vars, asVars, mVars, pVars, eVars, fVars, clockVars>>
  \/ /\ Active("ext2") /\ Ext2Next
     /\ UNCHANGED <<vars, asVars, mVars, pVars, cVars, fVars, clockVars>>
  \/ /\ Active("fat32") /\ Fat32Next
     /\ UNCHANGED <<vars, asVars, mVars, pVars, cVars, eVars, clockVars>>
  \/ /\ Active("time") /\ fat32_now
     /\ UNCHANGED <<vars, asVars, mVars, pVars, cVars, eVars, fVars>>

LayoutsSpec == LayoutsInit /\ [][LayoutsNext]_<<layer, vars, asVars, mVars, pVars, cVars, eVars, fVars, clockVars>>

\* The tasks of every component are interchangeable.
TaskSymmetry == Permutations({u1, u2})
=============================================================================
