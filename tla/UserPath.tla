------------------------------ MODULE UserPath ------------------------------
(***************************************************************************)
(* Path names from user space: do_build_user_path() (kernel/syscall.c)     *)
(* resolves ".", ".." and "//" in the text before the VFS sees the path,   *)
(* and set_cwd() (kernel/proc.c) keeps its result as the task's cwd_path.  *)
(*                                                                         *)
(* A path is the sequence of its components; a component is a name with a  *)
(* length.  The disk's directories are a fixed tree.                       *)
(***************************************************************************)
EXTENDS Integers, Sequences

CONSTANTS NameLen,      \* length of each name
          PathBuf,      \* BUFSZ
          CwdBuf,       \* sizeof(ts->cwd_path)
          Tree,         \* the existing directories below the root
          MaxSegs       \* bound: components of a path given by a program

ASSUME UserPathAssumption ==
  /\ NameLen \in [DOMAIN NameLen -> Nat \ {0}] /\ PathBuf \in Nat /\ CwdBuf \in Nat /\ CwdBuf > 1
  /\ PathBuf >= CwdBuf /\ MaxSegs \in Nat
  /\ {".", "..", "toolong"} \cap DOMAIN NameLen = {} /\ Tree \subseteq Seq(DOMAIN NameLen)
  /\ \A d \in Tree : d # <<>> /\ (Len(d) > 1 => SubSeq(d, 1, Len(d) - 1) \in Tree)

PDirs == Tree \cup {<<>>}
Segs == DOMAIN NameLen \cup {".", ".."}
UserPaths == [abs : BOOLEAN, segs : UNION {[1..n -> Segs] : n \in 0..MaxSegs}]

VARIABLES
  cwd_path,     \* the text of the working directory
  upath         \* the path the program gives with its system call

pVars == <<cwd_path, upath>>

PInit == cwd_path = <<>> /\ upath = [abs |-> TRUE, segs |-> <<>>]

-----------------------------------------------------------------------------
(* The length of "/" or "/a/b".                                             *)
TextLen(p) ==
  LET upto[i \in 0..Len(p)] == IF i = 0 THEN 0 ELSE upto[i - 1] + 1 + NameLen[p[i]]
  IN IF p = <<>> THEN 1 ELSE upto[Len(p)]

\* The text up to its last "/"; the root is its own parent.
Parent(p) == IF p = <<>> THEN p ELSE SubSeq(p, 1, Len(p) - 1)

\* One round of the loop over the components; "toolong" is the empty string.
NoPath == <<"toolong">>

SegmentExact(p, s) ==
  CASE p = NoPath -> p
    [] p # NoPath /\ s = "." -> p
    [] p # NoPath /\ s = ".." -> Parent(p)
    [] OTHER -> IF TextLen(Append(p, s)) <= PathBuf THEN Append(p, s) ELSE NoPath

Segment(p, s) ==
  CASE p = NoPath -> p
    [] p # NoPath /\ s = "." -> p
    [] p # NoPath /\ s = ".." -> Parent(p)
    [] OTHER -> IF TextLen(Append(p, s)) < PathBuf THEN Append(p, s) ELSE NoPath

do_build_user_path(u, c) ==
  LET out[i \in 0..Len(u.segs)] ==
        IF i = 0 THEN (IF u.abs THEN <<>> ELSE c) ELSE Segment(out[i - 1], u.segs[i])
  IN out[Len(u.segs)]

CwdFits(p) == p # NoPath /\ TextLen(p) < CwdBuf

\* a system call with a path: sys_open(), sys_mkdir(), sys_exec()...
Give(u) == upath' = u /\ UNCHANGED cwd_path

\* sys_chdir(): the text must fit cwd_path and vfs_lookup() must find a directory there
set_cwd_path ==
  LET p == do_build_user_path(upath, cwd_path)
  IN /\ CwdFits(p) /\ p \in PDirs
     /\ cwd_path' = p /\ UNCHANGED upath

PNext == set_cwd_path \/ \E u \in UserPaths : Give(u)

PSpec == PInit /\ [][PNext]_pVars

-----------------------------------------------------------------------------
(* The walk a reader expects: down and up the tree, one directory at a      *)
(* time, the root being its own parent.                                     *)
Enter(d, s) ==
  CASE d = NoPath -> d
    [] d # NoPath /\ s = "." -> d
    [] d # NoPath /\ s = ".." -> Parent(d)
    [] OTHER -> IF Append(d, s) \in PDirs THEN Append(d, s) ELSE NoPath

WalkTo(start, segs) ==
  LET at[i \in 0..Len(segs)] == IF i = 0 THEN start ELSE Enter(at[i - 1], segs[i]) IN at[Len(segs)]

(* The working directory is an existing directory whose text fits cwd_path, *)
(* and a path a program gives that leads somewhere in the tree is resolved  *)
(* to that very place, unless the text does not fit on the way.             *)
TextIsPlace ==
  /\ cwd_path \in PDirs /\ TextLen(cwd_path) < CwdBuf
  /\ LET w == WalkTo(IF upath.abs THEN <<>> ELSE cwd_path, upath.segs)
     IN w # NoPath => do_build_user_path(upath, cwd_path) \in {w, NoPath}

(* The path built is normal and fits its buffer with the terminator, and    *)
(* going to p and then to q is going to p/q, wherever the task stands.      *)
PathsCompose ==
  LET p == do_build_user_path(upath, cwd_path)
  IN p # NoPath =>
       /\ TextLen(p) < PathBuf /\ \A i \in DOMAIN p : p[i] \notin {".", ".."}
       /\ \A k \in 0..Len(upath.segs) :
            LET first == do_build_user_path([upath EXCEPT !.segs = SubSeq(@, 1, k)], cwd_path)
            IN do_build_user_path([abs |-> FALSE, segs |-> SubSeq(upath.segs, k + 1, Len(upath.segs))], first) = p

\* The text do_build_user_path() makes of a path names the place it leads to.
PathsResolve == TextIsPlace /\ PathsCompose
=============================================================================
