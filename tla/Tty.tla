-------------------------------- MODULE Tty ---------------------------------
(***************************************************************************)
(* The terminal line discipline (drivers/tty.c): tty_cdev_read() in line   *)
(* mode and in raw mode over a source of characters (getc, external: the   *)
(* keyboard or the uart).  The echo is left out: it changes nothing here,  *)
(* and module Screen has it among its writers.                             *)
(***************************************************************************)
EXTENDS Integers, Sequences, FiniteSets

CONSTANTS TReaders,     \* tasks that read the terminal
          LineMax,      \* TTY_LINE_MAX
          Counts,       \* counts of the read calls
          MaxTyped,     \* bound: characters typed
          ReadAlone     \* one task at a time is in tty_cdev_read()

ASSUME TtyAssumption ==
  /\ LineMax \in Nat /\ LineMax > 1 /\ MaxTyped \in Nat /\ ReadAlone \in BOOLEAN
  /\ Counts \subseteq Nat \ {0}

Chars == {"a", "b", "bs", "nl"}      \* two letters, \b or 0x7f, \r or \n

VARIABLES
  line,      \* linebuf up to linepos
  lready,    \* line_ready
  tcall,     \* where each task stands in tty_cdev_read()
  since,     \* history: characters given to the line discipline since the last line left
  taken,     \* history: the last line handed out, and the characters it was typed as
  ntyped     \* characters typed so far

tVars == <<line, lready, tcall, since, taken, ntyped>>

TOut == [pc |-> "out", count |-> 0, c |-> "a"]

TInit ==
  /\ line = <<>> /\ lready = FALSE
  /\ tcall = [r \in TReaders |-> TOut]
  /\ since = <<>> /\ taken = [text |-> <<>>, keys |-> <<>>, count |-> 0] /\ ntyped = 0

-----------------------------------------------------------------------------
(* tty_line_discipline(): the new line after one character.  The room check *)
(* keeps a place for the newline, which is stored unchecked.                *)
EditedFull(l, c) ==
  CASE c = "nl" -> Append(l, c)
    [] c = "bs" -> IF l # <<>> THEN SubSeq(l, 1, Len(l) - 1) ELSE l
    [] OTHER -> IF Len(l) < LineMax THEN Append(l, c) ELSE l

Edited(l, c) ==
  CASE c = "nl" -> Append(l, c)
    [] c = "bs" -> IF l # <<>> THEN SubSeq(l, 1, Len(l) - 1) ELSE l
    [] OTHER -> IF Len(l) < LineMax - 1 THEN Append(l, c) ELSE l

tty_cdev_read(r, n) ==
  /\ tcall[r].pc = "out" /\ ntyped < MaxTyped
  /\ ReadAlone => \A w \in TReaders : tcall[w].pc = "out"
  /\ tcall' = [tcall EXCEPT ![r] = [TOut EXCEPT !.pc = IF n = 1 THEN "raw" ELSE "look", !.count = n]]
  /\ UNCHANGED <<line, lready, since, taken, ntyped>>

\* under read_lock: a ready line is copied as far as the count goes, and the line starts over
TakeLine(r) ==
  /\ tcall[r].pc = "look" /\ lready
  /\ LET n == IF Len(line) > tcall[r].count THEN tcall[r].count ELSE Len(line)
     IN taken' = [text |-> SubSeq(line, 1, n), keys |-> since, count |-> tcall[r].count]
  /\ line' = <<>> /\ lready' = FALSE /\ since' = <<>>
  /\ tcall' = [tcall EXCEPT ![r] = TOut]
  /\ UNCHANGED ntyped

NoLine(r) ==
  /\ tcall[r].pc = "look" /\ ~lready
  /\ tcall' = [tcall EXCEPT ![r].pc = "getc"]
  /\ UNCHANGED <<line, lready, since, taken, ntyped>>

\* getc gives a character, to the line discipline or, in raw mode, to the caller
Getc(r, c) ==
  /\ tcall[r].pc \in {"getc", "raw"} /\ ntyped < MaxTyped
  /\ ntyped' = ntyped + 1
  /\ tcall' = [tcall EXCEPT ![r] = IF tcall[r].pc = "raw" THEN TOut ELSE [@ EXCEPT !.pc = "edit", !.c = c]]
  /\ UNCHANGED <<line, lready, since, taken>>

\* getc fails: the call ends and what was edited so far stays
GetcFails(r) ==
  /\ tcall[r].pc \in {"getc", "raw"}
  /\ tcall' = [tcall EXCEPT ![r] = TOut]
  /\ UNCHANGED <<line, lready, since, taken, ntyped>>

tty_line_discipline(r) ==
  /\ tcall[r].pc = "edit"
  /\ line' = Edited(line, tcall[r].c)
  /\ lready' = (lready \/ tcall[r].c = "nl")
  /\ since' = Append(since, tcall[r].c)
  /\ tcall' = [tcall EXCEPT ![r].pc = "look"]
  /\ UNCHANGED <<taken, ntyped>>

TNext ==
  \E r \in TReaders :
    \/ \E n \in Counts : tty_cdev_read(r, n)
    \/ TakeLine(r) \/ NoLine(r) \/ tty_line_discipline(r) \/ GetcFails(r)
    \/ \E c \in Chars : Getc(r, c)

TSpec == TInit /\ [][TNext]_tVars

-----------------------------------------------------------------------------
(* linebuf[TTY_LINE_MAX] is never written past its end, a newline included; *)
(* the next field of struct tty is linepos itself.                          *)
LineFits == Len(line) <= LineMax

\* The characters that survive the erasures after them: no run of keys that follows one is more than half erasures.
Erasures(keys, i, j) == Cardinality({k \in i + 1..j : keys[k] = "bs"})
Survives(keys, i) == keys[i] \notin {"bs", "nl"} /\ \A j \in i + 1..Len(keys) : 2 * Erasures(keys, i, j) <= j - i
Typed(keys) ==
  LET kept == {i \in DOMAIN keys : Survives(keys, i)}
  IN [n \in 1..Cardinality(kept) |-> keys[CHOOSE i \in kept : Cardinality({j \in kept : j < i}) = n - 1]]

(* A line that fits the buffer reaches its reader as it was typed: the      *)
(* characters no later erasure removed, in order, ended by the newline and  *)
(* cut at the count of the call.                                            *)
LineAsTyped ==
  LET whole == Append(Typed(taken.keys), "nl")
  IN (taken.keys # <<>> /\ Len(taken.keys) < LineMax)
       => taken.text = SubSeq(whole, 1, IF Len(whole) > taken.count THEN taken.count ELSE Len(whole))

(* Every line handed out ends in its one newline unless the count cut it:   *)
(* a reader never sees two lines, or half of one, as a whole line.          *)
OneLine ==
  /\ \A i \in DOMAIN taken.text : taken.text[i] = "nl" => i = Len(taken.text)
  /\ Len(taken.text) < taken.count => taken.text[Len(taken.text)] = "nl"

\* tty_cdev_read() hands out lines as they were typed and edited.
LinesDelivered == LineFits /\ LineAsTyped /\ OneLine
=============================================================================
