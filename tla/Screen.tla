------------------------------- MODULE Screen --------------------------------
(***************************************************************************)
(* The terminal emulator (drivers/tty/gpu_tty.c) on the frame buffer with  *)
(* its panned window (drivers/gpu/kgfx.c).  The unit is a character cell:  *)
(* 8 pixels are a column and 16 a line.  A cell holds a text and, in its   *)
(* last two pixel rows, maybe the cursor.                                  *)
(*                                                                         *)
(* Several harts may be in the terminal at once: tty_cdev_write() holds    *)
(* output_lock, but the echo of a read and printk() call gpu_tty_putc()    *)
(* without it, and the timer of hart 0 blinks the cursor whenever it likes.*)
(* What is written is a stream of characters and of escape sequences that  *)
(* have been recognised; the writers' characters mix as they come.         *)
(***************************************************************************)
EXTENDS Integers

CONSTANTS Cols, Lines,    \* the screen, in cells
          Writers,        \* harts that write: a task, the echo, printk()
          Glyphs,         \* characters that are drawn
          Colours,        \* backgrounds
          MaxOps          \* bound: characters, sequences and blinks

ASSUME ScreenAssumption == {Cols, Lines} \subseteq Nat \ {0} /\ MaxOps \in Nat /\ 0 \in Colours

VARIABLES
  fb,       \* the frame buffer, two screens high
  pan,      \* pan_y
  gt,       \* struct gpu_tty_state
  put,      \* where each writer is in gpu_tty_putc(), and with which character
  term,     \* history: the text a terminal that moves its lines would show
  crossed,  \* history: a hart came into the terminal while another one was in it
  nops

sVars == <<fb, pan, gt, put, term, crossed, nops>>

Columns == 0..Cols - 1
Rows == 0..2 * Lines - 1
ScreenLines == 0..Lines - 1
Texts == [ch : Glyphs \cup {" "}, bg : Colours]
Blank(bg) == [ch |-> " ", bg |-> bg]
Cell(t) == [text |-> t, cursor |-> FALSE]

(* kgfx_fill_rect_nodirty(): the columns x0..x1-1 of the lines y0..y1-1 of   *)
(* the screen, at the window's place in the frame buffer.                   *)
kgfx_fill_rect_nodirty(f, p, x0, y0, x1, y1, bg) ==
  [y \in Rows |-> [x \in Columns |->
     IF y - p \in ScreenLines /\ y0 <= y - p /\ y - p < y1 /\ x0 <= x /\ x < x1 THEN Cell(Blank(bg)) ELSE f[y][x]]]

\* the cursor's two pixel rows, white or in the background colour; nothing beside the screen
Strip(f, p, x, y, white) ==
  [r \in Rows |-> [c \in Columns |->
     IF r = y + p /\ c = x THEN [text |-> f[r][c].text, cursor |-> white] ELSE f[r][c]]]

kgfx_draw_char_nodirty(f, p, x, y, t) ==
  [r \in Rows |-> [c \in Columns |-> IF r = y + p /\ c = x THEN Cell(t) ELSE f[r][c]]]

(* kgfx_scroll_up() by one line, under dirty_lock: the window moves down, or *)
(* at the end of the frame buffer its content moves up and it starts over;  *)
(* then the line that comes into view is cleared.                           *)
WrapsAt(p) == p + Lines + 1 > 2 * Lines

PanAfter(p) == IF WrapsAt(p) THEN 0 ELSE p + 1

Moved(f, p) == [y \in Rows |-> IF WrapsAt(p) /\ y < Lines THEN f[y + Lines] ELSE f[y]]

kgfx_scroll_up(f, p, bg) == kgfx_fill_rect_nodirty(Moved(f, p), PanAfter(p), 0, Lines - 1, Cols, Lines, bg)

-----------------------------------------------------------------------------
Out == [pc |-> "out", c |-> " "]

\* init_gpu_tty() has cleared the frame buffer.
SInit ==
  /\ fb = [y \in Rows |-> [x \in Columns |-> Cell(Blank(0))]]
  /\ pan = 0
  /\ gt = [x |-> 0, y |-> 0, bg |-> 0, visible |-> TRUE, drawn |-> FALSE]
  /\ put = [w \in Writers |-> Out]
  /\ term = [y \in ScreenLines |-> [x \in Columns |-> Blank(0)]]
  /\ crossed = FALSE /\ nops = 0

\* A hart comes into the terminal.
Comes ==
  /\ nops < MaxOps /\ nops' = nops + 1
  /\ crossed' = (crossed \/ \E w \in Writers : put[w].pc # "out")

Enters(w, pc, c) == put[w].pc = "out" /\ Comes /\ put' = [put EXCEPT ![w] = [pc |-> pc, c |-> c]]

Goes(w, pc) == put' = [put EXCEPT ![w].pc = pc] /\ UNCHANGED <<crossed, nops>>

TermState(x, y, bg, visible, drawn) == [x |-> x, y |-> y, bg |-> bg, visible |-> visible, drawn |-> drawn]

\* gpu_tty_erase_cursor() and gpu_tty_draw_cursor(), on the frame buffer
Erased == IF gt.drawn THEN Strip(fb, pan, gt.x, gt.y, FALSE) ELSE fb
Pointed == IF gt.drawn THEN fb ELSE Strip(fb, pan, gt.x, gt.y, TRUE)

(* gpu_tty_putc() of a character that is not of an escape sequence: first   *)
(* the cursor is erased,                                                    *)
gpu_tty_putc(w) ==
  /\ \E c \in Glyphs \cup {"CR", "NL", "BS"} : Enters(w, "draw", c)
  /\ fb' = Erased /\ gt' = TermState(gt.x, gt.y, gt.bg, gt.visible, FALSE)
  /\ UNCHANGED <<pan, term>>

(* gpu_tty_advance_line(): at the bottom the screen scrolls.                *)
AtBottom == gt.y + 2 > Lines
LineDown == IF AtBottom THEN Lines - 1 ELSE gt.y + 1
FbAdvanced == IF AtBottom THEN kgfx_scroll_up(fb, pan, gt.bg) ELSE fb
PanAdvanced == IF AtBottom THEN PanAfter(pan) ELSE pan
TermAdvanced ==
  IF AtBottom THEN [y \in ScreenLines |-> IF y < Lines - 1 THEN term[y + 1] ELSE [x \in Columns |-> Blank(gt.bg)]]
  ELSE term

PutcReturn(w) ==
  /\ put[w].pc = "draw" /\ put[w].c \in {"CR", "BS"}
  /\ gt' = TermState(IF put[w].c = "CR" \/ gt.x = 0 THEN 0 ELSE gt.x - 1, gt.y, gt.bg, gt.visible, gt.drawn)
  /\ Goes(w, "point") /\ UNCHANGED <<fb, pan, term>>

PutcNewline(w) ==
  /\ put[w].pc = "draw" /\ put[w].c = "NL"
  /\ fb' = FbAdvanced /\ pan' = PanAdvanced /\ term' = TermAdvanced
  /\ gt' = TermState(0, LineDown, gt.bg, gt.visible, gt.drawn)
  /\ Goes(w, "point")

\* a character, on the next line when this one is full
PutcGlyph(w) ==
  /\ put[w].pc = "draw" /\ put[w].c \in Glyphs
  /\ LET full == gt.x + 1 > Cols
         x == IF full THEN 0 ELSE gt.x
         y == IF full THEN LineDown ELSE gt.y
         p == IF full THEN PanAdvanced ELSE pan
         t == [ch |-> put[w].c, bg |-> gt.bg]
     IN /\ pan' = p
        /\ fb' = kgfx_draw_char_nodirty(IF full THEN FbAdvanced ELSE fb, p, x, y, t)
        /\ term' = [r \in ScreenLines |-> [c \in Columns |->
                     IF r = y /\ c = x THEN t ELSE (IF full THEN TermAdvanced ELSE term)[r][c]]]
        /\ gt' = TermState(x + 1, y, gt.bg, gt.visible, gt.drawn)
  /\ Goes(w, "point")

(* and last the cursor is drawn where the terminal is now.                  *)
PutcPoint(w) ==
  /\ put[w].pc = "point"
  /\ fb' = IF gt.visible THEN Strip(fb, pan, gt.x, gt.y, TRUE) ELSE fb
  /\ gt' = TermState(gt.x, gt.y, gt.bg, gt.visible, gt.visible \/ gt.drawn)
  /\ Goes(w, "out") /\ UNCHANGED <<pan, term>>

-----------------------------------------------------------------------------
(* gpu_tty_handle_csi(), one action per letter; the numbers are any numbers. *)
(* 'J' with 2: the screen becomes background, the terminal goes to its top. *)
CsiClear(w) ==
  /\ Enters(w, "show", " ")
  /\ fb' = kgfx_fill_rect_nodirty(fb, pan, 0, 0, Cols, Lines, gt.bg)
  /\ term' = [y \in ScreenLines |-> [x \in Columns |-> Blank(gt.bg)]]
  /\ gt' = TermState(0, 0, gt.bg, gt.visible, FALSE)
  /\ UNCHANGED pan

\* 'H' and 'f': the place is cut to the screen.
CsiMove(w) ==
  /\ Enters(w, "move", " ")
  /\ fb' = Erased /\ gt' = TermState(gt.x, gt.y, gt.bg, gt.visible, FALSE)
  /\ UNCHANGED <<pan, term>>

CsiMoved(w) ==
  /\ put[w].pc = "move"
  /\ \E x \in Columns, y \in ScreenLines : gt' = TermState(x, y, gt.bg, gt.visible, gt.drawn)
  /\ Goes(w, "show") /\ UNCHANGED <<fb, pan, term>>

\* 'K': to the end of the line, from its beginning, or all of it; x1 > x0 is tested.
CsiEraseLine(w) ==
  \E mode \in {0, 1, 2} :
    LET x0 == IF mode = 0 THEN gt.x ELSE 0
        x1 == IF mode = 1 THEN gt.x + 1 ELSE Cols
    IN /\ x1 > x0 /\ Enters(w, "show", " ")
       /\ fb' = kgfx_fill_rect_nodirty(Erased, pan, x0, gt.y, x1, gt.y + 1, gt.bg)
       /\ term' = [y \in ScreenLines |-> [x \in Columns |->
                    IF y = gt.y /\ x0 <= x /\ x < x1 THEN Blank(gt.bg) ELSE term[y][x]]]
       /\ gt' = TermState(gt.x, gt.y, gt.bg, gt.visible, FALSE)
       /\ UNCHANGED pan

\* the end of 'J', 'H' and 'K'
CsiShow(w) ==
  /\ put[w].pc = "show"
  /\ fb' = IF gt.visible THEN Pointed ELSE fb
  /\ gt' = TermState(gt.x, gt.y, gt.bg, gt.visible, gt.visible \/ gt.drawn)
  /\ Goes(w, "out") /\ UNCHANGED <<pan, term>>

\* 'l' and 'h' with ?25
CsiHide(w) ==
  /\ Enters(w, "out", " ")
  /\ fb' = Erased /\ gt' = TermState(gt.x, gt.y, gt.bg, FALSE, FALSE)
  /\ UNCHANGED <<pan, term>>

CsiUnhide(w) ==
  /\ Enters(w, "out", " ")
  /\ fb' = Pointed /\ gt' = TermState(gt.x, gt.y, gt.bg, TRUE, TRUE)
  /\ UNCHANGED <<pan, term>>

\* 'm'
CsiColour(w) ==
  /\ Enters(w, "out", " ")
  /\ \E bg \in Colours : gt' = TermState(gt.x, gt.y, bg, gt.visible, gt.drawn)
  /\ UNCHANGED <<fb, pan, term>>

-----------------------------------------------------------------------------
gpu_tty_tickNoFlag ==
  /\ Comes
  /\ fb' = IF gt.visible THEN Erased ELSE Pointed
  /\ gt' = TermState(gt.x, gt.y, gt.bg, ~gt.visible, FALSE)
  /\ UNCHANGED <<pan, put, term>>

(* gpu_tty_tick() on hart 0, when BLINK_INTERVAL ticks have passed.         *)
gpu_tty_tick ==
  /\ Comes
  /\ fb' = IF gt.visible THEN Erased ELSE Pointed
  /\ gt' = TermState(gt.x, gt.y, gt.bg, ~gt.visible, ~gt.visible)
  /\ UNCHANGED <<pan, put, term>>

Putc(w) == gpu_tty_putc(w) \/ PutcReturn(w) \/ PutcNewline(w) \/ PutcGlyph(w) \/ PutcPoint(w)

Csi(w) ==
  \/ CsiClear(w) \/ CsiMove(w) \/ CsiMoved(w) \/ CsiEraseLine(w) \/ CsiShow(w)
  \/ CsiHide(w) \/ CsiUnhide(w) \/ CsiColour(w)

SNext == gpu_tty_tick \/ \E w \in Writers : Putc(w) \/ Csi(w)

SSpec == SInit /\ [][SNext]_sVars

-----------------------------------------------------------------------------
(* "At the bottom: scroll up by one line and keep the history": the panned  *)
(* window shows what a terminal that moves its lines at every scroll shows, *)
(* the scroll at which kgfx_scroll_up() starts over in the frame buffer too.*)
WindowIsText == \A y \in ScreenLines, x \in Columns : fb[y + pan][x].text = term[y][x]

\* The cell (y, x) of the window shows the cursor.
ShowsCursor(y, x) == fb[y + pan][x].cursor

(* As long as no two harts have met in the terminal: a cursor on the screen *)
(* is at the cell the terminal writes next and cursor_drawn says so, so     *)
(* that the next character erases it, and none is on the screen while a     *)
(* character is put and a line may be scrolled up, as the comment at the    *)
(* call of kgfx_scroll_up() says.  A blink or an echo in the middle of a    *)
(* character breaks this in the code: crossed records it, and nothing is    *)
(* claimed from there on.                                                   *)
OneCursor ==
  ~crossed =>
    \A y \in ScreenLines, x \in Columns : ShowsCursor(y, x) =>
      /\ y = gt.y /\ x = gt.x /\ gt.drawn /\ gt.visible
      /\ \A w \in Writers : put[w].pc = "out"
=============================================================================
