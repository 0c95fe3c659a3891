------------------------------ MODULE Display -------------------------------
(***************************************************************************)
(* pdcdisp.c: how the cells of curscr come to the console, in packets of   *)
(* equal attributes, by escape sequences or by WriteConsoleOutput, with a  *)
(* cache of what the last sequence set; and text that blinks.              *)
(*                                                                         *)
(* Italics (as underlining) and the grid lines (A_LEFT, A_RIGHT) are left  *)
(* out, and so are colours that the program redefines.                     *)
(***************************************************************************)
EXTENDS Screen, SequencesExt

CONSTANTS
  Lines, Cols,   \* the size of the screen
  Characters,    \* what a cell may hold, the space among it
  Styles,        \* the cells that are drawn
  Terminals,     \* "console" has no sequences but for the colours from 16; "conemu"
                 \* and "wt" (Windows Terminal) have pdc_ansi
  Cases          \* pairs: a bound on the updates, and whether Ctrl+Break is pressed

Blank == " "

\* A cell of curscr: a character and its attributes.
Cell == [ch : Characters, fore : 0..255, back : 0..255, under : BOOLEAN, bold : BOOLEAN,
         blink : BOOLEAN, reverse : BOOLEAN]

ASSUME DisplayAssumption ==
  /\ Lines \in Nat \ {0} /\ Cols \in Nat \ {0}
  /\ Blank \in Characters /\ Styles \subseteq Cell
  /\ Terminals \subseteq {"console", "conemu", "wt"}
  /\ Cases \subseteq Nat \X BOOLEAN
  /\ \A c \in Styles : c.ch = "low" => c.fore < 16 /\ c.back < 16

VARIABLES
  terminal,
  curscr,       \* what each cell is to show
  shown,        \* what it shows: a character, two colours, underlined or not
  sgr,          \* what the terminal's last sequences set
  old,          \* pdc_oldf, pdc_oldb and pdc_oldu
  blinks,       \* A_BLINK is one of SP->termattrs
  blinked_off,
  blinkSet,     \* history: blinking was turned on and nothing blinked since
  left          \* bound: the updates and interrupts still to come

displayVars == <<terminal, curscr, shown, sgr, old, blinks, blinked_off, blinkSet, left>>
vars == <<screenVars, displayVars>>

Cells == (1..Lines) \X (1..Cols)
LastCell == <<Lines, Cols>>

\* A cell as erase leaves it: white (7) on black (0).
Plain == [ch |-> Blank, fore |-> 7, back |-> 0, under |-> FALSE, bold |-> FALSE,
          blink |-> FALSE, reverse |-> FALSE]

\* The attributes of a cell: all but the character.
Attr(c) == [c EXCEPT !.ch = Blank]

(***************************************************************************)
(* The colours: curses counts them as the console does (blue is 1), ANSI   *)
(* has red and blue the other way round.                                   *)
(***************************************************************************)
ansitocurs(n) == LET low == <<0, 4, 2, 6, 1, 5, 3, 7>>
                 IN  IF n < 8 THEN low[n + 1] ELSE 8 + low[n - 7]
curstoansi(c) == CHOOSE n \in 0..15 : ansitocurs(n) = c

\* The parameters of a sequence for a foreground, a background and underlining.
ForeCode(f) == IF f < 8 THEN <<f + 30>> ELSE IF f < 16 THEN <<f + 82>> ELSE <<38, 5, f>>
BackCode(b) == IF b < 8 THEN <<b + 40>> ELSE IF b < 16 THEN <<b + 92>> ELSE <<48, 5, b>>
UnderCode(u) == IF u THEN <<4>> ELSE <<24>>

\* The terminal obeys one of them.
Obeys(s, code) ==
  LET n == code[1]
  IN  CASE n \in 30..37   -> [s EXCEPT !.fore = n - 30]
        [] n \in 90..97   -> [s EXCEPT !.fore = n - 82]
        [] n = 38         -> [s EXCEPT !.fore = code[3]]
        [] n \in 40..47   -> [s EXCEPT !.back = n - 40]
        [] n \in 100..107 -> [s EXCEPT !.back = n - 92]
        [] n = 48         -> [s EXCEPT !.back = code[3]]
        [] n \in {4, 24}  -> [s EXCEPT !.under = n = 4]
        [] OTHER          -> s

\* The sequence holds what is not as the last one set it.
Tell(s, was, is, code) == IF is # was THEN Obeys(s, code) ELSE s

\* Mutant: 8 is added.
IntenseAdds(n) == n + 8

\* "|= 8"
Intense(n) == IF (n \div 8) % 2 = 0 THEN n + 8 ELSE n

(***************************************************************************)
(* _set_ansi_color and _new_packet, over d = [shown, sgr, old].            *)
(***************************************************************************)

\* Mutant: reversed colours are sent, and the cache remembers the others.
SetAnsiColorSwapsLate(d, fore, back, under, reverse) ==
  LET ansi(n) == IF n < 16 THEN curstoansi(n) ELSE n
      f == IF reverse THEN ansi(back) ELSE ansi(fore)
      b == IF reverse THEN ansi(fore) ELSE ansi(back)
      s == Tell(d.sgr, d.old.fore, f, ForeCode(f))
      t == Tell(s, d.old.back, b, BackCode(b))
      u == Tell(t, d.old.under, under, UnderCode(under))
  IN  [d EXCEPT !.sgr = u,
                !.old = [fore |-> ansi(fore), back |-> ansi(back), under |-> under]]

\* Only what differs from the last sequence is sent.
SetAnsiColor(d, fore, back, under, reverse) ==
  LET ansi(n) == IF n < 16 THEN curstoansi(n) ELSE n
      f == IF reverse THEN ansi(back) ELSE ansi(fore)
      b == IF reverse THEN ansi(fore) ELSE ansi(back)
      s == Tell(d.sgr, d.old.fore, f, ForeCode(f))
      t == Tell(s, d.old.back, b, BackCode(b))
      u == Tell(t, d.old.under, under, UnderCode(under))
  IN  [d EXCEPT !.sgr = u,
                !.old = [fore |-> f, back |-> b, under |-> under]]

\* The console shows text from a cell on, in the given colours.
Put(shown_, line, x, text, fore, back, under) ==
  [cell \in Cells |->
     IF cell[1] = line /\ cell[2] \in x..x + Len(text) - 1
     THEN [ch |-> text[cell[2] - x + 1], fore |-> fore, back |-> back, under |-> under]
     ELSE shown_[cell]]

\* Text at the cursor, in the colours of the last sequence.  A terminal scrolls
\* when it is given a character for its last cell.
Write(d, line, x, text) ==
  LET color(n) == IF n \in 0..15 THEN ansitocurs(n) ELSE n
      there == Put(d.shown, line, x, text, color(d.sgr.fore), color(d.sgr.back), d.sgr.under)
      blank == [ch |-> Blank, fore |-> 7, back |-> 0, under |-> FALSE]
      full == line = Lines /\ x + Len(text) - 1 = Cols
  IN  [d EXCEPT !.shown = IF full
                THEN [c \in Cells |-> IF c[1] = Lines THEN blank ELSE there[<<c[1] + 1, c[2]>>]]
                ELSE there]

\* A packet, with the value of pdc_ansi.  A character of the line-drawing set
\* below the space cannot be given to Windows Terminal in a sequence.
OnePacket(d, ansi, on, off, attr, line, x, chars) ==
  LET blink == on /\ attr.blink
      text  == [i \in DOMAIN chars |-> IF blink /\ off THEN Blank ELSE chars[i]]
      under == attr.under /\ ~(blink /\ off)
      fore  == IF attr.bold THEN Intense(attr.fore) ELSE attr.fore
      back  == IF attr.blink /\ ~blink THEN Intense(attr.back) ELSE attr.back
      low   == terminal = "wt" /\ \E i \in DOMAIN chars : chars[i] = "low"
  IN  IF (ansi \/ attr.fore >= 16 \/ attr.back >= 16) /\ ~low
      THEN Write(SetAnsiColor(d, fore, back, under, attr.reverse), line, x, text)
      ELSE [d EXCEPT !.shown = IF attr.reverse
                               THEN Put(@, line, x, text, back, fore, under)
                               ELSE Put(@, line, x, text, fore, back, under)]

\* Mutant: the last cell is written like every other.
NewPacketToEnd(d, on, off, attr, line, x, chars) ==
  OnePacket(d, terminal # "console", on, off, attr, line, x, chars)

\* The last cell of the screen is written without sequences.
NewPacket(d, on, off, attr, line, x, chars) ==
  LET n == Len(chars)
      ansi == terminal # "console"
      rest == IF n = 1 THEN d ELSE OnePacket(d, TRUE, on, off, attr, line, x, Front(chars))
  IN  IF ansi /\ line = Lines /\ x + n - 1 = Cols
      THEN OnePacket(rest, FALSE, on, off, attr, line, x + n - 1, <<Last(chars)>>)
      ELSE OnePacket(d, ansi, on, off, attr, line, x, chars)

\* PDC_transform_line: from x on, a packet for each run of equal attributes.  Up to
\* the cell j, "out" is what the packets did, and the next one begins at "from".
TransformLine(d, on, off, line, x, cells) ==
  LET packet(e, i, j) == NewPacket(e, on, off, Attr(cells[i]), line, x + i - 1,
                                   [k \in 1..j - i + 1 |-> cells[i + k - 1].ch])
      scan[j \in 0..Len(cells)] ==
        IF j = 0 THEN [out |-> d, from |-> 1]
        ELSE LET s == scan[j - 1]
             IN  IF Attr(cells[j]) = Attr(cells[s.from]) THEN s
                 ELSE [out |-> packet(s.out, s.from, j - 1), from |-> j]
      end == scan[Len(cells)]
  IN  packet(end.out, end.from, Len(cells))

\* A line of curscr: each run of cells that blink is written again, when its last
\* cell is met.
BlinkLine(d, on, off, line) ==
  LET blink(c) == c <= Cols /\ curscr[<<line, c>>].blink
      run(e, i, j) == TransformLine(e, on, off, line, i,
                                    [k \in 1..j - i + 1 |-> curscr[<<line, i + k - 1>>]])
      scan[j \in 0..Cols] ==
        IF j = 0 THEN [out |-> d, from |-> 1]
        ELSE LET s == scan[j - 1]
             IN  IF ~blink(j) THEN [out |-> s.out, from |-> j + 1]
                 ELSE IF blink(j + 1) THEN s
                 ELSE [out |-> run(s.out, s.from, j), from |-> j + 1]
  IN  scan[Cols].out

\* PDC_blink_text: the lines, in order.
BlinkText(d, on, off) ==
  LET page[i \in 0..Lines] == IF i = 0 THEN d ELSE BlinkLine(page[i - 1], on, off, i)
  IN  page[Lines]

(***************************************************************************)
(* The program.                                                            *)
(***************************************************************************)
DisplayInit ==
  /\ terminal \in Terminals
  /\ curscr = [c \in Cells |-> Plain]
  /\ shown = [c \in Cells |-> [ch |-> Blank, fore |-> 7, back |-> 0, under |-> FALSE]]
  /\ sgr = [fore |-> 7, back |-> 0, under |-> FALSE]
  /\ old = [fore |-> -1, back |-> -1, under |-> FALSE]   \* _reset_old_colors
  /\ blinks = FALSE /\ blinked_off = FALSE /\ blinkSet = FALSE
  /\ \E c \in Cases : left = [updates |-> c[1], break |-> c[2]]

Display == [shown |-> shown, sgr |-> sgr, old |-> old]
Displays(d) == shown' = d.shown /\ sgr' = d.sgr /\ old' = d.old

\* doupdate: the cells of a line from x on that changed.  A colour from 16 on in the
\* last cell of the screen is left out: _new_packet sends it by a sequence on every
\* terminal, and the screen scrolls.
Draw(line, x, cells) ==
  LET end == x + Len(cells) - 1
  IN  /\ At("main", "open") /\ left.updates > 0
      /\ <<line, end>> = LastCell => Last(cells).fore < 16 /\ Last(cells).back < 16
      /\ curscr' = [c \in Cells |-> IF c[1] = line /\ c[2] \in x..end
                                    THEN cells[c[2] - x + 1] ELSE curscr[c]]
      /\ Displays(TransformLine(Display, blinks, blinked_off, line, x, cells))
      /\ left' = [left EXCEPT !.updates = @ - 1]
      /\ UNCHANGED <<screenVars, terminal, blinks, blinked_off, blinkSet>>

\* PDC_set_blink: turning it off writes the text that blinked again.
SetBlinkOn ==
  /\ At("main", "open") /\ ~blinks
  /\ blinks' = TRUE /\ blinkSet' = TRUE
  /\ UNCHANGED <<screenVars, terminal, curscr, shown, sgr, old, blinked_off, left>>

SetBlinkOff ==
  /\ BlinkHides /\ blinks
  /\ blinks' = FALSE /\ blinked_off' = FALSE
  /\ UNCHANGED <<terminal, curscr, shown, sgr, old, blinkSet, left>>

\* PDC_napms, half a second after the last blink.
Napms ==
  /\ BlinkHides /\ blinks
  /\ blinked_off' = ~blinked_off
  /\ UNCHANGED <<terminal, curscr, shown, sgr, old, blinks, blinkSet, left>>

\* PDC_blink_text, once the cursor is hidden.
Repaint ==
  /\ BlinkShows
  /\ Displays(BlinkText(Display, blinks, blinked_off))
  /\ blinkSet' = FALSE
  /\ UNCHANGED <<terminal, curscr, blinks, blinked_off, left>>

ScreenStep ==
  /\ \/ ScrOpen \/ ResetProgMode \/ MouseSet
     \/ \E v \in 0..2 : CursSet(v) \/ CursWasSet(v)
     \/ Reactivate \/ Endwin
     \/ \E t \in Threads : Closing(t)
  /\ UNCHANGED displayVars

Break ==
  /\ left.break /\ CtrlBreak
  /\ left' = [left EXCEPT !.break = FALSE]
  /\ UNCHANGED <<terminal, curscr, shown, sgr, old, blinks, blinked_off, blinkSet>>

Texts(n) == [1..n -> Styles]

Init == ScreenInit /\ DisplayInit

Next ==
  \/ ScreenStep \/ Break
  \/ \E c \in Cells : \E n \in 1..Cols - c[2] + 1 : \E t \in Texts(n) : Draw(c[1], c[2], t)
  \/ SetBlinkOn \/ SetBlinkOff \/ Napms \/ Repaint

Spec == Init /\ [][Next]_vars

(***************************************************************************)
(* Properties                                                              *)
(***************************************************************************)
\* The colours from 16 on that are drawn, and all that can be on the screen.
Extended == {n \in 16..255 : \E s \in Styles : n \in {s.fore, s.back}}
Colors == 0..15 \cup Extended \cup {Intense(n) : n \in Extended}

TypeOK ==
  /\ ScreenTypeOK
  /\ terminal \in Terminals
  /\ curscr \in [Cells -> Styles \cup {Plain}]
  /\ shown \in [Cells -> [ch : Characters, fore : Colors, back : Colors, under : BOOLEAN]]
  /\ sgr \in [fore : 0..255, back : 0..255, under : BOOLEAN]
  /\ old \in [fore : -1..255, back : -1..255, under : BOOLEAN]
  /\ blinks \in BOOLEAN /\ blinked_off \in BOOLEAN /\ blinkSet \in BOOLEAN
  /\ left \in [updates : Nat, break : BOOLEAN]

\* How a cell is to look, by itself.
LookAs(c, on, off) ==
  LET fore == IF c.bold THEN Intense(c.fore) ELSE c.fore
      back == IF c.blink /\ ~on THEN Intense(c.back) ELSE c.back
      gone == c.blink /\ on /\ off
  IN  [ch |-> IF gone THEN Blank ELSE c.ch,
       fore |-> IF c.reverse THEN back ELSE fore,
       back |-> IF c.reverse THEN fore ELSE back,
       under |-> c.under /\ ~gone]
Look(c) == LookAs(c, blinks, blinked_off)

\* Every cell shows the character, the colours and the line it is to have,
\* whatever was written before it, in which packet and by which of the two
\* ways, and when it blinks or ceases to blink.  Of a colour from 16 on in the last
\* cell of the screen, which would scroll it, nothing is claimed (Draw).
CellsAsAsked ==
  spc["main"] \notin {"hidden", "blink"} /\ ~blinkSet =>
    \A cell \in Cells : shown[cell] = Look(curscr[cell])

\* What the cache remembers is what the terminal was told last.
CacheSound ==
  /\ old.fore # -1 => old.fore = sgr.fore
  /\ old.back # -1 => old.back = sgr.back
  /\ old.under = sgr.under
=============================================================================
