---------------------------- MODULE ScreenProofs ----------------------------
(***************************************************************************)
(* The shell gets its console back, and the cursor is as curs_set left it, *)
(* for every mode of the shell, every size of the screen, every text.      *)
(*                                                                         *)
(* Display's steps are steps of Screen or leave it alone.  In Screen, what *)
(* PDC_scr_close has given back stays so because whatever the program does *)
(* afterwards is in "late"; and PDC_scr_close, which trusts SP->visibility, *)
(* may do so because the two agree except between the two steps of curs_set *)
(* and of PDC_blink_text (CursorKnown), where a handler that begins is in   *)
(* "late" too (Interrupted).                                               *)
(*                                                                         *)
(* And every cell shows what it was asked to, for every screen and all     *)
(* styles.  A step of drawing is a function from one picture to another:   *)
(* "Painted" says that on some cells it shows what a screen asks for, and  *)
(* elsewhere what it showed.  Packets paint their cells, so lines do, so   *)
(* the blinking does; Good is a picture whose cache is sound.              *)
(***************************************************************************)
EXTENDS Display, SequenceFacts

Between == {"visibility0", "visibility1", "visibility2", "hidden", "blink"}

\* SP->visibility says whether the cursor is visible, or the step the program is
\* at says it.
CursorKnown ==
  /\ spc["main"] \notin Between /\ visibility # 0 => cursor[con_out]
  /\ spc["main"] \notin Between /\ visibility = 0 => ~cursor[con_out]
  /\ spc["main"] = "visibility0" => ~cursor[con_out]
  /\ spc["main"] \in {"visibility1", "visibility2"} => cursor[con_out]
  /\ spc["main"] = "hidden" => visibility # 0
  /\ spc["main"] = "blink" => visibility = 0 /\ ~cursor[con_out]

\* The handler waits while the program has not begun, and nothing is late while
\* it waits; it has not begun between two steps without being late.
Interrupted ==
  /\ spc["main"] = "start" => spc["handler"] = "waiting"
  /\ spc["handler"] = "waiting" => late = {}
  /\ spc["handler"] # "waiting" /\ spc["main"] \in Between => "cursor" \in late
  /\ spc["main"] # "waiting" /\ spc["handler"] \in CloseSteps \cup {"waiting"}

\* What a thread has given back stays so.
GivenBack ==
  /\ spc["main"] = "start" => visibility = 1 /\ cursor["std"] /\ cursor["own"]
  /\ con_out # "std" => cursor["std"]
  /\ "cursor" \notin late => CursorKnown
  /\ \A t \in Threads :
       /\ spc[t] \in {"buffer", "mode", "closed", "ended"} /\ "cursor" \notin late => cursor["std"]
       /\ spc[t] \in {"mode", "closed", "ended"} /\ "buffer" \notin late => active = "std"
       /\ spc[t] \in {"closed", "ended"} /\ "mode" \notin late =>
            mode = old_mode \cup {"extended"}

IInv == ScreenTypeOK /\ Interrupted /\ GivenBack

LEMMA InitInv == ScreenInit => IInv
<1> SUFFICES ASSUME ScreenInit PROVE IInv
  OBVIOUS
<1>1. ScreenTypeOK
  BY ScreenAssumption DEF ScreenInit, ScreenTypeOK, Buffers, Threads, MainSteps, CloseSteps
<1>2. Interrupted
  BY DEF ScreenInit, Interrupted, Between, CloseSteps
<1>3. GivenBack
  BY DEF ScreenInit, GivenBack, CursorKnown, Between, Buffers, Threads
<1>4. QED
  BY <1>1, <1>2, <1>3 DEF IInv

LEMMA TypeInv == IInv /\ [ScreenNext]_screenVars => ScreenTypeOK'
<1> SUFFICES ASSUME IInv, [ScreenNext]_screenVars PROVE ScreenTypeOK'
  OBVIOUS
<1> USE DEF IInv, ScreenTypeOK, At, Goes, Touches, Threads, Buffers, MainSteps, CloseSteps
<1>1. CASE ScrOpen
  BY <1>1 DEF ScrOpen
<1>2. CASE ResetProgMode
  BY <1>2 DEF ResetProgMode
<1>3. CASE MouseSet
  BY <1>3 DEF MouseSet, ModeFlags
<1>4. ASSUME NEW v \in 0..2, CursSet(v) \/ CursWasSet(v) PROVE ScreenTypeOK'
  <2>1. VisibilityStep[v] \in {"visibility0", "visibility1", "visibility2"}
    BY DEF VisibilityStep
  <2>2. CASE CursSet(v)
    BY <2>1, <2>2 DEF CursSet
  <2>3. CASE CursWasSet(v)
    BY <2>3 DEF CursWasSet
  <2>4. QED
    BY <1>4, <2>2, <2>3
<1>5. CASE BlinkHides \/ BlinkShows
  <2>1. cursor' \in [Buffers -> BOOLEAN]
    <3>1. CASE BlinkHides
      BY <3>1 DEF BlinkHides
    <3>2. CASE BlinkShows
      BY <3>2 DEF BlinkShows
    <3>3. QED
      BY <1>5, <3>1, <3>2
  <2>2. spc' \in [Threads -> MainSteps \cup {"waiting"}]
    <3>1. CASE BlinkHides
      BY <3>1 DEF BlinkHides
    <3>2. CASE BlinkShows
      BY <3>2 DEF BlinkShows
    <3>3. QED
      BY <1>5, <3>1, <3>2
  <2>3. late' \in SUBSET {"buffer", "mode", "cursor"}
    BY <1>5 DEF BlinkHides, BlinkShows
  <2>4. QED
    BY <1>5, <2>1, <2>2, <2>3 DEF BlinkHides, BlinkShows
<1>6. CASE Reactivate \/ Endwin
  BY <1>6 DEF Reactivate, Endwin
<1>7. CASE CtrlBreak
  BY <1>7 DEF CtrlBreak
<1>8. ASSUME NEW t \in Threads, Closing(t) PROVE ScreenTypeOK'
  <2>1. CASE CloseCursor(t)
    <3>1. visibility' \in 0..2
      BY <2>1 DEF CloseCursor
    <3>2. cursor' \in [Buffers -> BOOLEAN]
      BY <2>1, Zenon DEF CloseCursor
    <3>3. spc' \in [Threads -> MainSteps \cup {"waiting"}]
      BY <2>1 DEF CloseCursor
    <3>4. QED
      BY <2>1, <3>1, <3>2, <3>3 DEF CloseCursor
  <2>2. CASE ResetShellMode(t)
    BY <2>2 DEF ResetShellMode
  <2>3. CASE ResetMode(t)
    BY <2>3 DEF ResetMode, ModeFlags
  <2>4. CASE End(t)
    <3>1. active' \in Buffers
      BY <2>4 DEF End
    <3>2. spc' \in [Threads -> MainSteps \cup {"waiting"}]
      BY <2>4 DEF End
    <3>3. QED
      BY <2>4, <3>1, <3>2 DEF End
  <2>5. QED
    BY <1>8, <2>1, <2>2, <2>3, <2>4 DEF Closing
<1>9. CASE UNCHANGED screenVars
  BY <1>9 DEF screenVars
<1>10. QED
  BY <1>1, <1>2, <1>3, <1>4, <1>5, <1>6, <1>7, <1>8, <1>9 DEF ScreenNext

LEMMA InterruptedInv == IInv /\ [ScreenNext]_screenVars => Interrupted'
<1> SUFFICES ASSUME IInv, [ScreenNext]_screenVars PROVE Interrupted'
  OBVIOUS
<1> USE DEF IInv, ScreenTypeOK, Interrupted, At, Goes, Touches, Threads, CloseSteps, Between
<1>1. CASE ScrOpen
  BY <1>1 DEF ScrOpen
<1>2. CASE ResetProgMode
  BY <1>2 DEF ResetProgMode
<1>3. CASE MouseSet
  BY <1>3 DEF MouseSet
<1>4. ASSUME NEW v \in 0..2, CursSet(v) \/ CursWasSet(v) PROVE Interrupted'
  BY <1>4 DEF CursSet, CursWasSet, VisibilityStep
<1>5. CASE BlinkHides \/ BlinkShows
  BY <1>5 DEF BlinkHides, BlinkShows
<1>6. CASE Reactivate \/ Endwin
  BY <1>6 DEF Reactivate, Endwin
<1>7. CASE CtrlBreak
  BY <1>7 DEF CtrlBreak, MainSteps
<1>8. ASSUME NEW t \in Threads, Closing(t) PROVE Interrupted'
  <2>1. CASE CloseCursor(t)
    BY <2>1 DEF CloseCursor
  <2>2. CASE ResetShellMode(t)
    BY <2>2 DEF ResetShellMode
  <2>3. CASE ResetMode(t)
    BY <2>3 DEF ResetMode
  <2>4. CASE End(t)
    BY <2>4 DEF End
  <2>5. QED
    BY <1>8, <2>1, <2>2, <2>3, <2>4 DEF Closing
<1>9. CASE UNCHANGED screenVars
  BY <1>9 DEF screenVars
<1>10. QED
  BY <1>1, <1>2, <1>3, <1>4, <1>5, <1>6, <1>7, <1>8, <1>9 DEF ScreenNext

LEMMA GivenBackInv == IInv /\ [ScreenNext]_screenVars => GivenBack'
<1> SUFFICES ASSUME IInv, [ScreenNext]_screenVars PROVE GivenBack'
  OBVIOUS
<1> USE DEF IInv, ScreenTypeOK, Interrupted, GivenBack, CursorKnown, At, Goes, Touches, Threads,
            Buffers, CloseSteps, Between
<1>1. CASE ScrOpen
  BY <1>1 DEF ScrOpen
<1>2. CASE ResetProgMode
  BY <1>2 DEF ResetProgMode
<1>3. CASE MouseSet
  BY <1>3 DEF MouseSet
<1>4. ASSUME NEW v \in 0..2, CursSet(v) PROVE GivenBack'
  BY <1>4 DEF CursSet, VisibilityStep
<1>5. ASSUME NEW v \in 0..2, CursWasSet(v) PROVE GivenBack'
  BY <1>5 DEF CursWasSet, VisibilityStep
<1>6. CASE BlinkHides
  BY <1>6 DEF BlinkHides
<1>7. CASE BlinkShows
  BY <1>7 DEF BlinkShows
<1>8. CASE Reactivate
  BY <1>8 DEF Reactivate
<1>9. CASE Endwin
  BY <1>9 DEF Endwin
<1>10. CASE CtrlBreak
  BY <1>10 DEF CtrlBreak
<1>11. ASSUME NEW t \in Threads, CloseCursor(t) PROVE GivenBack'
  BY <1>11 DEF CloseCursor
<1>12. ASSUME NEW t \in Threads, ResetShellMode(t) PROVE GivenBack'
  BY <1>12 DEF ResetShellMode
<1>13. ASSUME NEW t \in Threads, ResetMode(t) PROVE GivenBack'
  BY <1>13 DEF ResetMode
<1>14. ASSUME NEW t \in Threads, End(t) PROVE GivenBack'
  BY <1>14 DEF End
<1>15. CASE UNCHANGED screenVars
  BY <1>15 DEF screenVars
<1>16. QED
  BY <1>1, <1>2, <1>3, <1>4, <1>5, <1>6, <1>7, <1>8, <1>9, <1>10, <1>11, <1>12, <1>13, <1>14,
     <1>15 DEF ScreenNext, Closing

LEMMA NextInv == IInv /\ [ScreenNext]_screenVars => IInv'
BY TypeInv, InterruptedInv, GivenBackInv DEF IInv

LEMMA InvImplies == IInv => ScreenTypeOK /\ ShellRestored /\ CursorAsSet
<1> SUFFICES ASSUME IInv PROVE ScreenTypeOK /\ ShellRestored /\ CursorAsSet
  OBVIOUS
<1>1. ShellRestored
  BY DEF IInv, GivenBack, ShellRestored, Threads
<1>2. CursorAsSet
  <2> SUFFICES ASSUME spc = [main |-> "open", handler |-> "waiting"]
               PROVE cursor[con_out] <=> visibility # 0
    BY DEF CursorAsSet
  <2>1. spc["main"] = "open" /\ spc["handler"] = "waiting"
    OBVIOUS
  <2>2. late = {}
    BY <2>1 DEF IInv, Interrupted
  <2>3. QED
    BY <2>1, <2>2 DEF IInv, GivenBack, CursorKnown, Between
<1>3. QED
  BY <1>1, <1>2 DEF IInv

(***************************************************************************)
(* The console of a program that draws.                                    *)
(***************************************************************************)
LEMMA StepIsScreenStep == [Next]_vars => [ScreenNext]_screenVars
<1> SUFFICES ASSUME [Next]_vars PROVE [ScreenNext]_screenVars
  OBVIOUS
<1>1. CASE ScreenStep \/ Break
  BY <1>1 DEF ScreenStep, Break, ScreenNext
<1>2. ASSUME NEW line, NEW x, NEW cells, Draw(line, x, cells)
      PROVE UNCHANGED screenVars
  BY <1>2 DEF Draw
<1>3. CASE SetBlinkOn
  BY <1>3 DEF SetBlinkOn
<1>4. CASE SetBlinkOff \/ Napms \/ Repaint
  BY <1>4 DEF SetBlinkOff, Napms, Repaint, ScreenNext
<1>5. CASE UNCHANGED vars
  BY <1>5 DEF vars
<1>6. QED
  BY <1>1, <1>2, <1>3, <1>4, <1>5 DEF Next

\* What PDCurses does with the console while it draws is what Screen allows.
THEOREM DisplayImplementsScreen == Spec => ScreenSpec
BY StepIsScreenStep, PTL DEF Spec, ScreenSpec, Init

LEMMA ScreenInvariant == Spec => []IInv
<1>1. ScreenSpec => []IInv
  BY InitInv, NextInv, PTL DEF ScreenSpec
<1>2. QED
  BY <1>1, DisplayImplementsScreen

\* PDC_scr_close gives the shell its buffer, its mode and its cursor back, run
\* by the program, by the handler of Ctrl+Break or by both.
THEOREM ShellIsRestored == Spec => []ShellRestored
BY ScreenInvariant, InvImplies, PTL

\* PDC_blink_text leaves the cursor as PDC_curs_set made it.
THEOREM CursorIsAsSet == Spec => []CursorAsSet
BY ScreenInvariant, InvImplies, PTL

(***************************************************************************)
(* Colours and escape sequences.                                           *)
(***************************************************************************)

\* The table of colours and its inverse.
LEMMA AnsiTable ==
  ASSUME NEW c \in 0..15
  PROVE  curstoansi(c) \in 0..15 /\ ansitocurs(curstoansi(c)) = c
<1>1. \E n \in 0..15 : ansitocurs(n) = c
  <2>1. /\ ansitocurs(0) = 0 /\ ansitocurs(4) = 1 /\ ansitocurs(2) = 2 /\ ansitocurs(6) = 3
        /\ ansitocurs(1) = 4 /\ ansitocurs(5) = 5 /\ ansitocurs(3) = 6 /\ ansitocurs(7) = 7
    BY DEF ansitocurs
  <2>2. /\ ansitocurs(8) = 8 /\ ansitocurs(12) = 9 /\ ansitocurs(10) = 10 /\ ansitocurs(14) = 11
        /\ ansitocurs(9) = 12 /\ ansitocurs(13) = 13 /\ ansitocurs(11) = 14 /\ ansitocurs(15) = 15
    BY DEF ansitocurs
  <2>3. c \in {0, 1, 2, 3, 4, 5, 6, 7, 8, 9, 10, 11, 12, 13, 14, 15}
    OBVIOUS
  <2> HIDE DEF ansitocurs
  <2>4. QED
    BY <2>1, <2>2, <2>3
<1> QED
  BY <1>1 DEF curstoansi

\* The number of a colour in a sequence, and the colour of such a number.
Ansi(n) == IF n < 16 THEN curstoansi(n) ELSE n
Color(n) == IF n \in 0..15 THEN ansitocurs(n) ELSE n

LEMMA AnsiAndBack ==
  ASSUME NEW n \in 0..255
  PROVE  Ansi(n) \in 0..255 /\ Color(Ansi(n)) = n
BY AnsiTable DEF Ansi, Color

Sgr == [fore : 0..255, back : 0..255, under : BOOLEAN]
Old == [fore : -1..255, back : -1..255, under : BOOLEAN]
Glyph == [ch : Characters, fore : Colors, back : Colors, under : BOOLEAN]

\* What a parameter sets.
LEMMA ObeysFore ==
  ASSUME NEW s \in Sgr, NEW f \in 0..255
  PROVE  LET t == Obeys(s, ForeCode(f))
         IN  t \in Sgr /\ t.fore = f /\ t.back = s.back /\ (t.under <=> s.under)
<1>1. LET t == [s EXCEPT !.fore = f]
      IN  t \in Sgr /\ t.fore = f /\ t.back = s.back /\ (t.under <=> s.under)
  BY DEF Sgr
<1>2. Obeys(s, ForeCode(f)) = [s EXCEPT !.fore = f]
  <2>1. CASE f < 8
    <3>1. ForeCode(f)[1] = f + 30 /\ f + 30 \in 30..37 /\ (f + 30) - 30 = f
      BY <2>1 DEF ForeCode
    <3>2. QED
      BY <3>1 DEF Obeys
  <2>2. CASE f >= 8 /\ f < 16
    <3>1. ForeCode(f)[1] = f + 82 /\ f + 82 \in 90..97 /\ (f + 82) - 82 = f
      BY <2>2 DEF ForeCode
    <3>2. QED
      BY <3>1 DEF Obeys
  <2>3. CASE f >= 16
    <3>1. ForeCode(f)[1] = 38 /\ ForeCode(f)[3] = f
      BY <2>3 DEF ForeCode
    <3>2. QED
      BY <3>1 DEF Obeys
  <2>4. QED
    BY <2>1, <2>2, <2>3
<1> QED
  BY <1>1, <1>2

LEMMA ObeysBack ==
  ASSUME NEW s \in Sgr, NEW b \in 0..255
  PROVE  LET t == Obeys(s, BackCode(b))
         IN  t \in Sgr /\ t.back = b /\ t.fore = s.fore /\ (t.under <=> s.under)
<1>1. LET t == [s EXCEPT !.back = b]
      IN  t \in Sgr /\ t.back = b /\ t.fore = s.fore /\ (t.under <=> s.under)
  BY DEF Sgr
<1>2. Obeys(s, BackCode(b)) = [s EXCEPT !.back = b]
  <2>1. CASE b < 8
    <3>1. BackCode(b)[1] = b + 40 /\ b + 40 \in 40..47 /\ (b + 40) - 40 = b
      BY <2>1 DEF BackCode
    <3>2. QED
      BY <3>1 DEF Obeys
  <2>2. CASE b >= 8 /\ b < 16
    <3>1. BackCode(b)[1] = b + 92 /\ b + 92 \in 100..107 /\ (b + 92) - 92 = b
      BY <2>2 DEF BackCode
    <3>2. QED
      BY <3>1 DEF Obeys
  <2>3. CASE b >= 16
    <3>1. BackCode(b)[1] = 48 /\ BackCode(b)[3] = b
      BY <2>3 DEF BackCode
    <3>2. QED
      BY <3>1 DEF Obeys
  <2>4. QED
    BY <2>1, <2>2, <2>3
<1> QED
  BY <1>1, <1>2

LEMMA ObeysUnder ==
  ASSUME NEW s \in Sgr, NEW u \in BOOLEAN
  PROVE  LET t == Obeys(s, UnderCode(u))
         IN  t \in Sgr /\ (t.under <=> u) /\ t.fore = s.fore /\ t.back = s.back
<1>1. \A v \in BOOLEAN : LET t == [s EXCEPT !.under = v]
                         IN  t \in Sgr /\ (t.under <=> v) /\ t.fore = s.fore /\ t.back = s.back
  BY DEF Sgr
<1>2. CASE u
  <2>1. UnderCode(u)[1] = 4
    BY <1>2 DEF UnderCode
  <2>2. Obeys(s, UnderCode(u)) = [s EXCEPT !.under = (4 = 4)]
    BY <2>1 DEF Obeys
  <2>3. QED
    BY <1>1, <1>2, <2>2
<1>3. CASE ~u
  <2>1. UnderCode(u)[1] = 24
    BY <1>3 DEF UnderCode
  <2>2. Obeys(s, UnderCode(u)) = [s EXCEPT !.under = (24 = 4)]
    BY <2>1 DEF Obeys
  <2>3. QED
    BY <1>1, <1>3, <2>2
<1> QED
  BY <1>2, <1>3

\* A picture on the console: what is shown, the last sequences, and the cache of them.
Good == {d \in [shown : [Cells -> Glyph], sgr : Sgr, old : Old] :
           /\ d.old.fore # -1 => d.old.fore = d.sgr.fore
           /\ d.old.back # -1 => d.old.back = d.sgr.back
           /\ d.old.under <=> d.sgr.under}

LEMMA ToldFore ==
  ASSUME NEW s \in Sgr, NEW f \in 0..255, NEW o \in -1..255, o # -1 => o = s.fore
  PROVE  LET t == Tell(s, o, f, ForeCode(f))
         IN  t \in Sgr /\ t.fore = f /\ t.back = s.back /\ (t.under <=> s.under)
<1>1. CASE f # o
  BY <1>1, ObeysFore DEF Tell
<1>2. CASE f = o
  BY <1>2 DEF Tell
<1> QED
  BY <1>1, <1>2

LEMMA ToldBack ==
  ASSUME NEW s \in Sgr, NEW b \in 0..255, NEW o \in -1..255, o # -1 => o = s.back
  PROVE  LET t == Tell(s, o, b, BackCode(b))
         IN  t \in Sgr /\ t.back = b /\ t.fore = s.fore /\ (t.under <=> s.under)
<1>1. CASE b # o
  BY <1>1, ObeysBack DEF Tell
<1>2. CASE b = o
  BY <1>2 DEF Tell
<1> QED
  BY <1>1, <1>2

LEMMA ToldUnder ==
  ASSUME NEW s \in Sgr, NEW u \in BOOLEAN, NEW o \in BOOLEAN, o <=> s.under
  PROVE  LET t == Tell(s, o, u, UnderCode(u))
         IN  t \in Sgr /\ (t.under <=> u) /\ t.fore = s.fore /\ t.back = s.back
<1>1. CASE u # o
  BY <1>1, ObeysUnder DEF Tell
<1>2. CASE u = o
  BY <1>2 DEF Tell
<1> QED
  BY <1>1, <1>2

\* What SetAnsiColor leaves.
ColorIsSet(d, g, fore, back, under) ==
  /\ g \in Good /\ g.shown = d.shown
  /\ Color(g.sgr.fore) = fore /\ Color(g.sgr.back) = back /\ (g.sgr.under <=> under)

LEMMA SetAnsiColorSets ==
  ASSUME NEW d \in Good, NEW fore \in 0..255, NEW back \in 0..255, NEW under \in BOOLEAN,
         NEW reverse \in BOOLEAN
  PROVE  ColorIsSet(d, SetAnsiColor(d, fore, back, under, reverse),
                    IF reverse THEN back ELSE fore, IF reverse THEN fore ELSE back, under)
<1> DEFINE f == IF reverse THEN Ansi(back) ELSE Ansi(fore)
           b == IF reverse THEN Ansi(fore) ELSE Ansi(back)
           s == Tell(d.sgr, d.old.fore, f, ForeCode(f))
           t == Tell(s, d.old.back, b, BackCode(b))
           u == Tell(t, d.old.under, under, UnderCode(under))
           g == [d EXCEPT !.sgr = u, !.old = [fore |-> f, back |-> b, under |-> under]]
<1>1. SetAnsiColor(d, fore, back, under, reverse) = g
  BY Zenon DEF SetAnsiColor, Ansi
<1>2. /\ f \in 0..255 /\ Color(f) = IF reverse THEN back ELSE fore
      /\ b \in 0..255 /\ Color(b) = IF reverse THEN fore ELSE back
  BY AnsiAndBack
<1>3. /\ d.sgr \in Sgr /\ d.old.fore \in -1..255 /\ d.old.back \in -1..255 /\ d.old.under \in BOOLEAN
      /\ d.old.fore # -1 => d.old.fore = d.sgr.fore
      /\ d.old.back # -1 => d.old.back = d.sgr.back
      /\ d.old.under <=> d.sgr.under
  BY DEF Good, Old
<1> HIDE DEF f, b
<1>4. s \in Sgr /\ s.fore = f /\ s.back = d.sgr.back /\ (s.under <=> d.sgr.under)
  <2>1. PICK o \in -1..255 : o = d.old.fore
    BY <1>3
  <2>2. PICK q \in Sgr : q = d.sgr
    BY <1>3
  <2>3. o # -1 => o = q.fore
    BY <1>3, <2>1, <2>2
  <2>4. PICK h \in 0..255 : h = f
    BY <1>2
  <2>5. LET r == Tell(q, o, h, ForeCode(h))
        IN  r \in Sgr /\ r.fore = h /\ r.back = q.back /\ (r.under <=> q.under)
    BY <2>3, ToldFore
  <2>6. QED
    BY <2>1, <2>2, <2>4, <2>5
<1> HIDE DEF s
<1>5. t \in Sgr /\ t.fore = f /\ t.back = b /\ (t.under <=> d.sgr.under)
  <2>1. PICK o \in -1..255 : o = d.old.back
    BY <1>3
  <2>2. PICK q \in Sgr : q = s
    BY <1>4
  <2>3. o # -1 => o = q.back
    BY <1>3, <1>4, <2>1, <2>2
  <2>4. PICK h \in 0..255 : h = b
    BY <1>2
  <2>5. LET r == Tell(q, o, h, BackCode(h))
        IN  r \in Sgr /\ r.back = h /\ r.fore = q.fore /\ (r.under <=> q.under)
    BY <2>3, ToldBack
  <2>6. QED
    BY <1>4, <2>1, <2>2, <2>4, <2>5
<1> HIDE DEF t
<1>6. u \in Sgr /\ u.fore = f /\ u.back = b /\ (u.under <=> under)
  BY <1>3, <1>5, ToldUnder
<1> HIDE DEF u
<1>7. g.sgr = u /\ g.old = [fore |-> f, back |-> b, under |-> under] /\ g.shown = d.shown
  BY DEF Good
<1>8. g.old \in Old /\ g.old.fore = f /\ g.old.back = b /\ (g.old.under <=> under)
  BY <1>2, <1>7 DEF Old
<1>9. g \in [shown : [Cells -> Glyph], sgr : Sgr, old : Old]
  BY <1>6, <1>7, <1>8 DEF Good
<1> HIDE DEF g
<1>10. g \in Good
  BY <1>6, <1>7, <1>8, <1>9 DEF Good
<1> QED
  BY <1>1, <1>2, <1>6, <1>7, <1>10 DEF ColorIsSet

(***************************************************************************)
(* Colours and cells.                                                      *)
(***************************************************************************)
Drawn == Styles \cup {Plain}

LEMMA DrawnAreCells == Drawn \subseteq Cell
<1>1. Plain \in Cell
  BY DisplayAssumption DEF Plain, Cell
<1> QED
  BY <1>1, DisplayAssumption DEF Drawn

LEMMA IntenseType ==
  /\ \A n \in 0..255 : Intense(n) \in 0..255
  /\ \A n \in 0..15 : Intense(n) \in 0..15
<1>1. \A n \in 0..255 : Intense(n) \in 0..255
  BY DEF Intense
<1>2. \A n \in 0..15 : Intense(n) \in 0..15
  BY DEF Intense
<1> QED
  BY <1>1, <1>2

LEMMA ColorsAre ==
  /\ Colors \subseteq 0..255
  /\ \A n \in 0..15 \cup Extended : n \in Colors /\ Intense(n) \in Colors
<1>1. Extended \subseteq 0..255
  BY DEF Extended
<1>2. \A n \in Extended : n \in 0..255 /\ Intense(n) \in 0..255
  BY <1>1, IntenseType
<1>3. \A n \in 0..15 : Intense(n) \in 0..15
  BY IntenseType, Zenon
<1>4. Colors \subseteq 0..255
  <2>1. \A n \in 0..15 : n \in 0..255
    OBVIOUS
  <2>2. \A c \in Colors : c \in 0..15 \/ c \in Extended \/ \E n \in Extended : c = Intense(n)
    BY DEF Colors
  <2>3. ASSUME NEW c \in Colors
        PROVE  c \in 0..255
    <3>1. CASE c \in 0..15
      BY <2>1, <3>1, Zenon
    <3>2. CASE c \in Extended
      BY <1>2, <3>2, Zenon
    <3>3. CASE \E n \in Extended : c = Intense(n)
      BY <1>2, <3>3, Zenon
    <3>4. QED
      BY <2>2, <3>1, <3>2, <3>3, Zenon
  <2>4. QED
    BY <2>3, Zenon
<1>5. \A n \in Extended : n \in Colors /\ Intense(n) \in Colors
  BY DEF Colors
<1>6. \A n \in 0..15 : n \in Colors /\ Intense(n) \in Colors
  BY <1>3 DEF Colors
<1> QED
  BY <1>4, <1>5, <1>6

LEMMA DrawnColors ==
  ASSUME NEW c \in Drawn
  PROVE  c.fore \in 0..15 \cup Extended /\ c.back \in 0..15 \cup Extended
<1>1. CASE c \in Styles
  <2>1. c.fore \in 0..255 /\ c.back \in 0..255
    BY DrawnAreCells DEF Cell
  <2>2. QED
    BY <1>1, <2>1 DEF Extended
<1>2. CASE c = Plain
  BY <1>2 DEF Plain
<1> QED
  BY <1>1, <1>2 DEF Drawn

LEMMA GlyphEqual ==
  ASSUME NEW g \in Glyph, NEW h \in Glyph, g.ch = h.ch, g.fore = h.fore, g.back = h.back,
         g.under <=> h.under
  PROVE  g = h
BY DEF Glyph

LEMMA GlyphMade ==
  ASSUME NEW ch \in Characters, NEW f \in Colors, NEW b \in Colors, NEW u \in BOOLEAN
  PROVE  LET g == [ch |-> ch, fore |-> f, back |-> b, under |-> u]
         IN  g \in Glyph /\ g.ch = ch /\ g.fore = f /\ g.back = b /\ (g.under <=> u)
BY DEF Glyph

\* The colours a packet is written in, before they are reversed.
Fore(c) == IF c.bold THEN Intense(c.fore) ELSE c.fore
Back(c, on) == IF c.blink /\ ~on THEN Intense(c.back) ELSE c.back
Gone(c, on, off) == c.blink /\ on /\ off

LEMMA ColorsOfDrawn ==
  ASSUME NEW c \in Drawn, NEW on
  PROVE  Fore(c) \in Colors /\ Back(c, on) \in Colors
<1>1. c.fore \in Colors /\ Intense(c.fore) \in Colors
  BY DrawnColors, ColorsAre
<1>2. c.back \in Colors /\ Intense(c.back) \in Colors
  BY DrawnColors, ColorsAre
<1>3. Fore(c) \in Colors
  BY <1>1 DEF Fore
<1>4. Back(c, on) \in Colors
  BY <1>2 DEF Back
<1>5. QED
  BY <1>3, <1>4

LEMMA LookIs ==
  ASSUME NEW c \in Drawn, NEW on \in BOOLEAN, NEW off \in BOOLEAN
  PROVE  LET g == LookAs(c, on, off)
         IN  /\ g \in Glyph
             /\ g.ch = IF Gone(c, on, off) THEN Blank ELSE c.ch
             /\ g.fore = IF c.reverse THEN Back(c, on) ELSE Fore(c)
             /\ g.back = IF c.reverse THEN Fore(c) ELSE Back(c, on)
             /\ g.under <=> c.under /\ ~Gone(c, on, off)
<1> DEFINE ch == IF Gone(c, on, off) THEN Blank ELSE c.ch
           f == IF c.reverse THEN Back(c, on) ELSE Fore(c)
           b == IF c.reverse THEN Fore(c) ELSE Back(c, on)
           u == c.under /\ ~Gone(c, on, off)
<1>1. c.ch \in Characters /\ c.under \in BOOLEAN
  BY DrawnAreCells DEF Cell
<1>2. Fore(c) \in Colors /\ Back(c, on) \in Colors
  BY ColorsOfDrawn
<1>3. ch \in Characters /\ f \in Colors /\ b \in Colors /\ u \in BOOLEAN
  <2>1. ch \in Characters
    BY <1>1, DisplayAssumption
  <2>2. f \in Colors /\ b \in Colors
    BY <1>2
  <2>3. u \in BOOLEAN
    OBVIOUS
  <2>4. QED
    BY <2>1, <2>2, <2>3
<1>4. LookAs(c, on, off) = [ch |-> ch, fore |-> f, back |-> b, under |-> u]
  BY Zenon DEF LookAs, Gone, Fore, Back
<1> HIDE DEF ch, f, b, u
<1>5. LET g == [ch |-> ch, fore |-> f, back |-> b, under |-> u]
      IN  g \in Glyph /\ g.ch = ch /\ g.fore = f /\ g.back = b /\ (g.under <=> u)
  BY <1>3, GlyphMade
<1> QED
  BY <1>4, <1>5 DEF ch, f, b, u

\* The attributes of a cell are its own.
LEMMA AttrIs ==
  ASSUME NEW c \in Cell
  PROVE  LET a == Attr(c)
         IN  /\ a \in Cell /\ a.fore = c.fore /\ a.back = c.back
             /\ (a.under <=> c.under) /\ (a.bold <=> c.bold) /\ (a.blink <=> c.blink)
             /\ (a.reverse <=> c.reverse)
BY DisplayAssumption DEF Attr, Cell

(***************************************************************************)
(* Packets.                                                                *)
(***************************************************************************)

\* The cells of a line from one column to another.
Strip(line, a, b) == {c \in Cells : c[1] = line /\ c[2] \in a..b}

\* On the cells S e shows what W asks for, and elsewhere what d shows.
Painted(d, e, S, W, on, off) ==
  /\ e \in Good
  /\ e.shown = [c \in Cells |-> IF c \in S THEN LookAs(W[c], on, off) ELSE d.shown[c]]

LEMMA PaintedTwice ==
  ASSUME NEW d, NEW e, NEW f, NEW S, NEW T, NEW W, NEW on, NEW off,
         Painted(d, e, S, W, on, off), Painted(e, f, T, W, on, off)
  PROVE  Painted(d, f, S \cup T, W, on, off)
<1>1. \A c \in Cells : f.shown[c] = IF c \in T THEN LookAs(W[c], on, off)
                                    ELSE IF c \in S THEN LookAs(W[c], on, off) ELSE d.shown[c]
  BY DEF Painted
<1>2. f.shown = [c \in Cells |-> f.shown[c]]
  BY DEF Painted, Good
<1>3. [c \in Cells |-> f.shown[c]] =
        [c \in Cells |-> IF c \in S \cup T THEN LookAs(W[c], on, off) ELSE d.shown[c]]
  BY <1>1
<1> QED
  BY <1>2, <1>3 DEF Painted

LEMMA PaintedNone ==
  ASSUME NEW d \in Good, NEW W, NEW on, NEW off
  PROVE  Painted(d, d, {}, W, on, off)
<1>1. d.shown = [c \in Cells |-> d.shown[c]]
  BY DEF Good
<1> QED
  BY <1>1 DEF Painted

\* n characters for a line from x on, all with the attributes of W there.
Run(line, x, n, attr, chars, W) ==
  /\ line \in 1..Lines /\ x \in 1..Cols /\ n \in Nat \ {0} /\ x + n - 1 <= Cols
  /\ chars \in Seq(Characters) /\ Len(chars) = n
  /\ W \in [Cells -> Drawn] /\ attr \in Cell
  /\ \A c \in Strip(line, x, x + n - 1) : attr = Attr(W[c]) /\ chars[c[2] - x + 1] = W[c].ch

\* The text of a packet looks as each of its cells is to look.
LEMMA PacketLooks ==
  ASSUME NEW line, NEW x, NEW n, NEW attr, NEW chars, NEW W, Run(line, x, n, attr, chars, W),
         NEW on \in BOOLEAN, NEW off \in BOOLEAN, NEW c \in Strip(line, x, x + n - 1), NEW text,
         text = [i \in DOMAIN chars |-> IF (on /\ attr.blink) /\ off THEN Blank ELSE chars[i]],
         NEW u \in BOOLEAN, u <=> attr.under /\ ~((on /\ attr.blink) /\ off)
  PROVE  LookAs(W[c], on, off) =
           [ch |-> text[c[2] - x + 1],
            fore |-> IF attr.reverse THEN Back(attr, on) ELSE Fore(attr),
            back |-> IF attr.reverse THEN Fore(attr) ELSE Back(attr, on),
            under |-> u]
<1> DEFINE w == W[c]
           i == c[2] - x + 1
           f == IF attr.reverse THEN Back(attr, on) ELSE Fore(attr)
           b == IF attr.reverse THEN Fore(attr) ELSE Back(attr, on)
<1>1. w \in Drawn /\ w \in Cell /\ attr = Attr(w) /\ chars[i] = w.ch /\ w.ch \in Characters
  BY DrawnAreCells DEF Run, Strip, Cell
<1>2. /\ attr.fore = w.fore /\ attr.back = w.back /\ (attr.under <=> w.under)
      /\ (attr.bold <=> w.bold) /\ (attr.blink <=> w.blink) /\ (attr.reverse <=> w.reverse)
  BY <1>1, AttrIs
<1>3. i \in DOMAIN chars
  <2>1. Len(chars) = n /\ n \in Nat /\ DOMAIN chars = 1..n /\ x \in Int
    BY LenProperties DEF Run
  <2>2. c[2] \in x..x + n - 1 /\ c[2] \in Int
    BY <2>1 DEF Strip
  <2>3. QED
    BY <2>1, <2>2
<1> HIDE DEF i
<1>4. Fore(attr) = Fore(w) /\ Back(attr, on) = Back(w, on) /\ (Gone(w, on, off) <=> (on /\ attr.blink) /\ off)
  BY <1>2 DEF Fore, Back, Gone
<1>5. text[i] = IF Gone(w, on, off) THEN Blank ELSE w.ch
  <2>1. text[i] = IF (on /\ attr.blink) /\ off THEN Blank ELSE chars[i]
    BY <1>3
  <2>2. QED
    BY <1>1, <1>4, <2>1
<1>6. Fore(w) \in Colors /\ Back(w, on) \in Colors
  BY <1>1, ColorsOfDrawn
<1>7. text[i] \in Characters /\ f \in Colors /\ b \in Colors
  BY <1>1, <1>4, <1>5, <1>6, DisplayAssumption
<1>8. PICK g \in Glyph : /\ g = LookAs(w, on, off)
                         /\ g.ch = IF Gone(w, on, off) THEN Blank ELSE w.ch
                         /\ g.fore = IF w.reverse THEN Back(w, on) ELSE Fore(w)
                         /\ g.back = IF w.reverse THEN Fore(w) ELSE Back(w, on)
                         /\ g.under <=> w.under /\ ~Gone(w, on, off)
  BY <1>1, LookIs
<1>9. f = IF w.reverse THEN Back(w, on) ELSE Fore(w)
  BY <1>2, <1>4
<1>10. b = IF w.reverse THEN Fore(w) ELSE Back(w, on)
  BY <1>2, <1>4
<1> HIDE DEF f, b, w
<1>11. PICK h \in Glyph : /\ h = [ch |-> text[i], fore |-> f, back |-> b, under |-> u]
                          /\ h.ch = text[i] /\ h.fore = f /\ h.back = b /\ (h.under <=> u)
  BY <1>7, GlyphMade
<1>12. g.under <=> h.under
  BY <1>2, <1>4, <1>8, <1>11
<1>13. g = h
  BY <1>5, <1>8, <1>9, <1>10, <1>11, <1>12, GlyphEqual
<1> QED
  BY <1>8, <1>11, <1>13 DEF f, b, w, i

\* Text of the length of a packet.
LEMMA TextLen ==
  ASSUME NEW line, NEW x, NEW n, NEW attr, NEW chars, NEW W, Run(line, x, n, attr, chars, W),
         NEW text, text = [i \in DOMAIN chars |-> text[i]],
         \A i \in DOMAIN chars : text[i] \in {Blank, chars[i]}
  PROVE  Len(text) = n /\ n \in Nat /\ x \in Int
<1>1. Len(chars) = n /\ n \in Nat /\ DOMAIN chars = 1..n /\ x \in Int
  BY LenProperties DEF Run
<1>2. \A i \in 1..n : chars[i] \in Characters
  BY <1>1, ElementOfSeq DEF Run
<1>3. text \in [1..n -> Characters]
  BY <1>1, <1>2, DisplayAssumption
<1>4. text \in Seq(Characters) /\ DOMAIN text = 1..n
  BY <1>1, <1>3
<1> QED
  BY <1>1, <1>4, LenProperties

\* A packet written in one of the two ways shows what its cells are to show.
LEMMA PutPaints ==
  ASSUME NEW d \in Good, NEW e \in Good, NEW line, NEW x, NEW n, NEW attr, NEW chars, NEW W,
         Run(line, x, n, attr, chars, W), NEW on \in BOOLEAN, NEW off \in BOOLEAN, NEW text,
         text = [i \in DOMAIN chars |-> IF (on /\ attr.blink) /\ off THEN Blank ELSE chars[i]],
         NEW u \in BOOLEAN, u <=> attr.under /\ ~((on /\ attr.blink) /\ off),
         NEW fore, fore = IF attr.reverse THEN Back(attr, on) ELSE Fore(attr),
         NEW back, back = IF attr.reverse THEN Fore(attr) ELSE Back(attr, on)
  PROVE  LET p == Put(d.shown, line, x, text, fore, back, u)
             f == [e EXCEPT !.shown = p]
         IN  Painted(d, f, Strip(line, x, x + n - 1), W, on, off)
<1> DEFINE look == [c \in Cells |-> LookAs(W[c], on, off)]
           S == Strip(line, x, x + n - 1)
           p == Put(d.shown, line, x, text, fore, back, u)
           f == [e EXCEPT !.shown = p]
<1>1. \A c \in Cells : W[c] \in Drawn
  BY DEF Run
<1>2. look \in [Cells -> Glyph]
  BY <1>1, LookIs
<1>3. attr \in Cell /\ attr.blink \in BOOLEAN
  BY DEF Run, Cell
<1>4. Len(text) = n /\ n \in Nat /\ x \in Int
  BY <1>3, TextLen, SMT
<1>5. \A c \in S : LookAs(W[c], on, off) = [ch |-> text[c[2] - x + 1], fore |-> fore, back |-> back,
                                            under |-> u]
  BY PacketLooks
<1>6. \A c \in S : c \in Cells
  BY DEF Strip
<1>7. \A c \in S : look[c] = [ch |-> text[c[2] - x + 1], fore |-> fore, back |-> back, under |-> u]
  BY <1>5, <1>6
<1>8. d.shown \in [Cells -> Glyph]
  BY DEF Good
<1> HIDE DEF look
<1>9. p = [c \in Cells |-> IF c \in S THEN look[c] ELSE d.shown[c]]
  <2>1. S = Strip(line, x, x + Len(text) - 1)
    BY <1>4
  <2>2. PICK s : s = d.shown
    OBVIOUS
  <2>3. PICK T : T = S
    OBVIOUS
  <2>4. \A c \in T : look[c] = [ch |-> text[c[2] - x + 1], fore |-> fore, back |-> back, under |-> u]
    BY <1>7, <2>3
  <2>5. T = Strip(line, x, x + Len(text) - 1)
    BY <2>1, <2>3
  <2> HIDE DEF S
  <2>6. Put(s, line, x, text, fore, back, u) =
          [c \in Cells |->
             IF c \in T
             THEN [ch |-> text[c[2] - x + 1], fore |-> fore, back |-> back, under |-> u]
             ELSE s[c]]
    BY <2>5, Zenon DEF Put, Strip
  <2>7. Put(s, line, x, text, fore, back, u) = [c \in Cells |-> IF c \in T THEN look[c] ELSE s[c]]
    BY <2>4, <2>6, ZenonT(60)
  <2>8. p = Put(s, line, x, text, fore, back, u)
    BY <2>2
  <2> HIDE DEF p
  <2>9. QED
    BY <2>2, <2>3, <2>7, <2>8, Zenon
<1> HIDE DEF p, S
<1>10. p \in [Cells -> Glyph]
  BY <1>2, <1>8, <1>9
<1>11. f \in Good /\ f.shown = p
  BY <1>10 DEF Good
<1>12. p = [c \in Cells |-> IF c \in S THEN LookAs(W[c], on, off) ELSE d.shown[c]]
  BY <1>9 DEF look
<1>13. Painted(d, f, S, W, on, off)
  BY <1>11, <1>12 DEF Painted
<1> QED
  BY <1>13 DEF f, p, S

LEMMA OnePacketPaints ==
  ASSUME NEW d \in Good, NEW line, NEW x, NEW n, NEW attr, NEW chars, NEW W,
         Run(line, x, n, attr, chars, W), NEW on \in BOOLEAN, NEW off \in BOOLEAN,
         NEW ansi \in BOOLEAN,
         line = Lines /\ x + n - 1 = Cols => ~ansi /\ attr.fore < 16 /\ attr.back < 16
  PROVE  Painted(d, OnePacket(d, ansi, on, off, attr, line, x, chars), Strip(line, x, x + n - 1),
                 W, on, off)
<1> DEFINE blink == on /\ attr.blink
           text == [i \in DOMAIN chars |-> IF blink /\ off THEN Blank ELSE chars[i]]
           under == attr.under /\ ~(blink /\ off)
           fore == Fore(attr)
           back == Back(attr, on)
           low == terminal = "wt" /\ \E i \in DOMAIN chars : chars[i] = "low"
           ff == IF attr.reverse THEN back ELSE fore
           bb == IF attr.reverse THEN fore ELSE back
           g == SetAnsiColor(d, fore, back, under, attr.reverse)
           written == Write(g, line, x, text)
           putted == [d EXCEPT !.shown = IF attr.reverse
                                         THEN Put(@, line, x, text, back, fore, under)
                                         ELSE Put(@, line, x, text, fore, back, under)]
           sequence == (ansi \/ attr.fore >= 16 \/ attr.back >= 16) /\ ~low
<1>1. /\ attr.blink \in BOOLEAN /\ attr.under \in BOOLEAN /\ attr.reverse \in BOOLEAN
      /\ attr.bold \in BOOLEAN /\ attr.fore \in 0..255 /\ attr.back \in 0..255
  BY DEF Run, Cell
<1>2. attr.blink /\ ~blink <=> attr.blink /\ ~on
  BY <1>1
<1>3. OnePacket(d, ansi, on, off, attr, line, x, chars) = IF sequence THEN written ELSE putted
  BY <1>2, ZenonT(60) DEF OnePacket, Fore, Back
<1>4. under \in BOOLEAN /\ fore \in 0..255 /\ back \in 0..255
  BY <1>1, IntenseType, ZenonT(60) DEF Fore, Back
<1>5. Len(text) = n /\ n \in Nat /\ x \in Int
  <2>1. text = [i \in DOMAIN chars |-> text[i]] /\ \A i \in DOMAIN chars : text[i] \in {Blank, chars[i]}
    OBVIOUS
  <2> HIDE DEF text
  <2>2. QED
    BY <2>1, TextLen
<1>6. /\ text = [i \in DOMAIN chars |-> IF (on /\ attr.blink) /\ off THEN Blank ELSE chars[i]]
      /\ ff = IF attr.reverse THEN Back(attr, on) ELSE Fore(attr)
      /\ bb = IF attr.reverse THEN Fore(attr) ELSE Back(attr, on)
  OBVIOUS
<1>7. CASE sequence
  <2>1. ColorIsSet(d, g, ff, bb, under)
    BY <1>1, <1>4, SetAnsiColorSets, ZenonT(60)
  <2>2. /\ g \in Good /\ g.shown = d.shown /\ Color(g.sgr.fore) = ff /\ Color(g.sgr.back) = bb
        /\ (g.sgr.under <=> under)
    BY <2>1 DEF ColorIsSet
  <2>3. g.sgr.under \in BOOLEAN
    BY <2>2 DEF Good, Sgr
  <2>4. ~(line = Lines /\ x + Len(text) - 1 = Cols)
    <3> HIDE DEF text, low
    <3>1. ansi \/ attr.fore >= 16 \/ attr.back >= 16
      BY <1>7
    <3>2. ~(line = Lines /\ x + n - 1 = Cols)
      BY <1>1, <3>1
    <3>3. QED
      BY <1>5, <3>2
  <2> DEFINE p == Put(d.shown, line, x, text, ff, bb, g.sgr.under)
  <2>5. Write(g, line, x, text) = [g EXCEPT !.shown = p]
    <3> HIDE DEF g, text, ff, bb
    <3>1. Write(g, line, x, text) =
            [g EXCEPT !.shown = Put(g.shown, line, x, text, Color(g.sgr.fore), Color(g.sgr.back),
                                    g.sgr.under)]
      BY <2>4, Zenon DEF Write, Color
    <3>2. QED
      BY <2>2, <3>1
  <2>6. Painted(d, [g EXCEPT !.shown = p], Strip(line, x, x + n - 1), W, on, off)
    <3>1. PICK u \in BOOLEAN : u = g.sgr.under
      BY <2>3
    <3>2. u <=> attr.under /\ ~((on /\ attr.blink) /\ off)
      BY <2>2, <3>1
    <3> HIDE DEF g, text, ff, bb
    <3>3. Painted(d, [g EXCEPT !.shown = Put(d.shown, line, x, text, ff, bb, u)],
                  Strip(line, x, x + n - 1), W, on, off)
      BY <1>6, <2>2, <3>2, PutPaints
    <3>4. QED
      BY <3>1, <3>3
  <2>7. QED
    BY <1>3, <1>7, <2>5, <2>6
<1>8. CASE ~sequence
  <2> DEFINE p == Put(d.shown, line, x, text, ff, bb, under)
  <2>1. putted = [d EXCEPT !.shown = p]
    BY Zenon
  <2>2. Painted(d, [d EXCEPT !.shown = p], Strip(line, x, x + n - 1), W, on, off)
    <3>1. PICK u \in BOOLEAN : u = under
      BY <1>4
    <3>2. u <=> attr.under /\ ~((on /\ attr.blink) /\ off)
      BY <3>1
    <3> HIDE DEF text, ff, bb
    <3>3. Painted(d, [d EXCEPT !.shown = Put(d.shown, line, x, text, ff, bb, u)],
                  Strip(line, x, x + n - 1), W, on, off)
      BY <1>6, <3>2, PutPaints
    <3>4. QED
      BY <3>1, <3>3
  <2>3. QED
    BY <1>3, <1>8, <2>1, <2>2
<1> QED
  BY <1>7, <1>8

LEMMA NewPacketPaints ==
  ASSUME NEW d \in Good, NEW line, NEW x, NEW n, NEW attr, NEW chars, NEW W,
         Run(line, x, n, attr, chars, W), NEW on \in BOOLEAN, NEW off \in BOOLEAN,
         NEW last, last = x + n - 1,
         line = Lines /\ last = Cols => attr.fore < 16 /\ attr.back < 16
  PROVE  Painted(d, NewPacket(d, on, off, attr, line, x, chars), Strip(line, x, last), W, on, off)
<1>1. /\ Len(chars) = n /\ n \in Nat \ {0} /\ x \in 1..Cols /\ last \in 1..Cols
      /\ chars \in Seq(Characters)
  BY DisplayAssumption DEF Run
<1>2. PICK ansi \in BOOLEAN : ansi <=> terminal # "console"
  OBVIOUS
<1>3. CASE ansi /\ line = Lines /\ last = Cols
  <2> DEFINE rest == IF n = 1 THEN d ELSE OnePacket(d, TRUE, on, off, attr, line, x, Front(chars))
  <2>1. NewPacket(d, on, off, attr, line, x, chars) =
          OnePacket(rest, FALSE, on, off, attr, line, last, <<Last(chars)>>)
    <3>1. x + Len(chars) - 1 = last
      BY <1>1
    <3>2. QED
      BY <1>1, <1>2, <1>3, <3>1, Zenon DEF NewPacket
  <2>2. PICK m \in Nat : m = n - 1
    BY <1>1
  <2>3. Painted(d, rest, {c \in Strip(line, x, last) : c[2] # last}, W, on, off)
    <3>1. CASE n = 1
      <4>1. {c \in Strip(line, x, last) : c[2] # last} = {}
        BY <1>1, <3>1 DEF Strip
      <4>2. QED
        BY <3>1, <4>1, PaintedNone
    <3>2. CASE n # 1
      <4>1. /\ Front(chars) \in Seq(Characters) /\ Len(Front(chars)) = m
            /\ \A i \in 1..m : Front(chars)[i] = chars[i]
        BY <1>1, <2>2, <3>2 DEF Front
      <4>2. PICK front : front = Front(chars)
        OBVIOUS
      <4>3. PICK y \in Int : y = x + m - 1
        BY <1>1
      <4>4. {c \in Strip(line, x, last) : c[2] # last} = Strip(line, x, y)
        BY <1>1, <2>2, <4>3 DEF Strip
      <4>5. Run(line, x, m, attr, front, W)
        <5>1. \A c \in Strip(line, x, y) : attr = Attr(W[c]) /\ front[c[2] - x + 1] = W[c].ch
          <6>1. ASSUME NEW c \in Strip(line, x, y)
                PROVE  attr = Attr(W[c]) /\ front[c[2] - x + 1] = W[c].ch
            <7>1. c \in Strip(line, x, x + n - 1)
              BY <1>1, <2>2, <4>3 DEF Strip
            <7>2. c[2] - x + 1 \in 1..m
              BY <1>1, <2>2, <4>3 DEF Strip
            <7>3. QED
              BY <4>1, <4>2, <7>1, <7>2 DEF Run
          <6>2. QED
            BY <6>1
        <5>2. m \in Nat \ {0} /\ x + m - 1 <= Cols
          BY <1>1, <2>2, <3>2, DisplayAssumption
        <5>3. QED
          BY <4>1, <4>2, <4>3, <5>1, <5>2 DEF Run
      <4>6. ~(line = Lines /\ x + m - 1 = Cols)
        BY <1>1, <2>2
      <4>7. Painted(d, OnePacket(d, TRUE, on, off, attr, line, x, front), Strip(line, x, x + m - 1),
                    W, on, off)
        BY <4>5, <4>6, OnePacketPaints, ZenonT(60)
      <4>8. QED
        BY <3>2, <4>2, <4>3, <4>4, <4>7
    <3>3. QED
      BY <3>1, <3>2
  <2> HIDE DEF rest
  <2>4. rest \in Good
    BY <2>3 DEF Painted
  <2>5. PICK tail : tail = <<Last(chars)>>
    OBVIOUS
  <2>6. Run(line, last, 1, attr, tail, W)
    <3>1. last - x + 1 = n /\ n \in 1..Len(chars) /\ Last(chars) = chars[n]
      BY <1>1 DEF Last
    <3>2. chars[n] \in Characters
      BY <1>1, <3>1, ElementOfSeq
    <3>3. tail = <<chars[n]>> /\ tail \in Seq(Characters) /\ Len(tail) = 1 /\ tail[1] = chars[n]
      BY <2>5, <3>1, <3>2
    <3>4. ASSUME NEW c \in Strip(line, last, last + 1 - 1)
          PROVE  attr = Attr(W[c]) /\ tail[c[2] - last + 1] = W[c].ch
      <4>1. c \in Strip(line, x, x + n - 1) /\ c[2] = last /\ c[2] - last + 1 = 1 /\ c[2] - x + 1 = n
        BY <1>1, <3>1 DEF Strip
      <4>2. attr = Attr(W[c]) /\ chars[c[2] - x + 1] = W[c].ch
        BY <4>1 DEF Run
      <4>3. QED
        BY <3>3, <4>1, <4>2
    <3>5. last + 1 - 1 <= Cols
      BY <1>1
    <3>6. QED
      BY <1>1, <3>3, <3>4, <3>5 DEF Run
  <2>7. Painted(rest, OnePacket(rest, FALSE, on, off, attr, line, last, tail),
                Strip(line, last, last + 1 - 1), W, on, off)
    <3>1. line = Lines /\ last + 1 - 1 = Cols => ~FALSE /\ attr.fore < 16 /\ attr.back < 16
      BY <1>3
    <3>2. PICK e \in Good : e = rest
      BY <2>4
    <3>3. PICK no \in BOOLEAN : no = FALSE
      OBVIOUS
    <3>4. PICK one : one = 1
      OBVIOUS
    <3>5. Painted(e, OnePacket(e, no, on, off, attr, line, last, tail),
                  Strip(line, last, last + one - 1), W, on, off)
      <4>1. Run(line, last, one, attr, tail, W)
        BY <2>6, <3>4
      <4>2. line = Lines /\ last + one - 1 = Cols => ~no /\ attr.fore < 16 /\ attr.back < 16
        BY <3>1, <3>3, <3>4
      <4>3. QED
        BY <4>1, <4>2, OnePacketPaints
    <3>6. QED
      BY <3>2, <3>3, <3>4, <3>5
  <2>8. {c \in Strip(line, x, last) : c[2] # last} \cup Strip(line, last, last + 1 - 1) =
          Strip(line, x, last)
    BY <1>1 DEF Strip
  <2>9. Painted(d, OnePacket(rest, FALSE, on, off, attr, line, last, tail), Strip(line, x, last),
                W, on, off)
    <3>1. PICK S : S = {c \in Strip(line, x, last) : c[2] # last}
      OBVIOUS
    <3>2. PICK T : T = Strip(line, last, last + 1 - 1)
      OBVIOUS
    <3>3. PICK f : f = OnePacket(rest, FALSE, on, off, attr, line, last, tail)
      OBVIOUS
    <3>4. Painted(d, rest, S, W, on, off) /\ Painted(rest, f, T, W, on, off)
      BY <2>3, <2>7, <3>1, <3>2, <3>3
    <3>5. Painted(d, f, S \cup T, W, on, off)
      BY <3>4, PaintedTwice
    <3>6. QED
      BY <2>8, <3>1, <3>2, <3>3, <3>5
  <2>10. QED
    BY <2>1, <2>5, <2>9
<1>4. CASE ~(ansi /\ line = Lines /\ last = Cols)
  <2>1. NewPacket(d, on, off, attr, line, x, chars) = OnePacket(d, ansi, on, off, attr, line, x, chars)
    <3>1. x + Len(chars) - 1 = last
      BY <1>1
    <3>2. PICK t : t <=> terminal # "console"
      BY <1>2
    <3>3. ansi = (terminal # "console")
      BY <1>2
    <3>4. QED
      BY <1>4, <3>1, <3>3, Zenon DEF NewPacket
  <2>2. line = Lines /\ x + n - 1 = Cols => ~ansi /\ attr.fore < 16 /\ attr.back < 16
    BY <1>4
  <2>3. Painted(d, OnePacket(d, ansi, on, off, attr, line, x, chars), Strip(line, x, x + n - 1),
                W, on, off)
    BY <2>2, OnePacketPaints
  <2>4. QED
    BY <2>1, <2>3
<1> QED
  BY <1>3, <1>4


(***************************************************************************)
(* Lines.                                                                  *)
(***************************************************************************)

\* The cells of a line from x to last, as W asks for them; what the last cell of the
\* screen asks for needs no sequence.
Row(line, x, last, cells, W) ==
  /\ line \in 1..Lines /\ x \in 1..Cols /\ last \in x..Cols
  /\ cells \in Seq(Drawn) /\ Len(cells) = last - x + 1
  /\ W \in [Cells -> Drawn]
  /\ \A c \in Strip(line, x, last) : W[c] = cells[c[2] - x + 1]
  /\ line = Lines /\ last = Cols => W[LastCell].fore < 16 /\ W[LastCell].back < 16

\* The packet of the cells i to j.
Packet(d, on, off, line, x, cells, i, j) ==
  NewPacket(d, on, off, Attr(cells[i]), line, x + i - 1, [k \in 1..j - i + 1 |-> cells[i + k - 1].ch])

LEMMA PacketPaints ==
  ASSUME NEW d \in Good, NEW line, NEW x, NEW last, NEW cells, NEW W, Row(line, x, last, cells, W),
         NEW on \in BOOLEAN, NEW off \in BOOLEAN,
         NEW i \in 1..Len(cells), NEW j \in i..Len(cells),
         \A k \in i..j : Attr(cells[k]) = Attr(cells[i]),
         NEW y, y = x + i - 1, NEW z, z = x + j - 1
  PROVE  Painted(d, Packet(d, on, off, line, x, cells, i, j), Strip(line, y, z), W, on, off)
<1>1. /\ x \in 1..Cols /\ last \in x..Cols /\ Cols \in Nat \ {0} /\ line \in 1..Lines
      /\ Len(cells) = last - x + 1 /\ i \in Nat /\ j \in Nat
      /\ cells \in Seq(Drawn) /\ W \in [Cells -> Drawn]
  BY DisplayAssumption DEF Row
<1>2. \A k \in 1..Len(cells) : cells[k] \in Drawn /\ cells[k] \in Cell
  BY <1>1, ElementOfSeq, DrawnAreCells
<1>3. PICK attr \in Cell : attr = Attr(cells[i])
  BY <1>2, AttrIs
<1>4. PICK n \in Nat \ {0} : n = j - i + 1
  BY <1>1
<1>5. PICK chars \in Seq(Characters) : /\ chars = [k \in 1..j - i + 1 |-> cells[i + k - 1].ch]
                                       /\ Len(chars) = n
                                       /\ \A k \in 1..n : chars[k] = cells[i + k - 1].ch
  <2> DEFINE s == [k \in 1..n |-> cells[i + k - 1].ch]
  <2>1. \A k \in 1..n : cells[i + k - 1].ch \in Characters
    <3>1. ASSUME NEW k \in 1..n PROVE cells[i + k - 1].ch \in Characters
      <4>1. i + k - 1 \in 1..Len(cells)
        BY <1>1, <1>4
      <4>2. QED
        BY <1>2, <4>1 DEF Cell
    <3>2. QED
      BY <3>1
  <2>2. s \in [1..n -> Characters]
    BY <2>1
  <2>3. \A k \in 1..n : s[k] = cells[i + k - 1].ch
    OBVIOUS
  <2>4. s \in Seq(Characters) /\ DOMAIN s = 1..n
    <3> HIDE DEF s
    <3>1. QED
      BY <2>2
  <2>5. s = [k \in 1..j - i + 1 |-> cells[i + k - 1].ch]
    BY <1>4
  <2> HIDE DEF s
  <2>6. Len(s) = n
    BY <2>4, LenProperties
  <2>7. QED
    BY <2>4, <2>5, <2>6, <2>3
<1>6. y \in 1..Cols /\ z \in y..Cols /\ z = y + n - 1 /\ z <= last
  BY <1>1, <1>4
<1>7. \A c \in Strip(line, y, y + n - 1) : attr = Attr(W[c]) /\ chars[c[2] - y + 1] = W[c].ch
  <2>1. ASSUME NEW c \in Strip(line, y, y + n - 1)
        PROVE  attr = Attr(W[c]) /\ chars[c[2] - y + 1] = W[c].ch
    <3>1. c \in Cells /\ c[1] = line /\ c[2] \in y..z /\ c[2] \in 1..Cols
      BY <1>6 DEF Strip, Cells
    <3>2. c[2] \in x..last
      BY <1>1, <1>6, <3>1
    <3>3. c[2] - x + 1 \in i..j /\ c[2] - y + 1 \in 1..n /\ i + (c[2] - y + 1) - 1 = c[2] - x + 1
      <4>1. PICK k \in Nat : k = c[2]
        BY <3>1
      <4>2. k \in y..z /\ x \in Nat /\ i \in Nat /\ j \in Nat /\ n \in Nat /\ y \in Nat /\ z \in Int
        BY <1>1, <1>6, <3>1, <4>1
      <4>3. k - x + 1 \in i..j /\ k - y + 1 \in 1..n /\ i + (k - y + 1) - 1 = k - x + 1
        BY <1>4, <4>2
      <4>4. QED
        BY <4>1, <4>3
    <3>4. c \in Strip(line, x, last) /\ c[2] - x + 1 \in i..j /\ c[2] - y + 1 \in 1..n
          /\ i + (c[2] - y + 1) - 1 = c[2] - x + 1
      BY <3>1, <3>2, <3>3 DEF Strip
    <3>5. W[c] = cells[c[2] - x + 1]
      BY <3>4 DEF Row
    <3>6. chars[c[2] - y + 1] = cells[i + (c[2] - y + 1) - 1].ch
      BY <1>5, <3>4
    <3>7. Attr(cells[c[2] - x + 1]) = Attr(cells[i])
      BY <3>4
    <3>8. QED
      BY <1>3, <3>4, <3>5, <3>6, <3>7
  <2>2. QED
    BY <2>1
<1>8. Run(line, y, n, attr, chars, W)
  <2>1. y + n - 1 <= Cols
    BY <1>6
  <2>2. QED
    BY <1>1, <1>5, <1>6, <1>7, <2>1, Zenon DEF Run
<1>9. line = Lines /\ z = Cols => attr.fore < 16 /\ attr.back < 16
  <2>1. SUFFICES ASSUME line = Lines, z = Cols PROVE attr.fore < 16 /\ attr.back < 16
    OBVIOUS
  <2>2. last = Cols /\ j = Len(cells) /\ Cols - x + 1 = j
    BY <1>1, <1>6, <2>1
  <2>3. LastCell \in Strip(line, x, last) /\ LastCell[2] = Cols
    BY <1>1, <2>1, <2>2, DisplayAssumption DEF Strip, LastCell, Cells
  <2>4. W[LastCell] = cells[j]
    BY <2>2, <2>3 DEF Row
  <2>5. cells[j].fore < 16 /\ cells[j].back < 16
    BY <2>1, <2>2, <2>4 DEF Row
  <2>6. cells[j] \in Cell /\ attr = Attr(cells[j])
    BY <1>1, <1>2, <1>3
  <2>7. attr.fore = cells[j].fore /\ attr.back = cells[j].back
    BY <2>6, AttrIs
  <2>8. QED
    BY <2>5, <2>7
<1>10. Painted(d, NewPacket(d, on, off, attr, line, y, chars), Strip(line, y, z), W, on, off)
  BY <1>6, <1>8, <1>9, NewPacketPaints
<1>11. Packet(d, on, off, line, x, cells, i, j) = NewPacket(d, on, off, attr, line, y, chars)
  BY <1>3, <1>5, Zenon DEF Packet
<1> QED
  BY <1>10, <1>11

\* The cells of a strip before its m-th.
Before(line, x, last, m) == {c \in Strip(line, x, last) : c[2] - x + 1 < m}

LEMMA TransformLinePaints ==
  ASSUME NEW d \in Good, NEW line, NEW x, NEW last, NEW cells, NEW W, Row(line, x, last, cells, W),
         NEW on \in BOOLEAN, NEW off \in BOOLEAN
  PROVE  Painted(d, TransformLine(d, on, off, line, x, cells), Strip(line, x, last), W, on, off)
<1>1. PICK n \in Nat \ {0} : n = Len(cells) /\ n = last - x + 1
  BY DisplayAssumption DEF Row
<1> DEFINE packet(e, i, j) == Packet(e, on, off, line, x, cells, i, j)
           first == [out |-> d, from |-> 1]
           next(v, j) == IF Attr(cells[j]) = Attr(cells[v.from]) THEN v
                         ELSE [out |-> packet(v.out, v.from, j - 1), from |-> j]
           rec(f, m) == [j \in 0..m |-> IF j = 0 THEN first ELSE next(f[j - 1], j)]
           whole(m) == CHOOSE f : f = rec(f, m)
           body(f) == rec(f, n)
           scan == whole(n)
           V == [out : Good, from : 1..n]
           G == [p \in (1..n) \X V |-> next(p[2], p[1])]
           Till(m) == Before(line, x, last, m)
           I == [j \in 0..n |->
                   {v \in V : /\ v.from <= j \/ (j = 0 /\ v.from = 1)
                              /\ Painted(d, v.out, Till(v.from), W, on, off)
                              /\ \A k \in v.from..j : Attr(cells[k]) = Attr(cells[v.from])}]
<1>2. TransformLine(d, on, off, line, x, cells) = packet(scan[n].out, scan[n].from, n)
  <2> DEFINE m == Len(cells)
  <2>1. TransformLine(d, on, off, line, x, cells) = packet(whole(m)[m].out, whole(m)[m].from, m)
    BY Zenon DEF TransformLine, Packet
  <2> HIDE DEF packet, whole
  <2>2. QED
    BY <1>1, <2>1
<1>3. x \in 1..Cols /\ last \in x..Cols /\ Cols \in Nat
  BY DisplayAssumption DEF Row
<1> HIDE DEF packet
<1>4. \A j \in 1..n, v \in V : G[<<j, v>>] = next(v, j)
  OBVIOUS
<1>5. ASSUME NEW i \in 0..n, NEW j \in 1..n, j = i + 1, NEW v \in I[i]
      PROVE  next(v, j) \in I[j]
  <2>1. /\ v \in V /\ v.from \in 1..n /\ v.out \in Good
        /\ v.from <= i \/ (i = 0 /\ v.from = 1)
        /\ Painted(d, v.out, Till(v.from), W, on, off)
        /\ \A k \in v.from..i : Attr(cells[k]) = Attr(cells[v.from])
    OBVIOUS
  <2>2. CASE Attr(cells[j]) = Attr(cells[v.from])
    <3>1. v.from <= j /\ \A k \in v.from..j : Attr(cells[k]) = Attr(cells[v.from])
      BY <1>5, <2>1, <2>2
    <3>2. v \in I[j]
      BY <2>1, <3>1
    <3>3. QED
      BY <2>2, <3>2
  <2>3. CASE Attr(cells[j]) # Attr(cells[v.from])
    <3>1. i \in 1..n /\ v.from \in 1..i /\ j - 1 = i
      BY <1>5, <2>1, <2>3
    <3>2. PICK a \in 1..n : a = v.from
      BY <2>1
    <3>3. PICK e \in Good : e = v.out
      BY <2>1
    <3>4. PICK y \in Int : y = x + a - 1
      BY <1>3
    <3>5. PICK z \in Int : z = x + i - 1
      BY <1>3
    <3>6. Painted(e, packet(e, a, i), Strip(line, y, z), W, on, off)
      <4>1. a \in 1..Len(cells) /\ i \in a..Len(cells) /\ \A k \in a..i : Attr(cells[k]) = Attr(cells[a])
        BY <1>1, <2>1, <3>1, <3>2
      <4>2. QED
        BY <3>4, <3>5, <4>1, PacketPaints DEF packet
    <3>7. Till(j) = Till(a) \cup Strip(line, y, z)
      BY <1>1, <1>3, <1>5, <3>1, <3>2, <3>4, <3>5 DEF Before, Strip
    <3> DEFINE w == [out |-> packet(e, a, i), from |-> j]
    <3>8. next(v, j) = w
      BY <2>3, <3>1, <3>2, <3>3
    <3>9. Painted(d, packet(e, a, i), Till(j), W, on, off)
      <4>1. PICK S : S = Till(a)
        OBVIOUS
      <4>2. PICK T : T = Strip(line, y, z)
        OBVIOUS
      <4>3. PICK f : f = packet(e, a, i)
        OBVIOUS
      <4>4. Painted(d, e, S, W, on, off) /\ Painted(e, f, T, W, on, off)
        BY <2>1, <3>2, <3>3, <3>6, <4>1, <4>2, <4>3
      <4>5. Painted(d, f, S \cup T, W, on, off)
        BY <4>4, PaintedTwice
      <4>6. QED
        BY <3>7, <4>1, <4>2, <4>3, <4>5
    <3>10. w.out \in Good /\ w.from = j /\ w.out = packet(e, a, i)
      BY <3>9 DEF Painted
    <3>11. w \in V
      BY <3>10
    <3>12. Painted(d, w.out, Till(w.from), W, on, off)
      BY <3>9, <3>10
    <3>13. \A k \in w.from..j : Attr(cells[k]) = Attr(cells[w.from])
      BY <3>10
    <3> HIDE DEF w
    <3>14. w \in I[j]
      BY <3>10, <3>11, <3>12, <3>13
    <3>15. QED
      BY <3>8, <3>14
  <2>4. QED
    BY <2>2, <2>3
<1>6. Invariant(I, n, G, V)
  <2>1. \A i \in 0..n : I[i] \subseteq V
    OBVIOUS
  <2>2. ASSUME NEW i \in 0..n, NEW j \in 1..n, j = i + 1, NEW v \in I[i] PROVE G[<<j, v>>] \in I[j]
    <3>1. v \in V
      BY <2>1, <2>2
    <3>2. G[<<j, v>>] = next(v, j)
      BY <1>4, <3>1
    <3>3. next(v, j) \in I[j]
      <4> HIDE DEF I, next
      <4>1. QED
        BY <1>5, <2>2
    <3>4. QED
      BY <3>2, <3>3
  <2> HIDE DEF I, G, V
  <2>3. QED
    BY <2>1, <2>2 DEF Invariant
<1>7. first \in I[0]
  <2>1. first \in V /\ first.from = 1 /\ first.out = d
    BY <1>1
  <2>2. Till(1) = {}
    BY <1>3 DEF Before, Strip
  <2>3. Painted(d, first.out, Till(first.from), W, on, off)
    <3>1. Painted(d, d, {}, W, on, off)
      BY PaintedNone
    <3>2. QED
      BY <2>1, <2>2, <3>1
  <2>4. \A k \in first.from..0 : Attr(cells[k]) = Attr(cells[first.from])
    BY <2>1
  <2> HIDE DEF first
  <2>5. QED
    BY <2>1, <2>3, <2>4
<1> HIDE DEF I
<1>8. \E f : f = body(f)
  <2> HIDE DEF G, V, first
  <2>1. PICK f \in [0..n -> V] : f[0] = first /\ Steps(f, n, G, V)
    BY <1>6, <1>7, RecursionIn
  <2>2. \A j \in 0..n : f[j] = IF j = 0 THEN first ELSE next(f[j - 1], j)
    <3>1. ASSUME NEW j \in 1..n PROVE f[j] = next(f[j - 1], j)
      <4>1. PICK i \in 0..n : j = i + 1 /\ j - 1 = i
        BY <3>1
      <4>2. f[i] \in V
        BY <2>1
      <4>3. f[j] = G[<<j, f[i]>>]
        BY <2>1, <4>1, <4>2 DEF Steps
      <4>4. f[j] = next(f[i], j)
        BY <1>4, <4>2, <4>3
      <4>5. QED
        BY <4>1, <4>4
    <3> HIDE DEF next
    <3>2. QED
      BY <2>1, <3>1
  <2> HIDE DEF next
  <2>3. f = body(f)
    BY <2>1, <2>2
  <2>4. QED
    BY <2>3
<1>9. scan = body(scan)
  <2> HIDE DEF next, first
  <2>1. QED
    BY <1>8, Zenon
<1> HIDE DEF scan
<1>10. scan[0] = first /\ \A j \in 1..n : scan[j] = next(scan[j - 1], j)
  <2> HIDE DEF next, first
  <2>1. QED
    BY <1>9
<1>11. Steps(scan, n, G, V)
  <2>1. ASSUME NEW i \in 0..n, NEW j \in 1..n, j = i + 1, scan[i] \in V PROVE scan[j] = G[<<j, scan[i]>>]
    <3>1. G[<<j, scan[i]>>] = next(scan[i], j)
      BY <1>4, <2>1
    <3> HIDE DEF next
    <3>2. scan[j] = next(scan[i], j)
      BY <1>10, <2>1
    <3>3. QED
      BY <3>1, <3>2
  <2> HIDE DEF G, V
  <2>2. QED
    BY <2>1 DEF Steps
<1>12. scan[n] \in I[n]
  <2> HIDE DEF G, V, first
  <2>1. \A i \in 0..n : scan[i] \in I[i]
    BY <1>6, <1>7, <1>10, <1>11, InvariantHolds
  <2>2. QED
    BY <2>1
<1>13. PICK a \in 1..n : a = scan[n].from
  BY <1>12 DEF I
<1>14. PICK e \in Good : e = scan[n].out
  BY <1>12 DEF I
<1>15. Painted(d, e, Till(a), W, on, off) /\ \A k \in a..n : Attr(cells[k]) = Attr(cells[a])
  BY <1>1, <1>12, <1>13, <1>14 DEF I
<1>16. PICK y \in Int : y = x + a - 1
  BY <1>3
<1>17. Painted(e, packet(e, a, n), Strip(line, y, last), W, on, off)
  <2>1. a \in 1..Len(cells) /\ n \in a..Len(cells) /\ last = x + n - 1
    BY <1>1, <1>3
  <2>2. QED
    BY <1>15, <1>16, <2>1, PacketPaints DEF packet
<1>18. Strip(line, x, last) = Till(a) \cup Strip(line, y, last)
  BY <1>1, <1>3, <1>16 DEF Before, Strip
<1>19. PICK S : S = Till(a)
  OBVIOUS
<1>20. PICK T : T = Strip(line, y, last)
  OBVIOUS
<1>21. PICK f : f = packet(e, a, n)
  OBVIOUS
<1>22. Painted(d, f, S \cup T, W, on, off)
  <2>1. Painted(d, e, S, W, on, off) /\ Painted(e, f, T, W, on, off)
    BY <1>15, <1>17, <1>19, <1>20, <1>21
  <2>2. QED
    BY <2>1, PaintedTwice
<1> QED
  BY <1>2, <1>13, <1>14, <1>18, <1>19, <1>20, <1>21, <1>22

(***************************************************************************)
(* Text that blinks.                                                       *)
(***************************************************************************)

\* The last cell of the screen is never one that needs a sequence.
LastPlain == curscr[LastCell].fore < 16 /\ curscr[LastCell].back < 16

\* The cells of a line that blink, before a column.
Blinking(line, m) == {c \in Cells : (c[1] = line /\ c[2] < m) /\ curscr[c].blink}

\* A run of cells of curscr.
LEMMA RunIsRow ==
  ASSUME curscr \in [Cells -> Drawn], LastPlain, NEW line \in 1..Lines, NEW i \in 1..Cols,
         NEW j \in i..Cols
  PROVE  Row(line, i, j, [k \in 1..j - i + 1 |-> curscr[<<line, i + k - 1>>]], curscr)
<1> DEFINE s == [k \in 1..j - i + 1 |-> curscr[<<line, i + k - 1>>]]
<1>1. i \in Nat /\ j \in Nat /\ Cols \in Nat
  BY DisplayAssumption
<1>2. \A k \in 1..j - i + 1 : i + k - 1 \in 1..Cols
  BY <1>1
<1>3. \A k \in 1..j - i + 1 : <<line, i + k - 1>> \in Cells
  BY <1>2 DEF Cells
<1>4. \A k \in 1..j - i + 1 : curscr[<<line, i + k - 1>>] \in Drawn
  BY <1>3
<1>5. PICK n \in Nat : n = j - i + 1
  BY <1>1
<1>6. s \in [1..n -> Drawn]
  BY <1>4, <1>5
<1>7. \A k \in 1..n : s[k] = curscr[<<line, i + k - 1>>]
  BY <1>5
<1> HIDE DEF s
<1>8. s \in Seq(Drawn) /\ DOMAIN s = 1..n
  BY <1>6
<1>9. Len(s) = n
  BY <1>8, LenProperties
<1>10. \A c \in Strip(line, i, j) : curscr[c] = s[c[2] - i + 1]
  <2>1. ASSUME NEW c \in Strip(line, i, j) PROVE curscr[c] = s[c[2] - i + 1]
    <3>1. c \in Cells /\ c[1] = line /\ c[2] \in i..j /\ c = <<c[1], c[2]>>
      BY DEF Strip, Cells
    <3>2. PICK m \in Nat : m = c[2]
      BY <1>1, <3>1
    <3>3. PICK k \in 1..n : k = m - i + 1 /\ i + k - 1 = m
      BY <1>1, <1>5, <3>1, <3>2
    <3>4. QED
      BY <1>7, <3>1, <3>2, <3>3
  <2>2. QED
    BY <2>1
<1>11. QED
  BY <1>1, <1>5, <1>8, <1>9, <1>10, Zenon DEF Row, LastPlain, s

LEMMA BlinkLinePaints ==
  ASSUME curscr \in [Cells -> Drawn], LastPlain, NEW d \in Good, NEW line \in 1..Lines,
         NEW on \in BOOLEAN, NEW off \in BOOLEAN
  PROVE  Painted(d, BlinkLine(d, on, off, line), Blinking(line, Cols + 1), curscr, on, off)
<1> DEFINE blink(c) == c <= Cols /\ curscr[<<line, c>>].blink
           run(e, i, j) == TransformLine(e, on, off, line, i,
                                         [k \in 1..j - i + 1 |-> curscr[<<line, i + k - 1>>]])
           first == [out |-> d, from |-> 1]
           next(v, j) == IF ~blink(j) THEN [out |-> v.out, from |-> j + 1]
                         ELSE IF blink(j + 1) THEN v
                         ELSE [out |-> run(v.out, v.from, j), from |-> j + 1]
           body(f) == [j \in 0..Cols |-> IF j = 0 THEN first ELSE next(f[j - 1], j)]
           scan == CHOOSE f : f = body(f)
           V == [out : Good, from : 1..Cols + 1]
           G == [p \in (1..Cols) \X V |-> next(p[2], p[1])]
           Till(m) == Blinking(line, m)
           I == [j \in 0..Cols |->
                   {v \in V : /\ v.from <= j + 1 /\ (v.from <= j => blink(j + 1))
                              /\ Painted(d, v.out, Till(v.from), curscr, on, off)
                              /\ \A k \in v.from..j : blink(k)}]
<1>1. Cols \in Nat \ {0}
  BY DisplayAssumption
<1>2. BlinkLine(d, on, off, line) = scan[Cols].out
  BY Zenon DEF BlinkLine
<1>3. \A c \in Cells : c[1] = line => (curscr[c].blink <=> blink(c[2])) /\ c[2] \in 1..Cols
  <2>1. \A c \in Cells : c = <<c[1], c[2]>> /\ c[2] \in 1..Cols
    BY DEF Cells
  <2>2. QED
    BY <1>1, <2>1
<1> HIDE DEF run
<1>4. \A j \in 1..Cols, v \in V : G[<<j, v>>] = next(v, j)
  OBVIOUS
<1>5. ASSUME NEW i \in 0..Cols, NEW j \in 1..Cols, j = i + 1, NEW v \in I[i]
      PROVE  next(v, j) \in I[j]
  <2> HIDE DEF blink
  <2>1. /\ v \in V /\ v.from \in 1..Cols + 1 /\ v.out \in Good
        /\ v.from <= i + 1 /\ (v.from <= i => blink(i + 1))
        /\ Painted(d, v.out, Till(v.from), curscr, on, off)
        /\ \A k \in v.from..i : blink(k)
    OBVIOUS
  <2>2. PICK a \in 1..j : a = v.from
    BY <1>5, <2>1
  <2>3. PICK e \in Good : e = v.out
    BY <2>1
  <2>4. Painted(d, e, Till(a), curscr, on, off) /\ \A k \in a..i : blink(k)
    BY <2>1, <2>2, <2>3
  <2>5. CASE ~blink(j)
    <3>1. a = j
      BY <1>5, <2>1, <2>2, <2>5
    <3>2. Till(j + 1) = Till(j)
      <4>1. \A c \in Cells : c[1] = line /\ c[2] = j => ~curscr[c].blink
        BY <1>3, <2>5
      <4>2. QED
        BY <1>1, <1>3, <4>1 DEF Blinking
    <3> DEFINE w == [out |-> e, from |-> j + 1]
    <3>3. next(v, j) = w
      BY <2>3, <2>5
    <3>4. w \in V /\ w.out = e /\ w.from = j + 1
      BY <1>1
    <3>5. Painted(d, w.out, Till(w.from), curscr, on, off)
      BY <2>4, <3>1, <3>2, <3>4
    <3>6. w.from <= j + 1 /\ (w.from <= j => blink(j + 1)) /\ \A k \in w.from..j : blink(k)
      BY <1>1, <3>4
    <3> HIDE DEF w
    <3>7. w \in I[j]
      BY <3>4, <3>5, <3>6
    <3>8. QED
      BY <3>3, <3>7
  <2>6. CASE blink(j) /\ blink(j + 1)
    <3>1. \A k \in v.from..j : blink(k)
      BY <1>5, <2>1, <2>6
    <3>2. v.from <= j + 1
      BY <1>5, <2>1
    <3>3. v \in I[j]
      BY <2>1, <2>6, <3>1, <3>2
    <3>4. QED
      BY <2>6, <3>3
  <2>7. CASE blink(j) /\ ~blink(j + 1)
    <3>1. \A k \in a..j : blink(k)
      BY <1>5, <2>4, <2>7
    <3>2. Painted(e, run(e, a, j), Strip(line, a, j), curscr, on, off)
      <4>1. a \in 1..Cols /\ j \in a..Cols
        BY <1>1, <2>2
      <4>2. PICK s : s = [k \in 1..j - a + 1 |-> curscr[<<line, a + k - 1>>]]
        OBVIOUS
      <4>3. Row(line, a, j, s, curscr)
        BY <4>1, <4>2, RunIsRow
      <4>4. Painted(e, TransformLine(e, on, off, line, a, s), Strip(line, a, j), curscr, on, off)
        BY <4>3, TransformLinePaints
      <4>5. QED
        BY <4>2, <4>4 DEF run
    <3>3. Till(j + 1) = Till(a) \cup Strip(line, a, j)
      <4>1. \A c \in Cells : c[1] = line /\ c[2] \in a..j => curscr[c].blink
        BY <1>3, <3>1
      <4>2. QED
        BY <1>1, <1>3, <2>2, <4>1 DEF Blinking, Strip
    <3>4. PICK S : S = Till(a)
      OBVIOUS
    <3>5. PICK T : T = Strip(line, a, j)
      OBVIOUS
    <3>6. PICK f : f = run(e, a, j)
      OBVIOUS
    <3>7. Painted(d, f, S \cup T, curscr, on, off)
      <4>1. Painted(d, e, S, curscr, on, off) /\ Painted(e, f, T, curscr, on, off)
        BY <2>4, <3>2, <3>4, <3>5, <3>6
      <4>2. QED
        BY <4>1, PaintedTwice
    <3> DEFINE w == [out |-> f, from |-> j + 1]
    <3>8. next(v, j) = w
      BY <2>2, <2>3, <2>7, <3>6
    <3>9. f \in Good
      BY <3>7 DEF Painted
    <3>10. w \in V /\ w.out = f /\ w.from = j + 1
      BY <1>1, <3>9
    <3>11. Painted(d, w.out, Till(w.from), curscr, on, off)
      BY <3>3, <3>4, <3>5, <3>7, <3>10
    <3>12. w.from <= j + 1 /\ (w.from <= j => blink(j + 1)) /\ \A k \in w.from..j : blink(k)
      BY <1>1, <3>10
    <3> HIDE DEF w
    <3>13. w \in I[j]
      BY <3>10, <3>11, <3>12
    <3>14. QED
      BY <3>8, <3>13
  <2>8. QED
    BY <2>5, <2>6, <2>7
<1> HIDE DEF blink
<1>6. Invariant(I, Cols, G, V)
  <2>1. \A i \in 0..Cols : I[i] \subseteq V
    OBVIOUS
  <2>2. ASSUME NEW i \in 0..Cols, NEW j \in 1..Cols, j = i + 1, NEW v \in I[i]
        PROVE  G[<<j, v>>] \in I[j]
    <3>1. v \in V
      BY <2>1, <2>2
    <3>2. G[<<j, v>>] = next(v, j)
      BY <1>4, <3>1
    <3>3. next(v, j) \in I[j]
      <4> HIDE DEF I, next
      <4>1. QED
        BY <1>5, <2>2
    <3>4. QED
      BY <3>2, <3>3
  <2> HIDE DEF I, G, V
  <2>3. QED
    BY <2>1, <2>2 DEF Invariant
<1>7. first \in I[0]
  <2>1. first \in V /\ first.from = 1 /\ first.out = d
    BY <1>1
  <2>2. Till(1) = {}
    BY <1>3 DEF Blinking
  <2>3. Painted(d, first.out, Till(first.from), curscr, on, off)
    <3>1. Painted(d, d, {}, curscr, on, off)
      BY PaintedNone
    <3>2. QED
      BY <2>1, <2>2, <3>1
  <2>4. first.from <= 0 + 1 /\ (first.from <= 0 => blink(0 + 1)) /\ \A k \in first.from..0 : blink(k)
    BY <2>1
  <2> HIDE DEF first
  <2>5. QED
    BY <1>1, <2>1, <2>3, <2>4
<1>8. \E f : f = body(f)
  <2> HIDE DEF G, V, first, I
  <2>1. PICK f \in [0..Cols -> V] : f[0] = first /\ Steps(f, Cols, G, V)
    BY <1>1, <1>6, <1>7, RecursionIn
  <2>2. \A j \in 0..Cols : f[j] = IF j = 0 THEN first ELSE next(f[j - 1], j)
    <3>1. ASSUME NEW j \in 1..Cols PROVE f[j] = next(f[j - 1], j)
      <4>1. PICK i \in 0..Cols : j = i + 1 /\ j - 1 = i
        BY <1>1, <3>1
      <4>2. f[i] \in V
        BY <2>1
      <4>3. f[j] = G[<<j, f[i]>>]
        BY <2>1, <4>1, <4>2 DEF Steps
      <4>4. f[j] = next(f[i], j)
        BY <1>4, <4>2, <4>3
      <4>5. QED
        BY <4>1, <4>4
    <3> HIDE DEF next
    <3>2. QED
      BY <2>1, <3>1
  <2> HIDE DEF next
  <2>3. f = body(f)
    BY <2>1, <2>2
  <2>4. QED
    BY <2>3
<1>9. scan = body(scan)
  <2> HIDE DEF next, first
  <2>1. QED
    BY <1>8, Zenon
<1> HIDE DEF scan
<1>10. scan[0] = first /\ \A j \in 1..Cols : scan[j] = next(scan[j - 1], j)
  <2> HIDE DEF next, first
  <2>1. QED
    BY <1>1, <1>9
<1>11. Steps(scan, Cols, G, V)
  <2>1. ASSUME NEW i \in 0..Cols, NEW j \in 1..Cols, j = i + 1, scan[i] \in V
        PROVE  scan[j] = G[<<j, scan[i]>>]
    <3>1. G[<<j, scan[i]>>] = next(scan[i], j)
      BY <1>4, <2>1
    <3> HIDE DEF next
    <3>2. scan[j] = next(scan[i], j)
      BY <1>10, <2>1
    <3>3. QED
      BY <3>1, <3>2
  <2> HIDE DEF G, V
  <2>2. QED
    BY <2>1 DEF Steps
<1>12. scan[Cols] \in I[Cols]
  <2> HIDE DEF G, V, first, I
  <2>1. \A i \in 0..Cols : scan[i] \in I[i]
    BY <1>1, <1>6, <1>7, <1>10, <1>11, InvariantHolds
  <2>2. QED
    BY <1>1, <2>1
<1>13. ~blink(Cols + 1)
  BY <1>1 DEF blink
<1>14. scan[Cols].from = Cols + 1
  BY <1>1, <1>12, <1>13
<1>15. Painted(d, scan[Cols].out, Till(scan[Cols].from), curscr, on, off)
  BY <1>1, <1>12
<1> QED
  BY <1>2, <1>14, <1>15

LEMMA BlinkTextPaints ==
  ASSUME curscr \in [Cells -> Drawn], LastPlain, NEW d \in Good,
         NEW on \in BOOLEAN, NEW off \in BOOLEAN
  PROVE  Painted(d, BlinkText(d, on, off), {c \in Cells : curscr[c].blink}, curscr, on, off)
<1> DEFINE next(e, j) == BlinkLine(e, on, off, j)
           body(f) == [j \in 0..Lines |-> IF j = 0 THEN d ELSE next(f[j - 1], j)]
           page == CHOOSE f : f = body(f)
           V == Good
           G == [p \in (1..Lines) \X V |-> next(p[2], p[1])]
           Till(m) == {c \in Cells : c[1] <= m /\ curscr[c].blink}
           I == [j \in 0..Lines |-> {e \in V : Painted(d, e, Till(j), curscr, on, off)}]
<1>1. Lines \in Nat \ {0} /\ Cols \in Nat
  BY DisplayAssumption
<1>2. BlinkText(d, on, off) = page[Lines]
  BY Zenon DEF BlinkText
<1>3. \A c \in Cells : c[1] \in 1..Lines /\ c[2] \in 1..Cols
  BY DEF Cells
<1> HIDE DEF next
<1>4. \A j \in 1..Lines, v \in V : G[<<j, v>>] = next(v, j)
  OBVIOUS
<1>5. ASSUME NEW i \in 0..Lines, NEW j \in 1..Lines, j = i + 1, NEW e \in I[i]
      PROVE  next(e, j) \in I[j]
  <2>1. e \in Good /\ Painted(d, e, Till(i), curscr, on, off)
    OBVIOUS
  <2>2. Painted(e, next(e, j), Blinking(j, Cols + 1), curscr, on, off)
    BY <2>1, BlinkLinePaints DEF next
  <2>3. Till(j) = Till(i) \cup Blinking(j, Cols + 1)
    BY <1>1, <1>3, <1>5 DEF Blinking
  <2>4. PICK S : S = Till(i)
    OBVIOUS
  <2>5. PICK T : T = Blinking(j, Cols + 1)
    OBVIOUS
  <2>6. PICK f : f = next(e, j)
    OBVIOUS
  <2>7. Painted(d, f, S \cup T, curscr, on, off)
    <3>1. Painted(d, e, S, curscr, on, off) /\ Painted(e, f, T, curscr, on, off)
      BY <2>1, <2>2, <2>4, <2>5, <2>6
    <3>2. QED
      BY <3>1, PaintedTwice
  <2>8. f \in Good
    BY <2>7 DEF Painted
  <2>9. QED
    BY <2>3, <2>4, <2>5, <2>6, <2>7, <2>8
<1>6. Invariant(I, Lines, G, V)
  <2>1. \A i \in 0..Lines : I[i] \subseteq V
    OBVIOUS
  <2>2. ASSUME NEW i \in 0..Lines, NEW j \in 1..Lines, j = i + 1, NEW v \in I[i]
        PROVE  G[<<j, v>>] \in I[j]
    <3>1. v \in V
      BY <2>1, <2>2
    <3>2. G[<<j, v>>] = next(v, j)
      BY <1>4, <3>1
    <3>3. next(v, j) \in I[j]
      <4> HIDE DEF I
      <4>1. QED
        BY <1>5, <2>2
    <3>4. QED
      BY <3>2, <3>3
  <2> HIDE DEF I, G, V
  <2>3. QED
    BY <2>1, <2>2 DEF Invariant
<1>7. d \in I[0]
  <2>1. Till(0) = {}
    BY <1>1, <1>3
  <2>2. Painted(d, d, {}, curscr, on, off)
    BY PaintedNone
  <2>3. Painted(d, d, Till(0), curscr, on, off)
    BY <2>1, <2>2
  <2>4. QED
    BY <1>1, <2>3
<1> HIDE DEF I
<1>8. \E f : f = body(f)
  <2> HIDE DEF G, V
  <2>1. PICK f \in [0..Lines -> V] : f[0] = d /\ Steps(f, Lines, G, V)
    BY <1>1, <1>6, <1>7, RecursionIn
  <2>2. \A j \in 0..Lines : f[j] = IF j = 0 THEN d ELSE next(f[j - 1], j)
    <3>1. ASSUME NEW j \in 1..Lines PROVE f[j] = next(f[j - 1], j)
      <4>1. PICK i \in 0..Lines : j = i + 1 /\ j - 1 = i
        BY <1>1, <3>1
      <4>2. f[i] \in V
        BY <2>1
      <4>3. f[j] = G[<<j, f[i]>>]
        BY <2>1, <4>1, <4>2 DEF Steps
      <4>4. f[j] = next(f[i], j)
        BY <1>4, <4>2, <4>3
      <4>5. QED
        BY <4>1, <4>4
    <3>2. QED
      BY <2>1, <3>1
  <2>3. f = body(f)
    BY <2>1, <2>2
  <2>4. QED
    BY <2>3
<1>9. page = body(page)
  BY <1>8, Zenon
<1> HIDE DEF page
<1>10. page[0] = d /\ \A j \in 1..Lines : page[j] = next(page[j - 1], j)
  BY <1>1, <1>9
<1>11. Steps(page, Lines, G, V)
  <2>1. ASSUME NEW i \in 0..Lines, NEW j \in 1..Lines, j = i + 1, page[i] \in V
        PROVE  page[j] = G[<<j, page[i]>>]
    BY <1>4, <1>10, <2>1
  <2> HIDE DEF G, V
  <2>2. QED
    BY <2>1 DEF Steps
<1>12. page[Lines] \in I[Lines]
  <2> HIDE DEF G, V
  <2>1. \A i \in 0..Lines : page[i] \in I[i]
    BY <1>1, <1>6, <1>7, <1>10, <1>11, InvariantHolds
  <2>2. QED
    BY <1>1, <2>1
<1>13. Till(Lines) = {c \in Cells : curscr[c].blink}
  BY <1>1, <1>3
<1>14. Painted(d, page[Lines], Till(Lines), curscr, on, off)
  BY <1>1, <1>12 DEF I
<1> QED
  BY <1>2, <1>13, <1>14

(***************************************************************************)
(* The program.                                                            *)
(***************************************************************************)
DisplayTypes ==
  /\ terminal \in Terminals /\ curscr \in [Cells -> Drawn]
  /\ Display \in Good
  /\ blinks \in BOOLEAN /\ blinked_off \in BOOLEAN /\ blinkSet \in BOOLEAN
  /\ left \in [updates : Nat, break : BOOLEAN]

\* What does not blink is shown also between two steps of the blinking.
Steady == \A c \in Cells : ~curscr[c].blink => shown[c] = Look(curscr[c])

DisplayInv == DisplayTypes /\ LastPlain /\ Steady /\ CellsAsAsked

LEMMA DisplayInvInit == Init => DisplayInv
<1> SUFFICES ASSUME Init PROVE DisplayInv
  OBVIOUS
<1> USE DEF Init, DisplayInit
<1>1. Plain \in Drawn /\ Plain \in Cell
  BY DrawnAreCells DEF Drawn
<1>2. PICK g \in Glyph : /\ g = [ch |-> Blank, fore |-> 7, back |-> 0, under |-> FALSE]
                         /\ g.ch = Blank /\ g.fore = 7 /\ g.back = 0 /\ ~g.under
  <2>1. 7 \in Colors /\ 0 \in Colors
    BY ColorsAre
  <2>2. QED
    BY <2>1, DisplayAssumption, GlyphMade
<1>3. /\ Plain.fore = 7 /\ Plain.back = 0 /\ Plain.ch = Blank /\ ~Plain.under /\ ~Plain.bold
      /\ ~Plain.blink /\ ~Plain.reverse
  BY DEF Plain
<1>4. LookAs(Plain, blinks, blinked_off) = g
  <2>1. blinks \in BOOLEAN /\ blinked_off \in BOOLEAN
    OBVIOUS
  <2>2. PICK h \in Glyph : /\ h = LookAs(Plain, blinks, blinked_off)
                           /\ h.ch = Blank /\ h.fore = 7 /\ h.back = 0 /\ ~h.under
    BY <1>1, <1>3, <2>1, LookIs DEF Fore, Back, Gone
  <2>3. QED
    BY <1>2, <2>2, GlyphEqual
<1>5. shown = [c \in Cells |-> g] /\ curscr = [c \in Cells |-> Plain]
  BY <1>2
<1>6. \A c \in Cells : shown[c] = Look(curscr[c])
  BY <1>4, <1>5 DEF Look
<1>7. shown \in [Cells -> Glyph]
  BY <1>5
<1>8. sgr \in Sgr /\ old \in Old /\ (old.under <=> sgr.under) /\ old.fore = -1 /\ old.back = -1
  BY DEF Sgr, Old
<1>9. Display \in Good
  BY <1>7, <1>8 DEF Display, Good
<1>10. left \in [updates : Nat, break : BOOLEAN]
  BY DisplayAssumption
<1>11. DisplayTypes
  BY <1>1, <1>5, <1>9, <1>10 DEF DisplayTypes
<1>12. LastPlain
  BY <1>3, <1>5, DisplayAssumption DEF LastPlain, LastCell, Cells
<1>13. QED
  BY <1>6, <1>11, <1>12 DEF DisplayInv, Steady, CellsAsAsked

\* What does not blink looks the same whatever the blinking does.
LEMMA LookSteady ==
  ASSUME NEW c \in Drawn, ~c.blink, NEW on \in BOOLEAN, NEW off \in BOOLEAN,
         NEW on2 \in BOOLEAN, NEW off2 \in BOOLEAN
  PROVE  LookAs(c, on, off) = LookAs(c, on2, off2)
<1>1. PICK g \in Glyph : /\ g = LookAs(c, on, off)
                         /\ g.ch = c.ch /\ g.fore = (IF c.reverse THEN c.back ELSE Fore(c))
                         /\ g.back = (IF c.reverse THEN Fore(c) ELSE c.back)
                         /\ (g.under <=> c.under)
  BY LookIs DEF Back, Gone
<1>2. PICK h \in Glyph : /\ h = LookAs(c, on2, off2)
                         /\ h.ch = c.ch /\ h.fore = (IF c.reverse THEN c.back ELSE Fore(c))
                         /\ h.back = (IF c.reverse THEN Fore(c) ELSE c.back)
                         /\ (h.under <=> c.under)
  BY LookIs DEF Back, Gone
<1> QED
  BY <1>1, <1>2, GlyphEqual

LEMMA DisplaysGood ==
  ASSUME NEW e \in Good, Displays(e)
  PROVE  Display' \in Good /\ shown' = e.shown
<1>1. Display' = [shown |-> e.shown, sgr |-> e.sgr, old |-> e.old]
  BY DEF Display, Displays
<1>2. e = [shown |-> e.shown, sgr |-> e.sgr, old |-> e.old]
  BY DEF Good
<1> QED
  BY <1>1, <1>2 DEF Displays

\* A text that is drawn is a row of the new curscr.
LEMMA DrawInv ==
  ASSUME DisplayInv, NEW c \in Cells, NEW n \in 1..Cols - c[2] + 1, NEW t \in Texts(n),
         Draw(c[1], c[2], t)
  PROVE  DisplayInv'
<1> DEFINE line == c[1]
           x == c[2]
           end == x + Len(t) - 1
<1>1. /\ Lines \in Nat \ {0} /\ Cols \in Nat \ {0} /\ x \in 1..Cols /\ line \in 1..Lines
      /\ \A w \in Cells : w = <<w[1], w[2]>> /\ w[1] \in 1..Lines /\ w[2] \in 1..Cols
  BY DisplayAssumption DEF Cells
<1>2. n \in Nat \ {0} /\ t \in [1..n -> Styles]
  BY <1>1 DEF Texts
<1>3. t \in Seq(Drawn) /\ DOMAIN t = 1..n /\ Len(t) = n
  <2>1. t \in [1..n -> Drawn]
    BY <1>2 DEF Drawn
  <2>2. t \in Seq(Drawn) /\ DOMAIN t = 1..n
    BY <1>2, <2>1
  <2>3. QED
    BY <1>2, <2>2, LenProperties
<1>4. PICK last \in x..Cols : last = end /\ last = x + n - 1
  BY <1>1, <1>2, <1>3
<1>5. curscr' = [w \in Cells |-> IF w \in Strip(line, x, last) THEN t[w[2] - x + 1] ELSE curscr[w]]
  <2>1. curscr' = [w \in Cells |-> IF w[1] = line /\ w[2] \in x..end
                                   THEN t[w[2] - x + 1] ELSE curscr[w]]
    BY Zenon DEF Draw
  <2> HIDE DEF end, line, x
  <2>2. curscr' = [w \in Cells |-> IF w[1] = line /\ w[2] \in x..last
                                   THEN t[w[2] - x + 1] ELSE curscr[w]]
    BY <1>4, <2>1
  <2>3. QED
    BY <2>2 DEF Strip
<1>6. /\ Displays(TransformLine(Display, blinks, blinked_off, line, x, t))
      /\ UNCHANGED <<screenVars, terminal, blinks, blinked_off, blinkSet>>
      /\ left' = [left EXCEPT !.updates = @ - 1] /\ left.updates > 0
      /\ At("main", "open")
      /\ <<line, end>> = LastCell => Last(t).fore < 16 /\ Last(t).back < 16
  BY DEF Draw
<1> HIDE DEF line, x, end
<1>7. /\ curscr \in [Cells -> Drawn] /\ Display \in Good /\ blinks \in BOOLEAN
      /\ blinked_off \in BOOLEAN /\ blinkSet \in BOOLEAN /\ LastPlain
  BY DEF DisplayInv, DisplayTypes
<1>8. \A w \in Strip(line, x, last) : w \in Cells /\ w[2] - x + 1 \in 1..n
  BY <1>1, <1>2, <1>4 DEF Strip
<1>9. curscr' \in [Cells -> Drawn]
  <2>1. \A i \in 1..n : t[i] \in Drawn
    BY <1>2 DEF Drawn
  <2>2. QED
    BY <1>5, <1>7, <1>8, <2>1
<1>10. LastPlain'
  <2>1. LastCell \in Cells /\ LastCell[1] = Lines /\ LastCell[2] = Cols
    BY <1>1 DEF LastCell, Cells
  <2>2. CASE LastCell \in Strip(line, x, last)
    <3>1. line = Lines /\ last = Cols
      BY <1>1, <1>4, <2>1, <2>2 DEF Strip
    <3>2. Last(t).fore < 16 /\ Last(t).back < 16
      BY <1>4, <1>6, <3>1 DEF LastCell
    <3>3. LastCell[2] - x + 1 = n
      BY <1>1, <1>2, <1>4, <2>1, <3>1
    <3>4. curscr'[LastCell] = t[n] /\ Last(t) = t[n]
      BY <1>3, <1>5, <2>1, <2>2, <3>3 DEF Last
    <3>5. QED
      BY <3>2, <3>4 DEF LastPlain, LastCell
  <2>3. CASE LastCell \notin Strip(line, x, last)
    <3>1. curscr'[LastCell] = curscr[LastCell]
      BY <1>5, <2>1, <2>3
    <3>2. QED
      BY <1>7, <3>1 DEF LastPlain, LastCell
  <2>4. QED
    BY <2>2, <2>3
<1>11. PICK W \in [Cells -> Drawn] : W = curscr'
  BY <1>9
<1>12. Row(line, x, last, t, W)
  <2>1. \A w \in Strip(line, x, last) : W[w] = t[w[2] - x + 1]
    BY <1>5, <1>8, <1>11
  <2>2. W[LastCell].fore < 16 /\ W[LastCell].back < 16
    BY <1>10, <1>11 DEF LastPlain, LastCell
  <2>3. Len(t) = last - x + 1
    BY <1>1, <1>2, <1>3, <1>4
  <2>4. QED
    BY <1>1, <1>3, <1>4, <2>1, <2>2, <2>3 DEF Row
<1>13. PICK d \in Good : d = Display
  BY <1>7
<1>14. PICK e : e = TransformLine(Display, blinks, blinked_off, line, x, t)
  OBVIOUS
<1>15. Painted(d, e, Strip(line, x, last), W, blinks, blinked_off)
  BY <1>7, <1>12, <1>13, <1>14, TransformLinePaints
<1>16. /\ e \in Good /\ d.shown = shown
       /\ e.shown = [w \in Cells |-> IF w \in Strip(line, x, last)
                                     THEN LookAs(W[w], blinks, blinked_off) ELSE shown[w]]
  BY <1>13, <1>15 DEF Painted, Display
<1>17. Display' \in Good /\ shown' = e.shown
  BY <1>6, <1>14, <1>16, DisplaysGood
<1>18. \A w \in Cells : /\ w \in Strip(line, x, last) => shown'[w] = Look(curscr[w])'
                        /\ w \notin Strip(line, x, last) =>
                             shown'[w] = shown[w] /\ curscr'[w] = curscr[w]
                             /\ Look(curscr[w])' = Look(curscr[w])
  <2>1. ASSUME NEW w \in Cells, w \in Strip(line, x, last) PROVE shown'[w] = Look(curscr[w])'
    <3>1. shown'[w] = LookAs(W[w], blinks, blinked_off)
      BY <1>16, <1>17, <2>1
    <3>2. QED
      BY <1>6, <1>11, <3>1 DEF Look
  <2>2. ASSUME NEW w \in Cells, w \notin Strip(line, x, last)
        PROVE  shown'[w] = shown[w] /\ curscr'[w] = curscr[w] /\ Look(curscr[w])' = Look(curscr[w])
    <3>1. shown'[w] = shown[w] /\ curscr'[w] = curscr[w]
      BY <1>5, <1>16, <1>17, <2>2
    <3>2. QED
      BY <1>6, <3>1 DEF Look
  <2>3. QED
    BY <2>1, <2>2
<1>19. Steady'
  BY <1>18 DEF DisplayInv, Steady
<1>20. CellsAsAsked'
  <2>1. spc' = spc
    BY <1>6 DEF screenVars
  <2>2. QED
    BY <1>6, <1>18, <2>1 DEF DisplayInv, CellsAsAsked
<1>21. left' \in [updates : Nat, break : BOOLEAN]
  BY <1>6 DEF DisplayInv, DisplayTypes
<1>22. DisplayTypes'
  BY <1>6, <1>9, <1>17, <1>21 DEF DisplayInv, DisplayTypes
<1>23. QED
  BY <1>10, <1>19, <1>20, <1>22 DEF DisplayInv

\* A step that writes nothing, and does not end a blinking.
LEMMA UnwrittenInv ==
  ASSUME DisplayInv, UNCHANGED <<terminal, curscr, shown, sgr, old>>,
         blinks' \in BOOLEAN, blinked_off' \in BOOLEAN, blinkSet' \in BOOLEAN,
         left' \in [updates : Nat, break : BOOLEAN],
         \/ blinkSet'
         \/ spc'["main"] \in {"hidden", "blink"}
         \/ /\ UNCHANGED <<blinks, blinked_off, blinkSet>>
            /\ spc["main"] \notin {"hidden", "blink"}
  PROVE  DisplayInv'
<1>1. DisplayTypes'
  BY DEF DisplayInv, DisplayTypes, Display
<1>2. LastPlain'
  BY DEF DisplayInv, LastPlain, LastCell
<1>3. Steady'
  <2>1. ASSUME NEW c \in Cells, ~curscr[c].blink PROVE shown[c] = LookAs(curscr[c], blinks', blinked_off')
    <3>1. shown[c] = LookAs(curscr[c], blinks, blinked_off)
      BY <2>1 DEF DisplayInv, Steady, Look
    <3>2. curscr[c] \in Drawn /\ blinks \in BOOLEAN /\ blinked_off \in BOOLEAN
      BY DEF DisplayInv, DisplayTypes
    <3>3. QED
      BY <2>1, <3>1, <3>2, LookSteady
  <2>2. QED
    BY <2>1 DEF Steady, Look
<1>4. CellsAsAsked'
  BY DEF DisplayInv, CellsAsAsked, Look
<1>5. QED
  BY <1>1, <1>2, <1>3, <1>4 DEF DisplayInv

LEMMA RepaintInv ==
  ASSUME DisplayInv, Repaint
  PROVE  DisplayInv'
<1>1. /\ curscr \in [Cells -> Drawn] /\ Display \in Good /\ blinks \in BOOLEAN
      /\ blinked_off \in BOOLEAN /\ blinkSet \in BOOLEAN /\ LastPlain
      /\ left \in [updates : Nat, break : BOOLEAN] /\ terminal \in Terminals
  BY DEF DisplayInv, DisplayTypes
<1>2. /\ Displays(BlinkText(Display, blinks, blinked_off)) /\ blinkSet' = FALSE
      /\ UNCHANGED <<terminal, curscr, blinks, blinked_off, left>>
  BY DEF Repaint
<1>3. PICK d \in Good : d = Display
  BY <1>1
<1>4. PICK e : e = BlinkText(Display, blinks, blinked_off)
  OBVIOUS
<1>5. Painted(d, e, {c \in Cells : curscr[c].blink}, curscr, blinks, blinked_off)
  BY <1>1, <1>3, <1>4, BlinkTextPaints
<1>6. /\ e \in Good /\ d.shown = shown
      /\ e.shown = [c \in Cells |-> IF c \in {w \in Cells : curscr[w].blink}
                                    THEN LookAs(curscr[c], blinks, blinked_off) ELSE shown[c]]
  BY <1>3, <1>5 DEF Painted, Display
<1>7. Display' \in Good /\ shown' = e.shown
  BY <1>2, <1>4, <1>6, DisplaysGood
<1>8. \A c \in Cells : shown'[c] = Look(curscr[c])'
  <2>1. ASSUME NEW c \in Cells PROVE shown'[c] = LookAs(curscr[c], blinks, blinked_off)
    <3>1. CASE curscr[c].blink
      BY <1>6, <1>7, <3>1
    <3>2. CASE ~curscr[c].blink
      <4>1. shown'[c] = shown[c]
        BY <1>6, <1>7, <3>2
      <4>2. QED
        BY <3>2, <4>1 DEF DisplayInv, Steady, Look
    <3>3. QED
      BY <3>1, <3>2
  <2>2. QED
    BY <1>2, <2>1 DEF Look
<1>9. LastPlain'
  BY <1>1, <1>2 DEF LastPlain, LastCell
<1>10. DisplayTypes'
  BY <1>1, <1>2, <1>7 DEF DisplayTypes
<1>11. QED
  BY <1>8, <1>9, <1>10 DEF DisplayInv, Steady, CellsAsAsked

LEMMA DisplayInvNext == ScreenTypeOK /\ DisplayInv /\ [Next]_vars => DisplayInv'
<1> SUFFICES ASSUME ScreenTypeOK, DisplayInv, [Next]_vars PROVE DisplayInv'
  OBVIOUS
<1>1. /\ blinks \in BOOLEAN /\ blinked_off \in BOOLEAN /\ blinkSet \in BOOLEAN
      /\ left \in [updates : Nat, break : BOOLEAN]
  BY DEF DisplayInv, DisplayTypes
<1>2. spc \in [Threads -> MainSteps \cup {"waiting"}] /\ "main" \in Threads /\ "handler" \in Threads
  BY DEF ScreenTypeOK, Threads
<1>3. CASE ScreenStep
  <2>1. UNCHANGED displayVars
    BY <1>3 DEF ScreenStep
  <2>2. spc'["main"] \in {"hidden", "blink"} \/ spc["main"] \notin {"hidden", "blink"}
    <3> USE DEF At, Goes
    <3>1. CASE ScrOpen \/ ResetProgMode \/ MouseSet \/ Reactivate \/ Endwin
      BY <3>1 DEF ScrOpen, ResetProgMode, MouseSet, Reactivate, Endwin
    <3>2. ASSUME NEW v \in 0..2, CursSet(v) \/ CursWasSet(v) PROVE spc["main"] \notin {"hidden", "blink"}
      BY <3>2 DEF CursSet, CursWasSet, VisibilityStep
    <3>3. ASSUME NEW t \in Threads, Closing(t)
          PROVE  spc'["main"] \in {"hidden", "blink"} \/ spc["main"] \notin {"hidden", "blink"}
      <4>1. \E there \in {"cursor", "buffer", "mode", "closed"} : \E to \in CloseSteps :
              spc[t] = there /\ spc' = [spc EXCEPT ![t] = to]
        BY <3>3, Zenon DEF Closing, CloseCursor, ResetShellMode, ResetMode, End, CloseSteps
      <4>2. CASE t = "main"
        BY <4>1, <4>2
      <4>3. CASE t # "main"
        BY <1>2, <4>1, <4>3
      <4>4. QED
        BY <4>2, <4>3
    <3>4. QED
      BY <1>3, <3>1, <3>2, <3>3 DEF ScreenStep
  <2>3. QED
    BY <1>1, <2>1, <2>2, UnwrittenInv DEF displayVars
<1>4. CASE Break
  <2>1. /\ UNCHANGED <<terminal, curscr, shown, sgr, old, blinks, blinked_off, blinkSet>>
        /\ left' = [left EXCEPT !.break = FALSE]
    BY <1>4 DEF Break
  <2>2. spc'["main"] = spc["main"]
    BY <1>2, <1>4 DEF Break, CtrlBreak, Goes
  <2>3. left' \in [updates : Nat, break : BOOLEAN]
    BY <1>1, <2>1
  <2>4. QED
    BY <1>1, <2>1, <2>2, <2>3, UnwrittenInv
<1>5. ASSUME NEW c \in Cells, NEW n \in 1..Cols - c[2] + 1, NEW t \in Texts(n), Draw(c[1], c[2], t)
      PROVE  DisplayInv'
  BY <1>5, DrawInv
<1>6. CASE SetBlinkOn
  BY <1>1, <1>6, UnwrittenInv DEF SetBlinkOn
<1>7. CASE SetBlinkOff \/ Napms
  <2>1. spc'["main"] \in {"hidden", "blink"}
    BY <1>2, <1>7 DEF SetBlinkOff, Napms, BlinkHides, Goes
  <2>2. /\ UNCHANGED <<terminal, curscr, shown, sgr, old, blinkSet, left>>
        /\ blinks' \in BOOLEAN /\ blinked_off' \in BOOLEAN
    BY <1>1, <1>7 DEF SetBlinkOff, Napms
  <2>3. QED
    BY <1>1, <2>1, <2>2, UnwrittenInv
<1>8. CASE Repaint
  BY <1>8, RepaintInv
<1>9. CASE UNCHANGED vars
  <2>1. UNCHANGED displayVars /\ spc' = spc
    BY <1>9 DEF vars, screenVars
  <2>2. QED
    BY <1>1, <2>1, UnwrittenInv DEF displayVars
<1>10. QED
  BY <1>3, <1>4, <1>5, <1>6, <1>7, <1>8, <1>9 DEF Next

LEMMA DisplayInvImplies == ScreenTypeOK /\ DisplayInv => TypeOK /\ CellsAsAsked /\ CacheSound
<1> SUFFICES ASSUME ScreenTypeOK, DisplayInv PROVE TypeOK /\ CellsAsAsked /\ CacheSound
  OBVIOUS
<1>1. Display \in Good
  BY DEF DisplayInv, DisplayTypes
<1>2. /\ shown \in [Cells -> Glyph] /\ sgr \in Sgr /\ old \in Old
      /\ old.fore # -1 => old.fore = sgr.fore
      /\ old.back # -1 => old.back = sgr.back
      /\ old.under <=> sgr.under
  BY <1>1 DEF Display, Good
<1>3. TypeOK
  BY <1>2 DEF DisplayInv, DisplayTypes, TypeOK, Glyph, Sgr, Old, Drawn
<1>4. old.under = sgr.under
  <2>1. old.under \in BOOLEAN /\ sgr.under \in BOOLEAN
    BY <1>2 DEF Old, Sgr
  <2>2. QED
    BY <1>2, <2>1
<1>5. QED
  BY <1>2, <1>3, <1>4 DEF DisplayInv, CacheSound

LEMMA DisplayInvariant == Spec => [](ScreenTypeOK /\ DisplayInv)
<1>1. IInv => ScreenTypeOK
  BY InvImplies
<1>2. QED
  BY <1>1, ScreenInvariant, DisplayInvInit, DisplayInvNext, PTL DEF Spec

\* The cells, the sequences and the cache keep their types: no colour comes to the
\* console that nobody asked for.
THEOREM DisplayTypeCorrect == Spec => []TypeOK
BY DisplayInvariant, DisplayInvImplies, PTL

\* Whatever PDC_transform_line and PDC_blink_text wrote, in which packets and by
\* which of the two ways, every cell shows what curscr has for it; a colour from 16
\* on is not drawn in the last cell of the screen (Draw).
THEOREM CellsShowWhatWasAsked == Spec => []CellsAsAsked
BY DisplayInvariant, DisplayInvImplies, PTL

\* What _set_ansi_color leaves out of a sequence, the terminal has.
THEOREM CacheIsSound == Spec => []CacheSound
BY DisplayInvariant, DisplayInvImplies, PTL
=============================================================================
