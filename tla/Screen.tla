------------------------------- MODULE Screen -------------------------------
(***************************************************************************)
(* The console as PDCurses takes it and gives it back: PDC_scr_open,       *)
(* PDC_scr_close, the prog and shell modes, curs_set and the cursor during *)
(* PDC_blink_text.  PDC_scr_close is run by endwin, by the exception filter *)
(* when the program crashes, and, in a thread of its own, by the handler   *)
(* of Ctrl+Break, while the program goes on; the process ends when that    *)
(* handler returns.                                                        *)
(***************************************************************************)
EXTENDS Integers

CONSTANTS
  OldModes,   \* the input modes the shell may have left: sets of flags
  Restores    \* whether a buffer of its own is made: subset of BOOLEAN

\* The flags of the input mode, from 0x01 to 0x80.
ModeFlags == {"processed", "line", "echo", "window", "mouse", "insert", "quick", "extended"}

ASSUME ScreenAssumption ==
  /\ OldModes \subseteq SUBSET ModeFlags
  /\ Restores \subseteq BOOLEAN

Threads == {"main", "handler"}
Buffers == {"std", "own"}

VARIABLES
  active,      \* the buffer on the screen
  mode,        \* the input mode of the console
  cursor,      \* of each buffer, whether its cursor is visible
  old_mode,    \* old_console_mode
  con_out,     \* pdc_con_out
  visibility,  \* SP->visibility
  spc,         \* where each thread is: see MainSteps and CloseSteps
  late         \* history: of "buffer", "mode" and "cursor" those the program was
               \* changing when the handler began, or changed afterwards

screenVars == <<active, mode, cursor, old_mode, con_out, visibility, spc, late>>

CloseSteps == {"cursor", "buffer", "mode", "closed", "ended"}
MainSteps == CloseSteps \cup
  {"start", "prog", "mouse", "open", "visibility0", "visibility1", "visibility2", "hidden", "blink"}
VisibilityStep == [v \in 0..2 |-> IF v = 0 THEN "visibility0"
                                  ELSE IF v = 1 THEN "visibility1" ELSE "visibility2"]

ScreenInit ==
  /\ mode \in OldModes /\ old_mode = mode
  /\ active = "std" /\ con_out = "std" /\ cursor = [b \in Buffers |-> TRUE]
  /\ visibility = 1 /\ late = {}
  /\ spc = [main |-> "start", handler |-> "waiting"]

\* The process has ended with one of its threads.
Ended == \E t \in Threads : spc[t] = "ended"

At(t, where) == spc[t] = where /\ ~Ended
Goes(t, where) == spc' = [spc EXCEPT ![t] = where]

\* The program changes a thing of the console, which the handler may be giving
\* back.
Touches(thing) == late' = IF spc["handler"] = "waiting" THEN late ELSE late \cup {thing}

(***************************************************************************)
(* PDC_scr_open                                                            *)
(***************************************************************************)

\* The mode is saved, a buffer is made (or the shell's used, also when none can
\* be made), and the filter and the handler are installed.
ScrOpen ==
  /\ At("main", "start")
  /\ old_mode' = mode
  /\ \E own \in Restores : con_out' = IF own THEN "own" ELSE "std"
  /\ Goes("main", "prog")
  /\ UNCHANGED <<active, mode, cursor, visibility, late>>

\* PDC_reset_prog_mode: the buffer becomes the active one ...
ResetProgMode ==
  /\ At("main", "prog")
  /\ active' = con_out
  /\ Touches("buffer")
  /\ Goes("main", "mouse")
  /\ UNCHANGED <<mode, cursor, visibility, old_mode, con_out>>

\* ... and PDC_mouse_set: no mouse, processed input and QuickEdit as they were.
MouseSet ==
  /\ At("main", "mouse")
  /\ mode' = (mode \cap {"processed"}) \cup {"window", "extended"} \cup (old_mode \cap {"quick"})
  /\ Touches("mode")
  /\ Goes("main", "open")
  /\ UNCHANGED <<active, cursor, visibility, old_mode, con_out>>

(***************************************************************************)
(* The program.                                                            *)
(***************************************************************************)

\* PDC_curs_set(v): the cursor, then SP->visibility.
CursSet(v) ==
  /\ At("main", "open")
  /\ cursor' = [cursor EXCEPT ![con_out] = v # 0]
  /\ Touches("cursor")
  /\ Goes("main", VisibilityStep[v])
  /\ UNCHANGED <<active, mode, visibility, old_mode, con_out>>
CursWasSet(v) ==
  /\ At("main", VisibilityStep[v])
  /\ visibility' = v
  /\ Touches("cursor")
  /\ Goes("main", "open")
  /\ UNCHANGED <<active, mode, cursor, old_mode, con_out>>

\* PDC_blink_text hides a cursor that is visible while it writes.
BlinkHides ==
  /\ At("main", "open")
  /\ cursor' = [cursor EXCEPT ![con_out] = FALSE]
  /\ Touches("cursor")
  /\ Goes("main", IF cursor[con_out] THEN "hidden" ELSE "blink")
  /\ UNCHANGED <<active, mode, visibility, old_mode, con_out>>

\* Mutant: the cursor is shown whatever it was.
BlinkShowsAlways ==
  /\ At("main", "hidden") \/ At("main", "blink")
  /\ cursor' = [cursor EXCEPT ![con_out] = TRUE]
  /\ Goes("main", "open")
  /\ UNCHANGED <<active, mode, visibility, old_mode, con_out, late>>

BlinkShows ==
  /\ \/ At("main", "hidden") /\ cursor' = [cursor EXCEPT ![con_out] = TRUE]
     \/ At("main", "blink") /\ cursor' = cursor
  /\ Goes("main", "open")
  /\ UNCHANGED <<active, mode, visibility, old_mode, con_out, late>>

\* PDC_resize_screen makes the buffer the active one again.
Reactivate ==
  /\ At("main", "open")
  /\ active' = con_out
  /\ Touches("buffer")
  /\ UNCHANGED <<mode, cursor, visibility, old_mode, con_out, spc>>

(***************************************************************************)
(* PDC_scr_close, in the thread t.                                         *)
(***************************************************************************)

\* Mutant: the cursor is left as it is.
CloseCursorKept(t) ==
  /\ At(t, "cursor")
  /\ Goes(t, "buffer")
  /\ UNCHANGED <<active, mode, cursor, visibility, old_mode, con_out, late>>

\* curs_set(1), unless the cursor is thought to be normal.
CloseCursor(t) ==
  /\ At(t, "cursor")
  /\ IF visibility # 1
     THEN visibility' = 1 /\ cursor' = [cursor EXCEPT ![con_out] = TRUE]
     ELSE UNCHANGED <<visibility, cursor>>
  /\ Goes(t, "buffer")
  /\ UNCHANGED <<active, mode, old_mode, con_out, late>>

\* PDC_reset_shell_mode: the shell's buffer ...
ResetShellMode(t) ==
  /\ At(t, "buffer")
  /\ active' = "std"
  /\ Goes(t, "mode")
  /\ UNCHANGED <<mode, cursor, visibility, old_mode, con_out, late>>

\* ... and its input mode.
ResetMode(t) ==
  /\ At(t, "mode")
  /\ mode' = old_mode \cup {"extended"}
  /\ Goes(t, "closed")
  /\ UNCHANGED <<active, cursor, visibility, old_mode, con_out, late>>

\* endwin, by atexit, or _restore_console after an exception of the program.
Endwin ==
  /\ At("main", "open")
  /\ Goes("main", "cursor")
  /\ UNCHANGED <<active, mode, cursor, visibility, old_mode, con_out, late>>

\* _ctrl_break, in a new thread, once it is installed.  It may begin between the
\* two steps of curs_set or of PDC_blink_text.
CtrlBreak ==
  /\ At("handler", "waiting") /\ spc["main"] # "start"
  /\ late' = IF spc["main"] \in CloseSteps \cup {"prog", "mouse", "open"} THEN late
             ELSE late \cup {"cursor"}
  /\ Goes("handler", "cursor")
  /\ UNCHANGED <<active, mode, cursor, visibility, old_mode, con_out>>

\* The process ends, and a buffer of its own with it.
End(t) ==
  /\ At(t, "closed")
  /\ active' = IF con_out = "own" THEN "std" ELSE active
  /\ Goes(t, "ended")
  /\ UNCHANGED <<mode, cursor, visibility, old_mode, con_out, late>>

Closing(t) == CloseCursor(t) \/ ResetShellMode(t) \/ ResetMode(t) \/ End(t)

ScreenNext ==
  \/ ScrOpen \/ ResetProgMode \/ MouseSet
  \/ \E v \in 0..2 : CursSet(v) \/ CursWasSet(v)
  \/ BlinkHides \/ BlinkShows \/ Reactivate \/ Endwin \/ CtrlBreak
  \/ \E t \in Threads : Closing(t)

ScreenSpec == ScreenInit /\ [][ScreenNext]_screenVars

(***************************************************************************)
(* Properties                                                              *)
(***************************************************************************)
ScreenTypeOK ==
  /\ active \in Buffers /\ con_out \in Buffers
  /\ mode \in SUBSET ModeFlags /\ old_mode \in SUBSET ModeFlags
  /\ cursor \in [Buffers -> BOOLEAN] /\ visibility \in 0..2
  /\ late \in SUBSET {"buffer", "mode", "cursor"}
  /\ spc \in [Threads -> MainSteps \cup {"waiting"}]

\* Whichever way the program ends, and whichever thread is first to close the
\* screen, the shell finds its buffer, its input mode and a visible cursor, but
\* for those the program was changing at that moment.  Ctrl+Break may come at any
\* step; a crash comes between two calls of the library, not within curs_set or
\* the blinking.
ShellRestored ==
  (\E t \in Threads : spc[t] \in {"closed", "ended"}) =>
    /\ "buffer" \notin late => active = "std"
    /\ "mode" \notin late => mode = old_mode \cup {"extended"}
    /\ "cursor" \notin late => cursor["std"]

\* While the program runs and no handler interferes, the cursor is as curs_set
\* left it, whatever has blinked.
CursorAsSet ==
  spc = [main |-> "open", handler |-> "waiting"] => (cursor[con_out] <=> visibility # 0)
=============================================================================
