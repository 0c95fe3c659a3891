------------------------------- MODULE Resize -------------------------------
(***************************************************************************)
(* resize_term(0, 0): PDC_resize_screen of pdcscrn.c and what initscr.o    *)
(* does around it, while the user goes on changing the window.             *)
(***************************************************************************)
EXTENDS Keyboard

\* SetConsoleWindowInfo: the console takes a window that fits its screen.
Accepts(s) == s[1] <= Largest[1] /\ s[2] <= Largest[2]

Greatest(S) == CHOOSE x \in S : \A y \in S : y <= x

\* Mutant: the second loop stops at half the width instead of half the height.
FitConsoleWindowMixed(want_, window_) ==
  LET half(n) == ((n - 1) \div 2) + 1
      cols == {c \in half(want_[2])..want_[2] : Accepts(<<half(want_[1]), c>>)}
      rows(c) == {r \in half(want_[2])..want_[1] : Accepts(<<r, c>>)}
  IN  IF Accepts(want_) THEN want_
      ELSE IF cols = {} THEN window_
      ELSE LET c == Greatest(cols)
           IN  IF rows(c) = {} THEN <<half(want_[1]), c>> ELSE <<Greatest(rows(c)), c>>

\* _fit_console_window: the window that is there afterwards.  The rectangle is
\* tried as it is, then at half its size, then at the half height from the full
\* width downwards, then at that width from the full height downwards.
FitConsoleWindow(want_, window_) ==
  LET half(n) == ((n - 1) \div 2) + 1
      cols == {c \in half(want_[2])..want_[2] : Accepts(<<half(want_[1]), c>>)}
      rows(c) == {r \in half(want_[1])..want_[1] : Accepts(<<r, c>>)}
  IN  IF Accepts(want_) THEN want_
      ELSE IF cols = {} THEN window_
      ELSE LET c == Greatest(cols)
           IN  IF rows(c) = {} THEN <<half(want_[1]), c>> ELSE <<Greatest(rows(c)), c>>

\* PDC_resize_screen(0, 0): PDC_get_rows ...
GetRows ==
  /\ want' = <<window[1], want[2]>>
  /\ kpc' = "width"
  /\ UNCHANGED <<consoleVars, settings, save_ip, event_count, key_count, save_press,
                 mouseVars, known, resized, got, history>>

\* ... PDC_get_columns; fewer than two of either are refused, and resize_term
\* leaves everything as it is.
GetColumns ==
  /\ kpc = "width"
  /\ IF want[1] < 2 \/ window[2] < 2
     THEN kpc' = "look" /\ want' = <<0, 0>>
     ELSE kpc' = "set" /\ want' = <<want[1], window[2]>>
  /\ UNCHANGED <<consoleVars, settings, save_ip, event_count, key_count, save_press,
                 mouseVars, known, resized, got, history>>

\* The window and its buffer are given that size, but at most one more than the
\* largest; a change gives a record.
SetWindow ==
  LET most == <<IF want[1] - 1 > Largest[1] THEN Largest[1] + 1 ELSE want[1],
                IF want[2] - 1 > Largest[2] THEN Largest[2] + 1 ELSE want[2]>>
  IN  /\ kpc = "set"
      /\ window' = FitConsoleWindow(most, window)
      /\ input' = IF window' = window THEN input
                  ELSE Append(input, [type |-> "size", size |-> window'])
      /\ want' = <<0, 0>>
      /\ kpc' = "flush"
      /\ UNCHANGED <<held, at, records, settings, save_ip, event_count, key_count,
                     save_press, mouseVars, known, resized, got, history>>

\* PDC_flushinp, and SP->resized is reset: the records there are discarded, the
\* repeats of the key in save_ip are not.
Flush ==
  /\ kpc = "flush"
  /\ input' = <<>>
  /\ owed' = Repeats
  /\ cut' = IF \E i \in DOMAIN input : input[i].type \in {"key", "mouse"}
            THEN cut \cup {"flushed"} ELSE cut
  /\ resized' = FALSE
  /\ kpc' = "lines"
  /\ UNCHANGED <<window, held, at, records, settings, save_ip, event_count, key_count,
                 save_press, mouseVars, known, want, got, alone, wheeled>>

\* LINES and COLS are read again.
GetLines ==
  /\ kpc = "lines"
  /\ known' = <<window[1], known[2]>>
  /\ kpc' = "cols"
  /\ UNCHANGED <<consoleVars, settings, save_ip, event_count, key_count, save_press,
                 mouseVars, resized, want, got, history>>
GetCols ==
  /\ kpc = "cols"
  /\ known' = <<known[1], window[2]>>
  /\ kpc' = "look"
  /\ UNCHANGED <<consoleVars, settings, save_ip, event_count, key_count, save_press,
                 mouseVars, resized, want, got, history>>
=============================================================================
