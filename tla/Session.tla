------------------------------ MODULE Session -------------------------------
(***************************************************************************)
(* main of ztransfer.c at the terminal: the menu of make_choice and the    *)
(* path, over the keyboard of PDCurses.                                    *)
(***************************************************************************)
EXTENDS Resize

CONSTANT Rows  \* the rows of the menu: Broadcast, Listen, Cancel

ASSUME SessionAssumption == Rows \in Nat \ {0}

VARIABLES
  phase,      \* "menu", "path", then "discovery", "listen" or "over"
  option,     \* the row of make_choice
  drawn,      \* the row in colour on the screen
  unanswered, \* history: KEY_RESIZE was ignored or resize_term refused
  meant       \* history: the row the keys typed lead to, and whether Enter ended it

sessionVars == <<phase, option, drawn, unanswered, meant>>
vars == <<keyVars, sessionVars>>

Init ==
  /\ KeyInit
  /\ phase = "menu" /\ option = 0 /\ drawn = 0 /\ unanswered = FALSE
  /\ meant = [row |-> 0, entered |-> FALSE]

\* The remainder of C.
CRem(a, b) == IF a >= 0 THEN a % b ELSE -((-a) % b)

\* What a key does to the row, as the user sees it.
Led(m, k) ==
  IF m.entered THEN m
  ELSE CASE k = KEY_UP -> [m EXCEPT !.row = (@ - 1) % Rows]
         [] k = KEY_DOWN -> [m EXCEPT !.row = (@ + 1) % Rows]
         [] k \in {10, 13} -> [m EXCEPT !.entered = TRUE]
         [] OTHER -> m

\* ... and what keys do, one after the other.
Leads(m, keys) ==
  LET after[i \in 0..Len(keys)] == IF i = 0 THEN m ELSE Led(after[i - 1], keys[i])
  IN  after[Len(keys)]

User ==
  /\ phase \in {"menu", "path"}
  /\ \/ \E k \in Keys, n \in Reps : Press(k, n)
     \/ \E b \in Buttons, f \in Flags : PushButton(b, f)
     \/ \E b \in Buttons : LetButtonGo(b)
     \/ \E moved \in BOOLEAN : MoveMouse(moved)
     \/ \E f \in {4, 8} : TurnWheel(f)
     \/ Focus
     \/ \E s \in Sizes : ResizeWindow(s)
  /\ meant' = Leads(meant, SubSeq(owed', Len(owed) + 1, Len(owed')))
  /\ UNCHANGED <<phase, option, drawn, unanswered>>

Keypad == CheckKey \/ GetRepeat \/ GetKey \/ GetFocus \/ GetSize \/ GetMouse \/ NapOver

\* The keyboard of the library, for the program that waits for a key.
Library ==
  /\ phase \in {"menu", "path"}
  /\ Keypad
  /\ UNCHANGED sessionVars

KeysSame ==
  /\ got' = -1
  /\ UNCHANGED <<consoleVars, settings, save_ip, event_count, key_count, save_press,
                 mouseVars, resizeVars, history>>

\* wgetch with nl(): a carriage return becomes a new line.
Key == IF got = 13 THEN 10 ELSE got

\* Mutant: one of the arrows forgets to come round.
ArrowGoesUnder ==
  /\ phase = "menu" /\ kpc = "act" /\ Key \in {KEY_UP, KEY_DOWN}
  /\ option' = IF Key = KEY_UP THEN CRem(option - 1, Rows) ELSE CRem(option + 1 + Rows, Rows)
  /\ drawn' = option'
  /\ kpc' = "look"
  /\ UNCHANGED <<phase, unanswered, meant>> /\ KeysSame

\* Mutant: the menu is drawn before the row changes.
ArrowDrawnBefore ==
  /\ phase = "menu" /\ kpc = "act" /\ Key \in {KEY_UP, KEY_DOWN}
  /\ option' = IF Key = KEY_UP THEN CRem(option - 1 + Rows, Rows)
                               ELSE CRem(option + 1 + Rows, Rows)
  /\ drawn' = option
  /\ kpc' = "look"
  /\ UNCHANGED <<phase, unanswered, meant>> /\ KeysSame

\* make_choice(3, -1, 3, strings)
Arrow ==
  /\ phase = "menu" /\ kpc = "act" /\ Key \in {KEY_UP, KEY_DOWN}
  /\ option' = IF Key = KEY_UP THEN CRem(option - 1 + Rows, Rows)
                               ELSE CRem(option + 1 + Rows, Rows)
  /\ drawn' = option'
  /\ kpc' = "look"
  /\ UNCHANGED <<phase, unanswered, meant>> /\ KeysSame

\* KEY_RESIZE: resize_term, clear and draw_select.
MenuResize ==
  /\ phase = "menu" /\ kpc = "act" /\ Key = KEY_RESIZE
  /\ GetRows
  /\ drawn' = option
  /\ UNCHANGED <<phase, option, unanswered, meant>>
ResizeRefused ==
  /\ GetColumns
  /\ unanswered' = (kpc' = "look")
  /\ UNCHANGED <<phase, option, drawn, meant>>
ResizeRest ==
  /\ SetWindow \/ Flush \/ GetLines \/ GetCols
  /\ UNCHANGED sessionVars

\* Enter: the choice is taken, and main goes on to the path or returns.
Choose ==
  /\ phase = "menu" /\ kpc = "act" /\ Key \in {KEY_ENTER, 10}
  /\ phase' = IF option = 2 THEN "over" ELSE "path"
  /\ kpc' = "look"
  /\ UNCHANGED <<option, drawn, unanswered, meant>> /\ KeysSame

OtherKey ==
  /\ phase = "menu" /\ kpc = "act" /\ Key \notin {KEY_UP, KEY_DOWN, KEY_RESIZE, KEY_ENTER, 10}
  /\ kpc' = "look"
  /\ UNCHANGED sessionVars /\ KeysSame

\* getnstr: every key but the end of the line goes into the path or is ignored,
\* KEY_RESIZE among them.
PathKey ==
  /\ phase = "path" /\ kpc = "act" /\ Key # 10
  /\ kpc' = "look"
  /\ unanswered' = (unanswered \/ Key = KEY_RESIZE)
  /\ UNCHANGED <<phase, option, drawn, meant>> /\ KeysSame

\* What is_folder may say of a path: a file, a folder, or neither, also when what
\* the path names changed since the user looked.
is_folder == {0, 1, 2}

\* The path is complete: one that is neither a file nor a folder ends the program.
PathDone ==
  /\ phase = "path" /\ kpc = "act" /\ Key = 10
  /\ \E isfolder \in is_folder :
       phase' = IF isfolder = 2 THEN "over" ELSE IF option = 0 THEN "discovery" ELSE "listen"
  /\ UNCHANGED <<kpc, option, drawn, unanswered, meant>> /\ KeysSame

Program ==
  \/ Library \/ Arrow \/ MenuResize \/ ResizeRefused \/ ResizeRest
  \/ Choose \/ OtherKey \/ PathKey \/ PathDone

Next == User \/ Program

Spec == Init /\ [][Next]_vars

(***************************************************************************)
(* Properties                                                              *)
(***************************************************************************)
Menu == phase \in {"menu", "path"}

TypeOK ==
  /\ key_count \in Nat /\ event_count \in Nat /\ save_press \in Modifiers \cup {0}
  /\ kpc \in KeyStates /\ got \in Int
  /\ known \in Nat \X Nat /\ resized \in BOOLEAN
  /\ phase \in {"menu", "path", "discovery", "listen", "over"} /\ option \in 0..Rows - 1

\* PDC_get_key reads, and looks behind a press, only where a record is: the
\* count it relies on was taken before, and a click has taken a record since
\* without counting it.
EventCountSound ==
  /\ kpc = "get" /\ key_count = 0 => event_count \in 1..Len(input)
  /\ kpc = "nap" => event_count = 0

\* Each key the user presses is given to the program, in order and as often as it
\* was repeated, unless a resize discarded it or it came behind a press of the
\* mouse and was taken for the release.
KeysInOrder ==
  "thrown" \notin cut =>
    owed = Repeats \o FlattenSeq([i \in DOMAIN input |-> Due(input[i])])

\* A modifier is given as a key only when no other key and no mouse event was
\* read since it went down.
ModifierAlone ==
  kpc = "act" =>
    /\ got \in KEY_SHIFT_LR => alone = VK_SHIFT
    /\ got \in KEY_CONTROL_LR => alone = VK_CONTROL
    /\ got \in KEY_ALT_LR => alone = VK_MENU

AtRest == kpc = "look" /\ input = <<>> /\ key_count = 0

\* Once all records are read and none was discarded, a button that the program
\* was told is down is down, or it was held while the wheel turned and was not
\* pressed again since: the handler of the wheel forgets what is down, so the
\* release behind it is no change and is not told.  No other button stays down, and
\* that one only until it is pressed again.
NoStuckButton == AtRest /\ cut = {} => seen \subseteq held \cup wheeled

\* When all records are read, LINES and COLS are those of the window, whatever
\* the user did to it while resize_term ran, unless a KEY_RESIZE was ignored or
\* refused, or a record was thrown out behind a press of the mouse (it may have
\* been the new size).
SizeKnown == Menu /\ AtRest /\ ~unanswered /\ "thrown" \notin cut => known = window /\ ~resized

\* The row chosen is where the keys typed before Enter lead, and the one that was
\* in colour, unless a record was thrown out behind a press or a resize discarded
\* keys.
ChoiceAsTyped ==
  phase # "menu" /\ cut = {} => option = meant.row /\ drawn = meant.row

\* A key code the program gets is that of the key and the modifier pressed and
\* of no other.
CodeNamesKey ==
  kpc = "act" /\ save_ip.type = "key" /\ got >= KEY_CODE_YES /\ save_ip.vk \notin Modifiers =>
    \A c \in Codes : c[4] = got =>
      SameKey(c, <<save_ip.vk, save_ip.enhanced>>) /\ c[3] = Column(save_ip.mods)

\* Whatever size PDC_resize_screen asks for (all are tried, where no record
\* waits), the window becomes the largest that the console takes, if it takes one
\* of half the size.
FitIsLargest ==
  kpc = "set" /\ input = <<>> =>
    \A s \in (1..3 * Largest[1]) \X (1..3 * Largest[2]) :
      LET most == <<Greatest({r \in 1..s[1] : Accepts(<<r, 1>>)}),
                    Greatest({c \in 1..s[2] : Accepts(<<1, c>>)})>>
      IN  FitConsoleWindow(s, window) =
            IF 2 * most[1] >= s[1] /\ 2 * most[2] >= s[2] THEN most ELSE window
=============================================================================
