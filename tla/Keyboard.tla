------------------------------ MODULE Keyboard ------------------------------
(***************************************************************************)
(* pdckbd.c and the resizing of pdcscrn.c: the records of the console      *)
(* become keys for the program.  The user, the window and the program run  *)
(* concurrently: records arrive at the end of the console's buffer at any  *)
(* moment, in particular between the look at the buffer and the read.      *)
(*                                                                         *)
(* The shift state that _process_mouse_event adds to the buttons and the   *)
(* key_modifiers of SCREEN are left out: nothing depends on them.          *)
(***************************************************************************)
EXTENDS KeyTable, SequencesExt

CONSTANTS
  Keys,            \* the records of keys the user can produce
  Reps,            \* the repeat counts the console gives a key held down
  Buttons,         \* the buttons of the mouse, by their masks
  Flags,           \* the dwEventFlags of a press: 0, or 2 for a second click
  Sizes,           \* the sizes the user gives the window, <<rows, columns>>
  Largest,         \* the largest window the console accepts
  KeysWithMouse,   \* those of them that are tried together with a mouse
  Settings,        \* pairs: whether mouse events are asked for, and the value of
                   \* return_key_modifiers
  MaxRecords       \* bound: the records of a behaviour

\* wVirtualKeyCode, AsciiChar and dwControlKeyState of a KEY_EVENT_RECORD, and
\* whether the key is a dead one.
KeyInput ==
  [down : BOOLEAN, vk : 0..255, char : 0..255, dead : BOOLEAN,
   mods : SUBSET {"shift", "ctrl", "lalt", "ralt"}, enhanced : BOOLEAN]

ASSUME KeyboardAssumption ==
  /\ Keys \subseteq KeyInput /\ Reps \subseteq Nat \ {0}
  /\ Buttons \subseteq {1, 2, 4} /\ Flags \subseteq {0, 2} /\ MaxRecords \in Nat
  /\ KeysWithMouse \subseteq Keys /\ Settings \subseteq BOOLEAN \X BOOLEAN
  /\ Largest \in (Nat \ {0}) \X (Nat \ {0})
  /\ Sizes \subseteq (1..Largest[1]) \X (1..Largest[2])

VARIABLES
  input,       \* the input buffer of the console
  window,      \* the size of the window
  held, at,    \* the buttons the user holds, and where the pointer is
  records,     \* how many records there were
  trap, returnModifiers,
  save_ip, event_count, key_count, save_press,
  old_mouse,   \* old_mouse_status: what became of each button, and the place
  known,       \* LINES and COLS
  resized,     \* SP->resized
  want,        \* the size PDC_resize_screen has read
  kpc,         \* where the program is: see KeyStates
  got,         \* what PDC_get_key returned last, -1 for nothing
  owed,        \* history: the keys pressed that the program has not got
  seen,        \* history: the buttons the program was told are down
  alone,       \* history: the last key down that was read, 0 after the mouse
  cut,         \* history: "thrown" when a click threw out another record than the
               \* release, "flushed" when a resize discarded keys or clicks
  wheeled      \* history: the buttons held while the wheel turned and not pressed
               \* again since

consoleVars == <<input, window, held, at, records>>
settings == <<trap, returnModifiers>>
mouseVars == <<old_mouse, seen>>
resizeVars == <<known, resized, want>>
history == <<owed, alone, cut, wheeled>>
keyVars == <<consoleVars, settings, save_ip, event_count, key_count, save_press,
             mouseVars, resizeVars, kpc, got, history>>

\* "look" whether a key is there, "get" it, "nap" until a click is complete,
\* "act" on it; and the steps of resize_term.
KeyStates == {"look", "get", "nap", "act", "width", "set", "flush", "lines", "cols"}

VK_SHIFT == 16
VK_CONTROL == 17
VK_MENU == 18
Modifiers == {VK_SHIFT, VK_CONTROL, VK_MENU}
Locks == {20, 144, 145}

RELEASED == 0
PRESSED == 1
CLICKED == 2
DOUBLE_CLICKED == 3
MOVED == 5

NoRecord == [type |-> "focus"]
NoButton == [b \in Buttons |-> RELEASED]

KeyInit ==
  /\ input = <<>> /\ window \in Sizes /\ held = {} /\ at = 0 /\ records = 0
  /\ \E s \in Settings : trap = s[1] /\ returnModifiers = s[2]
  /\ save_ip = NoRecord /\ event_count = 0 /\ key_count = 0 /\ save_press = 0
  /\ old_mouse = [button |-> NoButton, place |-> 0] /\ seen = {}
  /\ known = window /\ resized = FALSE /\ want = <<0, 0>>
  /\ kpc = "look" /\ got = -1 /\ owed = <<>> /\ alone = 0 /\ cut = {}
  /\ wheeled = {}

(***************************************************************************)
(* A key record as the program gets it.                                    *)
(***************************************************************************)

\* AsciiChar is a char, which is signed on the machines of the build.
Ascii(char) == IF char < 128 THEN char ELSE char - 256

\* Mutant: a key held down gives one key.
NumKeysOnce(r) ==
  IF r.down
  THEN IF r.vk \in Locks \cup Modifiers \/ (r.char = 0 /\ r.dead) THEN 0 ELSE 1
  ELSE IF (r.vk = VK_MENU /\ r.char # 0) \/ (r.vk \in Modifiers /\ r.vk = save_press)
       THEN 1 ELSE 0

\* _get_key_count
NumKeys(r) ==
  IF r.down
  THEN IF r.vk \in Locks \cup Modifiers \/ (r.char = 0 /\ r.dead) THEN 0 ELSE r.rep
  ELSE IF (r.vk = VK_MENU /\ r.char # 0) \/ (r.vk \in Modifiers /\ r.vk = save_press)
       THEN 1 ELSE 0

\* Mutant: another key does not make the modifier forgotten.
SavePressKept(r) ==
  IF r.down THEN IF r.vk \in Modifiers THEN r.vk ELSE save_press
  ELSE IF NumKeys(r) = 1 THEN 0 ELSE save_press

SavePress(r) ==
  IF r.down THEN IF r.vk \in Modifiers THEN r.vk ELSE 0
  ELSE IF NumKeys(r) = 1 THEN 0 ELSE save_press

\* _process_key_event: the keys the record may give, -1 for none.  Which of the
\* two shift keys it was, left_key, is the answer of GetKeyState.
Process(r) ==
  LET itself == IF returnModifiers
                THEN CASE r.vk = VK_SHIFT -> KEY_SHIFT_LR
                       [] r.vk = VK_CONTROL -> KEY_CONTROL_LR
                       [] OTHER -> KEY_ALT_LR
                ELSE {-1}
  IN  IF r.vk \in {VK_SHIFT, VK_CONTROL} \/ (r.vk = VK_MENU /\ r.char = 0) THEN itself
      ELSE IF /\ r.char # 0 /\ ("lalt" \notin r.mods \/ "ralt" \in r.mods)
              /\ kptab[r.vk].extended = 0
      THEN {Ascii(r.char)}
      ELSE {Translate(r.vk, r.enhanced, r.mods)}

\* What the user may expect of a record: the key as often as it was repeated,
\* and of Alt with digits of the keypad one character, when Alt goes up.  A
\* character whose code becomes -1 is no key.
Due(r) ==
  IF r.type # "key" \/ r.vk \in Locks \cup {VK_SHIFT, VK_CONTROL} THEN <<>>
  ELSE LET key == CHOOSE k \in Process(r) : TRUE
           times == IF r.vk = VK_MENU THEN IF ~r.down /\ r.char # 0 THEN 1 ELSE 0
                    ELSE IF ~r.down \/ (r.dead /\ r.char = 0) THEN 0 ELSE r.rep
       IN  IF key = -1 THEN <<>> ELSE [i \in 1..times |-> key]

\* The repeats of the key in save_ip that are still to be given.
Repeats == IF key_count > 0 /\ Due(save_ip) # <<>> THEN SubSeq(Due(save_ip), 1, key_count) ELSE <<>>

(***************************************************************************)
(* The user and the console.                                               *)
(***************************************************************************)
Arrives(r) ==
  /\ records < MaxRecords
  /\ records' = records + 1
  /\ input' = Append(input, r)
  /\ owed' = owed \o Due(r)

ProgramSame ==
  UNCHANGED <<settings, save_ip, event_count, key_count, save_press, mouseVars,
              resizeVars, kpc, got, alone, cut>>

\* A key goes down, possibly held long enough to repeat, or up.
Press(k, n) ==
  /\ Arrives([type |-> "key", down |-> k.down, vk |-> k.vk, char |-> k.char, dead |-> k.dead,
              mods |-> k.mods, enhanced |-> k.enhanced, rep |-> n])
  /\ ~k.down => n = 1
  /\ trap => k \in KeysWithMouse
  /\ UNCHANGED <<window, held, at, wheeled>> /\ ProgramSame

Mouse(buttons, flags, place) ==
  [type |-> "mouse", buttons |-> buttons, flags |-> flags, place |-> place]

\* The mouse, when its records are asked for: a button, a move, the wheel.
PushButton(b, f) ==
  /\ trap /\ b \notin held
  /\ held' = held \cup {b}
  /\ wheeled' = wheeled \ {b}
  /\ Arrives(Mouse(held', f, at))
  /\ UNCHANGED <<window, at>> /\ ProgramSame
LetButtonGo(b) ==
  /\ trap /\ b \in held
  /\ held' = held \ {b}
  /\ Arrives(Mouse(held', 0, at))
  /\ UNCHANGED <<window, at, wheeled>> /\ ProgramSame
MoveMouse(moved) ==
  /\ trap
  /\ at' = IF moved THEN 1 - at ELSE at
  /\ Arrives(Mouse(held, 1, at'))
  /\ UNCHANGED <<window, held, wheeled>> /\ ProgramSame
TurnWheel(f) ==
  /\ trap
  /\ Arrives(Mouse(held, f, at))
  /\ wheeled' = wheeled \cup held
  /\ UNCHANGED <<window, held, at>> /\ ProgramSame

Focus ==
  /\ Arrives([type |-> "focus"])
  /\ UNCHANGED <<window, held, at, wheeled>> /\ ProgramSame
ResizeWindow(s) ==
  /\ s # window
  /\ window' = s
  /\ Arrives([type |-> "size", size |-> s])
  /\ UNCHANGED <<held, at, wheeled>> /\ ProgramSame

(***************************************************************************)
(* The program: wgetch looks with PDC_check_key and gets with PDC_get_key. *)
(***************************************************************************)

\* Mutant: the number of records is not asked again while some were left.
CheckKeyCached ==
  /\ kpc = "look"
  /\ IF key_count > 0 \/ event_count > 0
     THEN kpc' = "get" /\ UNCHANGED event_count
     ELSE event_count' = Len(input) /\ kpc' = IF input = <<>> THEN "look" ELSE "get"
  /\ UNCHANGED <<consoleVars, settings, save_ip, key_count, save_press, mouseVars,
                 resizeVars, got, history>>

\* PDC_check_key
CheckKey ==
  /\ kpc = "look"
  /\ IF key_count > 0
     THEN kpc' = "get" /\ UNCHANGED event_count
     ELSE event_count' = Len(input) /\ kpc' = IF input = <<>> THEN "look" ELSE "get"
  /\ UNCHANGED <<consoleVars, settings, save_ip, key_count, save_press, mouseVars,
                 resizeVars, got, history>>

\* What PDC_get_key returns; wgetch looks again for another key when it is -1.
Returns(key) == got' = key /\ kpc' = IF key = -1 THEN "look" ELSE "act"

\* The key is given: it was due if it is the next of what the user typed.
Gives(r) ==
  \E key \in Process(r) :
    /\ Returns(key)
    /\ owed' = IF Due(r) # <<>> /\ owed # <<>> /\ Head(owed) = key THEN Tail(owed) ELSE owed

\* ReadConsoleInput.  event_count is unsigned: EventCountSound says that it
\* never goes below 0.
Read == save_ip' = Head(input) /\ input' = Tail(input) /\ event_count' = event_count - 1

\* The key in save_ip was repeated.
GetRepeat ==
  /\ kpc = "get" /\ key_count > 0
  /\ key_count' = key_count - 1
  /\ Gives(save_ip)
  /\ UNCHANGED <<consoleVars, settings, save_ip, event_count, save_press, mouseVars,
                 resizeVars, alone, cut, wheeled>>

GetKey ==
  /\ kpc = "get" /\ key_count = 0 /\ input # <<>> /\ Head(input).type = "key"
  /\ Read
  /\ LET r == Head(input)
         n == NumKeys(r)
     IN  /\ save_press' = SavePress(r)
         /\ alone' = IF r.down THEN r.vk ELSE alone
         /\ IF n = 0 THEN key_count' = 0 /\ Returns(-1) /\ UNCHANGED owed
                     ELSE key_count' = n - 1 /\ Gives(r)
  /\ UNCHANGED <<window, held, at, records, settings, mouseVars, resizeVars, cut, wheeled>>

\* A record of the focus, and of other types, is passed over.
GetFocus ==
  /\ kpc = "get" /\ key_count = 0 /\ input # <<>> /\ Head(input).type = "focus"
  /\ Read
  /\ Returns(-1)
  /\ UNCHANGED <<window, held, at, records, settings, key_count, save_press, mouseVars,
                 resizeVars, history>>

\* Mutant: only the number of lines is compared.
GetSizeLines ==
  /\ kpc = "get" /\ key_count = 0 /\ input # <<>> /\ Head(input).type = "size"
  /\ Read
  /\ IF Head(input).size[1] # known[1] /\ ~resized
     THEN resized' = TRUE /\ Returns(KEY_RESIZE)
     ELSE Returns(-1) /\ UNCHANGED resized
  /\ UNCHANGED <<window, held, at, records, settings, key_count, save_press, mouseVars,
                 known, want, history>>

GetSize ==
  /\ kpc = "get" /\ key_count = 0 /\ input # <<>> /\ Head(input).type = "size"
  /\ Read
  /\ IF Head(input).size # known /\ ~resized
     THEN resized' = TRUE /\ Returns(KEY_RESIZE)
     ELSE Returns(-1) /\ UNCHANGED resized
  /\ UNCHANGED <<window, held, at, records, settings, key_count, save_press, mouseVars,
                 known, want, history>>

(***************************************************************************)
(* _process_mouse_event                                                    *)
(***************************************************************************)

\* The buttons in the record behind the pressed one, which is taken for a mouse
\* record whatever it is: the repeat count of a key lies where the buttons are,
\* and the other records leave that place unwritten.
Peeked(r) ==
  CASE r.type = "mouse" -> {r.buttons}
    [] r.type = "key"   -> {{b \in Buttons : (r.rep \div b) % 2 = 1}}
    [] OTHER            -> SUBSET Buttons

IsPress(r) == r.flags = 0 /\ r.buttons # {}

\* Mutant: the release is thrown out and the button stays pressed.
ButtonsOfStillPressed(r, clicked) ==
  [b \in Buttons |->
     IF b \notin r.buttons THEN RELEASED
     ELSE CASE r.flags = 2 -> DOUBLE_CLICKED [] r.flags = 1 -> MOVED [] OTHER -> PRESSED]

\* The buttons by the record r, those in clicked having been let go at once.
ButtonsOf(r, clicked) ==
  [b \in Buttons |->
     IF b \notin r.buttons THEN RELEASED
     ELSE IF b \in clicked THEN CLICKED
     ELSE CASE r.flags = 2 -> DOUBLE_CLICKED [] r.flags = 1 -> MOVED [] OTHER -> PRESSED]

\* A click and a double click end with the button up.
Remembered(button) ==
  [b \in Buttons |-> IF button[b] \in {CLICKED, DOUBLE_CLICKED} THEN RELEASED ELSE button[b]]

\* The buttons are compared in this order; one that moves ends the comparison.
Index(b) == CASE b = 1 -> 0 [] b = 4 -> 1 [] OTHER -> 2

\* The rest of the handler, when the record that completes a click is known.
Report(r, clicked) ==
  LET button == ButtonsOf(r, clicked)
      moving == {b \in Buttons : button[b] = MOVED}
      compared == {b \in Buttons : \A m \in moving : Index(b) <= Index(m)}
      first == compared \cap moving
      changes == {b \in compared : old_mouse.button[b] # button[b]} \cup first
  IN  IF moving # {} /\ r.place = old_mouse.place
      THEN Returns(-1) /\ UNCHANGED mouseVars
      ELSE /\ Returns(KEY_MOUSE)
           /\ old_mouse' = [button |-> Remembered(button), place |-> r.place]
           /\ seen' = (seen \ changes) \cup {b \in changes : button[b] \in {PRESSED, MOVED}}

\* The next record is looked at, and thrown out when it completes a click.
Complete(r, rest) ==
  \E buttons \in IF rest = <<>> THEN {Buttons} ELSE Peeked(Head(rest)) :
    LET clicked == r.buttons \ buttons
    IN  /\ Report(r, clicked)
        /\ input' = IF clicked = {} THEN rest ELSE Tail(rest)
        /\ cut' = IF clicked # {} /\ Head(rest).type # "mouse" THEN cut \cup {"thrown"} ELSE cut

\* A press with nothing behind it waits for a click.
GetMouse ==
  /\ kpc = "get" /\ key_count = 0 /\ input # <<>> /\ Head(input).type = "mouse"
  /\ LET r == Head(input)
     IN  /\ save_ip' = r
         /\ event_count' = event_count - 1
         /\ IF r.flags \in {4, 8}
            THEN /\ Returns(KEY_MOUSE)
                 /\ old_mouse' = [button |-> NoButton, place |-> 0]
                 /\ input' = Tail(input) /\ UNCHANGED <<seen, cut>>
            ELSE IF IsPress(r) /\ event_count = 1
            THEN /\ kpc' = "nap" /\ input' = Tail(input)
                 /\ UNCHANGED <<mouseVars, got, cut>>
            ELSE IF IsPress(r) THEN Complete(r, Tail(input))
            ELSE /\ Report(r, {})
                 /\ input' = Tail(input) /\ UNCHANGED cut
  /\ save_press' = 0
  /\ alone' = 0
  /\ UNCHANGED <<window, held, at, records, settings, key_count, resizeVars, owed,
                 wheeled>>

\* napms is over: whatever has come in the meantime is looked at.
NapOver ==
  /\ kpc = "nap"
  /\ event_count' = Len(input)
  /\ Complete(save_ip, input)
  /\ UNCHANGED <<window, held, at, records, settings, save_ip, key_count, save_press,
                 resizeVars, owed, alone, wheeled>>
=============================================================================
