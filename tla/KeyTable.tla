------------------------------ MODULE KeyTable ------------------------------
(***************************************************************************)
(* The tables of pdckbd.c: the code a key gives, by the virtual key, the   *)
(* modifier held and whether the console calls the key enhanced.  A chord  *)
(* is such a key with its modifier; the codes are those of curses.h.       *)
(***************************************************************************)
EXTENDS Integers, Sequences

KEY_CODE_YES == \h100
KEY_MOUSE    == \h21B
KEY_SHIFT_LR   == {\h21C, \h21D}
KEY_CONTROL_LR == {\h21E, \h21F}
KEY_ALT_LR     == {\h220, \h221}
KEY_RESIZE   == \h222
KEY_DOWN     == \h102
KEY_UP       == \h103
KEY_ENTER    == \h157

\* Mutant: the function keys are counted from KEY_CODE_YES.
KEY_FLow(n) == KEY_CODE_YES + n

KEY_F(n) == \h108 + n
ALT_digit(d)  == \h197 + d
ALT_letter(n) == \h1A1 + n

CTL_PAD(d) == \h1FB + d
ALT_PAD(d) == \h205 + d

\* The keypad without NumLock: KEY_A1 .. KEY_C3, of which 7 is the first, and
\* PAD0.
KEY_pad(d) ==
  IF d = 0 THEN \h1FA ELSE \h1C1 + 3 * (2 - (d - 1) \div 3) + ((d - 1) % 3)

Columns == {"normal", "shift", "control", "alt"}

Row(n, s, c, a, e) ==
  [normal |-> n, shift |-> s, control |-> c, alt |-> a, extended |-> e]
Empty == Row(0, 0, 0, 0, 0)

(***************************************************************************)
(* kptab.                                                                  *)
(***************************************************************************)

\* Page up, page down, end, home and the four arrows, then insert: the digit
\* of each of them on the keypad.
NavDigit == <<9, 3, 1, 7, 4, 8, 6, 2>>

\* The rows 0 to 47: the keys that edit and move.
EditRow(vk) ==
  CASE vk = 8  -> Row(\h08, \h08, \h7F, \h1F8, 0)
    [] vk = 9  -> Row(\h09, \h15F, \h1E2, \h1E3, 999)
    [] vk = 12 -> Row(KEY_pad(5), \h35, CTL_PAD(5), ALT_PAD(5), 0)
    [] vk = 13 -> Row(\h0D, \h0D, \h211, \h1EE, 1)
    [] vk = 27 -> Row(\h1B, \h1B, \h1B, \h1EF, 0)
    [] vk = 32 -> Row(\h20, \h20, \h20, \h20, 0)
    [] vk \in 33..40 -> LET d == NavDigit[vk - 32]
                        IN  Row(KEY_pad(d), \h30 + d, CTL_PAD(d), ALT_PAD(d), vk - 30)
    [] vk = 45 -> Row(KEY_pad(0), \h30, CTL_PAD(0), ALT_PAD(0), 11)
    [] vk = 46 -> Row(\h1CE, \h2E, \h1D2, \h1DC, 12)
    [] OTHER   -> Empty

\* What the digits give with the shift key: ) ! @ # $ % ^ & * ( .
ShiftedDigit == <<\h29, \h21, \h40, \h23, \h24, \h25, \h5E, \h26, \h2A, \h28>>

\* The rows 48 to 90: digits and letters.
LetterRow(vk) ==
  CASE vk \in 48..57 -> Row(vk, ShiftedDigit[vk - 47], 0, ALT_digit(vk - 48), 0)
    [] vk \in 65..90 -> Row(vk + 32, vk, vk - 64, ALT_letter(vk - 65), 0)
    [] OTHER         -> Empty

\* The rows 96 to 123: the keypad with NumLock and the function keys.
PadRow(vk) ==
  CASE vk \in 96..105 -> Row(vk - 48, 0, CTL_PAD(vk - 96), ALT_PAD(vk - 96), 0)
    [] vk = 106 -> Row(\h1CF, \h214, \h1D7, \h1DB, 999)
    [] vk = 107 -> Row(\h1D1, \h215, \h1D4, \h1D8, 999)
    [] vk = 109 -> Row(\h1D0, \h216, \h1D5, \h1D9, 999)
    [] vk = 110 -> Row(\h2E, 0, \h1D2, \h1DC, 0)
    [] vk = 111 -> Row(\h1CA, \h213, \h1D6, \h1DA, 2)
    [] vk \in 112..123 -> LET n == vk - 111
                          IN  Row(KEY_F(n), KEY_F(n + 12), KEY_F(n + 24), KEY_F(n + 36), 0)
    [] OTHER    -> Empty

\* The rows 124 to 255: brackets, backslash and quote of a US keyboard.
OemRow(vk) ==
  CASE vk = 219 -> Row(\h5B, \h7B, \h1B, \h1F1, 0)
    [] vk = 220 -> Row(\h5C, \h7C, \h1C, \h210, 0)
    [] vk = 221 -> Row(\h5D, \h7D, \h1D, \h1F2, 0)
    [] vk = 222 -> Row(0, 0, \h27, \h1F4, 0)
    [] OTHER    -> Empty

kptab == [vk \in 0..255 |-> IF vk < 48 THEN EditRow(vk)
                            ELSE IF vk < 96 THEN LetterRow(vk)
                            ELSE IF vk < 124 THEN PadRow(vk) ELSE OemRow(vk)]

\* The rows the enhanced keys have of their own, found by "extended": none,
\* Enter, slash, page up, page down, end, home, left, up, right, down, insert,
\* delete, slash again.
ext_kptab == [i \in 0..13 |->
  <<Empty,                            Row(\h1CB, \h212, \h1CC, \h1CD, 0),
    Row(\h1CA, \h213, \h1D6, \h1DA, 0), Row(\h153, \h18C, \h1BD, \h1E7, 0),
    Row(\h152, \h18A, \h1BE, \h1E8, 0), Row(\h166, \h180, \h1C0, \h1E9, 0),
    Row(\h106, \h184, \h1BF, \h1E6, 0), Row(\h104, \h187, \h1BB, \h1ED, 0),
    Row(\h103, \h223, \h1E0, \h1EA, 0), Row(\h105, \h190, \h1BC, \h1EC, 0),
    Row(\h102, \h224, \h1E1, \h1EB, 0), Row(\h14B, \h185, \h1DD, \h1DF, 0),
    Row(\h14A, \h17D, \h20F, \h1DE, 0), Row(\h1CA, \h213, \h1D6, \h1DA, 0)>>[i + 1]]

(***************************************************************************)
(* The choice between them, at the end of _process_key_event.              *)
(***************************************************************************)

Column(mods) ==
  IF "shift" \in mods THEN "shift"
  ELSE IF "ctrl" \in mods THEN "control"
  ELSE IF mods \cap {"lalt", "ralt"} # {} THEN "alt" ELSE "normal"

Translate(vk, enhanced, mods) ==
  LET ext == kptab[vk].extended
  IN  IF enhanced /\ ext # 999 THEN ext_kptab[ext][Column(mods)]
                               ELSE kptab[vk][Column(mods)]

(***************************************************************************)
(* The same physical key has two virtual keys on the keypad, by NumLock,   *)
(* and the slash of the keypad and the keys marked 999 may be reported     *)
(* enhanced or not.                                                        *)
(***************************************************************************)
Physical(k) ==
  IF k[1] \in 96..105 THEN <<"pad", k[1] - 96>>
  ELSE IF k[1] = 110 THEN <<"pad", 10>>
  ELSE IF k[1] = 111 \/ kptab[k[1]].extended = 999 THEN <<"key", k[1]>>
  ELSE IF k[2] THEN <<"enhanced", k[1]>>
  ELSE IF k[1] \in 33..40 THEN <<"pad", NavDigit[k[1] - 32]>>
  ELSE IF k[1] = 12 THEN <<"pad", 5>>
  ELSE IF k[1] = 45 THEN <<"pad", 0>>
  ELSE IF k[1] = 46 THEN <<"pad", 10>> ELSE <<"key", k[1]>>

SameKey(k1, k2) == Physical(k1) = Physical(k2)

ModsOf(column) ==
  CASE column = "shift" -> {"shift"} [] column = "control" -> {"ctrl"}
    [] column = "alt" -> {"lalt"} [] OTHER -> {}

\* The chords that give a key code, with it.
Given(vk, e, m) == <<vk, e, m, Translate(vk, e, ModsOf(m))>>
Codes ==
  {c \in {Given(vk, e, m) : vk \in 0..255, e \in BOOLEAN, m \in Columns} : c[4] >= KEY_CODE_YES}
=============================================================================
