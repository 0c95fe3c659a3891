---------------------------- MODULE SessionProofs ----------------------------
(***************************************************************************)
(* Proofs about the keyboard and the menu.  The console's buffer is a      *)
(* sequence of typed records; an invariant about what is still in it       *)
(* carries each property over a step: a record is appended by the user, or *)
(* one or two are taken from the front by the program.                     *)
(***************************************************************************)
EXTENDS Session, SequenceFacts, TLAPS

(***************************************************************************)
(* The tables: no entry is the code of a modifier, or KEY_ENTER, which     *)
(* make_choice takes for the end of the choice.                            *)
(***************************************************************************)
ModifierKeys == KEY_SHIFT_LR \cup KEY_CONTROL_LR \cup KEY_ALT_LR
Plain(k) == k \in Int /\ k \notin ModifierKeys /\ k # KEY_ENTER
Extended == 0..13 \cup {999}
IsRow(r) == (\A m \in Columns : Plain(r[m])) /\ r.extended \in Extended

LEMMA LowIsPlain == \A k \in -128..300 : Plain(k)
BY DEF Plain, ModifierKeys, KEY_ENTER, KEY_SHIFT_LR, KEY_CONTROL_LR, KEY_ALT_LR

\* Entries below those of the modifiers.
LEMMA LowRow ==
  ASSUME NEW n \in Nat, NEW s \in Nat, NEW c \in Nat, NEW a \in Nat, NEW e \in Nat,
         n < 540, s < 540, c < 540, a < 540, KEY_ENTER \notin {n, s, c, a}, e < 14 \/ e = 999
  PROVE  IsRow(Row(n, s, c, a, e))
BY DEF Row, IsRow, Columns, Plain, ModifierKeys, KEY_ENTER, KEY_SHIFT_LR, KEY_CONTROL_LR,
       KEY_ALT_LR, Extended

\* The two with an entry above them: the arrows up and down.
LEMMA HighRow ==
  /\ IsRow(Row(\h103, \h223, \h1E0, \h1EA, 0))
  /\ IsRow(Row(\h102, \h224, \h1E1, \h1EB, 0))
BY DEF Row, IsRow, Columns, Plain, ModifierKeys, KEY_ENTER, KEY_SHIFT_LR, KEY_CONTROL_LR,
       KEY_ALT_LR, Extended

LEMMA EmptyIsRow == IsRow(Empty)
BY LowRow DEF KEY_ENTER, Empty

LEMMA PadKeys ==
  ASSUME NEW d \in 0..9
  PROVE  /\ KEY_pad(d) \in Nat /\ KEY_pad(d) < 540 /\ CTL_PAD(d) \in Nat /\ CTL_PAD(d) < 540
         /\ ALT_PAD(d) \in Nat /\ ALT_PAD(d) < 540
         /\ KEY_ENTER \notin {KEY_pad(d), CTL_PAD(d), ALT_PAD(d)}
BY DEF KEY_pad, CTL_PAD, ALT_PAD, KEY_ENTER

LEMMA PadKeyRow ==
  ASSUME NEW d \in 0..9, NEW s \in Nat, NEW e \in Nat, s < 540, s # KEY_ENTER, e < 14
  PROVE  IsRow(Row(KEY_pad(d), s, CTL_PAD(d), ALT_PAD(d), e))
<1>1. /\ KEY_pad(d) \in Nat /\ KEY_pad(d) < 540 /\ CTL_PAD(d) \in Nat /\ CTL_PAD(d) < 540
      /\ ALT_PAD(d) \in Nat /\ ALT_PAD(d) < 540
      /\ KEY_ENTER \notin {KEY_pad(d), CTL_PAD(d), ALT_PAD(d)}
  BY PadKeys
<1> QED
  BY <1>1, LowRow

LEMMA EditRowIsRow == ASSUME NEW vk \in 0..47 PROVE IsRow(EditRow(vk))
<1>1. CASE vk = 8
  <2>1. EditRow(vk) = Row(\h08, \h08, \h7F, \h1F8, 0)
    BY <1>1 DEF EditRow
  <2>2. QED
    BY <2>1, LowRow DEF KEY_ENTER
<1>2. CASE vk = 9
  <2>1. EditRow(vk) = Row(\h09, \h15F, \h1E2, \h1E3, 999)
    BY <1>2 DEF EditRow
  <2>2. QED
    BY <2>1, LowRow DEF KEY_ENTER
<1>3. CASE vk = 12
  <2>1. EditRow(vk) = Row(KEY_pad(5), \h35, CTL_PAD(5), ALT_PAD(5), 0)
    BY <1>3 DEF EditRow
  <2>2. QED
    BY <2>1, PadKeyRow DEF KEY_ENTER
<1>4. CASE vk = 13
  <2>1. EditRow(vk) = Row(\h0D, \h0D, \h211, \h1EE, 1)
    BY <1>4 DEF EditRow
  <2>2. QED
    BY <2>1, LowRow DEF KEY_ENTER
<1>5. CASE vk = 27
  <2>1. EditRow(vk) = Row(\h1B, \h1B, \h1B, \h1EF, 0)
    BY <1>5 DEF EditRow
  <2>2. QED
    BY <2>1, LowRow DEF KEY_ENTER
<1>6. CASE vk = 32
  <2>1. EditRow(vk) = Row(\h20, \h20, \h20, \h20, 0)
    BY <1>6 DEF EditRow
  <2>2. QED
    BY <2>1, LowRow DEF KEY_ENTER
<1>7. CASE vk = 45
  <2>1. EditRow(vk) = Row(KEY_pad(0), \h30, CTL_PAD(0), ALT_PAD(0), 11)
    BY <1>7 DEF EditRow
  <2>2. QED
    BY <2>1, PadKeyRow DEF KEY_ENTER
<1>8. CASE vk = 46
  <2>1. EditRow(vk) = Row(\h1CE, \h2E, \h1D2, \h1DC, 12)
    BY <1>8 DEF EditRow
  <2>2. QED
    BY <2>1, LowRow DEF KEY_ENTER
<1>9. CASE vk \in 33..40
  <2> DEFINE d == NavDigit[vk - 32]
  <2>1. d \in 0..9
    BY <1>9 DEF NavDigit
  <2>2. EditRow(vk) = Row(KEY_pad(d), \h30 + d, CTL_PAD(d), ALT_PAD(d), vk - 30)
    BY <1>9 DEF EditRow
  <2> HIDE DEF d
  <2>3. QED
    BY <1>9, <2>1, <2>2, PadKeyRow DEF KEY_ENTER
<1>10. CASE vk \notin {8, 9, 12, 13, 27, 32, 45, 46} \cup 33..40
  BY <1>10, EmptyIsRow DEF EditRow
<1> QED
  BY <1>1, <1>2, <1>3, <1>4, <1>5, <1>6, <1>7, <1>8, <1>9, <1>10

LEMMA LetterRowIsRow == ASSUME NEW vk \in 0..255 PROVE IsRow(LetterRow(vk))
<1>1. CASE vk \in 48..57
  <2> DEFINE s == ShiftedDigit[vk - 47]
  <2>1. s \in Nat /\ s < 200
    BY <1>1 DEF ShiftedDigit
  <2>2. LetterRow(vk) = Row(vk, s, 0, ALT_digit(vk - 48), 0)
    BY <1>1 DEF LetterRow
  <2> HIDE DEF s
  <2>3. QED
    BY <1>1, <2>1, <2>2, LowRow DEF KEY_ENTER, ALT_digit
<1>2. CASE vk \in 65..90
  <2>1. LetterRow(vk) = Row(vk + 32, vk, vk - 64, \h1A1 + (vk - 65), 0)
    BY <1>2 DEF LetterRow, ALT_letter
  <2>2. QED
    BY <1>2, <2>1, LowRow DEF KEY_ENTER
<1>3. CASE vk \notin 48..57 \cup 65..90
  BY <1>3, EmptyIsRow DEF LetterRow
<1> QED
  BY <1>1, <1>2, <1>3

LEMMA PadRowIsRow == ASSUME NEW vk \in 0..255 PROVE IsRow(PadRow(vk))
<1>1. CASE vk \in 96..105
  <2>1. PadRow(vk) = Row(vk - 48, 0, CTL_PAD(vk - 96), ALT_PAD(vk - 96), 0)
    BY <1>1 DEF PadRow
  <2>2. QED
    <3>1. /\ CTL_PAD(vk - 96) \in Nat /\ CTL_PAD(vk - 96) < 540
          /\ ALT_PAD(vk - 96) \in Nat /\ ALT_PAD(vk - 96) < 540
          /\ KEY_ENTER \notin {CTL_PAD(vk - 96), ALT_PAD(vk - 96)}
      BY <1>1, PadKeys
    <3>2. QED
      BY <1>1, <2>1, <3>1, LowRow DEF KEY_ENTER
<1>2. CASE vk \in 112..123
  <2>1. PadRow(vk) = Row(KEY_F(vk - 111), KEY_F(vk - 111 + 12), KEY_F(vk - 111 + 24), KEY_F(vk - 111 + 36), 0)
    BY <1>2 DEF PadRow
  <2>2. QED
    BY <1>2, <2>1, LowRow DEF KEY_ENTER, KEY_F
<1>3. CASE vk = 106
  <2>1. PadRow(vk) = Row(\h1CF, \h214, \h1D7, \h1DB, 999)
    BY <1>3 DEF PadRow
  <2>2. QED
    BY <2>1, LowRow DEF KEY_ENTER
<1>4. CASE vk = 107
  <2>1. PadRow(vk) = Row(\h1D1, \h215, \h1D4, \h1D8, 999)
    BY <1>4 DEF PadRow
  <2>2. QED
    BY <2>1, LowRow DEF KEY_ENTER
<1>5. CASE vk = 109
  <2>1. PadRow(vk) = Row(\h1D0, \h216, \h1D5, \h1D9, 999)
    BY <1>5 DEF PadRow
  <2>2. QED
    BY <2>1, LowRow DEF KEY_ENTER
<1>6. CASE vk = 110
  <2>1. PadRow(vk) = Row(\h2E, 0, \h1D2, \h1DC, 0)
    BY <1>6 DEF PadRow
  <2>2. QED
    BY <2>1, LowRow DEF KEY_ENTER
<1>7. CASE vk = 111
  <2>1. PadRow(vk) = Row(\h1CA, \h213, \h1D6, \h1DA, 2)
    BY <1>7 DEF PadRow
  <2>2. QED
    BY <2>1, LowRow DEF KEY_ENTER
<1>8. CASE vk \notin {106, 107, 109, 110, 111} \cup 96..105 \cup 112..123
  BY <1>8, EmptyIsRow DEF PadRow
<1> QED
  BY <1>1, <1>2, <1>3, <1>4, <1>5, <1>6, <1>7, <1>8

LEMMA OemRowIsRow == ASSUME NEW vk \in 0..255 PROVE IsRow(OemRow(vk))
<1>1. CASE vk = 219
  <2>1. OemRow(vk) = Row(\h5B, \h7B, \h1B, \h1F1, 0)
    BY <1>1 DEF OemRow
  <2>2. QED
    BY <2>1, LowRow DEF KEY_ENTER
<1>2. CASE vk = 220
  <2>1. OemRow(vk) = Row(\h5C, \h7C, \h1C, \h210, 0)
    BY <1>2 DEF OemRow
  <2>2. QED
    BY <2>1, LowRow DEF KEY_ENTER
<1>3. CASE vk = 221
  <2>1. OemRow(vk) = Row(\h5D, \h7D, \h1D, \h1F2, 0)
    BY <1>3 DEF OemRow
  <2>2. QED
    BY <2>1, LowRow DEF KEY_ENTER
<1>4. CASE vk = 222
  <2>1. OemRow(vk) = Row(0, 0, \h27, \h1F4, 0)
    BY <1>4 DEF OemRow
  <2>2. QED
    BY <2>1, LowRow DEF KEY_ENTER
<1>5. CASE ~ (vk = 219 \/ vk = 220 \/ vk = 221 \/ vk = 222)
  BY <1>5, EmptyIsRow DEF OemRow
<1> QED
  BY <1>1, <1>2, <1>3, <1>4, <1>5

LEMMA TableIsRows == \A vk \in 0..255 : IsRow(kptab[vk])
<1> SUFFICES ASSUME NEW vk \in 0..255 PROVE IsRow(kptab[vk])
  OBVIOUS
<1>1. kptab[vk] = IF vk < 48 THEN EditRow(vk)
                  ELSE IF vk < 96 THEN LetterRow(vk)
                  ELSE IF vk < 124 THEN PadRow(vk) ELSE OemRow(vk)
  BY Zenon DEF kptab
<1>2. IsRow(LetterRow(vk)) /\ IsRow(PadRow(vk)) /\ IsRow(OemRow(vk))
  BY LetterRowIsRow, PadRowIsRow, OemRowIsRow
<1>3. vk < 48 => IsRow(EditRow(vk))
  <2>1. vk < 48 => vk \in 0..47
    OBVIOUS
  <2>2. QED
    BY <2>1, EditRowIsRow
<1> QED
  BY <1>1, <1>2, <1>3, ZenonT(60)

LEMMA ExtendedIsRows == \A i \in 0..13 : IsRow(ext_kptab[i])
<1> SUFFICES ASSUME NEW i \in 0..13 PROVE IsRow(ext_kptab[i])
  OBVIOUS
<1>1. CASE i = 0
  BY <1>1, EmptyIsRow DEF ext_kptab
<1>2. CASE i = 1
  <2>1. ext_kptab[i] = Row(\h1CB, \h212, \h1CC, \h1CD, 0)
    BY <1>2 DEF ext_kptab
  <2>2. QED
    BY <2>1, LowRow DEF KEY_ENTER
<1>3. CASE i = 2
  <2>1. ext_kptab[i] = Row(\h1CA, \h213, \h1D6, \h1DA, 0)
    BY <1>3 DEF ext_kptab
  <2>2. QED
    BY <2>1, LowRow DEF KEY_ENTER
<1>4. CASE i = 3
  <2>1. ext_kptab[i] = Row(\h153, \h18C, \h1BD, \h1E7, 0)
    BY <1>4 DEF ext_kptab
  <2>2. QED
    BY <2>1, LowRow DEF KEY_ENTER
<1>5. CASE i = 4
  <2>1. ext_kptab[i] = Row(\h152, \h18A, \h1BE, \h1E8, 0)
    BY <1>5 DEF ext_kptab
  <2>2. QED
    BY <2>1, LowRow DEF KEY_ENTER
<1>6. CASE i = 5
  <2>1. ext_kptab[i] = Row(\h166, \h180, \h1C0, \h1E9, 0)
    BY <1>6 DEF ext_kptab
  <2>2. QED
    BY <2>1, LowRow DEF KEY_ENTER
<1>7. CASE i = 6
  <2>1. ext_kptab[i] = Row(\h106, \h184, \h1BF, \h1E6, 0)
    BY <1>7 DEF ext_kptab
  <2>2. QED
    BY <2>1, LowRow DEF KEY_ENTER
<1>8. CASE i = 7
  <2>1. ext_kptab[i] = Row(\h104, \h187, \h1BB, \h1ED, 0)
    BY <1>8 DEF ext_kptab
  <2>2. QED
    BY <2>1, LowRow DEF KEY_ENTER
<1>9. CASE i = 8
  <2>1. ext_kptab[i] = Row(\h103, \h223, \h1E0, \h1EA, 0)
    BY <1>9 DEF ext_kptab
  <2>2. QED
    BY <2>1, HighRow
<1>10. CASE i = 9
  <2>1. ext_kptab[i] = Row(\h105, \h190, \h1BC, \h1EC, 0)
    BY <1>10 DEF ext_kptab
  <2>2. QED
    BY <2>1, LowRow DEF KEY_ENTER
<1>11. CASE i = 10
  <2>1. ext_kptab[i] = Row(\h102, \h224, \h1E1, \h1EB, 0)
    BY <1>11 DEF ext_kptab
  <2>2. QED
    BY <2>1, HighRow
<1>12. CASE i = 11
  <2>1. ext_kptab[i] = Row(\h14B, \h185, \h1DD, \h1DF, 0)
    BY <1>12 DEF ext_kptab
  <2>2. QED
    BY <2>1, LowRow DEF KEY_ENTER
<1>13. CASE i = 12
  <2>1. ext_kptab[i] = Row(\h14A, \h17D, \h20F, \h1DE, 0)
    BY <1>13 DEF ext_kptab
  <2>2. QED
    BY <2>1, LowRow DEF KEY_ENTER
<1>14. CASE i = 13
  <2>1. ext_kptab[i] = Row(\h1CA, \h213, \h1D6, \h1DA, 0)
    BY <1>14 DEF ext_kptab
  <2>2. QED
    BY <2>1, LowRow DEF KEY_ENTER
<1> QED
  BY <1>1, <1>2, <1>3, <1>4, <1>5, <1>6, <1>7, <1>8, <1>9, <1>10, <1>11, <1>12, <1>13, <1>14

\* Translate gives a key, and neither a modifier nor KEY_ENTER.
LEMMA TranslateIsPlain ==
  ASSUME NEW vk \in 0..255, NEW e \in BOOLEAN, NEW mods PROVE Plain(Translate(vk, e, mods))
<1>1. Column(mods) \in Columns
  BY DEF Column, Columns
<1>2. IsRow(kptab[vk])
  BY TableIsRows
<1>3. kptab[vk].extended # 999 => IsRow(ext_kptab[kptab[vk].extended])
  BY <1>2, ExtendedIsRows DEF IsRow, Extended
<1> QED
  BY <1>1, <1>2, <1>3 DEF Translate, IsRow

(***************************************************************************)
(* What the console's buffer holds.                                        *)
(***************************************************************************)
Places == (1..Largest[1]) \X (1..Largest[2])

KeyRecord ==
  [type : {"key"}, down : BOOLEAN, vk : 0..255, char : 0..255, dead : BOOLEAN,
   mods : SUBSET {"shift", "ctrl", "lalt", "ralt"}, enhanced : BOOLEAN, rep : Reps]
MouseRecord ==
  [type : {"mouse"}, buttons : SUBSET Buttons, flags : {0, 1, 2, 4, 8}, place : {0, 1}]
SizeRecord == [type : {"size"}, size : Places]
Record == KeyRecord \cup MouseRecord \cup SizeRecord \cup {NoRecord}

LEMMA RecordByType ==
  ASSUME NEW r \in Record
  PROVE  /\ r.type \in {"key", "mouse", "size", "focus"}
         /\ r.type = "key" => r \in KeyRecord
         /\ r.type = "mouse" => r \in MouseRecord
         /\ r.type = "size" => r \in SizeRecord
<1>1. CASE r \in KeyRecord
  BY <1>1 DEF KeyRecord
<1>2. CASE r \in MouseRecord
  BY <1>2 DEF MouseRecord
<1>3. CASE r \in SizeRecord
  BY <1>3 DEF SizeRecord
<1>4. CASE r = NoRecord
  BY <1>4 DEF NoRecord
<1> QED
  BY <1>1, <1>2, <1>3, <1>4 DEF Record

\* A nonempty buffer has a first record and a rest.
LEMMA FirstAndRest ==
  ASSUME NEW q \in Seq(Record), q # <<>>
  PROVE  /\ Head(q) \in Record /\ Tail(q) \in Seq(Record)
         /\ Len(q) \in Nat /\ Len(q) >= 1 /\ Len(Tail(q)) = Len(q) - 1
         /\ Head(q) = q[1] /\ \A i \in 1..Len(q) - 1 : Tail(q)[i] = q[i + 1]
BY HeadTailProperties

(***************************************************************************)
(* The kernel of every invariant: types, the counts and what save_ip holds *)
(* while a key is repeated or a click is awaited.                          *)
(***************************************************************************)
ConsoleTypes ==
  /\ input \in Seq(Record) /\ window \in Places /\ held \in SUBSET Buttons
  /\ at \in {0, 1} /\ trap \in BOOLEAN /\ returnModifiers \in BOOLEAN

KeyboardTypes ==
  /\ save_ip \in Record /\ event_count \in Nat /\ key_count \in Nat
  /\ save_press \in Modifiers \cup {0} /\ seen \in SUBSET Buttons
  /\ old_mouse \in [button : [Buttons -> 0..5], place : {0, 1}]
  /\ kpc \in KeyStates /\ got \in Int

ResizeTypes ==
  /\ known \in Places /\ resized \in BOOLEAN /\ want \in Nat \X Nat
  /\ kpc = "width" => want[1] \in 1..Largest[1]
  /\ kpc = "set" => want \in Places

MenuTypes ==
  /\ phase \in {"menu", "path", "discovery", "listen", "over"} /\ option \in 0..Rows - 1
  /\ unanswered \in BOOLEAN

Types == ConsoleTypes /\ KeyboardTypes /\ ResizeTypes /\ MenuTypes

Waiting ==
  /\ key_count > 0 => save_ip.type = "key" /\ save_ip.down /\ save_ip.vk \notin Modifiers
  /\ kpc = "nap" => save_ip.type = "mouse" /\ IsPress(save_ip)

IInv == Types /\ EventCountSound /\ Waiting

LEMMA InitInv == Init => IInv
<1> SUFFICES ASSUME Init PROVE IInv
  OBVIOUS
<1>1. window \in Places /\ <<0, 0>> \in Nat \X Nat
  BY KeyboardAssumption DEF Init, KeyInit, Places
<1>2. ConsoleTypes
  <2>1. \E s \in Settings : trap = s[1] /\ returnModifiers = s[2]
    BY DEF Init, KeyInit
  <2>2. trap \in BOOLEAN /\ returnModifiers \in BOOLEAN
    BY <2>1, KeyboardAssumption
  <2>3. input \in Seq(Record)
    BY DEF Init, KeyInit
  <2>4. QED
    BY <1>1, <2>2, <2>3 DEF Init, KeyInit, ConsoleTypes
<1>3. KeyboardTypes
  BY DEF Init, KeyInit, KeyboardTypes, Record, NoButton, RELEASED, KeyStates
<1>4. ResizeTypes
  BY <1>1 DEF Init, KeyInit, ResizeTypes
<1>5. MenuTypes
  <2>1. 0 \in 0..Rows - 1
    BY SessionAssumption
  <2>2. unanswered \in BOOLEAN
    BY DEF Init
  <2>3. QED
    BY <2>1, <2>2 DEF Init, MenuTypes
<1>6. EventCountSound /\ Waiting
  BY DEF Init, KeyInit, EventCountSound, Waiting
<1> QED
  BY <1>2, <1>3, <1>4, <1>5, <1>6 DEF IInv, Types

(***************************************************************************)
(* What a step of the user does, as far as the invariants see it.          *)
(***************************************************************************)
UserSame ==
  UNCHANGED <<settings, save_ip, event_count, key_count, save_press, mouseVars,
              resizeVars, kpc, got, alone, cut, phase, option, drawn, unanswered>>

\* A press, or a release, with b down: it makes b known again.
Wheel(r) == r.flags \in {4, 8}
Renews(r, b) == r.type = "mouse" /\ r.flags \in {0, 2} /\ b \in r.buttons

\* The record that arrives, and what is due of it: a record that is not of the
\* mouse, the new size of the window, or the buttons held from now on.  A button
\* held while the wheel turns is in wheeled until a record renews it.
Came(r) ==
  /\ input' = Append(input, r)
  /\ owed' = owed \o Due(r)
  /\ \/ r.type \in {"key", "focus"} /\ UNCHANGED <<window, held, wheeled>>
     \/ r.type = "size" /\ r.size = window' /\ UNCHANGED <<held, wheeled>>
     \/ /\ r.type = "mouse" /\ r.buttons = held' /\ UNCHANGED window
        /\ r.flags \notin {0, 2} => UNCHANGED held
        /\ held \subseteq held' \/ held' \subseteq held
        /\ \A b \in wheeled \cup (IF Wheel(r) THEN r.buttons ELSE {}) :
             b \in wheeled' \/ Renews(r, b)

LEMMA MouseIsRecord ==
  ASSUME NEW b \in SUBSET Buttons, NEW f \in {0, 1, 2, 4, 8}, NEW p \in {0, 1}
  PROVE  /\ Mouse(b, f, p) \in Record /\ Mouse(b, f, p).type = "mouse"
         /\ Mouse(b, f, p).buttons = b /\ Mouse(b, f, p).flags = f
BY DEF Mouse, Record, MouseRecord

LEMMA UserStep ==
  ASSUME ConsoleTypes, User
  PROVE  /\ UserSame /\ \E r \in Record : Came(r)
         /\ window' \in Places /\ held' \in SUBSET Buttons /\ at' \in {0, 1}
<1> USE DEF ConsoleTypes
<1>1. CASE \E k \in Keys, n \in Reps : Press(k, n)
  <2>1. PICK k \in Keys, n \in Reps : Press(k, n)
    BY <1>1
  <2> DEFINE r == [type |-> "key", down |-> k.down, vk |-> k.vk, char |-> k.char, dead |-> k.dead,
                   mods |-> k.mods, enhanced |-> k.enhanced, rep |-> n]
  <2>2. r \in Record /\ r.type = "key"
    BY KeyboardAssumption DEF KeyInput, Record, KeyRecord
  <2>3. Came(r)
    BY <2>1, <2>2 DEF Came, Press, Arrives, ProgramSame
  <2> HIDE DEF r
  <2>4. QED
    BY <2>1, <2>2, <2>3 DEF User, Press, ProgramSame, UserSame
<1>2. CASE \E b \in Buttons, f \in Flags : PushButton(b, f)
  <2>1. PICK b \in Buttons, f \in Flags : PushButton(b, f)
    BY <1>2
  <2>2. held' \in SUBSET Buttons /\ f \in {0, 2}
    BY <2>1, KeyboardAssumption DEF PushButton
  <2>3. /\ Mouse(held', f, at) \in Record /\ Mouse(held', f, at).type = "mouse"
        /\ Mouse(held', f, at).buttons = held' /\ Mouse(held', f, at).flags = f
    BY <2>2, MouseIsRecord
  <2>4. PICK r \in Record : /\ r.type = "mouse" /\ r.buttons = held' /\ r.flags \in {0, 2}
                             /\ input' = Append(input, r) /\ owed' = owed \o Due(r)
    BY <2>1, <2>2, <2>3 DEF PushButton, Arrives
  <2>5. /\ UNCHANGED window /\ held \subseteq held' /\ ~Wheel(r)
        /\ \A c \in wheeled : c \in wheeled' \/ Renews(r, c)
    BY <2>1, <2>4 DEF PushButton, Wheel, Renews
  <2>6. Came(r)
    BY <2>4, <2>5 DEF Came
  <2>7. QED
    BY <2>1, <2>2, <2>6 DEF User, PushButton, ProgramSame, UserSame
<1>3. CASE \E b \in Buttons : LetButtonGo(b)
  <2>1. PICK b \in Buttons : LetButtonGo(b)
    BY <1>3
  <2>2. held' \in SUBSET Buttons
    BY <2>1 DEF LetButtonGo
  <2>3. /\ Mouse(held', 0, at) \in Record /\ Mouse(held', 0, at).type = "mouse"
        /\ Mouse(held', 0, at).buttons = held' /\ Mouse(held', 0, at).flags = 0
    BY <2>2, MouseIsRecord
  <2>4. PICK r \in Record : /\ r.type = "mouse" /\ r.buttons = held' /\ r.flags \in {0, 2}
                             /\ input' = Append(input, r) /\ owed' = owed \o Due(r)
    BY <2>1, <2>2, <2>3 DEF LetButtonGo, Arrives
  <2>5. UNCHANGED <<window, wheeled>> /\ held' \subseteq held /\ ~Wheel(r)
    BY <2>1, <2>4 DEF LetButtonGo, Wheel
  <2>6. Came(r)
    BY <2>4, <2>5 DEF Came
  <2>7. QED
    BY <2>1, <2>2, <2>6 DEF User, LetButtonGo, ProgramSame, UserSame
<1>4. CASE \E moved \in BOOLEAN : MoveMouse(moved)
  <2>1. PICK moved \in BOOLEAN : MoveMouse(moved)
    BY <1>4
  <2>2. at' \in {0, 1}
    BY <2>1 DEF MoveMouse
  <2>3. /\ Mouse(held, 1, at') \in Record /\ Mouse(held, 1, at').type = "mouse"
        /\ Mouse(held, 1, at').buttons = held /\ Mouse(held, 1, at').flags = 1
    BY <2>2, MouseIsRecord
  <2>4. Came(Mouse(held, 1, at'))
    BY <2>1, <2>2, <2>3 DEF Came, MoveMouse, Arrives, ProgramSame, Wheel
  <2>5. QED
    BY <2>1, <2>2, <2>3, <2>4 DEF User, MoveMouse, ProgramSame, UserSame
<1>5. CASE \E f \in {4, 8} : TurnWheel(f)
  <2>1. PICK f \in {4, 8} : TurnWheel(f)
    BY <1>5
  <2>2. /\ Mouse(held, f, at) \in Record /\ Mouse(held, f, at).type = "mouse"
        /\ Mouse(held, f, at).buttons = held /\ Mouse(held, f, at).flags = f
    BY MouseIsRecord
  <2>3. UNCHANGED <<window, held>> /\ wheeled' = wheeled \cup held
    BY <2>1 DEF TurnWheel
  <2>4. Came(Mouse(held, f, at))
    BY <2>1, <2>2, <2>3 DEF Came, TurnWheel, Arrives
  <2>5. QED
    BY <2>1, <2>2, <2>4 DEF User, TurnWheel, ProgramSame, UserSame
<1>6. CASE Focus
  <2>1. NoRecord \in Record /\ NoRecord.type = "focus" /\ Came(NoRecord)
    BY <1>6 DEF NoRecord, Record, Came, Focus, Arrives, ProgramSame
  <2>2. QED
    BY <1>6, <2>1 DEF User, Focus, ProgramSame, UserSame
<1>7. CASE \E s \in Sizes : ResizeWindow(s)
  <2>1. PICK s \in Sizes : ResizeWindow(s)
    BY <1>7
  <2>2. s \in Places
    BY KeyboardAssumption DEF Places
  <2> DEFINE r == [type |-> "size", size |-> s]
  <2>3. r \in Record /\ r.type = "size" /\ r.size = s
    BY <2>2 DEF Record, SizeRecord
  <2>4. Came(r)
    BY <2>1, <2>3 DEF Came, ResizeWindow, Arrives, ProgramSame
  <2> HIDE DEF r
  <2>5. QED
    BY <2>1, <2>2, <2>3, <2>4 DEF User, ResizeWindow, ProgramSame, UserSame
<1> QED
  BY <1>1, <1>2, <1>3, <1>4, <1>5, <1>6, <1>7 DEF User

(***************************************************************************)
(* The keys of a record, and how many.                                     *)
(***************************************************************************)
LEMMA ProcessKeys ==
  ASSUME NEW r \in KeyRecord, returnModifiers \in BOOLEAN, NEW key \in Process(r)
  PROVE  /\ key \in Int
         /\ r.vk \notin Modifiers \/ (r.vk = VK_MENU /\ r.char # 0) => Plain(key)
         /\ r.vk = VK_SHIFT => key \in KEY_SHIFT_LR \cup {-1}
         /\ r.vk = VK_CONTROL => key \in KEY_CONTROL_LR \cup {-1}
         /\ r.vk = VK_MENU /\ r.char = 0 => key \in KEY_ALT_LR \cup {-1}
<1>1. /\ r.vk \in 0..255 /\ r.char \in 0..255 /\ r.enhanced \in BOOLEAN
  BY DEF KeyRecord
<1>2. CASE r.vk = VK_SHIFT
  BY <1>2 DEF Process, VK_SHIFT, VK_CONTROL, VK_MENU, Modifiers, KEY_SHIFT_LR
<1>3. CASE r.vk = VK_CONTROL
  BY <1>3 DEF Process, VK_SHIFT, VK_CONTROL, VK_MENU, Modifiers, KEY_CONTROL_LR
<1>4. CASE r.vk = VK_MENU /\ r.char = 0
  BY <1>4 DEF Process, VK_SHIFT, VK_CONTROL, VK_MENU, Modifiers, KEY_ALT_LR
<1>5. CASE ~(r.vk \in {VK_SHIFT, VK_CONTROL} \/ (r.vk = VK_MENU /\ r.char = 0))
  <2>1. Process(r) = {Ascii(r.char)} \/ Process(r) = {Translate(r.vk, r.enhanced, r.mods)}
    BY <1>5 DEF Process
  <2>2. Ascii(r.char) \in -128..300
    BY <1>1 DEF Ascii
  <2>3. Plain(Ascii(r.char)) /\ Plain(Translate(r.vk, r.enhanced, r.mods))
    BY <1>1, <2>2, LowIsPlain, TranslateIsPlain
  <2>4. Plain(key)
    BY <2>1, <2>3
  <2>5. QED
    BY <1>5, <2>4 DEF Plain, VK_SHIFT, VK_CONTROL, VK_MENU
<1> QED
  BY <1>2, <1>3, <1>4, <1>5

LEMMA NumKeysOf ==
  ASSUME NEW r \in KeyRecord, save_press \in Modifiers \cup {0}
  PROVE  /\ NumKeys(r) \in Nat /\ SavePress(r) \in Modifiers \cup {0}
         /\ r.down /\ NumKeys(r) > 0 => r.vk \notin Modifiers
         /\ ~r.down => NumKeys(r) <= 1
         /\ ~r.down /\ NumKeys(r) > 0 => (r.vk = VK_MENU /\ r.char # 0) \/ r.vk = save_press
<1>1. r.rep \in Nat
  BY KeyboardAssumption DEF KeyRecord
<1> QED
  BY <1>1 DEF NumKeys, SavePress, Modifiers, VK_SHIFT, VK_CONTROL, VK_MENU, Locks

(***************************************************************************)
(* The mouse.                                                              *)
(***************************************************************************)
LEMMA ReportStep ==
  ASSUME NEW r \in MouseRecord, NEW clicked \in SUBSET Buttons, KeyboardTypes,
         Report(r, clicked)
  PROVE  /\ old_mouse' \in [button : [Buttons -> 0..5], place : {0, 1}]
         /\ seen' \in SUBSET Buttons
         /\ \/ got' = -1 /\ kpc' = "look"
            \/ got' = KEY_MOUSE /\ kpc' = "act"
<1> DEFINE button == ButtonsOf(r, clicked)
<1>1. /\ \A b \in Buttons : button[b] \in 0..5
      /\ Remembered(button) \in [Buttons -> 0..5]
  BY DEF ButtonsOf, Remembered, RELEASED, PRESSED, CLICKED, DOUBLE_CLICKED, MOVED
<1>2. r.place \in {0, 1}
  BY DEF MouseRecord
<1>3. \/ got' = -1 /\ kpc' = "look" /\ UNCHANGED mouseVars
      \/ /\ got' = KEY_MOUSE /\ kpc' = "act" /\ seen' \in SUBSET Buttons
         /\ old_mouse' = [button |-> Remembered(button), place |-> r.place]
  BY DEF Report, Returns, KEY_MOUSE, KeyboardTypes
<1> HIDE DEF button
<1>4. CASE UNCHANGED mouseVars
  BY <1>3, <1>4 DEF KeyboardTypes, mouseVars
<1>5. CASE ~UNCHANGED mouseVars
  BY <1>1, <1>2, <1>3, <1>5
<1> QED
  BY <1>3, <1>4, <1>5

\* The record that a click throws out.
Thrown(r, rest, clicked) ==
  /\ rest # <<>> /\ input' = Tail(rest) /\ clicked # {}
  /\ \/ Head(rest).type = "mouse" /\ clicked = r.buttons \ Head(rest).buttons /\ cut' = cut
     \/ Head(rest).type # "mouse" /\ cut' = cut \cup {"thrown"}

LEMMA CompleteStep ==
  ASSUME NEW r \in MouseRecord, NEW rest \in Seq(Record), Complete(r, rest)
  PROVE  \E clicked \in SUBSET Buttons :
           /\ clicked \subseteq r.buttons /\ Report(r, clicked)
           /\ \/ clicked = {} /\ input' = rest /\ cut' = cut
              \/ Thrown(r, rest, clicked)
<1>1. r.buttons \in SUBSET Buttons
  BY DEF MouseRecord
<1>2. PICK buttons \in (IF rest = <<>> THEN {Buttons} ELSE Peeked(Head(rest))) :
         /\ Report(r, r.buttons \ buttons)
         /\ input' = IF r.buttons \ buttons = {} THEN rest ELSE Tail(rest)
         /\ cut' = IF r.buttons \ buttons # {} /\ Head(rest).type # "mouse"
                   THEN cut \cup {"thrown"} ELSE cut
  BY DEF Complete
<1>3. CASE r.buttons \ buttons = {}
  BY <1>1, <1>2, <1>3
<1>4. CASE r.buttons \ buttons # {}
  <2>1. rest # <<>>
    BY <1>1, <1>2, <1>4
  <2>2. buttons \in Peeked(Head(rest))
    BY <1>2, <2>1
  <2>3. Head(rest).type = "mouse" => buttons = Head(rest).buttons
    BY <2>2 DEF Peeked
  <2>4. Thrown(r, rest, r.buttons \ buttons)
    BY <1>2, <1>4, <2>1, <2>3 DEF Thrown
  <2>5. QED
    BY <1>1, <1>2, <2>4
<1> QED
  BY <1>3, <1>4

(***************************************************************************)
(* The kernel holds in every reachable state.                              *)
(***************************************************************************)
LEMMA AfterReturn ==
  ASSUME ResizeTypes, kpc' \in {"look", "act"}, UNCHANGED <<known, want>>, resized' \in BOOLEAN
  PROVE  ResizeTypes' /\ EventCountSound'
BY DEF ResizeTypes, EventCountSound

LEMMA SameSession ==
  ASSUME MenuTypes, UNCHANGED sessionVars
  PROVE  MenuTypes'
<1>1. UNCHANGED <<phase, option, unanswered>>
  BY DEF sessionVars
<1>2. unanswered' \in BOOLEAN
  BY <1>1 DEF MenuTypes
<1> QED
  BY <1>1, <1>2 DEF MenuTypes

LEMMA UserInv == IInv /\ User => IInv'
<1> SUFFICES ASSUME IInv, User PROVE IInv'
  OBVIOUS
<1> USE DEF IInv, Types
<1>1. /\ UserSame /\ window' \in Places /\ held' \in SUBSET Buttons /\ at' \in {0, 1}
  BY UserStep
<1>2. PICK r \in Record : input' = Append(input, r)
  BY UserStep DEF Came
<1>3. /\ input' \in Seq(Record) /\ Len(input) \in Nat /\ Len(input') = Len(input) + 1
  BY <1>2, AppendProperties DEF ConsoleTypes
<1>4. ConsoleTypes'
  <2>1. trap' \in BOOLEAN /\ returnModifiers' \in BOOLEAN
    BY <1>1 DEF UserSame, settings, ConsoleTypes
  <2>2. QED
    BY <1>1, <1>3, <2>1 DEF ConsoleTypes
<1>5. KeyboardTypes'
  BY <1>1 DEF UserSame, mouseVars, KeyboardTypes
<1>6. ResizeTypes'
  <2>1. resized' \in BOOLEAN
    BY <1>1 DEF UserSame, resizeVars, ResizeTypes
  <2>2. QED
    BY <1>1, <2>1 DEF UserSame, resizeVars, ResizeTypes
<1>7. MenuTypes'
  <2>1. unanswered' \in BOOLEAN
    BY <1>1 DEF UserSame, MenuTypes
  <2>2. QED
    BY <1>1, <2>1 DEF UserSame, MenuTypes
<1>8. EventCountSound'
  <2>1. event_count \in Nat /\ UNCHANGED <<kpc, key_count, event_count>>
    BY <1>1 DEF UserSame, KeyboardTypes
  <2>2. QED
    BY <1>3, <2>1 DEF EventCountSound
<1>9. Waiting'
  BY <1>1 DEF UserSame, Waiting, IsPress
<1> QED
  BY <1>4, <1>5, <1>6, <1>7, <1>8, <1>9

\* What the steps of the keyboard leave alone.
KeypadSame == UNCHANGED <<window, held, at, settings, known, want, wheeled>>

LEMMA KeypadLeaves == Keypad => KeypadSame
BY DEF Keypad, CheckKey, GetRepeat, GetKey, GetFocus, GetSize, GetMouse, NapOver, KeypadSame,
       consoleVars, resizeVars, history

LEMMA ConsoleStays ==
  ASSUME ConsoleTypes, UNCHANGED <<window, held, at, settings>>, input' \in Seq(Record)
  PROVE  ConsoleTypes'
<1>1. trap' \in BOOLEAN /\ returnModifiers' \in BOOLEAN
  BY DEF settings, ConsoleTypes
<1> QED
  BY <1>1 DEF ConsoleTypes

LEMMA KeypadInv == IInv /\ Keypad /\ UNCHANGED sessionVars => IInv'
<1> SUFFICES ASSUME IInv, Keypad, UNCHANGED sessionVars PROVE IInv'
  OBVIOUS
<1> USE DEF IInv, Types
<1>1. KeypadSame /\ MenuTypes'
  BY KeypadLeaves, SameSession
<1>2. returnModifiers \in BOOLEAN /\ input \in Seq(Record) /\ Len(input) \in Nat
  BY LenProperties DEF ConsoleTypes
<1>3. CASE CheckKey
  <2>1. UNCHANGED <<input, save_ip, key_count, save_press, old_mouse, seen, resized, got>>
    BY <1>3 DEF CheckKey, consoleVars, mouseVars, resizeVars
  <2>2. /\ key_count > 0 => kpc' = "get" /\ event_count' = event_count
        /\ ~(key_count > 0) => /\ event_count' = Len(input)
                               /\ kpc' = IF input = <<>> THEN "look" ELSE "get"
    BY <1>3 DEF CheckKey
  <2>3. kpc' \in {"look", "get"} /\ event_count' \in Nat
    BY <1>2, <2>2 DEF KeyboardTypes
  <2>4. ConsoleTypes'
    BY <1>1, <1>2, <2>1, ConsoleStays DEF KeypadSame
  <2>5. KeyboardTypes'
    BY <2>1, <2>3 DEF KeyboardTypes, KeyStates
  <2>6. ResizeTypes'
    <3>1. resized' \in BOOLEAN
      BY <2>1 DEF ResizeTypes
    <3>2. QED
      BY <1>1, <2>3, <3>1 DEF ResizeTypes, KeypadSame
  <2>7. EventCountSound'
    <3>1. key_count = 0 /\ kpc' = "get" => event_count' \in 1..Len(input')
      BY <1>2, <2>1, <2>2, EmptySeq
    <3>2. QED
      BY <2>1, <2>3, <3>1 DEF EventCountSound
  <2>8. Waiting'
    BY <2>1, <2>3 DEF Waiting
  <2>9. QED
    BY <1>1, <2>4, <2>5, <2>6, <2>7, <2>8
<1>4. CASE GetRepeat
  <2>1. UNCHANGED <<input, save_ip, event_count, save_press, old_mouse, seen, resized>>
    BY <1>4 DEF GetRepeat, consoleVars, mouseVars, resizeVars
  <2>2. key_count > 0 /\ key_count' = key_count - 1
    BY <1>4 DEF GetRepeat
  <2>3. PICK key \in Process(save_ip) : got' = key /\ kpc' \in {"look", "act"}
    BY <1>4 DEF GetRepeat, Gives, Returns
  <2>4. save_ip \in KeyRecord
    BY <2>2, RecordByType DEF Waiting, KeyboardTypes
  <2>5. got' \in Int
    BY <1>2, <2>3, <2>4, ProcessKeys
  <2>6. ConsoleTypes'
    BY <1>1, <1>2, <2>1, ConsoleStays DEF KeypadSame
  <2>7. KeyboardTypes'
    BY <2>1, <2>2, <2>3, <2>5 DEF KeyboardTypes, KeyStates
  <2>8. ResizeTypes' /\ EventCountSound'
    <3>1. resized' \in BOOLEAN
      BY <2>1 DEF ResizeTypes
    <3>2. QED
      BY <1>1, <2>3, <3>1, AfterReturn DEF KeypadSame
  <2>9. Waiting'
    BY <2>1, <2>2, <2>3 DEF Waiting
  <2>10. QED
    BY <1>1, <2>6, <2>7, <2>8, <2>9
<1>5. CASE GetKey
  <2>1. UNCHANGED <<old_mouse, seen, resized>>
    BY <1>5 DEF GetKey, mouseVars, resizeVars
  <2>2. /\ kpc = "get" /\ key_count = 0 /\ input # <<>> /\ save_ip' = Head(input)
        /\ input' = Tail(input) /\ event_count' = event_count - 1
    BY <1>5 DEF GetKey, Read
  <2>3. save_ip' \in KeyRecord /\ save_ip' \in Record /\ input' \in Seq(Record)
    BY <1>2, <1>5, <2>2, FirstAndRest, RecordByType DEF GetKey
  <2>4. PICK r \in KeyRecord : r = Head(input)
    BY <2>2, <2>3
  <2>5. /\ save_press' = SavePress(r)
        /\ \/ NumKeys(r) = 0 /\ key_count' = 0 /\ got' = -1 /\ kpc' = "look"
           \/ /\ NumKeys(r) # 0 /\ key_count' = NumKeys(r) - 1
              /\ \E key \in Process(r) : got' = key /\ kpc' \in {"look", "act"}
    BY <1>5, <2>4 DEF GetKey, Gives, Returns
  <2>6. save_press \in Modifiers \cup {0}
    BY DEF KeyboardTypes
  <2>7. /\ NumKeys(r) \in Nat /\ SavePress(r) \in Modifiers \cup {0}
        /\ r.down /\ NumKeys(r) > 0 => r.vk \notin Modifiers
        /\ ~r.down => NumKeys(r) <= 1
    BY <2>6, NumKeysOf
  <2>8. key_count' \in Nat /\ (key_count' > 0 => r.down /\ r.vk \notin Modifiers)
    BY <2>5, <2>7 DEF KeyRecord
  <2>9. got' \in Int /\ kpc' \in {"look", "act"}
    BY <1>2, <2>5, ProcessKeys
  <2>10. event_count' \in Nat
    BY <1>2, <2>2 DEF EventCountSound
  <2>11. ConsoleTypes'
    BY <1>1, <2>3, ConsoleStays DEF KeypadSame
  <2>12. KeyboardTypes'
    BY <2>1, <2>3, <2>5, <2>7, <2>8, <2>9, <2>10 DEF KeyboardTypes, KeyStates
  <2>13. ResizeTypes' /\ EventCountSound'
    <3>1. resized' \in BOOLEAN
      BY <2>1 DEF ResizeTypes
    <3>2. QED
      BY <1>1, <2>9, <3>1, AfterReturn DEF KeypadSame
  <2>14. Waiting'
    <3>1. r.type = "key" /\ save_ip' = r
      BY <2>2, <2>4 DEF KeyRecord
    <3>2. QED
      BY <2>8, <2>9, <3>1 DEF Waiting
  <2>15. QED
    BY <1>1, <2>11, <2>12, <2>13, <2>14
<1>6. CASE GetFocus \/ GetSize
  <2>1. UNCHANGED <<key_count, save_press, old_mouse, seen>>
    BY <1>6 DEF GetFocus, GetSize, mouseVars
  <2>2. /\ kpc = "get" /\ key_count = 0 /\ input # <<>> /\ save_ip' = Head(input)
        /\ input' = Tail(input) /\ event_count' = event_count - 1
    BY <1>6 DEF GetFocus, GetSize, Read
  <2>3. save_ip' \in Record /\ input' \in Seq(Record)
    BY <1>2, <2>2, FirstAndRest
  <2>4. got' \in Int /\ kpc' \in {"look", "act"}
    BY <1>6 DEF GetFocus, GetSize, Returns, KEY_RESIZE
  <2>5. resized' \in BOOLEAN
    <3>1. resized' = TRUE \/ resized' = resized
      BY <1>6 DEF GetFocus, GetSize, resizeVars
    <3>2. QED
      BY <3>1 DEF ResizeTypes
  <2>6. event_count' \in Nat
    BY <1>2, <2>2 DEF EventCountSound
  <2>7. ConsoleTypes'
    BY <1>1, <2>3, ConsoleStays DEF KeypadSame
  <2>8. KeyboardTypes'
    BY <2>1, <2>3, <2>4, <2>6 DEF KeyboardTypes, KeyStates
  <2>9. ResizeTypes' /\ EventCountSound'
    BY <1>1, <2>4, <2>5, AfterReturn DEF KeypadSame
  <2>10. Waiting'
    BY <2>1, <2>2, <2>4 DEF Waiting
  <2>11. QED
    BY <1>1, <2>7, <2>8, <2>9, <2>10
<1>7. CASE GetMouse
  <2>1. UNCHANGED <<key_count, resized>> /\ save_press' = 0
    BY <1>7 DEF GetMouse, resizeVars
  <2>2. /\ kpc = "get" /\ key_count = 0 /\ input # <<>> /\ save_ip' = Head(input)
        /\ event_count' = event_count - 1
    BY <1>7 DEF GetMouse
  <2>3. PICK r \in MouseRecord : r = Head(input)
    BY <1>2, <1>7, <2>2, FirstAndRest, RecordByType DEF GetMouse
  <2>4. Tail(input) \in Seq(Record) /\ r \in Record /\ r.type = "mouse"
    BY <1>2, <2>2, <2>3, FirstAndRest DEF MouseRecord
  <2>5. event_count \in 1..Len(input)
    BY <2>2 DEF EventCountSound
  <2>6. resized' \in BOOLEAN
    BY <2>1 DEF ResizeTypes
  <2>7. /\ input' \in Seq(Record) /\ seen' \in SUBSET Buttons
        /\ old_mouse' \in [button : [Buttons -> 0..5], place : {0, 1}]
        /\ \/ got' \in Int /\ kpc' \in {"look", "act"}
           \/ got' = got /\ kpc' = "nap" /\ IsPress(r) /\ event_count = 1
    <3>1. CASE r.flags \in {4, 8}
      <4>1. /\ got' = KEY_MOUSE /\ kpc' \in {"look", "act"} /\ input' = Tail(input) /\ seen' = seen
            /\ old_mouse' = [button |-> NoButton, place |-> 0]
        BY <1>7, <2>3, <3>1 DEF GetMouse, Returns
      <4>2. NoButton \in [Buttons -> 0..5]
        BY DEF NoButton, RELEASED
      <4>3. QED
        BY <2>4, <4>1, <4>2 DEF KeyboardTypes, KEY_MOUSE
    <3>2. CASE r.flags \notin {4, 8} /\ IsPress(r) /\ event_count = 1
      <4>1. kpc' = "nap" /\ input' = Tail(input) /\ UNCHANGED <<old_mouse, seen, got>>
        BY <1>7, <2>3, <3>2 DEF GetMouse, mouseVars
      <4>2. QED
        BY <2>4, <3>2, <4>1 DEF KeyboardTypes
    <3>3. CASE r.flags \notin {4, 8} /\ IsPress(r) /\ event_count # 1
      <4>1. Complete(r, Tail(input))
        BY <1>7, <2>3, <3>3 DEF GetMouse
      <4>2. PICK clicked \in SUBSET Buttons :
              /\ Report(r, clicked)
              /\ \/ input' = Tail(input)
                 \/ Tail(input) # <<>> /\ input' = Tail(Tail(input))
        BY <2>4, <4>1, CompleteStep DEF Thrown
      <4>3. input' \in Seq(Record)
        BY <2>4, <4>2, FirstAndRest
      <4>4. got' \in Int /\ kpc' \in {"look", "act"}
        BY <4>2, ReportStep DEF KEY_MOUSE
      <4>5. QED
        BY <4>2, <4>3, <4>4, ReportStep
    <3>4. CASE r.flags \notin {4, 8} /\ ~IsPress(r)
      <4>1. Report(r, {}) /\ input' = Tail(input)
        BY <1>7, <2>3, <3>4 DEF GetMouse
      <4>2. got' \in Int /\ kpc' \in {"look", "act"}
        BY <4>1, ReportStep DEF KEY_MOUSE
      <4>3. QED
        BY <2>4, <4>1, <4>2, ReportStep
    <3>5. QED
      BY <3>1, <3>2, <3>3, <3>4
  <2>8. event_count' \in Nat
    BY <1>2, <2>2, <2>5
  <2>9. ConsoleTypes'
    BY <1>1, <2>7, ConsoleStays DEF KeypadSame
  <2>10. KeyboardTypes'
    BY <2>1, <2>2, <2>3, <2>4, <2>7, <2>8 DEF KeyboardTypes, KeyStates
  <2>11. ResizeTypes'
    BY <1>1, <2>6, <2>7 DEF ResizeTypes, KeypadSame
  <2>12. EventCountSound'
    BY <2>2, <2>7 DEF EventCountSound
  <2>13. Waiting'
    <3>1. kpc' = "nap" => save_ip'.type = "mouse" /\ save_ip'.flags = 0 /\ save_ip'.buttons # {}
      BY <2>2, <2>3, <2>4, <2>7 DEF IsPress
    <3>2. QED
      BY <2>1, <2>2, <3>1 DEF Waiting, IsPress
  <2>14. QED
    BY <1>1, <2>9, <2>10, <2>11, <2>12, <2>13
<1>8. CASE NapOver
  <2>1. UNCHANGED <<save_ip, key_count, save_press, resized>> /\ kpc = "nap"
    BY <1>8 DEF NapOver, resizeVars
  <2>2. save_ip \in MouseRecord
    BY <2>1, RecordByType DEF Waiting, KeyboardTypes
  <2>3. PICK clicked \in SUBSET Buttons :
          /\ Report(save_ip, clicked)
          /\ \/ input' = input
             \/ input # <<>> /\ input' = Tail(input)
    BY <1>2, <1>8, <2>2, CompleteStep DEF NapOver, Thrown
  <2>4. event_count' \in Nat /\ input' \in Seq(Record) /\ resized' \in BOOLEAN
    <3>1. resized' \in BOOLEAN
      BY <2>1 DEF ResizeTypes
    <3>2. QED
      BY <1>2, <1>8, <2>3, <3>1, FirstAndRest DEF NapOver
  <2>5. got' \in Int /\ kpc' \in {"look", "act"}
    BY <2>2, <2>3, ReportStep DEF KEY_MOUSE
  <2>6. ConsoleTypes'
    BY <1>1, <2>4, ConsoleStays DEF KeypadSame
  <2>7. KeyboardTypes'
    <3>1. /\ old_mouse' \in [button : [Buttons -> 0..5], place : {0, 1}]
          /\ seen' \in SUBSET Buttons
      BY <2>2, <2>3, ReportStep
    <3>2. QED
      BY <2>1, <2>4, <2>5, <3>1 DEF KeyboardTypes, KeyStates
  <2>8. ResizeTypes' /\ EventCountSound'
    BY <1>1, <2>4, <2>5, AfterReturn DEF KeypadSame
  <2>9. Waiting'
    BY <2>1, <2>5 DEF Waiting
  <2>10. QED
    BY <1>1, <2>6, <2>7, <2>8, <2>9
<1> QED
  BY <1>3, <1>4, <1>5, <1>6, <1>7, <1>8 DEF Keypad

\* A key is acted upon.
LEMMA ActInv ==
  ASSUME IInv, KeysSame, kpc' \in {"look", "act"}, MenuTypes'
  PROVE  IInv'
<1> USE DEF IInv, Types
<1>1. /\ UNCHANGED <<input, window, held, at, settings, save_ip, event_count, key_count,
                     save_press, old_mouse, seen, known, resized, want>>
      /\ got' = -1
  BY DEF KeysSame, consoleVars, mouseVars, resizeVars
<1>2. ConsoleTypes'
  BY <1>1, ConsoleStays DEF ConsoleTypes
<1>3. KeyboardTypes'
  BY <1>1 DEF KeyboardTypes, KeyStates
<1>4. resized' \in BOOLEAN
  BY <1>1 DEF ResizeTypes
<1>5. ResizeTypes' /\ EventCountSound'
  BY <1>1, <1>4, AfterReturn
<1>6. Waiting'
  BY <1>1 DEF Waiting
<1> QED
  BY <1>2, <1>3, <1>5, <1>6

LEMMA ArrowLands ==
  ASSUME NEW o \in 0..Rows - 1
  PROVE  CRem(o - 1 + Rows, Rows) \in 0..Rows - 1 /\ CRem(o + 1 + Rows, Rows) \in 0..Rows - 1
<1>1. /\ Rows \in Nat \ {0} /\ o - 1 + Rows \in Nat /\ o + 1 + Rows \in Nat
  BY SessionAssumption
<1>2. \A a \in Nat : a % Rows \in 0..Rows - 1
  BY <1>1
<1>3. \A a \in Nat : CRem(a, Rows) = a % Rows
  BY DEF CRem
<1> QED
  BY <1>1, <1>2, <1>3

LEMMA MenuInv ==
  IInv /\ (Arrow \/ Choose \/ OtherKey \/ PathKey \/ PathDone) => IInv'
<1> SUFFICES ASSUME IInv, Arrow \/ Choose \/ OtherKey \/ PathKey \/ PathDone PROVE IInv'
  OBVIOUS
<1>1. /\ phase \in {"menu", "path", "discovery", "listen", "over"} /\ option \in 0..Rows - 1
      /\ unanswered \in BOOLEAN
  BY DEF IInv, Types, MenuTypes
<1>2. CASE Arrow
  <2>1. option' \in 0..Rows - 1
    BY <1>1, <1>2, ArrowLands DEF Arrow
  <2>2. unanswered' \in BOOLEAN
    BY <1>1, <1>2 DEF Arrow
  <2>3. MenuTypes'
    BY <1>1, <1>2, <2>1, <2>2 DEF Arrow, MenuTypes
  <2>4. QED
    BY <1>2, <2>3, ActInv DEF Arrow
<1>3. CASE Choose
  <2>1. unanswered' \in BOOLEAN
    BY <1>1, <1>3 DEF Choose
  <2>2. MenuTypes'
    BY <1>1, <1>3, <2>1 DEF Choose, MenuTypes
  <2>3. QED
    BY <1>3, <2>2, ActInv DEF Choose
<1>4. CASE OtherKey
  <2>1. MenuTypes'
    BY <1>4, SameSession DEF OtherKey, IInv, Types
  <2>2. QED
    BY <1>4, <2>1, ActInv DEF OtherKey
<1>5. CASE PathKey
  <2>1. unanswered' \in BOOLEAN
    BY <1>5 DEF PathKey
  <2>2. MenuTypes'
    BY <1>1, <1>5, <2>1 DEF PathKey, MenuTypes
  <2>3. QED
    BY <1>5, <2>2, ActInv DEF PathKey
<1>6. CASE PathDone
  <2>1. unanswered' \in BOOLEAN
    BY <1>1, <1>6 DEF PathDone
  <2>2. MenuTypes'
    BY <1>1, <1>6, <2>1 DEF PathDone, MenuTypes
  <2>3. QED
    BY <1>6, <2>2, ActInv DEF PathDone
<1> QED
  BY <1>2, <1>3, <1>4, <1>5, <1>6

\* What every step of resize_term leaves alone.
ResizeSame ==
  UNCHANGED <<held, at, settings, save_ip, event_count, key_count, save_press, old_mouse, seen,
              got, wheeled>>

LEMMA ResizeLeaves ==
  /\ MenuResize \/ ResizeRefused \/ ResizeRest => ResizeSame
  /\ MenuResize \/ ResizeRefused => UNCHANGED <<input, window, known, resized>>
BY DEF MenuResize, ResizeRefused, ResizeRest, GetRows, GetColumns, SetWindow, Flush, GetLines,
       GetCols, ResizeSame, consoleVars, mouseVars, history

\* While resize_term runs no key is read.
LEMMA ResizeInv ==
  ASSUME IInv, ResizeSame, kpc' \in {"look", "width", "set", "flush", "lines", "cols"},
         input' \in Seq(Record), window' \in Places, MenuTypes', ResizeTypes'
  PROVE  IInv'
<1> USE DEF IInv, Types
<1>1. ConsoleTypes'
  <2>1. trap' \in BOOLEAN /\ returnModifiers' \in BOOLEAN
    BY DEF ResizeSame, settings, ConsoleTypes
  <2>2. QED
    BY <2>1 DEF ResizeSame, ConsoleTypes
<1>2. KeyboardTypes'
  BY DEF ResizeSame, KeyboardTypes, KeyStates
<1>3. EventCountSound' /\ Waiting'
  BY DEF ResizeSame, EventCountSound, Waiting
<1> QED
  BY <1>1, <1>2, <1>3

\* The size that was read is one that the console takes.
LEMMA WindowFits ==
  ASSUME NEW w \in Places, NEW v
  PROVE  LET most == <<IF w[1] - 1 > Largest[1] THEN Largest[1] + 1 ELSE w[1],
                       IF w[2] - 1 > Largest[2] THEN Largest[2] + 1 ELSE w[2]>>
         IN  FitConsoleWindow(most, v) = w
<1> DEFINE most == <<IF w[1] - 1 > Largest[1] THEN Largest[1] + 1 ELSE w[1],
                     IF w[2] - 1 > Largest[2] THEN Largest[2] + 1 ELSE w[2]>>
<1>1. Largest[1] \in Nat /\ Largest[2] \in Nat
  BY KeyboardAssumption
<1>2. w = <<w[1], w[2]>> /\ w[1] \in 1..Largest[1] /\ w[2] \in 1..Largest[2]
  BY DEF Places
<1>3. most = w
  BY <1>1, <1>2
<1>4. Accepts(w)
  BY <1>1, <1>2 DEF Accepts
<1>5. FitConsoleWindow(w, v) = w
  BY <1>4 DEF FitConsoleWindow
<1> QED
  BY <1>3, <1>5

LEMMA ResizeStepInv == IInv /\ (MenuResize \/ ResizeRefused \/ ResizeRest) => IInv'
<1> SUFFICES ASSUME IInv, MenuResize \/ ResizeRefused \/ ResizeRest PROVE IInv'
  OBVIOUS
<1>1. ResizeSame
  BY ResizeLeaves
<1>2. /\ input \in Seq(Record) /\ window \in Places /\ known \in Places /\ want \in Nat \X Nat
      /\ resized \in BOOLEAN /\ MenuTypes /\ unanswered \in BOOLEAN
  BY DEF IInv, Types, ConsoleTypes, ResizeTypes, MenuTypes
<1>3. /\ window = <<window[1], window[2]>> /\ window[1] \in 1..Largest[1]
      /\ window[2] \in 1..Largest[2] /\ Largest[1] \in Nat /\ Largest[2] \in Nat
      /\ known = <<known[1], known[2]>> /\ known[1] \in 1..Largest[1]
      /\ known[2] \in 1..Largest[2]
  BY <1>2, KeyboardAssumption DEF Places
<1>4. CASE MenuResize
  <2>1. kpc' = "width" /\ UNCHANGED <<input, window, known, resized>>
    BY <1>4, ResizeLeaves DEF MenuResize, GetRows
  <2>2. want' = <<window[1], want[2]>>
    BY <1>4 DEF MenuResize, GetRows
  <2>3. want' \in Nat \X Nat /\ want'[1] \in 1..Largest[1]
    BY <1>2, <1>3, <2>2
  <2>4. ResizeTypes'
    <3>1. resized' \in BOOLEAN
      BY <1>2, <2>1
    <3>2. QED
      BY <1>2, <2>1, <2>3, <3>1 DEF ResizeTypes
  <2>5. MenuTypes'
    <3>1. unanswered' \in BOOLEAN
      BY <1>2, <1>4 DEF MenuResize
    <3>2. QED
      BY <1>2, <1>4, <3>1 DEF MenuResize, MenuTypes
  <2>6. QED
    BY <1>1, <1>2, <2>1, <2>4, <2>5, ResizeInv
<1>5. CASE ResizeRefused
  <2>1. UNCHANGED <<input, window, known, resized>> /\ kpc = "width"
    BY <1>5, ResizeLeaves DEF ResizeRefused, GetColumns
  <2>2. want[1] \in 1..Largest[1]
    BY <2>1 DEF IInv, Types, ResizeTypes
  <2>3. \/ kpc' = "look" /\ want' = <<0, 0>>
        \/ kpc' = "set" /\ want' = <<want[1], window[2]>>
    BY <1>5 DEF ResizeRefused, GetColumns
  <2>4. /\ want' \in Nat \X Nat /\ kpc' \in {"look", "set"}
        /\ kpc' = "set" => want' \in Places
    BY <1>3, <2>2, <2>3 DEF Places
  <2>5. ResizeTypes'
    <3>1. resized' \in BOOLEAN
      BY <1>2, <2>1
    <3>2. QED
      BY <1>2, <2>1, <2>4, <3>1 DEF ResizeTypes
  <2>6. MenuTypes'
    <3>1. unanswered' \in BOOLEAN
      BY <1>5 DEF ResizeRefused
    <3>2. QED
      BY <1>2, <1>5, <3>1 DEF ResizeRefused, MenuTypes
  <2>7. QED
    BY <1>1, <1>2, <2>1, <2>4, <2>5, <2>6, ResizeInv
<1>6. CASE ResizeRest
  <2>1. MenuTypes'
    BY <1>2, <1>6, SameSession DEF ResizeRest
  <2>2. CASE SetWindow
    <3>1. want \in Places
      BY <2>2 DEF SetWindow, IInv, Types, ResizeTypes
    <3>2. window' = want /\ kpc' = "flush" /\ want' = <<0, 0>> /\ UNCHANGED <<known, resized>>
      BY <2>2, <3>1, WindowFits DEF SetWindow
    <3>3. input' = input \/ input' = Append(input, [type |-> "size", size |-> window'])
      BY <2>2 DEF SetWindow
    <3>4. [type |-> "size", size |-> window'] \in Record
      BY <3>1, <3>2 DEF Record, SizeRecord
    <3>5. input' \in Seq(Record)
      <4>1. input \in Seq(Record)
        BY <1>2
      <4>2. Append(input, [type |-> "size", size |-> window']) \in Seq(Record)
        BY <3>4, <4>1, AppendProperties
      <4>3. QED
        BY <3>3, <4>1, <4>2
    <3>6. ResizeTypes'
      <4>1. resized' \in BOOLEAN
        BY <1>2, <3>2
      <4>2. QED
        BY <1>2, <3>2, <4>1 DEF ResizeTypes
    <3>7. QED
      BY <1>1, <2>1, <3>1, <3>2, <3>5, <3>6, ResizeInv
  <2>3. CASE Flush
    <3>1. /\ input' = <<>> /\ kpc' = "lines" /\ UNCHANGED <<window, known, want>>
          /\ resized' = FALSE
      BY <2>3 DEF Flush
    <3>2. ResizeTypes'
      BY <1>2, <3>1 DEF ResizeTypes
    <3>3. input' \in Seq(Record)
      BY <3>1
    <3>4. QED
      BY <1>1, <1>2, <2>1, <3>1, <3>2, <3>3, ResizeInv
  <2>4. CASE GetLines \/ GetCols
    <3>1. /\ kpc' \in {"cols", "look"} /\ UNCHANGED <<input, window, want, resized>>
          /\ known' = <<window[1], known[2]>> \/ known' = <<known[1], window[2]>>
      BY <2>4 DEF GetLines, GetCols, consoleVars
    <3>2. known' \in Places
      BY <1>3, <3>1 DEF Places
    <3>3. resized' \in BOOLEAN
      BY <1>2, <3>1
    <3>4. ResizeTypes'
      BY <1>2, <3>1, <3>2, <3>3 DEF ResizeTypes
    <3>5. QED
      BY <1>1, <1>2, <2>1, <3>1, <3>4, ResizeInv
  <2>5. QED
    BY <1>6, <2>2, <2>3, <2>4 DEF ResizeRest
<1> QED
  BY <1>4, <1>5, <1>6

LEMMA StutterInv == IInv /\ UNCHANGED vars => IInv'
<1> SUFFICES ASSUME IInv, UNCHANGED vars PROVE IInv'
  OBVIOUS
<1>1. UNCHANGED <<input, window, held, at, settings, save_ip, event_count, key_count, save_press,
                  old_mouse, seen, known, resized, want, kpc, got, sessionVars>>
  BY DEF vars, keyVars, consoleVars, mouseVars, resizeVars
<1>2. ConsoleTypes'
  BY <1>1, ConsoleStays DEF IInv, Types, ConsoleTypes
<1>3. KeyboardTypes'
  BY <1>1 DEF IInv, Types, KeyboardTypes
<1>4. ResizeTypes'
  <2>1. resized' \in BOOLEAN
    BY <1>1 DEF IInv, Types, ResizeTypes
  <2>2. QED
    BY <1>1, <2>1 DEF IInv, Types, ResizeTypes
<1>5. MenuTypes'
  BY <1>1, SameSession DEF IInv, Types
<1>6. EventCountSound' /\ Waiting'
  BY <1>1 DEF IInv, EventCountSound, Waiting, IsPress
<1> QED
  BY <1>2, <1>3, <1>4, <1>5, <1>6 DEF IInv, Types

LEMMA StepInv == IInv /\ [Next]_vars => IInv'
<1> SUFFICES ASSUME IInv, [Next]_vars PROVE IInv'
  OBVIOUS
<1>1. CASE User
  BY <1>1, UserInv
<1>2. CASE Library
  BY <1>2, KeypadInv DEF Library
<1>3. CASE Arrow \/ Choose \/ OtherKey \/ PathKey \/ PathDone
  BY <1>3, MenuInv
<1>4. CASE MenuResize \/ ResizeRefused \/ ResizeRest
  BY <1>4, ResizeStepInv
<1>5. CASE UNCHANGED vars
  BY <1>5, StutterInv
<1> QED
  BY <1>1, <1>2, <1>3, <1>4, <1>5 DEF Next, Program

LEMMA Kernel == Spec => []IInv
<1>1. IInv /\ [Next]_vars => IInv'
  BY StepInv
<1> QED
  BY <1>1, InitInv, PTL DEF Spec

\* The types of the keyboard, the window and the menu: in particular the counts
\* never become negative, LINES and COLS are a size, and the row of make_choice is
\* one of the menu.
THEOREM SessionTypeCorrect == Spec => []TypeOK
<1>1. IInv => TypeOK
  <2> SUFFICES ASSUME IInv PROVE TypeOK
    OBVIOUS
  <2>1. known \in Nat \X Nat
    BY KeyboardAssumption DEF IInv, Types, ResizeTypes, Places
  <2>2. resized \in BOOLEAN
    BY DEF IInv, Types, ResizeTypes
  <2>3. QED
    BY <2>1, <2>2 DEF IInv, Types, KeyboardTypes, MenuTypes, TypeOK
<1> QED
  BY <1>1, Kernel, PTL

\* PDC_get_key reads a record, and _process_mouse_event peeks behind a press, only
\* where PDC_check_key has counted one, and event_count never wraps below 0.
THEOREM NothingReadInVain == Spec => []EventCountSound
<1>1. IInv => EventCountSound
  BY DEF IInv
<1> QED
  BY <1>1, Kernel, PTL

(***************************************************************************)
(* A modifier is given for itself alone.                                   *)
(***************************************************************************)
AloneInv == (save_press # 0 => alone = save_press) /\ ModifierAlone

LEMMA PlainGot ==
  ASSUME kpc' = "act" => Plain(got')
  PROVE  ModifierAlone'
BY DEF Plain, ModifierKeys, ModifierAlone

LEMMA OtherCodes == Plain(KEY_MOUSE) /\ Plain(KEY_RESIZE) /\ Plain(-1)
BY DEF Plain, ModifierKeys, KEY_ENTER, KEY_MOUSE, KEY_RESIZE, KEY_SHIFT_LR, KEY_CONTROL_LR, KEY_ALT_LR

LEMMA KeypadAlone == IInv /\ AloneInv /\ Keypad => AloneInv'
<1> SUFFICES ASSUME IInv, AloneInv, Keypad PROVE AloneInv'
  OBVIOUS
<1>1. CASE CheckKey
  <2>1. UNCHANGED <<save_press, alone>> /\ kpc' # "act"
    BY <1>1 DEF CheckKey, history
  <2>2. QED
    BY <2>1 DEF AloneInv, ModifierAlone
<1>2. CASE GetRepeat
  <2>1. UNCHANGED <<save_press, alone>> /\ key_count > 0 /\ \E key \in Process(save_ip) : got' = key
    BY <1>2 DEF GetRepeat, Gives, Returns
  <2>2. save_ip \in KeyRecord /\ save_ip.vk \notin Modifiers /\ returnModifiers \in BOOLEAN
    BY <2>1, RecordByType DEF IInv, Types, Waiting, KeyboardTypes, ConsoleTypes
  <2>3. Plain(got')
    BY <2>1, <2>2, ProcessKeys
  <2>4. QED
    BY <2>1, <2>3, PlainGot DEF AloneInv
<1>3. CASE GetKey
  <2>1. PICK r \in KeyRecord : r = Head(input)
    <3>1. Head(input) \in Record /\ Head(input).type = "key"
      BY <1>3, FirstAndRest DEF GetKey, IInv, Types, ConsoleTypes
    <3>2. QED
      BY <3>1, RecordByType
  <2>2. /\ save_press' = SavePress(r) /\ alone' = IF r.down THEN r.vk ELSE alone
        /\ \/ NumKeys(r) = 0 /\ got' = -1
           \/ NumKeys(r) # 0 /\ \E key \in Process(r) : got' = key
    BY <1>3, <2>1 DEF GetKey, Gives, Returns
  <2>3. /\ save_press \in Modifiers \cup {0} /\ returnModifiers \in BOOLEAN
        /\ save_press # 0 => alone = save_press
    BY DEF IInv, Types, KeyboardTypes, ConsoleTypes, AloneInv
  <2>4. /\ NumKeys(r) \in Nat
        /\ r.down /\ NumKeys(r) > 0 => r.vk \notin Modifiers
        /\ ~r.down /\ NumKeys(r) > 0 => (r.vk = VK_MENU /\ r.char # 0) \/ r.vk = save_press
    BY <2>3, NumKeysOf
  <2>5. r.vk \in 0..255 /\ r.down \in BOOLEAN
    BY DEF KeyRecord
  <2>6. save_press' # 0 => alone' = save_press'
    BY <2>2, <2>3 DEF SavePress
  <2>7. ModifierAlone'
    <3>1. CASE NumKeys(r) = 0
      BY <2>2, <3>1, OtherCodes, PlainGot
    <3>2. CASE NumKeys(r) > 0 /\ (r.vk \notin Modifiers \/ (r.vk = VK_MENU /\ r.char # 0))
      <4>1. Plain(got')
        BY <2>2, <2>3, <3>2, ProcessKeys
      <4>2. QED
        BY <4>1, PlainGot
    <3>3. CASE NumKeys(r) > 0 /\ r.vk \in Modifiers /\ ~(r.vk = VK_MENU /\ r.char # 0)
      <4>1. ~r.down /\ r.vk = save_press
        BY <2>4, <3>3
      <4>2. alone' = r.vk /\ r.vk \in {16, 17, 18}
        BY <2>2, <2>3, <3>3, <4>1 DEF Modifiers, VK_SHIFT, VK_CONTROL, VK_MENU
      <4>3. \E key \in Process(r) : got' = key
        BY <2>2, <3>3
      <4>4. CASE r.vk = 16
        <5>1. got' \in KEY_SHIFT_LR \cup {-1}
          BY <2>3, <4>3, <4>4, ProcessKeys DEF VK_SHIFT
        <5>2. QED
          BY <4>2, <4>4, <5>1 DEF ModifierAlone, KEY_SHIFT_LR, KEY_CONTROL_LR, KEY_ALT_LR, VK_SHIFT
      <4>5. CASE r.vk = 17
        <5>1. got' \in KEY_CONTROL_LR \cup {-1}
          BY <2>3, <4>3, <4>5, ProcessKeys DEF VK_CONTROL
        <5>2. QED
          BY <4>2, <4>5, <5>1 DEF ModifierAlone, KEY_SHIFT_LR, KEY_CONTROL_LR, KEY_ALT_LR, VK_CONTROL
      <4>6. CASE r.vk = 18
        <5>1. r.vk = VK_MENU /\ r.char = 0
          BY <3>3, <4>6 DEF VK_MENU
        <5>2. got' \in KEY_ALT_LR \cup {-1}
          BY <2>3, <4>3, <5>1, ProcessKeys
        <5>3. QED
          BY <4>2, <4>6, <5>2 DEF ModifierAlone, KEY_SHIFT_LR, KEY_CONTROL_LR, KEY_ALT_LR, VK_MENU
      <4>7. QED
        BY <4>2, <4>4, <4>5, <4>6
    <3>4. QED
      BY <2>4, <3>1, <3>2, <3>3
  <2>8. QED
    BY <2>6, <2>7 DEF AloneInv
<1>4. CASE GetFocus \/ GetSize
  <2>1. UNCHANGED <<save_press, alone>> /\ (got' = -1 \/ got' = KEY_RESIZE)
    BY <1>4 DEF GetFocus, GetSize, Returns, history
  <2>2. QED
    BY <2>1, OtherCodes, PlainGot DEF AloneInv
<1>5. CASE GetMouse
  <2>1. save_press' = 0
    BY <1>5 DEF GetMouse
  <2>2. kpc' = "act" => got' = -1 \/ got' = KEY_MOUSE
    BY <1>5 DEF GetMouse, Complete, Report, Returns
  <2>3. QED
    BY <2>1, <2>2, OtherCodes, PlainGot DEF AloneInv
<1>6. CASE NapOver
  <2>1. UNCHANGED <<save_press, alone>> /\ (got' = -1 \/ got' = KEY_MOUSE)
    BY <1>6 DEF NapOver, Complete, Report, Returns
  <2>2. QED
    BY <2>1, OtherCodes, PlainGot DEF AloneInv
<1> QED
  BY <1>1, <1>2, <1>3, <1>4, <1>5, <1>6 DEF Keypad

LEMMA StepAlone == IInv /\ AloneInv /\ [Next]_vars => AloneInv'
<1> SUFFICES ASSUME IInv, AloneInv, [Next]_vars PROVE AloneInv'
  OBVIOUS
<1>1. CASE User
  <2>1. UNCHANGED <<save_press, alone, got, kpc>>
    BY <1>1, UserStep DEF IInv, Types, UserSame
  <2>2. QED
    BY <2>1 DEF AloneInv, ModifierAlone
<1>2. CASE Library
  BY <1>2, KeypadAlone DEF Library
<1>3. CASE Arrow \/ Choose \/ OtherKey \/ PathKey \/ PathDone
  <2>1. KeysSame
    BY <1>3 DEF Arrow, Choose, OtherKey, PathKey, PathDone
  <2>2. UNCHANGED <<save_press, alone>> /\ got' = -1
    BY <2>1 DEF KeysSame, history
  <2>3. QED
    BY <2>2, OtherCodes, PlainGot DEF AloneInv
<1>4. CASE MenuResize \/ ResizeRefused \/ ResizeRest
  <2>1. UNCHANGED <<save_press, alone>> /\ kpc' # "act"
    BY <1>4 DEF MenuResize, ResizeRefused, ResizeRest, GetRows, GetColumns, SetWindow, Flush,
                GetLines, GetCols, history
  <2>2. QED
    BY <2>1 DEF AloneInv, ModifierAlone
<1>5. CASE UNCHANGED vars
  BY <1>5 DEF vars, keyVars, history, AloneInv, ModifierAlone
<1> QED
  BY <1>1, <1>2, <1>3, <1>4, <1>5 DEF Next, Program

\* A modifier is given as a key only when it went down and up with no other key and
\* no mouse event read in between, although the records of other keys and of the
\* mouse come in any order and save_press is reset in three places.
THEOREM ModifierGivenAlone == Spec => []ModifierAlone
<1>1. Init => AloneInv
  BY DEF Init, KeyInit, AloneInv, ModifierAlone
<1>2. IInv /\ AloneInv /\ [Next]_vars => AloneInv'
  BY StepAlone
<1>3. AloneInv => ModifierAlone
  BY DEF AloneInv
<1> QED
  BY <1>1, <1>2, <1>3, Kernel, PTL DEF Spec

(***************************************************************************)
(* LINES and COLS follow the window.                                       *)
(***************************************************************************)

\* The last record of a size in q is that of w.
SizeComes(q, w) ==
  \E i \in 1..Len(q) :
    /\ q[i].type = "size" /\ q[i].size = w
    /\ \A j \in i + 1..Len(q) : q[j].type # "size"

LEMMA SizeStays ==
  ASSUME NEW q \in Seq(Record), NEW r \in Record, NEW w, r.type # "size", SizeComes(q, w)
  PROVE  SizeComes(Append(q, r), w)
<1>1. /\ Len(q) \in Nat /\ Len(Append(q, r)) = Len(q) + 1 /\ Append(q, r)[Len(q) + 1] = r
      /\ \A i \in 1..Len(q) : Append(q, r)[i] = q[i]
  BY AppendProperties
<1>2. PICK i \in 1..Len(q) : /\ q[i].type = "size" /\ q[i].size = w
                             /\ \A j \in i + 1..Len(q) : q[j].type # "size"
  BY DEF SizeComes
<1>3. i \in 1..Len(Append(q, r)) /\ Append(q, r)[i] = q[i]
  BY <1>1
<1>4. ASSUME NEW j \in i + 1..Len(Append(q, r)) PROVE Append(q, r)[j].type # "size"
  <2>1. CASE j = Len(q) + 1
    BY <1>1, <2>1
  <2>2. CASE j # Len(q) + 1
    <3>1. j \in i + 1..Len(q) /\ j \in 1..Len(q)
      BY <1>1, <2>2
    <3>2. QED
      BY <1>1, <1>2, <3>1
  <2>3. QED
    BY <2>1, <2>2
<1> QED
  BY <1>2, <1>3, <1>4 DEF SizeComes

LEMMA NewSizeComes ==
  ASSUME NEW q \in Seq(Record), NEW r \in Record, r.type = "size"
  PROVE  SizeComes(Append(q, r), r.size)
<1>1. /\ Len(q) \in Nat /\ Len(Append(q, r)) = Len(q) + 1 /\ Append(q, r)[Len(q) + 1] = r
  BY AppendProperties
<1>2. Len(q) + 1 \in 1..Len(Append(q, r))
  BY <1>1
<1>3. \A j \in Len(q) + 1 + 1..Len(Append(q, r)) : Append(q, r)[j].type # "size"
  BY <1>1
<1> QED
  BY <1>1, <1>2, <1>3 DEF SizeComes

\* A record is taken from the front: if it was the size of w no other came.
LEMMA SizeLeft ==
  ASSUME NEW q \in Seq(Record), q # <<>>, NEW w, SizeComes(q, w)
  PROVE  SizeComes(Tail(q), w) \/ (Head(q).type = "size" /\ Head(q).size = w)
<1>1. /\ Len(q) \in Nat /\ Len(q) >= 1 /\ Len(Tail(q)) = Len(q) - 1 /\ Head(q) = q[1]
      /\ \A i \in 1..Len(q) - 1 : Tail(q)[i] = q[i + 1]
  BY FirstAndRest
<1>2. PICK i \in 1..Len(q) : /\ q[i].type = "size" /\ q[i].size = w
                             /\ \A j \in i + 1..Len(q) : q[j].type # "size"
  BY DEF SizeComes
<1>3. CASE i = 1
  BY <1>1, <1>2, <1>3
<1>4. CASE i # 1
  <2>1. i - 1 \in 1..Len(Tail(q)) /\ i - 1 \in 1..Len(q) - 1 /\ (i - 1) + 1 = i
    BY <1>1, <1>4
  <2>2. Tail(q)[i - 1] = q[i]
    BY <1>1, <2>1
  <2>3. ASSUME NEW j \in (i - 1) + 1..Len(Tail(q)) PROVE Tail(q)[j].type # "size"
    <3>1. j \in 1..Len(q) - 1 /\ j + 1 \in i + 1..Len(q)
      BY <1>1, <1>4
    <3>2. QED
      BY <1>1, <1>2, <3>1
  <2>4. QED
    BY <1>2, <2>1, <2>2, <2>3 DEF SizeComes
<1> QED
  BY <1>3, <1>4

\* LINES and COLS are those of the window, or its record is still to be read.
SizeFollows == known = window \/ SizeComes(input, window)

\* What is left out: a KEY_RESIZE nobody answered, and a record of a size that was
\* thrown out with a click.
Told == ~unanswered /\ "thrown" \notin cut

SizeInv ==
  /\ Told /\ (kpc \in {"look", "get", "nap"} \/ (kpc = "act" /\ got # KEY_RESIZE)) =>
       SizeFollows /\ ~resized
  /\ kpc \in {"lines", "cols"} => ~resized
  /\ kpc = "cols" => known[1] = window[1] \/ SizeComes(input, window)

LEMMA UserSize == IInv /\ SizeInv /\ User => SizeInv'
<1> SUFFICES ASSUME IInv, SizeInv, User PROVE SizeInv'
  OBVIOUS
<1>1. UNCHANGED <<kpc, got, known, resized, unanswered, cut>>
  BY UserStep DEF IInv, Types, UserSame, resizeVars
<1>2. PICK r \in Record : Came(r)
  BY UserStep DEF IInv, Types
<1>3. input \in Seq(Record) /\ input' = Append(input, r)
  BY <1>2 DEF IInv, Types, ConsoleTypes, Came
<1>4. Told' => Told
  BY <1>1, <1>2 DEF Told
<1>5. CASE r.type = "size"
  <2>1. r.size = window'
    BY <1>2, <1>5 DEF Came
  <2>2. SizeComes(Append(input, r), r.size)
    BY <1>3, <1>5, NewSizeComes
  <2>3. SizeComes(input', window')
    BY <1>3, <2>1, <2>2
  <2>4. QED
    BY <1>1, <1>4, <2>3 DEF SizeInv, SizeFollows
<1>6. CASE r.type # "size"
  <2>1. window' = window
    BY <1>2, <1>6 DEF Came
  <2>2. SizeComes(input, window) => SizeComes(Append(input, r), window)
    BY <1>3, <1>6, SizeStays
  <2>3. SizeComes(input, window) => SizeComes(input', window')
    BY <1>3, <2>1, <2>2
  <2>4. QED
    BY <1>1, <1>4, <2>1, <2>3 DEF SizeInv, SizeFollows
<1> QED
  BY <1>5, <1>6

\* The program has read the record at the front, and what a click may throw out.
LEMMA SizeAfterRead ==
  ASSUME IInv, SizeInv, kpc \in {"get", "nap"}, kpc' \in {"look", "act", "nap"},
         UNCHANGED <<window, known, resized, unanswered>>, Told' => Told,
         (Told /\ SizeComes(input, window)) => (Told' => SizeComes(input', window))
  PROVE  SizeInv'
<1>1. Told' => SizeFollows /\ ~resized
  BY DEF SizeInv
<1>2. Told' => SizeFollows' /\ ~resized'
  BY <1>1 DEF SizeFollows
<1> QED
  BY <1>2 DEF SizeInv

LEMMA ThrownSize ==
  ASSUME NEW q \in Seq(Record), q # <<>>, NEW w, SizeComes(q, w),
         Head(q).type = "mouse"
  PROVE  SizeComes(Tail(q), w)
BY SizeLeft

LEMMA CompleteSize ==
  ASSUME NEW r \in MouseRecord, NEW rest \in Seq(Record), Complete(r, rest), UNCHANGED unanswered
  PROVE  /\ Told' => Told
         /\ Told' /\ SizeComes(rest, window) => SizeComes(input', window)
<1>1. PICK clicked \in SUBSET Buttons :
        \/ clicked = {} /\ input' = rest /\ cut' = cut
        \/ Thrown(r, rest, clicked)
  BY CompleteStep
<1>2. Told' => Told
  BY <1>1 DEF Told, Thrown
<1>3. ASSUME Told', SizeComes(rest, window) PROVE SizeComes(input', window)
  <2>1. CASE input' = rest
    BY <1>3, <2>1
  <2>2. CASE Thrown(r, rest, clicked)
    <3>1. rest # <<>> /\ input' = Tail(rest) /\ Head(rest).type = "mouse"
      BY <1>3, <2>2 DEF Thrown, Told
    <3>2. SizeComes(Tail(rest), window)
      BY <1>3, <3>1, ThrownSize
    <3>3. QED
      BY <3>1, <3>2
  <2>3. QED
    BY <1>1, <2>1, <2>2
<1> QED
  BY <1>2, <1>3

LEMMA KeypadSize == IInv /\ SizeInv /\ Keypad /\ UNCHANGED sessionVars => SizeInv'
<1> SUFFICES ASSUME IInv, SizeInv, Keypad, UNCHANGED sessionVars PROVE SizeInv'
  OBVIOUS
<1>1. UNCHANGED <<window, known, unanswered>> /\ input \in Seq(Record)
  BY KeypadLeaves DEF KeypadSame, sessionVars, IInv, Types, ConsoleTypes
<1>2. CASE CheckKey
  <2>1. UNCHANGED <<input, resized, got, cut>> /\ kpc = "look" /\ kpc' \in {"look", "get"}
    BY <1>2 DEF CheckKey, consoleVars, resizeVars, history
  <2>2. QED
    BY <1>1, <2>1 DEF SizeInv, SizeFollows, Told
<1>3. CASE GetRepeat
  <2>1. UNCHANGED <<input, resized, cut>> /\ kpc = "get" /\ kpc' \in {"look", "act"}
    BY <1>3 DEF GetRepeat, Gives, Returns, consoleVars, resizeVars
  <2>2. QED
    BY <1>1, <2>1, SizeAfterRead DEF Told
<1>4. CASE GetKey \/ GetFocus
  <2>1. /\ UNCHANGED <<resized, cut>> /\ kpc = "get" /\ kpc' \in {"look", "act"}
        /\ input # <<>> /\ Head(input).type # "size" /\ input' = Tail(input)
    BY <1>4 DEF GetKey, GetFocus, Read, Gives, Returns, resizeVars, history
  <2>2. SizeComes(input, window) => SizeComes(Tail(input), window)
    BY <1>1, <2>1, SizeLeft
  <2>3. SizeComes(input, window) => SizeComes(input', window)
    BY <2>1, <2>2
  <2>4. QED
    BY <1>1, <2>1, <2>3, SizeAfterRead DEF Told
<1>5. CASE GetSize
  <2>1. /\ kpc = "get" /\ input # <<>> /\ input' = Tail(input) /\ cut' = cut
        /\ \/ Head(input).size # known /\ ~resized /\ kpc' = "act" /\ got' = KEY_RESIZE
           \/ /\ Head(input).size = known \/ resized
              /\ kpc' = "look" /\ resized' = resized
    BY <1>5 DEF GetSize, Read, Returns, history, KEY_RESIZE
  <2>2. CASE kpc' = "act"
    BY <2>1, <2>2 DEF SizeInv
  <2>3. CASE kpc' = "look"
    <3>1. Told' => Told
      BY <1>1, <2>1 DEF Told
    <3>2. Told => SizeFollows /\ ~resized
      BY <2>1 DEF SizeInv
    <3>3. Told => known = window \/ SizeComes(Tail(input), window)
      BY <1>1, <2>1, <2>3, <3>2, SizeLeft DEF SizeFollows
    <3>4. Told => known' = window' \/ SizeComes(input', window')
      BY <1>1, <2>1, <3>3
    <3>5. QED
      BY <2>1, <2>3, <3>1, <3>2, <3>4 DEF SizeInv, SizeFollows
  <2>4. QED
    BY <2>1, <2>2, <2>3
<1>6. CASE GetMouse
  <2>1. PICK r \in MouseRecord : r = Head(input)
    BY <1>1, <1>6, FirstAndRest, RecordByType DEF GetMouse
  <2>2. /\ kpc = "get" /\ input # <<>> /\ Head(input).type = "mouse" /\ resized' = resized
        /\ Tail(input) \in Seq(Record)
    BY <1>1, <1>6, FirstAndRest DEF GetMouse, resizeVars
  <2>3. \/ kpc' \in {"look", "act", "nap"} /\ input' = Tail(input) /\ cut' = cut
        \/ Complete(r, Tail(input))
    BY <1>6, <2>1 DEF GetMouse, Report, Returns
  <2>4. SizeComes(input, window) => SizeComes(Tail(input), window)
    BY <1>1, <2>2, ThrownSize
  <2>5. CASE kpc' \in {"look", "act", "nap"} /\ input' = Tail(input) /\ cut' = cut
    <3>1. SizeComes(input, window) => SizeComes(input', window)
      BY <2>4, <2>5
    <3>2. QED
      BY <1>1, <2>2, <2>5, <3>1, SizeAfterRead DEF Told
  <2>6. CASE Complete(r, Tail(input))
    <3>1. kpc' \in {"look", "act"}
      BY <2>6 DEF Complete, Report, Returns
    <3>2. /\ Told' => Told
          /\ Told' /\ SizeComes(Tail(input), window) => SizeComes(input', window)
      BY <1>1, <2>2, <2>6, CompleteSize
    <3>3. QED
      BY <1>1, <2>2, <2>4, <3>1, <3>2, SizeAfterRead
  <2>7. QED
    BY <2>3, <2>5, <2>6
<1>7. CASE NapOver
  <2>1. kpc = "nap" /\ resized' = resized /\ Complete(save_ip, input)
    BY <1>7 DEF NapOver, resizeVars
  <2>2. save_ip \in MouseRecord
    BY <2>1, RecordByType DEF IInv, Types, Waiting, KeyboardTypes
  <2>3. kpc' \in {"look", "act"}
    BY <2>1 DEF Complete, Report, Returns
  <2>4. /\ Told' => Told
        /\ Told' /\ SizeComes(input, window) => SizeComes(input', window)
    BY <1>1, <2>1, <2>2, CompleteSize
  <2>5. QED
    BY <1>1, <2>1, <2>3, <2>4, SizeAfterRead
<1> QED
  BY <1>2, <1>3, <1>4, <1>5, <1>6, <1>7 DEF Keypad

LEMMA MenuSize ==
  IInv /\ SizeInv /\ (Arrow \/ Choose \/ OtherKey \/ PathKey \/ PathDone) => SizeInv'
<1> SUFFICES ASSUME IInv, SizeInv, Arrow \/ Choose \/ OtherKey \/ PathKey \/ PathDone PROVE SizeInv'
  OBVIOUS
<1>1. /\ KeysSame /\ kpc = "act" /\ kpc' \in {"look", "act"}
      /\ PathKey \/ (Key # KEY_RESIZE /\ UNCHANGED unanswered)
  BY DEF Arrow, Choose, OtherKey, PathKey, PathDone, sessionVars, KEY_UP, KEY_DOWN, KEY_RESIZE,
         KEY_ENTER
<1>2. UNCHANGED <<input, window, known, resized, cut>>
  BY <1>1 DEF KeysSame, consoleVars, resizeVars, history
<1>3. Told' => Told /\ got # KEY_RESIZE
  <2>1. CASE PathKey
    <3>1. ~unanswered' => ~unanswered /\ Key # KEY_RESIZE
      BY <2>1 DEF PathKey
    <3>2. QED
      BY <1>2, <3>1 DEF Told, Key, KEY_RESIZE
  <2>2. CASE Key # KEY_RESIZE /\ UNCHANGED unanswered
    BY <1>2, <2>2 DEF Told, Key, KEY_RESIZE
  <2>3. QED
    BY <1>1, <2>1, <2>2
<1>4. Told' => SizeFollows /\ ~resized
  BY <1>1, <1>3 DEF SizeInv
<1>5. Told' => SizeFollows' /\ ~resized'
  BY <1>2, <1>4 DEF SizeFollows
<1> QED
  BY <1>1, <1>5 DEF SizeInv

LEMMA ResizeSize == IInv /\ SizeInv /\ (MenuResize \/ ResizeRefused \/ ResizeRest) => SizeInv'
<1> SUFFICES ASSUME IInv, SizeInv, MenuResize \/ ResizeRefused \/ ResizeRest PROVE SizeInv'
  OBVIOUS
<1>1. window = <<window[1], window[2]>> /\ known = <<known[1], known[2]>>
  BY DEF IInv, Types, ConsoleTypes, ResizeTypes, Places
<1>2. CASE MenuResize \/ SetWindow
  <2>1. kpc' \in {"width", "flush"}
    BY <1>2 DEF MenuResize, GetRows, SetWindow
  <2>2. QED
    BY <2>1 DEF SizeInv
<1>3. CASE ResizeRefused
  <2>1. kpc' = "set" \/ (kpc' = "look" /\ unanswered' = TRUE)
    BY <1>3 DEF ResizeRefused, GetColumns
  <2>2. QED
    BY <2>1 DEF SizeInv, Told
<1>4. CASE Flush
  <2>1. kpc' = "lines" /\ resized' = FALSE
    BY <1>4 DEF Flush
  <2>2. QED
    BY <2>1 DEF SizeInv
<1>5. CASE GetLines
  <2>1. /\ kpc = "lines" /\ kpc' = "cols" /\ resized' = resized /\ window' = window
        /\ known' = <<window[1], known[2]>>
    BY <1>5 DEF GetLines, consoleVars
  <2>2. QED
    BY <1>1, <2>1 DEF SizeInv
<1>6. CASE GetCols
  <2>1. /\ kpc = "cols" /\ kpc' = "look" /\ UNCHANGED <<resized, window, input>>
        /\ known' = <<known[1], window[2]>>
    BY <1>6 DEF GetCols, consoleVars
  <2>2. known[1] = window[1] \/ SizeComes(input, window)
    BY <2>1 DEF SizeInv
  <2>3. known' = window' \/ SizeComes(input', window')
    BY <1>1, <2>1, <2>2
  <2>4. ~resized'
    BY <2>1 DEF SizeInv
  <2>5. QED
    BY <2>1, <2>3, <2>4 DEF SizeInv, SizeFollows
<1> QED
  BY <1>2, <1>3, <1>4, <1>5, <1>6 DEF ResizeRest

LEMMA StepSize == IInv /\ SizeInv /\ [Next]_vars => SizeInv'
<1> SUFFICES ASSUME IInv, SizeInv, [Next]_vars PROVE SizeInv'
  OBVIOUS
<1>1. CASE User
  BY <1>1, UserSize
<1>2. CASE Library
  BY <1>2, KeypadSize DEF Library
<1>3. CASE Arrow \/ Choose \/ OtherKey \/ PathKey \/ PathDone
  BY <1>3, MenuSize
<1>4. CASE MenuResize \/ ResizeRefused \/ ResizeRest
  BY <1>4, ResizeSize
<1>5. CASE UNCHANGED vars
  BY <1>5 DEF vars, keyVars, consoleVars, resizeVars, history, sessionVars, SizeInv, SizeFollows,
              Told
<1> QED
  BY <1>1, <1>2, <1>3, <1>4, <1>5 DEF Next, Program

\* When nothing waits to be read, LINES and COLS are the size of the window: the
\* user may change it between any two steps of resize_term, whose flush throws
\* away the record of a change, and between the reading of the lines and of the
\* columns.
THEOREM WindowIsFollowed == Spec => []SizeKnown
<1>1. Init => SizeInv
  BY DEF Init, KeyInit, SizeInv, SizeFollows
<1>2. IInv /\ SizeInv /\ [Next]_vars => SizeInv'
  BY StepSize
<1>3. IInv /\ SizeInv => SizeKnown
  <2> SUFFICES ASSUME IInv, SizeInv, AtRest, Told PROVE known = window /\ ~resized
    BY DEF SizeKnown, Told
  <2>1. ~SizeComes(input, window)
    BY DEF AtRest, SizeComes
  <2>2. QED
    BY <2>1 DEF SizeInv, SizeFollows, AtRest
<1> QED
  BY <1>1, <1>2, <1>3, Kernel, PTL DEF Spec

(***************************************************************************)
(* The buttons.                                                            *)
(***************************************************************************)

\* What the records of the mouse in q say, of which the last gives the buttons h
\* that are held and the first comes after the program knew those in s: a record
\* that is not a press or a release (1 a move, 4 and 8 the wheel) changes nothing,
\* and no record both presses and releases.
NoMouse(q, first, last) == \A k \in first..last : q[k].type # "mouse"
Steady(r) == r.flags \notin {0, 2}

Continues(h, r) ==
  /\ Steady(r) => r.buttons = h
  /\ h \subseteq r.buttons \/ r.buttons \subseteq h

EachFollows(q) ==
  \A i \in 1..Len(q), j \in 1..Len(q) :
    i < j /\ q[i].type = "mouse" /\ q[j].type = "mouse" /\ NoMouse(q, i + 1, j - 1)
      => Continues(q[i].buttons, q[j])
FirstFollows(q, s) ==
  \A j \in 1..Len(q) :
    q[j].type = "mouse" /\ NoMouse(q, 1, j - 1) /\ Steady(q[j]) => s \subseteq q[j].buttons
LastIsHeld(q, h) ==
  \A i \in 1..Len(q) : q[i].type = "mouse" /\ NoMouse(q, i + 1, Len(q)) => q[i].buttons = h
NoneIsHeld(q, h, s) == NoMouse(q, 1, Len(q)) => s \subseteq h

Track(q, h, s) ==
  EachFollows(q) /\ FirstFollows(q, s) /\ LastIsHeld(q, h) /\ NoneIsHeld(q, h, s)

LEMMA TrackOther ==
  ASSUME NEW q \in Seq(Record), NEW r \in Record, NEW h, NEW s, Track(q, h, s), r.type # "mouse"
  PROVE  Track(Append(q, r), h, s)
<1> DEFINE p == Append(q, r)
<1>1. /\ Len(q) \in Nat /\ Len(p) = Len(q) + 1 /\ p[Len(q) + 1] = r
      /\ \A i \in 1..Len(q) : p[i] = q[i]
  BY AppendProperties
<1> HIDE DEF p
<1>2. \A i \in 1..Len(p) : p[i].type = "mouse" => i \in 1..Len(q) /\ p[i] = q[i]
  BY <1>1
<1>3. ASSUME NEW i \in Nat, NEW j \in Nat, i >= 1, j <= Len(q), NoMouse(p, i, j)
      PROVE  NoMouse(q, i, j)
  <2>1. \A k \in i..j : k \in 1..Len(q)
    BY <1>1, <1>3
  <2>2. QED
    BY <1>1, <1>3, <2>1 DEF NoMouse
<1>4. EachFollows(p)
  <2> SUFFICES ASSUME NEW i \in 1..Len(p), NEW j \in 1..Len(p), i < j, p[i].type = "mouse",
                      p[j].type = "mouse", NoMouse(p, i + 1, j - 1)
               PROVE  Continues(p[i].buttons, p[j])
    BY DEF EachFollows
  <2>1. i \in 1..Len(q) /\ j \in 1..Len(q) /\ p[i] = q[i] /\ p[j] = q[j]
    BY <1>2
  <2>2. NoMouse(q, i + 1, j - 1)
    BY <1>1, <1>3, <2>1
  <2>3. QED
    BY <2>1, <2>2 DEF Track, EachFollows
<1>5. FirstFollows(p, s)
  <2> SUFFICES ASSUME NEW j \in 1..Len(p), p[j].type = "mouse", NoMouse(p, 1, j - 1), Steady(p[j])
               PROVE  s \subseteq p[j].buttons
    BY DEF FirstFollows
  <2>1. j \in 1..Len(q) /\ p[j] = q[j]
    BY <1>2
  <2>2. NoMouse(q, 1, j - 1)
    BY <1>1, <1>3, <2>1
  <2>3. QED
    BY <2>1, <2>2 DEF Track, FirstFollows
<1>6. LastIsHeld(p, h)
  <2> SUFFICES ASSUME NEW i \in 1..Len(p), p[i].type = "mouse", NoMouse(p, i + 1, Len(p))
               PROVE  p[i].buttons = h
    BY DEF LastIsHeld
  <2>1. i \in 1..Len(q) /\ p[i] = q[i]
    BY <1>2
  <2>2. NoMouse(p, i + 1, Len(q))
    BY <1>1, <2>1 DEF NoMouse
  <2>3. NoMouse(q, i + 1, Len(q))
    BY <1>1, <1>3, <2>1, <2>2
  <2>4. QED
    BY <2>1, <2>3 DEF Track, LastIsHeld
<1>7. NoneIsHeld(p, h, s)
  <2>1. NoMouse(p, 1, Len(p)) => NoMouse(p, 1, Len(q))
    BY <1>1 DEF NoMouse
  <2>2. NoMouse(p, 1, Len(q)) => NoMouse(q, 1, Len(q))
    BY <1>1, <1>3
  <2>3. QED
    BY <2>1, <2>2 DEF Track, NoneIsHeld
<1> QED
  BY <1>4, <1>5, <1>6, <1>7 DEF Track, p

LEMMA TrackMouse ==
  ASSUME NEW q \in Seq(Record), NEW r \in Record, NEW h, NEW s, Track(q, h, s), r.type = "mouse",
         Continues(h, r)
  PROVE  Track(Append(q, r), r.buttons, s)
<1> DEFINE p == Append(q, r)
           n == Len(q) + 1
<1>1. /\ Len(q) \in Nat /\ Len(p) = n /\ p[n] = r /\ n \in Nat /\ n \in 1..n /\ n = Len(q) + 1
      /\ \A i \in 1..Len(q) : p[i] = q[i]
  BY AppendProperties
<1>2. \A i \in 1..Len(p) : i = n \/ (i \in 1..Len(q) /\ p[i] = q[i])
  BY <1>1
<1> HIDE DEF p, n
<1>3. ASSUME NEW i \in Nat, NEW j \in Nat, i >= 1, j <= Len(q), NoMouse(p, i, j)
      PROVE  NoMouse(q, i, j)
  <2>1. \A k \in i..j : k \in 1..Len(q)
    BY <1>1, <1>3
  <2>2. QED
    BY <1>1, <1>3, <2>1 DEF NoMouse
<1>4. EachFollows(p)
  <2> SUFFICES ASSUME NEW i \in 1..Len(p), NEW j \in 1..Len(p), i < j, p[i].type = "mouse",
                      p[j].type = "mouse", NoMouse(p, i + 1, j - 1)
               PROVE  Continues(p[i].buttons, p[j])
    BY DEF EachFollows
  <2>1. i \in 1..Len(q) /\ p[i] = q[i] /\ j - 1 \in Nat /\ j - 1 <= Len(q) /\ i + 1 \in Nat
    BY <1>1, <1>2
  <2>2. NoMouse(q, i + 1, j - 1)
    BY <1>3, <2>1
  <2>3. CASE j = n
    <3>1. j - 1 = Len(q) /\ p[j] = r
      BY <1>1, <2>3
    <3>2. q[i].buttons = h
      BY <2>1, <2>2, <3>1 DEF Track, LastIsHeld
    <3>3. QED
      BY <2>1, <3>1, <3>2
  <2>4. CASE j # n
    <3>1. j \in 1..Len(q) /\ p[j] = q[j]
      BY <1>2, <2>4
    <3>2. QED
      BY <2>1, <2>2, <3>1 DEF Track, EachFollows
  <2>5. QED
    BY <2>3, <2>4
<1>5. FirstFollows(p, s)
  <2> SUFFICES ASSUME NEW j \in 1..Len(p), p[j].type = "mouse", NoMouse(p, 1, j - 1), Steady(p[j])
               PROVE  s \subseteq p[j].buttons
    BY DEF FirstFollows
  <2>1. j - 1 \in Nat /\ j - 1 <= Len(q)
    BY <1>1
  <2>2. NoMouse(q, 1, j - 1)
    BY <1>3, <2>1
  <2>3. CASE j = n
    <3>1. j - 1 = Len(q) /\ p[j] = r
      BY <1>1, <2>3
    <3>2. s \subseteq h
      BY <2>2, <3>1 DEF Track, NoneIsHeld
    <3>3. QED
      BY <3>1, <3>2 DEF Continues
  <2>4. CASE j # n
    <3>1. j \in 1..Len(q) /\ p[j] = q[j]
      BY <1>2, <2>4
    <3>2. QED
      BY <2>2, <3>1 DEF Track, FirstFollows
  <2>5. QED
    BY <2>3, <2>4
<1>6. LastIsHeld(p, r.buttons)
  <2> SUFFICES ASSUME NEW i \in 1..Len(p), p[i].type = "mouse", NoMouse(p, i + 1, Len(p))
               PROVE  p[i].buttons = r.buttons
    BY DEF LastIsHeld
  <2>1. i = n
    <3>1. CASE i # n
      <4>1. n \in i + 1..Len(p)
        BY <1>1, <1>2, <3>1
      <4>2. p[n].type # "mouse"
        BY <4>1 DEF NoMouse
      <4>3. QED
        BY <1>1, <4>2
    <3>2. QED
      BY <3>1
  <2>2. QED
    BY <1>1, <2>1
<1>7. NoneIsHeld(p, r.buttons, s)
  <2>1. ~NoMouse(p, 1, Len(p))
    BY <1>1 DEF NoMouse
  <2>2. QED
    BY <2>1 DEF NoneIsHeld
<1> QED
  BY <1>4, <1>5, <1>6, <1>7 DEF Track, p

\* Two records of the mouse at the front, one behind the other.
LEMMA SecondFollows ==
  ASSUME NEW q \in Seq(Record), q # <<>>, Tail(q) # <<>>, NEW h, NEW s, Track(q, h, s),
         Head(q).type = "mouse", Head(Tail(q)).type = "mouse"
  PROVE  Continues(Head(q).buttons, Head(Tail(q)))
<1>1. /\ Len(q) \in Nat /\ Head(q) = q[1] /\ Tail(q) \in Seq(Record) /\ Len(Tail(q)) = Len(q) - 1
      /\ \A i \in 1..Len(q) - 1 : Tail(q)[i] = q[i + 1]
  BY FirstAndRest
<1>2. Len(Tail(q)) >= 1 /\ Head(Tail(q)) = Tail(q)[1]
  BY <1>1, FirstAndRest
<1>3. Head(Tail(q)) = q[1 + 1] /\ 1 + 1 \in 1..Len(q) /\ 1 \in 1..Len(q)
  BY <1>1, <1>2
<1>4. NoMouse(q, 1 + 1, (1 + 1) - 1)
  BY DEF NoMouse
<1> QED
  BY <1>1, <1>3, <1>4 DEF Track, EachFollows

\* The record at the front is taken: if it was one of the mouse, the program knows
\* of no button afterwards that it did not say to be down.
LEMMA TrackTail ==
  ASSUME NEW q \in Seq(Record), q # <<>>, NEW h, NEW s, NEW t, Track(q, h, s),
         IF Head(q).type = "mouse" THEN t \subseteq Head(q).buttons ELSE t = s
  PROVE  Track(Tail(q), h, t)
<1> DEFINE p == Tail(q)
<1>1. /\ Len(q) \in Nat /\ Len(q) >= 1 /\ Len(p) = Len(q) - 1 /\ Head(q) = q[1] /\ Len(p) \in Nat
      /\ \A i \in 1..Len(p) : p[i] = q[i + 1] /\ i + 1 \in 1..Len(q)
  BY FirstAndRest
<1> HIDE DEF p
<1>2. ASSUME NEW i \in Nat, NEW j \in Int, i >= 1, j <= Len(p), NoMouse(p, i, j)
      PROVE  NoMouse(q, i + 1, j + 1)
  <2> SUFFICES ASSUME NEW k \in i + 1..j + 1 PROVE q[k].type # "mouse"
    BY DEF NoMouse
  <2>1. k - 1 \in i..j /\ k - 1 \in 1..Len(p) /\ (k - 1) + 1 = k
    BY <1>1, <1>2
  <2>2. p[k - 1].type # "mouse"
    BY <1>2, <2>1 DEF NoMouse
  <2>3. QED
    BY <1>1, <2>1, <2>2
<1>3. ASSUME NEW j \in Int, j <= Len(p), NoMouse(p, 1, j), Head(q).type # "mouse"
      PROVE  NoMouse(q, 1, j + 1)
  <2>1. NoMouse(q, 1 + 1, j + 1)
    BY <1>2, <1>3
  <2>2. \A k \in 1..j + 1 : k = 1 \/ k \in 1 + 1..j + 1
    BY <1>3
  <2>3. QED
    BY <1>1, <1>3, <2>1, <2>2 DEF NoMouse
<1>4. EachFollows(p)
  <2> SUFFICES ASSUME NEW i \in 1..Len(p), NEW j \in 1..Len(p), i < j, p[i].type = "mouse",
                      p[j].type = "mouse", NoMouse(p, i + 1, j - 1)
               PROVE  Continues(p[i].buttons, p[j])
    BY DEF EachFollows
  <2>1. /\ i + 1 \in 1..Len(q) /\ j + 1 \in 1..Len(q) /\ p[i] = q[i + 1] /\ p[j] = q[j + 1]
        /\ i + 1 < j + 1 /\ (j + 1) - 1 = (j - 1) + 1
    BY <1>1
  <2>2. NoMouse(q, (i + 1) + 1, (j + 1) - 1)
    BY <1>1, <1>2, <2>1
  <2>3. QED
    BY <2>1, <2>2 DEF Track, EachFollows
<1>5. FirstFollows(p, t)
  <2> SUFFICES ASSUME NEW j \in 1..Len(p), p[j].type = "mouse", NoMouse(p, 1, j - 1), Steady(p[j])
               PROVE  t \subseteq p[j].buttons
    BY DEF FirstFollows
  <2>1. /\ j + 1 \in 1..Len(q) /\ p[j] = q[j + 1] /\ j - 1 \in Int /\ j - 1 <= Len(p)
        /\ (j - 1) + 1 = j /\ (j + 1) - 1 = j /\ 1 \in 1..Len(q) /\ 1 < j + 1
    BY <1>1
  <2>2. CASE Head(q).type = "mouse"
    <3>1. NoMouse(q, 1 + 1, (j + 1) - 1)
      BY <1>2, <2>1
    <3>2. q[j + 1].buttons = q[1].buttons
      BY <1>1, <2>1, <2>2, <3>1 DEF Track, EachFollows, Continues
    <3>3. QED
      BY <1>1, <2>1, <2>2, <3>2
  <2>3. CASE Head(q).type # "mouse"
    <3>1. NoMouse(q, 1, (j + 1) - 1)
      BY <1>3, <2>1, <2>3
    <3>2. s \subseteq q[j + 1].buttons
      BY <2>1, <3>1 DEF Track, FirstFollows
    <3>3. QED
      BY <2>1, <2>3, <3>2
  <2>4. QED
    BY <2>2, <2>3
<1>6. LastIsHeld(p, h)
  <2> SUFFICES ASSUME NEW i \in 1..Len(p), p[i].type = "mouse", NoMouse(p, i + 1, Len(p))
               PROVE  p[i].buttons = h
    BY DEF LastIsHeld
  <2>1. i + 1 \in 1..Len(q) /\ p[i] = q[i + 1] /\ Len(p) + 1 = Len(q) /\ i + 1 \in Nat
    BY <1>1
  <2>2. NoMouse(q, (i + 1) + 1, Len(q))
    BY <1>1, <1>2, <2>1
  <2>3. QED
    BY <2>1, <2>2 DEF Track, LastIsHeld
<1>7. NoneIsHeld(p, h, t)
  <2> SUFFICES ASSUME NoMouse(p, 1, Len(p)) PROVE t \subseteq h
    BY DEF NoneIsHeld
  <2>1. Len(p) + 1 = Len(q) /\ 1 \in 1..Len(q)
    BY <1>1
  <2>2. CASE Head(q).type = "mouse"
    <3>1. NoMouse(q, 1 + 1, Len(q))
      BY <1>1, <1>2, <2>1
    <3>2. q[1].buttons = h
      BY <1>1, <2>1, <2>2, <3>1 DEF Track, LastIsHeld
    <3>3. QED
      BY <1>1, <2>2, <3>2
  <2>3. CASE Head(q).type # "mouse"
    <3>1. NoMouse(q, 1, Len(q))
      BY <1>1, <1>3, <2>1, <2>3
    <3>2. QED
      BY <2>3, <3>1 DEF Track, NoneIsHeld
  <2>4. QED
    BY <2>2, <2>3
<1> QED
  BY <1>4, <1>5, <1>6, <1>7 DEF Track, p

\* What becomes of the buttons f that the program was told are down and that
\* old_mouse_status has forgotten, and of those down when the wheel is still to
\* turn: a press or a release that is still to come makes them known, or they are
\* in w.
Owes(q, f, w) ==
  /\ \A b \in f : b \in w \/ \E j \in 1..Len(q) : Renews(q[j], b)
  /\ \A i \in 1..Len(q) :
       q[i].type = "mouse" /\ Wheel(q[i]) =>
         \A b \in q[i].buttons : b \in w \/ \E j \in 1..Len(q) : i < j /\ Renews(q[j], b)

LEMMA OwesMore ==
  ASSUME NEW q \in Seq(Record), NEW r \in Record, NEW f, NEW w, NEW v, Owes(q, f, w),
         \A b \in w : b \in v \/ Renews(r, b),
         r.type = "mouse" /\ Wheel(r) => r.buttons \subseteq v
  PROVE  Owes(Append(q, r), f, v)
<1> DEFINE p == Append(q, r)
           n == Len(q) + 1
<1>1. /\ Len(q) \in Nat /\ Len(p) = n /\ p[n] = r /\ n = Len(q) + 1
      /\ \A i \in 1..Len(q) : p[i] = q[i]
  BY AppendProperties
<1> HIDE DEF p, n
<1>2. n \in 1..Len(p) /\ \A i \in 1..Len(q) : i \in 1..Len(p) /\ i < n
  BY <1>1
<1>3. ASSUME NEW b \in f PROVE b \in v \/ \E j \in 1..Len(p) : Renews(p[j], b)
  <2>1. CASE b \in w
    BY <1>1, <1>2, <2>1
  <2>2. CASE \E j \in 1..Len(q) : Renews(q[j], b)
    BY <1>1, <1>2, <2>2
  <2>3. QED
    BY <1>3, <2>1, <2>2 DEF Owes
<1>4. ASSUME NEW i \in 1..Len(p), p[i].type = "mouse", Wheel(p[i]), NEW b \in p[i].buttons
      PROVE  b \in v \/ \E j \in 1..Len(p) : i < j /\ Renews(p[j], b)
  <2>1. CASE i = n
    BY <1>1, <1>4, <2>1
  <2>2. CASE i # n
    <3>1. i \in 1..Len(q) /\ p[i] = q[i]
      BY <1>1, <2>2
    <3>2. CASE b \in w
      BY <1>1, <1>2, <3>1, <3>2
    <3>3. CASE \E j \in 1..Len(q) : i < j /\ Renews(q[j], b)
      BY <1>1, <1>2, <3>3
    <3>4. QED
      BY <1>4, <3>1, <3>2, <3>3 DEF Owes
  <2>3. QED
    BY <2>1, <2>2
<1> QED
  BY <1>3, <1>4 DEF Owes, p

\* The record at the front is taken: what it renews is no longer forgotten, and
\* what the wheel makes forgotten, in g, is owed by what comes behind.
LEMMA OwesTail ==
  ASSUME NEW q \in Seq(Record), q # <<>>, NEW f, NEW g, NEW w, Owes(q, f, w),
         \A b \in g : \/ b \in f /\ ~Renews(Head(q), b)
                      \/ Head(q).type = "mouse" /\ Wheel(Head(q)) /\ b \in Head(q).buttons
  PROVE  Owes(Tail(q), g, w)
<1> DEFINE p == Tail(q)
<1>1. /\ Len(q) \in Nat /\ 1 \in 1..Len(q) /\ Len(p) = Len(q) - 1 /\ Head(q) = q[1]
      /\ \A i \in 1..Len(p) : p[i] = q[i + 1] /\ i + 1 \in 1..Len(q)
  BY FirstAndRest
<1> HIDE DEF p
<1>2. \A j \in 1..Len(q) : j # 1 => j - 1 \in 1..Len(p) /\ p[j - 1] = q[j]
  <2> SUFFICES ASSUME NEW j \in 1..Len(q), j # 1 PROVE j - 1 \in 1..Len(p) /\ p[j - 1] = q[j]
    OBVIOUS
  <2>1. j - 1 \in 1..Len(p) /\ (j - 1) + 1 = j
    BY <1>1
  <2>2. QED
    BY <1>1, <2>1
<1>3. ASSUME NEW b \in g PROVE b \in w \/ \E j \in 1..Len(p) : Renews(p[j], b)
  <2>1. b \in w \/ \E j \in 1..Len(q) : j # 1 /\ Renews(q[j], b)
    <3>1. CASE b \in f /\ ~Renews(Head(q), b)
      BY <1>1, <3>1 DEF Owes
    <3>2. CASE Head(q).type = "mouse" /\ Wheel(Head(q)) /\ b \in Head(q).buttons
      <4>1. b \in w \/ \E j \in 1..Len(q) : 1 < j /\ Renews(q[j], b)
        BY <1>1, <3>2 DEF Owes
      <4>2. QED
        BY <4>1
    <3>3. QED
      BY <1>3, <3>1, <3>2
  <2>2. QED
    BY <1>2, <2>1
<1>4. ASSUME NEW i \in 1..Len(p), p[i].type = "mouse", Wheel(p[i]), NEW b \in p[i].buttons
      PROVE  b \in w \/ \E j \in 1..Len(p) : i < j /\ Renews(p[j], b)
  <2>1. b \in w \/ \E j \in 1..Len(q) : i + 1 < j /\ Renews(q[j], b)
    BY <1>1, <1>4 DEF Owes
  <2>2. \A j \in 1..Len(q) : i + 1 < j => j # 1 /\ i < j - 1
    BY <1>1
  <2>3. QED
    BY <1>2, <2>1, <2>2
<1> QED
  BY <1>3, <1>4 DEF Owes, p

\* The buttons the program was told are down: those old_mouse_status still counts
\* as down and those it has forgotten.
Counted == {b \in seen : old_mouse.button[b] \in {PRESSED, MOVED}}
Forgotten == seen \ Counted
NoClickKept == \A b \in Buttons : old_mouse.button[b] \in {RELEASED, PRESSED, MOVED}

\* A report counts no button as down that its record and the click do not say is
\* down, and a press or a release leaves none of its buttons forgotten.
LEMMA ReportTrack ==
  ASSUME NEW r \in MouseRecord, NEW clicked \in SUBSET Buttons, KeyboardTypes, NoClickKept,
         Report(r, clicked), Steady(r) => Counted \subseteq r.buttons, clicked # {} => r.flags = 0,
         r.flags \in {0, 1, 2}
  PROVE  /\ Counted' \subseteq r.buttons \ clicked /\ NoClickKept'
         /\ Forgotten' \subseteq Forgotten
         /\ \A b \in Forgotten' : ~Renews(r, b)
<1> DEFINE button == ButtonsOf(r, clicked)
           moving == {b \in Buttons : button[b] = MOVED}
           compared == {b \in Buttons : \A m \in moving : Index(b) <= Index(m)}
           changes == {b \in compared : old_mouse.button[b] # button[b]} \cup (compared \cap moving)
<1>1. ASSUME NEW b \in Buttons
      PROVE  /\ button[b] \in {PRESSED, MOVED} => b \in r.buttons \ clicked
             /\ button[b] = MOVED => r.flags = 1
             /\ r.flags = 1 /\ b \in r.buttons /\ clicked = {} => button[b] = MOVED
             /\ button[b] \in {PRESSED, MOVED} => Remembered(button)[b] = button[b]
             /\ Remembered(button)[b] \in {RELEASED, PRESSED, MOVED}
             /\ Remembered(button)[b] \in {PRESSED, MOVED} => button[b] \in {PRESSED, MOVED}
             /\ b \in r.buttons => button[b] # RELEASED
  BY DEF ButtonsOf, Remembered, RELEASED, PRESSED, CLICKED, DOUBLE_CLICKED, MOVED
<1>2. seen \subseteq Buttons
  BY DEF KeyboardTypes
<1>3. \/ moving # {} /\ seen' = seen /\ old_mouse' = old_mouse
      \/ /\ old_mouse' = [button |-> Remembered(button), place |-> r.place]
         /\ seen' = (seen \ changes) \cup {b \in changes : button[b] \in {PRESSED, MOVED}}
  BY DEF Report, mouseVars
<1> HIDE DEF button
<1>4. moving # {} => r.flags = 1 /\ clicked = {} /\ Counted \subseteq r.buttons
  <2>1. moving # {} => r.flags = 1
    BY <1>1
  <2>2. r.flags = 1 => clicked = {} /\ Steady(r)
    BY DEF Steady
  <2>3. QED
    BY <2>1, <2>2
<1>5. CASE moving # {} /\ seen' = seen /\ old_mouse' = old_mouse
  BY <1>4, <1>5 DEF Counted, Forgotten, NoClickKept, Renews
<1>6. CASE /\ old_mouse' = [button |-> Remembered(button), place |-> r.place]
           /\ seen' = (seen \ changes) \cup {b \in changes : button[b] \in {PRESSED, MOVED}}
  <2>1. ASSUME NEW b \in Counted'
        PROVE  b \in r.buttons \ clicked
    <3>1. b \in Buttons /\ old_mouse'.button[b] \in {PRESSED, MOVED}
      BY <1>2, <1>6, <2>1 DEF Counted
    <3>2. button[b] \in {PRESSED, MOVED}
      BY <1>1, <1>6, <3>1
    <3>3. QED
      BY <1>1, <3>1, <3>2
  <2>2. NoClickKept'
    BY <1>1, <1>6 DEF NoClickKept
  <2>3. ASSUME NEW b \in Forgotten'
        PROVE  b \in Forgotten /\ ~Renews(r, b)
    <3>1. /\ b \in Buttons /\ b \in seen' /\ Remembered(button)[b] \notin {PRESSED, MOVED}
      BY <1>2, <1>6, <2>3 DEF Counted, Forgotten
    <3>2. button[b] \notin {PRESSED, MOVED}
      BY <1>1, <3>1
    <3>3. b \in seen /\ b \notin changes
      BY <1>6, <3>1, <3>2
    <3>4. CASE b \in compared
      <4>1. old_mouse.button[b] = button[b]
        BY <3>3, <3>4
      <4>2. old_mouse.button[b] = RELEASED
        BY <3>1, <3>2, <4>1 DEF NoClickKept
      <4>3. b \notin r.buttons
        BY <1>1, <3>1, <4>1, <4>2
      <4>4. QED
        BY <3>2, <3>3, <4>1, <4>3 DEF Forgotten, Counted, Renews
    <3>5. CASE b \notin compared
      <4>1. moving # {}
        BY <3>1, <3>5
      <4>2. r.flags = 1 /\ clicked = {} /\ Counted \subseteq r.buttons
        BY <1>4, <4>1
      <4>3. b \notin r.buttons
        BY <1>1, <3>1, <3>2, <4>2
      <4>4. QED
        BY <3>3, <4>2, <4>3 DEF Forgotten, Renews
    <3>6. QED
      BY <3>4, <3>5
  <2>4. QED
    BY <2>1, <2>2, <2>3
<1> QED
  BY <1>3, <1>5, <1>6

\* The records that are still to be handled, with the press that waits in save_ip.
Coming == IF kpc = "nap" THEN <<save_ip>> \o input ELSE input

ButtonInv ==
  cut = {} => /\ Track(Coming, held, Counted)
              /\ Owes(Coming, Forgotten, wheeled)
              /\ NoClickKept

LEMMA PressAndRest ==
  ASSUME NEW r \in Record, NEW q \in Seq(Record)
  PROVE  /\ <<r>> \o q \in Seq(Record) /\ <<r>> \o q # <<>> /\ Head(<<r>> \o q) = r
         /\ Tail(<<r>> \o q) = q
<1> DEFINE p == <<r>> \o q
<1>1. <<r>> \in Seq(Record) /\ Len(<<r>>) = 1 /\ <<r>>[1] = r /\ Len(q) \in Nat
  OBVIOUS
<1>2. /\ p \in Seq(Record) /\ Len(p) = Len(<<r>>) + Len(q)
      /\ \A i \in 1..Len(<<r>>) + Len(q) :
           p[i] = IF i <= Len(<<r>>) THEN <<r>>[i] ELSE q[i - Len(<<r>>)]
  BY <1>1, ConcatProperties
<1> HIDE DEF p
<1>3. /\ Len(p) = Len(q) + 1 /\ p[1] = r
      /\ \A i \in 1..Len(q) : p[i + 1] = q[i]
  <2>1. 1 \in 1..Len(<<r>>) + Len(q)
    BY <1>1
  <2>2. \A i \in 1..Len(q) : /\ i + 1 \in 1..Len(<<r>>) + Len(q) /\ ~(i + 1 <= Len(<<r>>))
                             /\ (i + 1) - Len(<<r>>) = i
    BY <1>1
  <2>3. QED
    BY <1>1, <1>2, <2>1, <2>2
<1>4. p # <<>>
  BY <1>1, <1>3
<1>5. /\ Head(p) = p[1] /\ Tail(p) \in Seq(Record) /\ Len(Tail(p)) = Len(p) - 1
      /\ \A i \in 1..Len(p) - 1 : Tail(p)[i] = p[i + 1]
  BY <1>2, <1>4, FirstAndRest
<1>6. Len(Tail(p)) = Len(q) /\ \A i \in 1..Len(Tail(p)) : Tail(p)[i] = q[i]
  BY <1>1, <1>3, <1>5
<1>7. Tail(p) = q
  BY <1>5, <1>6, SeqEqual
<1> QED
  BY <1>2, <1>3, <1>4, <1>5, <1>7 DEF p

LEMMA SameFrontAndRest ==
  ASSUME NEW p \in Seq(Record), NEW q \in Seq(Record), p # <<>>, q # <<>>, Head(p) = Head(q),
         Tail(p) = Tail(q)
  PROVE  p = q
<1>1. /\ Len(p) \in Nat /\ Len(Tail(p)) = Len(p) - 1 /\ Head(p) = p[1]
      /\ \A i \in 1..Len(p) - 1 : Tail(p)[i] = p[i + 1]
  BY FirstAndRest
<1>2. /\ Len(q) \in Nat /\ Len(Tail(q)) = Len(q) - 1 /\ Head(q) = q[1]
      /\ \A i \in 1..Len(q) - 1 : Tail(q)[i] = q[i + 1]
  BY FirstAndRest
<1>3. Len(p) = Len(q)
  <2>1. Len(Tail(p)) = Len(Tail(q))
    OBVIOUS
  <2>2. PICK m \in Nat, n \in Nat : m = Len(p) /\ n = Len(q)
    BY <1>1, <1>2
  <2>3. m - 1 = n - 1
    BY <1>1, <1>2, <2>1, <2>2
  <2>4. m = n
    BY <2>3
  <2>5. QED
    BY <2>2, <2>4
<1>4. ASSUME NEW i \in 1..Len(p) PROVE p[i] = q[i]
  <2>1. CASE i = 1
    BY <1>1, <1>2, <2>1
  <2>2. CASE i # 1
    <3>1. i - 1 \in 1..Len(p) - 1 /\ (i - 1) + 1 = i
      BY <1>1, <2>2
    <3>2. QED
      BY <1>1, <1>2, <1>3, <3>1
  <2>3. QED
    BY <2>1, <2>2
<1> QED
  BY <1>3, <1>4, SeqEqual

LEMMA ComingGrows ==
  ASSUME NEW x \in Record, NEW q \in Seq(Record), NEW r \in Record
  PROVE  <<x>> \o Append(q, r) = Append(<<x>> \o q, r)
<1>1. <<x>> \in Seq(Record) /\ <<r>> \in Seq(Record) /\ <<x>> \o q \in Seq(Record)
  BY PressAndRest
<1>2. Append(q, r) = q \o <<r>> /\ Append(<<x>> \o q, r) = (<<x>> \o q) \o <<r>>
  BY <1>1, AppendIsConcat
<1>3. (<<x>> \o q) \o <<r>> = <<x>> \o (q \o <<r>>)
  BY <1>1, ConcatAssociative
<1> QED
  BY <1>2, <1>3

LEMMA ComingIsSeq == ASSUME IInv PROVE Coming \in Seq(Record)
BY PressAndRest DEF Coming, IInv, Types, ConsoleTypes, KeyboardTypes

LEMMA UserButton == IInv /\ ButtonInv /\ User => ButtonInv'
<1> SUFFICES ASSUME IInv, ButtonInv, User, cut' = {}
             PROVE  Track(Coming, held, Counted)' /\ Owes(Coming, Forgotten, wheeled)' /\ NoClickKept'
  BY DEF ButtonInv
<1>1. UNCHANGED <<kpc, save_ip, seen, old_mouse, cut>>
  BY UserStep DEF IInv, Types, UserSame, mouseVars
<1>2. PICK r \in Record : Came(r)
  BY UserStep DEF IInv, Types
<1>3. input \in Seq(Record) /\ save_ip \in Record /\ input' = Append(input, r)
  BY <1>2 DEF IInv, Types, ConsoleTypes, KeyboardTypes, Came
<1>4. cut = {} /\ Counted' = Counted /\ Forgotten' = Forgotten
  BY <1>1 DEF Counted, Forgotten
<1>5. /\ Track(Coming, held, Counted) /\ Owes(Coming, Forgotten, wheeled) /\ NoClickKept
      /\ Coming \in Seq(Record)
  BY <1>4, ComingIsSeq DEF ButtonInv
<1>6. Coming' = Append(Coming, r)
  <2>1. CASE kpc = "nap"
    <3>1. Coming' = <<save_ip>> \o Append(input, r) /\ Coming = <<save_ip>> \o input
      BY <1>1, <1>3, <2>1 DEF Coming
    <3>2. QED
      BY <1>3, <3>1, ComingGrows
  <2>2. CASE kpc # "nap"
    BY <1>1, <1>3, <2>2 DEF Coming
  <2>3. QED
    BY <2>1, <2>2
<1>7. Track(Append(Coming, r), held', Counted)
  <2>1. CASE r.type # "mouse"
    <3>1. held' = held
      BY <1>2, <2>1 DEF Came
    <3>2. QED
      BY <1>5, <2>1, <3>1, TrackOther
  <2>2. CASE r.type = "mouse"
    <3>1. r.buttons = held' /\ Continues(held, r)
      BY <1>2, <2>2 DEF Came, Steady, Continues
    <3>2. Track(Append(Coming, r), r.buttons, Counted)
      BY <1>5, <2>2, <3>1, TrackMouse
    <3>3. QED
      BY <3>1, <3>2
  <2>3. QED
    BY <2>1, <2>2
<1>8. Owes(Append(Coming, r), Forgotten, wheeled')
  <2>1. \A b \in wheeled : b \in wheeled' \/ Renews(r, b)
    BY <1>2 DEF Came
  <2>2. r.type = "mouse" /\ Wheel(r) => r.buttons \subseteq wheeled'
    BY <1>2 DEF Came, Wheel, Renews
  <2>3. QED
    BY <1>5, <2>1, <2>2, OwesMore
<1>9. Track(Coming', held', Counted') /\ Owes(Coming', Forgotten', wheeled')
  BY <1>4, <1>6, <1>7, <1>8
<1> QED
  BY <1>1, <1>5, <1>9 DEF NoClickKept

\* A press is handled, with the record that completes a click: it renews no
\* button that the press does not.
LEMMA CompleteTrack ==
  ASSUME IInv, NEW q \in Seq(Record), q # <<>>, NEW r \in MouseRecord, r = Head(q), IsPress(r),
         Complete(r, Tail(q)), Track(q, held, Counted), Owes(q, Forgotten, wheeled), NoClickKept,
         cut' = {}
  PROVE  /\ Track(input', held, Counted') /\ Owes(input', Forgotten', wheeled)
         /\ NoClickKept'
<1>1. Tail(q) \in Seq(Record) /\ r.type = "mouse" /\ KeyboardTypes /\ r.flags = 0
  BY FirstAndRest DEF MouseRecord, IInv, Types, IsPress
<1>2. PICK clicked \in SUBSET Buttons :
        /\ clicked \subseteq r.buttons /\ Report(r, clicked)
        /\ \/ clicked = {} /\ input' = Tail(q) /\ cut' = cut
           \/ Thrown(r, Tail(q), clicked)
  BY <1>1, CompleteStep
<1>3. /\ Counted' \subseteq r.buttons \ clicked /\ NoClickKept' /\ Forgotten' \subseteq Forgotten
      /\ \A b \in Forgotten' : ~Renews(r, b)
  BY <1>1, <1>2, ReportTrack DEF Steady
<1>4. Track(Tail(q), held, Counted')
  BY <1>1, <1>3, TrackTail
<1>5. Owes(Tail(q), Forgotten', wheeled)
  BY <1>3, OwesTail
<1>6. CASE clicked = {} /\ input' = Tail(q)
  BY <1>3, <1>4, <1>5, <1>6
<1>7. CASE Thrown(r, Tail(q), clicked)
  <2>1. /\ Tail(q) # <<>> /\ input' = Tail(Tail(q)) /\ Head(Tail(q)).type = "mouse"
        /\ clicked # {} /\ clicked = r.buttons \ Head(Tail(q)).buttons
    BY <1>7 DEF Thrown
  <2>2. Track(Tail(Tail(q)), held, Counted')
    BY <1>1, <1>3, <1>4, <2>1, TrackTail
  <2>3. Head(Tail(q)).buttons \subseteq r.buttons
    BY <1>1, <2>1, SecondFollows DEF Continues
  <2>4. \A b \in Forgotten' : ~Renews(Head(Tail(q)), b)
    BY <1>1, <1>3, <2>3 DEF Renews
  <2>5. Owes(Tail(Tail(q)), Forgotten', wheeled)
    BY <1>1, <1>5, <2>1, <2>4, OwesTail
  <2>6. QED
    BY <1>3, <2>1, <2>2, <2>5
<1> QED
  BY <1>2, <1>6, <1>7

\* The first record of the mouse, when it is handled.
LEMMA FrontFollows ==
  ASSUME NEW q \in Seq(Record), q # <<>>, NEW h, NEW s, Track(q, h, s), Head(q).type = "mouse"
  PROVE  Steady(Head(q)) => s \subseteq Head(q).buttons
<1>1. Len(q) \in Nat /\ 1 \in 1..Len(q) /\ Head(q) = q[1]
  BY FirstAndRest
<1>2. NoMouse(q, 1, 1 - 1)
  BY DEF NoMouse
<1> QED
  BY <1>1, <1>2 DEF Track, FirstFollows

LEMMA KeypadButton == IInv /\ ButtonInv /\ Keypad => ButtonInv'
<1> SUFFICES ASSUME IInv, ButtonInv, Keypad, cut' = {}
             PROVE  Track(Coming, held, Counted)' /\ Owes(Coming, Forgotten, wheeled)' /\ NoClickKept'
  BY DEF ButtonInv
<1>1. input \in Seq(Record) /\ held' = held /\ wheeled' = wheeled /\ KeyboardTypes
  BY KeypadLeaves DEF KeypadSame, IInv, Types, ConsoleTypes
<1>2. cut = {}
  <2>1. CASE CheckKey \/ GetRepeat \/ GetKey \/ GetFocus \/ GetSize
    BY <2>1 DEF CheckKey, GetRepeat, GetKey, GetFocus, GetSize, history
  <2>2. CASE GetMouse \/ NapOver
    BY <2>2 DEF GetMouse, NapOver, Complete
  <2>3. QED
    BY <2>1, <2>2 DEF Keypad
<1>3. Track(Coming, held, Counted) /\ Owes(Coming, Forgotten, wheeled) /\ NoClickKept
  BY <1>2 DEF ButtonInv
<1>4. ASSUME UNCHANGED <<seen, old_mouse>>
      PROVE  Counted' = Counted /\ Forgotten' = Forgotten /\ NoClickKept'
  BY <1>3, <1>4 DEF Counted, Forgotten, NoClickKept
<1>5. CASE CheckKey \/ GetRepeat
  <2>1. UNCHANGED <<input, seen, old_mouse>> /\ kpc # "nap" /\ kpc' # "nap"
    BY <1>5 DEF CheckKey, GetRepeat, Gives, Returns, consoleVars, mouseVars
  <2>2. Coming' = Coming
    BY <2>1 DEF Coming
  <2>3. QED
    BY <1>1, <1>3, <1>4, <2>1, <2>2
<1>6. CASE GetKey \/ GetFocus \/ GetSize
  <2>1. /\ UNCHANGED <<seen, old_mouse>> /\ kpc # "nap" /\ kpc' # "nap" /\ input # <<>>
        /\ Head(input).type # "mouse" /\ input' = Tail(input)
    BY <1>6 DEF GetKey, GetFocus, GetSize, Read, Gives, Returns, mouseVars
  <2>2. Track(input, held, Counted) /\ Owes(input, Forgotten, wheeled)
    BY <1>3, <2>1 DEF Coming
  <2>3. Track(Tail(input), held, Counted)
    BY <1>1, <2>1, <2>2, TrackTail
  <2>4. Owes(Tail(input), Forgotten, wheeled)
    <3>1. \A b \in Forgotten : b \in Forgotten /\ ~Renews(Head(input), b)
      BY <2>1 DEF Renews
    <3>2. QED
      BY <1>1, <2>1, <2>2, <3>1, OwesTail
  <2>5. Coming' = Tail(input)
    BY <2>1 DEF Coming
  <2>6. QED
    BY <1>1, <1>4, <2>1, <2>3, <2>4, <2>5
<1>7. CASE GetMouse
  <2>1. /\ kpc = "get" /\ input # <<>> /\ Head(input).type = "mouse" /\ save_ip' = Head(input)
        /\ Head(input) \in Record /\ Tail(input) \in Seq(Record)
    BY <1>1, <1>7, FirstAndRest DEF GetMouse
  <2>2. PICK r \in MouseRecord : r = Head(input) /\ r.type = "mouse" /\ r \in Record
    BY <2>1, RecordByType
  <2>3. Track(input, held, Counted) /\ Owes(input, Forgotten, wheeled)
    BY <1>3, <2>1 DEF Coming
  <2>4. Steady(r) => Counted \subseteq r.buttons
    BY <1>1, <2>1, <2>2, <2>3, FrontFollows
  <2>5. CASE r.flags \in {4, 8}
    <3>1. /\ kpc' # "nap" /\ input' = Tail(input) /\ seen' = seen
          /\ old_mouse' = [button |-> NoButton, place |-> 0]
      BY <1>7, <2>2, <2>5 DEF GetMouse, Returns
    <3>2. Counted \subseteq r.buttons
      BY <2>4, <2>5 DEF Steady
    <3>3. seen \subseteq Buttons /\ \A b \in Buttons : old_mouse'.button[b] = RELEASED
      BY <1>1, <3>1 DEF NoButton, KeyboardTypes
    <3>4. Counted' = {} /\ Forgotten' = seen /\ NoClickKept'
      BY <3>1, <3>3 DEF Counted, Forgotten, NoClickKept, RELEASED, PRESSED, MOVED
    <3>5. Track(Tail(input), held, Counted')
      BY <1>1, <2>1, <2>2, <2>3, <3>4, TrackTail
    <3>6. \A b \in Forgotten' : \/ b \in Forgotten /\ ~Renews(Head(input), b)
                                \/ /\ Head(input).type = "mouse" /\ Wheel(Head(input))
                                   /\ b \in Head(input).buttons
      BY <2>2, <2>5, <3>2, <3>4 DEF Forgotten, Renews, Wheel
    <3>7. Owes(Tail(input), Forgotten', wheeled)
      BY <1>1, <2>1, <2>3, <3>6, OwesTail
    <3>8. Coming' = Tail(input)
      BY <3>1 DEF Coming
    <3>9. QED
      BY <1>1, <3>4, <3>5, <3>7, <3>8
  <2>6. CASE r.flags \notin {4, 8} /\ IsPress(r) /\ event_count = 1
    <3>1. kpc' = "nap" /\ input' = Tail(input) /\ UNCHANGED <<old_mouse, seen>>
      BY <1>7, <2>2, <2>6 DEF GetMouse, mouseVars
    <3>2. Coming' = <<Head(input)>> \o Tail(input)
      BY <2>1, <3>1 DEF Coming
    <3>3. <<Head(input)>> \o Tail(input) = input
      <4>1. /\ <<Head(input)>> \o Tail(input) \in Seq(Record)
            /\ <<Head(input)>> \o Tail(input) # <<>>
            /\ Head(<<Head(input)>> \o Tail(input)) = Head(input)
            /\ Tail(<<Head(input)>> \o Tail(input)) = Tail(input)
        BY <2>1, PressAndRest
      <4>2. QED
        BY <1>1, <2>1, <4>1, SameFrontAndRest
    <3>4. Coming' = input
      BY <3>2, <3>3
    <3>5. QED
      BY <1>1, <1>4, <2>3, <3>1, <3>4
  <2>7. CASE r.flags \notin {4, 8} /\ IsPress(r) /\ event_count # 1
    <3>1. Complete(r, Tail(input))
      BY <1>7, <2>2, <2>7 DEF GetMouse
    <3>2. Track(input', held, Counted') /\ Owes(input', Forgotten', wheeled) /\ NoClickKept'
      BY <1>1, <1>3, <2>1, <2>2, <2>3, <2>7, <3>1, CompleteTrack
    <3>3. kpc' # "nap"
      BY <3>1 DEF Complete, Report, Returns
    <3>4. Coming' = input'
      BY <3>3 DEF Coming
    <3>5. QED
      BY <1>1, <3>2, <3>4
  <2>8. CASE r.flags \notin {4, 8} /\ ~IsPress(r)
    <3>1. Report(r, {}) /\ input' = Tail(input) /\ r.flags \in {0, 1, 2}
      BY <1>7, <2>2, <2>8 DEF GetMouse, MouseRecord
    <3>2. /\ Counted' \subseteq r.buttons /\ NoClickKept' /\ Forgotten' \subseteq Forgotten
          /\ \A b \in Forgotten' : ~Renews(r, b)
      BY <1>1, <1>3, <2>4, <3>1, ReportTrack
    <3>3. Track(Tail(input), held, Counted')
      BY <1>1, <2>1, <2>2, <2>3, <3>2, TrackTail
    <3>4. Owes(Tail(input), Forgotten', wheeled)
      BY <1>1, <2>1, <2>2, <2>3, <3>2, OwesTail
    <3>5. kpc' # "nap"
      BY <3>1 DEF Report, Returns
    <3>6. Coming' = Tail(input)
      BY <3>1, <3>5 DEF Coming
    <3>7. QED
      BY <1>1, <3>2, <3>3, <3>4, <3>6
  <2>9. QED
    BY <2>5, <2>6, <2>7, <2>8
<1>8. CASE NapOver
  <2>1. kpc = "nap" /\ Complete(save_ip, input)
    BY <1>8 DEF NapOver
  <2>2. save_ip \in MouseRecord /\ IsPress(save_ip) /\ save_ip \in Record
    BY <2>1, RecordByType DEF IInv, Types, Waiting, KeyboardTypes
  <2>3. PICK q \in Seq(Record) : q = <<save_ip>> \o input
    BY <1>1, <2>2, PressAndRest
  <2>4. /\ q # <<>> /\ Head(q) = save_ip /\ Tail(q) = input
        /\ Track(q, held, Counted) /\ Owes(q, Forgotten, wheeled)
    BY <1>1, <1>3, <2>1, <2>2, <2>3, PressAndRest DEF Coming
  <2>5. Track(input', held, Counted') /\ Owes(input', Forgotten', wheeled) /\ NoClickKept'
    BY <1>3, <2>1, <2>2, <2>4, CompleteTrack
  <2>6. kpc' # "nap"
    BY <2>1 DEF Complete, Report, Returns
  <2>7. Coming' = input'
    BY <2>6 DEF Coming
  <2>8. QED
    BY <1>1, <2>5, <2>7
<1> QED
  BY <1>5, <1>6, <1>7, <1>8 DEF Keypad

LEMMA ResizeButton ==
  IInv /\ ButtonInv /\ (MenuResize \/ ResizeRefused \/ ResizeRest) => ButtonInv'
<1> SUFFICES ASSUME IInv, ButtonInv, MenuResize \/ ResizeRefused \/ ResizeRest, cut' = {}
             PROVE  Track(Coming, held, Counted)' /\ Owes(Coming, Forgotten, wheeled)' /\ NoClickKept'
  BY DEF ButtonInv
<1>1. UNCHANGED <<held, seen, old_mouse, wheeled>> /\ kpc # "nap" /\ kpc' # "nap" /\ input \in Seq(Record)
  BY ResizeLeaves DEF ResizeSame, MenuResize, ResizeRefused, ResizeRest, GetRows, GetColumns,
                      SetWindow, Flush, GetLines, GetCols, IInv, Types, ConsoleTypes
<1>2. cut = {}
  BY DEF MenuResize, ResizeRefused, ResizeRest, GetRows, GetColumns, SetWindow, Flush, GetLines,
         GetCols, history
<1>3. Track(input, held, Counted) /\ Owes(input, Forgotten, wheeled) /\ NoClickKept
  BY <1>1, <1>2 DEF ButtonInv, Coming
<1>4. Counted' = Counted /\ Forgotten' = Forgotten /\ NoClickKept' /\ Coming' = input'
  BY <1>1, <1>3 DEF Counted, Forgotten, NoClickKept, Coming
<1>5. Track(input', held, Counted) /\ Owes(input', Forgotten, wheeled)
  <2>1. CASE Flush
    <3>1. /\ input' = <<>> /\ Len(input') = 0
          /\ \A i \in DOMAIN input : input[i].type \notin {"key", "mouse"}
      BY <1>2, <2>1 DEF Flush
    <3>2. NoMouse(input, 1, Len(input))
      BY <1>1, <3>1 DEF NoMouse
    <3>3. Counted \subseteq held
      BY <1>3, <3>2 DEF Track, NoneIsHeld
    <3>4. Track(<<>>, held, Counted)
      BY <3>3 DEF Track, EachFollows, FirstFollows, LastIsHeld, NoneIsHeld
    <3>5. Forgotten \subseteq wheeled
      BY <1>1, <1>3, <3>1 DEF Owes, Renews
    <3>6. Owes(<<>>, Forgotten, wheeled)
      BY <3>5 DEF Owes
    <3>7. QED
      BY <3>1, <3>4, <3>6
  <2>2. CASE SetWindow
    <3>1. \/ input' = input
          \/ input' = Append(input, [type |-> "size", size |-> window'])
      BY <2>2 DEF SetWindow
    <3>2. [type |-> "size", size |-> window'] \in Record
      <4>1. window' \in Places
        BY <2>2, ResizeStepInv DEF ResizeRest, IInv, Types, ConsoleTypes
      <4>2. QED
        BY <4>1 DEF Record, SizeRecord
    <3>3. PICK r \in Record : /\ r = [type |-> "size", size |-> window'] /\ r.type # "mouse"
      BY <3>2
    <3>4. Track(Append(input, r), held, Counted)
      BY <1>1, <1>3, <3>3, TrackOther
    <3>5. Owes(Append(input, r), Forgotten, wheeled)
      BY <1>1, <1>3, <3>3, OwesMore
    <3>6. QED
      BY <1>3, <3>1, <3>3, <3>4, <3>5
  <2>3. CASE MenuResize \/ ResizeRefused \/ GetLines \/ GetCols
    <3>1. input' = input
      BY <2>3 DEF MenuResize, ResizeRefused, GetRows, GetColumns, GetLines, GetCols, consoleVars
    <3>2. QED
      BY <1>3, <3>1
  <2>4. QED
    BY <2>1, <2>2, <2>3 DEF ResizeRest
<1> QED
  BY <1>1, <1>4, <1>5

LEMMA StepButton == IInv /\ ButtonInv /\ [Next]_vars => ButtonInv'
<1> SUFFICES ASSUME IInv, ButtonInv, [Next]_vars PROVE ButtonInv'
  OBVIOUS
<1>1. CASE User
  BY <1>1, UserButton
<1>2. CASE Library
  BY <1>2, KeypadButton DEF Library
<1>3. CASE Arrow \/ Choose \/ OtherKey \/ PathKey \/ PathDone
  <2>1. KeysSame /\ kpc = "act" /\ kpc' \in {"look", "act"}
    BY <1>3 DEF Arrow, Choose, OtherKey, PathKey, PathDone
  <2>2. UNCHANGED <<input, held, seen, old_mouse, cut, wheeled>>
    BY <2>1 DEF KeysSame, consoleVars, mouseVars, history
  <2>3. Coming' = Coming
    BY <2>1, <2>2 DEF Coming
  <2>4. QED
    BY <2>2, <2>3 DEF ButtonInv, Counted, Forgotten, NoClickKept
<1>4. CASE MenuResize \/ ResizeRefused \/ ResizeRest
  BY <1>4, ResizeButton
<1>5. CASE UNCHANGED vars
  <2>1. UNCHANGED <<input, held, seen, old_mouse, cut, wheeled, kpc, save_ip>>
    BY <1>5 DEF vars, keyVars, consoleVars, mouseVars, history
  <2>2. Coming' = Coming
    BY <2>1 DEF Coming
  <2>3. QED
    BY <2>1, <2>2 DEF ButtonInv, Counted, Forgotten, NoClickKept
<1> QED
  BY <1>1, <1>2, <1>3, <1>4, <1>5 DEF Next, Program

\* Of every button the program was told is down it is told that it went up, once
\* all records are read and none was discarded, although a click throws out the
\* record of the release and a move is passed over where the pointer stands still,
\* except of a button that was held while the wheel turned, until it is pressed
\* again: the handler of the wheel forgets it.
THEOREM ButtonsComeUp == Spec => []NoStuckButton
<1>1. Init => ButtonInv
  <2> SUFFICES ASSUME Init
               PROVE  Track(Coming, held, Counted) /\ Owes(Coming, Forgotten, wheeled) /\ NoClickKept
    BY DEF ButtonInv
  <2>1. Coming = <<>> /\ Counted = {} /\ Forgotten = {}
    BY DEF Init, KeyInit, Coming, Counted, Forgotten
  <2>2. NoClickKept
    BY DEF Init, KeyInit, NoClickKept, NoButton
  <2>3. QED
    BY <2>1, <2>2 DEF Track, EachFollows, FirstFollows, LastIsHeld, NoneIsHeld, Owes
<1>2. IInv /\ ButtonInv /\ [Next]_vars => ButtonInv'
  BY StepButton
<1>3. ButtonInv => NoStuckButton
  <2> SUFFICES ASSUME ButtonInv, AtRest, cut = {} PROVE seen \subseteq held \cup wheeled
    BY DEF NoStuckButton
  <2>1. NoneIsHeld(<<>>, held, Counted) /\ Owes(<<>>, Forgotten, wheeled)
    BY DEF ButtonInv, Track, Coming, AtRest
  <2>2. Counted \subseteq held /\ Forgotten \subseteq wheeled
    BY <2>1 DEF NoneIsHeld, NoMouse, Owes
  <2>3. QED
    BY <2>2 DEF Forgotten
<1> QED
  BY <1>1, <1>2, <1>3, Kernel, PTL DEF Spec

(***************************************************************************)
(* _fit_console_window.                                                    *)
(***************************************************************************)
Half(n) == ((n - 1) \div 2) + 1
Least(a, b) == IF a <= b THEN a ELSE b

LEMMA HalfFits ==
  ASSUME NEW n \in Nat \ {0}, NEW m \in Nat \ {0}
  PROVE  /\ Half(n) \in 1..n
         /\ Half(n) <= m <=> 2 * m >= n
         /\ 2 * m >= n <=> 2 * Least(n, m) >= n
         /\ Least(n, m) \in 1..n /\ Least(n, m) <= m
         /\ 2 * m >= n => Least(n, m) \in Half(n)..n
BY DEF Half, Least

LEMMA GreatestIs ==
  ASSUME NEW S, S \subseteq Int, NEW x \in S, \A y \in S : y <= x
  PROVE  Greatest(S) = x
<1>1. \A z \in S : (\A y \in S : y <= z) => z = x
  OBVIOUS
<1> QED
  BY <1>1 DEF Greatest

\* The greatest of a range up to a limit.
LEMMA GreatestUpTo ==
  ASSUME NEW a \in Nat \ {0}, NEW n \in Nat \ {0}, NEW m \in Nat \ {0}, Least(n, m) \in a..n,
         NEW S, \A c : c \in S <=> c \in a..n /\ c <= m
  PROVE  Greatest(S) = Least(n, m)
<1>1. S \subseteq Int /\ Least(n, m) \in S
  BY DEF Least
<1>2. \A y \in S : y <= Least(n, m)
  BY DEF Least
<1> QED
  BY <1>1, <1>2, GreatestIs

LEMMA FitIsMost ==
  ASSUME NEW s \in (Nat \ {0}) \X (Nat \ {0}), NEW w
  PROVE  LET most == <<Greatest({r \in 1..s[1] : Accepts(<<r, 1>>)}),
                       Greatest({c \in 1..s[2] : Accepts(<<1, c>>)})>>
         IN  FitConsoleWindow(s, w) =
               IF 2 * most[1] >= s[1] /\ 2 * most[2] >= s[2] THEN most ELSE w
<1> DEFINE x == Least(s[1], Largest[1])
           y == Least(s[2], Largest[2])
           cols == {c \in Half(s[2])..s[2] : Accepts(<<Half(s[1]), c>>)}
           rows(c) == {r \in Half(s[1])..s[1] : Accepts(<<r, c>>)}
<1>1. /\ s[1] \in Nat \ {0} /\ s[2] \in Nat \ {0} /\ s = <<s[1], s[2]>>
      /\ Largest[1] \in Nat \ {0} /\ Largest[2] \in Nat \ {0}
  BY KeyboardAssumption
<1>2. /\ Half(s[1]) \in 1..s[1] /\ (Half(s[1]) <= Largest[1] <=> 2 * Largest[1] >= s[1])
      /\ 2 * Largest[1] >= s[1] <=> 2 * x >= s[1]
      /\ x \in 1..s[1] /\ x <= Largest[1]
      /\ 2 * Largest[1] >= s[1] => x \in Half(s[1])..s[1]
  BY <1>1, HalfFits
<1>3. /\ Half(s[2]) \in 1..s[2] /\ (Half(s[2]) <= Largest[2] <=> 2 * Largest[2] >= s[2])
      /\ 2 * Largest[2] >= s[2] <=> 2 * y >= s[2]
      /\ y \in 1..s[2] /\ y <= Largest[2]
      /\ 2 * Largest[2] >= s[2] => y \in Half(s[2])..s[2]
  BY <1>1, HalfFits
<1>4. Greatest({r \in 1..s[1] : Accepts(<<r, 1>>)}) = x
  <2>1. PICK S : S = {r \in 1..s[1] : Accepts(<<r, 1>>)}
    OBVIOUS
  <2>2. \A r : r \in S <=> r \in 1..s[1] /\ r <= Largest[1]
    BY <1>1, <2>1 DEF Accepts
  <2>3. 1 \in Nat \ {0}
    OBVIOUS
  <2>4. Greatest(S) = Least(s[1], Largest[1])
    BY <1>1, <1>2, <2>2, <2>3, GreatestUpTo
  <2>5. QED
    BY <2>1, <2>4
<1>5. Greatest({c \in 1..s[2] : Accepts(<<1, c>>)}) = y
  <2>1. PICK S : S = {c \in 1..s[2] : Accepts(<<1, c>>)}
    OBVIOUS
  <2>2. \A c : c \in S <=> c \in 1..s[2] /\ c <= Largest[2]
    BY <1>1, <2>1 DEF Accepts
  <2>3. 1 \in Nat \ {0}
    OBVIOUS
  <2>4. Greatest(S) = Least(s[2], Largest[2])
    BY <1>1, <1>3, <2>2, <2>3, GreatestUpTo
  <2>5. QED
    BY <2>1, <2>4
<1>6. FitConsoleWindow(s, w) =
        IF Accepts(s) THEN s
        ELSE IF cols = {} THEN w
        ELSE IF rows(Greatest(cols)) = {} THEN <<Half(s[1]), Greatest(cols)>>
        ELSE <<Greatest(rows(Greatest(cols))), Greatest(cols)>>
  BY DEF FitConsoleWindow, Half
<1>7. CASE Accepts(s)
  <2>1. x = s[1] /\ y = s[2]
    BY <1>1, <1>7 DEF Accepts, Least
  <2>2. <<x, y>> = s /\ 2 * x >= s[1] /\ 2 * y >= s[2]
    BY <1>1, <2>1
  <2>3. FitConsoleWindow(s, w) = s
    BY <1>6, <1>7
  <2>4. QED
    BY <1>4, <1>5, <2>2, <2>3
<1>8. CASE ~Accepts(s) /\ 2 * x >= s[1] /\ 2 * y >= s[2]
  <2>1. Half(s[1]) <= Largest[1] /\ Half(s[2]) <= Largest[2]
    BY <1>2, <1>3, <1>8
  <2>2. PICK S : S = cols
    OBVIOUS
  <2>3. Half(s[2]) \in Nat \ {0} /\ y \in Half(s[2])..s[2]
    BY <1>1, <1>3, <2>1
  <2>4. Greatest(cols) = y /\ cols # {}
    <3>1. \A c : c \in S <=> c \in Half(s[2])..s[2] /\ c <= Largest[2]
      BY <2>1, <2>2 DEF Accepts
    <3>2. Greatest(S) = Least(s[2], Largest[2])
      BY <1>1, <2>3, <3>1, GreatestUpTo
    <3>3. y \in S
      BY <1>3, <2>3, <3>1
    <3>4. QED
      BY <2>2, <3>2, <3>3
  <2>5. PICK R : R = rows(y)
    OBVIOUS
  <2>6. Half(s[1]) \in Nat \ {0} /\ x \in Half(s[1])..s[1]
    BY <1>1, <1>2, <2>1
  <2>7. Greatest(rows(y)) = x /\ rows(y) # {}
    <3>1. \A r : r \in R <=> r \in Half(s[1])..s[1] /\ r <= Largest[1]
      BY <1>3, <2>5 DEF Accepts
    <3>2. Greatest(R) = Least(s[1], Largest[1])
      BY <1>1, <2>6, <3>1, GreatestUpTo
    <3>3. x \in R
      BY <1>2, <2>6, <3>1
    <3>4. QED
      BY <2>5, <3>2, <3>3
  <2>8. FitConsoleWindow(s, w) = <<x, y>>
    BY <1>6, <1>8, <2>4, <2>7
  <2>9. QED
    BY <1>4, <1>5, <1>8, <2>8
<1>9. CASE ~Accepts(s) /\ ~(2 * x >= s[1] /\ 2 * y >= s[2])
  <2>1. ~(Half(s[1]) <= Largest[1] /\ Half(s[2]) <= Largest[2])
    BY <1>2, <1>3, <1>9
  <2>2. cols = {}
    <3> SUFFICES ASSUME NEW c \in Half(s[2])..s[2], Half(s[1]) <= Largest[1], c <= Largest[2]
                 PROVE  FALSE
      BY DEF Accepts
    <3>1. Half(s[2]) <= Largest[2]
      BY <1>1, <1>3
    <3>2. QED
      BY <2>1, <3>1
  <2>3. FitConsoleWindow(s, w) = w
    BY <1>6, <1>9, <2>2
  <2>4. QED
    BY <1>4, <1>5, <1>9, <2>3
<1> QED
  BY <1>7, <1>8, <1>9

\* Whatever size is asked for, _fit_console_window leaves the largest window the
\* console takes, or the one that was there when it takes none of half the size:
\* the halves are rounded up, and the two loops begin at the full size.
THEOREM WindowFitsBest == Spec => []FitIsLargest
<1>1. FitIsLargest
  <2> SUFFICES ASSUME NEW s \in (1..3 * Largest[1]) \X (1..3 * Largest[2])
               PROVE  LET most == <<Greatest({r \in 1..s[1] : Accepts(<<r, 1>>)}),
                                    Greatest({c \in 1..s[2] : Accepts(<<1, c>>)})>>
                      IN  FitConsoleWindow(s, window) =
                            IF 2 * most[1] >= s[1] /\ 2 * most[2] >= s[2] THEN most ELSE window
    BY DEF FitIsLargest
  <2>1. s \in (Nat \ {0}) \X (Nat \ {0})
    BY KeyboardAssumption
  <2>2. QED
    BY <2>1, FitIsMost
<1> QED
  BY <1>1, PTL

(***************************************************************************)
(* Each key is given, in order and as often as it was repeated.            *)
(*                                                                         *)
(* The keys owed are the repeats of the one in save_ip and those due of    *)
(* the records in the buffer.  What is due depends on return_key_modifiers *)
(* alone, which nothing changes: the operators here have it, m, and the    *)
(* rest of the state as parameters.                                        *)
(***************************************************************************)
ProcessBy(m, r) ==
  LET itself == IF m
                THEN CASE r.vk = VK_SHIFT -> KEY_SHIFT_LR
                       [] r.vk = VK_CONTROL -> KEY_CONTROL_LR
                       [] OTHER -> KEY_ALT_LR
                ELSE {-1}
  IN  IF r.vk \in {VK_SHIFT, VK_CONTROL} \/ (r.vk = VK_MENU /\ r.char = 0) THEN itself
      ELSE IF /\ r.char # 0 /\ ("lalt" \notin r.mods \/ "ralt" \in r.mods)
              /\ kptab[r.vk].extended = 0
      THEN {Ascii(r.char)}
      ELSE {Translate(r.vk, r.enhanced, r.mods)}
DueBy(m, r) ==
  IF r.type # "key" \/ r.vk \in Locks \cup {VK_SHIFT, VK_CONTROL} THEN <<>>
  ELSE LET key == CHOOSE k \in ProcessBy(m, r) : TRUE
           times == IF r.vk = VK_MENU THEN IF ~r.down /\ r.char # 0 THEN 1 ELSE 0
                    ELSE IF ~r.down \/ (r.dead /\ r.char = 0) THEN 0 ELSE r.rep
       IN  IF key = -1 THEN <<>> ELSE [i \in 1..times |-> key]
RepeatsBy(m, n, r) == IF n > 0 /\ DueBy(m, r) # <<>> THEN SubSeq(DueBy(m, r), 1, n) ELSE <<>>
Dues(m, q) == [i \in DOMAIN q |-> DueBy(m, q[i])]
OwedBy(m, n, r, q) == RepeatsBy(m, n, r) \o FlattenSeq(Dues(m, q))

LEMMA ProcessIs == \A r : Process(r) = ProcessBy(returnModifiers, r)
BY Zenon DEF Process, ProcessBy

LEMMA DueIs == \A r : Due(r) = DueBy(returnModifiers, r)
BY Zenon DEF Due, DueBy, Process, ProcessBy

LEMMA RepeatsIs ==
  /\ Repeats = RepeatsBy(returnModifiers, key_count, save_ip)
  /\ Repeats' = RepeatsBy(returnModifiers', key_count', save_ip')
BY Zenon DEF Repeats, RepeatsBy, Due, DueBy, Process, ProcessBy

LEMMA OwedIs ==
  /\ KeysInOrder <=> ("thrown" \notin cut =>
                        owed = OwedBy(returnModifiers, key_count, save_ip, input))
  /\ KeysInOrder' <=> ("thrown" \notin cut' =>
                         owed' = OwedBy(returnModifiers', key_count', save_ip', input'))
BY Zenon DEF KeysInOrder, OwedBy, Dues, Repeats, RepeatsBy, Due, DueBy, Process, ProcessBy

(***************************************************************************)
(* A key that repeats.                                                     *)
(***************************************************************************)
Run(n, key) == [i \in 1..n |-> key]

LEMMA RunIs ==
  ASSUME NEW n \in Nat, NEW key \in Int
  PROVE  /\ Run(n, key) \in Seq(Int) /\ Len(Run(n, key)) = n
         /\ n = 0 => Run(n, key) = <<>>
         /\ n > 0 => Run(n, key) # <<>>
         /\ \A k \in 0..n : SubSeq(Run(n, key), 1, k) = Run(k, key)
<1>1. \A k \in Nat : Run(k, key) \in Seq(Int) /\ Len(Run(k, key)) = k
  BY DEF Run
<1>2. n = 0 => Run(n, key) = <<>>
  BY DEF Run
<1>3. n > 0 => Run(n, key) # <<>>
  BY <1>1
<1>4. ASSUME NEW k \in 0..n PROVE SubSeq(Run(n, key), 1, k) = Run(k, key)
  BY DEF Run
<1> QED
  BY <1>1, <1>2, <1>3, <1>4

LEMMA RunGives ==
  ASSUME NEW n \in Nat, n > 0, NEW key \in Int, NEW t \in Seq(Int)
  PROVE  /\ Run(n, key) \o t \in Seq(Int) /\ Run(n, key) \o t # <<>>
         /\ Head(Run(n, key) \o t) = key
         /\ Tail(Run(n, key) \o t) = Run(n - 1, key) \o t
<1> DEFINE s == Run(n, key)
           u == Run(n - 1, key)
<1>1. /\ s \in Seq(Int) /\ Len(s) = n /\ u \in Seq(Int) /\ Len(u) = n - 1
  <2>1. n - 1 \in Nat
    OBVIOUS
  <2>2. QED
    BY <2>1, RunIs
<1>2. (\A i \in 1..n : s[i] = key) /\ \A i \in 1..n - 1 : u[i] = key
  BY DEF Run
<1> HIDE DEF s, u
<1>3. /\ s \o t \in Seq(Int) /\ Len(s \o t) = n + Len(t) /\ Len(t) \in Nat
      /\ \A i \in 1..n + Len(t) : (s \o t)[i] = IF i <= n THEN s[i] ELSE t[i - n]
  BY <1>1, ConcatProperties, LenProperties
<1>4. /\ u \o t \in Seq(Int) /\ Len(u \o t) = n - 1 + Len(t)
      /\ \A i \in 1..n - 1 + Len(t) : (u \o t)[i] = IF i <= n - 1 THEN u[i] ELSE t[i - (n - 1)]
  BY <1>1, ConcatProperties
<1>5. s \o t # <<>>
  BY <1>3, EmptySeq
<1>6. Head(s \o t) = key
  <2>1. (s \o t)[1] = key
    BY <1>2, <1>3
  <2>2. QED
    BY <1>3, <1>5, <2>1
<1>7. /\ Tail(s \o t) \in Seq(Int) /\ Len(Tail(s \o t)) = n - 1 + Len(t)
      /\ \A i \in 1..n - 1 + Len(t) : Tail(s \o t)[i] = (s \o t)[i + 1]
  BY <1>3, <1>5, HeadTailProperties
<1>8. ASSUME NEW i \in 1..n - 1 + Len(t) PROVE Tail(s \o t)[i] = (u \o t)[i]
  <2>1. i + 1 \in 1..n + Len(t) /\ i + 1 - n = i - (n - 1) /\ (i + 1 <= n <=> i <= n - 1)
    BY <1>3
  <2>2. (s \o t)[i + 1] = IF i <= n - 1 THEN s[i + 1] ELSE t[i - (n - 1)]
    BY <1>3, <2>1, SMTT(30)
  <2>3. i <= n - 1 => s[i + 1] = u[i]
    BY <1>2, <2>1
  <2>4. QED
    BY <1>4, <1>7, <2>2, <2>3
<1>9. Tail(s \o t) = u \o t
  BY <1>4, <1>7, <1>8, SeqEqual
<1> QED
  BY <1>3, <1>5, <1>6, <1>9 DEF s, u

\* Of a record nothing is due, or the one key it gives, as often as _get_key_count
\* says.
LEMMA DueOf ==
  ASSUME NEW m \in BOOLEAN, NEW r \in Record
  PROVE  /\ DueBy(m, r) \in Seq(Int)
         /\ r.type # "key" => DueBy(m, r) = <<>>
         /\ r.type = "key" =>
              \/ DueBy(m, r) = <<>>
              \/ /\ NumKeys(r) \in Nat
                 /\ \E key \in Int : /\ key # -1 /\ ProcessBy(m, r) = {key}
                                     /\ DueBy(m, r) = Run(NumKeys(r), key)
<1>1. CASE r.type # "key" \/ r.vk \in Locks \cup {VK_SHIFT, VK_CONTROL}
  <2>1. DueBy(m, r) = <<>>
    BY <1>1 DEF DueBy
  <2>2. QED
    BY <2>1, EmptySeq
<1>2. CASE ~(r.type # "key" \/ r.vk \in Locks \cup {VK_SHIFT, VK_CONTROL})
  <2> DEFINE chosen == CHOOSE k \in ProcessBy(m, r) : TRUE
             times == IF r.vk = VK_MENU THEN IF ~r.down /\ r.char # 0 THEN 1 ELSE 0
                      ELSE IF ~r.down \/ (r.dead /\ r.char = 0) THEN 0 ELSE r.rep
  <2>1. r \in KeyRecord
    BY <1>2, RecordByType
  <2>2. /\ r.vk \in 0..255 /\ r.char \in 0..255 /\ r.enhanced \in BOOLEAN /\ r.rep \in Nat
        /\ r.down \in BOOLEAN /\ r.dead \in BOOLEAN
    BY <2>1, KeyboardAssumption DEF KeyRecord
  <2>3. DueBy(m, r) = IF chosen = -1 THEN <<>> ELSE Run(times, chosen)
    BY <1>2 DEF DueBy, Run
  <2>4. times \in Nat
    BY <2>2
  <2>5. CASE r.vk = VK_MENU /\ r.char = 0
    <3>1. times = 0
      BY <2>5
    <3>2. DueBy(m, r) = <<>>
      BY <2>3, <3>1 DEF Run
    <3>3. QED
      BY <1>2, <3>2, EmptySeq
  <2>6. CASE ~(r.vk = VK_MENU /\ r.char = 0)
    <3>1. ProcessBy(m, r) = {Ascii(r.char)} \/ ProcessBy(m, r) = {Translate(r.vk, r.enhanced, r.mods)}
      BY <1>2, <2>6 DEF ProcessBy
    <3>2. Ascii(r.char) \in Int /\ Translate(r.vk, r.enhanced, r.mods) \in Int
      BY <2>2, TranslateIsPlain DEF Ascii, Plain
    <3>3. PICK key \in Int : ProcessBy(m, r) = {key}
      BY <3>1, <3>2
    <3>4. chosen = key
      BY <3>3
    <3>5. NumKeys(r) # times => times = 0
      BY <1>2, <2>2, <2>6 DEF NumKeys, Modifiers, VK_SHIFT, VK_CONTROL, VK_MENU, Locks
    <3> HIDE DEF chosen, times
    <3>6. DueBy(m, r) = <<>> \/ (key # -1 /\ DueBy(m, r) = Run(times, key))
      BY <2>3, <3>4
    <3>7. Run(times, key) \in Seq(Int) /\ (times = 0 => Run(times, key) = <<>>)
      BY <2>4, RunIs
    <3>8. QED
      BY <1>2, <2>4, <3>3, <3>5, <3>6, <3>7, EmptySeq
  <2>7. QED
    BY <2>5, <2>6
<1> QED
  BY <1>1, <1>2

\* What is due of a buffer, and of one that grows or loses its first record.
LEMMA DuesOf ==
  ASSUME NEW m \in BOOLEAN, NEW q \in Seq(Record)
  PROVE  /\ Dues(m, q) \in Seq(Seq(Int)) /\ FlattenSeq(Dues(m, q)) \in Seq(Int)
         /\ \A r \in Record : FlattenSeq(Dues(m, Append(q, r))) = FlattenSeq(Dues(m, q)) \o DueBy(m, r)
         /\ q # <<>> => FlattenSeq(Dues(m, q)) = DueBy(m, Head(q)) \o FlattenSeq(Dues(m, Tail(q)))
<1>1. \A t \in Seq(Record) :
        /\ Dues(m, t) \in Seq(Seq(Int)) /\ Len(Dues(m, t)) = Len(t) /\ Len(t) \in Nat
        /\ \A i \in 1..Len(t) : Dues(m, t)[i] = DueBy(m, t[i])
  <2> TAKE t \in Seq(Record)
  <2>1. Len(t) \in Nat /\ DOMAIN t = 1..Len(t) /\ \A i \in 1..Len(t) : t[i] \in Record
    BY LenProperties, ElementOfSeq
  <2>2. \A i \in 1..Len(t) : DueBy(m, t[i]) \in Seq(Int)
    BY <2>1, DueOf
  <2>3. Dues(m, t) \in [1..Len(t) -> Seq(Int)]
    BY <2>1, <2>2 DEF Dues
  <2>4. Dues(m, t) \in Seq(Seq(Int)) /\ Len(Dues(m, t)) = Len(t)
    BY <2>1, <2>3
  <2>5. QED
    BY <2>1, <2>4 DEF Dues
<1>2. FlattenSeq(Dues(m, q)) \in Seq(Int)
  BY <1>1, FlattenType
<1>3. ASSUME NEW r \in Record
      PROVE  FlattenSeq(Dues(m, Append(q, r))) = FlattenSeq(Dues(m, q)) \o DueBy(m, r)
  <2> DEFINE t == Append(q, r)
  <2>1. /\ t \in Seq(Record) /\ Len(t) = Len(q) + 1 /\ t[Len(q) + 1] = r
        /\ \A i \in 1..Len(q) : t[i] = q[i]
    BY AppendProperties, LenProperties
  <2> HIDE DEF t
  <2> DEFINE u == Append(Dues(m, q), DueBy(m, r))
  <2>2. DueBy(m, r) \in Seq(Int)
    BY DueOf
  <2>3. /\ u \in Seq(Seq(Int)) /\ Len(u) = Len(q) + 1 /\ u[Len(q) + 1] = DueBy(m, r)
        /\ \A i \in 1..Len(q) : u[i] = DueBy(m, q[i])
    BY <1>1, <2>2, AppendProperties
  <2> HIDE DEF u
  <2>4. ASSUME NEW i \in 1..Len(t) PROVE Dues(m, t)[i] = u[i]
    <3>1. Dues(m, t)[i] = DueBy(m, t[i]) /\ Len(q) \in Nat
      BY <1>1, <2>1
    <3>2. i \in 1..Len(q) \/ i = Len(q) + 1
      BY <2>1, <3>1
    <3>3. QED
      BY <2>1, <2>3, <3>1, <3>2
  <2>5. Dues(m, t) = u
    BY <1>1, <2>1, <2>3, <2>4, SeqEqual
  <2>6. QED
    BY <1>1, <2>2, <2>5, FlattenAppend DEF t, u
<1>4. ASSUME q # <<>>
      PROVE  FlattenSeq(Dues(m, q)) = DueBy(m, Head(q)) \o FlattenSeq(Dues(m, Tail(q)))
  <2> DEFINE t == Tail(q)
             u == Tail(Dues(m, q))
  <2>1. /\ Head(q) = q[1] /\ t \in Seq(Record) /\ Len(t) = Len(q) - 1 /\ Len(q) >= 1
        /\ \A i \in 1..Len(q) - 1 : t[i] = q[i + 1]
    BY <1>4, FirstAndRest
  <2>2. Dues(m, q) # <<>>
    BY <1>1, <2>1
  <2>3. /\ Head(Dues(m, q)) = DueBy(m, q[1]) /\ u \in Seq(Seq(Int)) /\ Len(u) = Len(q) - 1
        /\ \A i \in 1..Len(q) - 1 : u[i] = Dues(m, q)[i + 1]
    BY <1>1, <2>1, <2>2, HeadTailProperties
  <2> HIDE DEF t, u
  <2>4. ASSUME NEW i \in 1..Len(t) PROVE Dues(m, t)[i] = u[i]
    <3>1. i \in 1..Len(q) - 1 /\ i + 1 \in 1..Len(q)
      BY <1>1, <2>1
    <3>2. QED
      BY <1>1, <2>1, <2>3, <3>1
  <2>5. Dues(m, t) = u
    BY <1>1, <2>1, <2>3, <2>4, SeqEqual
  <2>6. FlattenSeq(Dues(m, q)) = Head(Dues(m, q)) \o FlattenSeq(u)
    BY <1>1, <2>2, FlattenFirst DEF u
  <2>7. QED
    BY <2>1, <2>3, <2>5, <2>6 DEF t
<1> QED
  BY <1>1, <1>2, <1>3, <1>4

\* What is left of a key that repeats.
LEMMA RepeatsType ==
  ASSUME NEW m \in BOOLEAN, NEW r \in Record, NEW n \in Nat,
         DueBy(m, r) = <<>> \/ n <= Len(DueBy(m, r))
  PROVE  /\ RepeatsBy(m, n, r) \in Seq(Int)
         /\ DueBy(m, r) = <<>> => RepeatsBy(m, n, r) = <<>>
         /\ \A k \in Nat, key \in Int :
              DueBy(m, r) # <<>> /\ DueBy(m, r) = Run(k, key) => RepeatsBy(m, n, r) = Run(n, key)
<1>1. CASE n = 0 \/ DueBy(m, r) = <<>>
  <2>1. RepeatsBy(m, n, r) = <<>>
    BY <1>1 DEF RepeatsBy
  <2>2. DueBy(m, r) # <<>> => \A key \in Int : Run(n, key) = <<>>
    BY <1>1, RunIs
  <2>3. QED
    BY <2>1, <2>2, EmptySeq
<1>2. CASE n > 0 /\ DueBy(m, r) # <<>>
  <2>1. RepeatsBy(m, n, r) = SubSeq(DueBy(m, r), 1, n)
    BY <1>2 DEF RepeatsBy
  <2>2. DueBy(m, r) \in Seq(Int) /\ Len(DueBy(m, r)) \in Nat
    BY DueOf, LenProperties
  <2>3. RepeatsBy(m, n, r) \in Seq(Int)
    <3>1. \A i \in 1..n : DueBy(m, r)[i] \in Int
      BY <1>2, <2>2, ElementOfSeq
    <3>2. QED
      BY <2>1, <3>1, SubSeqProperties
  <2>4. ASSUME NEW k \in Nat, NEW key \in Int, DueBy(m, r) = Run(k, key)
        PROVE  RepeatsBy(m, n, r) = Run(n, key)
    <3>1. n \in 0..k
      BY <1>2, <2>4, RunIs
    <3>2. SubSeq(Run(k, key), 1, n) = Run(n, key)
      BY <3>1, RunIs
    <3>3. QED
      BY <2>1, <2>4, <3>2
  <2>5. QED
    BY <1>2, <2>3, <2>4
<1> QED
  BY <1>1, <1>2

\* A repeat is given.
LEMMA GiveOne ==
  ASSUME NEW m \in BOOLEAN, NEW r \in Record, r.type = "key", NEW n \in Nat, n > 0,
         DueBy(m, r) = <<>> \/ n <= Len(DueBy(m, r)), NEW t \in Seq(Int),
         NEW key \in ProcessBy(m, r)
  PROVE  LET o == RepeatsBy(m, n, r) \o t
         IN  (IF DueBy(m, r) # <<>> /\ o # <<>> /\ Head(o) = key THEN Tail(o) ELSE o)
               = RepeatsBy(m, n - 1, r) \o t
<1> DEFINE o == RepeatsBy(m, n, r) \o t
<1>1. CASE DueBy(m, r) = <<>>
  BY <1>1 DEF RepeatsBy
<1>2. CASE DueBy(m, r) # <<>>
  <2>1. /\ NumKeys(r) \in Nat
        /\ \E k \in Int : ProcessBy(m, r) = {k} /\ DueBy(m, r) = Run(NumKeys(r), k)
    BY <1>2, DueOf
  <2>2. key \in Int /\ DueBy(m, r) = Run(NumKeys(r), key)
    BY <2>1
  <2>3. n - 1 \in Nat /\ n - 1 <= Len(DueBy(m, r))
    BY <1>2, <2>1, <2>2, RunIs
  <2>4. \A j \in Nat : j <= Len(DueBy(m, r)) => RepeatsBy(m, j, r) = Run(j, key)
    BY <1>2, <2>1, <2>2, RepeatsType
  <2>5. RepeatsBy(m, n, r) = Run(n, key) /\ RepeatsBy(m, n - 1, r) = Run(n - 1, key)
    BY <1>2, <2>3, <2>4
  <2>6. o = Run(n, key) \o t
    BY <2>5
  <2>7. o # <<>> /\ Head(o) = key /\ Tail(o) = Run(n - 1, key) \o t
    <3>1. LET s == Run(n, key) \o t
          IN  s # <<>> /\ Head(s) = key /\ Tail(s) = Run(n - 1, key) \o t
      BY <2>2, RunGives
    <3>2. QED
      BY <2>6, <3>1, Zenon
  <2>8. QED
    BY <1>2, <2>5, <2>7
<1> QED
  BY <1>1, <1>2

RepeatsFit ==
  key_count > 0 /\ DueBy(returnModifiers, save_ip) # <<>> =>
    key_count <= Len(DueBy(returnModifiers, save_ip))

OwedInv == KeysInOrder /\ RepeatsFit

\* Steps that change neither the buffer, nor save_ip, nor what is owed.
LEMMA OwedStays ==
  ASSUME OwedInv, UNCHANGED <<input, owed, save_ip, key_count, returnModifiers>>,
         "thrown" \notin cut' => "thrown" \notin cut
  PROVE  OwedInv'
<1>1. KeysInOrder'
  BY OwedIs DEF OwedInv
<1>2. RepeatsFit'
  <2>1. RepeatsFit' <=>
          (key_count' > 0 /\ DueBy(returnModifiers', save_ip') # <<>> =>
             key_count' <= Len(DueBy(returnModifiers', save_ip')))
    BY Zenon DEF RepeatsFit, DueBy, ProcessBy
  <2>2. QED
    BY <2>1 DEF OwedInv, RepeatsFit
<1> QED
  BY <1>1, <1>2 DEF OwedInv
\* What the next record leaves when nothing is due of it.
LEMMA NothingDue ==
  ASSUME NEW m \in BOOLEAN, NEW q \in Seq(Record), q # <<>>, Head(q).type # "key"
  PROVE  FlattenSeq(Dues(m, Tail(q))) = FlattenSeq(Dues(m, q))
<1>1. Head(q) \in Record /\ Tail(q) \in Seq(Record)
  BY FirstAndRest
<1>2. FlattenSeq(Dues(m, q)) = DueBy(m, Head(q)) \o FlattenSeq(Dues(m, Tail(q)))
  BY DuesOf
<1>3. DueBy(m, Head(q)) = <<>> /\ FlattenSeq(Dues(m, Tail(q))) \in Seq(Int)
  BY <1>1, DueOf, DuesOf
<1> QED
  BY <1>2, <1>3, ConcatEmptySeq

\* Records that nothing is due of are taken while no key repeats.
LEMMA OwedPassed ==
  ASSUME OwedInv, key_count = 0, UNCHANGED <<owed, key_count, returnModifiers>>,
         "thrown" \notin cut' =>
           /\ "thrown" \notin cut
           /\ FlattenSeq(Dues(returnModifiers, input')) = FlattenSeq(Dues(returnModifiers, input))
  PROVE  OwedInv'
<1>1. \A r, q : OwedBy(returnModifiers, 0, r, q) = <<>> \o FlattenSeq(Dues(returnModifiers, q))
  BY DEF OwedBy, RepeatsBy
<1>2. KeysInOrder'
  BY <1>1, OwedIs DEF OwedInv
<1>3. RepeatsFit'
  BY DEF RepeatsFit
<1> QED
  BY <1>2, <1>3 DEF OwedInv

LEMMA UserOwed == IInv /\ OwedInv /\ User => OwedInv'
<1> SUFFICES ASSUME IInv, OwedInv, User PROVE OwedInv'
  OBVIOUS
<1> DEFINE m == returnModifiers
<1>1. UNCHANGED <<save_ip, key_count, returnModifiers, cut>>
  BY UserStep DEF IInv, Types, UserSame, settings
<1>2. PICK r \in Record : Came(r)
  BY UserStep DEF IInv, Types
<1>3. /\ m \in BOOLEAN /\ input \in Seq(Record) /\ save_ip \in Record /\ key_count \in Nat
      /\ input' = Append(input, r) /\ owed' = owed \o DueBy(m, r)
      /\ "thrown" \notin cut' => "thrown" \notin cut
  BY <1>1, <1>2, DueIs DEF IInv, Types, ConsoleTypes, KeyboardTypes, Came
<1>4. RepeatsBy(m, key_count, save_ip) \in Seq(Int)
  <2>1. CASE key_count = 0
    BY <2>1, EmptySeq DEF RepeatsBy
  <2>2. CASE key_count > 0
    BY <1>3, <2>2, RepeatsType DEF OwedInv, RepeatsFit
  <2>3. QED
    BY <1>3, <2>1, <2>2
<1>5. /\ FlattenSeq(Dues(m, Append(input, r))) = FlattenSeq(Dues(m, input)) \o DueBy(m, r)
      /\ FlattenSeq(Dues(m, input)) \in Seq(Int) /\ DueBy(m, r) \in Seq(Int)
  BY <1>3, DuesOf, DueOf
<1>6. OwedBy(m, key_count, save_ip, Append(input, r)) =
        OwedBy(m, key_count, save_ip, input) \o DueBy(m, r)
  BY <1>4, <1>5, ConcatAssociative, SMTT(30) DEF OwedBy
<1>7. KeysInOrder'
  BY <1>1, <1>3, <1>6, OwedIs DEF OwedInv
<1>8. RepeatsFit'
  <2>1. RepeatsFit' <=>
          (key_count' > 0 /\ DueBy(returnModifiers', save_ip') # <<>> =>
             key_count' <= Len(DueBy(returnModifiers', save_ip')))
    BY Zenon DEF RepeatsFit, DueBy, ProcessBy
  <2>2. QED
    BY <1>1, <2>1 DEF OwedInv, RepeatsFit
<1> QED
  BY <1>7, <1>8 DEF OwedInv
\* A key is given: n times it is still to be given, this time included.
LEMMA OwedGiven ==
  ASSUME returnModifiers \in BOOLEAN, UNCHANGED returnModifiers, UNCHANGED cut,
         NEW r \in Record, r.type = "key", NEW n \in Nat, n > 0,
         DueBy(returnModifiers, r) = <<>> \/ n <= Len(DueBy(returnModifiers, r)),
         NEW t \in Seq(Int),
         "thrown" \notin cut =>
           owed = RepeatsBy(returnModifiers, n, r) \o t /\ t = FlattenSeq(Dues(returnModifiers, input')),
         Gives(r), key_count' = n - 1, save_ip' = r
  PROVE  OwedInv'
<1> DEFINE m == returnModifiers
<1>1. PICK key \in ProcessBy(m, r) :
        owed' = IF DueBy(m, r) # <<>> /\ owed # <<>> /\ Head(owed) = key THEN Tail(owed) ELSE owed
  BY ProcessIs, DueIs DEF Gives
<1>2. KeysInOrder'
  <2> SUFFICES ASSUME "thrown" \notin cut
               PROVE  owed' = OwedBy(m', key_count', save_ip', input')
    BY OwedIs
  <2>1. LET o == RepeatsBy(m, n, r) \o t
        IN  (IF DueBy(m, r) # <<>> /\ o # <<>> /\ Head(o) = key THEN Tail(o) ELSE o)
              = RepeatsBy(m, n - 1, r) \o t
    BY GiveOne
  <2>2. owed' = RepeatsBy(m, n - 1, r) \o t
    BY <1>1, <2>1, Zenon
  <2>3. QED
    BY <2>2 DEF OwedBy
<1>3. RepeatsFit'
  <2>1. RepeatsFit' <=>
          (key_count' > 0 /\ DueBy(returnModifiers', save_ip') # <<>> =>
             key_count' <= Len(DueBy(returnModifiers', save_ip')))
    BY Zenon DEF RepeatsFit, DueBy, ProcessBy
  <2>2. DueBy(m, r) \in Seq(Int) /\ Len(DueBy(m, r)) \in Nat
    BY DueOf, LenProperties
  <2>3. QED
    BY <2>1, <2>2
<1> QED
  BY <1>2, <1>3 DEF OwedInv

\* The click, when its second record is taken: nothing is due of a record of the
\* mouse, and another one counts as thrown out.
LEMMA CompleteOwed ==
  ASSUME NEW m \in BOOLEAN, NEW r \in MouseRecord, NEW rest \in Seq(Record), Complete(r, rest),
         "thrown" \notin cut'
  PROVE  "thrown" \notin cut /\ FlattenSeq(Dues(m, input')) = FlattenSeq(Dues(m, rest))
<1>1. PICK clicked \in SUBSET Buttons :
        \/ clicked = {} /\ input' = rest /\ cut' = cut
        \/ Thrown(r, rest, clicked)
  BY CompleteStep
<1>2. CASE input' = rest /\ cut' = cut
  BY <1>2
<1>3. CASE Thrown(r, rest, clicked)
  <2>1. /\ rest # <<>> /\ input' = Tail(rest) /\ Head(rest).type = "mouse" /\ cut' = cut
    BY <1>3 DEF Thrown
  <2>2. FlattenSeq(Dues(m, Tail(rest))) = FlattenSeq(Dues(m, rest))
    BY <2>1, NothingDue
  <2>3. QED
    BY <2>1, <2>2
<1> QED
  BY <1>1, <1>2, <1>3

\* A key arrives: n times it is to be given, the keys owed being those and what is
\* due of the records behind it.
LEMMA GotKey ==
  ASSUME IInv, OwedInv, GetKey
  PROVE  LET m == returnModifiers
             r == Head(input)
             n == NumKeys(r)
             t == FlattenSeq(Dues(m, Tail(input)))
         IN  /\ r \in KeyRecord /\ n \in Nat /\ t \in Seq(Int)
             /\ \/ n = 0 /\ key_count' = 0 /\ UNCHANGED owed
                \/ n > 0 /\ key_count' = n - 1 /\ Gives(r)
             /\ n > 0 => DueBy(m, r) = <<>> \/ n <= Len(DueBy(m, r))
             /\ "thrown" \notin cut => owed = RepeatsBy(m, n, r) \o t
<1> DEFINE m == returnModifiers
           t == FlattenSeq(Dues(m, Tail(input)))
<1>1. m \in BOOLEAN /\ input \in Seq(Record) /\ save_ip \in Record
  BY DEF IInv, Types, ConsoleTypes, KeyboardTypes
<1>2. key_count = 0 /\ input # <<>>
  BY DEF GetKey
<1>3. PICK r \in Record : r = Head(input)
  BY <1>1, <1>2, FirstAndRest
<1>4. PICK n : n = NumKeys(r)
  OBVIOUS
<1>5. /\ r.type = "key"
      /\ \/ n = 0 /\ key_count' = 0 /\ UNCHANGED owed
         \/ n # 0 /\ key_count' = n - 1 /\ Gives(r)
  BY <1>3, <1>4 DEF GetKey
<1>6. r \in KeyRecord
  BY <1>5, RecordByType
<1>7. n \in Nat
  <2>1. save_press \in Modifiers \cup {0}
    BY DEF IInv, Types, KeyboardTypes
  <2>2. QED
    BY <1>4, <1>6, <2>1, NumKeysOf
<1>8. DueBy(m, r) = <<>> \/ \E key \in Int : DueBy(m, r) = Run(n, key)
  BY <1>1, <1>4, <1>5, DueOf
<1>9. t \in Seq(Int)
  BY <1>1, <1>2, FirstAndRest, DuesOf
<1>10. RepeatsBy(m, n, r) = DueBy(m, r) /\ (DueBy(m, r) = <<>> \/ n <= Len(DueBy(m, r)))
  <2>1. CASE DueBy(m, r) = <<>>
    BY <2>1 DEF RepeatsBy
  <2>2. CASE DueBy(m, r) # <<>>
    <3>1. PICK key \in Int : DueBy(m, r) = Run(n, key)
      BY <1>8, <2>2
    <3>2. n <= Len(DueBy(m, r))
      BY <1>7, <3>1, RunIs
    <3>3. QED
      BY <1>1, <1>7, <2>2, <3>1, <3>2, RepeatsType
  <2>3. QED
    BY <2>1, <2>2
<1>11. "thrown" \notin cut => owed = DueBy(m, r) \o t
  <2>1. RepeatsBy(m, 0, save_ip) = <<>>
    BY DEF RepeatsBy
  <2>2. FlattenSeq(Dues(m, input)) = DueBy(m, r) \o t /\ FlattenSeq(Dues(m, input)) \in Seq(Int)
    BY <1>1, <1>2, <1>3, DuesOf
  <2>3. OwedBy(m, 0, save_ip, input) = DueBy(m, r) \o t
    BY <2>1, <2>2, ConcatEmptySeq DEF OwedBy
  <2>4. QED
    BY <1>2, <2>3, OwedIs DEF OwedInv
<1> HIDE DEF t
<1>12. n # 0 => n > 0
  BY <1>7
<1>13. "thrown" \notin cut => owed = RepeatsBy(m, n, r) \o t
  BY <1>10, <1>11
<1> QED
  BY <1>3, <1>4, <1>5, <1>6, <1>7, <1>9, <1>10, <1>12, <1>13 DEF t

LEMMA KeypadOwed == IInv /\ OwedInv /\ Keypad => OwedInv'
<1> SUFFICES ASSUME IInv, OwedInv, Keypad PROVE OwedInv'
  OBVIOUS
<1> DEFINE m == returnModifiers
<1>1. /\ m \in BOOLEAN /\ input \in Seq(Record) /\ save_ip \in Record /\ key_count \in Nat
      /\ UNCHANGED returnModifiers
  BY KeypadLeaves DEF KeypadSame, settings, IInv, Types, ConsoleTypes, KeyboardTypes
<1>2. CASE CheckKey
  <2>1. UNCHANGED <<input, owed, save_ip, key_count, cut>>
    BY <1>2 DEF CheckKey, consoleVars, history
  <2>2. QED
    BY <1>1, <2>1, OwedStays
<1>3. CASE GetRepeat
  <2> DEFINE t == FlattenSeq(Dues(m, input))
  <2>1. /\ UNCHANGED <<input, save_ip, cut>> /\ key_count > 0 /\ key_count' = key_count - 1
        /\ Gives(save_ip)
    BY <1>3 DEF GetRepeat, consoleVars
  <2>2. save_ip.type = "key"
    BY <2>1 DEF IInv, Waiting
  <2>3. t \in Seq(Int)
    BY <1>1, DuesOf
  <2>4. DueBy(m, save_ip) = <<>> \/ key_count <= Len(DueBy(m, save_ip))
    BY <2>1 DEF OwedInv, RepeatsFit
  <2>5. "thrown" \notin cut => owed = RepeatsBy(m, key_count, save_ip) \o t
    BY OwedIs DEF OwedInv, OwedBy
  <2>6. t = FlattenSeq(Dues(m, input'))
    BY <2>1
  <2> HIDE DEF t
  <2>7. QED
    BY <1>1, <2>1, <2>2, <2>3, <2>4, <2>5, <2>6, OwedGiven
<1>4. CASE GetKey
  <2> DEFINE t == FlattenSeq(Dues(m, Tail(input)))
  <2>1. /\ input' = Tail(input) /\ save_ip' = Head(input) /\ UNCHANGED cut
    BY <1>4 DEF GetKey, Read
  <2>2. PICK r \in KeyRecord : r = Head(input)
    BY <1>4, GotKey
  <2>3. PICK n \in Nat : n = NumKeys(r)
    BY <1>4, <2>2, GotKey
  <2>4. /\ \/ n = 0 /\ key_count' = 0 /\ UNCHANGED owed
           \/ n > 0 /\ key_count' = n - 1 /\ Gives(r)
        /\ t \in Seq(Int)
        /\ n > 0 => DueBy(m, r) = <<>> \/ n <= Len(DueBy(m, r))
        /\ "thrown" \notin cut => owed = RepeatsBy(m, n, r) \o t
    BY <1>4, <2>2, <2>3, GotKey
  <2>5. t = FlattenSeq(Dues(m, input'))
    BY <2>1
  <2>6. r.type = "key" /\ r \in Record
    BY <2>2 DEF KeyRecord, Record
  <2> HIDE DEF t
  <2>7. CASE n = 0
    <3>1. key_count' = 0 /\ UNCHANGED owed
      BY <2>4, <2>7
    <3>2. RepeatsBy(m, 0, r) = <<>> /\ RepeatsBy(m, 0, save_ip') = <<>>
      BY DEF RepeatsBy
    <3>3. KeysInOrder'
      BY <1>1, <2>1, <2>4, <2>5, <2>7, <3>1, <3>2, OwedIs DEF OwedBy
    <3>4. RepeatsFit'
      BY <3>1 DEF RepeatsFit
    <3>5. QED
      BY <3>3, <3>4 DEF OwedInv
  <2>8. CASE n # 0
    <3>1. key_count' = n - 1 /\ Gives(r) /\ n > 0
      BY <2>4, <2>8
    <3>2. QED
      BY <1>1, <2>1, <2>2, <2>4, <2>5, <2>6, <3>1, OwedGiven
  <2>9. QED
    BY <2>7, <2>8
<1>5. CASE GetFocus \/ GetSize
  <2>1. /\ UNCHANGED <<owed, key_count, cut>> /\ key_count = 0 /\ input # <<>>
        /\ Head(input).type # "key" /\ input' = Tail(input)
    BY <1>5 DEF GetFocus, GetSize, Read, history
  <2>2. FlattenSeq(Dues(m, Tail(input))) = FlattenSeq(Dues(m, input))
    BY <1>1, <2>1, NothingDue
  <2>3. QED
    BY <1>1, <2>1, <2>2, OwedPassed
<1>6. CASE GetMouse
  <2>1. PICK r \in MouseRecord : r = Head(input)
    BY <1>1, <1>6, FirstAndRest, RecordByType DEF GetMouse
  <2>2. /\ key_count = 0 /\ input # <<>> /\ Head(input).type # "key" /\ UNCHANGED <<owed, key_count>>
    BY <1>6 DEF GetMouse
  <2>3. Tail(input) \in Seq(Record)
    BY <1>1, <2>2, FirstAndRest
  <2>4. \/ input' = Tail(input) /\ cut' = cut
        \/ Complete(r, Tail(input))
    BY <1>6, <2>1 DEF GetMouse
  <2>5. FlattenSeq(Dues(m, Tail(input))) = FlattenSeq(Dues(m, input))
    BY <1>1, <2>2, NothingDue
  <2>6. "thrown" \notin cut' =>
          "thrown" \notin cut /\ FlattenSeq(Dues(m, input')) = FlattenSeq(Dues(m, Tail(input)))
    BY <1>1, <2>1, <2>3, <2>4, CompleteOwed
  <2>7. QED
    BY <1>1, <2>2, <2>5, <2>6, OwedPassed
<1>7. CASE NapOver
  <2>1. /\ kpc = "nap" /\ Complete(save_ip, input) /\ UNCHANGED <<owed, key_count>>
    BY <1>7 DEF NapOver
  <2>2. save_ip \in MouseRecord /\ key_count = 0
    BY <1>1, <2>1, RecordByType DEF IInv, Types, Waiting, KeyboardTypes
  <2>3. "thrown" \notin cut' =>
          "thrown" \notin cut /\ FlattenSeq(Dues(m, input')) = FlattenSeq(Dues(m, input))
    BY <1>1, <2>1, <2>2, CompleteOwed
  <2>4. QED
    BY <1>1, <2>1, <2>2, <2>3, OwedPassed
<1> QED
  BY <1>2, <1>3, <1>4, <1>5, <1>6, <1>7 DEF Keypad

LEMMA ResizeOwed == IInv /\ OwedInv /\ (MenuResize \/ ResizeRefused \/ ResizeRest) => OwedInv'
<1> SUFFICES ASSUME IInv, OwedInv, MenuResize \/ ResizeRefused \/ ResizeRest PROVE OwedInv'
  OBVIOUS
<1> DEFINE m == returnModifiers
<1>1. /\ m \in BOOLEAN /\ input \in Seq(Record) /\ save_ip \in Record /\ key_count \in Nat
      /\ UNCHANGED <<save_ip, key_count, returnModifiers>>
  BY ResizeLeaves DEF ResizeSame, settings, IInv, Types, ConsoleTypes, KeyboardTypes
<1>2. CASE MenuResize \/ ResizeRefused \/ GetLines \/ GetCols
  <2>1. UNCHANGED <<input, owed, cut>>
    BY <1>2 DEF MenuResize, ResizeRefused, GetRows, GetColumns, GetLines, GetCols, consoleVars,
                history
  <2>2. QED
    BY <1>1, <2>1, OwedStays
<1>3. RepeatsFit'
  <2>1. RepeatsFit' <=>
          (key_count' > 0 /\ DueBy(returnModifiers', save_ip') # <<>> =>
             key_count' <= Len(DueBy(returnModifiers', save_ip')))
    BY Zenon DEF RepeatsFit, DueBy, ProcessBy
  <2>2. QED
    BY <1>1, <2>1 DEF OwedInv, RepeatsFit
<1>4. CASE SetWindow
  <2>1. UNCHANGED <<owed, cut>>
    BY <1>4 DEF SetWindow, history
  <2>2. CASE input' = input
    BY <1>1, <2>1, <2>2, OwedStays
  <2>3. CASE input' # input
    <3> DEFINE r == [type |-> "size", size |-> window']
    <3>1. ConsoleTypes'
      <4>1. IInv'
        BY <1>4, ResizeStepInv DEF ResizeRest
      <4>2. QED
        BY <4>1 DEF IInv, Types
    <3>2. input' = Append(input, r) /\ r \in Record /\ r.type = "size"
      BY <1>4, <2>3, <3>1 DEF SetWindow, ConsoleTypes, Record, SizeRecord
    <3> HIDE DEF r
    <3>3. FlattenSeq(Dues(m, Append(input, r))) = FlattenSeq(Dues(m, input)) \o DueBy(m, r)
      BY <1>1, <3>2, DuesOf
    <3>4. DueBy(m, r) = <<>> /\ FlattenSeq(Dues(m, input)) \in Seq(Int)
      BY <1>1, <3>2, DueOf, DuesOf
    <3>5. FlattenSeq(Dues(m, input')) = FlattenSeq(Dues(m, input))
      BY <3>2, <3>3, <3>4, ConcatEmptySeq
    <3>6. KeysInOrder'
      BY <1>1, <2>1, <3>5, OwedIs DEF OwedInv, OwedBy
    <3>7. QED
      BY <1>3, <3>6 DEF OwedInv
  <2>4. QED
    BY <2>2, <2>3
<1>5. CASE Flush
  <2>1. /\ input' = <<>> /\ owed' = RepeatsBy(m, key_count, save_ip)
        /\ "thrown" \notin cut' => "thrown" \notin cut
    BY <1>5, RepeatsIs DEF Flush
  <2>2. Dues(m, <<>>) = <<>>
    BY DEF Dues
  <2>3. RepeatsBy(m, key_count, save_ip) \in Seq(Int)
    BY <1>1, RepeatsType DEF OwedInv, RepeatsFit, RepeatsBy
  <2>4. OwedBy(m, key_count, save_ip, <<>>) = RepeatsBy(m, key_count, save_ip)
    BY <2>2, <2>3, FlattenNone, ConcatEmptySeq DEF OwedBy
  <2>5. KeysInOrder'
    BY <1>1, <2>1, <2>4, OwedIs
  <2>6. QED
    BY <1>3, <2>5 DEF OwedInv
<1> QED
  BY <1>2, <1>4, <1>5 DEF ResizeRest
LEMMA StepOwed == IInv /\ OwedInv /\ [Next]_vars => OwedInv'
<1> SUFFICES ASSUME IInv, OwedInv, [Next]_vars PROVE OwedInv'
  OBVIOUS
<1>1. CASE User
  BY <1>1, UserOwed
<1>2. CASE Library
  BY <1>2, KeypadOwed DEF Library
<1>3. CASE Arrow \/ Choose \/ OtherKey \/ PathKey \/ PathDone
  <2>1. KeysSame
    BY <1>3 DEF Arrow, Choose, OtherKey, PathKey, PathDone
  <2>2. UNCHANGED <<input, owed, save_ip, key_count, returnModifiers, cut>>
    BY <2>1 DEF KeysSame, consoleVars, settings, history
  <2>3. QED
    BY <2>2, OwedStays
<1>4. CASE MenuResize \/ ResizeRefused \/ ResizeRest
  BY <1>4, ResizeOwed
<1>5. CASE UNCHANGED vars
  <2>1. UNCHANGED <<input, owed, save_ip, key_count, returnModifiers, cut>>
    BY <1>5 DEF vars, keyVars, consoleVars, settings, history
  <2>2. QED
    BY <2>1, OwedStays
<1> QED
  BY <1>1, <1>2, <1>3, <1>4, <1>5 DEF Next, Program

LEMMA OwedBegins == Init => OwedInv
<1> SUFFICES ASSUME Init PROVE OwedInv
  OBVIOUS
<1>1. input = <<>> /\ owed = <<>> /\ key_count = 0
  BY DEF Init, KeyInit
<1>2. Dues(returnModifiers, <<>>) = <<>> /\ RepeatsBy(returnModifiers, 0, save_ip) = <<>>
  BY DEF Dues, RepeatsBy
<1>3. OwedBy(returnModifiers, 0, save_ip, <<>>) = <<>>
  BY <1>2, FlattenNone, ConcatEmptySeq, EmptySeq DEF OwedBy
<1>4. QED
  BY <1>1, <1>3, OwedIs DEF OwedInv, RepeatsFit

\* Each key the user presses is given to the program, in order and as often as
\* it was repeated: the counters key_count and event_count, and the records read
\* by a click, lose none and give none twice.
THEOREM KeysComeInOrder == Spec => []KeysInOrder
<1>1. Init => OwedInv
  BY OwedBegins
<1>2. IInv /\ OwedInv /\ [Next]_vars => OwedInv'
  BY StepOwed
<1>3. OwedInv => KeysInOrder
  BY DEF OwedInv
<1> QED
  BY <1>1, <1>2, <1>3, Kernel, PTL DEF Spec
(***************************************************************************)
(* The row chosen is where the keys lead.                                  *)
(***************************************************************************)
Ends == [row : Int, entered : BOOLEAN]

LEMMA LedType ==
  ASSUME NEW m \in Ends, NEW k \in Int
  PROVE  Led(m, k) \in Ends /\ (m.entered => Led(m, k) = m)
<1>1. Rows \in Nat \ {0} /\ m.row \in Int
  BY SessionAssumption DEF Ends
<1>2. (m.row - 1) % Rows \in Int /\ (m.row + 1) % Rows \in Int
  BY <1>1
<1>3. \/ Led(m, k) = m \/ Led(m, k) = [m EXCEPT !.row = (m.row - 1) % Rows]
      \/ Led(m, k) = [m EXCEPT !.row = (m.row + 1) % Rows] \/ Led(m, k) = [m EXCEPT !.entered = TRUE]
  BY DEF Led
<1>4. Led(m, k) \in Ends
  BY <1>2, <1>3 DEF Ends
<1> QED
  BY <1>4 DEF Led

\* The function that Leads computes: where the first i keys lead.
IsAfter(f, m, keys) == f = [i \in 0..Len(keys) |-> IF i = 0 THEN m ELSE Led(f[i - 1], keys[i])]

LEMMA AfterAt ==
  ASSUME NEW m \in Ends, NEW keys \in Seq(Int), NEW f, IsAfter(f, m, keys)
  PROVE  /\ f[0] = m
         /\ \A i \in 0..Len(keys), j \in 1..Len(keys) : j = i + 1 => f[j] = Led(f[i], keys[j])
<1>1. Len(keys) \in Nat /\ \A i \in 0..Len(keys) : f[i] = IF i = 0 THEN m ELSE Led(f[i - 1], keys[i])
  BY LenProperties, Zenon DEF IsAfter
<1>2. ASSUME NEW i \in 0..Len(keys), NEW j \in 1..Len(keys), j = i + 1
      PROVE  f[j] = Led(f[i], keys[j])
  <2>1. j # 0 /\ j - 1 = i /\ j \in 0..Len(keys)
    BY <1>2
  <2>2. f[j] = IF j = 0 THEN m ELSE Led(f[j - 1], keys[j])
    BY <1>1, <2>1
  <2>3. QED
    BY <2>1, <2>2
<1>3. f[0] = m
  BY <1>1
<1> QED
  BY <1>2, <1>3

LEMMA AfterExists ==
  ASSUME NEW m \in Ends, NEW keys \in Seq(Int)
  PROVE  \E f \in [0..Len(keys) -> Ends] : IsAfter(f, m, keys)
<1> DEFINE n == Len(keys)
           G == [p \in Nat \X Ends |-> IF p[1] \in 1..n THEN Led(p[2], keys[p[1]]) ELSE p[2]]
<1>1. n \in Nat /\ \A i \in 1..n : keys[i] \in Int
  BY ElementOfSeq
<1>2. G \in [Nat \X Ends -> Ends]
  <2>1. \A p \in Nat \X Ends : p[1] \in 1..n => Led(p[2], keys[p[1]]) \in Ends
    BY <1>1, LedType
  <2>2. QED
    BY <2>1
<1> HIDE DEF n
<1>3. \A i \in 1..n, t \in Ends : G[<<i, t>>] = Led(t, keys[i])
  <2> TAKE i \in 1..n, t \in Ends
  <2>1. <<i, t>> \in Nat \X Ends
    BY <1>1
  <2>2. QED
    BY <2>1
<1> HIDE DEF G
<1>4. PICK f \in [0..n -> Ends] : Follows(f, m, n, G)
  BY <1>1, <1>2, Recursion
<1>5. \A i \in 0..n : f[i] = IF i = 0 THEN m ELSE Led(f[i - 1], keys[i])
  <2> TAKE i \in 0..n
  <2>1. CASE i = 0
    BY <1>4, <2>1 DEF Follows
  <2>2. CASE i # 0
    <3>1. i \in 1..n /\ i - 1 \in 0..n
      BY <1>1, <2>2
    <3>2. f[i] = G[<<i, f[i - 1]>>] /\ f[i - 1] \in Ends
      BY <1>4, <3>1 DEF Follows
    <3>3. QED
      BY <1>3, <2>2, <3>1, <3>2
  <2>3. QED
    BY <2>1, <2>2
<1>6. f = [i \in 0..n |-> IF i = 0 THEN m ELSE Led(f[i - 1], keys[i])]
  BY <1>5
<1> QED
  BY <1>6 DEF n, IsAfter

\* It goes on from where it has come to: u ends with t behind its first n keys,
\* and leads where t leads from there.
EndsWith(u, n, t) ==
  Len(u) = n + Len(t) /\ \A i \in 1..Len(t), j \in 1..Len(u) : j = n + i => u[j] = t[i]

LEMMA AfterGoesOn ==
  ASSUME NEW m \in Ends, NEW u \in Seq(Int), NEW f, IsAfter(f, m, u), NEW n \in Nat,
         NEW t \in Seq(Int), EndsWith(u, n, t), NEW b \in Ends, f[n] = b,
         NEW g, IsAfter(g, b, t)
  PROVE  f[Len(u)] = g[Len(t)]
<1> DEFINE Same(i, j) == f[j] = g[i]
           S == {q \in Nat : \A i \in 0..Len(t), j \in 0..Len(u) : i = q /\ j = n + i => Same(i, j)}
<1>1. Len(t) \in Nat /\ Len(u) \in Nat /\ Len(u) = n + Len(t)
  BY LenProperties DEF EndsWith
<1>2. \A p \in 0..Len(u), q \in 1..Len(u) : q = p + 1 => f[q] = Led(f[p], u[q])
  BY AfterAt
<1>3. g[0] = b /\ \A p \in 0..Len(t), q \in 1..Len(t) : q = p + 1 => g[q] = Led(g[p], t[q])
  BY <1>1, AfterAt
<1>4. 0 \in S
  BY <1>1, <1>3
<1> HIDE DEF Same
<1>5. ASSUME NEW q \in Nat, q \in S PROVE q + 1 \in S
  <2> SUFFICES ASSUME NEW i \in 0..Len(t), NEW j \in 0..Len(u), i = q + 1, j = n + i
               PROVE  Same(i, j)
    OBVIOUS
  <2>1. PICK p \in 0..Len(u) : p = n + q
    BY <1>1
  <2>2. q \in 0..Len(t) /\ i \in 1..Len(t) /\ j \in 1..Len(u) /\ j = p + 1
    BY <1>1, <2>1
  <2>3. f[p] = g[q]
    BY <1>5, <2>1, <2>2 DEF Same
  <2>4. f[j] = Led(f[p], u[j])
    BY <1>2, <2>1, <2>2
  <2>5. g[i] = Led(g[q], t[i])
    BY <1>3, <2>2
  <2>6. u[j] = t[i]
    BY <2>2 DEF EndsWith
  <2>7. QED
    BY <2>3, <2>4, <2>5, <2>6 DEF Same
<1> HIDE DEF S
<1>6. Len(t) \in S
  BY <1>1, <1>4, <1>5, Induction
<1>7. Len(t) \in 0..Len(t) /\ Len(u) \in 0..Len(u)
  BY <1>1
<1>8. Same(Len(t), Len(u))
  BY <1>1, <1>6, <1>7 DEF S
<1> QED
  BY <1>8 DEF Same

\* Where keys lead depends on no others.
LEMMA LeadsIs ==
  ASSUME NEW m \in Ends, NEW keys \in Seq(Int), NEW f, IsAfter(f, m, keys)
  PROVE  Leads(m, keys) = f[Len(keys)] /\ Leads(m, keys) \in Ends
<1>1. PICK h \in [0..Len(keys) -> Ends] : IsAfter(h, m, keys)
  BY AfterExists
<1> DEFINE c == CHOOSE c : c = [i \in 0..Len(keys) |-> IF i = 0 THEN m ELSE Led(c[i - 1], keys[i])]
<1>2. Leads(m, keys) = c[Len(keys)]
  BY Zenon DEF Leads
<1>3. IsAfter(c, m, keys)
  BY <1>1 DEF IsAfter
<1> HIDE DEF c
<1>4. c[0] = m /\ 0 \in Nat /\ Len(keys) \in Nat
  BY <1>3, AfterAt, LenProperties
<1>5. c[0] = m
  BY <1>4
<1>6. EndsWith(keys, 0, keys)
  BY <1>4 DEF EndsWith
<1>7. c[Len(keys)] = f[Len(keys)] /\ c[Len(keys)] = h[Len(keys)]
  BY <1>1, <1>3, <1>4, <1>5, <1>6, AfterGoesOn
<1>8. h[Len(keys)] \in Ends
  BY <1>4
<1> QED
  BY <1>2, <1>7, <1>8

LEMMA LeadsNone == ASSUME NEW m \in Ends PROVE Leads(m, <<>>) = m
<1>1. PICK f : IsAfter(f, m, <<>>)
  BY AfterExists, EmptySeq
<1>2. f[0] = m /\ Len(<<>>) = 0
  <2>1. <<>> \in Seq(Int)
    OBVIOUS
  <2>2. f[0] = m
    BY <1>1, <2>1, AfterAt
  <2>3. QED
    BY <2>2
<1> QED
  BY <1>1, <1>2, LeadsIs, EmptySeq

LEMMA LeadsFirst ==
  ASSUME NEW m \in Ends, NEW s \in Seq(Int), s # <<>>
  PROVE  Leads(m, s) = Leads(Led(m, Head(s)), Tail(s))
<1> DEFINE t == Tail(s)
<1>1. /\ t \in Seq(Int) /\ Len(t) \in Nat /\ Len(s) \in Nat /\ Len(s) = 1 + Len(t)
      /\ Head(s) = s[1] /\ \A i \in 1..Len(t) : t[i] = s[i + 1]
  BY HeadTailProperties, EmptySeq, LenProperties
<1> HIDE DEF t
<1>2. s[1] \in Int
  BY <1>1, ElementOfSeq
<1>3. PICK f : IsAfter(f, m, s)
  BY AfterExists
<1>4. f[0] = m /\ f[1] = Led(m, s[1])
  <2>1. 0 \in 0..Len(s) /\ 1 \in 1..Len(s) /\ 1 = 0 + 1
    BY <1>1
  <2>2. f[0] = m /\ \A i \in 0..Len(s), j \in 1..Len(s) : j = i + 1 => f[j] = Led(f[i], s[j])
    BY <1>1, <1>3, AfterAt
  <2>3. f[1] = Led(f[0], s[1])
    BY <2>1, <2>2
  <2>4. QED
    BY <2>2, <2>3
<1>5. Led(m, s[1]) \in Ends
  BY <1>2, LedType
<1>6. PICK b \in Ends : b = Led(m, s[1])
  BY <1>5
<1>7. PICK g : IsAfter(g, b, t)
  BY <1>1, AfterExists
<1>8. EndsWith(s, 1, t)
  BY <1>1 DEF EndsWith
<1>9. f[Len(s)] = g[Len(t)]
  <2>1. f[1] = b /\ 1 \in Nat
    BY <1>4, <1>6
  <2>2. QED
    BY <1>1, <1>3, <1>7, <1>8, <2>1, AfterGoesOn, SMTT(30)
<1>10. Leads(m, s) = f[Len(s)]
  BY <1>3, LeadsIs
<1>11. Leads(b, t) = g[Len(t)]
  BY <1>1, <1>7, LeadsIs
<1> QED
  BY <1>1, <1>6, <1>9, <1>10, <1>11 DEF t

LEMMA LeadsConcat ==
  ASSUME NEW m \in Ends, NEW s \in Seq(Int), NEW t \in Seq(Int)
  PROVE  Leads(m, s \o t) = Leads(Leads(m, s), t)
<1> DEFINE u == s \o t
           n == Len(s)
<1>1. /\ u \in Seq(Int) /\ n \in Nat /\ Len(t) \in Nat /\ Len(u) = n + Len(t)
      /\ \A i \in 1..n + Len(t) : u[i] = IF i <= n THEN s[i] ELSE t[i - n]
  BY ConcatProperties, LenProperties
<1> HIDE DEF u
<1>2. PICK f : f \in [0..Len(u) -> Ends] /\ IsAfter(f, m, u)
  BY <1>1, AfterExists
<1>3. PICK h : h \in [0..Len(s) -> Ends] /\ IsAfter(h, m, s)
  BY AfterExists
<1>4. f[n] = h[n]
  <2> DEFINE S == {q \in Nat : q \in 0..n => f[q] = h[q]}
  <2> HIDE DEF n
  <2>1. f[0] = m /\ \A p \in 0..Len(u), q \in 1..Len(u) : q = p + 1 => f[q] = Led(f[p], u[q])
    <3>1. Len(u) \in Nat
      BY <1>1
    <3>2. QED
      BY <1>2, <3>1, AfterAt
  <2>2. h[0] = m /\ \A p \in 0..n, q \in 1..n : q = p + 1 => h[q] = Led(h[p], s[q])
    BY <1>1, <1>3, AfterAt, SMTT(30) DEF n
  <2>3. 0 \in S
    BY <2>1, <2>2
  <2>4. ASSUME NEW q \in Nat, q \in S PROVE q + 1 \in S
    <3> SUFFICES ASSUME NEW i \in 0..n, i = q + 1 PROVE f[i] = h[i]
      OBVIOUS
    <3>1. q \in 0..n /\ i \in 1..n /\ q \in 0..Len(u) /\ i \in 1..Len(u)
      BY <1>1
    <3>2. f[q] = h[q] /\ u[i] = s[i]
      BY <1>1, <2>4, <3>1
    <3>3. f[i] = Led(f[q], u[i]) /\ h[i] = Led(h[q], s[i])
      BY <2>1, <2>2, <3>1
    <3>4. QED
      BY <3>2, <3>3
  <2> HIDE DEF S
  <2>5. n \in S
    BY <1>1, <2>3, <2>4, Induction
  <2>6. QED
    BY <1>1, <2>5 DEF S
<1>5. Leads(m, s) = f[n] /\ Leads(m, s) \in Ends
  BY <1>3, <1>4, LeadsIs
<1>6. PICK b \in Ends : b = Leads(m, s)
  BY <1>5
<1>7. PICK g : IsAfter(g, b, t)
  BY AfterExists
<1>8. EndsWith(u, n, t)
  <2> HIDE DEF n
  <2> SUFFICES ASSUME NEW i \in 1..Len(t), NEW j \in 1..Len(u), j = n + i PROVE u[j] = t[i]
    BY <1>1 DEF EndsWith
  <2>1. j \in 1..n + Len(t) /\ ~(j <= n) /\ j - n = i
    BY <1>1
  <2>2. QED
    BY <1>1, <2>1
<1>9. f[Len(u)] = g[Len(t)]
  <2>1. PICK k \in Nat : k = n
    BY <1>1
  <2>2. f[k] = b /\ u \in Seq(Int) /\ EndsWith(u, k, t)
    BY <1>1, <1>5, <1>6, <1>8, <2>1
  <2>3. IsAfter(f, m, u) /\ IsAfter(g, b, t)
    BY <1>2, <1>7
  <2>4. QED
    BY <2>2, <2>3, AfterGoesOn, SMTT(30)
<1>10. Leads(m, u) = f[Len(u)]
  BY <1>1, <1>2, LeadsIs
<1>11. Leads(b, t) = g[Len(t)]
  BY <1>7, LeadsIs
<1> QED
  BY <1>6, <1>9, <1>10, <1>11 DEF u

LEMMA LeadsEntered ==
  ASSUME NEW m \in Ends, m.entered, NEW s \in Seq(Int)
  PROVE  Leads(m, s) = m
<1>1. Len(s) \in Nat
  BY LenProperties
<1>2. PICK f \in [0..Len(s) -> Ends] : IsAfter(f, m, s)
  BY AfterExists
<1> DEFINE S == {q \in Nat : q \in 0..Len(s) => f[q] = m}
<1>3. 0 \in S
  BY <1>1, <1>2, AfterAt
<1>4. ASSUME NEW q \in Nat, q \in S PROVE q + 1 \in S
  <2> SUFFICES ASSUME NEW i \in 0..Len(s), i = q + 1 PROVE f[i] = m
    OBVIOUS
  <2>1. q \in 0..Len(s) /\ i \in 1..Len(s)
    BY <1>1
  <2>2. f[i] = Led(f[q], s[i]) /\ f[q] = m /\ s[i] \in Int
    BY <1>1, <1>2, <1>4, <2>1, AfterAt, ElementOfSeq
  <2>3. QED
    BY <2>2, LedType
<1> HIDE DEF S
<1>5. Len(s) \in S
  BY <1>1, <1>3, <1>4, Induction
<1> QED
  BY <1>1, <1>2, <1>5, LeadsIs DEF S
\* The key that is given leads from where one is to where the keys owed lead from
\* then on: it was the first of them, or one that leads nowhere.
LEMMA LeadsNowhere ==
  ASSUME NEW c, NEW k \in Int, k \notin {KEY_UP, KEY_DOWN, 10, 13}
  PROVE  Led(c, k) = c
BY DEF Led

LEMMA GivenLeads ==
  ASSUME NEW m \in BOOLEAN, NEW r \in Record, r.type = "key", NEW n \in Nat, n > 0,
         DueBy(m, r) = <<>> \/ n <= Len(DueBy(m, r)), NEW t \in Seq(Int),
         NEW key \in ProcessBy(m, r), NEW c \in Ends,
         DueBy(m, r) = <<>> => key \in ModifierKeys \cup {-1}
  PROVE  Leads(c, RepeatsBy(m, n, r) \o t)
           = Leads(IF key = -1 THEN c ELSE Led(c, key), RepeatsBy(m, n - 1, r) \o t)
<1>1. CASE DueBy(m, r) = <<>>
  <2>1. RepeatsBy(m, n, r) = RepeatsBy(m, n - 1, r)
    BY <1>1 DEF RepeatsBy
  <2>2. key \in ModifierKeys \cup {-1} => key \in Int /\ key \notin {KEY_UP, KEY_DOWN, 10, 13}
    BY DEF ModifierKeys, KEY_SHIFT_LR, KEY_CONTROL_LR, KEY_ALT_LR, KEY_UP, KEY_DOWN
  <2>3. Led(c, key) = c
    BY <1>1, <2>2, LeadsNowhere
  <2>4. QED
    BY <2>1, <2>3
<1>2. CASE DueBy(m, r) # <<>>
  <2>1. PICK k \in Int : k # -1 /\ ProcessBy(m, r) = {k} /\ DueBy(m, r) = Run(NumKeys(r), k)
    BY <1>2, DueOf
  <2>2. NumKeys(r) \in Nat
    BY <1>2, DueOf
  <2>3. key = k
    BY <2>1
  <2>4. n - 1 \in Nat /\ n - 1 <= Len(DueBy(m, r))
    BY <1>2, <2>1, <2>2, RunIs
  <2>5. \A j \in Nat : j <= Len(DueBy(m, r)) => RepeatsBy(m, j, r) = Run(j, key)
    BY <1>2, <2>1, <2>2, <2>3, RepeatsType
  <2>6. RepeatsBy(m, n, r) = Run(n, key) /\ RepeatsBy(m, n - 1, r) = Run(n - 1, key)
    BY <1>2, <2>4, <2>5
  <2> DEFINE o == Run(n, key) \o t
  <2>7. /\ o \in Seq(Int) /\ o # <<>> /\ Head(o) = key /\ Tail(o) = Run(n - 1, key) \o t
    BY <2>1, <2>3, RunGives
  <2> HIDE DEF o
  <2>8. Leads(c, o) = Leads(Led(c, Head(o)), Tail(o))
    BY <2>7, LeadsFirst
  <2>9. Leads(c, o) = Leads(Led(c, key), Run(n - 1, key) \o t)
    BY <2>7, <2>8, Zenon
  <2>10. QED
    BY <2>1, <2>3, <2>6, <2>9 DEF o
<1> QED
  BY <1>1, <1>2

\* Of a key that is given once more something is due, or it is none.
LEMMA DueOrNone ==
  ASSUME NEW m \in BOOLEAN, NEW r \in KeyRecord, save_press \in Modifiers \cup {0},
         NumKeys(r) > 0, DueBy(m, r) = <<>>, NEW key \in ProcessBy(m, r)
  PROVE  /\ key \in ModifierKeys \cup {-1}
         /\ NumKeys(r) > 1 => key = -1
<1>1. CASE r.vk \in {VK_SHIFT, VK_CONTROL} \/ (r.vk = VK_MENU /\ r.char = 0)
  <2>1. key \in ModifierKeys \cup {-1}
    BY <1>1 DEF ProcessBy, ModifierKeys, VK_SHIFT, VK_CONTROL, VK_MENU
  <2>2. ~(NumKeys(r) > 1)
    BY <1>1 DEF NumKeys, Modifiers, Locks, VK_SHIFT, VK_CONTROL, VK_MENU
  <2>3. QED
    BY <2>1, <2>2
<1>2. CASE ~(r.vk \in {VK_SHIFT, VK_CONTROL} \/ (r.vk = VK_MENU /\ r.char = 0))
  <2> DEFINE chosen == CHOOSE k \in ProcessBy(m, r) : TRUE
             times == IF r.vk = VK_MENU THEN IF ~r.down /\ r.char # 0 THEN 1 ELSE 0
                      ELSE IF ~r.down \/ (r.dead /\ r.char = 0) THEN 0 ELSE r.rep
  <2>1. /\ r.type = "key" /\ r.vk \in 0..255 /\ r.char \in 0..255 /\ r.enhanced \in BOOLEAN
        /\ r.rep \in Nat /\ r.down \in BOOLEAN /\ r.dead \in BOOLEAN
    BY KeyboardAssumption DEF KeyRecord
  <2>2. ProcessBy(m, r) = {Ascii(r.char)} \/ ProcessBy(m, r) = {Translate(r.vk, r.enhanced, r.mods)}
    BY <1>2 DEF ProcessBy
  <2>3. chosen = key
    BY <2>2
  <2>4. r.vk \notin Locks /\ times > 0 /\ times \in Nat
    BY <1>2, <2>1 DEF NumKeys, Modifiers, Locks, VK_SHIFT, VK_CONTROL, VK_MENU
  <2>5. DueBy(m, r) = IF chosen = -1 THEN <<>> ELSE Run(times, chosen)
    BY <1>2, <2>1, <2>4 DEF DueBy, Run
  <2> HIDE DEF chosen, times
  <2>6. key \in Int
    <3>1. Plain(Translate(r.vk, r.enhanced, r.mods))
      BY <2>1, TranslateIsPlain
    <3>2. Ascii(r.char) \in Int
      <4>1. PICK c \in 0..255 : c = r.char
        BY <2>1
      <4>2. Ascii(c) \in Int
        BY DEF Ascii
      <4>3. QED
        BY <4>1, <4>2
    <3>3. QED
      BY <2>2, <3>1, <3>2 DEF Plain
  <2>7. Run(times, key) # <<>>
    BY <2>4, <2>6, RunIs
  <2>8. key = -1
    BY <2>3, <2>5, <2>7
  <2>9. QED
    BY <2>8
<1> QED
  BY <1>1, <1>2

\* Where the keys the program has acted on lead, and the one it has got.
Cur == [row |-> option, entered |-> FALSE]
Now == IF kpc = "act" THEN Led(Cur, got) ELSE Cur
Kept == cut = {}

RepeatsDue ==
  key_count > 0 /\ DueBy(returnModifiers, save_ip) = <<>> =>
    \A key \in ProcessBy(returnModifiers, save_ip) : key = -1

ChoiceInv ==
  /\ drawn = option
  /\ kpc = "act" => got # KEY_ENTER
  /\ RepeatsDue
  /\ Kept => /\ meant \in Ends
             /\ phase = "menu" => meant = Leads(Now, owed)
             /\ phase # "menu" => meant.row = option /\ meant.entered

LEMMA RepeatsDueStays ==
  ASSUME RepeatsDue, UNCHANGED <<save_ip, key_count, returnModifiers>>
  PROVE  RepeatsDue'
<1>1. RepeatsDue' <=>
        (key_count' > 0 /\ DueBy(returnModifiers', save_ip') = <<>> =>
           \A key \in ProcessBy(returnModifiers', save_ip') : key = -1)
  BY Zenon DEF RepeatsDue, DueBy, ProcessBy
<1> QED
  BY <1>1 DEF RepeatsDue

LEMMA CurIsEnd == ASSUME IInv PROVE Cur \in Ends /\ Now \in Ends
<1>1. option \in Int /\ got \in Int
  BY SessionAssumption DEF IInv, Types, MenuTypes, KeyboardTypes
<1>2. Cur \in Ends
  BY <1>1 DEF Cur, Ends
<1> QED
  BY <1>1, <1>2, LedType DEF Now

\* Nothing that was lost comes back.
LEMMA CutGrows == ASSUME IInv, [Next]_vars PROVE Kept' => Kept
<1>1. CASE User
  BY <1>1, UserStep DEF IInv, Types, UserSame, Kept
<1>2. CASE Keypad
  BY <1>2 DEF Keypad, CheckKey, GetRepeat, GetKey, GetFocus, GetSize, GetMouse, NapOver, Complete,
              history, Kept
<1>3. CASE Arrow \/ Choose \/ OtherKey \/ PathKey \/ PathDone
  BY <1>3 DEF Arrow, Choose, OtherKey, PathKey, PathDone, KeysSame, history, Kept
<1>4. CASE MenuResize \/ ResizeRefused \/ ResizeRest
  BY <1>4 DEF MenuResize, ResizeRefused, ResizeRest, GetRows, GetColumns, SetWindow, Flush, GetLines,
              GetCols, history, Kept
<1>5. CASE UNCHANGED vars
  BY <1>5 DEF vars, keyVars, history, Kept
<1> QED
  BY <1>1, <1>2, <1>3, <1>4, <1>5 DEF Next, Program, Library

LEMMA OwedType == ASSUME IInv, OwedInv, Kept PROVE owed \in Seq(Int)
<1>1. /\ returnModifiers \in BOOLEAN /\ input \in Seq(Record) /\ save_ip \in Record /\ key_count \in Nat
  BY DEF IInv, Types, ConsoleTypes, KeyboardTypes
<1>2. RepeatsBy(returnModifiers, key_count, save_ip) \in Seq(Int)
  <2>1. CASE key_count = 0
    BY <2>1, EmptySeq DEF RepeatsBy
  <2>2. CASE key_count > 0
    BY <1>1, <2>2, RepeatsType DEF OwedInv, RepeatsFit
  <2>3. QED
    BY <1>1, <2>1, <2>2
<1>3. FlattenSeq(Dues(returnModifiers, input)) \in Seq(Int)
  BY <1>1, DuesOf
<1>4. owed = OwedBy(returnModifiers, key_count, save_ip, input)
  BY OwedIs DEF OwedInv, Kept
<1> QED
  BY <1>2, <1>3, <1>4, ConcatProperties DEF OwedBy
LEMMA UserChoice == IInv /\ OwedInv /\ ChoiceInv /\ User => ChoiceInv'
<1> SUFFICES ASSUME IInv, OwedInv, ChoiceInv, User PROVE ChoiceInv'
  OBVIOUS
<1>1. UNCHANGED <<phase, option, drawn, kpc, got, save_ip, key_count, returnModifiers>>
  BY UserStep DEF IInv, Types, UserSame, settings
<1>2. PICK r \in Record : Came(r)
  BY UserStep DEF IInv, Types
<1>3. RepeatsDue'
  BY <1>1, RepeatsDueStays DEF ChoiceInv
<1>4. drawn' = option' /\ (kpc' = "act" => got' # KEY_ENTER) /\ Now' = Now
  BY <1>1 DEF ChoiceInv, Now, Cur
<1>5. ASSUME Kept'
      PROVE  /\ meant' \in Ends
             /\ phase = "menu" => meant' = Leads(Now, owed')
             /\ phase # "menu" => meant'.row = option /\ meant'.entered
  <2> DEFINE d == DueBy(returnModifiers, r)
  <2>1. Kept
    BY <1>5, CutGrows DEF Next
  <2>2. owed \in Seq(Int) /\ d \in Seq(Int) /\ owed' = owed \o d
    BY <1>2, <2>1, OwedType, DueOf, DueIs DEF IInv, Types, ConsoleTypes, Came
  <2> HIDE DEF d
  <2>3. SubSeq(owed', Len(owed) + 1, Len(owed')) = d
    BY <2>2
  <2>4. meant' = Leads(meant, d)
    BY <2>3 DEF User
  <2>5. meant \in Ends /\ meant' \in Ends
    BY <2>1, <2>2, <2>4, AfterExists, LeadsIs DEF ChoiceInv
  <2>6. CASE phase = "menu"
    <3>1. meant = Leads(Now, owed) /\ Now \in Ends
      BY <2>1, <2>6, CurIsEnd DEF ChoiceInv
    <3>2. Leads(Now, owed \o d) = Leads(Leads(Now, owed), d)
      BY <2>2, <3>1, LeadsConcat
    <3>3. QED
      BY <2>2, <2>4, <2>5, <2>6, <3>1, <3>2
  <2>7. CASE phase # "menu"
    <3>1. meant.row = option /\ meant.entered
      BY <2>1, <2>7 DEF ChoiceInv
    <3>2. meant' = meant
      BY <2>2, <2>4, <2>5, <3>1, LeadsEntered
    <3>3. QED
      BY <2>5, <2>7, <3>1, <3>2
  <2>8. QED
    BY <2>6, <2>7
<1> QED
  BY <1>1, <1>3, <1>4, <1>5 DEF ChoiceInv

\* A step of the keyboard: the keys owed, and the one it gives, lead where they did.
LEMMA KeypadStays ==
  ASSUME ChoiceInv, UNCHANGED sessionVars, Kept' => Kept, RepeatsDue', kpc # "act",
         kpc' = "act" => got' # KEY_ENTER,
         Kept' => Leads(IF kpc' = "act" THEN Led(Cur, got') ELSE Cur, owed') = Leads(Cur, owed)
  PROVE  ChoiceInv'
<1>1. UNCHANGED <<phase, option, drawn, meant>>
  BY DEF sessionVars
<1>2. Now = Cur /\ Now' = IF kpc' = "act" THEN Led(Cur, got') ELSE Cur
  BY <1>1 DEF Now, Cur
<1>3. Kept' => Leads(Now', owed') = Leads(Now, owed)
  BY <1>2
<1> QED
  BY <1>1, <1>3 DEF ChoiceInv

\* A key that is given is what is owed next, or leads nowhere.
LEMMA GivenChoice ==
  ASSUME IInv, OwedInv, OwedInv', ChoiceInv, UNCHANGED sessionVars, Kept' => Kept, kpc # "act",
         NEW r \in KeyRecord, NEW n \in Nat, n > 0, NEW t \in Seq(Int), Gives(r),
         DueBy(returnModifiers, r) = <<>> \/ n <= Len(DueBy(returnModifiers, r)),
         "thrown" \notin cut => owed = RepeatsBy(returnModifiers, n, r) \o t,
         returnModifiers' = returnModifiers, save_ip' = r, key_count' = n - 1,
         t = FlattenSeq(Dues(returnModifiers, input')),
         \A key \in ProcessBy(returnModifiers, r) :
           DueBy(returnModifiers, r) = <<>> =>
             key \in ModifierKeys \cup {-1} /\ (n > 1 => key = -1)
  PROVE  ChoiceInv'
<1> DEFINE m == returnModifiers
<1>1. PICK key \in Process(r) : got' = key /\ kpc' = IF key = -1 THEN "look" ELSE "act"
  BY DEF Gives, Returns
<1>2. m \in BOOLEAN /\ r \in Record /\ r.type = "key" /\ key \in ProcessBy(m, r) /\ r.vk \in 0..255
  BY <1>1, ProcessIs DEF IInv, Types, ConsoleTypes, Record, KeyRecord
<1>3. key \in Int /\ key # KEY_ENTER
  <2>1. KEY_SHIFT_LR \cup KEY_CONTROL_LR \cup KEY_ALT_LR \cup {-1} \subseteq Int \ {KEY_ENTER}
    BY DEF KEY_SHIFT_LR, KEY_CONTROL_LR, KEY_ALT_LR, KEY_ENTER
  <2>2. \/ Plain(key)
        \/ key \in KEY_SHIFT_LR \cup KEY_CONTROL_LR \cup KEY_ALT_LR \cup {-1}
    BY <1>1, <1>2, ProcessKeys DEF Modifiers
  <2>3. QED
    BY <2>1, <2>2 DEF Plain
<1>4. RepeatsDue'
  <2>1. RepeatsDue' <=>
          (key_count' > 0 /\ DueBy(returnModifiers', save_ip') = <<>> =>
             \A k \in ProcessBy(returnModifiers', save_ip') : k = -1)
    BY Zenon DEF RepeatsDue, DueBy, ProcessBy
  <2>2. QED
    BY <2>1
<1>5. ASSUME Kept'
      PROVE  Leads(IF kpc' = "act" THEN Led(Cur, got') ELSE Cur, owed') = Leads(Cur, owed)
  <2>1. "thrown" \notin cut /\ "thrown" \notin cut'
    BY <1>5 DEF Kept
  <2>2. owed = RepeatsBy(m, n, r) \o t
    BY <2>1
  <2>3. owed' = RepeatsBy(m, n - 1, r) \o t
    BY <2>1, OwedIs DEF OwedInv, OwedBy
  <2>4. Cur \in Ends
    BY CurIsEnd
  <2>5. Leads(Cur, RepeatsBy(m, n, r) \o t)
          = Leads(IF key = -1 THEN Cur ELSE Led(Cur, key), RepeatsBy(m, n - 1, r) \o t)
    BY <1>2, <2>4, GivenLeads
  <2>6. (IF kpc' = "act" THEN Led(Cur, got') ELSE Cur) = IF key = -1 THEN Cur ELSE Led(Cur, key)
    BY <1>1
  <2>7. QED
    BY <2>2, <2>3, <2>5, <2>6, Zenon
<1>6. kpc' = "act" => got' # KEY_ENTER
  BY <1>1, <1>3
<1> QED
  BY <1>4, <1>5, <1>6, KeypadStays
LEMMA KeypadChoice ==
  IInv /\ OwedInv /\ ChoiceInv /\ Keypad /\ UNCHANGED sessionVars => ChoiceInv'
<1> SUFFICES ASSUME IInv, OwedInv, ChoiceInv, Keypad, UNCHANGED sessionVars PROVE ChoiceInv'
  OBVIOUS
<1> DEFINE m == returnModifiers
<1>1. /\ m \in BOOLEAN /\ input \in Seq(Record) /\ save_ip \in Record /\ key_count \in Nat
      /\ UNCHANGED returnModifiers /\ kpc \notin {"act"} /\ save_press \in Modifiers \cup {0}
  <2>1. kpc # "act"
    BY DEF Keypad, CheckKey, GetRepeat, GetKey, GetFocus, GetSize, GetMouse, NapOver
  <2>2. QED
    BY <2>1, KeypadLeaves DEF KeypadSame, settings, IInv, Types, ConsoleTypes, KeyboardTypes
<1>2. Kept' => Kept
  BY DEF Keypad, CheckKey, GetRepeat, GetKey, GetFocus, GetSize, GetMouse, NapOver, Complete,
         history, Kept
<1>3. OwedInv'
  BY KeypadOwed
<1>4. CASE CheckKey
  <2>1. UNCHANGED <<owed, save_ip, key_count>> /\ kpc' \in {"look", "get"}
    BY <1>4 DEF CheckKey, history
  <2>2. RepeatsDue'
    BY <1>1, <2>1, RepeatsDueStays DEF ChoiceInv
  <2>3. QED
    BY <1>1, <1>2, <2>1, <2>2, KeypadStays
<1>5. CASE GetRepeat
  <2> DEFINE t == FlattenSeq(Dues(m, input))
  <2>1. /\ UNCHANGED <<input, save_ip>> /\ key_count > 0 /\ key_count' = key_count - 1
        /\ Gives(save_ip)
    BY <1>5 DEF GetRepeat, consoleVars
  <2>2. save_ip \in KeyRecord
    BY <1>1, <2>1, RecordByType DEF IInv, Waiting
  <2>3. t \in Seq(Int)
    BY <1>1, DuesOf
  <2>4. DueBy(m, save_ip) = <<>> \/ key_count <= Len(DueBy(m, save_ip))
    BY <2>1 DEF OwedInv, RepeatsFit
  <2>5. "thrown" \notin cut => owed = RepeatsBy(m, key_count, save_ip) \o t
    BY OwedIs DEF OwedInv, OwedBy
  <2>6. t = FlattenSeq(Dues(m, input'))
    BY <2>1
  <2>7. \A key \in ProcessBy(m, save_ip) :
          DueBy(m, save_ip) = <<>> => key \in ModifierKeys \cup {-1} /\ (key_count > 1 => key = -1)
    BY <2>1 DEF ChoiceInv, RepeatsDue
  <2> HIDE DEF t
  <2>8. QED
    BY <1>1, <1>2, <1>3, <2>1, <2>2, <2>3, <2>4, <2>5, <2>6, <2>7, GivenChoice
<1>6. CASE GetKey
  <2> DEFINE t == FlattenSeq(Dues(m, Tail(input)))
  <2>1. /\ input' = Tail(input) /\ save_ip' = Head(input)
    BY <1>6 DEF GetKey, Read
  <2>2. PICK r \in KeyRecord : r = Head(input)
    BY <1>6, GotKey
  <2>3. PICK n \in Nat : n = NumKeys(r)
    BY <1>6, <2>2, GotKey
  <2>4. /\ \/ n = 0 /\ key_count' = 0 /\ UNCHANGED owed
           \/ n > 0 /\ key_count' = n - 1 /\ Gives(r)
        /\ t \in Seq(Int)
        /\ n > 0 => DueBy(m, r) = <<>> \/ n <= Len(DueBy(m, r))
        /\ "thrown" \notin cut => owed = RepeatsBy(m, n, r) \o t
    BY <1>6, <2>2, <2>3, GotKey
  <2>5. t = FlattenSeq(Dues(m, input'))
    BY <2>1
  <2> HIDE DEF t
  <2>6. CASE n = 0
    <3>1. key_count' = 0 /\ UNCHANGED owed
      BY <2>4, <2>6
    <3>2. kpc' = "look"
      BY <1>6, <2>2, <2>3, <2>6 DEF GetKey, Returns
    <3>3. RepeatsDue'
      BY <3>1 DEF RepeatsDue
    <3>4. QED
      BY <1>1, <1>2, <3>1, <3>2, <3>3, KeypadStays
  <2>7. CASE n # 0
    <3>1. key_count' = n - 1 /\ Gives(r) /\ n > 0
      BY <2>4, <2>7
    <3>2. \A key \in ProcessBy(m, r) :
            DueBy(m, r) = <<>> => key \in ModifierKeys \cup {-1} /\ (n > 1 => key = -1)
      BY <1>1, <2>3, <3>1, DueOrNone
    <3>3. QED
      BY <1>1, <1>2, <1>3, <2>1, <2>2, <2>4, <2>5, <3>1, <3>2, GivenChoice
  <2>8. QED
    BY <2>6, <2>7
<1>7. CASE GetFocus \/ GetSize \/ GetMouse \/ NapOver
  <2>1. UNCHANGED <<owed, key_count>> /\ key_count = 0
    BY <1>1, <1>7 DEF GetFocus, GetSize, GetMouse, NapOver, history, IInv, Waiting
  <2>2. kpc' = "act" => got' \in {KEY_MOUSE, KEY_RESIZE}
    <3>1. CASE GetFocus \/ GetSize
      BY <3>1 DEF GetFocus, GetSize, Returns, KEY_RESIZE
    <3>2. CASE GetMouse \/ NapOver
      BY <3>2 DEF GetMouse, NapOver, Complete, Report, Returns, KEY_MOUSE
    <3>3. QED
      BY <1>7, <3>1, <3>2
  <2>3. \A k \in {KEY_MOUSE, KEY_RESIZE} : k \in Int /\ k \notin {KEY_UP, KEY_DOWN, 10, 13, KEY_ENTER}
    BY DEF KEY_MOUSE, KEY_RESIZE, KEY_UP, KEY_DOWN, KEY_ENTER
  <2>4. kpc' = "act" => Led(Cur, got') = Cur
    BY <2>2, <2>3, LeadsNowhere
  <2>5. RepeatsDue'
    BY <2>1 DEF RepeatsDue
  <2>6. QED
    BY <1>1, <1>2, <2>1, <2>2, <2>3, <2>4, <2>5, KeypadStays
<1> QED
  BY <1>4, <1>5, <1>6, <1>7 DEF Keypad

\* What the remainder of C does here: the rows come round.
LEMMA ArrowLeads ==
  ASSUME NEW o \in 0..Rows - 1
  PROVE  CRem(o - 1 + Rows, Rows) = (o - 1) % Rows /\ CRem(o + 1 + Rows, Rows) = (o + 1) % Rows
<1>1. Rows \in Nat \ {0} /\ o \in Nat /\ o < Rows
  BY SessionAssumption
<1>2. PICK n \in Nat : n = Rows
  BY <1>1
<1>3. \A a \in Nat : CRem(a, n) = a % n
  BY DEF CRem
<1>4. (o - 1 + n) % n = (o - 1) % n /\ (o + 1 + n) % n = (o + 1) % n
  BY <1>1, <1>2
<1>5. o - 1 + n \in Nat /\ o + 1 + n \in Nat
  BY <1>1, <1>2
<1> QED
  BY <1>2, <1>3, <1>4, <1>5

\* Two choices with the same parts are the same, and what makes one.
LEMMA EndsEqual ==
  ASSUME NEW c \in Ends, NEW d \in Ends, c.row = d.row, c.entered <=> d.entered
  PROVE  c = d
  BY DEF Ends

LEMMA EndsMade ==
  ASSUME NEW o \in Int
  PROVE  /\ LET c == [row |-> o, entered |-> FALSE] IN c \in Ends /\ c.row = o /\ ~c.entered
         /\ LET c == [row |-> o, entered |-> TRUE] IN c \in Ends /\ c.row = o /\ c.entered
<1>1. LET c == [row |-> o, entered |-> FALSE] IN c \in Ends /\ c.row = o /\ ~c.entered
  BY DEF Ends
<1>2. LET c == [row |-> o, entered |-> TRUE] IN c \in Ends /\ c.row = o /\ c.entered
  BY DEF Ends
<1> QED
  BY <1>1, <1>2

\* The keys that move the row.
LEMMA RowMoved ==
  ASSUME NEW o \in Int, NEW x \in Int
  PROVE  [[row |-> o, entered |-> FALSE] EXCEPT !.row = x] = [row |-> x, entered |-> FALSE]
<1>1. PICK c \in Ends : c = [row |-> o, entered |-> FALSE] /\ c.row = o /\ ~c.entered
  BY EndsMade
<1>2. LET d == [c EXCEPT !.row = x] IN d \in Ends /\ d.row = x /\ (d.entered <=> c.entered)
  BY DEF Ends
<1>3. PICK d \in Ends : d = [c EXCEPT !.row = x] /\ d.row = x /\ ~d.entered
  BY <1>1, <1>2
<1>4. PICK e \in Ends : e = [row |-> x, entered |-> FALSE] /\ e.row = x /\ ~e.entered
  BY EndsMade
<1>5. d = e
  BY <1>3, <1>4, EndsEqual
<1> QED
  BY <1>1, <1>3, <1>4, <1>5

\* Enter keeps the row and ends the choice.
LEMMA RowEntered ==
  ASSUME NEW o \in Int
  PROVE  [[row |-> o, entered |-> FALSE] EXCEPT !.entered = TRUE] = [row |-> o, entered |-> TRUE]
<1>1. PICK c \in Ends : c = [row |-> o, entered |-> FALSE] /\ c.row = o /\ ~c.entered
  BY EndsMade
<1>2. LET d == [c EXCEPT !.entered = TRUE] IN d \in Ends /\ d.row = c.row /\ d.entered
  BY DEF Ends
<1>3. PICK d \in Ends : d = [c EXCEPT !.entered = TRUE] /\ d.row = o /\ d.entered
  BY <1>1, <1>2
<1>4. PICK e \in Ends : e = [row |-> o, entered |-> TRUE] /\ e.row = o /\ e.entered
  BY EndsMade
<1>5. d = e
  BY <1>3, <1>4, EndsEqual
<1> QED
  BY <1>1, <1>3, <1>4, <1>5

\* The keys that lead somewhere.
LEMMA LedBy ==
  ASSUME NEW o \in Int
  PROVE  LET c == [row |-> o, entered |-> FALSE]
         IN  /\ Led(c, KEY_UP) = [row |-> (o - 1) % Rows, entered |-> FALSE]
             /\ Led(c, KEY_DOWN) = [row |-> (o + 1) % Rows, entered |-> FALSE]
             /\ \A k \in {10, 13} : Led(c, k) = [row |-> o, entered |-> TRUE]
<1> DEFINE c == [row |-> o, entered |-> FALSE]
<1>1. ~c.entered /\ c.row = o
  OBVIOUS
<1>2. (o - 1) % Rows \in Int /\ (o + 1) % Rows \in Int
  <2>1. PICK n \in Nat \ {0} : n = Rows
    BY SessionAssumption
  <2>2. \A a \in Int : a % n \in Int
    OBVIOUS
  <2>3. o - 1 \in Int /\ o + 1 \in Int
    OBVIOUS
  <2>4. QED
    BY <2>1, <2>2, <2>3
<1>3. /\ [c EXCEPT !.row = (o - 1) % Rows] = [row |-> (o - 1) % Rows, entered |-> FALSE]
      /\ [c EXCEPT !.row = (o + 1) % Rows] = [row |-> (o + 1) % Rows, entered |-> FALSE]
  BY <1>2, RowMoved, Zenon
<1>4. [c EXCEPT !.entered = TRUE] = [row |-> o, entered |-> TRUE]
  BY RowEntered, Zenon
<1> HIDE DEF c
<1>5. Led(c, KEY_UP) = [c EXCEPT !.row = (o - 1) % Rows]
  BY <1>1 DEF Led, KEY_UP, KEY_DOWN
<1>6. Led(c, KEY_DOWN) = [c EXCEPT !.row = (o + 1) % Rows]
  BY <1>1 DEF Led, KEY_UP, KEY_DOWN
<1>7. \A k \in {10, 13} : Led(c, k) = [c EXCEPT !.entered = TRUE]
  BY <1>1 DEF Led, KEY_UP, KEY_DOWN
<1> QED
  BY <1>3, <1>4, <1>5, <1>6, <1>7 DEF c

LEMMA MenuChoice ==
  IInv /\ OwedInv /\ ChoiceInv /\ (Arrow \/ Choose \/ OtherKey \/ PathKey \/ PathDone) => ChoiceInv'
<1> SUFFICES ASSUME IInv, OwedInv, ChoiceInv, Arrow \/ Choose \/ OtherKey \/ PathKey \/ PathDone
             PROVE  ChoiceInv'
  OBVIOUS
<1>1. KeysSame /\ kpc = "act" /\ UNCHANGED meant
  BY DEF Arrow, Choose, OtherKey, PathKey, PathDone, sessionVars
<1>2. UNCHANGED <<owed, save_ip, key_count, returnModifiers, cut>>
  BY <1>1 DEF KeysSame, settings, history
<1>3. RepeatsDue'
  BY <1>2, RepeatsDueStays DEF ChoiceInv
<1>4. Kept' = Kept /\ got \in Int /\ option \in 0..Rows - 1 /\ option \in Int
  BY <1>2, SessionAssumption DEF Kept, IInv, Types, KeyboardTypes, MenuTypes
<1>5. CASE Arrow
  <2>1. /\ phase = "menu" /\ phase' = "menu" /\ kpc' = "look" /\ drawn' = option'
        /\ got \in {KEY_UP, KEY_DOWN}
        /\ option' = IF got = KEY_UP THEN CRem(option - 1 + Rows, Rows)
                                     ELSE CRem(option + 1 + Rows, Rows)
    BY <1>5 DEF Arrow, Key, KEY_UP, KEY_DOWN
  <2>2. option' = IF got = KEY_UP THEN (option - 1) % Rows ELSE (option + 1) % Rows
    BY <1>4, <2>1, ArrowLeads
  <2>3. Led(Cur, got) = [row |-> option', entered |-> FALSE]
    <3>1. /\ Led(Cur, KEY_UP) = [row |-> (option - 1) % Rows, entered |-> FALSE]
          /\ Led(Cur, KEY_DOWN) = [row |-> (option + 1) % Rows, entered |-> FALSE]
      BY <1>4, LedBy DEF Cur
    <3>2. KEY_UP # KEY_DOWN
      BY DEF KEY_UP, KEY_DOWN
    <3>3. CASE got = KEY_UP
      BY <2>2, <3>1, <3>3
    <3>4. CASE got = KEY_DOWN
      BY <2>2, <3>1, <3>2, <3>4
    <3>5. QED
      BY <2>1, <3>3, <3>4
  <2>4. Now' = Now
    BY <1>1, <2>1, <2>3 DEF Now, Cur
  <2>5. QED
    BY <1>2, <1>3, <1>4, <1>1, <2>1, <2>4 DEF ChoiceInv
<1>6. CASE OtherKey
  <2>1. /\ UNCHANGED <<phase, option, drawn>> /\ kpc' = "look" /\ got \notin {KEY_UP, KEY_DOWN, 10, 13}
    BY <1>6 DEF OtherKey, Key, sessionVars
  <2>2. Led(Cur, got) = Cur
    BY <1>4, <2>1, LeadsNowhere
  <2>3. Now' = Now
    BY <1>1, <2>1, <2>2 DEF Now, Cur
  <2>4. QED
    BY <1>1, <1>2, <1>3, <1>4, <2>1, <2>3 DEF ChoiceInv
<1>7. CASE Choose
  <2>1. /\ phase = "menu" /\ phase' # "menu" /\ kpc' = "look" /\ UNCHANGED <<option, drawn>>
        /\ got \in {10, 13}
    <3>1. Key # KEY_ENTER
      BY <1>1, <1>7 DEF ChoiceInv, Key, KEY_ENTER, Choose
    <3>2. QED
      BY <1>7, <3>1 DEF Choose, Key
  <2>2. Led(Cur, got) = [row |-> option, entered |-> TRUE]
    BY <1>4, <2>1, LedBy DEF Cur
  <2>3. Now = [row |-> option, entered |-> TRUE] /\ Now.entered /\ Now.row = option
    BY <1>7, <2>2 DEF Now, Choose
  <2>4. ASSUME Kept PROVE meant = Now /\ Now \in Ends
    <3>1. owed \in Seq(Int) /\ Now \in Ends /\ meant = Leads(Now, owed)
      BY <2>1, <2>4, OwedType, CurIsEnd DEF ChoiceInv
    <3>2. QED
      BY <2>3, <3>1, LeadsEntered
  <2>5. QED
    BY <1>1, <1>2, <1>3, <1>4, <2>1, <2>3, <2>4 DEF ChoiceInv
<1>8. CASE PathKey \/ PathDone
  <2>1. /\ phase # "menu" /\ phase' # "menu" /\ UNCHANGED <<option, drawn>>
        /\ kpc' = "look" \/ (kpc' = "act" /\ got' = -1)
    BY <1>1, <1>8 DEF PathKey, PathDone, KeysSame
  <2>2. kpc' = "act" => got' # KEY_ENTER
    BY <2>1 DEF KEY_ENTER
  <2>3. QED
    BY <1>1, <1>2, <1>3, <1>4, <2>1, <2>2 DEF ChoiceInv
<1> QED
  BY <1>5, <1>6, <1>7, <1>8

LEMMA ResizeChoice ==
  IInv /\ OwedInv /\ ChoiceInv /\ (MenuResize \/ ResizeRefused \/ ResizeRest) => ChoiceInv'
<1> SUFFICES ASSUME IInv, OwedInv, ChoiceInv, MenuResize \/ ResizeRefused \/ ResizeRest
             PROVE  ChoiceInv'
  OBVIOUS
<1> DEFINE m == returnModifiers
<1>1. /\ m \in BOOLEAN /\ input \in Seq(Record) /\ save_ip \in Record /\ key_count \in Nat
      /\ UNCHANGED <<save_ip, key_count, returnModifiers, got>>
  BY ResizeLeaves DEF ResizeSame, settings, IInv, Types, ConsoleTypes, KeyboardTypes
<1>2. RepeatsDue'
  BY <1>1, RepeatsDueStays DEF ChoiceInv
<1>3. /\ UNCHANGED <<phase, option, meant>> /\ drawn' = option' /\ kpc' # "act"
      /\ \/ MenuResize
         \/ kpc # "act"
  BY DEF MenuResize, ResizeRefused, ResizeRest, GetRows, GetColumns, SetWindow, Flush, GetLines,
         GetCols, sessionVars, ChoiceInv
<1>4. Now' = Now
  <2>1. CASE MenuResize
    <3>1. got = KEY_RESIZE
      BY <2>1 DEF MenuResize, Key, KEY_RESIZE
    <3>2. Led(Cur, got) = Cur
      BY <3>1, LeadsNowhere DEF KEY_RESIZE, KEY_UP, KEY_DOWN
    <3>3. QED
      BY <1>3, <3>2 DEF Now, Cur
  <2>2. CASE kpc # "act"
    BY <1>3, <2>2 DEF Now, Cur
  <2>3. QED
    BY <1>3, <2>1, <2>2
<1>5. Kept' => Kept
  BY CutGrows DEF Next, Program
<1>6. Kept' => owed' = owed
  <2>1. CASE Flush
    <3> SUFFICES ASSUME Kept' PROVE owed' = owed
      OBVIOUS
    <3>1. \A i \in DOMAIN input : input[i].type \notin {"key", "mouse"}
      BY <2>1 DEF Flush, Kept
    <3>2. Len(input) \in Nat /\ DOMAIN input = 1..Len(input) /\ \A i \in 1..Len(input) : input[i] \in Record
      BY <1>1, LenProperties, ElementOfSeq
    <3>3. \A i \in 1..Len(input) : DueBy(m, input[i]) = <<>>
      BY <1>1, <3>1, <3>2, DueOf
    <3> DEFINE d == Dues(m, input)
    <3>4. d \in Seq({<<>>}) /\ Len(d) \in Nat
      <4>1. d \in [1..Len(input) -> {<<>>}]
        BY <3>2, <3>3 DEF Dues
      <4>2. d \in Seq({<<>>})
        BY <3>2, <4>1
      <4>3. QED
        BY <4>2, LenProperties
    <3> HIDE DEF d
    <3>5. FlattenSeq(d) = <<>>
      BY <3>4, FlattenEmpty
    <3>6. RepeatsBy(m, key_count, save_ip) \in Seq(Int)
      BY <1>1, RepeatsType DEF OwedInv, RepeatsFit, RepeatsBy
    <3>7. owed = RepeatsBy(m, key_count, save_ip) \o FlattenSeq(d)
      BY <1>5, OwedIs DEF OwedInv, Kept, OwedBy, d
    <3>8. owed = RepeatsBy(m, key_count, save_ip)
      BY <3>5, <3>6, <3>7, ConcatEmptySeq
    <3>9. owed' = RepeatsBy(m, key_count, save_ip)
      BY <2>1, RepeatsIs DEF Flush
    <3>10. QED
      BY <3>8, <3>9
  <2>2. CASE ~Flush
    BY <2>2 DEF MenuResize, ResizeRefused, ResizeRest, GetRows, GetColumns, SetWindow, GetLines,
                GetCols, history
  <2>3. QED
    BY <2>1, <2>2
<1> QED
  BY <1>2, <1>3, <1>4, <1>5, <1>6 DEF ChoiceInv

LEMMA StepChoice == IInv /\ OwedInv /\ ChoiceInv /\ [Next]_vars => ChoiceInv'
<1> SUFFICES ASSUME IInv, OwedInv, ChoiceInv, [Next]_vars PROVE ChoiceInv'
  OBVIOUS
<1>1. CASE User
  BY <1>1, UserChoice
<1>2. CASE Library
  BY <1>2, KeypadChoice DEF Library
<1>3. CASE Arrow \/ Choose \/ OtherKey \/ PathKey \/ PathDone
  BY <1>3, MenuChoice
<1>4. CASE MenuResize \/ ResizeRefused \/ ResizeRest
  BY <1>4, ResizeChoice
<1>5. CASE UNCHANGED vars
  <2>1. UNCHANGED <<owed, save_ip, key_count, returnModifiers, cut, phase, option, drawn, meant,
                    kpc, got>>
    BY <1>5 DEF vars, keyVars, settings, history, sessionVars
  <2>2. RepeatsDue' /\ Now' = Now /\ Kept' = Kept
    BY <2>1, RepeatsDueStays DEF ChoiceInv, Now, Cur, Kept
  <2>3. QED
    BY <2>1, <2>2 DEF ChoiceInv
<1> QED
  BY <1>1, <1>2, <1>3, <1>4, <1>5 DEF Next, Program

\* The row that is chosen is the one the keys typed lead to, and the one in colour,
\* unless records were discarded on the way: whatever was typed ahead, repeated,
\* or typed while resize_term ran.
THEOREM ChoiceIsTheUsers == Spec => []ChoiceAsTyped
<1>1. Init => OwedInv /\ ChoiceInv
  <2> SUFFICES ASSUME Init PROVE OwedInv /\ ChoiceInv
    OBVIOUS
  <2>1. OwedInv
    BY OwedBegins
  <2>2. /\ owed = <<>> /\ meant = [row |-> 0, entered |-> FALSE] /\ phase = "menu" /\ kpc = "look"
        /\ option = 0 /\ drawn = 0 /\ key_count = 0
    BY DEF Init, KeyInit
  <2>3. meant \in Ends /\ meant = Now
    BY <2>2 DEF Ends, Now, Cur
  <2>4. Leads(Now, owed) = meant
    BY <2>2, <2>3, LeadsNone
  <2>5. ChoiceInv
    <3>1. RepeatsDue
      BY <2>2 DEF RepeatsDue
    <3>2. QED
      BY <2>2, <2>3, <2>4, <3>1 DEF ChoiceInv
  <2>6. QED
    BY <2>1, <2>5
<1>2. IInv /\ OwedInv /\ ChoiceInv /\ [Next]_vars => OwedInv' /\ ChoiceInv'
  BY StepOwed, StepChoice
<1>3. ChoiceInv => ChoiceAsTyped
  BY DEF ChoiceInv, ChoiceAsTyped, Kept
<1> QED
  BY <1>1, <1>2, <1>3, Kernel, PTL DEF Spec

(***************************************************************************)
(* The tables the other way round: the key and the column of each code.    *)
(* Two chords with one code have the same of both.                         *)
(***************************************************************************)
KeyOf(c) ==
  IF c \in KEY_F(1)..KEY_F(48) THEN <<"key", 112 + ((c - KEY_F(1)) % 12)>>
  ELSE IF c \in ALT_digit(0)..ALT_digit(9) THEN <<"key", c - ALT_digit(0) + 48>>
  ELSE IF c \in ALT_letter(0)..ALT_letter(25) THEN <<"key", c - ALT_letter(0) + 65>>
  ELSE IF c \in CTL_PAD(0)..CTL_PAD(9) THEN <<"pad", c - CTL_PAD(0)>>
  ELSE IF c \in ALT_PAD(0)..ALT_PAD(9) THEN <<"pad", c - ALT_PAD(0)>>
  ELSE IF c \in KEY_pad(7)..KEY_pad(9) THEN <<"pad", c - KEY_pad(7) + 7>>
  ELSE IF c \in KEY_pad(4)..KEY_pad(6) THEN <<"pad", c - KEY_pad(4) + 4>>
  ELSE IF c \in KEY_pad(1)..KEY_pad(3) THEN <<"pad", c - KEY_pad(1) + 1>>
  ELSE IF c = KEY_pad(0) THEN <<"pad", 0>>
  ELSE IF c \in {\h1CE, \h1D2, \h1DC} THEN <<"pad", 10>>
  ELSE IF c = \h1F8 THEN <<"key", 8>>
  ELSE IF c \in {\h15F, \h1E2, \h1E3} THEN <<"key", 9>>
  ELSE IF c \in {\h211, \h1EE} THEN <<"key", 13>>
  ELSE IF c = \h1EF THEN <<"key", 27>>
  ELSE IF c \in {\h1CF, \h214, \h1D7, \h1DB} THEN <<"key", 106>>
  ELSE IF c \in {\h1D1, \h215, \h1D4, \h1D8} THEN <<"key", 107>>
  ELSE IF c \in {\h1D0, \h216, \h1D5, \h1D9} THEN <<"key", 109>>
  ELSE IF c \in {\h1CA, \h213, \h1D6, \h1DA} THEN <<"key", 111>>
  ELSE IF c = \h1F1 THEN <<"key", 219>>
  ELSE IF c = \h210 THEN <<"key", 220>>
  ELSE IF c = \h1F2 THEN <<"key", 221>>
  ELSE IF c = \h1F4 THEN <<"key", 222>>
  ELSE IF c \in {\h1CB, \h212, \h1CC, \h1CD} THEN <<"enhanced", 13>>
  ELSE IF c \in {\h153, \h18C, \h1BD, \h1E7} THEN <<"enhanced", 33>>
  ELSE IF c \in {\h152, \h18A, \h1BE, \h1E8} THEN <<"enhanced", 34>>
  ELSE IF c \in {\h166, \h180, \h1C0, \h1E9} THEN <<"enhanced", 35>>
  ELSE IF c \in {\h106, \h184, \h1BF, \h1E6} THEN <<"enhanced", 36>>
  ELSE IF c \in {\h104, \h187, \h1BB, \h1ED} THEN <<"enhanced", 37>>
  ELSE IF c \in {\h103, \h223, \h1E0, \h1EA} THEN <<"enhanced", 38>>
  ELSE IF c \in {\h105, \h190, \h1BC, \h1EC} THEN <<"enhanced", 39>>
  ELSE IF c \in {\h102, \h224, \h1E1, \h1EB} THEN <<"enhanced", 40>>
  ELSE IF c \in {\h14B, \h185, \h1DD, \h1DF} THEN <<"enhanced", 45>>
  ELSE <<"enhanced", 46>>

NormalCodes ==
  KEY_F(1)..KEY_F(12) \cup KEY_pad(7)..KEY_pad(3) \cup
  {\h1FA, \h1CE, \h1CF, \h1D1, \h1D0, \h1CA, \h1CB, \h153, \h152, \h166, \h106, \h104, \h103,
   \h105, \h102, \h14B, \h14A}
ShiftCodes ==
  KEY_F(13)..KEY_F(24) \cup
  {\h15F, \h214, \h215, \h216, \h213, \h212, \h18C, \h18A, \h180, \h184, \h187, \h223, \h190,
   \h224, \h185, \h17D}
ControlCodes ==
  KEY_F(25)..KEY_F(36) \cup CTL_PAD(0)..CTL_PAD(9) \cup
  {\h1D2, \h1E2, \h211, \h1D7, \h1D4, \h1D5, \h1D6, \h1CC, \h1BD, \h1BE, \h1C0, \h1BF, \h1BB,
   \h1E0, \h1BC, \h1E1, \h1DD, \h20F}
ColumnOf(c) ==
  IF c \in NormalCodes THEN "normal"
  ELSE IF c \in ShiftCodes THEN "shift"
  ELSE IF c \in ControlCodes THEN "control" ELSE "alt"

\* The codes in a row are those of the key, each in its column.
Names(key, r) ==
  \A m \in Columns : r[m] >= KEY_CODE_YES => KeyOf(r[m]) = key /\ ColumnOf(r[m]) = m

\* The rows of kptab and which of them have one in ext_kptab.
PlainKey(vk) ==
  IF vk \in 96..105 THEN <<"pad", vk - 96>>
  ELSE IF vk \in 33..40 THEN <<"pad", NavDigit[vk - 32]>>
  ELSE IF vk = 12 THEN <<"pad", 5>>
  ELSE IF vk = 45 THEN <<"pad", 0>>
  ELSE IF vk \in {46, 110} THEN <<"pad", 10>> ELSE <<"key", vk>>

ExtendedOf(vk) ==
  IF vk \in {9, 106, 107, 109} THEN 999
  ELSE IF vk = 13 THEN 1
  ELSE IF vk = 111 THEN 2
  ELSE IF vk \in 33..40 THEN vk - 30
  ELSE IF vk = 45 THEN 11
  ELSE IF vk = 46 THEN 12 ELSE 0

NamesOwn(vk, r) == Names(PlainKey(vk), r) /\ r.extended = ExtendedOf(vk)

LEMMA NamesEmpty == \A key : Names(key, Empty)
BY DEF Names, Row, Columns, Empty, KEY_CODE_YES

\* The columns of a row one by one.
LEMMA NamesRow ==
  ASSUME NEW key, NEW n, NEW s, NEW c, NEW a, NEW e,
         n >= KEY_CODE_YES => KeyOf(n) = key /\ ColumnOf(n) = "normal",
         s >= KEY_CODE_YES => KeyOf(s) = key /\ ColumnOf(s) = "shift",
         c >= KEY_CODE_YES => KeyOf(c) = key /\ ColumnOf(c) = "control",
         a >= KEY_CODE_YES => KeyOf(a) = key /\ ColumnOf(a) = "alt"
  PROVE  Names(key, Row(n, s, c, a, e))
BY DEF Names, Row, Columns

LEMMA NamesPadKey ==
  ASSUME NEW d \in 0..9, NEW n \in {KEY_pad(d)} \cup 0..255, NEW s \in 0..255, NEW e
  PROVE  Names(<<"pad", d>>, Row(n, s, CTL_PAD(d), ALT_PAD(d), e))
<1> USE DEF KEY_CODE_YES, KeyOf, ColumnOf, NormalCodes, ShiftCodes, ControlCodes,
            KEY_F, ALT_digit, ALT_letter, CTL_PAD, ALT_PAD, KEY_pad
<1>1. n >= KEY_CODE_YES => KeyOf(n) = <<"pad", d>> /\ ColumnOf(n) = "normal"
  BY SMTT(60)
<1>2. s < KEY_CODE_YES /\ s \in Nat /\ KEY_CODE_YES \in Nat
  BY SMTT(60)
<1>3. KeyOf(CTL_PAD(d)) = <<"pad", d>> /\ ColumnOf(CTL_PAD(d)) = "control"
  BY SMTT(60)
<1>4. KeyOf(ALT_PAD(d)) = <<"pad", d>> /\ ColumnOf(ALT_PAD(d)) = "alt"
  BY SMTT(60)
<1> HIDE DEF KEY_CODE_YES, KeyOf, ColumnOf, KEY_F, CTL_PAD, ALT_PAD, KEY_pad
<1>5. QED
  BY <1>1, <1>2, <1>3, <1>4, NamesRow

LEMMA NamesDigit ==
  ASSUME NEW d \in 0..9, NEW n \in 0..255, NEW s \in 0..255, NEW e
  PROVE  Names(<<"key", d + 48>>, Row(n, s, 0, ALT_digit(d), e))
BY SMTT(60) DEF Names, Row, Columns, KEY_CODE_YES, KeyOf, ColumnOf, NormalCodes, ShiftCodes, ControlCodes,
       KEY_F, ALT_digit, ALT_letter, CTL_PAD, ALT_PAD, KEY_pad

LEMMA NamesLetter ==
  ASSUME NEW i \in 0..25, NEW n \in 0..255, NEW s \in 0..255, NEW c \in 0..255, NEW e
  PROVE  Names(<<"key", i + 65>>, Row(n, s, c, ALT_letter(i), e))
BY SMTT(60) DEF Names, Row, Columns, KEY_CODE_YES, KeyOf, ColumnOf, NormalCodes, ShiftCodes, ControlCodes,
       KEY_F, ALT_digit, ALT_letter, CTL_PAD, ALT_PAD, KEY_pad

LEMMA NamesFunctionKey ==
  ASSUME NEW n \in 1..12, NEW e
  PROVE  Names(<<"key", n + 111>>, Row(KEY_F(n), KEY_F(n + 12), KEY_F(n + 24), KEY_F(n + 36), e))
<1> USE DEF KEY_CODE_YES, KeyOf, ColumnOf, NormalCodes, ShiftCodes, ControlCodes,
            KEY_F, ALT_digit, ALT_letter, CTL_PAD, ALT_PAD, KEY_pad
<1>1. KeyOf(KEY_F(n)) = <<"key", n + 111>> /\ ColumnOf(KEY_F(n)) = "normal"
  BY SMTT(60)
<1>2. KeyOf(KEY_F(n + 12)) = <<"key", n + 111>> /\ ColumnOf(KEY_F(n + 12)) = "shift"
  BY SMTT(60)
<1>3. KeyOf(KEY_F(n + 24)) = <<"key", n + 111>> /\ ColumnOf(KEY_F(n + 24)) = "control"
  BY SMTT(60)
<1>4. KeyOf(KEY_F(n + 36)) = <<"key", n + 111>> /\ ColumnOf(KEY_F(n + 36)) = "alt"
  BY SMTT(60)
<1> HIDE DEF KEY_CODE_YES, KeyOf, ColumnOf, KEY_F, CTL_PAD, ALT_PAD, KEY_pad
<1>5. QED
  BY <1>1, <1>2, <1>3, <1>4, NamesRow

LEMMA NamesEditKeys ==
  /\ Names(<<"key", 8>>, Row(\h08, \h08, \h7F, \h1F8, 0))
  /\ Names(<<"key", 9>>, Row(\h09, \h15F, \h1E2, \h1E3, 999))
  /\ Names(<<"key", 13>>, Row(\h0D, \h0D, \h211, \h1EE, 1))
  /\ Names(<<"key", 27>>, Row(\h1B, \h1B, \h1B, \h1EF, 0))
  /\ Names(<<"key", 32>>, Row(\h20, \h20, \h20, \h20, 0))
  /\ Names(<<"pad", 10>>, Row(\h1CE, \h2E, \h1D2, \h1DC, 12))
<1> USE DEF Names, Row, Columns, KEY_CODE_YES, KeyOf, ColumnOf, NormalCodes, ShiftCodes, ControlCodes,
            KEY_F, ALT_digit, ALT_letter, CTL_PAD, ALT_PAD, KEY_pad
<1>1. Names(<<"key", 8>>, Row(\h08, \h08, \h7F, \h1F8, 0))
  OBVIOUS
<1>2. Names(<<"key", 9>>, Row(\h09, \h15F, \h1E2, \h1E3, 999))
  OBVIOUS
<1>3. Names(<<"key", 13>>, Row(\h0D, \h0D, \h211, \h1EE, 1))
  OBVIOUS
<1>4. Names(<<"key", 27>>, Row(\h1B, \h1B, \h1B, \h1EF, 0))
  OBVIOUS
<1>5. Names(<<"key", 32>>, Row(\h20, \h20, \h20, \h20, 0))
  OBVIOUS
<1>6. Names(<<"pad", 10>>, Row(\h1CE, \h2E, \h1D2, \h1DC, 12))
  OBVIOUS
<1> HIDE DEF Names, Row
<1>7. QED
  BY <1>1, <1>2, <1>3, <1>4, <1>5, <1>6

LEMMA NamesSigns ==
  /\ Names(<<"key", 106>>, Row(\h1CF, \h214, \h1D7, \h1DB, 999))
  /\ Names(<<"key", 107>>, Row(\h1D1, \h215, \h1D4, \h1D8, 999))
  /\ Names(<<"key", 109>>, Row(\h1D0, \h216, \h1D5, \h1D9, 999))
  /\ Names(<<"pad", 10>>, Row(\h2E, 0, \h1D2, \h1DC, 0))
  /\ Names(<<"key", 111>>, Row(\h1CA, \h213, \h1D6, \h1DA, 2))
  /\ Names(<<"key", 219>>, Row(\h5B, \h7B, \h1B, \h1F1, 0))
  /\ Names(<<"key", 220>>, Row(\h5C, \h7C, \h1C, \h210, 0))
  /\ Names(<<"key", 221>>, Row(\h5D, \h7D, \h1D, \h1F2, 0))
  /\ Names(<<"key", 222>>, Row(0, 0, \h27, \h1F4, 0))
<1> USE DEF Names, Row, Columns, KEY_CODE_YES, KeyOf, ColumnOf, NormalCodes, ShiftCodes, ControlCodes,
            KEY_F, ALT_digit, ALT_letter, CTL_PAD, ALT_PAD, KEY_pad
<1>1. Names(<<"key", 106>>, Row(\h1CF, \h214, \h1D7, \h1DB, 999))
  OBVIOUS
<1>2. Names(<<"key", 107>>, Row(\h1D1, \h215, \h1D4, \h1D8, 999))
  OBVIOUS
<1>3. Names(<<"key", 109>>, Row(\h1D0, \h216, \h1D5, \h1D9, 999))
  OBVIOUS
<1>4. Names(<<"pad", 10>>, Row(\h2E, 0, \h1D2, \h1DC, 0))
  OBVIOUS
<1>5. Names(<<"key", 111>>, Row(\h1CA, \h213, \h1D6, \h1DA, 2))
  OBVIOUS
<1>6. Names(<<"key", 219>>, Row(\h5B, \h7B, \h1B, \h1F1, 0))
  OBVIOUS
<1>7. Names(<<"key", 220>>, Row(\h5C, \h7C, \h1C, \h210, 0))
  OBVIOUS
<1>8. Names(<<"key", 221>>, Row(\h5D, \h7D, \h1D, \h1F2, 0))
  OBVIOUS
<1>9. Names(<<"key", 222>>, Row(0, 0, \h27, \h1F4, 0))
  OBVIOUS
<1> HIDE DEF Names, Row
<1>10. QED
  BY <1>1, <1>2, <1>3, <1>4, <1>5, <1>6, <1>7, <1>8, <1>9

LEMMA NamesArrows ==
  /\ Names(<<"enhanced", 13>>, Row(\h1CB, \h212, \h1CC, \h1CD, 0))
  /\ Names(<<"key", 111>>, Row(\h1CA, \h213, \h1D6, \h1DA, 0))
  /\ Names(<<"enhanced", 33>>, Row(\h153, \h18C, \h1BD, \h1E7, 0))
  /\ Names(<<"enhanced", 34>>, Row(\h152, \h18A, \h1BE, \h1E8, 0))
  /\ Names(<<"enhanced", 35>>, Row(\h166, \h180, \h1C0, \h1E9, 0))
  /\ Names(<<"enhanced", 36>>, Row(\h106, \h184, \h1BF, \h1E6, 0))
  /\ Names(<<"enhanced", 37>>, Row(\h104, \h187, \h1BB, \h1ED, 0))
  /\ Names(<<"enhanced", 38>>, Row(\h103, \h223, \h1E0, \h1EA, 0))
  /\ Names(<<"enhanced", 39>>, Row(\h105, \h190, \h1BC, \h1EC, 0))
  /\ Names(<<"enhanced", 40>>, Row(\h102, \h224, \h1E1, \h1EB, 0))
  /\ Names(<<"enhanced", 45>>, Row(\h14B, \h185, \h1DD, \h1DF, 0))
  /\ Names(<<"enhanced", 46>>, Row(\h14A, \h17D, \h20F, \h1DE, 0))
<1> USE DEF Names, Row, Columns, KEY_CODE_YES, KeyOf, ColumnOf, NormalCodes, ShiftCodes, ControlCodes,
            KEY_F, ALT_digit, ALT_letter, CTL_PAD, ALT_PAD, KEY_pad
<1>1. Names(<<"enhanced", 13>>, Row(\h1CB, \h212, \h1CC, \h1CD, 0))
  OBVIOUS
<1>2. Names(<<"key", 111>>, Row(\h1CA, \h213, \h1D6, \h1DA, 0))
  OBVIOUS
<1>3. Names(<<"enhanced", 33>>, Row(\h153, \h18C, \h1BD, \h1E7, 0))
  OBVIOUS
<1>4. Names(<<"enhanced", 34>>, Row(\h152, \h18A, \h1BE, \h1E8, 0))
  OBVIOUS
<1>5. Names(<<"enhanced", 35>>, Row(\h166, \h180, \h1C0, \h1E9, 0))
  OBVIOUS
<1>6. Names(<<"enhanced", 36>>, Row(\h106, \h184, \h1BF, \h1E6, 0))
  OBVIOUS
<1>7. Names(<<"enhanced", 37>>, Row(\h104, \h187, \h1BB, \h1ED, 0))
  OBVIOUS
<1>8. Names(<<"enhanced", 38>>, Row(\h103, \h223, \h1E0, \h1EA, 0))
  OBVIOUS
<1>9. Names(<<"enhanced", 39>>, Row(\h105, \h190, \h1BC, \h1EC, 0))
  OBVIOUS
<1>10. Names(<<"enhanced", 40>>, Row(\h102, \h224, \h1E1, \h1EB, 0))
  OBVIOUS
<1>11. Names(<<"enhanced", 45>>, Row(\h14B, \h185, \h1DD, \h1DF, 0))
  OBVIOUS
<1>12. Names(<<"enhanced", 46>>, Row(\h14A, \h17D, \h20F, \h1DE, 0))
  OBVIOUS
<1> HIDE DEF Names, Row
<1>13. QED
  BY <1>1, <1>2, <1>3, <1>4, <1>5, <1>6, <1>7, <1>8, <1>9, <1>10, <1>11, <1>12

LEMMA ExtendedField == \A n, s, c, a, e : Row(n, s, c, a, e).extended = e
BY DEF Row

LEMMA NamesEdit == ASSUME NEW vk \in 0..47 PROVE NamesOwn(vk, EditRow(vk))
<1> USE DEF NamesOwn, PlainKey, ExtendedOf
<1>1. CASE vk \in 33..40
  <2> DEFINE d == NavDigit[vk - 32]
  <2>1. d \in 0..9
    BY <1>1 DEF NavDigit
  <2>2. EditRow(vk) = Row(KEY_pad(d), \h30 + d, CTL_PAD(d), ALT_PAD(d), vk - 30)
    BY <1>1 DEF EditRow
  <2>3. PlainKey(vk) = <<"pad", d>> /\ ExtendedOf(vk) = vk - 30
    BY <1>1
  <2> HIDE DEF d, PlainKey, ExtendedOf
  <2>4. \h30 + d \in 0..255 /\ KEY_pad(d) \in {KEY_pad(d)} \cup 0..255
    BY <2>1
  <2>5. Names(<<"pad", d>>, EditRow(vk))
    BY <2>1, <2>2, <2>4, NamesPadKey
  <2>6. QED
    BY <2>2, <2>3, <2>5, ExtendedField
<1>2. CASE vk = 8
  <2>1. EditRow(vk) = Row(\h08, \h08, \h7F, \h1F8, 0)
    BY <1>2 DEF EditRow
  <2>2. QED
    BY <1>2, <2>1, NamesEditKeys, ExtendedField
<1>3. CASE vk = 9
  <2>1. EditRow(vk) = Row(\h09, \h15F, \h1E2, \h1E3, 999)
    BY <1>3 DEF EditRow
  <2>2. QED
    BY <1>3, <2>1, NamesEditKeys, ExtendedField
<1>4. CASE vk = 13
  <2>1. EditRow(vk) = Row(\h0D, \h0D, \h211, \h1EE, 1)
    BY <1>4 DEF EditRow
  <2>2. QED
    BY <1>4, <2>1, NamesEditKeys, ExtendedField
<1>5. CASE vk = 27
  <2>1. EditRow(vk) = Row(\h1B, \h1B, \h1B, \h1EF, 0)
    BY <1>5 DEF EditRow
  <2>2. QED
    BY <1>5, <2>1, NamesEditKeys, ExtendedField
<1>6. CASE vk = 32
  <2>1. EditRow(vk) = Row(\h20, \h20, \h20, \h20, 0)
    BY <1>6 DEF EditRow
  <2>2. QED
    BY <1>6, <2>1, NamesEditKeys, ExtendedField
<1>7. CASE vk = 46
  <2>1. EditRow(vk) = Row(\h1CE, \h2E, \h1D2, \h1DC, 12)
    BY <1>7 DEF EditRow
  <2>2. QED
    BY <1>7, <2>1, NamesEditKeys, ExtendedField
<1>8. CASE vk = 12
  <2>1. EditRow(vk) = Row(KEY_pad(5), \h35, CTL_PAD(5), ALT_PAD(5), 0)
    BY <1>8 DEF EditRow
  <2>2. Names(<<"pad", 5>>, Row(KEY_pad(5), \h35, CTL_PAD(5), ALT_PAD(5), 0))
    <3>1. 5 \in 0..9 /\ KEY_pad(5) \in {KEY_pad(5)} \cup 0..255 /\ \h35 \in 0..255
      OBVIOUS
    <3>2. QED
      BY <3>1, NamesPadKey
  <2>3. QED
    BY <1>8, <2>1, <2>2, ExtendedField
<1>9. CASE vk = 45
  <2>1. EditRow(vk) = Row(KEY_pad(0), \h30, CTL_PAD(0), ALT_PAD(0), 11)
    BY <1>9 DEF EditRow
  <2>2. Names(<<"pad", 0>>, Row(KEY_pad(0), \h30, CTL_PAD(0), ALT_PAD(0), 11))
    <3>1. 0 \in 0..9 /\ KEY_pad(0) \in {KEY_pad(0)} \cup 0..255 /\ \h30 \in 0..255
      OBVIOUS
    <3>2. QED
      BY <3>1, NamesPadKey
  <2>3. QED
    BY <1>9, <2>1, <2>2, ExtendedField
<1>10. CASE vk \notin {8, 9, 12, 13, 27, 32, 45, 46} \cup 33..40
  BY <1>10, NamesEmpty, ExtendedField DEF EditRow, Empty
<1> QED
  BY <1>1, <1>2, <1>3, <1>4, <1>5, <1>6, <1>7, <1>8, <1>9, <1>10

LEMMA NamesLetters == ASSUME NEW vk \in 48..95 PROVE NamesOwn(vk, LetterRow(vk))
<1> USE DEF NamesOwn, PlainKey, ExtendedOf
<1>1. CASE vk \in 48..57
  <2> DEFINE s == ShiftedDigit[vk - 47]
  <2>1. s \in 0..255
    BY <1>1 DEF ShiftedDigit
  <2> DEFINE d == vk - 48
  <2>2. LetterRow(vk) = Row(vk, s, 0, ALT_digit(d), 0)
    BY <1>1 DEF LetterRow
  <2>3. PlainKey(vk) = <<"key", d + 48>> /\ d \in 0..9 /\ vk \in 0..255
    BY <1>1
  <2> HIDE DEF s, d, PlainKey, ExtendedOf
  <2>4. Names(<<"key", d + 48>>, Row(vk, s, 0, ALT_digit(d), 0))
    BY <2>1, <2>3, NamesDigit
  <2> USE DEF ExtendedOf
  <2>5. QED
    BY <1>1, <2>2, <2>3, <2>4, ExtendedField
<1>2. CASE vk \in 65..90
  <2> DEFINE i == vk - 65
  <2>1. LetterRow(vk) = Row(vk + 32, vk, vk - 64, ALT_letter(i), 0)
    BY <1>2 DEF LetterRow
  <2>2. /\ PlainKey(vk) = <<"key", i + 65>> /\ i \in 0..25
        /\ vk + 32 \in 0..255 /\ vk \in 0..255 /\ vk - 64 \in 0..255
    BY <1>2
  <2> HIDE DEF i, PlainKey, ExtendedOf
  <2>3. Names(<<"key", i + 65>>, Row(vk + 32, vk, vk - 64, ALT_letter(i), 0))
    BY <2>2, NamesLetter
  <2> USE DEF ExtendedOf
  <2>4. QED
    BY <1>2, <2>1, <2>2, <2>3, ExtendedField
<1>3. CASE vk \notin 48..57 \cup 65..90
  BY <1>3, NamesEmpty, ExtendedField DEF LetterRow, Empty
<1> QED
  BY <1>1, <1>2, <1>3

LEMMA NamesPad == ASSUME NEW vk \in 96..123 PROVE NamesOwn(vk, PadRow(vk))
<1> USE DEF NamesOwn, PlainKey, ExtendedOf
<1>1. CASE vk \in 96..105
  <2> DEFINE d == vk - 96
             n == vk - 48
  <2>1. PadRow(vk) = Row(n, 0, CTL_PAD(d), ALT_PAD(d), 0)
    BY <1>1 DEF PadRow
  <2>2. PlainKey(vk) = <<"pad", d>> /\ d \in 0..9 /\ n \in {KEY_pad(d)} \cup 0..255 /\ 0 \in 0..255
    BY <1>1
  <2> HIDE DEF d, n, PlainKey, ExtendedOf
  <2>3. Names(<<"pad", d>>, Row(n, 0, CTL_PAD(d), ALT_PAD(d), 0))
    BY <2>2, NamesPadKey
  <2> USE DEF ExtendedOf
  <2>4. QED
    BY <1>1, <2>1, <2>2, <2>3, ExtendedField
<1>2. CASE vk \in 112..123
  <2> DEFINE n == vk - 111
  <2>1. PadRow(vk) = Row(KEY_F(n), KEY_F(n + 12), KEY_F(n + 24), KEY_F(n + 36), 0)
    BY <1>2 DEF PadRow
  <2>2. PlainKey(vk) = <<"key", n + 111>> /\ n \in 1..12
    BY <1>2
  <2> HIDE DEF n, PlainKey
  <2>3. Names(<<"key", n + 111>>, PadRow(vk))
    BY <2>1, <2>2, NamesFunctionKey
  <2>4. QED
    BY <1>2, <2>1, <2>2, <2>3, ExtendedField
<1>3. CASE vk = 106
  <2>1. PadRow(vk) = Row(\h1CF, \h214, \h1D7, \h1DB, 999)
    BY <1>3 DEF PadRow
  <2>2. QED
    BY <1>3, <2>1, NamesSigns, ExtendedField
<1>4. CASE vk = 107
  <2>1. PadRow(vk) = Row(\h1D1, \h215, \h1D4, \h1D8, 999)
    BY <1>4 DEF PadRow
  <2>2. QED
    BY <1>4, <2>1, NamesSigns, ExtendedField
<1>5. CASE vk = 109
  <2>1. PadRow(vk) = Row(\h1D0, \h216, \h1D5, \h1D9, 999)
    BY <1>5 DEF PadRow
  <2>2. QED
    BY <1>5, <2>1, NamesSigns, ExtendedField
<1>6. CASE vk = 110
  <2>1. PadRow(vk) = Row(\h2E, 0, \h1D2, \h1DC, 0)
    BY <1>6 DEF PadRow
  <2>2. QED
    BY <1>6, <2>1, NamesSigns, ExtendedField
<1>7. CASE vk = 111
  <2>1. PadRow(vk) = Row(\h1CA, \h213, \h1D6, \h1DA, 2)
    BY <1>7 DEF PadRow
  <2>2. QED
    BY <1>7, <2>1, NamesSigns, ExtendedField
<1>8. CASE vk = 108
  BY <1>8, NamesEmpty, ExtendedField DEF PadRow, Empty
<1> QED
  BY <1>1, <1>2, <1>3, <1>4, <1>5, <1>6, <1>7, <1>8

LEMMA NamesOem == ASSUME NEW vk \in 124..255 PROVE NamesOwn(vk, OemRow(vk))
<1> USE DEF NamesOwn, PlainKey, ExtendedOf
<1>1. CASE vk = 219
  <2>1. OemRow(vk) = Row(\h5B, \h7B, \h1B, \h1F1, 0)
    BY <1>1 DEF OemRow
  <2>2. QED
    BY <1>1, <2>1, NamesSigns, ExtendedField
<1>2. CASE vk = 220
  <2>1. OemRow(vk) = Row(\h5C, \h7C, \h1C, \h210, 0)
    BY <1>2 DEF OemRow
  <2>2. QED
    BY <1>2, <2>1, NamesSigns, ExtendedField
<1>3. CASE vk = 221
  <2>1. OemRow(vk) = Row(\h5D, \h7D, \h1D, \h1F2, 0)
    BY <1>3 DEF OemRow
  <2>2. QED
    BY <1>3, <2>1, NamesSigns, ExtendedField
<1>4. CASE vk = 222
  <2>1. OemRow(vk) = Row(0, 0, \h27, \h1F4, 0)
    BY <1>4 DEF OemRow
  <2>2. QED
    BY <1>4, <2>1, NamesSigns, ExtendedField
<1>5. CASE vk \notin 219..222
  BY <1>5, NamesEmpty, ExtendedField DEF OemRow, Empty
<1> QED
  BY <1>1, <1>2, <1>3, <1>4, <1>5

LEMMA NamesTable == ASSUME NEW vk \in 0..255 PROVE NamesOwn(vk, kptab[vk])
<1>1. kptab[vk] = IF vk < 48 THEN EditRow(vk)
                  ELSE IF vk < 96 THEN LetterRow(vk)
                  ELSE IF vk < 124 THEN PadRow(vk) ELSE OemRow(vk)
  BY Zenon DEF kptab
<1>2. CASE vk \in 0..47
  BY <1>1, <1>2, NamesEdit
<1>3. CASE vk \in 48..95
  BY <1>1, <1>3, NamesLetters
<1>4. CASE vk \in 96..123
  BY <1>1, <1>4, NamesPad
<1>5. CASE vk \in 124..255
  BY <1>1, <1>5, NamesOem
<1> QED
  BY <1>2, <1>3, <1>4, <1>5

\* The rows of ext_kptab, each for the key that finds it.
LEMMA NamesExtended ==
  ASSUME NEW vk \in {13, 45, 46, 111} \cup 33..40
  PROVE  Names(IF vk = 111 THEN <<"key", 111>> ELSE <<"enhanced", vk>>,
               ext_kptab[ExtendedOf(vk)])
<1> USE DEF ExtendedOf
<1>1. CASE vk = 13
  <2>1. ext_kptab[1] = Row(\h1CB, \h212, \h1CC, \h1CD, 0)
    BY DEF ext_kptab
  <2>2. QED
    BY <1>1, <2>1, NamesArrows
<1>2. CASE vk = 111
  <2>1. ext_kptab[2] = Row(\h1CA, \h213, \h1D6, \h1DA, 0)
    BY DEF ext_kptab
  <2>2. QED
    BY <1>2, <2>1, NamesArrows
<1>3. CASE vk = 33
  <2>1. ext_kptab[3] = Row(\h153, \h18C, \h1BD, \h1E7, 0)
    BY DEF ext_kptab
  <2>2. QED
    BY <1>3, <2>1, NamesArrows
<1>4. CASE vk = 34
  <2>1. ext_kptab[4] = Row(\h152, \h18A, \h1BE, \h1E8, 0)
    BY DEF ext_kptab
  <2>2. QED
    BY <1>4, <2>1, NamesArrows
<1>5. CASE vk = 35
  <2>1. ext_kptab[5] = Row(\h166, \h180, \h1C0, \h1E9, 0)
    BY DEF ext_kptab
  <2>2. QED
    BY <1>5, <2>1, NamesArrows
<1>6. CASE vk = 36
  <2>1. ext_kptab[6] = Row(\h106, \h184, \h1BF, \h1E6, 0)
    BY DEF ext_kptab
  <2>2. QED
    BY <1>6, <2>1, NamesArrows
<1>7. CASE vk = 37
  <2>1. ext_kptab[7] = Row(\h104, \h187, \h1BB, \h1ED, 0)
    BY DEF ext_kptab
  <2>2. QED
    BY <1>7, <2>1, NamesArrows
<1>8. CASE vk = 38
  <2>1. ext_kptab[8] = Row(\h103, \h223, \h1E0, \h1EA, 0)
    BY DEF ext_kptab
  <2>2. QED
    BY <1>8, <2>1, NamesArrows
<1>9. CASE vk = 39
  <2>1. ext_kptab[9] = Row(\h105, \h190, \h1BC, \h1EC, 0)
    BY DEF ext_kptab
  <2>2. QED
    BY <1>9, <2>1, NamesArrows
<1>10. CASE vk = 40
  <2>1. ext_kptab[10] = Row(\h102, \h224, \h1E1, \h1EB, 0)
    BY DEF ext_kptab
  <2>2. QED
    BY <1>10, <2>1, NamesArrows
<1>11. CASE vk = 45
  <2>1. ext_kptab[11] = Row(\h14B, \h185, \h1DD, \h1DF, 0)
    BY DEF ext_kptab
  <2>2. QED
    BY <1>11, <2>1, NamesArrows
<1>12. CASE vk = 46
  <2>1. ext_kptab[12] = Row(\h14A, \h17D, \h20F, \h1DE, 0)
    BY DEF ext_kptab
  <2>2. QED
    BY <1>12, <2>1, NamesArrows
<1> QED
  BY <1>1, <1>2, <1>3, <1>4, <1>5, <1>6,
     <1>7, <1>8, <1>9, <1>10, <1>11, <1>12

LEMMA TranslateNames ==
  ASSUME NEW vk \in 0..255, NEW e \in BOOLEAN, NEW mods,
         Translate(vk, e, mods) >= KEY_CODE_YES
  PROVE  /\ KeyOf(Translate(vk, e, mods)) = Physical(<<vk, e>>)
         /\ ColumnOf(Translate(vk, e, mods)) = Column(mods)
<1> DEFINE ext == kptab[vk].extended
           key == Physical(<<vk, e>>)
<1>1. Column(mods) \in Columns
  BY DEF Column, Columns
<1>2. Names(PlainKey(vk), kptab[vk]) /\ ext = ExtendedOf(vk)
  BY NamesTable DEF NamesOwn
<1> HIDE DEF ext
<1>3. CASE e /\ ext # 999
  <2>1. Translate(vk, e, mods) = ext_kptab[ext][Column(mods)]
    BY <1>3 DEF Translate, ext
  <2>2. CASE vk \in {13, 45, 46, 111} \cup 33..40
    <3>1. key = IF vk = 111 THEN <<"key", 111>> ELSE <<"enhanced", vk>>
      BY <1>3, <2>2 DEF Physical, ext
    <3>2. Names(key, ext_kptab[ext])
      BY <1>2, <2>2, <3>1, NamesExtended
    <3>3. QED
      BY <1>1, <2>1, <3>2 DEF Names
  <2>3. CASE vk \notin {13, 45, 46, 111} \cup 33..40
    <3>1. ext = 0
      BY <1>2, <1>3, <2>3 DEF ExtendedOf
    <3>2. ext_kptab[ext] = Empty
      BY <3>1 DEF ext_kptab
    <3>3. Names(key, ext_kptab[ext])
      BY <3>2, NamesEmpty
    <3>4. QED
      BY <1>1, <2>1, <3>3 DEF Names
  <2> QED
    BY <2>2, <2>3
<1>4. CASE ~(e /\ ext # 999)
  <2>1. Translate(vk, e, mods) = kptab[vk][Column(mods)]
    BY <1>4 DEF Translate, ext
  <2>2. key = PlainKey(vk)
    BY <1>2, <1>4 DEF Physical, PlainKey, ExtendedOf, ext
  <2> QED
    BY <1>1, <1>2, <2>1, <2>2 DEF Names
<1> QED
  BY <1>3, <1>4

\* Every code belongs to one key in one column.
LEMMA CodesName ==
  ASSUME NEW c \in Codes
  PROVE  KeyOf(c[4]) = Physical(c) /\ ColumnOf(c[4]) = c[3]
<1>1. c[4] >= KEY_CODE_YES
      /\ \E vk \in 0..255, e \in BOOLEAN, m \in Columns : c = Given(vk, e, m)
  BY DEF Codes
<1>2. PICK vk \in 0..255, e \in BOOLEAN, m \in Columns : c = Given(vk, e, m)
  BY <1>1
<1>3. c[1] = vk /\ c[2] = e /\ c[3] = m /\ c[4] = Translate(vk, e, ModsOf(m))
  BY <1>2 DEF Given
<1>4. Column(ModsOf(m)) = m
  BY DEF Column, ModsOf, Columns
<1>5. Physical(c) = Physical(<<vk, e>>)
  BY <1>3 DEF Physical
<1>6. /\ KeyOf(Translate(vk, e, ModsOf(m))) = Physical(<<vk, e>>)
      /\ ColumnOf(Translate(vk, e, ModsOf(m))) = Column(ModsOf(m))
  <2>1. Translate(vk, e, ModsOf(m)) >= KEY_CODE_YES
    BY <1>1, <1>3
  <2>2. QED
    BY <2>1, TranslateNames
<1> QED
  BY <1>3, <1>4, <1>5, <1>6

(***************************************************************************)
(* The key is known by its code.                                           *)
(***************************************************************************)
CodeInv ==
  kpc = "act" /\ save_ip.type = "key" /\ save_ip.vk \notin Modifiers /\ got >= KEY_CODE_YES =>
    got = Translate(save_ip.vk, save_ip.enhanced, save_ip.mods)

\* A code the program gets of a record comes from the tables.
LEMMA CodeIsTranslated ==
  ASSUME NEW r \in KeyRecord, r.vk \notin Modifiers, NEW key \in Process(r), key >= KEY_CODE_YES
  PROVE  key = Translate(r.vk, r.enhanced, r.mods)
<1>1. Process(r) = {Ascii(r.char)} \/ Process(r) = {Translate(r.vk, r.enhanced, r.mods)}
  BY DEF Process, Modifiers
<1>2. ~(Ascii(r.char) >= KEY_CODE_YES)
  BY DEF Ascii, KEY_CODE_YES, KeyRecord
<1> QED
  BY <1>1, <1>2

LEMMA KeypadCode == IInv /\ CodeInv /\ Keypad => CodeInv'
<1> SUFFICES ASSUME IInv, CodeInv, Keypad PROVE CodeInv'
  OBVIOUS
<1>1. CASE CheckKey
  BY <1>1 DEF CheckKey, CodeInv
<1>2. CASE GetRepeat
  <2>1. UNCHANGED save_ip /\ key_count > 0 /\ \E key \in Process(save_ip) : got' = key
    BY <1>2 DEF GetRepeat, Gives, Returns
  <2>2. save_ip \in KeyRecord
    BY <2>1, RecordByType DEF IInv, Types, Waiting, KeyboardTypes
  <2>3. QED
    BY <2>1, <2>2, CodeIsTranslated DEF CodeInv
<1>3. CASE GetKey
  <2>1. PICK r \in KeyRecord : r = Head(input)
    <3>1. Head(input) \in Record /\ Head(input).type = "key"
      BY <1>3, FirstAndRest DEF GetKey, IInv, Types, ConsoleTypes
    <3>2. QED
      BY <3>1, RecordByType
  <2>2. save_ip' = r /\ (got' = -1 \/ \E key \in Process(r) : got' = key)
    BY <1>3, <2>1 DEF GetKey, Gives, Returns, Read
  <2>3. ~(-1 >= KEY_CODE_YES)
    BY DEF KEY_CODE_YES
  <2>4. QED
    BY <2>2, <2>3, CodeIsTranslated DEF CodeInv
<1>4. CASE GetFocus \/ GetSize \/ GetMouse
  <2>1. save_ip' = Head(input) /\ Head(input).type # "key"
    BY <1>4 DEF GetFocus, GetSize, GetMouse, Read
  <2>2. QED
    BY <2>1 DEF CodeInv
<1>5. CASE NapOver
  <2>1. UNCHANGED save_ip /\ save_ip.type = "mouse"
    BY <1>5 DEF NapOver, IInv, Waiting
  <2>2. QED
    BY <2>1 DEF CodeInv
<1> QED
  BY <1>1, <1>2, <1>3, <1>4, <1>5 DEF Keypad

LEMMA StepCode == IInv /\ CodeInv /\ [Next]_vars => CodeInv'
<1> SUFFICES ASSUME IInv, CodeInv, [Next]_vars PROVE CodeInv'
  OBVIOUS
<1>1. CASE User
  <2>1. UNCHANGED <<save_ip, got, kpc>>
    BY <1>1, UserStep DEF IInv, Types, UserSame
  <2>2. QED
    BY <2>1 DEF CodeInv
<1>2. CASE Library
  BY <1>2, KeypadCode DEF Library
<1>3. CASE Arrow \/ Choose \/ OtherKey \/ PathKey \/ PathDone
  <2>1. KeysSame
    BY <1>3 DEF Arrow, Choose, OtherKey, PathKey, PathDone
  <2>2. got' = -1
    BY <2>1 DEF KeysSame
  <2>3. QED
    BY <2>2 DEF CodeInv, KEY_CODE_YES
<1>4. CASE MenuResize \/ ResizeRefused \/ ResizeRest
  <2>1. kpc' # "act"
    BY <1>4 DEF MenuResize, ResizeRefused, ResizeRest, GetRows, GetColumns, SetWindow, Flush,
                GetLines, GetCols
  <2>2. QED
    BY <2>1 DEF CodeInv
<1>5. CASE UNCHANGED vars
  BY <1>5 DEF vars, keyVars, CodeInv
<1> QED
  BY <1>1, <1>2, <1>3, <1>4, <1>5 DEF Next, Program

\* A key code the program gets is that of the key and the modifier pressed and of no
\* other, whatever keys there are: kptab and ext_kptab give no code twice, but for
\* the two virtual keys of one key of the keypad.
THEOREM CodesNameKeys == Spec => []CodeNamesKey
<1>1. Init => CodeInv
  BY DEF Init, KeyInit, CodeInv
<1>2. IInv /\ CodeInv /\ [Next]_vars => CodeInv'
  BY StepCode
<1>3. IInv /\ CodeInv => CodeNamesKey
  <2> SUFFICES ASSUME IInv, CodeInv, kpc = "act", save_ip.type = "key", got >= KEY_CODE_YES,
                      save_ip.vk \notin Modifiers,
                      NEW c \in Codes, c[4] = got
               PROVE  SameKey(c, <<save_ip.vk, save_ip.enhanced>>) /\ c[3] = Column(save_ip.mods)
    BY Zenon DEF CodeNamesKey
  <2>1. got = Translate(save_ip.vk, save_ip.enhanced, save_ip.mods)
    BY DEF CodeInv
  <2>2. save_ip \in KeyRecord
    BY RecordByType DEF IInv, Types, KeyboardTypes
  <2>3. save_ip.vk \in 0..255 /\ save_ip.enhanced \in BOOLEAN
    BY <2>2 DEF KeyRecord
  <2>4. KeyOf(c[4]) = Physical(c) /\ ColumnOf(c[4]) = c[3]
    BY CodesName
  <2>5. /\ KeyOf(got) = Physical(<<save_ip.vk, save_ip.enhanced>>)
        /\ ColumnOf(got) = Column(save_ip.mods)
    <3>1. PICK vk \in 0..255, e \in BOOLEAN, mods \in SUBSET {"shift", "ctrl", "lalt", "ralt"} :
            vk = save_ip.vk /\ e = save_ip.enhanced /\ mods = save_ip.mods
      BY <2>2 DEF KeyRecord
    <3>2. Translate(vk, e, mods) = got /\ Translate(vk, e, mods) >= KEY_CODE_YES
      BY <2>1, <3>1
    <3>3. /\ KeyOf(Translate(vk, e, mods)) = Physical(<<vk, e>>)
          /\ ColumnOf(Translate(vk, e, mods)) = Column(mods)
      BY <3>2, TranslateNames
    <3>4. QED
      BY <3>1, <3>2, <3>3
  <2>6. QED
    BY <2>4, <2>5 DEF SameKey
<1> QED
  BY <1>1, <1>2, <1>3, Kernel, PTL DEF Spec
=============================================================================
