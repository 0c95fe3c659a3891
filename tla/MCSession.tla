----------------------------- MODULE MCSession ------------------------------
(***************************************************************************)
(* Keys of a keyboard: a letter, Enter, an arrow, Shift going down and up, *)
(* a dead key and the character that Alt and the digits 2 5 5 make.        *)
(***************************************************************************)
EXTENDS Session

Chord(down, vk, char, mods, enhanced, dead) ==
  [down |-> down, vk |-> vk, char |-> char, mods |-> mods, enhanced |-> enhanced,
   dead |-> dead]

FewKeys == {
  Chord(TRUE, 65, 97, {}, FALSE, FALSE), Chord(TRUE, 13, 13, {}, FALSE, FALSE),
  Chord(TRUE, 38, 0, {}, TRUE, FALSE), Chord(TRUE, 222, 0, {}, FALSE, TRUE),
  Chord(TRUE, 16, 0, {"shift"}, FALSE, FALSE), Chord(FALSE, 16, 0, {}, FALSE, FALSE),
  Chord(FALSE, 18, 255, {}, FALSE, FALSE)}

ThreeSizes == {<<1, 3>>, <<2, 3>>, <<2, 2>>}
Three == <<3, 3>>
LeftAndRight == {1, 2}
OneOrTwo == {1, 2}
FirstOrSecond == {0, 2}
Letters == {k \in FewKeys : k.vk = 65}
TwoSettings == {<<FALSE, TRUE>>, <<TRUE, FALSE>>}
=============================================================================
