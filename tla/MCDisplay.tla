----------------------------- MODULE MCDisplay ------------------------------
(***************************************************************************)
(* The styles ztransfer draws (plain text, and white on blue), and others  *)
(* of the library: all attributes together, a colour from 16 on, and a     *)
(* character of the line-drawing set.                                      *)
(***************************************************************************)
EXTENDS Display

White == [Plain EXCEPT !.ch = "x"]
FewStyles == {
  White,
  [White EXCEPT !.back = 1],
  [White EXCEPT !.ch = "low", !.back = 1],
  [White EXCEPT !.fore = 12, !.back = 1, !.bold = TRUE, !.reverse = TRUE, !.under = TRUE, !.blink = TRUE],
  [White EXCEPT !.fore = 25]}

OneMode == {{"processed", "line", "quick"}}
FewCases == {<<2, FALSE>>, <<1, TRUE>>}
=============================================================================
