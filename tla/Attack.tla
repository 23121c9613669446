------------------------------- MODULE Attack -------------------------------
(***************************************************************************)
(* How many lines a clear attacks with.  Models battle/attack.py with its  *)
(* default table.                                                          *)
(***************************************************************************)
EXTENDS Integers, Sequences

ComboBonus == << 0, 0, 1, 1, 2, 2, 3, 3, 4, 4, 5 >>

ComboLines(combo) ==
  IF combo < 0 THEN 0
  ELSE IF combo >= Len(ComboBonus) THEN ComboBonus[Len(ComboBonus)] ELSE ComboBonus[combo + 1]

BaseLines(clear) ==
  CASE clear.tSpin = "MINI" -> IF clear.lines = 1 THEN 1 ELSE 0
    [] clear.tSpin = "FULL" -> IF clear.lines = 4 THEN 0 ELSE 2 * clear.lines
    [] clear.tSpin = "NONE" -> << 0, 1, 2, 4 >>[clear.lines]

BackToBackLines(clear) == IF clear.backToBack /\ BaseLines(clear) > 0 THEN 1 ELSE 0

AttackLines(clear) ==
  BaseLines(clear) + BackToBackLines(clear) + ComboLines(clear.combo)
=============================================================================
