--------------------------- MODULE MCEditJournal ---------------------------
(* EditJournal with interchangeable cells and values. *)
EXTENDS EditJournal, TLC

CellAndValueSymmetry == Permutations(Cells) \union Permutations(Values \ {Blank})
=============================================================================
