---------------------------- MODULE MCLongValues ----------------------------
(***************************************************************************)
(* LongValues on small files: no page yet; a page the property column      *)
(* starts with; a free page of another table.                              *)
(***************************************************************************)
EXTENDS LongValues

NoPages == [pages |-> <<>>, taken |-> {}, owned |-> [c \in Columns |-> {}]]
Bootstrap ==
  [pages |-> <<[tag |-> "data", owner |-> "LVAL", free |-> PageBytes - DirectoryOffset, slots |-> <<>>]>>,
   taken |-> {1}, owned |-> [c \in Columns |-> IF c \in Property THEN {1} ELSE {}]]
OtherFree ==
  [pages |-> <<[tag |-> "released", owner |-> "T", free |-> 0, slots |-> <<Tombstone>>]>>,
   taken |-> {}, owned |-> [c \in Columns |-> {}]]
MCFiles == {NoPages, Bootstrap, OtherFree}

\* What a released page still holds is never looked at again, but for its tag.
Visible ==
  <<rows, given, global, owned, avail,
    [p \in DOMAIN pages |-> IF pages[p].tag = "released" THEN pages[p].owner ELSE pages[p]]>>
=============================================================================
