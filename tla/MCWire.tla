------------------------------- MODULE MCWire -------------------------------
(* Wire for TLC: length fields of three values, so that a text may have a    *)
(* length the field holds or one it cuts off.                                *)
EXTENDS Wire

ShortCells == {NullCell, IntCell(5), StringCell(2)}

\* A text whose length the field cuts off.
OneLong == {StringCell(4)}
=============================================================================
