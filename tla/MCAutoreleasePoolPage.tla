------------------------- MODULE MCAutoreleasePoolPage -------------------------
(***************************************************************************)
(* AutoreleasePoolPage with model values for TLC.                          *)
(***************************************************************************)
EXTENDS AutoreleasePoolPage

CONSTANTS a, b, boundary

TwoObjects == {a, b}
=============================================================================
