--------------------------- MODULE MCSymbolTable ---------------------------
(* Two variable names and two function names, one of them also the name of *)
(* a variable, three nested scopes under the global one.                   *)
EXTENDS SymbolTable, TLC

CONSTANTS x, y, f

MCNames     == {x, y}
MCFuncNames == {f, x}
=============================================================================
