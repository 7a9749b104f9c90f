---------------------------- MODULE MCUnsavedFiles ----------------------------
(* A source and the header it includes, which is its main header.          *)
EXTENDS UnsavedFiles

CONSTANTS a, h

OneSource == {a, h}
OneHeader == [f \in OneSource |-> IF f = h THEN {} ELSE {h}]
MainHeader == [f \in OneSource |-> IF f = a THEN h ELSE None]
=============================================================================
