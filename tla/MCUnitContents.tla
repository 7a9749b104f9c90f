---------------------------- MODULE MCUnitContents ----------------------------
(***************************************************************************)
(* Two sources and the header of the first.  Both sources may define u.    *)
(* The first may come without its header and then includes the second,     *)
(* which scores too low for a main header; the second includes the header  *)
(* in angle brackets, or nothing.  Among the diagnostics are one that is   *)
(* ignored and has a fixit, two for one file (more than a list takes), one *)
(* without a file, and ones in the header, which both sources may have.    *)
(***************************************************************************)
EXTENDS UnitContents

CONSTANTS a, b, h

MCFiles == {a, b, h}
MCUSRs == {"u"}
MCFixits == {"1", "2", "3"}

Diag(file, ignored, fixits) == [file |-> file, ignored |-> ignored, fixits |-> fixits]

MCTranslations == [f \in MCFiles |->
  CASE f = a -> {
         [includes |-> <<[file |-> h, score |-> 2, angled |-> FALSE]>>,
          decls |-> <<"u">>,
          diags |-> <<Diag(a, TRUE, <<"1">>), Diag(h, FALSE, <<>>)>>],
         [includes |-> <<[file |-> b, score |-> 1, angled |-> FALSE]>>,
          decls |-> <<>>,
          diags |-> <<Diag(a, FALSE, <<"2">>), Diag(a, FALSE, <<>>)>>]}
    [] f = b -> {
         [includes |-> <<[file |-> h, score |-> 2, angled |-> TRUE]>>,
          decls |-> <<"u">>,
          diags |-> <<Diag(h, FALSE, <<"3">>)>>],
         [includes |-> <<>>, decls |-> <<>>, diags |-> <<Diag(None, FALSE, <<>>)>>]}
    [] f = h -> {[includes |-> <<>>, decls |-> <<>>, diags |-> <<>>]}]
===============================================================================
