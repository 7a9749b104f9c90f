--------------------------- MODULE MCUnitLifecycle ---------------------------
(* Values for UnitLifecycle: two sources and a header that both may        *)
(* include, with or without a compilation database for each.               *)
EXTENDS UnitLifecycle, TLC

CONSTANTS a, b, h

SmallFiles == {a, b, h}
Includes == a :> {{}, {h}} @@ b :> {{h}} @@ h :> {{}}
MainHeader == a :> h @@ b :> None @@ h :> None
OneDatabase == <<<<a, b>>>>
TwoDatabases == <<<<a>>, <<a, b>>>>
=============================================================================
