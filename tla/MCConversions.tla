----------------------------- MODULE MCConversions -----------------------------
(***************************************************************************)
(* Relative paths and paths on a drive, with both slashes, steps back,     *)
(* extensions, a reserved character and the percent sign; URIs with every  *)
(* terminator, an escape and a bad escape; comments with parameters and    *)
(* results of every form; lines with words of which some have too many     *)
(* completions.                                                            *)
(***************************************************************************)
EXTENDS Conversions, TLC

MCUpper == "c" :> "C"
MCCwd == <<"C", ":", "/", "c">>
MCReserved == {":", "#", "?"}
MCBytes == <<"3", "3">> :> "3" @@ <<"2", "3">> :> "#" @@ <<"3", "a">> :> ":"
           @@ <<"3", "f">> :> "?"
MCAlphas == {"a", "A", "b"}
MCDigits == {"3"}
MCBlanks == {" "}
MCLower == "A" :> "a"
MCResults ==
  << [priority |-> 1, typed_text |-> <<"a", "b">>, full_text |-> <<"a", "b", "(", "a", ")">>],
     [priority |-> 3, typed_text |-> <<"a", "a">>, full_text |-> <<"a", "a">>],
     [priority |-> 2, typed_text |-> <<>>, full_text |-> <<"b", "A", "a">>],
     [priority |-> 1, typed_text |-> <<"A", "b", "a">>, full_text |-> <<"A", "b", "a">>],
     [priority |-> 2, typed_text |-> <<"b">>, full_text |-> <<"b", "a">>],
     [priority |-> 1, typed_text |-> <<"b", "b", "a">>, full_text |-> <<"b", "b", "a">>] >>
Each(tokens) == {<<token>> : token \in tokens}
MCAlphabet ==
  [path |-> Each({"c", ":", "/", "\\", ".", "#"}),
   uri |-> Each({"x", ":", "/", "?", "#", "%", "3"}),
   comment |-> Each({" ", "\n", "*", "s", "a", ","})
                 \cup {<<"@", "param">>, <<"\\", "param">>, <<"@", "return">>,
                       <<"@", "retval">>, <<"[", "in", "]">>},
   line |-> Each({"a", "A", "b", " ", ".", "3"})]
MCBeginnings ==
  [path |-> {<<>>, <<"c", ":", "/">>, <<"C", ":", "\\", "c", "/">>, <<"%">>},
   uri |-> {<<>>, <<"x", ":", "/", "/">>, <<"x", ":", "/", "/", "/">>,
           <<"x", ":", "/", "/", "x", "x", "x", "x", "x", "x">>},
   comment |-> {<<"*", " ", "@", "param", " ", "a", " ">>,
                <<"*", " ", "@", "brief", " ", "a", "\n", "@", "details", " ">>,
                <<"*", " ", "@", "return", " ", "a", "\n">>},
   line |-> {<<>>}]
MCMaxTyped == [path |-> 5, uri |-> 5, comment |-> 4, line |-> 5]
MCSources == {<<"C", ":", "/", "c", "/", "c", "c", ".", "c">>, <<"C", ":", "/", "c", ".", "c">>,
              <<"C", ":", "/", "#", ".", "c">>}
===============================================================================
