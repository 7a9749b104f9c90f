--------------------------------- MODULE Doxygen -------------------------------
(***************************************************************************)
(* The parser of documentation comments (doxygen.c) and what the signature *)
(* help takes from it (unit.c).  A text is a sequence of tokens: blanks,   *)
(* line ends, marks, and the parts of words at which a keyword may end, so *)
(* that @returns is <<"@", "return", "s">>.                                *)
(***************************************************************************)
EXTENDS Naturals, Sequences, FiniteSetsExt, SequencesExt

is_whitespace(c) == c \in {" ", "\n"}
Margins == {"*", "/", "!", "<"}
Word(c) == c \notin {" ", "\n", ",", "@", "\\", "[", "]"} \cup Margins

(* mp_keywords: each begins with an at sign or a backslash. *)
Keywords ==
  [param |-> <<"param">>, retval |-> <<"retval">>, return |-> <<"return">>,
   returns |-> <<"return", "s">>, result |-> <<"result">>, brief |-> <<"brief">>,
   details |-> <<"details">>]
Styles == <<"@", "\\">>
SlipKeywords ==
  {<<style>> \o Keywords[key] : style \in Range(Styles), key \in {"param", "retval", "return"}}
mp_keywords == {<<style>> \o Keywords[key] : style \in Range(Styles), key \in DOMAIN Keywords}

starts_with(text, at, part) ==
  at + Len(part) - 1 <= Len(text) /\ SubSeq(text, at, at + Len(part) - 1) = part

\* The first place from one on where a test holds, else the end of the text.
First(text, from, Test(_)) ==
  LET first[i \in from .. Len(text) + 1] ==
        IF i > Len(text) THEN i ELSE IF Test(i) THEN i ELSE first[i + 1]
  IN  first[from]

skip_whitespace(text, at) == First(text, at, LAMBDA i : ~is_whitespace(text[i]))
next_whitespace(text, at) == First(text, at, LAMBDA i : is_whitespace(text[i]))
next_word(text, at) == skip_whitespace(text, First(text, at, LAMBDA i : ~Word(text[i])))
next_block(text, at) ==
  LET end == First(text, at, LAMBDA i : starts_with(text, i, <<"\n", "\n">>))
  IN  IF end > Len(text) THEN end ELSE end + 2

\* Where the block ends that is at a place: at the next keyword.
block_end(text, at) ==
  First(text, at, LAMBDA i :
          text[i] \in {"@", "\\"} /\ \E key \in mp_keywords : starts_with(text, i, key))

trim_whitespace(text) ==
  LET marks == {i \in DOMAIN text : ~is_whitespace(text[i])}
  IN  IF marks = {} THEN <<>> ELSE SubSeq(text, Min(marks), Max(marks))

\* What follows the first occurrence of a keyword from a place on, 0 if there is
\* none: one with a backslash counts only when none has an at sign.
get_block(key, text, from) ==
  LET At(style) == First(text, from, LAMBDA i : starts_with(text, i, <<style>> \o Keywords[key]))
      found == SelectSeq(Styles, LAMBDA style : At(style) <= Len(text))
  IN  IF found = <<>> THEN 0
      ELSE skip_whitespace(text, At(Head(found)) + 1 + Len(Keywords[key]))

\* A comment without the margins of its lines: blanks, then stars and slashes, then
\* one blank.
format(comment) ==
  FoldLeft(LAMBDA state, c :
      IF c = "\n" THEN [out |-> Append(state.out, c), newline |-> TRUE, margin |-> FALSE]
      ELSE IF c = " " THEN
        [out |-> IF state.newline THEN state.out ELSE Append(state.out, c),
         newline |-> state.newline /\ ~state.margin, margin |-> FALSE]
      ELSE IF c \in Margins /\ state.newline THEN [state EXCEPT !.margin = TRUE]
      ELSE IF c \in Margins THEN [state EXCEPT !.out = Append(@, c)]
      ELSE [out |-> Append(state.out, c), newline |-> FALSE, margin |-> FALSE],
    [out |-> <<>>, newline |-> TRUE, margin |-> TRUE], comment).out

-----------------------------------------------------------------------------
(* Parameters                                                              *)

\* The outcomes of the parser: it reads a parameter, finds none, or looks for the end
\* of a name for ever, from the same place, when a comma follows a word.  The texts
\* close every bracket at the start: of one left open the code makes a place near NULL.
ReadArg(text, dir, at, name_end) ==
  IF at > Len(text) \/ text[at] \in Range(Styles) THEN [outcome |-> "none"]
  ELSE IF name_end <= Len(text) /\ text[name_end] = "," THEN [outcome |-> "hangs"]
  ELSE [outcome |-> "arg",
        dir |-> dir,
        p_name |-> trim_whitespace(SubSeq(text, at, name_end - 1)),
        description |-> trim_whitespace(SubSeq(text, name_end, block_end(text, name_end) - 1)),
        end |-> block_end(text, name_end)]

doxygen_arg_parse(text, start) ==
  LET open == start <= Len(text) /\ text[start] = "["
      close == First(text, start, LAMBDA i : text[i] = "]")
      at == skip_whitespace(text, IF open THEN close + 1 ELSE start)
  IN  ReadArg(text,
              IF open THEN {"in", "out"} \cap ToSet(SubSeq(text, start, close)) ELSE {},
              at, next_word(text, at))

\* All parameters from a place on.  One without a name ends the list.
p_args(text) ==
  LET args[at \in 0 .. Len(text) + 1] ==
        LET arg == doxygen_arg_parse(text, at)
        IN  IF at = 0 \/ arg.outcome = "none" THEN [hangs |-> FALSE, list |-> <<>>]
            ELSE IF arg.outcome = "hangs" THEN [hangs |-> TRUE, list |-> <<>>]
            ELSE LET rest == args[get_block("param", text, arg.end)]
                 IN  [rest EXCEPT !.list = <<arg>> \o @]
  IN  args[get_block("param", text, 1)]

-----------------------------------------------------------------------------
(* Results                                                                 *)

\* The first block of the results from a place on; of two keywords the one whose
\* text begins first.
get_first_block(text, from) ==
  LET keys == {key \in {"result", "return", "returns", "retval"} : get_block(key, text, from) # 0}
      at == Min({get_block(key, text, from) : key \in keys})
  IN  IF keys = {} THEN [at |-> 0]
      ELSE [at |-> at, is_retval |-> get_block("retval", text, from) = at]

\* A description ends with its paragraph, too, but the search goes on behind the
\* keyword.
doxygen_return_parse(text, block) ==
  LET value_end == next_whitespace(text, block.at)
      at == IF block.is_retval THEN skip_whitespace(text, value_end) ELSE block.at
  IN  [p_value |-> IF block.is_retval THEN SubSeq(text, block.at, value_end - 1) ELSE <<>>,
       description |-> SubSeq(text, at, Min({block_end(text, at), next_block(text, at)}) - 1),
       at |-> at]

p_returns(text) ==
  LET returns[at \in 1 .. Len(text) + 1] ==
        LET block == get_first_block(text, at)
            result == doxygen_return_parse(text, block)
        IN  IF block.at = 0 THEN <<>> ELSE <<result>> \o returns[result.at]
  IN  returns[1]

-----------------------------------------------------------------------------
(* The whole                                                               *)

\* What the parser makes of a comment without margins whose brief begins at a place.
Parsed(text, brief) ==
  LET brief_end == Min({block_end(text, brief), next_block(text, brief)})
      details == IF get_block("details", text, 1) = 0 THEN brief_end
                 ELSE get_block("details", text, 1)
      args == p_args(text)
  IN  [hangs |-> args.hangs,
       brief |-> SubSeq(text, brief, brief_end - 1),
       details |-> SubSeq(text, details, block_end(text, details) - 1),
       p_args |-> args.list,
       p_returns |-> IF args.hangs THEN <<>> ELSE p_returns(text)]

ParsedText(text) ==
  LET block == get_block("brief", text, 1)
  IN  Parsed(text, IF block = 0 THEN 1 ELSE block)
doxygen_function_parse(comment) == ParsedText(format(comment))

\* The documentation of a parameter in the signature help is that of the first one
\* of its name, an empty set if there is none (unit_function_signature_get).
documentation(p_function, name) ==
  LET named == SelectSeq(p_function.p_args, LAMBDA arg : arg.p_name = name)
  IN  IF named = <<>> THEN {} ELSE {Head(named).description}
===============================================================================
