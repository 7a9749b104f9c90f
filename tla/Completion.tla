-------------------------------- MODULE Completion -----------------------------
(***************************************************************************)
(* The list of completions at the end of a line (unit.c, utils.c): what    *)
(* libclang offers there is narrowed down to what matches the last token   *)
(* before the cursor, if it is a word, and cut off at a limit.  A line has *)
(* letters, digits, blanks, and marks, each a token of its own; those of   *)
(* comments, strings and include statements are left out.                  *)
(***************************************************************************)
EXTENDS Naturals, Sequences, SequencesExt

CONSTANTS
  Alphas, Digits, Blanks,    \* the characters of a line: the letters, with "_", and so on
  Lower,                     \* [characters in upper case -> those in lower case]
  Results,                   \* clang_codeCompleteAt: [priority, typed_text, full_text]
  completion_priority_max,
  completion_results_max

\* A text is a sequence of whatever its characters are.
Text(t) == t \in Seq(Range(t))

ASSUME ResultsAssumption ==
  /\ completion_results_max \in Nat
  /\ (Alphas \cup Digits) \cap Blanks = {}
  /\ Results \in Seq(Range(Results))
  /\ \A result \in Range(Results) : Text(result.typed_text) /\ Text(result.full_text)

InLower(c) == IF c \in DOMAIN Lower THEN Lower[c] ELSE c
char_equal_case_insensitive(a, b) == InLower(a) = InLower(b)

\* The characters of the pattern occur in the text, in this order.
string_fuzzy_match(text, pattern) ==
  LET matched[i \in 0 .. Len(text)] ==
        IF i = 0 THEN 0
        ELSE LET count == matched[i - 1]
             IN  IF /\ count < Len(pattern)
                    /\ char_equal_case_insensitive(text[i], pattern[count + 1])
                 THEN count + 1 ELSE count
  IN  matched[Len(text)] = Len(pattern)

\* A result without typed text is matched by the whole of it.
Matches(result, word) ==
  string_fuzzy_match(IF result.typed_text # <<>> THEN result.typed_text ELSE result.full_text,
                     word)

\* What is at these places is the last token of a line, and an identifier or a keyword.
LastWord(line, begin, end) ==
  /\ begin <= end /\ line[begin] \in Alphas
  /\ \A i \in begin .. end : line[i] \in Alphas \cup Digits
  /\ begin > 1 => line[begin - 1] \notin Alphas \cup Digits
  /\ \A i \in end + 1 .. Len(line) : line[i] \in Blanks

\* The text of that token, an empty set if the last one is another.
start_string(line) ==
  LET last == {at \in (DOMAIN line) \X (DOMAIN line) : LastWord(line, at[1], at[2])}
  IN  {SubSeq(line, at[1], at[2]) : at \in last}
filter_pass(result, start) == \A word \in start : Matches(result, word)

\* The matches among the results with a priority that is good enough, in clang's
\* order, up to the limit; at the limit the list counts as incomplete.
SlipComplete(count) == count <= completion_results_max
Complete(count) == count < completion_results_max
unit_code_completion(line) ==
  LET passed[i \in 0 .. Len(Results)] ==
        IF i = 0 THEN <<>>
        ELSE LET list == passed[i - 1]
             IN  IF /\ Len(list) < completion_results_max
                    /\ Results[i].priority <= completion_priority_max
                    /\ filter_pass(Results[i], start_string(line))
                 THEN Append(list, Results[i]) ELSE list
      items == passed[Len(Results)]
  IN  [isIncomplete |-> ~Complete(Len(items)), items |-> items]
===============================================================================
