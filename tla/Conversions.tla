------------------------------ MODULE Conversions ------------------------------
(***************************************************************************)
(* The conversions of path.c, uri.c and doxygen.c and the completion of    *)
(* unit.c against what they are for, on every text that can be typed from  *)
(* a few beginnings with a few characters.                                 *)
(***************************************************************************)
EXTENDS Uris, Doxygen, Completion

CONSTANTS
  Alphabet,    \* [kinds of text -> the characters and tokens typed]
  Beginnings,  \* [kinds of text -> the texts it begins with]
  MaxTyped,    \* bound: [kinds of text -> the number of characters typed]
  Sources      \* the sources, and the other headers, that a header is matched with

Kinds == {"path", "uri", "comment", "line"}

ASSUME KindsAssumption ==
  /\ DOMAIN Alphabet = Kinds /\ DOMAIN Beginnings = Kinds /\ MaxTyped \in [Kinds -> Nat]
  /\ \A k \in Kinds : \A part \in Alphabet[k] \cup Beginnings[k] : Text(part)
  /\ \A source \in Sources : Text(source)

VARIABLES kind, text, typed
vars == <<kind, text, typed>>

Init == kind \in Kinds /\ text \in Beginnings[kind] /\ typed = 0

Next ==
  /\ typed < MaxTyped[kind]
  /\ \E part \in Alphabet[kind] : text' = text \o part
  /\ typed' = typed + 1
  /\ UNCHANGED kind

Spec == Init /\ [][Next]_vars

-----------------------------------------------------------------------------
(* Paths                                                                   *)

Up == <<".", ".">>
Nothing == {<<>>, <<".">>}

\* Where a walk along the names ends.
Walk(names) ==
  LET walked[i \in 0 .. Len(names)] ==
        IF i = 0 THEN <<>>
        ELSE LET at == walked[i - 1]
             IN  IF names[i] \in Nothing THEN at
                 ELSE IF names[i] = Up THEN IF at = <<>> THEN <<>> ELSE Front(at)
                 ELSE Append(at, names[i])
  IN  walked[Len(names)]

\* The reasons why the steps back in a path are not what they say: a name that only
\* begins with two dots, a step back behind a name that leads nowhere, and one that
\* leaves the first component.
Odd(names) ==
  \/ \E i \in DOMAIN names : IsPrefix(Up, names[i]) /\ names[i] # Up
  \/ \E i \in DOMAIN names : names[i] = <<".">> /\ Up \in ToSet(SubSeq(names, i, Len(names)))
  \/ \E i \in 2 .. Len(names) : names[i] = <<>> /\ Up \in ToSet(SubSeq(names, i, Len(names)))
  \/ \E n \in DOMAIN names :
       Cardinality({i \in 1..n : names[i] = Up}) >= Cardinality({i \in 1..n : names[i] # Up})

\* A normalized path names the same file as the path it came from, and is its own
\* normal form, which makes it a key of the tables of units and includes
\* (unit_create, unit_storage_get, index_included_file).  Paths that are odd in one
\* of these ways are not: they lead elsewhere, to NULL or to an assertion.
NormalPathSame ==
  LET names == Split(text, Slashes)
      normal == normalize_path(text)
  IN  kind = "path" /\ Len(text) > 2 /\ ~Odd(names) =>
        /\ normal.outcome = "path"
        /\ normalize_path(normal.path) = normal
        /\ Walk(Split(normal.path, Slashes)) =
             Walk(Split(ReplaceAll(WithUpperDrive(text), "\\", "/"), Slashes))

\* The URI the server sends for a file (diagnostics, definitions) comes back from the
\* client as the path of the same unit, whatever the case of its drive, unless the
\* name holds a percent sign, which is read as an escape, or is nothing but a drive.
\* A path that is too long for an element once it is encoded, and only such a one,
\* spins in the assertion of strdup_until.
OwnUriComesBack ==
  LET own == absolute_path(text, cwd)
      back == uri_decode(uri_file_encode(text))
      fits == \A path \in uri_file(text).path : Len(strcpy_encoded(path)) < ELEMENT_MAX
  IN  kind = "path" /\ ~Odd(Split(text, Slashes)) /\ "%" \notin ToSet(own.path)
      /\ Len(own.path) > 2 =>
        /\ back.outcome = IF fits THEN "uri" ELSE "assert"
        /\ fits => /\ back.uri.scheme = {<<"f", "i", "l", "e">>}
                   /\ back.uri.authority = {<<>>}
                   /\ {normalize_path(path) : path \in back.uri.path} = {own}

\* How much the name of a header, without its extension, has of that of a source.
Rank(header, source) ==
  LET h == path_filename_no_ext(header)
      s == path_filename_no_ext(source)
  IN  IF h = s THEN 2 ELSE IF Within(h, s) \/ Within(s, h) THEN 1 ELSE 0

\* Of the headers in quotes, one takes the place of another as main header of a source
\* exactly when its name has more of that of the source, wherever the three are: the tie
\* breaker never lifts a name to the next rank, nor decides between two of one rank
\* (index_included_file).  A unit that is translated has no main header with a name that
\* has nothing to do with its own; in one that only the background indexes the first
\* header in quotes is one, whatever its name.
MainHeaderByName ==
  \A source \in Sources :
    LET header == absolute_path(text, cwd)
    IN  kind = "path" /\ header.outcome = "path" /\ ~path_equals(header.path, source) =>
          /\ Takes(header.path, source, TranslatedScore) = (Rank(header.path, source) > 0)
          /\ Takes(header.path, source, IndexedScore)
          /\ \A other \in {absolute_path(path, cwd) : path \in Sources \ {source}} :
               other.outcome = "path" /\ ~path_equals(other.path, source) =>
                 Takes(header.path, source, path_pair_score(other.path, source)) =
                   (Rank(header.path, source) > Rank(other.path, source))

-----------------------------------------------------------------------------
(* URIs                                                                    *)

\* Where the elements begin in a text, 0 for one that is not there.
Begin(raw) ==
  LET begin[i \in 1..5] ==
        IF i = 1 THEN 1
        ELSE LET from == begin[i - 1]
                 at == IF from = 0 THEN 0
                       ELSE Find(SubSeq(raw, from, Len(raw)), Terminators[i - 1])
                 next == from + at - 1 + Len(Terminators[i - 1])
             IN  IF at = 0 \/ next > Len(raw) THEN 0 ELSE next
  IN  begin

\* Scheme, authority, path and query are the texts between their terminators, with
\* the escapes of each decoded.  An element that has escapes and is not the last one
\* may take in what follows it: uri_decode counts what it writes, not what it reads.
\* One of them that is too long, escapes and all, fails the assertion of strdup_until,
\* and nothing else does.
ElementsDecoded ==
  LET begin == Begin(text)
      From(i) == SubSeq(text, begin[i], Len(text))
      End(i) == Find(From(i), Terminators[i])
      Piece(i) == IF End(i) = 0 THEN From(i) ELSE SubSeq(From(i), 1, End(i) - 1)
      fits == \A i \in 1..4 : begin[i] # 0 => Len(Piece(i)) < ELEMENT_MAX
  IN  kind = "uri" =>
        /\ uri_decode(text).outcome = IF fits THEN "uri" ELSE "assert"
        /\ fits =>
             \A i \in 1..4 :
               \/ uri_decode(text).uri[Elements[i]] =
                    IF begin[i] = 0 THEN {} ELSE {decode_escape(Piece(i), Len(Piece(i)))}
               \/ begin[i] # 0 /\ End(i) # 0 /\ "%" \in ToSet(Piece(i))

-----------------------------------------------------------------------------
(* Documentation comments                                                  *)

\* A comment cut at its keywords, each of them the longest one at its place, and what
\* it has before the first of them.
KeysAt(comment, i) ==
  {key \in DOMAIN Keywords : comment[i] \in Range(Styles) /\ starts_with(comment, i + 1, Keywords[key])}
Blocks(comment) ==
  LET cuts == SetToSortSeq({i \in DOMAIN comment : KeysAt(comment, i) # {}}, <)
      KeyAt(i) == CHOOSE key \in KeysAt(comment, i) :
                    \A other \in KeysAt(comment, i) : Len(Keywords[other]) <= Len(Keywords[key])
  IN  [n \in DOMAIN cuts |->
         LET end == IF n = Len(cuts) THEN Len(comment) ELSE cuts[n + 1] - 1
         IN  [key |-> KeyAt(cuts[n]),
              body |-> SubSeq(comment, cuts[n] + 1 + Len(Keywords[KeyAt(cuts[n])]), end)]]
Preamble(comment) == SubSeq(comment, 1, First(comment, 1, LAMBDA i : KeysAt(comment, i) # {}) - 1)

Rest(body, at) == SubSeq(body, at, Len(body))
Paragraph(body) == SubSeq(body, 1, First(body, 1, LAMBDA i : starts_with(body, i, <<"\n", "\n">>)) - 1)

Directions == {<<"[", "in", "]">>, <<"[", "out", "]">>}
Undirected(body) ==
  IF \E direction \in Directions : IsPrefix(direction, body) THEN Rest(body, 4) ELSE body
NameEnd(body) == First(body, 1, LAMBDA i : ~Word(body[i]))
Described(body) == trim_whitespace(Rest(body, NameEnd(body)))

\* The parameters that are parsed of a comment against its blocks.
ParametersKept(parsed, Of(_)) ==
  LET all == Of({"param"})
      bodies == [n \in DOMAIN all |-> trim_whitespace(Undirected(trim_whitespace(all[n].body)))]
      nameless == First(bodies, 1, LAMBDA n : bodies[n] = <<>>)
      commas == First(bodies, 1, LAMBDA n :
                  Described(bodies[n]) # <<>> /\ Described(bodies[n])[1] = ",")
  IN  IF commas < nameless THEN parsed.hangs
      ELSE /\ ~parsed.hangs
           /\ Len(parsed.p_args) = nameless - 1
           /\ \A n \in 1 .. nameless - 1 :
                LET name == SubSeq(bodies[n], 1, NameEnd(bodies[n]) - 1)
                    first == First(bodies, 1, LAMBDA m :
                               SubSeq(bodies[m], 1, NameEnd(bodies[m]) - 1) = name)
                IN  /\ parsed.p_args[n].p_name = name
                    /\ documentation(parsed, name) = {Described(bodies[first])}

\* The results: "returns" is read as "return" with an s.  The value of a "retval" ends
\* with a blank only, so that one without it takes in the keyword behind it.
ResultsKept(parsed, comment, Of(_)) ==
  LET results == Of({"result", "return", "returns", "retval"})
      Body(n) == LET body == IF results[n].key = "returns" THEN <<"s">> \o results[n].body
                             ELSE results[n].body
                 IN  Rest(body, skip_whitespace(body, 1))
      ValueEnd(n) == IF results[n].key = "retval" THEN next_whitespace(Body(n), 1) ELSE 1
      Value(n) == SubSeq(Body(n), 1, ValueEnd(n) - 1)
      Description(n) == Rest(Body(n), skip_whitespace(Body(n), ValueEnd(n)))
      takes_in == First(results, 1, LAMBDA n :
                    /\ results[n].key = "retval" /\ ValueEnd(n) > Len(Body(n))
                    /\ n < Len(results) \/ Last(Blocks(comment)).key # "retval")
  IN  /\ takes_in > Len(results) => Len(parsed.p_returns) = Len(results)
      /\ Len(parsed.p_returns) >= takes_in - 1
      /\ \A n \in 1 .. takes_in - 1 :
           /\ parsed.p_returns[n].p_value = Value(n)
           /\ trim_whitespace(parsed.p_returns[n].description) =
                trim_whitespace(Paragraph(Description(n)))

\* Brief is the first paragraph of its block, or of what comes before all blocks, and
\* details are the rest of it, unless they have a block of their own.
SummaryKept(parsed, comment, Of(_)) ==
  LET lead == IF Of({"brief"}) = <<>> THEN Preamble(comment)
              ELSE LET body == Of({"brief"})[1].body IN Rest(body, skip_whitespace(body, 1))
      details == IF Of({"details"}) = <<>> THEN Rest(lead, Len(Paragraph(lead)) + 1)
                 ELSE Of({"details"})[1].body
  IN  /\ trim_whitespace(parsed.brief) = trim_whitespace(Paragraph(lead))
      /\ trim_whitespace(parsed.details) = trim_whitespace(details)

Kept(parsed, comment) ==
  LET Of(keys) == SelectSeq(Blocks(comment), LAMBDA block : block.key \in keys)
  IN  /\ ParametersKept(parsed, Of)
      /\ ~parsed.hangs => ResultsKept(parsed, comment, Of) /\ SummaryKept(parsed, comment, Of)

\* Every parameter a comment documents, and every result, gets its name or value and
\* its text, a parameter up to the next keyword and a result up to the end of the
\* paragraph, in the order of the comment, and the signature help finds a parameter by
\* its name; brief and details have all that is theirs and nothing of what belongs to
\* others (doxygen_function_parse).  That is, if the keywords are all of one style.  A
\* parameter without a name hides those behind it, "returns" is read as "return" with
\* an s, a value with no blank behind it takes in the next keyword, whose result is
\* lost, and several names with commas between them, a form the parser is meant to
\* read, are never read to the end.
BlocksKept ==
  kind = "comment" /\ ~(Range(Styles) \subseteq ToSet(text)) =>
    Kept(doxygen_function_parse(text), format(text))

-----------------------------------------------------------------------------
(* Completion                                                              *)

\* What of a list matches a word.
Narrowed(list, word) ==
  LET narrowed[i \in 0 .. Len(list)] ==
        IF i = 0 THEN <<>>
        ELSE IF Matches(list[i], word) THEN Append(narrowed[i - 1], list[i])
        ELSE narrowed[i - 1]
  IN  narrowed[Len(list)]

\* A list that is not marked as incomplete is all the client needs while a word is
\* typed on: narrowed down to the longer word it is the list the server would send
\* (unit_code_completion, handle_request_text_document_completion).  Where a blank is
\* behind another word, the list is one of the completions of that word, and what is
\* typed behind the blank may need more.
CompleteListEnough ==
  kind = "line" =>
    \A n \in 0 .. Len(text) - 1 : \A word \in start_string(text) :
      LET line == SubSeq(text, 1, n)
          before == unit_code_completion(line)
      IN  /\ \A i \in n + 1 .. Len(text) : text[i] \in Alphas \cup Digits
          /\ start_string(line) # {} => text[n] \notin Blanks
          /\ ~before.isIncomplete
          => unit_code_completion(text).items = Narrowed(before.items, word)
===============================================================================
