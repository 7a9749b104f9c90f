---------------------------------- MODULE Uris ---------------------------------
(***************************************************************************)
(* URIs, the names of files on the wire (uri.c).  An element that is not   *)
(* there (NULL) is an empty set, one that is a set of one string.          *)
(***************************************************************************)
EXTENDS Paths

CONSTANTS
  Reserved,     \* URI_RESERVED_CHARACTERS
  Bytes,        \* the character that each pair of hexadecimal digits stands for
  ELEMENT_MAX   \* the 1024 characters an element has to be shorter than

\* The digits of an escape.
Hexadecimal == {"0", "1", "2", "3", "4", "5", "6", "7", "8", "9", "a", "b", "c", "d", "e", "f",
                "A", "B", "C", "D", "E", "F"}

\* The question mark is reserved, no letter of the scheme is, and the scheme of files is
\* short enough.
ASSUME UrisAssumption ==
  /\ DOMAIN Bytes \subseteq Hexadecimal \X Hexadecimal
  /\ Reserved \subseteq Range(Bytes)
  /\ "?" \in Reserved /\ Reserved \cap {"f", "i", "l", "e"} = {}
  /\ ELEMENT_MAX \in Nat /\ 4 < ELEMENT_MAX

Hex(c) == CHOOSE digits \in DOMAIN Bytes : Bytes[digits] = c

\* The characters a text stands for, of which at most room are written; the text
\* itself is read on to its end.  A bad escape ends it.
decode_escape(text, room) ==
  LET decoded[left \in 0 .. room] ==   \* from each place on, with so much room left
        [i \in 1 .. Len(text) + 1 |->
           IF left = 0 \/ i > Len(text) THEN <<>>
           ELSE IF text[i] # "%" THEN <<text[i]>> \o decoded[left - 1][i + 1]
           ELSE IF SubSeq(text, i + 1, Min({i + 2, Len(text)})) \in DOMAIN Bytes
                  THEN <<Bytes[SubSeq(text, i + 1, i + 2)]>> \o decoded[left - 1][i + 3]
           ELSE <<>>]
  IN  decoded[room][1]

\* Where a terminator begins in a text, 0 when it does not occur (strstr).
Find(text, terminator) ==
  LET places == {i \in 1 .. Len(text) : IsPrefix(terminator, SubSeq(text, i, Len(text)))}
  IN  IF places = {} THEN 0 ELSE CHOOSE i \in places : \A j \in places : i <= j

Elements == <<"scheme", "authority", "path", "query", "fragment">>
\* URI_FRAGMENT_END is the empty string, which strstr finds at once.
Terminators == << <<":", "/", "/">>, <<"/">>, <<"?">>, <<"#">>, <<>> >>
NoUri == [e \in Range(Elements) |-> {}]

\* One element after the other, each up to its terminator; what has none takes the
\* rest, and the end of the text ends it.  An element that is too long fails the
\* assertion of strdup_until, which spins: what would come after it is of no account.
SlipTake(state, i) ==
  LET at == Find(state.raw, Terminators[i])
      length == IF at = 0 THEN Len(state.raw) ELSE at - 1
      rest == SubSeq(state.raw, length + Len(Terminators[i]), Len(state.raw))
  IN  IF state.done THEN state
      ELSE [raw |-> rest, done |-> at = 0 \/ rest = <<>>,
            fits |-> state.fits /\ length < ELEMENT_MAX,
            uri |-> [state.uri EXCEPT ![Elements[i]] = {decode_escape(state.raw, length)}]]
Take(state, i) ==
  LET at == IF Terminators[i] = <<>> THEN 1 ELSE Find(state.raw, Terminators[i])
      length == IF at = 0 THEN Len(state.raw) ELSE at - 1
      rest == SubSeq(state.raw, length + Len(Terminators[i]) + 1, Len(state.raw))
  IN  IF state.done THEN state
      ELSE [raw |-> rest, done |-> at = 0 \/ rest = <<>>,
            fits |-> state.fits /\ length < ELEMENT_MAX,
            uri |-> [state.uri EXCEPT ![Elements[i]] = {decode_escape(state.raw, length)}]]

uri_decode(raw) ==
  LET taken[i \in 0 .. 5] ==
        IF i = 0 THEN [raw |-> raw, done |-> FALSE, fits |-> TRUE, uri |-> NoUri]
        ELSE Take(taken[i - 1], i)
  IN  IF taken[5].fits THEN [outcome |-> "uri", uri |-> taken[5].uri]
      ELSE [outcome |-> "assert", uri |-> NoUri]

\* The reserved characters of a text are escaped, percent signs are not.
strcpy_encoded(text) ==
  FlattenSeq([i \in DOMAIN text |->
    IF text[i] \in Reserved THEN <<"%">> \o Hex(text[i]) ELSE <<text[i]>>])

\* The terminators of scheme and authority are always written, the others only
\* before an element that is there.
uri_encode(uri) ==
  FlattenSeq([i \in 1..5 |->
    FlattenSeq(SetToSeq({strcpy_encoded(text) : text \in uri[Elements[i]]}))
      \o (IF i <= 2 \/ (i < 5 /\ uri[Elements[i + 1]] # {}) THEN Terminators[i] ELSE <<>>)])

\* The URI of a file: its absolute path, the drive in lower case.
uri_file(filename) ==
  LET path == ReplaceAll(absolute_path(filename, cwd).path, "\\", "/")
      drive == Len(path) >= 2 /\ path[2] = ":" /\ path[1] \in Range(Upper)
      lower == CHOOSE c \in DOMAIN Upper : Upper[c] = path[1]
  IN  [NoUri EXCEPT !.scheme = {<<"f", "i", "l", "e">>},
                    !.path = {IF drive THEN [path EXCEPT ![1] = lower] ELSE path}]

uri_file_encode(filename) == uri_encode(uri_file(filename))
===============================================================================
