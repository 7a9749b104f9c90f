--------------------------------- MODULE Paths --------------------------------
(***************************************************************************)
(* The names of files (path.c), the keys of the tables of units, headers   *)
(* and included files.  A path is a sequence of characters.                *)
(***************************************************************************)
EXTENDS Naturals, Sequences, FiniteSets, SequencesExt

CONSTANTS
  Upper,   \* the upper-case letter of each lower-case letter
  cwd      \* path_cwd

Slashes == {"/", "\\"}
is_path_slash(c) == c \in Slashes

is_windows_drive(path) ==
  /\ Len(path) >= 3
  /\ path[1] \in DOMAIN Upper \cup Range(Upper) /\ path[2] = ":" /\ is_path_slash(path[3])

\* A string cut at certain characters, which it loses.
Split(text, cuts) ==
  LET parts[i \in 0 .. Len(text)] ==
        IF i = 0 THEN << <<>> >>
        ELSE LET before == parts[i - 1]
             IN  IF text[i] \in cuts THEN Append(before, <<>>)
                 ELSE Append(Front(before), Append(Last(before), text[i]))
  IN  parts[Len(text)]

Joined(parts) ==
  LET path[slashes \in 0 .. Len(parts) - 1] ==
        IF slashes = 0 THEN parts[1] ELSE path[slashes - 1] \o <<"/">> \o parts[slashes + 1]
  IN  path[Len(parts) - 1]

\* What a conversion comes to: a path, NULL, or a failed assertion.
Path(path) == [outcome |-> "path", path |-> path]
Invalid == [outcome |-> "NULL", path |-> <<>>]
AssertFails == [outcome |-> "assert", path |-> <<>>]

\* One component on the stack of those before it, or the last of these off it: any
\* name that begins with two dots counts as a step back.
SlipStep(stack, name) ==
  [valid |-> stack.valid,
   names |-> Append(IF IsPrefix(<<".", ".">>, name) THEN Front(stack.names) ELSE stack.names,
                    name)]
StepsBack(name) == IsPrefix(<<".", ".">>, name)
Step(stack, name) ==
  IF ~stack.valid THEN stack
  ELSE IF StepsBack(name)
         THEN [valid |-> stack.names # <<>>,
               names |-> IF stack.names = <<>> THEN <<>> ELSE Front(stack.names)]
         ELSE [stack EXCEPT !.names = Append(@, name)]

\* The first component is never taken for a step back.
Steps(names) ==
  LET stack[slashes \in 0 .. Len(names) - 1] ==
        IF slashes = 0 THEN [valid |-> TRUE, names |-> <<names[1]>>]
        ELSE Step(stack[slashes - 1], names[slashes + 1])
  IN  stack[Len(names) - 1]

path_remove_redundant_steps(path) ==
  LET stack == Steps(Split(path, Slashes))
  IN  IF Len(path) <= 2 THEN Path(path)
      ELSE IF ~stack.valid THEN Invalid
      ELSE IF stack.names = <<>> THEN AssertFails
      ELSE Path(Joined(stack.names))

\* The drive of a path in upper case.
SlipUpperDrive(path) == path
WithUpperDrive(path) ==
  IF is_windows_drive(path) /\ path[1] \in DOMAIN Upper
    THEN [path EXCEPT ![1] = Upper[@]]
    ELSE path

normalize_path(path) ==
  path_remove_redundant_steps(ReplaceAll(WithUpperDrive(path), "\\", "/"))

is_absolute_path(path) == (path # <<>> /\ path[1] = "/") \/ is_windows_drive(path)

\* Relative paths are put behind a root, with one slash in between.
absolute_path(path, root) ==
  normalize_path(IF is_absolute_path(path) THEN path
                 ELSE root \o (IF is_path_slash(Last(root)) THEN <<>> ELSE <<"/">>) \o path)

\* The letters of drives are letters.  The working directory is absolute, and the name of no
\* directory on the way to it begins with two dots.
ASSUME PathsAssumption ==
  /\ (DOMAIN Upper \cup Range(Upper)) \cap {".", ":", "/", "\\", "%"} = {}
  /\ Range(Upper) \cap DOMAIN Upper = {}
  /\ cwd \in Seq(Range(cwd)) /\ is_absolute_path(cwd)
  /\ \A name \in ToSet(Split(cwd, Slashes)) : ~StepsBack(name)

path_equals(path1, path2) == absolute_path(path1, cwd).path = absolute_path(path2, cwd).path

\* What follows the last slash (a backslash is none here).
path_filename(path) == Last(Split(path, {"/"}))

\* That, up to its first dot.
path_filename_no_ext(path) == Head(Split(path_filename(path), {"."}))

\* The result of strcmp, 1 or -1 in the C library of Windows when the two differ,
\* is taken for the place of the difference.
path_closest_common_ancestor(path1, path2) ==
  LET path == absolute_path(path1, cwd).path
  IN  IF path_equals(path1, path2) THEN path ELSE SubSeq(path, 1, 1)

SAME_NAME == 16384
SUBSTRING == 512

\* strstr
Within(text, part) == \E i \in 0 .. Len(text) - Len(part) : SubSeq(text, i + 1, i + Len(part)) = part

\* How likely a header and a source belong together.
SlipPairScore(header, source) ==
  LET h == path_filename_no_ext(header)
      s == path_filename_no_ext(source)
  IN  (IF h = s THEN SAME_NAME ELSE IF Within(h, s) THEN SUBSTRING ELSE 0)
      + Len(path_closest_common_ancestor(header, source))
path_pair_score(header, source) ==
  LET h == path_filename_no_ext(header)
      s == path_filename_no_ext(source)
      name == IF Len(h) = Len(s) THEN IF h = s THEN SAME_NAME ELSE 0
              ELSE IF Within(h, s) \/ Within(s, h) THEN SUBSTRING ELSE 0
  IN  name + Len(path_closest_common_ancestor(header, source))

\* A header in quotes takes the place of the main header of a source, which has a score.
Takes(header, source, score) ==
  path_pair_score(header, source) > score /\ ~path_equals(header, source)

\* The score before the first one: a unit that is translated forgets its main header, one
\* that is only indexed, in the background, is as it was created.
TranslatedScore == SUBSTRING
IndexedScore == 0
===============================================================================
