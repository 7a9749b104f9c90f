----------------------------- MODULE UnitContents ------------------------------
(***************************************************************************)
(* What a unit knows of its source, and who may see it: the declarations   *)
(* it has in the common index, the files it includes, its main header, the *)
(* fixits of its diagnostics, and the lists of diagnostics the client      *)
(* shows.  All of it is replaced, piece by piece, whenever the main thread *)
(* or the reparse thread has translated the unit again (unit.c, indexer.c, *)
(* the handlers in command_handler.c and the loop in unit_storage.c).      *)
(*                                                                         *)
(* A translation is a record of what clang reports for it, in its order:   *)
(* includes, each with its score as a main header and whether it is in     *)
(* angle brackets; decls, the USRs of the definitions in the main file;    *)
(* diags, each with its file, whether it is ignored, and its fixits.  What *)
(* a translation yields is left open (Translations); that one may fail,    *)
(* that units are removed and that the threads of the index work next to   *)
(* these two is the subject of UnitLifecycle.                              *)
(***************************************************************************)
EXTENDS Naturals, Sequences, FiniteSets, SequencesExt

CONSTANTS
  Files,              \* the files, each of which may become a unit
  USRs,               \* the names clang gives to definitions, across files
  Fixits,             \* the fixits clang may suggest
  Translations,       \* [Files -> the translations clang may come to]
  None,
  Main, Reparser,     \* the threads
  DIAG_MAX_PER_FILE,
  MaxMessages         \* bound: notifications and requests of the client

Threads == {Main, Reparser}
\* A diagnostic without file is shown under a name of its own (NO_FILENAME_DIAG).
Shown == Files \cup {None}
Diagnostics == [file : Shown, ignored : BOOLEAN, fixits : Seq(Fixits)]

ASSUME NamesAssumption == Main # Reparser /\ None \notin Files \cup Threads \cup Fixits
ASSUME TranslationsAssumption ==
  \A u \in Files : \A translation \in Translations[u] :
    /\ translation # None
    /\ translation.includes \in Seq([file : Files, score : Nat, angled : BOOLEAN])
    /\ translation.decls \in Seq(USRs)
    /\ translation.diags \in Seq(Diagnostics)
ASSUME BoundsAssumption == DIAG_MAX_PER_FILE \in Nat /\ MaxMessages \in Nat

VARIABLES
  tu,             \* the translation of each unit, None while it is not active
  p_declarations, \* the USRs a unit has in the index, in the order they were added
  p_table,        \* m_decl_index: the units of the declarations of each USR
  inclusion,      \* p_included_files, p_main_header and main_header_score of a unit
  p_header_map,   \* m_decl_index: the header of a source
  p_fixits,       \* the fixits of each unit; None is an entry not filled
  diag_files,     \* the lists a unit gathers, of each file it ever had one for
  shown,          \* what the client shows for each file, and which unit sent it
  decl_mutex,     \* who holds it
  pc, on,         \* where a thread is, and with which unit
  todo,           \* where it goes after that
  left,           \* what clang has still to report to it
  cleared,        \* its cleared_includes
  fixit_index,
  unpublished,    \* the files whose lists it has still to publish
  mp_current_unit,
  change,         \* the file that changed, for the main thread to announce
  changes,        \* mp_change_queue
  changed,        \* the file the reparse thread has taken from it
  visit,          \* the units the reparse thread has still to look at
  messages,       \* messages left
  raced,          \* history: units two threads were in at once, until one enters alone
  torn,           \* history: of those, the ones with a fixit read unfilled or out of room
  undiagnosed     \* history: units first parsed for a request and not diagnosed since

index == <<p_declarations, p_table, inclusion, p_header_map>>
diagnostics == <<p_fixits, diag_files, shown, fixit_index, unpublished>>
queue == <<mp_current_unit, change, changes, changed, visit, messages>>
history == <<raced, torn, undiagnosed>>
vars == <<tu, index, diagnostics, decl_mutex, pc, on, todo, left, cleared, queue, history>>

\* PATH_PAIR_SCORE_SUBSTRING: a main header must score more than this.
SUBSTRING == 1

Init ==
  /\ tu = [u \in Files |-> None]
  /\ p_declarations = [u \in Files |-> <<>>]
  /\ p_table = <<>>
  /\ inclusion = [u \in Files |->
                    [p_included_files |-> {}, p_main_header |-> None, main_header_score |-> 0]]
  /\ p_header_map = [u \in Files |-> None]
  /\ p_fixits = [u \in Files |-> <<>>]
  /\ diag_files = [u \in Files |-> <<>>]
  /\ shown = [f \in Shown |-> [by |-> None, list |-> <<>>]]
  /\ decl_mutex = [u \in Files |-> None]
  /\ pc = [t \in Threads |-> "idle"]
  /\ on = [t \in Threads |-> None]
  /\ todo = [t \in Threads |-> <<>>]
  /\ left = [t \in Threads |-> <<>>]
  /\ cleared = [t \in Threads |-> FALSE]
  /\ fixit_index = [t \in Threads |-> 0]
  /\ unpublished = [t \in Threads |-> {}]
  /\ mp_current_unit = None
  /\ change = None
  /\ changes = <<>>
  /\ changed = None
  /\ visit = {}
  /\ messages = MaxMessages
  /\ raced = {}
  /\ torn = {}
  /\ undiagnosed = {}

Goto(t, place) == pc' = [pc EXCEPT ![t] = place]

Inside(u) == {t \in Threads : on[t] = u}

\* A thread enters a unit for some steps: nothing keeps the other one out.
Enter(t, u, places) ==
  /\ Goto(t, Head(places))
  /\ todo' = [todo EXCEPT ![t] = Tail(places)]
  /\ on' = [on EXCEPT ![t] = u]
  /\ raced' = IF Inside(u) = {} THEN raced \ {u} ELSE raced \cup {u}
  /\ torn' = IF Inside(u) = {} THEN torn \ {u} ELSE torn

\* On to the next of them, or out.
Advance(t) ==
  IF todo[t] = <<>>
    THEN Goto(t, "idle") /\ on' = [on EXCEPT ![t] = None] /\ UNCHANGED todo
    ELSE Goto(t, Head(todo[t])) /\ todo' = [todo EXCEPT ![t] = Tail(@)] /\ UNCHANGED on

-----------------------------------------------------------------------------
(* Translation and index                                                   *)

\* clang_parseTranslationUnit2 in unit_parse, clang_reparseTranslationUnit in
\* unit_reparse; both go on to index_translation_unit.
Translate(t) ==
  /\ pc[t] = "translate"
  /\ \E translation \in Translations[on[t]] : tu' = [tu EXCEPT ![on[t]] = translation]
  /\ Goto(t, "index")
  /\ UNCHANGED <<index, diagnostics, decl_mutex, on, todo, left, cleared, queue, history>>

index_translation_unit(t) ==
  /\ pc[t] = "index"
  /\ decl_mutex[on[t]] = None
  /\ decl_mutex' = [decl_mutex EXCEPT ![on[t]] = t]
  /\ cleared' = [cleared EXCEPT ![t] = FALSE]
  /\ Goto(t, "clear")
  /\ UNCHANGED <<tu, index, diagnostics, on, todo, left, queue, history>>

\* The set of a USR without the first declaration of a unit; a set that is empty
\* leaves the table.
SlipDeclRemove(usr, u) == [x \in DOMAIN p_table \ {usr} |-> p_table[x]]
index_decl_remove(usr, u) ==
  LET rest == IF usr \in DOMAIN p_table THEN RemoveFirst(p_table[usr], u) ELSE <<>>
  IN  IF rest = <<>>
        THEN [x \in DOMAIN p_table \ {usr} |-> p_table[x]]
        ELSE [p_table EXCEPT ![usr] = rest]

\* The set of a USR with one more declaration; the first one makes the set.
index_declaration_add(usr, u) ==
  [x \in DOMAIN p_table \cup {usr} |->
     IF x # usr THEN p_table[x]
     ELSE Append(IF usr \in DOMAIN p_table THEN p_table[usr] ELSE <<>>, u)]

\* One declaration after the other leaves the list of the unit ...
clear_index_decls(t) ==
  LET u == on[t]
  IN  /\ pc[t] = "clear"
      /\ IF p_declarations[u] = <<>>
           THEN /\ Goto(t, "includes")
                /\ left' = [left EXCEPT ![t] = tu[u].includes]
                /\ UNCHANGED p_declarations
           ELSE /\ Goto(t, "remove")
                /\ left' = [left EXCEPT ![t] = <<Last(p_declarations[u])>>]
                /\ p_declarations' = [p_declarations EXCEPT ![u] = Front(@)]
      /\ UNCHANGED <<tu, p_table, inclusion, p_header_map, diagnostics, decl_mutex, on, todo,
                     cleared, queue, history>>

\* ... and then the index, and is freed.
RemoveDeclaration(t) ==
  /\ pc[t] = "remove"
  /\ p_table' = index_decl_remove(Head(left[t]), on[t])
  /\ Goto(t, "clear")
  /\ UNCHANGED <<tu, p_declarations, inclusion, p_header_map, diagnostics, decl_mutex, on, todo,
                 left, cleared, queue, history>>

\* What is left of the includes of the translation before.
SlipClear(u) == [inclusion[u] EXCEPT !.p_included_files = {}]
SlipKeep(u) == inclusion[u]
clear_included_files(u) ==
  [p_included_files |-> {}, p_main_header |-> None, main_header_score |-> SUBSTRING]

\* The includes of a unit with one more: one in quotes that scores higher than the
\* main header takes its place.
Include(known, u, include) ==
  LET better == ~include.angled /\ include.score > known.main_header_score /\ include.file # u
  IN  [p_included_files |-> known.p_included_files \cup {include.file},
       p_main_header |-> IF better THEN include.file ELSE known.p_main_header,
       main_header_score |-> IF better THEN include.score ELSE known.main_header_score]

\* The includes of the translation before are forgotten at the first one of this.
index_included_file(t) ==
  LET u == on[t]
  IN  /\ pc[t] = "includes" /\ left[t] # <<>>
      /\ inclusion' = [inclusion EXCEPT ![u] =
           Include(IF cleared[t] THEN @ ELSE clear_included_files(u), u, Head(left[t]))]
      /\ cleared' = [cleared EXCEPT ![t] = TRUE]
      /\ left' = [left EXCEPT ![t] = Tail(@)]
      /\ UNCHANGED <<tu, p_declarations, p_table, p_header_map, diagnostics, decl_mutex, pc,
                     on, todo, queue, history>>

\* clang turns from the includes to the definitions.
Definitions(t) ==
  /\ pc[t] = "includes" /\ left[t] = <<>>
  /\ Goto(t, "decls")
  /\ left' = [left EXCEPT ![t] = tu[on[t]].decls]
  /\ UNCHANGED <<tu, index, diagnostics, decl_mutex, on, todo, cleared, queue, history>>

\* A definition goes to the index first, and then to the list of the unit.
index_declaration(t) ==
  /\ pc[t] = "decls" /\ left[t] # <<>>
  /\ p_table' = index_declaration_add(Head(left[t]), on[t])
  /\ Goto(t, "list")
  /\ UNCHANGED <<tu, p_declarations, inclusion, p_header_map, diagnostics, decl_mutex, on, todo,
                 left, cleared, queue, history>>

ListDeclaration(t) ==
  /\ pc[t] = "list"
  /\ p_declarations' = [p_declarations EXCEPT ![on[t]] = Append(@, Head(left[t]))]
  /\ left' = [left EXCEPT ![t] = Tail(@)]
  /\ Goto(t, "decls")
  /\ UNCHANGED <<tu, p_table, inclusion, p_header_map, diagnostics, decl_mutex, on, todo,
                 cleared, queue, history>>

\* The end of index_translation_unit: a unit without main header keeps its entry
\* in the header map.
index_header_set(t) ==
  LET u == on[t]
      header == inclusion[u].p_main_header
  IN  /\ pc[t] = "decls" /\ left[t] = <<>>
      /\ p_header_map' = [p_header_map EXCEPT ![u] = IF header # None THEN header ELSE @]
      /\ decl_mutex' = [decl_mutex EXCEPT ![u] = None]
      /\ Advance(t)
      /\ UNCHANGED <<tu, p_declarations, p_table, inclusion, diagnostics, left, cleared, queue,
                     history>>

-----------------------------------------------------------------------------
(* Diagnostics                                                             *)

\* The fixits of a list of diagnostics, ignored ones included.
FixitsOf(diags) == FlattenSeq([i \in DOMAIN diags |-> diags[i].fixits])

\* Room for the fixits of new diagnostics: without any the old ones stay.
SlipFixitsRoom(u, n) == IF n > 0 THEN p_fixits[u] \o [i \in 1..n |-> None] ELSE p_fixits[u]
FixitsRoom(u, n) == IF n > 0 THEN [i \in 1..n |-> None] ELSE p_fixits[u]

\* The start of unit_diagnostics_get.
unit_diagnostics_get(t) ==
  LET u == on[t]
  IN  /\ pc[t] = "diagnose"
      /\ p_fixits' = [p_fixits EXCEPT ![u] = FixitsRoom(u, Len(FixitsOf(tu[u].diags)))]
      /\ fixit_index' = [fixit_index EXCEPT ![t] = 0]
      /\ left' = [left EXCEPT ![t] = tu[u].diags]
      /\ Goto(t, "diags")
      /\ undiagnosed' = undiagnosed \ {u}
      /\ UNCHANGED <<tu, index, diag_files, shown, unpublished, decl_mutex, on, todo, cleared,
                     queue, raced, torn>>

\* The lists of a unit with one more diagnostic: its file gets a list when it has
\* none, and a list that is full takes no more.
Gather(lists, diag) ==
  IF diag.ignored THEN lists
  ELSE [f \in DOMAIN lists \cup {diag.file} |->
          LET list == IF f \in DOMAIN lists THEN lists[f] ELSE <<>>
          IN  IF f = diag.file /\ Len(list) < DIAG_MAX_PER_FILE THEN Append(list, diag)
              ELSE list]

\* The fixits of one diagnostic, ignored or not, go to the room from index on.
SlipFill(room, first, diag) ==
  IF diag.ignored THEN room
  ELSE [i \in DOMAIN room |-> IF i \in first + 1 .. first + Len(diag.fixits)
                                THEN diag.fixits[i - first] ELSE room[i]]
Fill(room, first, diag) ==
  [i \in DOMAIN room |-> IF i \in first + 1 .. first + Len(diag.fixits)
                           THEN diag.fixits[i - first] ELSE room[i]]

diagnostic_parse(t) ==
  LET u == on[t]
      diag == Head(left[t])
      next == fixit_index[t] + Len(diag.fixits)
  IN  /\ pc[t] = "diags" /\ left[t] # <<>>
      /\ diag_files' = [diag_files EXCEPT ![u] = Gather(@, diag)]
      /\ p_fixits' = [p_fixits EXCEPT ![u] = Fill(@, fixit_index[t], diag)]
      /\ torn' = IF diag.fixits # <<>> /\ next > Len(p_fixits[u]) THEN torn \cup {u} ELSE torn
      /\ fixit_index' = [fixit_index EXCEPT ![t] = next]
      /\ left' = [left EXCEPT ![t] = Tail(@)]
      /\ UNCHANGED <<tu, index, shown, unpublished, decl_mutex, pc, on, todo, cleared, queue,
                     raced, undiagnosed>>

\* The files of a unit whose lists are published, the empty ones included.
SlipUnpublished(u) == {f \in DOMAIN diag_files[u] : diag_files[u][f] # <<>>}
ToPublish(u) == DOMAIN diag_files[u]

Gathered(t) ==
  /\ pc[t] = "diags" /\ left[t] = <<>>
  /\ unpublished' = [unpublished EXCEPT ![t] = ToPublish(on[t])]
  /\ Goto(t, "publish")
  /\ UNCHANGED <<tu, index, p_fixits, diag_files, shown, fixit_index, decl_mutex, on, todo,
                 left, cleared, queue, history>>

\* diag_callback sends the list of one file, which is then emptied.
diag_callback(t) ==
  LET u == on[t]
  IN  /\ pc[t] = "publish"
      /\ \E f \in unpublished[t] :
           /\ shown' = [shown EXCEPT ![f] = [by |-> u, list |-> diag_files[u][f]]]
           /\ diag_files' = [diag_files EXCEPT ![u][f] = <<>>]
           /\ unpublished' = [unpublished EXCEPT ![t] = @ \ {f}]
      /\ UNCHANGED <<tu, index, p_fixits, fixit_index, decl_mutex, pc, on, todo, left, cleared,
                     queue, history>>

Published(t) ==
  /\ pc[t] = "publish" /\ unpublished[t] = {}
  /\ Advance(t)
  /\ UNCHANGED <<tu, index, diagnostics, decl_mutex, left, cleared, queue, history>>

-----------------------------------------------------------------------------
(* The main thread                                                         *)

\* The units a file may be handled by: its own, else one whose header it is, else a
\* new one of its own.
unit_storage_get(f) ==
  LET sources == {u \in Files : tu[u] # None /\ p_header_map[u] = f}
  IN  IF tu[f] # None \/ sources = {} THEN {f} ELSE sources

\* The handlers that begin with get_or_create_unit: a unit that is not active is
\* parsed first.
get_or_create_unit(f, places) ==
  /\ pc[Main] = "idle" /\ messages > 0
  /\ \E u \in unit_storage_get(f) :
       LET all == (IF tu[u] = None THEN <<"translate">> ELSE <<>>) \o places
       IN  /\ IF all = <<>> THEN UNCHANGED <<pc, on, todo, raced, torn>> ELSE Enter(Main, u, all)
           /\ mp_current_unit' = u
           /\ undiagnosed' = IF tu[u] = None /\ places = <<>> THEN undiagnosed \cup {u}
                             ELSE undiagnosed
  /\ messages' = messages - 1
  /\ UNCHANGED <<tu, index, diagnostics, decl_mutex, left, cleared, changes, changed, visit>>

did_open(f) == get_or_create_unit(f, <<"diagnose">>) /\ UNCHANGED change
did_change(f) ==
  get_or_create_unit(f, <<"translate", "diagnose", "notify">>) /\ change' = f

\* Completion, signature help, definition, hover and document symbols parse a unit
\* that is not active and ask for no diagnostics.
request(f) == get_or_create_unit(f, <<>>) /\ UNCHANGED change

unit_storage_notify_change ==
  /\ pc[Main] = "notify"
  /\ changes' = Append(changes, change)
  /\ Advance(Main)
  /\ UNCHANGED <<tu, index, diagnostics, decl_mutex, left, cleared, mp_current_unit, change,
                 changed, visit, messages, history>>

\* The scan of the fixits meets one that is not filled.
unit_fixits_resolve(u) == None \in ToSet(p_fixits[u])

\* The request reads the fixits of the current unit, whoever is in it.
code_action ==
  LET u == mp_current_unit
  IN  /\ pc[Main] = "idle" /\ messages > 0 /\ u # None
      /\ raced' = IF Inside(u) = {} THEN raced ELSE raced \cup {u}
      /\ torn' = IF unit_fixits_resolve(u) THEN torn \cup {u} ELSE torn
      /\ messages' = messages - 1
      /\ UNCHANGED <<tu, index, diagnostics, decl_mutex, pc, on, todo, left, cleared,
                     mp_current_unit, change, changes, changed, visit, undiagnosed>>

-----------------------------------------------------------------------------
(* The reparse thread                                                      *)

\* Every unit of the storage is looked at; one that is not active includes nothing.
queue_poll ==
  /\ pc[Reparser] = "idle" /\ visit = {} /\ changes # <<>>
  /\ changed' = Head(changes)
  /\ changes' = Tail(changes)
  /\ visit' = Files
  /\ UNCHANGED <<tu, index, diagnostics, decl_mutex, pc, on, todo, left, cleared,
                 mp_current_unit, change, messages, history>>

unit_includes_file(u) == changed \in inclusion[u].p_included_files

\* The units that include the file are translated and diagnosed again.
reparse_thread ==
  /\ pc[Reparser] = "idle"
  /\ \E u \in visit :
       /\ visit' = visit \ {u}
       /\ IF unit_includes_file(u) /\ u # changed
            THEN Enter(Reparser, u, <<"translate", "diagnose">>)
            ELSE UNCHANGED <<pc, on, todo, raced, torn>>
  /\ UNCHANGED <<tu, index, diagnostics, decl_mutex, left, cleared, mp_current_unit, change,
                 changes, changed, messages, undiagnosed>>

-----------------------------------------------------------------------------
(* Together                                                                *)

IndexNext(t) ==
  \/ Translate(t)
  \/ index_translation_unit(t)
  \/ clear_index_decls(t)
  \/ RemoveDeclaration(t)
  \/ index_included_file(t)
  \/ Definitions(t)
  \/ index_declaration(t)
  \/ ListDeclaration(t)
  \/ index_header_set(t)

DiagnosticsNext(t) ==
  \/ unit_diagnostics_get(t)
  \/ diagnostic_parse(t)
  \/ Gathered(t)
  \/ diag_callback(t)
  \/ Published(t)

Next ==
  \/ \E t \in Threads : IndexNext(t) \/ DiagnosticsNext(t)
  \/ \E f \in Files : did_open(f) \/ did_change(f) \/ request(f)
  \/ unit_storage_notify_change
  \/ code_action
  \/ queue_poll
  \/ reparse_thread

Spec == Init /\ [][Next]_vars

-----------------------------------------------------------------------------
(* Properties                                                              *)

\* A unit no thread is in, of which there is a translation.
AtRest(u) == tu[u] # None /\ Inside(u) = {}

Count(seq, x) == Cardinality({i \in DOMAIN seq : seq[i] = x})

\* A thread has a declaration of u in the index that is not in the list of u: it has
\* still to remove it from the one, or to add it to the other.
Halfway(t, u, usr) == on[t] = u /\ pc[t] \in {"remove", "list"} /\ Head(left[t]) = usr

\* The common index (indexer.c) holds exactly the declarations the units list as
\* theirs, whichever units share a USR and whichever thread was stopped halfway
\* through replacing them, and no set in it is empty.  Only one thread at a time is
\* between the list of a unit and the index.
IndexExact ==
  /\ \A usr \in DOMAIN p_table : p_table[usr] # <<>>
  /\ \A u \in Files, usr \in USRs :
       (IF usr \in DOMAIN p_table THEN Count(p_table[usr], u) ELSE 0) =
         Count(p_declarations[u], usr)
         + IF \E t \in Threads : Halfway(t, u, usr) THEN 1 ELSE 0

\* The main header of a unit points into the names of its included files, which are
\* freed when they are replaced (clear_included_files); and when a unit is at rest,
\* the header map names its main header, unless it has lost the one it had.
HeadersAgree ==
  \A u \in Files :
    LET header == inclusion[u].p_main_header
    IN  /\ header # None => header \in inclusion[u].p_included_files
        /\ Inside(u) = {} => header \in {None, p_header_map[u]}

\* A unit at rest knows the includes of its latest translation, which decide whether
\* a change reaches it (unit_includes_file).  They are those of an earlier one only
\* when the latest had none: index_included_file is what forgets them.
StaleIncludesForCause ==
  \A u \in Files : AtRest(u) =>
    \/ inclusion[u].p_included_files = {include.file : include \in ToSet(tu[u].includes)}
    \/ tu[u].includes = <<>>

\* A fixit that was not filled is read, or one is written past the room for them,
\* only when two threads are in the unit at once: every fixit counted for the room
\* is filled before the list is used (unit_diagnostics_get, unit_fixits_resolve).
FixitsWhole == torn \subseteq raced

\* The fixits of a unit at rest are those of its latest diagnostics, unless two
\* threads were in it, or the latest diagnostics have none: then the ones before
\* stay on offer.  A unit that a request was the first to parse has none on offer
\* until it is diagnosed.
StaleFixitsForCause ==
  \A u \in Files : AtRest(u) /\ u \notin raced =>
    \/ p_fixits[u] = FixitsOf(tu[u].diags)
    \/ FixitsOf(tu[u].diags) = <<>>
    \/ u \in undiagnosed /\ p_fixits[u] = <<>>

\* The diagnostics for a file that are not ignored, and as many as a list takes.
Matches(diags, f) ==
  FlattenSeq([i \in DOMAIN diags |->
                IF ~diags[i].ignored /\ diags[i].file = f THEN <<diags[i]>> ELSE <<>>])
Capped(list) ==
  SubSeq(list, 1, IF Len(list) < DIAG_MAX_PER_FILE THEN Len(list) ELSE DIAG_MAX_PER_FILE)
Listed(u, f) == Capped(Matches(tu[u].diags, f))

\* Of a unit at rest that one thread has translated at a time, the client shows the
\* latest diagnostics for every file, and no earlier ones of a file that has none
\* any more, unless another unit has published for that file, or a request was the
\* first to parse the unit: then it shows none until the unit is diagnosed.
StaleListForCause ==
  \A u \in Files : AtRest(u) /\ u \notin raced =>
    \A f \in Shown :
      \/ shown[f].list = Listed(u, f)
      \/ shown[f].by \notin {u, None}
      \/ u \in undiagnosed /\ shown[f].by = None
===============================================================================
