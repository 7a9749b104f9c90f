# A TLA+ model of the clang language server

This directory models and checks the C language server in `src/backend`: a
process started by the VS Code extension (`src/src/extension.ts`) that reads
JSON-RPC messages on stdin, keeps one libclang translation unit per source
file, indexes the whole project in the background, and publishes diagnostics
on stdout.

## 1. The system

### Threads

| thread | started by | runs |
| --- | --- | --- |
| main | `server.c` | `json_rpc_listen`: reads a message, runs its handler, and at end of input shuts the server down |
| reparse | `unit_storage_init` | `reparse_thread`: takes changed files from a queue and reparses the units that include them |
| index monitor | `unit_storage_compilation_database_load`, one per database | starts four index threads, joins them, saves the index |
| index (4 per database) | the monitor | `index_thread`: polls a unit, suspends the message handlers, indexes the unit, resumes |

### Components, their state and their operations

| component | source | state | operations |
| --- | --- | --- | --- |
| resource lock | `utils.c`, `json_rpc.c` | `mut`, `owner_mut`, `users` | lock, unlock, borrow, release |
| JSON-RPC | `json_rpc.c` | handler lists, response waiters, `m_request_id`, `m_responses_sent`, `m_running` | listen, dispatch, response, request, notification |
| protocol layer | `protocol/message_handling.c`, `decoders.c`, `encoders.c`, `uri.c` | `m_error` of the decoders | decode parameters, call the handler or refuse, encode results, URI coding |
| command handler | `command_handler.c` | `mp_current_unit`, `m_flags` | initialize, didOpen, didChange, didSave, didClose, completion, signatureHelp, definition, hover, codeAction, documentSymbol |
| unit storage | `unit_storage.c` | table of units, directory flags, change queue and semaphore, `m_exit` | get, add, remove, load a database, notify a change, wait for completion, the background threads |
| unit | `unit.c` | translation unit, `active`, declarations, included files, main header, fixits, diagnostics per file | create, parse, reparse, index, free, diagnostics, completion, signature, definition, hover, symbols |
| index | `indexer.c` | declarations by USR, sources by header | add, remove, lookup, header set, save, load |
| unsaved files | `unsaved_files.c`, `source_file.c` | editor buffers | set, patch, snapshot, free |
| paths, URIs, doxygen | `path.c`, `protocol/uri.c`, `doxygen.c` | none | pure conversions |
| extension | `src/src/extension.ts` | the client | start, stop, restart, apply a fixit |

How they interact: the main thread runs every handler inside the resource lock;
an index thread works inside a *borrow* of the same lock; the reparse thread
takes neither.  didChange hands the changed file to the reparse thread through
the change queue and a semaphore.  The main thread and the reparse thread both
write messages to stdout.  Units register their declarations in the index,
which definition and the header lookup of the storage read.

### Hard behaviours

- *Concurrency.*  Main thread, reparse thread, monitors and index threads share
  the unit table, the units, the index, the change queue and stdout.  Only the
  handler/indexer pair is excluded, through a lock that one thread may take and
  another release; the reparse thread takes no lock at all.
- *Ordering.*  An index thread polls its unit before it gets the resource and
  uses it after; the reparse thread tests the queue and then waits.
- *Failure.*  A parse or reparse may fail.  Every failed assertion and every
  signal ends in an endless loop of its thread (`server.c`), so a failure shows
  as a missing join, never as an exit.
- *Shutdown.*  The end of input sets `m_exit`, wakes and joins the reparse
  thread, joins the last monitor, and frees the units.

There is no persistence that is read back (loading the index is commented out)
and no timeout, so crash recovery and retries of messages do not arise; the
only retry is the one of didChange.

### What makes each component correct

| component | correctness |
| --- | --- |
| resource lock | handlers and index threads exclude each other; nobody waits for ever; `release` never finds the count at zero |
| change queue | no change is lost, no slot read that has none and no wakeup missed, unless an update of the size was lost; the reparse thread ends when asked |
| unit lifecycle | the table has only live units under their own names, no translation unit leaks, nobody uses a freed unit, declarations are in the index once, the shutdown ends |
| JSON-RPC | each request is answered once and in order unless its handler spins, a refusal is the fault of the request, frames are whole |
| unsaved files, source file | a snapshot is the store at one moment; no translation unit stays behind the texts of the client unless it was denied one for a named cause |
| protocol layer | a request handler never reads a member that was not decoded; what decoding allocates is freed; the decoders read what the encoders write |
| index | the sets by USR are exactly the declarations the units list, the header map names the main headers |
| diagnostics | the client shows what the last parse found, the fixits are those of the last diagnostics, each but for named causes |
| paths, URIs | a normal form names the same file and is its own normal form; the URI of a file comes back as the same file; a main header is one by its name |
| documentation, completion | each documented parameter, each result and its value, and the brief are found with their own text; a completion list the client may filter on its own has all it needs while a word is typed |

## 2. Modules

| module | models | composes |
| --- | --- | --- |
| `HandlerExclusion` | abstract: one handler alone or any number of index threads | |
| `SharedResource` | `utils.c` 175-213 and its callers, one step per mutex operation | refines `HandlerExclusion` |
| `ChangeQueue` | the change queue, its semaphore and `m_exit` | |
| `UnitLifecycle` | units, table, header map and every thread that touches them | uses `HandlerExclusion` as its lock and a plain FIFO as its change queue |
| `JsonRpc` | reading, dispatch, decoder error, answers, output frames | |
| `UnsavedFiles` | the texts of the editor, their snapshots, and their way into the translation units through the handlers and the reparse thread | uses `HandlerExclusion` as its lock; has the change queue with its unprotected size |
| `UnitContents` | declarations, index, includes, header map, fixits and diagnostics of the units, translated by the main thread and the reparse thread | uses a plain FIFO as its change queue |
| `Json`, `ProtocolFields`, `ProtocolTypes` | JSON values as jansson has them; the required members and the types of every structure (`structures.h`) | |
| `Decoders`, `Encoders`, `Freers` | every decoder, encoder and freer, member by member | use `Json`, `ProtocolFields` |
| `MessageHandling` | the glue from a message to its handler, with the error flag and the heap | uses `Decoders`, `Freers` |
| `ProtocolExchange` | encoders against decoders on every structure | extends `MessageHandling` with `Encoders`, `ProtocolTypes` |
| `Paths`, `Uris` | `path.c` and `uri.c` as operators | |
| `Doxygen` | the parser of documentation comments in `doxygen.c` and the lookup of a parameter in `unit.c` | |
| `Completion` | the last token of a line as the filter of a completion list, and its limit | |
| `Conversions` | the texts they are checked on, and what they are for | extends `Uris`, `Doxygen`, `Completion` |
| `*_proofs` | theorems about the module of that name | |
| `MC*` | values of the constants for TLC | |

`UnitLifecycle` and `UnitContents` keep a plain FIFO: their properties say what holds
of every unit at every moment, or of a unit the threads are done with, and none of them
that every change is handled.  A change that is lost is to them one that was never sent; garbage read
from an empty slot is left to `ChangeQueue` and `UnsavedFiles`.

Definitions named `Slip...` are mistakes one could make in the definition they
are named after; no specification uses them, they show that the properties can
fail.

### SharedResource

`mut` and `owner_mut` hold the thread that entered them, `users` is the count.
Borrow is `BorrowCount`, `BorrowTakeOwner` (first borrower only), `BorrowReturn`;
release is `ReleaseCount`, `ReleaseDropOwner` (last borrower only),
`ReleaseReturn`.  A Windows critical section may be left only by the thread that
entered it, but the last borrower need not be the first: what such a foreign
release does is a nondeterministic choice, `ForeignRelease`.

### ChangeQueue

`queue_size`, `queue_enqueue` and `queue_poll` belong to Collections-C, which is
not in the repository; they are modelled from their use: an array of slots and a
`size` that both threads update by a load and a store.  The main thread is
`Notify...`, `SetExit`, `ExitSignal`, `Join`; the reparse thread is `CheckExit`,
`CheckSize`, `Wait`, `Poll...`, `Reparse`.  What is queued is told from the slots that
were filled and not yet read, never from `size`, which is what may be wrong.

### UnitLifecycle

A unit object is a record in the sequence `unit`: its file, its life (`idle` when
created, `active` with a translation unit, `freed`), the files it was found to
include and how many times its declarations are in the index.  `table` is
`m_storage.p_table`, `header_map` the map of the index from source to main
header, `current` is `mp_current_unit`.

`mpc` is where the main thread is.  A handler is a sequence of steps with the
calls that other threads can observe: lookup, add, parse, reparse attempts,
remove, free, diagnose, notify.  Completion, signature help, hover, definition and
document symbols all do the same to the units (`get_or_create_unit`) and are one
kind of message; didSave and didClose do nothing and are left out.  `initialize`
loads the databases command by command.  The shutdown joins the reparse thread
and the monitor in `mp_index_thread`, then frees the table.

`ipc[t]` is an index thread `<<database, worker>>`: poll, suspend, check, index,
resume.  `rpc` is the reparse thread: take a change, iterate over the units of
the table, test, reparse, diagnose.  `touched` records every use of a freed unit;
the thread may then crash (`hung`) or carry on.

What libclang finds (included files, success or failure) is a nondeterministic
choice.  Included files, main header and the header map are updated as
`index_translation_unit` and `index_source_file` do: the first clears the
declarations at once but the included files only with the first new one; the
second clears nothing.  While the reparse thread iterates, `hashtable_add` of the
main thread may grow the table: `IteratorDisturbed` lets the iterator reach the new
unit and meet others again.

### JsonRpc

The input is a sequence of messages (request with or without a handler,
notification, ignored), each complete or lacking a required field.  `m_error` is
the error of the decoders, which only requests read and clear.  A message to the
client is written in two steps, `WriteHeader` and `WriteContent`; `frame` is the
thread whose header waits for its content.

A handler of a request is its way to an answer: `HandleWithoutUnit` (initialize and
codeAction, which always answer), `HandleForUnit` (the five requests about a file, which
answer an error without a path), `GetUnit` (an error if clang fails) and `Compute`.
After each of them it has called one of the send functions or goes on to the next; the
assertion on the number of responses comes after the handler.  Four ends have no answer,
and lead to `hung`: the assertion of `unit_storage_add` (`unit_storage.c:319`, in
initialize and in `get_or_create_unit`), that of didChange (`command_handler.c:246`), the
names of parameters that are read for ever (`doxygen.c:398`, in signature help), and a
lock that is never had because an index thread spins inside its borrow, as any thread
does after a failed assertion or a signal (`server.c`).
The assertion of the URI decoder (`uri.c:102`) is not among them: no name of a file, nor
the URI of one, is as long as it takes while names are shorter than `MAX_PATH`.

### UnsavedFiles

`store` is `mp_unsaved_files`, which only grows: the calls of `unsaved_file_remove`
are commented out.  A text is a version number per file, 0 for the text on the disk.
The server announces `TEXT_DOCUMENT_SYNC_KIND_FULL`, so a content change replaces the
text and `unsaved_file_patch` is not reached; neither is the assertion in
`source_file.c` on the length of a patched text.

`mutex` is `m_mutex`.  `unsaved_files_get` is `SnapshotBegin`, one `SnapshotCopy` per
entry and `SnapshotEnd`, and `snap[t]` is what thread `t` passes to clang afterwards.
`seen[u]` is the version of every file with which unit `u` was last translated.  The
main thread is `Receive`, `Open`, `Change` (one step per content change), `Lookup`
(`get_or_create_unit`), `MainSnapshot`, `Parse`, `Reparse`, `Notify`, `NotifyStore`, `Leave`; the
reparse thread `RTake`, `RStore`, `RSnapshot`, `RNext`, `RReparse`, `RHang`; an index
thread `ISuspend`, `ISnapshot`, `IResume`.  Either thread may spin in an assertion
(`hung`): the main thread in `Lookup` (`unit_storage.c:319`) and `Change`
(`command_handler.c:246`), the reparse thread where it meets a unit it cannot reparse or
garbage it cannot compare.

The change queue is the one of `ChangeQueue` with the slots folded into a list:
`change_queue` has the slots filled and not yet read, `ahead` counts the slots the
reader has read beyond them, and `size` is loaded (`stored`, `polled`) and stored by two
steps of each thread, so that an update may be lost (`raced`).  With a size that is too
large the reader takes garbage and passes the slot that the next change is put into;
with one that is too small it takes the queue for empty while a change is in it.

A unit is *stale* for a file it reads when the store has another text than the one it
was last translated with.  The history variable `missed` says which units were denied
a text, and there are five ways: didOpen brings another text than the disk's and
nobody reparses the units that have read the file; didChange whose file cannot be
parsed leaves its handler before `unit_storage_notify_change`; a background reparse
fails and its result is ignored; a background reparse uses a snapshot taken before
a handler translated the same unit with a later text, and takes the unit back; a change
is put into a slot that the reader has already passed.  Besides these, a change may be
stranded in a queue whose size has lost an update (`Stranded`), and a handler may hang
before it translates or notifies (`HungOn`).  A later translation with the latest text lifts the denial.  Idle units of a database
and freed units are left to `UnitLifecycle`, path normalisation to `Paths`.

### UnitContents

A translation is what clang reports for a unit, in its order: includes, definitions,
diagnostics; which one a unit gets is open (`Translations`), and each diagnostic suggests
some of `Fixits`, none of which is the empty entry `None` that `diagnostic_parse` makes
room for before it fills it in.  `pc[t]` and `on[t]` are
where the main thread or the reparse thread is and with which unit, `todo[t]` where it
goes next.  `Translate`, `index_translation_unit`, `clear_index_decls`, `index_included_file`,
`Definitions`, `index_declaration` and `index_header_set` are one translation.  A
declaration leaves the list of its unit and then the index (`clear_index_decls`,
`RemoveDeclaration`), and enters the index and then the list (`index_declaration`,
`ListDeclaration`), each in two steps between which the other thread may see it halfway; the mutex of the unit is held from the second
to the last.  `unit_diagnostics_get`, `diagnostic_parse`, `Gathered`, `diag_callback`
(one file a step) and `Published` are one round of diagnostics, under no mutex at all.
The handlers are `did_open`, `did_change`, `code_action` and `request`, which stands for
completion, signature help, definition, hover and document symbols: they parse and index
a unit that is not active, and do not diagnose it.  `queue_poll` and `reparse_thread` are
the other thread.  `raced`, `torn` and `undiagnosed` are history: the units two threads
were in at once, those of which a fixit was then read unfilled or written out of room,
and those that a request was the first to parse and nobody has diagnosed since.

The index is `p_table` (the units of the declarations of each USR) next to
`p_declarations` (what each unit lists).  `inclusion` keeps included files, main
header and its score; `p_header_map` outlives it, because a unit that loses its main
header removes nothing from the map.  `shown` is what the client shows for each file
and which unit sent it.  Removal of units and the index threads are in
`UnitLifecycle`; here every unit, once translated, stays.

### The protocol layer

A JSON value is a pair of its kind and its payload, a structure a function on the
members whose bits are set in `valid_fields`.  Decoding yields the structure, whether
`m_error` was raised in it or below, and the number of blocks allocated; a freer is the
number of blocks it releases.  The modules follow the generated code structure by
structure: a member of another kind stays unset, a nested structure that lacks a
member raises the error and is kept all the same, an item of an array is decoded
whatever it is.  `MessageHandling` has one action per handler of
`message_handling.c`: a request is handed over only without an error, which it then
clears; a notification always.  The params of a message are any of the constant
`JsonValues`, of which only what jansson guarantees is assumed (`JsonAssumption`): what
is within a value is a value, the items of an array come one after the other, and the
text of a string is never the null pointer.  `JsonRpc` has the same flag next to the order of the
messages and their answers.

### Paths, Uris, Doxygen, Completion and Conversions

A path is a sequence of characters.  `Paths` and `Uris` have the functions as
operators, with NULL and the failed assertion as outcomes of their own: an element of a
URI of `ELEMENT_MAX` characters or more fails the one in `uri.c:102`.  `path_pair_score`
is what a header is measured by as a main header, and `Takes` how it is compared with the
score before it: `SUBSTRING` in a unit that was translated (`TranslatedScore`), zero in
one that was only indexed in the background (`IndexedScore`).
`Conversions` types texts from a few beginnings with a small alphabet; the properties
are about every text on the way.  The properties list the odd cases in which the
functions do not do what they are for (section 5).

A comment is a sequence of tokens: blanks, line ends, marks and the parts of words at
which a keyword may end, so `@returns` is `@`, `return`, `s`.  `format` strips the
margins, `get_block` finds the next keyword, `p_args` and `p_returns` are the two loops
of `doxygen_function_parse`, the second for return, result and retval, of which the last
has a value before its text; `documentation` is what the signature help takes from it.
A bracket for the direction that is never closed is left out.

In `Completion` a line is what stands before the cursor, made of letters, digits, blanks
and marks; libclang's tokenizer is `LastWord`, and `start_string` the last token if it is
an identifier or a keyword, wherever the cursor is behind it.  Lines whose tokens are
comments, strings or an include statement are left out.  What libclang offers is the
constant `Results`; the list is what passes the filters in this order, up to the limit.
Of `Results` only that it is a list whose texts are sequences, and of the characters only
that no blank is a letter or a digit, is assumed (`ResultsAssumption`), and of what is
typed that it is a sequence (`KindsAssumption`).
`PathsAssumption` says that the letters of drives are no signs of a path or of an escape, and
that the working directory is absolute and no name on the way to it begins with two dots:
`getcwd` gives none that is a step back, and a directory such as `..cache` is left out, because
`path_remove_redundant_steps` takes it for one.  `UrisAssumption` says of the table of escapes
what `uri.c` has: two hexadecimal digits each, one pair for every reserved character, among
which are the question mark and no letter of `file`; and that the scheme of files fits an
element.

## 3. Runs

| run | instance | shows |
| --- | --- | --- |
| `shared_resource` | 3 index threads, bounded rounds, fair | exclusion, no convoy; the section is broken only by a foreign release; refinement of `HandlerExclusion`; handlers and index threads finish |
| `change_queue` | 4 changes and the exit, fair | the reader sleeps past a filled slot, or reads one that is not, only after a lost update of the size; every change handled otherwise; the shutdown passes its join |
| `unit_lifecycle_safety` | 2 sources, 1 header, 1 database, 2 index threads, 2 messages of any kind | table, current unit, declarations, stability of a unit being indexed, uses of freed units |
| `unit_lifecycle_live` | 2 overlapping databases, 1 index thread each, 1 message, fair | the index is saved, the shutdown ends, whichever database the join of the shutdown leaves out, or a thread hangs in an assertion |
| `unsaved_files` | a source with its header, 1 index thread with 1 unit, 4 notifications of 1 change, fair | snapshots are whole and, under the lock, fresh; the reparse thread has the change it was woken for; a stale unit has a translation to come or one of the named causes, and catches up otherwise |
| `json_rpc` | 3 messages of any kind, a publishing reparse thread, fair | answers, their order and their causes, along every path of a handler; every request answered unless a handler spins |
| `unit_contents` | 2 sources and a header, 3 messages of any kind, lists of 1 diagnostic | index and units agree at every step of both threads, but for the one declaration a thread has in its hands; what is stale (includes, fixits, lists at the client) is so for a named cause |
| `protocol` | every structure with all members, and all that differ from it at one place; for the small params of a message, at two | no handler of a request reads what was not decoded; nothing leaks or is freed twice; the decoders read what the encoders write |
| `conversions` | 5 characters typed to 4 beginnings of a path and 4 of a URI (elements shorter than 10), 4 pieces to 3 beginnings of a comment, lines of up to 5 characters | normal forms, the way of a file name to the client and back, main headers, URI elements, the blocks of a comment, completion lists, each with its exceptions |
| `reparse_assert`, `sticky_error`, `torn_frames` | as small as the case needs | disagreements between the code and its own assertions, messages and protocol document (section 5) |

*Bounds.*  `MaxMessages` bounds the input, `MaxChanges` the changes, `Workers` the
index threads per database (four in the build), `RetriesMax` is
`REPARSE_RETRIES_MAX` reduced to one, which still has a first, a retried and a last
attempt.  Two messages of any kind are enough for each pair of handlers to meet
the index and reparse threads at every point; two index threads for one to index
while another holds a unit it polled; a header with one or two including sources
for the header lookup to succeed and to fail; two databases for one to be
unjoined.  In `unsaved_files` four notifications are what an overtaken background reparse
needs: open and change the header, so that the reparse thread takes its snapshot, and
change the text once more before it comes to the unit.  They also
let an update of the size be lost and a change be stranded; the run has about half a
million distinct states.  Two causes of `StaleForCause` need more, and were checked for
the invariants alone in instances that are left out of the runs for their length: a
handler that hangs needs a second change in one notification, and a change that is put
into a slot the reader has passed a fifth notification (3.2 million distinct states
without an index thread).  Without any one of these causes the invariant is violated in
the instance that has it.  Three messages give every order of an incomplete notification, a
request without a handler and a decoded request.

In `unit_contents` three messages let both sources be opened and one of them change
while the reparse thread is in the other, or in the same unit, or a request parse a unit that is
diagnosed later or never (3.2 million distinct states): all stale causes,
lost main headers, sets shared by two units and both kinds of torn fixits occur (each
exception in a property was checked to be needed).  In `protocol` the values are finite
because a decoder is a conjunction over members that do not look at each other: one
place that differs meets every branch, two meet every pair of a member and one
inside its sibling.  In `conversions` five characters more than a beginning give two
names with a separator and a step back in every arrangement, and an escape before and
after every terminator; the fourth beginning of a URI has a path that is long enough to
reach `ELEMENT_MAX`.  Four pieces more than a documented parameter, a brief and the
details, or a result, give a second parameter with a direction, a name and a comma, a
result with a value and its text, the end of a paragraph, and every margin; the limit of
the completions is below and above the number of matches, depending on the last token of
the line.

The types of the five component modules (`TypeOK`) and the exclusion of handlers and
index threads (`Exclusion`) are not checked by runs of their own: they are proved
for every instance (section 4), and the runs check `RefinesExclusion`, which says
more.  The same goes for the two assertions of the code, `users > 0` in the release
(`AssertHolds`) and one response from each handler (`ResponseCountHolds`), which are
proved.

*Fairness.*  Weak fairness of each thread: the operating system runs every thread
that can run, and the client either sends a message or closes the input.  Locks
are taken under the same weak fairness in `UnitLifecycle`, because the messages
and the units are finite; the mutex of `UnsavedFiles` likewise, as index
threads have finitely many units and cannot keep it from the others for ever;
`SharedResource` states what it needs of the mutexes
itself.  No run assumes that clang succeeds, nor that a thread survives a failed
assertion: the liveness properties name these ends.

Deadlock is not checked where the system stops by design (process ended, thread
in the endless loop of an assertion); the liveness properties say which stops
are acceptable.

## 4. Proofs

tlapm proves, for every value of the constants:

- `SharedResource_proofs`: types, exclusion, the release assertion, that no convoy
  forms, and the refinement of `HandlerExclusion`.  The inductive invariant ties
  each program counter to what the thread holds and `users` to the number of
  threads inside.
- `ChangeQueue_proofs`: types, `NoLostWakeup`, `GarbageOnlyAfterRace`,
  `NothingSkipped`.  The invariant says that the size is exact up to the two
  updates under way as long as none was lost, so that a reader which has found it zero
  sleeps on no filled slot for which no token is coming (`SleepsOnEmpty`), and that after
  the signal of the shutdown a sleeping reader still finds a token.
- `JsonRpc_proofs`: types, `AnsweredOnceInOrder`, `ResponseCountHolds`,
  `RefusedForCause`.  The invariant ties the open request to the place of the main
  thread (`OpenRequest`, `Place`), on every path of a handler and where it hangs, the count to the one remembered (`Count`), and
  the error flag to an incomplete notification after the last decoded request
  (`Cause`).
- `UnitLifecycle_proofs`: types, `TableSound`, `CurrentUnitUsable`, and then `DeclsOnce`,
  `FreedUnitUse`, `IndexedUnitStable`.  The first are not inductive: between two steps
  of a handler they rest on what the handler knows of its unit (`MainUnit`: idle and in
  the table before a parse, active and current before a reparse, out of the table before
  it is freed), on the message it still needs, and on every thread having a unit while
  it uses one.  A step of another thread keeps the life and the place of every unit,
  which is one lemma (`OtherThread`).  The others need a second invariant, which ties the
  lock to the places of the threads (`LockFollows`) and the monitors to their index
  threads (`MonitorFollows`), and says that no unit is queued or held twice
  (`QueuedOnce`), that one waiting to be indexed has no declarations unless it was parsed
  (`PendingFresh`), and who has freed a unit (`FreedFollows`).
- `UnsavedFiles_proofs`: types, `SnapshotWhole`, `SnapshotFresh`, `ReparseSeesChange`,
  `StaleForCause`.  `StaleForCause` is not inductive: the reparse thread may hold a
  snapshot that a later text has left behind, and translating a unit with it mends
  nothing.  `BehindForCause` says that a unit stale for such a text is in the care of
  somebody else (the handler, a queued change, or one of the causes), `OldSnapshot`
  that its snapshot is never ahead of the store, `StaleTold` that a change in the queue
  is a reason to wait whether or not the queue lost an update, from which the named cause
  (`Stranded`) follows, and `MainPlace` that the handler works
  on the unit of its file if there is one, so that only other units are left to the
  reparse thread.  What a step of the main thread has to show is one lemma
  (`CausesKept`).
- `MessageHandling_proofs`: `RequestReadsDecoded` and `HeapReturns`, for all params.  The
  first rests on `StructureComplete`: a structure that decodes without an error has every
  required member and none with an error of its own.  The second is about every decoder
  next to its freer.  What a structure holds is the sum over those of its members that
  are not plain values (`StructureHeap` and the `Heap...` lemmas); for each of its 23
  structures a lemma `...Field` says that a member decoded from any value, of the right
  kind or not, is unset with no block left or set with just what its freer releases, and
  a lemma `...Returns` adds the members up.  An array of structures is a sum over items,
  however many (`ArrayFieldOK` and the `...Items` lemmas).
- `UnitContents_proofs`: `HeadersAgree`, `StaleIncludesForCause`, `IndexExact`, and then
  `FixitsWhole`, `StaleFixitsForCause`, `StaleListForCause`.  `LInv` ties the mutex of a
  unit to the places of the threads and what clang has still to report to those places,
  so one thread at a time is between `clear_index_decls` and `index_header_set`.
  The declaration between list
  and index is in the hands of the holder alone, and `Exact` counts it with the index or
  the list.  `HeadersFollow` lets main header and header map differ only under the mutex.
  `IncludesFollow` says that a unit whose includes are not those of its translation has a
  thread that has still to index it or is collecting them, even when the other thread has
  translated it again meanwhile.  `Exact` counts, unit by unit and USR by USR; what
  appending and removing the first occurrence do to a count are lemmas (`CountAppend`,
  `CountRemoveFirst`), by a bijection of places.

  Diagnostics are gathered and sent under no mutex, so their invariant (`DInv`) is about
  threads that are alone in a unit.  `Route` says what each thread has to do next,
  `FilledIn` that an empty entry of the fixits is one a thread has still to fill, `ListsIn`
  that a list with diagnostics in it is one a thread has still to publish, `Owned` that
  the client shows lists of units that have one for the file, `Alone` that two threads in one
  unit are recorded in `raced`.  `Sound` is what holds of a unit that was never raced:
  its fixits and lists are those of its translation, or a thread is on its way to make
  them so, or a named cause is there; a unit in `undiagnosed` has neither fixits nor lists,
  and no thread gathers any in it; and only raced units are torn.
- `Conversions_proofs`: `CompleteListEnough` and `ElementsDecoded`, for texts, result lists
  and limits of every size.  For the first, `string_fuzzy_match` has matched, after each
  character, as much of the shorter word as of the longer one, up to its length (`Shorter`), so
  a result that the longer word matches was in the list of the shorter one; and a list that did not reach the limit is all that passes, so
  filtering it again is filtering the results (`LongerWord`).  Letters and digits typed
  behind a line that has no blank at its end make its last word longer, or its first one
  when there was none (`TypedOn`).  For the second, the loop of
  `uri_decode` has after each element the text from the place on that `Begin` gives
  (`AtPlace`, `TakeStep`, `UriElements`), `decode_escape` writes a piece without
  escapes as it is (`DecodedPlain`), and the assertion has failed exactly when one of the
  pieces so far is too long.

  Then `NormalPathSame` and `MainHeaderByName`, for paths of any length.  Each loop of `path.c`
  is first said with one character or name more (`SplitAppend`, `JoinedAppend`, `StepsAppend`,
  `WalkAppend`), from which follow, by induction over texts, that names come apart as they were
  joined (`SplitJoined`, `JoinedSplit`) and what a drive in upper case or a slash in front does
  to them (`UpperNames`, `SlashFirst`).  The stack of `path_remove_redundant_steps` and a walk
  along the names are then led side by side (`Follows`): as many names are on the stack as were
  no steps back, less those that were, so that it never runs empty; the first name stays; none
  on it is a step back; and a walk along the stack ends where the walk along the names does.
  For the header, a normalized path behind the working directory keeps a first name that is no
  step back (`NormalForwards`), so it is never the empty text for which the common ancestor
  would be longer than a character (`UnderCwd`).  So the score of a header of another name is one, of one
  whose name contains the other a little more than `SUBSTRING`, and of one of the same name more
  than both (`PairScore`), and comparing scores is comparing ranks (`HeaderByName`).

  Last, `OwnUriComesBack` takes all of these together.  The absolute path of a file is normal
  (`Normal`, `OwnPath`): a relative path that is not odd has, behind the names of the working
  directory, at no place as many steps back as names before it (`LevelConcat`), and that is all
  the stack needs to stay filled (`LevelSteps`; what `Straight` says beyond it is for where the
  path leads).  Its URI is eight characters and the encoded path (`FileUri`, `UriWritten`).
  `Ends` has the place in the encoding where each character's piece ends; going back along
  these places, what `decode_escape` writes from each one on, whatever room is left over, is
  the rest of the path (`BackAgain`).  No piece has a question mark in it, so the path ends
  with the text (`FileDecoded`), and a drive in lower case is normalized to the one it was
  (`LowerDrive`).

What a loop or a fold returns is proved by induction.  The library's induction theorems take
an operator for their argument, which the provers cannot instantiate; here the argument is a
set: of the numbers for which the formula holds, with the least number outside of it
(`Induct`, and `UpTo` for the rounds of a loop), or of subsets of a finite set
(`InductSubsets`).  That gives, in `UnitContents_proofs`, what `FlattenSeq` is on each step,
and that a concatenation flattens to the concatenation of the flattenings; and in
`MessageHandling_proofs`, for `SumFunction`, that a sum of naturals is one, that equal
functions have equal sums, that a sum of sums is the sum of both, and that a sum without the
terms that are zero is the same.

The assumptions are those on the constants only, and TLC evaluates each of them in a run.
These stay with TLC:

- liveness, which rests on fairness and `ENABLED`;
- `Lossless`, whose reference definition `Kept` goes down a type as deep as it is, with a
  recursive operator;
- `BlocksKept`: what `doxygen.c` makes of a comment of any length.  The model has its loops
  as folds that take an operator (`FoldLeft`, `SelectSeq`), which tlapm does not unfold.

## 5. Disagreements found

Checked by a run that must find the disagreement:

| run | code | what |
| --- | --- | --- |
| `reparse_assert` | `unit.c:832` | the reparse thread reparses units that were indexed but never opened: the assertion fails and the thread spins |
| `sticky_error` | `message_handling.c:184-207` | an incomplete notification makes the next request be refused |
| `torn_frames` | `json_rpc.c:56` | header and content of two threads interleave |

Met while modelling; the modules have the code as it is, and where a property depends
on one of these, it names it as an exception.

*Units.*
- didChange removes a unit whose last retry succeeded: the counter is the same as
  after a last failure (`command_handler.c:267`).
- The lookup in the assertion of `unit_storage_add` may find a unit that the one before
  did not, because the reparse thread sets main headers (`unit_storage.c:319`).
- A translation without includes keeps the includes of the one before (`unit.c:563`);
  a unit that loses its main header stays in the header map.
- Fixits are replaced only when the new diagnostics have some (`unit.c:1538`): those of
  mended errors stay on offer.
- Two units that have diagnostics for one header overwrite each other's list at the
  client (`unit.c:1625`).
- The requests about a file parse a unit that is not active and do not publish its
  diagnostics: the client shows none, and no fixits are on offer, until didOpen or
  didChange or a background reparse comes to it (`command_handler.c:302`, `340`, `366`,
  `391`, `438`).
- The size of the change queue is updated by two threads without a lock, so a change may
  be lost, or stay in the queue until the next one, and the units that include the file
  stay behind (`unit_storage.c:139`, `52`).
- A unit indexed in the background begins with a score of zero for its main header, one
  that was translated with `SUBSTRING` (`unit.c:599`, `698`, `571`): there any header in
  quotes becomes the main header until a better one follows.
- A completion list is filtered by the last token before the cursor even with blanks
  between them (`unit.c:1003-1012`), and yet counts as complete when it is short
  (`unit.c:1205`): the next word typed then finds only what matched the one before it.
- Flags that begin with `-i` are rewritten as if they were `-I` (`unit_storage.c:246`).

*Protocol.*
- Members that are enumerations are decoded only if they are JSON objects, but are
  written as integers (`decoders.c:872`, `1063`; `protocol.md:358`).
- The flags of nested capabilities are read from the object around them
  (`decoders.c:105`; `protocol.md:740-744`).
- `initialize` whose `processId` is null is refused (`decoders.c:1427`;
  `protocol.md:632`).
- The handlers of notifications are called with incomplete params
  (`message_handling.c:184-207`).
- didChange asserts that a change has a text only, which one with a range and no length
  breaks (`command_handler.c:246`).

*Paths and URIs.*
- A name that begins with two dots counts as a step back, a step back after `.` or
  an empty name removes that one, and one above the first component gives NULL or a
  failed assertion (`path.c:57`).
- The result of `strcmp` is taken for the place of the first difference
  (`path.c:222`): the common ancestor is the whole path or, with the C library of
  Windows, one character, so neither "Common ancestor length is the tie breaker"
  (`path.c:325`) nor "find closest matching path" (`unit_storage.c:377`) comes true.
- `decode_escape` counts what it writes and not what it reads, so an element with
  escapes takes in the beginning of the next (`uri.c:40`); a percent sign is not
  escaped (`uri.c:77`); the fragment is always empty, as its terminator is.
- An element of 1024 characters or more fails the assertion of `strdup_until`
  (`uri.c:102`), for ever.  Names shorter than `MAX_PATH` never reach it.

*Documentation.*
- Names of parameters with commas between them are read for ever: the loop over the names
  starts each time from the first (`doxygen.c:398-401`), though the comment above it
  expects `@param p1,p2,p3 Description` (`doxygen.c:364`).
- `@returns` is found as `@return` with a text that begins with "s" (`doxygen.c:290-302`).
- The value of a `@retval` with no blank behind it takes in the line end and the next
  keyword, whose result is lost (`doxygen.c:426`).
- A parameter without a name ends the list of parameters (`doxygen.c:511`), and keywords
  with a backslash are not looked for as long as one with an at sign follows
  (`doxygen.c:275`).

## 6. Not modelled, and the plan

Not modelled: libclang and Collections-C beyond their use, what libclang does with
overlapping calls on one translation unit, races inside the hash tables, compile flags
and their suggestion by directory, logging, the text of answers (labels, snippets,
hovers and their markdown, definitions), the active parameter of the signature help,
the completion of include paths, the read buffer of `json_rpc.c`, saving the index
(nothing reads it back), registration of handlers and response waiters (no caller),
the functions of `path.c` that ask the file system, the extension, the generator and
legacy code.  The text patches of `source_file.c` and the removal of an unsaved file
are unreachable in this server.

Next, in this order:

1. the read buffer of `json_rpc.c` against the messages it holds;
2. `Server`: the composition of the lock, the change queue and the shutdown, with
   `UnitLifecycle` shown to follow from the detailed parts.
