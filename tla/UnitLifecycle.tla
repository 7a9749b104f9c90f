---------------------------- MODULE UnitLifecycle ----------------------------
(***************************************************************************)
(* The life of the translation units: who creates, parses, reparses,       *)
(* indexes and frees them, and when.  Three kinds of thread work on them:  *)
(*   - the main thread runs the message handlers of command_handler.c and, *)
(*     at the end of input, unit_storage_wait_for_completion;              *)
(*   - the index threads of each compilation database index the units that *)
(*     were never opened, between json_rpc_suspend and json_rpc_resume;    *)
(*   - the reparse thread reparses the units that include a changed file,  *)
(*     under no lock at all.                                               *)
(* The exclusion between handlers and index threads is HandlerExclusion    *)
(* (which SharedResource implements); the change queue is a plain FIFO     *)
(* that always wakes its reader (what ChangeQueue shows).                  *)
(*                                                                         *)
(* A failed assertion and a crash both end in an endless loop of the       *)
(* thread (assert_handler and signal_handler of server.c): "assert" and    *)
(* "hung" below.  Using a freed unit is undefined: the thread may crash or *)
(* may see stale data and carry on.                                        *)
(***************************************************************************)
EXTENDS Naturals, Sequences, FiniteSets

CONSTANTS
  Files,        \* normalized file names, sources and headers
  None,         \* no file, no unit
  Databases,    \* the compilation databases: a sequence of sequences of files
  IncludeSets,  \* [Files -> the sets of files each may be found to include]
  HeaderOf,     \* [Files -> its main header, or None]
  Workers,      \* INDEXING_THREADS
  RetriesMax,   \* REPARSE_RETRIES_MAX
  MaxMessages   \* bound: messages handled after initialize

ASSUME FilesAssumption ==
  /\ None \notin Files \cup Nat
  /\ Databases \in Seq(Seq(Files))
  /\ IncludeSets \in [Files -> SUBSET SUBSET Files]
  /\ HeaderOf \in [Files -> Files \cup {None}]
ASSUME BoundsAssumption ==
  /\ Workers \in Nat \ {0}
  /\ RetriesMax \in Nat
  /\ MaxMessages \in Nat

VARIABLES
  unit,          \* the unit objects, in the order of their creation
  table,         \* m_storage.p_table
  header_map,    \* m_decl_index.p_header_map: main header of each source
  current,       \* mp_current_unit
  handler,       \* a message handler runs
  indexing,      \* index threads between suspend and resume
  mpc,           \* where the main thread is
  msg,           \* the message it handles
  munit,         \* the unit it found
  retries,       \* retries of didChange
  reparsed,      \* result of the last unit_reparse of didChange
  messages,      \* messages left
  load,          \* database and command that initialize is at
  index_thread,  \* mp_index_thread: database of the monitor started last
  iqueue,        \* p_context->p_queue of each database
  ipc,           \* where each index thread is
  iunit,         \* the unit it polled
  monitor,       \* state of the monitor thread of each database
  change_queue,  \* mp_change_queue
  m_exit,        \* the flag
  rpc,           \* where the reparse thread is
  changed,       \* p_changed_file
  todo,          \* units its iterator has still to reach
  runit,         \* the unit it works on
  touched,       \* history: <<who, unit>> of uses of a freed unit
  dropped        \* history: didChange freed a unit whose reparse failed

unitVars == <<unit, table, header_map>>
mainVars == <<current, mpc, msg, munit, retries, reparsed, messages, load, dropped>>
indexVars == <<index_thread, iqueue, ipc, iunit, monitor>>
reparseVars == <<rpc, changed, todo, runit>>
vars == <<unitVars, handler, indexing, mainVars, indexVars, change_queue,
          m_exit, reparseVars, touched>>

DBs == DOMAIN Databases
IndexThreads == DBs \X (1 .. Workers)
Reparser == <<0, 0>>
Kinds == {"didOpen", "didChange", "request", "codeAction"}
Units == DOMAIN unit

HX == INSTANCE HandlerExclusion WITH Borrowers <- IndexThreads

Init ==
  /\ unit = <<>>
  /\ table = [f \in Files |-> None]
  /\ header_map = [f \in Files |-> None]
  /\ HX!HxInit
  /\ current = None /\ mpc = "start"
  /\ msg = [kind |-> "didOpen", file |-> None]
  /\ munit = None /\ retries = 0 /\ reparsed = TRUE
  /\ messages = MaxMessages /\ load = [db |-> 1, at |-> 1] /\ dropped = FALSE
  /\ index_thread = None
  /\ iqueue = [d \in DBs |-> <<>>]
  /\ ipc = [t \in IndexThreads |-> "unborn"]
  /\ iunit = [t \in IndexThreads |-> None]
  /\ monitor = [d \in DBs |-> "none"]
  /\ change_queue = <<>> /\ m_exit = FALSE
  /\ rpc = "check" /\ changed = None /\ todo = {} /\ runit = None
  /\ touched = {}

-----------------------------------------------------------------------------
(* Units, the table and the header map.                                    *)

Life(u) == unit[u].life
FileOf(u) == unit[u].file
Freed(u) == Life(u) = "freed"
InTable == {table[f] : f \in Files} \ {None}
Use(who, u) == touched' = IF Freed(u) THEN touched \cup {<<who, u>>} ELSE touched

(* unit_storage_get: the unit of the file, or else the unit of the first    *)
(* source (in the order of the hash table) whose main header it is, which  *)
(* may have no unit any more.                                              *)
UnitStorageGet(f) ==
  LET sources == {s \in Files : header_map[s] = f}
  IN  IF table[f] # None \/ sources = {} THEN table[f]
      ELSE table[CHOOSE s \in sources : TRUE]

(* index_header_set, which does nothing for a unit without main header. *)
HeaderSet(f, includes) ==
  IF HeaderOf[f] \in includes THEN [header_map EXCEPT ![f] = HeaderOf[f]] ELSE header_map

(* A slip of Translated. *)
SlipTranslatedKeepsDecls(u, found) ==
  [unit[u] EXCEPT !.includes = IF found = {} THEN @ ELSE found, !.decls = @ + 1]

(* index_translation_unit clears the declarations at once, but the old     *)
(* included files only when it meets the first new one.                    *)
Translated(u, found) ==
  [unit[u] EXCEPT !.includes = IF found = {} THEN @ ELSE found, !.decls = 1]

(* unit_parse and unit_reparse, when they succeed. *)
Translate(u) ==
  \E found \in IncludeSets[FileOf(u)] :
    /\ unit' = [unit EXCEPT ![u] = [Translated(u, found) EXCEPT !.life = "active"]]
    /\ header_map' = HeaderSet(FileOf(u), Translated(u, found).includes)

(* index_source_file adds to what the unit has. *)
IndexSource(u) ==
  \E found \in IncludeSets[FileOf(u)] :
    LET all == unit[u].includes \cup found
    IN  /\ unit' = [unit EXCEPT ![u].includes = all, ![u].decls = @ + 1]
        /\ header_map' = HeaderSet(FileOf(u), all)

(* The table grows while the reparse thread iterates over it: the iterator *)
(* may reach the new unit, and others again when the table is resized.     *)
IteratorDisturbed ==
  IF rpc \in {"next", "test", "reparse", "diagnose"}
  THEN \E more \in SUBSET {table'[f] : f \in Files} : todo' = todo \cup (more \ {None})
  ELSE UNCHANGED todo

(* unit_create and the hashtable_add of unit_storage_add. *)
AddUnit(f) ==
  /\ unit' = Append(unit, [file |-> f, life |-> "idle", includes |-> {}, decls |-> 0])
  /\ table' = [table EXCEPT ![f] = Len(unit) + 1]

(* unit_free, which takes the declarations out of the index but leaves the *)
(* header map alone.                                                       *)
FreeUnits(us) ==
  unit' = [u \in Units |-> IF u \in us THEN [unit[u] EXCEPT !.life = "freed", !.decls = 0]
                                        ELSE unit[u]]

(* didChange counts the retries of unit_reparse. *)
MayRetry == retries < RetriesMax

-----------------------------------------------------------------------------
(* Slips: what some definitions might have been by mistake, with which the *)
(* properties must fail.                                                   *)

SlipParseFrees ==
  /\ mpc = "parse"
  /\ table' = [table EXCEPT ![FileOf(munit)] = None]
  /\ FreeUnits({munit})
  /\ mpc' = "leave"
  /\ UNCHANGED <<header_map, current, retries, handler, indexing, msg, munit, reparsed, messages,
                 load, dropped, indexVars, change_queue, m_exit, reparseVars, touched>>

SlipRemoveByMessage ==
  /\ mpc = "remove"
  /\ table' = [table EXCEPT ![msg.file] = None]
  /\ mpc' = "free"
  /\ UNCHANGED <<unit, header_map, handler, indexing, current, msg, munit, retries, reparsed,
                 messages, load, dropped, indexVars, change_queue, m_exit, reparseVars, touched>>

SlipFreeKeepsCurrent ==
  /\ mpc = "free"
  /\ FreeUnits({munit})
  /\ dropped' = TRUE /\ mpc' = "notify"
  /\ UNCHANGED <<table, header_map, handler, indexing, current, msg, munit, retries, reparsed,
                 messages, load, indexVars, change_queue, m_exit, reparseVars, touched>>

SlipJoinReparseOnly ==
  /\ mpc = "join_reparse" /\ rpc = "done" /\ mpc' = "destroy"
  /\ UNCHANGED <<unitVars, handler, indexing, current, msg, munit, retries, reparsed, messages,
                 load, dropped, indexVars, change_queue, m_exit, reparseVars, touched>>

SlipNoSuspend(t) ==
  /\ ipc[t] = "suspend"
  /\ ipc' = [ipc EXCEPT ![t] = "check"]
  /\ UNCHANGED <<unitVars, handler, indexing, mainVars, index_thread, iqueue, iunit, monitor,
                 change_queue, m_exit, reparseVars, touched>>

SlipCheckOnlyQueue ==
  /\ rpc = "check" /\ rpc' = "poll"
  /\ UNCHANGED <<unitVars, handler, indexing, mainVars, indexVars, change_queue, m_exit,
                 changed, todo, runit, touched>>

-----------------------------------------------------------------------------
(* Main thread: initialize.                                                *)

Initialize ==
  /\ mpc = "start" /\ HX!HandlerEnter
  /\ mpc' = "open_db"
  /\ UNCHANGED <<unitVars, current, msg, munit, retries, reparsed, messages, load,
                 dropped, indexVars, change_queue, m_exit, reparseVars, touched>>

(* clang_CompilationDatabase_fromDirectory may fail. *)
OpenDatabase ==
  /\ mpc = "open_db" /\ load.db \in DBs
  /\ \/ mpc' = "load" /\ UNCHANGED load
     \/ load' = [db |-> load.db + 1, at |-> 1] /\ UNCHANGED mpc
  /\ UNCHANGED <<unitVars, handler, indexing, current, msg, munit, retries, reparsed,
                 messages, dropped, indexVars, change_queue, m_exit, reparseVars, touched>>

LoadCommand ==
  /\ mpc = "load" /\ load.at \in DOMAIN Databases[load.db]
  /\ LET f == Databases[load.db][load.at]
     IN  IF UnitStorageGet(f) = None
         THEN /\ AddUnit(f)
              /\ iqueue' = [iqueue EXCEPT ![load.db] = Append(@, Len(unit) + 1)]
         ELSE UNCHANGED <<unit, table, iqueue>>
  /\ load' = [load EXCEPT !.at = @ + 1]
  /\ UNCHANGED <<header_map, handler, indexing, current, mpc, msg, munit, retries, reparsed,
                 messages, dropped, index_thread, ipc, iunit, monitor, change_queue,
                 m_exit, reparseVars, touched>>

(* The monitor thread starts its index threads. *)
StartMonitor ==
  /\ mpc = "load" /\ load.at \notin DOMAIN Databases[load.db]
  /\ index_thread' = load.db
  /\ monitor' = [monitor EXCEPT ![load.db] = "running"]
  /\ ipc' = [t \in IndexThreads |-> IF t[1] = load.db THEN "poll" ELSE ipc[t]]
  /\ load' = [db |-> load.db + 1, at |-> 1]
  /\ mpc' = "open_db"
  /\ UNCHANGED <<unitVars, handler, indexing, current, msg, munit, retries, reparsed,
                 messages, dropped, iqueue, iunit, change_queue, m_exit, reparseVars, touched>>

InitializeDone ==
  /\ mpc = "open_db" /\ load.db \notin DBs
  /\ mpc' = "leave"
  /\ UNCHANGED <<unitVars, handler, indexing, current, msg, munit, retries, reparsed, messages,
                 load, dropped, indexVars, change_queue, m_exit, reparseVars, touched>>

-----------------------------------------------------------------------------
(* Main thread: the handlers that work on a unit.  "request" stands for    *)
(* completion, signature help, definition, hover and document symbols.     *)

Receive(kind, f) ==
  /\ mpc = "listen" /\ messages > 0 /\ HX!HandlerEnter
  /\ messages' = messages - 1
  /\ msg' = [kind |-> kind, file |-> f]
  /\ mpc' = IF kind = "codeAction" THEN "read" ELSE "lookup"
  /\ UNCHANGED <<unitVars, current, munit, retries, reparsed, load, dropped, indexVars,
                 change_queue, m_exit, reparseVars, touched>>

(* What a handler does once get_or_create_unit has returned a unit. *)
Handle(u) ==
  /\ current' = u
  /\ retries' = 0
  /\ mpc' = CASE msg.kind = "didOpen" -> "diagnose"
              [] msg.kind = "didChange" -> "reparse"
              [] msg.kind = "request" -> "leave"

Lookup ==
  /\ mpc = "lookup"
  /\ LET u == UnitStorageGet(msg.file)
     IN  /\ munit' = u
         /\ \/ u = None /\ mpc' = "add" /\ UNCHANGED <<current, retries>>
            \/ u # None /\ Life(u) = "active" /\ Handle(u)
            \/ u # None /\ Life(u) # "active" /\ mpc' = "parse" /\ UNCHANGED <<current, retries>>
  /\ UNCHANGED <<unitVars, handler, indexing, msg, reparsed, messages, load, dropped,
                 indexVars, change_queue, m_exit, reparseVars, touched>>

(* add_unit, with the assertion of unit_storage_add. *)
Add ==
  /\ mpc = "add"
  /\ IF UnitStorageGet(msg.file) = None
     THEN AddUnit(msg.file) /\ IteratorDisturbed /\ munit' = Len(unit) + 1 /\ mpc' = "parse"
     ELSE mpc' = "assert" /\ UNCHANGED <<unit, table, todo, munit>>
  /\ UNCHANGED <<header_map, handler, indexing, current, msg, retries, reparsed, messages, load,
                 dropped, indexVars, change_queue, m_exit, rpc, changed, runit, touched>>

(* A unit whose parse fails leaves the table but is not freed. *)
Parse ==
  /\ mpc = "parse"
  /\ \/ Translate(munit) /\ Handle(munit) /\ UNCHANGED table
     \/ /\ table' = [table EXCEPT ![FileOf(munit)] = None]
        /\ mpc' = "leave"
        /\ UNCHANGED <<unit, header_map, current, retries>>
  /\ UNCHANGED <<handler, indexing, msg, munit, reparsed, messages, load, dropped, indexVars,
                 change_queue, m_exit, reparseVars, touched>>

ReparseAttempt ==
  /\ mpc = "reparse"
  /\ \/ /\ Translate(munit) /\ reparsed' = TRUE
        /\ mpc' = IF retries = RetriesMax THEN "remove" ELSE "diagnose"
        /\ UNCHANGED retries
     \/ /\ reparsed' = FALSE
        /\ \/ MayRetry /\ retries' = retries + 1 /\ UNCHANGED mpc
           \/ ~MayRetry /\ mpc' = "remove" /\ UNCHANGED retries
        /\ UNCHANGED <<unit, header_map>>
  /\ UNCHANGED <<table, handler, indexing, current, msg, munit, messages, load, dropped,
                 indexVars, change_queue, m_exit, reparseVars, touched>>

Remove ==
  /\ mpc = "remove"
  /\ table' = [table EXCEPT ![FileOf(munit)] = None]
  /\ mpc' = "free"
  /\ UNCHANGED <<unit, header_map, handler, indexing, current, msg, munit, retries, reparsed,
                 messages, load, dropped, indexVars, change_queue, m_exit, reparseVars, touched>>

Free ==
  /\ mpc = "free"
  /\ FreeUnits({munit})
  /\ current' = None /\ dropped' = TRUE
  /\ mpc' = "notify"
  /\ UNCHANGED <<table, header_map, handler, indexing, msg, munit, retries, reparsed, messages,
                 load, indexVars, change_queue, m_exit, reparseVars, touched>>

(* unit_diagnostics_get. *)
Diagnose ==
  /\ mpc = "diagnose"
  /\ mpc' = IF msg.kind = "didChange" THEN "notify" ELSE "leave"
  /\ UNCHANGED <<unitVars, handler, indexing, current, msg, munit, retries, reparsed, messages,
                 load, dropped, indexVars, change_queue, m_exit, reparseVars, touched>>

Notify ==
  /\ mpc = "notify"
  /\ change_queue' = Append(change_queue, msg.file)
  /\ mpc' = "leave"
  /\ UNCHANGED <<unitVars, handler, indexing, current, msg, munit, retries, reparsed, messages,
                 load, dropped, indexVars, m_exit, reparseVars, touched>>

(* Code actions read the fixits of the current unit. *)
ReadCurrent ==
  /\ mpc = "read"
  /\ mpc' = "leave"
  /\ UNCHANGED <<unitVars, handler, indexing, current, msg, munit, retries, reparsed, messages,
                 load, dropped, indexVars, change_queue, m_exit, reparseVars, touched>>

(* The handler returns: its local variables are gone. *)
Leave ==
  /\ mpc = "leave" /\ HX!HandlerLeave
  /\ mpc' = "listen"
  /\ msg' = [kind |-> "didOpen", file |-> None]
  /\ munit' = None /\ retries' = 0 /\ reparsed' = TRUE
  /\ UNCHANGED <<unitVars, current, messages, load, dropped, indexVars, change_queue, m_exit,
                 reparseVars, touched>>

-----------------------------------------------------------------------------
(* Main thread: the end of input.                                          *)

EndOfInput ==
  /\ mpc \in {"start", "listen"}
  /\ m_exit' = TRUE
  /\ mpc' = "join_reparse"
  /\ UNCHANGED <<unitVars, handler, indexing, current, msg, munit, retries, reparsed, messages,
                 load, dropped, indexVars, change_queue, reparseVars, touched>>

Join ==
  /\ \/ mpc = "join_reparse" /\ rpc = "done" /\ mpc' = "join_index"
     \/ /\ mpc = "join_index"
        /\ \A d \in DBs : index_thread = d => monitor[d] = "saved"
        /\ mpc' = "destroy"
  /\ UNCHANGED <<unitVars, handler, indexing, current, msg, munit, retries, reparsed, messages,
                 load, dropped, indexVars, change_queue, m_exit, reparseVars, touched>>

(* unit_storage_wait_for_completion frees every unit of the table. *)
Destroy ==
  /\ mpc = "destroy"
  /\ FreeUnits(InTable)
  /\ table' = [f \in Files |-> None]
  /\ mpc' = "destroyed"
  /\ UNCHANGED <<header_map, handler, indexing, current, msg, munit, retries, reparsed, messages,
                 load, dropped, indexVars, change_queue, m_exit, reparseVars, touched>>

(* main returns, which ends every other thread. *)
ProcessExit ==
  /\ mpc = "destroyed"
  /\ mpc' = "closed"
  /\ UNCHANGED <<unitVars, handler, indexing, current, msg, munit, retries, reparsed, messages,
                 load, dropped, indexVars, change_queue, m_exit, reparseVars, touched>>

Main ==
  \/ Initialize \/ OpenDatabase \/ LoadCommand \/ StartMonitor \/ InitializeDone
  \/ \E kind \in Kinds, f \in Files : Receive(kind, f)
  \/ Lookup \/ Add \/ Parse \/ ReparseAttempt \/ Remove \/ Free \/ Diagnose \/ Notify
  \/ ReadCurrent \/ Leave \/ EndOfInput \/ Join \/ Destroy \/ ProcessExit

-----------------------------------------------------------------------------
(* Index threads and their monitors.                                       *)

IPoll(t) ==
  /\ ipc[t] = "poll"
  /\ LET d == t[1]
     IN  IF iqueue[d] = <<>>
         THEN ipc' = [ipc EXCEPT ![t] = "done"] /\ UNCHANGED <<iqueue, iunit>>
         ELSE /\ ipc' = [ipc EXCEPT ![t] = "suspend"]
              /\ iunit' = [iunit EXCEPT ![t] = Head(iqueue[d])]
              /\ iqueue' = [iqueue EXCEPT ![d] = Tail(@)]
  /\ UNCHANGED <<unitVars, handler, indexing, mainVars, index_thread, monitor, change_queue,
                 m_exit, reparseVars, touched>>

ISuspend(t) ==
  /\ ipc[t] = "suspend" /\ HX!IndexerEnter(t)
  /\ ipc' = [ipc EXCEPT ![t] = "check"]
  /\ UNCHANGED <<unitVars, mainVars, index_thread, iqueue, iunit, monitor, change_queue,
                 m_exit, reparseVars, touched>>

(* path_last_edit reads the file name of the unit and may not find the     *)
(* file; then active decides.                                              *)
ICheck(t) ==
  /\ ipc[t] = "check"
  /\ LET u == iunit[t]
         outcomes == CASE Freed(u) -> {"indexing", "resume", "hung"}
                       [] Life(u) = "idle" -> {"indexing", "resume"}
                       [] Life(u) = "active" -> {"resume"}
     IN  \E next \in outcomes : ipc' = [ipc EXCEPT ![t] = next] /\ Use(t, u)
  /\ UNCHANGED <<unitVars, handler, indexing, mainVars, index_thread, iqueue, iunit, monitor,
                 change_queue, m_exit, reparseVars>>

IIndex(t) ==
  /\ ipc[t] = "indexing"
  /\ LET u == iunit[t]
     IN  IF Freed(u)
         THEN /\ \E next \in {"resume", "hung"} : ipc' = [ipc EXCEPT ![t] = next]
              /\ Use(t, u) /\ UNCHANGED <<unit, header_map>>
         ELSE /\ IndexSource(u) /\ ipc' = [ipc EXCEPT ![t] = "resume"]
              /\ UNCHANGED touched
  /\ UNCHANGED <<table, handler, indexing, mainVars, index_thread, iqueue, iunit, monitor,
                 change_queue, m_exit, reparseVars>>

IResume(t) ==
  /\ ipc[t] = "resume" /\ HX!IndexerLeave(t)
  /\ ipc' = [ipc EXCEPT ![t] = "poll"]
  /\ iunit' = [iunit EXCEPT ![t] = None]
  /\ UNCHANGED <<unitVars, mainVars, index_thread, iqueue, monitor, change_queue, m_exit,
                 reparseVars, touched>>

MonitorSave(d) ==
  /\ monitor[d] = "running"
  /\ \A w \in 1 .. Workers : ipc[<<d, w>>] = "done"
  /\ monitor' = [monitor EXCEPT ![d] = "saved"]
  /\ UNCHANGED <<unitVars, handler, indexing, mainVars, index_thread, iqueue, ipc, iunit,
                 change_queue, m_exit, reparseVars, touched>>

Indexer(t) == IPoll(t) \/ ISuspend(t) \/ ICheck(t) \/ IIndex(t) \/ IResume(t)

-----------------------------------------------------------------------------
(* The reparse thread.                                                     *)

RCheck ==
  /\ rpc = "check"
  /\ rpc' = IF m_exit THEN "done" ELSE "poll"
  /\ UNCHANGED <<unitVars, handler, indexing, mainVars, indexVars, change_queue, m_exit,
                 changed, todo, runit, touched>>

(* Nothing in the queue: the thread sleeps until the shutdown wakes it. *)
RWake ==
  /\ rpc = "poll" /\ change_queue = <<>> /\ m_exit
  /\ rpc' = "check"
  /\ UNCHANGED <<unitVars, handler, indexing, mainVars, indexVars, change_queue, m_exit,
                 changed, todo, runit, touched>>

RTake ==
  /\ rpc = "poll" /\ change_queue # <<>>
  /\ changed' = Head(change_queue) /\ change_queue' = Tail(change_queue)
  /\ todo' = InTable
  /\ rpc' = "next"
  /\ UNCHANGED <<unitVars, handler, indexing, mainVars, indexVars, m_exit, runit, touched>>

(* The iterator reaches the units in any order.  An entry removed from the *)
(* table meanwhile is either passed over or read where it was.             *)
RNext ==
  /\ rpc = "next"
  /\ \/ todo = {} /\ rpc' = "check" /\ changed' = None /\ runit' = None /\ UNCHANGED todo
     \/ \E u \in todo :
          /\ todo' = todo \ {u}
          /\ \/ rpc' = "test" /\ runit' = u
             \/ u \notin InTable /\ UNCHANGED <<rpc, runit>>
          /\ UNCHANGED changed
  /\ UNCHANGED <<unitVars, handler, indexing, mainVars, indexVars, change_queue, m_exit, touched>>

RTest ==
  /\ rpc = "test"
  /\ \E next \in IF Freed(runit) THEN {"next", "reparse", "hung"}
                 ELSE IF changed \in unit[runit].includes /\ changed # FileOf(runit)
                 THEN {"reparse"} ELSE {"next"} : rpc' = next
  /\ Use(Reparser, runit)
  /\ UNCHANGED <<unitVars, handler, indexing, mainVars, indexVars, change_queue, m_exit,
                 changed, todo, runit>>

(* unit_reparse, whose assertion wants an active unit; its result is not   *)
(* looked at.                                                              *)
RReparse ==
  /\ rpc = "reparse"
  /\ \/ Life(runit) = "active" /\ Translate(runit) /\ rpc' = "diagnose"
     \/ Life(runit) = "active" /\ rpc' = "diagnose" /\ UNCHANGED <<unit, header_map>>
     \/ Life(runit) = "idle" /\ rpc' = "assert" /\ UNCHANGED <<unit, header_map>>
     \/ Freed(runit) /\ rpc' \in {"diagnose", "assert", "hung"} /\ UNCHANGED <<unit, header_map>>
  /\ Use(Reparser, runit)
  /\ UNCHANGED <<table, handler, indexing, mainVars, indexVars, change_queue, m_exit,
                 changed, todo, runit>>

RDiagnose ==
  /\ rpc = "diagnose"
  /\ \E next \in IF Freed(runit) THEN {"next", "hung"} ELSE {"next"} : rpc' = next
  /\ Use(Reparser, runit)
  /\ UNCHANGED <<unitVars, handler, indexing, mainVars, indexVars, change_queue, m_exit,
                 changed, todo, runit>>

Reparse == RCheck \/ RWake \/ RTake \/ RNext \/ RTest \/ RReparse \/ RDiagnose

-----------------------------------------------------------------------------
Next ==
  \/ Main
  \/ /\ mpc # "closed"
     /\ \/ \E t \in IndexThreads : Indexer(t)
        \/ \E d \in DBs : MonitorSave(d)
        \/ Reparse

(* The operating system runs every thread; the client eventually closes    *)
(* the input.                                                              *)
Fairness ==
  /\ WF_vars(Main)
  /\ \A t \in IndexThreads : WF_vars(mpc # "closed" /\ Indexer(t))
  /\ \A d \in DBs : WF_vars(mpc # "closed" /\ MonitorSave(d))
  /\ WF_vars(mpc # "closed" /\ Reparse)

Spec == Init /\ [][Next]_vars
FairSpec == Spec /\ Fairness

-----------------------------------------------------------------------------
(* Types. *)
UnitRecord ==
  [file : Files, life : {"idle", "active", "freed"}, includes : SUBSET Files, decls : Nat]

TypeOK ==
  /\ unit \in Seq(UnitRecord)
  /\ table \in [Files -> Units \cup {None}]
  /\ header_map \in [Files -> Files \cup {None}]
  /\ handler \in BOOLEAN /\ indexing \subseteq IndexThreads
  /\ current \in Units \cup {None} /\ munit \in Units \cup {None}
  /\ mpc \in {"start", "open_db", "load", "listen", "lookup", "add", "parse", "reparse", "remove",
              "free", "diagnose", "notify", "read", "leave", "assert", "join_reparse",
              "join_index", "destroy", "destroyed", "closed"}
  /\ msg \in [kind : Kinds, file : Files \cup {None}]
  /\ retries \in 0 .. RetriesMax /\ reparsed \in BOOLEAN
  /\ messages \in 0 .. MaxMessages
  /\ load \in [db : Nat \ {0}, at : Nat \ {0}] /\ dropped \in BOOLEAN
  /\ index_thread \in DBs \cup {None}
  /\ iqueue \in [DBs -> Seq(Units)]
  /\ ipc \in [IndexThreads -> {"unborn", "poll", "suspend", "check", "indexing", "resume",
                               "done", "hung"}]
  /\ iunit \in [IndexThreads -> Units \cup {None}]
  /\ monitor \in [DBs -> {"none", "running", "saved"}]
  /\ change_queue \in Seq(Files) /\ m_exit \in BOOLEAN
  /\ rpc \in {"check", "poll", "next", "test", "reparse", "diagnose", "done", "assert", "hung"}
  /\ changed \in Files \cup {None} /\ todo \subseteq Units /\ runit \in Units \cup {None}
  /\ touched \subseteq ((IndexThreads \cup {Reparser}) \X Units)

-----------------------------------------------------------------------------
(* Between handlers the current unit, which code actions read without a    *)
(* lookup, is an active unit and still the one the table has for its file. *)
CurrentUnitUsable ==
  (mpc \in {"listen", "read", "destroy"} /\ current # None) =>
    Life(current) = "active" /\ table[FileOf(current)] = current

(* An active unit, which owns a translation unit, is never lost: the table *)
(* has it, except between the two calls of didChange that remove and free  *)
(* it.  The table has no freed unit and no unit under a foreign name.      *)
TableSound ==
  /\ \A f \in Files : table[f] # None => FileOf(table[f]) = f /\ ~Freed(table[f])
  /\ \A u \in Units : Life(u) = "active" =>
       table[FileOf(u)] = u \/ (mpc = "free" /\ munit = u)

(* However parsing, reparsing and background indexing of a unit follow one *)
(* another, its declarations are in the index at most once: indexing adds  *)
(* without clearing, so it must never meet a unit that has some.           *)
DeclsOnce == \A u \in Units : unit[u].decls <= 1

(* The unit an index thread is indexing stays as it is: nobody parses or   *)
(* frees it, unless the process ends while a database other than the last  *)
(* is still being indexed (nobody joins that monitor).                     *)
Unjoined(t) == t[1] # index_thread /\ mpc \in {"destroy", "destroyed", "closed"}
IndexedUnitStable ==
  [][\A t \in IndexThreads :
       ipc[t] = "indexing" /\ ipc'[t] = "indexing" /\ Life(iunit[t]) = "idle" =>
         Life(iunit[t])' = "idle" \/ Unjoined(t)]_vars

(* A freed unit is used only after a didChange that gave a unit up, or by  *)
(* the index threads of a database nobody joins.                           *)
FreedUnitUse ==
  \A use \in touched : dropped \/ (use[1] # Reparser /\ Unjoined(use[1]))

Broken ==
  \/ mpc = "assert" \/ rpc \in {"assert", "hung"}
  \/ \E t \in IndexThreads : ipc[t] = "hung"

(* The database opened last is indexed and its index saved, whatever the   *)
(* client does, the end of input included.                                 *)
LastIndexSaved ==
  \A d \in DBs : index_thread = d ~> (monitor[d] = "saved" \/ index_thread # d \/ Broken)

(* The end of input ends the process unless a thread spins in an assertion *)
(* or crashed.                                                             *)
ShutdownFinishes == m_exit ~> (mpc = "closed" \/ Broken)

-----------------------------------------------------------------------------
(* What the code's own assertion says.                                     *)

(* unit_reparse: ASSERT(p_unit->active), in the reparse thread. *)
ReparsesActiveUnits == rpc = "reparse" => Life(runit) # "idle"
=============================================================================
