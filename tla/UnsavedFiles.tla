----------------------------- MODULE UnsavedFiles -----------------------------
(***************************************************************************)
(* The texts of the editor: unsaved_files.c keeps the text of every file   *)
(* the client has opened, under one mutex, and never forgets one.  Clang   *)
(* is given a snapshot of them, which its thread takes entry by entry under *)
(* the mutex and uses long after it released it.  This module follows a    *)
(* text from the notification that brings it to every translation unit     *)
(* that reads it: through the handler of the file, which translates the    *)
(* unit of the file, and through the reparse thread, which translates the  *)
(* other units that include it.                                            *)
(*                                                                         *)
(* A text is a version number: 0 is what the disk has, and every text a    *)
(* client sends for a file later gets the next number.  The server asks    *)
(* for whole texts (TEXT_DOCUMENT_SYNC_KIND_FULL), so a change replaces    *)
(* the text; unsaved_file_patch is never reached.  Units that are in the   *)
(* table without a translation unit, and what a removed unit does to a     *)
(* thread that has it, are the subject of UnitLifecycle.                   *)
(***************************************************************************)
EXTENDS Naturals, Sequences

CONSTANTS
  Files,
  Includes,     \* [Files -> the files clang finds each to include]
  HeaderOf,     \* [Files -> its main header, or None]
  None,
  Indexers,     \* the index threads
  Main, Reparser, \* the two other threads that take snapshots
  MaxMessages,  \* bound: didOpen and didChange notifications
  MaxChanges,   \* bound: content changes in one didChange
  MaxIndexed    \* bound: units in the queue of the index threads

ASSUME ThreadsAssumption ==
  Main # Reparser /\ Main \notin Indexers /\ Reparser \notin Indexers
ASSUME NoneAssumption ==
  None \notin Nat \cup Files \cup Indexers \cup {Main, Reparser}
ASSUME IncludesAssumption ==
  Includes \in [Files -> SUBSET Files] /\ HeaderOf \in [Files -> Files \cup {None}]
ASSUME BoundsAssumption == MaxMessages \in Nat /\ MaxChanges \in Nat /\ MaxIndexed \in Nat

VARIABLES
  store,         \* mp_unsaved_files: version of each file, None without entry
  mutex,         \* m_mutex
  left,          \* entries the snapshot under way has still to copy
  snap,          \* the unsaved_files_t of each thread
  active,        \* files with a translation unit
  seen,          \* versions of all files its unit was last translated with
  change_queue,  \* mp_change_queue: the slots filled and not yet read
  size,          \* its size, as two threads update it
  stored, polled, \* the sizes that Main and Reparser have loaded from it
  ahead,         \* slots Reparser has read beyond the last one filled
  handler, indexing,
  mpc,           \* where the main thread is
  msg,           \* the notification it handles
  munit,         \* the unit it found
  messages,      \* notifications left
  rpc,           \* where the reparse thread is
  changed,       \* the change it handles
  todo,          \* units its iterator has still to reach
  runit,         \* the unit it works on
  ipc,           \* where each index thread is
  unindexed,     \* units left in the queue of the index threads
  raced,         \* history: an update of size was overwritten
  missed         \* history: <<u, f>> when unit u was denied a text of f

mainVars == <<mpc, msg, munit, messages>>
reparseVars == <<rpc, changed, todo, runit>>
indexVars == <<ipc, unindexed>>
queueVars == <<change_queue, size, stored, polled, ahead, raced>>
vars == <<store, mutex, left, snap, active, seen, queueVars, handler, indexing,
          mainVars, reparseVars, indexVars, missed>>

Threads == Indexers \cup {Main, Reparser}
HX == INSTANCE HandlerExclusion WITH Borrowers <- Indexers

Nothing == [f \in Files |-> None]
NoMessage == [kind |-> "didOpen", file |-> None, changes |-> 0]
NoChange == [file |-> None, version |-> 0]

Init ==
  /\ store = Nothing /\ mutex = None /\ left = {}
  /\ snap = [t \in Threads |-> Nothing]
  /\ active = {} /\ seen = [u \in Files |-> [f \in Files |-> 0]]
  /\ change_queue = <<>> /\ size = 0 /\ stored = 0 /\ polled = 0 /\ ahead = 0 /\ raced = FALSE
  /\ HX!HxInit
  /\ mpc = "listen" /\ msg = NoMessage /\ munit = None /\ messages = MaxMessages
  /\ rpc = "poll" /\ changed = NoChange /\ todo = {} /\ runit = None
  /\ ipc = [t \in Indexers |-> "poll"] /\ unindexed = MaxIndexed
  /\ missed = {}

(* The versions clang reads, given a list of unsaved files: it opens the    *)
(* others on the disk.                                                      *)
View(list) == [f \in Files |-> IF list[f] = None THEN 0 ELSE list[f]]
Reads(u) == Includes[u] \cup {u}

-----------------------------------------------------------------------------
(* unsaved_files_get: the list is made entry by entry, under the mutex.     *)

SnapshotBegin(t) ==
  /\ mutex = None /\ mutex' = t
  /\ left' = {f \in Files : store[f] # None}
  /\ snap' = [snap EXCEPT ![t] = Nothing]

SnapshotCopy(t) ==
  /\ mutex = t
  /\ \E f \in left : snap' = [snap EXCEPT ![t][f] = store[f]] /\ left' = left \ {f}
  /\ UNCHANGED mutex

SnapshotEnd(t) ==
  /\ mutex = t /\ left = {}
  /\ mutex' = None
  /\ UNCHANGED <<left, snap>>

(* unsaved_files_release: the list is gone. *)
Release(t) == snap' = [snap EXCEPT ![t] = Nothing]

(* unsaved_file_set, with source_file_create or source_file_contents_set.   *)
SlipSetWithoutMutex(f, version) ==
  store' = [store EXCEPT ![f] = version] /\ UNCHANGED <<mutex, left, snap>>

UnsavedFileSet(f, version) ==
  /\ mutex = None
  /\ store' = [store EXCEPT ![f] = version]
  /\ UNCHANGED <<mutex, left, snap>>

NextVersion(f) == IF store[f] = None THEN 1 ELSE store[f] + 1

(* The queue has no mutex: its size is loaded, and stored one larger or     *)
(* smaller, and an update made in between is lost.                          *)
StoreSize(seenSize, new) ==
  /\ size' = new
  /\ raced' = (raced \/ size # seenSize)

-----------------------------------------------------------------------------
(* Slips of definitions below, with which the properties must fail.         *)

(* The reparse thread keeps the snapshot it has. *)
SlipStoreKeepsSnapshot ==
  /\ rpc = "polled" /\ StoreSize(polled, polled - 1) /\ polled' = 0
  /\ rpc' = "next" /\ todo' = active
  /\ UNCHANGED <<store, mutex, left, snap, active, seen, change_queue, stored, ahead, handler,
                 indexing, mainVars, changed, runit, indexVars, missed>>

(* The index thread takes its snapshot before it suspends the handlers. *)
SlipSnapshotBeforeSuspend(t) ==
  /\ ipc[t] = "poll" /\ unindexed > 0
  /\ unindexed' = unindexed - 1
  /\ ipc' = [ipc EXCEPT ![t] = "get"]
  /\ UNCHANGED <<store, mutex, left, snap, active, seen, queueVars, handler, indexing,
                 mainVars, reparseVars, missed>>

(* The reparse thread stops before it has met all units. *)
SlipNextStopsEarly ==
  /\ rpc = "next" /\ rpc' = "poll" /\ changed' = NoChange /\ runit' = None /\ todo' = {}
  /\ UNCHANGED <<store, mutex, left, snap, active, seen, queueVars, handler, indexing,
                 mainVars, indexVars, missed>>

-----------------------------------------------------------------------------
(* The main thread.                                                         *)

Receive ==
  /\ mpc = "listen" /\ messages > 0 /\ HX!HandlerEnter
  /\ messages' = messages - 1
  /\ \E f \in Files :
       \/ /\ msg' = [kind |-> "didOpen", file |-> f, changes |-> 0]
          /\ mpc' = "open"
       \/ /\ store[f] # None
          /\ \E n \in 1 .. MaxChanges :
               msg' = [kind |-> "didChange", file |-> f, changes |-> n]
          /\ mpc' = "change"
  /\ UNCHANGED <<store, mutex, left, snap, active, seen, queueVars, munit, reparseVars,
                 indexVars, missed>>

(* A file may be opened with the text the disk has, or with another one.    *)
(* Units that have read the file already are neither reparsed nor notified. *)
Open ==
  /\ mpc = "open"
  /\ LET f == msg.file
     IN  \/ store[f] = None /\ UnsavedFileSet(f, 0) /\ UNCHANGED missed
         \/ /\ UnsavedFileSet(f, NextVersion(f))
            /\ missed' = missed \cup {<<u, f>> : u \in {v \in active : f \in Reads(v)}}
  /\ mpc' = "lookup"
  /\ UNCHANGED <<active, seen, queueVars, handler, indexing, msg, munit, messages,
                 reparseVars, indexVars>>

(* One round of the loop over the content changes, or its end.  A change    *)
(* with some of the fields of a range fails an assertion, for ever.         *)
Change ==
  /\ mpc = "change"
  /\ \/ /\ msg.changes > 0
        /\ UnsavedFileSet(msg.file, NextVersion(msg.file))
        /\ msg' = [msg EXCEPT !.changes = @ - 1]
        /\ UNCHANGED mpc
     \/ /\ msg.changes = 0
        /\ mpc' = "lookup"
        /\ UNCHANGED <<store, mutex, left, snap, msg>>
     \/ /\ msg.changes > 0
        /\ mpc' = "hung"
        /\ UNCHANGED <<store, mutex, left, snap, msg>>
  /\ UNCHANGED <<active, seen, queueVars, handler, indexing, munit, messages,
                 reparseVars, indexVars, missed>>

(* get_or_create_unit: the unit of the file, the unit of a source whose     *)
(* main header it is, or a new unit, whose name the table may have already: *)
(* the assertion of unit_storage_add fails for ever.                        *)
Lookup ==
  /\ mpc = "lookup"
  /\ LET f == msg.file
         sources == {s \in active : HeaderOf[s] = f /\ f \in Includes[s]}
     IN  \/ /\ f \in active \/ sources # {}
            /\ munit' \in (IF f \in active THEN {f} ELSE sources)
            /\ mpc' = IF msg.kind = "didOpen" THEN "leave" ELSE "get"
         \/ /\ f \notin active /\ sources = {}
            /\ munit' = f
            /\ mpc' \in {"get", "hung"}
  /\ UNCHANGED <<store, mutex, left, snap, active, seen, queueVars, handler, indexing, msg,
                 messages, reparseVars, indexVars, missed>>

MainSnapshot ==
  /\ \/ mpc = "get" /\ SnapshotBegin(Main) /\ mpc' = "copy"
     \/ mpc = "copy" /\ SnapshotCopy(Main) /\ UNCHANGED mpc
     \/ mpc = "copy" /\ SnapshotEnd(Main) /\ mpc' = "translate"
  /\ UNCHANGED <<store, active, seen, queueVars, handler, indexing, msg, munit, messages,
                 reparseVars, indexVars, missed>>

(* A successful translation of u with the texts of a list: it makes up for  *)
(* what u was denied, but takes u back where the list is the older one.     *)
SeesOf(u, list) ==
  /\ seen' = [seen EXCEPT ![u] = View(list)]
  /\ missed' = {p \in missed : p[1] # u \/ View(list)[p[2]] # View(store)[p[2]]}
               \cup {<<u, f>> : f \in {g \in Reads(u) : View(list)[g] < seen[u][g]}}

(* The table grows while the reparse thread iterates over it: the iterator  *)
(* may reach the new unit, and meet others again when the table is resized. *)
IteratorDisturbed ==
  IF rpc \in {"next", "reparse"}
  THEN \E more \in SUBSET active' : todo' = todo \cup more
  ELSE UNCHANGED todo

(* unit_parse of a new unit; without one the handler gives up, keeps the    *)
(* list and notifies nobody of the text.                                    *)
Parse ==
  /\ mpc = "translate" /\ munit \notin active
  /\ \/ /\ SeesOf(munit, snap[Main])
        /\ active' = active \cup {munit}
        /\ IteratorDisturbed
        /\ Release(Main)
        /\ mpc' = IF msg.kind = "didOpen" THEN "leave" ELSE "get"
     \/ /\ missed' = missed \cup {<<u, msg.file>> : u \in {v \in active : msg.file \in Reads(v)}}
        /\ mpc' = "leave"
        /\ UNCHANGED <<snap, active, seen, todo>>
  /\ UNCHANGED <<store, mutex, left, queueVars, handler, indexing, msg, munit, messages,
                 rpc, changed, runit, indexVars>>

(* A slip of Reparse: who gives a unit up does not notify. *)
SlipReparseSilent ==
  /\ mpc = "translate" /\ munit \in active
  /\ \/ SeesOf(munit, snap[Main]) /\ mpc' = "notify" /\ UNCHANGED active
     \/ active' = active \ {munit} /\ mpc' = "leave" /\ UNCHANGED <<seen, missed>>
  /\ Release(Main)
  /\ UNCHANGED <<store, mutex, left, queueVars, handler, indexing, msg, munit, messages,
                 reparseVars, indexVars>>

(* The unit_reparse loop of didChange: the unit is translated or given up. *)
Reparse ==
  /\ mpc = "translate" /\ munit \in active
  /\ \/ SeesOf(munit, snap[Main]) /\ UNCHANGED active
     \/ active' = active \ {munit} /\ UNCHANGED <<seen, missed>>
  /\ Release(Main)
  /\ mpc' = "notify"
  /\ UNCHANGED <<store, mutex, left, queueVars, handler, indexing, msg, munit, messages,
                 reparseVars, indexVars>>

(* unit_storage_notify_change fills a slot and loads the size, ...  A slot  *)
(* that Reparser has read already is not read again.                        *)
Notify ==
  /\ mpc = "notify"
  /\ \/ /\ ahead = 0
        /\ change_queue' = Append(change_queue, [file |-> msg.file, version |-> store[msg.file]])
        /\ UNCHANGED <<ahead, missed>>
     \/ /\ ahead # 0
        /\ ahead' = ahead - 1
        /\ missed' = missed \cup
             {<<u, msg.file>> : u \in {v \in active \ {msg.file} : msg.file \in Reads(v)}}
        /\ UNCHANGED change_queue
  /\ stored' = size
  /\ mpc' = "store"
  /\ UNCHANGED <<store, mutex, left, snap, active, seen, size, polled, raced, handler, indexing,
                 msg, munit, messages, reparseVars, indexVars>>

(* ... and stores the new one. *)
NotifyStore ==
  /\ mpc = "store" /\ StoreSize(stored, stored + 1) /\ stored' = 0
  /\ mpc' = "leave"
  /\ UNCHANGED <<store, mutex, left, snap, active, seen, change_queue, polled, ahead, handler,
                 indexing, msg, munit, messages, reparseVars, indexVars, missed>>

Leave ==
  /\ mpc = "leave" /\ HX!HandlerLeave
  /\ mpc' = "listen" /\ msg' = NoMessage /\ munit' = None
  /\ UNCHANGED <<store, mutex, left, snap, active, seen, queueVars, messages, reparseVars,
                 indexVars, missed>>

InHandler ==
  \/ Open \/ Change \/ Lookup \/ MainSnapshot \/ Parse \/ Reparse \/ Notify \/ NotifyStore
  \/ Leave

-----------------------------------------------------------------------------
(* The reparse thread.                                                      *)

(* queue_poll reads the first slot and loads the size, ...  A slot that     *)
(* nothing was put into has garbage, the name of some file or of none; no   *)
(* change that is queued has version 0.                                     *)
Garbage == [file : Files \cup {None}, version : {0}]

RTake ==
  /\ rpc = "poll" /\ size # 0
  /\ \/ /\ change_queue # <<>>
        /\ changed' = Head(change_queue) /\ change_queue' = Tail(change_queue)
        /\ UNCHANGED ahead
     \/ /\ change_queue = <<>>
        /\ changed' \in Garbage /\ ahead' = ahead + 1
        /\ UNCHANGED change_queue
  /\ polled' = size
  /\ rpc' = "polled"
  /\ UNCHANGED <<store, mutex, left, snap, active, seen, size, stored, raced, handler, indexing,
                 mainVars, todo, runit, indexVars, missed>>

(* ... and stores the new one; with an empty table the change is dropped.   *)
RStore ==
  /\ rpc = "polled" /\ StoreSize(polled, polled - 1) /\ polled' = 0
  /\ \/ active # {} /\ rpc' = "get" /\ UNCHANGED changed
     \/ active = {} /\ rpc' = "poll" /\ changed' = NoChange
  /\ UNCHANGED <<store, mutex, left, snap, active, seen, change_queue, stored, ahead, handler,
                 indexing, mainVars, todo, runit, indexVars, missed>>

(* unsaved_files_get, then hashtable_iter_init. *)
RSnapshot ==
  /\ \/ rpc = "get" /\ SnapshotBegin(Reparser) /\ rpc' = "copy" /\ UNCHANGED todo
     \/ rpc = "copy" /\ SnapshotCopy(Reparser) /\ UNCHANGED <<rpc, todo>>
     \/ rpc = "copy" /\ SnapshotEnd(Reparser) /\ rpc' = "next" /\ todo' = active
  /\ UNCHANGED <<store, active, seen, queueVars, handler, indexing, mainVars, changed, runit,
                 indexVars, missed>>

(* The next unit, which is reparsed if it includes the changed file but is  *)
(* not the unit of that file.                                               *)
RNext ==
  /\ rpc = "next"
  /\ \/ /\ todo = {} /\ Release(Reparser)
        /\ rpc' = "poll" /\ changed' = NoChange /\ runit' = None /\ UNCHANGED todo
     \/ \E u \in todo :
          /\ todo' = todo \ {u} /\ runit' = u
          /\ rpc' = IF u \in active /\ changed.file \in Includes[u] \ {u} THEN "reparse" ELSE "next"
          /\ UNCHANGED <<snap, changed>>
  /\ UNCHANGED <<store, mutex, left, active, seen, queueVars, handler, indexing,
                 mainVars, indexVars, missed>>

(* unit_reparse, whose result is ignored; the main thread may have given    *)
(* the unit up meanwhile.                                                   *)
RReparse ==
  /\ rpc = "reparse"
  /\ \/ runit \in active /\ SeesOf(runit, snap[Reparser])
     \/ /\ missed' = missed \cup {<<runit, changed.file>>}
        /\ UNCHANGED seen
  /\ rpc' = "next"
  /\ UNCHANGED <<store, mutex, left, snap, active, queueVars, handler, indexing, mainVars,
                 changed, todo, runit, indexVars>>

(* The thread spins in a failed assertion: unit_reparse of a unit that is   *)
(* in the table without a translation unit, or that the main thread gave up *)
(* meanwhile, or garbage that is no string.                                 *)
RHang ==
  /\ rpc = "next" \/ (rpc = "reparse" /\ runit \notin active)
  /\ rpc' = "hung"
  /\ UNCHANGED <<store, mutex, left, snap, active, seen, queueVars, handler, indexing, mainVars,
                 changed, todo, runit, indexVars, missed>>

ReparseNext == RTake \/ RStore \/ RSnapshot \/ RNext \/ RReparse \/ RHang

-----------------------------------------------------------------------------
(* An index thread takes its snapshot between suspend and resume.           *)

ISuspend(t) ==
  /\ ipc[t] = "poll" /\ unindexed > 0 /\ HX!IndexerEnter(t)
  /\ unindexed' = unindexed - 1
  /\ ipc' = [ipc EXCEPT ![t] = "get"]
  /\ UNCHANGED <<store, mutex, left, snap, active, seen, queueVars, mainVars, reparseVars,
                 missed>>

ISnapshot(t) ==
  /\ \/ ipc[t] = "get" /\ SnapshotBegin(t) /\ ipc' = [ipc EXCEPT ![t] = "copy"]
     \/ ipc[t] = "copy" /\ SnapshotCopy(t) /\ UNCHANGED ipc
     \/ ipc[t] = "copy" /\ SnapshotEnd(t) /\ ipc' = [ipc EXCEPT ![t] = "index"]
  /\ UNCHANGED <<store, active, seen, queueVars, handler, indexing, mainVars, reparseVars,
                 unindexed, missed>>

(* unit_index, unsaved_files_release, json_rpc_resume. *)
IResume(t) ==
  /\ ipc[t] = "index" /\ Release(t) /\ HX!IndexerLeave(t)
  /\ ipc' = [ipc EXCEPT ![t] = "poll"]
  /\ UNCHANGED <<store, mutex, left, active, seen, queueVars, mainVars, reparseVars,
                 unindexed, missed>>

Indexer(t) == ISuspend(t) \/ ISnapshot(t) \/ IResume(t)

-----------------------------------------------------------------------------
Next == Receive \/ InHandler \/ ReparseNext \/ \E t \in Indexers : Indexer(t)

Spec == Init /\ [][Next]_vars

(* Every thread that can run does; the client owes no notification.  The    *)
(* index threads have finitely many units, so they cannot keep the mutex    *)
(* from the others for ever.                                                *)
FairSpec ==
  /\ Spec
  /\ WF_vars(InHandler) /\ WF_vars(ReparseNext)
  /\ \A t \in Indexers : WF_vars(Indexer(t))

-----------------------------------------------------------------------------
(* Types. *)
Versions == [Files -> Nat \cup {None}]
TypeOK ==
  /\ store \in Versions /\ mutex \in Threads \cup {None} /\ left \subseteq Files
  /\ snap \in [Threads -> Versions]
  /\ active \subseteq Files /\ seen \in [Files -> [Files -> Nat]]
  /\ change_queue \in Seq([file : Files, version : Nat]) /\ raced \in BOOLEAN
  /\ size \in Nat /\ stored \in Nat /\ polled \in Nat /\ ahead \in Nat
  /\ handler \in BOOLEAN /\ indexing \subseteq Indexers
  /\ mpc \in {"listen", "open", "change", "lookup", "get", "copy", "translate", "notify", "store",
             "leave", "hung"}
  /\ msg \in [kind : {"didOpen", "didChange"}, file : Files \cup {None}, changes : Nat]
  /\ munit \in Files \cup {None} /\ messages \in 0 .. MaxMessages
  /\ rpc \in {"poll", "polled", "get", "copy", "next", "reparse", "hung"}
  /\ changed \in [file : Files \cup {None}, version : Nat]
  /\ todo \subseteq Files /\ runit \in Files \cup {None}
  /\ ipc \in [Indexers -> {"poll", "get", "copy", "index"}] /\ unindexed \in 0 .. MaxIndexed
  /\ missed \subseteq Files \X Files

(* A snapshot is the whole store at one moment: what a thread has copied,   *)
(* and what it has found absent, still is so when it releases the mutex,    *)
(* even if a notification for another file waits between two entries.       *)
SnapshotWhole == mutex # None => \A f \in Files \ left : snap[mutex][f] = store[f]

(* A handler translates, and an index thread indexes, the very texts the    *)
(* client has sent: no text arrives between their snapshot and its use.     *)
(* For the index threads this rests on the JSON-RPC lock alone, which they  *)
(* must therefore take before the snapshot.                                 *)
SnapshotFresh ==
  /\ mpc = "translate" => snap[Main] = store
  /\ \A t \in Indexers : ipc[t] = "index" => snap[t] = store

(* The reparse thread, which no lock protects, may work on old texts, but   *)
(* never without the change it was woken for: the text is stored before the *)
(* change is queued, and the snapshot taken after the change is polled.     *)
(* Only what it read from a slot that has no change brings no text.         *)
ReparseSeesChange ==
  rpc \in {"next", "reparse"} /\ changed.version # 0 =>
    snap[Reparser][changed.file] # None /\ snap[Reparser][changed.file] >= changed.version

(* Unit u was last translated with another text of f than the stored one. *)
Stale(u, f) == u \in active /\ f \in Reads(u) /\ seen[u][f] # View(store)[f]

(* A slot of the queue has a change of f.  Only a handler cares for the     *)
(* unit's own text.                                                         *)
Queued(u, f) == u # f /\ \E i \in DOMAIN change_queue : change_queue[i].file = f

(* The handler of f, a queued change of f, or the reparse thread with one,  *)
(* has still to come to u.                                                  *)
Pending(u, f) ==
  \/ /\ msg.kind = "didChange" /\ msg.file = f
     /\ mpc \in {"change", "lookup", "get", "copy", "translate"} \/ (mpc = "notify" /\ u # f)
  \/ Queued(u, f) /\ ~raced
  \/ /\ u # f /\ changed.file = f
     /\ rpc \in {"polled", "get", "copy"} \/ u \in todo \/ (rpc = "reparse" /\ u = runit)

(* The change is in a queue whose size has lost an update: the reparse      *)
(* thread may take the queue for empty before it comes to it.               *)
Stranded(u, f) == Queued(u, f) /\ raced

(* A handler of f whose assertion failed translates and notifies nothing.   *)
HungOn(f) == mpc = "hung" /\ msg.file = f

(* A unit that is behind the client's texts will be translated again, or    *)
(* was denied the text for a named cause: a didOpen that brought another    *)
(* text, a didChange whose file has no unit, a background reparse that      *)
(* failed, or one whose snapshot was older than what the unit had, a change *)
(* in a slot that the reparse thread had passed, a change in a queue that   *)
(* lost an update of its size, or a handler that hangs.                     *)
StaleForCause ==
  \A u, f \in Files :
    Stale(u, f) => Pending(u, f) \/ <<u, f>> \in missed \/ Stranded(u, f) \/ HungOn(f)

(* And it is not left behind for ever without such a cause, unless the      *)
(* thread that has to translate it hangs.                                   *)
CatchesUp ==
  \A u \in Files : \A f \in Reads(u) :
    Stale(u, f) ~> \/ ~Stale(u, f) \/ <<u, f>> \in missed \/ Stranded(u, f)
                  \/ mpc = "hung" \/ rpc = "hung"
=============================================================================
