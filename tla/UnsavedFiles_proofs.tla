-------------------------- MODULE UnsavedFiles_proofs --------------------------
(***************************************************************************)
(* Proofs about UnsavedFiles, for any files, includes and main headers, any *)
(* index threads and any number of notifications, changes and units.        *)
(***************************************************************************)
EXTENDS UnsavedFiles, SequenceTheorems, TLAPS

(* Each snapshot is under way exactly while its thread has the mutex. *)
Holder ==
  /\ mutex = Main <=> mpc = "copy"
  /\ mutex = Reparser <=> rpc = "copy"
  /\ \A t \in Indexers : mutex = t <=> ipc[t] = "copy"

(* The JSON-RPC lock follows the places of the threads. *)
LockPlaces ==
  /\ handler <=> mpc # "listen"
  /\ handler => indexing = {}
  /\ \A t \in Indexers : t \in indexing <=> ipc[t] # "poll"

(* What the handler knows of its file and of its unit. *)
MainPlace ==
  /\ mpc # "listen" => msg.file \in Files
  /\ mpc = "open" => msg.kind = "didOpen"
  /\ mpc \in {"change", "notify"} => msg.kind = "didChange"
  /\ mpc \notin {"listen", "open"} => store[msg.file] # None
  /\ mpc \in {"get", "copy", "translate"} =>
       /\ munit \in Files
       /\ munit \notin active \/ msg.file \in active => munit = msg.file
       /\ munit \in active => msg.kind = "didChange"

(* What the reparse thread knows of its change and of its unit. *)
ReparsePlace ==
  /\ rpc = "poll" => changed = NoChange
  /\ rpc = "polled" => polled # 0
  /\ rpc = "reparse" => runit \in Files /\ changed.file \in Files

(* The text of a change is in the store, or a later one of the same file;   *)
(* what was read from a slot without a change has no text.                  *)
Stored(c) == store[c.file] # None /\ store[c.file] >= c.version
ChangesStored ==
  /\ \A i \in DOMAIN change_queue : Stored(change_queue[i])
  /\ changed.version # 0 => changed.file \in Files /\ Stored(changed)

(* No snapshot of the reparse thread is ahead of the store. *)
OldSnapshot == \A f \in Files : View(snap[Reparser])[f] <= View(store)[f]

(* The two ways by which a text of f is still to come to u that do not rest *)
(* on the change the reparse thread works on, a hung handler among them.    *)
PendingMain(u, f) ==
  \/ /\ msg.kind = "didChange" /\ msg.file = f
     /\ mpc \in {"change", "lookup", "get", "copy", "translate"} \/ (mpc = "notify" /\ u # f)
  \/ HungOn(f)
PendingQueue(u, f) == u # f /\ \E i \in DOMAIN change_queue : change_queue[i].file = f
PendingChange(u, f) ==
  /\ u # f /\ changed.file = f
  /\ rpc \in {"polled", "get", "copy"} \/ u \in todo \/ (rpc = "reparse" /\ u = runit)
Told(u, f) == PendingMain(u, f) \/ PendingQueue(u, f) \/ PendingChange(u, f)
Excused(u, f) == PendingMain(u, f) \/ PendingQueue(u, f) \/ <<u, f>> \in missed

(* The causes of StaleForCause, whether or not the queue lost an update.    *)
StaleTold == \A u, f \in Files : Stale(u, f) => Told(u, f) \/ <<u, f>> \in missed

(* The reparse thread, when its snapshot is out of date, must not be what a *)
(* stale unit waits for.                                                    *)
BehindForCause ==
  rpc \in {"next", "reparse"} =>
    \A u, f \in Files :
      Stale(u, f) /\ View(snap[Reparser])[f] # View(store)[f] => Excused(u, f)

SInv ==
  /\ TypeOK
  /\ Holder
  /\ LockPlaces
  /\ MainPlace
  /\ ReparsePlace
  /\ ChangesStored
  /\ OldSnapshot
  /\ SnapshotWhole
  /\ SnapshotFresh
  /\ ReparseSeesChange
  /\ BehindForCause
  /\ StaleTold

-----------------------------------------------------------------------------
(* TypeOK by owner. *)

TextTypes ==
  /\ store \in Versions /\ mutex \in Threads \cup {None} /\ left \subseteq Files
  /\ snap \in [Threads -> Versions]
UnitTypes ==
  /\ active \subseteq Files /\ seen \in [Files -> [Files -> Nat]]
  /\ change_queue \in Seq([file : Files, version : Nat]) /\ raced \in BOOLEAN
  /\ size \in Nat /\ stored \in Nat /\ polled \in Nat /\ ahead \in Nat
  /\ missed \subseteq Files \X Files
LockTypes == handler \in BOOLEAN /\ indexing \subseteq Indexers
MainTypes ==
  /\ mpc \in {"listen", "open", "change", "lookup", "get", "copy", "translate", "notify", "store",
             "leave", "hung"}
  /\ msg \in [kind : {"didOpen", "didChange"}, file : Files \cup {None}, changes : Nat]
  /\ munit \in Files \cup {None} /\ messages \in 0 .. MaxMessages
ReparseTypes ==
  /\ rpc \in {"poll", "polled", "get", "copy", "next", "reparse", "hung"}
  /\ changed \in [file : Files \cup {None}, version : Nat]
  /\ todo \subseteq Files /\ runit \in Files \cup {None}
IndexTypes ==
  /\ ipc \in [Indexers -> {"poll", "get", "copy", "index"}] /\ unindexed \in 0 .. MaxIndexed

LEMMA TypesSplit ==
  TypeOK <=> TextTypes /\ UnitTypes /\ LockTypes /\ MainTypes /\ ReparseTypes /\ IndexTypes
BY DEF TypeOK, TextTypes, UnitTypes, LockTypes, MainTypes, ReparseTypes, IndexTypes

(* A group of variables that does not change keeps its types. *)
LEMMA TypeFrames ==
  ASSUME TypeOK
  PROVE  /\ UNCHANGED <<store, mutex, left, snap>> => TextTypes'
         /\ UNCHANGED <<active, seen, missed, change_queue, size, stored, polled, ahead, raced>> =>
              UnitTypes'
         /\ UNCHANGED <<handler, indexing>> => LockTypes'
         /\ UNCHANGED mainVars => MainTypes'
         /\ UNCHANGED reparseVars => ReparseTypes'
         /\ UNCHANGED indexVars => IndexTypes'
BY DEF TypeOK, TextTypes, UnitTypes, LockTypes, MainTypes, ReparseTypes, IndexTypes,
       mainVars, reparseVars, indexVars

-----------------------------------------------------------------------------
(* What the operators do. *)

(* A list of unsaved files gives clang a version of every file. *)
LEMMA ViewType ==
  ASSUME NEW list \in Versions
  PROVE  /\ View(list) \in [Files -> Nat]
         /\ \A f \in Files : View(list)[f] = IF list[f] = None THEN 0 ELSE list[f]
BY NoneAssumption DEF View, Versions

(* A snapshot starts, grows or is complete; what it has is the store's. *)
LEMMA SnapshotStep ==
  ASSUME TypeOK, SnapshotWhole, UNCHANGED store, NEW t \in Threads,
         SnapshotBegin(t) \/ SnapshotCopy(t) \/ SnapshotEnd(t)
  PROVE  /\ TextTypes' /\ SnapshotWhole'
         /\ \A s \in Threads \ {t} : snap'[s] = snap[s]
<1>1. t # None
  BY NoneAssumption DEF Threads
<1>2. CASE SnapshotBegin(t)
  <2>1. Nothing \in Versions
    BY DEF Nothing, Versions
  <2> QED
    BY <1>1, <1>2, <2>1 DEF SnapshotBegin, TypeOK, TextTypes, SnapshotWhole, Nothing
<1>3. CASE SnapshotCopy(t)
  <2>1. PICK f \in left : snap' = [snap EXCEPT ![t][f] = store[f]] /\ left' = left \ {f}
    BY <1>3 DEF SnapshotCopy
  <2>2. mutex = t /\ mutex' = t
    BY <1>3 DEF SnapshotCopy
  <2>3. f \in Files /\ snap[t] \in Versions /\ store[f] \in Nat \cup {None}
    BY <2>1 DEF TypeOK, Versions
  <2>4. snap' = [snap EXCEPT ![t] = [snap[t] EXCEPT ![f] = store[f]]]
    BY <2>1 DEF TypeOK
  <2>5. [snap[t] EXCEPT ![f] = store[f]] \in Versions
    BY <2>3 DEF Versions
  <2>6. TextTypes'
    BY <2>1, <2>2, <2>4, <2>5 DEF TypeOK, TextTypes
  <2>7. SnapshotWhole'
    BY <1>1, <2>1, <2>2, <2>3, <2>4 DEF TypeOK, SnapshotWhole, Versions
  <2> QED
    BY <2>4, <2>6, <2>7 DEF TypeOK
<1>4. CASE SnapshotEnd(t)
  BY <1>4 DEF SnapshotEnd, TypeOK, TextTypes, SnapshotWhole
<1> QED
  BY <1>2, <1>3, <1>4

(* A snapshot that is complete is the store. *)
LEMMA SnapshotComplete ==
  ASSUME TypeOK, SnapshotWhole, NEW t \in Threads, SnapshotEnd(t)
  PROVE  snap'[t] = store
<1>1. \A f \in Files : snap[t][f] = store[f]
  BY NoneAssumption DEF SnapshotEnd, SnapshotWhole, Threads
<1>2. snap[t] \in Versions /\ store \in Versions
  BY DEF TypeOK
<1> QED
  BY <1>1, <1>2 DEF SnapshotEnd, Versions

(* A list that is released is not one under way. *)
LEMMA ReleaseStep ==
  ASSUME TypeOK, SnapshotWhole, UNCHANGED <<store, mutex, left>>, NEW t \in Threads,
         mutex # t, Release(t)
  PROVE  /\ TextTypes' /\ SnapshotWhole'
         /\ snap'[t] = Nothing /\ \A s \in Threads \ {t} : snap'[s] = snap[s]
<1>1. Nothing \in Versions
  BY DEF Nothing, Versions
<1>2. TextTypes'
  BY <1>1 DEF Release, TypeOK, TextTypes
<1>3. snap'[t] = Nothing /\ \A s \in Threads \ {t} : snap'[s] = snap[s]
  BY <1>1 DEF Release, TypeOK
<1>4. SnapshotWhole'
  BY <1>3 DEF SnapshotWhole, TypeOK
<1> QED
  BY <1>2, <1>3, <1>4

(* A text is stored under a version no older than the one before it. *)
LEMMA SetStep ==
  ASSUME TypeOK, NEW f \in Files, NEW v \in Nat, UnsavedFileSet(f, v),
         store[f] = None \/ v >= store[f]
  PROVE  /\ TextTypes' /\ mutex = None /\ UNCHANGED <<mutex, left, snap>>
         /\ store'[f] = v
         /\ \A g \in Files \ {f} : store'[g] = store[g]
         /\ \A g \in Files : View(store)[g] <= View(store')[g]
         /\ \A g \in Files : store[g] # None => store'[g] # None /\ store'[g] >= store[g]
<1>1. store' \in Versions /\ store \in Versions
  BY DEF UnsavedFileSet, TypeOK, Versions
<1>2. TextTypes' /\ mutex = None /\ UNCHANGED <<mutex, left, snap>>
  BY <1>1 DEF UnsavedFileSet, TypeOK, TextTypes
<1>3. store'[f] = v /\ \A g \in Files \ {f} : store'[g] = store[g]
  BY DEF UnsavedFileSet, TypeOK, Versions
<1>4. \A g \in Files : store[g] \in Nat \cup {None} /\ None \notin Nat
  BY <1>1, NoneAssumption DEF Versions
<1>5. \A g \in Files : store[g] # None => store'[g] # None /\ store'[g] >= store[g]
  BY <1>3, <1>4
<1>6. \A g \in Files : View(store)[g] <= View(store')[g]
  BY <1>1, <1>3, <1>4, <1>5, ViewType
<1> QED
  BY <1>2, <1>3, <1>5, <1>6

(* NextVersion is newer than what is stored. *)
LEMMA NextVersionNewer ==
  ASSUME TypeOK, NEW f \in Files
  PROVE  NextVersion(f) \in Nat /\ (store[f] = None \/ NextVersion(f) >= store[f])
<1>1. store[f] \in Nat \cup {None}
  BY DEF TypeOK, Versions
<1> QED
  BY <1>1 DEF NextVersion

(* A translation changes what its unit has seen and no other.  The unit may *)
(* be denied texts by an older list, and keeps the denials it does not lift. *)
LEMMA SeesStep ==
  ASSUME TypeOK, NEW u \in Files, NEW list \in Versions, SeesOf(u, list)
  PROVE  /\ seen' \in [Files -> [Files -> Nat]] /\ missed' \subseteq Files \X Files
         /\ seen'[u] = View(list)
         /\ \A v \in Files \ {u} : seen'[v] = seen[v]
         /\ \A v \in Files \ {u}, f \in Files : <<v, f>> \in missed => <<v, f>> \in missed'
         /\ \A f \in Files : <<u, f>> \in missed /\ View(list)[f] # View(store)[f] =>
              <<u, f>> \in missed'
         /\ \A f \in Reads(u) : View(list)[f] < seen[u][f] => <<u, f>> \in missed'
<1>1. View(list) \in [Files -> Nat] /\ Reads(u) \subseteq Files
  BY ViewType, IncludesAssumption DEF Reads
<1>2. /\ seen' \in [Files -> [Files -> Nat]]
      /\ seen'[u] = View(list)
      /\ \A v \in Files \ {u} : seen'[v] = seen[v]
  BY <1>1 DEF SeesOf, TypeOK
<1>3. missed' \subseteq Files \X Files
  <2> DEFINE kept == {p \in missed : p[1] # u \/ View(list)[p[2]] # View(store)[p[2]]}
             denied == {<<u, f>> : f \in {g \in Reads(u) : View(list)[g] < seen[u][g]}}
  <2>1. missed' = kept \cup denied
    BY DEF SeesOf
  <2>2. kept \subseteq Files \X Files
    BY DEF TypeOK
  <2>3. denied \subseteq Files \X Files
    BY <1>1
  <2> QED
    BY <2>1, <2>2, <2>3
<1>4. \A v, f \in Files : <<v, f>>[1] = v /\ <<v, f>>[2] = f
  OBVIOUS
<1>5. \A v \in Files \ {u}, f \in Files : <<v, f>> \in missed => <<v, f>> \in missed'
  BY <1>4 DEF SeesOf
<1>6. \A f \in Files : <<u, f>> \in missed /\ View(list)[f] # View(store)[f] =>
        <<u, f>> \in missed'
  BY <1>4 DEF SeesOf
<1>7. \A f \in Reads(u) : View(list)[f] < seen[u][f] => <<u, f>> \in missed'
  BY DEF SeesOf
<1> QED
  BY <1>2, <1>3, <1>5, <1>6, <1>7

-----------------------------------------------------------------------------
(* The threads. *)

(* Main, Reparser and index threads are different. *)
LEMMA ThreadsDiffer ==
  /\ Main \in Threads /\ Reparser \in Threads /\ Indexers \subseteq Threads
  /\ Main # Reparser /\ None \notin Threads
  /\ \A t \in Indexers : t # Main /\ t # Reparser
BY ThreadsAssumption, NoneAssumption DEF Threads

(* What only the texts, units, main thread and reparse thread decide. *)
LEMMA CauseFrame ==
  ASSUME SInv, snap'[Reparser] = snap[Reparser],
         UNCHANGED <<store, active, seen, mpc, msg, munit, reparseVars, missed>>,
         UNCHANGED <<change_queue, size, stored, polled, ahead, raced>>
  PROVE  /\ MainPlace' /\ ReparsePlace' /\ ChangesStored' /\ OldSnapshot'
         /\ ReparseSeesChange' /\ BehindForCause' /\ StaleTold'
BY DEF SInv, MainPlace, ReparsePlace, ChangesStored, OldSnapshot, ReparseSeesChange, Stored, View,
       BehindForCause, StaleTold, Stale, Excused, Told, PendingMain, HungOn, PendingQueue,
          PendingChange, reparseVars

LEMMA IndexStep ==
  ASSUME SInv, NEW t \in Indexers, Indexer(t)
  PROVE  SInv'
<1> USE DEF SInv
<1>1. /\ UNCHANGED <<store, active, seen, missed>>
      /\ UNCHANGED <<change_queue, size, stored, polled, ahead, raced>>
      /\ UNCHANGED <<mainVars, mpc, msg, munit, reparseVars, rpc>>
  BY DEF Indexer, ISuspend, ISnapshot, IResume, mainVars, reparseVars, queueVars
<1>2. /\ TextTypes' /\ SnapshotWhole'
      /\ \A s \in Threads \ {t} : snap'[s] = snap[s]
  <2>1. CASE UNCHANGED <<mutex, left, snap>>
    BY <1>1, <2>1, TypeFrames DEF SnapshotWhole
  <2>2. CASE SnapshotBegin(t) \/ SnapshotCopy(t) \/ SnapshotEnd(t)
    BY <1>1, <2>2, SnapshotStep, ThreadsDiffer
  <2>3. CASE IResume(t)
    <3>1. mutex # t
      BY <2>3 DEF IResume, Holder
    <3> QED
      BY <1>1, <2>3, <3>1, ReleaseStep, ThreadsDiffer DEF IResume
  <2> QED
    BY <2>1, <2>2, <2>3 DEF Indexer, ISuspend, ISnapshot
<1>3. snap'[Main] = snap[Main] /\ snap'[Reparser] = snap[Reparser]
  BY <1>2, ThreadsDiffer
<1>4. UnitTypes' /\ MainTypes' /\ ReparseTypes'
  BY <1>1, TypeFrames
<1>5. LockTypes' /\ IndexTypes'
  <2>1. CASE ISuspend(t)
    <3>1. unindexed' \in 0 .. MaxIndexed
      BY <2>1, BoundsAssumption DEF ISuspend, TypeOK
    <3>2. ipc' \in [Indexers -> {"poll", "get", "copy", "index"}]
      BY <2>1 DEF ISuspend, TypeOK
    <3> QED
      BY <2>1, <3>1, <3>2 DEF ISuspend, HX!IndexerEnter, TypeOK, LockTypes, IndexTypes
  <2>2. CASE ISnapshot(t)
    BY <2>2 DEF ISnapshot, TypeOK, LockTypes, IndexTypes
  <2>3. CASE IResume(t)
    BY <2>3 DEF IResume, HX!IndexerLeave, TypeOK, LockTypes, IndexTypes
  <2> QED
    BY <2>1, <2>2, <2>3 DEF Indexer
<1>6. TypeOK'
  BY <1>2, <1>4, <1>5, TypesSplit DEF TypeOK, TextTypes, UnitTypes, LockTypes, MainTypes,
     ReparseTypes, IndexTypes
<1>7. LockPlaces'
  <2>1. CASE ISuspend(t)
    BY <1>1, <2>1 DEF ISuspend, HX!IndexerEnter, LockPlaces, TypeOK
  <2>2. CASE ISnapshot(t)
    BY <1>1, <2>2 DEF ISnapshot, LockPlaces, TypeOK
  <2>3. CASE IResume(t)
    BY <1>1, <2>3 DEF IResume, HX!IndexerLeave, LockPlaces, TypeOK
  <2> QED
    BY <2>1, <2>2, <2>3 DEF Indexer
<1>8. Holder'
  <2>1. CASE ISuspend(t) \/ IResume(t)
    BY <1>1, <2>1 DEF ISuspend, IResume, Holder, TypeOK
  <2>2. ASSUME ISnapshot(t)
        PROVE  Holder'
    <3>1. /\ \A s \in Indexers \ {t} : ipc'[s] = ipc[s]
          /\ \/ ipc[t] = "get" /\ ipc'[t] = "copy" /\ mutex = None /\ mutex' = t
             \/ ipc[t] = "copy" /\ ipc'[t] = "copy" /\ mutex = t /\ mutex' = t
             \/ ipc[t] = "copy" /\ ipc'[t] = "index" /\ mutex = t /\ mutex' = None
      BY <2>2 DEF ISnapshot, SnapshotBegin, SnapshotCopy, SnapshotEnd, TypeOK
    <3> QED
      BY <1>1, <3>1, ThreadsDiffer DEF Holder
  <2> QED
    BY <2>1, <2>2 DEF Indexer
<1>9. SnapshotFresh'
  <2>1. mpc' = "translate" => snap'[Main] = store'
    BY <1>1, <1>3 DEF SnapshotFresh
  <2>2. ASSUME NEW s \in Indexers, ipc'[s] = "index", s # t
        PROVE  snap'[s] = store'
    <3>1. ipc[s] = "index"
      BY <2>2 DEF Indexer, ISuspend, ISnapshot, IResume, TypeOK
    <3> QED
      BY <1>1, <1>2, <2>2, <3>1, ThreadsDiffer DEF SnapshotFresh
  <2>3. ASSUME ipc'[t] = "index"
        PROVE  snap'[t] = store'
    <3>1. SnapshotEnd(t)
      BY <2>3 DEF Indexer, ISuspend, ISnapshot, IResume, TypeOK
    <3> QED
      BY <1>1, <3>1, SnapshotComplete, ThreadsDiffer
  <2> QED
    BY <2>1, <2>2, <2>3 DEF SnapshotFresh
<1> QED
  BY <1>1, <1>2, <1>3, <1>6, <1>7, <1>8, <1>9, CauseFrame

-----------------------------------------------------------------------------
(* The reparse thread leaves the lock, the main thread and the index        *)
(* threads alone, and their snapshots too.                                  *)
LEMMA ReparseFrame ==
  ASSUME SInv, UNCHANGED <<store, active, handler, indexing, mainVars, indexVars>>,
         \A s \in Threads \ {Reparser} : snap'[s] = snap[s]
  PROVE  LockTypes' /\ MainTypes' /\ IndexTypes' /\ LockPlaces' /\ MainPlace' /\ SnapshotFresh'
<1> USE DEF SInv
<1>1. LockTypes' /\ MainTypes' /\ IndexTypes'
  BY TypeFrames
<1>2. LockPlaces' /\ MainPlace'
  BY DEF LockPlaces, MainPlace, mainVars, indexVars, queueVars
<1>3. SnapshotFresh'
  BY ThreadsDiffer DEF SnapshotFresh, mainVars, indexVars, queueVars
<1> QED
  BY <1>1, <1>2, <1>3

(* What follows a head and a tail of a queue. *)
LEMMA QueueTail ==
  ASSUME NEW S, NEW q \in Seq(S), q # <<>>
  PROVE  /\ Head(q) \in S /\ Tail(q) \in Seq(S)
         /\ 1 \in DOMAIN q /\ Head(q) = q[1]
         /\ \A i \in DOMAIN Tail(q) : i + 1 \in DOMAIN q /\ Tail(q)[i] = q[i + 1]
         /\ \A i \in DOMAIN q : i # 1 => i - 1 \in DOMAIN Tail(q) /\ Tail(q)[i - 1] = q[i]
<1>1. Len(q) \in Nat \ {0} /\ DOMAIN q = 1 .. Len(q) /\ Head(q) = q[1] /\ Head(q) \in S
  BY HeadTailProperties, EmptySeq, LenProperties
<1>2. Tail(q) \in Seq(S) /\ Len(Tail(q)) = Len(q) - 1
      /\ \A i \in 1 .. Len(Tail(q)) : Tail(q)[i] = q[i + 1]
  BY HeadTailProperties
<1>3. DOMAIN Tail(q) = 1 .. Len(Tail(q))
  BY <1>2, LenProperties
<1> QED
  BY <1>1, <1>2, <1>3

LEMMA TakeStep ==
  ASSUME SInv, RTake
  PROVE  SInv'
<1> USE DEF SInv
<1>1. /\ UNCHANGED <<store, mutex, left, snap, active, seen, handler, indexing, missed>>
      /\ UNCHANGED <<mainVars, mpc, msg, munit, todo, runit, indexVars, ipc, size, stored, raced>>
      /\ rpc = "poll" /\ rpc' = "polled" /\ size # 0 /\ polled' = size
      /\ \/ /\ change_queue # <<>> /\ ahead' = ahead
            /\ changed' = Head(change_queue) /\ change_queue' = Tail(change_queue)
         \/ changed' \in Garbage /\ change_queue' = change_queue /\ ahead' = ahead + 1
  BY DEF RTake, mainVars, indexVars
<1>2. change_queue \in Seq([file : Files, version : Nat]) /\ ahead \in Nat /\ size \in Nat
  BY DEF TypeOK
<1>3. /\ changed' \in [file : Files \cup {None}, version : Nat]
      /\ change_queue' \in Seq([file : Files, version : Nat]) /\ ahead' \in Nat
  <2>1. CASE change_queue # <<>> /\ changed' = Head(change_queue)
             /\ change_queue' = Tail(change_queue) /\ ahead' = ahead
    <3>1. Head(change_queue) \in [file : Files, version : Nat]
          /\ Tail(change_queue) \in Seq([file : Files, version : Nat])
      BY <1>2, <2>1, QueueTail
    <3> QED
      BY <1>2, <2>1, <3>1
  <2>2. CASE changed' \in Garbage /\ change_queue' = change_queue /\ ahead' = ahead + 1
    BY <1>2, <2>2 DEF Garbage
  <2> QED
    BY <1>1, <2>1, <2>2
<1>4. TypeOK'
  <2>1. ReparseTypes' /\ UnitTypes'
    BY <1>1, <1>2, <1>3 DEF TypeOK, ReparseTypes, UnitTypes
  <2> QED
    BY <1>1, <2>1, TypeFrames, ReparseFrame DEF TypeOK, TextTypes, UnitTypes, LockTypes, MainTypes,
       ReparseTypes, IndexTypes
<1>5. LockPlaces' /\ MainPlace' /\ SnapshotFresh'
  BY <1>1, ReparseFrame
<1>6. Holder' /\ OldSnapshot' /\ SnapshotWhole' /\ ReparseSeesChange' /\ BehindForCause'
  BY <1>1 DEF Holder, OldSnapshot, View, SnapshotWhole, ReparseSeesChange, BehindForCause
<1>7. ReparsePlace'
  BY <1>1 DEF ReparsePlace
<1>8. ChangesStored'
  <2>1. CASE change_queue # <<>> /\ changed' = Head(change_queue)
             /\ change_queue' = Tail(change_queue)
    <3>1. /\ changed' = change_queue[1] /\ 1 \in DOMAIN change_queue
          /\ changed' \in [file : Files, version : Nat]
          /\ \A i \in DOMAIN change_queue' :
               i + 1 \in DOMAIN change_queue /\ change_queue'[i] = change_queue[i + 1]
      BY <1>2, <2>1, QueueTail
    <3> QED
      BY <1>1, <3>1 DEF ChangesStored, Stored
  <2>2. CASE changed' \in Garbage /\ change_queue' = change_queue
    BY <1>1, <2>2 DEF ChangesStored, Stored, Garbage
  <2> QED
    BY <1>1, <2>1, <2>2
<1>9. StaleTold'
  <2> SUFFICES ASSUME NEW u \in Files, NEW f \in Files, Stale(u, f)'
               PROVE  Told(u, f)' \/ <<u, f>> \in missed'
    BY DEF StaleTold
  <2>1. Stale(u, f) /\ f # None
    BY <1>1, NoneAssumption DEF Stale, View
  <2>2. Told(u, f) \/ <<u, f>> \in missed
    BY <2>1 DEF StaleTold
  <2>3. ~PendingChange(u, f)
    BY <1>1, <2>1 DEF ReparsePlace, NoChange, PendingChange
  <2>4. PendingMain(u, f) => PendingMain(u, f)'
    BY <1>1 DEF PendingMain, HungOn
  <2>5. ASSUME NEW i \in DOMAIN change_queue, change_queue[i].file = f, u # f
        PROVE  PendingQueue(u, f)' \/ PendingChange(u, f)'
    <3>1. CASE change_queue' = change_queue
      BY <2>5, <3>1 DEF PendingQueue
    <3>2. CASE i = 1 /\ change_queue # <<>> /\ changed' = Head(change_queue)
      <4>1. changed' = change_queue[1]
        BY <1>2, <3>2, QueueTail
      <4> QED
        BY <1>1, <2>5, <3>2, <4>1 DEF PendingChange
    <3>3. CASE i # 1 /\ change_queue # <<>> /\ change_queue' = Tail(change_queue)
      <4>1. i - 1 \in DOMAIN change_queue' /\ change_queue'[i - 1].file = f
        BY <1>2, <2>5, <3>3, QueueTail
      <4> QED
        BY <2>5, <4>1 DEF PendingQueue
    <3> QED
      BY <1>1, <3>1, <3>2, <3>3
  <2> QED
    BY <1>1, <2>2, <2>3, <2>4, <2>5 DEF Told, PendingQueue
<1> QED
  BY <1>4, <1>5, <1>6, <1>7, <1>8, <1>9

(* A size that was loaded is stored larger or smaller: still a number. *)
LEMMA StoreStep ==
  ASSUME SInv, RStore
  PROVE  SInv'
<1> USE DEF SInv
<1>1. /\ UNCHANGED <<store, mutex, left, snap, active, seen, handler, indexing, missed>>
      /\ UNCHANGED <<mainVars, mpc, msg, munit, todo, runit, indexVars, ipc>>
      /\ UNCHANGED <<change_queue, stored, ahead>>
      /\ rpc = "polled" /\ polled' = 0 /\ size' = polled - 1 /\ raced' \in BOOLEAN
      /\ \/ active # {} /\ rpc' = "get" /\ changed' = changed
         \/ active = {} /\ rpc' = "poll" /\ changed' = NoChange
  BY DEF RStore, StoreSize, mainVars, indexVars, TypeOK
<1>2. size' \in Nat
  BY <1>1 DEF ReparsePlace, TypeOK
<1>3. TypeOK'
  <2>1. changed' \in [file : Files \cup {None}, version : Nat]
    BY <1>1 DEF TypeOK, NoChange
  <2>2. ReparseTypes'
    BY <1>1, <2>1 DEF TypeOK, ReparseTypes
  <2>3. UnitTypes'
    BY <1>1, <1>2 DEF TypeOK, UnitTypes
  <2> QED
    BY <1>1, <2>2, <2>3, TypeFrames, ReparseFrame DEF TypeOK, TextTypes, UnitTypes, LockTypes,
       MainTypes,
       ReparseTypes, IndexTypes
<1>4. LockPlaces' /\ MainPlace' /\ SnapshotFresh'
  BY <1>1, ReparseFrame
<1>5. Holder' /\ OldSnapshot' /\ SnapshotWhole' /\ ReparseSeesChange' /\ BehindForCause'
  BY <1>1 DEF Holder, OldSnapshot, View, SnapshotWhole, ReparseSeesChange, BehindForCause
<1>6. ReparsePlace' /\ ChangesStored'
  BY <1>1 DEF ReparsePlace, ChangesStored, Stored, NoChange
<1>7. StaleTold'
  <2> SUFFICES ASSUME NEW u \in Files, NEW f \in Files, Stale(u, f)'
               PROVE  Told(u, f)' \/ <<u, f>> \in missed'
    BY DEF StaleTold
  <2>1. Stale(u, f) /\ u \in active
    BY <1>1 DEF Stale, View
  <2>2. Told(u, f) \/ <<u, f>> \in missed
    BY <2>1 DEF StaleTold
  <2> QED
    BY <1>1, <2>1, <2>2 DEF Told, PendingMain, HungOn, PendingQueue, PendingChange
<1> QED
  BY <1>3, <1>4, <1>5, <1>6, <1>7

LEMMA ReparseSnapshotStep ==
  ASSUME SInv, RSnapshot
  PROVE  SInv'
<1> USE DEF SInv
<1> USE ThreadsDiffer
<1>1. /\ UNCHANGED <<store, active, seen, handler, indexing, missed>>
      /\ UNCHANGED <<change_queue, size, stored, polled, ahead, raced>>
      /\ UNCHANGED <<mainVars, mpc, msg, munit, changed, runit, indexVars, ipc>>
      /\ \/ rpc = "get" /\ SnapshotBegin(Reparser) /\ rpc' = "copy" /\ UNCHANGED todo
         \/ rpc = "copy" /\ SnapshotCopy(Reparser) /\ rpc' = "copy" /\ UNCHANGED todo
         \/ rpc = "copy" /\ SnapshotEnd(Reparser) /\ rpc' = "next" /\ todo' = active
  BY DEF RSnapshot, mainVars, indexVars, queueVars
<1>2. /\ TextTypes' /\ SnapshotWhole'
      /\ \A s \in Threads \ {Reparser} : snap'[s] = snap[s]
  BY <1>1, SnapshotStep
<1>3. LockTypes' /\ MainTypes' /\ IndexTypes' /\ LockPlaces' /\ MainPlace' /\ SnapshotFresh'
  BY <1>1, <1>2, ReparseFrame
<1>4. UnitTypes' /\ ReparseTypes'
  BY <1>1 DEF TypeOK, UnitTypes, ReparseTypes
<1>5. TypeOK'
  BY <1>2, <1>3, <1>4 DEF TypeOK, TextTypes, UnitTypes, LockTypes, MainTypes, ReparseTypes,
     IndexTypes
<1>6. Holder'
  <2>1. \/ rpc = "get" /\ rpc' = "copy" /\ mutex = None /\ mutex' = Reparser
        \/ rpc = "copy" /\ rpc' = "copy" /\ mutex = Reparser /\ mutex' = Reparser
        \/ rpc = "copy" /\ rpc' = "next" /\ mutex = Reparser /\ mutex' = None
    BY <1>1 DEF SnapshotBegin, SnapshotCopy, SnapshotEnd
  <2> QED
    BY <1>1, <2>1 DEF Holder
<1>7. ReparsePlace' /\ ChangesStored'
  BY <1>1 DEF ReparsePlace, ChangesStored, Stored
<1>8. rpc' = "next" => snap'[Reparser] = store
  BY <1>1, SnapshotComplete
<1>9. ReparseSeesChange' /\ BehindForCause'
  BY <1>1, <1>7, <1>8
  DEF ReparseSeesChange, BehindForCause, ChangesStored, Stored, View
<1>10. OldSnapshot'
  <2>1. store \in Versions /\ snap[Reparser] \in Versions /\ snap'[Reparser] \in Versions
    BY <1>2 DEF TypeOK, TextTypes
  <2>2. ASSUME NEW f \in Files
        PROVE  snap'[Reparser][f] \in {None, snap[Reparser][f], store[f]}
    <3>1. CASE SnapshotBegin(Reparser)
      BY <3>1 DEF SnapshotBegin, TypeOK, Nothing
    <3>2. CASE SnapshotCopy(Reparser)
      BY <3>2 DEF SnapshotCopy, TypeOK, Versions
    <3>3. CASE SnapshotEnd(Reparser)
      BY <3>3 DEF SnapshotEnd
    <3> QED
      BY <1>1, <3>1, <3>2, <3>3
  <2>3. \A f \in Files : View(store)[f] \in Nat /\ View(snap[Reparser])[f] <= View(store)[f]
    BY <2>1, ViewType DEF OldSnapshot
  <2> QED
    BY <1>1, <2>1, <2>2, <2>3, ViewType DEF OldSnapshot
<1>11. StaleTold'
  <2> SUFFICES ASSUME NEW u \in Files, NEW f \in Files, Stale(u, f)'
               PROVE  Told(u, f)' \/ <<u, f>> \in missed'
    BY DEF StaleTold
  <2>1. Stale(u, f) /\ u \in active
    BY <1>1 DEF Stale, View
  <2>2. Told(u, f) \/ <<u, f>> \in missed
    BY <2>1 DEF StaleTold
  <2> QED
    BY <1>1, <2>1, <2>2 DEF Told, PendingMain, HungOn, PendingQueue, PendingChange
<1> QED
  BY <1>2, <1>3, <1>5, <1>6, <1>7, <1>9, <1>10, <1>11

LEMMA NextUnitStep ==
  ASSUME SInv, RNext
  PROVE  SInv'
<1> USE DEF SInv
<1>1. /\ UNCHANGED <<store, mutex, left, active, seen, handler, indexing>>
      /\ UNCHANGED <<change_queue, size, stored, polled, ahead, raced>>
      /\ UNCHANGED <<missed, mainVars, mpc, msg, munit, indexVars, ipc>>
      /\ rpc = "next"
  BY DEF RNext, mainVars, indexVars, queueVars
<1>2. /\ TextTypes' /\ SnapshotWhole' /\ OldSnapshot'
      /\ LockTypes' /\ MainTypes' /\ IndexTypes' /\ LockPlaces' /\ MainPlace' /\ SnapshotFresh'
  <2>1. CASE UNCHANGED snap
    <3>1. TextTypes' /\ SnapshotWhole' /\ OldSnapshot'
      BY <1>1, <2>1, TypeFrames DEF SnapshotWhole, OldSnapshot, View
    <3> QED
      BY <1>1, <2>1, <3>1, ReparseFrame
  <2>2. CASE Release(Reparser)
    <3>1. mutex # Reparser
      BY <1>1 DEF Holder
    <3>2. /\ TextTypes' /\ SnapshotWhole'
          /\ snap'[Reparser] = Nothing /\ \A t \in Threads \ {Reparser} : snap'[t] = snap[t]
      BY <1>1, <2>2, <3>1, ReleaseStep, ThreadsDiffer
    <3>3. OldSnapshot'
      <4>1. \A f \in Files : View(snap'[Reparser])[f] = 0
        BY <3>2 DEF View, Nothing
      <4>2. View(store) \in [Files -> Nat] /\ View(store)' = View(store)
        BY <1>1, ViewType DEF TypeOK, View
      <4>3. View(snap[Reparser])' = View(snap'[Reparser])
        BY DEF View
      <4> QED
        BY <4>1, <4>2, <4>3 DEF OldSnapshot
    <3> QED
      BY <1>1, <3>2, <3>3, ReparseFrame
  <2> QED
    BY <2>1, <2>2 DEF RNext
<1>3. UnitTypes'
  BY <1>1, TypeFrames
<1>4. CASE /\ todo = {} /\ rpc' = "poll" /\ changed' = NoChange /\ runit' = None
           /\ UNCHANGED todo
  <2>1. ReparseTypes'
    BY <1>4 DEF TypeOK, ReparseTypes, NoChange
  <2>2. TypeOK'
    BY <1>2, <1>3, <2>1 DEF TypeOK, TextTypes, UnitTypes, LockTypes, MainTypes, ReparseTypes,
       IndexTypes
  <2>3. Holder' /\ ReparseSeesChange' /\ BehindForCause'
    BY <1>1, <1>4 DEF Holder, ReparseSeesChange, BehindForCause
  <2>4. ReparsePlace' /\ ChangesStored'
    BY <1>1, <1>4 DEF ReparsePlace, ChangesStored, Stored, NoChange
  <2>5. StaleTold'
    BY <1>1, <1>4 DEF StaleTold, Stale, View, Told, PendingMain, HungOn, PendingQueue, PendingChange
  <2> QED
    BY <1>2, <2>2, <2>3, <2>4, <2>5
<1>5. ASSUME NEW v \in todo, todo' = todo \ {v}, runit' = v, UNCHANGED <<snap, changed>>,
             rpc' = IF v \in active /\ changed.file \in Includes[v] \ {v}
                    THEN "reparse" ELSE "next"
      PROVE  SInv'
  <2>1. v \in Files /\ Includes[v] \subseteq Files
    BY IncludesAssumption DEF TypeOK
  <2>2. ReparseTypes'
    BY <1>5, <2>1 DEF TypeOK, ReparseTypes
  <2>3. TypeOK'
    BY <1>2, <1>3, <2>2 DEF TypeOK, TextTypes, UnitTypes, LockTypes, MainTypes, ReparseTypes,
       IndexTypes
  <2>4. Holder' /\ ReparseSeesChange'
    BY <1>1, <1>5 DEF Holder, ReparseSeesChange
  <2>5. BehindForCause'
    BY <1>1, <1>5 DEF BehindForCause, Stale, View, Excused, PendingMain, HungOn, PendingQueue
  <2>6. ReparsePlace' /\ ChangesStored'
    BY <1>1, <1>5, <2>1 DEF ReparsePlace, ChangesStored, Stored
  <2>7. StaleTold'
    <3> SUFFICES ASSUME NEW u \in Files, NEW f \in Files, Stale(u, f)'
                 PROVE  Told(u, f)' \/ <<u, f>> \in missed'
      BY DEF StaleTold
    <3>1. Stale(u, f) /\ u \in active /\ f \in Includes[u] \cup {u}
      BY <1>1 DEF Stale, View, Reads
    <3>2. Told(u, f) \/ <<u, f>> \in missed
      BY <3>1 DEF StaleTold
    <3>3. CASE u # v
      BY <1>1, <1>5, <3>2, <3>3 DEF Told, PendingMain, HungOn, PendingQueue, PendingChange
    <3>4. CASE u = v
      BY <1>1, <1>5, <3>1, <3>2, <3>4 DEF Told, PendingMain, HungOn, PendingQueue, PendingChange
    <3> QED
      BY <3>3, <3>4
  <2> QED
    BY <1>2, <2>3, <2>4, <2>5, <2>6, <2>7
<1> QED
  BY <1>4, <1>5 DEF RNext

(* A thread that hangs keeps what it had to do. *)
LEMMA HangStep ==
  ASSUME SInv, RHang
  PROVE  SInv'
<1> USE DEF SInv
<1>1. /\ UNCHANGED <<store, mutex, left, snap, active, seen, handler, indexing, missed>>
      /\ UNCHANGED <<change_queue, size, stored, polled, ahead, raced>>
      /\ UNCHANGED <<mainVars, mpc, msg, munit, changed, todo, runit, indexVars, ipc>>
      /\ rpc = "next" \/ (rpc = "reparse" /\ runit \notin active)
      /\ rpc' = "hung"
  BY DEF RHang, mainVars, indexVars, queueVars
<1>2. TypeOK'
  <2>1. ReparseTypes' /\ UnitTypes'
    BY <1>1 DEF TypeOK, ReparseTypes, UnitTypes
  <2> QED
    BY <1>1, <2>1, TypeFrames, ReparseFrame DEF TypeOK, TextTypes, UnitTypes, LockTypes, MainTypes,
       ReparseTypes, IndexTypes
<1>3. LockPlaces' /\ MainPlace' /\ SnapshotFresh'
  BY <1>1, ReparseFrame
<1>4. Holder' /\ OldSnapshot' /\ SnapshotWhole' /\ ReparseSeesChange' /\ BehindForCause'
  BY <1>1 DEF Holder, OldSnapshot, View, SnapshotWhole, ReparseSeesChange, BehindForCause
<1>5. ReparsePlace' /\ ChangesStored'
  BY <1>1 DEF ReparsePlace, ChangesStored, Stored
<1>6. StaleTold'
  <2> SUFFICES ASSUME NEW u \in Files, NEW f \in Files, Stale(u, f)'
               PROVE  Told(u, f)' \/ <<u, f>> \in missed'
    BY DEF StaleTold
  <2>1. Stale(u, f) /\ u \in active
    BY <1>1 DEF Stale, View
  <2>2. Told(u, f) \/ <<u, f>> \in missed
    BY <2>1 DEF StaleTold
  <2> QED
    BY <1>1, <2>1, <2>2 DEF Told, PendingMain, HungOn, PendingQueue, PendingChange
<1> QED
  BY <1>2, <1>3, <1>4, <1>5, <1>6

(* A background reparse with an old snapshot leaves its unit stale only     *)
(* where it was stale for another cause, or takes it back for this one.     *)
LEMMA BackgroundReparseStep ==
  ASSUME SInv, RReparse
  PROVE  SInv'
<1> USE DEF SInv
<1>1. /\ UNCHANGED <<store, mutex, left, snap, active, handler, indexing>>
      /\ UNCHANGED <<change_queue, size, stored, polled, ahead, raced>>
      /\ UNCHANGED <<mainVars, mpc, msg, munit, changed, todo, runit, indexVars, ipc>>
      /\ rpc = "reparse" /\ rpc' = "next"
  BY DEF RReparse, mainVars, indexVars, queueVars
<1>2. runit \in Files /\ changed.file \in Files /\ snap[Reparser] \in Versions
  BY <1>1, ThreadsDiffer DEF ReparsePlace, TypeOK
<1>3. /\ seen' \in [Files -> [Files -> Nat]] /\ missed' \subseteq Files \X Files
      /\ \A u \in Files \ {runit} : seen'[u] = seen[u]
      /\ \A u \in Files \ {runit}, f \in Files : <<u, f>> \in missed => <<u, f>> \in missed'
  <2>1. CASE SeesOf(runit, snap[Reparser])
    BY <1>2, <2>1, SeesStep
  <2>2. CASE missed' = missed \cup {<<runit, changed.file>>} /\ UNCHANGED seen
    <3>1. missed \subseteq missed' /\ missed' \subseteq Files \X Files
      <4>1. missed \subseteq Files \X Files
        BY DEF TypeOK
      <4>2. <<runit, changed.file>> \in Files \X Files
        BY <1>2
      <4> HIDE DEF SInv
      <4> QED
        BY <2>2, <4>1, <4>2
    <3> QED
      BY <2>2, <3>1 DEF TypeOK
  <2> QED
    BY <2>1, <2>2 DEF RReparse
<1>4. TypeOK'
  <2>1. UnitTypes' /\ ReparseTypes'
    BY <1>1, <1>3 DEF TypeOK, UnitTypes, ReparseTypes
  <2> QED
    BY <1>1, <2>1, TypeFrames, ReparseFrame DEF TypeOK, TextTypes, UnitTypes, LockTypes, MainTypes,
       ReparseTypes, IndexTypes
<1>5. LockPlaces' /\ MainPlace' /\ SnapshotFresh'
  BY <1>1, ReparseFrame
<1>6. Holder' /\ OldSnapshot' /\ SnapshotWhole' /\ ReparseSeesChange'
  BY <1>1 DEF Holder, OldSnapshot, View, SnapshotWhole, ReparseSeesChange
<1>7. ReparsePlace' /\ ChangesStored'
  BY <1>1, <1>2 DEF ReparsePlace, ChangesStored, Stored
<1>8. View(store)' = View(store) /\ View(snap[Reparser])' = View(snap[Reparser])
  BY <1>1 DEF View
<1>9. \A u, f \in Files : u # runit => (Stale(u, f)' <=> Stale(u, f))
  BY <1>1, <1>3, <1>8 DEF Stale
<1>10. ASSUME NEW u \in Files, NEW f \in Files, u = runit,
              SeesOf(runit, snap[Reparser]), Stale(u, f)'
       PROVE  Excused(u, f)'
  <2>1. View(snap[Reparser])[f] # View(store)[f] /\ f \in Reads(u) /\ u \in active
    BY <1>1, <1>2, <1>8, <1>10, SeesStep DEF Stale
  <2>2. CASE Stale(u, f)
    <3>1. Excused(u, f)
      BY <1>1, <2>1, <2>2 DEF BehindForCause
    <3>2. <<u, f>> \in missed => <<u, f>> \in missed'
      BY <1>2, <1>10, <2>1, SeesStep
    <3> QED
      BY <1>1, <3>1, <3>2 DEF Excused, PendingMain, HungOn, PendingQueue
  <2>3. CASE ~Stale(u, f)
    <3>1. seen[u][f] = View(store)[f]
      BY <2>1, <2>3 DEF Stale
    <3>2. View(snap[Reparser])[f] \in Nat /\ View(store)[f] \in Nat
      <4>1. store \in Versions
        BY DEF TypeOK
      <4>2. View(snap[Reparser]) \in [Files -> Nat] /\ View(store) \in [Files -> Nat]
        BY <1>2, <4>1, ViewType
      <4> QED
        BY <4>2
    <3>3. View(snap[Reparser])[f] < seen[u][f]
      BY <2>1, <3>1, <3>2 DEF OldSnapshot
    <3>4. <<u, f>> \in missed'
      BY <1>2, <1>10, <2>1, <3>3, SeesStep
    <3> QED
      BY <1>1, <3>4 DEF Excused
  <2> QED
    BY <2>2, <2>3
<1>11. CASE SeesOf(runit, snap[Reparser])
  <2>1. ASSUME NEW u \in Files, NEW f \in Files, Stale(u, f)'
        PROVE  Excused(u, f)' \/ (u # runit /\ Told(u, f)')
    <3>1. CASE u = runit
      BY <1>10, <1>11, <2>1, <3>1
    <3>2. CASE u # runit
      <4>1. Told(u, f) \/ <<u, f>> \in missed
        BY <1>9, <2>1, <3>2 DEF StaleTold
      <4> QED
        BY <1>1, <1>3, <3>2, <4>1 DEF Excused, Told, PendingMain, HungOn, PendingQueue,
           PendingChange
    <3> QED
      BY <3>1, <3>2
  <2>2. BehindForCause'
    <3> SUFFICES ASSUME NEW u \in Files, NEW f \in Files, Stale(u, f)',
                        View(snap[Reparser])[f] # View(store)[f]
                 PROVE  Excused(u, f)'
      BY <1>8 DEF BehindForCause
    <3>1. CASE u = runit
      BY <1>10, <1>11, <3>1
    <3>2. CASE u # runit
      <4>1. Excused(u, f)
        BY <1>1, <1>9, <3>2 DEF BehindForCause
      <4> QED
        BY <1>1, <1>3, <3>2, <4>1 DEF Excused, PendingMain, HungOn, PendingQueue
    <3> QED
      BY <3>1, <3>2
  <2>3. StaleTold'
    BY <2>1 DEF StaleTold, Excused, Told, PendingMain, HungOn, PendingQueue, PendingChange
  <2> QED
    BY <1>4, <1>5, <1>6, <1>7, <2>2, <2>3
<1>12. CASE missed' = missed \cup {<<runit, changed.file>>} /\ UNCHANGED seen
  <2>1. \A u, f \in Files : Stale(u, f)' <=> Stale(u, f)
    BY <1>1, <1>8, <1>12 DEF Stale
  <2>2. \A u, f \in Files : <<u, f>> \in missed => <<u, f>> \in missed'
    BY <1>12
  <2>3. BehindForCause'
    <3> SUFFICES ASSUME NEW u \in Files, NEW f \in Files, Stale(u, f)',
                        View(snap[Reparser])[f] # View(store)[f]
                 PROVE  Excused(u, f)'
      BY <1>8 DEF BehindForCause
    <3>1. Excused(u, f)
      BY <1>1, <2>1 DEF BehindForCause
    <3> QED
      BY <1>1, <2>2, <3>1 DEF Excused, PendingMain, HungOn, PendingQueue
  <2>4. StaleTold'
    <3> SUFFICES ASSUME NEW u \in Files, NEW f \in Files, Stale(u, f)'
                 PROVE  Told(u, f)' \/ <<u, f>> \in missed'
      BY DEF StaleTold
    <3>1. Told(u, f) \/ <<u, f>> \in missed
      BY <2>1 DEF StaleTold
    <3>2. CASE u = runit /\ f = changed.file
      BY <1>12, <3>2
    <3>3. CASE ~(u = runit /\ f = changed.file)
      BY <1>1, <2>2, <3>1, <3>3 DEF Told, PendingMain, HungOn, PendingQueue, PendingChange
    <3> QED
      BY <3>2, <3>3
  <2> QED
    BY <1>4, <1>5, <1>6, <1>7, <2>3, <2>4
<1> QED
  BY <1>11, <1>12 DEF RReparse

-----------------------------------------------------------------------------
(* What a step of the main thread leaves as it is when it touches no text,  *)
(* no snapshot and no queue, and lets the iterator of the reparse thread    *)
(* reach other units at most.                                               *)
LEMMA TextsKept ==
  ASSUME SInv, UNCHANGED <<store, mutex, left, rpc, changed, runit, indexVars>>,
         UNCHANGED <<change_queue, size, stored, polled, ahead, raced>>,
         UNCHANGED snap \/ (mpc = "translate" /\ mpc' # "translate" /\ Release(Main)),
         todo' \subseteq Files, mpc' = "translate" => mpc = "translate"
  PROVE  /\ TextTypes' /\ ReparseTypes' /\ IndexTypes'
         /\ ReparsePlace' /\ ChangesStored' /\ OldSnapshot'
         /\ SnapshotWhole' /\ SnapshotFresh' /\ ReparseSeesChange'
<1> USE DEF SInv
<1>1. IndexTypes'
  BY TypeFrames
<1>2. ReparseTypes'
  BY DEF TypeOK, ReparseTypes
<1>3. /\ TextTypes' /\ SnapshotWhole' /\ snap'[Reparser] = snap[Reparser]
      /\ \A t \in Indexers : snap'[t] = snap[t]
  <2>1. CASE UNCHANGED snap
    BY <2>1, TypeFrames DEF SnapshotWhole
  <2>2. CASE mpc = "translate" /\ Release(Main)
    <3>1. mutex # Main
      BY <2>2 DEF Holder
    <3> QED
      BY <2>2, <3>1, ReleaseStep, ThreadsDiffer
  <2> QED
    BY <2>1, <2>2
<1>4. ReparsePlace' /\ ChangesStored' /\ OldSnapshot' /\ ReparseSeesChange'
  BY <1>3 DEF ReparsePlace, ChangesStored, Stored, OldSnapshot, View, ReparseSeesChange
<1>5. SnapshotFresh'
  BY <1>3 DEF SnapshotFresh, indexVars
<1> QED
  BY <1>1, <1>2, <1>3, <1>4, <1>5

(* What the changes on their way say is not undone by a later text. *)
LEMMA ChangesKept ==
  ASSUME SInv, store' \in Versions, UNCHANGED <<change_queue, changed>>,
         \A f \in Files : store[f] # None => store'[f] # None /\ store'[f] >= store[f]
  PROVE  ChangesStored'
<1> USE DEF SInv
<1>1. ASSUME NEW c \in [file : Files \cup {None}, version : Nat], c.file \in Files, Stored(c)
      PROVE  store'[c.file] # None /\ store'[c.file] >= c.version
  <2>1. store[c.file] \in Nat \cup {None} /\ store'[c.file] \in Nat \cup {None}
    BY <1>1 DEF TypeOK, Versions
  <2>2. c.version \in Nat /\ None \notin Nat
    BY NoneAssumption
  <2>3. store[c.file] # None /\ store[c.file] >= c.version
    BY <1>1 DEF Stored
  <2>4. store'[c.file] # None /\ store'[c.file] >= store[c.file]
    BY <1>1, <2>3
  <2> QED
    BY <2>1, <2>2, <2>3, <2>4
<1>2. ASSUME NEW i \in DOMAIN change_queue
      PROVE  store'[change_queue[i].file] # None
             /\ store'[change_queue[i].file] >= change_queue[i].version
  <2>1. change_queue[i] \in [file : Files, version : Nat]
    <3>1. change_queue \in Seq([file : Files, version : Nat])
      BY DEF TypeOK
    <3> HIDE DEF SInv
    <3> QED
      BY <1>2, <3>1, ElementOfSeq, LenProperties
  <2>2. change_queue[i] \in [file : Files \cup {None}, version : Nat]
        /\ change_queue[i].file \in Files
    BY <2>1
  <2>3. Stored(change_queue[i])
    BY <1>2 DEF ChangesStored
  <2> QED
    BY <1>1, <2>2, <2>3
<1>3. ASSUME changed.version # 0
      PROVE  store'[changed.file] # None /\ store'[changed.file] >= changed.version
  <2>1. changed \in [file : Files \cup {None}, version : Nat] /\ changed.file \in Files
    BY <1>3 DEF TypeOK, ChangesStored
  <2>2. Stored(changed)
    BY <1>3 DEF ChangesStored
  <2> QED
    BY <1>1, <2>1, <2>2
<1> QED
  BY <1>2, <1>3 DEF ChangesStored, Stored

(* A handler that stores a text. *)
LEMMA TextStored ==
  ASSUME SInv, NEW f \in Files, NEW v \in Nat, UnsavedFileSet(f, v),
         store[f] = None \/ v >= store[f],
         UNCHANGED <<change_queue, size, stored, polled, ahead, raced, reparseVars, indexVars>>,
         mpc # "listen", mpc' # "translate"
  PROVE  /\ TextTypes' /\ ReparseTypes' /\ IndexTypes'
         /\ ReparsePlace' /\ ChangesStored' /\ OldSnapshot'
         /\ SnapshotWhole' /\ SnapshotFresh' /\ ReparseSeesChange'
         /\ store'[f] # None /\ mutex' = mutex /\ snap' = snap
         /\ \A g \in Files \ {f} : View(store)'[g] = View(store)[g]
         /\ v = 0 /\ store[f] = None => View(store)' = View(store)
<1> USE DEF SInv
<1>1. /\ TextTypes' /\ mutex = None /\ UNCHANGED <<mutex, left, snap>>
      /\ store'[f] = v
      /\ \A g \in Files \ {f} : store'[g] = store[g]
      /\ \A g \in Files : View(store)[g] <= View(store')[g]
      /\ \A g \in Files : store[g] # None => store'[g] # None /\ store'[g] >= store[g]
  BY SetStep
<1>2. store \in Versions /\ store' \in Versions /\ snap[Reparser] \in Versions
  BY <1>1, ThreadsDiffer DEF TypeOK, TextTypes
<1>3. View(store) \in [Files -> Nat] /\ View(store') \in [Files -> Nat]
      /\ View(snap[Reparser]) \in [Files -> Nat] /\ View(store)' = View(store')
  BY <1>2, ViewType DEF View
<1>4. ReparseTypes' /\ IndexTypes'
  BY TypeFrames
<1>5. ReparsePlace' /\ ReparseSeesChange' /\ SnapshotWhole'
  BY <1>1 DEF ReparsePlace, ReparseSeesChange, SnapshotWhole, reparseVars, queueVars
<1>6. ChangesStored'
  BY <1>1, <1>2, ChangesKept DEF reparseVars, queueVars
<1>7. OldSnapshot'
  <2>1. View(snap[Reparser])' = View(snap[Reparser])
    BY <1>1 DEF View
  <2>2. ASSUME NEW g \in Files
        PROVE  View(snap[Reparser])[g] <= View(store')[g]
    <3>1. View(snap[Reparser])[g] \in Nat /\ View(store)[g] \in Nat /\ View(store')[g] \in Nat
      BY <1>3
    <3>2. View(snap[Reparser])[g] <= View(store)[g] /\ View(store)[g] <= View(store')[g]
      BY <1>1 DEF OldSnapshot
    <3> QED
      BY <3>1, <3>2
  <2> QED
    BY <1>3, <2>1, <2>2 DEF OldSnapshot
<1>8. SnapshotFresh'
  <2>1. \A t \in Indexers : ipc'[t] # "index"
    BY DEF LockPlaces, indexVars, queueVars
  <2> QED
    BY <2>1 DEF SnapshotFresh
<1>9. store'[f] # None
  BY <1>1, NoneAssumption
<1>10. \A g \in Files \ {f} : View(store)'[g] = View(store)[g]
  BY <1>1, <1>2, <1>3, ViewType
<1>11. v = 0 /\ store[f] = None => View(store)' = View(store)
  <2>1. v = 0 /\ store[f] = None => View(store')[f] = View(store)[f]
    BY <1>1, <1>2, ViewType, NoneAssumption
  <2> QED
    BY <1>3, <1>10, <2>1
<1> QED
  BY <1>1, <1>4, <1>5, <1>6, <1>7, <1>8, <1>9, <1>10, <1>11

(* A step of the main thread keeps the causes of all stale units when each  *)
(* stale unit either is excused, or was stale for the same text before and  *)
(* keeps its excuse if it had one: the reparse thread goes on where it was. *)
LEMMA CausesKept ==
  ASSUME SInv, UNCHANGED <<rpc, changed, runit>>, snap'[Reparser] = snap[Reparser],
         todo \subseteq todo',
         \A u, f \in Files :
           Stale(u, f)' =>
             \/ Excused(u, f)'
             \/ /\ Stale(u, f) /\ View(store)'[f] = View(store)[f]
                /\ Excused(u, f) => Excused(u, f)'
  PROVE  BehindForCause' /\ StaleTold'
<1> USE DEF SInv
<1>1. BehindForCause'
  <2>1. View(snap[Reparser])' = View(snap[Reparser])
    BY DEF View
  <2> SUFFICES ASSUME NEW u \in Files, NEW f \in Files, rpc \in {"next", "reparse"},
                      Stale(u, f)', View(snap[Reparser])[f] # View(store)'[f]
               PROVE  Excused(u, f)'
    BY <2>1 DEF BehindForCause
  <2> QED
    BY DEF BehindForCause
<1>2. StaleTold'
  <2> SUFFICES ASSUME NEW u \in Files, NEW f \in Files, Stale(u, f)'
               PROVE  Told(u, f)' \/ <<u, f>> \in missed'
    BY DEF StaleTold
  <2>1. Excused(u, f)' => Told(u, f)' \/ <<u, f>> \in missed'
    BY DEF Excused, Told, PendingMain, HungOn, PendingQueue, PendingChange
  <2>2. PendingChange(u, f) => Told(u, f)'
    BY DEF PendingChange, Told, PendingMain, HungOn, PendingQueue, PendingChange
  <2>3. Stale(u, f) => Excused(u, f) \/ PendingChange(u, f)
    BY DEF StaleTold, Told, PendingMain, HungOn, PendingQueue, PendingChange, Excused,
       PendingMain, HungOn, PendingQueue, PendingChange
  <2> QED
    BY <2>1, <2>2, <2>3
<1> QED
  BY <1>1, <1>2

(* No step of the main thread is where a snapshot is under way, but those   *)
(* that make its own.                                                       *)
LEMMA PlacesKept ==
  ASSUME SInv, UNCHANGED <<mutex, rpc, indexVars, handler, indexing>>,
         mpc \notin {"copy", "listen"}, mpc' \notin {"copy", "listen"}
  PROVE  Holder' /\ LockPlaces'
BY DEF SInv, Holder, LockPlaces, indexVars

-----------------------------------------------------------------------------
(* The handler.                                                             *)

LEMMA ReceiveStep ==
  ASSUME SInv, Receive
  PROVE  SInv'
<1> USE DEF SInv
<1>1. /\ UNCHANGED <<store, mutex, left, snap, active, seen, munit, missed>>
      /\ UNCHANGED <<change_queue, size, stored, polled, ahead, raced>>
      /\ UNCHANGED <<reparseVars, rpc, changed, todo, runit, indexVars, ipc, indexing>>
      /\ mpc = "listen" /\ messages > 0 /\ messages' = messages - 1
      /\ ~handler /\ indexing = {} /\ handler' = TRUE
  BY DEF Receive, HX!HandlerEnter, reparseVars, indexVars, queueVars
<1>2. PICK f \in Files :
        \/ /\ msg' = [kind |-> "didOpen", file |-> f, changes |-> 0]
           /\ mpc' = "open"
        \/ /\ store[f] # None
           /\ \E n \in 1 .. MaxChanges :
                msg' = [kind |-> "didChange", file |-> f, changes |-> n]
           /\ mpc' = "change"
  BY DEF Receive
<1>3. /\ msg' \in [kind : {"didOpen", "didChange"}, file : Files \cup {None}, changes : Nat]
      /\ msg'.file = f
      /\ mpc' = "open" => msg'.kind = "didOpen"
      /\ mpc' = "change" => msg'.kind = "didChange" /\ store[f] # None
      /\ mpc' \in {"open", "change"}
  BY <1>2, BoundsAssumption
<1>4. todo' \subseteq Files
  BY <1>1 DEF TypeOK
<1>5. /\ TextTypes' /\ ReparseTypes' /\ IndexTypes'
      /\ ReparsePlace' /\ ChangesStored' /\ OldSnapshot'
      /\ SnapshotWhole' /\ SnapshotFresh' /\ ReparseSeesChange'
  BY <1>1, <1>3, <1>4, TextsKept
<1>6. TypeOK'
  <2>1. messages' \in 0 .. MaxMessages
    BY <1>1, BoundsAssumption DEF TypeOK
  <2>2. UnitTypes' /\ LockTypes' /\ MainTypes'
    BY <1>1, <1>3, <2>1 DEF TypeOK, UnitTypes, LockTypes, MainTypes
  <2> QED
    BY <1>5, <2>2 DEF TypeOK, TextTypes, UnitTypes, LockTypes, MainTypes, ReparseTypes, IndexTypes
<1>7. Holder' /\ LockPlaces'
  BY <1>1, <1>3 DEF Holder, LockPlaces
<1>8. MainPlace'
  BY <1>1, <1>3 DEF MainPlace
<1>9. BehindForCause' /\ StaleTold'
  <2>1. ASSUME NEW u \in Files, NEW g \in Files, Stale(u, g)'
        PROVE  Stale(u, g) /\ View(store)'[g] = View(store)[g]
               /\ (Excused(u, g) => Excused(u, g)')
    BY <1>1, <2>1 DEF Stale, View, Excused, PendingMain, HungOn, PendingQueue
  <2> QED
    BY <1>1, <2>1, CausesKept
<1> QED
  BY <1>5, <1>6, <1>7, <1>8, <1>9

LEMMA OpenStep ==
  ASSUME SInv, Open
  PROVE  SInv'
<1> USE DEF SInv
<1>1. /\ UNCHANGED <<active, seen, handler, indexing, msg, munit, messages>>
      /\ UNCHANGED <<change_queue, size, stored, polled, ahead, raced>>
      /\ UNCHANGED <<reparseVars, rpc, changed, todo, runit, indexVars, ipc>>
      /\ mpc = "open" /\ mpc' = "lookup"
      /\ msg.file \in Files /\ msg.kind = "didOpen"
  BY DEF Open, MainPlace, reparseVars, indexVars, queueVars
<1>2. PICK v \in Nat :
        /\ UnsavedFileSet(msg.file, v)
        /\ store[msg.file] = None \/ v >= store[msg.file]
        /\ \/ v = 0 /\ store[msg.file] = None /\ UNCHANGED missed
           \/ missed' = missed \cup
                {<<u, msg.file>> : u \in {w \in active : msg.file \in Reads(w)}}
  BY <1>1, NextVersionNewer DEF Open
<1>3. /\ TextTypes' /\ ReparseTypes' /\ IndexTypes'
      /\ ReparsePlace' /\ ChangesStored' /\ OldSnapshot'
      /\ SnapshotWhole' /\ SnapshotFresh' /\ ReparseSeesChange'
      /\ store'[msg.file] # None /\ mutex' = mutex /\ snap' = snap
      /\ \A g \in Files \ {msg.file} : View(store)'[g] = View(store)[g]
      /\ v = 0 /\ store[msg.file] = None => View(store)' = View(store)
  BY <1>1, <1>2, TextStored
<1>4. TypeOK'
  <2>1. missed' \subseteq Files \X Files
    <3>1. missed \subseteq Files \X Files /\ active \subseteq Files
      BY DEF TypeOK
    <3> HIDE DEF SInv
    <3> QED
      BY <1>1, <1>2, <3>1
  <2>2. UnitTypes' /\ LockTypes' /\ MainTypes'
    BY <1>1, <2>1 DEF TypeOK, UnitTypes, LockTypes, MainTypes
  <2> QED
    BY <1>3, <2>2 DEF TypeOK, TextTypes, UnitTypes, LockTypes, MainTypes, ReparseTypes, IndexTypes
<1>5. Holder' /\ LockPlaces'
  BY <1>1, <1>3, PlacesKept
<1>6. MainPlace'
  BY <1>1, <1>3 DEF MainPlace
<1>7. BehindForCause' /\ StaleTold'
  <2>1. \A u, g \in Files : Excused(u, g) => Excused(u, g)'
    BY <1>1, <1>2 DEF Excused, PendingMain, HungOn, PendingQueue
  <2>2. ASSUME NEW u \in Files, NEW g \in Files, Stale(u, g)'
        PROVE  Excused(u, g)' \/ (Stale(u, g) /\ View(store)'[g] = View(store)[g])
    <3>1. u \in active /\ g \in Reads(u) /\ seen[u][g] # View(store)'[g]
      BY <1>1, <2>2 DEF Stale
    <3>2. CASE View(store)'[g] = View(store)[g]
      BY <3>1, <3>2 DEF Stale
    <3>3. CASE View(store)'[g] # View(store)[g]
      <4>1. g = msg.file /\ ~(v = 0 /\ store[msg.file] = None)
        BY <1>3, <3>3
      <4>2. <<u, g>> \in missed'
        BY <1>2, <3>1, <4>1
      <4> QED
        BY <4>2 DEF Excused
    <3> QED
      BY <3>2, <3>3
  <2> QED
    BY <1>1, <1>3, <2>1, <2>2, CausesKept
<1> QED
  BY <1>3, <1>4, <1>5, <1>6, <1>7

LEMMA ChangeStep ==
  ASSUME SInv, Change
  PROVE  SInv'
<1> USE DEF SInv
<1>1. /\ UNCHANGED <<active, seen, handler, indexing, munit, messages, missed>>
      /\ UNCHANGED <<change_queue, size, stored, polled, ahead, raced>>
      /\ UNCHANGED <<reparseVars, rpc, changed, todo, runit, indexVars, ipc>>
      /\ mpc = "change" /\ msg.file \in Files /\ msg.kind = "didChange"
      /\ store[msg.file] # None
  BY DEF Change, MainPlace, reparseVars, indexVars, queueVars
<1>2. CASE /\ msg.changes > 0 /\ UnsavedFileSet(msg.file, NextVersion(msg.file))
           /\ msg' = [msg EXCEPT !.changes = @ - 1] /\ UNCHANGED mpc
  <2>1. /\ TextTypes' /\ ReparseTypes' /\ IndexTypes'
        /\ ReparsePlace' /\ ChangesStored' /\ OldSnapshot'
        /\ SnapshotWhole' /\ SnapshotFresh' /\ ReparseSeesChange'
        /\ store'[msg.file] # None /\ mutex' = mutex /\ snap' = snap
        /\ \A g \in Files \ {msg.file} : View(store)'[g] = View(store)[g]
    BY <1>1, <1>2, NextVersionNewer, TextStored
  <2>2. /\ msg' \in [kind : {"didOpen", "didChange"}, file : Files \cup {None}, changes : Nat]
        /\ msg'.file = msg.file /\ msg'.kind = msg.kind
    <3> DEFINE n == msg.changes - 1
    <3>0. msg.changes \in Nat
      BY DEF TypeOK
    <3>1. n \in Nat
      BY <1>2, <3>0
    <3>2. msg' = [msg EXCEPT !.changes = n]
      BY <1>2
    <3> HIDE DEF n
    <3> QED
      BY <3>1, <3>2 DEF TypeOK
  <2>3. TypeOK'
    <3>1. UnitTypes' /\ LockTypes' /\ MainTypes'
      BY <1>1, <1>2, <2>2 DEF TypeOK, UnitTypes, LockTypes, MainTypes
    <3> QED
      BY <2>1, <3>1 DEF TypeOK, TextTypes, UnitTypes, LockTypes, MainTypes, ReparseTypes, IndexTypes
  <2>4. Holder' /\ LockPlaces'
    BY <1>1, <1>2, <2>1, PlacesKept
  <2>5. MainPlace'
    BY <1>1, <1>2, <2>1, <2>2 DEF MainPlace
  <2>6. BehindForCause' /\ StaleTold'
    <3>1. \A u, g \in Files : Excused(u, g) => Excused(u, g)'
      BY <1>1, <1>2, <2>2 DEF Excused, PendingMain, HungOn, PendingQueue
    <3>2. ASSUME NEW u \in Files, NEW g \in Files, Stale(u, g)'
          PROVE  Excused(u, g)' \/ (Stale(u, g) /\ View(store)'[g] = View(store)[g])
      <4>1. CASE g = msg.file
        BY <1>1, <1>2, <2>2, <4>1 DEF Excused, PendingMain, HungOn
      <4>2. CASE g # msg.file
        BY <1>1, <2>1, <3>2, <4>2 DEF Stale
      <4> QED
        BY <4>1, <4>2
    <3> QED
      BY <1>1, <2>1, <3>1, <3>2, CausesKept
  <2> QED
    BY <2>1, <2>3, <2>4, <2>5, <2>6
<1>3. CASE mpc' \in {"lookup", "hung"} /\ UNCHANGED <<store, mutex, left, snap, msg>>
  <2>1. /\ TextTypes' /\ ReparseTypes' /\ IndexTypes'
        /\ ReparsePlace' /\ ChangesStored' /\ OldSnapshot'
        /\ SnapshotWhole' /\ SnapshotFresh' /\ ReparseSeesChange'
    <3>1. todo' \subseteq Files
      BY <1>1 DEF TypeOK
    <3> QED
      BY <1>1, <1>3, <3>1, TextsKept
  <2>2. TypeOK'
    <3>1. UnitTypes' /\ LockTypes' /\ MainTypes'
      BY <1>1, <1>3 DEF TypeOK, UnitTypes, LockTypes, MainTypes
    <3> QED
      BY <2>1, <3>1 DEF TypeOK, TextTypes, UnitTypes, LockTypes, MainTypes, ReparseTypes, IndexTypes
  <2>3. Holder' /\ LockPlaces'
    BY <1>1, <1>3, PlacesKept
  <2>4. MainPlace'
    BY <1>1, <1>3 DEF MainPlace
  <2>5. BehindForCause' /\ StaleTold'
    <3>1. ASSUME NEW u \in Files, NEW g \in Files, Stale(u, g)'
          PROVE  Stale(u, g) /\ View(store)'[g] = View(store)[g]
                 /\ (Excused(u, g) => Excused(u, g)')
      BY <1>1, <1>3, <3>1 DEF Stale, View, Excused, PendingMain, HungOn, PendingQueue
    <3> QED
      BY <1>1, <1>3, <3>1, CausesKept
  <2> QED
    BY <2>1, <2>2, <2>3, <2>4, <2>5
<1> QED
  BY <1>2, <1>3 DEF Change

LEMMA LookupStep ==
  ASSUME SInv, Lookup
  PROVE  SInv'
<1> USE DEF SInv
<1> DEFINE sources == {s \in active : HeaderOf[s] = msg.file /\ msg.file \in Includes[s]}
<1>1. /\ UNCHANGED <<store, mutex, left, snap, active, seen, handler, indexing>>
      /\ UNCHANGED <<change_queue, size, stored, polled, ahead, raced>>
      /\ UNCHANGED <<msg, messages, missed>>
      /\ UNCHANGED <<reparseVars, rpc, changed, todo, runit, indexVars, ipc>>
      /\ mpc = "lookup" /\ msg.file \in Files
      /\ msg.kind \in {"didOpen", "didChange"}
      /\ store[msg.file] # None
  BY DEF Lookup, MainPlace, reparseVars, indexVars, queueVars, TypeOK
<1>2. \/ /\ munit' \in active /\ (msg.file \in active => munit' = msg.file)
         /\ mpc' = IF msg.kind = "didOpen" THEN "leave" ELSE "get"
      \/ /\ msg.file \notin active /\ munit' = msg.file /\ mpc' \in {"get", "hung"}
  BY DEF Lookup
<1>3. munit' \in Files
  BY <1>1, <1>2 DEF TypeOK
<1>4. /\ TextTypes' /\ ReparseTypes' /\ IndexTypes'
      /\ ReparsePlace' /\ ChangesStored' /\ OldSnapshot'
      /\ SnapshotWhole' /\ SnapshotFresh' /\ ReparseSeesChange'
  <2>1. todo' \subseteq Files
    BY <1>1 DEF TypeOK
  <2> QED
    BY <1>1, <1>2, <2>1, TextsKept
<1>5. TypeOK'
  <2>1. UnitTypes' /\ LockTypes' /\ MainTypes'
    BY <1>1, <1>2, <1>3 DEF TypeOK, UnitTypes, LockTypes, MainTypes
  <2> QED
    BY <1>4, <2>1 DEF TypeOK, TextTypes, UnitTypes, LockTypes, MainTypes, ReparseTypes, IndexTypes
<1>6. Holder' /\ LockPlaces'
  BY <1>1, <1>2, PlacesKept
<1>7. MainPlace'
  BY <1>1, <1>2, <1>3 DEF MainPlace
<1>8. BehindForCause' /\ StaleTold'
  <2>1. ASSUME NEW u \in Files, NEW g \in Files, Stale(u, g)'
        PROVE  Stale(u, g) /\ View(store)'[g] = View(store)[g]
               /\ (Excused(u, g) => Excused(u, g)')
    BY <1>1, <1>2, <2>1 DEF Stale, View, Excused, PendingMain, HungOn, PendingQueue
  <2> QED
    BY <1>1, <2>1, CausesKept
<1> QED
  BY <1>4, <1>5, <1>6, <1>7, <1>8

LEMMA MainSnapshotStep ==
  ASSUME SInv, MainSnapshot
  PROVE  SInv'
<1> USE DEF SInv
<1> USE ThreadsDiffer
<1>1. /\ UNCHANGED <<store, active, seen, handler, indexing, msg, munit, messages>>
      /\ UNCHANGED <<change_queue, size, stored, polled, ahead, raced>>
      /\ UNCHANGED <<missed, reparseVars, rpc, changed, todo, runit, indexVars, ipc>>
      /\ \/ mpc = "get" /\ SnapshotBegin(Main) /\ mpc' = "copy"
         \/ mpc = "copy" /\ SnapshotCopy(Main) /\ mpc' = "copy"
         \/ mpc = "copy" /\ SnapshotEnd(Main) /\ mpc' = "translate"
  BY DEF MainSnapshot, reparseVars, indexVars, queueVars
<1>2. /\ TextTypes' /\ SnapshotWhole'
      /\ \A s \in Threads \ {Main} : snap'[s] = snap[s]
  BY <1>1, SnapshotStep
<1>3. snap'[Reparser] = snap[Reparser]
  BY <1>2
<1>4. TypeOK'
  <2>1. UnitTypes' /\ LockTypes' /\ MainTypes' /\ ReparseTypes' /\ IndexTypes'
    BY <1>1, TypeFrames DEF TypeOK, MainTypes
  <2> QED
    BY <1>2, <2>1 DEF TypeOK, TextTypes, UnitTypes, LockTypes, MainTypes, ReparseTypes, IndexTypes
<1>5. Holder'
  <2>1. \/ mpc = "get" /\ mpc' = "copy" /\ mutex = None /\ mutex' = Main
        \/ mpc = "copy" /\ mpc' = "copy" /\ mutex = Main /\ mutex' = Main
        \/ mpc = "copy" /\ mpc' = "translate" /\ mutex = Main /\ mutex' = None
    BY <1>1 DEF SnapshotBegin, SnapshotCopy, SnapshotEnd
  <2> QED
    BY <1>1, <2>1 DEF Holder
<1>6. LockPlaces' /\ MainPlace' /\ ReparsePlace' /\ ChangesStored'
  BY <1>1 DEF LockPlaces, MainPlace, ReparsePlace, ChangesStored, Stored
<1>7. OldSnapshot' /\ ReparseSeesChange'
  BY <1>1, <1>3 DEF OldSnapshot, View, ReparseSeesChange
<1>8. SnapshotFresh'
  <2>1. mpc' = "translate" => snap'[Main] = store'
    BY <1>1, SnapshotComplete
  <2>2. \A t \in Indexers : ipc'[t] = "index" => snap'[t] = store'
    BY <1>1, <1>2 DEF SnapshotFresh
  <2> QED
    BY <2>1, <2>2 DEF SnapshotFresh
<1>9. BehindForCause' /\ StaleTold'
  <2>1. ASSUME NEW u \in Files, NEW g \in Files, Stale(u, g)'
        PROVE  Stale(u, g) /\ View(store)'[g] = View(store)[g]
               /\ (Excused(u, g) => Excused(u, g)')
    BY <1>1, <2>1 DEF Stale, View, Excused, PendingMain, HungOn, PendingQueue
  <2> QED
    BY <1>1, <1>3, <2>1, CausesKept
<1> QED
  BY <1>2, <1>4, <1>5, <1>6, <1>7, <1>8, <1>9

(* A handler translates its unit with the very texts that are stored. *)
LEMMA SeesStore ==
  ASSUME SInv, mpc = "translate", munit \in Files, SeesOf(munit, snap[Main]), UNCHANGED store
  PROVE  /\ seen' \in [Files -> [Files -> Nat]] /\ missed' \subseteq Files \X Files
         /\ \A g \in Files : ~Stale(munit, g)' \/ munit' # munit
         /\ \A g \in Files : seen'[munit][g] = View(store)'[g]
         /\ \A v \in Files \ {munit} : seen'[v] = seen[v]
         /\ \A v \in Files \ {munit}, g \in Files : <<v, g>> \in missed => <<v, g>> \in missed'
<1>1. snap[Main] = store /\ store \in Versions
  BY DEF SInv, SnapshotFresh, TypeOK
<1>2. SeesOf(munit, store) /\ TypeOK
  BY <1>1 DEF SInv
<1>3. View(store)' = View(store)
  BY DEF View
<1>4. /\ seen' \in [Files -> [Files -> Nat]] /\ missed' \subseteq Files \X Files
      /\ seen'[munit] = View(store)'
      /\ \A v \in Files \ {munit} : seen'[v] = seen[v]
      /\ \A v \in Files \ {munit}, g \in Files : <<v, g>> \in missed => <<v, g>> \in missed'
  BY <1>1, <1>2, <1>3, SeesStep
<1> QED
  BY <1>4 DEF Stale

LEMMA ParseStep ==
  ASSUME SInv, Parse
  PROVE  SInv'
<1> USE DEF SInv
<1>1. /\ UNCHANGED <<store, mutex, left, handler, indexing, msg, munit>>
      /\ UNCHANGED <<change_queue, size, stored, polled, ahead, raced>>
      /\ UNCHANGED <<messages, rpc, changed, runit, indexVars, ipc>>
      /\ mpc = "translate" /\ munit \notin active /\ munit \in Files /\ munit = msg.file
      /\ msg.file \in Files /\ msg.kind \in {"didOpen", "didChange"} /\ store[msg.file] # None
  BY DEF Parse, MainPlace, indexVars, queueVars, TypeOK
<1>2. View(store)' = View(store)
  BY <1>1 DEF View
<1>3. CASE /\ SeesOf(munit, snap[Main]) /\ active' = active \cup {munit} /\ IteratorDisturbed
           /\ Release(Main) /\ mpc' # "translate"
           /\ mpc' = IF msg.kind = "didOpen" THEN "leave" ELSE "get"
  <2>1. /\ seen' \in [Files -> [Files -> Nat]] /\ missed' \subseteq Files \X Files
        /\ \A g \in Files : seen'[munit][g] = View(store)'[g]
        /\ \A v \in Files \ {munit} : seen'[v] = seen[v]
        /\ \A v \in Files \ {munit}, g \in Files : <<v, g>> \in missed => <<v, g>> \in missed'
    BY <1>1, <1>3, SeesStore
  <2>2. active' \subseteq Files /\ todo \subseteq todo' /\ todo' \subseteq Files
    BY <1>1, <1>3 DEF IteratorDisturbed, TypeOK
  <2>3. /\ TextTypes' /\ ReparseTypes' /\ IndexTypes'
        /\ ReparsePlace' /\ ChangesStored' /\ OldSnapshot'
        /\ SnapshotWhole' /\ SnapshotFresh' /\ ReparseSeesChange'
    BY <1>1, <1>3, <2>2, TextsKept
  <2>4. TypeOK'
    <3>1. UnitTypes' /\ LockTypes' /\ MainTypes'
      BY <1>1, <1>3, <2>1, <2>2 DEF TypeOK, UnitTypes, LockTypes, MainTypes
    <3> QED
      BY <2>3, <3>1 DEF TypeOK, TextTypes, UnitTypes, LockTypes, MainTypes, ReparseTypes, IndexTypes
  <2>5. Holder' /\ LockPlaces'
    BY <1>1, <1>3, PlacesKept
  <2>6. MainPlace'
    BY <1>1, <1>3 DEF MainPlace
  <2>7. snap'[Reparser] = snap[Reparser]
    BY <1>1, <1>3, ReleaseStep, ThreadsDiffer DEF Holder
  <2>8. BehindForCause' /\ StaleTold'
    <3>1. ASSUME NEW u \in Files, NEW g \in Files, Stale(u, g)'
          PROVE  Stale(u, g) /\ View(store)'[g] = View(store)[g]
                 /\ (Excused(u, g) => Excused(u, g)')
      <4>1. u \in active' /\ g \in Reads(u) /\ seen'[u][g] # View(store)'[g]
        BY <3>1 DEF Stale
      <4>2. u # munit
        BY <2>1, <4>1
      <4>3. Stale(u, g)
        BY <1>2, <1>3, <2>1, <4>1, <4>2 DEF Stale
      <4>4. Excused(u, g) => Excused(u, g)'
        BY <1>1, <1>3, <2>1, <4>2 DEF Excused, PendingMain, HungOn, PendingQueue
      <4> QED
        BY <1>2, <4>3, <4>4
    <3> QED
      BY <1>1, <2>2, <2>7, <3>1, CausesKept
  <2> QED
    BY <2>3, <2>4, <2>5, <2>6, <2>8
<1>4. CASE /\ missed' = missed \cup
                {<<u, msg.file>> : u \in {v \in active : msg.file \in Reads(v)}}
           /\ mpc' = "leave" /\ UNCHANGED <<snap, active, seen, todo>>
  <2>1. missed' \subseteq Files \X Files /\ todo' \subseteq Files
    <3>1. missed \subseteq Files \X Files /\ active \subseteq Files /\ todo \subseteq Files
      BY DEF TypeOK
    <3> HIDE DEF SInv
    <3> QED
      BY <1>1, <1>4, <3>1
  <2>2. /\ TextTypes' /\ ReparseTypes' /\ IndexTypes'
        /\ ReparsePlace' /\ ChangesStored' /\ OldSnapshot'
        /\ SnapshotWhole' /\ SnapshotFresh' /\ ReparseSeesChange'
    BY <1>1, <1>4, <2>1, TextsKept
  <2>3. TypeOK'
    <3>1. UnitTypes' /\ LockTypes' /\ MainTypes'
      BY <1>1, <1>4, <2>1 DEF TypeOK, UnitTypes, LockTypes, MainTypes
    <3> QED
      BY <2>2, <3>1 DEF TypeOK, TextTypes, UnitTypes, LockTypes, MainTypes, ReparseTypes, IndexTypes
  <2>4. Holder' /\ LockPlaces'
    BY <1>1, <1>4, PlacesKept
  <2>5. MainPlace'
    BY <1>1, <1>4 DEF MainPlace
  <2>6. BehindForCause' /\ StaleTold'
    <3>1. ASSUME NEW u \in Files, NEW g \in Files, Stale(u, g)'
          PROVE  Stale(u, g) /\ View(store)'[g] = View(store)[g]
                 /\ (Excused(u, g) => Excused(u, g)')
      <4>1. Stale(u, g) /\ u \in active /\ g \in Reads(u)
        BY <1>2, <1>4, <3>1 DEF Stale
      <4>2. PendingMain(u, g) => <<u, g>> \in missed'
        BY <1>4, <4>1 DEF PendingMain, HungOn
      <4>3. Excused(u, g) => Excused(u, g)'
        BY <1>1, <1>4, <4>2 DEF Excused, PendingQueue
      <4> QED
        BY <1>2, <4>1, <4>3
    <3> QED
      BY <1>1, <1>4, <3>1, CausesKept
  <2> QED
    BY <2>2, <2>3, <2>4, <2>5, <2>6
<1> QED
  BY <1>3, <1>4 DEF Parse

(* The unit of the file is the one translated, if the file has one: what    *)
(* is left to the reparse thread are the other units.                       *)
LEMMA ReparseStep ==
  ASSUME SInv, Reparse
  PROVE  SInv'
<1> USE DEF SInv
<1>1. /\ UNCHANGED <<store, mutex, left, handler, indexing, msg, munit>>
      /\ UNCHANGED <<change_queue, size, stored, polled, ahead, raced>>
      /\ UNCHANGED <<messages, reparseVars, rpc, changed, todo, runit, indexVars, ipc>>
      /\ mpc = "translate" /\ mpc' = "notify" /\ Release(Main)
      /\ munit \in active /\ munit \in Files
      /\ msg.file \in active => munit = msg.file
      /\ msg.file \in Files /\ msg.kind = "didChange" /\ store[msg.file] # None
  BY DEF Reparse, MainPlace, reparseVars, indexVars, queueVars
<1>2. View(store)' = View(store)
  BY <1>1 DEF View
<1>3. /\ active' \subseteq active
      /\ seen' \in [Files -> [Files -> Nat]] /\ missed' \subseteq Files \X Files
      /\ munit \notin active' \/ \A g \in Files : seen'[munit][g] = View(store)'[g]
      /\ \A v \in Files \ {munit} : seen'[v] = seen[v]
      /\ \A v \in Files \ {munit}, g \in Files : <<v, g>> \in missed => <<v, g>> \in missed'
  <2>1. CASE SeesOf(munit, snap[Main]) /\ UNCHANGED active
    BY <1>1, <2>1, SeesStore
  <2>2. CASE active' = active \ {munit} /\ UNCHANGED <<seen, missed>>
    BY <2>2 DEF TypeOK
  <2> QED
    BY <2>1, <2>2 DEF Reparse
<1>4. /\ TextTypes' /\ ReparseTypes' /\ IndexTypes'
      /\ ReparsePlace' /\ ChangesStored' /\ OldSnapshot'
      /\ SnapshotWhole' /\ SnapshotFresh' /\ ReparseSeesChange'
  <2>1. todo' \subseteq Files
    BY <1>1 DEF TypeOK
  <2> QED
    BY <1>1, <2>1, TextsKept
<1>5. TypeOK'
  <2>1. UnitTypes' /\ LockTypes' /\ MainTypes'
    BY <1>1, <1>3 DEF TypeOK, UnitTypes, LockTypes, MainTypes
  <2> QED
    BY <1>4, <2>1 DEF TypeOK, TextTypes, UnitTypes, LockTypes, MainTypes, ReparseTypes, IndexTypes
<1>6. Holder' /\ LockPlaces'
  BY <1>1, PlacesKept
<1>7. MainPlace'
  BY <1>1 DEF MainPlace
<1>8. snap'[Reparser] = snap[Reparser]
  BY <1>1, ReleaseStep, ThreadsDiffer DEF Holder
<1>9. BehindForCause' /\ StaleTold'
  <2>1. ASSUME NEW u \in Files, NEW g \in Files, Stale(u, g)'
        PROVE  Stale(u, g) /\ View(store)'[g] = View(store)[g]
               /\ (Excused(u, g) => Excused(u, g)')
    <3>1. u \in active' /\ g \in Reads(u) /\ seen'[u][g] # View(store)'[g]
      BY <2>1 DEF Stale
    <3>2. u # munit /\ u \in active
      BY <1>3, <3>1
    <3>3. Stale(u, g)
      BY <1>2, <1>3, <3>1, <3>2 DEF Stale
    <3>4. PendingMain(u, g) => PendingMain(u, g)'
      BY <1>1, <3>2 DEF PendingMain, HungOn
    <3>5. Excused(u, g) => Excused(u, g)'
      BY <1>1, <1>3, <3>2, <3>4 DEF Excused, PendingQueue
    <3> QED
      BY <1>2, <3>3, <3>5
  <2> QED
    BY <1>1, <1>8, <2>1, CausesKept
<1> QED
  BY <1>4, <1>5, <1>6, <1>7, <1>9

(* What a queue is after an append. *)
LEMMA QueueAppend ==
  ASSUME NEW S, NEW q \in Seq(S), NEW c \in S
  PROVE  /\ Append(q, c) \in Seq(S)
         /\ \A i \in DOMAIN q : i \in DOMAIN Append(q, c) /\ Append(q, c)[i] = q[i]
         /\ \E i \in DOMAIN Append(q, c) : Append(q, c)[i] = c
         /\ \A i \in DOMAIN Append(q, c) : i \in DOMAIN q \/ Append(q, c)[i] = c
<1>1. Len(q) \in Nat /\ DOMAIN q = 1 .. Len(q)
  BY LenProperties
<1>2. /\ Append(q, c) \in Seq(S) /\ Len(Append(q, c)) = Len(q) + 1
      /\ \A i \in 1 .. Len(q) : Append(q, c)[i] = q[i]
      /\ Append(q, c)[Len(q) + 1] = c
  BY AppendProperties
<1>3. DOMAIN Append(q, c) = 1 .. Len(q) + 1
  BY <1>2, LenProperties
<1> QED
  BY <1>1, <1>2, <1>3

LEMMA NotifyStep ==
  ASSUME SInv, Notify
  PROVE  SInv'
<1> USE DEF SInv
<1> DEFINE c == [file |-> msg.file, version |-> store[msg.file]]
           passed == {<<u, msg.file>> : u \in {v \in active \ {msg.file} : msg.file \in Reads(v)}}
<1>1. /\ UNCHANGED <<store, mutex, left, snap, active, seen, handler, indexing, msg, munit>>
      /\ UNCHANGED <<messages, reparseVars, rpc, changed, todo, runit, indexVars, ipc>>
      /\ UNCHANGED <<size, polled, raced>>
      /\ mpc = "notify" /\ mpc' = "store" /\ stored' = size
      /\ msg.file \in Files /\ store[msg.file] # None
      /\ \/ change_queue' = Append(change_queue, c) /\ UNCHANGED <<ahead, missed>>
         \/ /\ ahead # 0 /\ ahead' = ahead - 1
            /\ missed' = missed \cup passed /\ UNCHANGED change_queue
  BY DEF Notify, MainPlace, reparseVars, indexVars
<1>2. store[msg.file] \in Nat
  BY <1>1 DEF TypeOK, Versions
<1>3. c \in [file : Files, version : Nat] /\ c.file = msg.file /\ c.version = store[msg.file]
  BY <1>1, <1>2
<1>4. passed \subseteq Files \X Files
      /\ \A u \in active \ {msg.file} : msg.file \in Reads(u) => <<u, msg.file>> \in passed
  <2>1. active \subseteq Files
    BY DEF TypeOK
  <2> HIDE DEF SInv
  <2> QED
    BY <1>1, <2>1
<1> HIDE DEF c, passed
<1>5. /\ change_queue \in Seq([file : Files, version : Nat]) /\ missed \subseteq Files \X Files
      /\ ahead \in Nat /\ size \in Nat
  BY DEF TypeOK
<1>6. ASSUME change_queue' = Append(change_queue, c)
      PROVE  /\ change_queue' \in Seq([file : Files, version : Nat])
             /\ \A i \in DOMAIN change_queue :
                  i \in DOMAIN change_queue' /\ change_queue'[i] = change_queue[i]
             /\ \E i \in DOMAIN change_queue' : change_queue'[i] = c
             /\ \A i \in DOMAIN change_queue' : i \in DOMAIN change_queue \/ change_queue'[i] = c
  BY <1>3, <1>5, <1>6, QueueAppend
<1>7. TypeOK'
  <2>1. /\ change_queue' \in Seq([file : Files, version : Nat]) /\ missed' \subseteq Files \X Files
        /\ ahead' \in Nat
    BY <1>1, <1>4, <1>5, <1>6
  <2>2. UnitTypes'
    BY <1>1, <1>5, <2>1 DEF TypeOK, UnitTypes
  <2>3. TextTypes' /\ LockTypes' /\ MainTypes' /\ ReparseTypes' /\ IndexTypes'
    BY <1>1, TypeFrames DEF TypeOK, MainTypes
  <2> QED
    BY <2>2, <2>3 DEF TypeOK, TextTypes, UnitTypes, LockTypes, MainTypes, ReparseTypes, IndexTypes
<1>8. Holder' /\ LockPlaces'
  BY <1>1, PlacesKept
<1>9. MainPlace' /\ ReparsePlace' /\ OldSnapshot' /\ SnapshotWhole' /\ SnapshotFresh'
      /\ ReparseSeesChange'
  BY <1>1 DEF MainPlace, ReparsePlace, OldSnapshot, View, SnapshotWhole, SnapshotFresh,
     ReparseSeesChange
<1>10. ChangesStored'
  <2>1. Stored(c)
    BY <1>1, <1>2, <1>3 DEF Stored
  <2>2. \A i \in DOMAIN change_queue' : Stored(change_queue'[i])
    BY <1>1, <1>6, <2>1 DEF ChangesStored
  <2> QED
    BY <1>1, <2>2 DEF ChangesStored, Stored
<1>11. BehindForCause' /\ StaleTold'
  <2>1. ASSUME NEW u \in Files, NEW g \in Files, Stale(u, g)'
        PROVE  Stale(u, g) /\ View(store)'[g] = View(store)[g]
               /\ (Excused(u, g) => Excused(u, g)')
    <3>1. Stale(u, g) /\ View(store)'[g] = View(store)[g]
      BY <1>1, <2>1 DEF Stale, View
    <3>2. PendingMain(u, g) => PendingQueue(u, g)' \/ <<u, g>> \in missed'
      <4>1. ASSUME PendingMain(u, g)
            PROVE  u # g /\ g = msg.file
        BY <1>1, <4>1 DEF PendingMain, HungOn
      <4>2. u \in active /\ g \in Reads(u)
        BY <3>1 DEF Stale
      <4>3. CASE change_queue' = Append(change_queue, c)
        BY <1>3, <1>6, <4>1, <4>3 DEF PendingQueue
      <4>4. CASE missed' = missed \cup passed
        BY <1>4, <4>1, <4>2, <4>4
      <4> QED
        BY <1>1, <4>3, <4>4
    <3>3. PendingQueue(u, g) => PendingQueue(u, g)'
      BY <1>1, <1>6 DEF PendingQueue
    <3>4. <<u, g>> \in missed => <<u, g>> \in missed'
      BY <1>1
    <3> QED
      BY <3>1, <3>2, <3>3, <3>4 DEF Excused
  <2> QED
    BY <1>1, <2>1, CausesKept
<1> QED
  BY <1>7, <1>8, <1>9, <1>10, <1>11

LEMMA NotifyStoreStep ==
  ASSUME SInv, NotifyStore
  PROVE  SInv'
<1> USE DEF SInv
<1>1. /\ UNCHANGED <<store, mutex, left, snap, active, seen, handler, indexing, msg, munit>>
      /\ UNCHANGED <<messages, reparseVars, rpc, changed, todo, runit, indexVars, ipc, missed>>
      /\ UNCHANGED <<change_queue, polled, ahead>>
      /\ mpc = "store" /\ mpc' = "leave"
      /\ stored' = 0 /\ size' = stored + 1 /\ raced' \in BOOLEAN
  BY DEF NotifyStore, StoreSize, reparseVars, indexVars, TypeOK
<1>2. TypeOK'
  <2>0. stored \in Nat /\ size' \in Nat
    BY <1>1 DEF TypeOK
  <2>1. UnitTypes'
    <3>1. size' \in Nat /\ stored' \in Nat /\ raced' \in BOOLEAN
      BY <1>1, <2>0
    <3> QED
      BY <1>1, <3>1, TypesSplit DEF TypeOK, UnitTypes
  <2>2. TextTypes' /\ LockTypes' /\ MainTypes' /\ ReparseTypes' /\ IndexTypes'
    BY <1>1, TypeFrames DEF TypeOK, MainTypes
  <2> QED
    BY <2>1, <2>2 DEF TypeOK, TextTypes, UnitTypes, LockTypes, MainTypes, ReparseTypes, IndexTypes
<1>3. Holder' /\ LockPlaces'
  BY <1>1, PlacesKept
<1>4. MainPlace' /\ ReparsePlace' /\ OldSnapshot' /\ SnapshotWhole' /\ SnapshotFresh'
      /\ ReparseSeesChange' /\ ChangesStored'
  BY <1>1 DEF MainPlace, ReparsePlace, OldSnapshot, View, SnapshotWhole, SnapshotFresh,
     ReparseSeesChange, ChangesStored, Stored
<1>5. BehindForCause' /\ StaleTold'
  <2>1. ASSUME NEW u \in Files, NEW g \in Files, Stale(u, g)'
        PROVE  Stale(u, g) /\ View(store)'[g] = View(store)[g]
               /\ (Excused(u, g) => Excused(u, g)')
    BY <1>1, <2>1 DEF Stale, View, Excused, PendingMain, HungOn, PendingQueue
  <2> QED
    BY <1>1, <2>1, CausesKept
<1> QED
  BY <1>2, <1>3, <1>4, <1>5

LEMMA LeaveStep ==
  ASSUME SInv, Leave
  PROVE  SInv'
<1> USE DEF SInv
<1>1. /\ UNCHANGED <<store, mutex, left, snap, active, seen, messages, missed>>
      /\ UNCHANGED <<change_queue, size, stored, polled, ahead, raced>>
      /\ UNCHANGED <<reparseVars, rpc, changed, todo, runit, indexVars, ipc, indexing>>
      /\ mpc = "leave" /\ mpc' = "listen" /\ msg' = NoMessage /\ munit' = None
      /\ handler' = FALSE
  BY DEF Leave, HX!HandlerLeave, reparseVars, indexVars, queueVars
<1>2. /\ TextTypes' /\ ReparseTypes' /\ IndexTypes'
      /\ ReparsePlace' /\ ChangesStored' /\ OldSnapshot'
      /\ SnapshotWhole' /\ SnapshotFresh' /\ ReparseSeesChange'
  <2>1. todo' \subseteq Files
    BY <1>1 DEF TypeOK
  <2> QED
    BY <1>1, <2>1, TextsKept
<1>3. TypeOK'
  <2>1. UnitTypes' /\ LockTypes' /\ MainTypes'
    BY <1>1 DEF TypeOK, UnitTypes, LockTypes, MainTypes, NoMessage
  <2> QED
    BY <1>2, <2>1 DEF TypeOK, TextTypes, UnitTypes, LockTypes, MainTypes, ReparseTypes, IndexTypes
<1>4. Holder' /\ LockPlaces' /\ MainPlace'
  BY <1>1 DEF Holder, LockPlaces, MainPlace
<1>5. BehindForCause' /\ StaleTold'
  <2>1. ASSUME NEW u \in Files, NEW g \in Files, Stale(u, g)'
        PROVE  Stale(u, g) /\ View(store)'[g] = View(store)[g]
               /\ (Excused(u, g) => Excused(u, g)')
    BY <1>1, <2>1 DEF Stale, View, Excused, PendingMain, HungOn, PendingQueue
  <2> QED
    BY <1>1, <2>1, CausesKept
<1> QED
  BY <1>2, <1>3, <1>4, <1>5

-----------------------------------------------------------------------------
(* The invariant and the theorems.                                          *)

LEMMA InitInv == Init => SInv
<1> SUFFICES ASSUME Init PROVE SInv
  OBVIOUS
<1> USE DEF Init, HX!HxInit
<1>1. Nothing \in Versions /\ \A f \in Files : View(Nothing)[f] = 0
  BY DEF Nothing, Versions, View
<1>2. snap[Main] = Nothing /\ snap[Reparser] = Nothing
  BY ThreadsDiffer
<1>3. TypeOK
  <2>1. messages \in 0 .. MaxMessages /\ unindexed \in 0 .. MaxIndexed
    BY BoundsAssumption
  <2>2. change_queue \in Seq([file : Files, version : Nat])
    BY EmptySeq
  <2> QED
    BY <1>1, <2>1, <2>2 DEF TypeOK, NoMessage, NoChange
<1>4. Holder /\ LockPlaces /\ MainPlace /\ ReparsePlace
  BY ThreadsDiffer DEF Holder, LockPlaces, MainPlace, ReparsePlace, NoChange
<1>5. ChangesStored
  BY DEF ChangesStored, NoChange
<1>6. OldSnapshot /\ SnapshotWhole /\ SnapshotFresh /\ ReparseSeesChange
  BY <1>1, <1>2 DEF OldSnapshot, SnapshotWhole, SnapshotFresh, ReparseSeesChange
<1>7. BehindForCause /\ StaleTold
  BY DEF BehindForCause, StaleTold, Stale
<1> QED
  BY <1>3, <1>4, <1>5, <1>6, <1>7 DEF SInv

LEMMA NextInv == SInv /\ [Next]_vars => SInv'
<1> SUFFICES ASSUME SInv, [Next]_vars PROVE SInv'
  OBVIOUS
<1>1. CASE Receive
  BY <1>1, ReceiveStep
<1>2. CASE InHandler
  BY <1>2, OpenStep, ChangeStep, LookupStep, MainSnapshotStep, ParseStep, ReparseStep, NotifyStep,
     NotifyStoreStep, LeaveStep DEF InHandler
<1>3. CASE ReparseNext
  BY <1>3, TakeStep, StoreStep, ReparseSnapshotStep, NextUnitStep, BackgroundReparseStep,
     HangStep DEF ReparseNext
<1>4. CASE \E t \in Indexers : Indexer(t)
  BY <1>4, IndexStep
<1>5. CASE UNCHANGED vars
  <2>1. /\ UNCHANGED <<store, mutex, left, snap, active, seen, handler, indexing>>
        /\ UNCHANGED <<change_queue, size, stored, polled, ahead, raced>>
        /\ UNCHANGED <<mpc, msg, munit, messages, rpc, changed, todo, runit, ipc, unindexed>>
        /\ UNCHANGED <<missed, mainVars, reparseVars, indexVars>>
    BY <1>5 DEF vars, mainVars, reparseVars, indexVars, queueVars
  <2>2. TypeOK'
    BY <2>1, TypeFrames, TypesSplit DEF SInv, TypeOK, TextTypes, UnitTypes, LockTypes, MainTypes,
       ReparseTypes, IndexTypes
  <2>3. Holder' /\ LockPlaces' /\ SnapshotWhole' /\ SnapshotFresh'
    BY <2>1 DEF SInv, Holder, LockPlaces, SnapshotWhole, SnapshotFresh
  <2> QED
    BY <2>1, <2>2, <2>3, CauseFrame DEF SInv
<1> QED
  BY <1>1, <1>2, <1>3, <1>4, <1>5 DEF Next

(* The inductive invariant.  The lock gives the handler and the index       *)
(* threads their fresh snapshots, the order of storing and queueing gives   *)
(* the reparse thread its change, and BehindForCause says that a unit which *)
(* an old background snapshot cannot mend is in the care of someone else.   *)
THEOREM Inductive == Spec => []SInv
BY InitInv, NextInv, PTL DEF Spec

(* The variables have their types in every behaviour. *)
THEOREM TypesHold == Spec => []TypeOK
<1>1. SInv => TypeOK
  BY DEF SInv
<1> QED
  BY <1>1, Inductive, PTL

(* unsaved_files_get gives the store as it was at one moment. *)
THEOREM SnapshotsWhole == Spec => []SnapshotWhole
<1>1. SInv => SnapshotWhole
  BY DEF SInv
<1> QED
  BY <1>1, Inductive, PTL

(* Handlers and index threads use the latest texts, whatever their number:  *)
(* nothing is stored between their unsaved_files_get and their last use.    *)
THEOREM SnapshotsFresh == Spec => []SnapshotFresh
<1>1. SInv => SnapshotFresh
  BY DEF SInv
<1> QED
  BY <1>1, Inductive, PTL

(* The reparse thread has the text it was woken for, or a later one. *)
THEOREM ReparseKnowsChange == Spec => []ReparseSeesChange
<1>1. SInv => ReparseSeesChange
  BY DEF SInv
<1> QED
  BY <1>1, Inductive, PTL

(* No unit is behind the client's texts without a translation to come or    *)
(* one of the named causes.                                                 *)
THEOREM StaleHasCause == Spec => []StaleForCause
<1>1. SInv => StaleForCause
  BY DEF SInv, StaleForCause, StaleTold, Told, PendingMain, PendingQueue, PendingChange, Pending,
     Queued, Stranded
<1> QED
  BY <1>1, Inductive, PTL
=============================================================================
