-------------------------- MODULE UnitLifecycle_proofs --------------------------
(***************************************************************************)
(* Proofs about UnitLifecycle, for any files, databases, include sets and  *)
(* main headers and any number of index threads, retries and messages.     *)
(***************************************************************************)
EXTENDS UnitLifecycle, SequenceTheorems, TLAPS

-----------------------------------------------------------------------------
(* TypeOK by owner: what a step of another thread leaves alone.            *)

UnitTypes ==
  /\ unit \in Seq(UnitRecord)
  /\ table \in [Files -> Units \cup {None}]
  /\ header_map \in [Files -> Files \cup {None}]

LockTypes == handler \in BOOLEAN /\ indexing \subseteq IndexThreads

MainTypes ==
  /\ current \in Units \cup {None} /\ munit \in Units \cup {None}
  /\ mpc \in {"start", "open_db", "load", "listen", "lookup", "add", "parse", "reparse", "remove",
              "free", "diagnose", "notify", "read", "leave", "assert", "join_reparse",
              "join_index", "destroy", "destroyed", "closed"}
  /\ msg \in [kind : Kinds, file : Files \cup {None}]
  /\ retries \in 0 .. RetriesMax /\ reparsed \in BOOLEAN
  /\ messages \in 0 .. MaxMessages
  /\ load \in [db : Nat \ {0}, at : Nat \ {0}] /\ dropped \in BOOLEAN

IndexTypes ==
  /\ index_thread \in DBs \cup {None}
  /\ iqueue \in [DBs -> Seq(Units)]
  /\ ipc \in [IndexThreads -> {"unborn", "poll", "suspend", "check", "indexing", "resume",
                               "done", "hung"}]
  /\ iunit \in [IndexThreads -> Units \cup {None}]
  /\ monitor \in [DBs -> {"none", "running", "saved"}]

ReparseTypes ==
  /\ change_queue \in Seq(Files) /\ m_exit \in BOOLEAN
  /\ rpc \in {"check", "poll", "next", "test", "reparse", "diagnose", "done", "assert", "hung"}
  /\ changed \in Files \cup {None} /\ todo \subseteq Units /\ runit \in Units \cup {None}

TouchedTypes == touched \subseteq ((IndexThreads \cup {Reparser}) \X Units)

-----------------------------------------------------------------------------
(* The inductive invariant.  The conclusions of TableSound and of          *)
(* CurrentUnitUsable are kept by a handler only because of what it knows   *)
(* of its unit between two of its steps.                                   *)

InUse(u) == Life(u) = "active" /\ table[FileOf(u)] = u

(* What the main thread knows of its unit and its message. *)
MainUnit ==
  /\ mpc = "parse" => munit # None /\ Life(munit) = "idle" /\ table[FileOf(munit)] = munit
  /\ mpc \in {"reparse", "remove", "diagnose"} => munit # None /\ current = munit /\ InUse(munit)
  /\ mpc = "free" =>
       munit # None /\ current = munit /\ Life(munit) = "active" /\ table[FileOf(munit)] = None
MainMessage ==
  /\ mpc \in {"lookup", "add", "parse", "reparse", "remove", "free", "diagnose", "notify"} =>
       msg.file \in Files
  /\ mpc \in {"lookup", "add", "parse"} => msg.kind # "codeAction"
  /\ mpc = "load" => load.db \in DBs

CurrentInUse ==
  current # None /\ mpc \notin {"free", "destroyed", "closed"} => InUse(current)

(* The other threads have a unit whenever they use one. *)
IndexUnit ==
  \A t \in IndexThreads :
    ipc[t] \in {"suspend", "check", "indexing", "resume"} => iunit[t] # None
ReparseUnit == rpc \in {"test", "reparse", "diagnose"} => runit # None

IInv ==
  /\ TypeOK
  /\ TableSound
  /\ MainUnit
  /\ MainMessage
  /\ CurrentInUse
  /\ IndexUnit
  /\ ReparseUnit

-----------------------------------------------------------------------------
(* Sequences. *)

(* A function on an initial segment is a sequence. *)
LEMMA SeqOfFunction ==
  ASSUME NEW S, NEW n \in Nat, NEW f \in [1 .. n -> S]
  PROVE  f \in Seq(S) /\ Len(f) = n
<1>1. f \in Seq(S)
  BY SeqDef
<1>2. DOMAIN f = 1 .. Len(f) /\ DOMAIN f = 1 .. n /\ Len(f) \in Nat
  BY <1>1, LenProperties
<1> QED
  BY <1>1, <1>2

(* The domain of a sequence, by the name the model gives it. *)
LEMMA UnitsRange ==
  ASSUME TypeOK
  PROVE  Len(unit) \in Nat /\ Units = 1 .. Len(unit)
BY LenProperties DEF TypeOK, Units

-----------------------------------------------------------------------------
(* What the operators that write units do.                                 *)

LEMMA UnitRecords ==
  ASSUME TypeOK, NEW u \in Units
  PROVE  unit[u] \in UnitRecord
BY UnitsRange, ElementOfSeq DEF TypeOK

(* HeaderSet returns a header map. *)
LEMMA HeaderSetType ==
  ASSUME TypeOK, NEW f \in Files, NEW includes \in SUBSET Files
  PROVE  HeaderSet(f, includes) \in [Files -> Files \cup {None}]
BY FilesAssumption DEF HeaderSet, TypeOK

(* unit_parse and unit_reparse make the unit active and leave the others. *)
LEMMA TranslateUnits ==
  ASSUME TypeOK, NEW u \in Units, Translate(u)
  PROVE  /\ unit' \in Seq(UnitRecord) /\ Units' = Units
         /\ header_map' \in [Files -> Files \cup {None}]
         /\ \A v \in Units : /\ unit'[v].file = unit[v].file
                             /\ unit'[v].life = IF v = u THEN "active" ELSE unit[v].life
                             /\ unit'[v].decls = IF v = u THEN 1 ELSE unit[v].decls
<1>1. PICK found \in IncludeSets[FileOf(u)] :
        /\ unit' = [unit EXCEPT ![u] = [Translated(u, found) EXCEPT !.life = "active"]]
        /\ header_map' = HeaderSet(FileOf(u), Translated(u, found).includes)
  BY DEF Translate
<1> DEFINE r == [Translated(u, found) EXCEPT !.life = "active"]
<1>2. unit[u] \in UnitRecord /\ FileOf(u) \in Files
  BY UnitRecords DEF UnitRecord, FileOf
<1>3. found \in SUBSET Files
  BY <1>2, FilesAssumption
<1>4. Translated(u, found) \in UnitRecord /\ r \in UnitRecord
  BY <1>2, <1>3 DEF Translated, UnitRecord
<1>5. r.file = unit[u].file /\ r.life = "active" /\ r.decls = 1
  BY <1>2 DEF Translated, UnitRecord
<1>6. u \in 1 .. Len(unit) /\ unit \in Seq(UnitRecord)
  BY UnitsRange DEF TypeOK
<1> HIDE DEF r
<1>7. unit' = [unit EXCEPT ![u] = r]
  BY <1>1 DEF r
<1>8. unit' \in Seq(UnitRecord) /\ Len(unit') = Len(unit)
  BY <1>4, <1>6, <1>7, ExceptSeq
<1>9. Units' = Units
  BY <1>7 DEF Units
<1>10. header_map' \in [Files -> Files \cup {None}]
  BY <1>1, <1>2, <1>4, HeaderSetType DEF UnitRecord
<1>11. \A v \in Units : unit'[v] = IF v = u THEN r ELSE unit[v]
  BY <1>7 DEF Units
<1> QED
  BY <1>5, <1>8, <1>9, <1>10, <1>11

(* index_source_file changes the life of no unit. *)
LEMMA IndexUnits ==
  ASSUME TypeOK, NEW u \in Units, IndexSource(u)
  PROVE  /\ unit' \in Seq(UnitRecord) /\ Units' = Units
         /\ header_map' \in [Files -> Files \cup {None}]
         /\ \A v \in Units : /\ unit'[v].file = unit[v].file
                             /\ unit'[v].life = unit[v].life
                             /\ unit'[v].decls = IF v = u THEN unit[u].decls + 1
                                                        ELSE unit[v].decls
<1>1. PICK found \in IncludeSets[FileOf(u)] :
        /\ unit' = [unit EXCEPT ![u].includes = unit[u].includes \cup found,
                                ![u].decls = @ + 1]
        /\ header_map' = HeaderSet(FileOf(u), unit[u].includes \cup found)
  BY DEF IndexSource
<1> DEFINE all == unit[u].includes \cup found
           count == unit[u].decls + 1
           r == [unit[u] EXCEPT !.includes = all, !.decls = count]
<1>2. unit[u] \in UnitRecord /\ FileOf(u) \in Files
  BY UnitRecords DEF UnitRecord, FileOf
<1>3. found \in SUBSET Files
  BY <1>2, FilesAssumption
<1>4. /\ r \in UnitRecord /\ r.file = unit[u].file /\ r.life = unit[u].life
      /\ r.decls = count
  <2>1. all \in SUBSET Files /\ count \in Nat
    BY <1>2, <1>3 DEF UnitRecord
  <2> HIDE DEF all, count
  <2> DEFINE upd(x) == [x EXCEPT !.includes = all, !.decls = count]
  <2>2. \A x \in UnitRecord :
          /\ upd(x) \in UnitRecord /\ upd(x).file = x.file /\ upd(x).life = x.life
          /\ upd(x).decls = count
    BY <2>1 DEF UnitRecord
  <2> HIDE DEF upd
  <2>3. /\ upd(unit[u]) \in UnitRecord /\ upd(unit[u]).file = unit[u].file
        /\ upd(unit[u]).life = unit[u].life /\ upd(unit[u]).decls = count
    BY <1>2, <2>2
  <2> QED
    BY <2>3 DEF upd
<1>5. u \in 1 .. Len(unit) /\ unit \in Seq(UnitRecord)
  BY UnitsRange DEF TypeOK
<1>6. unit' = [unit EXCEPT ![u] = r]
  BY <1>1, <1>2 DEF UnitRecord, Units
<1> HIDE DEF r
<1>7. unit' \in Seq(UnitRecord) /\ Len(unit') = Len(unit)
  BY <1>4, <1>5, <1>6, ExceptSeq
<1>8. Units' = Units
  BY <1>6 DEF Units
<1>9. header_map' \in [Files -> Files \cup {None}]
  BY <1>1, <1>2, <1>3, HeaderSetType DEF UnitRecord
<1>10. \A v \in Units : unit'[v] = IF v = u THEN r ELSE unit[v]
  BY <1>6 DEF Units
<1> QED
  BY <1>4, <1>7, <1>8, <1>9, <1>10

(* unit_create and unit_storage_add. *)
LEMMA AddUnits ==
  ASSUME TypeOK, NEW f \in Files, AddUnit(f)
  PROVE  /\ unit' \in Seq(UnitRecord)
         /\ Units' = Units \cup {Len(unit) + 1} /\ Len(unit) + 1 \notin Units
         /\ Len(unit) + 1 # None
         /\ table' \in [Files -> Units' \cup {None}]
         /\ \A v \in Units : unit'[v] = unit[v]
         /\ unit'[Len(unit) + 1].file = f /\ unit'[Len(unit) + 1].life = "idle"
         /\ unit'[Len(unit) + 1].decls = 0
<1> DEFINE r == [file |-> f, life |-> "idle", includes |-> {}, decls |-> 0]
<1>1. r \in UnitRecord
  BY DEF UnitRecord
<1>2. unit \in Seq(UnitRecord) /\ unit' = Append(unit, r)
  BY DEF AddUnit, TypeOK
<1>3. r.file = f /\ r.life = "idle" /\ r.decls = 0
  OBVIOUS
<1> HIDE DEF r
<1>4. /\ unit' \in Seq(UnitRecord) /\ Len(unit') = Len(unit) + 1
      /\ \A v \in 1 .. Len(unit) : unit'[v] = unit[v]
      /\ unit'[Len(unit) + 1] = r
  BY <1>1, <1>2, AppendProperties
<1>5. Units' = 1 .. Len(unit')
  BY <1>4, LenProperties DEF Units
<1>6. Units' = Units \cup {Len(unit) + 1} /\ Len(unit) + 1 \notin Units
  BY <1>4, <1>5, UnitsRange
<1>7. Len(unit) + 1 # None
  BY UnitsRange, FilesAssumption
<1>8. table' \in [Files -> Units' \cup {None}]
  BY <1>6 DEF AddUnit, TypeOK
<1> QED
  BY <1>3, <1>4, <1>6, <1>7, <1>8, UnitsRange

(* unit_free. *)
LEMMA FreeUnitsUnits ==
  ASSUME TypeOK, NEW us, FreeUnits(us)
  PROVE  /\ unit' \in Seq(UnitRecord) /\ Units' = Units
         /\ \A v \in Units : /\ unit'[v].file = unit[v].file
                             /\ unit'[v].life = IF v \in us THEN "freed" ELSE unit[v].life
                             /\ unit'[v].decls = IF v \in us THEN 0 ELSE unit[v].decls
<1>1. \A v \in Units : unit[v] \in UnitRecord
  BY UnitRecords
<1>2. /\ \A v \in Units : /\ unit'[v] \in UnitRecord
                          /\ unit'[v].file = unit[v].file
                          /\ unit'[v].life = IF v \in us THEN "freed" ELSE unit[v].life
                          /\ unit'[v].decls = IF v \in us THEN 0 ELSE unit[v].decls
      /\ unit' = [v \in Units |-> unit'[v]]
  BY <1>1 DEF FreeUnits, UnitRecord
<1>3. unit' \in [1 .. Len(unit) -> UnitRecord] /\ Units' = Units
  BY <1>2, UnitsRange DEF Units
<1> QED
  BY <1>2, <1>3, UnitsRange, SeqOfFunction

-----------------------------------------------------------------------------
(* Frames: what the variables that do not change still satisfy.            *)

LEMMA TypesJoined ==
  (UnitTypes /\ LockTypes /\ MainTypes /\ IndexTypes /\ ReparseTypes /\ TouchedTypes)' => TypeOK'
BY DEF TypeOK, UnitTypes, LockTypes, MainTypes, IndexTypes, ReparseTypes, TouchedTypes

LEMMA TypeFrames ==
  ASSUME TypeOK, Units \subseteq Units'
  PROVE  /\ UNCHANGED <<handler, indexing>> => LockTypes'
         /\ UNCHANGED mainVars => MainTypes'
         /\ UNCHANGED indexVars => IndexTypes'
         /\ UNCHANGED <<change_queue, m_exit, reparseVars>> => ReparseTypes'
         /\ UNCHANGED touched => TouchedTypes'
<1>1. UNCHANGED <<handler, indexing>> => LockTypes'
  BY DEF TypeOK, LockTypes
<1>2. UNCHANGED mainVars => MainTypes'
  BY DEF TypeOK, MainTypes, mainVars
<1>3. UNCHANGED indexVars => IndexTypes'
  <2> SUFFICES ASSUME UNCHANGED indexVars
               PROVE  IndexTypes'
    OBVIOUS
  <2>1. \A d \in DBs : iqueue[d] \in Seq(Units')
    BY SeqMonotonic DEF TypeOK
  <2>2. iqueue \in [DBs -> Seq(Units')]
    BY <2>1 DEF TypeOK
  <2> QED
    BY <2>2 DEF TypeOK, IndexTypes, indexVars
<1>4. UNCHANGED <<change_queue, m_exit, reparseVars>> => ReparseTypes'
  BY DEF TypeOK, ReparseTypes, reparseVars
<1>5. UNCHANGED touched => TouchedTypes'
  BY DEF TypeOK, TouchedTypes
<1> QED
  BY <1>1, <1>2, <1>3, <1>4, <1>5

(* A thread that keeps the life and the place of every unit keeps what the *)
(* main thread relies on. *)
LEMMA OtherThread ==
  ASSUME IInv, UNCHANGED <<mainVars, table>>, Units' = Units,
         \A v \in Units : unit'[v].file = unit[v].file /\ unit'[v].life = unit[v].life
  PROVE  MainTypes' /\ TableSound' /\ MainUnit' /\ MainMessage' /\ CurrentInUse'
<1>1. MainTypes'
  BY TypeFrames DEF IInv
<1>2. /\ munit # None => munit \in Units
      /\ current # None => current \in Units
      /\ \A f \in Files : table[f] # None => table[f] \in Units
      /\ \A v \in Units : FileOf(v) \in Files
  BY UnitRecords DEF IInv, TypeOK, UnitRecord, FileOf
<1>3. TableSound'
  <2>1. ASSUME NEW f \in Files, table[f] # None
        PROVE  unit'[table[f]].file = f /\ unit'[table[f]].life # "freed"
    BY <1>2, <2>1 DEF IInv, TableSound, FileOf, Freed, Life
  <2>2. ASSUME NEW v \in Units, unit'[v].life = "active"
        PROVE  table[unit'[v].file] = v \/ (mpc = "free" /\ munit = v)
    BY <2>2 DEF IInv, TableSound, FileOf, Life
  <2> QED
    BY <2>1, <2>2 DEF TableSound, FileOf, Freed, Life, mainVars
<1>4. MainUnit'
  BY <1>2 DEF IInv, MainUnit, InUse, FileOf, Life, mainVars
<1>5. MainMessage'
  BY DEF IInv, MainMessage, mainVars
<1>6. CurrentInUse'
  BY <1>2 DEF IInv, CurrentInUse, InUse, FileOf, Life, mainVars
<1> QED
  BY <1>1, <1>3, <1>4, <1>5, <1>6

(* Likewise the main thread for the other threads. *)
LEMMA MainThread ==
  ASSUME IInv, UNCHANGED <<ipc, iunit, reparseVars>>
  PROVE  IndexUnit' /\ ReparseUnit'
BY DEF IInv, IndexUnit, ReparseUnit, reparseVars

-----------------------------------------------------------------------------
(* The reparse thread. *)
LEMMA ReparseStep ==
  ASSUME IInv, Reparse
  PROVE  IInv'
<1> USE DEF IInv
<1>1. /\ Units' = Units /\ UnitTypes'
      /\ \A v \in Units : unit'[v].file = unit[v].file /\ unit'[v].life = unit[v].life
  <2>1. CASE UNCHANGED unitVars
    BY <2>1 DEF unitVars, TypeOK, UnitTypes, Units
  <2>2. CASE rpc = "reparse" /\ Life(runit) = "active" /\ Translate(runit) /\ UNCHANGED table
    <3>1. runit \in Units
      BY <2>2 DEF TypeOK, ReparseUnit
    <3> QED
      BY <2>2, <3>1, TranslateUnits DEF TypeOK, UnitTypes, Life
  <2> QED
    BY <2>1, <2>2 DEF Reparse, RCheck, RWake, RTake, RNext, RTest, RReparse, RDiagnose, unitVars
<1>2. UNCHANGED <<mainVars, table, handler, indexing, indexVars>>
  BY DEF Reparse, RCheck, RWake, RTake, RNext, RTest, RReparse, RDiagnose, unitVars
<1>3. MainTypes' /\ TableSound' /\ MainUnit' /\ MainMessage' /\ CurrentInUse'
  BY <1>1, <1>2, OtherThread
<1>4. LockTypes' /\ IndexTypes' /\ IndexUnit'
  BY <1>1, <1>2, TypeFrames DEF IndexUnit, indexVars
<1>5. ReparseTypes' /\ ReparseUnit'
  <2>1. CASE RTake
    <3>1. Head(change_queue) \in Files /\ Tail(change_queue) \in Seq(Files)
      BY <2>1, HeadTailProperties DEF RTake, TypeOK
    <3>2. InTable \subseteq Units
      BY DEF InTable, TypeOK
    <3> QED
      BY <1>1, <2>1, <3>1, <3>2 DEF RTake, TypeOK, ReparseTypes, ReparseUnit
  <2>2. CASE RNext
    <3>1. \A u \in todo : u # None
      BY UnitsRange, FilesAssumption DEF TypeOK
    <3> QED
      BY <1>1, <2>2, <3>1 DEF RNext, TypeOK, ReparseTypes, ReparseUnit
  <2>3. CASE RCheck \/ RWake
    BY <1>1, <2>3 DEF RCheck, RWake, TypeOK, ReparseTypes, ReparseUnit
  <2>4. CASE RTest
    <3>1. rpc = "test" /\ rpc' \in {"next", "reparse", "hung"}
      BY <2>4 DEF RTest
    <3> QED
      BY <1>1, <2>4, <3>1 DEF RTest, TypeOK, ReparseTypes, ReparseUnit
  <2>5. CASE RReparse \/ RDiagnose
    <3>1. /\ rpc \in {"reparse", "diagnose"}
          /\ rpc' \in {"next", "diagnose", "assert", "hung"}
          /\ UNCHANGED <<change_queue, m_exit, changed, todo, runit>>
      BY <2>5 DEF RReparse, RDiagnose
    <3> QED
      BY <1>1, <3>1 DEF TypeOK, ReparseTypes, ReparseUnit
  <2> QED
    BY <2>1, <2>2, <2>3, <2>4, <2>5 DEF Reparse
<1>6. TouchedTypes'
  <2>1. touched' = touched \/ (runit \in Units /\ touched' = touched \cup {<<Reparser, runit>>})
    BY DEF Reparse, RCheck, RWake, RTake, RNext, RTest, RReparse, RDiagnose, Use, TypeOK,
           ReparseUnit
  <2> QED
    BY <1>1, <2>1 DEF TypeOK, TouchedTypes
<1> QED
  BY <1>1, <1>3, <1>4, <1>5, <1>6, TypesJoined

-----------------------------------------------------------------------------
(* The index threads and their monitors. *)
LEMMA IndexStep ==
  ASSUME IInv, NEW t \in IndexThreads, Indexer(t)
  PROVE  IInv'
<1> USE DEF IInv
<1>1. /\ Units' = Units /\ UnitTypes'
      /\ \A v \in Units : unit'[v].file = unit[v].file /\ unit'[v].life = unit[v].life
  <2>1. CASE UNCHANGED unitVars
    BY <2>1 DEF unitVars, TypeOK, UnitTypes, Units
  <2>2. CASE ipc[t] = "indexing" /\ IndexSource(iunit[t]) /\ UNCHANGED table
    <3>1. iunit[t] \in Units
      BY <2>2 DEF TypeOK, IndexUnit
    <3> QED
      BY <2>2, <3>1, IndexUnits DEF TypeOK, UnitTypes
  <2> QED
    BY <2>1, <2>2 DEF Indexer, IPoll, ISuspend, ICheck, IIndex, IResume, unitVars
<1>2. UNCHANGED <<mainVars, table, index_thread, monitor, change_queue, m_exit, reparseVars>>
  BY DEF Indexer, IPoll, ISuspend, ICheck, IIndex, IResume, unitVars
<1>3. MainTypes' /\ TableSound' /\ MainUnit' /\ MainMessage' /\ CurrentInUse'
  BY <1>1, <1>2, OtherThread
<1>4. ReparseTypes' /\ ReparseUnit'
  BY <1>1, <1>2, TypeFrames DEF ReparseUnit, reparseVars
<1>5. LockTypes'
  BY DEF Indexer, IPoll, ISuspend, ICheck, IIndex, IResume, HX!IndexerEnter, HX!IndexerLeave,
         TypeOK, LockTypes
<1>6. IndexTypes' /\ IndexUnit'
  <2>1. CASE IPoll(t)
    <3> DEFINE d == t[1]
    <3>1. d \in DBs /\ iqueue[d] \in Seq(Units)
      BY DEF IndexThreads, TypeOK
    <3>2. CASE iqueue[d] = <<>>
      <4>1. ipc' = [ipc EXCEPT ![t] = "done"] /\ UNCHANGED <<iqueue, iunit>>
        BY <2>1, <3>2 DEF IPoll
      <4>2. IndexTypes'
        BY <1>1, <1>2, <4>1 DEF TypeOK, IndexTypes
      <4> QED
        BY <4>1, <4>2 DEF IndexUnit, TypeOK
    <3>3. CASE iqueue[d] # <<>>
      <4>1. Head(iqueue[d]) \in Units /\ Tail(iqueue[d]) \in Seq(Units)
        BY <3>1, <3>3, HeadTailProperties
      <4>2. Head(iqueue[d]) # None
        BY <4>1, UnitsRange, FilesAssumption
      <4>3. /\ ipc' = [ipc EXCEPT ![t] = "suspend"]
            /\ iunit' = [iunit EXCEPT ![t] = Head(iqueue[d])]
            /\ iqueue' = [iqueue EXCEPT ![d] = Tail(iqueue[d])]
        BY <2>1, <3>3 DEF IPoll
      <4>4. IndexTypes'
        BY <1>1, <1>2, <3>1, <4>1, <4>3 DEF TypeOK, IndexTypes
      <4> QED
        BY <4>2, <4>3, <4>4 DEF IndexUnit, TypeOK
    <3> QED
      BY <3>2, <3>3
  <2>2. CASE ISuspend(t) \/ IResume(t)
    BY <1>1, <1>2, <2>2 DEF ISuspend, IResume, TypeOK, IndexTypes, IndexUnit
  <2>3. CASE ICheck(t) \/ IIndex(t)
    <3>1. PICK next \in {"indexing", "resume", "hung"} : ipc' = [ipc EXCEPT ![t] = next]
      <4>1. CASE ICheck(t)
        BY <4>1, UnitRecords DEF ICheck, Freed, Life, IndexUnit, TypeOK, UnitRecord
      <4>2. CASE IIndex(t)
        BY <4>2 DEF IIndex
      <4> QED
        BY <2>3, <4>1, <4>2
    <3>2. ipc[t] \in {"check", "indexing"} /\ UNCHANGED <<iunit, iqueue>>
      BY <2>3 DEF ICheck, IIndex
    <3> QED
      BY <1>1, <1>2, <3>1, <3>2 DEF TypeOK, IndexTypes, IndexUnit
  <2> QED
    BY <2>1, <2>2, <2>3 DEF Indexer
<1>7. TouchedTypes'
  <2>1. touched' = touched \/ (iunit[t] \in Units /\ touched' = touched \cup {<<t, iunit[t]>>})
    BY DEF Indexer, IPoll, ISuspend, ICheck, IIndex, IResume, Use, TypeOK, IndexUnit
  <2> QED
    BY <1>1, <2>1 DEF TypeOK, TouchedTypes
<1> QED
  BY <1>1, <1>3, <1>4, <1>5, <1>6, <1>7, TypesJoined

LEMMA MonitorStep ==
  ASSUME IInv, NEW d \in DBs, MonitorSave(d)
  PROVE  IInv'
<1> USE DEF IInv
<1>1. UNCHANGED <<unitVars, handler, indexing, mainVars, index_thread, iqueue, ipc, iunit,
                  change_queue, m_exit, reparseVars, touched>>
  BY DEF MonitorSave
<1>2. Units' = Units /\ UnitTypes'
  BY <1>1 DEF unitVars, TypeOK, UnitTypes, Units
<1>3. MainTypes' /\ TableSound' /\ MainUnit' /\ MainMessage' /\ CurrentInUse'
  BY <1>1, <1>2, OtherThread DEF unitVars
<1>4. LockTypes' /\ ReparseTypes' /\ TouchedTypes' /\ IndexUnit' /\ ReparseUnit'
  BY <1>1, <1>2, TypeFrames, MainThread
<1>5. IndexTypes'
  BY <1>1, <1>2 DEF MonitorSave, TypeOK, IndexTypes
<1> QED
  BY <1>2, <1>3, <1>4, <1>5, TypesJoined

-----------------------------------------------------------------------------
(* The main thread. *)

(* unit_storage_get finds a unit of the table, and a file it finds nothing *)
(* for has no unit there. *)
LEMMA UnitStorageGetFinds ==
  ASSUME TypeOK, TableSound, NEW f \in Files
  PROVE  /\ UnitStorageGet(f) = None => table[f] = None
         /\ UnitStorageGet(f) # None =>
              /\ UnitStorageGet(f) \in Units
              /\ Life(UnitStorageGet(f)) \in {"idle", "active"}
              /\ table[FileOf(UnitStorageGet(f))] = UnitStorageGet(f)
<1> DEFINE sources == {s \in Files : header_map[s] = f}
<1>1. sources # {} => (CHOOSE s \in sources : TRUE) \in sources
  OBVIOUS
<1>2. \E g \in Files : UnitStorageGet(f) = table[g]
  BY <1>1 DEF UnitStorageGet
<1>3. UnitStorageGet(f) = None => table[f] = None
  BY DEF UnitStorageGet
<1>4. ASSUME NEW g \in Files, table[g] # None
      PROVE  /\ table[g] \in Units /\ Life(table[g]) \in {"idle", "active"}
             /\ table[FileOf(table[g])] = table[g]
  <2>1. table[g] \in Units /\ FileOf(table[g]) = g /\ Life(table[g]) # "freed"
    BY <1>4 DEF TypeOK, TableSound, Freed
  <2>2. Life(table[g]) \in {"idle", "active", "freed"}
    BY <2>1, UnitRecords DEF UnitRecord, Life
  <2> QED
    BY <2>1, <2>2
<1> QED
  BY <1>2, <1>3, <1>4

(* The steps that only move on, or take in the message. *)
LEMMA QuietStep ==
  ASSUME IInv,
         \/ Initialize \/ OpenDatabase \/ InitializeDone \/ StartMonitor
         \/ \E kind \in Kinds, f \in Files : Receive(kind, f)
         \/ Diagnose \/ Notify \/ ReadCurrent \/ Leave \/ EndOfInput \/ Join \/ ProcessExit
  PROVE  IInv'
<1> USE DEF IInv
<1>1. UNCHANGED <<unitVars, current, iqueue, iunit, reparseVars, touched, dropped>>
  BY DEF Initialize, OpenDatabase, InitializeDone, StartMonitor, Receive, Diagnose, Notify,
         ReadCurrent, Leave, EndOfInput, Join, ProcessExit, indexVars
<1>2. Units' = Units /\ UnitTypes'
  BY <1>1 DEF unitVars, TypeOK, UnitTypes, Units
<1>3. TouchedTypes' /\ ReparseUnit'
  BY <1>1, <1>2, TypeFrames DEF ReparseUnit, reparseVars
<1>4. LockTypes'
  BY DEF Initialize, OpenDatabase, InitializeDone, StartMonitor, Receive, Diagnose, Notify,
         ReadCurrent, Leave, EndOfInput, Join, ProcessExit, HX!HandlerEnter, HX!HandlerLeave,
         TypeOK, LockTypes
<1>5. IndexTypes' /\ IndexUnit'
  <2>1. CASE UNCHANGED indexVars
    BY <1>2, <2>1, TypeFrames DEF IndexUnit, indexVars
  <2>2. CASE StartMonitor
    <3>1. load.db \in DBs
      BY <2>2 DEF StartMonitor, MainMessage
    <3>2. /\ index_thread' = load.db
          /\ monitor' = [monitor EXCEPT ![load.db] = "running"]
          /\ ipc' = [t \in IndexThreads |-> IF t[1] = load.db THEN "poll" ELSE ipc[t]]
      BY <2>2 DEF StartMonitor
    <3>3. IndexTypes'
      BY <1>1, <1>2, <3>1, <3>2 DEF TypeOK, IndexTypes
    <3> QED
      BY <1>1, <3>2, <3>3 DEF IndexUnit
  <2> QED
    BY <2>1, <2>2 DEF Initialize, OpenDatabase, InitializeDone, Receive, Diagnose, Notify,
                      ReadCurrent, Leave, EndOfInput, Join, ProcessExit
<1>6. ReparseTypes'
  <2>1. CASE Notify
    <3>1. Append(change_queue, msg.file) \in Seq(Files)
      BY <2>1, AppendProperties DEF Notify, MainMessage, TypeOK
    <3> QED
      BY <1>1, <1>2, <2>1, <3>1 DEF Notify, TypeOK, ReparseTypes, reparseVars
  <2>2. CASE EndOfInput
    BY <1>1, <1>2, <2>2 DEF EndOfInput, TypeOK, ReparseTypes, reparseVars
  <2>3. CASE UNCHANGED <<change_queue, m_exit>>
    BY <1>1, <1>2, <2>3, TypeFrames
  <2> QED
    BY <2>1, <2>2, <2>3 DEF Initialize, OpenDatabase, InitializeDone, StartMonitor, Receive,
                            Diagnose, ReadCurrent, Leave, Join, ProcessExit
<1>7. MainTypes' /\ MainMessage'
  <2>1. CASE \E kind \in Kinds, f \in Files : Receive(kind, f)
    BY <1>1, <1>2, <2>1, BoundsAssumption DEF Receive, TypeOK, MainTypes, MainMessage
  <2>2. CASE Leave
    BY <1>1, <1>2, <2>2, BoundsAssumption DEF Leave, TypeOK, MainTypes, MainMessage, Kinds
  <2>3. CASE OpenDatabase
    BY <1>1, <1>2, <2>3 DEF OpenDatabase, TypeOK, MainTypes, MainMessage
  <2>4. CASE StartMonitor
    BY <1>1, <1>2, <2>4 DEF StartMonitor, TypeOK, MainTypes, MainMessage
  <2>5. CASE Diagnose
    BY <1>1, <1>2, <2>5 DEF Diagnose, TypeOK, MainTypes, MainMessage
  <2>6. CASE Initialize \/ InitializeDone \/ Notify \/ ReadCurrent \/ EndOfInput \/ Join \/ ProcessExit
    <3>1. /\ mpc' \in {"open_db", "leave", "join_reparse", "join_index", "destroy", "closed"}
          /\ UNCHANGED <<current, msg, munit, retries, reparsed, messages, load, dropped>>
      BY <2>6 DEF Initialize, InitializeDone, Notify, ReadCurrent, EndOfInput, Join, ProcessExit
    <3> QED
      BY <1>2, <3>1 DEF TypeOK, MainTypes, MainMessage
  <2> QED
    BY <2>1, <2>2, <2>3, <2>4, <2>5, <2>6
<1>8. /\ mpc # "free"
      /\ mpc' \notin {"parse", "reparse", "remove", "diagnose", "free"}
      /\ mpc \in {"destroyed", "closed"} => mpc' \in {"destroyed", "closed"}
  BY DEF Initialize, OpenDatabase, InitializeDone, StartMonitor, Receive, Diagnose, Notify,
         ReadCurrent, Leave, EndOfInput, Join, ProcessExit
<1>9. TableSound' /\ MainUnit' /\ CurrentInUse'
  BY <1>1, <1>8 DEF TableSound, MainUnit, CurrentInUse, InUse, Life, FileOf, Freed, Units, unitVars
<1> QED
  BY <1>2, <1>3, <1>4, <1>5, <1>6, <1>7, <1>9, TypesJoined

(* What every other step of the main thread leaves alone. *)
LEMMA MainOnly ==
  ASSUME IInv, Units \subseteq Units',
         UNCHANGED <<handler, indexing, indexVars, change_queue, m_exit, reparseVars, touched>>
  PROVE  LockTypes' /\ IndexTypes' /\ ReparseTypes' /\ TouchedTypes' /\ IndexUnit' /\ ReparseUnit'
BY TypeFrames, MainThread DEF IInv, indexVars

LEMMA LookupStep ==
  ASSUME IInv, Lookup
  PROVE  IInv'
<1> USE DEF IInv
<1> DEFINE u == UnitStorageGet(msg.file)
<1>1. msg.file \in Files /\ msg.kind \in {"didOpen", "didChange", "request"}
  BY DEF Lookup, MainMessage, TypeOK, Kinds
<1>2. u # None => /\ u \in Units /\ Life(u) \in {"idle", "active"}
                  /\ table[FileOf(u)] = u
  BY <1>1, UnitStorageGetFinds
<1>3. /\ munit' = u
      /\ UNCHANGED <<unitVars, msg, reparsed, messages, load, dropped>>
      /\ UNCHANGED <<handler, indexing, indexVars, change_queue, m_exit, reparseVars, touched>>
  BY DEF Lookup
<1>4. Units' = Units /\ UnitTypes'
  BY <1>3 DEF unitVars, TypeOK, UnitTypes, Units
<1>5. u \in Units \cup {None}
  BY <1>2
<1>6. \/ u = None /\ mpc' = "add" /\ UNCHANGED <<current, retries>>
      \/ /\ u # None /\ Life(u) = "active" /\ current' = u /\ retries' = 0
         /\ mpc' \in {"diagnose", "reparse", "leave"}
      \/ /\ u # None /\ Life(u) = "idle" /\ mpc' = "parse" /\ UNCHANGED <<current, retries>>
  BY <1>1, <1>2 DEF Lookup, Handle
<1>7. MainTypes' /\ MainMessage'
  BY <1>1, <1>3, <1>4, <1>5, <1>6, BoundsAssumption DEF TypeOK, MainTypes, MainMessage
<1>8. mpc = "lookup" /\ UNCHANGED <<unit, table>>
  BY <1>3 DEF Lookup, unitVars
<1>9. TableSound'
  BY <1>6, <1>8 DEF TableSound, Life, FileOf, Freed, Units
<1>10. MainUnit' /\ CurrentInUse'
  BY <1>2, <1>3, <1>6, <1>8 DEF MainUnit, CurrentInUse, InUse, Life, FileOf
<1> QED
  BY <1>3, <1>4, <1>7, <1>9, <1>10, MainOnly, TypesJoined

(* A new unit takes the place of none in the table. *)
LEMMA NewUnit ==
  ASSUME IInv, NEW f \in Files, table[f] = None, AddUnit(f),
         mpc \notin {"free", "destroyed", "closed"}, current' = current
  PROVE  TableSound' /\ CurrentInUse'
<1> USE DEF IInv
<1> DEFINE n == Len(unit) + 1
<1>1. /\ Units' = Units \cup {n} /\ n \notin Units
      /\ \A v \in Units : unit'[v] = unit[v]
      /\ unit'[n].file = f /\ unit'[n].life = "idle"
      /\ n # None
  BY AddUnits
<1>2. /\ \A g \in Files : table'[g] = IF g = f THEN n ELSE table[g]
      /\ \A g \in Files : table[g] # None => table[g] \in Units
      /\ \A v \in Units : unit[v].file \in Files
      /\ current # None => current \in Units
  BY UnitRecords DEF AddUnit, TypeOK, UnitRecord
<1> HIDE DEF n
<1>3. TableSound'
  <2>1. ASSUME NEW g \in Files, table'[g] # None
        PROVE  unit'[table'[g]].file = g /\ unit'[table'[g]].life # "freed"
    BY <1>1, <1>2, <2>1 DEF TableSound, FileOf, Freed, Life
  <2>2. ASSUME NEW v \in Units', unit'[v].life = "active"
        PROVE  table'[unit'[v].file] = v \/ (mpc' = "free" /\ munit' = v)
    <3>1. v \in Units /\ unit[v].life = "active"
      BY <1>1, <2>2
    <3>2. table[unit[v].file] = v \/ (mpc = "free" /\ munit = v)
      BY <3>1 DEF TableSound, FileOf, Life
    <3>3. v # None
      BY <3>1, UnitsRange, FilesAssumption
    <3>4. table[unit[v].file] = v => unit[v].file # f
      BY <3>3
    <3> QED
      BY <1>1, <1>2, <3>1, <3>2, <3>4
  <2> QED
    BY <2>1, <2>2 DEF TableSound, FileOf, Freed, Life
<1>4. CurrentInUse'
  <2>1. ASSUME current # None, mpc \notin {"free", "destroyed", "closed"}
        PROVE  unit'[current].life = "active" /\ table'[unit'[current].file] = current
    <3>1. current \in Units /\ unit[current].life = "active" /\ table[unit[current].file] = current
      BY <1>2, <2>1 DEF CurrentInUse, InUse, Life, FileOf
    <3> QED
      BY <1>1, <1>2, <2>1, <3>1
  <2> QED
    BY <2>1 DEF CurrentInUse, InUse, Life, FileOf
<1> QED
  BY <1>3, <1>4

LEMMA LoadStep ==
  ASSUME IInv, LoadCommand
  PROVE  IInv'
<1> USE DEF IInv
<1> DEFINE f == Databases[load.db][load.at]
           n == Len(unit) + 1
<1>1. load.db \in DBs /\ mpc = "load"
  BY DEF LoadCommand, MainMessage
<1>2. f \in Files
  <2>1. Databases[load.db] \in Seq(Files)
    BY <1>1, FilesAssumption, ElementOfSeq, LenProperties DEF DBs
  <2>2. load.at \in 1 .. Len(Databases[load.db])
    BY <2>1, LenProperties DEF LoadCommand
  <2> QED
    BY <2>1, <2>2, ElementOfSeq
<1>3. /\ UNCHANGED <<header_map, handler, indexing, current, mpc, msg, munit, retries, reparsed,
                     messages, dropped, index_thread, ipc, iunit, monitor, change_queue,
                     m_exit, reparseVars, touched>>
      /\ load' = [load EXCEPT !.at = @ + 1]
  BY DEF LoadCommand
<1>4. CASE UNCHANGED <<unit, table, iqueue>>
  <2>1. Units' = Units /\ UnitTypes'
    BY <1>3, <1>4 DEF TypeOK, UnitTypes, Units
  <2>2. LockTypes' /\ IndexTypes' /\ ReparseTypes' /\ TouchedTypes' /\ IndexUnit' /\ ReparseUnit'
    BY <1>3, <1>4, <2>1, MainOnly DEF indexVars
  <2>3. load.at + 1 \in Nat \ {0}
    BY DEF TypeOK
  <2>4. MainTypes' /\ MainMessage'
    BY <1>1, <1>3, <2>1, <2>3 DEF TypeOK, MainTypes, MainMessage
  <2>5. TableSound' /\ MainUnit' /\ CurrentInUse'
    BY <1>3, <1>4 DEF TableSound, MainUnit, CurrentInUse, InUse, Life, FileOf, Freed, Units
  <2> QED
    BY <2>1, <2>2, <2>4, <2>5, TypesJoined
<1>5. CASE /\ UnitStorageGet(f) = None /\ AddUnit(f)
           /\ iqueue' = [iqueue EXCEPT ![load.db] = Append(@, n)]
  <2>1. table[f] = None
    BY <1>2, <1>5, UnitStorageGetFinds
  <2>2. /\ unit' \in Seq(UnitRecord) /\ Units' = Units \cup {n}
        /\ table' \in [Files -> Units' \cup {None}]
    BY <1>2, <1>5, AddUnits
  <2>3. UnitTypes'
    BY <1>3, <2>2 DEF UnitTypes, TypeOK
  <2>4. TableSound' /\ CurrentInUse'
    BY <1>1, <1>2, <1>3, <1>5, <2>1, NewUnit
  <2>5. load.at + 1 \in Nat \ {0}
    BY DEF TypeOK
  <2>6. MainTypes' /\ MainMessage'
    BY <1>1, <1>3, <2>2, <2>5 DEF TypeOK, MainTypes, MainMessage
  <2>7. LockTypes' /\ ReparseTypes' /\ TouchedTypes' /\ IndexUnit' /\ ReparseUnit'
    BY <1>3, <2>2, TypeFrames, MainThread
  <2>8. IndexTypes'
    <3>1. \A d \in DBs : iqueue[d] \in Seq(Units')
      BY <2>2, SeqMonotonic DEF TypeOK
    <3>2. Append(iqueue[load.db], n) \in Seq(Units')
      BY <1>1, <2>2, <3>1, AppendProperties
    <3>3. iqueue' \in [DBs -> Seq(Units')]
      BY <1>1, <1>5, <3>1, <3>2 DEF TypeOK
    <3> QED
      BY <1>3, <2>2, <3>3 DEF TypeOK, IndexTypes
  <2>9. MainUnit'
    BY <1>1, <1>3 DEF MainUnit
  <2> QED
    BY <2>3, <2>4, <2>6, <2>7, <2>8, <2>9, TypesJoined
<1> QED
  BY <1>4, <1>5 DEF LoadCommand

LEMMA AddStep ==
  ASSUME IInv, Add
  PROVE  IInv'
<1> USE DEF IInv
<1> DEFINE f == msg.file
           n == Len(unit) + 1
<1>1. mpc = "add" /\ f \in Files
  BY DEF Add, MainMessage
<1>2. /\ UNCHANGED <<current, msg, retries, reparsed, messages, load, dropped>>
      /\ UNCHANGED <<handler, indexing, indexVars, change_queue, m_exit, rpc, changed, runit, touched>>
      /\ UNCHANGED header_map
  BY DEF Add
<1>3. CASE mpc' = "assert" /\ UNCHANGED <<unit, table, todo, munit>>
  <2>1. Units' = Units /\ UnitTypes'
    BY <1>2, <1>3 DEF TypeOK, UnitTypes, Units
  <2>2. MainTypes' /\ MainMessage'
    BY <1>2, <1>3, <2>1 DEF TypeOK, MainTypes, MainMessage
  <2>3. TableSound' /\ MainUnit' /\ CurrentInUse'
    BY <1>1, <1>2, <1>3 DEF TableSound, MainUnit, CurrentInUse, InUse, Life, FileOf, Freed, Units
  <2>4. UNCHANGED reparseVars
    BY <1>2, <1>3 DEF reparseVars
  <2> QED
    BY <1>2, <2>1, <2>2, <2>3, <2>4, MainOnly, TypesJoined
<1>4. CASE /\ UnitStorageGet(f) = None /\ AddUnit(f) /\ IteratorDisturbed
           /\ munit' = n /\ mpc' = "parse"
  <2>1. table[f] = None
    BY <1>1, <1>4, UnitStorageGetFinds
  <2>2. /\ unit' \in Seq(UnitRecord) /\ Units' = Units \cup {n} /\ n # None
        /\ table' \in [Files -> Units' \cup {None}]
        /\ unit'[n].file = f /\ unit'[n].life = "idle"
    BY <1>1, <1>4, AddUnits
  <2>3. UnitTypes'
    BY <1>2, <2>2 DEF UnitTypes, TypeOK
  <2>4. TableSound' /\ CurrentInUse'
    BY <1>1, <1>2, <1>4, <2>1, NewUnit
  <2>5. MainTypes' /\ MainMessage'
    BY <1>1, <1>2, <1>4, <2>2 DEF TypeOK, MainTypes, MainMessage
  <2>6. table'[f] = n
    BY <1>1, <1>4 DEF AddUnit, TypeOK
  <2>7. MainUnit'
    BY <1>4, <2>2, <2>6 DEF MainUnit, Life, FileOf
  <2>8. todo' \subseteq Units'
    <3>1. \A g \in Files : table'[g] \in Units' \cup {None}
      BY <2>2
    <3>2. todo \subseteq Units'
      BY <2>2 DEF TypeOK
    <3> QED
      BY <1>4, <3>1, <3>2 DEF IteratorDisturbed
  <2>9. Units \subseteq Units'
    BY <2>2
  <2>10. ReparseTypes'
    BY <1>2, <2>8, <2>9 DEF TypeOK, ReparseTypes
  <2>11. LockTypes' /\ IndexTypes' /\ TouchedTypes'
    BY <1>2, <2>9, TypeFrames
  <2>12. IndexUnit' /\ ReparseUnit'
    BY <1>2 DEF IndexUnit, ReparseUnit, indexVars
  <2> QED
    BY <2>3, <2>4, <2>5, <2>7, <2>10, <2>11, <2>12, TypesJoined
<1> QED
  BY <1>3, <1>4 DEF Add

(* A unit of the table that is made active stays the only one that changes. *)
LEMMA Activated ==
  ASSUME IInv, NEW u \in Units, table[FileOf(u)] = u, Translate(u), UNCHANGED table,
         mpc \notin {"free", "destroyed", "closed"}
  PROVE  /\ UnitTypes' /\ Units' = Units /\ TableSound'
         /\ unit'[u].life = "active" /\ table'[unit'[u].file] = u
<1> USE DEF IInv
<1>1. /\ unit' \in Seq(UnitRecord) /\ Units' = Units
      /\ header_map' \in [Files -> Files \cup {None}]
      /\ \A v \in Units : /\ unit'[v].file = unit[v].file
                          /\ unit'[v].life = IF v = u THEN "active" ELSE unit[v].life
  BY TranslateUnits
<1>2. UnitTypes'
  BY <1>1 DEF TypeOK, UnitTypes
<1>3. \A f \in Files : table[f] # None => table[f] \in Units
  BY DEF TypeOK
<1>4. TableSound'
  <2>1. ASSUME NEW f \in Files, table[f] # None
        PROVE  unit'[table[f]].file = f /\ unit'[table[f]].life # "freed"
    BY <1>1, <1>3, <2>1 DEF TableSound, FileOf, Freed, Life
  <2>2. ASSUME NEW v \in Units, unit'[v].life = "active"
        PROVE  table[unit'[v].file] = v
    BY <1>1, <2>2 DEF TableSound, FileOf, Life
  <2> QED
    BY <1>1, <2>1, <2>2 DEF TableSound, FileOf, Freed, Life
<1> QED
  BY <1>1, <1>2, <1>4 DEF FileOf

(* An idle unit that leaves the table is no active one. *)
LEMMA ParseStep ==
  ASSUME IInv, Parse
  PROVE  IInv'
<1> USE DEF IInv
<1>1. /\ mpc = "parse" /\ munit # None /\ munit \in Units
      /\ Life(munit) = "idle" /\ table[FileOf(munit)] = munit
      /\ msg.kind \in {"didOpen", "didChange", "request"} /\ msg.file \in Files
  BY DEF Parse, MainUnit, MainMessage, TypeOK, Kinds
<1>2. /\ UNCHANGED <<msg, munit, reparsed, messages, load, dropped>>
      /\ UNCHANGED <<handler, indexing, indexVars, change_queue, m_exit, reparseVars, touched>>
  BY DEF Parse
<1>3. CASE Translate(munit) /\ Handle(munit) /\ UNCHANGED table
  <2>1. /\ UnitTypes' /\ Units' = Units /\ TableSound'
        /\ unit'[munit].life = "active" /\ table'[unit'[munit].file] = munit
    BY <1>1, <1>3, Activated
  <2>2. current' = munit /\ retries' = 0 /\ mpc' \in {"diagnose", "reparse", "leave"}
    BY <1>1, <1>3 DEF Handle
  <2>3. MainTypes' /\ MainMessage'
    BY <1>1, <1>2, <2>1, <2>2, BoundsAssumption DEF TypeOK, MainTypes, MainMessage
  <2>4. MainUnit' /\ CurrentInUse'
    BY <1>1, <1>2, <2>1, <2>2 DEF MainUnit, CurrentInUse, InUse, Life, FileOf
  <2> QED
    BY <1>2, <2>1, <2>3, <2>4, MainOnly, TypesJoined
<1>4. CASE /\ table' = [table EXCEPT ![FileOf(munit)] = None]
           /\ mpc' = "leave"
           /\ UNCHANGED <<unit, header_map, current, retries>>
  <2>1. Units' = Units /\ UnitTypes'
    BY <1>4 DEF TypeOK, UnitTypes, Units
  <2>2. MainTypes' /\ MainMessage' /\ MainUnit'
    BY <1>2, <1>4, <2>1 DEF TypeOK, MainTypes, MainMessage, MainUnit
  <2>3. ASSUME NEW v \in Units, InUse(v)
        PROVE  table'[FileOf(v)] = v
    <3>1. FileOf(v) # FileOf(munit)
      BY <1>1, <2>3 DEF InUse
    <3>2. FileOf(v) \in Files
      BY UnitRecords DEF UnitRecord, FileOf
    <3> QED
      BY <1>4, <2>3, <3>1, <3>2 DEF InUse, TypeOK
  <2>4. TableSound'
    <3>1. \A f \in Files : table'[f] # None => table'[f] = table[f]
      BY <1>4 DEF TypeOK
    <3>2. ASSUME NEW v \in Units, Life(v) = "active"
          PROVE  table'[FileOf(v)] = v
      <4>1. table[FileOf(v)] = v
        BY <1>1, <3>2 DEF TableSound
      <4> QED
        BY <2>3, <3>2, <4>1 DEF InUse
    <3> QED
      BY <1>4, <2>1, <3>1, <3>2 DEF TableSound, FileOf, Freed, Life
  <2>5. CurrentInUse'
    BY <1>1, <1>4, <2>3 DEF CurrentInUse, InUse, Life, FileOf, TypeOK
  <2> QED
    BY <1>2, <2>1, <2>2, <2>4, <2>5, MainOnly, TypesJoined
<1> QED
  BY <1>3, <1>4 DEF Parse

LEMMA ReparseAttemptStep ==
  ASSUME IInv, ReparseAttempt
  PROVE  IInv'
<1> USE DEF IInv
<1>1. /\ mpc = "reparse" /\ munit # None /\ munit \in Units /\ current = munit /\ InUse(munit)
      /\ msg.file \in Files
  BY DEF ReparseAttempt, MainUnit, MainMessage, TypeOK
<1>2. /\ UNCHANGED <<table, current, msg, munit, messages, load, dropped>>
      /\ UNCHANGED <<handler, indexing, indexVars, change_queue, m_exit, reparseVars, touched>>
  BY DEF ReparseAttempt
<1>3. mpc' \in {"reparse", "remove", "diagnose"} /\ reparsed' \in BOOLEAN
  BY <1>1 DEF ReparseAttempt
<1>4. retries' \in 0 .. RetriesMax
  BY BoundsAssumption DEF ReparseAttempt, MayRetry, TypeOK
<1>5. /\ UnitTypes' /\ Units' = Units /\ TableSound'
      /\ unit'[munit].life = "active" /\ table'[unit'[munit].file] = munit
  <2>1. CASE Translate(munit)
    BY <1>1, <1>2, <2>1, Activated DEF InUse
  <2>2. CASE UNCHANGED <<unit, header_map>>
    BY <1>1, <1>2, <2>2 DEF TypeOK, UnitTypes, TableSound, InUse, Life, FileOf, Freed, Units
  <2> QED
    BY <2>1, <2>2 DEF ReparseAttempt
<1>6. MainTypes' /\ MainMessage'
  BY <1>1, <1>2, <1>3, <1>4, <1>5 DEF TypeOK, MainTypes, MainMessage
<1>7. MainUnit' /\ CurrentInUse'
  BY <1>1, <1>2, <1>3, <1>5 DEF MainUnit, CurrentInUse, InUse, Life, FileOf
<1> QED
  BY <1>2, <1>5, <1>6, <1>7, MainOnly, TypesJoined

LEMMA RemoveStep ==
  ASSUME IInv, Remove
  PROVE  IInv'
<1> USE DEF IInv
<1>1. /\ mpc = "remove" /\ munit # None /\ munit \in Units /\ current = munit /\ InUse(munit)
      /\ msg.file \in Files /\ FileOf(munit) \in Files
  BY UnitRecords DEF Remove, MainUnit, MainMessage, TypeOK, UnitRecord, FileOf
<1>2. /\ UNCHANGED <<unit, header_map, current, msg, munit, retries, reparsed, messages, load, dropped>>
      /\ UNCHANGED <<handler, indexing, indexVars, change_queue, m_exit, reparseVars, touched>>
      /\ table' = [table EXCEPT ![FileOf(munit)] = None] /\ mpc' = "free"
  BY DEF Remove
<1>3. Units' = Units /\ UnitTypes'
  BY <1>2 DEF TypeOK, UnitTypes, Units
<1>4. MainTypes' /\ MainMessage' /\ CurrentInUse'
  BY <1>1, <1>2, <1>3 DEF TypeOK, MainTypes, MainMessage, CurrentInUse
<1>5. MainUnit'
  BY <1>1, <1>2 DEF MainUnit, InUse, Life, FileOf, TypeOK
<1>6. TableSound'
  <2>1. \A f \in Files : table'[f] # None => table'[f] = table[f]
    BY <1>2 DEF TypeOK
  <2>2. ASSUME NEW v \in Units, Life(v) = "active", v # munit
        PROVE  table'[FileOf(v)] = v
    <3>1. Life(v) = "active" /\ table[FileOf(v)] = v /\ FileOf(v) \in Files
      BY <1>1, <1>2, <2>2, UnitRecords DEF TableSound, Life, UnitRecord, FileOf
    <3>2. FileOf(v) # FileOf(munit)
      BY <1>1, <2>2, <3>1 DEF InUse
    <3> QED
      BY <1>2, <3>1, <3>2 DEF FileOf, TypeOK
  <2> QED
    BY <1>2, <1>3, <2>1, <2>2 DEF TableSound, FileOf, Freed, Life
<1> QED
  BY <1>2, <1>3, <1>4, <1>5, <1>6, MainOnly, TypesJoined

LEMMA FreeStep ==
  ASSUME IInv, Free
  PROVE  IInv'
<1> USE DEF IInv
<1>1. /\ mpc = "free" /\ munit # None /\ munit \in Units /\ Life(munit) = "active"
      /\ table[FileOf(munit)] = None /\ msg.file \in Files
  BY DEF Free, MainUnit, MainMessage, TypeOK
<1>2. /\ UNCHANGED <<table, header_map, msg, munit, retries, reparsed, messages, load>>
      /\ UNCHANGED <<handler, indexing, indexVars, change_queue, m_exit, reparseVars, touched>>
      /\ current' = None /\ dropped' = TRUE /\ mpc' = "notify"
  BY DEF Free
<1>3. /\ unit' \in Seq(UnitRecord) /\ Units' = Units
      /\ \A v \in Units : /\ unit'[v].file = unit[v].file
                          /\ unit'[v].life = IF v = munit THEN "freed" ELSE unit[v].life
  BY FreeUnitsUnits DEF Free
<1>4. UnitTypes'
  BY <1>2, <1>3 DEF TypeOK, UnitTypes
<1>5. MainTypes' /\ MainMessage' /\ MainUnit' /\ CurrentInUse'
  BY <1>1, <1>2, <1>3 DEF TypeOK, MainTypes, MainMessage, MainUnit, CurrentInUse
<1>6. TableSound'
  <2>1. ASSUME NEW f \in Files, table[f] # None
        PROVE  unit'[table[f]].file = f /\ unit'[table[f]].life # "freed"
    <3>1. table[f] \in Units /\ FileOf(table[f]) = f /\ Life(table[f]) # "freed"
      BY <2>1 DEF TypeOK, TableSound, Freed
    <3>2. table[f] # munit
      BY <1>1, <2>1, <3>1
    <3> QED
      BY <1>3, <3>1, <3>2 DEF FileOf, Life
  <2>2. ASSUME NEW v \in Units, unit'[v].life = "active"
        PROVE  table[unit'[v].file] = v
    BY <1>1, <1>3, <2>2 DEF TableSound, FileOf, Life
  <2> QED
    BY <1>2, <1>3, <2>1, <2>2 DEF TableSound, FileOf, Freed, Life
<1> QED
  BY <1>2, <1>3, <1>4, <1>5, <1>6, MainOnly, TypesJoined

LEMMA DestroyStep ==
  ASSUME IInv, Destroy
  PROVE  IInv'
<1> USE DEF IInv
<1>1. /\ UNCHANGED <<header_map, current, msg, munit, retries, reparsed, messages, load, dropped>>
      /\ UNCHANGED <<handler, indexing, indexVars, change_queue, m_exit, reparseVars, touched>>
      /\ mpc = "destroy" /\ mpc' = "destroyed" /\ table' = [f \in Files |-> None]
  BY DEF Destroy
<1>2. /\ unit' \in Seq(UnitRecord) /\ Units' = Units
      /\ \A v \in Units : /\ unit'[v].file = unit[v].file
                          /\ unit'[v].life = IF v \in InTable THEN "freed" ELSE unit[v].life
  BY FreeUnitsUnits DEF Destroy
<1>3. UnitTypes'
  BY <1>1, <1>2 DEF TypeOK, UnitTypes
<1>4. MainTypes' /\ MainMessage' /\ MainUnit' /\ CurrentInUse'
  BY <1>1, <1>2 DEF TypeOK, MainTypes, MainMessage, MainUnit, CurrentInUse
<1>5. \A v \in Units : unit'[v].life # "active"
  <2> SUFFICES ASSUME NEW v \in Units, unit[v].life = "active"
               PROVE  v \in InTable
    BY <1>2
  <2>1. table[unit[v].file] = v /\ unit[v].file \in Files
    BY <1>1, UnitRecords DEF TableSound, Life, FileOf, UnitRecord
  <2>2. v # None
    BY UnitsRange, FilesAssumption
  <2> QED
    BY <2>1, <2>2 DEF InTable
<1>6. TableSound'
  BY <1>1, <1>2, <1>5 DEF TableSound, Life
<1> QED
  BY <1>1, <1>2, <1>3, <1>4, <1>6, MainOnly, TypesJoined

-----------------------------------------------------------------------------
(* The invariant and what follows from it.                                 *)

LEMMA InitInv == Init => IInv
<1> SUFFICES ASSUME Init
             PROVE  IInv
  OBVIOUS
<1>1. Units = {}
  BY DEF Init, Units
<1>2. TypeOK
  <2>1. unit \in Seq(UnitRecord) /\ change_queue \in Seq(Files) /\ <<>> \in Seq(Units)
    BY DEF Init
  <2>2. UnitTypes /\ LockTypes /\ TouchedTypes
    BY <2>1 DEF Init, UnitTypes, LockTypes, TouchedTypes, HX!HxInit
  <2>3. MainTypes
    <3>1. msg \in [kind : Kinds, file : Files \cup {None}]
      BY DEF Init, Kinds
    <3>2. load \in [db : Nat \ {0}, at : Nat \ {0}]
      BY DEF Init
    <3>3. retries \in 0 .. RetriesMax /\ messages \in 0 .. MaxMessages
      BY BoundsAssumption DEF Init
    <3> QED
      BY <3>1, <3>2, <3>3 DEF Init, MainTypes
  <2>4. IndexTypes
    BY <2>1 DEF Init, IndexTypes
  <2>5. ReparseTypes
    BY <2>1 DEF Init, ReparseTypes
  <2> QED
    BY <2>2, <2>3, <2>4, <2>5
    DEF TypeOK, UnitTypes, LockTypes, TouchedTypes, MainTypes, IndexTypes, ReparseTypes
<1>3. TableSound /\ MainUnit /\ MainMessage /\ CurrentInUse /\ IndexUnit /\ ReparseUnit
  BY <1>1 DEF Init, TableSound, MainUnit, MainMessage, CurrentInUse, IndexUnit, ReparseUnit
<1> QED
  BY <1>2, <1>3 DEF IInv

LEMMA StutterInv == IInv /\ UNCHANGED vars => IInv'
<1> SUFFICES ASSUME IInv, UNCHANGED vars
             PROVE  IInv'
  OBVIOUS
<1> USE DEF IInv
<1>1. UNCHANGED <<unit, table, header_map, handler, indexing, mainVars, indexVars, change_queue,
                  m_exit, reparseVars, touched>>
  BY DEF vars, unitVars
<1>2. Units' = Units /\ UnitTypes'
  BY <1>1 DEF TypeOK, UnitTypes, Units
<1>3. MainTypes' /\ TableSound' /\ MainUnit' /\ MainMessage' /\ CurrentInUse'
  BY <1>1, <1>2, OtherThread
<1> QED
  BY <1>1, <1>2, <1>3, MainOnly, TypesJoined

LEMMA NextInv == IInv /\ Next => IInv'
<1> SUFFICES ASSUME IInv, Next
             PROVE  IInv'
  OBVIOUS
<1>1. CASE Main
  BY <1>1, QuietStep, LookupStep, LoadStep, AddStep, ParseStep, ReparseAttemptStep, RemoveStep,
     FreeStep, DestroyStep DEF Main
<1>2. CASE \E t \in IndexThreads : Indexer(t)
  BY <1>2, IndexStep
<1>3. CASE \E d \in DBs : MonitorSave(d)
  BY <1>3, MonitorStep
<1>4. CASE Reparse
  BY <1>4, ReparseStep
<1> QED
  BY <1>1, <1>2, <1>3, <1>4 DEF Next

(* The invariant holds in every reachable state of any instance. *)
THEOREM Inductive == Spec => []IInv
<1>1. IInv /\ [Next]_vars => IInv'
  BY NextInv, StutterInv
<1> QED
  BY InitInv, <1>1, PTL DEF Spec

(* Every variable keeps its type, whatever the threads do. *)
THEOREM TypeCorrect == Spec => []TypeOK
<1>1. IInv => TypeOK
  BY DEF IInv
<1> QED
  BY <1>1, Inductive, PTL

(* An active unit is never lost, and the table holds no freed unit: what   *)
(* get_or_create_unit, the reparse loop of didChange and the shutdown of   *)
(* unit_storage.c do to the table and to the units together. *)
THEOREM TableAlwaysSound == Spec => []TableSound
<1>1. IInv => TableSound
  BY DEF IInv
<1> QED
  BY <1>1, Inductive, PTL

(* Code actions, which read mp_current_unit without a lookup, find an      *)
(* active unit there or none, although didChange may have freed it, a      *)
(* failed parse dropped it from the table and the reparse thread worked on *)
(* it in between. *)
THEOREM CurrentAlwaysUsable == Spec => []CurrentUnitUsable
<1>1. IInv => CurrentUnitUsable
  BY DEF IInv, CurrentInUse, CurrentUnitUsable, InUse
<1> QED
  BY <1>1, Inductive, PTL

-----------------------------------------------------------------------------
(* Background indexing: a unit that is being indexed stays as it is, its    *)
(* declarations are in the index once, and who may use a freed unit.       *)

(* The lock: a handler runs exactly in these places of the main thread,    *)
(* and an index thread is inside exactly in these.                         *)
HandlerPlaces ==
  {"open_db", "load", "lookup", "add", "parse", "reparse", "remove", "free", "diagnose",
   "notify", "read", "leave", "assert"}
InsidePlaces == {"check", "indexing", "resume", "hung"}

LockFollows ==
  /\ handler <=> mpc \in HandlerPlaces
  /\ \A t \in IndexThreads : t \in indexing <=> ipc[t] \in InsidePlaces
  /\ handler => indexing = {}

(* Which index threads have started, and which have ended. *)
MonitorFollows ==
  /\ \A t \in IndexThreads :
       /\ monitor[t[1]] = "none" => ipc[t] = "unborn"
       /\ monitor[t[1]] = "saved" => ipc[t] = "done"
  /\ mpc \in {"start", "open_db", "load"} =>
       \A d \in DBs : d >= load.db => monitor[d] = "none"
  /\ mpc \in {"destroy", "destroyed", "closed"} =>
       \A d \in DBs : index_thread = d => monitor[d] = "saved"

(* A unit still to be indexed is in one place only, and has no             *)
(* declarations unless somebody parsed it.                                 *)
Pending(t) == ipc[t] \in {"suspend", "check", "indexing"}
Fresh(u) == Life(u) = "idle" => unit[u].decls = 0

QueuedOnce ==
  /\ \A d, e \in DBs : \A i \in 1 .. Len(iqueue[d]), j \in 1 .. Len(iqueue[e]) :
       iqueue[d][i] = iqueue[e][j] => d = e /\ i = j
  /\ \A t \in IndexThreads, d \in DBs : \A i \in 1 .. Len(iqueue[d]) :
       Pending(t) => iunit[t] # iqueue[d][i]
  /\ \A t, s \in IndexThreads : Pending(t) /\ Pending(s) /\ iunit[t] = iunit[s] => t = s

Waiting(u) ==
  \/ \E d \in DBs : \E i \in 1 .. Len(iqueue[d]) : iqueue[d][i] = u
  \/ \E t \in IndexThreads : Pending(t) /\ iunit[t] = u
PendingFresh ==
  /\ \A u \in Units : Waiting(u) => Fresh(u)
  /\ \A t \in IndexThreads : ipc[t] = "indexing" => Life(iunit[t]) # "active"

(* Units are freed by didChange or by the shutdown, which has joined the   *)
(* reparse thread.                                                         *)
FreedFollows ==
  /\ \A u \in Units : Freed(u) => dropped \/ mpc \in {"destroyed", "closed"}
  /\ mpc \in {"join_index", "destroy", "destroyed", "closed"} => rpc = "done"

XInv ==
  /\ LockFollows
  /\ MonitorFollows
  /\ QueuedOnce
  /\ PendingFresh
  /\ DeclsOnce
  /\ FreedFollows
  /\ FreedUnitUse

-----------------------------------------------------------------------------
(* The lock. *)

LEMMA LockMain ==
  ASSUME IInv, LockFollows, Main
  PROVE  LockFollows'
<1>1. CASE Initialize \/ \E kind \in Kinds, f \in Files : Receive(kind, f)
  <2>1. /\ indexing = {} /\ handler' = TRUE /\ UNCHANGED <<indexing, ipc>>
        /\ mpc' \in {"open_db", "read", "lookup"}
    BY <1>1 DEF Initialize, Receive, HX!HandlerEnter, indexVars
  <2> QED
    BY <2>1 DEF LockFollows, HandlerPlaces
<1>2. CASE Leave
  BY <1>2 DEF Leave, HX!HandlerLeave, indexVars, LockFollows, HandlerPlaces
<1>3. CASE StartMonitor
  <2>1. /\ mpc = "load" /\ mpc' = "open_db" /\ UNCHANGED <<handler, indexing>>
        /\ ipc' = [t \in IndexThreads |-> IF t[1] = load.db THEN "poll" ELSE ipc[t]]
    BY <1>3 DEF StartMonitor
  <2>2. indexing = {} /\ handler
    BY <2>1 DEF LockFollows, HandlerPlaces
  <2> QED
    BY <2>1, <2>2 DEF LockFollows, HandlerPlaces, InsidePlaces
<1>4. CASE UNCHANGED <<handler, indexing, ipc>> /\ (mpc \in HandlerPlaces <=> mpc' \in HandlerPlaces)
  BY <1>4 DEF LockFollows
<1>5. CASE Lookup
  <2>1. mpc' \in {"add", "parse", "diagnose", "reparse", "leave"}
    BY <1>5 DEF IInv, Lookup, Handle, MainMessage, TypeOK, Kinds
  <2> QED
    BY <1>4, <1>5, <2>1 DEF Lookup, HandlerPlaces, indexVars
<1>6. CASE Parse
  <2>1. mpc' \in {"diagnose", "reparse", "leave"}
    BY <1>6 DEF IInv, Parse, Handle, MainMessage, TypeOK, Kinds
  <2> QED
    BY <1>4, <1>6, <2>1 DEF Parse, HandlerPlaces, indexVars
<1>7. CASE OpenDatabase \/ LoadCommand \/ InitializeDone \/ Add \/ ReparseAttempt \/ Remove
           \/ Free \/ Diagnose \/ Notify \/ ReadCurrent
  <2>1. UNCHANGED <<handler, indexing, ipc>> /\ mpc \in HandlerPlaces /\ mpc' \in HandlerPlaces
    BY <1>7 DEF OpenDatabase, LoadCommand, InitializeDone, Add, ReparseAttempt, Remove, Free,
                Diagnose, Notify, ReadCurrent, HandlerPlaces, indexVars
  <2> QED
    BY <1>4, <2>1
<1>8. CASE EndOfInput \/ Join \/ Destroy \/ ProcessExit
  <2>1. UNCHANGED <<handler, indexing, ipc>> /\ mpc \notin HandlerPlaces /\ mpc' \notin HandlerPlaces
    BY <1>8 DEF EndOfInput, Join, Destroy, ProcessExit, HandlerPlaces, indexVars
  <2> QED
    BY <1>4, <2>1
<1> QED
  BY <1>1, <1>2, <1>3, <1>5, <1>6, <1>7, <1>8 DEF Main

LEMMA LockIndexer ==
  ASSUME IInv, LockFollows, NEW t \in IndexThreads, Indexer(t)
  PROVE  LockFollows'
<1>1. mpc' = mpc
  BY DEF Indexer, IPoll, ISuspend, ICheck, IIndex, IResume, mainVars
<1>2. ipc \in [IndexThreads -> {"unborn", "poll", "suspend", "check", "indexing", "resume",
                               "done", "hung"}]
  BY DEF IInv, TypeOK
<1>3. CASE ISuspend(t)
  BY <1>1, <1>2, <1>3 DEF ISuspend, HX!IndexerEnter, LockFollows, InsidePlaces
<1>4. CASE IResume(t)
  BY <1>1, <1>2, <1>4 DEF IResume, HX!IndexerLeave, LockFollows, InsidePlaces
<1>5. CASE IPoll(t)
  <2>1. ipc[t] = "poll" /\ UNCHANGED <<handler, indexing>>
        /\ \E next \in {"done", "suspend"} : ipc' = [ipc EXCEPT ![t] = next]
    BY <1>5 DEF IPoll
  <2> QED
    BY <1>1, <1>2, <2>1 DEF LockFollows, InsidePlaces
<1>6. CASE ICheck(t) \/ IIndex(t)
  <2>1. CASE ICheck(t)
    <3>1. iunit[t] \in Units
      BY <2>1 DEF ICheck, IInv, IndexUnit, TypeOK
    <3>2. Life(iunit[t]) \in {"idle", "active", "freed"}
      BY <3>1, UnitRecords DEF IInv, UnitRecord, Life
    <3>3. ipc[t] = "check" /\ UNCHANGED <<handler, indexing>>
          /\ \E next \in {"indexing", "resume", "hung"} : ipc' = [ipc EXCEPT ![t] = next]
      BY <2>1, <3>2 DEF ICheck, Freed
    <3> QED
      BY <1>1, <1>2, <3>3 DEF LockFollows, InsidePlaces
  <2>2. CASE IIndex(t)
    <3>1. ipc[t] = "indexing" /\ UNCHANGED <<handler, indexing>>
          /\ \E next \in {"resume", "hung"} : ipc' = [ipc EXCEPT ![t] = next]
      BY <2>2 DEF IIndex
    <3> QED
      BY <1>1, <1>2, <3>1 DEF LockFollows, InsidePlaces
  <2> QED
    BY <1>6, <2>1, <2>2
<1> QED
  BY <1>3, <1>4, <1>5, <1>6 DEF Indexer

LEMMA LockKept ==
  ASSUME IInv, LockFollows, [Next]_vars
  PROVE  LockFollows'
<1>1. CASE Reparse \/ (\E d \in DBs : MonitorSave(d)) \/ UNCHANGED vars
  <2>1. UNCHANGED <<handler, indexing, ipc, mpc>>
    BY <1>1 DEF Reparse, RCheck, RWake, RTake, RNext, RTest, RReparse, RDiagnose, MonitorSave,
                vars, mainVars, indexVars
  <2> QED
    BY <2>1 DEF LockFollows
<1> QED
  BY <1>1, LockMain, LockIndexer DEF Next

-----------------------------------------------------------------------------
(* Start and end of the index threads. *)

LEMMA DatabaseNumbers == DBs \subseteq Nat /\ \A t \in IndexThreads : t[1] \in DBs
<1>1. DBs = 1 .. Len(Databases) /\ Len(Databases) \in Nat
  BY FilesAssumption, LenProperties DEF DBs
<1> QED
  BY <1>1 DEF IndexThreads

LEMMA MonitorMain ==
  ASSUME IInv, MonitorFollows, Main
  PROVE  MonitorFollows'
<1>1. CASE StartMonitor
  <2>1. /\ mpc = "load" /\ mpc' = "open_db" /\ load.db \in DBs /\ load.db \in Nat
        /\ monitor' = [monitor EXCEPT ![load.db] = "running"]
        /\ ipc' = [t \in IndexThreads |-> IF t[1] = load.db THEN "poll" ELSE ipc[t]]
        /\ load'.db = load.db + 1
    BY <1>1 DEF StartMonitor, IInv, MainMessage, TypeOK
  <2>2. \A d \in DBs : monitor'[d] = IF d = load.db THEN "running" ELSE monitor[d]
    BY <2>1 DEF IInv, TypeOK
  <2>3. ASSUME NEW t \in IndexThreads
        PROVE  /\ monitor'[t[1]] = "none" => ipc'[t] = "unborn"
               /\ monitor'[t[1]] = "saved" => ipc'[t] = "done"
    BY <2>1, <2>2, DatabaseNumbers DEF MonitorFollows
  <2>4. \A d \in DBs : d >= load.db + 1 => monitor'[d] = "none"
    BY <2>1, <2>2, DatabaseNumbers DEF MonitorFollows
  <2> QED
    BY <2>1, <2>3, <2>4 DEF MonitorFollows
<1>2. CASE OpenDatabase
  <2>1. /\ mpc = "open_db" /\ mpc' \in {"load", "open_db"} /\ UNCHANGED <<monitor, ipc>>
        /\ load.db \in Nat /\ (load' = load \/ load'.db = load.db + 1)
    BY <1>2 DEF OpenDatabase, indexVars, IInv, TypeOK
  <2>2. \A d \in DBs : d >= load'.db => d >= load.db
    BY <2>1, DatabaseNumbers
  <2> QED
    BY <2>1, <2>2 DEF MonitorFollows
<1>3. CASE LoadCommand
  <2>1. mpc = "load" /\ mpc' = mpc /\ UNCHANGED <<monitor, ipc, index_thread>> /\ load'.db = load.db
    BY <1>3 DEF LoadCommand, IInv, TypeOK
  <2> QED
    BY <2>1 DEF MonitorFollows
<1>4. CASE Join
  BY <1>4 DEF Join, indexVars, MonitorFollows
<1>5. CASE UNCHANGED <<load, indexVars>>
           /\ (mpc' \in {"start", "open_db", "load"} => mpc \in {"start", "open_db", "load"})
           /\ (mpc' \in {"destroy", "destroyed", "closed"} =>
                 mpc \in {"destroy", "destroyed", "closed"})
  BY <1>5 DEF MonitorFollows, indexVars
<1>6. CASE Lookup \/ Parse
  <2>1. mpc' \in {"add", "parse", "diagnose", "reparse", "leave"}
    BY <1>6 DEF IInv, Lookup, Parse, Handle, MainMessage, TypeOK, Kinds
  <2> QED
    BY <1>5, <1>6, <2>1 DEF Lookup, Parse
<1>7. CASE \E kind \in Kinds, f \in Files : Receive(kind, f)
  BY <1>5, <1>7 DEF Receive
<1>8. CASE Initialize \/ InitializeDone \/ Add \/ ReparseAttempt \/ Remove \/ Free \/ Diagnose
           \/ Notify \/ ReadCurrent \/ Leave \/ EndOfInput \/ Destroy \/ ProcessExit
  BY <1>5, <1>8 DEF Initialize, InitializeDone, Add, ReparseAttempt, Remove, Free, Diagnose,
                    Notify, ReadCurrent, Leave, EndOfInput, Destroy, ProcessExit
<1> QED
  BY <1>1, <1>2, <1>3, <1>4, <1>6, <1>7, <1>8 DEF Main

LEMMA MonitorKept ==
  ASSUME IInv, MonitorFollows, [Next]_vars
  PROVE  MonitorFollows'
<1>1. CASE Main
  BY <1>1, MonitorMain
<1>2. CASE Reparse \/ UNCHANGED vars
  <2>1. UNCHANGED <<mpc, load, indexVars>>
    BY <1>2 DEF Reparse, RCheck, RWake, RTake, RNext, RTest, RReparse, RDiagnose, vars, mainVars
  <2> QED
    BY <2>1 DEF MonitorFollows, indexVars
<1>3. ASSUME NEW t \in IndexThreads, Indexer(t)
      PROVE  MonitorFollows'
  <2>1. UNCHANGED <<mpc, load, index_thread, monitor>> /\ ipc[t] \notin {"unborn", "done"}
    BY <1>3 DEF Indexer, IPoll, ISuspend, ICheck, IIndex, IResume, mainVars
  <2>2. \A s \in IndexThreads : s # t => ipc'[s] = ipc[s]
    BY <1>3 DEF Indexer, IPoll, ISuspend, ICheck, IIndex, IResume, IInv, TypeOK
  <2> QED
    BY <2>1, <2>2 DEF MonitorFollows
<1>4. ASSUME NEW d \in DBs, MonitorSave(d)
      PROVE  MonitorFollows'
  <2>1. /\ monitor[d] = "running" /\ UNCHANGED <<mpc, load, index_thread, ipc>>
        /\ \A e \in DBs : monitor'[e] = IF e = d THEN "saved" ELSE monitor[e]
    BY <1>4 DEF MonitorSave, mainVars, IInv, TypeOK
  <2>2. \A t \in IndexThreads : t[1] = d => ipc[t] = "done"
    BY <1>4 DEF MonitorSave, IndexThreads
  <2>3. ASSUME NEW t \in IndexThreads
        PROVE  /\ monitor'[t[1]] = "none" => ipc'[t] = "unborn"
               /\ monitor'[t[1]] = "saved" => ipc'[t] = "done"
    BY <2>1, <2>2, DatabaseNumbers DEF MonitorFollows
  <2>4. ASSUME mpc \in {"start", "open_db", "load"}, NEW e \in DBs, e >= load.db
        PROVE  monitor'[e] = "none"
    BY <2>1, <2>4 DEF MonitorFollows
  <2>5. ASSUME mpc \in {"destroy", "destroyed", "closed"}, NEW e \in DBs, index_thread = e
        PROVE  monitor'[e] = "saved"
    BY <2>1, <2>5 DEF MonitorFollows
  <2>6. mpc' = mpc /\ load' = load /\ index_thread' = index_thread
    BY <2>1
  <2> QED
    BY <2>3, <2>4, <2>5, <2>6 DEF MonitorFollows
<1> QED
  BY <1>1, <1>2, <1>3, <1>4 DEF Next

-----------------------------------------------------------------------------
(* What a step may do to the units. *)

SameUnits ==
  Units' = Units /\ \A v \in Units : unit'[v].life = unit[v].life /\ unit'[v].decls = unit[v].decls
Activates(u) ==
  /\ Units' = Units
  /\ \A v \in Units : /\ unit'[v].life = IF v = u THEN "active" ELSE unit[v].life
                      /\ unit'[v].decls = IF v = u THEN 1 ELSE unit[v].decls
Counts(u) ==
  /\ Units' = Units
  /\ \A v \in Units : /\ unit'[v].life = unit[v].life
                      /\ unit'[v].decls = IF v = u THEN unit[u].decls + 1 ELSE unit[v].decls
Adds(n) ==
  /\ Units' = Units \cup {n} /\ n \notin Units
  /\ \A v \in Units : unit'[v].life = unit[v].life /\ unit'[v].decls = unit[v].decls
  /\ unit'[n].life = "idle" /\ unit'[n].decls = 0
Frees(us) ==
  /\ Units' = Units
  /\ \A v \in Units : /\ unit'[v].life = IF v \in us THEN "freed" ELSE unit[v].life
                      /\ unit'[v].decls = IF v \in us THEN 0 ELSE unit[v].decls

LEMMA UnitsOfMain ==
  ASSUME IInv, Main
  PROVE  \/ SameUnits
         \/ \E u \in Units : Activates(u) /\ mpc \in {"parse", "reparse"}
                             /\ UNCHANGED <<iqueue, ipc, iunit, dropped>>
         \/ Adds(Len(unit) + 1) /\ mpc \in {"load", "add"} /\ UNCHANGED dropped
         \/ \E us : Frees(us) /\ UNCHANGED <<iqueue, ipc, iunit>>
                    /\ (Free \/ (Destroy /\ us = InTable))
<1> USE DEF IInv
<1>1. CASE UNCHANGED unit
  BY <1>1 DEF SameUnits, Units
<1>2. CASE Parse \/ ReparseAttempt
  <2>1. munit \in Units /\ mpc \in {"parse", "reparse"} /\ UNCHANGED <<iqueue, ipc, iunit, dropped>>
    BY <1>2 DEF Parse, ReparseAttempt, MainUnit, TypeOK, indexVars
  <2>2. CASE Translate(munit)
    BY <2>1, <2>2, TranslateUnits DEF Activates
  <2> QED
    BY <1>1, <1>2, <2>2 DEF Parse, ReparseAttempt
<1>3. CASE LoadCommand
  <2>1. Databases[load.db][load.at] \in Files
    <3>1. Databases[load.db] \in Seq(Files)
      BY <1>3, FilesAssumption, ElementOfSeq, LenProperties DEF DBs, LoadCommand, MainMessage
    <3>2. load.at \in 1 .. Len(Databases[load.db])
      BY <1>3, <3>1, LenProperties DEF LoadCommand
    <3> QED
      BY <3>1, <3>2, ElementOfSeq
  <2>2. UNCHANGED unit \/ AddUnit(Databases[load.db][load.at])
    BY <1>3 DEF LoadCommand
  <2> QED
    BY <1>1, <1>3, <2>1, <2>2, AddUnits DEF Adds, LoadCommand
<1>4. CASE Add
  <2>1. msg.file \in Files /\ (UNCHANGED unit \/ AddUnit(msg.file)) /\ mpc = "add" /\ UNCHANGED dropped
    BY <1>4 DEF Add, MainMessage
  <2> QED
    BY <1>1, <2>1, AddUnits DEF Adds
<1>5. CASE Free \/ Destroy
  <2>1. \E us : FreeUnits(us) /\ (Free \/ (Destroy /\ us = InTable))
    BY <1>5 DEF Free, Destroy
  <2>2. UNCHANGED <<iqueue, ipc, iunit>>
    BY <1>5 DEF Free, Destroy, indexVars
  <2> QED
    BY <2>1, <2>2, FreeUnitsUnits DEF Frees
<1>6. CASE \/ Initialize \/ OpenDatabase \/ InitializeDone \/ StartMonitor \/ Lookup \/ Remove
           \/ \E kind \in Kinds, f \in Files : Receive(kind, f)
           \/ Diagnose \/ Notify \/ ReadCurrent \/ Leave \/ EndOfInput \/ Join \/ ProcessExit
  BY <1>1, <1>6 DEF Initialize, OpenDatabase, InitializeDone, StartMonitor, Receive, Lookup, Remove,
                    Diagnose, Notify, ReadCurrent, Leave, EndOfInput, Join, ProcessExit, unitVars
<1> QED
  BY <1>2, <1>3, <1>4, <1>5, <1>6 DEF Main

LEMMA UnitsOfOthers ==
  ASSUME IInv, ~Main, [Next]_vars
  PROVE  /\ UNCHANGED <<mpc, dropped, index_thread>>
         /\ \/ SameUnits
            \/ \E u \in Units : Activates(u) /\ Life(u) = "active" /\ UNCHANGED <<iqueue, ipc, iunit>>
            \/ \E t \in IndexThreads :
                 /\ Counts(iunit[t]) /\ ipc[t] = "indexing" /\ ~Freed(iunit[t])
                 /\ iunit[t] \in Units
                 /\ ipc' = [ipc EXCEPT ![t] = "resume"] /\ UNCHANGED <<iqueue, iunit>>
<1> USE DEF IInv
<1>1. UNCHANGED <<mpc, dropped, index_thread>>
  BY DEF Next, Reparse, RCheck, RWake, RTake, RNext, RTest, RReparse, RDiagnose, MonitorSave,
         Indexer, IPoll, ISuspend, ICheck, IIndex, IResume, vars, mainVars, indexVars
<1>2. CASE UNCHANGED unit
  BY <1>1, <1>2 DEF SameUnits, Units
<1>3. CASE Reparse
  <2>1. CASE /\ rpc = "reparse" /\ Life(runit) = "active" /\ Translate(runit)
             /\ UNCHANGED <<iqueue, ipc, iunit>>
    <3>1. runit \in Units
      BY <2>1 DEF TypeOK, ReparseUnit
    <3> QED
      BY <1>1, <2>1, <3>1, TranslateUnits DEF Activates
  <2> QED
    BY <1>2, <1>3, <2>1 DEF Reparse, RCheck, RWake, RTake, RNext, RTest, RReparse, RDiagnose,
                            unitVars, indexVars
<1>4. ASSUME NEW t \in IndexThreads, Indexer(t)
      PROVE  UNCHANGED unit
             \/ /\ Counts(iunit[t]) /\ ipc[t] = "indexing" /\ ~Freed(iunit[t])
                /\ iunit[t] \in Units
                /\ ipc' = [ipc EXCEPT ![t] = "resume"] /\ UNCHANGED <<iqueue, iunit>>
  <2>1. CASE IIndex(t) /\ ~Freed(iunit[t])
    <3>1. iunit[t] \in Units
      BY <2>1 DEF IIndex, TypeOK, IndexUnit
    <3>2. /\ IndexSource(iunit[t]) /\ ipc[t] = "indexing"
          /\ ipc' = [ipc EXCEPT ![t] = "resume"] /\ UNCHANGED <<iqueue, iunit>>
      BY <2>1 DEF IIndex
    <3> QED
      BY <2>1, <3>1, <3>2, IndexUnits DEF Counts
  <2> QED
    BY <1>4, <2>1 DEF Indexer, IPoll, ISuspend, ICheck, IIndex, IResume, unitVars
<1>5. CASE (\E d \in DBs : MonitorSave(d)) \/ UNCHANGED vars
  BY <1>2, <1>5 DEF MonitorSave, vars, unitVars
<1> QED
  BY <1>1, <1>2, <1>3, <1>4, <1>5 DEF Next

-----------------------------------------------------------------------------
(* How the queues and the polled units move: they stay (a thread may only  *)
(* cease to be pending), a new unit is queued, or a thread polls one.      *)

Stays ==
  /\ iqueue' = iqueue
  /\ \A t \in IndexThreads : ipc'[t] \in {"suspend", "check", "indexing"} =>
       Pending(t) /\ iunit'[t] = iunit[t]
Queues(d, n) ==
  /\ iqueue' = [iqueue EXCEPT ![d] = Append(@, n)]
  /\ UNCHANGED <<ipc, iunit>>
Polls(t) ==
  /\ iqueue[t[1]] # <<>> /\ ~Pending(t)
  /\ iqueue' = [iqueue EXCEPT ![t[1]] = Tail(@)]
  /\ ipc' = [ipc EXCEPT ![t] = "suspend"]
  /\ iunit' = [iunit EXCEPT ![t] = Head(iqueue[t[1]])]

LEMMA QueueSteps ==
  ASSUME IInv, [Next]_vars
  PROVE  \/ Stays
         \/ \E d \in DBs : Queues(d, Len(unit) + 1) /\ Adds(Len(unit) + 1)
         \/ \E t \in IndexThreads : Polls(t) /\ SameUnits
<1> USE DEF IInv
<1>1. CASE UNCHANGED <<iqueue, ipc, iunit>>
  BY <1>1 DEF Stays, Pending
<1>2. CASE StartMonitor
  BY <1>2 DEF StartMonitor, Stays, Pending
<1>3. CASE LoadCommand
  <2>1. CASE /\ AddUnit(Databases[load.db][load.at])
             /\ iqueue' = [iqueue EXCEPT ![load.db] = Append(@, Len(unit) + 1)]
    <3>1. load.db \in DBs /\ Databases[load.db] \in Seq(Files)
      BY <1>3, FilesAssumption, ElementOfSeq, LenProperties DEF DBs, LoadCommand, MainMessage
    <3>2. load.at \in 1 .. Len(Databases[load.db])
      BY <1>3, <3>1, LenProperties DEF LoadCommand
    <3>3. Databases[load.db][load.at] \in Files
      BY <3>1, <3>2, ElementOfSeq
    <3>4. Adds(Len(unit) + 1)
      BY <2>1, <3>3, AddUnits DEF Adds
    <3>5. Queues(load.db, Len(unit) + 1)
      BY <1>3, <2>1 DEF Queues, LoadCommand
    <3> QED
      BY <3>1, <3>4, <3>5
  <2> QED
    BY <1>1, <1>3, <2>1 DEF LoadCommand
<1>4. CASE Main /\ ~StartMonitor /\ ~LoadCommand
  BY <1>1, <1>4 DEF Main, Initialize, OpenDatabase, InitializeDone, Receive, Lookup, Add, Parse,
     ReparseAttempt, Remove, Free, Diagnose, Notify, ReadCurrent, Leave, EndOfInput, Join, Destroy,
     ProcessExit, indexVars
<1>5. ASSUME NEW t \in IndexThreads, Indexer(t)
      PROVE  Stays \/ (Polls(t) /\ SameUnits)
  <2>1. CASE IPoll(t) /\ iqueue[t[1]] # <<>>
    <3>1. Polls(t)
      BY <2>1 DEF IPoll, Polls, Pending
    <3> QED
      BY <2>1, <3>1 DEF IPoll, unitVars, SameUnits, Units
  <2>2. CASE IPoll(t) /\ iqueue[t[1]] = <<>>
    BY <2>2 DEF IPoll, Stays, Pending, TypeOK
  <2>3. CASE ISuspend(t) \/ ICheck(t) \/ IIndex(t)
    <3>1. /\ UNCHANGED <<iqueue, iunit>> /\ ipc[t] \in {"suspend", "check", "indexing"}
          /\ \A s \in IndexThreads : s # t => ipc'[s] = ipc[s]
      BY <2>3 DEF ISuspend, ICheck, IIndex, TypeOK
    <3> QED
      BY <3>1 DEF Stays, Pending
  <2>4. CASE IResume(t)
    BY <2>4 DEF IResume, Stays, Pending, TypeOK
  <2> QED
    BY <1>5, <2>1, <2>2, <2>3, <2>4 DEF Indexer
<1>6. CASE Reparse \/ (\E d \in DBs : MonitorSave(d)) \/ UNCHANGED vars
  BY <1>1, <1>6 DEF Reparse, RCheck, RWake, RTake, RNext, RTest, RReparse, RDiagnose, MonitorSave,
                    vars, indexVars
<1> QED
  BY <1>2, <1>3, <1>4, <1>5, <1>6 DEF Next

(* A queue after its first unit was polled. *)
LEMMA PolledQueue ==
  ASSUME IInv, NEW t \in IndexThreads, Polls(t)
  PROVE  /\ t[1] \in DBs /\ 1 \in 1 .. Len(iqueue[t[1]])
         /\ iunit'[t] = iqueue[t[1]][1]
         /\ \A e \in DBs : \A i \in 1 .. Len(iqueue'[e]) :
              LET j == IF e = t[1] THEN i + 1 ELSE i
              IN  j \in 1 .. Len(iqueue[e]) /\ iqueue'[e][i] = iqueue[e][j]
         /\ \A s \in IndexThreads : s # t => ipc'[s] = ipc[s] /\ iunit'[s] = iunit[s]
<1> DEFINE d == t[1]
           q == iqueue[d]
<1>1. d \in DBs /\ q \in Seq(Units) /\ q # <<>>
  BY DatabaseNumbers DEF Polls, IInv, TypeOK
<1>2. /\ Len(q) \in Nat \ {0} /\ Tail(q) \in Seq(Units) /\ Len(Tail(q)) = Len(q) - 1
      /\ \A i \in 1 .. Len(Tail(q)) : Tail(q)[i] = q[i + 1]
  BY <1>1, HeadTailProperties, EmptySeq
<1>3. \A e \in DBs : iqueue'[e] = IF e = d THEN Tail(q) ELSE iqueue[e]
  BY <1>1 DEF Polls, IInv, TypeOK
<1>4. iunit'[t] = q[1]
  BY <1>1 DEF Polls, IInv, TypeOK
<1>5. ASSUME NEW e \in DBs, NEW i \in 1 .. Len(iqueue'[e])
      PROVE  LET j == IF e = d THEN i + 1 ELSE i
             IN  j \in 1 .. Len(iqueue[e]) /\ iqueue'[e][i] = iqueue[e][j]
  <2>1. CASE e = d
    <3>1. iqueue'[e] = Tail(q) /\ i \in 1 .. Len(Tail(q))
      BY <1>3, <2>1
    <3>2. Tail(q)[i] = q[i + 1]
      BY <1>2, <3>1
    <3>3. i + 1 \in 1 .. Len(q)
      BY <1>2, <3>1
    <3> QED
      BY <2>1, <3>1, <3>2, <3>3
  <2>2. CASE e # d
    BY <1>3, <2>2
  <2> QED
    BY <2>1, <2>2
<1>6. \A s \in IndexThreads : s # t => ipc'[s] = ipc[s] /\ iunit'[s] = iunit[s]
  BY DEF Polls, IInv, TypeOK
<1> QED
  BY <1>1, <1>2, <1>4, <1>5, <1>6

(* A queue after a unit was added at its end. *)
LEMMA LongerQueue ==
  ASSUME IInv, NEW d \in DBs, NEW n, Queues(d, n)
  PROVE  \A e \in DBs : \A i \in 1 .. Len(iqueue'[e]) :
           \/ i \in 1 .. Len(iqueue[e]) /\ iqueue'[e][i] = iqueue[e][i]
           \/ e = d /\ i = Len(iqueue[d]) + 1 /\ iqueue'[e][i] = n
<1>1. \A e \in DBs : iqueue'[e] = IF e = d THEN Append(iqueue[d], n) ELSE iqueue[e]
  BY DEF Queues, IInv, TypeOK
<1>2. iqueue[d] \in Seq(Units \cup {n})
  BY SeqMonotonic DEF IInv, TypeOK
<1>3. /\ Len(iqueue[d]) \in Nat /\ Len(Append(iqueue[d], n)) = Len(iqueue[d]) + 1
      /\ \A i \in 1 .. Len(iqueue[d]) : Append(iqueue[d], n)[i] = iqueue[d][i]
      /\ Append(iqueue[d], n)[Len(iqueue[d]) + 1] = n
  BY <1>2, AppendProperties, LenProperties
<1>4. ASSUME NEW e \in DBs, NEW i \in 1 .. Len(iqueue'[e])
      PROVE  \/ i \in 1 .. Len(iqueue[e]) /\ iqueue'[e][i] = iqueue[e][i]
             \/ e = d /\ i = Len(iqueue[d]) + 1 /\ iqueue'[e][i] = n
  <2>1. CASE e = d
    <3>1. iqueue'[e] = Append(iqueue[d], n) /\ i \in 1 .. Len(Append(iqueue[d], n))
      BY <1>1, <2>1
    <3>2. i \in 1 .. Len(iqueue[d]) \/ i = Len(iqueue[d]) + 1
      BY <1>3, <3>1
    <3> QED
      BY <1>3, <2>1, <3>1, <3>2
  <2>2. CASE e # d
    BY <1>1, <2>2
  <2> QED
    BY <2>1, <2>2
<1> QED
  BY <1>4

-----------------------------------------------------------------------------
(* No unit is queued or held twice. *)

LEMMA WaitingUnits ==
  ASSUME IInv
  PROVE  /\ \A d \in DBs : Len(iqueue[d]) \in Nat
                           /\ \A i \in 1 .. Len(iqueue[d]) : iqueue[d][i] \in Units
         /\ \A t \in IndexThreads : Pending(t) => iunit[t] \in Units
<1>1. \A d \in DBs : iqueue[d] \in Seq(Units)
  BY DEF IInv, TypeOK
<1>2. \A d \in DBs : Len(iqueue[d]) \in Nat
                     /\ \A i \in 1 .. Len(iqueue[d]) : iqueue[d][i] \in Units
  BY <1>1, LenProperties, ElementOfSeq
<1>3. \A t \in IndexThreads : Pending(t) => iunit[t] \in Units
  BY DEF IInv, TypeOK, IndexUnit, Pending
<1> QED
  BY <1>2, <1>3

LEMMA QueuedOnceKept ==
  ASSUME IInv, QueuedOnce, [Next]_vars
  PROVE  QueuedOnce'
<1>1. CASE Stays
  BY <1>1 DEF Stays, QueuedOnce, Pending
<1>2. ASSUME NEW d \in DBs, NEW n, n \notin Units, Queues(d, n)
      PROVE  QueuedOnce'
  <2>1. ASSUME NEW e \in DBs, NEW g \in DBs,
               NEW i \in 1 .. Len(iqueue'[e]), NEW j \in 1 .. Len(iqueue'[g]),
               iqueue'[e][i] = iqueue'[g][j]
        PROVE  e = g /\ i = j
    <3>1. \/ i \in 1 .. Len(iqueue[e]) /\ iqueue'[e][i] = iqueue[e][i] /\ iqueue[e][i] \in Units
          \/ e = d /\ i = Len(iqueue[d]) + 1 /\ iqueue'[e][i] = n
      BY <1>2, LongerQueue, WaitingUnits
    <3>2. \/ j \in 1 .. Len(iqueue[g]) /\ iqueue'[g][j] = iqueue[g][j] /\ iqueue[g][j] \in Units
          \/ g = d /\ j = Len(iqueue[d]) + 1 /\ iqueue'[g][j] = n
      BY <1>2, LongerQueue, WaitingUnits
    <3> QED
      BY <1>2, <2>1, <3>1, <3>2 DEF QueuedOnce
  <2>2. ASSUME NEW t \in IndexThreads, NEW e \in DBs, NEW i \in 1 .. Len(iqueue'[e]), Pending(t)
        PROVE  iunit[t] # iqueue'[e][i]
    <3>1. \/ i \in 1 .. Len(iqueue[e]) /\ iqueue'[e][i] = iqueue[e][i]
          \/ iqueue'[e][i] = n
      BY <1>2, LongerQueue
    <3> QED
      BY <1>2, <2>2, <3>1, WaitingUnits DEF QueuedOnce
  <2>3. ipc' = ipc /\ iunit' = iunit
    BY <1>2 DEF Queues
  <2>4. \A t \in IndexThreads : Pending(t)' <=> Pending(t)
    BY <2>3 DEF Pending
  <2>5. \A t, s \in IndexThreads : Pending(t) /\ Pending(s) /\ iunit[t] = iunit[s] => t = s
    BY DEF QueuedOnce
  <2> QED
    BY <2>1, <2>2, <2>3, <2>4, <2>5 DEF QueuedOnce
<1>3. ASSUME NEW t \in IndexThreads, Polls(t)
      PROVE  QueuedOnce'
  <2> DEFINE from(e, i) == IF e = t[1] THEN i + 1 ELSE i
  <2>1. /\ t[1] \in DBs /\ 1 \in 1 .. Len(iqueue[t[1]]) /\ iunit'[t] = iqueue[t[1]][1]
        /\ \A e \in DBs : \A i \in 1 .. Len(iqueue'[e]) :
             from(e, i) \in 1 .. Len(iqueue[e]) /\ iqueue'[e][i] = iqueue[e][from(e, i)]
        /\ \A s \in IndexThreads : s # t => ipc'[s] = ipc[s] /\ iunit'[s] = iunit[s]
    BY <1>3, PolledQueue
  <2>2. ASSUME NEW e \in DBs, NEW g \in DBs,
               NEW i \in 1 .. Len(iqueue'[e]), NEW j \in 1 .. Len(iqueue'[g]),
               iqueue'[e][i] = iqueue'[g][j]
        PROVE  e = g /\ i = j
    <3>1. PICK p \in 1 .. Len(iqueue[e]) : p = from(e, i) /\ iqueue'[e][i] = iqueue[e][p]
      BY <2>1
    <3>2. PICK q \in 1 .. Len(iqueue[g]) : q = from(g, j) /\ iqueue'[g][j] = iqueue[g][q]
      BY <2>1
    <3>3. iqueue[e][p] = iqueue[g][q]
      BY <2>2, <3>1, <3>2
    <3>4. e = g /\ p = q
      BY <3>3 DEF QueuedOnce
    <3> QED
      BY <3>1, <3>2, <3>4
  <2>3. ASSUME NEW s \in IndexThreads, NEW e \in DBs, NEW i \in 1 .. Len(iqueue'[e]), Pending(s)'
        PROVE  iunit'[s] # iqueue'[e][i]
    <3>1. CASE s = t
      <4>1. PICK p \in 1 .. Len(iqueue[e]) : p = from(e, i) /\ iqueue'[e][i] = iqueue[e][p]
        BY <2>1
      <4>2. iqueue[e][p] = iqueue[t[1]][1] => e = t[1] /\ p = 1
        BY <2>1 DEF QueuedOnce
      <4>3. i # 0
        OBVIOUS
      <4>4. ~(e = t[1] /\ p = 1)
        BY <4>1, <4>3
      <4> QED
        BY <2>1, <3>1, <4>1, <4>2, <4>4
    <3>2. CASE s # t
      <4>1. Pending(s) /\ iunit'[s] = iunit[s]
        BY <2>1, <2>3, <3>2 DEF Pending
      <4> QED
        BY <2>1, <4>1 DEF QueuedOnce
    <3> QED
      BY <3>1, <3>2
  <2>4. ASSUME NEW r \in IndexThreads, NEW s \in IndexThreads,
               Pending(r)', Pending(s)', iunit'[r] = iunit'[s]
        PROVE  r = s
    <3>1. \A x \in IndexThreads : x # t /\ Pending(x)' => Pending(x) /\ iunit'[x] = iunit[x]
      BY <2>1 DEF Pending
    <3>2. \A x \in IndexThreads : x # t /\ Pending(x)' => iunit'[x] # iunit'[t]
      BY <2>1, <3>1 DEF QueuedOnce
    <3> QED
      BY <2>4, <3>1, <3>2 DEF QueuedOnce
  <2> QED
    BY <2>2, <2>3, <2>4 DEF QueuedOnce
<1> QED
  BY <1>1, <1>2, <1>3, QueueSteps DEF Adds

-----------------------------------------------------------------------------
(* A unit that waits to be indexed has no declarations. *)

LEMMA WaitingKept ==
  ASSUME IInv, [Next]_vars, NEW u \in Units, Waiting(u)'
  PROVE  Waiting(u)
<1>1. CASE Stays
  BY <1>1 DEF Stays, Waiting, Pending
<1>2. ASSUME NEW d \in DBs, NEW n, n \notin Units, Queues(d, n)
      PROVE  Waiting(u)
  <2>1. /\ ipc' = ipc /\ iunit' = iunit
        /\ \A e \in DBs : \A i \in 1 .. Len(iqueue'[e]) :
             \/ i \in 1 .. Len(iqueue[e]) /\ iqueue'[e][i] = iqueue[e][i]
             \/ iqueue'[e][i] = n
    BY <1>2, LongerQueue DEF Queues
  <2> QED
    BY <1>2, <2>1 DEF Waiting, Pending
<1>3. ASSUME NEW t \in IndexThreads, Polls(t)
      PROVE  Waiting(u)
  <2>1. /\ t[1] \in DBs /\ 1 \in 1 .. Len(iqueue[t[1]]) /\ iunit'[t] = iqueue[t[1]][1]
        /\ \A e \in DBs : \A i \in 1 .. Len(iqueue'[e]) :
             \E j \in 1 .. Len(iqueue[e]) : iqueue'[e][i] = iqueue[e][j]
        /\ \A s \in IndexThreads : s # t => ipc'[s] = ipc[s] /\ iunit'[s] = iunit[s]
    BY <1>3, PolledQueue
  <2> QED
    BY <2>1 DEF Waiting, Pending
<1> QED
  BY <1>1, <1>2, <1>3, QueueSteps DEF Adds

(* What a thread is about to index, and what it was before. *)
LEMMA IndexingKept ==
  ASSUME IInv, [Next]_vars, NEW t \in IndexThreads, ipc'[t] = "indexing"
  PROVE  /\ iunit'[t] = iunit[t] /\ iunit[t] \in Units
         /\ ipc[t] = "indexing" \/ (Life(iunit[t]) # "active" /\ SameUnits)
<1> USE DEF IInv
<1>1. CASE ipc'[t] = ipc[t]
  <2>1. iunit'[t] = iunit[t]
    <3>1. CASE Stays
      BY <1>1, <3>1 DEF Stays
    <3>2. ASSUME NEW d \in DBs, NEW n, Queues(d, n)
          PROVE  iunit'[t] = iunit[t]
      BY <3>2 DEF Queues
    <3>3. ASSUME NEW s \in IndexThreads, Polls(s)
          PROVE  iunit'[t] = iunit[t]
      <4>1. s # t
        BY <1>1, <3>3 DEF Polls, Pending
      <4> QED
        BY <3>3, <4>1, PolledQueue
    <3> QED
      BY <3>1, <3>2, <3>3, QueueSteps
  <2> QED
    BY <1>1, <2>1 DEF TypeOK, IndexUnit
<1>2. CASE ICheck(t)
  <2>1. ipc[t] = "check" /\ iunit[t] \in Units /\ UNCHANGED <<unit, iunit>>
    BY <1>2 DEF ICheck, TypeOK, IndexUnit, unitVars
  <2>2. Life(iunit[t]) # "active"
    <3> SUFFICES ASSUME Life(iunit[t]) = "active"
                 PROVE  FALSE
      OBVIOUS
    <3>1. ipc' = [ipc EXCEPT ![t] = "resume"]
      BY <1>2 DEF ICheck, Freed
    <3> QED
      BY <3>1 DEF TypeOK
  <2> QED
    BY <2>1, <2>2 DEF SameUnits, Units
<1>3. ASSUME NEW s \in IndexThreads, Indexer(s), ~ICheck(s)
      PROVE  ipc'[t] = ipc[t]
  <2>1. CASE s = t
    BY <1>3, <2>1 DEF Indexer, IPoll, ISuspend, IIndex, IResume, TypeOK
  <2>2. CASE s # t
    BY <1>3, <2>2 DEF Indexer, IPoll, ISuspend, IIndex, IResume, TypeOK
  <2> QED
    BY <2>1, <2>2
<1>4. ASSUME NEW s \in IndexThreads, s # t, ICheck(s)
      PROVE  ipc'[t] = ipc[t]
  BY <1>4 DEF ICheck, TypeOK
<1>5. CASE StartMonitor
  BY <1>1, <1>5 DEF StartMonitor
<1>6. CASE Main /\ ~StartMonitor
  <2>1. UNCHANGED ipc
    BY <1>6 DEF Main, Initialize, OpenDatabase, InitializeDone, Receive, Lookup, Add, Parse,
       ReparseAttempt, Remove, Free, Diagnose, Notify, ReadCurrent, Leave, EndOfInput, Join,
       Destroy, ProcessExit, LoadCommand, indexVars
  <2> QED
    BY <1>1, <2>1
<1>7. CASE Reparse \/ (\E d \in DBs : MonitorSave(d)) \/ UNCHANGED vars
  <2>1. UNCHANGED ipc
    BY <1>7 DEF Reparse, RCheck, RWake, RTake, RNext, RTest, RReparse, RDiagnose, MonitorSave,
                vars, indexVars
  <2> QED
    BY <1>1, <2>1
<1> QED
  BY <1>1, <1>2, <1>3, <1>4, <1>5, <1>6, <1>7 DEF Next

(* The units of a step, whoever makes it, as the lock allows them. *)
LEMMA UnitSteps ==
  ASSUME IInv, LockFollows, [Next]_vars
  PROVE  \/ SameUnits
         \/ \E u \in Units : Activates(u)
              /\ (Life(u) = "active" \/ \A t \in IndexThreads : ipc'[t] # "indexing")
         \/ \E t \in IndexThreads :
              /\ Counts(iunit[t]) /\ ipc[t] = "indexing" /\ ~Freed(iunit[t]) /\ iunit[t] \in Units
              /\ ipc' = [ipc EXCEPT ![t] = "resume"] /\ UNCHANGED <<iqueue, iunit>>
         \/ Adds(Len(unit) + 1)
         \/ \E us : Frees(us)
<1>1. mpc \in {"parse", "reparse"} => \A t \in IndexThreads : ipc[t] # "indexing"
  BY DEF LockFollows, HandlerPlaces, InsidePlaces
<1>2. CASE Main
  BY <1>1, <1>2, UnitsOfMain
<1>3. CASE ~Main
  BY <1>3, UnitsOfOthers
<1> QED
  BY <1>2, <1>3

LEMMA FreshKept ==
  ASSUME IInv, LockFollows, QueuedOnce, PendingFresh, DeclsOnce, [Next]_vars
  PROVE  PendingFresh' /\ DeclsOnce'
<1>1. CASE SameUnits
  <2>1. \A u \in Units : Waiting(u)' => Fresh(u)'
    BY <1>1, WaitingKept DEF SameUnits, PendingFresh, Fresh, Life
  <2>2. \A t \in IndexThreads : ipc'[t] = "indexing" => unit'[iunit'[t]].life # "active"
    BY <1>1, IndexingKept DEF SameUnits, PendingFresh, Life
  <2> QED
    BY <1>1, <2>1, <2>2 DEF SameUnits, PendingFresh, DeclsOnce, Life
<1>2. ASSUME NEW u \in Units, Activates(u),
             Life(u) = "active" \/ \A t \in IndexThreads : ipc'[t] # "indexing"
      PROVE  PendingFresh' /\ DeclsOnce'
  <2>1. \A v \in Units : Waiting(v)' => Fresh(v)'
    BY <1>2, WaitingKept DEF Activates, PendingFresh, Fresh, Life
  <2>2. \A t \in IndexThreads : ipc'[t] = "indexing" => unit'[iunit'[t]].life # "active"
    BY <1>2, IndexingKept DEF Activates, PendingFresh, Life
  <2> QED
    BY <1>2, <2>1, <2>2 DEF Activates, PendingFresh, DeclsOnce, Life
<1>3. ASSUME NEW t \in IndexThreads, Counts(iunit[t]), ipc[t] = "indexing", ~Freed(iunit[t]),
             iunit[t] \in Units, ipc' = [ipc EXCEPT ![t] = "resume"], UNCHANGED <<iqueue, iunit>>
      PROVE  PendingFresh' /\ DeclsOnce'
  <2>1. unit[iunit[t]].decls = 0
    <3>1. Life(iunit[t]) = "idle"
      BY <1>3, UnitRecords DEF IInv, PendingFresh, Freed, Life, UnitRecord
    <3>2. Waiting(iunit[t])
      BY <1>3 DEF Waiting, Pending
    <3> QED
      BY <1>3, <3>1, <3>2 DEF PendingFresh, Fresh
  <2>2. \A s \in IndexThreads : ipc'[s] = IF s = t THEN "resume" ELSE ipc[s]
    BY <1>3 DEF IInv, TypeOK
  <2>3. ASSUME NEW v \in Units, Waiting(v)'
        PROVE  v # iunit[t]
    BY <1>3, <2>2, <2>3 DEF Waiting, Pending, QueuedOnce
  <2>4. ASSUME NEW v \in Units, Waiting(v)'
        PROVE  Fresh(v)'
    BY <1>3, <2>3, <2>4, WaitingKept DEF Counts, PendingFresh, Fresh, Life
  <2>5. \A s \in IndexThreads : ipc'[s] = "indexing" => unit'[iunit'[s]].life # "active"
    BY <1>3, <2>2, IndexingKept DEF Counts, PendingFresh, Life
  <2>6. \A v \in Units : unit'[v].decls <= 1
    BY <1>3, <2>1 DEF Counts, DeclsOnce
  <2> QED
    BY <1>3, <2>4, <2>5, <2>6 DEF Counts, PendingFresh, DeclsOnce, Life
<1>4. CASE Adds(Len(unit) + 1)
  <2> DEFINE n == Len(unit) + 1
  <2>1. \A v \in Units' : Waiting(v)' => Fresh(v)'
    BY <1>4, WaitingKept DEF Adds, PendingFresh, Fresh, Life
  <2>2. \A t \in IndexThreads : ipc'[t] = "indexing" => unit'[iunit'[t]].life # "active"
    BY <1>4, IndexingKept DEF Adds, PendingFresh, Life
  <2>3. \A v \in Units' : unit'[v].decls <= 1
    BY <1>4 DEF Adds, DeclsOnce
  <2> QED
    BY <2>1, <2>2, <2>3 DEF PendingFresh, DeclsOnce, Life
<1>5. ASSUME NEW us, Frees(us)
      PROVE  PendingFresh' /\ DeclsOnce'
  <2>1. \A v \in Units : Waiting(v)' => Fresh(v)'
    BY <1>5, WaitingKept DEF Frees, PendingFresh, Fresh, Life
  <2>2. \A t \in IndexThreads : ipc'[t] = "indexing" => unit'[iunit'[t]].life # "active"
    BY <1>5, IndexingKept DEF Frees, SameUnits, PendingFresh, Life
  <2>3. \A v \in Units : unit'[v].decls <= 1
    BY <1>5 DEF Frees, DeclsOnce
  <2> QED
    BY <1>5, <2>1, <2>2, <2>3 DEF Frees, PendingFresh, DeclsOnce, Life
<1> QED
  BY <1>1, <1>2, <1>3, <1>4, <1>5, UnitSteps

-----------------------------------------------------------------------------
(* Who frees units, and who may still use one. *)

(* What the main thread never takes back. *)
LEMMA Lasting ==
  ASSUME IInv, [Next]_vars
  PROVE  /\ dropped => dropped'
         /\ mpc \in {"destroyed", "closed"} => mpc' \in {"destroyed", "closed"}
         /\ mpc \in {"destroy", "destroyed", "closed"} =>
              mpc' \in {"destroy", "destroyed", "closed"} /\ index_thread' = index_thread
<1>1. CASE Main
  BY <1>1 DEF Main, Initialize, OpenDatabase, InitializeDone, StartMonitor, LoadCommand, Receive,
     Lookup, Add, Parse, ReparseAttempt, Remove, Free, Diagnose, Notify, ReadCurrent, Leave,
     EndOfInput, Join, Destroy, ProcessExit, indexVars
<1>2. CASE ~Main
  BY <1>2, UnitsOfOthers
<1> QED
  BY <1>1, <1>2

LEMMA FreedFollowsKept ==
  ASSUME IInv, FreedFollows, [Next]_vars
  PROVE  FreedFollows'
<1>1. \A u \in Units' : unit'[u].life = "freed" => dropped' \/ mpc' \in {"destroyed", "closed"}
  <2>1. CASE SameUnits \/ (\E u \in Units : Activates(u) \/ Counts(u)) \/ Adds(Len(unit) + 1)
    BY <2>1, Lasting DEF SameUnits, Activates, Counts, Adds, FreedFollows, Freed, Life
  <2>2. CASE Free \/ Destroy
    BY <2>2 DEF Free, Destroy
  <2> QED
    BY <2>1, <2>2, UnitsOfMain, UnitsOfOthers
<1>2. mpc' \in {"join_index", "destroy", "destroyed", "closed"} => rpc' = "done"
  <2>1. CASE Main
    <3>1. CASE Lookup \/ Parse
      BY <3>1 DEF Lookup, Parse, Handle, IInv, MainMessage, TypeOK, Kinds
    <3>2. UNCHANGED rpc
      BY <2>1 DEF Main, Initialize, OpenDatabase, InitializeDone, StartMonitor, LoadCommand,
         Receive, Lookup, Add, Parse, ReparseAttempt, Remove, Free, Diagnose, Notify, ReadCurrent,
         Leave, EndOfInput, Join, Destroy, ProcessExit, reparseVars
    <3>3. CASE ~(Lookup \/ Parse)
      BY <2>1, <3>2, <3>3 DEF FreedFollows, Main, Initialize, OpenDatabase, InitializeDone,
         StartMonitor, LoadCommand, Receive, Add, ReparseAttempt, Remove, Free, Diagnose, Notify,
         ReadCurrent, Leave, EndOfInput, Join, Destroy, ProcessExit
    <3> QED
      BY <3>1, <3>3
  <2>2. CASE Reparse
    BY <2>2 DEF FreedFollows, Reparse, RCheck, RWake, RTake, RNext, RTest, RReparse, RDiagnose,
                mainVars
  <2>3. CASE (\E t \in IndexThreads : Indexer(t)) \/ (\E d \in DBs : MonitorSave(d)) \/ UNCHANGED vars
    BY <2>3 DEF FreedFollows, Indexer, IPoll, ISuspend, ICheck, IIndex, IResume, MonitorSave,
                vars, mainVars, reparseVars
  <2> QED
    BY <2>1, <2>2, <2>3 DEF Next
<1> QED
  BY <1>1, <1>2 DEF FreedFollows, Freed, Life

LEMMA FreedUseKept ==
  ASSUME IInv, MonitorFollows, FreedFollows, FreedUnitUse, [Next]_vars
  PROVE  FreedUnitUse'
<1>1. \A use \in touched : dropped' \/ (use[1] # Reparser /\ Unjoined(use[1])')
  <2>1. \A use \in touched : Unjoined(use[1]) => Unjoined(use[1])'
    BY Lasting DEF Unjoined
  <2> QED
    BY <2>1, Lasting DEF FreedUnitUse
<1>2. CASE UNCHANGED touched
  BY <1>1, <1>2 DEF FreedUnitUse
<1>3. ASSUME NEW t \in IndexThreads, Indexer(t)
      PROVE  FreedUnitUse'
  <2>1. CASE (ICheck(t) \/ IIndex(t)) /\ Freed(iunit[t])
    <3>1. /\ ipc[t] \in {"check", "indexing"} /\ iunit[t] \in Units
          /\ touched' = touched \cup {<<t, iunit[t]>>}
          /\ UNCHANGED <<mpc, dropped, index_thread>>
      BY <2>1 DEF ICheck, IIndex, Use, IInv, IndexUnit, TypeOK, mainVars
    <3>2. dropped \/ mpc \in {"destroyed", "closed"}
      BY <2>1, <3>1 DEF FreedFollows
    <3>3. mpc \in {"destroyed", "closed"} => t[1] # index_thread
      BY <3>1, DatabaseNumbers DEF MonitorFollows
    <3>4. t # Reparser
      BY DatabaseNumbers DEF Reparser, IndexThreads
    <3> QED
      BY <1>1, <3>1, <3>2, <3>3, <3>4 DEF FreedUnitUse, Unjoined
  <2>2. CASE ~((ICheck(t) \/ IIndex(t)) /\ Freed(iunit[t]))
    BY <1>2, <1>3, <2>2 DEF Indexer, IPoll, ISuspend, ICheck, IIndex, IResume, Use
  <2> QED
    BY <2>1, <2>2
<1>4. CASE Reparse
  <2>1. CASE (RTest \/ RReparse \/ RDiagnose) /\ Freed(runit)
    <3>1. /\ rpc \in {"test", "reparse", "diagnose"} /\ runit \in Units
          /\ touched' = touched \cup {<<Reparser, runit>>}
          /\ UNCHANGED <<mpc, dropped, index_thread>>
      BY <2>1 DEF RTest, RReparse, RDiagnose, Use, IInv, ReparseUnit, TypeOK, mainVars, indexVars
    <3>2. dropped
      BY <2>1, <3>1 DEF FreedFollows
    <3> QED
      BY <3>1, <3>2 DEF FreedUnitUse
  <2>2. CASE ~((RTest \/ RReparse \/ RDiagnose) /\ Freed(runit))
    BY <1>2, <1>4, <2>2 DEF Reparse, RCheck, RWake, RTake, RNext, RTest, RReparse, RDiagnose, Use
  <2> QED
    BY <2>1, <2>2
<1>5. CASE Main \/ (\E d \in DBs : MonitorSave(d)) \/ UNCHANGED vars
  BY <1>2, <1>5 DEF MonitorSave, vars, Main, Initialize, OpenDatabase, InitializeDone, StartMonitor,
     LoadCommand, Receive, Lookup, Add, Parse, ReparseAttempt, Remove, Free, Diagnose, Notify,
     ReadCurrent, Leave, EndOfInput, Join, Destroy, ProcessExit
<1> QED
  BY <1>3, <1>4, <1>5 DEF Next

-----------------------------------------------------------------------------
(* The unit that is being indexed. *)

LEMMA IndexedKept ==
  ASSUME IInv, LockFollows, MonitorFollows, [Next]_vars,
         NEW t \in IndexThreads, ipc[t] = "indexing", ipc'[t] = "indexing",
         Life(iunit[t]) = "idle"
  PROVE  Life(iunit[t])' = "idle" \/ Unjoined(t)
<1>1. iunit'[t] = iunit[t] /\ iunit[t] \in Units
  BY IndexingKept
<1>2. ~handler /\ mpc \notin HandlerPlaces
  BY DEF LockFollows, InsidePlaces
<1>3. CASE SameUnits \/ Adds(Len(unit) + 1) \/ (\E u \in Units : Counts(u))
  BY <1>1, <1>3 DEF SameUnits, Adds, Counts, Life
<1>4. ASSUME NEW u \in Units, Activates(u), Life(u) = "active"
      PROVE  Life(iunit[t])' = "idle"
  BY <1>1, <1>4 DEF Activates, Life
<1>5. CASE mpc \in {"parse", "reparse"} \/ Free
  BY <1>2, <1>5 DEF HandlerPlaces, Free
<1>6. CASE Destroy
  <2>1. mpc = "destroy" /\ t[1] # index_thread
    BY <1>6, DatabaseNumbers DEF Destroy, MonitorFollows
  <2> QED
    BY <2>1 DEF Unjoined
<1> QED
  BY <1>1, <1>3, <1>4, <1>5, <1>6, UnitsOfMain, UnitsOfOthers

-----------------------------------------------------------------------------
(* The invariant and what follows from it.                                 *)

LEMMA InitXInv == Init => XInv
<1> SUFFICES ASSUME Init
             PROVE  XInv
  OBVIOUS
<1>1. LockFollows
  BY DEF Init, HX!HxInit, LockFollows, HandlerPlaces, InsidePlaces
<1>2. MonitorFollows
  BY DatabaseNumbers DEF Init, MonitorFollows
<1>3. QueuedOnce
  <2>1. \A d \in DBs : iqueue[d] = <<>> /\ 1 .. Len(iqueue[d]) = {}
    BY DEF Init
  <2> QED
    BY <2>1 DEF Init, QueuedOnce, Pending
<1>4. Units = {}
  BY DEF Init, Units
<1>5. PendingFresh /\ DeclsOnce /\ FreedFollows /\ FreedUnitUse
  BY <1>4 DEF Init, PendingFresh, DeclsOnce, FreedFollows, FreedUnitUse
<1> QED
  BY <1>1, <1>2, <1>3, <1>5 DEF XInv

(* The second invariant, which rests on the first. *)
THEOREM IndexingInductive == Spec => []XInv
<1>1. IInv /\ XInv /\ [Next]_vars => XInv'
  BY LockKept, MonitorKept, QueuedOnceKept, FreshKept, FreedFollowsKept, FreedUseKept DEF XInv
<1> QED
  BY <1>1, InitXInv, Inductive, PTL DEF Spec

(* Background indexing adds declarations without clearing the old ones;    *)
(* still no unit ever has its declarations twice in the index, because no  *)
(* unit is queued twice and none that was parsed is indexed. *)
THEOREM DeclarationsOnce == Spec => []DeclsOnce
<1>1. XInv => DeclsOnce
  BY DEF XInv
<1> QED
  BY <1>1, IndexingInductive, PTL

(* A freed unit is used only after a didChange that gave a unit up, or by  *)
(* the index threads of a database whose monitor the shutdown did not      *)
(* join. *)
THEOREM FreedUnitsUnused == Spec => []FreedUnitUse
<1>1. XInv => FreedUnitUse
  BY DEF XInv
<1> QED
  BY <1>1, IndexingInductive, PTL

(* No handler and no other thread parses or frees the unit between the     *)
(* active check of index_thread and the end of its indexing. *)
THEOREM IndexedUnitUndisturbed == Spec => IndexedUnitStable
<1>1. IInv /\ XInv /\ [Next]_vars =>
        [\A t \in IndexThreads :
           ipc[t] = "indexing" /\ ipc'[t] = "indexing" /\ Life(iunit[t]) = "idle" =>
             Life(iunit[t])' = "idle" \/ Unjoined(t)]_vars
  BY IndexedKept DEF XInv
<1> QED
  BY <1>1, Inductive, IndexingInductive, PTL DEF Spec, IndexedUnitStable
=============================================================================
