--------------------------- MODULE SharedResource ---------------------------
(***************************************************************************)
(* The lock between the JSON-RPC message handlers and the index threads:   *)
(* shared_resource_t of utils.c, as json_rpc.c uses it.  The main thread   *)
(* locks it around every handler (handle_incoming); an index thread        *)
(* borrows it around the indexing of one unit (index_thread).  All         *)
(* borrowers together count as one owner: the first to arrive takes        *)
(* owner_mut, the last to go releases it, and `mut` protects the count.    *)
(*                                                                         *)
(* A Windows CRITICAL_SECTION belongs to the thread that entered it.  When *)
(* the last borrower is not the first one it leaves a section it does not  *)
(* own, which the platform leaves undefined: ForeignRelease is the set of  *)
(* outcomes considered, "freed" (the section is free afterwards) and       *)
(* "stuck" (nobody can enter it again).                                    *)
(***************************************************************************)
EXTENDS Naturals, FiniteSets

CONSTANTS
  Main,             \* the thread that runs json_rpc_listen
  Borrowers,        \* the index threads
  None,             \* a mutex nobody has entered
  Stuck,            \* a mutex nobody can enter any more
  ForeignRelease,   \* outcomes of leaving a section another thread entered
  MaxJobs,          \* units in the queue of the index threads
  MaxMessages       \* messages the client sends

ASSUME ThreadsAssumption ==
  /\ IsFiniteSet(Borrowers)
  /\ Main \notin Borrowers
  /\ None \notin Borrowers \cup {Main}
  /\ Stuck \notin Borrowers \cup {Main, None}
ASSUME BoundsAssumption ==
  /\ ForeignRelease \subseteq {"freed", "stuck"}
  /\ MaxJobs \in Nat
  /\ MaxMessages \in Nat

VARIABLES
  mut,        \* the thread inside shared_resource_t.mut
  owner_mut,  \* the thread that entered shared_resource_t.owner_mut
  users,      \* shared_resource_t.users
  pc,         \* where each thread is
  jobs,       \* units left in p_context->p_queue
  messages    \* messages left on the input stream

vars == <<mut, owner_mut, users, pc, jobs, messages>>

Threads == Borrowers \cup {Main}

MainStates == {"listen", "lock", "handle"}
BorrowerStates ==
  {"poll", "borrow", "take_owner", "borrow_done", "borrowed",
   "drop_owner", "release_done", "assert", "exit"}

Init ==
  /\ mut = None
  /\ owner_mut = None
  /\ users = 0
  /\ pc = [t \in Threads |-> IF t = Main THEN "listen" ELSE "poll"]
  /\ jobs = MaxJobs
  /\ messages = MaxMessages

Goto(t, from, to) ==
  /\ pc[t] = from
  /\ pc' = [pc EXCEPT ![t] = to]

-----------------------------------------------------------------------------
(* Slips a change to the code could make.  They are not part of Next: each *)
(* shows that a property below would notice it.                            *)

(* shared_resource_lock that does not wait. *)
SlipLockNoWait ==
  /\ owner_mut' = Main
  /\ Goto(Main, "lock", "handle")
  /\ UNCHANGED <<mut, users, jobs, messages>>

(* shared_resource_unlock that forgets the mutex. *)
SlipUnlockForgets ==
  /\ Goto(Main, "handle", "listen")
  /\ UNCHANGED <<mut, owner_mut, users, jobs, messages>>

(* Every borrower takes owner_mut. *)
SlipBorrowAlwaysTakes(t) ==
  /\ mut = None
  /\ mut' = t
  /\ users' = users + 1
  /\ Goto(t, "borrow", "take_owner")
  /\ UNCHANGED <<owner_mut, jobs, messages>>

(* Every release drops owner_mut, not only the last one. *)
SlipReleaseAlwaysDrops(t) ==
  /\ mut = None
  /\ mut' = t
  /\ users' = users - 1
  /\ Goto(t, "borrowed", "drop_owner")
  /\ UNCHANGED <<owner_mut, jobs, messages>>

(* The last release returns without leaving owner_mut. *)
SlipDropForgets(t) ==
  /\ Goto(t, "drop_owner", "release_done")
  /\ UNCHANGED <<mut, owner_mut, users, jobs, messages>>

-----------------------------------------------------------------------------
(* The main thread: handle_incoming locks, calls the handler and unlocks.  *)

(* A message with a registered handler has been read. *)
Receive ==
  /\ messages > 0
  /\ messages' = messages - 1
  /\ Goto(Main, "listen", "lock")
  /\ UNCHANGED <<mut, owner_mut, users, jobs>>

(* shared_resource_lock returns. *)
Lock ==
  /\ owner_mut = None
  /\ owner_mut' = Main
  /\ Goto(Main, "lock", "handle")
  /\ UNCHANGED <<mut, users, jobs, messages>>

(* shared_resource_unlock, after the handler has returned. *)
Unlock ==
  /\ owner_mut' = None
  /\ Goto(Main, "handle", "listen")
  /\ UNCHANGED <<mut, users, jobs, messages>>

-----------------------------------------------------------------------------
(* An index thread: poll a unit, json_rpc_suspend, index, json_rpc_resume. *)

(* One unit leaves the queue (under p_context->mut), or the thread ends. *)
Poll(t) ==
  /\ IF jobs > 0
     THEN /\ Goto(t, "poll", "borrow")
          /\ jobs' = jobs - 1
     ELSE /\ Goto(t, "poll", "exit")
          /\ UNCHANGED jobs
  /\ UNCHANGED <<mut, owner_mut, users, messages>>

(* shared_resource_borrow enters `mut` and counts itself. *)
BorrowCount(t) ==
  /\ mut = None
  /\ mut' = t
  /\ users' = users + 1
  /\ Goto(t, "borrow", IF users = 0 THEN "take_owner" ELSE "borrow_done")
  /\ UNCHANGED <<owner_mut, jobs, messages>>

(* The first borrower waits for the handler to finish, holding `mut`. *)
BorrowTakeOwner(t) ==
  /\ owner_mut = None
  /\ owner_mut' = t
  /\ Goto(t, "take_owner", "borrow_done")
  /\ UNCHANGED <<mut, users, jobs, messages>>

BorrowReturn(t) ==
  /\ mut' = None
  /\ Goto(t, "borrow_done", "borrowed")
  /\ UNCHANGED <<owner_mut, users, jobs, messages>>

(* shared_resource_release enters `mut`, asserts users > 0 and uncounts    *)
(* itself.  A failed assertion never returns from assert_handler.          *)
ReleaseCount(t) ==
  /\ mut = None
  /\ mut' = t
  /\ IF users > 0
     THEN /\ users' = users - 1
          /\ Goto(t, "borrowed", IF users = 1 THEN "drop_owner" ELSE "release_done")
     ELSE /\ Goto(t, "borrowed", "assert")
          /\ UNCHANGED users
  /\ UNCHANGED <<owner_mut, jobs, messages>>

(* The last borrower leaves owner_mut, which another one may have entered. *)
ReleaseDropOwner(t) ==
  /\ Goto(t, "drop_owner", "release_done")
  /\ \/ /\ owner_mut = t \/ "freed" \in ForeignRelease
        /\ owner_mut' = None
     \/ /\ owner_mut # t
        /\ "stuck" \in ForeignRelease
        /\ owner_mut' = Stuck
  /\ UNCHANGED <<mut, users, jobs, messages>>

ReleaseReturn(t) ==
  /\ mut' = None
  /\ Goto(t, "release_done", "poll")
  /\ UNCHANGED <<owner_mut, users, jobs, messages>>

-----------------------------------------------------------------------------
MainStep == Receive \/ Lock \/ Unlock

BorrowerStep(t) ==
  \/ Poll(t)
  \/ BorrowCount(t) \/ BorrowTakeOwner(t) \/ BorrowReturn(t)
  \/ ReleaseCount(t) \/ ReleaseDropOwner(t) \/ ReleaseReturn(t)

Next == MainStep \/ \E t \in Borrowers : BorrowerStep(t)

Spec == Init /\ [][Next]_vars

(* The scheduler runs every thread that can run; the client need not send  *)
(* anything, so Receive has no fairness.  An input stream is finite, which *)
(* is why weak fairness of the index threads is enough.                    *)
FairSpec ==
  /\ Spec
  /\ WF_vars(Lock \/ Unlock)
  /\ \A t \in Borrowers : WF_vars(BorrowerStep(t))

-----------------------------------------------------------------------------
(* Properties *)

(* The borrowers that `users` counts, and those that rely on owner_mut     *)
(* being held for them.                                                    *)
Counted == {t \in Borrowers : pc[t] \in {"take_owner", "borrow_done", "borrowed"}}
Covered == {t \in Borrowers : pc[t] \in {"borrow_done", "borrowed", "drop_owner"}}
MutRegion == {t \in Borrowers :
  pc[t] \in {"take_owner", "borrow_done", "drop_owner", "release_done", "assert"}}

(* Types; the count never exceeds the number of index threads. *)
TypeOK ==
  /\ mut \in Borrowers \cup {None}
  /\ owner_mut \in Threads \cup {None, Stuck}
  /\ users \in 0 .. Cardinality(Borrowers)
  /\ pc \in [Threads -> MainStates \cup BorrowerStates]
  /\ pc[Main] \in MainStates
  /\ \A t \in Borrowers : pc[t] \in BorrowerStates
  /\ jobs \in 0 .. MaxJobs
  /\ messages \in 0 .. MaxMessages

(* No index thread is between json_rpc_suspend and json_rpc_resume while a *)
(* message handler runs: neither ever sees the other's half-made changes   *)
(* to the units.                                                           *)
Exclusion == pc[Main] = "handle" => \A t \in Borrowers : pc[t] # "borrowed"

(* The assertion users > 0 of shared_resource_release never fails, however *)
(* borrows and releases interleave.                                        *)
AssertHolds == \A t \in Borrowers : pc[t] # "assert"

(* A borrower that waits for a handler while holding `mut` keeps nobody    *)
(* from releasing: there is no other borrower inside, so the two mutexes,  *)
(* taken in opposite roles by borrow and release, cannot deadlock.         *)
NoConvoy ==
  \A t \in Borrowers : pc[t] = "take_owner" =>
    \A u \in Borrowers \ {t} : pc[u] \in {"poll", "borrow", "exit"}

(* A section becomes unusable only through a release by a borrower that    *)
(* is not the one that entered it: a single index thread cannot cause it,  *)
(* and it never happens while a handler is inside.                         *)
StuckOnlyByHandOver ==
  owner_mut = Stuck => Cardinality(Borrowers) > 1 /\ pc[Main] # "handle" /\ Covered = {}

(* A handler that waits for the index threads gets its turn although new   *)
(* borrowers may join the ones inside, unless a foreign release has made   *)
(* owner_mut unusable.                                                     *)
HandlerRuns == pc[Main] = "lock" ~> (pc[Main] = "handle" \/ owner_mut = Stuck)

(* The index threads work off the whole queue and end, which is what       *)
(* index_monitor_thread joins on, under the same proviso.                  *)
IndexersFinish == <>(owner_mut = Stuck \/ \A t \in Borrowers : pc[t] = "exit")

(* The two mutexes and the counter implement the exclusion of handlers and *)
(* index threads that the rest of the server relies on.                    *)
HX == INSTANCE HandlerExclusion
        WITH handler <- (pc[Main] = "handle"),
             indexing <- {t \in Borrowers : pc[t] = "borrowed"}
RefinesExclusion == HX!HxSpec
=============================================================================
