----------------------- MODULE SharedResource_proofs -----------------------
(***************************************************************************)
(* Proofs about SharedResource for any finite set of index threads, any    *)
(* number of units and messages and any outcome of a foreign release.      *)
(***************************************************************************)
EXTENDS SharedResource, FiniteSetTheorems, TLAPS

(* The inductive invariant.  TypeOK and Exclusion are not inductive: they  *)
(* need that `users` is exact, that being inside one of the regions that   *)
(* hold a mutex is the same as holding it, and that owner_mut belongs to   *)
(* a borrower whenever some borrower relies on it.                         *)
UsersExact == users = Cardinality(Counted)
MutHeld == \A t \in Borrowers : t \in MutRegion <=> mut = t
OwnerMain == owner_mut = Main <=> pc[Main] = "handle"
OwnerCovers == Covered # {} => owner_mut \in Borrowers
FirstIn == \A t \in Borrowers : pc[t] = "take_owner" => Counted = {t}
LastOut == \A t \in Borrowers : pc[t] = "drop_owner" => Counted = {}
StuckShared == owner_mut = Stuck => Cardinality(Borrowers) > 1

IInv ==
  /\ TypeOK
  /\ UsersExact
  /\ MutHeld
  /\ OwnerMain
  /\ OwnerCovers
  /\ FirstIn
  /\ LastOut
  /\ AssertHolds
  /\ StuckShared

-----------------------------------------------------------------------------
(* The counted borrowers are finitely many, so `users` is a number. *)
LEMMA CountedFinite ==
  /\ IsFiniteSet(Counted)
  /\ Cardinality(Counted) \in 0 .. Cardinality(Borrowers)
  /\ Cardinality(Counted) = 0 <=> Counted = {}
<1>1. Counted \in SUBSET Borrowers
  BY DEF Counted
<1>2. /\ IsFiniteSet(Counted)
      /\ Cardinality(Counted) <= Cardinality(Borrowers)
  BY <1>1, FS_Subset, ThreadsAssumption
<1>3. Cardinality(Counted) \in Nat /\ Cardinality(Borrowers) \in Nat
  BY <1>2, FS_CardinalityType, ThreadsAssumption
<1> QED
  BY <1>2, <1>3, FS_EmptySet

(* One counted borrower is the only one exactly when the count is 1. *)
LEMMA CountedOne ==
  ASSUME NEW t \in Counted
  PROVE  /\ Cardinality(Counted) > 0
         /\ Cardinality(Counted) = 1 <=> Counted = {t}
<1>1. Cardinality(Counted) > 0
  BY CountedFinite
<1>2. Cardinality(Counted) = 1 => \E x : Counted = {x}
  BY CountedFinite, FS_Singleton
<1>3. Counted = {t} => Cardinality(Counted) = 1
  BY FS_Singleton
<1> QED
  BY <1>1, <1>2, <1>3

(* Counting one more or one less borrower, in the next state. *)
LEMMA CountedAdd ==
  ASSUME NEW t, t \notin Counted, Counted' = Counted \cup {t}
  PROVE  Cardinality(Counted') = Cardinality(Counted) + 1
BY CountedFinite, FS_AddElement

LEMMA CountedRemove ==
  ASSUME NEW t \in Counted, Counted' = Counted \ {t}
  PROVE  Cardinality(Counted') = Cardinality(Counted) - 1
BY CountedFinite, FS_RemoveElement

(* The range of the count in the next state. *)
LEMMA CountedFiniteNext ==
  /\ Cardinality(Counted') \in 0 .. Cardinality(Borrowers)
  /\ Cardinality(Counted') = 0 <=> Counted' = {}
<1>1. Counted' \in SUBSET Borrowers
  BY DEF Counted
<1>2. /\ IsFiniteSet(Counted')
      /\ Cardinality(Counted') <= Cardinality(Borrowers)
  BY <1>1, FS_Subset, ThreadsAssumption
<1>3. Cardinality(Counted') \in Nat /\ Cardinality(Borrowers) \in Nat
  BY <1>2, FS_CardinalityType, ThreadsAssumption
<1> QED
  BY <1>2, <1>3, FS_EmptySet

-----------------------------------------------------------------------------
(* The initial state satisfies the invariant: nothing is held or counted. *)
LEMMA InitInv == Init => IInv
<1> SUFFICES ASSUME Init PROVE IInv
  OBVIOUS
<1>1. \A t \in Borrowers : pc[t] = "poll"
  BY ThreadsAssumption DEF Init, Threads
<1>2. Counted = {} /\ Covered = {} /\ MutRegion = {}
  BY <1>1 DEF Counted, Covered, MutRegion
<1>3. UsersExact
  BY <1>2, FS_EmptySet DEF UsersExact, Init
<1>4. TypeOK
  BY <1>1, <1>2, <1>3, CountedFinite, ThreadsAssumption, BoundsAssumption
     DEF TypeOK, Init, Threads, MainStates, BorrowerStates, UsersExact
<1>5. MutHeld /\ OwnerMain /\ OwnerCovers /\ StuckShared
  BY <1>2, ThreadsAssumption
     DEF MutHeld, OwnerMain, OwnerCovers, StuckShared, Init, Threads
<1>6. FirstIn /\ LastOut /\ AssertHolds
  BY <1>1 DEF FirstIn, LastOut, AssertHolds
<1> QED
  BY <1>3, <1>4, <1>5, <1>6 DEF IInv

-----------------------------------------------------------------------------
(* One lemma per operation: the step keeps the invariant.                  *)

(* The main thread's steps change no borrower, no count and not `mut`. *)
LEMMA MainKeepsBorrowers ==
  ASSUME IInv, MainStep
  PROVE  /\ UNCHANGED <<mut, users, Counted, Covered, MutRegion>>
         /\ \A t \in Borrowers : pc'[t] = pc[t]
<1>1. UNCHANGED <<mut, users>>
  BY DEF MainStep, Receive, Lock, Unlock
<1>2. \A t \in Borrowers : pc'[t] = pc[t]
  BY ThreadsAssumption
     DEF MainStep, Receive, Lock, Unlock, Goto, IInv, TypeOK, Threads
<1> QED
  BY <1>1, <1>2 DEF Counted, Covered, MutRegion

LEMMA MainStepInv ==
  ASSUME IInv, MainStep
  PROVE  IInv'
<1>1. Borrowers \cup {Main} = Threads /\ Main \notin Borrowers
  BY ThreadsAssumption DEF Threads
<1>2. TypeOK'
  <2>1. /\ pc' \in [Threads -> MainStates \cup BorrowerStates]
        /\ pc'[Main] \in MainStates
    BY <1>1 DEF MainStep, Receive, Lock, Unlock, Goto, IInv, TypeOK, MainStates
  <2>2. owner_mut' \in Threads \cup {None, Stuck}
    BY <1>1 DEF MainStep, Receive, Lock, Unlock, IInv, TypeOK
  <2>3. messages' \in 0 .. MaxMessages /\ jobs' \in 0 .. MaxJobs
    BY BoundsAssumption DEF MainStep, Receive, Lock, Unlock, IInv, TypeOK
  <2> QED
    BY <2>1, <2>2, <2>3, MainKeepsBorrowers DEF IInv, TypeOK
<1>3. OwnerMain' /\ OwnerCovers' /\ StuckShared'
  <2>1. CASE Receive
    BY <2>1, <1>1, MainKeepsBorrowers, ThreadsAssumption
       DEF Receive, Goto, IInv, TypeOK, OwnerMain, OwnerCovers, StuckShared
  <2>2. CASE Lock
    BY <2>2, <1>1, MainKeepsBorrowers, ThreadsAssumption
       DEF Lock, Goto, IInv, TypeOK, OwnerMain, OwnerCovers, StuckShared
  <2>3. CASE Unlock
    BY <2>3, <1>1, MainKeepsBorrowers, ThreadsAssumption
       DEF Unlock, Goto, IInv, TypeOK, OwnerMain, OwnerCovers, StuckShared
  <2> QED
    BY <2>1, <2>2, <2>3 DEF MainStep
<1>4. UsersExact' /\ MutHeld' /\ FirstIn' /\ LastOut' /\ AssertHolds'
  BY MainKeepsBorrowers
     DEF IInv, UsersExact, MutHeld, FirstIn, LastOut, AssertHolds
<1> QED
  BY <1>2, <1>3, <1>4 DEF IInv

(* A borrower's step moves that borrower alone. *)
LEMMA OneMoves ==
  ASSUME IInv, NEW t \in Borrowers, NEW from, NEW to \in BorrowerStates,
         Goto(t, from, to)
  PROVE  /\ pc[t] = from /\ pc'[t] = to
         /\ pc'[Main] = pc[Main]
         /\ \A u \in Borrowers \ {t} : pc'[u] = pc[u]
         /\ pc' \in [Threads -> MainStates \cup BorrowerStates]
         /\ pc'[Main] \in MainStates
         /\ \A u \in Borrowers : pc'[u] \in BorrowerStates
BY ThreadsAssumption DEF Goto, IInv, TypeOK, Threads

LEMMA PollInv ==
  ASSUME IInv, NEW t \in Borrowers, Poll(t)
  PROVE  IInv'
<1>1. PICK to \in {"borrow", "exit"} : Goto(t, "poll", to)
  BY DEF Poll
<1>2. to \in BorrowerStates
  BY DEF BorrowerStates
<1>3. UNCHANGED <<Counted, Covered, MutRegion>>
  BY <1>1, <1>2, OneMoves DEF Counted, Covered, MutRegion
<1>4. jobs' \in 0 .. MaxJobs
  BY BoundsAssumption DEF Poll, IInv, TypeOK
<1>5. TypeOK'
  BY <1>1, <1>2, <1>4, OneMoves DEF Poll, IInv, TypeOK
<1>6. UsersExact' /\ MutHeld' /\ OwnerMain' /\ OwnerCovers' /\ StuckShared'
  BY <1>1, <1>2, <1>3, OneMoves
     DEF Poll, IInv, UsersExact, MutHeld, OwnerMain, OwnerCovers, StuckShared
<1>7. FirstIn' /\ LastOut' /\ AssertHolds'
  BY <1>1, <1>2, <1>3, OneMoves DEF IInv, FirstIn, LastOut, AssertHolds
<1> QED
  BY <1>5, <1>6, <1>7 DEF IInv

LEMMA BorrowCountInv ==
  ASSUME IInv, NEW t \in Borrowers, BorrowCount(t)
  PROVE  IInv'
<1> DEFINE to == IF users = 0 THEN "take_owner" ELSE "borrow_done"
<1>1. to \in BorrowerStates /\ Goto(t, "borrow", to)
  BY DEF BorrowCount, BorrowerStates
<1>2. mut = None /\ MutRegion = {}
  BY ThreadsAssumption DEF BorrowCount, IInv, MutHeld, MutRegion
<1>3. t \notin Counted /\ Counted' = Counted \cup {t} /\ MutRegion' = {t}
  BY <1>1, <1>2, OneMoves DEF Counted, MutRegion
<1>4. UsersExact'
  BY <1>3, CountedAdd DEF BorrowCount, IInv, UsersExact
<1>5. TypeOK'
  BY <1>1, <1>4, OneMoves, CountedFiniteNext
     DEF BorrowCount, IInv, TypeOK, UsersExact
<1>6. MutHeld'
  BY <1>3 DEF BorrowCount, MutHeld
<1>7. users = 0 <=> Counted = {}
  BY CountedFinite DEF IInv, UsersExact
<1>8. OwnerCovers'
  <2>1. CASE users = 0
    BY <2>1, <1>1, OneMoves DEF BorrowCount, IInv, OwnerCovers, Covered
  <2>2. CASE users # 0
    <3>1. PICK u \in Borrowers : pc[u] \in {"borrow_done", "borrowed"}
      BY <2>2, <1>2, <1>7 DEF Counted, MutRegion
    <3> QED
      BY <3>1 DEF BorrowCount, IInv, OwnerCovers, Covered
  <2> QED
    BY <2>1, <2>2
<1>9. FirstIn' /\ LastOut' /\ AssertHolds'
  <2>1. \A u \in Borrowers \ {t} :
          pc'[u] \notin {"take_owner", "drop_owner", "assert"}
    BY <1>1, <1>2, OneMoves DEF MutRegion
  <2> QED
    BY <2>1, <1>1, <1>3, <1>7, OneMoves DEF FirstIn, LastOut, AssertHolds
<1>10. OwnerMain' /\ StuckShared'
  BY <1>1, OneMoves DEF BorrowCount, IInv, OwnerMain, StuckShared
<1> QED
  BY <1>4, <1>5, <1>6, <1>8, <1>9, <1>10 DEF IInv

LEMMA BorrowTakeOwnerInv ==
  ASSUME IInv, NEW t \in Borrowers, BorrowTakeOwner(t)
  PROVE  IInv'
<1>1. Goto(t, "take_owner", "borrow_done") /\ "borrow_done" \in BorrowerStates
  BY DEF BorrowTakeOwner, BorrowerStates
<1>2. UNCHANGED <<Counted, MutRegion>>
  BY <1>1, OneMoves DEF Counted, MutRegion
<1>3. TypeOK'
  BY <1>1, OneMoves DEF BorrowTakeOwner, IInv, TypeOK, Threads
<1>4. UsersExact' /\ MutHeld' /\ OwnerCovers' /\ StuckShared'
  BY <1>2, ThreadsAssumption
     DEF BorrowTakeOwner, IInv, UsersExact, MutHeld, OwnerCovers, StuckShared
<1>5. OwnerMain'
  BY <1>1, OneMoves, ThreadsAssumption DEF BorrowTakeOwner, IInv, OwnerMain
<1>6. FirstIn' /\ LastOut' /\ AssertHolds'
  BY <1>1, <1>2, OneMoves DEF IInv, FirstIn, LastOut, AssertHolds
<1> QED
  BY <1>3, <1>4, <1>5, <1>6 DEF IInv

LEMMA BorrowReturnInv ==
  ASSUME IInv, NEW t \in Borrowers, BorrowReturn(t)
  PROVE  IInv'
<1>1. Goto(t, "borrow_done", "borrowed") /\ "borrowed" \in BorrowerStates
  BY DEF BorrowReturn, BorrowerStates
<1>2. UNCHANGED <<Counted, Covered>>
  BY <1>1, OneMoves DEF Counted, Covered
<1>3. MutRegion = {t} /\ MutRegion' = {}
  BY <1>1, OneMoves DEF MutRegion, IInv, MutHeld
<1>4. TypeOK'
  BY <1>1, OneMoves DEF BorrowReturn, IInv, TypeOK
<1>5. UsersExact' /\ MutHeld' /\ OwnerCovers' /\ StuckShared'
  BY <1>2, <1>3, ThreadsAssumption
     DEF BorrowReturn, IInv, UsersExact, MutHeld, OwnerCovers, StuckShared
<1>6. OwnerMain'
  BY <1>1, OneMoves DEF BorrowReturn, IInv, OwnerMain
<1>7. FirstIn' /\ LastOut' /\ AssertHolds'
  BY <1>1, <1>2, OneMoves DEF IInv, FirstIn, LastOut, AssertHolds
<1> QED
  BY <1>4, <1>5, <1>6, <1>7 DEF IInv

LEMMA ReleaseCountInv ==
  ASSUME IInv, NEW t \in Borrowers, ReleaseCount(t)
  PROVE  IInv'
<1>1. t \in Counted /\ users > 0
  BY CountedOne DEF ReleaseCount, Goto, Counted, IInv, UsersExact
<1> DEFINE to == IF users = 1 THEN "drop_owner" ELSE "release_done"
<1>2. to \in BorrowerStates /\ Goto(t, "borrowed", to) /\ users' = users - 1
  BY <1>1 DEF ReleaseCount, BorrowerStates
<1>3. MutRegion = {}
  BY ThreadsAssumption DEF ReleaseCount, IInv, MutHeld, MutRegion
<1>4. Counted' = Counted \ {t} /\ MutRegion' = {t}
  BY <1>2, <1>3, OneMoves DEF Counted, MutRegion
<1>5. UsersExact'
  BY <1>1, <1>2, <1>4, CountedRemove DEF IInv, UsersExact
<1>6. TypeOK'
  BY <1>2, <1>5, OneMoves, CountedFiniteNext
     DEF ReleaseCount, IInv, TypeOK, UsersExact
<1>7. MutHeld'
  BY <1>4 DEF ReleaseCount, MutHeld
<1>8. OwnerCovers' /\ OwnerMain' /\ StuckShared'
  <2>1. t \in Covered /\ UNCHANGED owner_mut
    BY <1>2, OneMoves DEF ReleaseCount, Covered
  <2> QED
    BY <2>1, <1>2, OneMoves
       DEF IInv, OwnerCovers, OwnerMain, StuckShared
<1>9. FirstIn' /\ LastOut' /\ AssertHolds'
  <2>1. users = 1 => Counted' = {}
    BY <1>1, <1>4, CountedOne DEF IInv, UsersExact
  <2>2. \A u \in Borrowers \ {t} :
          pc'[u] \notin {"take_owner", "drop_owner", "assert"}
    BY <1>2, <1>3, OneMoves DEF MutRegion
  <2> QED
    BY <2>1, <2>2, <1>2, OneMoves DEF FirstIn, LastOut, AssertHolds
<1> QED
  BY <1>5, <1>6, <1>7, <1>8, <1>9 DEF IInv

LEMMA ReleaseDropOwnerInv ==
  ASSUME IInv, NEW t \in Borrowers, ReleaseDropOwner(t)
  PROVE  IInv'
<1>1. Goto(t, "drop_owner", "release_done") /\ "release_done" \in BorrowerStates
  BY DEF ReleaseDropOwner, BorrowerStates
<1>2. Counted = {} /\ t \in Covered
  BY <1>1, OneMoves DEF IInv, LastOut, Covered
<1>3. UNCHANGED <<Counted, MutRegion>>
  BY <1>1, OneMoves DEF Counted, MutRegion
<1>4. Covered' = {}
  <2>1. MutRegion = {t}
    BY <1>1, OneMoves DEF MutRegion, IInv, MutHeld
  <2> QED
    BY <2>1, <1>1, <1>2, OneMoves DEF Covered, Counted, MutRegion
<1>5. owner_mut \in Borrowers /\ owner_mut' \in {None, Stuck}
  BY <1>2 DEF IInv, OwnerCovers, ReleaseDropOwner
<1>6. owner_mut' = Stuck => Cardinality(Borrowers) > 1
  <2> SUFFICES ASSUME owner_mut' = Stuck PROVE Cardinality(Borrowers) > 1
    OBVIOUS
  <2>1. owner_mut # t
    BY ThreadsAssumption DEF ReleaseDropOwner
  <2>2. Cardinality({t, owner_mut}) = 2
    <3>1. IsFiniteSet({t}) /\ Cardinality({t}) = 1
      BY FS_Singleton
    <3>2. Cardinality({t} \cup {owner_mut}) = 1 + 1
      BY <3>1, <2>1, FS_AddElement
    <3>3. {t, owner_mut} = {t} \cup {owner_mut}
      OBVIOUS
    <3> QED
      BY <3>2, <3>3
  <2>3. {t, owner_mut} \in SUBSET Borrowers
    BY <1>5
  <2>4. Cardinality({t, owner_mut}) <= Cardinality(Borrowers)
    BY <2>3, FS_Subset, ThreadsAssumption
  <2>5. Cardinality(Borrowers) \in Nat
    BY FS_CardinalityType, ThreadsAssumption
  <2> QED
    BY <2>2, <2>4, <2>5
<1>7. TypeOK'
  BY <1>1, <1>5, OneMoves DEF ReleaseDropOwner, IInv, TypeOK
<1>8. UsersExact' /\ MutHeld' /\ OwnerCovers' /\ StuckShared'
  BY <1>3, <1>4, <1>6
     DEF ReleaseDropOwner, IInv, UsersExact, MutHeld, OwnerCovers, StuckShared
<1>9. OwnerMain'
  BY <1>1, <1>5, OneMoves, ThreadsAssumption
     DEF IInv, OwnerMain
<1>10. FirstIn' /\ LastOut' /\ AssertHolds'
  BY <1>1, <1>3, OneMoves DEF IInv, FirstIn, LastOut, AssertHolds
<1> QED
  BY <1>7, <1>8, <1>9, <1>10 DEF IInv

LEMMA ReleaseReturnInv ==
  ASSUME IInv, NEW t \in Borrowers, ReleaseReturn(t)
  PROVE  IInv'
<1>1. Goto(t, "release_done", "poll") /\ "poll" \in BorrowerStates
  BY DEF ReleaseReturn, BorrowerStates
<1>2. UNCHANGED <<Counted, Covered>>
  BY <1>1, OneMoves DEF Counted, Covered
<1>3. MutRegion = {t} /\ MutRegion' = {}
  BY <1>1, OneMoves DEF MutRegion, IInv, MutHeld
<1>4. TypeOK'
  BY <1>1, OneMoves DEF ReleaseReturn, IInv, TypeOK
<1>5. UsersExact' /\ MutHeld' /\ OwnerCovers' /\ StuckShared'
  BY <1>2, <1>3, ThreadsAssumption
     DEF ReleaseReturn, IInv, UsersExact, MutHeld, OwnerCovers, StuckShared
<1>6. OwnerMain'
  BY <1>1, OneMoves DEF ReleaseReturn, IInv, OwnerMain
<1>7. FirstIn' /\ LastOut' /\ AssertHolds'
  BY <1>1, <1>2, OneMoves DEF IInv, FirstIn, LastOut, AssertHolds
<1> QED
  BY <1>4, <1>5, <1>6, <1>7 DEF IInv

(* Every step of the system keeps the invariant. *)
LEMMA NextInv == IInv /\ [Next]_vars => IInv'
<1> SUFFICES ASSUME IInv, [Next]_vars PROVE IInv'
  OBVIOUS
<1>1. CASE MainStep
  BY <1>1, MainStepInv
<1>2. ASSUME NEW t \in Borrowers, BorrowerStep(t) PROVE IInv'
  BY <1>2, PollInv, BorrowCountInv, BorrowTakeOwnerInv, BorrowReturnInv,
     ReleaseCountInv, ReleaseDropOwnerInv, ReleaseReturnInv DEF BorrowerStep
<1>3. CASE UNCHANGED vars
  <2>1. UNCHANGED <<Counted, Covered, MutRegion>>
    BY <1>3 DEF vars, Counted, Covered, MutRegion
  <2> QED
    BY <2>1, <1>3
       DEF vars, IInv, TypeOK, UsersExact, MutHeld, OwnerMain, OwnerCovers,
           FirstIn, LastOut, AssertHolds, StuckShared
<1> QED
  BY <1>1, <1>2, <1>3 DEF Next

(* The strengthened invariant holds of every behaviour. *)
THEOREM Inductive == Spec => []IInv
BY InitInv, NextInv, PTL DEF Spec

-----------------------------------------------------------------------------
(* Results *)

(* Type correctness: in particular `users` never passes the number of      *)
(* index threads nor drops below zero (shared_resource_t of utils.h).      *)
THEOREM TypeCorrect == Spec => []TypeOK
<1>1. IInv => TypeOK
  BY DEF IInv
<1> QED
  BY <1>1, Inductive, PTL

(* A handler and an index thread are never inside at the same time: the    *)
(* handler owns owner_mut, the index threads need a borrower to own it.    *)
THEOREM MutualExclusion == Spec => []Exclusion
<1>1. IInv => Exclusion
  <2> SUFFICES ASSUME IInv, pc[Main] = "handle",
                      NEW t \in Borrowers, pc[t] = "borrowed"
               PROVE  FALSE
    BY DEF Exclusion
  <2>1. owner_mut = Main /\ owner_mut \in Borrowers
    BY DEF IInv, OwnerMain, OwnerCovers, Covered
  <2> QED
    BY <2>1, ThreadsAssumption
<1> QED
  BY <1>1, Inductive, PTL

(* The assertion in shared_resource_release cannot fail: a thread that     *)
(* releases is still counted.                                              *)
THEOREM ReleaseAsserts == Spec => []AssertHolds
<1>1. IInv => AssertHolds
  BY DEF IInv
<1> QED
  BY <1>1, Inductive, PTL

(* The borrower that waits for a handler is the only borrower inside, so   *)
(* holding `mut` meanwhile blocks no release.                              *)
THEOREM NoConvoyForms == Spec => []NoConvoy
<1>1. IInv => NoConvoy
  <2> SUFFICES ASSUME IInv, NEW t \in Borrowers, pc[t] = "take_owner",
                      NEW u \in Borrowers \ {t}
               PROVE  pc[u] \in {"poll", "borrow", "exit"}
    BY DEF NoConvoy
  <2>1. u \notin Counted
    BY DEF IInv, FirstIn
  <2>2. t \in MutRegion /\ u \notin MutRegion
    BY DEF MutRegion, IInv, MutHeld
  <2>3. pc[u] \in BorrowerStates
    BY DEF IInv, TypeOK
  <2> QED
    BY <2>1, <2>2, <2>3 DEF Counted, MutRegion, BorrowerStates
<1> QED
  BY <1>1, Inductive, PTL

(* owner_mut gets unusable only when two index threads share the resource, *)
(* and then neither a handler nor a borrower is inside.                    *)
THEOREM StuckNeedsTwo == Spec => []StuckOnlyByHandOver
<1>1. IInv => StuckOnlyByHandOver
  BY ThreadsAssumption
     DEF IInv, StuckShared, OwnerMain, OwnerCovers, StuckOnlyByHandOver, Threads
<1> QED
  BY <1>1, Inductive, PTL

-----------------------------------------------------------------------------
(* The refinement: each step is a step of HandlerExclusion or a stutter.   *)

(* The threads HandlerExclusion sees as indexing. *)
Borrowed == {t \in Borrowers : pc[t] = "borrowed"}

LEMMA MainRefines ==
  ASSUME IInv, Exclusion', MainStep
  PROVE  HX!HandlerEnter \/ HX!HandlerLeave \/ UNCHANGED HX!hxVars
<1>1. UNCHANGED Borrowed
  BY MainKeepsBorrowers DEF Borrowed
<1>2. pc \in [Threads -> MainStates \cup BorrowerStates] /\ Main \in Threads
  BY DEF IInv, TypeOK, Threads
<1>3. CASE Receive
  BY <1>1, <1>2, <1>3 DEF Receive, Goto, HX!hxVars, Borrowed
<1>4. CASE Lock
  <2>1. pc[Main] = "lock" /\ pc'[Main] = "handle"
    BY <1>2, <1>4 DEF Lock, Goto
  <2>2. Borrowed = {}
    BY <1>1, <2>1 DEF Exclusion, Borrowed
  <2> QED
    BY <1>1, <2>1, <2>2 DEF HX!HandlerEnter, Borrowed
<1>5. CASE Unlock
  BY <1>1, <1>2, <1>5 DEF Unlock, Goto, HX!HandlerLeave, Borrowed
<1> QED
  BY <1>3, <1>4, <1>5 DEF MainStep

LEMMA BorrowerRefines ==
  ASSUME IInv, Exclusion', NEW t \in Borrowers, BorrowerStep(t)
  PROVE  HX!IndexerEnter(t) \/ HX!IndexerLeave(t) \/ UNCHANGED HX!hxVars
<1>1. CASE BorrowReturn(t)
  <2>1. Goto(t, "borrow_done", "borrowed") /\ "borrowed" \in BorrowerStates
    BY <1>1 DEF BorrowReturn, BorrowerStates
  <2>2. /\ Borrowed' = Borrowed \cup {t}
        /\ t \notin Borrowed
        /\ pc'[Main] = pc[Main]
        /\ pc'[t] = "borrowed"
    BY <2>1, OneMoves DEF Borrowed
  <2>3. pc[Main] # "handle"
    BY <2>2 DEF Exclusion
  <2> QED
    BY <2>2, <2>3 DEF HX!IndexerEnter, Borrowed
<1>2. CASE ReleaseCount(t)
  <2>1. PICK to \in {"drop_owner", "release_done", "assert"} :
          Goto(t, "borrowed", to)
    BY <1>2 DEF ReleaseCount
  <2>2. to \in BorrowerStates
    BY DEF BorrowerStates
  <2>3. Borrowed' = Borrowed \ {t} /\ t \in Borrowed /\ pc'[Main] = pc[Main]
    BY <2>1, <2>2, OneMoves DEF Borrowed
  <2> QED
    BY <2>3 DEF HX!IndexerLeave, Borrowed
<1>3. ASSUME Poll(t) \/ BorrowCount(t) \/ BorrowTakeOwner(t)
             \/ ReleaseDropOwner(t) \/ ReleaseReturn(t)
      PROVE  UNCHANGED HX!hxVars
  <2>1. PICK from \in BorrowerStates \ {"borrowed"},
             to \in BorrowerStates \ {"borrowed"} : Goto(t, from, to)
    BY <1>3 DEF Poll, BorrowCount, BorrowTakeOwner, ReleaseDropOwner,
                ReleaseReturn, BorrowerStates
  <2>2. UNCHANGED Borrowed /\ pc'[Main] = pc[Main]
    BY <2>1, OneMoves DEF Borrowed
  <2> QED
    BY <2>2 DEF HX!hxVars, Borrowed
<1> QED
  BY <1>1, <1>2, <1>3 DEF BorrowerStep

(* shared_resource_t gives handlers and index threads the exclusion that   *)
(* HandlerExclusion promises, for any number of index threads.             *)
THEOREM Refinement == Spec => RefinesExclusion
<1>1. Init => HX!HxInit
  <2> SUFFICES ASSUME Init PROVE HX!HxInit
    OBVIOUS
  <2>1. pc[Main] = "listen" /\ \A t \in Borrowers : pc[t] = "poll"
    BY ThreadsAssumption DEF Init, Threads
  <2> QED
    BY <2>1 DEF HX!HxInit
<1>2. IInv /\ Exclusion' /\ [Next]_vars => [HX!HxNext]_(HX!hxVars)
  <2> SUFFICES ASSUME IInv, Exclusion', [Next]_vars
               PROVE  HX!HxNext \/ UNCHANGED HX!hxVars
    OBVIOUS
  <2>1. CASE MainStep
    BY <2>1, MainRefines DEF HX!HxNext
  <2>2. ASSUME NEW t \in Borrowers, BorrowerStep(t)
        PROVE  HX!HxNext \/ UNCHANGED HX!hxVars
    BY <2>2, BorrowerRefines DEF HX!HxNext
  <2>3. CASE UNCHANGED vars
    BY <2>3 DEF vars, HX!hxVars
  <2> QED
    BY <2>1, <2>2, <2>3 DEF Next
<1> QED
  BY <1>1, <1>2, Inductive, MutualExclusion, PTL
     DEF Spec, RefinesExclusion, HX!HxSpec
=============================================================================
