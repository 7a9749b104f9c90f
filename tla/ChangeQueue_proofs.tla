------------------------- MODULE ChangeQueue_proofs -------------------------
(***************************************************************************)
(* Proofs about ChangeQueue for any number of changes.                     *)
(***************************************************************************)
EXTENDS ChangeQueue, TLAPS

(* A slot filled, or taken, whose size is not stored yet. *)
EnqueueOpen == IF mainpc = "enqueue" THEN 1 ELSE 0
PollOpen == IF rpc = "polled" THEN 1 ELSE 0

(* While no update was lost the size is the number of slots, up to the     *)
(* updates under way; TypeOK alone does not bound what a poll reads.       *)
SizeExact == ~raced => size = last - first - EnqueueOpen + PollOpen

(* The reparse thread has taken exactly the slots before `first`. *)
TakenInOrder ==
  ~raced => /\ handled = 1 .. first - 1 - PollOpen
            /\ rpc = "polled" => changed = first - 1 /\ changed \in Changes

(* A poll under way saw a size above zero. *)
PolledSome == rpc = "polled" => polled > 0

(* A thread that sleeps saw the queue empty, or will find the token of     *)
(* what was counted since: of the size this holds whatever the race does.  *)
SleepsOnEmpty ==
  rpc = "wait" /\ sem = 0 =>
    /\ m_exit => mainpc = "exit_signal"
    /\ size = 0 \/ mainpc = "signal"

ExitFlag == m_exit <=> mainpc \in {"exit_signal", "join", "joined"}

(* After the signal of the shutdown the reparse thread either holds the    *)
(* token already or will find it.                                          *)
ExitToken ==
  mainpc \in {"join", "joined"} /\ rpc \in {"size", "wait"} => sem = 1

(* The flags apart from the numbers: the provers treat them differently. *)
Flags == m_exit \in BOOLEAN /\ raced \in BOOLEAN
Numbers ==
  /\ last \in 1 .. MaxChanges + 1
  /\ first \in Nat \ {0}
  /\ size \in Nat /\ stored \in Nat /\ polled \in Nat
  /\ sem \in {0, 1}
Places ==
  /\ mainpc \in {"handle", "enqueue", "signal", "exit_signal", "join", "joined"}
  /\ rpc \in {"check", "size", "wait", "poll", "polled", "work", "hung", "done"}
  /\ changed \in Changes \cup {Garbage}
  /\ handled \in SUBSET (Changes \cup {Garbage})

IInv ==
  /\ Flags
  /\ Numbers
  /\ Places
  /\ SizeExact
  /\ TakenInOrder
  /\ PolledSome
  /\ ExitFlag
  /\ ExitToken
  /\ SleepsOnEmpty

-----------------------------------------------------------------------------
(* Two facts about intervals. *)
LEMMA EmptyInterval == 1 .. 0 = {}
OBVIOUS

LEMMA IntervalStep ==
  ASSUME NEW n \in Int, n >= 0
  PROVE  (1 .. n) \cup {n + 1} = 1 .. n + 1
OBVIOUS

(* The parts make up TypeOK. *)
LEMMA TypeParts == TypeOK <=> Flags /\ Numbers /\ Places
BY DEF TypeOK, Flags, Numbers, Places

(* A store of size: only when the size is the one that was loaded can the  *)
(* history still be without a lost update.                                 *)
LEMMA StoreSizeFacts ==
  ASSUME NEW seen, NEW new, raced \in BOOLEAN, StoreSize(seen, new)
  PROVE  /\ raced' \in BOOLEAN
         /\ size' = new
         /\ ~raced' => ~raced /\ size = seen
BY Zenon DEF StoreSize

(* Nothing is in the queue, counted or under way at the start. *)
LEMMA InitInv == Init => IInv
<1> SUFFICES ASSUME Init PROVE IInv
  OBVIOUS
<1>1. Flags /\ Places
  BY DEF Init, Flags, Places
<1>2. Numbers
  BY ChangesAssumption DEF Init, Numbers
<1>3. SizeExact /\ PolledSome
  BY DEF Init, SizeExact, PolledSome, EnqueueOpen, PollOpen
<1>4. TakenInOrder
  <2>1. first - 1 - PollOpen = 0 /\ handled = {} /\ rpc # "polled"
    BY DEF Init, PollOpen
  <2> QED
    BY <2>1, EmptyInterval DEF TakenInOrder
<1>5. ExitFlag /\ ExitToken /\ SleepsOnEmpty
  BY DEF Init, ExitFlag, ExitToken, SleepsOnEmpty
<1> QED
  BY <1>1, <1>2, <1>3, <1>4, <1>5 DEF IInv

-----------------------------------------------------------------------------
(* One lemma per action that touches the queue; the others leave size and  *)
(* the slots alone and are proved together.                                *)

LEMMA NotifyEnqueueInv ==
  ASSUME IInv, NotifyEnqueue
  PROVE  IInv'
<1>1. Flags' /\ Places'
  BY DEF NotifyEnqueue, reparseVars, IInv, Flags, Places
<1>2. Numbers'
  BY ChangesAssumption DEF NotifyEnqueue, reparseVars, IInv, Numbers
<1>3. SizeExact'
  BY DEF NotifyEnqueue, reparseVars, IInv, Numbers, SizeExact, EnqueueOpen, PollOpen
<1>4. TakenInOrder' /\ PolledSome'
  BY DEF NotifyEnqueue, reparseVars, IInv, TakenInOrder, PolledSome, PollOpen
<1>5. ExitFlag' /\ ExitToken' /\ SleepsOnEmpty'
  BY DEF NotifyEnqueue, reparseVars, IInv, ExitFlag, ExitToken, SleepsOnEmpty
<1> QED
  BY <1>1, <1>2, <1>3, <1>4, <1>5 DEF IInv

LEMMA NotifyStoreSizeInv ==
  ASSUME IInv, NotifyStoreSize
  PROVE  IInv'
<1>1. /\ raced' \in BOOLEAN
      /\ size' = stored + 1
      /\ ~raced' => ~raced /\ size = stored
  BY StoreSizeFacts DEF NotifyStoreSize, IInv, Flags
<1>2. Flags' /\ Places'
  BY <1>1 DEF NotifyStoreSize, reparseVars, IInv, Flags, Places
<1>3. Numbers'
  BY <1>1 DEF NotifyStoreSize, reparseVars, IInv, Numbers
<1>4. SizeExact'
  BY <1>1 DEF NotifyStoreSize, reparseVars, IInv, Numbers, SizeExact,
              EnqueueOpen, PollOpen
<1>5. TakenInOrder' /\ PolledSome'
  BY <1>1 DEF NotifyStoreSize, reparseVars, IInv, TakenInOrder, PolledSome, PollOpen
<1>6. ExitFlag' /\ ExitToken' /\ SleepsOnEmpty'
  BY DEF NotifyStoreSize, reparseVars, IInv, ExitFlag, ExitToken, SleepsOnEmpty
<1> QED
  BY <1>2, <1>3, <1>4, <1>5, <1>6 DEF IInv

LEMMA PollSlotInv ==
  ASSUME IInv, PollSlot
  PROVE  IInv'
<1>1. ~raced => first < last
  BY DEF PollSlot, IInv, Numbers, SizeExact, EnqueueOpen, PollOpen
<1>2. first < last => first \in Changes
  BY ChangesAssumption DEF IInv, Numbers, Changes
<1>3. changed' = (IF first < last THEN first ELSE Garbage)
  BY DEF PollSlot
<1>4. Flags' /\ Places'
  BY <1>2, <1>3 DEF PollSlot, mainVars, IInv, Flags, Places
<1>5. Numbers'
  BY DEF PollSlot, mainVars, IInv, Numbers
<1>6. SizeExact' /\ PolledSome'
  BY DEF PollSlot, mainVars, IInv, Numbers, SizeExact, PolledSome,
         EnqueueOpen, PollOpen
<1>7. TakenInOrder'
  <2> SUFFICES ASSUME ~raced'
               PROVE  /\ handled' = 1 .. first' - 1 - 1
                      /\ changed' = first' - 1
                      /\ changed' \in Changes
    BY DEF PollSlot, TakenInOrder, PollOpen
  <2>1. ~raced
    BY DEF PollSlot
  <2>2. handled' = 1 .. first - 1 - 0
    BY <2>1 DEF PollSlot, IInv, TakenInOrder, PollOpen
  <2>3. changed' = first /\ first \in Changes
    BY <1>1, <1>2, <1>3, <2>1
  <2>4. first' - 1 = first /\ first' - 1 - 1 = first - 1 - 0
    BY DEF PollSlot, IInv, Numbers
  <2> QED
    BY <2>2, <2>3, <2>4
<1>8. ExitFlag' /\ ExitToken' /\ SleepsOnEmpty'
  BY DEF PollSlot, mainVars, IInv, ExitFlag, ExitToken, SleepsOnEmpty
<1> QED
  BY <1>4, <1>5, <1>6, <1>7, <1>8 DEF IInv

LEMMA PollStoreSizeInv ==
  ASSUME IInv, PollStoreSize
  PROVE  IInv'
<1>1. /\ raced' \in BOOLEAN
      /\ size' = polled - 1
      /\ ~raced' => ~raced /\ size = polled
  BY StoreSizeFacts DEF PollStoreSize, IInv, Flags
<1>2. Flags' /\ Places'
  BY <1>1 DEF PollStoreSize, mainVars, IInv, Flags, Places
<1>3. Numbers'
  BY <1>1 DEF PollStoreSize, mainVars, IInv, Numbers, PolledSome
<1>4. SizeExact' /\ PolledSome'
  BY <1>1 DEF PollStoreSize, mainVars, IInv, Numbers, SizeExact, PolledSome,
              EnqueueOpen, PollOpen
<1>5. TakenInOrder'
  <2> SUFFICES ASSUME ~raced' PROVE handled' = 1 .. first' - 1 - 0
    BY DEF PollStoreSize, TakenInOrder, PollOpen
  <2>1. changed = first - 1 /\ changed \in Changes
    BY <1>1 DEF PollStoreSize, IInv, TakenInOrder
  <2>2. handled = 1 .. first - 1 - 1
    BY <1>1 DEF PollStoreSize, IInv, TakenInOrder, PollOpen
  <2> DEFINE n == first - 1 - 1
  <2>3. n \in Int /\ n >= 0 /\ n + 1 = first - 1 /\ n + 1 = first - 1 - 0
    BY <2>1, ChangesAssumption DEF IInv, Numbers, Changes
  <2>4. handled' = (1 .. n) \cup {n + 1}
    BY <2>1, <2>2, <2>3 DEF PollStoreSize
  <2>5. handled' = 1 .. n + 1
    BY <2>3, <2>4, IntervalStep
  <2> QED
    BY <2>3, <2>5 DEF PollStoreSize
<1>6. ExitFlag' /\ ExitToken' /\ SleepsOnEmpty'
  BY DEF PollStoreSize, mainVars, IInv, ExitFlag, ExitToken, SleepsOnEmpty
<1> QED
  BY <1>2, <1>3, <1>4, <1>5, <1>6 DEF IInv

(* The steps that leave the queue alone, and stuttering. *)
LEMMA OtherStepInv ==
  ASSUME IInv,
         \/ NotifySignal \/ SetExit \/ ExitSignal \/ Join
         \/ CheckExit \/ CheckSize \/ Wait \/ PollNothing \/ Reparse \/ Hang
         \/ UNCHANGED vars
  PROVE  IInv'
<1>1. /\ UNCHANGED <<last, first, size, stored, polled, changed, handled, raced>>
      /\ mainpc = "enqueue" <=> mainpc' = "enqueue"
      /\ rpc = "polled" <=> rpc' = "polled"
  BY DEF NotifySignal, SetExit, ExitSignal, Join, CheckExit, CheckSize, Wait,
         PollNothing, Reparse, Hang, vars, mainVars, reparseVars
<1>2. Flags' /\ Places'
  BY <1>1 DEF NotifySignal, SetExit, ExitSignal, Join, CheckExit, CheckSize,
              Wait, PollNothing, Reparse, Hang, vars, mainVars, reparseVars,
              IInv, Flags, Places
<1>3. sem' \in {0, 1}
  BY DEF NotifySignal, SetExit, ExitSignal, Join, CheckExit, CheckSize,
         Wait, PollNothing, Reparse, Hang, Signal, vars, IInv, Numbers
<1>4. Numbers'
  BY <1>1, <1>3 DEF IInv, Numbers
<1>5. SizeExact' /\ TakenInOrder' /\ PolledSome'
  BY <1>1 DEF IInv, SizeExact, TakenInOrder, PolledSome, EnqueueOpen, PollOpen
<1>6. ExitFlag' /\ ExitToken' /\ SleepsOnEmpty'
  <2>1. CASE NotifySignal \/ SetExit \/ ExitSignal \/ Join
    BY <2>1, <1>1
       DEF NotifySignal, SetExit, ExitSignal, Join, Signal, reparseVars,
           IInv, Flags, Places, ExitFlag, ExitToken, SleepsOnEmpty
  <2>2. CASE CheckExit \/ CheckSize \/ Wait \/ PollNothing \/ Reparse \/ Hang
    BY <2>2, <1>1
       DEF CheckExit, CheckSize, Wait, PollNothing, Reparse, Hang, mainVars,
           IInv, Flags, Numbers, Places, ExitFlag, ExitToken, SleepsOnEmpty
  <2>3. CASE UNCHANGED vars
    BY <2>3, <1>1
       DEF vars, mainVars, reparseVars, IInv, ExitFlag, ExitToken, SleepsOnEmpty
  <2> QED
    BY <2>1, <2>2, <2>3
<1> QED
  BY <1>2, <1>4, <1>5, <1>6 DEF IInv

(* Every step of the two threads keeps the invariant. *)
LEMMA NextInv == IInv /\ [Next]_vars => IInv'
BY NotifyEnqueueInv, NotifyStoreSizeInv, PollSlotInv, PollStoreSizeInv,
   OtherStepInv
   DEF Next, MainNext, MainInCall, ReparseNext

(* The strengthened invariant holds of every behaviour. *)
THEOREM Inductive == Spec => []IInv
BY InitInv, NextInv, PTL DEF Spec

-----------------------------------------------------------------------------
(* Results *)

(* Types; size is never negative although its updates may be lost, since   *)
(* a poll only ever decrements a size it saw above zero.                   *)
THEOREM TypeCorrect == Spec => []TypeOK
<1>1. IInv => TypeOK
  BY TypeParts DEF IInv
<1> QED
  BY <1>1, Inductive, PTL

(* A filled slot, or the exit, keeps the reparse thread from sleeping      *)
(* until it is signalled: while no update was lost a size of zero means    *)
(* that every slot is taken, but for the one just being filled.            *)
THEOREM Wakeup == Spec => []NoLostWakeup
<1>1. IInv => NoLostWakeup
  <2> SUFFICES ASSUME IInv, rpc = "wait", sem = 0
               PROVE  /\ m_exit => mainpc = "exit_signal"
                      /\ first < last => mainpc \in {"enqueue", "signal"} \/ raced
    BY DEF NoLostWakeup
  <2>1. m_exit => mainpc = "exit_signal"
    BY DEF IInv, SleepsOnEmpty
  <2>2. size = 0 \/ mainpc = "signal"
    BY DEF IInv, SleepsOnEmpty
  <2>3. ~raced => size = last - first - EnqueueOpen + 0
    BY DEF IInv, SizeExact, PollOpen
  <2>4. first < last /\ ~raced /\ size = 0 => mainpc = "enqueue"
    BY <2>3 DEF IInv, Numbers, EnqueueOpen
  <2> QED
    BY <2>1, <2>2, <2>4
<1> QED
  BY <1>1, Inductive, PTL

(* Nothing but a lost update of size makes the reparse thread read a slot  *)
(* that was never filled.                                                  *)
THEOREM NoGarbage == Spec => []GarbageOnlyAfterRace
<1>1. IInv => GarbageOnlyAfterRace
  BY ChangesAssumption
     DEF IInv, Flags, TakenInOrder, GarbageOnlyAfterRace, Changes
<1> QED
  BY <1>1, Inductive, PTL

(* Without a lost update every change is handed over, in order, and none   *)
(* twice: the changes taken are exactly those before `first`.              *)
THEOREM HandOver == Spec => []NothingSkipped
<1>1. IInv => NothingSkipped
  BY DEF IInv, Numbers, SizeExact, TakenInOrder, NothingSkipped,
         EnqueueOpen, PollOpen
<1> QED
  BY <1>1, Inductive, PTL
=============================================================================
