----------------------------- MODULE ChangeQueue -----------------------------
(***************************************************************************)
(* The hand-over of changed files from the didChange handler (main thread) *)
(* to the reparse thread of unit_storage.c: a queue, a semaphore of at     *)
(* most one token and the flag m_exit.  No mutex protects the queue, so    *)
(* its `size` field is updated by two threads at once: an update is a load *)
(* and a store, and the other thread may store in between.  The history    *)
(* variable `raced` records that an update was lost in this way.           *)
(*                                                                         *)
(* Change number i is the i-th file that was enqueued, so the slots of the *)
(* queue hold 1, 2, ... and need no variable of their own.                 *)
(***************************************************************************)
EXTENDS Integers

CONSTANTS
  MaxChanges,   \* bound: didChange notifications before the end of input
  Garbage       \* what a slot holds that nothing was put into

ASSUME ChangesAssumption ==
  /\ MaxChanges \in Nat
  /\ Garbage \notin 1 .. MaxChanges

VARIABLES
  last,     \* next slot queue_enqueue writes
  first,    \* next slot queue_poll reads
  size,     \* queue_size(mp_change_queue)
  sem,      \* tokens of m_change_queue_sem
  m_exit,   \* the flag unit_storage_wait_for_completion sets
  mainpc,   \* where the main thread is
  stored,   \* the size the main thread is about to store
  rpc,      \* where the reparse thread is
  polled,   \* the size the reparse thread is about to store
  changed,  \* p_changed_file of the reparse thread
  handled,  \* history: changes the reparse thread took from the queue
  raced     \* history: an update of size was overwritten

mainVars == <<mainpc, stored>>
reparseVars == <<rpc, polled, changed, handled>>
vars == <<last, first, size, sem, m_exit, mainVars, reparseVars, raced>>

Changes == 1 .. MaxChanges

Init ==
  /\ last = 1 /\ first = 1 /\ size = 0
  /\ sem = 0
  /\ m_exit = FALSE
  /\ mainpc = "handle" /\ stored = 0
  /\ rpc = "check" /\ polled = 0 /\ changed = Garbage
  /\ handled = {}
  /\ raced = FALSE

(* Store a new size; an update made since `seen` was loaded is lost. *)
StoreSize(seen, new) ==
  /\ size' = new
  /\ raced' = (raced \/ size # seen)

(* semaphore_signal: at one token ReleaseSemaphore fails without effect. *)
Signal == sem' = 1

-----------------------------------------------------------------------------
(* Slips a change to the code could make, which a property below notices.  *)

(* A change, or the exit, is announced without a signal. *)
SlipNotifySilent ==
  /\ mainpc = "signal"
  /\ mainpc' = "handle"
  /\ UNCHANGED <<last, first, size, sem, m_exit, stored, reparseVars, raced>>
SlipExitSilent ==
  /\ mainpc = "exit_signal"
  /\ mainpc' = "join"
  /\ UNCHANGED <<last, first, size, sem, m_exit, stored, reparseVars, raced>>

(* The thread waits for a token before every poll. *)
SlipAlwaysWait ==
  /\ rpc = "size"
  /\ rpc' = "wait"
  /\ UNCHANGED <<last, first, size, sem, m_exit, mainVars, polled, changed, handled, raced>>

(* A poll that does not look at the size. *)
SlipPollEmpty ==
  /\ rpc = "poll"
  /\ changed' = IF first < last THEN first ELSE Garbage
  /\ first' = first + 1
  /\ polled' = size
  /\ rpc' = "polled"
  /\ UNCHANGED <<last, size, sem, m_exit, mainVars, handled, raced>>

(* The change is used only if the queue still holds another one. *)
SlipPollDropsLast ==
  /\ rpc = "polled"
  /\ StoreSize(polled, polled - 1)
  /\ handled' = IF polled > 1 THEN handled \cup {changed} ELSE handled
  /\ rpc' = "work"
  /\ UNCHANGED <<last, first, sem, m_exit, mainVars, polled, changed>>

-----------------------------------------------------------------------------
(* The main thread.                                                        *)

(* unit_storage_notify_change: queue_enqueue fills the slot and loads size. *)
NotifyEnqueue ==
  /\ mainpc = "handle"
  /\ last <= MaxChanges
  /\ last' = last + 1
  /\ stored' = size
  /\ mainpc' = "enqueue"
  /\ UNCHANGED <<first, size, sem, m_exit, reparseVars, raced>>

NotifyStoreSize ==
  /\ mainpc = "enqueue"
  /\ StoreSize(stored, stored + 1)
  /\ mainpc' = "signal"
  /\ UNCHANGED <<last, first, sem, m_exit, stored, reparseVars>>

NotifySignal ==
  /\ mainpc = "signal"
  /\ Signal
  /\ mainpc' = "handle"
  /\ UNCHANGED <<last, first, size, m_exit, stored, reparseVars, raced>>

(* End of input: unit_storage_wait_for_completion sets the flag, ... *)
SetExit ==
  /\ mainpc = "handle"
  /\ m_exit' = TRUE
  /\ mainpc' = "exit_signal"
  /\ UNCHANGED <<last, first, size, sem, stored, reparseVars, raced>>

(* ... wakes the reparse thread ... *)
ExitSignal ==
  /\ mainpc = "exit_signal"
  /\ Signal
  /\ mainpc' = "join"
  /\ UNCHANGED <<last, first, size, m_exit, stored, reparseVars, raced>>

(* ... and joins it. *)
Join ==
  /\ mainpc = "join"
  /\ rpc = "done"
  /\ mainpc' = "joined"
  /\ UNCHANGED <<last, first, size, sem, m_exit, stored, reparseVars, raced>>

-----------------------------------------------------------------------------
(* The reparse thread.                                                     *)

CheckExit ==
  /\ rpc = "check"
  /\ rpc' = IF m_exit THEN "done" ELSE "size"
  /\ UNCHANGED <<last, first, size, sem, m_exit, mainVars, polled, changed, handled, raced>>

(* The semaphore is waited for only if the queue looks empty. *)
CheckSize ==
  /\ rpc = "size"
  /\ rpc' = IF size = 0 THEN "wait" ELSE "poll"
  /\ UNCHANGED <<last, first, size, sem, m_exit, mainVars, polled, changed, handled, raced>>

Wait ==
  /\ rpc = "wait"
  /\ sem = 1
  /\ sem' = 0
  /\ rpc' = "poll"
  /\ UNCHANGED <<last, first, size, m_exit, mainVars, polled, changed, handled, raced>>

(* queue_poll of an empty queue finds nothing and the loop starts over. *)
PollNothing ==
  /\ rpc = "poll"
  /\ size = 0
  /\ rpc' = "check"
  /\ UNCHANGED <<last, first, size, sem, m_exit, mainVars, polled, changed, handled, raced>>

(* queue_poll otherwise takes the first slot and loads size ... *)
PollSlot ==
  /\ rpc = "poll"
  /\ size # 0
  /\ changed' = IF first < last THEN first ELSE Garbage
  /\ first' = first + 1
  /\ polled' = size
  /\ rpc' = "polled"
  /\ UNCHANGED <<last, size, sem, m_exit, mainVars, handled, raced>>

(* ... and stores the decremented size. *)
PollStoreSize ==
  /\ rpc = "polled"
  /\ StoreSize(polled, polled - 1)
  /\ handled' = handled \cup {changed}
  /\ rpc' = "work"
  /\ UNCHANGED <<last, first, sem, m_exit, mainVars, polled, changed>>

(* The units that include the file are reparsed, and the loop starts over. *)
Reparse ==
  /\ rpc = "work"
  /\ rpc' = "check"
  /\ UNCHANGED <<last, first, size, sem, m_exit, mainVars, polled, changed, handled, raced>>

(* Or the thread never returns: an assertion of unit_reparse fails, or the *)
(* garbage it polled is not a string; both handlers loop forever.          *)
Hang ==
  /\ rpc = "work"
  /\ rpc' = "hung"
  /\ UNCHANGED <<last, first, size, sem, m_exit, mainVars, polled, changed, handled, raced>>

-----------------------------------------------------------------------------
MainInCall == NotifyStoreSize \/ NotifySignal \/ ExitSignal \/ Join

MainNext == NotifyEnqueue \/ SetExit \/ MainInCall

ReparseNext ==
  \/ CheckExit \/ CheckSize \/ Wait \/ PollNothing
  \/ PollSlot \/ PollStoreSize \/ Reparse \/ Hang

Next == MainNext \/ ReparseNext

Spec == Init /\ [][Next]_vars

(* Threads that can run do run; the client owes the server no change and   *)
(* no end of input, so NotifyEnqueue and SetExit have no fairness.         *)
FairSpec == Spec /\ WF_vars(MainInCall) /\ WF_vars(ReparseNext)

-----------------------------------------------------------------------------
(* Properties *)

(* Types; a lost update can make size larger, or smaller, than the queue. *)
TypeOK ==
  /\ last \in 1 .. MaxChanges + 1
  /\ first \in Nat \ {0}
  /\ size \in Nat /\ stored \in Nat /\ polled \in Nat
  /\ sem \in {0, 1}
  /\ m_exit \in BOOLEAN
  /\ mainpc \in {"handle", "enqueue", "signal", "exit_signal", "join", "joined"}
  /\ rpc \in {"check", "size", "wait", "poll", "polled", "work", "hung", "done"}
  /\ changed \in Changes \cup {Garbage}
  /\ handled \in SUBSET (Changes \cup {Garbage})
  /\ raced \in BOOLEAN

(* The reparse thread never sleeps while a filled slot waits for it or the *)
(* server wants to stop, except for the moment before the signal: one      *)
(* token is enough because the thread checks the size before it waits.     *)
(* Only after a lost update of size, which makes the queue look emptier    *)
(* than it is, can it sleep past a change (unit_storage.c:47, 52, 139); it *)
(* does not sleep past the exit even then.                                 *)
NoLostWakeup ==
  rpc = "wait" /\ sem = 0 =>
    /\ m_exit => mainpc = "exit_signal"
    /\ first < last => mainpc \in {"enqueue", "signal"} \/ raced

(* What the reparse thread reads from the queue was put there, unless the  *)
(* two threads lost an update of size.                                     *)
GarbageOnlyAfterRace == rpc = "polled" /\ changed = Garbage => raced

(* Without a lost update nothing is skipped: everything before `first` has *)
(* been handed to the reparse thread, everything from it on still is to.   *)
NothingSkipped ==
  ~raced /\ rpc # "polled" => handled = 1 .. first - 1 /\ first <= last

(* A changed file is handed to the reparse thread some day, unless the     *)
(* server stops, the thread hangs in an assertion, or an update of size    *)
(* was lost.                                                               *)
ChangeHandled ==
  \A i \in Changes : last > i ~> (i \in handled \/ m_exit \/ raced \/ rpc = "hung")

(* Once m_exit is set the main thread gets past the join, unless the       *)
(* reparse thread hangs; a race on the queue cannot prevent it.            *)
ShutdownCompletes == m_exit ~> (mainpc = "joined" \/ rpc = "hung")
=============================================================================
