-------------------------- MODULE HandlerExclusion --------------------------
(***************************************************************************)
(* What the server promises about its message handlers and its background  *)
(* indexing: a message handler runs alone, and any number of index threads *)
(* may work together while no handler runs.  SharedResource implements     *)
(* this with two mutexes and a counter; UnitLifecycle uses it as is.       *)
(***************************************************************************)

CONSTANT Borrowers    \* the index threads

VARIABLES handler,    \* TRUE while a message handler runs
          indexing    \* the index threads between json_rpc_suspend and _resume

hxVars == <<handler, indexing>>

HxInit ==
  /\ handler = FALSE
  /\ indexing = {}

HandlerEnter ==
  /\ ~handler
  /\ indexing = {}
  /\ handler' = TRUE
  /\ UNCHANGED indexing

HandlerLeave ==
  /\ handler
  /\ handler' = FALSE
  /\ UNCHANGED indexing

IndexerEnter(t) ==
  /\ ~handler
  /\ t \notin indexing
  /\ indexing' = indexing \cup {t}
  /\ UNCHANGED handler

IndexerLeave(t) ==
  /\ t \in indexing
  /\ indexing' = indexing \ {t}
  /\ UNCHANGED handler

HxNext ==
  \/ HandlerEnter
  \/ HandlerLeave
  \/ \E t \in Borrowers : IndexerEnter(t) \/ IndexerLeave(t)

HxSpec == HxInit /\ [][HxNext]_hxVars
=============================================================================
