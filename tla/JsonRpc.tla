------------------------------- MODULE JsonRpc -------------------------------
(***************************************************************************)
(* The JSON-RPC layer: json_rpc_listen reads messages one after another,   *)
(* handle_incoming dispatches them, the generated glue of                  *)
(* message_handling.c decodes their parameters and calls the handler or    *)
(* refuses the request, and send_message writes answers and notifications. *)
(* The reparse thread publishes diagnostics through the same send_message, *)
(* which writes a header and a content with two separate calls and takes   *)
(* no lock.                                                                *)
(*                                                                         *)
(* A message is identified by its position in the input.  A handler is the *)
(* steps of command_handler.c that decide whether and when it answers; what *)
(* it does with a translation unit is the matter of UnitLifecycle.  Where   *)
(* it calls code that may spin in a failed assertion or in a loop, it may   *)
(* never return: the main thread is then "hung".                            *)
(***************************************************************************)
EXTENDS Naturals, Sequences

CONSTANTS
  NoOne,           \* no thread
  MaxMessages,     \* bound: messages of the input
  MaxPublishes,    \* bound: diagnostics published by one handler
  MaxReparses      \* bound: diagnostics published by the reparse thread

ASSUME BoundsAssumption ==
  /\ NoOne \notin {"main", "reparse"}
  /\ MaxMessages \in Nat /\ MaxPublishes \in Nat /\ MaxReparses \in Nat

VARIABLES
  received,       \* history: the messages read so far
  requests,       \* history: the positions of those that are requests
  answers,        \* history: the responses written, as [id, kind]
  m_error,        \* the decoders' error: a required field was missing
  responses_sent, \* m_responses_sent
  before,         \* responses_before
  pc,             \* where the main thread is
  answer,         \* the response being written
  publishes,      \* diagnostics the handler has still to publish
  rpc,            \* where the reparse thread is
  reparses,       \* diagnostics it may still publish
  frame,          \* whose header is written and waits for its content
  torn            \* history: a header is not followed by its own content

mainVars == <<received, requests, answers, m_error, responses_sent, before, pc, answer, publishes>>
reparseVars == <<rpc, reparses>>
outVars == <<frame, torn>>
vars == <<mainVars, reparseVars, outVars>>

(* A request with a handler, a request without one, a notification with a  *)
(* handler, and whatever handle_incoming ignores.                          *)
Kinds == {"request", "unknown", "notification", "ignored"}
Message == [kind : Kinds, complete : BOOLEAN]
Answers == {"result", "error", "refused", "not_found"}
Current == Len(received)

Init ==
  /\ received = <<>> /\ requests = <<>> /\ answers = <<>>
  /\ m_error = FALSE
  /\ responses_sent = 0 /\ before = 0
  /\ pc = "listen" /\ answer = "result" /\ publishes = 0
  /\ rpc = "idle" /\ reparses = MaxReparses
  /\ frame = NoOne /\ torn = FALSE

-----------------------------------------------------------------------------
(* send_message, in its two writes. *)

WriteHeader(who) ==
  /\ torn' = (torn \/ frame # NoOne)
  /\ frame' = who

WriteContent(who) ==
  /\ torn' = (torn \/ frame # who)
  /\ frame' = NoOne

-----------------------------------------------------------------------------
(* Slips of the definitions below, with which the properties must fail. *)

(* The glue keeps the error when it refuses a request. *)
SlipErrorStays ==
  /\ pc = "decode" /\ received[Current].kind = "request"
  /\ m_error' = (m_error \/ ~received[Current].complete)
  /\ IF m_error' THEN pc' = "answer" /\ answer' = "refused" ELSE pc' = "handle" /\ UNCHANGED answer
  /\ UNCHANGED <<received, requests, answers, responses_sent, before, publishes, reparseVars,
                 outVars>>

(* A handler that answers "No unit found" goes on to work on the unit. *)
SlipGoesOn ==
  /\ pc = "content"
  /\ WriteContent("main")
  /\ answers' = Append(answers, [id |-> Current, kind |-> answer])
  /\ responses_sent' = responses_sent + 1
  /\ pc' = IF answer = "error" THEN "compute" ELSE "count"
  /\ UNCHANGED <<received, requests, m_error, before, answer, publishes, reparseVars>>

(* A hover with nothing to show returns without an answer. *)
SlipNothingToShow ==
  /\ pc = "compute"
  /\ \/ pc' = "answer" /\ answer' = "result"
     \/ pc' = "count" /\ UNCHANGED answer
  /\ UNCHANGED <<received, requests, answers, m_error, responses_sent, before, publishes,
                 reparseVars, outVars>>

-----------------------------------------------------------------------------
(* The main thread.                                                        *)

(* json_rpc_listen reads a message and handle_incoming looks for its       *)
(* handler.                                                                *)
Receive(message) ==
  /\ pc = "listen" /\ Current < MaxMessages
  /\ received' = Append(received, message)
  /\ before' = responses_sent
  /\ requests' = IF message.kind \in {"request", "unknown"}
                 THEN Append(requests, Current + 1) ELSE requests
  /\ pc' = CASE message.kind \in {"request", "notification"} -> "lock"
             [] message.kind = "unknown" -> "answer"
             [] message.kind = "ignored" -> "listen"
  /\ answer' = IF message.kind = "unknown" THEN "not_found" ELSE answer
  /\ UNCHANGED <<answers, m_error, responses_sent, publishes, reparseVars, outVars>>

(* The index threads let the handler have the resource, unless one of them *)
(* spins inside its borrow.                                                *)
Lock ==
  /\ pc = "lock"
  /\ pc' \in {"decode", "hung"}
  /\ UNCHANGED <<received, requests, answers, m_error, responses_sent, before, answer,
                 publishes, reparseVars, outVars>>

(* What the decoders find: they set the error and never clear it. *)
Missing == m_error \/ ~received[Current].complete

(* The handler goes on to one of the send functions. *)
Send(kind) == pc' = "answer" /\ answer' = kind

(* The glue of a request asks for the error, which clears it, and refuses  *)
(* the request if there was one.                                           *)
DecodeRequest ==
  /\ pc = "decode" /\ received[Current].kind = "request"
  /\ m_error' = FALSE
  /\ \/ Missing /\ Send("refused")
     \/ ~Missing /\ pc' = "handle" /\ UNCHANGED answer
  /\ UNCHANGED <<received, requests, answers, responses_sent, before, publishes, reparseVars,
                 outVars>>

(* initialize, which loads the databases before it answers (the assertion  *)
(* of unit_storage_add), and codeAction, which takes the current unit.     *)
HandleWithoutUnit ==
  /\ pc = "handle"
  /\ Send("result") \/ (pc' = "hung" /\ UNCHANGED answer)
  /\ UNCHANGED <<received, requests, answers, m_error, responses_sent, before, publishes,
                 reparseVars, outVars>>

(* The five requests about a file: without a path they answer an error. *)
HandleForUnit ==
  /\ pc = "handle"
  /\ Send("error") \/ (pc' = "unit" /\ UNCHANGED answer)
  /\ UNCHANGED <<received, requests, answers, m_error, responses_sent, before, publishes,
                 reparseVars, outVars>>

(* get_or_create_unit returns a unit or, if clang fails, none; or the      *)
(* assertion of unit_storage_add spins.                                    *)
GetUnit ==
  /\ pc = "unit"
  /\ Send("error") \/ (pc' \in {"compute", "hung"} /\ UNCHANGED answer)
  /\ UNCHANGED <<received, requests, answers, m_error, responses_sent, before, publishes,
                 reparseVars, outVars>>

(* The unit is asked: a list complete or not, a hover or null, ...; the    *)
(* documentation for the signature help may be read for ever.              *)
Compute ==
  /\ pc = "compute"
  /\ Send("result") \/ (pc' = "hung" /\ UNCHANGED answer)
  /\ UNCHANGED <<received, requests, answers, m_error, responses_sent, before, publishes,
                 reparseVars, outVars>>

(* The glue of a notification never asks for the error; an assertion of    *)
(* didOpen or didChange may spin before anything is published.             *)
DecodeNotification ==
  /\ pc = "decode" /\ received[Current].kind = "notification"
  /\ m_error' = Missing
  /\ publishes' \in 0 .. MaxPublishes
  /\ pc' \in {"publish", "hung"}
  /\ UNCHANGED <<received, requests, answers, responses_sent, before, answer, reparseVars, outVars>>

(* diag_callback, once per file with diagnostics. *)
PublishHeader ==
  /\ pc = "publish" /\ publishes > 0
  /\ WriteHeader("main")
  /\ publishes' = publishes - 1
  /\ pc' = "publish_content"
  /\ UNCHANGED <<received, requests, answers, m_error, responses_sent, before, answer, reparseVars>>

PublishContent ==
  /\ pc = "publish_content"
  /\ WriteContent("main")
  /\ pc' = "publish"
  /\ UNCHANGED <<received, requests, answers, m_error, responses_sent, before, answer,
                 publishes, reparseVars>>

NotificationDone ==
  /\ pc = "publish" /\ publishes = 0
  /\ pc' = "listen"
  /\ UNCHANGED <<received, requests, answers, m_error, responses_sent, before, answer,
                 publishes, reparseVars, outVars>>

(* json_rpc_response_send and json_rpc_error_response_send. *)
AnswerHeader ==
  /\ pc = "answer"
  /\ WriteHeader("main")
  /\ pc' = "content"
  /\ UNCHANGED <<received, requests, answers, m_error, responses_sent, before, answer,
                 publishes, reparseVars>>

AnswerContent ==
  /\ pc = "content"
  /\ WriteContent("main")
  /\ answers' = Append(answers, [id |-> Current, kind |-> answer])
  /\ responses_sent' = responses_sent + 1
  /\ pc' = "count"
  /\ UNCHANGED <<received, requests, m_error, before, answer, publishes, reparseVars>>

(* The assertion on the number of responses, for a request with a handler. *)
CountResponses ==
  /\ pc = "count"
  /\ pc' = IF received[Current].kind = "unknown" \/ responses_sent = before + 1
           THEN "listen" ELSE "assert"
  /\ UNCHANGED <<received, requests, answers, m_error, responses_sent, before, answer,
                 publishes, reparseVars, outVars>>

(* The input ends: before a header the loop stops, within a content it     *)
(* waits for the missing bytes for ever.                                   *)
EndOfInput ==
  /\ pc = "listen"
  /\ pc' \in {"stopped", "truncated"}
  /\ UNCHANGED <<received, requests, answers, m_error, responses_sent, before, answer,
                 publishes, reparseVars, outVars>>

(* The reparse thread publishes diagnostics at any time. *)
ReparsePublish ==
  /\ \/ /\ rpc = "idle" /\ reparses > 0
        /\ WriteHeader("reparse")
        /\ rpc' = "content" /\ reparses' = reparses - 1
     \/ /\ rpc = "content"
        /\ WriteContent("reparse")
        /\ rpc' = "idle" /\ UNCHANGED reparses
  /\ UNCHANGED mainVars

Main ==
  \/ \E message \in Message : Receive(message)
  \/ Lock \/ DecodeRequest \/ HandleWithoutUnit \/ HandleForUnit \/ GetUnit \/ Compute
  \/ DecodeNotification \/ PublishHeader \/ PublishContent \/ NotificationDone
  \/ AnswerHeader \/ AnswerContent \/ CountResponses \/ EndOfInput

Next == Main \/ ReparsePublish

Spec == Init /\ [][Next]_vars
FairSpec == Spec /\ WF_vars(Main) /\ WF_vars(ReparsePublish)

-----------------------------------------------------------------------------
(* Types. *)
TypeOK ==
  /\ received \in Seq(Message) /\ Len(received) <= MaxMessages
  /\ requests \in Seq(1 .. Len(received))
  /\ answers \in Seq([id : 1 .. Len(received), kind : Answers])
  /\ m_error \in BOOLEAN
  /\ responses_sent \in Nat /\ before \in Nat
  /\ pc \in {"listen", "lock", "decode", "handle", "unit", "compute", "answer", "content", "count",
             "publish", "publish_content", "assert", "hung", "stopped", "truncated"}
  /\ answer \in Answers /\ publishes \in 0 .. MaxPublishes
  /\ rpc \in {"idle", "content"} /\ reparses \in 0 .. MaxReparses
  /\ frame \in {NoOne, "main", "reparse"} /\ torn \in BOOLEAN

(* Every request is answered exactly once and in the order of the input,   *)
(* whether a handler answers on any of its paths, the glue refuses or no   *)
(* handler exists; at most the last one is still open, and only while it   *)
(* is worked on or its handler hangs.                                      *)
InWork ==
  \/ pc \in {"unit", "compute", "answer", "content"}
  \/ pc \in {"lock", "decode", "handle", "hung"} /\ received[Current].kind = "request"
AnsweredOnceInOrder ==
  /\ Len(requests) = Len(answers) + IF InWork THEN 1 ELSE 0
  /\ \A i \in DOMAIN answers : answers[i].id = requests[i]

(* The assertion of handle_incoming holds: whatever path a handler takes,  *)
(* it has sent exactly one response when it returns.                       *)
ResponseCountHolds == pc # "assert"

(* A request is refused only if it, or a notification since the request    *)
(* decoded before it, lacked a required field: an error outlives its       *)
(* message, but not the next decoded request.                              *)
Incomplete(i) == ~received[i].complete
CauseUpTo(n) ==
  \E j \in 1 .. n :
    /\ received[j].kind = "notification" /\ Incomplete(j)
    /\ \A k \in j .. n : received[k].kind # "request"
RefusedForCause ==
  \A i \in DOMAIN answers :
    answers[i].kind = "refused" => Incomplete(answers[i].id) \/ CauseUpTo(answers[i].id - 1)

(* Every request that is read is answered, unless the main thread spins in *)
(* a handler (unit_storage.c:319, command_handler.c:246, doxygen.c:398) or *)
(* waits for an index thread that does.                                    *)
EachRequestAnswered ==
  \A n \in 1 .. MaxMessages : Len(requests) >= n ~> (Len(answers) >= n \/ pc = "hung")

-----------------------------------------------------------------------------
(* What the code and its protocol document say.                            *)

(* The error text of a refusal: "Required parameters missing". *)
RefusedForItself ==
  \A i \in DOMAIN answers : answers[i].kind = "refused" => Incomplete(answers[i].id)

(* Base protocol: the content immediately follows the header. *)
FramesWhole == ~torn
=============================================================================
