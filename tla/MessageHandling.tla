---------------------------- MODULE MessageHandling ----------------------------
(***************************************************************************)
(* What the generated layer between json_rpc.c and command_handler.c does  *)
(* with a message: message_handling.c decodes the params, hands them to    *)
(* the handler that command_handler_init registered, and releases them.    *)
(* A request is handed over only when decoder_error() finds m_error clear, *)
(* a notification always; and only a request clears m_error.               *)
(*                                                                         *)
(* JsonRpc says which message is next and what is answered.  This module   *)
(* says what a handler gets of the params, member by member, whatever the  *)
(* client put or did not put there.                                        *)
(***************************************************************************)
EXTENDS Decoders, Freers, Integers

CONSTANTS
  JsonValues,  \* the JSON values a client may send
  Params       \* [Methods -> the params a client may send]

VARIABLES
  m_error,   \* decoders.c: a structure lacked a required member
  heap,      \* blocks the decoders allocated and no freer has released
  last       \* the message handled last, and what its handler was handed

vars == <<m_error, heap, last>>

\* The methods that have a handler.
Requests ==
  {"initialize", "documentSymbol", "completion", "signatureHelp", "definition",
   "hover", "codeAction"}
Notifications == {"didOpen", "didChange", "didSave", "didClose"}
Methods == Requests \cup Notifications

ASSUME ParamsAssumption ==
  /\ DOMAIN Params = Methods
  /\ UNION {Params[method] : method \in Methods} \subseteq JsonValues \cup {Absent}

\* The members of an object, the items of an array.
Parts(json) == IF Kind(json) \in {"object", "array"} THEN Range(Payload(json)) ELSE {}

\* What is within a value is a value, an array is a sequence, and the text of a
\* string is never the null pointer that the copy of another value is.
ASSUME JsonAssumption ==
  /\ UNION {Parts(json) : json \in JsonValues} \subseteq JsonValues
  /\ \A json \in JsonValues :
       /\ Kind(json) = "array" => Payload(json) \in Seq(Range(Payload(json)))
       /\ Kind(json) = "string" => Payload(json) # NULL

\* A handler that is not called is handed nothing.
Nothing == <<>>

NoMessage == [method |-> "none", handed |-> Nothing]

Init ==
  /\ m_error = FALSE
  /\ heap = 0
  /\ last = NoMessage

\* The error a decoder leaves behind: it is raised and never cleared.
Raised(params) == m_error \/ params.error

\* A request that asks for the error before it decodes the params.
SlipHandOver(method, params, released) ==
  /\ last = NoMessage
  /\ m_error' = params.error
  /\ last' = [method |-> method, handed |-> IF m_error THEN Nothing ELSE <<params.value>>]
  /\ heap' = heap + params.heap - released

\* A request: decoder_error() returns m_error and clears it.
HandOver(method, params, released) ==
  /\ last = NoMessage
  /\ m_error' = FALSE
  /\ last' = [method |-> method,
              handed |-> IF Raised(params) THEN Nothing ELSE <<params.value>>]
  /\ heap' = heap + params.heap - released

\* A notification: nobody asks for m_error.
Notify(method, params, released) ==
  /\ last = NoMessage
  /\ m_error' = Raised(params)
  /\ last' = [method |-> method, handed |-> <<params.value>>]
  /\ heap' = heap + params.heap - released

request_handler_initialize(json) ==
  LET params == decode_initialize_params(json)
  IN  HandOver("initialize", params, free_initialize_params(params.value))

request_handler_text_document_document_symbol(json) ==
  LET params == decode_document_symbol_params(json)
  IN  HandOver("documentSymbol", params, free_document_symbol_params(params.value))

request_handler_text_document_completion(json) ==
  LET params == decode_text_document_position_params(json)
  IN  HandOver("completion", params, free_text_document_position_params(params.value))

request_handler_text_document_signature_help(json) ==
  LET params == decode_text_document_position_params(json)
  IN  HandOver("signatureHelp", params, free_text_document_position_params(params.value))

request_handler_text_document_definition(json) ==
  LET params == decode_text_document_position_params(json)
  IN  HandOver("definition", params, free_text_document_position_params(params.value))

request_handler_text_document_hover(json) ==
  LET params == decode_text_document_position_params(json)
  IN  HandOver("hover", params, free_text_document_position_params(params.value))

request_handler_text_document_code_action(json) ==
  LET params == decode_code_action_params(json)
  IN  HandOver("codeAction", params, free_code_action_params(params.value))

notification_handler_text_document_did_open(json) ==
  LET params == decode_did_open_text_document_params(json)
  IN  Notify("didOpen", params, free_did_open_text_document_params(params.value))

notification_handler_text_document_did_change(json) ==
  LET params == decode_did_change_text_document_params(json)
  IN  Notify("didChange", params, free_did_change_text_document_params(params.value))

notification_handler_text_document_did_save(json) ==
  LET params == decode_did_save_text_document_params(json)
  IN  Notify("didSave", params, free_did_save_text_document_params(params.value))

notification_handler_text_document_did_close(json) ==
  LET params == decode_did_close_text_document_params(json)
  IN  Notify("didClose", params, free_did_close_text_document_params(params.value))

\* The read loop of json_rpc.c turns to the next message.
Await ==
  /\ last # NoMessage
  /\ last' = NoMessage
  /\ UNCHANGED <<m_error, heap>>

Next ==
  \/ Await
  \/ \E json \in Params["initialize"] : request_handler_initialize(json)
  \/ \E json \in Params["documentSymbol"] :
       request_handler_text_document_document_symbol(json)
  \/ \E json \in Params["completion"] : request_handler_text_document_completion(json)
  \/ \E json \in Params["signatureHelp"] :
       request_handler_text_document_signature_help(json)
  \/ \E json \in Params["definition"] : request_handler_text_document_definition(json)
  \/ \E json \in Params["hover"] : request_handler_text_document_hover(json)
  \/ \E json \in Params["codeAction"] : request_handler_text_document_code_action(json)
  \/ \E json \in Params["didOpen"] : notification_handler_text_document_did_open(json)
  \/ \E json \in Params["didChange"] :
       notification_handler_text_document_did_change(json)
  \/ \E json \in Params["didSave"] : notification_handler_text_document_did_save(json)
  \/ \E json \in Params["didClose"] : notification_handler_text_document_did_close(json)

Spec == Init /\ [][Next]_vars

-----------------------------------------------------------------------------
\* The members the handler of a request reads without a look at valid_fields,
\* in command_handler.c and in the functions of unit.c it calls with them.
PositionReads ==
  {<<"text_document", "uri">>, <<"position", "line">>, <<"position", "character">>}
Reads == [method \in Requests |->
  CASE method = "initialize" -> {}
    [] method = "documentSymbol" -> {<<"text_document", "uri">>}
    [] method = "codeAction" ->
         {<<"text_document", "uri">>,
          <<"range", "start", "line">>, <<"range", "start", "character">>,
          <<"range", "end", "line">>, <<"range", "end", "character">>}
    [] OTHER -> PositionReads]

\* Following a path of members never leaves what was decoded.
Decoded(value, path) ==
  /\ path[1] \in DOMAIN value
  /\ path[2] \in DOMAIN value[path[1]]
  /\ Len(path) = 3 => path[3] \in DOMAIN value[path[1]][path[2]]

\* The parameters of a compilation database that "initialize" goes through.
Databases(value) ==
  IF "initialization_options" \in DOMAIN value
       /\ "compilation_database" \in DOMAIN value.initialization_options
    THEN value.initialization_options.compilation_database
    ELSE <<>>

\* The handler of a request (command_handler.c 131-452) reads most members of its
\* params without asking whether they were there.  It is never handed params in
\* which a member it reads so is all zero, however deep that member lies.
RequestReadsDecoded ==
  last.method \in Requests /\ last.handed # Nothing =>
    /\ \A path \in Reads[last.method] : Decoded(last.handed[1], path)
    /\ last.method = "initialize" =>
         \A i \in DOMAIN Databases(last.handed[1]) :
           "path" \in DOMAIN Databases(last.handed[1])[i]

\* The freer of the params releases what the decoder allocated for them, no more
\* and no less: also when members are missing, of another kind than the decoder
\* expects, or in an array next to items of another kind.
HeapReturns == heap = 0
===============================================================================
