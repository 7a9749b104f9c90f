--------------------------- MODULE ProtocolExchange ----------------------------
(***************************************************************************)
(* The decoders read what the encoders write.  The server writes some of   *)
(* its structures for the client and some for itself (the locations in the *)
(* index file, the arguments of a command); the two generated halves are   *)
(* checked against each other on all of them, next to the messages of      *)
(* MessageHandling: a structure is encoded, decoded again and released.    *)
(***************************************************************************)
EXTENDS MessageHandling, Encoders, ProtocolTypes

CONSTANT
  Values(_)   \* type -> the values of it that are exchanged

\* Written, read again and released.
Exchange(structure, type, encode(_), decode(_), free(_)) ==
  \E value \in Values(type) :
    LET read == decode(encode(value))
    IN  /\ last = NoMessage
        /\ last' = [method |-> "exchange", structure |-> structure,
                     written |-> value, read |-> read.value]
        /\ m_error' = Raised(read)
        /\ heap' = heap + read.heap - free(read.value)

ExchangeAny ==
  \/ Exchange("compilation_database_params", compilation_database_params_t, encode_compilation_database_params,
       decode_compilation_database_params, free_compilation_database_params)
  \/ Exchange("initialization_options", initialization_options_t,
       encode_initialization_options, decode_initialization_options, free_initialization_options)
  \/ Exchange("workspace_client_capabilities", workspace_client_capabilities_t, encode_workspace_client_capabilities,
       decode_workspace_client_capabilities, free_workspace_client_capabilities)
  \/ Exchange("text_document_client_capabilities", text_document_client_capabilities_t, encode_text_document_client_capabilities,
       decode_text_document_client_capabilities, free_text_document_client_capabilities)
  \/ Exchange("client_capabilities", client_capabilities_t,
       encode_client_capabilities, decode_client_capabilities, free_client_capabilities)
  \/ Exchange("completion_options", completion_options_t,
       encode_completion_options, decode_completion_options, free_completion_options)
  \/ Exchange("signature_help_options", signature_help_options_t,
       encode_signature_help_options, decode_signature_help_options, free_signature_help_options)
  \/ Exchange("code_lens_options", code_lens_options_t,
       encode_code_lens_options, decode_code_lens_options, free_code_lens_options)
  \/ Exchange("save_options", save_options_t,
       encode_save_options, decode_save_options, free_save_options)
  \/ Exchange("text_document_sync_options", text_document_sync_options_t,
       encode_text_document_sync_options, decode_text_document_sync_options, free_text_document_sync_options)
  \/ Exchange("server_capabilities", server_capabilities_t,
       encode_server_capabilities, decode_server_capabilities, free_server_capabilities)
  \/ Exchange("markup_content", markup_content_t,
       encode_markup_content, decode_markup_content, free_markup_content)
  \/ Exchange("marked_string", marked_string_t,
       encode_marked_string, decode_marked_string, free_marked_string)
  \/ Exchange("message_action_item", message_action_item_t,
       encode_message_action_item, decode_message_action_item, free_message_action_item)
  \/ Exchange("position", position_t, encode_position, decode_position, free_position)
  \/ Exchange("range", range_t, encode_range, decode_range, free_range)
  \/ Exchange("text_edit", text_edit_t, encode_text_edit, decode_text_edit, free_text_edit)
  \/ Exchange("location", location_t, encode_location, decode_location, free_location)
  \/ Exchange("diagnostic_related_information", diagnostic_related_information_t, encode_diagnostic_related_information,
       decode_diagnostic_related_information, free_diagnostic_related_information)
  \/ Exchange("diagnostic", diagnostic_t, encode_diagnostic, decode_diagnostic, free_diagnostic)
  \/ Exchange("text_document_item", text_document_item_t,
       encode_text_document_item, decode_text_document_item, free_text_document_item)
  \/ Exchange("text_document_content_change_event", text_document_content_change_event_t, encode_text_document_content_change_event,
       decode_text_document_content_change_event, free_text_document_content_change_event)
  \/ Exchange("text_document_identifier", text_document_identifier_t,
       encode_text_document_identifier, decode_text_document_identifier, free_text_document_identifier)
  \/ Exchange("versioned_text_document_identifier", versioned_text_document_identifier_t, encode_versioned_text_document_identifier,
       decode_versioned_text_document_identifier, free_versioned_text_document_identifier)
  \/ Exchange("file_event", file_event_t, encode_file_event, decode_file_event, free_file_event)
  \/ Exchange("text_document_position_params", text_document_position_params_t, encode_text_document_position_params,
       decode_text_document_position_params, free_text_document_position_params)
  \/ Exchange("command", command_t, encode_command, decode_command, free_command)
  \/ Exchange("completion_item", completion_item_t,
       encode_completion_item, decode_completion_item, free_completion_item)
  \/ Exchange("parameter_information", parameter_information_t,
       encode_parameter_information, decode_parameter_information, free_parameter_information)
  \/ Exchange("signature_information", signature_information_t,
       encode_signature_information, decode_signature_information, free_signature_information)
  \/ Exchange("reference_context", reference_context_t,
       encode_reference_context, decode_reference_context, free_reference_context)
  \/ Exchange("completion_list", completion_list_t,
       encode_completion_list, decode_completion_list, free_completion_list)
  \/ Exchange("code_action_context", code_action_context_t,
       encode_code_action_context, decode_code_action_context, free_code_action_context)
  \/ Exchange("initialize_params", initialize_params_t,
       encode_initialize_params, decode_initialize_params, free_initialize_params)
  \/ Exchange("reference_params", reference_params_t,
       encode_reference_params, decode_reference_params, free_reference_params)
  \/ Exchange("document_symbol_params", document_symbol_params_t,
       encode_document_symbol_params, decode_document_symbol_params, free_document_symbol_params)
  \/ Exchange("workspace_symbol_params", workspace_symbol_params_t,
       encode_workspace_symbol_params, decode_workspace_symbol_params, free_workspace_symbol_params)
  \/ Exchange("document_link_params", document_link_params_t,
       encode_document_link_params, decode_document_link_params, free_document_link_params)
  \/ Exchange("code_action_params", code_action_params_t,
       encode_code_action_params, decode_code_action_params, free_code_action_params)
  \/ Exchange("show_message_request_params", show_message_request_params_t, encode_show_message_request_params,
       decode_show_message_request_params, free_show_message_request_params)
  \/ Exchange("signature_help", signature_help_t,
       encode_signature_help, decode_signature_help, free_signature_help)
  \/ Exchange("initialize_result", initialize_result_t,
       encode_initialize_result, decode_initialize_result, free_initialize_result)
  \/ Exchange("symbol_information", symbol_information_t,
       encode_symbol_information, decode_symbol_information, free_symbol_information)
  \/ Exchange("document_link", document_link_t,
       encode_document_link, decode_document_link, free_document_link)
  \/ Exchange("hover", hover_t, encode_hover, decode_hover, free_hover)
  \/ Exchange("show_message_params", show_message_params_t,
       encode_show_message_params, decode_show_message_params, free_show_message_params)
  \/ Exchange("log_message_params", log_message_params_t,
       encode_log_message_params, decode_log_message_params, free_log_message_params)
  \/ Exchange("publish_diagnostics_params", publish_diagnostics_params_t,
       encode_publish_diagnostics_params, decode_publish_diagnostics_params, free_publish_diagnostics_params)
  \/ Exchange("did_open_text_document_params", did_open_text_document_params_t, encode_did_open_text_document_params,
       decode_did_open_text_document_params, free_did_open_text_document_params)
  \/ Exchange("did_change_text_document_params", did_change_text_document_params_t, encode_did_change_text_document_params,
       decode_did_change_text_document_params, free_did_change_text_document_params)
  \/ Exchange("did_save_text_document_params", did_save_text_document_params_t, encode_did_save_text_document_params,
       decode_did_save_text_document_params, free_did_save_text_document_params)
  \/ Exchange("did_close_text_document_params", did_close_text_document_params_t, encode_did_close_text_document_params,
       decode_did_close_text_document_params, free_did_close_text_document_params)
  \/ Exchange("did_change_watched_files_params", did_change_watched_files_params_t, encode_did_change_watched_files_params,
       decode_did_change_watched_files_params, free_did_change_watched_files_params)

ExchangeNext == Next \/ ExchangeAny

ExchangeSpec == Init /\ [][ExchangeNext]_vars

-----------------------------------------------------------------------------
Types == [
  compilation_database_params |-> compilation_database_params_t,
  initialization_options |-> initialization_options_t,
  workspace_client_capabilities |-> workspace_client_capabilities_t,
  text_document_client_capabilities |-> text_document_client_capabilities_t,
  client_capabilities |-> client_capabilities_t, completion_options |-> completion_options_t,
  signature_help_options |-> signature_help_options_t,
  code_lens_options |-> code_lens_options_t, save_options |-> save_options_t,
  text_document_sync_options |-> text_document_sync_options_t,
  server_capabilities |-> server_capabilities_t, markup_content |-> markup_content_t,
  marked_string |-> marked_string_t, message_action_item |-> message_action_item_t,
  position |-> position_t, range |-> range_t, text_edit |-> text_edit_t,
  location |-> location_t,
  diagnostic_related_information |-> diagnostic_related_information_t,
  diagnostic |-> diagnostic_t, text_document_item |-> text_document_item_t,
  text_document_content_change_event |-> text_document_content_change_event_t,
  text_document_identifier |-> text_document_identifier_t,
  versioned_text_document_identifier |-> versioned_text_document_identifier_t,
  file_event |-> file_event_t,
  text_document_position_params |-> text_document_position_params_t, command |-> command_t,
  completion_item |-> completion_item_t, parameter_information |-> parameter_information_t,
  signature_information |-> signature_information_t,
  reference_context |-> reference_context_t, completion_list |-> completion_list_t,
  code_action_context |-> code_action_context_t, initialize_params |-> initialize_params_t,
  reference_params |-> reference_params_t,
  document_symbol_params |-> document_symbol_params_t,
  workspace_symbol_params |-> workspace_symbol_params_t,
  document_link_params |-> document_link_params_t,
  code_action_params |-> code_action_params_t,
  show_message_request_params |-> show_message_request_params_t,
  signature_help |-> signature_help_t, initialize_result |-> initialize_result_t,
  symbol_information |-> symbol_information_t, document_link |-> document_link_t,
  hover |-> hover_t, show_message_params |-> show_message_params_t,
  log_message_params |-> log_message_params_t,
  publish_diagnostics_params |-> publish_diagnostics_params_t,
  did_open_text_document_params |-> did_open_text_document_params_t,
  did_change_text_document_params |-> did_change_text_document_params_t,
  did_save_text_document_params |-> did_save_text_document_params_t,
  did_close_text_document_params |-> did_close_text_document_params_t,
  did_change_watched_files_params |-> did_change_watched_files_params_t]

\* What of a value of a type the exchange keeps: everything but the
\* enumerations, which are written as integers and looked for in objects, and
\* the flags of the groups, which are written inside and looked for outside.
RECURSIVE Kept(_, _)
Kept(type, value) ==
  CASE type[1] = "struct" ->
         [m \in {m \in DOMAIN value : type[2][m][1] # "enum"} |-> Kept(type[2][m], value[m])]
    [] type[1] = "list" -> [i \in DOMAIN value |-> Kept(type[2], value[i])]
    [] type[1] = "group" -> [f \in DOMAIN value \ {"documentation_format"} |-> FALSE]
    [] OTHER -> value

\* Every structure that encoders.c writes is read back by decoders.c member by
\* member: no member is written under a name or in a form that its decoder does
\* not look for, at any depth, but those that Kept names.
Lossless ==
  last.method = "exchange" => last.read = Kept(Types[last.structure], last.written)
===============================================================================
