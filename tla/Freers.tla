-------------------------------- MODULE Freers --------------------------------
(***************************************************************************)
(* The freers of the protocol: the number of blocks each releases of a     *)
(* structure.  A member whose bit is clear is all zero, and to release it  *)
(* releases nothing.                                                       *)
(***************************************************************************)
EXTENDS Json, Naturals, FiniteSets

\* A member that is a structure; all zero when it was not decoded.
Member(value, member) == IF member \in DOMAIN value THEN value[member] ELSE <<>>

\* The members that are strings, URIs or references.
Held(value, members) == Cardinality(members \cap DOMAIN value)

\* An array of strings: its block, and the strings that are not NULL.
Strings(value, member) ==
  IF member \in DOMAIN value
    THEN 1 + Cardinality({i \in DOMAIN value[member] : value[member][i] # NULL})
    ELSE 0

\* An array of structures: its block, and what each item holds.
Items(value, member, free(_)) ==
  IF member \in DOMAIN value
    THEN 1 + SumFunction([i \in DOMAIN value[member] |-> free(value[member][i])])
    ELSE 0

free_compilation_database_params(value) ==
  Held(value, {"path"}) + Strings(value, "additional_arguments")
free_initialization_options(value) ==
  Strings(value, "flags")
  + Items(value, "compilation_database", free_compilation_database_params)
free_workspace_client_capabilities(value) == 0
free_text_document_client_capabilities(value) ==
  Strings(Member(value, "signature_help"), "documentation_format")
free_client_capabilities(value) ==
  Held(value, {"experimental"})
  + free_workspace_client_capabilities(Member(value, "workspace"))
  + free_text_document_client_capabilities(Member(value, "text_document"))
free_completion_options(value) == Strings(value, "trigger_characters")
free_signature_help_options(value) == Strings(value, "trigger_characters")
free_code_lens_options(value) == 0
free_save_options(value) == 0
free_text_document_sync_options(value) == free_save_options(Member(value, "save"))
free_server_capabilities(value) ==
  free_text_document_sync_options(Member(value, "text_document_sync"))
  + free_completion_options(Member(value, "completion_provider"))
  + free_signature_help_options(Member(value, "signature_help_provider"))
  + free_code_lens_options(Member(value, "code_lens_provider"))
free_markup_content(value) == Held(value, {"kind", "value"})
free_marked_string(value) == Held(value, {"language", "value"})
free_message_action_item(value) == Held(value, {"title"})
free_position(value) == 0
free_range(value) ==
  free_position(Member(value, "start")) + free_position(Member(value, "end"))
free_text_edit(value) == Held(value, {"new_text"}) + free_range(Member(value, "range"))
free_location(value) == Held(value, {"uri"}) + free_range(Member(value, "range"))
free_diagnostic_related_information(value) ==
  Held(value, {"message"}) + free_location(Member(value, "location"))
\* A freer that forgets the items of an array.
SlipDiagnostic(value) ==
  Held(value, {"source", "message"}) + free_range(Member(value, "range"))
  + (IF "related_information" \in DOMAIN value THEN 1 ELSE 0)
free_diagnostic(value) ==
  Held(value, {"source", "message"}) + free_range(Member(value, "range"))
  + Items(value, "related_information", free_diagnostic_related_information)
free_text_document_item(value) == Held(value, {"uri", "language_id", "text"})
free_text_document_content_change_event(value) ==
  Held(value, {"text"}) + free_range(Member(value, "range"))
free_text_document_identifier(value) == Held(value, {"uri"})
free_versioned_text_document_identifier(value) == Held(value, {"uri"})
free_file_event(value) == Held(value, {"uri"})
free_text_document_position_params(value) ==
  free_text_document_identifier(Member(value, "text_document"))
  + free_position(Member(value, "position"))
free_command(value) == Held(value, {"title", "command", "arguments"})
free_completion_item(value) ==
  Held(value, {"label", "detail", "sort_text", "filter_text", "insert_text", "data"})
  + free_markup_content(Member(value, "documentation"))
  + free_text_edit(Member(value, "text_edit"))
  + Items(value, "additional_text_edits", free_text_edit)
  + Strings(value, "commit_characters") + free_command(Member(value, "command"))
free_parameter_information(value) ==
  Held(value, {"label"}) + free_markup_content(Member(value, "documentation"))
free_signature_information(value) ==
  Held(value, {"label"}) + free_markup_content(Member(value, "documentation"))
  + Items(value, "parameters", free_parameter_information)
free_reference_context(value) == 0
free_completion_list(value) == Items(value, "items", free_completion_item)
free_code_action_context(value) == Items(value, "diagnostics", free_diagnostic)
free_initialize_params(value) ==
  Held(value, {"root_path", "root_uri", "trace"})
  + free_client_capabilities(Member(value, "capabilities"))
  + free_initialization_options(Member(value, "initialization_options"))
free_reference_params(value) ==
  free_reference_context(Member(value, "context"))
  + free_text_document_identifier(Member(value, "text_document"))
  + free_position(Member(value, "position"))
free_document_symbol_params(value) ==
  free_text_document_identifier(Member(value, "text_document"))
free_workspace_symbol_params(value) == Held(value, {"query"})
free_document_link_params(value) ==
  free_text_document_identifier(Member(value, "text_document"))
free_code_action_params(value) ==
  free_text_document_identifier(Member(value, "text_document"))
  + free_range(Member(value, "range"))
  + free_code_action_context(Member(value, "context"))
free_show_message_request_params(value) ==
  Held(value, {"message"}) + Items(value, "actions", free_message_action_item)
free_signature_help(value) == Items(value, "signatures", free_signature_information)
free_initialize_result(value) == free_server_capabilities(Member(value, "capabilities"))
free_symbol_information(value) ==
  Held(value, {"name", "container_name"}) + free_location(Member(value, "location"))
free_document_link(value) == Held(value, {"target"}) + free_range(Member(value, "range"))
free_hover(value) ==
  free_markup_content(Member(value, "contents")) + free_range(Member(value, "range"))
free_show_message_params(value) == Held(value, {"message"})
free_log_message_params(value) == Held(value, {"message"})
free_publish_diagnostics_params(value) ==
  Held(value, {"uri"}) + Items(value, "diagnostics", free_diagnostic)
free_did_open_text_document_params(value) ==
  free_text_document_item(Member(value, "text_document"))
free_did_change_text_document_params(value) ==
  free_versioned_text_document_identifier(Member(value, "text_document"))
  + Items(value, "content_changes", free_text_document_content_change_event)
free_did_save_text_document_params(value) ==
  Held(value, {"text"}) + free_text_document_identifier(Member(value, "text_document"))
free_did_close_text_document_params(value) ==
  free_text_document_identifier(Member(value, "text_document"))
free_did_change_watched_files_params(value) == Items(value, "changes", free_file_event)
===============================================================================
