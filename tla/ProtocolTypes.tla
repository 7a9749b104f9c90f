---------------------------- MODULE ProtocolTypes -----------------------------
(***************************************************************************)
(* The structures of the protocol and the types of their members.  A type  *)
(* is a pair of a tag and what the tag needs: the members of a structure   *)
(* with their types, the type of the items of an array, the numbers of an  *)
(* enumeration, the flags of a group of capabilities.                      *)
(***************************************************************************)
EXTENDS Naturals

Text == <<"text", 0>>
Address == <<"address", 0>>
Number == <<"number", 0>>
Truth == <<"truth", 0>>
Anything == <<"anything", 0>>
Enum(numbers) == <<"enum", numbers>>
List(type) == <<"list", type>>
Group(flags) == <<"group", flags>>
Struct(members) == <<"struct", members>>

Registration == Group({"dynamic_registration"})

message_type_t == 1..4
file_change_type_t == 1..3
text_document_sync_kind_t == 0..2
diagnostic_severity_t == 1..4
completion_item_kind_t == 1..18
insert_text_format_t == 1..2
symbol_kind_t == 0..26

compilation_database_params_t ==
  Struct([path |-> Text, additional_arguments |-> List(Text)])
initialization_options_t ==
  Struct([flags |-> List(Text), compilation_database |-> List(compilation_database_params_t)])
workspace_client_capabilities_t ==
  Struct([apply_edit |-> Truth, workspace_edit |-> Registration,
          did_change_configuration |-> Registration,
          did_change_watched_files |-> Registration, symbol |-> Registration,
          execute_command |-> Registration])
text_document_client_capabilities_t ==
  Struct([synchronization |-> Group({"dynamic_registration", "will_save", "will_save_wait_until", "did_save"}),
          completion |-> Group({"snippet_support", "commit_characters_support"}),
          hover |-> Registration,
          signature_help |-> Group({"dynamic_registration", "documentation_format"}),
          references |-> Registration, document_highlight |-> Registration,
          document_symbol |-> Registration, formatting |-> Registration,
          on_type_formatting |-> Registration, definition |-> Registration,
          code_action |-> Registration, code_lens |-> Registration,
          document_link |-> Registration, rename |-> Registration])
client_capabilities_t ==
  Struct([workspace |-> workspace_client_capabilities_t,
          text_document |-> text_document_client_capabilities_t, experimental |-> Anything])
completion_options_t ==
  Struct([resolve_provider |-> Truth, trigger_characters |-> List(Text)])
signature_help_options_t == Struct([trigger_characters |-> List(Text)])
code_lens_options_t == Struct([resolve_provider |-> Truth])
save_options_t == Struct([include_text |-> Truth])
text_document_sync_options_t ==
  Struct([open_close |-> Truth, change |-> Enum(text_document_sync_kind_t),
          will_save |-> Truth, will_save_wait_until |-> Truth, save |-> save_options_t])
server_capabilities_t ==
  Struct([text_document_sync |-> text_document_sync_options_t, hover_provider |-> Truth,
          completion_provider |-> completion_options_t,
          signature_help_provider |-> signature_help_options_t, definition_provider |-> Truth,
          references_provider |-> Truth, document_highlight_provider |-> Truth,
          document_symbol_provider |-> Truth, workspace_symbol_provider |-> Truth,
          code_action_provider |-> Truth, code_lens_provider |-> code_lens_options_t,
          document_formatting_provider |-> Truth])
markup_content_t == Struct([kind |-> Text, value |-> Text])
marked_string_t == Struct([language |-> Text, value |-> Text])
message_action_item_t == Struct([title |-> Text])
position_t == Struct([line |-> Number, character |-> Number])
range_t == Struct([start |-> position_t, end |-> position_t])
text_edit_t == Struct([range |-> range_t, new_text |-> Text])
location_t == Struct([uri |-> Address, range |-> range_t])
diagnostic_related_information_t == Struct([location |-> location_t, message |-> Text])
diagnostic_t ==
  Struct([range |-> range_t, severity |-> Enum(diagnostic_severity_t), code |-> Number,
          source |-> Text, message |-> Text,
          related_information |-> List(diagnostic_related_information_t)])
text_document_item_t ==
  Struct([uri |-> Address, language_id |-> Text, version |-> Number, text |-> Text])
text_document_content_change_event_t ==
  Struct([range |-> range_t, range_length |-> Number, text |-> Text])
text_document_identifier_t == Struct([uri |-> Address])
versioned_text_document_identifier_t == Struct([uri |-> Address, version |-> Number])
file_event_t == Struct([uri |-> Address, type |-> Enum(file_change_type_t)])
text_document_position_params_t ==
  Struct([text_document |-> text_document_identifier_t, position |-> position_t])
command_t == Struct([title |-> Text, command |-> Text, arguments |-> Anything])
completion_item_t ==
  Struct([label |-> Text, kind |-> Enum(completion_item_kind_t), detail |-> Text,
          documentation |-> markup_content_t, sort_text |-> Text, filter_text |-> Text,
          insert_text |-> Text, insert_text_format |-> Enum(insert_text_format_t),
          text_edit |-> text_edit_t, additional_text_edits |-> List(text_edit_t),
          commit_characters |-> List(Text), command |-> command_t, data |-> Anything])
parameter_information_t == Struct([label |-> Text, documentation |-> markup_content_t])
signature_information_t ==
  Struct([label |-> Text, documentation |-> markup_content_t,
          parameters |-> List(parameter_information_t)])
reference_context_t == Struct([include_declaration |-> Truth])
completion_list_t ==
  Struct([is_incomplete |-> Truth, items |-> List(completion_item_t)])
code_action_context_t == Struct([diagnostics |-> List(diagnostic_t)])
initialize_params_t ==
  Struct([process_id |-> Number, root_path |-> Text, root_uri |-> Address,
          capabilities |-> client_capabilities_t,
          initialization_options |-> initialization_options_t, trace |-> Text])
reference_params_t ==
  Struct([context |-> reference_context_t, text_document |-> text_document_identifier_t,
          position |-> position_t])
document_symbol_params_t == Struct([text_document |-> text_document_identifier_t])
workspace_symbol_params_t == Struct([query |-> Text])
document_link_params_t == Struct([text_document |-> text_document_identifier_t])
code_action_params_t ==
  Struct([text_document |-> text_document_identifier_t, range |-> range_t,
          context |-> code_action_context_t])
show_message_request_params_t ==
  Struct([type |-> Enum(message_type_t), message |-> Text,
          actions |-> List(message_action_item_t)])
signature_help_t ==
  Struct([signatures |-> List(signature_information_t), active_signature |-> Number,
          active_parameter |-> Number])
initialize_result_t == Struct([capabilities |-> server_capabilities_t])
symbol_information_t ==
  Struct([name |-> Text, kind |-> Enum(symbol_kind_t), location |-> location_t,
          container_name |-> Text])
document_link_t == Struct([range |-> range_t, target |-> Address])
hover_t == Struct([contents |-> markup_content_t, range |-> range_t])
show_message_params_t == Struct([type |-> Enum(message_type_t), message |-> Text])
log_message_params_t == Struct([type |-> Enum(message_type_t), message |-> Text])
publish_diagnostics_params_t ==
  Struct([uri |-> Address, diagnostics |-> List(diagnostic_t)])
did_open_text_document_params_t == Struct([text_document |-> text_document_item_t])
did_change_text_document_params_t ==
  Struct([text_document |-> versioned_text_document_identifier_t,
          content_changes |-> List(text_document_content_change_event_t)])
did_save_text_document_params_t ==
  Struct([text_document |-> text_document_identifier_t, text |-> Text])
did_close_text_document_params_t ==
  Struct([text_document |-> text_document_identifier_t])
did_change_watched_files_params_t == Struct([changes |-> List(file_event_t)])
===============================================================================
