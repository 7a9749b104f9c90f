------------------------------- MODULE Decoders -------------------------------
(***************************************************************************)
(* The decoders of the protocol: each copies the members of a JSON object  *)
(* into a C structure.  A member is taken only when it has the expected    *)
(* kind, otherwise its bit in valid_fields stays clear; a structure that   *)
(* lacks a required member raises m_error and is returned all the same.    *)
(*                                                                         *)
(* A decoded structure is a record: value is a function on the members     *)
(* whose bits are set, error tells whether m_error was raised by it or by  *)
(* a structure within, heap counts the blocks allocated for it (a string,  *)
(* the parts of a URI, a reference to a copied JSON value and the block of *)
(* an array are one each).  A decoder is also called with what is no       *)
(* object: the items of an array are not looked at before.                 *)
(***************************************************************************)
EXTENDS Json, Naturals, FiniteSets, ProtocolFields

\* A member that was decoded, and one whose bit stays clear.
Field(value, error, heap) == [set |-> TRUE, value |-> value, error |-> error, heap |-> heap]
Unset == [set |-> FALSE, value |-> <<>>, error |-> FALSE, heap |-> 0]

\* The parts uri_decode splits a text into, as one value; encode_uri joins them.
Uri(text) == <<"uri", text>>

StringField(json, name) ==
  LET member == json_object_get(json, name)
  IN  IF Kind(member) = "string" THEN Field(Payload(member), FALSE, 1) ELSE Unset

UriField(json, name) ==
  LET member == json_object_get(json, name)
  IN  IF Kind(member) = "string" THEN Field(Uri(Payload(member)), FALSE, 1) ELSE Unset

NumberField(json, name) ==
  LET member == json_object_get(json, name)
  IN  IF Kind(member) = "integer" THEN Field(Payload(member), FALSE, 0) ELSE Unset

BooleanField(json, name) ==
  LET member == json_object_get(json, name)
  IN  IF Kind(member) = "boolean" THEN Field(Payload(member), FALSE, 0) ELSE Unset

\* An enumeration is looked for in an object, whose integer value is 0.
EnumField(json, name) ==
  IF Kind(json_object_get(json, name)) = "object" THEN Field(0, FALSE, 0) ELSE Unset

AnyField(json, name) ==
  LET member == json_object_get(json, name)
  IN  IF member # Absent THEN Field(member, FALSE, 1) ELSE Unset

ObjectField(json, name, decode(_)) ==
  LET member == json_object_get(json, name)
      struct == decode(member)
  IN  IF Kind(member) = "object"
        THEN Field(struct.value, struct.error, struct.heap)
        ELSE Unset

\* The items of an array of strings are copied whatever they are.
StringsField(json, name) ==
  LET member == json_object_get(json, name)
      texts == {i \in DOMAIN Payload(member) : Kind(Payload(member)[i]) = "string"}
  IN  IF Kind(member) = "array"
        THEN Field([i \in DOMAIN Payload(member) |->
                      IF i \in texts THEN Payload(Payload(member)[i]) ELSE NULL],
                   FALSE, 1 + Cardinality(texts))
        ELSE Unset

ArrayField(json, name, decode(_)) ==
  LET member == json_object_get(json, name)
      structs == [i \in DOMAIN Payload(member) |-> decode(Payload(member)[i])]
  IN  IF Kind(member) = "array"
        THEN Field([i \in DOMAIN structs |-> structs[i].value],
                   \E i \in DOMAIN structs : structs[i].error,
                   1 + SumFunction([i \in DOMAIN structs |-> structs[i].heap]))
        ELSE Unset

\* A flag of a group of capabilities, read from the object that holds the
\* group and not from the group.
Flag(json, name) ==
  LET member == json_object_get(json, name)
  IN  Kind(member) = "boolean" /\ Payload(member)

\* A group of flags, given the wire name of each; a flag not found is false.
GroupField(json, name, flags) ==
  IF Kind(json_object_get(json, name)) = "object"
    THEN Field([f \in DOMAIN flags |-> Flag(json, flags[f])], FALSE, 0)
    ELSE Unset

RegistrationFlags == [dynamic_registration |-> "dynamicRegistration"]
SynchronizationFlags ==
  [dynamic_registration |-> "dynamicRegistration", will_save |-> "willSave",
   will_save_wait_until |-> "willSaveWaitUntil", did_save |-> "didSave"]
CompletionFlags ==
  [snippet_support |-> "snippetSupport",
   commit_characters_support |-> "commitCharactersSupport"]

\* The capabilities for signatures hold a group within the group, and that
\* holds a list of strings; both are looked for in the outermost object.
SignatureField(json) ==
  LET inner == Kind(json_object_get(json, "signatureInformation")) = "object"
      formats == StringsField(json, "documentationFormat")
      flags == [f \in {"dynamic_registration"} |-> Flag(json, "dynamicRegistration")]
      group == IF inner /\ formats.set
                 THEN [f \in {"dynamic_registration", "documentation_format"} |->
                         IF f = "documentation_format" THEN formats.value ELSE flags[f]]
                 ELSE flags
  IN  IF Kind(json_object_get(json, "signatureHelp")) = "object"
        THEN Field(group, FALSE, IF inner THEN formats.heap ELSE 0)
        ELSE Unset

\* The structure of those fields that were set.
Structure(required, fields) ==
  LET valid == {m \in DOMAIN fields : fields[m].set}
  IN  [value |-> [m \in valid |-> fields[m].value],
       error |-> ~(required \subseteq valid) \/ \E m \in valid : fields[m].error,
       heap |-> SumFunction([m \in valid |-> fields[m].heap])]

decode_compilation_database_params(json) == Structure(COMPILATION_DATABASE_PARAMS_FIELD_REQUIRED,
  [path |-> StringField(json, "path"),
   additional_arguments |-> StringsField(json, "additionalArguments")])
decode_initialization_options(json) == Structure(INITIALIZATION_OPTIONS_FIELD_REQUIRED,
  [flags |-> StringsField(json, "flags"),
   compilation_database |-> ArrayField(json, "compilationDatabase", decode_compilation_database_params)])
decode_workspace_client_capabilities(json) == Structure(WORKSPACE_CLIENT_CAPABILITIES_FIELD_REQUIRED,
  [apply_edit |-> BooleanField(json, "applyEdit"),
   workspace_edit |-> GroupField(json, "workspaceEdit", RegistrationFlags),
   did_change_configuration |-> GroupField(json, "didChangeConfiguration", RegistrationFlags),
   did_change_watched_files |-> GroupField(json, "didChangeWatchedFiles", RegistrationFlags),
   symbol |-> GroupField(json, "symbol", RegistrationFlags),
   execute_command |-> GroupField(json, "executeCommand", RegistrationFlags)])
decode_text_document_client_capabilities(json) == Structure(TEXT_DOCUMENT_CLIENT_CAPABILITIES_FIELD_REQUIRED,
  [synchronization |-> GroupField(json, "synchronization", SynchronizationFlags),
   completion |-> GroupField(json, "completion", CompletionFlags),
   hover |-> GroupField(json, "hover", RegistrationFlags),
   signature_help |-> SignatureField(json),
   references |-> GroupField(json, "references", RegistrationFlags),
   document_highlight |-> GroupField(json, "documentHighlight", RegistrationFlags),
   document_symbol |-> GroupField(json, "documentSymbol", RegistrationFlags),
   formatting |-> GroupField(json, "formatting", RegistrationFlags),
   on_type_formatting |-> GroupField(json, "onTypeFormatting", RegistrationFlags),
   definition |-> GroupField(json, "definition", RegistrationFlags),
   code_action |-> GroupField(json, "codeAction", RegistrationFlags),
   code_lens |-> GroupField(json, "codeLens", RegistrationFlags),
   document_link |-> GroupField(json, "documentLink", RegistrationFlags),
   rename |-> GroupField(json, "rename", RegistrationFlags)])
decode_client_capabilities(json) == Structure(CLIENT_CAPABILITIES_FIELD_REQUIRED,
  [workspace |-> ObjectField(json, "workspace", decode_workspace_client_capabilities),
   text_document |-> ObjectField(json, "textDocument", decode_text_document_client_capabilities),
   experimental |-> AnyField(json, "experimental")])
decode_completion_options(json) == Structure(COMPLETION_OPTIONS_FIELD_REQUIRED,
  [resolve_provider |-> BooleanField(json, "resolveProvider"),
   trigger_characters |-> StringsField(json, "triggerCharacters")])
decode_signature_help_options(json) == Structure(SIGNATURE_HELP_OPTIONS_FIELD_REQUIRED,
  [trigger_characters |-> StringsField(json, "triggerCharacters")])
decode_code_lens_options(json) == Structure(CODE_LENS_OPTIONS_FIELD_REQUIRED,
  [resolve_provider |-> BooleanField(json, "resolveProvider")])
decode_save_options(json) == Structure(SAVE_OPTIONS_FIELD_REQUIRED,
  [include_text |-> BooleanField(json, "includeText")])
decode_text_document_sync_options(json) == Structure(TEXT_DOCUMENT_SYNC_OPTIONS_FIELD_REQUIRED,
  [open_close |-> BooleanField(json, "openClose"), change |-> EnumField(json, "change"),
   will_save |-> BooleanField(json, "willSave"),
   will_save_wait_until |-> BooleanField(json, "willSaveWaitUntil"),
   save |-> ObjectField(json, "save", decode_save_options)])
decode_server_capabilities(json) == Structure(SERVER_CAPABILITIES_FIELD_REQUIRED,
  [text_document_sync |-> ObjectField(json, "textDocumentSync", decode_text_document_sync_options),
   hover_provider |-> BooleanField(json, "hoverProvider"),
   completion_provider |-> ObjectField(json, "completionProvider", decode_completion_options),
   signature_help_provider |-> ObjectField(json, "signatureHelpProvider", decode_signature_help_options),
   definition_provider |-> BooleanField(json, "definitionProvider"),
   references_provider |-> BooleanField(json, "referencesProvider"),
   document_highlight_provider |-> BooleanField(json, "documentHighlightProvider"),
   document_symbol_provider |-> BooleanField(json, "documentSymbolProvider"),
   workspace_symbol_provider |-> BooleanField(json, "workspaceSymbolProvider"),
   code_action_provider |-> BooleanField(json, "codeActionProvider"),
   code_lens_provider |-> ObjectField(json, "codeLensProvider", decode_code_lens_options),
   document_formatting_provider |-> BooleanField(json, "documentFormattingProvider")])
decode_markup_content(json) == Structure(MARKUP_CONTENT_FIELD_REQUIRED,
  [kind |-> StringField(json, "kind"), value |-> StringField(json, "value")])
decode_marked_string(json) == Structure(MARKED_STRING_FIELD_REQUIRED,
  [language |-> StringField(json, "language"), value |-> StringField(json, "value")])
decode_message_action_item(json) == Structure(MESSAGE_ACTION_ITEM_FIELD_REQUIRED,
  [title |-> StringField(json, "title")])
decode_position(json) == Structure(POSITION_FIELD_REQUIRED,
  [line |-> NumberField(json, "line"), character |-> NumberField(json, "character")])
decode_range(json) == Structure(RANGE_FIELD_REQUIRED,
  [start |-> ObjectField(json, "start", decode_position),
   end |-> ObjectField(json, "end", decode_position)])
\* A decoder that looks for a member under the name of another structure.
SlipTextEdit(json) == Structure(TEXT_EDIT_FIELD_REQUIRED,
  [range |-> ObjectField(json, "range", decode_range),
   new_text |-> StringField(json, "text")])
decode_text_edit(json) == Structure(TEXT_EDIT_FIELD_REQUIRED,
  [range |-> ObjectField(json, "range", decode_range),
   new_text |-> StringField(json, "newText")])
decode_location(json) == Structure(LOCATION_FIELD_REQUIRED,
  [uri |-> UriField(json, "uri"), range |-> ObjectField(json, "range", decode_range)])
decode_diagnostic_related_information(json) == Structure(DIAGNOSTIC_RELATED_INFORMATION_FIELD_REQUIRED,
  [location |-> ObjectField(json, "location", decode_location),
   message |-> StringField(json, "message")])
decode_diagnostic(json) == Structure(DIAGNOSTIC_FIELD_REQUIRED,
  [range |-> ObjectField(json, "range", decode_range),
   severity |-> EnumField(json, "severity"), code |-> NumberField(json, "code"),
   source |-> StringField(json, "source"), message |-> StringField(json, "message"),
   related_information |-> ArrayField(json, "relatedInformation", decode_diagnostic_related_information)])
decode_text_document_item(json) == Structure(TEXT_DOCUMENT_ITEM_FIELD_REQUIRED,
  [uri |-> UriField(json, "uri"), language_id |-> StringField(json, "languageId"),
   version |-> NumberField(json, "version"), text |-> StringField(json, "text")])
decode_text_document_content_change_event(json) == Structure(TEXT_DOCUMENT_CONTENT_CHANGE_EVENT_FIELD_REQUIRED,
  [range |-> ObjectField(json, "range", decode_range),
   range_length |-> NumberField(json, "rangeLength"), text |-> StringField(json, "text")])
decode_text_document_identifier(json) == Structure(TEXT_DOCUMENT_IDENTIFIER_FIELD_REQUIRED,
  [uri |-> UriField(json, "uri")])
decode_versioned_text_document_identifier(json) == Structure(VERSIONED_TEXT_DOCUMENT_IDENTIFIER_FIELD_REQUIRED,
  [uri |-> UriField(json, "uri"), version |-> NumberField(json, "version")])
decode_file_event(json) == Structure(FILE_EVENT_FIELD_REQUIRED,
  [uri |-> UriField(json, "uri"), type |-> EnumField(json, "type")])
decode_text_document_position_params(json) == Structure(TEXT_DOCUMENT_POSITION_PARAMS_FIELD_REQUIRED,
  [text_document |-> ObjectField(json, "textDocument", decode_text_document_identifier),
   position |-> ObjectField(json, "position", decode_position)])
decode_command(json) == Structure(COMMAND_FIELD_REQUIRED,
  [title |-> StringField(json, "title"), command |-> StringField(json, "command"),
   arguments |-> AnyField(json, "arguments")])
decode_completion_item(json) == Structure(COMPLETION_ITEM_FIELD_REQUIRED,
  [label |-> StringField(json, "label"), kind |-> EnumField(json, "kind"),
   detail |-> StringField(json, "detail"),
   documentation |-> ObjectField(json, "documentation", decode_markup_content),
   sort_text |-> StringField(json, "sortText"),
   filter_text |-> StringField(json, "filterText"),
   insert_text |-> StringField(json, "insertText"),
   insert_text_format |-> EnumField(json, "insertTextFormat"),
   text_edit |-> ObjectField(json, "textEdit", decode_text_edit),
   additional_text_edits |-> ArrayField(json, "additionalTextEdits", decode_text_edit),
   commit_characters |-> StringsField(json, "commitCharacters"),
   command |-> ObjectField(json, "command", decode_command), data |-> AnyField(json, "data")])
decode_parameter_information(json) == Structure(PARAMETER_INFORMATION_FIELD_REQUIRED,
  [label |-> StringField(json, "label"),
   documentation |-> ObjectField(json, "documentation", decode_markup_content)])
decode_signature_information(json) == Structure(SIGNATURE_INFORMATION_FIELD_REQUIRED,
  [label |-> StringField(json, "label"),
   documentation |-> ObjectField(json, "documentation", decode_markup_content),
   parameters |-> ArrayField(json, "parameters", decode_parameter_information)])
decode_reference_context(json) == Structure(REFERENCE_CONTEXT_FIELD_REQUIRED,
  [include_declaration |-> BooleanField(json, "includeDeclaration")])
decode_completion_list(json) == Structure(COMPLETION_LIST_FIELD_REQUIRED,
  [is_incomplete |-> BooleanField(json, "isIncomplete"),
   items |-> ArrayField(json, "items", decode_completion_item)])
decode_code_action_context(json) == Structure(CODE_ACTION_CONTEXT_FIELD_REQUIRED,
  [diagnostics |-> ArrayField(json, "diagnostics", decode_diagnostic)])
decode_initialize_params(json) == Structure(INITIALIZE_PARAMS_FIELD_REQUIRED,
  [process_id |-> NumberField(json, "processId"), root_path |-> StringField(json, "rootPath"),
   root_uri |-> UriField(json, "rootUri"),
   capabilities |-> ObjectField(json, "capabilities", decode_client_capabilities),
   initialization_options |-> ObjectField(json, "initializationOptions", decode_initialization_options),
   trace |-> StringField(json, "trace")])
decode_reference_params(json) == Structure(REFERENCE_PARAMS_FIELD_REQUIRED,
  [context |-> ObjectField(json, "context", decode_reference_context),
   text_document |-> ObjectField(json, "textDocument", decode_text_document_identifier),
   position |-> ObjectField(json, "position", decode_position)])
decode_document_symbol_params(json) == Structure(DOCUMENT_SYMBOL_PARAMS_FIELD_REQUIRED,
  [text_document |-> ObjectField(json, "textDocument", decode_text_document_identifier)])
decode_workspace_symbol_params(json) == Structure(WORKSPACE_SYMBOL_PARAMS_FIELD_REQUIRED,
  [query |-> StringField(json, "query")])
decode_document_link_params(json) == Structure(DOCUMENT_LINK_PARAMS_FIELD_REQUIRED,
  [text_document |-> ObjectField(json, "textDocument", decode_text_document_identifier)])
decode_code_action_params(json) == Structure(CODE_ACTION_PARAMS_FIELD_REQUIRED,
  [text_document |-> ObjectField(json, "textDocument", decode_text_document_identifier),
   range |-> ObjectField(json, "range", decode_range),
   context |-> ObjectField(json, "context", decode_code_action_context)])
decode_show_message_request_params(json) == Structure(SHOW_MESSAGE_REQUEST_PARAMS_FIELD_REQUIRED,
  [type |-> EnumField(json, "type"), message |-> StringField(json, "message"),
   actions |-> ArrayField(json, "actions", decode_message_action_item)])
decode_signature_help(json) == Structure(SIGNATURE_HELP_FIELD_REQUIRED,
  [signatures |-> ArrayField(json, "signatures", decode_signature_information),
   active_signature |-> NumberField(json, "activeSignature"),
   active_parameter |-> NumberField(json, "activeParameter")])
decode_initialize_result(json) == Structure(INITIALIZE_RESULT_FIELD_REQUIRED,
  [capabilities |-> ObjectField(json, "capabilities", decode_server_capabilities)])
decode_symbol_information(json) == Structure(SYMBOL_INFORMATION_FIELD_REQUIRED,
  [name |-> StringField(json, "name"), kind |-> EnumField(json, "kind"),
   location |-> ObjectField(json, "location", decode_location),
   container_name |-> StringField(json, "containerName")])
decode_document_link(json) == Structure(DOCUMENT_LINK_FIELD_REQUIRED,
  [range |-> ObjectField(json, "range", decode_range), target |-> UriField(json, "target")])
decode_hover(json) == Structure(HOVER_FIELD_REQUIRED,
  [contents |-> ObjectField(json, "contents", decode_markup_content),
   range |-> ObjectField(json, "range", decode_range)])
decode_show_message_params(json) == Structure(SHOW_MESSAGE_PARAMS_FIELD_REQUIRED,
  [type |-> EnumField(json, "type"), message |-> StringField(json, "message")])
decode_log_message_params(json) == Structure(LOG_MESSAGE_PARAMS_FIELD_REQUIRED,
  [type |-> EnumField(json, "type"), message |-> StringField(json, "message")])
decode_publish_diagnostics_params(json) == Structure(PUBLISH_DIAGNOSTICS_PARAMS_FIELD_REQUIRED,
  [uri |-> UriField(json, "uri"),
   diagnostics |-> ArrayField(json, "diagnostics", decode_diagnostic)])
decode_did_open_text_document_params(json) == Structure(DID_OPEN_TEXT_DOCUMENT_PARAMS_FIELD_REQUIRED,
  [text_document |-> ObjectField(json, "textDocument", decode_text_document_item)])
decode_did_change_text_document_params(json) == Structure(DID_CHANGE_TEXT_DOCUMENT_PARAMS_FIELD_REQUIRED,
  [text_document |-> ObjectField(json, "textDocument", decode_versioned_text_document_identifier),
   content_changes |-> ArrayField(json, "contentChanges", decode_text_document_content_change_event)])
decode_did_save_text_document_params(json) == Structure(DID_SAVE_TEXT_DOCUMENT_PARAMS_FIELD_REQUIRED,
  [text_document |-> ObjectField(json, "textDocument", decode_text_document_identifier),
   text |-> StringField(json, "text")])
decode_did_close_text_document_params(json) == Structure(DID_CLOSE_TEXT_DOCUMENT_PARAMS_FIELD_REQUIRED,
  [text_document |-> ObjectField(json, "textDocument", decode_text_document_identifier)])
decode_did_change_watched_files_params(json) == Structure(DID_CHANGE_WATCHED_FILES_PARAMS_FIELD_REQUIRED,
  [changes |-> ArrayField(json, "changes", decode_file_event)])
===============================================================================
