------------------------------- MODULE Encoders -------------------------------
(***************************************************************************)
(* The encoders of the protocol: each makes a JSON object of the members   *)
(* of a C structure whose bits are set.  A structure is a function on      *)
(* those members, as the decoders make it.                                 *)
(***************************************************************************)
EXTENDS Decoders, SequencesExt

\* A member that is set, in the JSON form it has; nothing of one that is not.
Put(value, member, form(_)) ==
  IF member \in DOMAIN value THEN form(value[member]) ELSE Absent

PutString(value, member) == Put(value, member, String)
PutNumber(value, member) == Put(value, member, Integer)
PutBoolean(value, member) == Put(value, member, Boolean)
PutUri(value, member) == Put(value, member, LAMBDA uri : String(uri[2]))
PutAny(value, member) == Put(value, member, LAMBDA json : json)
PutObject(value, member, encode(_)) == Put(value, member, encode)

\* A NULL has no JSON form, and an array refuses what is none.
StringsForm(texts) ==
  LET held == SelectSeq(texts, LAMBDA text : text # NULL)
  IN  Array([i \in DOMAIN held |-> String(held[i])])
PutStrings(value, member) == Put(value, member, StringsForm)

PutArray(value, member, encode(_)) ==
  Put(value, member, LAMBDA items : Array([i \in DOMAIN items |-> encode(items[i])]))

\* A group is written with all its flags, as an object of its own.
GroupForm(group, flags) ==
  Object([w \in Range(flags) |->
            Boolean(group[CHOOSE f \in DOMAIN flags : flags[f] = w])])
PutGroup(value, member, flags) ==
  Put(value, member, LAMBDA group : GroupForm(group, flags))

DocumentationFormat(group) ==
  IF "documentation_format" \in DOMAIN group THEN group.documentation_format ELSE <<>>
SignatureForm(group) ==
  Object([dynamicRegistration |-> Boolean(group.dynamic_registration),
          signatureInformation |->
            Object([documentationFormat |-> StringsForm(DocumentationFormat(group))])])
PutSignature(value) == Put(value, "signature_help", SignatureForm)

encode_compilation_database_params(value) == JsonObject(
  [path |-> PutString(value, "path"),
   additionalArguments |-> PutStrings(value, "additional_arguments")])
encode_initialization_options(value) == JsonObject(
  [flags |-> PutStrings(value, "flags"),
   compilationDatabase |-> PutArray(value, "compilation_database", encode_compilation_database_params)])
encode_workspace_client_capabilities(value) == JsonObject(
  [applyEdit |-> PutBoolean(value, "apply_edit"),
   workspaceEdit |-> PutGroup(value, "workspace_edit", RegistrationFlags),
   didChangeConfiguration |-> PutGroup(value, "did_change_configuration", RegistrationFlags),
   didChangeWatchedFiles |-> PutGroup(value, "did_change_watched_files", RegistrationFlags),
   symbol |-> PutGroup(value, "symbol", RegistrationFlags),
   executeCommand |-> PutGroup(value, "execute_command", RegistrationFlags)])
encode_text_document_client_capabilities(value) == JsonObject(
  [synchronization |-> PutGroup(value, "synchronization", SynchronizationFlags),
   completion |-> PutGroup(value, "completion", CompletionFlags),
   hover |-> PutGroup(value, "hover", RegistrationFlags),
   signatureHelp |-> PutSignature(value),
   references |-> PutGroup(value, "references", RegistrationFlags),
   documentHighlight |-> PutGroup(value, "document_highlight", RegistrationFlags),
   documentSymbol |-> PutGroup(value, "document_symbol", RegistrationFlags),
   formatting |-> PutGroup(value, "formatting", RegistrationFlags),
   onTypeFormatting |-> PutGroup(value, "on_type_formatting", RegistrationFlags),
   definition |-> PutGroup(value, "definition", RegistrationFlags),
   codeAction |-> PutGroup(value, "code_action", RegistrationFlags),
   codeLens |-> PutGroup(value, "code_lens", RegistrationFlags),
   documentLink |-> PutGroup(value, "document_link", RegistrationFlags),
   rename |-> PutGroup(value, "rename", RegistrationFlags)])
encode_client_capabilities(value) == JsonObject(
  [workspace |-> PutObject(value, "workspace", encode_workspace_client_capabilities),
   textDocument |-> PutObject(value, "text_document", encode_text_document_client_capabilities),
   experimental |-> PutAny(value, "experimental")])
encode_completion_options(value) == JsonObject(
  [resolveProvider |-> PutBoolean(value, "resolve_provider"),
   triggerCharacters |-> PutStrings(value, "trigger_characters")])
encode_signature_help_options(value) == JsonObject(
  [triggerCharacters |-> PutStrings(value, "trigger_characters")])
encode_code_lens_options(value) == JsonObject(
  [resolveProvider |-> PutBoolean(value, "resolve_provider")])
encode_save_options(value) == JsonObject([includeText |-> PutBoolean(value, "include_text")])
encode_text_document_sync_options(value) == JsonObject(
  [openClose |-> PutBoolean(value, "open_close"), change |-> PutNumber(value, "change"),
   willSave |-> PutBoolean(value, "will_save"),
   willSaveWaitUntil |-> PutBoolean(value, "will_save_wait_until"),
   save |-> PutObject(value, "save", encode_save_options)])
encode_server_capabilities(value) == JsonObject(
  [textDocumentSync |-> PutObject(value, "text_document_sync", encode_text_document_sync_options),
   hoverProvider |-> PutBoolean(value, "hover_provider"),
   completionProvider |-> PutObject(value, "completion_provider", encode_completion_options),
   signatureHelpProvider |-> PutObject(value, "signature_help_provider", encode_signature_help_options),
   definitionProvider |-> PutBoolean(value, "definition_provider"),
   referencesProvider |-> PutBoolean(value, "references_provider"),
   documentHighlightProvider |-> PutBoolean(value, "document_highlight_provider"),
   documentSymbolProvider |-> PutBoolean(value, "document_symbol_provider"),
   workspaceSymbolProvider |-> PutBoolean(value, "workspace_symbol_provider"),
   codeActionProvider |-> PutBoolean(value, "code_action_provider"),
   codeLensProvider |-> PutObject(value, "code_lens_provider", encode_code_lens_options),
   documentFormattingProvider |-> PutBoolean(value, "document_formatting_provider")])
encode_markup_content(value) == JsonObject(
  [kind |-> PutString(value, "kind"), value |-> PutString(value, "value")])
encode_marked_string(value) == JsonObject(
  [language |-> PutString(value, "language"), value |-> PutString(value, "value")])
encode_message_action_item(value) == JsonObject([title |-> PutString(value, "title")])
encode_position(value) == JsonObject(
  [line |-> PutNumber(value, "line"), character |-> PutNumber(value, "character")])
encode_range(value) == JsonObject(
  [start |-> PutObject(value, "start", encode_position),
   end |-> PutObject(value, "end", encode_position)])
encode_text_edit(value) == JsonObject(
  [range |-> PutObject(value, "range", encode_range), newText |-> PutString(value, "new_text")])
encode_location(value) == JsonObject(
  [uri |-> PutUri(value, "uri"), range |-> PutObject(value, "range", encode_range)])
encode_diagnostic_related_information(value) == JsonObject(
  [location |-> PutObject(value, "location", encode_location),
   message |-> PutString(value, "message")])
encode_diagnostic(value) == JsonObject(
  [range |-> PutObject(value, "range", encode_range),
   severity |-> PutNumber(value, "severity"), code |-> PutNumber(value, "code"),
   source |-> PutString(value, "source"), message |-> PutString(value, "message"),
   relatedInformation |-> PutArray(value, "related_information", encode_diagnostic_related_information)])
encode_text_document_item(value) == JsonObject(
  [uri |-> PutUri(value, "uri"), languageId |-> PutString(value, "language_id"),
   version |-> PutNumber(value, "version"), text |-> PutString(value, "text")])
encode_text_document_content_change_event(value) == JsonObject(
  [range |-> PutObject(value, "range", encode_range),
   rangeLength |-> PutNumber(value, "range_length"), text |-> PutString(value, "text")])
encode_text_document_identifier(value) == JsonObject([uri |-> PutUri(value, "uri")])
encode_versioned_text_document_identifier(value) == JsonObject(
  [uri |-> PutUri(value, "uri"), version |-> PutNumber(value, "version")])
encode_file_event(value) == JsonObject(
  [uri |-> PutUri(value, "uri"), type |-> PutNumber(value, "type")])
encode_text_document_position_params(value) == JsonObject(
  [textDocument |-> PutObject(value, "text_document", encode_text_document_identifier),
   position |-> PutObject(value, "position", encode_position)])
encode_command(value) == JsonObject(
  [title |-> PutString(value, "title"), command |-> PutString(value, "command"),
   arguments |-> PutAny(value, "arguments")])
encode_completion_item(value) == JsonObject(
  [label |-> PutString(value, "label"), kind |-> PutNumber(value, "kind"),
   detail |-> PutString(value, "detail"),
   documentation |-> PutObject(value, "documentation", encode_markup_content),
   sortText |-> PutString(value, "sort_text"), filterText |-> PutString(value, "filter_text"),
   insertText |-> PutString(value, "insert_text"),
   insertTextFormat |-> PutNumber(value, "insert_text_format"),
   textEdit |-> PutObject(value, "text_edit", encode_text_edit),
   additionalTextEdits |-> PutArray(value, "additional_text_edits", encode_text_edit),
   commitCharacters |-> PutStrings(value, "commit_characters"),
   command |-> PutObject(value, "command", encode_command), data |-> PutAny(value, "data")])
encode_parameter_information(value) == JsonObject(
  [label |-> PutString(value, "label"),
   documentation |-> PutObject(value, "documentation", encode_markup_content)])
encode_signature_information(value) == JsonObject(
  [label |-> PutString(value, "label"),
   documentation |-> PutObject(value, "documentation", encode_markup_content),
   parameters |-> PutArray(value, "parameters", encode_parameter_information)])
encode_reference_context(value) == JsonObject(
  [includeDeclaration |-> PutBoolean(value, "include_declaration")])
encode_completion_list(value) == JsonObject(
  [isIncomplete |-> PutBoolean(value, "is_incomplete"),
   items |-> PutArray(value, "items", encode_completion_item)])
encode_code_action_context(value) == JsonObject(
  [diagnostics |-> PutArray(value, "diagnostics", encode_diagnostic)])
encode_initialize_params(value) == JsonObject(
  [processId |-> PutNumber(value, "process_id"), rootPath |-> PutString(value, "root_path"),
   rootUri |-> PutUri(value, "root_uri"),
   capabilities |-> PutObject(value, "capabilities", encode_client_capabilities),
   initializationOptions |-> PutObject(value, "initialization_options", encode_initialization_options),
   trace |-> PutString(value, "trace")])
encode_reference_params(value) == JsonObject(
  [context |-> PutObject(value, "context", encode_reference_context),
   textDocument |-> PutObject(value, "text_document", encode_text_document_identifier),
   position |-> PutObject(value, "position", encode_position)])
encode_document_symbol_params(value) == JsonObject(
  [textDocument |-> PutObject(value, "text_document", encode_text_document_identifier)])
encode_workspace_symbol_params(value) == JsonObject([query |-> PutString(value, "query")])
encode_document_link_params(value) == JsonObject(
  [textDocument |-> PutObject(value, "text_document", encode_text_document_identifier)])
encode_code_action_params(value) == JsonObject(
  [textDocument |-> PutObject(value, "text_document", encode_text_document_identifier),
   range |-> PutObject(value, "range", encode_range),
   context |-> PutObject(value, "context", encode_code_action_context)])
encode_show_message_request_params(value) == JsonObject(
  [type |-> PutNumber(value, "type"), message |-> PutString(value, "message"),
   actions |-> PutArray(value, "actions", encode_message_action_item)])
encode_signature_help(value) == JsonObject(
  [signatures |-> PutArray(value, "signatures", encode_signature_information),
   activeSignature |-> PutNumber(value, "active_signature"),
   activeParameter |-> PutNumber(value, "active_parameter")])
encode_initialize_result(value) == JsonObject(
  [capabilities |-> PutObject(value, "capabilities", encode_server_capabilities)])
encode_symbol_information(value) == JsonObject(
  [name |-> PutString(value, "name"), kind |-> PutNumber(value, "kind"),
   location |-> PutObject(value, "location", encode_location),
   containerName |-> PutString(value, "container_name")])
encode_document_link(value) == JsonObject(
  [range |-> PutObject(value, "range", encode_range), target |-> PutUri(value, "target")])
encode_hover(value) == JsonObject(
  [contents |-> PutObject(value, "contents", encode_markup_content),
   range |-> PutObject(value, "range", encode_range)])
encode_show_message_params(value) == JsonObject(
  [type |-> PutNumber(value, "type"), message |-> PutString(value, "message")])
encode_log_message_params(value) == JsonObject(
  [type |-> PutNumber(value, "type"), message |-> PutString(value, "message")])
encode_publish_diagnostics_params(value) == JsonObject(
  [uri |-> PutUri(value, "uri"),
   diagnostics |-> PutArray(value, "diagnostics", encode_diagnostic)])
encode_did_open_text_document_params(value) == JsonObject(
  [textDocument |-> PutObject(value, "text_document", encode_text_document_item)])
encode_did_change_text_document_params(value) == JsonObject(
  [textDocument |-> PutObject(value, "text_document", encode_versioned_text_document_identifier),
   contentChanges |-> PutArray(value, "content_changes", encode_text_document_content_change_event)])
encode_did_save_text_document_params(value) == JsonObject(
  [textDocument |-> PutObject(value, "text_document", encode_text_document_identifier),
   text |-> PutString(value, "text")])
encode_did_close_text_document_params(value) == JsonObject(
  [textDocument |-> PutObject(value, "text_document", encode_text_document_identifier)])
encode_did_change_watched_files_params(value) == JsonObject(
  [changes |-> PutArray(value, "changes", encode_file_event)])
===============================================================================
