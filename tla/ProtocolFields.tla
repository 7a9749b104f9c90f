---------------------------- MODULE ProtocolFields ----------------------------
(***************************************************************************)
(* The members each structure of the protocol must have: the REQUIRED mask *)
(* of its enumeration of fields.  A structure whose enumeration has no     *)
(* such mask requires none.                                                *)
(***************************************************************************)
COMPILATION_DATABASE_PARAMS_FIELD_REQUIRED == {"path"}
INITIALIZATION_OPTIONS_FIELD_REQUIRED == {}
WORKSPACE_CLIENT_CAPABILITIES_FIELD_REQUIRED == {}
TEXT_DOCUMENT_CLIENT_CAPABILITIES_FIELD_REQUIRED == {}
CLIENT_CAPABILITIES_FIELD_REQUIRED == {}
COMPLETION_OPTIONS_FIELD_REQUIRED == {}
SIGNATURE_HELP_OPTIONS_FIELD_REQUIRED == {}
CODE_LENS_OPTIONS_FIELD_REQUIRED == {}
SAVE_OPTIONS_FIELD_REQUIRED == {}
TEXT_DOCUMENT_SYNC_OPTIONS_FIELD_REQUIRED == {}
SERVER_CAPABILITIES_FIELD_REQUIRED == {}
MARKUP_CONTENT_FIELD_REQUIRED == {"kind", "value"}
MARKED_STRING_FIELD_REQUIRED == {"language", "value"}
MESSAGE_ACTION_ITEM_FIELD_REQUIRED == {"title"}
POSITION_FIELD_REQUIRED == {"line", "character"}
RANGE_FIELD_REQUIRED == {"start", "end"}
TEXT_EDIT_FIELD_REQUIRED == {"range", "new_text"}
LOCATION_FIELD_REQUIRED == {"uri", "range"}
DIAGNOSTIC_RELATED_INFORMATION_FIELD_REQUIRED == {"location", "message"}
DIAGNOSTIC_FIELD_REQUIRED == {"range", "message"}
TEXT_DOCUMENT_ITEM_FIELD_REQUIRED == {"uri", "language_id", "version", "text"}
TEXT_DOCUMENT_CONTENT_CHANGE_EVENT_FIELD_REQUIRED == {"text"}
TEXT_DOCUMENT_IDENTIFIER_FIELD_REQUIRED == {"uri"}
VERSIONED_TEXT_DOCUMENT_IDENTIFIER_FIELD_REQUIRED == {"uri", "version"}
FILE_EVENT_FIELD_REQUIRED == {"uri", "type"}
TEXT_DOCUMENT_POSITION_PARAMS_FIELD_REQUIRED == {"text_document", "position"}
COMMAND_FIELD_REQUIRED == {"title", "command"}
COMPLETION_ITEM_FIELD_REQUIRED == {"label"}
PARAMETER_INFORMATION_FIELD_REQUIRED == {"label"}
SIGNATURE_INFORMATION_FIELD_REQUIRED == {"label"}
REFERENCE_CONTEXT_FIELD_REQUIRED == {"include_declaration"}
COMPLETION_LIST_FIELD_REQUIRED == {"is_incomplete", "items"}
CODE_ACTION_CONTEXT_FIELD_REQUIRED == {"diagnostics"}
INITIALIZE_PARAMS_FIELD_REQUIRED == {"process_id", "capabilities"}
REFERENCE_PARAMS_FIELD_REQUIRED == {"context", "text_document", "position"}
DOCUMENT_SYMBOL_PARAMS_FIELD_REQUIRED == {"text_document"}
WORKSPACE_SYMBOL_PARAMS_FIELD_REQUIRED == {"query"}
DOCUMENT_LINK_PARAMS_FIELD_REQUIRED == {"text_document"}
CODE_ACTION_PARAMS_FIELD_REQUIRED == {"text_document", "range", "context"}
SHOW_MESSAGE_REQUEST_PARAMS_FIELD_REQUIRED == {"type", "message"}
SIGNATURE_HELP_FIELD_REQUIRED == {"signatures"}
INITIALIZE_RESULT_FIELD_REQUIRED == {"capabilities"}
SYMBOL_INFORMATION_FIELD_REQUIRED == {"name", "kind", "location"}
DOCUMENT_LINK_FIELD_REQUIRED == {"range"}
HOVER_FIELD_REQUIRED == {"contents"}
SHOW_MESSAGE_PARAMS_FIELD_REQUIRED == {"type", "message"}
LOG_MESSAGE_PARAMS_FIELD_REQUIRED == {"type", "message"}
PUBLISH_DIAGNOSTICS_PARAMS_FIELD_REQUIRED == {"uri", "diagnostics"}
DID_OPEN_TEXT_DOCUMENT_PARAMS_FIELD_REQUIRED == {"text_document"}
DID_CHANGE_TEXT_DOCUMENT_PARAMS_FIELD_REQUIRED == {"text_document", "content_changes"}
DID_SAVE_TEXT_DOCUMENT_PARAMS_FIELD_REQUIRED == {"text_document"}
DID_CLOSE_TEXT_DOCUMENT_PARAMS_FIELD_REQUIRED == {"text_document"}
DID_CHANGE_WATCHED_FILES_PARAMS_FIELD_REQUIRED == {"changes"}
===============================================================================
