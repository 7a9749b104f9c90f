------------------------------ MODULE MCProtocol -------------------------------
(***************************************************************************)
(* The params and the structures for TLC: of each type one value with all  *)
(* its members, every value that differs from it at one place, and every   *)
(* JSON value that differs at one place from what encodes it.              *)
(***************************************************************************)
EXTENDS ProtocolExchange

\* A value with all its members; the lists have one item.
RECURSIVE Full(_)
Full(type) ==
  CASE type[1] = "struct" -> [m \in DOMAIN type[2] |-> Full(type[2][m])]
    [] type[1] = "list" -> <<Full(type[2])>>
    [] type[1] = "group" ->
         [f \in type[2] |-> IF f = "documentation_format" THEN <<"text">> ELSE TRUE]
    [] type[1] = "enum" -> CHOOSE number \in type[2] : TRUE
    [] type[1] = "text" -> "text"
    [] type[1] = "address" -> Uri("file")
    [] type[1] = "number" -> 7
    [] type[1] = "truth" -> TRUE
    [] type[1] = "anything" -> Array(<<Null, String("any")>>)

\* The members of a function but one.
Without(f, m) == [x \in DOMAIN f \ {m} |-> f[x]]

\* A value, and those that differ from it at one place: a member that is not
\* there, a list without an item or with two.
RECURSIVE Variants(_, _)
Variants(type, value) ==
  {value} \cup
  CASE type[1] = "struct" ->
         {Without(value, m) : m \in DOMAIN value}
         \cup UNION {{[value EXCEPT ![m] = v] : v \in Variants(type[2][m], value[m])} :
                       m \in DOMAIN value}
    [] type[1] = "list" ->
         {<<>>, value \o value} \cup {<<v>> : v \in Variants(type[2], value[1])}
    [] OTHER -> {}

MCValues(type) == Variants(type, Full(type))

\* One JSON value of each kind.
Kinds == {Null, Integer(1), String("text"), Boolean(TRUE), Object(<<>>), Array(<<>>)}

\* A JSON value, and those that differ from it at one place: a member that is not
\* there or of another kind, an array of other items.
RECURSIVE Perturbed(_)
Perturbed(json) ==
  {json} \cup Kinds \cup
  CASE Kind(json) = "object" ->
         {Object(Without(json[2], m)) : m \in DOMAIN json[2]}
         \cup UNION {{Object([json[2] EXCEPT ![m] = v]) : v \in Perturbed(json[2][m])} :
                       m \in DOMAIN json[2]}
    [] Kind(json) = "array" ->
         {Array(json[2] \o json[2])}
         \cup IF json[2] = <<>> THEN {}
              ELSE {Array([json[2] EXCEPT ![1] = v]) : v \in Perturbed(json[2][1])}
    [] OTHER -> {}

\* And those that differ at two places.
Twice(json) == UNION {Perturbed(other) : other \in Perturbed(json)}

\* The flags of the capabilities where the decoder looks for them.
FlatCapabilities ==
  Object([workspace |-> Object([symbol |-> Object(<<>>), dynamicRegistration |-> Boolean(TRUE)]),
          textDocument |->
            Object([signatureHelp |-> Object(<<>>), signatureInformation |-> Object(<<>>),
                    documentationFormat |-> Array(<<String("text")>>),
                    synchronization |-> Object(<<>>), willSave |-> Boolean(TRUE)])])
FlatInitialize == Object([processId |-> Integer(1), capabilities |-> FlatCapabilities])

Position == Twice(encode_text_document_position_params(Full(text_document_position_params_t)))

\* A message may also come without params.
MCParams == [method \in Methods |-> {Absent} \cup
  CASE method = "initialize" ->
         Perturbed(encode_initialize_params(Full(initialize_params_t)))
         \cup Perturbed(FlatInitialize)
    [] method = "documentSymbol" ->
         Twice(encode_document_symbol_params(Full(document_symbol_params_t)))
    [] method = "codeAction" ->
         Perturbed(encode_code_action_params(Full(code_action_params_t)))
    [] method = "didOpen" ->
         Twice(encode_did_open_text_document_params(Full(did_open_text_document_params_t)))
    [] method = "didChange" ->
         Perturbed(encode_did_change_text_document_params(Full(did_change_text_document_params_t)))
    [] method = "didSave" ->
         Twice(encode_did_save_text_document_params(Full(did_save_text_document_params_t)))
    [] method = "didClose" ->
         Twice(encode_did_close_text_document_params(Full(did_close_text_document_params_t)))
    [] OTHER -> Position]

\* The JSON values given, and all that is within them.
RECURSIVE Within(_)
Within(values) ==
  IF values = {} THEN {}
  ELSE values \cup Within(UNION {Parts(json) : json \in values})

MCJsonValues == Within(UNION {MCParams[method] : method \in Methods} \ {Absent})
===============================================================================
