----------------------------- MODULE TypeSpecs -----------------------------
(***************************************************************************)
(* The type specifications (internal/typespec): the fields of the object   *)
(* kinds and of the types of the catalog, and Validate, which every write  *)
(* of an object passes.                                                    *)
(*                                                                         *)
(* The source fields of an object are a function from field keys to        *)
(* values [form, v]: v is a sequence of texts, of one element but for an   *)
(* array; a key that is missing is a field nobody gave, and the fields of  *)
(* an object field are keys of their own ("backend.host").  Numbers are    *)
(* written as texts, since only a few are told apart.                      *)
(***************************************************************************)
EXTENDS Sequences, Functions

CONSTANTS
  Domains,   (* texts that match the pattern of domain names               *)
  Numerals   (* texts that stand for numbers                               *)

Text(t)   == [form |-> "text", v |-> <<t>>]
Number(n) == [form |-> "number", v |-> <<n>>]
Switch(b) == [form |-> "switch", v |-> <<IF b THEN "true" ELSE "false">>]
Array(s)  == [form |-> "array", v |-> s]

-----------------------------------------------------------------------------
(* The models: fields of the kinds, fields each type of the catalog adds.  *)

Field(key, type) ==
  [key |-> key, type |-> type, required |-> FALSE, refs |-> {}, options |-> {},
   item |-> "any", dynamic |-> FALSE, pattern |-> FALSE, fields |-> {}]
Must(f)       == [f EXCEPT !.required = TRUE]
Ref(f, kinds) == [f EXCEPT !.refs = kinds]

Backend(kind) ==
  [Field("backend", "object") EXCEPT
     !.required = kind = "route",
     !.fields = {Must(Field("backend.host", "text")), Must(Field("backend.port", "number"))}]

TypeField == [Must(Field("type", "select")) EXCEPT !.dynamic = TRUE]

RouteFields ==
  {Must(Field("name", "text")),
   Ref(Field("service", "reference"), {"service"}),
   Backend("route"),
   Field("subdomain", "text"),
   Ref(Field("roots", "array"), {"domain"}),
   Must(Ref(Field("entrypoint", "reference"), {"entrypoint"})),
   Field("port", "number"),
   Ref(Field("middlewares", "array"), {"middleware"}),
   [Field("tls", "select") EXCEPT !.options = {"auto", "off"}],
   Field("enabled", "switch")}

ServiceFields ==
  {Must(Field("name", "text")), TypeField, Backend("service"), Field("enabled", "switch")}

MiddlewareFields ==
  {Must(Field("name", "text")), TypeField, Field("code", "textarea"),
   Field("defaultEnabled", "switch")}

EntrypointFields ==
  {[Must(Field("protocol", "select")) EXCEPT !.dynamic = TRUE],
   [Must(Field("ports", "array")) EXCEPT !.item = "number"],
   [Field("network", "select") EXCEPT !.options = {"tcp", "udp", "both"}],
   Field("enabled", "switch")}

DomainFields ==
  {[Must(Field("name", "text")) EXCEPT !.pattern = TRUE],
   Ref(Field("credentialId", "reference"), {"dns-credential"})}

UserFields == {Must(Field("name", "text"))}

Schema ==
  [kind \in {"route", "service", "middleware", "entrypoint", "domain", "user"} |->
     CASE kind = "route"      -> RouteFields
       [] kind = "service"    -> ServiceFields
       [] kind = "middleware" -> MiddlewareFields
       [] kind = "entrypoint" -> EntrypointFields
       [] kind = "domain"     -> DomainFields
       [] kind = "user"       -> UserFields]

(* KeyField: the key the model names, or the required text. *)
KeyField(kind) ==
  IF kind = "entrypoint" THEN "protocol"
  ELSE (CHOOSE f \in Schema[kind] : f.required /\ f.type = "text").key

(* The catalog: type -> [installed, fields it adds]. *)
Type(fields) == [installed |-> TRUE, fields |-> fields]
Absent       == [installed |-> FALSE, fields |-> {}]

ServiceTypes ==
  [t \in {"reverse_proxy", "file_server", "redirect", "respond", "l4_proxy"} |->
     CASE t = "reverse_proxy" ->
            Type({[Field("upstreamProto", "select") EXCEPT !.options = {"http", "https"}],
                  Field("healthUri", "text")})
       [] t = "file_server" ->
            Type({Must(Field("root", "text")), Field("browse", "switch")})
       [] t = "redirect"    -> Type({Must(Field("to", "text"))})
       [] t = "respond"     -> Type({Field("body", "textarea"), Field("status", "number")})
       [] t = "l4_proxy"    -> Absent]

MiddlewareTypes ==
  [t \in {"encode", "basic_auth", "headers", "websocket", "rewrite", "code"} |->
     CASE t = "encode"     -> Type({Field("formats", "array"), Field("minLength", "number")})
       [] t = "basic_auth" -> Type({Must(Ref(Field("users", "array"), {"user"}))})
       [] t = "headers"    -> Type({Field("set", "array"), Field("delete", "array")})
       [] t = "rewrite"    -> Type({Field("uri", "text"), Field("body", "object")})
       [] OTHER            -> Type({})]

EntrypointProtocols ==
  [t \in {"http", "https", "grpc", "websocket", "php", "tcp", "udp"} |->
     IF t \in {"http", "https", "grpc", "websocket"} THEN Type({}) ELSE Absent]

Catalog ==
  [kind \in {"service", "middleware", "entrypoint"} |->
     CASE kind = "service"    -> ServiceTypes
       [] kind = "middleware" -> MiddlewareTypes
       [] kind = "entrypoint" -> EntrypointProtocols]

DynamicOptions(kind) == IF kind \in DOMAIN Catalog THEN DOMAIN Catalog[kind] ELSE {}

-----------------------------------------------------------------------------
(* Validate                                                                *)

(* lookupAny and isEmpty: a switch or a number is never empty. *)
Given(spec, key) ==
  /\ key \in DOMAIN spec
  /\ spec[key].v # <<>>
  /\ spec[key].form = "text" => spec[key].v # <<"">>

Present(spec, f) ==
  IF f.type = "object" THEN (\E g \in f.fields : g.key \in DOMAIN spec) \/ f.key \in DOMAIN spec
                       ELSE Given(spec, f.key)

FormOf(type) ==
  CASE type \in {"text", "textarea", "select", "reference"} -> "text"
    [] OTHER -> type

(* A mutant: the fields a type adds are not looked at. *)
FieldsOfKind(kind, spec) == Schema[kind]

(* ExpandType: the fields of the kind and those its type adds.  A type     *)
(* that is not in the catalog adds none; entrypoints have no types.        *)
FieldsFor(kind, spec) ==
  LET typed == kind \in {"service", "middleware"} /\ Given(spec, "type")
  IN Schema[kind] \cup
       (IF typed /\ spec["type"].v[1] \in DynamicOptions(kind)
        THEN Catalog[kind][spec["type"].v[1]].fields ELSE {})

(* checkRef: an empty id refers to nothing. *)
BadRef(f, id, known) == id # "" /\ \E k \in f.refs : <<k, id>> \notin known

(* The texts a select accepts, and what the catalog says of it. *)
BadChoice(kind, f, t) ==
  \/ f.options # {} /\ t \notin f.options
  \/ f.dynamic /\ (t \in DynamicOptions(kind) => ~Catalog[kind][t].installed)

WrongForm(f, value) ==
  CASE f.type = "array" -> \/ value.form # "array"
                           \/ f.item = "number" /\ ~Range(value.v) \subseteq Numerals
    [] f.type \in {"select", "switch", "number"} -> value.form # FormOf(f.type)
    [] OTHER -> f.refs # {} /\ value.form # "text"

(* validateField on one field that has no fields of its own. *)
ScalarErrors(kind, f, spec, known) ==
  LET value == spec[f.key] IN
  (IF WrongForm(f, value) THEN {<<f.key, "form">>} ELSE {}) \cup
  {<<f.key, "choice">>    : t \in {u \in Range(value.v) : f.type = "select" /\ BadChoice(kind, f, u)}} \cup
  {<<f.key, "pattern">>   : t \in {u \in Range(value.v) : f.pattern /\ u \notin Domains}} \cup
  {<<f.key, "reference">> : t \in {u \in Range(value.v) : BadRef(f, u, known)}}

FieldErrors(kind, f, spec, known) ==
  IF ~Present(spec, f) THEN (IF f.required THEN {<<f.key, "missing">>} ELSE {})
  ELSE IF f.type = "object" /\ f.key \in DOMAIN spec /\ spec[f.key].form # "object"
  THEN {<<f.key, "form">>}
  ELSE IF f.type = "object"
  THEN UNION {IF Given(spec, g.key) THEN ScalarErrors(kind, g, spec, known)
              ELSE (IF g.required THEN {<<g.key, "missing">>} ELSE {}) : g \in f.fields}
  ELSE ScalarErrors(kind, f, spec, known)

(* Validate: known is the set of <<kind, id>> that exist. *)
Validate(kind, spec, known) ==
  IF kind \notin DOMAIN Schema THEN {<<"", "unknown kind">>}
  ELSE UNION {FieldErrors(kind, f, spec, known) : f \in FieldsFor(kind, spec)}
=============================================================================
