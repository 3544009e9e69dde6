-------------------------------- MODULE Store -------------------------------
(* Opening the store and what lies in it under the key
   (repository/store.go, repository/variables_migration.go): the AES key in
   its file, the registries and credentials sealed with it, the variables,
   and the one-time move of the old container variables into them; the
   requests that change them (handler/docker_registry.go, the variables of
   handler/gateway_api.go) and the text of a compose file the variables are
   put into (handler/docker_variables.go).
   External: the file system; bbolt, whose transactions are whole. *)
EXTENDS Integers, Sequences, FiniteSets

CONSTANTS Clients,     \* requests under way
          Ids,         \* registries
          Secrets,     \* passwords
          Names,       \* names of user variables that are allowed
          Reserved,    \* others, of the built-in variables: <<"GB_...">>, <<"GB_SER", n, m>>
          OldNames,    \* names the container variables had
          Values,      \* values of variables
          Files,       \* compose files: sequences of [site, ports]
          NoValue,     \* a variable, a record or a secret that is not there
          Untouched,   \* a variable the user did nothing to
          MaxKeys,     \* keys that are made
          MaxRequests  \* requests that are served

(* What is sealed, and an update under way. *)
Record == [key : Int, secret : Secrets]
Update == [id : Ids, gave : Secrets \union {NoValue}, secret : Secrets]

(* The names the code allows are not those of built-in variables, and the
   marks of this module are no values (models.go:248-262). *)
Distinct ==
    /\ Names \intersect Reserved = {}
    /\ NoValue \notin Secrets
    /\ NoValue \notin Record \union Update
    /\ Untouched \notin Values \union {NoValue}

VARIABLES
    keyFile,           \* secret.key: NoFile, Blank, or the key in it
    proc,              \* [at, key]: the process on its way up, and its key
    made,              \* keys made so far
    sealed,            \* bucket registries: [key, secret] or NoValue
    req,               \* req[c]: an update of a registry between its two halves
    variables,         \* bucket variables
    old,               \* bucket container_variables: never written
    meta,              \* [migrated, report]
    left,              \* requests that may still be served
    wish,              \* wish[k]: what the user last made of a variable
    settled,           \* what the user cleared from the report
    given,             \* given[i]: the secret last given for a registry
    mishap             \* a read of the key failed, or two updates met

vars == <<keyFile, proc, made, sealed, req, variables, old, meta, left, wish, settled, given, mishap>>

AllNames == Names \union Reserved
NoFile == -1
Blank == 0             \* an empty file: hex.Decode leaves 32 zero bytes

ValidVariableKey(k) == k \in Names

Init == /\ keyFile = NoFile
        /\ proc = [at |-> "down", key |-> NoFile]
        /\ made = 0
        /\ sealed = [i \in Ids |-> NoValue]
        /\ req = [c \in Clients |-> NoValue]
        /\ variables \in [AllNames -> Values \union {NoValue}]
        /\ \A k \in Reserved : variables[k] = NoValue
        /\ old \in [AllNames -> Values \union {NoValue}]
        /\ \A k \in AllNames \ OldNames : old[k] = NoValue
        /\ meta = [migrated |-> FALSE, report |-> {}]
        /\ left = MaxRequests
        /\ wish = [k \in AllNames |-> Untouched]
        /\ settled = {}
        /\ given = [i \in Ids |-> NoValue]
        /\ mishap = FALSE

stored == <<sealed, req, variables, old, meta, left, wish, settled, given>>

-----------------------------------------------------------------------------
(* Open: the database is locked and its buckets are there; then the key. *)
Open ==
    /\ proc.at = "down"
    /\ proc' = [proc EXCEPT !.at = "key"]
    /\ UNCHANGED <<keyFile, made, stored, mishap>>

LoadKey ==
    /\ proc.at = "key" /\ keyFile /= NoFile
    /\ proc' = [at |-> "migrate", key |-> keyFile]
    /\ UNCHANGED <<keyFile, made, stored, mishap>>

(* No file, or one that cannot be read: a new key, in a file made anew. *)
CreateKey ==
    /\ proc.at = "key" /\ made < MaxKeys
    /\ mishap' = (mishap \/ keyFile /= NoFile)
    /\ made' = made + 1
    /\ keyFile' = Blank
    /\ proc' = [at |-> "write", key |-> made + 1]
    /\ UNCHANGED stored

WriteKey ==
    /\ proc.at = "write"
    /\ keyFile' = proc.key
    /\ proc' = [proc EXCEPT !.at = "migrate"]
    /\ UNCHANGED <<made, stored, mishap>>

(* Wrong: the key is used all the same. *)
WriteKeyIgnored ==
    /\ proc.at = "write"
    /\ proc' = [proc EXCEPT !.at = "migrate"]
    /\ UNCHANGED <<keyFile, made, stored, mishap>>

(* The key cannot be written: Open fails, and leaves the empty file. *)
Failed == proc' = [at |-> "down", key |-> NoFile]

WriteKeyFails ==
    /\ proc.at = "write"
    /\ Failed
    /\ UNCHANGED <<keyFile, made, stored, mishap>>

(* MigrateVariables: one transaction, once. An old variable of a name that is
   not allowed, or that the gateway uses for something else, is reported. *)
Migrate ==
    LET found     == {k \in AllNames : old[k] /= NoValue}
        importing == {k \in found : ValidVariableKey(k) /\ variables[k] = NoValue}
        conflicts == {k \in found : \/ ~ValidVariableKey(k)
                                    \/ variables[k] \notin {NoValue, old[k]}}
    IN  /\ variables' = [k \in AllNames |-> IF k \in importing THEN old[k] ELSE variables[k]]
        /\ meta' = [migrated |-> TRUE, report |-> conflicts]

(* Wrong: at every start. *)
MigrateAgain ==
    /\ proc.at = "migrate"
    /\ Migrate
    /\ proc' = [proc EXCEPT !.at = "up"]
    /\ UNCHANGED <<keyFile, made, sealed, req, old, left, wish, settled, given, mishap>>

MigrateVariables ==
    /\ proc.at = "migrate"
    /\ IF meta.migrated THEN UNCHANGED <<variables, meta>> ELSE Migrate
    /\ proc' = [proc EXCEPT !.at = "up"]
    /\ UNCHANGED <<keyFile, made, sealed, req, old, left, wish, settled, given, mishap>>

Crash ==
    /\ proc.at /= "down"
    /\ Failed
    /\ req' = [c \in Clients |-> NoValue]
    /\ UNCHANGED <<keyFile, made, sealed, variables, old, meta, left, wish, settled, given, mishap>>

-----------------------------------------------------------------------------
(* Registries. *)
Serve == /\ proc.at = "up" /\ left > 0 /\ left' = left - 1

encrypt(secret) == [key |-> proc.key, secret |-> secret]
decrypt(record) == IF record.key = proc.key THEN record.secret ELSE NoValue
GetRegistry(i)  == IF sealed[i] = NoValue THEN NoValue ELSE decrypt(sealed[i])

(* One record that does not open and the whole list fails. *)
Registered == {i \in Ids : sealed[i] /= NoValue}
ListFails  == \E i \in Registered : decrypt(sealed[i]) = NoValue

CreateRegistry(i, secret) ==
    /\ Serve
    /\ sealed[i] = NoValue /\ given[i] = NoValue
    /\ sealed' = [sealed EXCEPT ![i] = encrypt(secret)]
    /\ given' = [given EXCEPT ![i] = secret]
    /\ UNCHANGED <<keyFile, proc, made, req, variables, old, meta, wish, settled, mishap>>

(* updateRegistry reads the record, puts the request into it and writes it
   back whole; no secret in the request leaves the old one. *)
UpdateRegistry(c, i, secret) ==
    /\ Serve
    /\ req[c] = NoValue /\ GetRegistry(i) /= NoValue
    /\ req' = [req EXCEPT ![c] =
                 [id |-> i, gave |-> secret,
                  secret |-> IF secret = NoValue THEN GetRegistry(i) ELSE secret]]
    /\ mishap' = (mishap \/ \E d \in Clients : req[d] /= NoValue)
    /\ UNCHANGED <<keyFile, proc, made, sealed, variables, old, meta, wish, settled, given>>

SaveRegistry(c) ==
    /\ proc.at = "up"
    /\ req[c] /= NoValue
    /\ sealed' = [sealed EXCEPT ![req[c].id] = encrypt(req[c].secret)]
    /\ req' = [req EXCEPT ![c] = NoValue]
    /\ given' = IF req[c].gave = NoValue THEN given ELSE [given EXCEPT ![req[c].id] = req[c].gave]
    /\ UNCHANGED <<keyFile, proc, made, variables, old, meta, left, wish, settled, mishap>>

DeleteRegistry(i) ==
    /\ Serve
    /\ sealed[i] /= NoValue
    /\ sealed' = [sealed EXCEPT ![i] = NoValue]
    /\ mishap' = (mishap \/ \E c \in Clients : req[c] /= NoValue)
    /\ UNCHANGED <<keyFile, proc, made, req, variables, old, meta, wish, settled, given>>

-----------------------------------------------------------------------------
(* Variables. *)
Write(k, v) ==
    /\ Serve
    /\ variables' = [variables EXCEPT ![k] = v]
    /\ wish' = [wish EXCEPT ![k] = v]
    /\ UNCHANGED <<keyFile, proc, made, sealed, req, old, meta, settled, given, mishap>>

CreateVariable(k, v) == ValidVariableKey(k) /\ variables[k] = NoValue /\ Write(k, v)
UpdateVariable(k, v) == variables[k] /= NoValue /\ Write(k, v)
DeleteVariable(k)    == variables[k] /= NoValue /\ Write(k, NoValue)

ClearVariableMigration ==
    /\ Serve
    /\ meta.report /= {}
    /\ settled' = settled \union meta.report
    /\ meta' = [meta EXCEPT !.report = {}]
    /\ UNCHANGED <<keyFile, proc, made, sealed, req, variables, old, wish, given, mishap>>

(* The built-in variables of a compose file: where the data is, the site of
   the first service that has one, and the m-th published port of its n-th
   service. A port only the container has is not counted. *)
FirstCaddyHost(f) ==
    LET sites == SelectSeq([n \in DOMAIN f |-> f[n].site], LAMBDA h : h /= NoValue)
    IN  IF sites = <<>> THEN NoValue ELSE sites[1]
Published(f, n) == SelectSeq(f[n].ports, LAMBDA p : p /= NoValue)
PublishedPorts(f) ==
    UNION {{<<"GB_SER", n, m>> : m \in DOMAIN Published(f, n)} : n \in DOMAIN f}

ContainerVariables(f) == {<<"GB_DATA_DIR">>} \union PublishedPorts(f) \union
                         IF FirstCaddyHost(f) = NoValue THEN {} ELSE {<<"GB_SUB_DOMAIN">>}
Builtin(f, k) == CASE k = <<"GB_DATA_DIR">>   -> "data"
                   [] k = <<"GB_SUB_DOMAIN">> -> FirstCaddyHost(f)
                   [] OTHER                   -> Published(f, k[2])[k[3]]

(* interpolateContainerVars: the built-in variables, and the user's over them;
   a name nobody knows is left as it is, for docker compose. *)
Interpolated(f, k) ==
    CASE variables[k] /= NoValue       -> variables[k]
      [] k \in ContainerVariables(f)   -> Builtin(f, k)
      [] OTHER                         -> k

-----------------------------------------------------------------------------
Next ==
    \/ Open \/ LoadKey \/ CreateKey \/ WriteKey \/ WriteKeyFails
    \/ MigrateVariables \/ Crash \/ ClearVariableMigration
    \/ \E i \in Ids : \/ \E s \in Secrets : CreateRegistry(i, s)
                      \/ DeleteRegistry(i)
                      \/ \E c \in Clients, s \in Secrets \union {NoValue} : UpdateRegistry(c, i, s)
    \/ \E c \in Clients : SaveRegistry(c)
    \/ \E k \in AllNames : \/ \E v \in Values : CreateVariable(k, v) \/ UpdateVariable(k, v)
                           \/ DeleteVariable(k)

Spec == Init /\ [][Next]_vars

-----------------------------------------------------------------------------
(* Whatever died on the way up, even between making the key's file and writing
   it, a store that is open can read every secret in it; only a key file that
   is there and cannot be read breaks that (store.go:104-125, 138-146). *)
SecretsReadable == (~mishap /\ proc.at = "up") => ~ListFails

(* An update without a secret never loses the one that was given, however
   often a registry is updated and the server restarted, unless two updates
   meet (docker_registry.go:122-155). *)
SecretIsLastGiven ==
    (~mishap /\ \A c \in Clients : req[c] = NoValue) =>
        \A i \in Registered : sealed[i].secret = given[i]

(* Both: what users hand over for a registry can be used until they change it. *)
SmoothSecretsKept == SecretsReadable /\ SecretIsLastGiven

(* The move of the old variables happens once and loses none: an old value
   the user has not settled is a variable or is in the report, and what the
   user deleted or settled since does not come back at the next start
   (variables_migration.go:21-83). *)
MovedOnce ==
    meta.migrated =>
        \A k \in AllNames :
            /\ wish[k] /= Untouched => variables[k] = wish[k]
            /\ wish[k] = Untouched => \/ old[k] \in {NoValue, variables[k]}
                                     \/ k \in meta.report \union settled
            /\ k \notin meta.report \intersect settled

(* No variable of the user, moved or written, stands in for a built-in one in
   a compose file (docker_variables.go:88-97, models.go:248-262). *)
BuiltinsStand ==
    proc.at = "up" =>
        \A f \in Files, k \in Reserved :
            Interpolated(f, k) = IF k \in ContainerVariables(f) THEN Builtin(f, k) ELSE k

(* What the move and the writes of variables promise together. *)
VariablesMoveOnce == MovedOnce /\ BuiltinsStand

=============================================================================
