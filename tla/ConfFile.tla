------------------------------ MODULE ConfFile ------------------------------
(* gatebox.conf (config/config.go and handler/settings.go): the server reads
   it when it starts, and makes one when there is none; the settings page
   reads it anew and writes three of its keys, keeping the other lines. A line
   is a key with a value, or something else of the user's; a value is the
   sequence of the numbers between its commas, one that is no number is Text.
   Writing the file does not fail by itself. External: the user's environment,
   and the file as it was at first. *)
EXTENDS Integers, Sequences, FiniteSetsExt

CONSTANTS Clients,     \* goroutines serving requests
          OldFiles,    \* what the file may be before the first start, or NoConf
          Envs,        \* what the environment may say of each key
          Forms,       \* what the page sends: a value for each key
          NoConf,      \* there is no file
          MaxPuts,     \* bound: how many forms are sent
          MaxStarts    \* bound: how many times the server starts

VARIABLES
    text,              \* the lines of the file
    env,               \* the environment of the server
    config,            \* the ports the server runs with
    server,            \* "down", "create", "default" or "up"
    put,               \* put[c]: a request of putGatewaySettings
    puts, starts,      \* counters of the bounds
    others,            \* the other lines of the file, as they were
    given,             \* the form that was stored last
    fresh,             \* the server has started since
    crossed            \* two requests met, or the server died in one

vars == <<text, env, config, server, put, puts, starts, others, given, fresh, crossed>>

Ports == {"http", "https"}
Settable == Ports \cup {"extra"}
Text  == -1
MaxPort == 65535
Idle  == [at |-> "idle"]
Busy  == {c \in Clients : put[c] /= Idle}
Line(k, v) == [key |-> k, value |-> v]
With(lines, k) == {i \in DOMAIN lines : lines[i].key = k}
Others(lines)  == {<<i, lines[i]>> : i \in {j \in DOMAIN lines : lines[j].key \notin Settable}}

(* Of several lines with a key the last one counts. *)
readFile(lines) ==
    [k \in Settable |->
       IF With(lines, k) = {} THEN <<>> ELSE lines[Max(With(lines, k))].value]

(* The page reads the keys the server does not know, too; none is shown. *)
readConfKV(lines) == readFile(lines)

(* Atoi *)
IsNumber(v) == Len(v) = 1 /\ v[1] /= Text
confInt(v) == IF IsNumber(v) /\ v[1] \in 0 .. MaxPort THEN v[1] ELSE 0
confIntList(v) ==
    LET valid[n \in 0 .. Len(v)] ==
          IF n = 0 THEN <<>>
          ELSE IF v[n] \in 1 .. MaxPort THEN Append(valid[n - 1], v[n]) ELSE valid[n - 1]
    IN  valid[Len(v)]

(* What the page is shown. *)
getGatewaySettings(lines) ==
    LET vals == readConfKV(lines)
    IN [k \in Settable |-> IF k \in Ports THEN <<confInt(vals[k])>> ELSE confIntList(vals[k])]

(* Of the sources the environment comes first; a port of it that is no number
   is not the default, as the log says, but that of the file. *)
sourceInt(e, v) == IF IsNumber(e) THEN e[1] ELSE IF IsNumber(v) THEN v[1] ELSE 0
sourceIntList(e, v) == confIntList(IF e /= <<>> THEN e ELSE v)
Config(vals) ==
    [k \in Settable |-> IF k \in Ports THEN <<sourceInt(env[k], vals[k])>>
                                        ELSE sourceIntList(env[k], vals[k])]

Default == <<Line("other", <<>>), Line("http", <<0>>), Line("https", <<0>>),
             Line("extra", <<>>), Line("other", <<Text>>)>>

(* What a file, the environment and a form consist of; a file is not NoConf. *)
Lines  == [key : Settable \cup {"other"}, value : Seq(Int)]
Values == [Settable -> Seq(Int)]
WellFormed ==
    /\ OldFiles \subseteq Seq(Lines) \cup {NoConf}
    /\ Envs \subseteq Values
    /\ Forms \subseteq Values /\ \A form \in Forms, k \in Ports : Len(form[k]) = 1
    /\ NoConf \notin Seq(Lines) \cup Forms

-----------------------------------------------------------------------------
Init == /\ text \in OldFiles /\ env \in Envs
        /\ others = IF text = NoConf THEN Others(Default) ELSE Others(text)
        /\ config = [k \in Settable |-> <<>>]
        /\ server = "down" /\ put = [c \in Clients |-> Idle]
        /\ puts = 0 /\ starts = 0
        /\ given = NoConf /\ fresh = FALSE /\ crossed = FALSE

Load ==
    /\ server = "down" /\ starts < MaxStarts
    /\ starts' = starts + 1
    /\ config' = Config(readFile(IF text = NoConf THEN <<>> ELSE text))
    /\ fresh' = TRUE
    /\ server' = IF text = NoConf THEN "create" ELSE "up"
    /\ UNCHANGED <<text, env, put, puts, others, given, crossed>>

(* The file is made, and then written. *)
CreateConf ==
    /\ server = "create"
    /\ text' = <<>> /\ server' = "default"
    /\ UNCHANGED <<env, config, put, puts, starts, others, given, fresh, crossed>>
WriteDefaultConf ==
    /\ server = "default"
    /\ text' = Default /\ server' = "up"
    /\ UNCHANGED <<env, config, put, puts, starts, others, given, fresh, crossed>>

-----------------------------------------------------------------------------
InRange(form) ==
    /\ \A k \in Ports : form[k][1] \in 0 .. MaxPort
    /\ \A i \in DOMAIN form["extra"] : form["extra"][i] \in 1 .. MaxPort

putGatewaySettings(c, form) ==
    /\ server = "up" /\ put[c] = Idle /\ puts < MaxPuts
    /\ puts' = puts + 1
    /\ InRange(form)
    /\ crossed' = (crossed \/ Busy /= {})
    /\ put' = [put EXCEPT ![c] = [at |-> "read", form |-> form]]
    /\ UNCHANGED <<text, env, config, server, starts, others, given, fresh>>

Missing(lines, form) ==
    LET New(k) == IF With(lines, k) = {} THEN <<Line(k, form[k])>> ELSE <<>>
    IN  New("http") \o New("extra") \o New("https")

(* Wrong: of several lines with a key only the first is replaced. *)
upsertFirst(lines, form) ==
    [i \in DOMAIN lines |->
       IF lines[i].key \in Settable /\ \A j \in 1 .. i - 1 : lines[j].key /= lines[i].key
       THEN Line(lines[i].key, form[lines[i].key]) ELSE lines[i]] \o Missing(lines, form)

(* Every line with a key is replaced, and a key without one is added. *)
upsertConf(lines, form) ==
    [i \in DOMAIN lines |-> IF lines[i].key \in Settable
                            THEN Line(lines[i].key, form[lines[i].key]) ELSE lines[i]]
    \o Missing(lines, form)

ReadConf(c) ==
    /\ put[c].at = "read"
    /\ put' = [put EXCEPT ![c] = [at |-> "truncate", form |-> put[c].form,
                                 lines |-> upsertConf(text, put[c].form)]]
    /\ UNCHANGED <<text, env, config, server, puts, starts, others, given, fresh, crossed>>

(* os.WriteFile empties the file, and then writes it. *)
TruncateConf(c) ==
    /\ put[c].at = "truncate"
    /\ text' = <<>>
    /\ put' = [put EXCEPT ![c].at = "write"]
    /\ UNCHANGED <<env, config, server, puts, starts, others, given, fresh, crossed>>

(* Of what another has written since, the end of the longer text remains. *)
WriteConf(c) ==
    /\ put[c].at = "write"
    /\ \E i \in {Len(text) + 1} \cup 2 .. Len(text) :
         text' = put[c].lines \o SubSeq(text, i, Len(text))
    /\ given' = put[c].form /\ fresh' = FALSE
    /\ put' = [put EXCEPT ![c] = Idle]
    /\ UNCHANGED <<env, config, server, puts, starts, others, crossed>>

(* The server stops: at once, or after the requests under way. *)
Stop ==
    /\ server /= "down" /\ server' = "down"
    /\ crossed' = (crossed \/ Busy /= {} \/ server /= "up")
    /\ put' = [c \in Clients |-> Idle]
    /\ UNCHANGED <<text, env, config, puts, starts, others, given, fresh>>

Next == \/ Load \/ CreateConf \/ WriteDefaultConf \/ Stop
        \/ \E c \in Clients : \/ \E form \in Forms : putGatewaySettings(c, form)
                              \/ ReadConf(c) \/ TruncateConf(c) \/ WriteConf(c)

Spec == Init /\ [][Next]_vars

-----------------------------------------------------------------------------
(* As long as requests do not meet and none is cut off: the other lines stay
   as they are and where they are, the page shows what was stored last however
   the file was written before, and a server that has started since runs with
   it where the environment says nothing (settings.go:7, 135-181;
   config.go:3). *)
ConfKept ==
    (~crossed /\ Busy = {} /\ server = "up") =>
      /\ Others(text) = others
      /\ given /= NoConf =>
           /\ getGatewaySettings(text) = given
           /\ fresh => \A k \in Settable : IsNumber(env[k]) \/ (k = "extra" /\ env[k] /= <<>>)
                                       \/ config[k] = given[k]

=============================================================================
