----------------------------- MODULE MCMigration -----------------------------
(* Migration41 for TLC: its runs beside what users save and delete; Render *)
(* of the objects shows the result.                                        *)
EXTENDS Migration41

CONSTANTS
  Starts,    (* bound: runs of the command                                 *)
  Touches    (* bound: saves and deletes of users, restores of the backup  *)

R == INSTANCE CaddyRender

-----------------------------------------------------------------------------
VARIABLES
  starts, touches,  (* so far                                              *)
  touched,  (* users have changed something, or a backup is back           *)
  whole,    (* every run that wrote something came to its end without a    *)
            (* failure, or a later one did                                 *)
  settled   (* the objects when the last run ended, <<>> before            *)
mcvars == <<vars, starts, touches, touched, whole, settled>>

MCInit == Init /\ starts = 0 /\ touches = 0 /\ touched = FALSE /\ whole = TRUE /\ settled = <<>>
Touch == touches < Touches /\ touches' = touches + 1 /\ touched' = TRUE
MCNext ==
  \/ /\ starts < Starts /\ starts' = starts + 1
     /\ \E force \in Forces : Start(force)
     /\ UNCHANGED <<touches, touched, whole, settled>>
  \/ WriteNext /\ UNCHANGED <<starts, touches, touched, whole, settled>>
  \/ /\ Finish
     /\ whole' = (job.failed = {}) /\ settled' = <<db>>
     /\ UNCHANGED <<starts, touches, touched>>
  \/ Kill /\ whole' = FALSE /\ UNCHANGED <<starts, touches, touched, settled>>
  \/ /\ Touch
     /\ \/ \E o \in Edits : UserSaves(o)
        \/ \E kind \in Migrated : \E id \in DOMAIN db[kind] : UserDeletes(kind, id)
     /\ UNCHANGED <<starts, whole, settled>>
  \/ /\ Touch
     /\ Restore
     /\ whole' = (backup[1] = [k \in Migrated |-> <<>>])
     /\ UNCHANGED <<starts, settled>>
MCSpec == MCInit /\ [][MCNext]_mcvars

-----------------------------------------------------------------------------
(* The references of the kinds' models: those that only a type declares (the *)
(* users of a basic_auth) are not looked at when an object is deleted.     *)
RefsResolve ==
  \A k \in Migrated : \A id \in DOMAIN db[k] :
    \A f \in Schema[k] :
      f.refs # {} /\ f.key \in DOMAIN db[k][id].spec =>
        \A r \in ToSet(db[k][id].spec[f.key].v) \ {""} : \E t \in f.refs : r \in DOMAIN db[t]

(* Of tables whose names are well formed and whose protocols are installed *)
(* a run that comes to its end has written all it planned and leaves no    *)
(* reference dangling, however many runs were killed half-way before it    *)
(* and whatever users did to what those had written.                       *)
DoneIsComplete == job.at = "done" => job.failed = {} /\ RefsResolve

(* What the report says is lost, in whole or in part. *)
Report   == LET p == Build(old) IN p.dropped \cup p.unmappable
Affected(svc) ==
  \/ <<"services", svc.id>> \in Report
  \/ \E f \in ToSet(svc.frags) : <<"fragments", f>> \in Report
  \/ \E i \in DOMAIN svc.rows :
       \/ <<"domains", svc.rows[i].root>> \in Report
       \/ <<"port_bindings", svc.rows[i].protocol>> \in Report

(* The old gateway's site for a row: its host, and where it listens.       *)
MainPort(proto) ==
  LET of == {b \in ToSet(old.bindings) : b.protocol = proto}
  IN IF of # {} THEN (CHOOSE b \in of : TRUE).ports[1]
     ELSE IF proto = "http" THEN "80" ELSE "443"
OldProto(d) == IF d.protocol = "" THEN "https" ELSE d.protocol
OldSite(svc, d) ==
  [http |-> d.protocol = "http",
   host |-> IF d.sub = "" THEN d.root ELSE d.sub \o "." \o d.root,
   port |-> IF d.port # "" THEN d.port ELSE MainPort(OldProto(d))]
NewSite(a) == [a EXCEPT !.port = IF @ # "" THEN @ ELSE IF a.http THEN "80" ELSE "443"]

OldLines(svc) ==
  [i \in DOMAIN svc.frags |->
     <<"code", (CHOOSE f \in ToSet(old.frags) : f.id = svc.frags[i]).code>>]
  \o <<<<"reverse_proxy", svc.up[1], svc.up[2]>>>>

NewLines(lines) == SelectSeq(lines, LAMBDA l : l[1] # "tls")

(* What Migration promises of the gateway: once a run has ended and        *)
(* nobody has touched the objects, every site of an enabled proxy of which *)
(* the report does not say that something is lost is served as before:     *)
(* same host, scheme and port, its fragments in their order, its upstream. *)
(* (A directory that is not browsed is rendered without file_server.)      *)
SitesSurvive ==
  job.at = "done" /\ job.failed = {} /\ ~touched =>
    LET new == R!Render(db, {}).sites IN
    \A svc \in ToSet(old.services) :
      svc.enabled /\ svc.type = "reverse_proxy" /\ ~Affected(svc) =>
        \A i \in DOMAIN svc.rows :
          svc.rows[i].root # "" =>
            \E s \in new : /\ NewSite(s.addr) = OldSite(svc, svc.rows[i])
                           /\ NewLines(s.lines) = OldLines(svc)

(* A run that finds the objects as the last one left them changes nothing: *)
(* neither what it kept nor what could not be written before.              *)
SecondRunIsQuiet ==
  [][job.at = "apply" /\ ~job.force /\ settled = backup => UNCHANGED db]_mcvars

(* What Validate cannot know of: two routes at one address, texts a type   *)
(* does not ask for, a password; the users of a basic_auth middleware,     *)
(* which the deletion of a user does not look at; and what it lets pass:   *)
(* an empty entry in an array of references, a number for a text.          *)
Excuses == {"address taken", "no address", "body", "header", "rewrite.body", "password", "user",
            "empty reference", "not a text"}

(* The renderer and Validate agree: of objects that were saved through     *)
(* Validate, or written by runs that ended without a failure, a file can   *)
(* be rendered but for those reasons.                                      *)
ValidObjectsRender == job.at # "apply" /\ whole => R!Render(db, {"ann"}).failures \subseteq Excuses
=============================================================================
