---------------------------- MODULE CertIssuance ----------------------------
(***************************************************************************)
(* Certificates (internal/adapter/acme, the ACME step of the gateway's     *)
(* reconcile run and the certificate requests of internal/handler/api.go). *)
(*                                                                         *)
(* A run starts one goroutine for each https row whose root domain has a   *)
(* credential, all under one deadline, and waits for all of them; a renew  *)
(* request does the same work for one name, by force and without a         *)
(* deadline.  Nothing keeps two of them from working on one name.          *)
(* acme.sh, its own store of certificates and the authority are outside:   *)
(* a command ends in any way they may answer.                              *)
(***************************************************************************)
EXTENDS Naturals, FiniteSets, TLAPS

CONSTANTS
  Names,      (* fully qualified domain names                              *)
  Runs,       (* reconcile runs that may go on side by side                *)
  Rows,       (* https rows under a root domain with a credential          *)
  NameOf,     (* the name of each row                                      *)
  Incomplete, (* rows whose credential lacks a field of its provider       *)
  Renewers,   (* goroutines serving renew requests                         *)
  Editors,    (* goroutines serving PUT requests for the e-mail            *)
  Emails,     (* e-mail addresses clients send                             *)
  NoEmail     (* none is set                                               *)

ASSUME CertAssumption ==
  /\ NameOf \in [Rows -> Names]
  /\ Incomplete \subseteq Rows
  /\ NoEmail \notin Emails

(* Seconds: the deadline of a run's jobs, and how long acme.sh waits for   *)
(* the record of a DNS challenge.                                          *)
AcmeTimeout     == 5 * 60
DnsSleepSeconds == 300
IssueAttempts   == 3

Jobs == (Runs \X Rows) \cup (Renewers \X Names)
Forced(j) == j[1] \in Renewers
Name(j) == IF Forced(j) THEN j[2] ELSE NameOf[j[2]]
Lacking(j) == ~Forced(j) /\ j[2] \in Incomplete

VARIABLES
  files,    (* per name the certificate Caddy can load                     *)
  kept,     (* per name the certificate acme.sh keeps                      *)
  dirs,     (* names whose directory exists                                *)
  proven,   (* names the authority needs no challenge for                  *)
  cooling,  (* names that have failed a short time ago                     *)
  saved,    (* the e-mail in the database                                  *)
  email,    (* the e-mail of the issuer                                    *)
  ready,    (* accountReady ...                                            *)
  readyFor, (* ... and accountEmail                                        *)
  accounts, (* e-mails the authority has an account for                    *)
  writer,   (* per PUT request the e-mail it has saved, not yet set        *)
  late,     (* runs whose deadline has passed                              *)
  issue     (* per job where it is, how often it tried and with what e-mail*)

certs   == <<files, kept, dirs, proven>>
account == <<saved, email, ready, readyFor, accounts, writer>>
certvars    == <<certs, cooling, account, late, issue>>

(* A certificate is fresh for more than 30 days yet, or due for renewal.   *)
CertStates == {"none", "fresh", "due"}

NoIssue == [at |-> "idle", tries |-> 0, mail |-> NoEmail]
Working(r) == {j \in Jobs : j[1] = r /\ issue[j].at # "idle"}

(* A command is not killed before the deadline. *)
Alive(j) == Forced(j) \/ j[1] \notin late

Goto(j, at) == issue' = [issue EXCEPT ![j].at = at]
End(j) == issue' = [issue EXCEPT ![j] = NoIssue]

(* A failure of the hook, the account or the issue keeps the name from     *)
(* being tried again for failCooldown; one of a renew request does not.    *)
Fail(j) ==
  /\ End(j)
  /\ cooling' = IF Forced(j) THEN cooling ELSE cooling \cup {Name(j)}

-----------------------------------------------------------------------------
(* ReconcileAcme: one job for each row, those of one name included. *)
BeginIssuing(r) ==
  /\ Working(r) = {}
  /\ issue' = [j \in Jobs |-> IF j[1] = r THEN [NoIssue EXCEPT !.at = "check"] ELSE issue[j]]
  /\ late' = late \ {r}
  /\ UNCHANGED <<certs, cooling, account>>

(* POST /certs/{fqdn}/renew: ForceRenew skips the checks. *)
Renew(j) ==
  /\ Forced(j)
  /\ Working(j[1]) = {}
  /\ issue' = [issue EXCEPT ![j] = [NoIssue EXCEPT !.at = "prepare"]]
  /\ UNCHANGED <<certs, cooling, account, late>>

(* ensure: nothing is done for a certificate that is good for a while, nor *)
(* during the cooldown; both end as a success.                             *)
CheckFresh(j) ==
  /\ issue[j].at = "check"
  /\ IF files[Name(j)] = "fresh" \/ Name(j) \in cooling
     THEN End(j)
     ELSE Goto(j, "prepare")
  /\ UNCHANGED <<certs, cooling, account, late>>

(* providerEnv and the directory; an incomplete credential is no reason    *)
(* for a cooldown.                                                         *)
Prepare(j) ==
  /\ issue[j].at = "prepare"
  /\ IF Lacking(j)
     THEN End(j) /\ UNCHANGED dirs
     ELSE /\ Goto(j, "hook")
          /\ dirs' = dirs \cup {Name(j)}
  /\ UNCHANGED <<files, kept, proven, cooling, account, late>>

(* ensureHook has a deadline of its own. *)
Hook(j) ==
  /\ issue[j].at = "hook"
  /\ \/ Goto(j, "account") /\ UNCHANGED <<cooling>>
     \/ Fail(j)
  /\ UNCHANGED <<certs, account, late>>

(* ensureAccount: an e-mail that was registered last need not be again. *)
Account(j) ==
  /\ issue[j].at = "account"
  /\ IF email = NoEmail \/ (ready /\ readyFor = email)
     THEN Goto(j, "issue")
     ELSE issue' = [issue EXCEPT ![j].at = "register", ![j].mail = email]
  /\ UNCHANGED <<certs, cooling, account, late>>

(* Wrong: the e-mail is read again when the account is there. *)
RegisteredForCurrent(j) ==
  /\ issue[j].at = "register"
  /\ Alive(j)
  /\ Goto(j, "issue")
  /\ accounts' = accounts \cup {issue[j].mail}
  /\ ready' = TRUE
  /\ readyFor' = email
  /\ UNCHANGED <<certs, cooling, saved, email, writer, late>>

Registered(j) ==
  /\ issue[j].at = "register"
  /\ Alive(j)
  /\ Goto(j, "issue")
  /\ accounts' = accounts \cup {issue[j].mail}
  /\ ready' = TRUE
  /\ readyFor' = issue[j].mail
  /\ UNCHANGED <<certs, cooling, saved, email, writer, late>>

(* Whether acme.sh gets as far as a certificate: a challenge takes longer  *)
(* than DnsSleepSeconds.                                                   *)
InTime(j) ==
  Forced(j) \/ (Alive(j) /\ (Name(j) \in proven \/ DnsSleepSeconds < AcmeTimeout))

Issued(j) ==
  /\ issue[j].at = "issue"
  /\ InTime(j)
  /\ kept' = [kept EXCEPT ![Name(j)] = "fresh"]
  /\ proven' = proven \cup {Name(j)}
  /\ Goto(j, "install")
  /\ UNCHANGED <<files, dirs, cooling, account, late>>

(* "Domains not changed": acme.sh has a good certificate and was not told  *)
(* to force a new one, which a second attempt always is.                   *)
NotChanged(j) ==
  /\ issue[j].at = "issue"
  /\ Alive(j)
  /\ kept[Name(j)] = "fresh"
  /\ ~Forced(j) /\ issue[j].tries = 0
  /\ Goto(j, "install")
  /\ UNCHANGED <<certs, cooling, account, late>>

(* A failure that looks like DNS not having caught up is tried again. *)
Retry(j) ==
  /\ issue[j].at = "issue"
  /\ Alive(j)
  /\ issue[j].tries < IssueAttempts - 1
  /\ issue' = [issue EXCEPT ![j].tries = @ + 1]
  /\ UNCHANGED <<certs, cooling, account, late>>

(* A command fails; or the deadline has passed, and it is killed. *)
Broken(j) ==
  /\ \/ issue[j].at \in {"register", "issue"} /\ Fail(j)
     \/ issue[j].at = "install" /\ End(j) /\ UNCHANGED cooling
  /\ UNCHANGED <<certs, account, late>>
CommandFails(j) == Broken(j)
(* Wrong: the account is registered without the deadline. *)
KilledUnlessRegistering(j) == j[1] \in late /\ issue[j].at # "register" /\ Broken(j)
Killed(j) == j[1] \in late /\ Broken(j)

(* install-cert copies what acme.sh has into the directory of the name. *)
Install(j) ==
  /\ issue[j].at = "install"
  /\ Alive(j)
  /\ Name(j) \in dirs
  /\ files' = [files EXCEPT ![Name(j)] = kept[Name(j)]]
  /\ End(j)
  /\ UNCHANGED <<kept, dirs, proven, cooling, account, late>>

(* DELETE /certs/{fqdn} *)
RemoveCert(n) ==
  /\ n \in dirs
  /\ files' = [files EXCEPT ![n] = "none"]
  /\ dirs' = dirs \ {n}
  /\ UNCHANGED <<kept, proven, cooling, account, late, issue>>

-----------------------------------------------------------------------------
(* PUT /acme/email: first the database, then the issuer (SetEmail). *)
PutEmail(w, m) ==
  /\ writer[w] = <<>>
  /\ saved' = m
  /\ writer' = [writer EXCEPT ![w] = <<m>>]
  /\ UNCHANGED <<certs, cooling, email, ready, readyFor, accounts, late, issue>>

SetEmail(w) ==
  /\ writer[w] # <<>>
  /\ email' = writer[w][1]
  /\ ready' = (ready /\ email' = email)
  /\ writer' = [writer EXCEPT ![w] = <<>>]
  /\ UNCHANGED <<certs, cooling, saved, readyFor, accounts, late, issue>>

-----------------------------------------------------------------------------
(* Time and failure                                                        *)

DeadlinePasses(r) ==
  /\ Working(r) # {}
  /\ r \notin late
  /\ late' = late \cup {r}
  /\ UNCHANGED <<certs, cooling, account, issue>>

CooldownEnds(n) ==
  /\ n \in cooling
  /\ cooling' = cooling \ {n}
  /\ UNCHANGED <<certs, account, late, issue>>

(* Two months pass: the certificate is due, and the authority asks for a   *)
(* challenge again.                                                        *)
Ages(n) ==
  /\ kept[n] = "fresh" \/ files[n] = "fresh" \/ n \in proven
  /\ files' = [files EXCEPT ![n] = IF @ = "fresh" THEN "due" ELSE @]
  /\ kept' = [kept EXCEPT ![n] = IF @ = "fresh" THEN "due" ELSE @]
  /\ proven' = proven \ {n}
  /\ UNCHANGED <<dirs, cooling, account, late, issue>>

(* GateBox starts again: the e-mail comes from the database, the rest of   *)
(* the issuer's memory is gone.                                            *)
ProcessDies ==
  /\ issue' = [j \in Jobs |-> NoIssue]
  /\ writer' = [w \in Editors |-> <<>>]
  /\ cooling' = {}
  /\ email' = saved
  /\ ready' = FALSE
  /\ readyFor' = NoEmail
  /\ UNCHANGED <<certs, saved, accounts, late>>

-----------------------------------------------------------------------------
CertInit ==
  /\ files = [n \in Names |-> "none"]
  /\ kept = [n \in Names |-> "none"]
  /\ dirs = {}
  /\ proven = {}
  /\ cooling = {}
  /\ saved \in {NoEmail} \cup Emails
  /\ email = saved
  /\ ready = FALSE
  /\ readyFor = NoEmail
  /\ accounts = {}
  /\ writer = [w \in Editors |-> <<>>]
  /\ late = {}
  /\ issue = [j \in Jobs |-> NoIssue]

JobStep(j) ==
  \/ CheckFresh(j) \/ Prepare(j) \/ Hook(j) \/ Account(j) \/ Registered(j)
  \/ Issued(j) \/ NotChanged(j) \/ Retry(j) \/ CommandFails(j) \/ Install(j)
CertNext ==
  \/ \E r \in Runs : BeginIssuing(r) \/ DeadlinePasses(r)
  \/ \E j \in Jobs : Renew(j) \/ JobStep(j) \/ Killed(j)
  \/ \E n \in Names : RemoveCert(n) \/ CooldownEnds(n) \/ Ages(n)
  \/ \E w \in Editors : SetEmail(w) \/ \E m \in Emails \cup {NoEmail} : PutEmail(w, m)
  \/ ProcessDies

CertSpec == CertInit /\ [][CertNext]_certvars

(* A job's own code runs on, and a context that has a deadline kills what  *)
(* it started; how a command ends is up to acme.sh.                        *)
OwnStep(j) == CheckFresh(j) \/ Prepare(j) \/ Hook(j) \/ Account(j)
CertFairness ==
  /\ \A j \in Jobs : WF_certvars(OwnStep(j)) /\ WF_certvars(Killed(j))
  /\ \A r \in Runs : WF_certvars(DeadlinePasses(r))

-----------------------------------------------------------------------------
(* An e-mail that need not be registered again has an account, whatever is *)
(* set while a registration is under way.                                  *)
ReadyMeansRegistered ==
  ready /\ readyFor = email => email \in accounts

(* Stronger and inductive: what was registered last has an account, whether *)
(* or not the e-mail has changed since.                                     *)
LastIsRegistered == ready => readyFor \in accounts

(* The steps of jobs and requests that have nothing to do with accounts.    *)
LEMMA OthersKeepAccounts ==
  ASSUME NEW j \in Jobs,
         CheckFresh(j) \/ Prepare(j) \/ Hook(j) \/ Account(j) \/ Issued(j) \/ NotChanged(j)
         \/ Retry(j) \/ CommandFails(j) \/ Install(j) \/ Killed(j) \/ Renew(j)
  PROVE  UNCHANGED account
BY DEF CheckFresh, Prepare, Hook, Account, Issued, NotChanged, Retry, CommandFails, Killed, Broken,
       Install, Renew

(* However many runs, renewals and changes of the e-mail overlap, with       *)
(* deadlines and restarts, the account an issue relies on has been           *)
(* registered with the authority.                                            *)
THEOREM AccountsExist == CertSpec => []ReadyMeansRegistered
<1>1. CertInit => LastIsRegistered
  BY DEF CertInit, LastIsRegistered
<1>2. LastIsRegistered /\ [CertNext]_certvars => LastIsRegistered'
  <2> SUFFICES ASSUME LastIsRegistered, [CertNext]_certvars
               PROVE  LastIsRegistered'
    OBVIOUS
  <2> USE DEF LastIsRegistered
  <2>1. CASE UNCHANGED account
    BY <2>1 DEF account
  <2>2. ASSUME NEW r \in Runs, BeginIssuing(r) \/ DeadlinePasses(r)
        PROVE  LastIsRegistered'
    BY <2>2, <2>1 DEF BeginIssuing, DeadlinePasses
  <2>3. ASSUME NEW j \in Jobs, Registered(j)
        PROVE  LastIsRegistered'
    \* The account is that of the e-mail the command was given.
    BY <2>3 DEF Registered
  <2>4. ASSUME NEW j \in Jobs, Renew(j) \/ JobStep(j) \/ Killed(j)
        PROVE  LastIsRegistered'
    BY <2>4, <2>3, <2>1, OthersKeepAccounts DEF JobStep
  <2>5. ASSUME NEW n \in Names, RemoveCert(n) \/ CooldownEnds(n) \/ Ages(n)
        PROVE  LastIsRegistered'
    BY <2>5, <2>1 DEF RemoveCert, CooldownEnds, Ages
  <2>6. ASSUME NEW w \in Editors, SetEmail(w)
        PROVE  LastIsRegistered'
    \* The issuer may forget that it is ready, never the other way.
    BY <2>6 DEF SetEmail
  <2>7. ASSUME NEW w \in Editors, NEW m \in Emails \cup {NoEmail}, PutEmail(w, m)
        PROVE  LastIsRegistered'
    BY <2>7 DEF PutEmail
  <2>8. CASE ProcessDies
    BY <2>8 DEF ProcessDies
  <2>9. CASE UNCHANGED certvars
    BY <2>9, <2>1 DEF certvars
  <2> QED
    BY <2>2, <2>4, <2>5, <2>6, <2>7, <2>8, <2>9 DEF CertNext
<1>3. LastIsRegistered => ReadyMeansRegistered
  BY DEF LastIsRegistered, ReadyMeansRegistered
<1> QED
  BY <1>1, <1>2, <1>3, PTL DEF CertSpec
=============================================================================
