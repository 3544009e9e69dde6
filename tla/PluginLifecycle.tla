--------------------------- MODULE PluginLifecycle ---------------------------
(***************************************************************************)
(* The life of one plugin with a backend of its own (kind: process):       *)
(* internal/plugin/plugin.go and sidecar.go.  The stored state, the        *)
(* artifacts under tools/<id>, the pid file, the sidecar processes, which  *)
(* survive the control plane, and the plugin's entry in the registry of    *)
(* extensions.  The manager has no lock: a request changes them one by one *)
(* while others do the same.                                               *)
(*                                                                         *)
(* The plugin is in the catalog.  Pids, ports and tokens are numbers used  *)
(* once.  Writes of the store and of the pid file do not fail.             *)
(***************************************************************************)
EXTENDS Naturals, FiniteSets

CONSTANTS
  Requests,     (* goroutines serving /api/v1/plugins/{id}                  *)
  MaxFresh,     (* bound: pids, ports and tokens                            *)
  MaxCalls,     (* bound: requests                                          *)
  MaxStops      (* bound: crashes and shutdowns of the control plane, and   *)
                (* sidecars that die                                        *)

Main    == "main"     (* main(): starts, resumes and stops the sidecars     *)
Goroutines == Requests \cup {Main}
Calls   == {"install", "enable", "disable", "remove", "purge"}

None    == 0
Missing == [state |-> "missing", port |-> None, token |-> None]
NoLocal == [task |-> "none", st |-> Missing, pid |-> None]

VARIABLES
  stored,     (* the plugin's record in the bucket plugins                 *)
  binary,     (* the sidecar's binary is in tools/<id>                     *)
  pidfile,    (* the pid in <id>-sidecar.pid                               *)
  procs,      (* the sidecars that are running                             *)
  registry,   (* the extension registry has the plugin                     *)
  fresh,      (* numbers used                                              *)
  calls,      (* requests so far                                           *)
  stops,      (* crashes, shutdowns and deaths so far                      *)
  pc,         (* [Goroutines -> where it is]                                  *)
  local       (* [Goroutines -> what it does, the record it has read, the pid *)
              (* it has started]                                           *)

disk   == <<stored, binary, pidfile>>
counts == <<fresh, calls, stops>>
vars   == <<stored, binary, pidfile, procs, registry, fresh, calls, stops, pc, local>>

GoTo(t, p) == pc' = [pc EXCEPT ![t] = p]

(* Manager.state: a plugin without a record is available. *)
State == IF stored.state = "missing" THEN [stored EXCEPT !.state = "available"] ELSE stored

(* ensureTokenPort: what the record has not got yet. *)
FreePort == fresh + 2
EnsureTokenPort(st) ==
  [st EXCEPT !.token = IF @ = None THEN fresh + 1 ELSE @,
             !.port  = IF @ = None THEN FreePort ELSE @]

(* The environment of a sidecar tells it its port and its token. *)
SidecarEnv(st) == [port |-> st.port, token |-> st.token]
ProcessAlive(pid) == \E q \in procs : q.pid = pid

(* Proxy forwards a request to the stored port, authorized by the stored   *)
(* token: does this sidecar get it?                                        *)
Forwards(q) == q.env = SidecarEnv(stored)

Init ==
  /\ stored = Missing /\ binary = FALSE /\ pidfile = None /\ procs = {} /\ registry = FALSE
  /\ fresh = 0 /\ calls = 0 /\ stops = 0
  /\ pc = [t \in Goroutines |-> IF t = Main THEN "unregister" ELSE "idle"]
  /\ local = [t \in Goroutines |-> IF t = Main THEN [NoLocal EXCEPT !.task = "boot"] ELSE NoLocal]

-----------------------------------------------------------------------------
(* Requests, served as soon as main has built the manager                  *)

FirstStep(call) == IF call \in {"install", "enable"} THEN "load" ELSE "kill"

Call(t) ==
  /\ t \in Requests /\ pc[t] = "idle" /\ local[Main].task \in {"none", "resume", "exit"}
  /\ pc[Main] # "down"
  /\ calls < MaxCalls /\ calls' = calls + 1
  /\ \E call \in Calls :
       /\ local' = [local EXCEPT ![t] = [NoLocal EXCEPT !.task = call]]
       /\ GoTo(t, FirstStep(call))
  /\ UNCHANGED <<disk, procs, registry, fresh, stops>>

(* Install, and transition for Enable and Disable. *)
Load(t) ==
  /\ pc[t] = "load"
  /\ \/ /\ local[t].task = "install"
        /\ fresh + 2 <= MaxFresh
        /\ fresh' = IF None \in {State.token, State.port} THEN fresh + 2 ELSE fresh
        /\ local' = [local EXCEPT ![t].st = EnsureTokenPort(State)]
        /\ GoTo(t, "download")
     \/ /\ local[t].task = "enable" /\ State.state = "available"
        /\ local' = [local EXCEPT ![t] = NoLocal]
        /\ GoTo(t, "idle")
        /\ UNCHANGED fresh
     \/ /\ local[t].task = "disable" \/ (local[t].task = "enable" /\ State.state # "available")
        /\ local' = [local EXCEPT ![t].st = State]
        /\ GoTo(t, "save")
        /\ UNCHANGED fresh
  /\ UNCHANGED <<disk, procs, registry, calls, stops>>

Download(t) ==
  /\ pc[t] = "download"
  /\ binary' = TRUE
  /\ GoTo(t, "save")
  /\ UNCHANGED <<stored, pidfile, procs, registry, counts, local>>

(* A later artifact may be the one that fails. *)
DownloadFails(t) ==
  /\ pc[t] = "download"
  /\ binary' \in {binary, TRUE}
  /\ GoTo(t, "fail")
  /\ UNCHANGED <<stored, pidfile, procs, registry, counts, local>>

Outcome == [install |-> "installed", enable |-> "enabled", disable |-> "disabled",
            remove |-> "available"]

Save(t) ==
  /\ pc[t] = "save"
  /\ stored' = [local[t].st EXCEPT !.state = Outcome[local[t].task],
                                   !.port  = IF local[t].task = "remove" THEN None ELSE @]
  /\ GoTo(t, "unregister")
  /\ UNCHANGED <<binary, pidfile, procs, registry, counts, local>>

(* Remove and Purge delete tools/<id> ... *)
Wipe(t) ==
  /\ pc[t] = "wipe"
  /\ binary' = FALSE /\ pidfile' = None
  /\ GoTo(t, "delete")
  /\ UNCHANGED <<stored, procs, registry, counts, local>>

(* ... and then the record, or the part of it that Remove does not keep. *)
Delete(t) ==
  /\ pc[t] = "delete"
  /\ \/ /\ local[t].task = "remove" /\ stored.state # "missing"
        /\ local' = [local EXCEPT ![t].st = stored]
        /\ GoTo(t, "save")
        /\ UNCHANGED stored
     \/ /\ local[t].task = "purge" \/ stored.state = "missing"
        /\ stored' = Missing
        /\ GoTo(t, "unregister")
        /\ UNCHANGED local
  /\ UNCHANGED <<binary, pidfile, procs, registry, counts>>

-----------------------------------------------------------------------------
(* Refresh: the plugin leaves the registry and returns if it is enabled    *)

Unregister(t) ==
  /\ pc[t] = "unregister"
  /\ registry' = FALSE
  /\ GoTo(t, "list")
  /\ UNCHANGED <<disk, procs, counts, local>>

List(t) ==
  /\ pc[t] = "list"
  /\ local' = [local EXCEPT ![t].st = stored]
  /\ GoTo(t, "register")
  /\ UNCHANGED <<disk, procs, registry, counts>>

(* Then Enable starts the sidecar, main resumes the plugins that are       *)
(* enabled, and the other requests are done.                               *)
Register(t) ==
  /\ pc[t] = "register"
  /\ registry' = (registry \/ local[t].st.state = "enabled")
  /\ \/ /\ local[t].task = "enable"
        /\ GoTo(t, "start")
        /\ UNCHANGED local
     \/ /\ local[t].task = "boot"
        /\ local' = [local EXCEPT ![t].task = "resume"]
        /\ GoTo(t, "list")
     \/ /\ local[t].task \notin {"enable", "boot", "resume"}
        /\ local' = [local EXCEPT ![t] = NoLocal]
        /\ GoTo(t, "idle")
  /\ UNCHANGED <<disk, procs, counts>>

Resume ==
  /\ pc[Main] = "register" /\ local[Main].task = "resume"
  /\ IF local[Main].st.state = "enabled"
     THEN GoTo(Main, "start") /\ UNCHANGED local
     ELSE GoTo(Main, "idle") /\ local' = [local EXCEPT ![Main] = NoLocal]
  /\ UNCHANGED <<disk, procs, registry, counts>>

-----------------------------------------------------------------------------
(* StartSidecar and StopSidecar                                            *)

Failed(t) == IF t = Main THEN "message" ELSE "fail"

Start(t) ==
  /\ pc[t] = "start"
  /\ local' = [local EXCEPT ![t].st = State]
  /\ GoTo(t, IF binary THEN "kill" ELSE Failed(t))
  /\ UNCHANGED <<disk, procs, registry, counts>>

(* stopByPidFile *)
Kill(t) ==
  /\ pc[t] = "kill"
  /\ procs' = {q \in procs : q.pid # pidfile}
  /\ GoTo(t, "unlink")
  /\ UNCHANGED <<disk, registry, counts, local>>

Unlinked == [enable |-> "port", resume |-> "port", disable |-> "load",
             remove |-> "wipe", purge |-> "wipe", exit |-> "down"]
Unlink(t) ==
  /\ pc[t] = "unlink"
  /\ pidfile' = None
  /\ GoTo(t, Unlinked[local[t].task])
  /\ UNCHANGED <<stored, binary, procs, registry, counts, local>>

(* Wrong: the new port is not stored. *)
NewPortUnsaved(t) ==
  /\ pc[t] = "port"
  /\ fresh + 2 <= MaxFresh /\ fresh' = fresh + 2
  /\ local' = [local EXCEPT ![t].st = EnsureTokenPort([@ EXCEPT !.port = FreePort])]
  /\ stored' = [local'[t].st EXCEPT !.port = local[t].st.port]
  /\ GoTo(t, "exec")
  /\ UNCHANGED <<binary, pidfile, procs, registry, calls, stops>>

(* A new port is stored with the record read in Start. *)
NewPort(t) ==
  /\ pc[t] = "port"
  /\ fresh + 2 <= MaxFresh /\ fresh' = fresh + 2
  /\ local' = [local EXCEPT ![t].st = EnsureTokenPort([@ EXCEPT !.port = FreePort])]
  /\ stored' = local'[t].st
  /\ GoTo(t, "exec")
  /\ UNCHANGED <<binary, pidfile, procs, registry, calls, stops>>

Exec(t) ==
  /\ pc[t] = "exec" /\ binary
  /\ fresh < MaxFresh /\ fresh' = fresh + 1
  /\ procs' = procs \cup {[pid |-> fresh + 1, env |-> SidecarEnv(local[t].st)]}
  /\ local' = [local EXCEPT ![t].pid = fresh + 1]
  /\ GoTo(t, "pid")
  /\ UNCHANGED <<disk, registry, calls, stops>>

ExecFails(t) ==
  /\ pc[t] = "exec"
  /\ GoTo(t, Failed(t))
  /\ UNCHANGED <<disk, procs, registry, counts, local>>

WritePid(t) ==
  /\ pc[t] = "pid"
  /\ pidfile' = local[t].pid
  /\ GoTo(t, "alive")
  /\ UNCHANGED <<stored, binary, procs, registry, counts, local>>

(* After 300 ms *)
Alive(t) ==
  /\ pc[t] = "alive"
  /\ IF ProcessAlive(local[t].pid)
     THEN GoTo(t, "idle") /\ local' = [local EXCEPT ![t] = NoLocal]
     ELSE GoTo(t, Failed(t)) /\ UNCHANGED local
  /\ UNCHANGED <<disk, procs, registry, counts>>

-----------------------------------------------------------------------------
(* Failures                                                                *)

Fail(t) ==
  /\ pc[t] = "fail"
  /\ local' = [local EXCEPT ![t] = [@ EXCEPT !.task = "none", !.st = State]]
  /\ GoTo(t, "failsave")
  /\ UNCHANGED <<disk, procs, registry, counts>>

(* Wrong: the registry is not refreshed. *)
FailSaveOnly(t) ==
  /\ pc[t] = "failsave"
  /\ stored' = [local[t].st EXCEPT !.state = "error"]
  /\ local' = [local EXCEPT ![t] = NoLocal]
  /\ GoTo(t, "idle")
  /\ UNCHANGED <<binary, pidfile, procs, registry, counts>>

FailSave(t) ==
  /\ pc[t] = "failsave"
  /\ stored' = [local[t].st EXCEPT !.state = "error"]
  /\ GoTo(t, "unregister")
  /\ UNCHANGED <<binary, pidfile, procs, registry, counts, local>>

(* SetMessage stores the record as it read it. *)
Message ==
  /\ pc[Main] = "message"
  /\ local' = [local EXCEPT ![Main].st = State]
  /\ GoTo(Main, "messagesave")
  /\ UNCHANGED <<disk, procs, registry, counts>>

MessageSave ==
  /\ pc[Main] = "messagesave"
  /\ stored' = local[Main].st
  /\ local' = [local EXCEPT ![Main] = NoLocal]
  /\ GoTo(Main, "idle")
  /\ UNCHANGED <<binary, pidfile, procs, registry, counts>>

-----------------------------------------------------------------------------
(* The control plane stops and starts                                      *)

Stop == stops < MaxStops /\ stops' = stops + 1

(* main on SIGTERM: StopAllSidecars, while requests are still served. *)
Exit ==
  /\ pc[Main] = "idle" /\ Stop
  /\ local' = [local EXCEPT ![Main].task = "exit"]
  /\ GoTo(Main, IF stored.state = "missing" THEN "down" ELSE "kill")
  /\ UNCHANGED <<disk, procs, registry, fresh, calls>>

Restarted ==
  /\ registry' = FALSE
  /\ pc' = [t \in Goroutines |-> IF t = Main THEN "unregister" ELSE "idle"]
  /\ local' = [t \in Goroutines |-> IF t = Main THEN [NoLocal EXCEPT !.task = "boot"] ELSE NoLocal]

(* srv.Shutdown has waited for the requests; the next start follows. *)
StartAgain ==
  /\ pc[Main] = "down" /\ \A t \in Requests : pc[t] = "idle"
  /\ Restarted
  /\ UNCHANGED <<disk, procs, counts>>

Crash ==
  /\ Stop /\ Restarted
  /\ UNCHANGED <<disk, procs, fresh, calls>>

(* A sidecar ends by itself. *)
Die ==
  /\ Stop
  /\ \E q \in procs : procs' = procs \ {q}
  /\ UNCHANGED <<disk, registry, fresh, calls, pc, local>>

ManagerStep(t) ==
  \/ Load(t) \/ Download(t) \/ DownloadFails(t) \/ Save(t) \/ Wipe(t) \/ Delete(t)
  \/ Unregister(t) \/ List(t) \/ Register(t)
  \/ Start(t) \/ Kill(t) \/ Unlink(t) \/ NewPort(t) \/ Exec(t) \/ ExecFails(t)
  \/ WritePid(t) \/ Alive(t) \/ Fail(t) \/ FailSave(t)

Next ==
  \/ \E t \in Requests : Call(t)
  \/ \E t \in Goroutines : ManagerStep(t)
  \/ Resume \/ Message \/ MessageSave
  \/ Exit \/ StartAgain \/ Crash \/ Die

Spec == Init /\ [][Next]_vars
-----------------------------------------------------------------------------
(* Properties                                                              *)

Quiet == \A t \in Goroutines : pc[t] = "idle"

(* At most one sidecar runs, and the pid file, or the one about to write   *)
(* it, knows it: the next start or stop reaches it.                        *)
SidecarKnown ==
  /\ Cardinality(procs) <= 1
  /\ \A q \in procs : pidfile = q.pid \/ \E t \in Goroutines : pc[t] = "pid" /\ local[t].pid = q.pid

(* At rest the sidecar of a plugin that is disabled, removed or purged has *)
(* ended, and the registry has exactly the enabled plugin.                 *)
OffIsOff ==
  Quiet =>
    /\ stored.state \in {"missing", "available", "disabled"} => procs = {}
    /\ registry = (stored.state = "enabled")

(* A running sidecar listens on the port requests are forwarded to, and    *)
(* its token is the one it is authorized by.                               *)
SidecarReachable == \A q \in procs : Forwards(q)

-----------------------------------------------------------------------------
(* History: no two goroutines have worked on the plugin at once, and the   *)
(* control plane has not crashed between a start and its pid file.         *)
VARIABLE smooth
MCInit == Init /\ smooth = TRUE
MCNext ==
  /\ Next
  /\ smooth' = /\ smooth
               /\ Cardinality({t \in Goroutines : pc'[t] \notin {"idle", "down"}}) <= 1
               /\ Crash => \A t \in Goroutines : pc[t] # "pid"
MCSpec == MCInit /\ [][MCNext]_<<vars, smooth>>

(* One after the other, requests, failures, crashes and restarts never     *)
(* lose or duplicate the sidecar ...                                       *)
SmoothSidecarKnown == smooth => SidecarKnown

(* ... leave nothing of a plugin that is off, and nothing out of one that  *)
(* is on ...                                                               *)
SmoothOffIsOff == smooth => OffIsOff

(* ... and the sidecar stays reachable.                                    *)
SmoothSidecarReachable == smooth => SidecarReachable
=============================================================================
