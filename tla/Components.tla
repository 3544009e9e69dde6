----------------------------- MODULE Components -----------------------------
(***************************************************************************)
(* The built-in components: their binaries, which an upgrade replaces by   *)
(* the newest release and a plugin's capability by a variant with the      *)
(* features the enabled plugins ask for (internal/component,               *)
(* internal/source, internal/handler/components.go).                       *)
(*                                                                         *)
(* What a plugin request does to the plugin is one step here; its parts    *)
(* are those of PluginLifecycle.  No built-in component is `runnable' or   *)
(* `Removable', so start, stop and uninstall always refuse.                *)
(***************************************************************************)
EXTENDS Naturals, FiniteSets

CONSTANTS
  Ids,        (* components                                                *)
  Units,      (* those of them that are services of systemd                *)
  Plugins,
  Features,
  Asks,       (* per plugin the pairs of a component and a feature         *)
  Releases,   (* number of releases there may be of a component            *)
  Threads     (* goroutines serving requests                               *)

VARIABLES
  file,     (* per component the binary at its path                        *)
  tmp,      (* the one that was written beside it                          *)
  applied,  (* per component the key of the variant that was applied last  *)
  running,  (* per unit the binary its process was started from            *)
  latest,   (* per component the newest release                            *)
  on,       (* plugins whose capabilities are registered                   *)
  op        (* per goroutine what it is about to do                        *)

disk == <<file, tmp>>
vars == <<disk, applied, running, latest, on, op>>

None == [version |-> 0, features |-> {}]  \* no binary, or no key

Idle == [at |-> "idle", comp |-> CHOOSE c \in Ids : TRUE, todo |-> {}, variant |-> FALSE, bin |-> None]
Variant(v, fs) == [version |-> v, features |-> fs]

(* ComponentFeatures: what the registered plugins ask of a component. *)
ComponentFeatures(c, ps) == {f \in Features : \E p \in ps : <<c, f>> \in Asks[p]}
Affected(p) == {a[1] : a \in Asks[p]}

Goto(t, at) == op' = [op EXCEPT ![t].at = at]

(* An upgrade ends with an error; a plugin request is only logged and goes *)
(* on with the next component.                                             *)
GiveUp(t) ==
  op' = [op EXCEPT ![t] = IF op[t].variant THEN [@ EXCEPT !.at = "next"] ELSE Idle]

-----------------------------------------------------------------------------
(* Requests                                                                *)

(* POST enable, POST disable, DELETE and purge of a plugin. *)
Plugin(t, p, ps) ==
  /\ op[t].at = "idle"
  /\ on' = ps
  /\ op' = [op EXCEPT ![t] =
       [Idle EXCEPT !.at = "next", !.todo = Affected(p), !.variant = TRUE]]
  /\ UNCHANGED <<disk, applied, running, latest>>
Enable(t, p)  == Plugin(t, p, on \cup {p})
Disable(t, p) == Plugin(t, p, on \ {p})

(* DELETE /store/{id}: the same, without a look at the components. *)
StoreRemove(p) ==
  /\ p \in on
  /\ on' = on \ {p}
  /\ UNCHANGED <<disk, applied, running, latest, op>>

(* POST /components/{id}/upgrade *)
Upgrade(t, c) ==
  /\ op[t].at = "idle"
  /\ op' = [op EXCEPT ![t] = [Idle EXCEPT !.at = "fetch", !.comp = c]]
  /\ UNCHANGED <<disk, applied, running, latest, on>>

(* POST /components/{id}/restart *)
AskRestart(t, c) ==
  /\ op[t].at = "idle"
  /\ op' = [op EXCEPT ![t] = [Idle EXCEPT !.at = "restart", !.comp = c]]
  /\ UNCHANGED <<disk, applied, running, latest, on>>

-----------------------------------------------------------------------------
(* applyVariantsFor and ApplyVariant                                       *)

(* The next component; with none left the request is done. *)
Choose(t) ==
  /\ op[t].at = "next"
  /\ IF op[t].todo = {}
     THEN op' = [op EXCEPT ![t] = Idle]
     ELSE \E c \in op[t].todo :
            op' = [op EXCEPT ![t].at = "probe", ![t].comp = c, ![t].todo = @ \ {c}]
  /\ UNCHANGED <<disk, applied, running, latest, on>>

(* The version is asked of the binary; an unknown one ends the matter. *)
Probe(t) ==
  /\ op[t].at = "probe"
  /\ file[op[t].comp] # None
  /\ op' = [op EXCEPT ![t].at = "features", ![t].bin = file[op[t].comp]]
  /\ UNCHANGED <<disk, applied, running, latest, on>>

VersionUnknown(t) ==
  /\ op[t].at = "probe"
  /\ GiveUp(t)
  /\ UNCHANGED <<disk, applied, running, latest, on>>

(* Wrong: the features are those the binary has. *)
ReadOwnFeatures(t) ==
  /\ op[t].at = "features"
  /\ Goto(t, "check")
  /\ UNCHANGED <<disk, applied, running, latest, on>>

ReadFeatures(t) ==
  /\ op[t].at = "features"
  /\ op' = [op EXCEPT ![t].at = "check",
              ![t].bin = Variant(@.version, ComponentFeatures(op[t].comp, on))]
  /\ UNCHANGED <<disk, applied, running, latest, on>>

(* A variant that was applied last is not fetched again while there is a   *)
(* binary, whichever it is; the component is restarted all the same.       *)
CheckApplied(t) ==
  /\ op[t].at = "check"
  /\ Goto(t, IF applied[op[t].comp] = op[t].bin /\ file[op[t].comp] # None
             THEN "restart" ELSE "fetch")
  /\ UNCHANGED <<disk, applied, running, latest, on>>

(* The index holds the variant, and its digest is right; or, for an        *)
(* upgrade, the newest release has an asset for this machine.              *)
Fetch(t) ==
  /\ op[t].at = "fetch"
  /\ op' = [op EXCEPT ![t].at = "aside",
              ![t].bin = IF op[t].variant THEN @ ELSE Variant(latest[op[t].comp], {})]
  /\ UNCHANGED <<disk, applied, running, latest, on>>

(* InstallAtomic: the binary is moved aside, the new one is written to a   *)
(* file beside it and moved into its place.                                *)
MoveAside(t) ==
  /\ op[t].at = "aside"
  /\ file' = [file EXCEPT ![op[t].comp] = None]
  /\ Goto(t, "write")
  /\ UNCHANGED <<tmp, applied, running, latest, on>>

WriteTmp(t) ==
  /\ op[t].at = "write"
  /\ tmp' = [tmp EXCEPT ![op[t].comp] = op[t].bin]
  /\ Goto(t, "rename")
  /\ UNCHANGED <<file, applied, running, latest, on>>

MoveIn(t) ==
  /\ op[t].at = "rename"
  /\ tmp[op[t].comp] # None
  /\ file' = [file EXCEPT ![op[t].comp] = tmp[op[t].comp]]
  /\ tmp' = [tmp EXCEPT ![op[t].comp] = None]
  /\ op' = [op EXCEPT ![t] = IF op[t].variant THEN [@ EXCEPT !.at = "record"] ELSE Idle]
  /\ UNCHANGED <<applied, running, latest, on>>

(* A step that may fail does: nothing is moved back. *)
Failing == {"fetch", "write", "rename"}
StepFails(t) ==
  /\ op[t].at \in Failing
  /\ GiveUp(t)
  /\ UNCHANGED <<disk, applied, running, latest, on>>

Record(t) ==
  /\ op[t].at = "record"
  /\ applied' = [applied EXCEPT ![op[t].comp] = op[t].bin]
  /\ Goto(t, "restart")
  /\ UNCHANGED <<disk, running, latest, on>>

(* Restart: systemd starts the unit again from what is at its path now.    *)
(* When systemd cannot be asked, the configuration is loaded again and the *)
(* process stays what it is.  A component without a unit needs nothing.    *)
After(t) == op' = [op EXCEPT ![t] = IF op[t].variant THEN [@ EXCEPT !.at = "next"] ELSE Idle]
Restart(t) ==
  /\ op[t].at = "restart"
  /\ running' = [u \in Units |-> IF u = op[t].comp THEN file[u] ELSE running[u]]
  /\ After(t)
  /\ UNCHANGED <<disk, applied, latest, on>>
Reload(t) ==
  /\ op[t].at = "restart"
  /\ op[t].comp \in Units
  /\ After(t)
  /\ UNCHANGED <<disk, applied, running, latest, on>>

-----------------------------------------------------------------------------
(* Someone else publishes a release. *)
Release(c) ==
  /\ latest[c] < Releases
  /\ latest' = [latest EXCEPT ![c] = @ + 1]
  /\ UNCHANGED <<disk, applied, running, on, op>>

(* GateBox starts again: what was applied is forgotten, the units run on. *)
Crash ==
  /\ op' = [t \in Threads |-> Idle]
  /\ applied' = [c \in Ids |-> None]
  /\ UNCHANGED <<disk, running, latest, on>>

Init ==
  /\ file = [c \in Ids |-> Variant(1, {})]
  /\ tmp = [c \in Ids |-> None]
  /\ applied = [c \in Ids |-> None]
  /\ running = [u \in Units |-> Variant(1, {})]
  /\ latest = [c \in Ids |-> 1]
  /\ on = {}
  /\ op = [t \in Threads |-> Idle]

Request(t) ==
  \/ \E p \in Plugins : Enable(t, p) \/ Disable(t, p)
  \/ \E c \in Ids : Upgrade(t, c) \/ AskRestart(t, c)
Step(t) ==
  \/ Choose(t) \/ Probe(t) \/ VersionUnknown(t) \/ ReadFeatures(t) \/ CheckApplied(t)
  \/ Fetch(t) \/ MoveAside(t) \/ WriteTmp(t) \/ MoveIn(t) \/ StepFails(t)
  \/ Record(t) \/ Restart(t) \/ Reload(t)
Next ==
  \/ \E t \in Threads : Request(t) \/ Step(t)
  \/ \E c \in Ids : Release(c)
  \/ \E p \in Plugins : StoreRemove(p)
  \/ Crash

Spec == Init /\ [][Next]_vars
=============================================================================
