---------------------------- MODULE DaemonConfig ----------------------------
(* The page of the Docker daemon's own settings (handler/docker_registry.go):
   daemon.json is read, the three fields of the white list are replaced, the
   file is written over in place and the daemon is told by a signal to read
   it again. External: the daemon, which keeps what it runs when it cannot
   read the file, and the file system. *)
EXTENDS Integers, FiniteSets

CONSTANTS Clients,     \* requests under way
          Settings,    \* values of the white list
          Foreign,     \* what the rest of the file says
          MaxUpdates   \* how many updates are asked for

VARIABLES
    file,              \* [text, wl, rest]: text is "json", "empty" or "garbled"
    running,           \* the settings the daemon runs
    upd,               \* upd[c]: a request of updateDaemon
    left,              \* updates that may still be asked for
    mishap,            \* a write or a signal failed, the process died, or two
                       \* updates met
    unread             \* the file could not be read and was replaced all the same

vars == <<file, running, upd, left, mishap, unread>>

Idle == [at |-> "idle"]
Busy == {c \in Clients : upd[c] /= Idle}

Init == /\ running \in Settings
        /\ file = [text |-> "json", wl |-> running, rest |-> Foreign]
        /\ upd = [c \in Clients |-> Idle]
        /\ left = MaxUpdates
        /\ mishap = FALSE
        /\ unread = FALSE

(* readDaemonWhiteList: what the page is shown when the file can be read; the
   daemon's own word otherwise (getDaemon). *)
View == IF file.text = "json" THEN file.wl ELSE running

(* updateDaemon, once probeDaemonJSON has found the file writable. *)
Update(c, wl) ==
    /\ upd[c] = Idle /\ left > 0
    /\ left' = left - 1
    /\ mishap' = (mishap \/ Busy /= {})
    /\ upd' = [upd EXCEPT ![c] = [at |-> "read", wl |-> wl]]
    /\ UNCHANGED <<file, running, unread>>

(* Wrong: a file that is no JSON is taken for one that says nothing. *)
ReadFileAnyway(c) ==
    /\ upd[c].at = "read"
    /\ upd' = [upd EXCEPT ![c] = [at |-> "truncate", wl |-> upd[c].wl,
                                 rest |-> IF file.text = "json" THEN file.rest ELSE "nothing"]]
    /\ UNCHANGED <<file, running, left, mishap, unread>>

(* writeDaemonWhiteList reads the whole file; one that is no JSON is an error
   and is left as it is (one that is JSON's null says nothing else). *)
ReadFile(c) ==
    /\ upd[c].at = "read"
    /\ upd' = [upd EXCEPT ![c] =
                 IF file.text = "json"
                 THEN [at |-> "truncate", wl |-> upd[c].wl, rest |-> file.rest]
                 ELSE Idle]
    /\ UNCHANGED <<file, running, left, mishap, unread>>

(* A file that cannot be read is taken for one that says nothing: the probe
   has only tried whether it can be written. *)
ReadFails(c) ==
    /\ upd[c].at = "read"
    /\ upd' = [upd EXCEPT ![c] = [at |-> "truncate", wl |-> upd[c].wl, rest |-> "nothing"]]
    /\ unread' = TRUE
    /\ UNCHANGED <<file, running, left, mishap>>

(* os.WriteFile empties the file, then writes it. *)
Truncate(c) ==
    /\ upd[c].at = "truncate"
    /\ file' = [file EXCEPT !.text = "empty"]
    /\ upd' = [upd EXCEPT ![c].at = "write"]
    /\ UNCHANGED <<running, left, mishap, unread>>

(* Written over what another has written since: the longer text shows through. *)
WriteFile(c) ==
    /\ upd[c].at = "write"
    /\ \E text \in IF file.text = "empty" THEN {"json"} ELSE {"json", "garbled"} :
         file' = [text |-> text, wl |-> upd[c].wl, rest |-> upd[c].rest]
    /\ upd' = [upd EXCEPT ![c].at = "reload"]
    /\ UNCHANGED <<running, left, mishap, unread>>

(* It cannot be opened, or written once it is empty. *)
WriteFails(c) ==
    /\ upd[c].at \in {"truncate", "write"}
    /\ upd' = [upd EXCEPT ![c] = Idle]
    /\ mishap' = TRUE
    /\ UNCHANGED <<file, running, left, unread>>

(* reloadDaemon: SIGHUP; the daemon reads the file, or keeps what it has. *)
Reload(c) ==
    /\ upd[c].at = "reload"
    /\ running' = IF file.text = "json" THEN file.wl ELSE running
    /\ upd' = [upd EXCEPT ![c] = Idle]
    /\ UNCHANGED <<file, left, mishap, unread>>

(* The daemon's process is not found: the file stays written. *)
ReloadFails(c) ==
    /\ upd[c].at = "reload"
    /\ upd' = [upd EXCEPT ![c] = Idle]
    /\ mishap' = TRUE
    /\ UNCHANGED <<file, running, left, unread>>

Crash ==
    /\ Busy /= {}
    /\ upd' = [c \in Clients |-> Idle]
    /\ mishap' = TRUE
    /\ UNCHANGED <<file, running, left, unread>>

Next == \/ \E c \in Clients : \/ \E wl \in Settings : Update(c, wl)
                              \/ ReadFile(c) \/ ReadFails(c) \/ Truncate(c)
                              \/ WriteFile(c) \/ WriteFails(c)
                              \/ Reload(c) \/ ReloadFails(c)
        \/ Crash

Spec == Init /\ [][Next]_vars

-----------------------------------------------------------------------------
(* The fields outside the white list are the user's: whatever dies or overlaps
   and whichever write or signal fails, a file that can be read still has them;
   it is not replaced by one made from nothing (writeDaemonWhiteList,
   docker_registry.go:279-303), unless a read of it has failed: then it is, and
   the promise of line 279, that all other fields are kept as they are, is
   broken. And without a mishap, once no update is under way the page shows what
   the daemon runs, and that is the file (docker_registry.go:190-258). *)
SettingsKept ==
    /\ file.text = "json" /\ ~unread => file.rest = Foreign
    /\ (~mishap /\ Busy = {}) => file.text = "json" /\ View = running /\ running = file.wl
=============================================================================
