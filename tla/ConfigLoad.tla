----------------------------- MODULE ConfigLoad -----------------------------
(***************************************************************************)
(* RAServer's configuration: /api/load makes it copy a version from the    *)
(* store into its local root (ConfigDownloader) and load the highest local *)
(* version (RaApp::loadConfig); a restarted server loads the highest local *)
(* version it finds.  Requests are handled one at a time, by the thread of *)
(* HttpServer's event loop.                                                *)
(*                                                                         *)
(* The store belongs to others: here it may change in any way at any time, *)
(* and a request may name any version.  Module ConfigDelivery composes     *)
(* these servers with the program that writes the store and calls them.    *)
(***************************************************************************)
EXTENDS Integers, FiniteSets, FiniteSetsExt

CONSTANTS
  Servers,      \* the RAServers
  MaxVersion,   \* bound: the highest configuration version
  MaxAtFirst,   \* bound: the version every server has at first, if any
  MaxCrashes    \* bound: crashes of all servers together

Versions == 1..MaxVersion
NoVersion == 0  \* no ConfigWrapper, or INVALID_CONFIG_VERSION

ASSUME LoadAssumption ==
  MaxVersion \in Nat \ {0} /\ MaxAtFirst \in 0..MaxVersion /\ MaxCrashes \in Nat

\* A version's directory: not there, without its sqlite file, with a part of
\* the file, with all of it.
Dir == {"absent", "empty", "torn", "full"}
\* In the store there may be a file in the place of the directory.
Entry == Dir \cup {"plain"}
\* A local version can be loaded or cannot.
Copy == {"absent", "good", "broken"}

VARIABLES
  store,        \* the versions under storagePath
  up, crashes,  \* which servers run; crashes so far
  local,        \* the versions in each server's local root
  app,          \* the version of RaApp::_configWrapper
  hpc, hver,    \* the request being handled: its step, the version it names
  temp          \* what was copied to the temporary directory

serverVars == <<up, crashes, local, app, hpc, hver, temp>>
loadVars == <<store, serverVars>>

Max0(S) == IF S = {} THEN NoVersion ELSE Max(S)

\* ConfigUtil::getMaxConfigVersion
GetMaxConfigVersion(s) == Max0({v \in Versions : local[s][v] # "absent"})

\* The versions up to n were made, and delivered, before.
Delivered(n) ==
  /\ store = [v \in Versions |-> IF v <= n THEN "full" ELSE "absent"]
  /\ up = [s \in Servers |-> TRUE] /\ crashes = 0
  /\ local = [s \in Servers |-> [v \in Versions |-> IF v <= n THEN "good" ELSE "absent"]]
  /\ app = [s \in Servers |-> n]
  /\ hpc = [s \in Servers |-> "idle"] /\ hver = [s \in Servers |-> NoVersion]
  /\ temp = [s \in Servers |-> "absent"]

LoadInit == \E n \in 0..MaxAtFirst : Delivered(n)

Becomes(s, step) == hpc' = [hpc EXCEPT ![s] = step]
-----------------------------------------------------------------------------
(* Handling a request.                                                     *)

Receive(s, v) ==
  /\ up[s] /\ hpc[s] = "idle"
  /\ hver' = [hver EXCEPT ![s] = v]
  /\ Becomes(s, "check")
  /\ UNCHANGED <<up, crashes, local, app, temp>>

\* Mutant: a version that is there already is copied again.
DownloadAnyVersion(s) ==
  /\ hpc[s] = "check"
  /\ Becomes(s, IF store[hver[s]] \in {"absent", "plain"} THEN "error" ELSE "list")
  /\ UNCHANGED <<up, crashes, local, app, hver, temp>>

\* downloadConf, up to its copying: what is not there or no directory is an
\* error, what is not newer is not copied.
DownloadConf(s) ==
  /\ hpc[s] = "check"
  /\ Becomes(s, IF store[hver[s]] \in {"absent", "plain"} THEN "error"
                ELSE IF hver[s] <= GetMaxConfigVersion(s) THEN "load" ELSE "list")
  /\ UNCHANGED <<up, crashes, local, app, hver, temp>>

\* LocalFileSystem::copy, _copyDir: an empty directory is copied with success,
\* as a file that has come in its place is, unless it comes too late.
CopyDir(s) ==
  /\ hpc[s] = "list"
  /\ \/ store[hver[s]] \in {"absent", "plain"} /\ Becomes(s, "error")
     \/ store[hver[s]] \in {"empty", "plain"} /\ Becomes(s, "move")
     \/ store[hver[s]] \in {"torn", "full"} /\ Becomes(s, "file")
  /\ temp' = [temp EXCEPT ![s] = "broken"]
  /\ UNCHANGED <<up, crashes, local, app, hver>>

\* _copyFile: the rest of a torn file is written in time, or it is not.
CopyFile(s) ==
  /\ hpc[s] = "file"
  /\ \/ /\ store[hver[s]] \in {"absent", "empty", "plain"}
        /\ Becomes(s, "error") /\ UNCHANGED temp
     \/ /\ store[hver[s]] \in {"torn", "full"}
        /\ \E c \in {"good", "broken"} :
             /\ store[hver[s]] = "full" => c = "good"
             /\ temp' = [temp EXCEPT ![s] = c]
        /\ Becomes(s, "move")
  /\ UNCHANGED <<up, crashes, local, app, hver>>

Move(s) ==
  /\ hpc[s] = "move"
  /\ local' = [local EXCEPT ![s][hver[s]] = temp[s]]
  /\ Becomes(s, "load")
  /\ UNCHANGED <<up, crashes, app, hver, temp>>

\* The disk, or the transfer, fails.
DownloadFails(s) ==
  /\ hpc[s] \in {"list", "file", "move"}
  /\ Becomes(s, "error")
  /\ UNCHANGED <<up, crashes, local, app, hver, temp>>

\* Mutant: the version of the request is loaded.
LoadRequested(s) ==
  /\ hpc[s] = "load"
  /\ IF local[s][hver[s]] = "good"
     THEN app' = [app EXCEPT ![s] = hver[s]] /\ Becomes(s, "ok")
     ELSE UNCHANGED app /\ Becomes(s, "error")
  /\ UNCHANGED <<up, crashes, local, hver, temp>>

\* RaApp::loadConfig of ConfigDownloader::getVersion(): the highest local
\* version, which may be the one that is loaded.
LoadConfig(s) ==
  LET v == GetMaxConfigVersion(s) IN
  /\ hpc[s] = "load"
  /\ IF v = app[s] \/ local[s][v] = "good"
     THEN app' = [app EXCEPT ![s] = v] /\ Becomes(s, "ok")
     ELSE UNCHANGED app /\ Becomes(s, "error")
  /\ UNCHANGED <<up, crashes, local, hver, temp>>

\* The response is sent.
Respond(s) ==
  /\ hpc[s] \in {"ok", "error"}
  /\ Becomes(s, "idle")
  /\ hver' = [hver EXCEPT ![s] = NoVersion]
  /\ temp' = [temp EXCEPT ![s] = "absent"]
  /\ UNCHANGED <<up, crashes, local, app>>

Handle(s) == \/ DownloadConf(s) \/ CopyDir(s) \/ CopyFile(s) \/ Move(s) \/ LoadConfig(s)
-----------------------------------------------------------------------------
(* A server dies and starts again.                                         *)

Crash(s) ==
  /\ up[s] /\ crashes < MaxCrashes
  /\ up' = [up EXCEPT ![s] = FALSE] /\ crashes' = crashes + 1
  /\ app' = [app EXCEPT ![s] = NoVersion]
  /\ Becomes(s, "idle")
  /\ hver' = [hver EXCEPT ![s] = NoVersion]
  /\ temp' = [temp EXCEPT ![s] = "absent"]
  /\ UNCHANGED local

\* Mutant: the new process waits for somebody to call it.
RestartWithoutConfig(s) ==
  /\ ~up[s]
  /\ up' = [up EXCEPT ![s] = TRUE]
  /\ UNCHANGED <<crashes, local, app, hpc, hver, temp>>

\* RaApp::init: a local version that cannot be loaded is only logged.
Restart(s) ==
  LET v == GetMaxConfigVersion(s) IN
  /\ ~up[s]
  /\ up' = [up EXCEPT ![s] = TRUE]
  /\ app' = IF v # NoVersion /\ local[s][v] = "good" THEN [app EXCEPT ![s] = v] ELSE app
  /\ UNCHANGED <<crashes, local, hpc, hver, temp>>
-----------------------------------------------------------------------------
\* Somebody changes the store.
StoreChanges == /\ \E v \in Versions, d \in Entry : store' = [store EXCEPT ![v] = d]
                /\ UNCHANGED serverVars

ServerStep(s) == /\ \/ Handle(s) \/ DownloadFails(s) \/ Respond(s) \/ Crash(s) \/ Restart(s)
                    \/ \E v \in Versions : Receive(s, v)
                 /\ UNCHANGED store

LoadNext == StoreChanges \/ \E s \in Servers : ServerStep(s)

LoadSpec == LoadInit /\ [][LoadNext]_loadVars
-----------------------------------------------------------------------------
LoadTypeOK ==
  /\ store \in [Versions -> Entry]
  /\ up \in [Servers -> BOOLEAN] /\ crashes \in 0..MaxCrashes
  /\ local \in [Servers -> [Versions -> Copy]]
  /\ app \in [Servers -> Versions \cup {NoVersion}]
  /\ hpc \in [Servers -> {"idle", "check", "list", "file", "move", "load", "ok", "error"}]
  /\ hver \in [Servers -> Versions \cup {NoVersion}]
  /\ temp \in [Servers -> Copy]
  /\ \A s \in Servers : /\ hpc[s] # "idle" => up[s] /\ hver[s] # NoVersion
                        /\ hpc[s] = "move" => temp[s] # "absent"
                        /\ hpc[s] = "load" => GetMaxConfigVersion(s) # NoVersion

(* A running server never goes back to an older configuration, whatever    *)
(* versions it is sent: what it loads is the highest it has, not the one   *)
(* of the request (ConfigDownloader::getVersion, RaApp::loadConfig, which  *)
(* would load an older one with a warning).                                *)
NeverGoesBack ==
  [][\A s \in Servers : up[s] /\ up'[s] => app'[s] >= app[s]]_loadVars

(* Between requests a running server uses the highest version it has       *)
(* locally, or that one cannot be loaded; so it does after a crash between *)
(* the download's move and the load, too.                                  *)
NewestUnlessBroken ==
  \A s \in Servers :
    up[s] /\ hpc[s] = "idle" =>
      \/ app[s] = GetMaxConfigVersion(s)
      \/ local[s][GetMaxConfigVersion(s)] = "broken"

(* A local version is written once: requests for it later neither replace  *)
(* nor remove it, though the store's copy may have changed since.          *)
LocalVersionsStay ==
  [][\A s \in Servers, v \in Versions :
       local[s][v] # "absent" => local'[s][v] = local[s][v]]_loadVars
=============================================================================
