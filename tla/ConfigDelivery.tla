--------------------------- MODULE ConfigDelivery ---------------------------
(***************************************************************************)
(* How a configuration gets from RAWeb to the RAServers (ConfigLoad).      *)
(*                                                                         *)
(* RAWeb's request threads make versions (storage.deployNewVersion: one    *)
(* more than the highest, a copy of the tables), upload one to the store   *)
(* (storage.upload: the old directory is removed, a new one made and       *)
(* filled) and call the servers one after the other.  The lock in          *)
(* storage.py belongs to an object each request makes for itself           *)
(* (main.application), so nothing orders the steps of two requests.        *)
(*                                                                         *)
(* RAWeb does not die, its tables do not change while they are copied, and *)
(* its list of nodes has all the servers; it is module WebNodes' subject.  *)
(***************************************************************************)
EXTENDS ConfigLoad, Sequences, SequencesExt

CONSTANTS
  Requests,     \* RAWeb's request threads
  AllServers,   \* the servers in the order of their nodes' ids
  MaxDeploys    \* bound: the requests that make a version

ASSUME DeliveryAssumption ==
  /\ MaxDeploys \in Nat /\ MaxAtFirst + MaxDeploys <= MaxVersion
  /\ AllServers \in Seq(Servers) /\ Range(AllServers) = Servers

VARIABLES
  dirs,         \* the version directories under tmpConfDir
  onto,         \* per version, the requests that write the store's file
  req,          \* the requests: their step, what they are for, their version
                \* and the servers they have still to call
  deploys       \* requests that have been to make a version

webVars == <<dirs, onto, req, deploys>>
vars == <<loadVars, webVars>>

\* What a request is for: deploy; latest, which is reload_latest or a heartbeat
\* with another version; fresh, the latest after deployNewVersion.  Once the
\* version is made the difference is only in the next step.
NoRequest == [pc |-> "idle", kind |-> "latest", ver |-> NoVersion, rest |-> <<>>]

Init == /\ \E n \in 0..MaxAtFirst :
             Delivered(n) /\ dirs = [v \in Versions |-> IF v <= n THEN "full" ELSE "absent"]
        /\ onto = [v \in Versions |-> {}]
        /\ req = [r \in Requests |-> NoRequest]
        /\ deploys = 0

MaxVersionDir == Max0({v \in Versions : dirs[v] # "absent"})

At(r, step) == req[r].pc = step
Starts(r, new) == At(r, "idle") /\ req' = [req EXCEPT ![r] = new]
Goes(r, step) == req' = [req EXCEPT ![r].pc = step]
Ends(r) == req' = [req EXCEPT ![r] = NoRequest]
Put(v, d) == store' = [store EXCEPT ![v] = d]
HasFile(v) == store[v] \in {"torn", "full"}
-----------------------------------------------------------------------------
(* Requests arrive.                                                        *)

StartDeploy(r, k) ==
  /\ deploys < MaxDeploys /\ deploys' = deploys + 1
  /\ Starts(r, [pc |-> "mkdir", kind |-> k, ver |-> MaxVersionDir + 1, rest |-> AllServers])
  /\ UNCHANGED <<loadVars, dirs, onto>>

\* Mutant: that there is no version is not noticed.
StartLatestOfNone(r, t) ==
  /\ Starts(r, [pc |-> "choose", kind |-> "latest", ver |-> NoVersion, rest |-> t])
  /\ UNCHANGED <<loadVars, dirs, onto, deploys>>

\* reload_latest by hand, for all; by a heartbeat, for the one that sent it.
StartLatest(r, t) ==
  /\ MaxVersionDir # NoVersion
  /\ Starts(r, [pc |-> "choose", kind |-> "latest", ver |-> NoVersion, rest |-> t])
  /\ UNCHANGED <<loadVars, dirs, onto, deploys>>

\* Mutant: a server without a configuration is left alone.
HeartbeatOfConfigured(r, s) ==
  up[s] /\ app[s] \notin {NoVersion, MaxVersionDir} /\ StartLatest(r, <<s>>)

\* updateNode finds another version than the highest.
Heartbeat(r, s) == up[s] /\ app[s] # MaxVersionDir /\ StartLatest(r, <<s>>)
-----------------------------------------------------------------------------
(* storage.deployNewVersion                                                *)

\* Mutant: a directory that exists is no obstacle.
MakeAnyVersionDir(r) ==
  /\ At(r, "mkdir")
  /\ dirs' = [dirs EXCEPT ![req[r].ver] = "empty"] /\ Goes(r, "open")
  /\ UNCHANGED <<loadVars, onto, deploys>>

\* A directory somebody else has made ends the request.
MakeVersionDir(r) ==
  /\ At(r, "mkdir")
  /\ IF dirs[req[r].ver] = "absent"
     THEN dirs' = [dirs EXCEPT ![req[r].ver] = "empty"] /\ Goes(r, "open")
     ELSE UNCHANGED dirs /\ Ends(r)
  /\ UNCHANGED <<loadVars, onto, deploys>>

OpenVersion(r) ==
  /\ At(r, "open")
  /\ dirs' = [dirs EXCEPT ![req[r].ver] = "torn"]
  /\ Goes(r, "copy")
  /\ UNCHANGED <<loadVars, onto, deploys>>

CopyVersion(r) ==
  /\ At(r, "copy")
  /\ dirs' = [dirs EXCEPT ![req[r].ver] = "full"]
  /\ req' = [req EXCEPT ![r].pc = IF req[r].kind = "fresh" THEN "choose" ELSE "exists",
                        ![r].kind = "latest"]
  /\ UNCHANGED <<loadVars, onto, deploys>>

\* The highest version there is, whether or not its file is complete.
ChooseLatest(r) ==
  /\ At(r, "choose")
  /\ req' = [req EXCEPT ![r].ver = MaxVersionDir, ![r].pc = "exists"]
  /\ UNCHANGED <<loadVars, dirs, onto, deploys>>
-----------------------------------------------------------------------------
(* storage.upload: what another request is doing to the same directory     *)
(* raises an exception or goes unnoticed.                                  *)

UploadStep(r) == UNCHANGED <<serverVars, dirs, deploys>>

UploadExists(r) ==
  /\ At(r, "exists")
  /\ Goes(r, IF store[req[r].ver] = "absent" THEN "mkstore" ELSE "rmfile")
  /\ UNCHANGED <<store, onto>> /\ UploadStep(r)

\* rmtree, first half, which a plain file is not for.  A writer keeps a file
\* nobody will see.
UploadRemovesFile(r) ==
  LET v == req[r].ver IN
  /\ At(r, "rmfile")
  /\ IF store[v] \in {"absent", "plain"}
     THEN UNCHANGED <<store, onto>> /\ Ends(r)
     ELSE Put(v, "empty") /\ onto' = [onto EXCEPT ![v] = {}] /\ Goes(r, "rmdir")
  /\ UploadStep(r)

UploadRemovesDir(r) ==
  LET v == req[r].ver IN
  /\ At(r, "rmdir")
  /\ IF store[v] = "empty" THEN Put(v, "absent") /\ Goes(r, "mkstore")
                           ELSE UNCHANGED store /\ Ends(r)
  /\ UNCHANGED onto /\ UploadStep(r)

UploadMakesDir(r) ==
  LET v == req[r].ver IN
  /\ At(r, "mkstore")
  /\ IF store[v] = "absent" THEN Put(v, "empty") /\ Goes(r, "look")
                            ELSE UNCHANGED store /\ Ends(r)
  /\ UNCHANGED onto /\ UploadStep(r)

\* shutil.copy: the file goes into the directory, or gets the name of one that
\* is not there any more.
UploadLooks(r) ==
  LET v == req[r].ver IN
  /\ At(r, "look")
  /\ Goes(r, IF store[v] \in {"absent", "plain"} THEN "openname" ELSE "openin")
  /\ UNCHANGED <<store, onto>> /\ UploadStep(r)

\* A version without its file is not copied; what was made for it stays.
UploadOpens(r) ==
  LET v == req[r].ver IN
  /\ At(r, "openin")
  /\ IF dirs[v] = "empty" \/ store[v] \in {"absent", "plain"}
     THEN UNCHANGED <<store, onto>> /\ Ends(r)
     ELSE Put(v, "torn") /\ onto' = [onto EXCEPT ![v] = @ \cup {r}] /\ Goes(r, "fill")
  /\ UploadStep(r)

\* What is in the file does not matter: no server asks for it.
UploadOpensName(r) ==
  LET v == req[r].ver IN
  /\ At(r, "openname")
  /\ IF dirs[v] = "empty" \/ store[v] \notin {"absent", "plain"}
     THEN UNCHANGED store /\ Ends(r)
     ELSE Put(v, "plain") /\ Goes(r, "send")
  /\ UNCHANGED onto /\ UploadStep(r)

\* The last writer of a file completes it, if the version was complete.  A
\* file that is gone raises an exception, one of another request does not.
UploadFills(r) ==
  LET v == req[r].ver IN
  /\ At(r, "fill")
  /\ IF onto[v] = {r} /\ dirs[v] = "full" THEN Put(v, "full") ELSE UNCHANGED store
  /\ onto' = [onto EXCEPT ![v] = @ \ {r}]
  /\ IF HasFile(v) THEN Goes(r, "send") ELSE Ends(r)
  /\ UploadStep(r)

Upload(r) == \/ UploadExists(r) \/ UploadRemovesFile(r) \/ UploadRemovesDir(r)
             \/ UploadMakesDir(r) \/ UploadLooks(r) \/ UploadOpens(r)
             \/ UploadOpensName(r) \/ UploadFills(r)
-----------------------------------------------------------------------------
(* sendHttpRequest                                                         *)

SendStep(r) == UNCHANGED <<store, dirs, onto, deploys>>

Told(r) == [req EXCEPT ![r].pc = "send", ![r].rest = Tail(@)]

\* A server that is down is passed over.
SendNext(r) ==
  LET s == Head(req[r].rest) IN
  /\ At(r, "send")
  /\ \/ req[r].rest = <<>> /\ Ends(r) /\ UNCHANGED serverVars
     \/ req[r].rest # <<>> /\ ~up[s] /\ req' = Told(r) /\ UNCHANGED serverVars
     \/ req[r].rest # <<>> /\ Receive(s, req[r].ver) /\ Goes(r, "wait")
  /\ SendStep(r)

\* Mutant: the answer is taken, but the server's thread is not let go.
SendAnsweredHolding(r) ==
  LET s == Head(req[r].rest) IN
  /\ At(r, "wait") /\ hpc[s] \in {"ok", "error"}
  /\ IF hpc[s] = "ok" THEN req' = Told(r) ELSE Ends(r)
  /\ UNCHANGED serverVars
  /\ SendStep(r)

\* An answer other than 200 ends the request.
SendAnswered(r) ==
  LET s == Head(req[r].rest) IN
  /\ At(r, "wait") /\ hpc[s] \in {"ok", "error"}
  /\ IF hpc[s] = "ok" THEN req' = Told(r) ELSE Ends(r)
  /\ Respond(s)
  /\ SendStep(r)

\* Mutant: a server that dies is waited for.
ServerCrashesUnnoticed(s) == Crash(s) /\ UNCHANGED <<store, webVars>>

\* A server that dies while it is asked is passed over, too.
ServerCrashes(s) ==
  LET asks(r) == At(r, "wait") /\ Head(req[r].rest) = s IN
  /\ Crash(s)
  /\ req' = [r \in Requests |-> IF asks(r) THEN Told(r)[r] ELSE req[r]]
  /\ UNCHANGED <<store, dirs, onto, deploys>>
-----------------------------------------------------------------------------
WebStep(r) == \/ MakeVersionDir(r) \/ OpenVersion(r) \/ CopyVersion(r) \/ ChooseLatest(r)
              \/ Upload(r) \/ SendNext(r) \/ SendAnswered(r)
\* A torn file is read in full only while it is being completed.
Serve(s) ==
  LET v == hver[s] IN
  /\ Handle(s)
  /\ hpc[s] = "file" /\ store[v] = "torn" /\ temp'[s] = "good" =>
       onto[v] # {} /\ dirs[v] = "full"
  /\ UNCHANGED <<store, webVars>>
ServeFails(s) == DownloadFails(s) /\ UNCHANGED <<store, webVars>>
ServerRestarts(s) == Restart(s) /\ UNCHANGED <<store, webVars>>

Next ==
  \/ \E r \in Requests :
       \/ \E k \in {"deploy", "fresh"} : StartDeploy(r, k)
       \/ StartLatest(r, AllServers)
       \/ \E s \in Servers : Heartbeat(r, s)
       \/ WebStep(r)
  \/ \E s \in Servers : Serve(s) \/ ServeFails(s) \/ ServerCrashes(s) \/ ServerRestarts(s)

Spec == Init /\ [][Next]_vars

\* Threads run, calls wait in line for a busy server, a dead server is started
\* again, a server's heartbeats never end, and its disk does not fail for ever.
Fairness ==
  /\ \A r \in Requests : SF_vars(WebStep(r))
  /\ \A s \in Servers :
       /\ WF_vars(Serve(s)) /\ WF_vars(ServerRestarts(s))
       /\ SF_vars(\E r \in Requests : Heartbeat(r, s))
       /\ <>[][~ServeFails(s)]_vars
FairSpec == Spec /\ Fairness
-----------------------------------------------------------------------------
Pcs == {"idle", "mkdir", "open", "copy", "choose", "exists", "rmfile", "rmdir", "mkstore",
        "look", "openin", "openname", "fill", "send", "wait"}
TypeOK ==
  /\ LoadTypeOK
  /\ dirs \in [Versions -> Dir] /\ onto \in [Versions -> SUBSET Requests]
  /\ req \in [Requests -> [pc : Pcs, kind : {"deploy", "latest", "fresh"},
                           ver : Versions \cup {NoVersion}, rest : Seq(Servers)]]
  /\ deploys \in 0..MaxDeploys
  /\ \A r \in Requests : /\ req[r].pc \notin {"idle", "choose"} => req[r].ver # NoVersion
                         /\ At(r, "wait") => req[r].rest # <<>>

(* Every answer is waited for, by one request and for the version it sent, *)
(* whichever servers die and whoever else calls them.                      *)
OneCaller ==
  \A r \in Requests : At(r, "wait") =>
    LET s == Head(req[r].rest) IN
    /\ hpc[s] # "idle" /\ hver[s] = req[r].ver
    /\ \A q \in Requests : At(q, "wait") /\ Head(req[q].rest) = s => q = r

(* A version is made by one request and, once it is complete, never        *)
(* touched again, though two requests may choose the same number: the      *)
(* lock does not keep them apart, mkdir does.                              *)
VersionsAreNeverRewritten ==
  [][\A v \in Versions :
       /\ dirs[v] = "full" => dirs'[v] = "full"
       /\ dirs[v] = "absent" /\ dirs'[v] # "absent" => MaxVersionDir < v]_vars

(* Every request comes to its end: none waits for a server for ever, and   *)
(* no server's requests keep another's from being answered, though a       *)
(* server answers one at a time and has the others wait.                   *)
RequestsEnd == \A r \in Requests : []<>At(r, "idle")

(* Once no new version is made and requests no longer overlap, every       *)
(* server comes to use the newest version, through crashes, failed         *)
(* downloads and requests that end at the first error: the heartbeat of a  *)
(* server that disagrees has it sent again.  Only two things that          *)
(* overlapping uploads leave behind are for good: a broken copy, of which  *)
(* BrokenCopyIsReplaced speaks, and a file in the place of a directory.    *)
OneRequestAtATime == \A q, r \in Requests : At(q, "idle") \/ At(r, "idle") \/ q = r
Newest(s) ==
  \/ app[s] = MaxVersionDir
  \/ local[s][MaxVersionDir] = "broken"
  \/ store[MaxVersionDir] = "plain"
ServersConverge == <>[]OneRequestAtATime => \A s \in Servers : <>[]Newest(s)

(* RAWeb/README.md:140, "reload current : If backends work with multiple   *)
(* releases of sqlite, or other accident happened, reload the latest       *)
(* version. All backends will receive the latest information and reload    *)
(* it": a server whose copy of the latest version is broken gets it again. *)
BrokenCopyIsReplaced ==
  \A s \in Servers :
    (MaxVersionDir # NoVersion /\ local[s][MaxVersionDir] = "broken")
      ~> (up[s] /\ app[s] = MaxVersionDir)
=============================================================================
