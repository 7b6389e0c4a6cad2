--------------------------- MODULE DeliveryProofs ---------------------------
(***************************************************************************)
(* Proofs about the delivery of configurations, for any number of servers, *)
(* requests and versions: RAWeb uses the servers as module ConfigLoad says *)
(* they may be used, so that what is proved there holds here; and mkdir    *)
(* alone has every version made by one request.                            *)
(***************************************************************************)
EXTENDS ConfigDelivery, ConfigLoadProofs, SequenceTheorems

Kinds == {"deploy", "latest", "fresh"}
RequestType == [pc : Pcs, kind : Kinds, ver : Versions \cup {NoVersion}, rest : Seq(Servers)]

\* What the proofs need of the types.
WebTypeOK ==
  /\ dirs \in [Versions -> Dir]
  /\ req \in [Requests -> RequestType]
  /\ deploys \in 0..MaxDeploys
  /\ \A r \in Requests : /\ req[r].pc \notin {"idle", "choose"} => req[r].ver # NoVersion
                         /\ At(r, "wait") => req[r].rest # <<>>

\* No version has a number above that of the requests that made one and of
\* those there were at first.
VersionsCounted ==
  /\ \A v \in Versions : dirs[v] # "absent" => v <= MaxAtFirst + deploys
  /\ \A r \in Requests : req[r].ver <= MaxAtFirst + deploys

\* Who chooses the latest version has one to choose.
SomeVersion ==
  \A r \in Requests : At(r, "choose") => \E v \in Versions : dirs[v] # "absent"

\* Versions are numbered without gaps, and the next is the one to be made.
NoGaps ==
  /\ \A v \in Versions, w \in Versions : dirs[v] # "absent" /\ w < v => dirs[w] # "absent"
  /\ \A r \in Requests, w \in Versions :
       At(r, "mkdir") /\ w < req[r].ver => dirs[w] # "absent"

\* A version that is being made is made by one request, and incomplete.
Makes(r, v) == req[r].pc \in {"open", "copy"} /\ req[r].ver = v
OneMaker ==
  \A r \in Requests, v \in Versions : Makes(r, v) =>
    /\ dirs[v] \in {"empty", "torn"}
    /\ \A q \in Requests : Makes(q, v) => q = r

WebInv == WebTypeOK /\ VersionsCounted /\ SomeVersion /\ NoGaps /\ OneMaker

\* The highest version there is.
LEMMA HighestDir ==
  /\ MaxVersionDir \in Versions \cup {NoVersion}
  /\ MaxVersionDir # NoVersion => dirs[MaxVersionDir] # "absent"
  /\ \A v \in Versions : dirs[v] # "absent" => v <= MaxVersionDir
<1> DEFINE S == {v \in Versions : dirs[v] # "absent"}
<1>1. S \in SUBSET Versions
  OBVIOUS
<1>2. MaxVersionDir = Max0(S)
  BY DEF MaxVersionDir
<1>3. S # {} => Max0(S) \in S
  BY <1>1, HighestVersion
<1>4. S = {} => Max0(S) = NoVersion
  BY <1>1, HighestVersion
<1>5. \A v \in S : v <= Max0(S)
  BY <1>1, HighestVersion
<1> QED
  BY <1>2, <1>3, <1>4, <1>5

\* Initially there is no request, and versions up to some number.
LEMMA WebInvInit == Init => WebInv
<1> SUFFICES ASSUME Init PROVE WebInv
  OBVIOUS
<1>1. PICK n \in 0..MaxAtFirst :
        dirs = [v \in Versions |-> IF v <= n THEN "full" ELSE "absent"]
  BY DEF Init
<1>2. deploys = 0 /\ req = [r \in Requests |-> NoRequest]
  BY DEF Init
<1>3. NoRequest \in RequestType /\ NoRequest.pc = "idle" /\ NoRequest.ver = 0
  BY DEF NoRequest, RequestType, Kinds, Pcs, NoVersion
<1>4. WebTypeOK
  BY <1>1, <1>2, <1>3, DeliveryAssumption DEF WebTypeOK, At, Dir, DeliveryAssumption
<1>5. VersionsCounted
  BY <1>1, <1>2, <1>3, LoadAssumption DEF VersionsCounted, Versions, LoadAssumption
<1>6. SomeVersion /\ OneMaker
  BY <1>2, <1>3 DEF SomeVersion, OneMaker, Makes, At
<1>7. NoGaps
  BY <1>1, <1>2, <1>3, LoadAssumption DEF NoGaps, At, Versions, LoadAssumption
<1> QED
  BY <1>4, <1>5, <1>6, <1>7 DEF WebInv
-----------------------------------------------------------------------------
(* Steps that make no version: a request uploads, calls a server or ends.  *)

Quiet(old, new) ==
  \/ new = old
  \/ new = NoRequest
  \/ /\ old.pc \notin {"idle", "choose"}
     /\ new.pc \in Pcs \ {"idle", "mkdir", "open", "copy", "choose"}
     /\ new.kind = old.kind /\ new.ver = old.ver
     /\ new.pc = "wait" => new.rest # <<>>
QuietStep ==
  /\ req' \in [Requests -> RequestType]
  /\ \A r \in Requests : Quiet(req[r], req'[r])
  /\ UNCHANGED <<dirs, deploys>>

\* They keep the invariant.
LEMMA WebInvQuiet == WebInv /\ QuietStep => WebInv'
<1> SUFFICES ASSUME WebInv, QuietStep PROVE WebInv'
  OBVIOUS
<1> USE DEF QuietStep, Quiet
<1>1. WebTypeOK'
  BY DEF WebInv, WebTypeOK, NoRequest, At
<1>2. VersionsCounted'
  BY LoadAssumption, DeliveryAssumption
  DEF WebInv, WebTypeOK, VersionsCounted, NoRequest, Versions, NoVersion, LoadAssumption,
      DeliveryAssumption
<1>3. SomeVersion'
  BY DEF WebInv, SomeVersion, NoRequest, At
<1>4. NoGaps'
  BY DEF WebInv, NoGaps, NoRequest, At
<1>5. OneMaker'
  BY DEF WebInv, OneMaker, Makes, NoRequest
<1> QED
  BY <1>1, <1>2, <1>3, <1>4, <1>5 DEF WebInv

\* A request that goes to another step.
LEMMA GoesQuietly ==
  ASSUME WebInv, NEW r \in Requests, NEW step \in Pcs \ {"idle", "mkdir", "open", "copy", "choose"},
         step = "wait" => req[r].rest # <<>>,
         req[r].pc \notin {"idle", "choose"}, Goes(r, step), UNCHANGED <<dirs, deploys>>
  PROVE  QuietStep
BY DEF WebInv, WebTypeOK, RequestType, Goes, QuietStep, Quiet

\* A request that ends.
LEMMA EndsQuietly ==
  ASSUME WebInv, NEW r \in Requests, Ends(r), UNCHANGED <<dirs, deploys>>
  PROVE  QuietStep
<1>1. NoRequest \in RequestType
  BY DEF NoRequest, RequestType, Kinds, Pcs
<1> QED
  BY <1>1 DEF WebInv, WebTypeOK, Ends, QuietStep, Quiet

\* A request that has called a server.
LEMMA ToldQuietly ==
  ASSUME WebInv, NEW r \in Requests, req[r].pc \in {"send", "wait"}, req[r].rest # <<>>
  PROVE  Told(r)[r] \in RequestType /\ Quiet(req[r], Told(r)[r])
<1>1. req[r] \in RequestType
  BY DEF WebInv, WebTypeOK
<1>2. Tail(req[r].rest) \in Seq(Servers)
  BY <1>1, HeadTailProperties DEF RequestType
<1>3. Told(r)[r] = [pc |-> "send", kind |-> req[r].kind, ver |-> req[r].ver,
                    rest |-> Tail(req[r].rest)]
  BY <1>1 DEF WebInv, WebTypeOK, Told, RequestType
<1> QED
  BY <1>1, <1>2, <1>3 DEF RequestType, Pcs, Quiet

\* It goes on with the next.
LEMMA WebInvTold ==
  ASSUME WebInv, NEW r \in Requests, req[r].pc \in {"send", "wait"}, req[r].rest # <<>>,
         req' = Told(r), UNCHANGED <<dirs, deploys>>
  PROVE  WebInv'
<1>1. \A q \in Requests : q # r => req'[q] = req[q]
  BY DEF WebInv, WebTypeOK, Told
<1>2. req'[r] = Told(r)[r]
  OBVIOUS
<1>3. QuietStep
  BY <1>1, <1>2, ToldQuietly DEF WebInv, WebTypeOK, QuietStep, Quiet, Told
<1> QED
  BY <1>3, WebInvQuiet

\* Uploading.
LEMMA WebInvUpload ==
  ASSUME WebInv, NEW r \in Requests, Upload(r) PROVE WebInv'
<1>1. QuietStep
  <2>1. UNCHANGED <<dirs, deploys>>
    BY DEF Upload, UploadExists, UploadRemovesFile, UploadRemovesDir, UploadMakesDir,
           UploadLooks, UploadOpens, UploadOpensName, UploadFills, UploadStep
  <2>2. req[r].pc \in {"exists", "rmfile", "rmdir", "mkstore", "look", "openin", "openname", "fill"}
    BY DEF Upload, UploadExists, UploadRemovesFile, UploadRemovesDir, UploadMakesDir,
           UploadLooks, UploadOpens, UploadOpensName, UploadFills, At
  <2>3. \/ Ends(r)
        \/ \E step \in {"mkstore", "rmfile", "rmdir", "look", "openin", "openname", "fill", "send"} :
             Goes(r, step)
    BY DEF Upload, UploadExists, UploadRemovesFile, UploadRemovesDir, UploadMakesDir,
           UploadLooks, UploadOpens, UploadOpensName, UploadFills
  <2> QED
    BY <2>1, <2>2, <2>3, GoesQuietly, EndsQuietly DEF Pcs
<1> QED
  BY <1>1, WebInvQuiet

\* Calling the servers.
LEMMA WebInvSend ==
  ASSUME WebInv, NEW r \in Requests, SendNext(r) \/ SendAnswered(r) PROVE WebInv'
<1>1. UNCHANGED <<dirs, deploys>>
  BY DEF SendNext, SendAnswered, SendStep
<1>2. req[r].pc \in {"send", "wait"}
  BY DEF SendNext, SendAnswered, At
<1>3. CASE Ends(r)
  BY <1>1, <1>3, EndsQuietly, WebInvQuiet
<1>4. CASE Goes(r, "wait") /\ req[r].rest # <<>>
  BY <1>1, <1>2, <1>4, GoesQuietly, WebInvQuiet DEF Pcs
<1>5. CASE req' = Told(r) /\ req[r].rest # <<>>
  BY <1>1, <1>2, <1>5, WebInvTold
<1> QED
  BY <1>3, <1>4, <1>5 DEF SendNext, SendAnswered, WebInv, WebTypeOK

\* A server that dies while it is called.
LEMMA WebInvCrash ==
  ASSUME WebInv, NEW s \in Servers, ServerCrashes(s) PROVE WebInv'
<1> DEFINE asks(r) == At(r, "wait") /\ Head(req[r].rest) = s
<1>1. req' = [r \in Requests |-> IF asks(r) THEN Told(r)[r] ELSE req[r]]
  BY DEF ServerCrashes
<1>2. ASSUME NEW r \in Requests, asks(r)
      PROVE  Told(r)[r] \in RequestType /\ Quiet(req[r], Told(r)[r])
  BY <1>2, ToldQuietly DEF At, WebInv, WebTypeOK
<1>3. \A r \in Requests : req'[r] \in RequestType /\ Quiet(req[r], req'[r])
  BY <1>1, <1>2 DEF WebInv, WebTypeOK, Quiet
<1>4. UNCHANGED <<dirs, deploys>>
  BY DEF ServerCrashes
<1> HIDE DEF asks
<1>5. QuietStep
  BY <1>1, <1>3, <1>4 DEF QuietStep
<1> QED
  BY <1>5, WebInvQuiet
-----------------------------------------------------------------------------
(* Steps that make a version.                                              *)

\* A request to make a version is given the number after the highest.
LEMMA WebInvStartDeploy ==
  ASSUME WebInv, NEW r \in Requests, NEW k \in {"deploy", "fresh"}, StartDeploy(r, k)
  PROVE  WebInv'
<1> DEFINE n == MaxVersionDir + 1
           new == [pc |-> "mkdir", kind |-> k, ver |-> n, rest |-> AllServers]
<1>1. n \in Versions /\ n <= MaxAtFirst + deploys + 1
  BY HighestDir, LoadAssumption, DeliveryAssumption
  DEF WebInv, WebTypeOK, VersionsCounted, StartDeploy, Versions, NoVersion, LoadAssumption,
      DeliveryAssumption
<1>2. \A w \in Versions : w < n => dirs[w] # "absent"
  <2> SUFFICES ASSUME NEW w \in Versions, w < n PROVE dirs[w] # "absent"
    OBVIOUS
  <2>1. MaxVersionDir \in Versions /\ dirs[MaxVersionDir] # "absent" /\ w <= MaxVersionDir
    BY HighestDir DEF Versions, NoVersion
  <2> QED
    BY <2>1 DEF WebInv, NoGaps, Versions
<1>3. /\ req' = [req EXCEPT ![r] = new] /\ deploys' = deploys + 1 /\ dirs' = dirs
      /\ deploys < MaxDeploys
  BY DEF StartDeploy, Starts
<1>4. new \in RequestType
  BY <1>1, DeliveryAssumption DEF RequestType, Kinds, Pcs, DeliveryAssumption
<1>5. new.pc = "mkdir" /\ new.ver = n
  OBVIOUS
<1> HIDE DEF n, new
<1>6. WebTypeOK'
  BY <1>1, <1>3, <1>4, <1>5, LoadAssumption, DeliveryAssumption
  DEF WebInv, WebTypeOK, At, LoadAssumption, DeliveryAssumption, Versions, NoVersion
<1>7. VersionsCounted'
  <2>1. \A v \in Versions : dirs'[v] # "absent" => v <= MaxAtFirst + deploys'
    BY <1>3, DeliveryAssumption, LoadAssumption
    DEF WebInv, WebTypeOK, VersionsCounted, Versions, DeliveryAssumption, LoadAssumption
  <2>2. \A q \in Requests : q # r => req'[q].ver = req[q].ver
    BY <1>3 DEF WebInv, WebTypeOK
  <2>3. \A q \in Requests : req[q].ver \in Versions \cup {NoVersion}
    BY DEF WebInv, WebTypeOK, RequestType
  <2>4. req'[r].ver = n
    BY <1>3, <1>5 DEF WebInv, WebTypeOK
  <2>5. \A q \in Requests : q # r => req'[q].ver <= MaxAtFirst + deploys'
    BY <1>3, <2>2, <2>3, DeliveryAssumption, LoadAssumption
    DEF WebInv, WebTypeOK, VersionsCounted, Versions, NoVersion, DeliveryAssumption,
        LoadAssumption
  <2> QED
    BY <1>1, <1>3, <2>1, <2>4, <2>5, LoadAssumption, DeliveryAssumption
    DEF VersionsCounted, WebInv, WebTypeOK, LoadAssumption, DeliveryAssumption, Versions
<1>8. SomeVersion'
  BY <1>3, <1>5 DEF WebInv, WebTypeOK, SomeVersion, At
<1>9. NoGaps'
  BY <1>2, <1>3, <1>5 DEF WebInv, WebTypeOK, NoGaps, At
<1>10. OneMaker'
  BY <1>3, <1>5 DEF WebInv, WebTypeOK, OneMaker, Makes
<1> QED
  BY <1>6, <1>7, <1>8, <1>9, <1>10 DEF WebInv

\* A request for the latest version begins when there is one.
LEMMA WebInvStartLatest ==
  ASSUME WebInv, NEW r \in Requests, NEW t \in Seq(Servers), StartLatest(r, t)
  PROVE  WebInv'
<1> DEFINE new == [pc |-> "choose", kind |-> "latest", ver |-> NoVersion, rest |-> t]
<1>1. req' = [req EXCEPT ![r] = new] /\ UNCHANGED <<dirs, deploys>>
  BY DEF StartLatest, Starts
<1>2. MaxVersionDir \in Versions /\ dirs[MaxVersionDir] # "absent"
  BY HighestDir DEF StartLatest
<1>3. new \in RequestType /\ new.pc = "choose" /\ new.ver = NoVersion
  BY DEF RequestType, Kinds, Pcs
<1> HIDE DEF new
<1>4. WebTypeOK'
  BY <1>1, <1>3 DEF WebInv, WebTypeOK, At
<1>5. VersionsCounted'
  BY <1>1, <1>3, DeliveryAssumption, LoadAssumption
  DEF WebInv, WebTypeOK, VersionsCounted, NoVersion, DeliveryAssumption, LoadAssumption
<1>6. SomeVersion'
  BY <1>1, <1>2, <1>3 DEF WebInv, WebTypeOK, SomeVersion, At
<1>7. NoGaps'
  BY <1>1, <1>3 DEF WebInv, WebTypeOK, NoGaps, At
<1>8. OneMaker'
  BY <1>1, <1>3 DEF WebInv, WebTypeOK, OneMaker, Makes
<1> QED
  BY <1>4, <1>5, <1>6, <1>7, <1>8 DEF WebInv

\* A version that does not exist is made, with the next number.
LEMMA WebInvMakeVersionDir ==
  ASSUME WebInv, NEW r \in Requests, MakeVersionDir(r) PROVE WebInv'
<1> DEFINE n == req[r].ver
<1>1. CASE Ends(r) /\ UNCHANGED dirs
  BY <1>1, EndsQuietly, WebInvQuiet DEF MakeVersionDir
<1>2. CASE dirs[n] = "absent" /\ dirs' = [dirs EXCEPT ![n] = "empty"] /\ Goes(r, "open")
  <2>1. n \in Versions /\ n <= MaxAtFirst + deploys /\ deploys' = deploys /\ req[r].pc = "mkdir"
    BY DEF MakeVersionDir, WebInv, WebTypeOK, RequestType, VersionsCounted, At
  <2>2. /\ \A q \in Requests : q # r => req'[q] = req[q]
        /\ req'[r].pc = "open" /\ req'[r].ver = n
    BY <1>2 DEF WebInv, WebTypeOK, RequestType, Goes
  <2>3. req' \in [Requests -> RequestType]
    BY <1>2 DEF WebInv, WebTypeOK, RequestType, Goes, Pcs
  <2>4. dirs' \in [Versions -> Dir] /\ \A v \in Versions : dirs'[v] = IF v = n THEN "empty" ELSE dirs[v]
    BY <1>2 DEF WebInv, WebTypeOK, Dir
  <2> HIDE DEF n
  <2>5. WebTypeOK'
    BY <2>1, <2>2, <2>3, <2>4 DEF WebInv, WebTypeOK, At, Versions, NoVersion
  <2>6. VersionsCounted'
    BY <2>1, <2>2, <2>4 DEF WebInv, VersionsCounted
  <2>7. SomeVersion'
    BY <2>2, <2>4 DEF WebInv, SomeVersion, At
  <2>8. NoGaps'
    <3>1. \A w \in Versions : w < n => dirs[w] # "absent"
      BY <2>1 DEF WebInv, NoGaps, At, n
    <3> QED
      BY <2>1, <2>2, <2>4, <3>1 DEF WebInv, NoGaps, At
  <2>9. OneMaker'
    BY <1>2, <2>1, <2>2, <2>4 DEF WebInv, OneMaker, Makes
  <2> QED
    BY <2>5, <2>6, <2>7, <2>8, <2>9 DEF WebInv
<1> QED
  BY <1>1, <1>2 DEF MakeVersionDir

\* Its file is opened and filled, by the one that made it.
LEMMA WebInvWriteVersion ==
  ASSUME WebInv, NEW r \in Requests, OpenVersion(r) \/ CopyVersion(r) PROVE WebInv'
<1> DEFINE n == req[r].ver
<1>1. PICK d \in {"torn", "full"}, step \in {"copy", "choose", "exists"} :
        /\ dirs' = [dirs EXCEPT ![n] = d]
        /\ \/ Goes(r, step)
           \/ req' = [req EXCEPT ![r].pc = step, ![r].kind = "latest"]
        /\ d = "torn" <=> step = "copy"
  BY DEF OpenVersion, CopyVersion
<1>2. Makes(r, n) /\ n \in Versions /\ n <= MaxAtFirst + deploys /\ deploys' = deploys
  BY DEF OpenVersion, CopyVersion, Makes, WebInv, WebTypeOK, RequestType, VersionsCounted, At
<1>3. /\ \A q \in Requests : q # r => req'[q] = req[q]
      /\ req'[r].pc = step /\ req'[r].ver = n
  BY <1>1 DEF WebInv, WebTypeOK, RequestType, Goes
<1>4. req' \in [Requests -> RequestType]
  <2>1. step \in Pcs /\ "latest" \in Kinds
    BY DEF Pcs, Kinds
  <2>2. CASE Goes(r, step)
    BY <2>1, <2>2 DEF WebInv, WebTypeOK, RequestType, Goes
  <2>3. CASE req' = [req EXCEPT ![r].pc = step, ![r].kind = "latest"]
    BY <2>1, <2>3 DEF WebInv, WebTypeOK, RequestType
  <2> QED
    BY <1>1, <2>2, <2>3
<1>5. dirs' \in [Versions -> Dir] /\ \A v \in Versions : dirs'[v] = IF v = n THEN d ELSE dirs[v]
  BY <1>1 DEF WebInv, WebTypeOK, Dir
<1>6. dirs[n] \in {"empty", "torn"} /\ \A q \in Requests : Makes(q, n) => q = r
  BY <1>2 DEF WebInv, OneMaker
<1> HIDE DEF n
<1>7. WebTypeOK'
  BY <1>2, <1>3, <1>4, <1>5 DEF WebInv, WebTypeOK, At, Versions, NoVersion
<1>8. VersionsCounted'
  BY <1>2, <1>3, <1>5 DEF WebInv, VersionsCounted
<1>9. SomeVersion'
  BY <1>2, <1>3, <1>5 DEF WebInv, SomeVersion, At
<1>10. NoGaps'
  BY <1>3, <1>5, <1>6 DEF WebInv, NoGaps, At
<1>11. OneMaker'
  BY <1>1, <1>2, <1>3, <1>5, <1>6 DEF WebInv, OneMaker, Makes
<1> QED
  BY <1>7, <1>8, <1>9, <1>10, <1>11 DEF WebInv

\* The highest version is chosen.
LEMMA WebInvChooseLatest ==
  ASSUME WebInv, NEW r \in Requests, ChooseLatest(r) PROVE WebInv'
<1> DEFINE n == MaxVersionDir
<1>1. n \in Versions /\ n <= MaxAtFirst + deploys
  BY HighestDir DEF ChooseLatest, WebInv, SomeVersion, VersionsCounted, Versions, NoVersion
<1>2. req' = [req EXCEPT ![r].ver = n, ![r].pc = "exists"] /\ UNCHANGED <<dirs, deploys>>
  BY DEF ChooseLatest
<1> HIDE DEF n
<1>3. req' \in [Requests -> RequestType]
  BY <1>1, <1>2 DEF WebInv, WebTypeOK, RequestType, Pcs
<1>4. /\ \A q \in Requests : q # r => req'[q] = req[q]
      /\ req'[r].pc = "exists" /\ req'[r].ver = n
  BY <1>2 DEF WebInv, WebTypeOK, RequestType
<1>5. WebTypeOK'
  BY <1>1, <1>2, <1>3, <1>4 DEF WebInv, WebTypeOK, At, Versions, NoVersion
<1>6. VersionsCounted'
  BY <1>1, <1>2, <1>4 DEF WebInv, VersionsCounted
<1>7. SomeVersion' /\ NoGaps'
  BY <1>2, <1>4 DEF WebInv, SomeVersion, NoGaps, At
<1>8. OneMaker'
  <2>1. \A q \in Requests, v \in Versions : Makes(q, v)' => Makes(q, v)
    BY <1>4 DEF Makes
  <2> QED
    BY <1>2, <2>1 DEF WebInv, OneMaker
<1> QED
  BY <1>5, <1>6, <1>7, <1>8 DEF WebInv

\* Steps of the servers are no steps of the requests.
LEMMA WebInvSame == WebInv /\ UNCHANGED webVars => WebInv'
<1> SUFFICES ASSUME WebInv, UNCHANGED webVars PROVE WebInv'
  OBVIOUS
<1>1. QuietStep
  BY DEF webVars, QuietStep, Quiet, WebInv, WebTypeOK
<1> QED
  BY <1>1, WebInvQuiet

\* Every step of the specification keeps the invariant.
LEMMA WebInvNext == WebInv /\ [Next]_vars => WebInv'
<1> SUFFICES ASSUME WebInv, [Next]_vars PROVE WebInv'
  OBVIOUS
<1>1. ASSUME NEW r \in Requests, WebStep(r) PROVE WebInv'
  BY <1>1, WebInvMakeVersionDir, WebInvWriteVersion, WebInvChooseLatest, WebInvUpload,
     WebInvSend DEF WebStep
<1>2. ASSUME NEW r \in Requests, NEW k \in {"deploy", "fresh"}, StartDeploy(r, k)
      PROVE  WebInv'
  BY <1>2, WebInvStartDeploy
<1>3. ASSUME NEW r \in Requests, StartLatest(r, AllServers) PROVE WebInv'
  BY <1>3, WebInvStartLatest, DeliveryAssumption DEF DeliveryAssumption
<1>4. ASSUME NEW r \in Requests, NEW s \in Servers, Heartbeat(r, s) PROVE WebInv'
  <2>1. <<s>> \in Seq(Servers)
    OBVIOUS
  <2> QED
    BY <1>4, <2>1, WebInvStartLatest DEF Heartbeat
<1>5. ASSUME NEW s \in Servers, Serve(s) \/ ServeFails(s) \/ ServerRestarts(s) PROVE WebInv'
  BY <1>5, WebInvSame DEF Serve, ServeFails, ServerRestarts
<1>6. ASSUME NEW s \in Servers, ServerCrashes(s) PROVE WebInv'
  BY <1>6, WebInvCrash
<1>7. ASSUME UNCHANGED vars PROVE WebInv'
  BY <1>7, WebInvSame DEF vars
<1> QED
  BY <1>1, <1>2, <1>3, <1>4, <1>5, <1>6, <1>7 DEF Next

(* The invariant holds for any number of servers, requests and versions.   *)
THEOREM WebInvariant == Spec => []WebInv
BY WebInvInit, WebInvNext, PTL DEF Spec

(* A version is made by one request and never touched again once complete, *)
(* whatever numbers the requests choose (storage.deployNewVersion): mkdir  *)
(* keeps them apart.                                                       *)
THEOREM NeverRewritten == Spec => VersionsAreNeverRewritten
<1>1. ASSUME WebInv, [Next]_vars, NEW v \in Versions
      PROVE  /\ dirs[v] = "full" => dirs'[v] = "full"
             /\ dirs[v] = "absent" /\ dirs'[v] # "absent" => MaxVersionDir < v
  <2>1. CASE dirs' = dirs
    BY <2>1
  <2>2. ASSUME NEW r \in Requests, MakeVersionDir(r), dirs' # dirs
        PROVE  /\ dirs[v] = "full" => dirs'[v] = "full"
               /\ dirs[v] = "absent" /\ dirs'[v] # "absent" => MaxVersionDir < v
    <3>1. /\ req[r].ver \in Versions /\ dirs[req[r].ver] = "absent" /\ At(r, "mkdir")
          /\ dirs' = [dirs EXCEPT ![req[r].ver] = "empty"]
      BY <1>1, <2>2 DEF MakeVersionDir, WebInv, WebTypeOK, RequestType, At
    <3>2. MaxVersionDir < req[r].ver
      <4>1. MaxVersionDir # NoVersion => MaxVersionDir < req[r].ver
        <5> SUFFICES ASSUME MaxVersionDir # NoVersion PROVE MaxVersionDir < req[r].ver
          OBVIOUS
        <5>1. MaxVersionDir \in Versions /\ dirs[MaxVersionDir] # "absent"
          BY HighestDir
        <5>2. req[r].ver < MaxVersionDir => dirs[req[r].ver] # "absent"
          BY <1>1, <3>1, <5>1 DEF WebInv, NoGaps
        <5> QED
          BY <3>1, <5>1, <5>2 DEF Versions
      <4> QED
        BY <3>1, <4>1, HighestDir DEF Versions, NoVersion
    <3> QED
      BY <1>1, <3>1, <3>2 DEF WebInv, WebTypeOK
  <2>3. ASSUME NEW r \in Requests, OpenVersion(r) \/ CopyVersion(r)
        PROVE  /\ dirs[v] = "full" => dirs'[v] = "full"
               /\ dirs[v] = "absent" /\ dirs'[v] # "absent" => MaxVersionDir < v
    <3>1. Makes(r, req[r].ver) /\ req[r].ver \in Versions
      BY <1>1, <2>3 DEF OpenVersion, CopyVersion, Makes, WebInv, WebTypeOK, RequestType, At
    <3>2. dirs[req[r].ver] \in {"empty", "torn"}
      BY <1>1, <3>1 DEF WebInv, OneMaker
    <3>3. v # req[r].ver => dirs'[v] = dirs[v]
      BY <1>1, <2>3 DEF OpenVersion, CopyVersion, WebInv, WebTypeOK
    <3> QED
      BY <3>2, <3>3
  <2>4. \/ dirs' = dirs
        \/ \E r \in Requests : MakeVersionDir(r) \/ OpenVersion(r) \/ CopyVersion(r)
    BY <1>1 DEF Next, StartDeploy, StartLatest, Heartbeat, WebStep, ChooseLatest, Upload,
        UploadExists, UploadRemovesFile, UploadRemovesDir, UploadMakesDir, UploadOpens,
        UploadLooks, UploadOpensName, UploadFills, UploadStep, SendNext, SendAnswered, SendStep, Serve, ServeFails,
        ServerCrashes, ServerRestarts, vars, webVars
  <2> QED
    BY <2>1, <2>2, <2>3, <2>4
<1>2. WebInv /\ [Next]_vars
        => [\A v \in Versions :
              /\ dirs[v] = "full" => dirs'[v] = "full"
              /\ dirs[v] = "absent" /\ dirs'[v] # "absent" => MaxVersionDir < v]_vars
  BY <1>1
<1> QED
  BY <1>2, WebInvariant, PTL DEF Spec, VersionsAreNeverRewritten
-----------------------------------------------------------------------------
(* RAWeb, seen from the servers, is one of the things that may happen to   *)
(* them.                                                                   *)

\* What a request does to the store any program may do.
LEMMA WebChangesStore ==
  ASSUME WebInv, NEW r \in Requests, Upload(r)
  PROVE  StoreChanges \/ UNCHANGED loadVars
<1>1. req[r].ver \in Versions
  BY DEF Upload, UploadExists, UploadRemovesFile, UploadRemovesDir, UploadMakesDir,
         UploadLooks, UploadOpens, UploadOpensName, UploadFills, At, WebInv, WebTypeOK, RequestType
<1>2. UNCHANGED serverVars
  BY DEF Upload, UploadExists, UploadRemovesFile, UploadRemovesDir, UploadMakesDir,
         UploadLooks, UploadOpens, UploadOpensName, UploadFills, UploadStep
<1>3. UNCHANGED store \/ \E d \in Entry : store' = [store EXCEPT ![req[r].ver] = d]
  BY DEF Upload, UploadExists, UploadRemovesFile, UploadRemovesDir, UploadMakesDir,
         UploadLooks, UploadOpens, UploadOpensName, UploadFills, Put, Entry, Dir
<1> QED
  BY <1>1, <1>2, <1>3 DEF StoreChanges, loadVars

\* A request's calls and answers are those of a server.
LEMMA WebCallsServer ==
  ASSUME WebInv, NEW r \in Requests, SendNext(r) \/ SendAnswered(r)
  PROVE  LoadNext \/ UNCHANGED loadVars
<1>1. UNCHANGED store
  BY DEF SendNext, SendAnswered, SendStep
<1>2. req[r].ver \in Versions /\ req[r].rest \in Seq(Servers)
  BY DEF SendNext, SendAnswered, At, WebInv, WebTypeOK, RequestType
<1>3. CASE UNCHANGED serverVars
  BY <1>1, <1>3 DEF loadVars
<1>4. CASE req[r].rest # <<>> /\ (\/ Receive(Head(req[r].rest), req[r].ver)
                                  \/ Respond(Head(req[r].rest)))
  <2>1. Head(req[r].rest) \in Servers
    BY <1>2, <1>4, HeadTailProperties
  <2> QED
    BY <1>1, <1>2, <1>4, <2>1 DEF LoadNext, ServerStep
<1> QED
  BY <1>3, <1>4 DEF SendNext, SendAnswered, At, WebInv, WebTypeOK

\* Every step is one that module ConfigLoad allows, or leaves the servers alone.
LEMMA NextIsLoadNext == WebInv /\ [Next]_vars => [LoadNext]_loadVars
<1> SUFFICES ASSUME WebInv, [Next]_vars PROVE LoadNext \/ UNCHANGED loadVars
  OBVIOUS
<1>1. ASSUME NEW s \in Servers,
             Serve(s) \/ ServeFails(s) \/ ServerCrashes(s) \/ ServerRestarts(s)
      PROVE  LoadNext
  BY <1>1 DEF Serve, ServeFails, ServerCrashes, ServerRestarts, LoadNext, ServerStep
<1>2. ASSUME NEW r \in Requests, WebStep(r)
      PROVE  LoadNext \/ UNCHANGED loadVars
  <2>1. CASE Upload(r)
    BY <2>1, WebChangesStore DEF LoadNext
  <2>2. CASE SendNext(r) \/ SendAnswered(r)
    BY <2>2, WebCallsServer
  <2> QED
    BY <1>2, <2>1, <2>2
    DEF WebStep, MakeVersionDir, OpenVersion, CopyVersion, ChooseLatest
<1>3. ASSUME NEW r \in Requests,
             \/ \E k \in {"deploy", "fresh"} : StartDeploy(r, k)
             \/ StartLatest(r, AllServers)
             \/ \E s \in Servers : Heartbeat(r, s)
      PROVE  UNCHANGED loadVars
  BY <1>3 DEF StartDeploy, StartLatest, Heartbeat
<1>4. ASSUME UNCHANGED vars PROVE UNCHANGED loadVars
  BY <1>4 DEF vars
<1> QED
  BY <1>1, <1>2, <1>3, <1>4 DEF Next

(* RAWeb and its servers together are servers as module ConfigLoad has     *)
(* them: it names no version that does not exist and no server but one.    *)
THEOREM DeliveryIsLoad == Spec => LoadSpec
<1>1. Init => LoadInit
  BY DEF Init, LoadInit
<1> QED
  BY <1>1, NextIsLoadNext, WebInvariant, PTL DEF Spec, LoadSpec

(* So whatever the requests do and whoever crashes, a running server uses  *)
(* the highest version it has unless that one is broken, never goes back   *)
(* to an older one, and never loses one it has.                            *)
THEOREM ServersWhileDelivering ==
  Spec => []NewestUnlessBroken /\ NeverGoesBack /\ LocalVersionsStay
BY DeliveryIsLoad, NewestIsUsed, NotBack, LocalStays, PTL
\* Only uploads say who writes a file, and they are requests.
LEMMA OntoType ==
  ASSUME onto \in [Versions -> SUBSET Requests], [Next]_vars
  PROVE  onto' \in [Versions -> SUBSET Requests]
<1>1. ASSUME NEW r \in Requests, Upload(r) PROVE onto' \in [Versions -> SUBSET Requests]
  <2>1. \/ UNCHANGED onto
        \/ \E rs \in {{}, onto[req[r].ver] \cup {r}, onto[req[r].ver] \ {r}} :
             onto' = [onto EXCEPT ![req[r].ver] = rs]
    BY <1>1 DEF Upload, UploadExists, UploadRemovesFile, UploadRemovesDir, UploadMakesDir,
                UploadLooks, UploadOpens, UploadOpensName, UploadFills
  <2> QED
    BY <2>1
<1>2. (\E r \in Requests : Upload(r)) \/ UNCHANGED onto
  BY DEF Next, WebStep, StartDeploy, StartLatest, Heartbeat, MakeVersionDir, OpenVersion,
         CopyVersion, ChooseLatest, SendNext, SendAnswered, SendStep, Serve, ServeFails,
         ServerCrashes, ServerRestarts, vars, webVars
<1> QED
  BY <1>1, <1>2

(* All variables keep their types.                                         *)
THEOREM TypeCorrect == Spec => []TypeOK
<1>1. Init => onto \in [Versions -> SUBSET Requests]
  BY DEF Init
<1>2. Spec => []LoadInv
  BY DeliveryIsLoad, LoadInvariant, PTL
<1>3. LoadInv /\ WebInv /\ onto \in [Versions -> SUBSET Requests] => TypeOK
  BY DEF LoadInv, WebInv, WebTypeOK, TypeOK, RequestType, Kinds
<1>4. onto \in [Versions -> SUBSET Requests] /\ [Next]_vars
        => (onto \in [Versions -> SUBSET Requests])'
  BY OntoType
<1> QED
  BY <1>1, <1>2, <1>3, <1>4, WebInvariant, PTL DEF Spec
-----------------------------------------------------------------------------
(* Who waits for an answer is the only one, and gets the answer to its     *)
(* own call.                                                               *)

Asks(r, s) == At(r, "wait") /\ Head(req[r].rest) = s

\* OneCaller, stated of the servers.
OneCallerOf(s) ==
  /\ \A r \in Requests : Asks(r, s) => hpc[s] # "idle" /\ hver[s] = req[r].ver
  /\ \A r \in Requests, q \in Requests : Asks(r, s) /\ Asks(q, s) => q = r

\* The server a request asks is one.
LEMMA AskedIsServer ==
  ASSUME WebInv, NEW r \in Requests, At(r, "wait") PROVE Head(req[r].rest) \in Servers
<1>1. req[r].rest \in Seq(Servers) /\ req[r].rest # <<>>
  BY DEF WebInv, WebTypeOK, RequestType
<1> QED
  BY <1>1, HeadTailProperties

\* The two statements agree.
LEMMA OneCallerIsOf == WebInv => (OneCaller <=> \A s \in Servers : OneCallerOf(s))
BY AskedIsServer DEF OneCaller, OneCallerOf, Asks

\* A step that calls and answers nobody.
LEMMA OneCallerQuiet ==
  ASSUME \A s \in Servers : OneCallerOf(s), UNCHANGED hver,
         \A s \in Servers : hpc[s] # "idle" => hpc'[s] # "idle",
         \A r \in Requests : At(r, "wait")' => req'[r] = req[r]
  PROVE  \A s \in Servers : OneCallerOf(s)'
BY DEF OneCallerOf, Asks, At

\* Steps of requests that call and answer nobody.
LEMMA OneCallerWeb ==
  ASSUME WebInv, \A s \in Servers : OneCallerOf(s), NEW r \in Requests,
         \/ Upload(r) \/ MakeVersionDir(r) \/ OpenVersion(r) \/ CopyVersion(r)
         \/ ChooseLatest(r) \/ StartLatest(r, AllServers)
         \/ \E k \in {"deploy", "fresh"} : StartDeploy(r, k)
         \/ \E s \in Servers : Heartbeat(r, s)
  PROVE  \A s \in Servers : OneCallerOf(s)'
<1>1. UNCHANGED serverVars
  BY DEF Upload, UploadExists, UploadRemovesFile, UploadRemovesDir, UploadMakesDir,
         UploadLooks, UploadOpens, UploadOpensName, UploadFills, UploadStep, MakeVersionDir, OpenVersion, CopyVersion,
         ChooseLatest, StartLatest, StartDeploy, Heartbeat, loadVars
<1>2. /\ \A q \in Requests : q # r => req'[q] = req[q]
      /\ req'[r] = req[r] \/ req'[r].pc # "wait"
  <2>1. CASE Ends(r)
    BY <2>1 DEF Ends, WebInv, WebTypeOK, NoRequest
  <2>2. CASE \E step \in Pcs \ {"wait"} : Goes(r, step)
    BY <2>2 DEF Goes, WebInv, WebTypeOK, RequestType
  <2>3. CASE ChooseLatest(r)
    BY <2>3 DEF ChooseLatest, WebInv, WebTypeOK, RequestType
  <2>5. CASE CopyVersion(r)
    BY <2>5 DEF CopyVersion, WebInv, WebTypeOK, RequestType
  <2>4. CASE \/ StartLatest(r, AllServers)
             \/ \E k \in {"deploy", "fresh"} : StartDeploy(r, k)
             \/ \E s \in Servers : Heartbeat(r, s)
    BY <2>4 DEF StartLatest, StartDeploy, Heartbeat, Starts, WebInv, WebTypeOK
  <2> QED
    BY <2>1, <2>2, <2>3, <2>4, <2>5
    DEF Upload, UploadExists, UploadRemovesFile, UploadRemovesDir, UploadMakesDir,
        UploadLooks, UploadOpens, UploadOpensName, UploadFills, MakeVersionDir, OpenVersion, CopyVersion, Pcs
<1> QED
  BY <1>1, <1>2, OneCallerQuiet DEF serverVars, At

\* A server is called when it is idle, so nobody waits for it.
LEMMA OneCallerSendNext ==
  ASSUME WebInv, LoadTypeOK, \A s \in Servers : OneCallerOf(s), NEW r \in Requests, SendNext(r)
  PROVE  \A s \in Servers : OneCallerOf(s)'
<1> DEFINE t == Head(req[r].rest)
<1>1. /\ \A q \in Requests : q # r => req'[q] = req[q]
      /\ ~At(r, "wait")
  BY DEF SendNext, Ends, Told, Goes, WebInv, WebTypeOK, At
<1>2. CASE UNCHANGED serverVars /\ (Ends(r) \/ req' = Told(r))
  <2>1. req'[r].pc # "wait"
    BY <1>2 DEF Ends, Told, NoRequest, WebInv, WebTypeOK, RequestType
  <2> QED
    BY <1>1, <1>2, <2>1, OneCallerQuiet DEF serverVars, At
<1>3. CASE req[r].rest # <<>> /\ Receive(t, req[r].ver) /\ Goes(r, "wait")
  <2>1. t \in Servers
    BY <1>3, HeadTailProperties DEF WebInv, WebTypeOK, RequestType
  <2>2. req'[r].pc = "wait" /\ req'[r].rest = req[r].rest /\ req'[r].ver = req[r].ver
    BY <1>3 DEF Goes, WebInv, WebTypeOK, RequestType
  <2>3. /\ hpc[t] = "idle" /\ hpc'[t] = "check" /\ hver'[t] = req[r].ver
        /\ \A s \in Servers : s # t => hpc'[s] = hpc[s] /\ hver'[s] = hver[s]
    BY <1>3, <2>1 DEF Receive, Becomes, LoadTypeOK
  <2>4. \A q \in Requests : ~Asks(q, t)
    BY <2>1, <2>3 DEF OneCallerOf
  <2>5. \A q \in Requests, s \in Servers : Asks(q, s)' <=> Asks(q, s) \/ (q = r /\ s = t)
    BY <1>1, <2>2 DEF Asks, At
  <2> HIDE DEF t
  <2> QED
    BY <1>1, <2>2, <2>3, <2>4, <2>5 DEF OneCallerOf
<1> QED
  BY <1>2, <1>3 DEF SendNext

\* An answer ends the waiting of the one that is answered.
LEMMA OneCallerAnswered ==
  ASSUME WebInv, LoadTypeOK, \A s \in Servers : OneCallerOf(s), NEW r \in Requests,
         SendAnswered(r)
  PROVE  \A s \in Servers : OneCallerOf(s)'
<1> DEFINE t == Head(req[r].rest)
<1>1. t \in Servers /\ Asks(r, t)
  BY AskedIsServer DEF SendAnswered, Asks
<1>2. /\ \A q \in Requests : q # r => req'[q] = req[q]
      /\ req'[r].pc # "wait"
  <2>1. CASE Ends(r)
    BY <2>1 DEF Ends, NoRequest, WebInv, WebTypeOK
  <2>2. CASE req' = Told(r)
    BY <2>2 DEF Told, WebInv, WebTypeOK, RequestType
  <2> QED
    BY <2>1, <2>2 DEF SendAnswered
<1>3. \A s \in Servers : s # t => hpc'[s] = hpc[s] /\ hver'[s] = hver[s]
  BY DEF SendAnswered, Respond, Becomes, LoadTypeOK
<1>4. \A q \in Requests : Asks(q, t) => q = r
  BY <1>1 DEF OneCallerOf
<1>5. \A q \in Requests, s \in Servers : Asks(q, s)' => Asks(q, s) /\ q # r
  BY <1>2 DEF Asks, At
<1> HIDE DEF t
<1> QED
  BY <1>2, <1>3, <1>4, <1>5 DEF OneCallerOf

\* Nobody waits for a server that has died.
LEMMA OneCallerCrash ==
  ASSUME WebInv, LoadTypeOK, \A s \in Servers : OneCallerOf(s), NEW t \in Servers,
         ServerCrashes(t)
  PROVE  \A s \in Servers : OneCallerOf(s)'
<1>1. \A s \in Servers : s # t => hpc'[s] = hpc[s] /\ hver'[s] = hver[s]
  BY DEF ServerCrashes, Crash, Becomes, LoadTypeOK
<1>2. \A q \in Requests : req'[q] = IF Asks(q, t) THEN Told(q)[q] ELSE req[q]
  BY DEF ServerCrashes, Asks
<1>3. \A q \in Requests : Told(q)[q].pc = "send"
  BY DEF Told, WebInv, WebTypeOK, RequestType
<1>4. \A q \in Requests, s \in Servers :
        Asks(q, s)' => Asks(q, s) /\ s # t /\ req'[q] = req[q]
  BY <1>2, <1>3 DEF Asks, At
<1> QED
  BY <1>1, <1>4 DEF OneCallerOf

\* Every step keeps it.
LEMMA OneCallerNext ==
  ASSUME WebInv, LoadTypeOK, \A s \in Servers : OneCallerOf(s), [Next]_vars
  PROVE  \A s \in Servers : OneCallerOf(s)'
<1>1. ASSUME NEW t \in Servers, Serve(t) \/ ServeFails(t) \/ ServerRestarts(t)
      PROVE  \A s \in Servers : OneCallerOf(s)'
  <2>1. UNCHANGED <<hver, req>>
    BY <1>1 DEF Serve, ServeFails, ServerRestarts, Handle, DownloadConf, CopyDir, CopyFile,
                Move, LoadConfig, DownloadFails, Restart, webVars
  <2>2. \A s \in Servers : hpc[s] # "idle" => hpc'[s] # "idle"
    <3>1. UNCHANGED hpc \/ \E step \in {"error", "load", "list", "move", "file", "ok"} : Becomes(t, step)
      BY <1>1 DEF Serve, ServeFails, ServerRestarts, Handle, DownloadConf, CopyDir, CopyFile,
                  Move, LoadConfig, DownloadFails, Restart, Becomes
    <3> QED
      BY <3>1 DEF Becomes, LoadTypeOK
  <2> QED
    BY <2>1, <2>2, OneCallerQuiet
<1>2. ASSUME UNCHANGED vars PROVE \A s \in Servers : OneCallerOf(s)'
  BY <1>2, OneCallerQuiet DEF vars, loadVars, serverVars, webVars
<1> QED
  BY <1>1, <1>2, OneCallerWeb, OneCallerSendNext, OneCallerAnswered, OneCallerCrash
  DEF Next, WebStep

(* A request that waits for a server waits for the answer to its own call, *)
(* and alone, whichever servers die (AdminServer.sendHttpRequest, and the  *)
(* one thread of HttpServer's event loop).                                 *)
THEOREM OneCallerOnly == Spec => []OneCaller
<1>1. Init => OneCaller
  BY DEF Init, OneCaller, NoRequest, At
<1>2. WebInv /\ WebInv' /\ LoadInv /\ OneCaller /\ [Next]_vars => OneCaller'
  <2> SUFFICES ASSUME WebInv, WebInv', LoadInv, OneCaller, [Next]_vars PROVE OneCaller'
    OBVIOUS
  <2>1. \A s \in Servers : OneCallerOf(s)'
    BY OneCallerIsOf, OneCallerNext DEF LoadInv
  <2>2. ASSUME NEW r \in Requests, At(r, "wait")' PROVE Head(req'[r].rest) \in Servers
    <3>1. req'[r].rest \in Seq(Servers) /\ req'[r].rest # <<>>
      BY <2>2 DEF WebInv, WebTypeOK, RequestType
    <3> QED
      BY <3>1, HeadTailProperties
  <2> QED
    BY <2>1, <2>2 DEF OneCaller, OneCallerOf, Asks
<1>3. Spec => []LoadInv
  BY DeliveryIsLoad, LoadInvariant, PTL
<1> QED
  BY <1>1, <1>2, <1>3, WebInvariant, PTL DEF Spec
=============================================================================
