-------------------------- MODULE ConfigLoadProofs --------------------------
(***************************************************************************)
(* Proofs about the servers, for any number of them and of versions, and   *)
(* whatever the store holds and the requests name.                         *)
(***************************************************************************)
EXTENDS ConfigLoad, WellFoundedInduction, TLAPS

\* A set of natural numbers has a least element, as < is well-founded.
LEMMA LeastNatural ==
  ASSUME NEW T \in SUBSET Nat, T # {} PROVE \E x \in T : \A y \in T : x <= y
<1> DEFINE R == {ss \in Nat \X Nat : ss[1] < ss[2]}
<1>1. IsWellFoundedOn(R, Nat)
  BY NatLessThanWellFounded DEF OpToRel
<1>2. \E x \in T : \A y \in T : ~ (<<y, x>> \in R)
  <2> HIDE DEF R
  <2> QED
    BY <1>1, WFMin, Zenon
<1>3. \A x \in T, y \in T : ~ (<<y, x>> \in R) => x <= y
  OBVIOUS
<1> QED
  BY <1>2, <1>3

\* The highest of some versions is one of them, and no version if there is none.
LEMMA HighestVersion ==
  ASSUME NEW S \in SUBSET Versions
  PROVE  /\ S = {} => Max0(S) = NoVersion
         /\ S # {} => Max0(S) \in S
         /\ \A v \in S : v <= Max0(S)
<1> USE LoadAssumption DEF Versions, LoadAssumption
<1>1. CASE S = {}
  BY <1>1 DEF Max0
<1>2. CASE S # {}
  <2> DEFINE T == {MaxVersion - v : v \in S}
  <2>1. PICK x \in T : \A y \in T : x <= y
    <3>1. \A v \in S : MaxVersion - v \in Nat
      OBVIOUS
    <3>2. T \subseteq Nat
      BY <3>1
    <3>3. T # {}
      BY <1>2
    <3> HIDE DEF T
    <3> QED
      BY <3>2, <3>3, LeastNatural
  <2>2. PICK m \in S : x = MaxVersion - m
    OBVIOUS
  <2>3. \A v \in S : m >= v
    <3> TAKE v \in S
    <3>1. x <= MaxVersion - v
      BY <2>1
    <3> QED
      BY <3>1, <2>2
  <2>4. Max(S) \in S /\ \A v \in S : Max(S) >= v
    BY <2>3 DEF Max
  <2> QED
    BY <1>2, <2>4 DEF Max0
<1> QED
  BY <1>1, <1>2

\* What the highest local version of a server is.
LEMMA HighestLocal ==
  ASSUME NEW s \in Servers
  PROVE  /\ GetMaxConfigVersion(s) \in Versions \cup {NoVersion}
         /\ GetMaxConfigVersion(s) # NoVersion => local[s][GetMaxConfigVersion(s)] # "absent"
         /\ \A v \in Versions : local[s][v] # "absent" => v <= GetMaxConfigVersion(s)
<1> DEFINE S == {v \in Versions : local[s][v] # "absent"}
<1>1. S \in SUBSET Versions
  OBVIOUS
<1>2. GetMaxConfigVersion(s) = Max0(S)
  BY DEF GetMaxConfigVersion
<1>3. S # {} => Max0(S) \in S
  BY <1>1, HighestVersion
<1>4. S = {} => Max0(S) = NoVersion
  BY <1>1, HighestVersion
<1>5. \A v \in S : v <= Max0(S)
  BY <1>1, HighestVersion
<1> QED
  BY <1>2, <1>3, <1>4, <1>5
-----------------------------------------------------------------------------
(* The invariant: what is in use can be loaded; what is downloaded is      *)
(* newer than anything local; and except between the download and the load *)
(* a running server uses the highest local version unless it is broken.    *)

InUseIsGood == \A s \in Servers : app[s] # NoVersion => local[s][app[s]] = "good"
DownTakesNone == \A s \in Servers : ~up[s] => app[s] = NoVersion
DownloadIsNewer ==
  \A s \in Servers :
    hpc[s] \in {"list", "file", "move"} => hver[s] > GetMaxConfigVersion(s)
NewestOrBroken(s) == \/ app[s] = GetMaxConfigVersion(s)
                     \/ local[s][GetMaxConfigVersion(s)] = "broken"
NewestInUse == \A s \in Servers : up[s] /\ hpc[s] # "load" => NewestOrBroken(s)

LoadInv == LoadTypeOK /\ InUseIsGood /\ DownTakesNone /\ DownloadIsNewer /\ NewestInUse

\* The highest local version depends on the local versions only.
LEMMA SameLocalSameHighest ==
  ASSUME NEW s \in Servers, local'[s] = local[s]
  PROVE  GetMaxConfigVersion(s)' = GetMaxConfigVersion(s)
BY DEF GetMaxConfigVersion

\* Initially the servers use what was delivered before, or nothing.
LEMMA LoadInvInit == LoadInit => LoadInv
<1> SUFFICES ASSUME LoadInit PROVE LoadInv
  OBVIOUS
<1>1. PICK n \in 0..MaxAtFirst : Delivered(n)
  BY DEF LoadInit
<1>2. n \in Versions \cup {NoVersion}
  BY LoadAssumption DEF LoadAssumption, Versions, NoVersion
<1>3. \A s \in Servers : GetMaxConfigVersion(s) = n
  <2> TAKE s \in Servers
  <2>1. \A v \in Versions : local[s][v] # "absent" <=> v <= n
    BY <1>1 DEF Delivered
  <2> QED
    BY <1>2, <2>1, HighestLocal DEF Versions, NoVersion
<1>4. LoadTypeOK
  BY <1>1, <1>2, LoadAssumption DEF Delivered, LoadTypeOK, LoadAssumption, Entry, Dir, Copy
<1>5. \A s \in Servers : n # NoVersion => local[s][n] = "good"
  BY <1>1, <1>2 DEF Delivered, Versions, NoVersion
<1> QED
  BY <1>1, <1>3, <1>4, <1>5 DEF Delivered, LoadInv, InUseIsGood, DownTakesNone,
     DownloadIsNewer, NewestInUse, NewestOrBroken

\* A change of the store concerns no server.
LEMMA LoadInvStore == LoadInv /\ StoreChanges => LoadInv'
<1> SUFFICES ASSUME LoadInv, StoreChanges PROVE LoadInv'
  OBVIOUS
<1>1. \A s \in Servers : GetMaxConfigVersion(s)' = GetMaxConfigVersion(s)
  BY SameLocalSameHighest DEF StoreChanges, serverVars
<1>2. store' \in [Versions -> Entry]
  BY DEF LoadInv, LoadTypeOK, StoreChanges
<1> QED
  BY <1>1, <1>2 DEF LoadInv, LoadTypeOK, StoreChanges, serverVars, InUseIsGood, DownTakesNone,
                    DownloadIsNewer, NewestInUse, NewestOrBroken

\* Steps that leave the local versions as they are.
LEMMA SameLocal ==
  ASSUME local' = local
  PROVE  \A q \in Servers : GetMaxConfigVersion(q)' = GetMaxConfigVersion(q)
BY SameLocalSameHighest

\* A request that arrives has its versions compared later.
LEMMA LoadInvReceive ==
  ASSUME LoadInv, NEW s \in Servers, NEW v \in Versions, Receive(s, v), UNCHANGED store
  PROVE  LoadInv'
<1> USE DEF Receive, Becomes
<1>1. LoadTypeOK'
  BY LoadAssumption, SameLocal DEF LoadInv, LoadTypeOK, LoadAssumption, Versions, NoVersion
<1>2. InUseIsGood' /\ DownTakesNone'
  BY DEF LoadInv, LoadTypeOK, InUseIsGood, DownTakesNone
<1>3. DownloadIsNewer'
  BY SameLocal DEF LoadInv, LoadTypeOK, DownloadIsNewer
<1>4. NewestInUse'
  BY SameLocal DEF LoadInv, LoadTypeOK, NewestInUse, NewestOrBroken
<1> QED
  BY <1>1, <1>2, <1>3, <1>4 DEF LoadInv

\* Only a version above all local ones is downloaded.
LEMMA LoadInvDownloadConf ==
  ASSUME LoadInv, NEW s \in Servers, DownloadConf(s), UNCHANGED store
  PROVE  LoadInv'
<1> USE DEF DownloadConf, Becomes
<1>1. LoadTypeOK'
  BY LoadAssumption, SameLocal, HighestLocal DEF LoadInv, LoadTypeOK, LoadAssumption, Versions, NoVersion, Copy
<1>2. InUseIsGood' /\ DownTakesNone'
  BY DEF LoadInv, LoadTypeOK, InUseIsGood, DownTakesNone
<1>3. DownloadIsNewer'
  BY SameLocal, HighestLocal DEF LoadInv, LoadTypeOK, DownloadIsNewer, Versions, NoVersion
<1>4. NewestInUse'
  BY SameLocal DEF LoadInv, LoadTypeOK, NewestInUse, NewestOrBroken
<1> QED
  BY <1>1, <1>2, <1>3, <1>4 DEF LoadInv

\* Copying changes the temporary directory only.
LEMMA LoadInvCopyDir ==
  ASSUME LoadInv, NEW s \in Servers, CopyDir(s), UNCHANGED store
  PROVE  LoadInv'
<1> USE DEF CopyDir, Becomes
<1>1. LoadTypeOK'
  BY LoadAssumption, SameLocal, HighestLocal DEF LoadInv, LoadTypeOK, LoadAssumption, Versions, NoVersion, Copy
<1>2. InUseIsGood' /\ DownTakesNone'
  BY DEF LoadInv, LoadTypeOK, InUseIsGood, DownTakesNone
<1>3. DownloadIsNewer'
  BY SameLocal, HighestLocal DEF LoadInv, LoadTypeOK, DownloadIsNewer, Versions, NoVersion
<1>4. NewestInUse'
  BY SameLocal DEF LoadInv, LoadTypeOK, NewestInUse, NewestOrBroken
<1> QED
  BY <1>1, <1>2, <1>3, <1>4 DEF LoadInv

\* Copying changes the temporary directory only.
LEMMA LoadInvCopyFile ==
  ASSUME LoadInv, NEW s \in Servers, CopyFile(s), UNCHANGED store
  PROVE  LoadInv'
<1> USE DEF CopyFile, Becomes
<1>1. LoadTypeOK'
  <2>1. PICK c \in Copy, step \in {"move", "error"} :
          /\ temp' = [temp EXCEPT ![s] = c] /\ hpc' = [hpc EXCEPT ![s] = step]
          /\ step = "move" => c # "absent"
    <3>1. CASE store[hver[s]] \in {"absent", "empty", "plain"} /\ Becomes(s, "error") /\ UNCHANGED temp
      <4>1. temp[s] \in Copy /\ temp' = [temp EXCEPT ![s] = temp[s]]
        BY <3>1 DEF LoadInv, LoadTypeOK
      <4> QED
        BY <3>1, <4>1
    <3>2. CASE Becomes(s, "move") /\ \E c \in {"good", "broken"} : temp' = [temp EXCEPT ![s] = c]
      BY <3>2 DEF Copy
    <3> QED
      BY <3>1, <3>2
  <2> QED
    BY <2>1, SameLocal DEF LoadInv, LoadTypeOK
<1>2. InUseIsGood' /\ DownTakesNone'
  BY DEF LoadInv, LoadTypeOK, InUseIsGood, DownTakesNone
<1>3. DownloadIsNewer'
  BY SameLocal, HighestLocal DEF LoadInv, LoadTypeOK, DownloadIsNewer, Versions, NoVersion
<1>4. NewestInUse'
  BY SameLocal DEF LoadInv, LoadTypeOK, NewestInUse, NewestOrBroken
<1> QED
  BY <1>1, <1>2, <1>3, <1>4 DEF LoadInv

\* A failure leaves everything local as it was.
LEMMA LoadInvDownloadFails ==
  ASSUME LoadInv, NEW s \in Servers, DownloadFails(s), UNCHANGED store
  PROVE  LoadInv'
<1> USE DEF DownloadFails, Becomes
<1>1. LoadTypeOK'
  BY LoadAssumption, SameLocal, HighestLocal DEF LoadInv, LoadTypeOK, LoadAssumption, Versions, NoVersion, Copy
<1>2. InUseIsGood' /\ DownTakesNone'
  BY DEF LoadInv, LoadTypeOK, InUseIsGood, DownTakesNone
<1>3. DownloadIsNewer'
  BY SameLocal, HighestLocal DEF LoadInv, LoadTypeOK, DownloadIsNewer, Versions, NoVersion
<1>4. NewestInUse'
  BY SameLocal DEF LoadInv, LoadTypeOK, NewestInUse, NewestOrBroken
<1> QED
  BY <1>1, <1>2, <1>3, <1>4 DEF LoadInv

\* The response leaves everything local as it was.
LEMMA LoadInvRespond ==
  ASSUME LoadInv, NEW s \in Servers, Respond(s), UNCHANGED store
  PROVE  LoadInv'
<1> USE DEF Respond, Becomes
<1>1. LoadTypeOK'
  BY LoadAssumption, SameLocal, HighestLocal DEF LoadInv, LoadTypeOK, LoadAssumption, Versions, NoVersion, Copy
<1>2. InUseIsGood' /\ DownTakesNone'
  BY DEF LoadInv, LoadTypeOK, InUseIsGood, DownTakesNone
<1>3. DownloadIsNewer'
  BY SameLocal, HighestLocal DEF LoadInv, LoadTypeOK, DownloadIsNewer, Versions, NoVersion
<1>4. NewestInUse'
  BY SameLocal DEF LoadInv, LoadTypeOK, NewestInUse, NewestOrBroken
<1> QED
  BY <1>1, <1>2, <1>3, <1>4 DEF LoadInv

\* A version above all local ones is put among them: nothing is overwritten.
LEMMA LoadInvMove ==
  ASSUME LoadInv, NEW s \in Servers, Move(s), UNCHANGED store
  PROVE  LoadInv'
<1> USE DEF Move, Becomes
<1>1. /\ hver[s] \in Versions /\ temp[s] # "absent" /\ hver[s] > GetMaxConfigVersion(s)
      /\ local[s][hver[s]] = "absent"
  BY HighestLocal DEF LoadInv, LoadTypeOK, DownloadIsNewer, Versions, NoVersion
<1>2. /\ local' \in [Servers -> [Versions -> Copy]]
      /\ \A q \in Servers : q # s => local'[q] = local[q]
      /\ local'[s] = [local[s] EXCEPT ![hver[s]] = temp[s]]
  BY <1>1 DEF LoadInv, LoadTypeOK
<1>3. \A q \in Servers : q # s => GetMaxConfigVersion(q)' = GetMaxConfigVersion(q)
  BY <1>2, SameLocalSameHighest
<1>4. GetMaxConfigVersion(s)' # NoVersion
  <2>1. local'[s][hver[s]] # "absent"
    BY <1>1, <1>2 DEF LoadInv, LoadTypeOK
  <2>2. {v \in Versions : local'[s][v] # "absent"} # {}
    BY <1>1, <2>1
  <2>3. {v \in Versions : local'[s][v] # "absent"} \in SUBSET Versions
    OBVIOUS
  <2>4. GetMaxConfigVersion(s)' \in {v \in Versions : local'[s][v] # "absent"}
    BY <2>2, <2>3, HighestVersion DEF GetMaxConfigVersion
  <2> QED
    BY <2>4 DEF Versions, NoVersion
<1>5. LoadTypeOK'
  BY <1>2, <1>3, <1>4 DEF LoadInv, LoadTypeOK
<1>6. InUseIsGood' /\ DownTakesNone'
  <2>1. \A q \in Servers : app[q] # NoVersion => local'[q][app[q]] = "good"
    BY <1>1, <1>2 DEF LoadInv, LoadTypeOK, InUseIsGood
  <2> QED
    BY <2>1 DEF LoadInv, InUseIsGood, DownTakesNone
<1>7. DownloadIsNewer'
  BY <1>3 DEF LoadInv, LoadTypeOK, DownloadIsNewer
<1>8. NewestInUse'
  BY <1>2, <1>3 DEF LoadInv, LoadTypeOK, NewestInUse, NewestOrBroken
<1> QED
  BY <1>5, <1>6, <1>7, <1>8 DEF LoadInv

\* The highest local version is loaded, unless it is broken.
LEMMA LoadInvLoadConfig ==
  ASSUME LoadInv, NEW s \in Servers, LoadConfig(s), UNCHANGED store
  PROVE  LoadInv'
<1> DEFINE m == GetMaxConfigVersion(s)
<1>1. m \in Versions /\ local[s][m] \in {"good", "broken"} /\ up[s] /\ hpc[s] = "load"
  BY HighestLocal DEF LoadConfig, LoadInv, LoadTypeOK, Copy, NoVersion
<1>2. \/ app' = [app EXCEPT ![s] = m] /\ local[s][m] = "good"
      \/ UNCHANGED app /\ local[s][m] = "broken"
      \/ UNCHANGED app /\ app[s] = m
  BY <1>1 DEF LoadConfig, LoadInv, LoadTypeOK
<1>3. PICK step \in {"ok", "error"} : hpc' = [hpc EXCEPT ![s] = step]
  BY DEF LoadConfig, Becomes
<1>4. UNCHANGED <<store, up, crashes, local, hver, temp>>
  BY DEF LoadConfig
<1>5. \A q \in Servers : GetMaxConfigVersion(q)' = GetMaxConfigVersion(q)
  BY <1>4, SameLocal
<1> HIDE DEF m
<1>6. LoadTypeOK'
  <2>1. app' \in [Servers -> Versions \cup {NoVersion}]
    BY <1>1, <1>2 DEF LoadInv, LoadTypeOK
  <2> QED
    BY <1>1, <1>3, <1>4, <1>5, <2>1 DEF LoadInv, LoadTypeOK
<1>7. InUseIsGood' /\ DownTakesNone'
  BY <1>1, <1>2, <1>4 DEF LoadInv, LoadTypeOK, InUseIsGood, DownTakesNone
<1>8. DownloadIsNewer'
  BY <1>3, <1>4, <1>5 DEF LoadInv, LoadTypeOK, DownloadIsNewer
<1>9. NewestInUse'
  <2>1. NewestOrBroken(s)'
    BY <1>2, <1>4, <1>5 DEF m, NewestOrBroken, LoadInv, LoadTypeOK
  <2>2. \A q \in Servers : q # s => app'[q] = app[q] /\ hpc'[q] = hpc[q]
    BY <1>2, <1>3 DEF LoadInv, LoadTypeOK
  <2> QED
    BY <2>1, <2>2, <1>4, <1>5 DEF LoadInv, NewestInUse, NewestOrBroken
<1> QED
  BY <1>6, <1>7, <1>8, <1>9 DEF LoadInv

\* A dead server uses nothing; what it has moved into place stays.
LEMMA LoadInvCrash ==
  ASSUME LoadInv, NEW s \in Servers, Crash(s), UNCHANGED store
  PROVE  LoadInv'
<1> USE DEF Crash, Becomes
<1>1. LoadTypeOK'
  BY LoadAssumption, SameLocal DEF LoadInv, LoadTypeOK, LoadAssumption, Copy
<1>2. InUseIsGood' /\ DownTakesNone'
  BY DEF LoadInv, LoadTypeOK, InUseIsGood, DownTakesNone
<1>3. DownloadIsNewer'
  BY SameLocal DEF LoadInv, LoadTypeOK, DownloadIsNewer
<1>4. NewestInUse'
  BY SameLocal DEF LoadInv, LoadTypeOK, NewestInUse, NewestOrBroken
<1> QED
  BY <1>1, <1>2, <1>3, <1>4 DEF LoadInv

\* A new process loads the highest local version, unless it is broken.
LEMMA LoadInvRestart ==
  ASSUME LoadInv, NEW s \in Servers, Restart(s), UNCHANGED store
  PROVE  LoadInv'
<1> DEFINE m == GetMaxConfigVersion(s)
<1>1. /\ m \in Versions \cup {NoVersion} /\ app[s] = NoVersion
      /\ m # NoVersion => local[s][m] \in {"good", "broken"}
  BY HighestLocal DEF Restart, LoadInv, LoadTypeOK, DownTakesNone, Copy
<1>2. \/ app' = [app EXCEPT ![s] = m] /\ m # NoVersion /\ local[s][m] = "good"
      \/ UNCHANGED app /\ (m = NoVersion \/ local[s][m] = "broken")
  BY <1>1 DEF Restart
<1>3. up' = [up EXCEPT ![s] = TRUE] /\ UNCHANGED <<store, crashes, local, hpc, hver, temp>>
  BY DEF Restart
<1>4. \A q \in Servers : GetMaxConfigVersion(q)' = GetMaxConfigVersion(q)
  BY <1>3, SameLocal
<1> HIDE DEF m
<1>5. LoadTypeOK'
  BY <1>1, <1>2, <1>3, <1>4 DEF LoadInv, LoadTypeOK
<1>6. InUseIsGood' /\ DownTakesNone'
  BY <1>1, <1>2, <1>3 DEF LoadInv, LoadTypeOK, InUseIsGood, DownTakesNone
<1>7. DownloadIsNewer'
  BY <1>3, <1>4 DEF LoadInv, LoadTypeOK, DownloadIsNewer
<1>8. NewestInUse'
  <2>1. NewestOrBroken(s)'
    BY <1>1, <1>2, <1>3, <1>4 DEF m, NewestOrBroken, LoadInv, LoadTypeOK
  <2>2. \A q \in Servers : q # s => app'[q] = app[q] /\ up'[q] = up[q]
    BY <1>2, <1>3 DEF LoadInv, LoadTypeOK
  <2> QED
    BY <2>1, <2>2, <1>3, <1>4 DEF LoadInv, NewestInUse, NewestOrBroken
<1> QED
  BY <1>5, <1>6, <1>7, <1>8 DEF LoadInv
-----------------------------------------------------------------------------
(* The theorems.                                                           *)

\* Every step of a server keeps the invariant.
LEMMA LoadInvServer ==
  ASSUME LoadInv, NEW s \in Servers, ServerStep(s) PROVE LoadInv'
<1>1. UNCHANGED store
  BY DEF ServerStep
<1>2. CASE \E v \in Versions : Receive(s, v)
  BY <1>1, <1>2, LoadInvReceive
<1>3. CASE DownloadConf(s)
  BY <1>1, <1>3, LoadInvDownloadConf
<1>4. CASE CopyDir(s)
  BY <1>1, <1>4, LoadInvCopyDir
<1>5. CASE CopyFile(s)
  BY <1>1, <1>5, LoadInvCopyFile
<1>6. CASE Move(s)
  BY <1>1, <1>6, LoadInvMove
<1>7. CASE LoadConfig(s)
  BY <1>1, <1>7, LoadInvLoadConfig
<1>8. CASE DownloadFails(s)
  BY <1>1, <1>8, LoadInvDownloadFails
<1>9. CASE Respond(s)
  BY <1>1, <1>9, LoadInvRespond
<1>10. CASE Crash(s)
  BY <1>1, <1>10, LoadInvCrash
<1>11. CASE Restart(s)
  BY <1>1, <1>11, LoadInvRestart
<1> QED
  BY <1>2, <1>3, <1>4, <1>5, <1>6, <1>7, <1>8, <1>9, <1>10, <1>11 DEF ServerStep, Handle

\* So does a step that changes nothing.
LEMMA LoadInvStutter == LoadInv /\ UNCHANGED loadVars => LoadInv'
<1> SUFFICES ASSUME LoadInv, UNCHANGED loadVars PROVE LoadInv'
  OBVIOUS
<1>1. \A q \in Servers : GetMaxConfigVersion(q)' = GetMaxConfigVersion(q)
  BY SameLocal DEF loadVars, serverVars
<1> QED
  BY <1>1 DEF LoadInv, LoadTypeOK, loadVars, serverVars, InUseIsGood, DownTakesNone,
              DownloadIsNewer, NewestInUse, NewestOrBroken

\* Every step of the specification keeps the invariant.
LEMMA LoadInvNext == LoadInv /\ [LoadNext]_loadVars => LoadInv'
BY LoadInvServer, LoadInvStore, LoadInvStutter DEF LoadNext

(* The servers' variables keep their types, and the invariant holds, for   *)
(* any number of servers, versions and crashes and every use of the store. *)
THEOREM LoadInvariant == LoadSpec => []LoadInv
<1>1. LoadInit => LoadInv
  BY LoadInvInit
<1>2. LoadInv /\ [LoadNext]_loadVars => LoadInv'
  BY LoadInvNext
<1> QED
  BY <1>1, <1>2, PTL DEF LoadSpec

(* A running server that handles no request uses the highest version it    *)
(* has locally, unless that one cannot be loaded (RaApp::loadConfig).      *)
THEOREM NewestIsUsed == LoadSpec => []NewestUnlessBroken
<1>1. LoadInv => NewestUnlessBroken
  BY DEF LoadInv, NewestInUse, NewestOrBroken, NewestUnlessBroken
<1> QED
  BY <1>1, LoadInvariant, PTL

\* A step of a server keeps what is in use, unless it makes it newer.
LEMMA StepNotBack ==
  ASSUME LoadInv, [LoadNext]_loadVars, NEW s \in Servers, up[s], up'[s]
  PROVE  app'[s] >= app[s]
<1>1. app[s] \in Nat /\ app[s] <= GetMaxConfigVersion(s) /\ GetMaxConfigVersion(s) \in Nat
  <2>1. GetMaxConfigVersion(s) \in Nat
    BY HighestLocal, LoadAssumption DEF Versions, NoVersion, LoadAssumption
  <2>2. app[s] \in Versions \cup {NoVersion}
    BY DEF LoadInv, LoadTypeOK
  <2>3. CASE app[s] = NoVersion
    BY <2>1, <2>3 DEF NoVersion
  <2>4. CASE app[s] \in Versions /\ local[s][app[s]] = "good"
    BY <2>1, <2>4, HighestLocal DEF Versions
  <2> QED
    BY <2>2, <2>3, <2>4 DEF LoadInv, InUseIsGood
<1>2. app'[s] = app[s] \/ app'[s] = GetMaxConfigVersion(s)
  <2>1. ASSUME NEW q \in Servers, Crash(q) PROVE app'[s] = app[s]
    BY <2>1 DEF Crash, LoadInv, LoadTypeOK
  <2>2. ASSUME NEW q \in Servers, LoadConfig(q)
        PROVE  app'[s] = app[s] \/ app'[s] = GetMaxConfigVersion(s)
    BY <2>2 DEF LoadConfig, LoadInv, LoadTypeOK
  <2>3. ASSUME NEW q \in Servers, Restart(q)
        PROVE  app'[s] = app[s] \/ app'[s] = GetMaxConfigVersion(s)
    BY <2>3 DEF Restart, LoadInv, LoadTypeOK
  <2>4. ASSUME NEW q \in Servers,
               \/ DownloadConf(q) \/ CopyDir(q) \/ CopyFile(q) \/ Move(q)
               \/ DownloadFails(q) \/ Respond(q) \/ \E v \in Versions : Receive(q, v)
        PROVE  app'[s] = app[s]
    BY <2>4 DEF DownloadConf, CopyDir, CopyFile, Move, DownloadFails, Respond, Receive
  <2>5. ASSUME StoreChanges \/ UNCHANGED loadVars PROVE app'[s] = app[s]
    BY <2>5 DEF StoreChanges, loadVars, serverVars
  <2> QED
    BY <2>1, <2>2, <2>3, <2>4, <2>5 DEF LoadNext, ServerStep, Handle
<1> QED
  BY <1>1, <1>2

(* A running server never goes back to an older configuration, whatever it *)
(* is sent and in whatever order.                                          *)
THEOREM NotBack == LoadSpec => NeverGoesBack
<1>1. LoadInv /\ [LoadNext]_loadVars
        => [\A s \in Servers : up[s] /\ up'[s] => app'[s] >= app[s]]_loadVars
  BY StepNotBack
<1> QED
  BY <1>1, LoadInvariant, PTL DEF LoadSpec, NeverGoesBack
(* What a server has moved into its local root is neither replaced nor     *)
(* removed by later requests (ConfigDownloader::downloadConf).             *)
THEOREM LocalStays == LoadSpec => LocalVersionsStay
<1>1. ASSUME LoadInv, [LoadNext]_loadVars, NEW s \in Servers, NEW v \in Versions,
             local[s][v] # "absent"
      PROVE  local'[s][v] = local[s][v]
  <2>1. ASSUME NEW q \in Servers, Move(q) PROVE local'[s][v] = local[s][v]
    <3>1. hver[q] \in Versions /\ local[q][hver[q]] = "absent"
      BY <1>1, <2>1, HighestLocal
      DEF Move, LoadInv, LoadTypeOK, DownloadIsNewer, Versions, NoVersion
    <3> QED
      BY <1>1, <2>1, <3>1 DEF Move, LoadInv, LoadTypeOK
  <2>2. ASSUME NEW q \in Servers, ServerStep(q), ~Move(q) PROVE local' = local
    BY <2>2 DEF ServerStep, Handle, DownloadConf, CopyDir, CopyFile, LoadConfig,
                DownloadFails, Respond, Crash, Restart, Receive
  <2>3. ASSUME StoreChanges \/ UNCHANGED loadVars PROVE local' = local
    BY <2>3 DEF StoreChanges, loadVars, serverVars
  <2> QED
    BY <1>1, <2>1, <2>2, <2>3 DEF LoadNext
<1>2. LoadInv /\ [LoadNext]_loadVars
        => [\A s \in Servers, v \in Versions :
              local[s][v] # "absent" => local'[s][v] = local[s][v]]_loadVars
  BY <1>1
<1> QED
  BY <1>2, LoadInvariant, PTL DEF LoadSpec, LocalVersionsStay
=============================================================================
