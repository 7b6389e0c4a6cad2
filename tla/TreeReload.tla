----------------------------- MODULE TreeReload -----------------------------
(***************************************************************************)
(* TreeManager: a thread that, whenever the server has got a new           *)
(* configuration, fetches the metric tree from the data sources, makes one *)
(* ProcessPackage per policy of the configuration and replaces the map the *)
(* main loop works through.  A new package takes over what the package of  *)
(* the same policy in the old map has (lastNonOkAlarmTime, trend data),    *)
(* while that one may still be in the hands of the main loop, which keeps  *)
(* the map it took at the start of its pass, or of the pools.              *)
(*                                                                         *)
(* The tree thread runs after start() has returned.  What the pools do     *)
(* with a package (module Pipeline) is reduced to three steps: work, the   *)
(* delivery of an alarm, the delivery of an OK code.  A tree stands for    *)
(* the answers of all data sources; its hash for its metrics' names.       *)
(***************************************************************************)
EXTENDS Integers, FiniteSets

CONSTANTS
  Keys,             \* policies, by their ProcessPackageKey
  MaxVersion,       \* bound: the last configuration version
  Policies,         \* the policies of each version this server is to check
  Trees, EmptyTree, \* what the data sources may answer
  MaxChanges,       \* bound: how often the sources' tree changes
  LoopTime,         \* workLoop's currentTime, which it reads once
  ReloadInterval    \* _reloadTreeIntervalSec

Versions == 1..MaxVersion
NoVersion == 0      \* no ConfigWrapper, or INVALID_CONFIG_VERSION
NoHash == EmptyTree \* INVALID_HASH_VALUE: no packages were made of a tree

\* A version is built at most once, so a package is known by version and key.
Pkg == Versions \X Keys
Gen(p) == p[1]
KeyOf(p) == p[2]

ASSUME TreeAssumption ==
  /\ MaxVersion \in Nat \ {0}
  /\ Policies \in [Versions -> SUBSET Keys]
  /\ EmptyTree \in Trees
  /\ MaxChanges \in Nat
  /\ LoopTime \in Nat /\ ReloadInterval \in Nat /\ ReloadInterval < LoopTime

VARIABLES
  app,              \* the version of RaApp::_configWrapper
  source, changes,  \* the tree the data sources have now; how often it changed
  tpc,              \* the tree thread: step in doWorkLoop
  conf, tree,       \* its configPtr and the tree it fetched
  todo,             \* policies whose package it has still to make
  treeVersion, treeHash, lastReload,   \* what updateState sets
  served,           \* _processPackageMap
  mpc, left,        \* the main loop: step, packages of its pass still to see
  state,            \* a package's state
  stage,            \* what the pools are doing with it
  owed,             \* packages whose _lastNonOkAlarmTimeSec is a time
  trend             \* whose TrendData a package uses: that of its own birth or older

\* History: policies whose groups show an alarm; packages another one took
\* over from; policies whose alarm state a take-over could not see.
VARIABLES showing, copied, missed

confVars == <<app, source, changes>>
treeVars == <<tpc, conf, tree, todo, treeVersion, treeHash, lastReload>>
mainVars == <<mpc, left>>
pkgVars  == <<state, stage, owed, trend>>
history  == <<showing, copied, missed>>
vars == <<confVars, treeVars, served, mainVars, pkgVars, history>>

Init ==
  /\ app = NoVersion /\ source \in Trees /\ changes = 0
  /\ tpc = "loop" /\ conf = NoVersion /\ tree = EmptyTree /\ todo = {}
  /\ treeVersion = NoVersion /\ treeHash = NoHash /\ lastReload = 0
  /\ served = {} /\ mpc = "sleep" /\ left = {}
  /\ state = [p \in Pkg |-> "IDLE"] /\ stage = [p \in Pkg |-> "none"]
  /\ owed = {} /\ trend = [p \in Pkg |-> p]
  /\ showing = {} /\ copied = {} /\ missed = {}
-----------------------------------------------------------------------------
(* The server gets a newer configuration; the data sources change.         *)

\* Mutant: an older version is loaded, too.
LoadConfigOfAnyVersion ==
  /\ app' \in Versions \ {app}
  /\ UNCHANGED <<source, changes, treeVars, served, mainVars, pkgVars, history>>

LoadConfig == /\ app' \in {v \in Versions : v > app}
              /\ UNCHANGED <<source, changes, treeVars, served, mainVars, pkgVars, history>>

SourceChanges == /\ changes < MaxChanges
                 /\ changes' = changes + 1
                 /\ source' \in Trees \ {source}
                 /\ UNCHANGED <<app, treeVars, served, mainVars, pkgVars, history>>
-----------------------------------------------------------------------------
(* The tree thread.                                                        *)

IntervalElapsed == LoopTime - lastReload > ReloadInterval

\* Mutant: the NULL configuration is not noticed.
NeedReloadTreeAnyway ==
  /\ tpc = "loop"
  /\ app # treeVersion \/ IntervalElapsed
  /\ tpc' = "config"
  /\ UNCHANGED <<confVars, conf, tree, todo, treeVersion, treeHash, lastReload, served,
                 mainVars, pkgVars, history>>

NeedReloadTree ==
  /\ tpc = "loop"
  /\ app # NoVersion
  /\ app # treeVersion \/ IntervalElapsed
  /\ tpc' = "config"
  /\ UNCHANGED <<confVars, conf, tree, todo, treeVersion, treeHash, lastReload, served,
                 mainVars, pkgVars, history>>

\* doWorkLoop asks for the configuration a second time.
TakeConfig ==
  /\ tpc = "config"
  /\ conf' = app
  /\ tpc' = "fetch"
  /\ UNCHANGED <<confVars, tree, todo, treeVersion, treeHash, lastReload, served,
                 mainVars, pkgVars, history>>

\* One data source that fails ends this round; nothing is noted.
GetMetricTreeFails ==
  /\ tpc = "fetch"
  /\ tpc' = "loop"
  /\ UNCHANGED <<confVars, conf, tree, todo, treeVersion, treeHash, lastReload, served,
                 mainVars, pkgVars, history>>

GetMetricTree ==
  /\ tpc = "fetch"
  /\ tree' = source
  /\ tpc' = "decide"
  /\ UNCHANGED <<confVars, conf, todo, treeVersion, treeHash, lastReload, served,
                 mainVars, pkgVars, history>>

UpdateState(v, hash) ==
  treeVersion' = v /\ treeHash' = hash /\ lastReload' = LoopTime

NothingToDo == Policies[conf] = {} \/ tree = EmptyTree
Unchanged == treeVersion = conf /\ treeHash # NoHash /\ treeHash = tree

\* An empty configuration or tree: the map is cleared, then that is noted.
Clear ==
  /\ tpc = "decide" /\ NothingToDo
  /\ served' = {}
  /\ tpc' = "cleared"
  /\ missed' = missed \cup {KeyOf(p) : p \in served}
  /\ UNCHANGED <<confVars, conf, tree, todo, treeVersion, treeHash, lastReload, mainVars,
                 pkgVars, showing, copied>>

NoteCleared ==
  /\ tpc = "cleared"
  /\ UpdateState(conf, NoHash)
  /\ tpc' = "loop"
  /\ UNCHANGED <<confVars, conf, tree, todo, served, mainVars, pkgVars, history>>

GenRequestPackages ==
  /\ tpc = "decide" /\ ~NothingToDo
  /\ IF Unchanged
     THEN UpdateState(conf, tree) /\ tpc' = "loop" /\ UNCHANGED todo
     ELSE tpc' = "build" /\ todo' = Policies[conf] /\ UNCHANGED <<treeVersion, treeHash, lastReload>>
  /\ UNCHANGED <<confVars, conf, tree, served, mainVars, pkgVars, history>>

\* The package of the same policy in the map that is served now.
Predecessors(k) == {q \in served : KeyOf(q) = k}

\* Mutants: the take-over leaves out the time of the alarm, or the trend data.
GenWithoutAlarmTime(k) ==
  LET p == <<conf, k>> IN
  /\ tpc = "build" /\ k \in todo
  /\ trend' = [trend EXCEPT ![p] = IF Predecessors(k) = {} THEN p
                                   ELSE trend[CHOOSE q \in Predecessors(k) : TRUE]]
  /\ copied' = copied \cup Predecessors(k)
  /\ todo' = todo \ {k}
  /\ UNCHANGED <<confVars, tpc, conf, tree, treeVersion, treeHash, lastReload, served,
                 mainVars, state, stage, owed, showing, missed>>
GenWithNewTrend(k) ==
  /\ tpc = "build" /\ k \in todo
  /\ owed' = IF Predecessors(k) \cap owed = {} THEN owed ELSE owed \cup {<<conf, k>>}
  /\ copied' = copied \cup Predecessors(k)
  /\ todo' = todo \ {k}
  /\ UNCHANGED <<confVars, tpc, conf, tree, treeVersion, treeHash, lastReload, served,
                 mainVars, state, stage, trend, showing, missed>>

\* genProcessPackages, for one policy.
GenProcessPackage(k) ==
  LET p == <<conf, k>> IN
  /\ tpc = "build" /\ k \in todo
  /\ owed' = IF Predecessors(k) \cap owed = {} THEN owed ELSE owed \cup {p}
  /\ trend' = [trend EXCEPT ![p] = IF Predecessors(k) = {} THEN p
                                   ELSE trend[CHOOSE q \in Predecessors(k) : TRUE]]
  /\ copied' = copied \cup Predecessors(k)
  /\ todo' = todo \ {k}
  /\ UNCHANGED <<confVars, tpc, conf, tree, treeVersion, treeHash, lastReload, served,
                 mainVars, state, stage, showing, missed>>

\* Mutant: the version that is noted is the one of the moment.
NoteBuiltOfApp ==
  /\ tpc = "build" /\ todo = {}
  /\ UpdateState(app, tree)
  /\ tpc' = "publish"
  /\ UNCHANGED <<confVars, conf, tree, todo, served, mainVars, pkgVars, history>>

\* The new state is noted before the new map is served.
NoteBuilt ==
  /\ tpc = "build" /\ todo = {}
  /\ UpdateState(conf, tree)
  /\ tpc' = "publish"
  /\ UNCHANGED <<confVars, conf, tree, todo, served, mainVars, pkgVars, history>>

SetProcessPackageMap ==
  /\ tpc = "publish"
  /\ served' = {<<conf, k>> : k \in Policies[conf]}
  /\ tpc' = "loop"
  /\ missed' = missed \cup ({KeyOf(p) : p \in served} \ Policies[conf])
  /\ UNCHANGED <<confVars, conf, tree, todo, treeVersion, treeHash, lastReload, mainVars,
                 pkgVars, showing, copied>>

TreeStep == \/ NeedReloadTree \/ TakeConfig \/ GetMetricTreeFails \/ GetMetricTree
            \/ Clear \/ NoteCleared \/ GenRequestPackages
            \/ (\E k \in Keys : GenProcessPackage(k))
            \/ NoteBuilt \/ SetProcessPackageMap
-----------------------------------------------------------------------------
(* The main loop and the pools.                                            *)

MainWakes == /\ mpc = "sleep"
             /\ mpc' = "pass" /\ left' = served
             /\ UNCHANGED <<confVars, treeVars, served, pkgVars, history>>

\* The package is ready, an OK code is due for it, or it is passed over.
MainSees(p) ==
  /\ mpc = "pass" /\ p \in left
  /\ left' = left \ {p}
  /\ \/ UNCHANGED <<state, stage>>
     \/ \E s \in {"work", "ok"} :
          /\ state[p] = "IDLE"
          /\ s = "ok" => p \in owed
          /\ state' = [state EXCEPT ![p] = "PROCESSING"]
          /\ stage' = [stage EXCEPT ![p] = s]
  /\ UNCHANGED <<confVars, treeVars, served, mpc, owed, trend, history>>

MainSleeps == /\ mpc = "pass" /\ left = {}
              /\ mpc' = "sleep"
              /\ UNCHANGED <<confVars, treeVars, served, left, pkgVars, history>>

Finish(p) == /\ state' = [state EXCEPT ![p] = "IDLE"]
             /\ stage' = [stage EXCEPT ![p] = "none"]

\* Fetching and checking ends without an alarm, or a delivery fails.
PoolGivesUp(p) ==
  /\ stage[p] # "none"
  /\ Finish(p)
  /\ UNCHANGED <<confVars, treeVars, served, mainVars, owed, trend, history>>

PoolFindsViolation(p) ==
  /\ stage[p] = "work"
  /\ stage' = [stage EXCEPT ![p] = "alarm"]
  /\ UNCHANGED <<confVars, treeVars, served, mainVars, state, owed, trend, history>>

\* An alarm of a package somebody has taken over from is not seen by the heir.
PoolDelivers(p) ==
  /\ stage[p] \in {"alarm", "ok"}
  /\ IF stage[p] = "alarm"
     THEN /\ owed' = owed \cup {p} /\ showing' = showing \cup {KeyOf(p)}
          /\ missed' = IF p \in copied THEN missed \cup {KeyOf(p)} ELSE missed
     ELSE /\ owed' = owed \ {p} /\ showing' = showing \ {KeyOf(p)}
          /\ UNCHANGED missed
  /\ Finish(p)
  /\ UNCHANGED <<confVars, treeVars, served, mainVars, trend, copied>>

MainStep == MainWakes \/ MainSleeps \/ \E p \in Pkg : MainSees(p)
PoolStep(p) == PoolGivesUp(p) \/ PoolFindsViolation(p) \/ PoolDelivers(p)
-----------------------------------------------------------------------------
Next == LoadConfig \/ SourceChanges \/ TreeStep \/ MainStep \/ \E p \in Pkg : PoolStep(p)

Spec == Init /\ [][Next]_vars

\* The threads run, and data sources do not fail for ever.
Fairness == /\ WF_vars(TreeStep) /\ SF_vars(GetMetricTree)
            /\ WF_vars(MainStep) /\ \A p \in Pkg : WF_vars(PoolStep(p))
FairSpec == Spec /\ Fairness
-----------------------------------------------------------------------------
TypeOK ==
  /\ app \in Versions \cup {NoVersion} /\ source \in Trees /\ changes \in 0..MaxChanges
  /\ tpc \in {"loop", "config", "fetch", "decide", "cleared", "build", "publish"}
  /\ conf \in Versions \cup {NoVersion} /\ tree \in Trees
  /\ tpc \notin {"loop", "config"} => conf # NoVersion
  /\ todo \subseteq Keys /\ (tpc # "build" => todo = {})
  /\ treeVersion \in Versions \cup {NoVersion} /\ treeHash \in Trees
  /\ lastReload \in {0, LoopTime}
  /\ served \subseteq Pkg /\ mpc \in {"sleep", "pass"} /\ left \subseteq Pkg
  /\ state \in [Pkg -> {"IDLE", "PROCESSING"}]
  /\ stage \in [Pkg -> {"none", "work", "alarm", "ok"}]
  /\ owed \subseteq Pkg /\ trend \in [Pkg -> Pkg]
  /\ showing \subseteq Keys /\ copied \subseteq Pkg /\ missed \subseteq Keys

(* One configuration: the packages the main loop is given are those of one *)
(* version, all of them or (after an empty tree) none, each exactly once,  *)
(* and it is the version that was noted, except while a new one has been   *)
(* noted or an old one cleared and the other half is still to come.        *)
ServedIsOneConfig ==
  \/ tpc \in {"cleared", "publish"}
  \/ served = {}
  \/ treeVersion # NoVersion /\ served = {<<treeVersion, k>> : k \in Policies[treeVersion]}

(* The tree thread never goes back: what is served, and what is noted, are *)
(* of ever newer configurations, though needReloadTree and doWorkLoop ask  *)
(* for the configuration one after the other.                              *)
ServedVersionsGrow ==
  [][/\ treeVersion' >= treeVersion
     /\ served' # served => \A p \in served, q \in served' : Gen(p) < Gen(q)]_vars

(* A reload keeps the history of every policy that stays: its new package  *)
(* uses the trend data of the package it replaces, to the last sample the  *)
(* old one feeds.                                                          *)
TrendContinues ==
  [][\A p \in served, q \in served' :
       Gen(p) # Gen(q) /\ KeyOf(p) = KeyOf(q) => trend'[q] = trend[p]]_vars

(* A reload keeps the OK code that is owed to a policy's groups, unless an *)
(* alarm was delivered by the old package after the new one was made, or   *)
(* the policy was not served for a while.                                  *)
OkCodeSurvivesReload ==
  \A p \in served : KeyOf(p) \in showing \ missed => p \in owed

(* A newer configuration is taken up, however the data sources fail and    *)
(* recover and whenever yet newer ones arrive.                             *)
NewConfigIsTakenUp ==
  \A v \in Versions :
    (app = v) ~> /\ tpc = "loop" /\ treeVersion >= v
                 /\ served \in {{}, {<<treeVersion, k>> : k \in Policies[treeVersion]}}

(* RAServer/docs/ra-config.md:14, "reloadTreeIntervalSec": "time interval  *)
(* of fetching metric trees from supported monitoring services (seconds)". *)
(* Then a server with a configuration gets to see a tree that lasts.       *)
TreesAreFetchedAgain ==
  \A t \in Trees : (app # NoVersion /\ source = t) ~> (tree = t \/ source # t)
=============================================================================
