----------------------------- MODULE TreeProofs -----------------------------
(***************************************************************************)
(* Proofs about the reload of the metric tree, for any number of policies, *)
(* versions and trees.                                                     *)
(*                                                                         *)
(* That what is served is one configuration, and ever newer ones, needs    *)
(* how the version being built stands to the one noted and the one the     *)
(* server has (Order).  That history survives needs, besides, what the     *)
(* packages made and not yet served have taken over, and that a package    *)
(* which is still worked on when it is no longer served has handed its     *)
(* history on, or its policy has left the map (Heirs).                     *)
(***************************************************************************)
EXTENDS TreeReload, TLAPS

\* The configuration the tree thread has taken is one.
TypeInv == TypeOK /\ (tpc = "config" => app # NoVersion)

\* At first the variables have their types.
LEMMA TypeInit == Init => TypeInv
BY TreeAssumption DEF Init, TypeInv, TypeOK, TreeAssumption, Versions, NoVersion, NoHash, Pkg

\* The steps of the tree thread keep them.
LEMMA TypeTree == ASSUME TypeInv, TreeStep PROVE TypeInv'
<1> USE TreeAssumption DEF TreeAssumption, TypeInv, TypeOK, Versions, NoVersion, NoHash, Pkg,
        confVars, mainVars, pkgVars, history
<1>1. CASE NeedReloadTree
  BY <1>1 DEF NeedReloadTree
<1>2. CASE TakeConfig
  BY <1>2 DEF TakeConfig
<1>3. CASE GetMetricTreeFails
  BY <1>3 DEF GetMetricTreeFails
<1>4. CASE GetMetricTree
  BY <1>4 DEF GetMetricTree
<1>5. CASE Clear
  BY <1>5 DEF Clear, KeyOf
<1>6. CASE NoteCleared
  BY <1>6 DEF NoteCleared, UpdateState
<1>7. CASE GenRequestPackages
  BY <1>7 DEF GenRequestPackages, UpdateState
<1>8. ASSUME NEW k \in Keys, GenProcessPackage(k) PROVE TypeInv'
  <2>1. \A q \in Predecessors(k) : q \in Pkg
    BY DEF Predecessors
  <2>2. <<conf, k>> \in Pkg
    BY <1>8 DEF GenProcessPackage
  <2>3. trend' \in [Pkg -> Pkg]
    BY <1>8, <2>1, <2>2 DEF GenProcessPackage
  <2>4. owed' \subseteq Pkg /\ copied' \subseteq Pkg /\ todo' \subseteq Keys /\ tpc' = "build"
    BY <1>8, <2>1, <2>2 DEF GenProcessPackage
  <2> QED
    BY <1>8, <2>3, <2>4 DEF GenProcessPackage
<1>9. CASE NoteBuilt
  BY <1>9 DEF NoteBuilt, UpdateState
<1>10. CASE SetProcessPackageMap
  BY <1>10 DEF SetProcessPackageMap, KeyOf
<1> QED
  BY <1>1, <1>2, <1>3, <1>4, <1>5, <1>6, <1>7, <1>8, <1>9, <1>10 DEF TreeStep

\* So do all others.
LEMMA TypeStep == ASSUME TypeInv, [Next]_vars PROVE TypeInv'
<1> USE TreeAssumption DEF TreeAssumption, TypeInv, TypeOK, Versions, NoVersion, NoHash, Pkg,
        confVars, treeVars, mainVars, pkgVars, history
<1>1. CASE LoadConfig
  BY <1>1 DEF LoadConfig
<1>2. CASE SourceChanges
  BY <1>2 DEF SourceChanges
<1>3. CASE TreeStep
  <2> USE ONLY <1>3, TypeInv
  <2> QED
    BY TypeTree
<1>4. CASE MainWakes \/ MainSleeps
  BY <1>4 DEF MainWakes, MainSleeps
<1>5. ASSUME NEW p \in Pkg, MainSees(p) PROVE TypeInv'
  <2>1. state' \in [Pkg -> {"IDLE", "PROCESSING"}] /\ stage' \in [Pkg -> {"none", "work", "alarm", "ok"}]
    <3>1. CASE UNCHANGED <<state, stage>>
      BY <3>1
    <3>2. ASSUME NEW s \in {"work", "ok"}, state' = [state EXCEPT ![p] = "PROCESSING"],
                 stage' = [stage EXCEPT ![p] = s]
          PROVE  /\ state' \in [Pkg -> {"IDLE", "PROCESSING"}]
                 /\ stage' \in [Pkg -> {"none", "work", "alarm", "ok"}]
      BY <3>2
    <3> QED
      BY <1>5, <3>1, <3>2 DEF MainSees
  <2>2. left' \subseteq Pkg /\ UNCHANGED <<confVars, treeVars, served, mpc, owed, trend, history>>
    BY <1>5 DEF MainSees
  <2> QED
    BY <2>1, <2>2
<1>6. ASSUME NEW p \in Pkg, PoolStep(p) PROVE TypeInv'
  <2>1. KeyOf(p) \in Keys
    BY DEF KeyOf
  <2>2. state' \in [Pkg -> {"IDLE", "PROCESSING"}] /\ stage' \in [Pkg -> {"none", "work", "alarm", "ok"}]
    <3>1. CASE Finish(p)
      BY <3>1 DEF Finish
    <3>2. CASE PoolFindsViolation(p)
      BY <3>2 DEF PoolFindsViolation
    <3> QED
      BY <1>6, <3>1, <3>2 DEF PoolStep, PoolGivesUp, PoolDelivers
  <2>3. owed' \subseteq Pkg /\ showing' \subseteq Keys /\ missed' \subseteq Keys
    BY <1>6, <2>1 DEF PoolStep, PoolGivesUp, PoolFindsViolation, PoolDelivers
  <2>4. UNCHANGED <<confVars, treeVars, served, mainVars, trend, copied>>
    BY <1>6 DEF PoolStep, PoolGivesUp, PoolFindsViolation, PoolDelivers
  <2> QED
    BY <2>2, <2>3, <2>4
<1>7. CASE UNCHANGED vars
  BY <1>7 DEF vars
<1> QED
  BY <1>1, <1>2, <1>3, <1>4, <1>5, <1>6, <1>7 DEF Next, MainStep

LEMMA TypeInvariant == Spec => []TypeInv
<1>1. TypeInv /\ [Next]_vars => TypeInv'
  BY TypeStep
<1> QED
  BY TypeInit, <1>1, PTL DEF Spec

\* The variables have their types; in particular, a tree is fetched and
\* packages are made only for a configuration the server has.
THEOREM TypeCorrect == Spec => []TypeOK
<1>1. TypeInv => TypeOK
  BY DEF TypeInv
<1> QED
  BY TypeInvariant, <1>1, PTL
-----------------------------------------------------------------------------
(* One configuration, and ever newer ones.                                 *)

Whole(v) == {<<v, k>> : k \in Policies[v]}

\* What is noted is never ahead of what the server has, and behind what is
\* being built; what is served is what is noted, or the one before when the
\* new one has been noted already.
Order ==
  /\ treeVersion <= app
  /\ tpc = "config" => treeVersion < app
  /\ tpc \in {"fetch", "decide", "build", "cleared"} => treeVersion < conf /\ conf <= app
  /\ tpc = "publish" => treeVersion = conf
  /\ tpc = "cleared" => served = {}
  /\ lastReload = LoopTime \/ treeVersion = NoVersion
  /\ \/ served = {}
     \/ \E v \in Versions : served = Whole(v) /\ (IF tpc = "publish" THEN v < conf ELSE v = treeVersion)

\* The order holds at first.
LEMMA OrderInit == Init => Order
BY DEF Init, Order, NoVersion

\* A step that leaves the tree thread and what it serves alone keeps it.
LEMMA OrderAside ==
  ASSUME TypeInv, Order, UNCHANGED <<treeVars, served>>, app' >= app, app' \in Nat PROVE Order'
BY DEF Order, treeVars, TypeInv, TypeOK, Versions, NoVersion, Whole

\* The steps of the tree thread keep it.
LEMMA OrderTree == ASSUME TypeInv, Order, TreeStep PROVE Order'
<1> USE TreeAssumption DEF TreeAssumption, Order, Versions, NoVersion, NoHash, confVars
<1>0. /\ app \in Nat /\ conf \in Nat /\ treeVersion \in Nat /\ lastReload \in {0, LoopTime}
      /\ tpc \in {"fetch", "decide", "build", "cleared", "publish"} => conf \in Versions
      /\ tpc \in {"loop", "config", "fetch", "decide", "cleared", "build", "publish"}
  BY DEF TypeInv, TypeOK
<1>1. CASE NeedReloadTree
  <2>1. treeVersion < app
    BY <1>0, <1>1 DEF NeedReloadTree, IntervalElapsed
  <2> QED
    BY <1>0, <1>1, <2>1 DEF NeedReloadTree
<1>2. CASE TakeConfig
  BY <1>0, <1>2 DEF TakeConfig
<1>3. CASE GetMetricTreeFails
  BY <1>0, <1>3 DEF GetMetricTreeFails
<1>4. CASE GetMetricTree
  BY <1>0, <1>4 DEF GetMetricTree
<1>5. CASE Clear
  BY <1>0, <1>5 DEF Clear
<1>6. CASE NoteCleared
  BY <1>0, <1>6 DEF NoteCleared, UpdateState
<1>7. CASE GenRequestPackages
  BY <1>0, <1>7 DEF GenRequestPackages, UpdateState, Unchanged
<1>8. ASSUME NEW k \in Keys, GenProcessPackage(k) PROVE Order'
  BY <1>0, <1>8 DEF GenProcessPackage
<1>9. CASE NoteBuilt
  BY <1>0, <1>9 DEF NoteBuilt, UpdateState
<1>10. CASE SetProcessPackageMap
  BY <1>0, <1>10 DEF SetProcessPackageMap, Whole
<1> QED
  BY <1>1, <1>2, <1>3, <1>4, <1>5, <1>6, <1>7, <1>8, <1>9, <1>10 DEF TreeStep

\* So do all others.
LEMMA OrderStep == ASSUME TypeInv, Order, [Next]_vars PROVE Order'
<1>0. app \in Nat /\ \A v \in Versions : v \in Nat
  BY TreeAssumption DEF TypeInv, TypeOK, Versions, NoVersion
<1>1. CASE LoadConfig
  BY <1>0, <1>1, OrderAside DEF LoadConfig
<1>2. CASE SourceChanges
  BY <1>0, <1>2, OrderAside DEF SourceChanges
<1>3. CASE TreeStep
  BY <1>3, OrderTree
<1>4. CASE MainStep
  BY <1>0, <1>4, OrderAside DEF MainStep, MainWakes, MainSleeps, MainSees, confVars
<1>5. ASSUME NEW p \in Pkg, PoolStep(p) PROVE Order'
  BY <1>0, <1>5, OrderAside DEF PoolStep, PoolGivesUp, PoolFindsViolation, PoolDelivers, confVars
<1>6. CASE UNCHANGED vars
  BY <1>0, <1>6, OrderAside DEF vars, confVars
<1> QED
  BY <1>1, <1>2, <1>3, <1>4, <1>5, <1>6 DEF Next

LEMMA OrderInvariant == Spec => []Order
<1>1. TypeInv /\ Order /\ [Next]_vars => Order'
  BY OrderStep
<1> QED
  BY OrderInit, <1>1, TypeInvariant, PTL DEF Spec

\* The packages the main loop is given are those of one version, the noted
\* one, all of them or none.
THEOREM OneConfig == Spec => []ServedIsOneConfig
<1>1. TypeInv /\ Order => ServedIsOneConfig
  BY DEF TypeInv, TypeOK, Order, ServedIsOneConfig, Whole, Versions, NoVersion
<1> QED
  BY <1>1, TypeInvariant, OrderInvariant, PTL

\* What is served and what is noted are of ever newer configurations.
THEOREM VersionsGrow == Spec => ServedVersionsGrow
<1> DEFINE Grows == /\ treeVersion' >= treeVersion
                    /\ served' # served => \A p \in served, q \in served' : Gen(p) < Gen(q)
<1>1. ASSUME TypeInv, Order, [Next]_vars PROVE Grows
  <2>0. treeVersion \in Nat /\ conf \in Nat
    BY <1>1, TreeAssumption DEF TypeInv, TypeOK, Versions, NoVersion, TreeAssumption
  <2>1. CASE SetProcessPackageMap
    <3>1. treeVersion' = treeVersion /\ tpc = "publish" /\ served' = {<<conf, k>> : k \in Policies[conf]}
      BY <2>1 DEF SetProcessPackageMap
    <3>2. \A p \in served : Gen(p) < conf
      BY <1>1, <3>1 DEF Order, Whole, Gen
    <3>3. \A q \in served' : Gen(q) = conf
      BY <3>1 DEF Gen
    <3> QED
      BY <2>0, <3>1, <3>2, <3>3
  <2>2. CASE Clear
    BY <2>0, <2>2 DEF Clear
  <2>3. CASE NoteCleared \/ NoteBuilt \/ GenRequestPackages
    BY <1>1, <2>0, <2>3 DEF NoteCleared, NoteBuilt, GenRequestPackages, UpdateState, Order, Unchanged
  <2>4. CASE UNCHANGED <<treeVersion, served>>
    BY <2>0, <2>4
  <2> QED
    BY <1>1, <2>1, <2>2, <2>3, <2>4
    DEF Next, TreeStep, MainStep, PoolStep, LoadConfig, SourceChanges, NeedReloadTree, TakeConfig,
        GetMetricTreeFails, GetMetricTree, GenProcessPackage, MainWakes, MainSleeps, MainSees,
        PoolGivesUp, PoolFindsViolation, PoolDelivers, vars, treeVars
<1>2. TypeInv /\ Order /\ [Next]_vars => [Grows]_vars
  BY <1>1
<1> QED
  BY <1>2, TypeInvariant, OrderInvariant, PTL DEF Spec, ServedVersionsGrow
-----------------------------------------------------------------------------
(* What a reload keeps of a policy's history.                              *)

MadeKeys == IF tpc \in {"build", "publish"} THEN Policies[conf] \ todo ELSE {}

\* A package that was made and is not served yet has what its predecessor
\* has; an alarm that shows, and was not missed, is of a policy that is
\* served; a package that is worked on is served, or was taken over from, or
\* its policy was not served for a while.
Heirs ==
  /\ \A k \in MadeKeys :
       /\ \A q \in Predecessors(k) : q \in copied /\ trend[<<conf, k>>] = trend[q]
       /\ k \in showing \ missed => <<conf, k>> \in owed
  /\ \A k \in showing \ missed : Predecessors(k) # {}
  /\ \A p \in Pkg : p \in left \/ stage[p] # "none" =>
       p \in served \/ p \in copied \/ KeyOf(p) \in missed
  /\ OkCodeSurvivesReload

\* The packages that are served are one for each policy, and older than the
\* ones being made.
LEMMA OneForEach ==
  ASSUME TypeInv, Order
  PROVE  /\ \A p, q \in served : KeyOf(p) = KeyOf(q) => p = q
         /\ tpc = "build" => \A p \in served : Gen(p) # conf
<1>1. CASE served = {}
  BY <1>1
<1>2. ASSUME NEW v \in Versions, served = Whole(v),
             IF tpc = "publish" THEN v < conf ELSE v = treeVersion
      PROVE  /\ \A p, q \in served : KeyOf(p) = KeyOf(q) => p = q
             /\ tpc = "build" => \A p \in served : Gen(p) # conf
  <2>1. \A p \in served : p = <<v, KeyOf(p)>> /\ Gen(p) = v
    BY <1>2 DEF Whole, KeyOf, Gen
  <2>2. tpc = "build" => v # conf
    BY <1>2, TreeAssumption DEF Order, TypeInv, TypeOK, Versions, NoVersion, TreeAssumption
  <2> QED
    BY <2>1, <2>2
<1> QED
  BY <1>1, <1>2 DEF Order

\* They hold at first.
LEMMA HeirsInit == Init => Heirs
BY DEF Init, Heirs, MadeKeys, OkCodeSurvivesReload

\* A step that changes none of it keeps it.
LEMMA HeirsAside ==
  ASSUME TypeInv, Heirs, UNCHANGED <<conf, todo, served, left, stage, owed, trend, history>>,
         tpc' \in {"build", "publish"} => tpc \in {"build", "publish"}
  PROVE  Heirs'
<1>1. MadeKeys' \subseteq MadeKeys
  BY DEF MadeKeys
<1> QED
  BY <1>1 DEF Heirs, Predecessors, OkCodeSurvivesReload, history

\* A new package is made.
LEMMA HeirsGen ==
  ASSUME TypeInv, Order, Heirs, NEW k \in Keys, GenProcessPackage(k) PROVE Heirs'
<1> DEFINE p == <<conf, k>>
<1>1. p \in Pkg /\ tpc = "build" /\ tpc' = "build" /\ todo' = todo \ {k}
  BY DEF GenProcessPackage, TypeInv, TypeOK, Pkg, Versions
<1>2. /\ UNCHANGED <<conf, served, left, stage, showing, missed>>
      /\ owed' = IF Predecessors(k) \cap owed = {} THEN owed ELSE owed \cup {p}
      /\ copied' = copied \cup Predecessors(k)
      /\ trend' = [trend EXCEPT ![p] = IF Predecessors(k) = {} THEN p
                                       ELSE trend[CHOOSE q \in Predecessors(k) : TRUE]]
  BY DEF GenProcessPackage, mainVars
<1>3. \A q \in served : q \in Pkg /\ q # p
  BY <1>1, OneForEach DEF Gen, TypeInv, TypeOK
<1>4. \A l : Predecessors(l)' = Predecessors(l) /\ Predecessors(l) \subseteq served
  BY <1>2 DEF Predecessors
<1>5. \A q \in served : trend'[q] = trend[q]
  BY <1>1, <1>2, <1>3 DEF TypeInv, TypeOK
<1>6. ASSUME NEW l \in MadeKeys'
      PROVE  /\ \A q \in Predecessors(l)' : q \in copied' /\ trend'[<<conf', l>>] = trend'[q]
             /\ l \in showing' \ missed' => <<conf', l>> \in owed'
  <2>1. CASE l = k
    <3>1. \A q \in Predecessors(k) : (CHOOSE r \in Predecessors(k) : TRUE) = q
      BY OneForEach DEF Predecessors
    <3>2. \A q \in Predecessors(k) : trend'[p] = trend[q]
      BY <1>1, <1>2, <3>1 DEF TypeInv, TypeOK
    <3>3. k \in showing \ missed => p \in owed'
      <4>1. k \in showing \ missed => \E q \in Predecessors(k) : q \in owed
        BY DEF Heirs, OkCodeSurvivesReload, Predecessors
      <4> QED
        BY <1>2, <4>1
    <3> QED
      BY <1>2, <1>4, <1>5, <2>1, <3>2, <3>3
  <2>2. CASE l # k
    <3>1. l \in MadeKeys
      BY <1>1, <1>2, <1>6, <2>2 DEF MadeKeys
    <3>2. <<conf, l>> # p /\ trend'[<<conf, l>>] = trend[<<conf, l>>]
      <4>1. <<conf, l>> # p
        BY <2>2
      <4>2. <<conf, l>> \in Pkg
        BY <1>1, <3>1, TreeAssumption
        DEF MadeKeys, TreeAssumption, TypeInv, TypeOK, Pkg, Versions
      <4> QED
        BY <1>1, <1>2, <4>1, <4>2 DEF TypeInv, TypeOK
    <3> QED
      BY <1>2, <1>4, <1>5, <3>1, <3>2 DEF Heirs
  <2> QED
    BY <2>1, <2>2
<1>7. \A l \in showing' \ missed' : Predecessors(l)' # {}
  BY <1>2, <1>4 DEF Heirs
<1>8. \A q \in Pkg : q \in left' \/ stage'[q] # "none" =>
        q \in served' \/ q \in copied' \/ KeyOf(q) \in missed'
  BY <1>2 DEF Heirs
<1>9. OkCodeSurvivesReload'
  BY <1>2 DEF Heirs, OkCodeSurvivesReload
<1> QED
  BY <1>6, <1>7, <1>8, <1>9 DEF Heirs

\* The new map is served: who was served and is not any more has been taken
\* over from, or its policy is missed from now on.
LEMMA HeirsServed == ASSUME TypeInv, Heirs, SetProcessPackageMap PROVE Heirs'
<1>1. /\ tpc = "publish" /\ tpc' = "loop" /\ UNCHANGED <<conf, left, stage, owed, showing, copied>>
      /\ served' = {<<conf, k>> : k \in Policies[conf]}
      /\ missed' = missed \cup ({KeyOf(p) : p \in served} \ Policies[conf])
  BY DEF SetProcessPackageMap, mainVars, pkgVars
<1>2. MadeKeys = Policies[conf] /\ MadeKeys' = {}
  BY <1>1 DEF MadeKeys, TypeInv, TypeOK
<1>3. \A k : Predecessors(k) = {q \in served : KeyOf(q) = k}
  BY DEF Predecessors
<1>4. \A k \in showing' \ missed' : k \in Policies[conf] /\ k \in showing \ missed
  BY <1>1, <1>3 DEF Heirs
<1>5. \A k \in Policies[conf] : <<conf, k>> \in served' /\ KeyOf(<<conf, k>>) = k
  BY <1>1 DEF KeyOf
<1>6. \A k \in showing' \ missed' : Predecessors(k)' # {}
  BY <1>4, <1>5 DEF Predecessors
<1>7. ASSUME NEW p \in Pkg, p \in left' \/ stage'[p] # "none"
      PROVE  p \in served' \/ p \in copied' \/ KeyOf(p) \in missed'
  <2>1. p \in served \/ p \in copied \/ KeyOf(p) \in missed
    BY <1>1, <1>7 DEF Heirs
  <2>2. CASE p \in served /\ KeyOf(p) \in Policies[conf]
    BY <1>1, <1>2, <1>3, <2>2 DEF Heirs
  <2>3. CASE p \in served /\ KeyOf(p) \notin Policies[conf]
    BY <1>1, <2>3
  <2> QED
    BY <1>1, <2>1, <2>2, <2>3
<1>8. OkCodeSurvivesReload'
  BY <1>1, <1>2, <1>4, <1>5 DEF Heirs, OkCodeSurvivesReload
<1> QED
  BY <1>2, <1>6, <1>7, <1>8 DEF Heirs

\* The map is cleared: what was served is missed from now on.
LEMMA HeirsCleared == ASSUME TypeInv, Heirs, Clear PROVE Heirs'
<1>1. /\ tpc' = "cleared" /\ UNCHANGED <<left, stage, showing, copied>> /\ served' = {}
      /\ missed' = missed \cup {KeyOf(p) : p \in served}
  BY DEF Clear, mainVars, pkgVars
<1>2. MadeKeys' = {}
  BY <1>1 DEF MadeKeys
<1>3. showing' \ missed' = {}
  BY <1>1 DEF Heirs, Predecessors
<1> QED
  BY <1>1, <1>2, <1>3 DEF Heirs, OkCodeSurvivesReload

\* A message is delivered.
LEMMA HeirsDelivers ==
  ASSUME TypeInv, Order, Heirs, NEW p \in Pkg, PoolDelivers(p) PROVE Heirs'
<1> DEFINE k == KeyOf(p)
<1>1. /\ UNCHANGED <<tpc, conf, todo, served, left, trend, copied>> /\ stage[p] # "none"
      /\ \A q \in Pkg : stage'[q] # "none" => stage[q] # "none"
  BY DEF PoolDelivers, Finish, treeVars, mainVars, TypeInv, TypeOK
<1>2. MadeKeys' = MadeKeys /\ \A l : Predecessors(l)' = Predecessors(l)
  BY <1>1 DEF MadeKeys, Predecessors
<1>3. missed \subseteq missed' /\ \A l : l # k => (l \in showing' \ missed' => l \in showing \ missed)
  BY DEF PoolDelivers
<1>4. \A q \in Pkg : KeyOf(q) # k => (q \in owed' <=> q \in owed)
  BY DEF PoolDelivers
<1>5. k \in showing' \ missed' => p \in served /\ p \notin copied /\ p \in owed'
  BY <1>1 DEF PoolDelivers, Heirs
<1>6. k \in showing' \ missed' => p \in Predecessors(k) /\ k \notin MadeKeys
  BY <1>5 DEF Predecessors, Heirs
<1>7. \A l \in MadeKeys : <<conf, l>> \in Pkg /\ KeyOf(<<conf, l>>) = l
  BY TreeAssumption DEF MadeKeys, TreeAssumption, TypeInv, TypeOK, Pkg, Versions, KeyOf
<1>8. \A l \in MadeKeys' :
        /\ \A q \in Predecessors(l)' : q \in copied' /\ trend'[<<conf', l>>] = trend'[q]
        /\ l \in showing' \ missed' => <<conf', l>> \in owed'
  BY <1>1, <1>2, <1>3, <1>4, <1>6, <1>7 DEF Heirs
<1>9. \A l \in showing' \ missed' : Predecessors(l)' # {}
  BY <1>2, <1>3, <1>6 DEF Heirs
<1>10. \A q \in Pkg : q \in left' \/ stage'[q] # "none" =>
         q \in served' \/ q \in copied' \/ KeyOf(q) \in missed'
  BY <1>1, <1>3 DEF Heirs
<1>11. ASSUME NEW q \in served', KeyOf(q) \in showing' \ missed' PROVE q \in owed'
  <2>1. q \in served /\ q \in Pkg
    BY <1>1, <1>11 DEF TypeInv, TypeOK
  <2>2. CASE KeyOf(q) = k
    BY <1>5, <1>11, <2>1, <2>2, OneForEach
  <2>3. CASE KeyOf(q) # k
    BY <1>3, <1>4, <1>11, <2>1, <2>3 DEF Heirs, OkCodeSurvivesReload
  <2> QED
    BY <2>2, <2>3
<1> QED
  BY <1>8, <1>9, <1>10, <1>11 DEF Heirs, OkCodeSurvivesReload

\* All steps keep it.
LEMMA HeirsStep == ASSUME TypeInv, Order, Heirs, [Next]_vars PROVE Heirs'
<1>1. CASE LoadConfig \/ SourceChanges \/ NeedReloadTree \/ GetMetricTreeFails \/ GetMetricTree
           \/ NoteCleared \/ NoteBuilt \/ MainSleeps \/ UNCHANGED vars
  BY <1>1, HeirsAside
  DEF LoadConfig, SourceChanges, NeedReloadTree, GetMetricTreeFails, GetMetricTree, NoteCleared,
      NoteBuilt, MainSleeps, vars, treeVars, mainVars, pkgVars
<1>2. CASE TakeConfig
  <2>1. MadeKeys' = {}
    BY <1>2 DEF TakeConfig, MadeKeys
  <2> QED
    BY <1>2, <2>1 DEF TakeConfig, Heirs, Predecessors, OkCodeSurvivesReload, mainVars, pkgVars, history
<1>3. CASE GenRequestPackages
  <2>1. MadeKeys' = {}
    BY <1>3 DEF GenRequestPackages, MadeKeys
  <2> QED
    BY <1>3, <2>1
    DEF GenRequestPackages, Heirs, Predecessors, OkCodeSurvivesReload, mainVars, pkgVars, history
<1>4. CASE MainWakes
  <2>1. MadeKeys' = MadeKeys
    BY <1>4 DEF MainWakes, MadeKeys, treeVars
  <2> QED
    BY <1>4, <2>1
    DEF MainWakes, Heirs, Predecessors, OkCodeSurvivesReload, treeVars, pkgVars, history
<1>5. ASSUME NEW p \in Pkg, \/ MainSees(p) \/ PoolGivesUp(p) \/ PoolFindsViolation(p)
      PROVE  Heirs'
  <2>1. UNCHANGED <<treeVars, served, owed, trend, history>>
    BY <1>5 DEF MainSees, PoolGivesUp, PoolFindsViolation
  <2>2. MadeKeys' = MadeKeys
    BY <2>1 DEF MadeKeys, treeVars
  <2>3. ASSUME NEW q \in Pkg, q \in left' \/ stage'[q] # "none"
        PROVE  q \in left \/ stage[q] # "none"
    BY <1>5, <2>3
    DEF MainSees, PoolGivesUp, PoolFindsViolation, Finish, mainVars, TypeInv, TypeOK
  <2> QED
    BY <2>1, <2>2, <2>3 DEF Heirs, Predecessors, OkCodeSurvivesReload, treeVars, history
<1>6. ASSUME NEW p \in Pkg, PoolStep(p) PROVE Heirs'
  BY <1>5, <1>6, HeirsDelivers DEF PoolStep
<1> QED
  BY <1>1, <1>2, <1>3, <1>4, <1>5, <1>6, HeirsGen, HeirsServed, HeirsCleared
  DEF Next, TreeStep, MainStep

LEMMA HeirsInvariant == Spec => []Heirs
<1>1. TypeInv /\ Order /\ Heirs /\ [Next]_vars => Heirs'
  BY HeirsStep
<1> QED
  BY HeirsInit, <1>1, TypeInvariant, OrderInvariant, PTL DEF Spec

\* A reload keeps the OK code that is owed to a policy's groups, unless an
\* alarm was delivered by the old package after the new one was made, or the
\* policy was not served for a while.
THEOREM OkCodeSurvives == Spec => []OkCodeSurvivesReload
<1>1. Heirs => OkCodeSurvivesReload
  BY DEF Heirs
<1> QED
  BY HeirsInvariant, <1>1, PTL

\* The new package of a policy that stays uses the trend data of the package
\* it replaces.
THEOREM TrendKept == Spec => TrendContinues
<1> DEFINE Kept == \A p \in served, q \in served' :
                     Gen(p) # Gen(q) /\ KeyOf(p) = KeyOf(q) => trend'[q] = trend[p]
<1>1. ASSUME TypeInv, Order, Heirs, [Next]_vars PROVE Kept
  <2>1. CASE SetProcessPackageMap
    <3> SUFFICES ASSUME NEW p \in served, NEW q \in served', KeyOf(p) = KeyOf(q)
                 PROVE  trend'[q] = trend[p]
      OBVIOUS
    <3>1. /\ tpc = "publish" /\ trend' = trend
          /\ served' = {<<conf, k>> : k \in Policies[conf]}
      BY <2>1 DEF SetProcessPackageMap, pkgVars
    <3>2. PICK k \in Policies[conf] : q = <<conf, k>>
      BY <3>1
    <3>3. k \in MadeKeys /\ p \in Predecessors(k)
      BY <1>1, <3>1, <3>2 DEF MadeKeys, Predecessors, KeyOf, TypeInv, TypeOK
    <3> QED
      BY <1>1, <3>1, <3>2, <3>3 DEF Heirs
  <2>2. CASE Clear
    BY <2>2 DEF Clear
  <2>3. CASE served' = served
    BY <1>1, <2>3, OneForEach
  <2> QED
    BY <1>1, <2>1, <2>2, <2>3
    DEF Next, TreeStep, MainStep, PoolStep, LoadConfig, SourceChanges, NeedReloadTree, TakeConfig,
        GetMetricTreeFails, GetMetricTree, NoteCleared, GenRequestPackages, GenProcessPackage,
        NoteBuilt, MainWakes, MainSleeps, MainSees, PoolGivesUp, PoolFindsViolation, PoolDelivers,
        vars, treeVars
<1>2. TypeInv /\ Order /\ Heirs /\ [Next]_vars => [Kept]_vars
  BY <1>1
<1> QED
  BY <1>2, TypeInvariant, OrderInvariant, HeirsInvariant, PTL DEF Spec, TrendContinues
=============================================================================
