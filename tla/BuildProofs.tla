---------------------------- MODULE BuildProofs ----------------------------
(***************************************************************************)
(* Safety theorems of Build, for every project, every number of jobs and   *)
(* every outcome of the jobs: the tasks, their locks and counters first.    *)
(* Then what the recursive functions of NodeTree are, for every tree, what *)
(* a search of the tree visits, the invariant TreeInv of BuildInv and the  *)
(* theorems that rest on it.                                               *)
(***************************************************************************)
EXTENDS BuildInv, Induction

USE DEF Pristine, Expanded, Building, Built, Status

\* A project has finitely many nodes.
LEMMA NodeFinite == IsFiniteSet(Node)
  <1>1. IsFiniteSet({Root})
    BY FS_Singleton
  <1>2. IsFiniteSet(Targets \cup Hooks \cup Files)
    BY FS_Union, KindsAssumption
  <1> QED
    BY <1>1, <1>2, FS_Union DEF Node

\* The types of the constants, in the form the steps use them.
LEMMA Kinds ==
    /\ Targets \subseteq Node /\ Files \subseteq Node /\ Hooks \subseteq Node /\ Root \in Node
    /\ NoNode \notin Node
    /\ FirstChildren \in [Node -> Seq(Node)]
    /\ \A n \in Node : FilesOf[n] \in Seq(Node)
  <1>1. Targets \subseteq Node /\ Files \subseteq Node /\ Hooks \subseteq Node /\ Root \in Node
    BY DEF Node
  <1>2. NoNode \notin Node
    BY KindsAssumption
  <1>3. ASSUME NEW n \in Node
        PROVE  Deps[n] \in Seq(Node) /\ HookOf[n] \in Seq(Node) /\ FilesOf[n] \in Seq(Node)
    <2>1. Seq(Targets) \subseteq Seq(Node) /\ Seq(Hooks) \subseteq Seq(Node)
          /\ Seq(Files) \subseteq Seq(Node)
      BY <1>1
    <2> QED
      BY <2>1, ChildrenAssumption
  <1> QED
    BY <1>1, <1>2, <1>3 DEF FirstChildren

-----------------------------------------------------------------------------
(* Types: every step keeps them, given that the node in hand is a node and    *)
(* that the counter stays a natural number.                                   *)

\* What a search leaves in the hands of the main thread.
LEMMA SearchResult ==
    ASSUME TypeOK, NEW n \in Node, SearchFrom(n)
    PROVE  /\ found' \in Node \cup {NoNode}
           /\ foundTarget' \in Targets \cup {NoNode}
           /\ needToWait' \in BOOLEAN
           /\ found' # NoNode => IsGood(found')
  <1>1. CASE FindsNothing(Search(n)) /\ found' = NoNode /\ needToWait' = LeavesUnbuilt(Search(n))
             /\ UNCHANGED foundTarget
    BY <1>1 DEF TypeOK, FactoryTypeOK, LeavesUnbuilt
  <1>2. ASSUME NEW i \in DOMAIN Search(n), NEW t \in Targets \cup {NoNode},
               FoundAt(Search(n), i), found' = Search(n)[i], foundTarget' = t, UNCHANGED needToWait
        PROVE  /\ found' \in Node /\ IsGood(found')
               /\ foundTarget' \in Targets \cup {NoNode} /\ needToWait' \in BOOLEAN
    BY <1>2 DEF TypeOK, FactoryTypeOK, FoundAt
  <1> QED
    BY <1>1, <1>2 DEF SearchFrom

\* An expansion changes the target, its list of children and the flags of its files.
LEMMA ExpandTypes ==
    ASSUME TreeTypeOK, NEW t \in Targets, ExpandTargetNode(t)
    PROVE  /\ status' = [status EXCEPT ![t] = Expanded]
           /\ status' \in [Node -> Status]
           /\ shouldBuild' \in [Node -> BOOLEAN]
           /\ children' \in [Node -> Seq(Node)]
           /\ \A n \in Node : n # t => children'[n] = children[n]
           /\ hasFail' = hasFail
  <1>1. t \in Node /\ children[t] \o FilesOf[t] \in Seq(Node)
    BY Kinds DEF TreeTypeOK
  <1>2. status' = [status EXCEPT ![t] = Expanded] /\ hasFail' = hasFail
    BY DEF ExpandTargetNode
  <1>5. status' \in [Node -> Status]
    BY <1>1, <1>2 DEF TreeTypeOK
  <1>3. CASE t \in Custom
    BY <1>2, <1>3, <1>5 DEF ExpandTargetNode, TreeTypeOK
  <1>4. CASE t \notin Custom
    <2>1. children' = [children EXCEPT ![t] = children[t] \o FilesOf[t]]
      BY <1>4 DEF ExpandTargetNode
    <2>2. shouldBuild' = [n \in Node |-> IF n \in Elements(FilesOf[t])
                                         THEN shouldBuild[t] ELSE shouldBuild[n]]
      BY <1>4 DEF ExpandTargetNode
    <2>3. ASSUME NEW n \in Node
          PROVE  (IF n \in Elements(FilesOf[t]) THEN shouldBuild[t] ELSE shouldBuild[n]) \in BOOLEAN
      BY <1>1 DEF TreeTypeOK
    <2>5. shouldBuild' \in [Node -> BOOLEAN]
      BY <2>2, <2>3
    <2>4. children' \in [Node -> Seq(Node)] /\ \A n \in Node : n # t => children'[n] = children[n]
      <3> DEFINE longer == children[t] \o FilesOf[t]
      <3>1. longer \in Seq(Node) /\ children' = [children EXCEPT ![t] = longer]
        BY <1>1, <2>1
      <3> HIDE DEF longer
      <3> QED
        BY <1>1, <3>1 DEF TreeTypeOK
    <2> QED
      BY <1>2, <1>5, <2>4, <2>5
  <1> QED
    BY <1>3, <1>4

\* Every step keeps the types.
LEMMA TypeStep ==
    ASSUME TypeOK, FoundInv, Next, jobsRunning' \in Nat
    PROVE  TypeOK'
  <1> USE Kinds DEF TypeOK, TreeTypeOK, JobTypeOK, FactoryTypeOK, ManagerTypeOK,
                    JobState, FactoryPC, ManagerPC, treeVars, jobVars, factoryVars,
                    managerVars, factoryRest, Goto, SetJob
  <1>1. CASE TestLoop
    BY <1>1 DEF TestLoop
  <1>2. CASE WaitBelowLimit
    BY <1>2 DEF WaitBelowLimit
  <1>3. CASE RecheckError
    BY <1>3 DEF RecheckError
  <1>4. CASE SpawnJob
    <2>1. job' \in [Node -> JobState] /\ pc' \in FactoryPC \cup ManagerPC
      BY <1>4 DEF SpawnJob, StartThread
    <2>2. UNCHANGED << treeVars, result, luaLock, factoryRest, managerVars >>
      BY <1>4 DEF SpawnJob, StartThread
    <2> QED
      BY <2>1, <2>2
  <1>5. CASE Drain
    <2>1. pc' \in FactoryPC \cup ManagerPC /\ success' \in BOOLEAN
      BY <1>5 DEF Drain, Return
    <2>2. UNCHANGED << treeVars, jobVars, factoryRest, jobsRunning, errorOccured >>
      BY <1>5 DEF Drain
    <2> QED
      BY <2>1, <2>2
  <1>6. CASE CountJob
    <2>1. job' \in [Node -> JobState] /\ pc' \in FactoryPC \cup ManagerPC
      BY <1>6 DEF CountJob
    <2>2. UNCHANGED << treeVars, result, luaLock, factoryRest, errorOccured, success >>
      BY <1>6 DEF CountJob
    <2> QED
      BY <2>1, <2>2
  <1>7. CASE ResetFlags /\ UNCHANGED managerVars
    BY <1>7 DEF ResetFlags
  <1>8. CASE FindAGoodNode /\ UNCHANGED managerVars
    BY <1>8, SearchResult DEF FindAGoodNode
  <1>9. CASE ExpandFound /\ UNCHANGED managerVars
    BY <1>9, ExpandTypes DEF ExpandFound, FoundInv
  <1>10. CASE FindInExpanded /\ UNCHANGED managerVars
    BY <1>10, SearchResult DEF FindInExpanded, FoundInv
  <1>11. CASE CheckFound /\ UNCHANGED managerVars
    BY <1>11 DEF CheckFound
  <1>12. CASE WaitForTree /\ UNCHANGED managerVars
    BY <1>12 DEF WaitForTree
  <1>13. CASE AfterWait /\ UNCHANGED managerVars
    BY <1>13 DEF AfterWait
  <1>14. CASE ClaimFound /\ UNCHANGED managerVars
    BY <1>14 DEF ClaimFound, FoundInv
  <1>15. CASE LockLua /\ UNCHANGED managerVars
    BY <1>15 DEF LockLua
  <1>16. CASE CreateJobFor /\ UNCHANGED managerVars
    <2>1. found \in Node
      BY <1>16 DEF CreateJobFor, FoundInv
    <2>2. CASE NodeIsUpToDate
      BY <1>16, <2>1, <2>2 DEF CreateJobFor, NodeIsUpToDate
    <2>3. CASE NodeGetsJob
      <3>1. TargetOfJob \in Targets \cup {NoNode}
        BY <2>3 DEF TargetOfJob
      <3>2. jobTarget' \in [Node -> Targets \cup {NoNode}]
        BY <2>1, <2>3, <3>1 DEF NodeGetsJob
      <3>3. compileCache' \subseteq Targets \cup {NoNode}
        BY <2>3 DEF NodeGetsJob
      <3> QED
        BY <1>16, <2>1, <2>3, <3>2, <3>3 DEF CreateJobFor, NodeGetsJob
    <2>4. CASE CompileThrows
      BY <1>16, <2>1, <2>4 DEF CreateJobFor, CompileThrows
    <2> QED
      BY <1>16, <2>2, <2>3, <2>4 DEF CreateJobFor
  <1>17. CASE MarkParents /\ UNCHANGED managerVars
    BY <1>17 DEF MarkParents, MarkAncestors
  <1>18. CASE Spurious
    <2>1. CASE SpuriousTreeWakeup /\ UNCHANGED managerVars
      BY <2>1 DEF SpuriousTreeWakeup
    <2>2. CASE SpuriousJobsWakeup
      <3>1. pc' \in FactoryPC \cup ManagerPC /\ success' \in BOOLEAN
        BY <2>2 DEF SpuriousJobsWakeup, Return
      <3>2. UNCHANGED << treeVars, jobVars, factoryRest, jobsRunning, errorOccured >>
        BY <2>2 DEF SpuriousJobsWakeup
      <3> QED
        BY <3>1, <3>2
    <2> QED
      BY <1>18, <2>1, <2>2 DEF Spurious
  <1>19. ASSUME NEW n \in Node, Begin(n) PROVE TypeOK'
    BY <1>19 DEF Begin, BeginRun, IsLuaJob
  <1>20. ASSUME NEW n \in Node, End(n) PROVE TypeOK'
    <2>1. job' \in [Node -> JobState]
      BY <1>20 DEF End, EndRun
    <2>2. result' \in [Node -> {0, 1}]
      BY <1>20 DEF End, EndRun
    <2>3. luaLock' \in {"free", "main"} \cup Node
      BY <1>20 DEF End, EndRun
    <2>4. UNCHANGED << treeVars, factoryVars, managerVars >>
      BY <1>20 DEF End
    <2> QED
      BY <2>1, <2>2, <2>3, <2>4
  <1>21. ASSUME NEW n \in Node, Report(n) PROVE TypeOK'
    <2>1. errorOccured' \in BOOLEAN
      BY <1>21 DEF Report, OnJobFinished
    <2>2. pc' \in FactoryPC \cup ManagerPC /\ success' \in BOOLEAN
      BY <1>21, <2>1 DEF Report, OnJobFinished, WakeManager
    <2>3. job' \in [Node -> JobState]
      BY <1>21 DEF Report, ReportResult
    <2> QED
      BY <1>21, <2>1, <2>2, <2>3 DEF Report, ReportResult, OnJobFinished
  <1>22. ASSUME NEW n \in Node, Release(n) PROVE TypeOK'
    BY <1>22 DEF Release, DeleteNodeGuard, ReleaseNode
  <1>23. ASSUME NEW n \in Node, Flag(n) PROVE TypeOK'
    BY <1>23 DEF Flag, FlagTreeChange, SetTreeChanged
  <1>24. ASSUME NEW n \in Node, Notify(n) PROVE TypeOK'
    BY <1>24 DEF Notify, NotifyTreeChange, WakeTreeWaiter
  <1> QED
    BY <1>1, <1>2, <1>3, <1>4, <1>5, <1>6, <1>7, <1>8, <1>9, <1>10, <1>11, <1>12, <1>13, <1>14, <1>15, <1>16, <1>17, <1>18, <1>19, <1>20, <1>21, <1>22, <1>23, <1>24 DEF Next, MainStep, Run, CreateJob, JobStep

-----------------------------------------------------------------------------
(* The node in hand, and the order of the build.                             *)

\* What is among the children of a node is a node.
LEMMA ChildIsNode ==
    ASSUME TypeOK, NEW n \in Node, NEW i \in DOMAIN children[n]
    PROVE  children[n][i] \in Node
  <1>1. children[n] \in Seq(Node)
    BY DEF TypeOK, TreeTypeOK
  <1> QED
    BY <1>1

\* A claimed node, and a target that is claimed next, have Built children only.
LEMMA ChildIsBuilt ==
    ASSUME TypeOK, BuildOrder, NEW n \in Node, NEW i \in DOMAIN children[n],
           status[n] >= Building \/ IsGood(n)
    PROVE  status[children[n][i]] = Built
  <1>1. CASE status[n] >= Building
    BY <1>1 DEF BuildOrder
  <1>2. CASE IsGood(n)
    <2>1. children[n] # << >>
      OBVIOUS
    <2> QED
      BY <1>2, <2>1 DEF IsGood
  <1> QED
    BY <1>1, <1>2

\* To claim a good node keeps the order: its children are Built, and it is none of them.
LEMMA ClaimKeepsOrder ==
    ASSUME TypeOK, BuildOrder, NEW f \in Node, IsGood(f),
           status' = [status EXCEPT ![f] = Building], children' = children
    PROVE  BuildOrder'
  <1> SUFFICES ASSUME NEW n \in Node, status'[n] >= Building, NEW i \in DOMAIN children[n]
               PROVE  status'[children[n][i]] = Built
    BY DEF BuildOrder
  <1>1. status \in [Node -> Status] /\ children[n][i] \in Node
    BY ChildIsNode DEF TypeOK, TreeTypeOK
  <1>2. status[n] >= Building \/ IsGood(n)
    BY <1>1
  <1>3. status[children[n][i]] = Built
    BY <1>2, ChildIsBuilt
  <1>4. children[n][i] # f
    BY <1>1, <1>3 DEF IsGood
  <1> QED
    BY <1>1, <1>3, <1>4

\* To publish a node keeps the others good.
LEMMA PublishKeepsGood ==
    ASSUME TypeOK, NEW n \in Node, children' = children,
           status' = status \/ status' = [status EXCEPT ![n] = Built]
    PROVE  \A m \in Node : IsGood(m) => IsGood(m)' \/ m = n
  <1> SUFFICES ASSUME NEW m \in Node, IsGood(m), m # n PROVE IsGood(m)'
    OBVIOUS
  <1>1. status \in [Node -> Status]
    BY DEF TypeOK, TreeTypeOK
  <1>2. status'[m] = status[m]
    BY <1>1
  <1>3. \A i \in DOMAIN children[m] :
           status[children[m][i]] = Built => status'[children[m][i]] = Built
    BY <1>1, ChildIsNode
  <1> QED
    BY <1>2, <1>3 DEF IsGood

\* A node that is claimed has all it is made of, and stays what the main thread takes it for.
LEMMA NodesStep ==
    ASSUME TypeOK, TypeOK', NodesInv, FoundInv, Next
    PROVE  NodesInv' /\ FoundInv'
  <1> USE Kinds DEF TypeOK, TreeTypeOK, JobTypeOK, FactoryTypeOK, NodesInv, FoundInv, BuildOrder, IsGood,
                    treeVars, jobVars, factoryVars,
                    managerVars, factoryRest, Goto, SetJob
  <1>1. CASE TestLoop
    BY <1>1 DEF TestLoop
  <1>2. CASE WaitBelowLimit
    BY <1>2 DEF WaitBelowLimit
  <1>3. CASE RecheckError
    BY <1>3 DEF RecheckError
  <1>4. CASE SpawnJob
    BY <1>4 DEF SpawnJob, StartThread
  <1>5. CASE Drain
    BY <1>5 DEF Drain, Return
  <1>6. CASE CountJob
    BY <1>6 DEF CountJob
  <1>7. CASE ResetFlags /\ UNCHANGED managerVars
    BY <1>7 DEF ResetFlags
  <1>8. CASE FindAGoodNode /\ UNCHANGED managerVars
    <2>1. UNCHANGED << status, children, job >> /\ pc = "find" /\ Root \in Node
      BY <1>8 DEF FindAGoodNode
    <2>2. found' # NoNode => IsGood(found')
      BY <1>8, <2>1, SearchResult DEF FindAGoodNode
    <2>3. pc' \in {"expand", "check"} /\ (pc' = "expand" => found' \in Targets)
      BY <1>8 DEF FindAGoodNode
    <2>4. NodesInv'
      BY <2>1
    <2> QED
      BY <2>1, <2>2, <2>3, <2>4
  <1>9. CASE ExpandFound /\ UNCHANGED managerVars
    <2>1. pc = "expand" /\ pc' = "findAgain" /\ found' = found /\ job' = job
      BY <1>9 DEF ExpandFound
    <2>2. found \in Targets /\ found \in Node /\ status[found] < Building
      BY <2>1
    <2>3. /\ status' = [status EXCEPT ![found] = Expanded]
          /\ \A n \in Node : n # found => children'[n] = children[n]
      BY <1>9, <2>2, ExpandTypes DEF ExpandFound
    <2>4. \A n \in Node : status'[n] < Building => job'[n] = "none"
      BY <2>1, <2>2, <2>3
    <2>5. BuildOrder'
      <3> SUFFICES ASSUME NEW n \in Node, status'[n] >= Building, NEW i \in DOMAIN children'[n]
                   PROVE  status'[children'[n][i]] = Built
        BY DEF BuildOrder
      <3>1. n # found
        BY <2>2, <2>3
      <3>2. children'[n] = children[n] /\ status[n] >= Building
        BY <2>2, <2>3, <3>1
      <3>3. status[children[n][i]] = Built /\ children[n][i] \in Node
        BY <3>2, ChildIsNode, ChildIsBuilt
      <3>4. children[n][i] # found
        <4>1. status[found] # Built
          BY <2>2
        <4> QED
          BY <3>3, <4>1
      <3>5. status'[children[n][i]] = status[children[n][i]]
        BY <2>2, <2>3, <3>3, <3>4
      <3> QED
        BY <3>2, <3>3, <3>5
    <2>6. NodesInv'
      BY <2>4, <2>5
    <2>7. found' \in Targets /\ status'[found'] < Building
      BY <2>1, <2>2, <2>3
    <2>8. FoundInv'
      BY <2>1, <2>7
    <2> QED
      BY <2>6, <2>8
  <1>10. CASE FindInExpanded /\ UNCHANGED managerVars
    <2>1. UNCHANGED << status, children, job >> /\ pc = "findAgain" /\ pc' = "check"
          /\ found \in Node /\ SearchFrom(found)
      BY <1>10 DEF FindInExpanded
    <2>2. found' # NoNode => IsGood(found')
      BY <2>1, SearchResult
    <2>3. NodesInv'
      BY <2>1
    <2>4. FoundInv'
      BY <2>1, <2>2
    <2> QED
      BY <2>3, <2>4
  <1>11. CASE CheckFound /\ UNCHANGED managerVars
    BY <1>11 DEF CheckFound
  <1>12. CASE WaitForTree /\ UNCHANGED managerVars
    BY <1>12 DEF WaitForTree
  <1>13. CASE AfterWait /\ UNCHANGED managerVars
    BY <1>13 DEF AfterWait
  <1>14. CASE ClaimFound /\ UNCHANGED managerVars
    <2>1. pc = "claim" /\ pc' = "lockLua" /\ UNCHANGED << found, job, children >>
          /\ status' = [status EXCEPT ![found] = Building]
      BY <1>14 DEF ClaimFound
    <2>2. found \in Node /\ IsGood(found) /\ job[found] = "none"
      BY <2>1
    <2>3. BuildOrder'
      BY <2>1, <2>2, ClaimKeepsOrder
    <2>4. \A n \in Node : status'[n] < Building => job'[n] = "none"
      BY <2>1, <2>2
    <2> QED
      BY <2>1, <2>2, <2>3, <2>4
  <1>15. CASE LockLua /\ UNCHANGED managerVars
    BY <1>15 DEF LockLua
  <1>16. CASE CreateJobFor /\ UNCHANGED managerVars
    <2>1. pc = "create" /\ found' = found /\ children' = children /\ found \in Node
          /\ status[found] = Building /\ job[found] = "none"
      BY <1>16 DEF CreateJobFor
    <2>2. CASE NodeIsUpToDate
      <3>1. status' = [status EXCEPT ![found] = Built] /\ job' = job /\ pc' = "reset"
        BY <2>2 DEF NodeIsUpToDate
      <3>2. BuildOrder'
        <4> SUFFICES ASSUME NEW m \in Node, status'[m] >= Building, NEW i \in DOMAIN children[m]
                     PROVE  status'[children[m][i]] = Built
          BY <2>1 DEF BuildOrder
        <4>1. status[m] >= Building
          BY <2>1, <3>1
        <4>2. status[children[m][i]] = Built /\ children[m][i] \in Node
          BY <4>1, ChildIsNode, ChildIsBuilt
        <4> QED
          BY <2>1, <3>1, <4>2
      <3> QED
        BY <2>1, <3>1, <3>2
    <2>3. CASE NodeGetsJob
      <3>1. UNCHANGED status /\ job' = [job EXCEPT ![found] = "created"] /\ pc' = "mark"
        BY <2>3 DEF NodeGetsJob
      <3> QED
        BY <2>1, <3>1
    <2>4. CASE CompileThrows
      BY <2>1, <2>4 DEF CompileThrows
    <2> QED
      BY <1>16, <2>2, <2>3, <2>4 DEF CreateJobFor
  <1>17. CASE MarkParents /\ UNCHANGED managerVars
    BY <1>17 DEF MarkParents, MarkAncestors
  <1>18. CASE Spurious
    <2>1. UNCHANGED << treeVars, jobVars, factoryRest >> /\ pc \in {"waitTree", "waitJobs", "waitDone"}
          /\ pc' \in {"woken", "recheck", "returned"}
      BY <1>18 DEF Spurious, SpuriousTreeWakeup, SpuriousJobsWakeup, Return
    <2> QED
      BY <2>1
  <1>19. ASSUME NEW n \in Node, Begin(n) PROVE NodesInv' /\ FoundInv'
    BY <1>19 DEF Begin, BeginRun
  <1>20. ASSUME NEW n \in Node, End(n) PROVE NodesInv' /\ FoundInv'
    BY <1>20 DEF End, EndRun
  <1>21. ASSUME NEW n \in Node, Report(n) PROVE NodesInv' /\ FoundInv'
    <2>1. job[n] = "exited" /\ job' = [job EXCEPT ![n] = "reported"]
          /\ UNCHANGED << status, children, found >>
      BY <1>21 DEF Report, ReportResult
    <2>2. pc' = pc \/ (pc = "waitJobs" /\ pc' = "recheck") \/ (pc = "waitDone" /\ pc' = "returned")
      BY <1>21 DEF Report, OnJobFinished, WakeManager
    <2>3. NodesInv'
      BY <2>1
    <2>4. FoundInv'
      BY <2>1, <2>2
    <2> QED
      BY <2>3, <2>4
  <1>22. ASSUME NEW n \in Node, Release(n) PROVE NodesInv' /\ FoundInv'
    <2>1. job[n] = "reported" /\ job' = [job EXCEPT ![n] = "published"]
          /\ UNCHANGED << children, pc, found >>
      BY <1>22 DEF Release, DeleteNodeGuard, ReleaseNode
    <2>2. status' = status \/ status' = [status EXCEPT ![n] = Built]
      BY <1>22 DEF Release, DeleteNodeGuard, ReleaseNode
    <2>3. status[n] >= Building
      <3>1. ~(status[n] < Building)
        BY <2>1
      <3>2. status[n] \in Status
        OBVIOUS
      <3> QED
        BY <3>1, <3>2
    <2>4. BuildOrder'
      <3> SUFFICES ASSUME NEW m \in Node, status'[m] >= Building, NEW i \in DOMAIN children[m]
                   PROVE  status'[children[m][i]] = Built
        BY <2>1 DEF BuildOrder
      <3>1. status[m] >= Building
        BY <2>2, <2>3
      <3>2. status[children[m][i]] = Built /\ children[m][i] \in Node
        BY <3>1, ChildIsNode, ChildIsBuilt
      <3> QED
        BY <2>2, <3>2
    <2>5. \A m \in Node : status'[m] < Building => job'[m] = "none"
      BY <2>1, <2>2, <2>3
    <2>6. \A m \in Node : IsGood(m) => IsGood(m)' \/ m = n
      BY <2>1, <2>2, PublishKeepsGood
    <2>7. \A m \in Node : m # n => status'[m] = status[m]
      BY <2>2
    <2>8. NodesInv'
      BY <2>4, <2>5
    <2>9. ~IsGood(n)
      <3>1. ~(status[n] < Building)
        BY <2>1
      <3> QED
        BY <3>1
    <2>10. FoundInv'
      <3> HIDE DEF IsGood
      <3>1. pc \in {"check", "claim"} /\ found # NoNode => IsGood(found)'
        <4> SUFFICES ASSUME pc \in {"check", "claim"}, found # NoNode PROVE IsGood(found)'
          OBVIOUS
        <4>1. found \in Node /\ IsGood(found)
          OBVIOUS
        <4>2. found # n
          BY <2>9, <4>1
        <4> QED
          BY <2>1, <2>6, <4>1, <4>2 DEF IsGood
      <3>2. pc \in {"expand", "findAgain", "lockLua", "create"} => status'[found] = status[found]
        BY <2>1, <2>7
      <3> QED
        BY <2>1, <3>1, <3>2
    <2> QED
      BY <2>8, <2>10
  <1>23. ASSUME NEW n \in Node, Flag(n) PROVE NodesInv' /\ FoundInv'
    BY <1>23 DEF Flag, FlagTreeChange, SetTreeChanged
  <1>24. ASSUME NEW n \in Node, Notify(n) PROVE NodesInv' /\ FoundInv'
    <2>1. CASE pc = "waitTree"
      BY <1>24, <2>1 DEF Notify, NotifyTreeChange, WakeTreeWaiter
    <2>2. CASE pc # "waitTree"
      BY <1>24, <2>2 DEF Notify, NotifyTreeChange, WakeTreeWaiter
    <2> QED
      BY <2>1, <2>2
  <1> QED
    BY <1>1, <1>2, <1>3, <1>4, <1>5, <1>6, <1>7, <1>8, <1>9, <1>10, <1>11, <1>12, <1>13, <1>14, <1>15, <1>16, <1>17, <1>18, <1>19, <1>20, <1>21, <1>22, <1>23, <1>24 DEF Next, MainStep, Run, CreateJob, JobStep

-----------------------------------------------------------------------------
(* m_jobsRunning is the number of jobs that are counted and not reported.     *)

\* Sizes of sets of counted jobs are natural numbers.
LEMMA CountedIsFinite == IsFiniteSet(Counted) /\ Cardinality(Counted) \in Nat
  <1>1. Counted \subseteq Node
    BY DEF Counted
  <1> QED
    BY <1>1, NodeFinite, FS_Subset, FS_CardinalityType

\* One job more, one job less.
LEMMA CountOneMore ==
    ASSUME TypeOK, CountInv, NEW n \in Node, SetJob(n, "created", "counted"),
           jobsRunning' = jobsRunning + 1
    PROVE  CountInv' /\ jobsRunning' \in Nat
  <1>1. Counted' = Counted \cup {n} /\ n \notin Counted
    BY DEF TypeOK, JobTypeOK, SetJob, Counted
  <1>2. Cardinality(Counted') = Cardinality(Counted) + 1
    BY <1>1, CountedIsFinite, FS_AddElement
  <1> QED
    BY <1>2, CountedIsFinite DEF CountInv

\* A job that is no longer counted is one job less.
LEMMA CountOneLess ==
    ASSUME TypeOK, CountInv, NEW n \in Node, SetJob(n, "exited", "reported"),
           jobsRunning' = jobsRunning - 1
    PROVE  CountInv' /\ jobsRunning' \in Nat
  <1>1. Counted' = Counted \ {n} /\ n \in Counted
    BY DEF TypeOK, JobTypeOK, SetJob, Counted
  <1>2. /\ Cardinality(Counted') = Cardinality(Counted) - 1
        /\ Cardinality(Counted') \in Nat
    BY <1>1, CountedIsFinite, FS_RemoveElement, FS_CardinalityType
  <1> QED
    BY <1>2 DEF CountInv

\* m_jobsRunning stays the number of counted jobs.
LEMMA CountStep ==
    ASSUME TypeOK, FoundInv, CountInv, Next
    PROVE  CountInv' /\ jobsRunning' \in Nat
  <1> DEFINE Same == Counted' = Counted /\ jobsRunning' = jobsRunning
  <1>1. Same => CountInv' /\ jobsRunning' \in Nat
    BY DEF CountInv, TypeOK, ManagerTypeOK
  <1>2. ASSUME job' = job, jobsRunning' = jobsRunning PROVE Same
    BY <1>2 DEF Counted
  <1>3. ASSUME NEW n \in Node, NEW from, NEW to, SetJob(n, from, to), jobsRunning' = jobsRunning,
               from \in {"counted", "started", "running", "exited"}
                   <=> to \in {"counted", "started", "running", "exited"}
        PROVE  Same
    BY <1>3 DEF SetJob, Counted, TypeOK, JobTypeOK
  <1> HIDE DEF Same
  <1>4. CASE CountJob
    BY <1>4, CountOneMore DEF CountJob, Goto, FoundInv
  <1>5. CASE SpawnJob
    <2>1. found \in Node /\ SetJob(found, "counted", "started") /\ jobsRunning' = jobsRunning
      BY <1>5 DEF SpawnJob, StartThread, Goto, FoundInv, managerVars
    <2> QED
      BY <2>1, <1>1, <1>3
  <1>6. CASE CreateJobFor /\ UNCHANGED managerVars
    <2>1. found \in Node /\ jobsRunning' = jobsRunning
      BY <1>6 DEF CreateJobFor, FoundInv, managerVars
    <2>2. job' = job \/ SetJob(found, "none", "created")
      BY <1>6 DEF CreateJobFor, NodeIsUpToDate, NodeGetsJob, CompileThrows
    <2> QED
      BY <2>1, <2>2, <1>1, <1>2, <1>3
  <1>7. CASE \/ TestLoop \/ WaitBelowLimit \/ RecheckError \/ Drain
    <2>1. job' = job /\ jobsRunning' = jobsRunning
      BY <1>7 DEF TestLoop, WaitBelowLimit, RecheckError, Drain, jobVars, managerVars
    <2> QED
      BY <2>1, <1>1, <1>2
  <1>8. CASE /\ UNCHANGED managerVars
             /\ \/ ResetFlags \/ FindAGoodNode \/ ExpandFound \/ FindInExpanded \/ CheckFound
                \/ WaitForTree \/ AfterWait \/ ClaimFound \/ LockLua \/ MarkParents
    <2>1. job' = job /\ jobsRunning' = jobsRunning
      BY <1>8 DEF ResetFlags, FindAGoodNode, ExpandFound, FindInExpanded, CheckFound,
                  WaitForTree, AfterWait, ClaimFound, LockLua, MarkParents, jobVars, managerVars
    <2> QED
      BY <2>1, <1>1, <1>2
  <1>9. CASE Spurious
    <2>1. job' = job /\ jobsRunning' = jobsRunning
      BY <1>9 DEF Spurious, SpuriousTreeWakeup, SpuriousJobsWakeup, jobVars, managerVars
    <2> QED
      BY <2>1, <1>1, <1>2
  <1>10. ASSUME NEW n \in Node, Report(n) PROVE CountInv' /\ jobsRunning' \in Nat
    BY <1>10, CountOneLess DEF Report, ReportResult, OnJobFinished
  <1>11. ASSUME NEW n \in Node, Begin(n) \/ End(n) \/ Release(n) \/ Flag(n) \/ Notify(n)
         PROVE  CountInv' /\ jobsRunning' \in Nat
    <2>1. jobsRunning' = jobsRunning
      BY <1>11 DEF Begin, End, Release, Flag, Notify, managerVars
    <2>2. \/ SetJob(n, "started", "running") \/ SetJob(n, "running", "exited")
          \/ SetJob(n, "reported", "published") \/ SetJob(n, "published", "flagged")
          \/ SetJob(n, "flagged", "gone")
      BY <1>11 DEF Begin, End, Release, Flag, Notify, BeginRun, EndRun, DeleteNodeGuard,
                   FlagTreeChange, NotifyTreeChange
    <2> QED
      BY <2>1, <2>2, <1>1, <1>3
  <1> QED
    BY <1>4, <1>5, <1>6, <1>7, <1>8, <1>9, <1>10, <1>11
       DEF Next, MainStep, Run, CreateJob, JobStep

-----------------------------------------------------------------------------
\* The invariant holds at first ...
LEMMA SafeInit == Init => SafeInv
  <1> SUFFICES ASSUME Init PROVE SafeInv
    OBVIOUS
  <1> USE DEF Init, TreeInit, JobInit, FactoryInit, ManagerInit
  <1>1. TypeOK
    <2>1. TreeTypeOK
      <3>1. shouldBuild \in [Node -> BOOLEAN]
        OBVIOUS
      <3>2. status \in [Node -> Status]
        OBVIOUS
      <3>3. children \in [Node -> Seq(Node)]
        BY Kinds
      <3> QED
        BY <3>1, <3>2, <3>3 DEF TreeTypeOK
    <2>2. JobTypeOK
      BY DEF JobTypeOK, JobState
    <2>3. FactoryTypeOK
      BY DEF FactoryTypeOK, FactoryPC, ManagerPC
    <2>4. ManagerTypeOK
      BY DEF ManagerTypeOK
    <2> QED
      BY <2>1, <2>2, <2>3, <2>4 DEF TypeOK
  <1>2. NodesInv
    BY DEF NodesInv, BuildOrder
  <1>3. FoundInv
    BY DEF FoundInv
  <1>4. Counted = {} /\ jobsRunning = 0
    BY DEF Counted
  <1>5. CountInv
    BY <1>4, FS_EmptySet DEF CountInv
  <1> QED
    BY <1>1, <1>2, <1>3, <1>5 DEF SafeInv

\* ... and every step keeps it.
LEMMA SafeStep == SafeInv /\ [Next]_vars => SafeInv'
  <1> SUFFICES ASSUME SafeInv, [Next]_vars PROVE SafeInv'
    OBVIOUS
  <1>1. CASE Next
    <2>1. CountInv' /\ jobsRunning' \in Nat
      BY <1>1, CountStep DEF SafeInv
    <2>2. TypeOK'
      BY <1>1, <2>1, TypeStep DEF SafeInv
    <2> QED
      BY <1>1, <2>1, <2>2, NodesStep DEF SafeInv
  <1>2. CASE UNCHANGED vars
    BY <1>2 DEF SafeInv, TypeOK, TreeTypeOK, JobTypeOK, FactoryTypeOK, ManagerTypeOK,
                NodesInv, FoundInv, CountInv, BuildOrder, IsGood, Counted,
                vars, treeVars, jobVars, factoryVars, managerVars
  <1> QED
    BY <1>1, <1>2

\* The types, the order of the nodes, what the main thread holds and the count of jobs
\* are invariant, with and without spurious wakeups (JobManager, JobFactory, ~NodeGuard).
THEOREM SafeInvariant == Spec => []SafeInv
  BY SafeInit, SafeStep, PTL DEF Spec

\* Every variable has its type: m_jobsRunning never goes below zero, and what createJob
\* holds is a node and a target.
THEOREM TypeCorrect == Spec => []TypeOK
  BY SafeInvariant, PTL DEF SafeInv

\* No node is claimed before everything it is made of was published as Built.
THEOREM OrderCorrect == Spec => []BuildOrder
  BY SafeInvariant, PTL DEF SafeInv, NodesInv

-----------------------------------------------------------------------------
(* Limits and answers, without spurious wakeups.                             *)

\* The count stays within the limit: a wait that ends by a notification finds room.
LEMMA LimitStep ==
    ASSUME SafeInv, SafeInv', LimitInv, Next, ~SpuriousWakeups
    PROVE  LimitInv'
  <1> USE MaxJobsAssumption DEF LimitInv, HasRoom, Goto, managerVars, SafeInv, TypeOK, ManagerTypeOK
  <1>1. CASE Run
    BY <1>1 DEF Run, TestLoop, WaitBelowLimit, RecheckError, CountJob, SpawnJob, Drain, Return
  <1>2. CASE CreateJob /\ UNCHANGED managerVars
    <2>1. pc \in FactoryPC \ {"waitTree"}
      BY <1>2 DEF CreateJob, ResetFlags, FindAGoodNode, ExpandFound, FindInExpanded, CheckFound,
                  WaitForTree, AfterWait, ClaimFound, LockLua, CreateJobFor, MarkParents, FactoryPC
    <2> QED
      BY <1>2, <2>1 DEF FactoryPC
  <1>3. CASE Spurious
    BY <1>3 DEF Spurious, SpuriousTreeWakeup, SpuriousJobsWakeup
  <1>4. ASSUME NEW n \in Node, Report(n) PROVE LimitInv'
    BY <1>4 DEF Report, OnJobFinished, WakeManager
  <1>5. ASSUME NEW n \in Node, Begin(n) \/ End(n) \/ Release(n) \/ Flag(n) \/ Notify(n)
        PROVE  LimitInv'
    <2>1. jobsRunning' = jobsRunning /\ (pc' = pc \/ pc = "waitTree")
      BY <1>5 DEF Begin, End, Release, Flag, Notify, SetTreeChanged, WakeTreeWaiter, factoryVars
    <2> QED
      BY <2>1
  <1> QED
    BY <1>1, <1>2, <1>3, <1>4, <1>5 DEF Next, MainStep, JobStep

\* A job that reports was counted.
LEMMA ReporterIsCounted ==
    ASSUME SafeInv, NEW n \in Node, job[n] = "exited"
    PROVE  jobsRunning >= 1
  <1>1. n \in Counted
    BY DEF Counted
  <1>2. Cardinality(Counted \ {n}) = Cardinality(Counted) - 1 /\ Cardinality(Counted \ {n}) \in Nat
    BY <1>1, CountedIsFinite, FS_RemoveElement, FS_CardinalityType
  <1> QED
    BY <1>2, CountedIsFinite DEF SafeInv, CountInv

\* The failures that were reported are the ones the flag tells of: what each step does
\* to the result and to the job of one node.
LEMMA FailureStep ==
    ASSUME SafeInv, ErrorInv, Next
    PROVE  /\ \A n \in Node : (result[n] # 0)' => (job[n] = "exited" \/ Reported(n))'
           /\ errorOccured' <=> \E n \in Node : Reported(n)' /\ result'[n] # 0
  <1> DEFINE Goal == /\ \A n \in Node : (result[n] # 0)' => (job[n] = "exited" \/ Reported(n))'
                     /\ errorOccured' <=> \E n \in Node : Reported(n)' /\ result'[n] # 0
  <1> SUFFICES Goal
    OBVIOUS
  <1> USE DEF Reported, SetJob, SafeInv, TypeOK, JobTypeOK, ManagerTypeOK, jobVars, managerVars
  <1>1. ASSUME job' = job, result' = result, errorOccured' = errorOccured
        PROVE  Goal
    BY <1>1 DEF ErrorInv
  <1>2. ASSUME NEW n \in Node, result' = result, errorOccured' = errorOccured,
               \/ SetJob(n, "none", "created") \/ SetJob(n, "created", "counted")
               \/ SetJob(n, "counted", "started") \/ SetJob(n, "started", "running")
               \/ SetJob(n, "reported", "published") \/ SetJob(n, "published", "flagged")
               \/ SetJob(n, "flagged", "gone")
        PROVE  Goal
    BY <1>2 DEF ErrorInv
  <1>3. CASE Run
    <2>1. \/ job' = job
          \/ \E n \in Node : SetJob(n, "created", "counted") \/ SetJob(n, "counted", "started")
      BY <1>3 DEF Run, TestLoop, WaitBelowLimit, RecheckError, CountJob, SpawnJob, StartThread,
                  Drain, FoundInv, Goto
    <2>2. result' = result /\ errorOccured' = errorOccured
      BY <1>3 DEF Run, TestLoop, WaitBelowLimit, RecheckError, CountJob, SpawnJob, StartThread, Drain
    <2>3. CASE job' = job
      BY <2>2, <2>3, <1>1
    <2>4. ASSUME NEW n \in Node,
                 SetJob(n, "none", "created") \/ SetJob(n, "created", "counted")
                 \/ SetJob(n, "counted", "started")
          PROVE  Goal
      BY <2>2, <2>4, <1>2
    <2> HIDE DEF SetJob, Goal
    <2> QED
      BY <2>1, <2>3, <2>4
  <1>4. CASE CreateJob /\ UNCHANGED managerVars
    <2>1. job' = job \/ \E n \in Node : SetJob(n, "none", "created")
      BY <1>4 DEF CreateJob, ResetFlags, FindAGoodNode, ExpandFound, FindInExpanded, CheckFound,
                  WaitForTree, AfterWait, ClaimFound, LockLua, CreateJobFor, MarkParents,
                  NodeIsUpToDate, NodeGetsJob, CompileThrows, FoundInv
    <2>2. result' = result /\ errorOccured' = errorOccured
      BY <1>4 DEF CreateJob, ResetFlags, FindAGoodNode, ExpandFound, FindInExpanded, CheckFound,
                  WaitForTree, AfterWait, ClaimFound, LockLua, CreateJobFor, MarkParents
    <2>3. CASE job' = job
      BY <2>2, <2>3, <1>1
    <2>4. ASSUME NEW n \in Node,
                 SetJob(n, "none", "created") \/ SetJob(n, "created", "counted")
                 \/ SetJob(n, "counted", "started")
          PROVE  Goal
      BY <2>2, <2>4, <1>2
    <2> HIDE DEF SetJob, Goal
    <2> QED
      BY <2>1, <2>3, <2>4
  <1>5. CASE Spurious
    BY <1>1, <1>5 DEF Spurious, SpuriousTreeWakeup, SpuriousJobsWakeup
  <1>6. ASSUME NEW n \in Node, Begin(n) \/ Release(n) \/ Flag(n) \/ Notify(n)
        PROVE  Goal
    <2>1. \/ SetJob(n, "started", "running") \/ SetJob(n, "reported", "published")
          \/ SetJob(n, "published", "flagged") \/ SetJob(n, "flagged", "gone")
      BY <1>6 DEF Begin, BeginRun, Release, DeleteNodeGuard, Flag, FlagTreeChange, Notify,
                  NotifyTreeChange
    <2>2. result' = result /\ errorOccured' = errorOccured
      BY <1>6 DEF Begin, BeginRun, Release, DeleteNodeGuard, Flag, FlagTreeChange, Notify,
                  NotifyTreeChange
    <2> HIDE DEF SetJob, Goal
    <2> QED
      BY <2>1, <2>2, <1>2
  <1>7. ASSUME NEW n \in Node, End(n) PROVE Goal
    <2>1. /\ job[n] = "running" /\ job' = [job EXCEPT ![n] = "exited"]
          /\ \A m \in Node : m # n => result'[m] = result[m]
          /\ errorOccured' = errorOccured
      BY <1>7 DEF End, EndRun
    <2> QED
      BY <2>1 DEF ErrorInv
  <1>8. ASSUME NEW n \in Node, Report(n) PROVE Goal
    <2>1. /\ job[n] = "exited" /\ job' = [job EXCEPT ![n] = "reported"] /\ result' = result
          /\ errorOccured' = (errorOccured \/ result[n] # 0)
      BY <1>8 DEF Report, ReportResult, OnJobFinished
    <2> QED
      BY <2>1 DEF ErrorInv
  <1> QED
    BY <1>3, <1>4, <1>5, <1>6, <1>7, <1>8 DEF Next, MainStep, JobStep

\* The answer is given when no job is counted, and the flag does not change any more.
LEMMA AnswerStep ==
    ASSUME SafeInv, ErrorInv, Next, ~SpuriousWakeups
    PROVE  (pc = "returned" => jobsRunning = 0 /\ (success <=> ~errorOccured))'
  <1> DEFINE Goal == (pc = "returned" => jobsRunning = 0 /\ (success <=> ~errorOccured))'
  <1> USE DEF ErrorInv, SafeInv, TypeOK, ManagerTypeOK, managerVars, Goto
  <1>1. CASE Run
    BY <1>1 DEF Run, TestLoop, WaitBelowLimit, RecheckError, CountJob, SpawnJob, Drain, Return
  <1>2. CASE CreateJob /\ UNCHANGED managerVars
    <2>1. pc' # "returned"
      BY <1>2 DEF CreateJob, ResetFlags, FindAGoodNode, ExpandFound, FindInExpanded, CheckFound,
                  WaitForTree, AfterWait, ClaimFound, LockLua, CreateJobFor, MarkParents,
                  NodeIsUpToDate, NodeGetsJob, CompileThrows
    <2> QED
      BY <2>1
  <1>3. CASE Spurious
    BY <1>3 DEF Spurious, SpuriousTreeWakeup, SpuriousJobsWakeup
  <1>4. ASSUME NEW n \in Node, Report(n) PROVE Goal
    <2>1. job[n] = "exited"
      BY <1>4 DEF Report, ReportResult, SetJob
    <2>2. jobsRunning >= 1
      BY <2>1, ReporterIsCounted
    <2>3. pc # "returned"
      BY <2>2
    <2>4. jobsRunning' = jobsRunning - 1 /\ WakeManager(jobsRunning', errorOccured')
      BY <1>4 DEF Report, OnJobFinished
    <2> QED
      BY <2>3, <2>4 DEF WakeManager
  <1>5. ASSUME NEW n \in Node, Begin(n) \/ End(n) \/ Release(n) \/ Flag(n) \/ Notify(n)
        PROVE  Goal
    BY <1>5 DEF Begin, End, Release, Flag, Notify, SetTreeChanged, WakeTreeWaiter, factoryVars
  <1> QED
    BY <1>1, <1>2, <1>3, <1>4, <1>5 DEF Next, MainStep, JobStep

\* The second invariant holds at first ...
LEMMA LimitsInit == Init => LimitsInv
  <1> SUFFICES ASSUME Init PROVE LimitsInv
    OBVIOUS
  <1>1. LimitInv
    BY MaxJobsAssumption DEF Init, ManagerInit, FactoryInit, LimitInv, HasRoom
  <1>2. ErrorInv
    BY DEF Init, ManagerInit, FactoryInit, JobInit, ErrorInv, Reported
  <1> QED
    BY <1>1, <1>2, SafeInit DEF LimitsInv

\* ... and every step keeps it when no wakeup is spurious.
LEMMA LimitsStep ==
    ASSUME ~SpuriousWakeups
    PROVE  LimitsInv /\ [Next]_vars => LimitsInv'
  <1> SUFFICES ASSUME LimitsInv, [Next]_vars PROVE LimitsInv'
    OBVIOUS
  <1>1. SafeInv'
    BY SafeStep DEF LimitsInv
  <1>2. CASE Next
    <2>1. LimitInv'
      BY <1>1, <1>2, LimitStep DEF LimitsInv
    <2>2. ErrorInv'
      BY <1>2, FailureStep, AnswerStep DEF LimitsInv, ErrorInv
    <2> QED
      BY <1>1, <2>1, <2>2 DEF LimitsInv
  <1>3. CASE UNCHANGED vars
    BY <1>1, <1>3 DEF LimitsInv, LimitInv, HasRoom, ErrorInv, Reported,
                      vars, treeVars, jobVars, factoryVars, managerVars
  <1> QED
    BY <1>2, <1>3

\* Without spurious wakeups the limit of jobs, and what m_errorOccured and the answer
\* of run() say of the failures, join the invariant (JobManager::run, onJobFinished).
THEOREM LimitsInvariant ==
    ASSUME ~SpuriousWakeups
    PROVE  Spec => []LimitsInv
  BY LimitsInit, LimitsStep, PTL DEF Spec

\* Without spurious wakeups at most MaxJobs threads run a command, whatever the order
\* in which jobs are counted, started and reported.
THEOREM JobLimitCorrect ==
    ASSUME ~SpuriousWakeups
    PROVE  Spec => []JobLimit
  <1>1. LimitsInv => JobLimit
    <2> SUFFICES ASSUME LimitsInv PROVE JobLimit
      OBVIOUS
    <2> DEFINE Active == {n \in Node : InDoRun(n)}
    <2>1. Active \subseteq Counted
      BY DEF Counted, InDoRun
    <2>2. Cardinality(Active) <= Cardinality(Counted) /\ Cardinality(Active) \in Nat
      BY <2>1, CountedIsFinite, FS_Subset, FS_CardinalityType
    <2>3. Cardinality(Counted) <= MaxJobs
      BY DEF LimitsInv, LimitInv, SafeInv, CountInv
    <2> HIDE DEF Active
    <2>4. Cardinality(Active) <= MaxJobs
      BY <2>2, <2>3, CountedIsFinite, MaxJobsAssumption
    <2> QED
      BY <2>4 DEF Active, JobLimit
  <1> QED
    BY <1>1, LimitsInvariant, PTL

\* Without spurious wakeups run() returns when no command runs, and returns success
\* exactly when no job failed.
THEOREM ExitStatusCorrect ==
    ASSUME ~SpuriousWakeups
    PROVE  Spec => []ExitStatus
  <1>1. LimitsInv => ExitStatus
    <2> SUFFICES ASSUME LimitsInv, pc = "returned"
                 PROVE  /\ \A n \in Node : ~InDoRun(n)
                        /\ success <=> \A n \in Node : result[n] = 0
      BY DEF ExitStatus
    <2>1. jobsRunning = 0 /\ (success <=> ~errorOccured)
      BY DEF LimitsInv, ErrorInv
    <2>2. Counted = {}
      BY <2>1, CountedIsFinite, FS_EmptySet DEF LimitsInv, SafeInv, CountInv
    <2>3. \A n \in Node : job[n] \notin {"counted", "started", "running", "exited"}
      BY <2>2 DEF Counted
    <2>4. (\E n \in Node : result[n] # 0) <=> errorOccured
      BY <2>3 DEF LimitsInv, ErrorInv
    <2> QED
      BY <2>1, <2>3, <2>4 DEF InDoRun
  <1> QED
    BY <1>1, LimitsInvariant, PTL

-----------------------------------------------------------------------------
\* Once a failure was reported, a main thread that has not passed its last test of
\* m_errorOccured makes no other job (JobManager::run): it is on its way to the end, and
\* nothing but createJob gives a node a job.
THEOREM ErrorStops == Spec => ErrorStopsScheduling
  <1>1. ASSUME TypeOK, ScheduledAfterError, [Next]_vars
        PROVE  ScheduledAfterError' /\ \A n \in Node : job[n] = "none" => job'[n] = "none"
    <2> USE DEF TypeOK, JobTypeOK, ManagerTypeOK, ScheduledAfterError
    <2>1. CASE Run
      <3>1. job' = job /\ errorOccured' = errorOccured
        BY <1>1, <2>1 DEF Run, TestLoop, WaitBelowLimit, RecheckError, CountJob, SpawnJob, Drain,
                          jobVars, managerVars, Goto
      <3>2. pc' \in {"loop", "limit", "waitJobs", "recheck", "drain", "waitDone", "returned"}
        BY <1>1, <2>1 DEF Run, TestLoop, WaitBelowLimit, RecheckError, CountJob, SpawnJob, Drain,
                          Return, Goto
      <3> QED
        BY <1>1, <3>1, <3>2
    <2>2. CASE CreateJob
      BY <1>1, <2>2 DEF CreateJob, ResetFlags, FindAGoodNode, ExpandFound, FindInExpanded, CheckFound,
                        WaitForTree, AfterWait, ClaimFound, LockLua, CreateJobFor, MarkParents, Goto
    <2>3. CASE Spurious
      BY <1>1, <2>3 DEF Spurious, SpuriousTreeWakeup, SpuriousJobsWakeup, Return, Goto, jobVars
    <2>4. ASSUME NEW n \in Node, JobStep(n)
          PROVE  ScheduledAfterError' /\ \A m \in Node : job[m] = "none" => job'[m] = "none"
      <3> HIDE DEF ScheduledAfterError
      <3>1. job[n] # "none" /\ \A m \in Node : m # n => job'[m] = job[m]
        BY <1>1, <2>4 DEF JobStep, Begin, BeginRun, End, EndRun, Report, ReportResult, Release, DeleteNodeGuard,
                    Flag, FlagTreeChange, Notify, NotifyTreeChange, SetJob
      <3>2. /\ pc' = pc \/ pc' = "recheck" \/ pc' = "returned" \/ pc = "waitTree"
            /\ errorOccured => errorOccured'
        BY <1>1, <2>4 DEF JobStep, Begin, End, Report, OnJobFinished, WakeManager, Release, Flag, Notify,
                    factoryVars, managerVars, SetTreeChanged, WakeTreeWaiter
      <3> QED
        BY <1>1, <3>1, <3>2 DEF ScheduledAfterError
    <2>5. CASE UNCHANGED vars
      BY <1>1, <2>5 DEF vars, jobVars, factoryVars, managerVars
    <2> QED
      BY <1>1, <2>1, <2>2, <2>3, <2>4, <2>5 DEF Next, MainStep
  <1>2. TypeOK /\ [Next]_vars =>
           [ScheduledAfterError => /\ ScheduledAfterError'
                                   /\ \A n \in Node : job[n] = "none" => job'[n] = "none"]_vars
    BY <1>1
  <1> QED
    BY <1>2, TypeCorrect, PTL DEF Spec, ErrorStopsScheduling
-----------------------------------------------------------------------------
(* The tree *)

\* The tree has no cycle, downwards: in every set of nodes one has no child in the set.
LEMMA AcyclicDown ==
    ASSUME NEW S \in SUBSET Node, S # {}
    PROVE  \E n \in S : \A m \in S : n \notin Parents[m]
  <1> DEFINE HasLeaf(T) == \E n \in T : \A m \in T : n \notin Parents[m]
             Good(D) == /\ \A m \in D : Parents[m] \subseteq D
                        /\ \A T \in SUBSET D : T # {} => HasLeaf(T)
             G == {D \in SUBSET Node : Good(D)}
  <1>1. {} \in G
    OBVIOUS
  <1>2. PICK D \in G : \A E \in G : D \subseteq E => E = D
    <2>1. G \in SUBSET (SUBSET Node) /\ G # {}
      BY <1>1
    <2> HIDE DEF G
    <2> QED
      BY <2>1, NodeFinite, LargestSet
  <1>3. CASE D = Node
    BY <1>2, <1>3
  <1>4. CASE D # Node
    <2>1. PICK n \in Node \ D : Parents[n] \cap (Node \ D) = {}
      BY <1>2, <1>4, AcyclicAssumption
    <2>2. Parents[n] \subseteq D
      BY <2>1 DEF Parents
    <2> DEFINE E == D \cup {n}
    <2>3. \A m \in E : Parents[m] \subseteq E
      BY <1>2, <2>2
    <2>4. \A m \in E : n \notin Parents[m]
      BY <1>2, <2>1, <2>2
    <2>5. ASSUME NEW T \in SUBSET E, T # {} PROVE HasLeaf(T)
      <3>1. CASE n \in T
        BY <2>4, <3>1
      <3>2. CASE n \notin T
        <4>1. T \in SUBSET D
          BY <3>2
        <4> QED
          BY <1>2, <2>5, <4>1
      <3> QED
        BY <3>1, <3>2
    <2>6. E \in G
      <3>1. E \in SUBSET Node
        BY <1>2
      <3> HIDE DEF HasLeaf, E
      <3> QED
        BY <2>3, <2>5, <3>1
    <2>7. E # D
      BY <2>1
    <2> QED
      BY <1>2, <2>6, <2>7
  <1> QED
    BY <1>3, <1>4

\* Node::parents and the visitor over them: what is above a node is its parents and what is
\* above these.
LEMMA AncestorsUnfold ==
    Ancestors = [n \in Node |-> Parents[n] \cup UNION {Ancestors[p] : p \in Parents[n]}]
  <1> DEFINE Closed(n, C) == Parents[n] \subseteq C /\ \A c \in C : Parents[c] \subseteq C
             A == [n \in Node |-> {a \in Node : \A C \in SUBSET Node : Closed(n, C) => a \in C}]
             B(n) == Parents[n] \cup UNION {A[p] : p \in Parents[n]}
  <1>1. \A n \in Node : Parents[n] \subseteq Node
    BY DEF Parents
  <1>2. ASSUME NEW n \in Node PROVE A[n] = B(n)
    <2>1. Closed(n, B(n)) /\ B(n) \in SUBSET Node
      <3>1. B(n) \in SUBSET Node
        BY <1>1
      <3>2. ASSUME NEW p \in Node PROVE Parents[p] \subseteq A[p]
        BY <1>1
      <3>3. ASSUME NEW p \in Node, NEW a \in A[p] PROVE Parents[a] \subseteq A[p]
        BY <1>1
      <3>4. ASSUME NEW c \in B(n) PROVE Parents[c] \subseteq B(n)
        <4>1. CASE c \in Parents[n]
          <5>1. Parents[c] \subseteq A[c]
            BY <1>1, <3>2, <4>1
          <5> HIDE DEF A
          <5> QED
            BY <4>1, <5>1
        <4>2. ASSUME NEW p \in Parents[n], c \in A[p] PROVE Parents[c] \subseteq B(n)
          <5>1. Parents[c] \subseteq A[p]
            BY <1>1, <3>3, <4>2
          <5> HIDE DEF A
          <5> QED
            BY <4>2, <5>1
        <4> QED
          BY <4>1, <4>2
      <3> QED
        BY <3>1, <3>4
    <2>2. A[n] \subseteq B(n)
      BY <2>1
    <2>3. ASSUME NEW a \in B(n), NEW C \in SUBSET Node, Closed(n, C) PROVE a \in C
      <3>1. CASE a \in Parents[n]
        BY <2>3, <3>1
      <3>2. ASSUME NEW p \in Parents[n], a \in A[p] PROVE a \in C
        <4>1. p \in Node /\ Closed(p, C)
          BY <1>1, <2>3
        <4> QED
          BY <3>2, <4>1
      <3> QED
        BY <2>3, <3>1, <3>2
    <2>4. B(n) \subseteq A[n]
      <3>1. B(n) \subseteq Node
        BY <1>1
      <3> HIDE DEF B
      <3> QED
        BY <2>3, <3>1
    <2> QED
      BY <2>2, <2>4
  <1>3. A = [n \in Node |-> Parents[n] \cup UNION {A[p] : p \in Parents[n]}]
    <2>1. A = [n \in Node |-> A[n]]
      OBVIOUS
    <2> HIDE DEF A
    <2> QED
      BY <1>2, <2>1
  <1> HIDE DEF A
  <1> QED
    BY <1>3 DEF Ancestors

-----------------------------------------------------------------------------
(* The search *)

\* The children a node has are among those it has once it is expanded.
Searchable ==
    /\ status \in [Node -> Status]
    /\ children \in [Node -> Seq(Node)]
    /\ \A n \in Node : Elements(children[n]) \subseteq Elements(AllChildren[n])

\* The sequences findAGoodNode goes through below n, given what it visits below each child
BelowChildren(v, n) ==
    [i \in DOMAIN children[n] |-> IF Enters(n, i) THEN v[children[n][i]] ELSE << >>]

\* A child knows its parent.
LEMMA ChildHasParent ==
    ASSUME Searchable, NEW n \in Node, NEW i \in DOMAIN children[n]
    PROVE  children[n][i] \in Node /\ n \in Parents[children[n][i]]
  <1>1. children[n] \in Seq(Node)
    BY DEF Searchable
  <1>2. children[n][i] \in Node /\ children[n][i] \in Elements(children[n])
    BY <1>1 DEF Elements
  <1> QED
    BY <1>2 DEF Searchable, Parents

\* The recursion of findAGoodNode is well defined, because the tree has no cycle.
LEMMA VisitsUnfold ==
    ASSUME Searchable
    PROVE  Visits = [n \in Node |-> << n >> \o FlattenSeq(BelowChildren(Visits, n))]
  <1> DEFINE Fits(v, D) == \A n \in D : v[n] = << n >> \o FlattenSeq(BelowChildren(v, n))
             Closed(D) == \A n \in D : Elements(children[n]) \subseteq D
             G == {D \in SUBSET Node : Closed(D) /\ \E v : Fits(v, D)}
  <1>1. {} \in G
    OBVIOUS
  <1>2. PICK D \in G : \A E \in G : D \subseteq E => E = D
    <2>1. G \in SUBSET (SUBSET Node) /\ G # {}
      BY <1>1
    <2> HIDE DEF G
    <2> QED
      BY <2>1, NodeFinite, LargestSet
  <1>3. ASSUME D # Node PROVE FALSE
    <2>1. PICK n \in Node \ D : \A m \in Node \ D : n \notin Parents[m]
      BY <1>2, <1>3, AcyclicDown
    <2>2. Elements(children[n]) \subseteq D
      BY <2>1, ChildHasParent DEF Elements
    <2>3. PICK v : Fits(v, D)
      BY <1>2
    <2> DEFINE E == D \cup {n}
               w == [m \in E |-> IF m = n THEN << n >> \o FlattenSeq(BelowChildren(v, n)) ELSE v[m]]
    <2>4. \A m \in D : w[m] = v[m]
      BY <2>1
    <2>5. ASSUME NEW m \in E PROVE BelowChildren(w, m) = BelowChildren(v, m)
      <3>1. \A i \in DOMAIN children[m] : children[m][i] \in D
        BY <1>2, <2>2 DEF Elements
      <3> HIDE DEF w
      <3>2. \A i \in DOMAIN children[m] : w[children[m][i]] = v[children[m][i]]
        BY <2>4, <3>1
      <3> QED
        BY <3>2 DEF BelowChildren
    <2>6. ASSUME NEW m \in E PROVE w[m] = << m >> \o FlattenSeq(BelowChildren(w, m))
      <3>1. CASE m = n
        BY <2>5, <3>1
      <3>2. CASE m # n
        <4>1. m \in D /\ w[m] = v[m] /\ v[m] = << m >> \o FlattenSeq(BelowChildren(v, m))
          BY <2>3, <2>4, <3>2
        <4> HIDE DEF w
        <4> QED
          BY <2>5, <4>1
      <3> QED
        BY <3>1, <3>2
    <2>7. Fits(w, E)
      <3> HIDE DEF w, E
      <3> QED
        BY <2>6
    <2>8. Closed(E) /\ E \in SUBSET Node
      BY <1>2, <2>2
    <2>9. E \in G
      <3> HIDE DEF w, E, Fits, Closed
      <3> QED
        BY <2>7, <2>8
    <2> QED
      BY <1>2, <2>1, <2>9
  <1>4. PICK v : Fits(v, Node)
    BY <1>2, <1>3
  <1> DEFINE V == [n \in Node |-> v[n]]
  <1>5. ASSUME NEW n \in Node PROVE V[n] = << n >> \o FlattenSeq(BelowChildren(V, n))
    <2>1. \A i \in DOMAIN children[n] : V[children[n][i]] = v[children[n][i]]
      BY ChildHasParent
    <2>2. V[n] = v[n]
      OBVIOUS
    <2> HIDE DEF V
    <2>3. BelowChildren(V, n) = BelowChildren(v, n)
      BY <2>1 DEF BelowChildren
    <2> QED
      BY <1>4, <2>2, <2>3
  <1>6. V = [n \in Node |-> V[n]]
    OBVIOUS
  <1> HIDE DEF V
  <1>7. V = [n \in Node |-> << n >> \o FlattenSeq(BelowChildren(V, n))]
    BY <1>5, <1>6
  <1> QED
    BY <1>7 DEF Visits, BelowChildren
\* The x-th node of v was entered from an earlier one, and when it is a file so is everything
\* in between.
IsEntered(v, x) ==
    \E y \in 1 .. x - 1 : \E i \in DOMAIN children[v[y]] :
        /\ v[x] = children[v[y]][i]
        /\ Enters(v[y], i)
        /\ v[x] \in Files => \A z \in y + 1 .. x : v[z] \in Files

IsSearch(n, v) ==
    /\ v \in Seq(Node) /\ Len(v) >= 1 /\ v[1] = n
    /\ \A x \in 2 .. Len(v) : IsEntered(v, x)

\* A source file has nothing below it, and a search of it visits nothing else.
LEMMA FilesAreLeaves ==
    ASSUME Searchable, NEW n \in Files
    PROVE  /\ n \in Node /\ children[n] = << >>
           /\ \A v : IsSearch(n, v) => \A x \in 1 .. Len(v) : v[x] = n
  <1>1. n \in Node /\ n \notin Targets \cup {Root}
    BY Kinds, KindsAssumption
  <1>2. AllChildren[n] = << >>
    BY <1>1, ChildrenAssumption
  <1>3. children[n] \in Seq(Node) /\ \A i \in DOMAIN children[n] : FALSE
    <2>1. Elements(AllChildren[n]) = {}
      BY <1>2 DEF Elements
    <2>2. Elements(children[n]) = {} /\ children[n] \in Seq(Node)
      BY <1>1, <2>1 DEF Searchable
    <2> QED
      BY <2>2 DEF Elements
  <1>4. children[n] = << >>
    <2>1. DOMAIN children[n] = 1 .. Len(children[n]) /\ Len(children[n]) \in Nat
      BY <1>3
    <2>2. Len(children[n]) # 0 => 1 \in 1 .. Len(children[n])
      BY <2>1
    <2>3. Len(children[n]) = 0
      BY <1>3, <2>1, <2>2
    <2> QED
      BY <1>3, <2>3
  <1>5. ASSUME NEW v, IsSearch(n, v), NEW x \in 1 .. Len(v) PROVE v[x] = n
    <2>1. CASE Len(v) >= 2
      <3>1. 2 \in 2 .. Len(v)
        BY <1>5, <2>1 DEF IsSearch
      <3>2. PICK y \in 1 .. 2 - 1 : \E i \in DOMAIN children[v[y]] : v[2] = children[v[y]][i]
        BY <1>5, <3>1 DEF IsSearch, IsEntered
      <3> QED
        BY <1>3, <1>5, <3>2 DEF IsSearch
    <2>2. CASE ~(Len(v) >= 2)
      BY <1>5, <2>2 DEF IsSearch
    <2> QED
      BY <2>1, <2>2
  <1> QED
    BY <1>1, <1>4, <1>5

\* findAGoodNode goes down from a node to its children, and from a target to its files only
\* when nothing else of that target is left to visit.
LEMMA SearchDescends ==
    ASSUME Searchable, NEW n \in Node
    PROVE  IsSearch(n, Visits[n])
  <1> DEFINE S == {m \in Node : ~IsSearch(m, Visits[m])}
  <1>1. SUFFICES ASSUME S # {} PROVE FALSE
    OBVIOUS
  <1>2. PICK p \in S : \A m \in S : p \notin Parents[m]
    <2>1. S \in SUBSET Node
      OBVIOUS
    <2> HIDE DEF S
    <2> QED
      BY <1>1, <2>1, AcyclicDown
  <1>3. ASSUME NEW i \in DOMAIN children[p]
        PROVE  children[p][i] \in Node /\ IsSearch(children[p][i], Visits[children[p][i]])
    BY <1>2, ChildHasParent
  <1> DEFINE ss == BelowChildren(Visits, p)
             F  == FlattenSeq(ss)
             V  == Visits[p]
  <1>4. V = << p >> \o F
    BY <1>2, VisitsUnfold
  <1>5. /\ Len(ss) = Len(children[p]) /\ Len(ss) \in Nat /\ DOMAIN ss = DOMAIN children[p]
        /\ DOMAIN ss = 1 .. Len(ss) /\ ss \in Seq(Seq(Node))
    <2>1. children[p] \in Seq(Node) /\ p \in Node
      BY <1>2 DEF Searchable
    <2>2. \A i \in DOMAIN children[p] : ss[i] \in Seq(Node)
      BY <1>3 DEF IsSearch, BelowChildren
    <2>3. DOMAIN ss = 1 .. Len(children[p]) /\ Len(children[p]) \in Nat
      BY <2>1 DEF BelowChildren
    <2>4. \A i \in 1 .. Len(children[p]) : ss[i] \in Seq(Node)
      BY <2>1, <2>2
    <2>5. ss = [i \in 1 .. Len(children[p]) |-> ss[i]]
      BY <2>3 DEF BelowChildren
    <2> HIDE DEF ss
    <2>6. ss \in Seq(Seq(Node))
      <3> DEFINE k == Len(children[p])
                 T == Seq(Node)
      <3>1. k \in Nat /\ ss = [i \in 1 .. k |-> ss[i]] /\ \A i \in 1 .. k : ss[i] \in T
        BY <2>3, <2>4, <2>5
      <3> HIDE DEF k, T
      <3>2. ss \in Seq(T)
        BY <3>1, SequenceOfItems
      <3> QED
        BY <3>2 DEF T
    <2> QED
      BY <2>1, <2>3, <2>6
  <1>6. F \in Seq(Node) /\ \A x \in 1 .. Len(F) : HasBlock(ss, F, x, Len(ss))
    <2> HIDE DEF ss
    <2> QED
      BY <1>5, FlattenBlocks
  <1>7. ASSUME NEW k \in 1 .. Len(ss), NEW j \in 1 .. Len(ss[k])
        PROVE  Enters(p, k) /\ ss[k] = Visits[children[p][k]] /\ k \in DOMAIN children[p]
    BY <1>5, <1>7 DEF BelowChildren
  <1> HIDE DEF ss, F, V
  <1>8. /\ V \in Seq(Node) /\ Len(V) = 1 + Len(F) /\ V[1] = p /\ Len(F) \in Nat
        /\ \A w \in 1 .. Len(F) : V[w + 1] = F[w]
    BY <1>2, <1>4, <1>6 DEF S
  <1>9. ASSUME NEW e \in 1 .. Len(F) PROVE IsEntered(V, e + 1)
    <2>1. PICK k \in 1 .. Len(ss) : \E j \in 1 .. Len(ss[k]) : IsBlock(ss, F, e, k, j)
      BY <1>6 DEF HasBlock
    <2>2. PICK j \in 1 .. Len(ss[k]) : IsBlock(ss, F, e, k, j)
      BY <2>1
    <2> DEFINE c == children[p][k]
               u == Visits[c]
    <2>3. Enters(p, k) /\ ss[k] = u /\ k \in DOMAIN children[p] /\ c \in Node /\ IsSearch(c, u)
      BY <1>3, <1>7
    <2>4. j <= e /\ j \in 1 .. Len(u) /\ Len(u) \in Nat
      BY <2>2, <2>3 DEF IsBlock, IsSearch
    <2> HIDE DEF c, u
    <2>5. ASSUME NEW m \in 1 .. j PROVE V[e - j + m + 1] = u[m] /\ e - j + m \in 1 .. Len(F)
      <3>1. e - j + m \in 1 .. Len(F)
        BY <1>8, <2>4
      <3>2. F[e - j + m] = u[m]
        BY <2>2, <2>3 DEF IsBlock
      <3> QED
        BY <1>8, <3>1, <3>2
    <2>6. CASE j = 1
      <3>1. V[e + 1] = c
        <4>1. 1 \in 1 .. j /\ e - j + 1 + 1 = e + 1
          BY <2>6
        <4>2. V[e - j + 1 + 1] = u[1]
          BY <2>5, <4>1
        <4> QED
          BY <2>3, <4>1, <4>2 DEF IsSearch
      <3>2. ASSUME c \in Files, NEW z \in 2 .. e PROVE V[z] \in Files
        <4>1. z - 1 \in 1 .. e - j /\ z - 1 \in 1 .. Len(F) /\ z - 1 + 1 = z
          BY <1>8, <2>6
        <4>2. PICK l \in 1 .. k - 1 : \E m \in 1 .. Len(ss[l]) : F[z - 1] = ss[l][m]
          BY <2>2, <4>1 DEF IsBlock
        <4>3. PICK m \in 1 .. Len(ss[l]) : F[z - 1] = ss[l][m]
          BY <4>2
        <4>4. l \in 1 .. Len(ss) /\ l \in 1 .. k
          BY <1>5
        <4> DEFINE d == children[p][l]
        <4>5. Enters(p, l) /\ ss[l] = Visits[d] /\ d \in Node /\ IsSearch(d, Visits[d])
          BY <1>3, <1>7, <4>4
        <4>6. IsUnbuilt(d)
          <5>1. status[d] \in Status /\ status[d] < Building
            BY <4>5 DEF Enters, Searchable
          <5> HIDE DEF d
          <5> QED
            BY <5>1 DEF IsUnbuilt
        <4>7. d \in Files
          BY <2>3, <3>2, <4>4, <4>6 DEF Enters, c
        <4>8. F[z - 1] = d
          BY <4>3, <4>5, <4>7, FilesAreLeaves
        <4> QED
          BY <1>8, <4>1, <4>7, <4>8
      <3>3. \A z \in 1 + 1 .. e + 1 : c \in Files => V[z] \in Files
        BY <3>1, <3>2
      <3>4. 1 \in 1 .. (e + 1) - 1 /\ k \in DOMAIN children[V[1]] /\ V[e + 1] = children[V[1]][k]
            /\ Enters(V[1], k)
        BY <1>8, <2>3, <3>1 DEF c
      <3> QED
        BY <3>1, <3>3, <3>4 DEF IsEntered
    <2>7. CASE j > 1
      <3>1. j \in 2 .. Len(u)
        BY <2>4, <2>7
      <3>2. PICK y \in 1 .. j - 1 : \E i \in DOMAIN children[u[y]] :
                /\ u[j] = children[u[y]][i] /\ Enters(u[y], i)
                /\ u[j] \in Files => \A z \in y + 1 .. j : u[z] \in Files
        BY <2>3, <3>1 DEF IsSearch, IsEntered
      <3> DEFINE q == e - j + y + 1
      <3>3. V[q] = u[y] /\ V[e + 1] = u[j]
        <4>1. y \in 1 .. j /\ j \in 1 .. j /\ e - j + j + 1 = e + 1
          BY <2>4
        <4> QED
          BY <2>5, <4>1
      <3>4. q \in 1 .. (e + 1) - 1
        BY <2>4
      <3>5. ASSUME V[e + 1] \in Files, NEW z \in q + 1 .. e + 1 PROVE V[z] \in Files
        <4>1. z - 1 - e + j \in y + 1 .. j /\ z - 1 - e + j \in 1 .. j
              /\ e - j + (z - 1 - e + j) + 1 = z
          BY <2>4
        <4>2. u[z - 1 - e + j] \in Files
          BY <3>2, <3>3, <3>5, <4>1
        <4>3. V[e - j + (z - 1 - e + j) + 1] = u[z - 1 - e + j]
          BY <2>5, <4>1
        <4> QED
          BY <4>1, <4>2, <4>3
      <3> HIDE DEF q
      <3> QED
        BY <3>2, <3>3, <3>4, <3>5 DEF IsEntered
    <2> QED
      BY <2>4, <2>6, <2>7
  <1>10. \A x \in 2 .. Len(V) : IsEntered(V, x)
    <2> SUFFICES ASSUME NEW x \in 2 .. Len(V) PROVE IsEntered(V, x)
      OBVIOUS
    <2>1. x - 1 \in 1 .. Len(F) /\ x - 1 + 1 = x
      BY <1>8
    <2> QED
      BY <1>9, <2>1
  <1>11. IsSearch(p, V)
    BY <1>8, <1>10 DEF IsSearch
  <1> QED
    BY <1>2, <1>11 DEF V, S
-----------------------------------------------------------------------------
(* The shape of the tree *)

\* A file is a child of the one target, not a custom one, it is a source of; a hook or a file has
\* no children; a node has at most one parent.
LEMMA Shape ==
    /\ \A n \in Node : /\ Elements(FirstChildren[n]) \subseteq Elements(AllChildren[n])
                       /\ Elements(AllChildren[n]) \subseteq Elements(FirstChildren[n]) \cup Files
    /\ \A n \in Node : Elements(FirstChildren[n]) \subseteq Targets \cup Hooks
    /\ \A n \in Node, f \in Files : f \in Elements(AllChildren[n]) =>
           n \in Targets \ Custom /\ f \in Elements(FilesOf[n])
    /\ \A t \in Targets \ Custom : Elements(FilesOf[t]) \subseteq Files
                                   /\ Elements(FilesOf[t]) \subseteq Elements(AllChildren[t])
    /\ \A n \in Hooks \cup Files : FirstChildren[n] = AllChildren[n]
    /\ \A n \in Node : \A p \in Parents[n], q \in Parents[n] : p = q
    /\ Parents[Root] = {}
  <1>1. ASSUME NEW n \in Node
        PROVE  /\ Elements(FirstChildren[n]) \subseteq Targets \cup Hooks
               /\ Elements(FilesOf[n]) \subseteq Files
               /\ Elements(FirstChildren[n] \o FilesOf[n]) =
                      Elements(FirstChildren[n]) \cup Elements(FilesOf[n])
    <2>1. Deps[n] \in Seq(Targets) /\ HookOf[n] \in Seq(Hooks) /\ FilesOf[n] \in Seq(Files)
      BY ChildrenAssumption
    <2>2. Deps[n] \in Seq(Targets \cup Hooks) /\ HookOf[n] \in Seq(Targets \cup Hooks)
      BY <2>1
    <2>3. FirstChildren[n] \in Seq(Targets \cup Hooks)
      BY <2>2 DEF FirstChildren
    <2>4. \A s \in Seq(Targets \cup Hooks) : Elements(s) \subseteq Targets \cup Hooks
      BY DEF Elements
    <2>5. \A s \in Seq(Files) : Elements(s) \subseteq Files
      BY DEF Elements
    <2>6. ASSUME NEW a \in Seq(Node), NEW b \in Seq(Node)
          PROVE  Elements(a \o b) = Elements(a) \cup Elements(b)
      <3>1. /\ Len(a) \in Nat /\ Len(b) \in Nat /\ DOMAIN a = 1 .. Len(a) /\ DOMAIN b = 1 .. Len(b)
            /\ DOMAIN (a \o b) = 1 .. Len(a) + Len(b)
            /\ \A i \in 1 .. Len(a) : (a \o b)[i] = a[i]
            /\ \A i \in 1 .. Len(b) : (a \o b)[Len(a) + i] = b[i]
        OBVIOUS
      <3> DEFINE c == a \o b
      <3> HIDE DEF c
      <3>2. ASSUME NEW i \in DOMAIN c PROVE c[i] \in Elements(a) \cup Elements(b)
        <4>1. CASE i \in 1 .. Len(a)
          BY <3>1, <4>1 DEF Elements, c
        <4>2. CASE i \notin 1 .. Len(a)
          <5>1. i - Len(a) \in 1 .. Len(b) /\ Len(a) + (i - Len(a)) = i
            BY <3>1, <3>2, <4>2 DEF c
          <5>2. c[i] = b[i - Len(a)]
            BY <3>1, <5>1 DEF c
          <5> QED
            BY <3>1, <5>1, <5>2 DEF Elements
        <4> QED
          BY <4>1, <4>2
      <3>3. ASSUME NEW i \in DOMAIN a PROVE a[i] \in Elements(c)
        BY <3>1, <3>3 DEF Elements, c
      <3>4. ASSUME NEW i \in DOMAIN b PROVE b[i] \in Elements(c)
        <4>1. Len(a) + i \in DOMAIN c /\ c[Len(a) + i] = b[i]
          BY <3>1, <3>4 DEF c
        <4> QED
          BY <4>1 DEF Elements
      <3> QED
        BY <3>2, <3>3, <3>4 DEF Elements, c
    <2> QED
      BY <2>1, <2>3, <2>4, <2>5, <2>6, Kinds
  <1>2. ASSUME NEW n \in Node
        PROVE  Elements(AllChildren[n]) = IF n \in Custom THEN Elements(FirstChildren[n])
                                          ELSE Elements(FirstChildren[n]) \cup Elements(FilesOf[n])
    BY <1>1 DEF AllChildren
  <1>3. Elements(<< >>) = {}
    BY DEF Elements
  <1>4. ASSUME NEW n \in Node, NEW f \in Files, f \in Elements(AllChildren[n])
        PROVE  n \in Targets \ Custom /\ f \in Elements(FilesOf[n])
    <2>1. f \notin Targets \cup Hooks
      BY KindsAssumption
    <2>2. n \notin Custom /\ f \in Elements(FilesOf[n])
      BY <1>1, <1>2, <1>4, <2>1
    <2>3. n \in Targets \cup {Root}
      BY <1>3, <1>4, ChildrenAssumption
    <2>4. n = Root => Root \in Targets
      BY <1>3, <2>2, ChildrenAssumption
    <2> QED
      BY <2>2, <2>3, <2>4
  <1>5. ASSUME NEW n \in Hooks \cup Files PROVE FirstChildren[n] = AllChildren[n]
    <2>1. n \in Node \ (Targets \cup {Root}) /\ n \notin Custom
      BY Kinds, KindsAssumption
    <2>2. AllChildren[n] = << >> /\ AllChildren[n] = FirstChildren[n] \o FilesOf[n]
      BY <2>1, ChildrenAssumption DEF AllChildren
    <2>3. FirstChildren[n] \in Seq(Node) /\ FilesOf[n] \in Seq(Node)
      BY <2>1, Kinds
    <2>4. ASSUME NEW a \in Seq(Node), NEW b \in Seq(Node), a \o b = << >> PROVE a = << >>
      <3>1. Len(a \o b) = Len(a) + Len(b) /\ Len(a) \in Nat /\ Len(b) \in Nat
        OBVIOUS
      <3>2. Len(a) = 0
        BY <2>4, <3>1
      <3> QED
        BY <3>2
    <2>5. FirstChildren[n] = << >>
      BY <2>2, <2>3, <2>4
    <2> QED
      BY <2>2, <2>5
  <1>6. ASSUME NEW n \in Node
        PROVE  /\ \A p \in Parents[n], q \in Parents[n] : p = q
               /\ n = Root => Parents[n] = {}
    <2>1. Parents[n] \subseteq Node
      BY DEF Parents
    <2>2. IsFiniteSet(Parents[n])
      BY <2>1, NodeFinite, FS_Subset
    <2>3. Cardinality(Parents[n]) = 0 \/ \E x : Parents[n] = {x}
      BY <2>2, TreeAssumption, FS_Singleton
    <2>4. Cardinality(Parents[n]) = 0 => Parents[n] = {}
      BY <2>2, FS_EmptySet
    <2> QED
      BY <2>3, <2>4, TreeAssumption
  <1>7. \A n \in Node : /\ Elements(FirstChildren[n]) \subseteq Elements(AllChildren[n])
                       /\ Elements(AllChildren[n]) \subseteq Elements(FirstChildren[n]) \cup Files
    BY <1>1, <1>2
  <1>8. \A t \in Targets \ Custom : Elements(FilesOf[t]) \subseteq Files
                                   /\ Elements(FilesOf[t]) \subseteq Elements(AllChildren[t])
    BY <1>1, <1>2, Kinds
  <1> QED
    BY <1>1, <1>4, <1>5, <1>6, <1>7, <1>8, Kinds

\* The invariant tells what a search needs to know of the tree.
LEMMA TreeIsSearchable ==
    ASSUME TypeOK, ExpandedInv
    PROVE  Searchable
  BY Shape DEF TypeOK, TreeTypeOK, ExpandedInv, Searchable

\* A node that is good is no fake root: that one has children, and a fake node with children
\* is never good.
LEMMA GoodIsReal ==
    ASSUME TypeOK, ExpandedInv, NEW n \in Node, IsGood(n)
    PROVE  n \in Targets \cup Hooks \cup Files
  <1> SUFFICES ASSUME n = Root, Root \notin Targets PROVE FALSE
    BY DEF Node
  <1>1. IsFake(n)
    BY KindsAssumption DEF IsFake
  <1>2. children[n] = << >>
    BY <1>1 DEF IsGood
  <1>3. Deps[n] \in Seq(Targets) /\ Len(Deps[n]) > 1 /\ HookOf[n] = << >> /\ FilesOf[n] = << >>
    BY ChildrenAssumption
  <1>4. FirstChildren[n] = Deps[n] \o << >> /\ AllChildren[n] = FirstChildren[n] \o << >>
    BY <1>3, KindsAssumption DEF FirstChildren, AllChildren
  <1>5. FirstChildren[n] = Deps[n]
    BY <1>3, <1>4
  <1>6. AllChildren[n] = Deps[n]
    BY <1>3, <1>4, <1>5
  <1>7. children[n] = Deps[n]
    BY <1>5, <1>6 DEF ExpandedInv
  <1> QED
    BY <1>2, <1>3, <1>7

\* The target findAGoodNode reports is that of the target or file it returns, whatever other
\* targets it went through before (it overwrites *target at every one).
LEMMA SearchReportsTarget ==
    ASSUME TypeOK, ExpandedInv, NEW n \in Node \ Files, SearchFrom(n), found' # NoNode
    PROVE  /\ IsTargetOf(found', foundTarget')
           /\ found' \in Files => status[foundTarget'] # Pristine
  <1> DEFINE V == Visits[n]
  <1>1. Searchable /\ IsSearch(n, V)
    BY TreeIsSearchable, SearchDescends
  <1>2. PICK i \in DOMAIN Search(n), t \in Targets \cup {NoNode} :
            FoundAt(Search(n), i) /\ found' = Search(n)[i] /\ IsLastTarget(Search(n), i, t)
            /\ foundTarget' = t
    BY DEF SearchFrom
  <1>3. Search(n) = V /\ i \in 1 .. Len(V) /\ Len(V) \in Nat
    BY <1>1, <1>2 DEF Search, IsSearch
  <1> HIDE DEF V
  <1>4. V[i] = found' /\ found' \in Node /\ IsLastTarget(V, i, t)
    BY <1>2, <1>3 DEF FoundAt
  <1>5. ASSUME found' \in Targets PROVE t = found'
    BY <1>3, <1>4, <1>5 DEF IsLastTarget
  <1>6. ASSUME found' \in Files
        PROVE  t \in Targets \ Custom /\ found' \in Elements(FilesOf[t]) /\ status[t] # Pristine
    <2>1. i \in 2 .. Len(V)
      BY <1>1, <1>3, <1>4, <1>6 DEF IsSearch
    <2>2. PICK y \in 1 .. i - 1 : \E k \in DOMAIN children[V[y]] :
              V[i] = children[V[y]][k] /\ \A z \in y + 1 .. i : V[z] \in Files
      BY <1>1, <1>4, <1>6, <2>1 DEF IsSearch, IsEntered
    <2>3. V[y] \in Node /\ found' \in Elements(children[V[y]])
      BY <1>1, <1>3, <1>4, <2>2 DEF IsSearch, Elements
    <2>4. found' \in Elements(AllChildren[V[y]])
      BY <1>1, <2>3 DEF Searchable
    <2>5. V[y] \in Targets \ Custom /\ found' \in Elements(FilesOf[V[y]])
      BY <1>6, <2>3, <2>4, Shape
    <2>6. status[V[y]] # Pristine
      <3>1. found' \notin Elements(FirstChildren[V[y]])
        BY <1>6, <2>3, Shape, KindsAssumption
      <3> QED
        BY <2>3, <3>1 DEF ExpandedInv
    <2>7. \A z \in y + 1 .. i : V[z] \notin Targets
      BY <2>2, KindsAssumption
    <2>8. t = V[y]
      <3>1. t # NoNode
        <4>1. y \in 1 .. i /\ NoNode \notin Targets
          BY <1>3, <2>2, Kinds
        <4> QED
          BY <1>4, <2>5, <4>1 DEF IsLastTarget
      <3>2. PICK j \in 1 .. i : t = V[j] /\ t \in Targets /\ \A k \in j + 1 .. i : V[k] \notin Targets
        BY <1>4, <3>1 DEF IsLastTarget
      <3>3. ~(j > y)
        BY <1>3, <2>7, <3>2
      <3>4. ~(j < y)
        BY <1>3, <2>2, <2>5, <3>2
      <3> QED
        BY <1>3, <3>2, <3>3, <3>4
    <2> QED
      BY <2>5, <2>6, <2>8
  <1> QED
    BY <1>2, <1>4, <1>5, <1>6 DEF IsTargetOf

\* The search of a target that was expanded finds the target or one of its files: all else below
\* it is Built.
LEMMA ExpandedSearch ==
    ASSUME TypeOK, ExpandedInv, NEW n \in Targets, status[n] # Pristine, SearchFrom(n),
           found' # NoNode
    PROVE  found' = n \/ found' \in Files
  <1> DEFINE V == Visits[n]
             T == {x \in Nat : x \in 1 .. Len(V) /\ V[x] # n /\ V[x] \notin Files}
  <1>1. Searchable /\ IsSearch(n, V) /\ n \in Node
    BY TreeIsSearchable, SearchDescends, Kinds
  <1>2. PICK i \in DOMAIN Search(n) : found' = Search(n)[i]
    BY DEF SearchFrom
  <1>3. found' = V[i] /\ i \in 1 .. Len(V) /\ Len(V) \in Nat
    BY <1>1, <1>2 DEF Search, IsSearch
  <1> HIDE DEF V
  <1>4. ASSUME T # {} PROVE FALSE
    <2>1. PICK x \in T : \A y \in T : x <= y
      <3> T \in SUBSET Nat
        OBVIOUS
      <3> HIDE DEF T
      <3> QED
        BY <1>4, LeastNat
    <2>2. x \in 2 .. Len(V)
      BY <1>1, <1>3 DEF IsSearch
    <2>3. PICK y \in 1 .. x - 1 : \E k \in DOMAIN children[V[y]] :
              V[x] = children[V[y]][k] /\ Enters(V[y], k)
      BY <1>1, <2>2 DEF IsSearch, IsEntered
    <2>4. V[y] = n \/ V[y] \in Files
      BY <1>3, <2>1, <2>2, <2>3
    <2>5. V[y] = n
      <3>1. CASE V[y] \in Files
        <4>1. children[V[y]] = << >>
          BY <1>1, <3>1, FilesAreLeaves
        <4> QED
          BY <2>3, <4>1
      <3> QED
        BY <2>4, <3>1
    <2>6. V[x] \in Elements(AllChildren[n]) /\ status[V[x]] < Building
      BY <1>1, <2>3, <2>5 DEF Enters, Searchable, Elements
    <2>7. CASE V[x] \in Elements(FirstChildren[n])
      BY <2>6, <2>7 DEF ExpandedInv, Elements
    <2>8. CASE V[x] \notin Elements(FirstChildren[n])
      <3>1. V[x] \in Files
        BY <1>1, <2>6, <2>8, Shape
      <3> QED
        BY <2>1, <3>1
    <2> QED
      BY <2>7, <2>8
  <1> QED
    BY <1>3, <1>4
-----------------------------------------------------------------------------
(* The parts of TreeInv, one by one. *)

\* What is in the child list of a node is one of its children.
LEMMA FirstChildIsNode ==
    ASSUME NEW n \in Node, NEW i \in DOMAIN FirstChildren[n]
    PROVE  FirstChildren[n][i] \in Node /\ FirstChildren[n][i] \in Elements(FirstChildren[n])
  <1>1. FirstChildren[n] \in Seq(Node)
    BY Kinds
  <1> QED
    BY <1>1 DEF Elements

\* A file of a target that is not custom is a node and has that target as its parent.
LEMMA FileIsNode ==
    ASSUME NEW t \in Targets \ Custom, NEW i \in DOMAIN FilesOf[t]
    PROVE  /\ FilesOf[t][i] \in Files /\ FilesOf[t][i] \in Node
           /\ t \in Parents[FilesOf[t][i]]
  <1>1. FilesOf[t][i] \in Elements(FilesOf[t]) /\ t \in Node
    BY Kinds DEF Elements
  <1>2. FilesOf[t][i] \in Files /\ FilesOf[t][i] \in Elements(AllChildren[t])
    BY <1>1, Shape
  <1> QED
    BY <1>1, <1>2, Kinds DEF Parents

\* What one step does to the status of the nodes.
LEMMA StatusStep ==
    ASSUME TypeOK, NodesInv, FoundInv, HeldInv, ResultInv, Next
    PROVE  \/ UNCHANGED << status, children >>
           \/ ExpandFound
           \/ ClaimFound /\ children' = children
           \/ /\ pc = "create" /\ status[found] = Building /\ found \in Node
              /\ status' = [status EXCEPT ![found] = Built] /\ children' = children
           \/ \E n \in Node : /\ status[n] = Building /\ children' = children
                              /\ status' = [status EXCEPT ![n] = Built]
  <1> USE DEF treeVars
  <1>1. CASE Run \/ Spurious
    BY <1>1 DEF Run, TestLoop, WaitBelowLimit, RecheckError, CountJob, SpawnJob, Drain,
                Spurious, SpuriousTreeWakeup, SpuriousJobsWakeup
  <1>2. CASE CreateJobFor
    BY <1>2 DEF CreateJobFor, NodeIsUpToDate, NodeGetsJob, CompileThrows, FoundInv
  <1>3. CASE CreateJob /\ ~ExpandFound /\ ~CreateJobFor
    BY <1>3 DEF CreateJob, ResetFlags, FindAGoodNode, FindInExpanded, CheckFound,
                WaitForTree, AfterWait, ClaimFound, LockLua, MarkParents, MarkAncestors
  <1>4. ASSUME NEW n \in Node, Release(n)
        PROVE  \/ UNCHANGED << status, children >>
               \/ /\ status[n] = Building /\ children' = children
                  /\ status' = [status EXCEPT ![n] = Built]
    <2>1. status[n] = Building
      BY <1>4 DEF Release, DeleteNodeGuard, SetJob, ResultInv
    <2> QED
      BY <1>4, <2>1 DEF Release, DeleteNodeGuard, ReleaseNode
  <1>5. ASSUME NEW n \in Node, Begin(n) \/ End(n) \/ Report(n) \/ Flag(n) \/ Notify(n)
        PROVE  UNCHANGED << status, children >>
    BY <1>5 DEF Begin, End, Report, Flag, Notify
  <1> QED
    BY <1>1, <1>2, <1>3, <1>4, <1>5 DEF Next, MainStep, JobStep, CreateJob

\* The result of a job, and what ~NodeGuard has made of it.
LEMMA ResultStep ==
    ASSUME TypeOK, NodesInv, FoundInv, ResultInv, Next
    PROVE  ResultInv'
  <1> USE DEF TypeOK, TreeTypeOK, JobTypeOK, ResultInv, SetJob, jobVars
  <1>1. CASE Run
    <2>1. UNCHANGED << result, status >>
      BY <1>1 DEF Run, TestLoop, WaitBelowLimit, RecheckError, CountJob, SpawnJob, StartThread,
                  Drain, treeVars
    <2>2. \/ job' = job
          \/ found \in Node /\ SetJob(found, "created", "counted")
          \/ found \in Node /\ SetJob(found, "counted", "started")
      BY <1>1 DEF Run, TestLoop, WaitBelowLimit, RecheckError, CountJob, SpawnJob, StartThread,
                  Drain, FoundInv, Goto
    <2> QED
      BY <2>1, <2>2
  <1>2. CASE Spurious
    BY <1>2 DEF Spurious, SpuriousTreeWakeup, SpuriousJobsWakeup, treeVars
  <1>3. CASE ExpandFound
    <2>1. status' = [status EXCEPT ![found] = Expanded] /\ UNCHANGED << job, result >>
          /\ found \in Targets /\ status[found] < Building
      BY <1>3 DEF ExpandFound, ExpandTargetNode, FoundInv, Goto
    <2>2. found \in Node /\ job[found] = "none"
      BY <2>1, Kinds DEF NodesInv
    <2> QED
      BY <2>1, <2>2
  <1>4. CASE ClaimFound
    <2>1. status' = [status EXCEPT ![found] = Building] /\ UNCHANGED << job, result >>
          /\ found \in Node /\ IsGood(found)
      BY <1>4, Kinds DEF ClaimFound, FoundInv, Goto
    <2>2. job[found] = "none"
      BY <2>1 DEF NodesInv, IsGood
    <2> QED
      BY <2>1, <2>2
  <1>5. CASE CreateJobFor
    <2>1. found \in Node /\ job[found] = "none" /\ status[found] = Building /\ result' = result
      BY <1>5 DEF CreateJobFor, FoundInv
    <2>2. CASE NodeIsUpToDate
      BY <2>1, <2>2 DEF NodeIsUpToDate
    <2>3. CASE NodeGetsJob
      BY <2>1, <2>3 DEF NodeGetsJob
    <2>4. CASE CompileThrows
      BY <2>1, <2>4 DEF CompileThrows
    <2> QED
      BY <1>5, <2>2, <2>3, <2>4 DEF CreateJobFor
  <1>6. CASE CreateJob /\ ~ExpandFound /\ ~ClaimFound /\ ~CreateJobFor
    BY <1>6 DEF CreateJob, ResetFlags, FindAGoodNode, FindInExpanded, CheckFound,
                WaitForTree, AfterWait, LockLua, MarkParents, MarkAncestors, treeVars
  <1>7. ASSUME NEW n \in Node, Begin(n) \/ Report(n) \/ Flag(n) \/ Notify(n) PROVE ResultInv'
    <2>1. UNCHANGED << result, status >>
      BY <1>7 DEF Begin, BeginRun, Report, ReportResult, Flag, FlagTreeChange, Notify,
                  NotifyTreeChange, treeVars
    <2>2. \/ SetJob(n, "started", "running") \/ SetJob(n, "exited", "reported")
          \/ SetJob(n, "published", "flagged") \/ SetJob(n, "flagged", "gone")
      BY <1>7 DEF Begin, BeginRun, Report, ReportResult, Flag, FlagTreeChange, Notify,
                  NotifyTreeChange
    <2> QED
      BY <2>1, <2>2
  <1>8. ASSUME NEW n \in Node, End(n) PROVE ResultInv'
    <2>1. /\ job[n] = "running" /\ job' = [job EXCEPT ![n] = "exited"] /\ status' = status
          /\ \A m \in Node : m # n => result'[m] = result[m]
      BY <1>8 DEF End, EndRun, treeVars
    <2> QED
      BY <2>1
  <1>9. ASSUME NEW n \in Node, Release(n) PROVE ResultInv'
    <2>1. /\ job[n] = "reported" /\ job' = [job EXCEPT ![n] = "published"] /\ result' = result
          /\ status' = IF result[n] # 0 THEN status ELSE [status EXCEPT ![n] = Built]
      BY <1>9 DEF Release, DeleteNodeGuard, ReleaseNode
    <2> QED
      BY <2>1
  <1> QED
    BY <1>1, <1>2, <1>3, <1>4, <1>5, <1>6, <1>7, <1>8, <1>9 DEF Next, MainStep, JobStep, CreateJob

\* Built nodes and expanded targets stay so.
LEMMA ExpandedStep ==
    ASSUME TypeOK, NodesInv, FoundInv, HeldInv, ResultInv, ExpandedInv, Next
    PROVE  ExpandedInv'
  <1> USE DEF TypeOK, TreeTypeOK
  <1> DEFINE Real == Targets \cup Hooks \cup Files
  <1>1. CASE UNCHANGED << status, children >>
    BY <1>1 DEF ExpandedInv
  <1>2. ASSUME NEW n \in Node, status[n] = Building, children' = children,
               status' = [status EXCEPT ![n] = Built]
        PROVE  ExpandedInv'
    <2>1. \A m \in Node : status'[m] = Pristine <=> status[m] = Pristine
      BY <1>2
    <2>2. \A m \in Node : status[m] = Built => status'[m] = Built
      BY <1>2
    <2> QED
      BY <1>2, <2>1, <2>2, FirstChildIsNode, FileIsNode, Kinds DEF ExpandedInv
  <1>3. CASE ExpandFound
    <2>1. /\ found \in Targets /\ found \in Node /\ IsGood(found) /\ status[found] = Pristine
          /\ status' = [status EXCEPT ![found] = Expanded]
          /\ ExpandTargetNode(found)
      BY <1>3, Kinds DEF ExpandFound, ExpandTargetNode, FoundInv, HeldInv, Goto
    <2>2. \A m \in Node : m # found => children'[m] = children[m]
      BY <2>1, ExpandTypes
    <2>3. children[found] = FirstChildren[found]
      BY <2>1 DEF ExpandedInv
    <2>4. children'[found] = AllChildren[found]
      <3>1. CASE found \in Custom
        BY <2>1, <2>3, <3>1 DEF ExpandTargetNode, AllChildren
      <3>2. CASE found \notin Custom
        <4>1. AllChildren[found] = FirstChildren[found] \o FilesOf[found]
          BY <2>1, <3>2 DEF AllChildren
        <4>2. children' = [children EXCEPT ![found] = children[found] \o FilesOf[found]]
          BY <2>1, <3>2 DEF ExpandTargetNode
        <4>3. children'[found] = children[found] \o FilesOf[found]
          BY <2>1, <4>2, Zenon
        <4> QED
          BY <2>3, <4>1, <4>3
      <3> QED
        BY <3>1, <3>2
    <2>5. \A m \in Node : status'[m] = Pristine <=> status[m] = Pristine /\ m # found
      BY <2>1
    <2>6. \A m \in Node : status[m] = Built => status'[m] = Built
      BY <2>1
    <2>10. \A m \in Node : status'[m] # Pristine => m \in Real
      BY <2>1, <2>5 DEF ExpandedInv
    <2>7. \A m \in Node :
             children'[m] = IF status'[m] = Pristine THEN FirstChildren[m] ELSE AllChildren[m]
      BY <2>1, <2>2, <2>4, <2>5 DEF ExpandedInv
    <2>8. ASSUME NEW t \in Targets, status'[t] # Pristine, NEW i \in DOMAIN FirstChildren[t]
          PROVE  status'[FirstChildren[t][i]] = Built
      <3>1. t \in Node /\ FirstChildren[t][i] \in Node
        BY FirstChildIsNode, Kinds
      <3>2. CASE t = found
        <4>1. status[FirstChildren[t][i]] = Built
          <5>1. children[found] # << >>
            BY <2>3, <2>8, <3>2
          <5> QED
            BY <2>1, <2>3, <3>2, <5>1 DEF IsGood
        <4> QED
          BY <2>6, <3>1, <4>1
      <3>3. CASE t # found
        BY <2>5, <2>6, <2>8, <3>1, <3>3 DEF ExpandedInv
      <3> QED
        BY <3>2, <3>3
    <2>9. ASSUME NEW t \in Targets \ Custom, NEW i \in DOMAIN FilesOf[t],
                 status'[FilesOf[t][i]] # Pristine
          PROVE  status'[t] # Pristine
      <3>1. FilesOf[t][i] \in Node /\ FilesOf[t][i] # found /\ t \in Node
        BY <2>1, FileIsNode, Kinds, KindsAssumption
      <3> QED
        BY <2>5, <2>9, <3>1 DEF ExpandedInv
    <2> QED
      BY <2>7, <2>8, <2>9, <2>10 DEF ExpandedInv
  <1>4. CASE ClaimFound /\ children' = children
    <2>1. /\ found \in Node /\ IsGood(found) /\ pc = "claim"
          /\ status' = [status EXCEPT ![found] = Building]
      BY <1>4, Kinds DEF ClaimFound, FoundInv, Goto
    <2>2. \A m \in Node : status[m] = Built => status'[m] = Built
      BY <2>1 DEF IsGood
    <2>3. \A m \in Node : status'[m] = Pristine <=> status[m] = Pristine /\ m # found
      BY <2>1
    <2>4. found \in Targets => status[found] # Pristine
      BY <2>1 DEF HeldInv
    <2>5. found \notin Targets => FirstChildren[found] = AllChildren[found]
      BY <2>1, GoodIsReal, Shape
    <2>6. \A m \in Node :
             children'[m] = IF status'[m] = Pristine THEN FirstChildren[m] ELSE AllChildren[m]
      BY <1>4, <2>1, <2>3, <2>4, <2>5 DEF ExpandedInv
    <2>7. \A t \in Targets : status'[t] # Pristine =>
             \A i \in DOMAIN FirstChildren[t] : status'[FirstChildren[t][i]] = Built
      BY <2>2, <2>3, <2>4, FirstChildIsNode, Kinds DEF ExpandedInv
    <2>8. ASSUME NEW t \in Targets \ Custom, NEW i \in DOMAIN FilesOf[t],
                 status'[FilesOf[t][i]] # Pristine
          PROVE  status'[t] # Pristine
      <3>1. FilesOf[t][i] \in Files /\ t \in Parents[FilesOf[t][i]] /\ t \in Node
            /\ FilesOf[t][i] \in Node
        BY FileIsNode, Kinds
      <3>2. CASE FilesOf[t][i] = found
        <4>1. /\ foundTarget \in Targets \ Custom /\ found \in Elements(FilesOf[foundTarget])
              /\ status[foundTarget] # Pristine
          BY <2>1, <3>1, <3>2, Kinds DEF HeldInv, IsTargetOf
        <4>2. foundTarget \in Parents[found]
          BY <2>1, <4>1, Shape, Kinds DEF Parents
        <4>3. foundTarget = t
          BY <2>1, <3>1, <3>2, <4>2, Shape
        <4> QED
          BY <2>3, <3>1, <4>1, <4>3
      <3>3. CASE FilesOf[t][i] # found
        BY <2>3, <2>8, <3>1, <3>3 DEF ExpandedInv
      <3> QED
        BY <3>2, <3>3
    <2>9. \A m \in Node : status'[m] # Pristine => m \in Real
      BY <2>1, <2>3, GoodIsReal DEF ExpandedInv
    <2> QED
      BY <2>6, <2>7, <2>8, <2>9 DEF ExpandedInv
  <1> QED
    BY <1>1, <1>2, <1>3, <1>4, StatusStep
\* What the main thread holds keeps its target, and the target stays expanded.
LEMMA HeldStep ==
    ASSUME TypeOK, NodesInv, FoundInv, HeldInv, ResultInv, ExpandedInv, Next
    PROVE  HeldInv'
  <1> USE DEF TypeOK, TreeTypeOK, FactoryTypeOK, Goto, managerVars
  <1>1. CASE Run \/ ResetFlags \/ WaitForTree \/ AfterWait \/ MarkParents \/ Spurious
             \/ CreateJobFor
    <2>1. pc' \notin {"expand", "findAgain", "check", "claim", "lockLua", "create"}
      BY <1>1 DEF Run, TestLoop, WaitBelowLimit, RecheckError, CountJob, SpawnJob, Drain, Return,
                  ResetFlags, WaitForTree, AfterWait, MarkParents, CreateJobFor,
                  NodeIsUpToDate, NodeGetsJob, CompileThrows,
                  Spurious, SpuriousTreeWakeup, SpuriousJobsWakeup
    <2> QED
      BY <2>1 DEF HeldInv
  <1>2. CASE FindAGoodNode
    <2>1. /\ UNCHANGED << status, children >> /\ Root \in Node \ Files /\ SearchFrom(Root)
          /\ pc' = IF found' \in Targets /\ status[found'] = Pristine THEN "expand" ELSE "check"
      BY <1>2, Kinds, KindsAssumption DEF FindAGoodNode
    <2>2. found' # NoNode => IsGood(found')
      BY <2>1, SearchResult
    <2>3. found' # NoNode => /\ IsTargetOf(found', foundTarget')
                             /\ found' \in Files => status[foundTarget'] # Pristine
      BY <2>1, SearchReportsTarget
    <2>4. found' \in Targets => found' # NoNode
      BY Kinds
    <2> QED
      BY <2>1, <2>2, <2>3, <2>4 DEF HeldInv, IsGood, IsTargetOf
  <1>3. CASE ExpandFound
    <2>1. pc' = "findAgain" /\ found' = found /\ found \in Targets
          /\ status' = [status EXCEPT ![found] = Expanded]
      BY <1>3 DEF ExpandFound, ExpandTargetNode, FoundInv
    <2> QED
      BY <2>1, Kinds DEF HeldInv
  <1>4. CASE FindInExpanded
    <2>1. /\ UNCHANGED << status, children >> /\ SearchFrom(found) /\ pc' = "check"
          /\ found \in Targets /\ status[found] # Pristine /\ found \in Node \ Files
      BY <1>4, Kinds, KindsAssumption DEF FindInExpanded, FoundInv, HeldInv
    <2>2. found' # NoNode => /\ IsTargetOf(found', foundTarget')
                             /\ found' \in Files => status[foundTarget'] # Pristine
      BY <2>1, SearchReportsTarget
    <2>3. found' \in Targets => found' = found
      BY <2>1, ExpandedSearch, Kinds, KindsAssumption
    <2> QED
      BY <2>1, <2>2, <2>3 DEF HeldInv, IsTargetOf
  <1>5. CASE CheckFound \/ LockLua
    <2>1. UNCHANGED << status, children, found, foundTarget >>
          /\ \/ pc = "check" /\ pc' \in {"claim", "prewait", "drain"}
             \/ pc = "lockLua" /\ pc' = "create"
      BY <1>5 DEF CheckFound, LockLua, treeVars
    <2> QED
      BY <2>1 DEF HeldInv, IsTargetOf
  <1>6. CASE ClaimFound
    <2>1. pc = "claim" /\ pc' = "lockLua" /\ UNCHANGED << found, foundTarget >> /\ found \in Node
          /\ status' = [status EXCEPT ![found] = Building] /\ found # NoNode
      BY <1>6, Kinds DEF ClaimFound, FoundInv
    <2>2. IsTargetOf(found, foundTarget) /\ (found \in Files => status[foundTarget] # Pristine)
      BY <2>1 DEF HeldInv
    <2>3. found \in Files => foundTarget \in Node
      BY <2>2, Kinds DEF IsTargetOf
    <2>4. found \in Files => status'[foundTarget] # Pristine
      BY <2>1, <2>2, <2>3
    <2> QED
      BY <2>1, <2>2, <2>4 DEF HeldInv, IsTargetOf
  <1>7. ASSUME NEW n \in Node, JobStep(n) PROVE HeldInv'
    <2>1. UNCHANGED << found, foundTarget, children >>
      BY <1>7 DEF JobStep, Begin, End, Report, Release, DeleteNodeGuard, ReleaseNode, Flag, Notify,
                  factoryVars, factoryRest, SetTreeChanged, WakeTreeWaiter, treeVars
    <2>2. pc' = pc \/ pc' \in {"recheck", "returned", "woken"}
      BY <1>7 DEF JobStep, Begin, End, Report, OnJobFinished, WakeManager, Release, Flag, Notify,
                  factoryVars, SetTreeChanged, WakeTreeWaiter
    <2>3. status' = status \/ (status[n] = Building /\ status' = [status EXCEPT ![n] = Built])
      <3>1. CASE Release(n)
        <4>1. status[n] = Building
          BY <3>1 DEF Release, DeleteNodeGuard, SetJob, ResultInv
        <4> QED
          BY <3>1, <4>1 DEF Release, DeleteNodeGuard, ReleaseNode
      <3>2. CASE ~Release(n)
        BY <1>7, <3>2 DEF JobStep, Begin, End, Report, Flag, Notify, treeVars
      <3> QED
        BY <3>1, <3>2
    <2>4. \A m \in Node : status'[m] = Pristine <=> status[m] = Pristine
      BY <2>3
    <2>5. ASSUME NEW m \in Node, IsGood(m) PROVE IsGood(m)'
      <3>1. m # n \/ status' = status
        BY <2>3, <2>5 DEF IsGood
      <3>2. CASE status' = status
        BY <2>1, <2>5, <3>2 DEF IsGood
      <3>3. CASE m # n
        BY <2>1, <2>3, <2>5, <3>3, PublishKeepsGood
      <3> QED
        BY <3>1, <3>2, <3>3
    <2>6. pc \in {"expand", "findAgain"} => found \in Node
      BY Kinds DEF FoundInv
    <2>7. pc' \in {"recheck", "returned", "woken"} => HeldInv'
      BY DEF HeldInv
    <2>8. CASE pc' = pc
      <3>1. pc = "expand" => IsGood(found)' /\ status'[found] = Pristine
        <4>1. IsGood(found)' <=> /\ status'[found] < Building
                                 /\ \/ children'[found] = << >>
                                    \/ /\ ~IsFake(found)
                                       /\ \A i \in DOMAIN children'[found] :
                                             status'[children'[found][i]] = Built
          BY <2>1 DEF IsGood, IsFake
        <4>2. pc = "expand" => IsGood(found) /\ status[found] = Pristine
          BY DEF HeldInv
        <4>3. pc = "expand" => (\A m \in {found} : IsGood(m)')
          BY <2>5, <2>6, <4>2
        <4> QED
          BY <2>4, <2>6, <4>1, <4>2, <4>3 DEF IsGood
      <3>2. pc = "findAgain" => status'[found] # Pristine
        BY <2>4, <2>6 DEF HeldInv
      <3>3. pc \in {"check", "claim"} /\ found \in Targets => status'[found] # Pristine
        BY <2>4, Kinds DEF HeldInv
      <3>4. pc \in {"check", "claim", "lockLua", "create"} /\ found # NoNode =>
               /\ IsTargetOf(found, foundTarget)
               /\ found \in Files => status'[foundTarget] # Pristine
        BY <2>4, Kinds DEF HeldInv, IsTargetOf
      <3> QED
        BY <2>1, <2>8, <3>1, <3>2, <3>3, <3>4 DEF HeldInv, IsTargetOf
    <2> QED
      BY <2>2, <2>7, <2>8
  <1> QED
    BY <1>1, <1>2, <1>3, <1>4, <1>5, <1>6, <1>7 DEF Next, MainStep, CreateJob

\* Compilations and targets get their own target when their job is made.
LEMMA TargetStep ==
    ASSUME TypeOK, FoundInv, HeldInv, JobsRunForTheirTarget, Next
    PROVE  JobsRunForTheirTarget'
  <1>1. CASE NodeGetsJob /\ CreateJobFor
    <2>1. pc = "create" /\ found \in Node /\ found # NoNode
          /\ jobTarget' = [jobTarget EXCEPT ![found] = TargetOfJob]
      BY <1>1, Kinds DEF CreateJobFor, NodeGetsJob, FoundInv
    <2>2. IsTargetOf(found, foundTarget)
      BY <2>1 DEF HeldInv
    <2>3. found \in Targets \cup Files =>
             found = TargetOfJob \/ found \in Elements(FilesOf[TargetOfJob])
      BY <2>2, KindsAssumption DEF IsTargetOf, TargetOfJob
    <2> QED
      BY <2>1, <2>3, Kinds DEF JobsRunForTheirTarget, TypeOK, FactoryTypeOK
  <1>2. CASE jobTarget' = jobTarget
    BY <1>2 DEF JobsRunForTheirTarget
  <1>3. jobTarget' = jobTarget \/ (NodeGetsJob /\ CreateJobFor)
    <2>1. CASE CreateJobFor
      BY <2>1 DEF CreateJobFor, NodeIsUpToDate, CompileThrows
    <2>2. CASE (MainStep \/ Spurious) /\ ~CreateJobFor
      BY <2>2 DEF MainStep, Run, TestLoop, WaitBelowLimit, RecheckError, CountJob, SpawnJob, Drain,
                  CreateJob, ResetFlags, FindAGoodNode, ExpandFound, FindInExpanded, CheckFound,
                  WaitForTree, AfterWait, ClaimFound, LockLua, MarkParents,
                  Spurious, SpuriousTreeWakeup, SpuriousJobsWakeup, factoryRest
    <2>3. ASSUME NEW n \in Node, JobStep(n) PROVE jobTarget' = jobTarget
      BY <2>3 DEF JobStep, Begin, End, Report, Release, Flag, Notify, factoryVars, factoryRest,
                  SetTreeChanged, WakeTreeWaiter
    <2> QED
      BY <2>1, <2>2, <2>3 DEF Next
  <1> QED
    BY <1>1, <1>2, <1>3
\* The nodes MarkedInv is about, other than the root, are not fake: a job for one of them
\* marks all its parents.
LEMMA ParentsAreMarked ==
    ASSUME NEW n \in Node \ Hooks, NEW t \in Parents[n]
    PROVE  ~IsFake(n) /\ t \in Ancestors[n] /\ t \in Node /\ n \in Elements(AllChildren[t])
  <1>1. n # Root
    BY Shape
  <1>2. n \in Targets \cup Files
    BY <1>1 DEF Node
  <1>3. Ancestors[n] = Parents[n] \cup UNION {Ancestors[p] : p \in Parents[n]}
    BY AncestorsUnfold
  <1> QED
    BY <1>2, <1>3 DEF IsFake, Parents

\* What a claimed node is made of is Built.
LEMMA BelowClaimed ==
    ASSUME TypeOK, BuildOrder, ExpandedInv, NEW p \in Node, status[p] >= Building,
           NEW m \in Elements(AllChildren[p])
    PROVE  status[m] = Built
  <1>1. children[p] = AllChildren[p]
    BY DEF ExpandedInv
  <1>2. PICK i \in DOMAIN children[p] : m = children[p][i]
    BY <1>1 DEF Elements
  <1> QED
    BY <1>2 DEF BuildOrder

\* Above a job everything is marked before the job is counted, and a target that is not marked
\* may be skipped as up to date.
LEMMA MarkedStep ==
    ASSUME TypeOK, NodesInv, FoundInv, ResultInv, ExpandedInv, MarkedInv, Next
    PROVE  MarkedInv'
  <1> USE DEF TypeOK, TreeTypeOK, JobTypeOK, SetJob, Goto
  <1> DEFINE Late(n) == job[n] \notin {"none", "created"} \/ (job[n] = "created" /\ pc = "count")
  \* A step that changes no mark of a target, publishes only nodes with a job, and starts
  \* no job keeps it.
  <1>1. ASSUME \A t \in Targets : shouldBuild[t] => shouldBuild'[t],
               \A n \in Node : Late(n)' => Late(n),
               \A n \in Node : job'[n] = "none" <=> job[n] = "none",
               \A n \in Node : status'[n] = Built /\ job[n] = "none" => status[n] = Built
        PROVE  MarkedInv'
    <2> SUFFICES ASSUME NEW n \in Node \ Hooks, NEW t \in Parents[n] \cap Targets
                 PROVE  /\ Late(n)' => shouldBuild'[t]
                        /\ status'[t] = Built /\ job'[t] = "none" => job'[n] = "none"
      BY DEF MarkedInv
    <2>1. t \in Node
      BY Kinds
    <2>2. /\ Late(n) => shouldBuild[t]
          /\ status[t] = Built /\ job[t] = "none" => job[n] = "none"
      BY DEF MarkedInv
    <2> QED
      BY <1>1, <2>1, <2>2
  <1>2. CASE CountJob
    <2>1. /\ pc = "count" /\ job[found] = "created" /\ job' = [job EXCEPT ![found] = "counted"]
          /\ pc' = "spawn" /\ UNCHANGED << status, shouldBuild >> /\ found \in Node
      BY <1>2 DEF CountJob, FoundInv, treeVars
    <2>2. \A n \in Node : Late(n)' => Late(n)
      BY <2>1
    <2>3. \A n \in Node : job'[n] = "none" <=> job[n] = "none"
      BY <2>1
    <2> HIDE DEF Late
    <2> QED
      BY <1>1, <2>1, <2>2, <2>3
  <1>3. CASE SpawnJob
    <2>1. /\ job[found] = "counted" /\ job' = [job EXCEPT ![found] = "started"] /\ found \in Node
          /\ pc' = "loop" /\ UNCHANGED << status, shouldBuild >>
      BY <1>3 DEF SpawnJob, StartThread, FoundInv, treeVars
    <2>2. \A n \in Node : Late(n)' => Late(n)
      BY <2>1
    <2>3. \A n \in Node : job'[n] = "none" <=> job[n] = "none"
      BY <2>1
    <2> HIDE DEF Late
    <2> QED
      BY <1>1, <2>1, <2>2, <2>3
  <1>4. CASE MarkParents
    <2>1. /\ pc = "mark" /\ pc' = "count" /\ found \in Node /\ job' = job /\ status' = status
          /\ MarkAncestors(found) /\ job[found] = "created"
      BY <1>4 DEF MarkParents, FoundInv, jobVars, MarkAncestors
    <2> SUFFICES ASSUME NEW n \in Node \ Hooks, NEW t \in Parents[n] \cap Targets
                 PROVE  /\ Late(n)' => shouldBuild'[t]
                        /\ status'[t] = Built /\ job'[t] = "none" => job'[n] = "none"
      BY DEF MarkedInv
    <2>2. /\ Late(n) => shouldBuild[t]
          /\ status[t] = Built /\ job[t] = "none" => job[n] = "none"
      BY DEF MarkedInv
    <2>3. shouldBuild[t] => shouldBuild'[t]
      BY <2>1, Kinds DEF MarkAncestors
    <2>4. CASE n = found
      <3>1. ~IsFake(found) /\ t \in Ancestors[found] /\ t \in Node
        BY <2>4, ParentsAreMarked
      <3>2. shouldBuild'[t]
        BY <2>1, <3>1 DEF MarkAncestors
      <3> QED
        BY <2>1, <2>2, <3>2
    <2>5. CASE n # found
      <3>1. job[n] # "created"
        BY <2>1, <2>5 DEF FoundInv
      <3> QED
        BY <2>1, <2>2, <2>3, <3>1
    <2> QED
      BY <2>4, <2>5
  <1>5. CASE ExpandFound
    <2>1. /\ job' = job /\ pc = "expand" /\ pc' = "findAgain" /\ found \in Targets /\ found \in Node
          /\ ExpandTargetNode(found)
      BY <1>5, Kinds DEF ExpandFound, FoundInv
    <2>2. \A t \in Targets : shouldBuild'[t] = shouldBuild[t]
      <3>1. CASE found \in Custom
        BY <2>1, <3>1 DEF ExpandTargetNode
      <3>2. CASE found \notin Custom
        <4>1. shouldBuild' = [n \in Node |-> IF n \in Elements(FilesOf[found])
                                             THEN shouldBuild[found] ELSE shouldBuild[n]]
          BY <2>1, <3>2 DEF ExpandTargetNode
        <4>2. \A t \in Targets : t \in Node /\ t \notin Elements(FilesOf[found])
          BY <2>1, <3>2, Shape, Kinds, KindsAssumption
        <4> QED
          BY <4>1, <4>2
      <3> QED
        BY <3>1, <3>2
    <2>3. \A n \in Node : status'[n] = Built => status[n] = Built
      BY <2>1 DEF ExpandTargetNode
    <2>4. \A n \in Node : Late(n)' => Late(n)
      BY <2>1
    <2> HIDE DEF Late
    <2> QED
      BY <1>1, <2>1, <2>2, <2>3, <2>4
  <1>6. CASE ClaimFound
    <2>1. /\ job' = job /\ pc = "claim" /\ pc' = "lockLua" /\ shouldBuild' = shouldBuild
          /\ status' = [status EXCEPT ![found] = Building]
      BY <1>6 DEF ClaimFound, jobVars
    <2>2. \A n \in Node : status'[n] = Built => status[n] = Built
      BY <2>1
    <2>3. \A n \in Node : Late(n)' => Late(n)
      BY <2>1
    <2> HIDE DEF Late
    <2> QED
      BY <1>1, <2>1, <2>2, <2>3
  <1>7. CASE CreateJobFor /\ NodeGetsJob
    <2>1. /\ found \in Node /\ status[found] = Building /\ job' = [job EXCEPT ![found] = "created"]
          /\ UNCHANGED << status, shouldBuild >> /\ pc = "create" /\ pc' = "mark"
      BY <1>7 DEF CreateJobFor, NodeGetsJob, FoundInv
    <2> SUFFICES ASSUME NEW n \in Node \ Hooks, NEW t \in Parents[n] \cap Targets
                 PROVE  /\ Late(n)' => shouldBuild'[t]
                        /\ status'[t] = Built /\ job'[t] = "none" => job'[n] = "none"
      BY DEF MarkedInv
    <2>2. /\ Late(n) => shouldBuild[t]
          /\ status[t] = Built /\ job[t] = "none" => job[n] = "none"
      BY DEF MarkedInv
    <2>3. t \in Node
      BY Kinds
    <2>4. Late(n)' => Late(n)
      BY <2>1
    <2>5. CASE n = found /\ status[t] = Built
      <3>1. found \in Elements(AllChildren[t])
        BY <2>5, ParentsAreMarked
      <3>2. status[t] >= Building /\ BuildOrder
        BY <2>5 DEF NodesInv
      <3>3. status[found] = Built
        <4> HIDE DEF TypeOK
        <4> QED
          BY <2>3, <3>1, <3>2, BelowClaimed
      <3> QED
        BY <2>1, <3>3
    <2>6. CASE n # found \/ status[t] # Built
      BY <2>1, <2>2, <2>3, <2>4, <2>6
    <2> QED
      BY <2>5, <2>6
  <1>8. CASE CreateJobFor /\ NodeIsUpToDate
    <2>1. /\ found \in Node /\ job' = job /\ shouldBuild' = shouldBuild /\ pc = "create"
          /\ pc' = "reset" /\ ~shouldBuild[found] /\ status' = [status EXCEPT ![found] = Built]
      BY <1>8 DEF CreateJobFor, NodeIsUpToDate, MayBeUpToDate, FoundInv
    <2> SUFFICES ASSUME NEW n \in Node \ Hooks, NEW t \in Parents[n] \cap Targets
                 PROVE  /\ Late(n)' => shouldBuild'[t]
                        /\ status'[t] = Built /\ job'[t] = "none" => job'[n] = "none"
      BY DEF MarkedInv
    <2>2. /\ Late(n) => shouldBuild[t]
          /\ status[t] = Built /\ job[t] = "none" => job[n] = "none"
      BY DEF MarkedInv
    <2>3. job[n] # "created"
      BY <2>1 DEF FoundInv
    <2>4. CASE t = found
      BY <2>1, <2>2, <2>3, <2>4
    <2>5. CASE t # found
      BY <2>1, <2>2, <2>3, <2>5, Kinds
    <2> QED
      BY <2>4, <2>5
  <1>9. CASE CreateJobFor /\ CompileThrows
    <2>1. UNCHANGED << job, shouldBuild, status >> /\ pc = "create" /\ pc' = "unwound"
      BY <1>9 DEF CreateJobFor, CompileThrows
    <2> QED
      BY <1>1, <2>1
  <1>10. CASE \/ TestLoop \/ WaitBelowLimit \/ RecheckError \/ Drain \/ Spurious
              \/ ResetFlags \/ FindAGoodNode \/ FindInExpanded \/ CheckFound \/ WaitForTree
              \/ AfterWait \/ LockLua
    <2>1. UNCHANGED << job, shouldBuild, status >> /\ pc' # "count"
      BY <1>10 DEF TestLoop, WaitBelowLimit, RecheckError, Drain, Return, Spurious, SpuriousTreeWakeup,
                   SpuriousJobsWakeup, ResetFlags, FindAGoodNode, FindInExpanded, CheckFound,
                   WaitForTree, AfterWait, LockLua, treeVars, jobVars
    <2> QED
      BY <1>1, <2>1
  <1>11. ASSUME NEW n \in Node, JobStep(n) PROVE MarkedInv'
    <2>1. /\ job[n] \notin {"none", "created"} /\ job'[n] \notin {"none", "created"}
          /\ \A m \in Node : m # n => job'[m] = job[m]
      BY <1>11 DEF JobStep, Begin, BeginRun, End, EndRun, Report, ReportResult, Release, DeleteNodeGuard,
                   Flag, FlagTreeChange, Notify, NotifyTreeChange, JobState
    <2>2. pc' = "count" => pc = "count"
      BY <1>11 DEF JobStep, Begin, End, Report, OnJobFinished, WakeManager, Release, Flag, Notify,
                  factoryVars, SetTreeChanged, WakeTreeWaiter
    <2>3. shouldBuild' = shouldBuild /\ \A m \in Node : m # n => status'[m] = status[m]
      BY <1>11 DEF JobStep, Begin, End, Report, Release, DeleteNodeGuard, ReleaseNode, Flag, Notify,
                   treeVars
    <2>4. \A m \in Node : Late(m)' => Late(m)
      BY <2>1, <2>2
    <2>5. \A m \in Node : job'[m] = "none" <=> job[m] = "none"
      BY <2>1
    <2>6. \A m \in Node : status'[m] = Built /\ job[m] = "none" => status[m] = Built
      BY <2>1, <2>3
    <2> HIDE DEF Late
    <2> QED
      BY <1>1, <2>3, <2>4, <2>5, <2>6
  <1> QED
    BY <1>2, <1>3, <1>4, <1>5, <1>6, <1>7, <1>8, <1>9, <1>10, <1>11
    DEF Next, MainStep, Run, CreateJob, CreateJobFor

-----------------------------------------------------------------------------
\* The invariant holds at first ...
LEMMA TreeInvInit == Init => TreeInv
  <1> SUFFICES ASSUME Init PROVE TreeInv
    OBVIOUS
  <1>1. SafeInv
    BY SafeInit
  <1> USE DEF Init, TreeInit, JobInit, FactoryInit
  <1>2. ResultInv
    BY DEF ResultInv
  <1>3. ExpandedInv
    BY Kinds, FileIsNode DEF ExpandedInv
  <1>4. HeldInv
    BY DEF HeldInv
  <1>5. MarkedInv
    BY DEF MarkedInv
  <1>6. JobsRunForTheirTarget
    BY Kinds DEF JobsRunForTheirTarget
  <1> QED
    BY <1>1, <1>2, <1>3, <1>4, <1>5, <1>6 DEF TreeInv

\* ... and every step keeps it, with and without spurious wakeups.
LEMMA TreeInvStep == TreeInv /\ [Next]_vars => TreeInv'
  <1> SUFFICES ASSUME TreeInv, [Next]_vars PROVE TreeInv'
    OBVIOUS
  <1>1. SafeInv'
    BY SafeStep DEF TreeInv
  <1>2. CASE Next
    BY <1>1, <1>2, ResultStep, ExpandedStep, HeldStep, MarkedStep, TargetStep DEF TreeInv, SafeInv
  <1>3. CASE UNCHANGED vars
    BY <1>1, <1>3 DEF TreeInv, ResultInv, ExpandedInv, HeldInv, MarkedInv, JobsRunForTheirTarget,
                      IsGood, IsTargetOf, vars, treeVars, jobVars, factoryVars, managerVars
  <1> QED
    BY <1>2, <1>3

\* How far the tree is expanded, what the main thread holds, what is marked and what the jobs
\* have left of the tree is invariant (NodeTree, JobFactory::createJob, ~NodeGuard).
THEOREM TreeInvariant == Spec => []TreeInv
  BY TreeInvInit, TreeInvStep, PTL DEF Spec

\* A target is expanded after those it depends on, and no source file is claimed before the
\* dependencies and the hook of its target have succeeded.
THEOREM SourcesWait == Spec => []SourcesWaitForDependencies
  <1>1. TreeInv => SourcesWaitForDependencies
    <2> SUFFICES ASSUME TreeInv PROVE SourcesWaitForDependencies
      OBVIOUS
    <2> USE DEF TreeInv, SafeInv, TypeOK, TreeTypeOK, JobTypeOK
    <2>1. ASSUME NEW n \in Node, status[n] = Built PROVE result[n] = 0
      <3>1. job[n] \in {"none", "created", "counted", "started", "running"} \/
            job[n] \in {"published", "flagged", "gone"}
        BY <2>1 DEF ResultInv, JobState
      <3> QED
        BY <2>1, <3>1 DEF ResultInv
    <2>2. ASSUME pc = "expand", NEW i \in DOMAIN Deps[found] PROVE status[Deps[found][i]] > Pristine
      <3>1. found \in Targets /\ found \in Node /\ IsGood(found) /\ status[found] = Pristine
        BY <2>2, Kinds DEF FoundInv, HeldInv
      <3>2. children[found] = Deps[found] \o HookOf[found]
        BY <3>1 DEF ExpandedInv, FirstChildren
      <3>3. Deps[found] \in Seq(Targets) /\ HookOf[found] \in Seq(Hooks)
        BY <3>1, ChildrenAssumption
      <3>4. ASSUME NEW a \in Seq(Targets), NEW b \in Seq(Hooks), NEW j \in DOMAIN a
            PROVE  j \in DOMAIN (a \o b) /\ (a \o b)[j] = a[j]
        OBVIOUS
      <3>5. i \in DOMAIN children[found] /\ children[found][i] = Deps[found][i]
        BY <3>2, <3>3, <3>4
      <3>6. status[children[found][i]] = Built
        BY <3>1, <3>5 DEF IsGood
      <3> QED
        BY <3>5, <3>6
    <2>3. ASSUME NEW t \in Targets \ Custom, NEW i \in DOMAIN FilesOf[t],
                 status[FilesOf[t][i]] >= Building, NEW j \in DOMAIN FirstChildren[t]
          PROVE  status[FirstChildren[t][j]] = Built /\ result[FirstChildren[t][j]] = 0
      <3>1. status[t] # Pristine
        BY <2>3 DEF ExpandedInv
      <3>2. FirstChildren[t][j] \in Node /\ status[FirstChildren[t][j]] = Built
        BY <3>1, FirstChildIsNode, Kinds DEF ExpandedInv
      <3> QED
        BY <2>1, <3>2
    <2> QED
      BY <2>2, <2>3 DEF SourcesWaitForDependencies
  <1> QED
    BY <1>1, TreeInvariant, PTL

\* Nothing that needs a failed node, directly or not, is ever claimed.
THEOREM FailureContained == Spec => []FailureIsContained
  <1>1. TreeInv => FailureIsContained
    <2> SUFFICES ASSUME TreeInv, NEW n \in Node, result[n] # 0, NEW a \in Ancestors[n],
                        ~(status[a] < Building)
                 PROVE  FALSE
      BY DEF FailureIsContained
    <2> DEFINE S == {m \in Node : status[m] # Built /\
                                  \E b \in Ancestors[m] : ~(status[b] < Building)}
    <2>0. /\ TypeOK /\ BuildOrder /\ ExpandedInv /\ ResultInv
          /\ status \in [Node -> Status] /\ job \in [Node -> JobState]
      BY DEF TreeInv, SafeInv, NodesInv, TypeOK, TreeTypeOK, JobTypeOK
    <2>1. status[n] # Built
      <3>1. job[n] \notin {"none", "created", "counted", "started", "running"}
        BY <2>0 DEF ResultInv
      <3>2. CASE job[n] \in {"published", "flagged", "gone"}
        BY <2>0, <3>2 DEF ResultInv
      <3>3. CASE job[n] \notin {"published", "flagged", "gone"}
        BY <2>0, <3>1, <3>3 DEF ResultInv
      <3> QED
        BY <3>2, <3>3
    <2>2. PICK m \in S : Parents[m] \cap S = {}
      <3>1. S \in SUBSET Node /\ S # {}
        BY <2>1
      <3> HIDE DEF S
      <3> QED
        BY <3>1, AcyclicAssumption
    <2>3. PICK b \in Ancestors[m] : ~(status[b] < Building)
      BY <2>2
    <2>4. Ancestors[m] = Parents[m] \cup UNION {Ancestors[p] : p \in Parents[m]}
      BY AncestorsUnfold
    <2>5. ASSUME NEW p \in Parents[m], ~(status[p] < Building) PROVE FALSE
      <3>1. p \in Node /\ m \in Elements(AllChildren[p])
        BY <2>2, <2>5 DEF Parents
      <3>2. status[p] >= Building
        BY <2>0, <2>5, <3>1
      <3>3. status[m] = Built
        BY <2>0, <3>1, <3>2, BelowClaimed
      <3> QED
        BY <2>2, <3>3
    <2>6. PICK p \in Parents[m] : b \in Ancestors[p]
      BY <2>3, <2>4, <2>5
    <2>7. p \in Node /\ status[p] = Built
      BY <2>2, <2>3, <2>6 DEF Parents
    <2> QED
      BY <2>5, <2>6, <2>7
  <1> QED
    BY <1>1, TreeInvariant, PTL

\* When a job was made for a part of a target, the target is not skipped as up to date.
THEOREM RebuildCorrect == Spec => []RebuildReachesTargets
  <1>1. TreeInv => RebuildReachesTargets
    BY DEF TreeInv, MarkedInv, RebuildReachesTargets
  <1> QED
    BY <1>1, TreeInvariant, PTL

\* Compilations and targets run with the options and the directory of their own target.
THEOREM JobTargetsCorrect == Spec => []JobsRunForTheirTarget
  BY TreeInvariant, PTL DEF TreeInv
-----------------------------------------------------------------------------
(* The build implements the plan of BuildPlan.tla. *)

\* What the plan sees of a node
StateTable ==
    \A n \in Node :
        /\ PlanState(n) = "running"   <=> InDoRun(n)
        /\ PlanState(n) = "failed"    <=> Reported(n) /\ result[n] # 0
        /\ PlanState(n) = "succeeded" <=> job[n] = "reported" /\ result[n] = 0
        /\ PlanState(n) = "done"      <=> status[n] = Built
        /\ PlanState(n) = "todo"      <=> job[n] \in {"none", "created", "counted"} /\ status[n] # Built

\* A Built node has ended well or was skipped.
LEMMA PlanStateIs == TypeOK /\ ResultInv => StateTable
  <1> SUFFICES ASSUME TypeOK, ResultInv, NEW n \in Node
               PROVE  /\ PlanState(n) = "running"   <=> InDoRun(n)
                      /\ PlanState(n) = "failed"    <=> Reported(n) /\ result[n] # 0
                      /\ PlanState(n) = "succeeded" <=> job[n] = "reported" /\ result[n] = 0
                      /\ PlanState(n) = "done"      <=> status[n] = Built
                      /\ PlanState(n) = "todo"      <=> /\ job[n] \in {"none", "created", "counted"}
                                                        /\ status[n] # Built
    BY DEF StateTable
  <1>1. job[n] \in JobState /\ status[n] \in Status /\ result[n] \in {0, 1}
    BY DEF TypeOK, JobTypeOK, TreeTypeOK
  <1>2. /\ job[n] \notin {"none", "published", "flagged", "gone"} => status[n] = Building
        /\ job[n] \in {"published", "flagged", "gone"} =>
               status[n] = IF result[n] = 0 THEN Built ELSE Building
        /\ job[n] \in {"none", "created", "counted", "started", "running"} => result[n] = 0
    BY DEF ResultInv
  <1> QED
    BY <1>1, <1>2 DEF PlanState, InDoRun, Reported, JobState

\* ... also after a step.
LEMMA PlanStateIsNext == (TypeOK /\ ResultInv => StateTable)'
  BY PlanStateIs, PTL

\* A step that changes no job, no result and publishes nothing is no step of the plan's tasks.
LEMMA SameStates ==
    ASSUME job' = job, result' = result,
           \A n \in Node : status'[n] = Built <=> status[n] = Built
    PROVE  PlanStates' = PlanStates
  <1>1. \A n \in PlanTask : n \in Node /\ (PlanState(n))' = PlanState(n)
    BY DEF PlanTask, PlanState, InDoRun
  <1> QED
    BY <1>1 DEF PlanStates

\* A step of one node moves one task.
LEMMA OneMoves ==
    ASSUME NEW n \in PlanTask,
           \A m \in Node : m # n => /\ job'[m] = job[m] /\ result'[m] = result[m]
                                    /\ status'[m] = Built <=> status[m] = Built
    PROVE  PlanStates' = [PlanStates EXCEPT ![n] = (PlanState(n))']
  <1>1. ASSUME NEW m \in PlanTask, m # n PROVE (PlanState(m))' = PlanState(m)
    <2>1. /\ m \in Node /\ job'[m] = job[m] /\ result'[m] = result[m]
          /\ status'[m] = Built <=> status[m] = Built
      BY <1>1 DEF PlanTask
    <2> QED
      BY <2>1 DEF PlanState, InDoRun
  <1> DEFINE s == (PlanState(n))'
  <1>2. PlanStates' = [m \in PlanTask |-> (PlanState(m))']
    BY DEF PlanStates
  <1>3. \A m \in PlanTask : (PlanState(m))' = IF m = n THEN s ELSE PlanStates[m]
    BY <1>1 DEF PlanStates
  <1>4. PlanStates = [m \in PlanTask |-> PlanStates[m]]
    BY DEF PlanStates
  <1> HIDE DEF s
  <1>5. [PlanStates EXCEPT ![n] = s] = [m \in PlanTask |-> IF m = n THEN s ELSE PlanStates[m]]
    BY <1>4
  <1>6. PlanStates' = [m \in PlanTask |-> IF m = n THEN s ELSE PlanStates[m]]
    BY <1>2, <1>3
  <1> QED
    BY <1>5, <1>6 DEF s

\* What has a job, or is claimed, is a task: the fake root never is.
LEMMA ClaimedIsTask ==
    ASSUME TreeInv, NEW n \in Node, job[n] # "none" \/ status[n] >= Building
    PROVE  n \in PlanTask
  <1>1. status[n] # Pristine
    BY DEF TreeInv, SafeInv, NodesInv, TypeOK, TreeTypeOK
  <1>2. n \in Targets \cup Hooks \cup Files
    BY <1>1 DEF TreeInv, ExpandedInv
  <1> QED
    BY <1>2, KindsAssumption DEF PlanTask

\* A claimed node has all it needs, also what its target waits for if it is a file.
LEMMA NeedsAreDone ==
    ASSUME TreeInv, NEW n \in PlanTask, status[n] >= Building
    PROVE  \A m \in PlanNeeds[n] : m \in PlanTask /\ PlanStates[m] = "done"
  <1> SUFFICES ASSUME NEW m \in PlanNeeds[n] PROVE m \in PlanTask /\ PlanStates[m] = "done"
    OBVIOUS
  <1>0. /\ n \in Node /\ TypeOK /\ BuildOrder /\ ExpandedInv /\ ResultInv /\ StateTable
        /\ status \in [Node -> Status]
    BY PlanStateIs DEF PlanTask, TreeInv, SafeInv, NodesInv, TypeOK, TreeTypeOK
  <1>1. m \in Node /\ status[m] = Built
    <2>1. \/ m \in Elements(AllChildren[n])
          \/ \E t \in Parents[n] : n \in Files /\ m \in Elements(FirstChildren[t])
      BY DEF PlanNeeds
    <2>2. CASE m \in Elements(AllChildren[n])
      <3>1. status[m] = Built
        BY <1>0, <2>2, BelowClaimed
      <3>2. children[n] = AllChildren[n]
        BY <1>0 DEF ExpandedInv
      <3>3. \E i \in DOMAIN children[n] : m = children[n][i]
        BY <2>2, <3>2 DEF Elements
      <3> QED
        BY <1>0, <3>1, <3>3, ChildIsNode
    <2>3. ASSUME NEW t \in Parents[n], n \in Files, m \in Elements(FirstChildren[t])
          PROVE  m \in Node /\ status[m] = Built
      <3>1. t \in Node /\ n \in Elements(AllChildren[t])
        BY <1>0, <2>3 DEF Parents
      <3>2. t \in Targets \ Custom /\ n \in Elements(FilesOf[t])
        BY <2>3, <3>1, Shape
      <3>3. status[t] # Pristine
        BY <1>0, <3>2 DEF ExpandedInv, Elements
      <3>4. PICK i \in DOMAIN FirstChildren[t] : m = FirstChildren[t][i]
        BY <2>3 DEF Elements
      <3> QED
        BY <1>0, <3>1, <3>2, <3>3, <3>4, FirstChildIsNode DEF ExpandedInv
    <2> QED
      BY <2>1, <2>2, <2>3
  <1>2. m \in PlanTask
    BY <1>1, ClaimedIsTask
  <1> QED
    BY <1>0, <1>1, <1>2 DEF StateTable, PlanStates

\* What fails, and what runs, in the plan and in the build
LEMMA PlanCounts ==
    LimitsInv /\ TreeInv =>
        /\ Plan!In("failed") = {} <=> ~errorOccured
        /\ jobsRunning = 0 => Plan!In("running") = {}
        /\ \A n \in Node : job[n] = "counted" => Cardinality(Plan!In("running")) < MaxJobs
  <1> SUFFICES ASSUME LimitsInv, TreeInv
               PROVE  /\ Plan!In("failed") = {} <=> ~errorOccured
                      /\ jobsRunning = 0 => Plan!In("running") = {}
                      /\ \A n \in Node : job[n] = "counted" =>
                             Cardinality(Plan!In("running")) < MaxJobs
    OBVIOUS
  <1>1. StateTable
    BY PlanStateIs DEF TreeInv, SafeInv
  <1>2. Plan!In("failed") = {n \in PlanTask : Reported(n) /\ result[n] # 0}
    BY <1>1 DEF Plan!In, PlanStates, StateTable, PlanTask
  <1>3. Plan!In("running") = {n \in PlanTask : InDoRun(n)}
    BY <1>1 DEF Plan!In, PlanStates, StateTable, PlanTask
  <1>4. Plan!In("failed") = {} <=> ~errorOccured
    <2>1. errorOccured <=> \E n \in Node : Reported(n) /\ result[n] # 0
      BY DEF LimitsInv, ErrorInv
    <2>2. \A n \in Node : Reported(n) => n \in PlanTask
      BY ClaimedIsTask DEF Reported
    <2> QED
      BY <1>2, <2>1, <2>2 DEF PlanTask
  <1> DEFINE R == Plan!In("running")
  <1>5. R \subseteq Counted
    BY <1>3 DEF Counted, InDoRun, PlanTask
  <1>6. Cardinality(Counted) = jobsRunning /\ jobsRunning <= MaxJobs /\ IsFiniteSet(Counted)
    BY CountedIsFinite DEF LimitsInv, LimitInv, SafeInv, CountInv
  <1> HIDE DEF R
  <1>7. jobsRunning = 0 => R = {}
    BY <1>5, <1>6, FS_EmptySet
  <1>8. ASSUME NEW n \in Node, job[n] = "counted" PROVE Cardinality(R) < MaxJobs
    <2>1. n \in Counted /\ n \notin R
      BY <1>3, <1>8 DEF Counted, InDoRun, R
    <2>2. R \subseteq Counted \ {n}
      BY <1>5, <2>1
    <2>3. Cardinality(Counted \ {n}) = Cardinality(Counted) - 1 /\ IsFiniteSet(Counted \ {n})
      BY <1>6, <2>1, FS_RemoveElement
    <2>4. Cardinality(R) <= Cardinality(Counted \ {n}) /\ Cardinality(R) \in Nat
      BY <2>2, <2>3, FS_Subset, FS_CardinalityType
    <2>5. Cardinality(Counted) \in Nat
      BY <1>6, FS_CardinalityType
    <2> QED
      BY <1>6, <2>3, <2>4, <2>5, MaxJobsAssumption
  <1> QED
    BY <1>4, <1>7, <1>8 DEF R

\* ... also after a step.
LEMMA PlanCountsNext ==
    (LimitsInv /\ TreeInv =>
        /\ Plan!In("failed") = {} <=> ~errorOccured
        /\ jobsRunning = 0 => Plan!In("running") = {}
        /\ \A n \in Node : job[n] = "counted" => Cardinality(Plan!In("running")) < MaxJobs)'
  BY PlanCounts, PTL
\* Every step of the build is a step of the plan or changes nothing in it.
LEMMA PlanStep ==
    ASSUME ~SpuriousWakeups, LimitsInv, LimitsInv', TreeInv, TreeInv', Next
    PROVE  Plan!PlanNext \/ UNCHANGED Plan!planVars
  <1> DEFINE Goal == Plan!PlanNext \/ UNCHANGED Plan!planVars
             Closing == {"drain", "waitDone", "returned", "unwound"}
  <1> SUFFICES Goal
    OBVIOUS
  <1> USE DEF Goto
  <1>1. /\ StateTable /\ StateTable'
        /\ status \in [Node -> Status] /\ job \in [Node -> JobState] /\ result \in [Node -> {0, 1}]
        /\ errorOccured \in BOOLEAN /\ success \in BOOLEAN
        /\ NodesInv /\ FoundInv /\ ResultInv
    BY PlanStateIs, PlanStateIsNext DEF TreeInv, SafeInv, TypeOK, TreeTypeOK, JobTypeOK, ManagerTypeOK
  \* The steps that do not touch what the plan sees, and those that only close it.
  <1>2. ASSUME PlanStates' = PlanStates, PlanClosed' = PlanClosed \/ PlanClosed' = TRUE,
               PlanAnswer' = PlanAnswer
        PROVE  Goal
    BY <1>2 DEF Plan!PlanNext, Plan!Close, Plan!planVars, PlanClosed
  <1>3. ASSUME pc \notin Closing, pc' \in Closing, pc' # "returned", PlanStates' = PlanStates
        PROVE  Goal
    <2>1. PlanClosed' = TRUE /\ PlanAnswer' = PlanAnswer
      BY <1>3 DEF PlanClosed, PlanAnswer
    <2> QED
      BY <1>2, <1>3, <2>1
  <1>4. ASSUME pc \in FactoryPC \cup {"count"}, pc' \in FactoryPC \cup {"count", "spawn"},
               PlanStates' = PlanStates
        PROVE  Goal
    <2>1. PlanClosed' = PlanClosed /\ PlanAnswer' = PlanAnswer
      BY <1>4 DEF PlanClosed, ScheduledAfterError, PlanAnswer, FactoryPC
    <2> QED
      BY <1>2, <1>4, <2>1
  <1> HIDE DEF Goal
  \* JobManager::run
  <1>5. CASE TestLoop \/ WaitBelowLimit \/ RecheckError
    <2>1. PlanStates' = PlanStates
      BY <1>5, SameStates DEF TestLoop, WaitBelowLimit, RecheckError, jobVars, treeVars
    <2>2. PlanClosed' = PlanClosed /\ PlanAnswer' = PlanAnswer
      BY <1>1, <1>5 DEF TestLoop, WaitBelowLimit, RecheckError, managerVars,
                        PlanClosed, ScheduledAfterError, PlanAnswer
    <2> QED
      BY <1>2, <2>1, <2>2
  <1>6. CASE CountJob
    <2>1. /\ pc = "count" /\ pc' = "spawn" /\ found \in Node /\ status' = status /\ result' = result
          /\ job[found] = "created" /\ job' = [job EXCEPT ![found] = "counted"]
      BY <1>1, <1>6 DEF CountJob, SetJob, FoundInv, treeVars
    <2>2. \A n \in Node : (PlanState(n))' = PlanState(n)
      BY <1>1, <2>1 DEF PlanState, InDoRun
    <2>3. PlanStates' = PlanStates
      BY <2>2 DEF PlanStates, PlanTask
    <2> QED
      BY <1>4, <2>1, <2>3
  <1>7. CASE SpawnJob
    <2>1. /\ pc = "spawn" /\ pc' = "loop" /\ found \in Node /\ status' = status /\ result' = result
          /\ errorOccured' = errorOccured
          /\ job[found] = "counted" /\ job' = [job EXCEPT ![found] = "started"]
      BY <1>1, <1>7 DEF SpawnJob, StartThread, SetJob, FoundInv, treeVars, managerVars
    <2>2. PICK n \in PlanTask : n = found /\ status[n] = Building
      BY <1>1, <2>1, ClaimedIsTask DEF ResultInv
    <2>3. PlanStates[n] = "todo" /\ (PlanState(n))' = "running"
      <3>1. n \in Node /\ job[n] = "counted" /\ job'[n] = "started"
        BY <1>1, <2>1, <2>2
      <3> QED
        BY <1>1, <2>2, <3>1 DEF PlanStates, InDoRun, StateTable
    <2>4. PlanStates' = [PlanStates EXCEPT ![n] = "running"]
      <3>1. \A m \in Node : m # n => /\ job'[m] = job[m] /\ result'[m] = result[m]
                                     /\ status'[m] = Built <=> status[m] = Built
        BY <1>1, <2>1, <2>2
      <3>2. PlanStates' = [PlanStates EXCEPT ![n] = (PlanState(n))']
        BY <3>1, OneMoves
      <3> QED
        BY <2>3, <3>2
    <2>5. /\ Plan!In("failed") = {} <=> ~errorOccured
          /\ Cardinality(Plan!In("running")) < MaxJobs
      BY <2>1, PlanCounts
    <2>6. PlanNeeds[n] \subseteq Plan!In("done")
      BY <2>2, NeedsAreDone DEF Plan!In
    <2>7. ~PlanClosed /\ PlanClosed' = (Plan!In("failed") # {}) /\ PlanAnswer' = PlanAnswer
      BY <1>1, <2>1, <2>5 DEF PlanClosed, ScheduledAfterError, PlanAnswer
    <2>8. Plan!IsReady(n) /\ Plan!Move(n, "running")
      BY <2>3, <2>4, <2>6 DEF Plan!IsReady, Plan!Move
    <2>9. Plan!Start(n)
      <3>1. Plan!Cardinality(Plan!In("running")) = Cardinality(Plan!In("running"))
        BY DEF Plan!Cardinality, Cardinality
      <3> QED
        BY <2>5, <2>7, <2>8, <3>1 DEF Plan!Start
    <2> QED
      BY <2>9 DEF Plan!PlanNext, Goal
  <1>8. CASE Drain
    <2>1. PlanStates' = PlanStates /\ pc = "drain" /\ errorOccured' = errorOccured
      BY <1>8, SameStates DEF Drain, jobVars, treeVars
    <2>2. CASE jobsRunning # 0
      <3>1. PlanClosed' = PlanClosed /\ PlanAnswer' = PlanAnswer
        BY <1>8, <2>1, <2>2 DEF Drain, PlanClosed, PlanAnswer
      <3> QED
        BY <1>2, <2>1, <3>1
    <2>3. CASE jobsRunning = 0
      <3>1. pc' = "returned" /\ success' = ~errorOccured /\ UNCHANGED << jobsRunning, errorOccured >>
        BY <1>8, <2>3 DEF Drain, Return
      <3>2. /\ (Plan!In("failed"))' = {} <=> ~errorOccured
            /\ (Plan!In("running"))' = {}
        BY <2>3, <3>1, PlanCountsNext
      <3>3. /\ PlanAnswer = "none" /\ PlanClosed
            /\ PlanAnswer' = IF (Plan!In("failed"))' = {} THEN "success" ELSE "error"
            /\ PlanClosed' = PlanClosed
        BY <1>1, <2>1, <3>1, <3>2 DEF PlanAnswer, PlanClosed
      <3>4. Plan!Answer /\ PlanStates' = PlanStates /\ PlanClosed' = PlanClosed
        BY <2>1, <3>2, <3>3 DEF Plan!Answer
      <3> QED
        BY <3>4 DEF Plan!PlanNext, Goal
    <2> QED
      BY <2>2, <2>3
  \* JobFactory::createJob
  <1>9. CASE \/ ResetFlags \/ FindAGoodNode \/ ExpandFound \/ FindInExpanded \/ CheckFound
             \/ WaitForTree \/ AfterWait \/ ClaimFound \/ LockLua \/ MarkParents
    <2>1. /\ job' = job /\ result' = result /\ pc \in FactoryPC
          /\ pc' \in FactoryPC \cup {"count", "drain"}
      BY <1>9 DEF ResetFlags, FindAGoodNode, ExpandFound, FindInExpanded, CheckFound, WaitForTree,
                  AfterWait, ClaimFound, LockLua, MarkParents, jobVars, FactoryPC
    <2>2. \A n \in Node : status'[n] = Built <=> status[n] = Built
      <3>1. CASE ExpandFound
        BY <1>1, <3>1 DEF ExpandFound, ExpandTargetNode, FoundInv
      <3>2. CASE ClaimFound
        <4>1. found # NoNode
          BY <1>1, <3>2, Kinds DEF ClaimFound, FoundInv
        <4>2. status[found] # Built
          BY <1>1, <3>2, <4>1 DEF ClaimFound, FoundInv, IsGood
        <4> QED
          BY <1>1, <3>2, <4>2 DEF ClaimFound
      <3>3. CASE ~ExpandFound /\ ~ClaimFound
        BY <1>9, <3>3 DEF ResetFlags, FindAGoodNode, FindInExpanded, CheckFound, WaitForTree,
                          AfterWait, LockLua, MarkParents, MarkAncestors, treeVars
      <3> QED
        BY <3>1, <3>2, <3>3
    <2>3. PlanStates' = PlanStates
      BY <2>1, <2>2, SameStates
    <2>4. CASE pc' = "drain"
      BY <1>3, <2>1, <2>3, <2>4 DEF FactoryPC
    <2>5. CASE pc' # "drain"
      BY <1>4, <2>1, <2>3, <2>5
    <2> QED
      BY <2>4, <2>5
  <1>10. CASE CreateJobFor
    <2>1. /\ pc = "create" /\ found \in Node /\ job[found] = "none" /\ status[found] = Building
          /\ result' = result
      BY <1>1, <1>10 DEF CreateJobFor, FoundInv
    <2>2. CASE CompileThrows
      <3>1. PlanStates' = PlanStates /\ pc' = "unwound"
        BY <2>1, <2>2, SameStates DEF CompileThrows
      <3> QED
        BY <1>3, <2>1, <3>1
    <2>3. CASE NodeGetsJob
      <3>1. job' = [job EXCEPT ![found] = "created"] /\ status' = status /\ pc' = "mark"
        BY <2>3 DEF NodeGetsJob, SetJob
      <3>2. \A n \in Node : (PlanState(n))' = PlanState(n)
        BY <1>1, <2>1, <3>1 DEF PlanState, InDoRun
      <3>3. PlanStates' = PlanStates
        BY <3>2 DEF PlanStates, PlanTask
      <3> QED
        BY <1>4, <2>1, <3>1, <3>3 DEF FactoryPC
    <2>4. CASE NodeIsUpToDate
      <3>1. job' = job /\ status' = [status EXCEPT ![found] = Built] /\ pc' = "reset"
        BY <2>4 DEF NodeIsUpToDate
      <3>2. PICK n \in PlanTask : n = found
        BY <1>1, <2>1, ClaimedIsTask
      <3>3. PlanStates[n] = "todo" /\ (PlanState(n))' = "done"
        <4>1. n \in Node /\ job[n] = "none" /\ status[n] = Building /\ status'[n] = Built
          BY <1>1, <2>1, <3>1, <3>2
        <4> QED
          BY <1>1, <3>2, <4>1 DEF PlanStates, StateTable
      <3>4. PlanStates' = [PlanStates EXCEPT ![n] = "done"]
        <4>1. \A m \in Node : m # n => /\ job'[m] = job[m] /\ result'[m] = result[m]
                                       /\ status'[m] = Built <=> status[m] = Built
          BY <1>1, <2>1, <3>1, <3>2
        <4>2. PlanStates' = [PlanStates EXCEPT ![n] = (PlanState(n))']
          BY <4>1, OneMoves
        <4> QED
          BY <3>3, <4>2
      <3>5. PlanNeeds[n] \subseteq Plan!In("done")
        BY <2>1, <3>2, NeedsAreDone DEF Plan!In
      <3>6. PlanClosed' = PlanClosed /\ PlanAnswer' = PlanAnswer
        BY <2>1, <3>1 DEF PlanClosed, ScheduledAfterError, PlanAnswer
      <3>7. Plan!Skip(n)
        BY <3>3, <3>4, <3>5, <3>6 DEF Plan!Skip, Plan!IsReady, Plan!Move
      <3> QED
        BY <3>7 DEF Plan!PlanNext, Goal
    <2> QED
      BY <1>10, <2>2, <2>3, <2>4 DEF CreateJobFor
  <1>11. CASE Spurious
    BY <1>11 DEF Spurious, SpuriousTreeWakeup, SpuriousJobsWakeup
  \* The threads of the jobs
  <1>12. ASSUME NEW n \in Node, Begin(n) \/ End(n) \/ Flag(n) \/ Notify(n) PROVE Goal
    <2>1. /\ status' = status /\ errorOccured' = errorOccured /\ success' = success
          /\ \/ pc' = pc
             \/ pc = "waitTree" /\ pc' = "woken"
      BY <1>12 DEF Begin, End, Flag, Notify, SetTreeChanged, WakeTreeWaiter, treeVars, factoryVars,
                   managerVars
    <2>2. /\ \A m \in Node : m # n => job'[m] = job[m] /\ result'[m] = result[m]
          /\ \/ job[n] = "started" /\ job'[n] = "running"
             \/ job[n] = "running" /\ job'[n] = "exited"
             \/ /\ job[n] \in {"published", "flagged"} /\ job'[n] \in {"flagged", "gone"}
                /\ result'[n] = result[n]
      BY <1>1, <1>12 DEF Begin, BeginRun, End, EndRun, Flag, FlagTreeChange, Notify, NotifyTreeChange, SetJob
    <2>3. \A m \in Node : (PlanState(m))' = PlanState(m)
      BY <1>1, <2>1, <2>2 DEF PlanState, InDoRun
    <2>4. PlanStates' = PlanStates
      BY <2>3 DEF PlanStates, PlanTask
    <2>5. PlanClosed' = PlanClosed /\ PlanAnswer' = PlanAnswer
      BY <2>1 DEF PlanClosed, ScheduledAfterError, PlanAnswer
    <2> QED
      BY <1>2, <2>4, <2>5
  <1>13. ASSUME NEW n \in Node, Release(n) PROVE Goal
    <2>1. /\ job[n] = "reported" /\ job' = [job EXCEPT ![n] = "published"] /\ result' = result
          /\ status' = IF result[n] # 0 THEN status ELSE [status EXCEPT ![n] = Built]
          /\ UNCHANGED << pc, errorOccured, success >>
      BY <1>13 DEF Release, DeleteNodeGuard, ReleaseNode, SetJob, factoryVars, managerVars
    <2>2. n \in PlanTask /\ status[n] = Building
      BY <1>1, <2>1, ClaimedIsTask DEF ResultInv
    <2>3. PlanClosed' = PlanClosed /\ PlanAnswer' = PlanAnswer
      BY <2>1 DEF PlanClosed, ScheduledAfterError, PlanAnswer
    <2>4. PlanStates' = [PlanStates EXCEPT ![n] = (PlanState(n))']
      BY <1>1, <2>1, <2>2, OneMoves
    <2>5. CASE result[n] = 0
      <3>1. PlanStates[n] = "succeeded" /\ (PlanState(n))' = "done"
        BY <1>1, <2>1, <2>2, <2>5 DEF PlanStates, PlanState, InDoRun
      <3>2. Plan!Publish(n)
        BY <2>3, <2>4, <3>1 DEF Plan!Publish, Plan!Move
      <3> QED
        BY <2>2, <3>2 DEF Plan!PlanNext, Goal
    <2>6. CASE result[n] # 0
      <3>1. PlanStates[n] = "failed" /\ (PlanState(n))' = "failed"
        BY <1>1, <2>1, <2>2, <2>6 DEF PlanStates, PlanState, InDoRun
      <3>2. PlanStates' = PlanStates
        BY <2>4, <3>1 DEF PlanStates
      <3> QED
        BY <1>2, <2>3, <3>2
    <2> QED
      BY <2>5, <2>6
  <1>14. ASSUME NEW n \in Node, Report(n) PROVE Goal
    <2>1. /\ job[n] = "exited" /\ job' = [job EXCEPT ![n] = "reported"]
          /\ UNCHANGED << result, status >>
          /\ jobsRunning' = jobsRunning - 1 /\ errorOccured' = (errorOccured \/ result[n] # 0)
          /\ WakeManager(jobsRunning', errorOccured')
      BY <1>14 DEF Report, ReportResult, OnJobFinished, SetJob, treeVars
    <2>2. n \in PlanTask /\ status[n] = Building
      BY <1>1, <2>1, ClaimedIsTask DEF ResultInv
    <2>3. PlanStates' = [PlanStates EXCEPT ![n] = (PlanState(n))'] /\ PlanStates[n] = "running"
      BY <1>1, <2>1, <2>2, OneMoves DEF PlanStates, PlanState, InDoRun
    <2>4. (PlanState(n))' = IF result[n] # 0 THEN "failed" ELSE "succeeded"
      BY <1>1, <2>1, <2>2 DEF PlanState, InDoRun
    <2>5. pc # "returned" /\ jobsRunning >= 1
      BY <2>1, ReporterIsCounted DEF LimitsInv, ErrorInv
    <2>6. /\ pc' = pc \/ (pc = "waitJobs" /\ pc' = "recheck") \/ (pc = "waitDone" /\ pc' = "returned")
          /\ pc' = "returned" => jobsRunning' = 0 /\ success' = ~errorOccured'
      BY <2>1, <2>5 DEF WakeManager
    <2>7. /\ PlanClosed' \in {PlanClosed, TRUE}
          /\ result[n] = 0 => PlanClosed' = PlanClosed
      BY <1>1, <2>1, <2>6 DEF PlanClosed, ScheduledAfterError
    <2>8. Plan!Succeed(n) \/ Plan!Fail(n)
      BY <2>3, <2>4, <2>7 DEF Plan!Succeed, Plan!Fail, Plan!Move
    <2>9. PlanAnswer' = PlanAnswer \/ Plan!Answer
      <3>1. CASE pc' = "returned"
        <4>1. /\ (Plan!In("failed"))' = {} <=> ~errorOccured'
              /\ (Plan!In("running"))' = {}
          BY <2>6, <3>1, PlanCountsNext
        <4>2. PlanAnswer = "none" /\ PlanClosed
          BY <2>5, <2>6, <3>1 DEF PlanAnswer, PlanClosed
        <4>3. PlanAnswer' = IF (Plan!In("failed"))' = {} THEN "success" ELSE "error"
          BY <1>1, <2>1, <2>6, <3>1, <4>1 DEF PlanAnswer
        <4> QED
          BY <4>1, <4>2, <4>3 DEF Plan!Answer
      <3>2. CASE pc' # "returned"
        BY <2>5, <3>2 DEF PlanAnswer
      <3> QED
        BY <3>1, <3>2
    <2> QED
      BY <2>2, <2>8, <2>9 DEF Plan!PlanNext, Goal
  <1> QED
    BY <1>5, <1>6, <1>7, <1>8, <1>9, <1>10, <1>11, <1>12, <1>13, <1>14
    DEF Next, MainStep, Run, CreateJob, JobStep, Goal

\* The build starts where the plan does.
LEMMA PlanStarts == Init => Plan!PlanInit
  <1> SUFFICES ASSUME Init PROVE Plan!PlanInit
    OBVIOUS
  <1>1. \A n \in Node : PlanState(n) = "todo"
    BY DEF Init, TreeInit, JobInit, PlanState, InDoRun
  <1>2. PlanStates = [t \in PlanTask |-> "todo"]
    BY <1>1 DEF PlanStates, PlanTask
  <1>3. ~PlanClosed /\ PlanAnswer = "none"
    BY DEF Init, FactoryInit, ManagerInit, PlanClosed, ScheduledAfterError, PlanAnswer
  <1> QED
    BY <1>2, <1>3 DEF Plan!PlanInit, PlanClosed

\* Without spurious wakeups a parallel build does what the plan promises: tasks start after all they
\* need is done, at most MaxJobs at once, after a failure at most one more, and the answer comes
\* when nothing runs and tells whether a task failed.
THEOREM BuildImplementsPlan ==
    ASSUME ~SpuriousWakeups
    PROVE  Spec => ImplementsPlan
  <1>1. LimitsInv /\ LimitsInv' /\ TreeInv /\ TreeInv' /\ [Next]_vars => [Plan!PlanNext]_(Plan!planVars)
    <2> SUFFICES ASSUME LimitsInv, LimitsInv', TreeInv, TreeInv', [Next]_vars
                 PROVE  Plan!PlanNext \/ UNCHANGED Plan!planVars
      OBVIOUS
    <2>1. CASE Next
      BY <2>1, PlanStep
    <2>2. CASE UNCHANGED vars
      BY <2>2 DEF vars, treeVars, jobVars, factoryVars, managerVars, Plan!planVars, PlanStates,
                  PlanState, InDoRun, PlanClosed, ScheduledAfterError, PlanAnswer
    <2> QED
      BY <2>1, <2>2
  <1> QED
    BY <1>1, PlanStarts, LimitsInvariant, TreeInvariant, PTL
    DEF Spec, ImplementsPlan, Plan!PlanSpec
=============================================================================
