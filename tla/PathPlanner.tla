----------------------------- MODULE PathPlanner -----------------------------
(***************************************************************************)
(* The path planner server: PathPlanner::calcPath and optimize, Algorithm, *)
(* RRT, PRM and Roadmap of hrpPlanner, as GrxPathPlanningAlgorithmItem     *)
(* calls them: a call of calcPath runs in a thread of its own, stopPlanning*)
(* may come at any time, and the algorithm object, its roadmap included,   *)
(* is made anew only if the item's rebuildRoadmap says so.                 *)
(*                                                                         *)
(* The geometry is a parameter: which configurations are free, which of    *)
(* the samples getPath puts on a way are in collision, distances, and where*)
(* interpolation leads.  Every loop of the search is a loop of steps here, *)
(* so stops come wherever the code can see them.  A cancelled call is not  *)
(* waited for: what a second request to the planner does to it meanwhile is*)
(* undefined, and so is all that follows.                                  *)
(***************************************************************************)
EXTENDS Integers, Sequences, FiniteSets

CONSTANTS
  Config,        \* configurations
  Free,          \* those without a collision
  Colliding,     \* the samples of the way from, to that are in collision
  Dist, Toward,  \* distance; interpolate(from, to, eps_ / distance)
  InterpolationDistance,  \* of the mobility
  Inside,        \* the configurations interpolate(from, to, _) may give
  IsReversible,  \* of the mobility
  Eps, MaxDist,  \* the properties eps and max-dist
  Times, MaxPoints,  \* the properties max-trials and max-points
  MaxPath,       \* bound: RandomShortcut does not lengthen longer paths
  MaxCalls       \* bound: calls of calcPath

\* Mobility::getPath: the samples of a way, both ends among them; 0 is first.
Size(from, to) == Dist[<<from, to>>] \div InterpolationDistance + 2

\* No way back from a mobility that is reversible collides anew, and a
\* configuration has no distance from itself.
ASSUME PlannerAssumption ==
  /\ Free \subseteq Config
  /\ Dist \in [Config \X Config -> Nat]
  /\ \A c \in Config : Dist[<<c, c>>] = 0
  /\ Colliding \in [Config \X Config -> SUBSET Nat]
  /\ \A e \in Config \X Config :
       /\ Colliding[e] \subseteq 0 .. Size(e[1], e[2]) - 1
       /\ 0 \in Colliding[e] <=> e[1] \notin Free
       /\ Size(e[1], e[2]) - 1 \in Colliding[e] <=> e[2] \notin Free
  /\ IsReversible \in BOOLEAN
  /\ IsReversible => \A e \in Config \X Config :
                        Colliding[e] = {} => Colliding[<<e[2], e[1]>>] = {}
  /\ Toward \in [Config \X Config -> Config]
  /\ Inside \in [Config \X Config -> SUBSET Config]
  /\ Eps \in Nat /\ MaxDist \in Nat /\ Times \in Nat /\ MaxPoints \in Nat
  /\ InterpolationDistance \in Nat \ {0} /\ MaxPath \in Nat /\ MaxCalls \in Nat

VARIABLES
  algorithm_,   \* "none", "RRT", "RRTconnect" (both trees grow) or "PRM"
  pos,          \* the configuration of each node made so far
  edges,        \* <<from, to>>, in the order addEdge was called
  Ta_, Tb_,     \* the nodes of the trees, in their order; Ta_ is roadmap_
  start_, goal_, isRunning_,
  path,         \* path_ of the algorithm
  path_,        \* path_ of the planner
  at,           \* where the call stands; "undefined" when anything may be so
  key,          \* the call waits in getchar() of extend
  cancelled,    \* the item has stopped this call and waits for it no longer
  i, j,         \* loop counters
  isTaStart,
  qNew,         \* what connect is after
  startNode, goalNode,
  node,         \* of RRT::path
  stack, visited,   \* of DFS
  index, optimized, \* of ShortcutOptimizer::optimize
  result,       \* what the last call returned
  fresh,        \* history: the algorithm was new at this call
  pieces,       \* history: the ways of path_ random shortcuts have cut short
  calls         \* calls so far

graph == <<algorithm_, pos, edges, Ta_, Tb_>>
ends == <<start_, goal_, fresh, calls, cancelled, pieces>>
search == <<i, j, isTaStart, qNew, startNode, goalNode, key>>
dfs == <<stack, visited>>
opt == <<index, optimized>>
vars == <<graph, ends, isRunning_, path, path_, at, search, node, dfs, opt, result>>

IsRRT == algorithm_ \in {"RRT", "RRTconnect"}
Nodes == 1 .. Len(pos)
NoNode == 0

Init ==
  /\ algorithm_ = "none"
  /\ pos = <<>> /\ edges = <<>> /\ Ta_ = <<>> /\ Tb_ = <<>>
  /\ start_ \in Config /\ goal_ = start_ /\ qNew = start_
  /\ isRunning_ = FALSE /\ path = <<>> /\ path_ = <<>>
  /\ at = "idle" /\ i = 0 /\ j = 0 /\ isTaStart = TRUE
  /\ startNode = NoNode /\ goalNode = NoNode /\ node = NoNode
  /\ stack = <<>> /\ visited = {}
  /\ index = 0 /\ optimized = <<>>
  /\ result = FALSE /\ fresh = FALSE /\ calls = 0
  /\ key = FALSE /\ cancelled = FALSE /\ pieces = {}

-----------------------------------------------------------------------------
(* isReachable: checkCollision(path) looks at the samples of a way in       *)
(* rounds, at the multiples of size / 2, size / 3 and so on.                *)

\* Mutant of SamplesChecked: while (path.size() / div > 1)
SamplesChecked_StopsEarly(n) ==
  {k \in 1 .. n - 1 : \E div \in 2 .. n : n \div div > 1 /\ k % (n \div div) = 0}

\* The samples visited when the loop ends; sample 0 follows.
SamplesChecked(n) ==
  LET seen[div \in 1 .. n + 1] ==
        IF div = 1 THEN {}
        ELSE LET before == seen[div - 1] IN
             IF Cardinality(before) < n - 1 \/ n \div div > 0
             THEN before \cup {k \in 1 .. n - 1 : k % (n \div div) = 0}
             ELSE before
  IN  seen[n + 1]

Reachable ==
  {e \in Config \X Config :
     Colliding[e] \cap ({0} \cup SamplesChecked(Size(e[1], e[2]))) = {}}

-----------------------------------------------------------------------------
(* Roadmap and RoadmapNode.                                                *)

\* parent(0) and child(0): of the edges meant, the first counts.
FirstEdge(E) ==
  IF E = {} THEN <<NoNode, NoNode>> ELSE edges[CHOOSE e \in E : \A d \in E : e <= d]
Parent(n) == FirstEdge({e \in DOMAIN edges : edges[e][2] = n})[1]
Child(n) == FirstEdge({e \in DOMAIN edges : edges[e][1] = n})[2]

\* findNearestNode: the first of the nearest.
Nearest(tree, q) ==
  LET d(k) == Dist[<<pos[tree[k]], q>>] IN
  tree[CHOOSE k \in DOMAIN tree : /\ \A l \in DOMAIN tree : d(k) <= d(l)
                                  /\ \A l \in 1 .. k - 1 : d(k) < d(l)]

Joins(a, b) == <<pos[a], pos[b]>> \in Reachable

\* tryConnection: the edges it adds
Connection(a, b) ==
  IF IsReversible THEN IF Joins(a, b) THEN <<<<a, b>>, <<b, a>>>> ELSE <<>>
  ELSE (IF Joins(a, b) THEN <<<<a, b>>>> ELSE <<>>)
         \o (IF Joins(b, a) THEN <<<<b, a>>>> ELSE <<>>)

-----------------------------------------------------------------------------
(* The calls.                                                              *)

\* Mutant of Call: the new algorithm keeps the goal tree of the old one.
Call_KeepsTree(name, s, g) ==
  /\ at = "idle" /\ calls < MaxCalls
  /\ calls' = calls + 1
  /\ algorithm_' = name /\ pos' = <<>> /\ edges' = <<>> /\ Ta_' = <<>> /\ Tb_' = Ta_
  /\ isRunning_' = FALSE /\ path' = <<>> /\ fresh' = TRUE
  /\ start_' = s /\ goal_' = g /\ path_' = <<>> /\ result' = FALSE
  /\ at' = "prepare" /\ i' = 0 /\ j' = 0 /\ isTaStart' = TRUE /\ qNew' = s
  /\ startNode' = NoNode /\ goalNode' = NoNode /\ node' = NoNode
  /\ stack' = <<>> /\ visited' = {} /\ index' = 0 /\ optimized' = <<>>
  /\ key' = FALSE /\ cancelled' = FALSE /\ pieces' = {}

\* startCalc: with rebuildRoadmap, setAlgorithmName makes a new algorithm.
Call(name, s, g) ==
  /\ at = "idle" /\ calls < MaxCalls
  /\ calls' = calls + 1
  /\ \/ /\ algorithm_' = name
        /\ pos' = <<>> /\ edges' = <<>> /\ Ta_' = <<>> /\ Tb_' = <<>>
        /\ isRunning_' = FALSE /\ path' = <<>> /\ fresh' = TRUE
     \/ /\ algorithm_ = name
        /\ UNCHANGED <<graph, isRunning_, path>>
        /\ fresh' = FALSE
  /\ start_' = s /\ goal_' = g
  /\ path_' = <<>> /\ result' = FALSE
  /\ at' = "prepare"
  /\ i' = 0 /\ j' = 0 /\ isTaStart' = TRUE /\ qNew' = s
  /\ startNode' = NoNode /\ goalNode' = NoNode /\ node' = NoNode
  /\ stack' = <<>> /\ visited' = {} /\ index' = 0 /\ optimized' = <<>>
  /\ key' = FALSE /\ cancelled' = FALSE /\ pieces' = {}

\* Cancel: stopPlanning, perhaps just after the call has returned.
\* preparePlanning forgets one that came before it.
Stop ==
  /\ algorithm_ # "none" /\ ~cancelled /\ at \notin {"shortcut", "undefined"}
  /\ isRunning_' = FALSE /\ cancelled' = TRUE
  /\ UNCHANGED <<graph, start_, goal_, fresh, calls, pieces, path, path_, at,
                 search, node, dfs, opt, result>>

\* The item does not join the call it has cancelled: if it is told to plan or
\* optimize once more before that call has returned, setAlgorithmName deletes
\* the algorithm that runs, or calcPath and optimize use the trees and path_
\* of the planner in two threads.
Overlap ==
  /\ cancelled /\ at \notin {"idle", "shortcut", "undefined"}
  /\ at' = "undefined"
  /\ UNCHANGED <<graph, ends, isRunning_, path, path_, search, node, dfs, opt, result>>

Return(ok) == at' = "idle" /\ result' = ok /\ path_' = IF ok THEN path' ELSE path_

\* preparePlanning and tryDirectConnection
Prepare ==
  /\ at = "prepare"
  /\ isRunning_' = TRUE
  /\ \/ /\ ~({start_, goal_} \subseteq Free)
        /\ path' = <<>> /\ Return(FALSE)
     \/ /\ <<start_, goal_>> \in Reachable
        /\ path' = <<start_, goal_>> /\ Return(TRUE)
     \/ /\ {start_, goal_} \subseteq Free /\ <<start_, goal_>> \notin Reachable
        /\ path' = <<>>
        /\ at' = IF IsRRT THEN "begin" ELSE IF Ta_ = <<>> THEN "build" ELSE "ends"
        /\ UNCHANGED <<result, path_>>
  /\ UNCHANGED <<graph, ends, search, node, dfs, opt>>

-----------------------------------------------------------------------------
(* RRT.                                                                    *)

\* calcPath: the start is the last node of Ta_, the goal of Tb_.
Begin ==
  /\ at = "begin"
  /\ pos' = pos \o <<start_, goal_>>
  /\ startNode' = Len(pos) + 1 /\ goalNode' = Len(pos) + 2
  /\ Ta_' = Append(Ta_, Len(pos) + 1) /\ Tb_' = Append(Tb_, Len(pos) + 2)
  /\ at' = "search"
  /\ UNCHANGED <<algorithm_, edges, ends, isRunning_, path, path_, i, j,
                 isTaStart, qNew, key, node, dfs, opt, result>>

\* Where extend would put its new node.
Target(tree, q) ==
  LET n == Nearest(tree, q) IN
  IF Dist[<<pos[n], q>>] > Eps THEN Toward[<<pos[n], q>>] ELSE q

\* Mutant of CanExtend: the way is checked from the tree in both trees.
CanExtend_Forward(tree, q, reverse) ==
  <<pos[Nearest(tree, q)], Target(tree, q)>> \in Reachable

CanExtend(tree, q, reverse) ==
  LET p == pos[Nearest(tree, q)] IN
  IF reverse THEN <<Target(tree, q), p>> \in Reachable
  ELSE <<p, Target(tree, q)>> \in Reachable

Reached(tree, q) == Dist[<<pos[Nearest(tree, q)], q>>] <= Eps

\* "distance didn't decrease": extend waits for a key on the server's terminal.
Strays(tree, q) ==
  LET p == pos[Nearest(tree, q)] IN
  Dist[<<p, q>>] > Eps /\ Dist[<<p, Target(tree, q)>>] > Dist[<<p, q>>]

\* extend, once CanExtend
Extend(tree, q, reverse) ==
  LET new == Len(pos) + 1
      near == Nearest(tree, q)
  IN  /\ pos' = Append(pos, Target(tree, q))
      /\ edges' = Append(edges, IF reverse THEN <<new, near>> ELSE <<near, new>>)
      /\ IF reverse THEN Tb_' = Append(Tb_, new) /\ UNCHANGED Ta_
                    ELSE Ta_' = Append(Ta_, new) /\ UNCHANGED Tb_

\* One round of the loop of calcPath, up to the first extend.  RRTconnect
\* begins with the trees in turn; the default grows Ta_ and aims at the goal.
\* The wait of extend is put at its end: nothing it uses changes meanwhile.
Search(q) ==
  LET reverse == algorithm_ = "RRTconnect" /\ ~isTaStart
      tree == IF reverse THEN Tb_ ELSE Ta_
  IN
  /\ at = "search" /\ i < Times /\ isRunning_
  /\ i' = i + 1
  /\ IF CanExtend(tree, q, reverse)
     THEN /\ Extend(tree, q, reverse)
          /\ qNew' = IF algorithm_ = "RRT" THEN goal_ ELSE Target(tree, q)
          /\ at' = "connect"
          /\ UNCHANGED isTaStart
     ELSE /\ isTaStart' = ~isTaStart
          /\ UNCHANGED <<pos, edges, Ta_, Tb_, qNew, at>>
  /\ key' = Strays(tree, q)
  /\ UNCHANGED <<algorithm_, ends, isRunning_, path, path_, j, startNode,
                 goalNode, node, dfs, opt, result>>

\* Mutant of Connect: trapped, it tries again.
Connect_RetriesTrapped ==
  LET reverse == algorithm_ = "RRTconnect" /\ isTaStart
      tree == IF reverse THEN Tb_ ELSE Ta_
  IN
  /\ at = "connect" /\ CanExtend(tree, qNew, reverse)
  /\ Extend(tree, qNew, reverse) /\ key' = Strays(tree, qNew)
  /\ at' = IF Reached(tree, qNew) THEN "trace" ELSE "connect"
  /\ result' = Reached(tree, qNew)
  /\ node' = IF Reached(tree, qNew) THEN Ta_'[Len(Ta_')] ELSE node
  /\ UNCHANGED <<algorithm_, ends, isRunning_, path, path_, i, j, isTaStart,
                 qNew, startNode, goalNode, dfs, opt>>

\* connect: extend until trapped or reached.  No stop is looked at.
Connect ==
  LET reverse == algorithm_ = "RRTconnect" /\ isTaStart
      tree == IF reverse THEN Tb_ ELSE Ta_
  IN
  /\ at = "connect"
  /\ IF CanExtend(tree, qNew, reverse)
     THEN /\ Extend(tree, qNew, reverse)
          /\ at' = IF Reached(tree, qNew) THEN "trace" ELSE "connect"
          /\ result' = Reached(tree, qNew)
          /\ node' = IF Reached(tree, qNew) THEN Ta_'[Len(Ta_')] ELSE node
          /\ UNCHANGED isTaStart
     ELSE /\ at' = "search" /\ isTaStart' = ~isTaStart
          /\ UNCHANGED <<pos, edges, Ta_, Tb_, node, result>>
  /\ key' = Strays(tree, qNew)
  /\ UNCHANGED <<algorithm_, ends, isRunning_, path, path_, i, j, qNew,
                 startNode, goalNode, dfs, opt>>

Key ==
  /\ key /\ key' = FALSE
  /\ UNCHANGED <<graph, ends, isRunning_, path, path_, at, i, j, isTaStart, qNew,
                 startNode, goalNode, node, dfs, opt, result>>

\* The loop ends without success; path() is called all the same.
GiveUp ==
  /\ at = "search" /\ (i = Times \/ ~isRunning_)
  /\ at' = "trace" /\ node' = Ta_[Len(Ta_)]
  /\ UNCHANGED <<graph, ends, isRunning_, path, path_, search, dfs, opt, result>>

\* path(): from the last node of Ta_ up to a root.
TraceStart ==
  /\ at = "trace"
  /\ path' = <<pos[node]>> \o path
  /\ IF Parent(node) # NoNode THEN node' = Parent(node) /\ UNCHANGED at
     ELSE node' = Tb_[Len(Tb_)] /\
          at' = IF algorithm_ = "RRTconnect" THEN "traceGoal" ELSE "integrate"
  /\ UNCHANGED <<graph, ends, isRunning_, path_, search, dfs, opt, result>>

\* ... and from the last node of Tb_ down to the goal.
TraceGoal ==
  /\ at = "traceGoal"
  /\ path' = Append(path, pos[node])
  /\ IF Child(node) # NoNode THEN node' = Child(node) /\ UNCHANGED at
     ELSE at' = "integrate" /\ UNCHANGED node
  /\ UNCHANGED <<graph, ends, isRunning_, path_, search, dfs, opt, result>>

\* Tb_->integrate(Ta_), and calcPath returns.
Integrate ==
  /\ at = "integrate"
  /\ Ta_' = Ta_ \o Tb_ /\ Tb_' = <<>>
  /\ UNCHANGED path /\ Return(result)
  /\ UNCHANGED <<algorithm_, pos, edges, ends, isRunning_, search, node, dfs, opt>>

-----------------------------------------------------------------------------
(* PRM.                                                                    *)

\* buildRoadmap: random configurations become nodes if they are free.
Build(q) ==
  /\ at = "build" /\ Len(Ta_) < MaxPoints /\ isRunning_ /\ q \in Free
  /\ pos' = Append(pos, q) /\ Ta_' = Append(Ta_, Len(pos) + 1)
  /\ UNCHANGED <<algorithm_, edges, Tb_, ends, isRunning_, path, path_, at,
                 search, node, dfs, opt, result>>

\* Enough nodes: the edges are next.  Stopped: they are never made.
BuildDone ==
  /\ at = "build"
  /\ \/ Len(Ta_) >= MaxPoints /\ at' = "link"
     \/ Len(Ta_) < MaxPoints /\ ~isRunning_ /\ at' = "ends"
  /\ i' = 0 /\ j' = Len(Ta_) + 1
  /\ UNCHANGED <<graph, ends, isRunning_, path, path_, isTaStart, qNew, key,
                 startNode, goalNode, node, dfs, opt, result>>

Near(a, b) == Dist[<<pos[a], pos[b]>>] < MaxDist
NearConnection(a, b) == IF Near(a, b) THEN Connection(a, b) ELSE <<>>

\* The nodes of the roadmap are connected, each to the later ones.
Link ==
  /\ at = "link"
  /\ \/ /\ j <= Len(Ta_)
        /\ edges' = edges \o NearConnection(Ta_[i], Ta_[j])
        /\ j' = j + 1 /\ UNCHANGED <<i, at>>
     \/ /\ j > Len(Ta_) /\ i < Len(Ta_) /\ isRunning_
        /\ i' = i + 1 /\ j' = i + 2 /\ UNCHANGED <<edges, at>>
     \/ /\ j > Len(Ta_) /\ (i = Len(Ta_) \/ ~isRunning_)
        /\ at' = "ends" /\ UNCHANGED <<edges, i, j>>
  /\ UNCHANGED <<algorithm_, pos, Ta_, Tb_, ends, isRunning_, path, path_,
                 isTaStart, qNew, key, startNode, goalNode, node, dfs, opt, result>>

\* calcPath: whether the roadmap was finished or not, the ends are added.
AddEnds ==
  /\ at = "ends"
  /\ pos' = pos \o <<start_, goal_>>
  /\ startNode' = Len(pos) + 1 /\ goalNode' = Len(pos) + 2
  /\ Ta_' = Ta_ \o <<Len(pos) + 1, Len(pos) + 2>>
  /\ at' = "attach" /\ i' = 1
  /\ UNCHANGED <<algorithm_, edges, Tb_, ends, isRunning_, path, path_, j,
                 isTaStart, qNew, key, node, dfs, opt, result>>

\* Both ends are connected to every node, themselves included.
Attach ==
  /\ at = "attach"
  /\ IF i <= Len(Ta_)
     THEN /\ edges' = edges \o NearConnection(startNode, Ta_[i])
                            \o NearConnection(goalNode, Ta_[i])
          /\ i' = i + 1
          /\ UNCHANGED <<at, dfs>>
     ELSE /\ at' = "dfs" /\ stack' = <<startNode>> /\ visited' = {startNode}
          /\ UNCHANGED <<edges, i>>
  /\ UNCHANGED <<algorithm_, pos, Ta_, Tb_, ends, isRunning_, path, path_, j,
                 isTaStart, qNew, key, startNode, goalNode, node, opt, result>>

\* The first child DFS has not visited.
Unvisited(n) ==
  FirstEdge({e \in DOMAIN edges : edges[e][1] = n /\ edges[e][2] \notin visited})[2]

DFS ==
  /\ at = "dfs"
  /\ \/ /\ stack = <<>>
        /\ UNCHANGED <<path, dfs>> /\ Return(FALSE)
     \/ /\ stack # <<>> /\ stack[Len(stack)] = goalNode
        /\ path' = [k \in DOMAIN stack |-> pos[stack[k]]]
        /\ Return(TRUE) /\ UNCHANGED dfs
     \/ /\ stack # <<>> /\ stack[Len(stack)] # goalNode
        /\ LET child == Unvisited(stack[Len(stack)]) IN
           /\ stack' = IF child = NoNode THEN SubSeq(stack, 1, Len(stack) - 1)
                       ELSE Append(stack, child)
           /\ visited' = IF child = NoNode THEN visited ELSE visited \cup {child}
        /\ UNCHANGED <<path, path_, at, result>>
  /\ UNCHANGED <<graph, ends, isRunning_, search, node, opt>>

-----------------------------------------------------------------------------
(* The optimizers, between the calls of calcPath.                          *)

Optimize ==
  /\ at = "idle" /\ Len(path_) >= 3
  /\ at' = "shortcut" /\ optimized' = path_ /\ index' = 2
  /\ UNCHANGED <<graph, ends, isRunning_, path, path_, search, node, dfs, result>>

\* vector::erase
Without(seq, k) == SubSeq(seq, 1, k - 1) \o SubSeq(seq, k + 1, Len(seq))

\* ShortcutOptimizer::optimize
Shortcut ==
  /\ at = "shortcut"
  /\ IF index = Len(optimized)
     THEN /\ at' = "idle" /\ path_' = optimized /\ UNCHANGED opt
     ELSE /\ IF <<optimized[index - 1], optimized[index + 1]>> \in Reachable
             THEN optimized' = Without(optimized, index) /\ UNCHANGED index
             ELSE index' = index + 1 /\ UNCHANGED optimized
          /\ UNCHANGED <<at, path_>>
  /\ UNCHANGED <<graph, ends, isRunning_, path, search, node, dfs, result>>

\* RandomShortcutOptimizer::optimize, between two points on segments a and b.
\* What is left of the segments is not looked at again, at samples of its own.
RandomShortcut(a, b) ==
  /\ at = "idle" /\ Len(path_) \in 3 .. MaxPath
  /\ a < b
  /\ \E c \in Inside[<<path_[a], path_[a + 1]>>],
        d \in Inside[<<path_[b], path_[b + 1]>>] :
       /\ <<c, d>> \in Reachable
       /\ path_' = SubSeq(path_, 1, a) \o <<c, d>>
                     \o SubSeq(path_, b + 1, Len(path_))
       /\ pieces' = pieces \cup {<<path_[a], c>>, <<d, path_[b + 1]>>}
  /\ UNCHANGED <<graph, start_, goal_, fresh, calls, cancelled, isRunning_, path,
                 at, search, node, dfs, opt, result>>

-----------------------------------------------------------------------------
CalcPath ==
  /\ ~key
  /\ \/ Prepare \/ Begin \/ \E q \in Config : Search(q)
     \/ Connect \/ GiveUp \/ TraceStart \/ TraceGoal \/ Integrate
     \/ \E q \in Config : Build(q)
     \/ BuildDone \/ Link \/ AddEnds \/ Attach \/ DFS
     \/ Shortcut

Next ==
  \/ \E name \in {"RRT", "RRTconnect", "PRM"}, s, g \in Config : Call(name, s, g)
  \/ CalcPath \/ Stop \/ Overlap \/ Key \/ Optimize
  \/ \E a, b \in 1 .. Len(path_) - 1 : RandomShortcut(a, b)

\* A call that runs goes on: but for the key, its thread waits for no one.
Spec == Init /\ [][Next]_vars /\ WF_vars(CalcPath)

-----------------------------------------------------------------------------
TypeOK ==
  /\ algorithm_ \in {"none", "RRT", "RRTconnect", "PRM"}
  /\ pos \in Seq(Config) /\ edges \in Seq(Nodes \X Nodes)
  /\ Ta_ \in Seq(Nodes) /\ Tb_ \in Seq(Nodes)
  /\ start_ \in Config /\ goal_ \in Config /\ qNew \in Config
  /\ isRunning_ \in BOOLEAN /\ isTaStart \in BOOLEAN
  /\ path \in Seq(Config) /\ path_ \in Seq(Config) /\ optimized \in Seq(Config)
  /\ at \in {"idle", "prepare", "begin", "search", "connect", "trace",
             "traceGoal", "integrate", "build", "link", "ends", "attach", "dfs",
             "shortcut", "undefined"}
  /\ i \in Nat /\ j \in Nat /\ index \in Nat /\ calls \in 0 .. MaxCalls
  /\ {startNode, goalNode, node} \subseteq Nodes \cup {NoNode}
  /\ stack \in Seq(Nodes) /\ visited \subseteq Nodes
  /\ result \in BOOLEAN /\ fresh \in BOOLEAN /\ key \in BOOLEAN
  /\ cancelled \in BOOLEAN /\ pieces \subseteq Config \X Config

Connected(p) == \A k \in 1 .. Len(p) - 1 : <<p[k], p[k + 1]>> \in Reachable
Joined(p) == \A k \in 1 .. Len(p) - 1 : <<p[k], p[k + 1]>> \in Reachable \cup pieces

(* "The path from start_ to goal_ is planned" (Algorithm.h): unless calls   *)
(* have overlapped, a path of the planner, optimized or not, ends at the    *)
(* goal of this call, and a successful call has one.  It goes by ways that  *)
(* isReachable has accepted in the direction of the path, but for those a   *)
(* random shortcut has cut short.  It begins at the start of this call      *)
(* unless an RRT is used again, whose trees still hang from the starts and  *)
(* goals of earlier calls.                                                  *)
PathSound ==
  at # "undefined" =>
    /\ at = "idle" /\ result => path_ # <<>>
    /\ path_ # <<>> =>
         /\ Joined(path_)
         /\ path_[Len(path_)] = goal_
         /\ fresh \/ ~IsRRT => path_[1] = start_

(* The path does not collide: each of its configurations is free, and so is *)
(* every sample getPath puts on one of its ways, other than the cut ones,   *)
(* though the rounds of checkCollision skip about and stop by a count, and  *)
(* though a way may have been taken from a tree that grew towards it.       *)
CollisionFree ==
  at # "undefined" =>
    /\ \A k \in DOMAIN path_ : path_[k] \in Free
    /\ \A k \in 1 .. Len(path_) - 1 :
         <<path_[k], path_[k + 1]>> \in pieces \/ Colliding[<<path_[k], path_[k + 1]>>] = {}

(* A call of an RRT returns, and so does a call that stopPlanning has       *)
(* reached after preparePlanning, though only some of the loops look at     *)
(* isRunning_ and path() follows parents and children through trees that    *)
(* earlier calls have merged.  There are two exceptions: extend waits for a *)
(* key that nobody presses, and calls overlap.                              *)
Returns ==
  at \notin {"idle", "prepare"} /\ (IsRRT \/ ~isRunning_)
    ~> at \in {"idle", "undefined"} \/ []key
=============================================================================
