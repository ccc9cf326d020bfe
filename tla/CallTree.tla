------------------------------ MODULE CallTree ------------------------------
(***************************************************************************)
(* `gogol calls` and the MCP tool of that name: the depth-first walk over  *)
(* the stored call graph (print_tree, collect_edges_recursive).  Callers   *)
(* and callees are walked alike, each with a visited set of its own: an    *)
(* edge goes from a function to one that the walk lists under it.  The     *)
(* order of the stored edges is left open.                                 *)
(***************************************************************************)
EXTENDS Naturals, Sequences

CONSTANTS
  Functions,
  CallGraphs,   \* the sets of edges that may be stored
  CallDepths    \* the depths a client may ask for

ASSUME CallTreeAssumption ==
  /\ CallGraphs \subseteq SUBSET (Functions \X Functions)
  /\ CallDepths \subseteq Nat \ {0}

VARIABLES
  edges,      \* the graph the command has loaded
  calls,      \* "idle", "walking" or "answered"
  asked,      \* the function it was asked for, in a set
  depth,
  visited,
  stack,      \* the open calls of print_tree, each with the edges left to its loop
  tree        \* what has been reported

callVars == <<edges, calls, asked, depth, visited, stack, tree>>

Report == [name : Functions, depth : Nat, parent : Functions]

CallTreeTypeOK ==
  /\ edges \in SUBSET (Functions \X Functions)
  /\ calls \in {"idle", "walking", "answered"}
  /\ asked \in SUBSET Functions
  /\ depth \in Nat
  /\ visited \in SUBSET Functions
  /\ stack \in Seq([name : Functions, todo : SUBSET Functions, level : Nat])
  /\ tree \in SUBSET Report

CallTreeInit ==
  /\ edges = {} /\ calls = "idle" /\ asked = {} /\ depth = 0
  /\ visited = {} /\ stack = <<>> /\ tree = {}

-----------------------------------------------------------------------------

\* find_callees, find_callers
Neighbours(f) == {g \in Functions : <<f, g>> \in edges}

Frame(f, level) == [name |-> f, todo |-> Neighbours(f), level |-> level]

\* The command loads the graph and opens the outermost loop, the name visited.
Calls(f, d) ==
  /\ calls = "idle"
  /\ edges' \in CallGraphs /\ calls' = "walking" /\ asked' = {f} /\ depth' = d
  /\ visited' = {f}
  /\ stack' = <<Frame(f, 1)'>>
  /\ UNCHANGED tree

\* At depth 1 the MCP tool lists the edges without a walk (as the command lists the
\* callees of a name with many definitions): the name itself too.
Direct(f) ==
  /\ calls = "idle"
  /\ edges' \in CallGraphs /\ calls' = "answered" /\ asked' = {f} /\ depth' = 1
  /\ tree' = {[name |-> g, depth |-> 1, parent |-> f] : g \in Neighbours(f)'}
  /\ UNCHANGED <<visited, stack>>

Top == stack[Len(stack)]

\* Mutant: the recursive call gets its caller's level.
DescendSameLevel(g, frames) ==
  IF Top.level < depth THEN Append(frames, Frame(g, Top.level)) ELSE frames

\* Mutant: only what is listed first level is expanded.
DescendOnce(g, frames) ==
  IF Top.level < depth /\ Len(frames) = 1 THEN Append(frames, Frame(g, Top.level + 1)) ELSE frames

Descend(g, frames) ==
  IF Top.level < depth THEN Append(frames, Frame(g, Top.level + 1)) ELSE frames

\* One pass of the innermost loop.
Visit(g) ==
  LET frames == [stack EXCEPT ![Len(stack)].todo = @ \ {g}] IN
  /\ calls = "walking" /\ stack # <<>> /\ g \in Top.todo
  /\ IF g \in visited
       THEN stack' = frames /\ UNCHANGED <<visited, tree>>
       ELSE /\ visited' = visited \cup {g}
            /\ tree' = tree \cup {[name |-> g, depth |-> Top.level, parent |-> Top.name]}
            /\ stack' = Descend(g, frames)
  /\ UNCHANGED <<edges, calls, asked, depth>>

\* The innermost loop is through.
Return ==
  /\ calls = "walking" /\ stack # <<>> /\ Top.todo = {}
  /\ stack' = SubSeq(stack, 1, Len(stack) - 1)
  /\ calls' = IF Len(stack) = 1 THEN "answered" ELSE "walking"
  /\ UNCHANGED <<edges, asked, depth, visited, tree>>

CallTreeNext ==
  \/ \E f \in Functions, d \in CallDepths : Calls(f, d)
  \/ \E f \in Functions : Direct(f) \/ Visit(f)
  \/ Return

CallTreeSpec == CallTreeInit /\ [][CallTreeNext]_callVars

-----------------------------------------------------------------------------
(* Properties.                                                             *)

\* The tree hangs together and keeps to the depth: a function reported at some depth
\* has an edge from the one it is reported under, which is the function asked for at
\* depth 1 and otherwise one reported a level above.
TreeHangsTogether ==
  \A e \in tree :
    /\ <<e.parent, e.name>> \in edges
    /\ e.depth \in 1..depth
    /\ IF e.depth = 1 THEN e.parent \in asked
                      ELSE \E p \in tree : p.name = e.parent /\ p.depth + 1 = e.depth

\* Nothing above the depth limit is left without its neighbours: when the walk is
\* over, each edge of the function asked for, and of each one reported above the limit,
\* leads to a function that is in the tree or was asked for.  (One reported at the limit is not
\* expanded, even if it is met again higher up.)
TreeComplete ==
  calls = "answered" =>
    \A f \in asked \cup {e.name : e \in {r \in tree : r.depth < depth}} :
      Neighbours(f) \subseteq asked \cup {e.name : e \in tree}
=============================================================================
