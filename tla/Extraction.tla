----------------------------- MODULE Extraction -----------------------------
(***************************************************************************)
(* What the indexer takes from one source file for the code graphs: the    *)
(* functions walk_functions finds in the syntax tree, the calls            *)
(* collect_calls gives to each and the metrics analyze_body counts         *)
(* (chunking/ts_chunker.cpp).                                              *)
(*                                                                         *)
(* The tree comes from tree-sitter.  Its node types are put in the classes *)
(* the code tells apart; a node's name is the node.                        *)
(***************************************************************************)
EXTENDS Naturals, Sequences, FiniteSets, FiniteSetsExt

CONSTANT MaxNodes      \* bound: nodes of a tree

ASSUME ExtractionAssumption == MaxNodes \in Nat \ {0}

VARIABLES
  kind, parent,        \* the tree: class and parent of each node, 1 the root
  extraction,          \* "parsing" or "done"
  callEdges,           \* call_graph: the caller's name and the call
  metrics              \* decisions, depth and returns by the function's name

extractionVars == <<kind, parent, extraction, callEdges, metrics>>

\* "function" is one of the four definitions collect_calls does not enter,
\* "method" a method_declaration; "variable" a declaration with its declarator;
\* "recursion" a call of the simple name of the function it is in; "logical" a
\* binary expression with a logical operator.
CallKinds == {"call", "recursion"}
Decisions == {"decision", "logical"}
Statements == CallKinds \cup Decisions \cup
              {"function", "method", "class", "variable", "return", "other"}
\* What a node may hold.
Holds(k, of) ==
  CASE k = "root"     -> {"other", "export", "class", "function", "variable"}
    [] k = "export"   -> {"class", "function", "variable"}
    [] k = "other"    -> {"function", "call", "arrow"}
    [] k = "class"    -> {"body"}
    [] k \in {"function", "method"} -> {"body"}
    [] k = "variable" -> {"arrow", "object", "call"}
    [] k = "arrow"    -> {"body", "call"}
    [] k = "object"   -> {"function", "arrow"}
    [] k = "call"     -> {"arrow"}
    [] k = "decision" -> {"body", "call", "logical"}
    [] k = "logical"  -> {"call", "arrow", "logical"}
    [] k = "body"     -> IF of = "class" THEN {"function", "method"} ELSE Statements
    [] OTHER          -> {}

Nodes == DOMAIN kind

ExtractionInit ==
  /\ kind = <<"root">> /\ parent = <<0>>
  /\ extraction = "parsing" /\ callEdges = {} /\ metrics = {}

\* tree-sitter, breadth first.
Parse(k, p) ==
  /\ extraction = "parsing" /\ Len(kind) < MaxNodes
  /\ p >= parent[Len(kind)]
  /\ k \in Holds(kind[p], IF p = 1 THEN "" ELSE kind[parent[p]])
  /\ kind' = Append(kind, k) /\ parent' = Append(parent, p)
  /\ UNCHANGED <<extraction, callEdges, metrics>>

-----------------------------------------------------------------------------
(* The walk.                                                               *)

is_function_def(n) == kind[n] \in {"function", "method"}

\* walk_functions: the node the walk has the context of where it comes to n, 1
\* without one, 0 where it never comes.  It goes into the bodies of classes and
\* the object literals of variables with their name, and not into functions.
WalkCtx[n \in Nodes] ==
  IF n = 1 THEN 1
  ELSE LET p == parent[n] IN
    CASE kind[p] = "class" -> IF WalkCtx[p] # 0 /\ kind[n] = "body" THEN p ELSE 0
      [] kind[p] = "variable" -> IF WalkCtx[p] # 0 /\ kind[n] = "object" THEN p ELSE 0
      [] is_function_def(p) -> 0
      [] OTHER -> WalkCtx[p]

Bodies(n) == {b \in Nodes : parent[b] = n /\ kind[b] = "body"}
Closes(n) == kind[n] = "arrow" /\ kind[parent[n]] = "variable"

\* The calls of the visitor: definitions by their name, closures by that of their
\* variable, each with its first body.
Visits ==
  {[ctx |-> WalkCtx[n], name |-> n, body |-> Min(Bodies(n))] :
     n \in {m \in Nodes : is_function_def(m) /\ WalkCtx[m] # 0 /\ Bodies(m) # {}}}
  \cup
  {[ctx |-> WalkCtx[parent[a]], name |-> parent[a], body |-> Min(Bodies(a))] :
     a \in {m \in Nodes : Closes(m) /\ WalkCtx[parent[m]] # 0 /\ Bodies(m) # {}}}

\* The nodes under a body that a recursion which skips some kinds comes to.
Below(body, skipped) ==
  LET in[n \in Nodes] == n = body \/ (n > body /\ kind[n] \notin skipped /\ in[parent[n]])
  IN {n \in Nodes : in[n]}

\* Mutant: nested functions are entered.
CollectEverywhere(v) == Below(v.body, {})
\* collect_calls enters callbacks, whose calls are the function's.
Collect(v) == Below(v.body, {"function"})

\* A call of the caller's own name is no edge; a method's is qualified.
CallsOf(v) ==
  {n \in Collect(v) : kind[n] \in CallKinds /\ ~(kind[n] = "recursion" /\ v.ctx = 1)}

\* analyze_body enters neither.  A logical operator is a decision and no deeper.
Analyzed(v) == Below(v.body, {"function", "arrow"})
Depths(v) ==
  LET depth[n \in Nodes] ==
        (IF n = v.body THEN 0 ELSE depth[parent[n]]) + (IF kind[n] = "decision" THEN 1 ELSE 0)
  IN {depth[n] : n \in Analyzed(v)}
Count(v, kinds) == Cardinality({n \in Analyzed(v) : kind[n] \in kinds})

\* extract_calls and extract_metrics.
ExtractFile ==
  /\ extraction = "parsing"
  /\ extraction' = "done"
  /\ callEdges' = UNION {{[ctx |-> v.ctx, name |-> v.name, call |-> n] : n \in CallsOf(v)} :
                         v \in Visits}
  /\ metrics' = {[ctx |-> v.ctx, name |-> v.name, cyclomatic |-> Count(v, Decisions) + 1,
                  returns |-> Count(v, {"return"}), depth |-> Max(Depths(v))] : v \in Visits}
  /\ UNCHANGED <<kind, parent>>

ExtractionNext == ExtractFile \/ \E p \in Nodes : \E k \in Statements \cup
                                     {"export", "body", "arrow", "object"} : Parse(k, p)

ExtractionSpec == ExtractionInit /\ [][ExtractionNext]_extractionVars

-----------------------------------------------------------------------------
(* Properties.                                                             *)

Above[n \in Nodes] == IF n = 1 THEN {} ELSE {parent[n]} \cup Above[parent[n]]
\* Definitions between a node and the function it may be attributed to.
DefinitionsBetween(f, n) == {d \in Above[n] : f \in Above[d] /\ kind[d] = "function"}
AtTopLevel(f) == \A a \in Above[f] : kind[a] \in {"root", "export", "other"}

\* A call is an edge of at most one function, one it stands in with no definition
\* in between, and of the function at the top level that it stands in so; each of
\* those functions has metrics, in which no decision counts twice.
AttributedOnce ==
  extraction = "done" =>
    /\ \A e, o \in callEdges : e.call = o.call => e = o
    /\ \A e \in callEdges : e.name \in Above[e.call] /\ DefinitionsBetween(e.name, e.call) = {}
    /\ \A f, n \in Nodes :
         /\ kind[f] = "function" /\ AtTopLevel(f) /\ kind[n] = "call"
         /\ f \in Above[n] /\ Bodies(f) # {} /\ Min(Bodies(f)) \in Above[n]
         /\ DefinitionsBetween(f, n) = {}
         => \E e \in callEdges : e.name = f /\ e.call = n
    /\ \A e \in callEdges : \E m \in metrics : m.name = e.name /\ m.ctx = e.ctx
    /\ MapThenSumSet(LAMBDA m : m.cyclomatic - 1, metrics)
         <= Cardinality({n \in Nodes : kind[n] \in Decisions})
=============================================================================
