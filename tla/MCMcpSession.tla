---------------------------- MODULE MCMcpSession ----------------------------
(* Small instances of McpSession for TLC.                                  *)
EXTENDS McpSession

CONSTANTS mcp1, mcp2, old, new, web, api, main

TwoCommands == {mcp1, mcp2}
TwoBuilds == {old, new}
TwoIndexes == {web, api}
OnePath == {main}
Local(b, big) == [via |-> "unix", key |-> "none", build |-> b, huge |-> big]
Remote(k, big) == [via |-> "tcp", key |-> k, build |-> new, huge |-> big]
SomeCallers ==
  {Local(new, FALSE), Remote("same", FALSE), Remote("none", FALSE),
   Remote("other bytes", TRUE)}
DocsAndNotes == {"doc", "note"}
Asking(tool, index) ==
  [tool |-> tool, type |-> None, index |-> index, path |-> None, result |-> 0]
SomeRequests ==
  {Asking("list", None), Asking("set_scope", api)} \cup
  {Asking(tool, web) : tool \in {"query", "calls", "explore", "affected"}} \cup
  {[Asking("get", None) EXCEPT !.result = 2],
   [Asking("get", web) EXCEPT !.result = 2, !.type = "note"],
   [Asking("get", None) EXCEPT !.type = "doc", !.path = main],
   [Asking("add_note", web) EXCEPT !.path = main]}

\* Keys do not matter to a unix socket, nor builds to TCP.  One caller of a server
\* that may not write is enough, and one that a server without keys rejects.
SmallInit ==
  /\ Init
  /\ \A c \in Commands :
       /\ IF who[c].via = "unix" THEN ~keyed ELSE build = new
       /\ who[c].key = "same" => keyed
       /\ includeWrite <=> who[c].key # "other bytes"
SmallSpec == SmallInit /\ [][Next]_vars /\ Fairness
=============================================================================
