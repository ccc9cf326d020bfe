----------------------------- MODULE McpSession -----------------------------
(***************************************************************************)
(* A `gogol mcp` process (mcp/mcp_server.cpp, mcp/tool_registry.h) as a    *)
(* client of the daemon: the commands of Rpc are those of its tools.       *)
(*                                                                         *)
(* The MCP server reads one request after another.  query, get, list and   *)
(* add_note (add_term does the same) make an RpcClient each, explore asks  *)
(* for related hits if it can, the other tools read the stores.  The       *)
(* session keeps a default index and the hits of the last answer that had  *)
(* some, to which `get` may refer by number.                               *)
(***************************************************************************)
EXTENDS Rpc

CONSTANTS
  EntryTypes,          \* types of entries, of "doc", "note" and "term"
  Indexes, Paths,      \* what else hits and arguments name
  Requests,            \* the requests that may come
  MaxHits,             \* bound: hits in a list
  NoCommand

None == "none"
Hit == [type : EntryTypes, index : Indexes, path : Paths]
Hits == UNION {[1 .. n -> Hit] : n \in 0 .. MaxHits}
\* A hit as a document of its path, which is how explore keeps it.
AsDoc(hit) == [hit EXCEPT !.type = "doc"]
AsDocs(hits) == [k \in DOMAIN hits |-> AsDoc(hits[k])]
Docs == {hits \in Hits : AsDocs(hits) = hits}

\* The arguments that matter here; result is the cursor of get, 0 for none.
Tools == {"query", "get", "list", "explore", "calls", "affected", "set_scope", "add_note"}
Request == [tool : Tools \cup {None}, type : EntryTypes \cup {None},
            index : Indexes \cup {None}, path : Paths \cup {None}, result : 0 .. MaxHits + 1]
NoRequest == [tool |-> None, type |-> None, index |-> None, path |-> None, result |-> 0]

\* Parameters the registry requires are there (validate_required).
Valid(r) ==
  \/ r.tool = "get"
  \/ /\ r.tool = "add_note" /\ r.index # None /\ r.path # None
     /\ r.type = None /\ r.result = 0
  \/ /\ r.tool \notin {"get", "add_note"} /\ r.path = None /\ r.type = None /\ r.result = 0
     /\ r.tool = "set_scope" => r.index # None

ASSUME McpAssumption ==
  /\ MaxHits \in Nat /\ NoCommand \notin Commands
  /\ "doc" \in EntryTypes /\ EntryTypes \subseteq {"doc", "note", "term"}
  /\ None \notin Indexes /\ None \notin Paths
  /\ Requests \subseteq {r \in Request : Valid(r)}

VARIABLES
  includeWrite,        \* [mcp] tools = read-write
  scope,               \* Session::default_index
  results,             \* Session::last_results
  asked,               \* the request being processed
  using,               \* the RpcClient its tool made
  found,               \* what explore has found in the stores
  fetched,             \* the location get asked the daemon for
  reply,               \* the answer to the last one: "" while there is none
  lister,              \* what listed hits last: its tool, or the definitions explore
                       \* has found where a name has several
  shown                \* the hits it listed

sessionVars ==
  <<includeWrite, scope, results, asked, using, found, fetched, reply, lister, shown>>
vars == <<rpcVars, sessionVars>>

NoHit == [type |-> None, index |-> None, path |-> None]

TypeOK ==
  /\ RpcTypeOK
  /\ includeWrite \in BOOLEAN
  /\ scope \in Indexes \cup {None}
  /\ results \in Hits /\ shown \in Hits /\ found \in Hits
  /\ lister \in {None, "query", "calls", "explore", "definitions"}
  /\ asked \in Request
  /\ using \in Commands \cup {NoCommand}
  /\ fetched \in Hit \cup {NoHit}
  /\ reply \in {"", "ok", "error"}

\* They have the environment and the build of the process.
Init ==
  /\ RpcInit
  /\ \A c, d \in Commands : who[c] = who[d]
  /\ includeWrite \in BOOLEAN
  /\ scope = None /\ results = <<>> /\ shown = <<>> /\ found = <<>> /\ lister = None
  /\ asked = NoRequest /\ using = NoCommand
  /\ fetched = NoHit /\ reply = "ok"

-----------------------------------------------------------------------------
(* Requests.                                                               *)

Ask(r) ==
  /\ reply # ""
  /\ \E c \in Commands : cpc[c] = "idle"
  /\ asked' = r /\ reply' = ""
  /\ UNCHANGED <<rpcVars, includeWrite, scope, results, using, found, fetched,
                 lister, shown>>

Processing(tool) == reply = "" /\ asked.tool = tool
\* has("index") or the session's default.
Scoped == IF asked.index # None THEN asked.index ELSE scope

\* The tool's answer; hits replace the session's if it lists some.
Replies(result) ==
  /\ reply' = result /\ asked' = NoRequest /\ using' = NoCommand
  /\ found' = <<>> /\ fetched' = NoHit
Answers(result) == Replies(result) /\ UNCHANGED <<includeWrite, scope>>
\* set_last_results, after an answer that lists hits.
Lists(tool, hits) == lister' = tool /\ shown' = hits
Caches(hits) == results' = hits
CachesNothing == UNCHANGED <<results, lister, shown>>

InScope(hits) == Scoped = None \/ \A k \in DOMAIN hits : hits[k].index = Scoped

\* find_tool: a tool that writes is refused unless the configuration allows it.
Allowed == asked.tool = "add_note" => includeWrite

Refuse ==
  /\ reply = "" /\ ~Allowed
  /\ Answers("error") /\ CachesNothing /\ UNCHANGED rpcVars

SetScope ==
  /\ Processing("set_scope")
  /\ scope' = asked.index
  /\ Replies("ok") /\ CachesNothing
  /\ UNCHANGED <<rpcVars, includeWrite>>

Affected ==
  /\ Processing("affected")
  /\ Answers("ok") /\ CachesNothing /\ UNCHANGED rpcVars

\* The answer lists callers, then callees, and so does the cache.
Calls ==
  /\ Processing("calls")
  /\ \E callers, callees \in Docs :
       /\ Len(callers) + Len(callees) <= MaxHits /\ InScope(callers) /\ InScope(callees)
       /\ Caches(callers \o callees) /\ Lists("calls", callers \o callees)
  /\ Answers("ok") /\ UNCHANGED rpcVars

\* explore, from the stores: no definition; several, which it lists and does not
\* cache; or one with its callers and callees, to which it adds related hits.
ExploreFails ==
  /\ Processing("explore") /\ found = <<>>
  /\ Answers("error") /\ CachesNothing /\ UNCHANGED rpcVars

ExploreChoice ==
  /\ Processing("explore") /\ found = <<>>
  /\ \E definitions \in Docs :
       /\ Len(definitions) > 1 /\ InScope(definitions)
       /\ Lists("definitions", definitions)
  /\ UNCHANGED results
  /\ Answers("ok") /\ UNCHANGED rpcVars

ExploreFinds ==
  /\ Processing("explore") /\ found = <<>>
  /\ \E hits \in Docs \ {<<>>} : InScope(hits) /\ found' = hits
  /\ UNCHANGED <<rpcVars, includeWrite, scope, results, asked, using, fetched, reply,
                 lister, shown>>

-----------------------------------------------------------------------------
(* Tools that ask the daemon.                                              *)

\* The constructor of RpcClient.  Which of the commands to come this one is
\* makes no difference.
OpenClient ==
  /\ reply = "" /\ Allowed /\ using = NoCommand
  /\ asked.tool \in {"query", "get", "list", "add_note"} \/ found # <<>>
  /\ using' = CHOOSE c \in Commands : cpc[c] = "idle"
  /\ Connect(using') \/ ConnectFails(using')
  /\ UNCHANGED <<includeWrite, scope, results, asked, found, fetched, reply,
                 lister, shown>>

\* The process goes on once its command has come to step; killed, it does not.
Mine(step) ==
  reply = "" /\ using \in Commands /\ cpc[using] = step /\ answer[using] # "killed"

Cursor == IF asked.result \in DOMAIN results THEN results[asked.result] ELSE NoHit
Argued == [type |-> asked.type, index |-> Scoped, path |-> asked.path]
\* Mutant: the cursor wins over the arguments.
LocationOfCursor == IF asked.result > 0 THEN Cursor ELSE Argued
\* handle_get: a cursor fills in what neither the arguments nor, for the index,
\* the session name; a cursor that leads nowhere is an error.
Location ==
  IF asked.result = 0 THEN Argued
  ELSE IF Cursor = NoHit THEN NoHit
  ELSE [part \in {"type", "index", "path"} |->
          IF Argued[part] = None THEN Cursor[part] ELSE Argued[part]]
\* Mutant: a path is enough.
PathOnly == Location.path # None
Located == Location \in Hit

Sends ==
  /\ Mine("ready")
  /\ asked.tool = "get" => Located
  /\ asked.tool = "list" => Scoped # None
  /\ SendCommand(using)
  /\ fetched' = IF asked.tool = "get" THEN Location ELSE NoHit
  /\ UNCHANGED <<includeWrite, scope, results, asked, using, found, reply, lister, shown>>

GetUnlocated ==
  /\ Mine("ready") /\ asked.tool = "get" /\ ~Located
  /\ Disconnect(using) /\ Answers("error") /\ CachesNothing

\* list without an index is an overview of the stores.
Overview ==
  /\ Mine("ready") /\ asked.tool = "list" /\ Scoped = None
  /\ Disconnect(using) /\ Answers("ok") /\ CachesNothing

Succeeded == answer[using] = "ok"

QueryReturns ==
  /\ Mine("done") /\ asked.tool = "query"
  /\ IF Succeeded
     THEN /\ \E hits \in Hits : InScope(hits) /\ Caches(hits) /\ Lists("query", hits)
          /\ Answers("ok")
     ELSE CachesNothing /\ Answers("error")
  /\ UNCHANGED rpcVars

\* get and list.  To get, no content is an error like any other.
ReadReturns ==
  /\ Mine("done") /\ asked.tool \in {"get", "list"}
  /\ \/ Succeeded /\ Answers("ok")
     \/ (~Succeeded \/ asked.tool = "get") /\ Answers("error")
  /\ CachesNothing /\ UNCHANGED rpcVars

\* Mutant: only "Error:" is a failure.
ErrorOnly(result) == result = "Error: err"
\* What handle_add_note knows as failures.
Failed(result) == result = "Error: err" \/ result \in Failures

AddReturns ==
  /\ Mine("done") /\ asked.tool = "add_note"
  /\ Answers(IF Failed(answer[using]) THEN "error" ELSE "ok") /\ CachesNothing
  /\ UNCHANGED rpcVars

\* Without a daemon, or if its query fails, explore has no related hits.  It
\* lists them whatever their type, and keeps them all as documents.
ExploreReturns ==
  /\ Mine("done") /\ found # <<>>
  /\ \E related \in Hits :
       /\ ~Succeeded => related = <<>>
       /\ Len(found \o related) <= MaxHits /\ InScope(related)
       /\ Caches(found \o AsDocs(related)) /\ Lists("explore", found \o related)
  /\ Answers("ok") /\ UNCHANGED rpcVars

-----------------------------------------------------------------------------

SessionStep ==
  \/ Refuse \/ SetScope \/ Affected \/ Calls \/ ExploreFails \/ ExploreChoice
  \/ ExploreFinds \/ OpenClient \/ Sends \/ GetUnlocated \/ Overview
  \/ QueryReturns \/ ReadReturns \/ AddReturns \/ ExploreReturns

ConnectionStep(c) == (ClientStep(c) \/ HandlerStep(c)) /\ UNCHANGED sessionVars

Next ==
  \/ \E r \in Requests : Ask(r)
  \/ SessionStep
  \/ \E c \in Commands : ConnectionStep(c)
  \/ (Crash \/ Start \/ \E c \in Commands : Break(c) \/ Unacknowledged(c)) /\ UNCHANGED sessionVars

\* Threads and processes run, and a job ends (Daemon's EveryRequestAnswered).
\* No crashed daemon need be started again, no silent connection need be given
\* up, and no request need come.
Fairness ==
  /\ WF_vars(SessionStep)
  /\ \A c \in Commands :
       /\ WF_vars(ClientStep(c) /\ UNCHANGED sessionVars)
       /\ WF_vars(HandlerStep(c) /\ UNCHANGED sessionVars)

Spec == Init /\ [][Next]_vars /\ Fairness

-----------------------------------------------------------------------------
(* Properties.                                                             *)

\* `get {result: N}` fetches the N-th hit the client was shown last, whatever has
\* failed since or listed none, where neither the arguments nor, for the index,
\* the session's default say otherwise; an argument given wins.  Two answers of
\* explore are the exceptions: of a choice of definitions none can be fetched by
\* number, and a related note or term is fetched as a document of its path.
CursorReachesItsHit ==
  fetched # NoHit =>
    /\ asked.result > 0 /\ lister # "definitions" =>
         LET hit == shown[asked.result] IN
           /\ asked.path = None => fetched.path = hit.path
           /\ Scoped = None => fetched.index = hit.index
           /\ asked.type = None =>
                fetched.type = IF lister = "explore" THEN "doc" ELSE hit.type
    /\ asked.type # None => fetched.type = asked.type
    /\ asked.index # None => fetched.index = asked.index
    /\ asked.path # None => fetched.path = asked.path

\* An answer of ok to add_note means that one daemon carried it out once and
\* without an error, whatever became of the connection; and the session may write.
AckedNoteIsStored ==
  [][asked.tool = "add_note" /\ reply = "" /\ reply' = "ok" =>
       includeWrite /\ outcome[using] = "ok" /\ Len(handled[using]) = 1]_vars

Killed == \E c \in Commands : answer[c] = "killed"
SilentPeer == \E c \in Commands : linked[c] = "silent"

\* Every request is answered, with the daemon or without it, unless a write to a
\* daemon that has gone kills the process; and no handler outlives its connection
\* for ever.  Over TCP, where nothing times out, both need a peer that is not
\* silent; a connection that is reset after it was silent will do.
RequestsAnswered ==
  reply = "" ~>
    \/ SilentPeer
    \/ (reply # "" \/ Killed) /\ \A c \in Commands : spc[c] \in {"none", "closed"}
=============================================================================
