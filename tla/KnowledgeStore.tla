--------------------------- MODULE KnowledgeStore ---------------------------
(***************************************************************************)
(* What the daemon promises about the knowledge that exists nowhere else:  *)
(* the notes and the glossary terms.  Every request takes effect at most   *)
(* once, at one instant between its call and its return; a request that is *)
(* answered OK has taken effect; nothing but a request changes the store,  *)
(* and a crash leaves the store as it is and only loses the answers.       *)
(* (An ERR answer promises nothing: see Daemon.tla.)                       *)
(***************************************************************************)
EXTENDS Naturals

CONSTANTS Items,    \* the notes and the glossary terms
          Clients,  \* connections, one request at a time each
          Contents  \* what an item may hold: numbers from 1 on

Empty == 0          \* the content of an item that is not in the store
Idle == [op |-> "none"]
Request == [op : {"add"}, item : Items, content : Contents]
           \cup [op : {"rm"}, item : Items, content : {Empty}]

VARIABLES store,    \* [Items -> contents]
          request,  \* what each client has asked for
          phase     \* how far that request is

vars == <<store, request, phase>>

TypeOK ==
  /\ store \in [Items -> Contents \cup {Empty}]
  /\ request \in [Clients -> Request \cup {Idle}]
  /\ phase \in [Clients -> {"idle", "called", "applied", "ok", "err"}]

Init ==
  /\ store \in [Items -> Contents \cup {Empty}]
  /\ request = [c \in Clients |-> Idle]
  /\ phase = [c \in Clients |-> "idle"]

Move(c, from, to) ==
  /\ phase[c] = from
  /\ phase' = [phase EXCEPT ![c] = to]

Call(c) ==
  /\ Move(c, "idle", "called")
  /\ \E r \in Request : request' = [request EXCEPT ![c] = r]
  /\ UNCHANGED store

\* The linearization point.  Removing an absent item is not an effect.
Apply(c) ==
  /\ Move(c, "called", "applied")
  /\ request[c].op = "rm" => store[request[c].item] # Empty
  /\ store' = [store EXCEPT ![request[c].item] = request[c].content]
  /\ UNCHANGED request

Succeed(c) ==
  /\ Move(c, "applied", "ok")
  /\ UNCHANGED <<store, request>>

Fail(c) ==
  /\ \/ Move(c, "called", "err")
     \/ Move(c, "applied", "err")
  /\ UNCHANGED <<store, request>>

Return(c) ==
  /\ \/ Move(c, "ok", "idle")
     \/ Move(c, "err", "idle")
  /\ request' = [request EXCEPT ![c] = Idle]
  /\ UNCHANGED store

Crash ==
  /\ request' = [c \in Clients |-> Idle]
  /\ phase' = [c \in Clients |-> "idle"]
  /\ UNCHANGED store

Next ==
  \/ \E c \in Clients : Call(c) \/ Apply(c) \/ Succeed(c) \/ Fail(c) \/ Return(c)
  \/ Crash

Spec == Init /\ [][Next]_vars
=============================================================================
