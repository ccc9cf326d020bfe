------------------------------- MODULE Watcher -------------------------------
(***************************************************************************)
(* src/daemon/file_watcher.cpp, as built for Linux: the watch thread reads *)
(* inotify events and marks indexes, the debounce thread it has started    *)
(* fires the daemon's callback for the marks that have settled.            *)
(* DaemonThreads composes it with the threads it calls into.               *)
(*                                                                         *)
(* A configuration is the set of directories it indexes; configurations    *)
(* are numbered in the order load_config gives them.  An event is an event *)
(* for a file the index scans: mark_changed drops the others.  How long a  *)
(* mark has been quiet is one of "fresh" and "due".                        *)
(***************************************************************************)
EXTENDS Naturals, Sequences, FiniteSetsExt

CONSTANTS
  Dirs,      \* directories
  Configs,   \* the directories of each configuration
  Watched,   \* the configurations for which effective_watch holds
  MaxEdits   \* bound: changes to each directory

Indexes == DOMAIN Configs

ASSUME WatcherAssumption ==
  /\ Configs \in Seq(SUBSET Dirs)
  /\ Watched \subseteq Indexes
  /\ MaxEdits \in Nat

VARIABLES
  version,   \* the state of each directory: how many times it has changed
  events,    \* directories with unread inotify events
  pending,   \* g_pending: "none", "fresh", "due"
  watching,  \* g_watching
  watcher,   \* the watch thread: "off", "starting", "loop", "joining", "ended"
  debounce,  \* the debounce thread: "off", "sleep", "fire", "ended"
  ready      \* its local: the indexes to fire the callback for

watcherVars == <<version, events, pending, watching, watcher, debounce, ready>>

WatcherTypeOK ==
  /\ version \in [Dirs -> 0 .. MaxEdits]
  /\ events \subseteq Dirs
  /\ pending \in [Indexes -> {"none", "fresh", "due"}]
  /\ watching \in BOOLEAN
  /\ watcher \in {"off", "starting", "loop", "joining", "ended"}
  /\ debounce \in {"off", "sleep", "fire", "ended"}
  /\ ready \subseteq Indexes

WatcherInit ==
  /\ version = [d \in Dirs |-> 0]
  /\ events = {}
  /\ pending = [i \in Indexes |-> "none"]
  /\ watching = FALSE
  /\ watcher = "off" /\ debounce = "off"
  /\ ready = {}

WatchedDirs == UNION {Configs[i] : i \in Watched}

\* g_dir_to_index: a directory has one index, that of its last configuration.
IndexOf(d) == Max({i \in Watched : d \in Configs[i]})

\* start_file_watcher and stop_file_watcher, called by the main thread.
StartWatcher ==
  /\ WatchedDirs # {}
  /\ watching' = TRUE /\ watcher' = "starting"
  /\ UNCHANGED <<version, events, pending, debounce, ready>>

StopWatcher ==
  /\ watching' = FALSE
  /\ UNCHANGED <<version, events, pending, watcher, debounce, ready>>

WatcherJoined == watcher \in {"off", "ended"}

\* The watch thread.  Changes made before it has added its watches are not seen.
AddWatches ==
  /\ watcher = "starting"
  /\ watcher' = "loop" /\ debounce' = "sleep"
  /\ UNCHANGED <<version, events, pending, watching, ready>>

\* Somebody changes a file.
Edit(d) ==
  /\ version[d] < MaxEdits
  /\ version' = [version EXCEPT ![d] = @ + 1]
  /\ events' = IF watcher = "loop" /\ d \in WatchedDirs THEN events \cup {d} ELSE events
  /\ UNCHANGED <<pending, watching, watcher, debounce, ready>>

MarkChanged(d) ==
  /\ watcher = "loop" /\ d \in events
  /\ events' = events \ {d}
  /\ pending' = [pending EXCEPT ![IndexOf(d)] = "fresh"]
  /\ UNCHANGED <<version, watching, watcher, debounce, ready>>

\* Events it has not read are dropped.
LeaveWatchLoop ==
  /\ watcher = "loop" /\ ~watching
  /\ watcher' = "joining" /\ events' = {}
  /\ UNCHANGED <<version, pending, watching, debounce, ready>>

JoinDebounce ==
  /\ watcher = "joining" /\ debounce = "ended"
  /\ watcher' = "ended"
  /\ UNCHANGED <<version, events, pending, watching, debounce, ready>>

\* The debounce window of an index passes without an event.
Settle(i) ==
  /\ pending[i] = "fresh"
  /\ pending' = [pending EXCEPT ![i] = "due"]
  /\ UNCHANGED <<version, events, watching, watcher, debounce, ready>>

Due == {i \in Indexes : pending[i] = "due"}

\* The debounce thread wakes up.  (Iterations that find nothing are left out;
\* the one it is in when the watcher stops is not.)
Collect ==
  /\ debounce = "sleep" /\ (Due # {} \/ ~watching)
  /\ ready' = Due
  /\ pending' = [i \in Indexes |-> IF i \in Due THEN "none" ELSE pending[i]]
  /\ debounce' = "fire"
  /\ UNCHANGED <<version, events, watching, watcher>>

\* The callback, which DaemonThreads conjoins with what it does.
Fire(i) ==
  /\ debounce = "fire" /\ i \in ready
  /\ ready' = ready \ {i}
  /\ UNCHANGED <<version, events, pending, watching, watcher, debounce>>

NextIteration ==
  /\ debounce = "fire" /\ ready = {}
  /\ debounce' = IF watching THEN "sleep" ELSE "ended"
  /\ UNCHANGED <<version, events, pending, watching, watcher, ready>>
=============================================================================
