----------------------------- MODULE Lifecycle -----------------------------
(***************************************************************************)
(* The server from start to start: master processes that are launched one  *)
(* after another or at once on one configuration file, the pid file they   *)
(* share, the addresses they bind, the command that stops them, and the    *)
(* children that outlive them.                                             *)
(*                                                                         *)
(* Every access to the pid file is a step: between two of them any other   *)
(* process may have changed it.                                            *)
(***************************************************************************)
EXTENDS Naturals

CONSTANTS
  Masters,     \* the master processes (pids) there will be
  Nodes,       \* the nodes a configuration may name
  Endpoints,   \* the addresses and ports they may listen at
  NoFile,      \* there is no pid file
  Empty,       \* it has been created and not been written
  Mixed,       \* it holds digits of two pids
  Nobody,      \* no pid
  MaxStops     \* bound: how often somebody runs the stop command

ASSUME LifecycleAssumption ==
  /\ MaxStops \in Nat
  /\ Masters \cap {NoFile, Empty, Mixed, Nobody} = {}
  /\ NoFile # Empty /\ Mixed \notin {NoFile, Empty}

VARIABLES
  at,          \* where each master is
  todo,        \* the nodes whose endpoint it has not bound yet
  ports,       \* the endpoints its sockets, or its children's, are bound to
  kids,        \* the masters whose children live
  termed,      \* the masters that have a SIGTERM to handle
  file,        \* the pid file
  stopper,     \* the stop command that runs
  target,      \* the pid it has read
  stops,       \* how many there have been
  overlapped   \* two masters have been starting at the same time

vars == <<at, todo, ports, kids, termed, file, stopper, target, stops, overlapped>>

Places == {"off", "loaded", "creating", "created", "orphaned", "written",
           "binding", "running", "deaf", "ending", "deleting", "removing",
           "ended", "killed"}

\* In the loop, with its signals or without them.
Runs == {"running", "deaf"}

TypeOK ==
  /\ at \in [Masters -> Places]
  /\ todo \in [Masters -> SUBSET (Nodes \X Endpoints)]
  /\ ports \in [Masters -> SUBSET Endpoints]
  /\ kids \subseteq Masters
  /\ termed \subseteq Masters
  /\ file \in Masters \cup {NoFile, Empty, Mixed}
  /\ stopper \in {"idle", "opening", "killing"}
  /\ target \in Masters \cup {Nobody}
  /\ stopper = "killing" => target \in Masters
  /\ stops \in 0 .. MaxStops
  /\ overlapped \in BOOLEAN

Init ==
  /\ at = [m \in Masters |-> "off"]
  /\ todo = [m \in Masters |-> {}]
  /\ ports = [m \in Masters |-> {}]
  /\ kids = {}
  /\ termed = {}
  /\ file = NoFile
  /\ stopper = "idle"
  /\ target = Nobody
  /\ stops = 0
  /\ overlapped = FALSE

Moves(m, from, to) == at[m] = from /\ at' = [at EXCEPT ![m] = to]

-----------------------------------------------------------------------------
(* A master starts: init.                                                  *)

\* load() fails and run() ends; whatever the file holds is read anew by each
\* master that starts.
RefuseConfig(m) ==
  /\ Moves(m, "off", "ending")
  /\ UNCHANGED <<todo, ports, kids, termed, file, stopper, target, stops, overlapped>>

\* Some of the nodes listen, be it at the same endpoint: config.cpp 9 forbids
\* that, but the loader does not compare the endpoints (59-63).
TakeConfig(m) ==
  /\ \E listening \in SUBSET Nodes : \E endpoint \in [listening -> Endpoints] :
       todo' = [todo EXCEPT ![m] = {<<n, endpoint[n]>> : n \in listening}]
  /\ Moves(m, "off", "loaded")
  /\ UNCHANGED <<ports, kids, termed, file, stopper, target, stops, overlapped>>

\* Between its look for the file and its write.
Starting == {m \in Masters : at[m] \in {"creating", "created", "orphaned"}}

\* create_pidfile: exists() ...
LookForFile(m) ==
  /\ Moves(m, "loaded", IF file = NoFile THEN "creating" ELSE "ending")
  /\ overlapped' = (overlapped \/ (file = NoFile /\ Starting # {}))
  /\ UNCHANGED <<todo, ports, kids, termed, file, stopper, target, stops>>

\* ... the file is created, or truncated ...
CreateFile(m) ==
  /\ Moves(m, "creating", "created")
  /\ file' = Empty
  /\ UNCHANGED <<todo, ports, kids, termed, stopper, target, stops, overlapped>>

\* ... and written from its beginning: of what another start has written
\* there meanwhile, and is longer, the end remains.
WriteFile(m) ==
  /\ Moves(m, "created", "written")
  /\ file' \in {m} \cup IF file = Empty THEN {} ELSE {Mixed}
  /\ UNCHANGED <<todo, ports, kids, termed, stopper, target, stops, overlapped>>

\* The file it has created has been removed: the pid goes nowhere.
WriteOrphan(m) ==
  /\ Moves(m, "orphaned", "written")
  /\ UNCHANGED <<todo, ports, kids, termed, file, stopper, target, stops, overlapped>>

\* signals.add(SIGTERM)
AddSignals(m) ==
  /\ Moves(m, "written", "binding")
  /\ UNCHANGED <<todo, ports, kids, termed, file, stopper, target, stops, overlapped>>

Bound == UNION {ports[m] : m \in Masters}

\* A node's endpoint is bound, unless another socket listens there, be it of
\* this server; the exception ends run().
Bind(m) ==
  /\ at[m] = "binding"
  /\ \E node \in todo[m] :
       IF node[2] \in Bound
       THEN Moves(m, "binding", "ending") /\ UNCHANGED <<todo, ports>>
       ELSE /\ todo' = [todo EXCEPT ![m] = @ \ {node}]
            /\ ports' = [ports EXCEPT ![m] = @ \cup {node[2]}]
            /\ UNCHANGED at
  /\ UNCHANGED <<kids, termed, file, stopper, target, stops, overlapped>>

\* The children are forked, with all that is bound, and the loop runs: the
\* last fork succeeds, whether others fail or not.
Run(m) ==
  /\ Moves(m, "binding", "running")
  /\ todo[m] = {}
  /\ kids' = kids \cup {m}
  /\ UNCHANGED <<todo, ports, termed, file, stopper, target, stops, overlapped>>

\* The last fork fails and returns before notify_fork(fork_parent): the loop
\* runs, but it does not read the pipe of the signals any more.
RunDeaf(m) ==
  /\ Moves(m, "binding", "deaf")
  /\ todo[m] = {}
  /\ kids' \in {kids, kids \cup {m}}
  /\ UNCHANGED <<todo, ports, termed, file, stopper, target, stops, overlapped>>

-----------------------------------------------------------------------------
(* A master ends.                                                          *)

\* stop_server; the children have got their SIGTERM and end when they do.
HandleTerm(m) ==
  /\ Moves(m, "running", "ending")
  /\ m \in termed
  /\ termed' = termed \ {m}
  /\ UNCHANGED <<todo, ports, kids, file, stopper, target, stops, overlapped>>

\* What it has bound stays bound while its children live.
Released(m) == [ports EXCEPT ![m] = IF m \in kids THEN @ ELSE {}]

\* delete_pidfile, in the destructor: exists() ...
LookToDelete(m) ==
  /\ Moves(m, "ending", IF file = NoFile THEN "ended" ELSE "deleting")
  /\ ports' = IF file = NoFile THEN Released(m) ELSE ports
  /\ UNCHANGED <<todo, kids, termed, file, stopper, target, stops, overlapped>>

\* (Mistake: does not compare.)
Anyones(m) == file # NoFile
\* (Mistake: compares with the pid of before set_daemon.)
NotOwn(m) == FALSE
\* The pid in the file is this process's.
IsOwn(m) == file = m

\* ... the pid is read ...
ReadToDelete(m) ==
  /\ Moves(m, "deleting", IF IsOwn(m) THEN "removing" ELSE "ended")
  /\ ports' = IF IsOwn(m) THEN ports ELSE Released(m)
  /\ UNCHANGED <<todo, kids, termed, file, stopper, target, stops, overlapped>>

\* ... and the file removed, though another master may have it open.
RemoveFile(m) ==
  /\ at[m] = "removing"
  /\ at' = [n \in Masters |-> IF n = m THEN "ended"
                             ELSE IF at[n] = "created" THEN "orphaned" ELSE at[n]]
  /\ file' = NoFile
  /\ ports' = Released(m)
  /\ UNCHANGED <<todo, kids, termed, stopper, target, stops, overlapped>>

\* A signal that is not handled ends the process: no destructor runs.
Dies(m) ==
  /\ at' = [at EXCEPT ![m] = "killed"]
  /\ ports' = Released(m)
  /\ termed' = termed \ {m}

Kill(m) ==
  /\ at[m] \notin {"off", "ended", "killed"}
  /\ Dies(m)
  /\ UNCHANGED <<todo, kids, file, stopper, target, stops, overlapped>>

\* The children end, once their master has stopped them, or because somebody
\* kills those of a master that was killed.
KidsEnd(m) ==
  /\ m \in kids
  /\ at[m] \in {"ending", "deleting", "removing", "ended", "killed"}
  /\ kids' = kids \ {m}
  /\ ports' = IF at[m] \in {"ended", "killed"} THEN [ports EXCEPT ![m] = {}]
              ELSE ports
  /\ UNCHANGED <<at, todo, termed, file, stopper, target, stops, overlapped>>

-----------------------------------------------------------------------------
(* The stop command, and whoever looks after the machine.                  *)

StopLooks ==
  /\ stopper = "idle"
  /\ stops < MaxStops
  /\ stops' = stops + 1
  /\ file # NoFile
  /\ stopper' = "opening"
  /\ UNCHANGED <<at, todo, ports, kids, termed, file, target, overlapped>>

\* (Mistake: does not look whether a number could be read.)
AnyContents == file # NoFile
\* An empty file, or none, is no pid; nor does a mixed one name a master.
HoldsPid == file \in Masters

StopReads ==
  /\ stopper = "opening"
  /\ IF HoldsPid THEN stopper' = "killing" /\ target' = file
     ELSE stopper' = "idle" /\ UNCHANGED target
  /\ UNCHANGED <<at, todo, ports, kids, termed, file, stops, overlapped>>

\* kill(pid, SIGTERM): before signals.add it ends the process.
StopKills ==
  /\ stopper = "killing"
  /\ stopper' = "idle"
  /\ target' = Nobody
  /\ CASE at[target] = "written" -> Dies(target)
       [] at[target] \in {"binding", "running", "deaf", "ending", "deleting", "removing"} ->
            termed' = termed \cup {target} /\ UNCHANGED <<at, ports>>
       [] OTHER -> UNCHANGED <<at, ports, termed>>
  /\ UNCHANGED <<todo, kids, file, stops, overlapped>>

\* Somebody removes a file that no living master has to do with.
CleanUp ==
  /\ file # NoFile
  /\ Starting = {}
  /\ file \in Masters => at[file] \in {"ended", "killed"}
  /\ file' = NoFile
  /\ UNCHANGED <<at, todo, ports, kids, termed, stopper, target, stops, overlapped>>

Starts(m) == \/ RefuseConfig(m) \/ TakeConfig(m)
             \/ LookForFile(m) \/ CreateFile(m) \/ WriteFile(m)
             \/ WriteOrphan(m) \/ AddSignals(m) \/ Bind(m) \/ Run(m) \/ RunDeaf(m)
Ends(m) == HandleTerm(m) \/ LookToDelete(m) \/ ReadToDelete(m) \/ RemoveFile(m)
Stop == StopLooks \/ StopReads \/ StopKills

Next ==
  \/ Stop
  \/ CleanUp
  \/ \E m \in Masters : Starts(m) \/ Ends(m) \/ Kill(m) \/ KidsEnd(m)

Spec == Init /\ [][Next]_vars

\* A process that runs goes on.  Nobody has to start, kill or clean anything.
Fairness ==
  /\ WF_vars(StopReads \/ StopKills)
  /\ \A m \in Masters : WF_vars(Ends(m))

FairSpec == Spec /\ Fairness

-----------------------------------------------------------------------------
(* Properties.                                                             *)

\* The pid file holds the pid of the master that runs (actor_config.yml 8),
\* whatever starts that are refused, ends, stops and deaths of other masters
\* happen, and so there is one at most; unless two masters have started at
\* the same time (coro_actor.cpp 170-179 looks and creates in two steps).
RunningHasFile == \A m \in Masters : at[m] \in Runs /\ ~overlapped => file = m

\* A master that ends, because it is stopped, refused or cannot bind, leaves
\* no file behind that would forbid the next start (coro_actor.cpp 43, 197).
EndedLeavesNone == \A m \in Masters : at[m] = "ended" /\ ~overlapped => file # m

\* A stop command that looks for the master that runs stops it, whatever
\* starts that are refused, ends and deaths come between (coro_actor.cpp
\* 200-214), if the last fork of that master has succeeded.
StopWorks ==
  \A m \in Masters :
    (stopper = "opening" /\ at[m] = "running" /\ ~overlapped)
      ~> at[m] # "running" \/ overlapped

\* What is said of the signal: it ends the server (actor_config.yml 4-5), and
\* with it whichever master runs, also after a fork that failed (violated:
\* coro_actor.cpp 713-715 leave the master deaf).
StopEndsMaster ==
  \A m \in Masters :
    (stopper = "opening" /\ at[m] \in Runs /\ ~overlapped)
      ~> at[m] \notin Runs \/ overlapped

\* What is said of the file: it holds the pid of the main process while that
\* runs (actor_config.yml 8), however masters are started (violated:
\* coro_actor.cpp 170-179 do not create it exclusively).
FileOfMaster == \A m \in Masters : at[m] \in Runs => file = m

=============================================================================
