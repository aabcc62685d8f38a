----------------------------- MODULE Supervisor -----------------------------
(***************************************************************************)
(* The life of the processes: the master forks the proxy and the actor     *)
(* processes, waits for signals, reaps the children that exit and stops    *)
(* the others when it is told to stop.                                     *)
(*                                                                         *)
(* A signal is written to the pipe of the process's signal_set and handled *)
(* from its io_context.  Until a child has called notify_fork(fork_child)  *)
(* its pipe is still the one of the master, which gets the signals sent to *)
(* the child; a fork that fails leaves the pipe of the master unread until *)
(* the next fork that succeeds (asio, external).                           *)
(***************************************************************************)
EXTENDS Naturals

CONSTANTS
  N,             \* how many actor processes the configuration asks for
  ProxyPid,      \* the proxy process
  MaxCrashes,    \* bound: children that die by themselves
  MaxForkFails   \* bound: forks that fail

Slots    == 1 .. N                  \* actor_processes
Children == Slots \cup {ProxyPid}

ASSUME SupervisorAssumption ==
  /\ N \in Nat
  /\ ProxyPid \notin Slots
  /\ MaxCrashes \in Nat
  /\ MaxForkFails \in Nat

VARIABLES
  pc,          \* where run() of the master is
  i,           \* the turn of the loop of init_actor_processes
  pids,        \* the children whose pid is not -1
  exited,      \* the children whose exited is set
  type,        \* type of the master
  terminate,   \* terminate of the master
  deaf,        \* the master does not read its pipe
  proc,        \* what each child is to the kernel
  signals,     \* the signals each child has to handle
  pending,     \* the signals the master has to handle
  asked,       \* has somebody asked the master to stop
  crashes, forkFails

master == <<pc, i, pids, exited, type, terminate, deaf>>
vars   == <<master, proc, signals, pending, asked, crashes, forkFails>>

TypeOK ==
  /\ pc \in {"proxy", "actors", "loop", "gone"}
  /\ i \in 0 .. N
  /\ pids \subseteq Children
  /\ exited \subseteq Children
  /\ type \in {"MASTER", "PROXIER", "WORKER"}
  /\ terminate \in BOOLEAN
  /\ deaf \in BOOLEAN
  /\ proc \in [Children -> {"none", "forked", "running", "zombie", "reaped"}]
  /\ signals \in [Children -> SUBSET {"TERM"}]
  /\ pending \subseteq {"TERM", "CHLD"}
  /\ asked \in BOOLEAN
  /\ crashes \in 0 .. MaxCrashes
  /\ forkFails \in 0 .. MaxForkFails

Init ==
  /\ pc = "proxy"
  /\ i = 0
  /\ pids = {}
  /\ exited = Children
  /\ type = "MASTER"
  /\ terminate = FALSE
  /\ deaf = FALSE
  /\ proc = [c \in Children |-> "none"]
  /\ signals = [c \in Children |-> {}]
  /\ pending = {}
  /\ asked = FALSE
  /\ crashes = 0
  /\ forkFails = 0

-----------------------------------------------------------------------------
(* The master.                                                             *)

Forks(c) ==
  /\ proc' = [proc EXCEPT ![c] = "forked"]
  /\ signals' = [signals EXCEPT ![c] = {}]
  /\ pids' = pids \cup {c}
  /\ deaf' = FALSE
  /\ UNCHANGED forkFails

ForkFails ==
  /\ forkFails < MaxForkFails
  /\ forkFails' = forkFails + 1
  /\ deaf' = TRUE
  /\ UNCHANGED <<proc, signals, pids>>

\* init_proxy_process; it leaves exited of the proxy as it is.
InitProxy ==
  /\ pc = "proxy"
  /\ pc' = "actors"
  /\ Forks(ProxyPid) \/ ForkFails
  /\ UNCHANGED <<i, exited, type, terminate, pending, asked, crashes>>

\* (Mistake: looks at the slot before.)
FreeSlotsOff == {j \in 0 .. N : j + 1 \in Slots \ pids}

FreeSlots == Slots \ pids

\* (Mistake: exited is not reset.)
SpawnStillExited(s) == Forks(s) /\ UNCHANGED exited

\* spawn_actor_process
Spawn(s) ==
  \/ Forks(s) /\ exited' = exited \ {s}
  \/ ForkFails /\ UNCHANGED exited

\* A turn of the loop of init_actor_processes; a slot whose fork has failed
\* is the first free one of the next turn again.
InitActor ==
  /\ pc = "actors"
  /\ i < N
  /\ \E s \in FreeSlots : (\A j \in FreeSlots : s <= j) /\ Spawn(s)
  /\ i' = i + 1
  /\ UNCHANGED <<pc, type, terminate, pending, asked, crashes>>

RunLoop ==
  /\ pc = "actors"
  /\ i = N \/ FreeSlots = {}
  /\ pc' = "loop"
  /\ UNCHANGED <<i, pids, exited, type, terminate, deaf, proc, signals,
                 pending, asked, crashes, forkFails>>

Handles(sig) ==
  /\ pc = "loop"
  /\ ~deaf
  /\ sig \in pending

\* (Mistake: stop_proxy_process is not called.)
KilledNoProxy == pids \ {ProxyPid}

\* Whom stop_proxy_process and stop_actor_processes send SIGTERM.
Killed == pids

\* SIGTERM or SIGINT: kill the children, then stop_server, which ends run().
HandleTerm ==
  /\ Handles("TERM")
  /\ signals' = [c \in Children |->
                   IF c \in Killed /\ proc[c] = "running"
                   THEN signals[c] \cup {"TERM"} ELSE signals[c]]
  /\ terminate' = TRUE
  /\ pc' = "gone"
  /\ pending' = pending \ {"TERM"}
  /\ UNCHANGED <<i, pids, exited, type, deaf, proc, asked, crashes, forkFails>>

Zombies == {c \in Children : proc[c] = "zombie"}

\* (Mistake: one waitpid for each SIGCHLD.)
CollectedOne == IF Zombies = {} THEN {} ELSE {CHOOSE c \in Zombies : TRUE}

\* What the waitpid loop of update_processes_status collects.
Collected == Zombies

\* reap_proxy_process and reap_actor_processes: which children are forked
\* again after the flags have become ex.
Respawned(ex) ==
  {c \in pids \cap ex : IF c = ProxyPid THEN type = "PROXIER"
                        ELSE type = "WORKER"}

HandleChld ==
  /\ Handles("CHLD")
  /\ LET ex    == exited \cup (Collected \cap pids)
         again == IF terminate THEN {} ELSE Respawned(ex)
     IN  /\ exited' = ex \ (again \cap Slots)
         /\ proc' = [c \in Children |->
                       CASE c \in again -> "forked"
                         [] c \in Collected \ again -> "reaped"
                         [] OTHER -> proc[c]]
  /\ pending' = pending \ {"CHLD"}
  /\ UNCHANGED <<pc, i, pids, type, terminate, deaf, signals, asked, crashes,
                 forkFails>>

-----------------------------------------------------------------------------
(* The children, and who stops the master.                                 *)

\* notify_fork(fork_child): the child has a pipe of its own.
Starts(c) ==
  /\ proc[c] = "forked"
  /\ proc' = [proc EXCEPT ![c] = "running"]
  /\ UNCHANGED <<master, signals, pending, asked, crashes, forkFails>>

Exits(c) ==
  /\ proc' = [proc EXCEPT ![c] = "zombie"]
  /\ pending' = pending \cup {"CHLD"}

\* The child handles SIGTERM: stop_server, and exit.
Stops(c) ==
  /\ proc[c] = "running"
  /\ "TERM" \in signals[c]
  /\ Exits(c)
  /\ UNCHANGED <<master, signals, asked, crashes, forkFails>>

\* The child ends by itself: a service crashes, or it cannot load its
\* library or connect to the proxy.
Crashes(c) ==
  /\ proc[c] = "running"
  /\ crashes < MaxCrashes
  /\ crashes' = crashes + 1
  /\ Exits(c)
  /\ UNCHANGED <<master, signals, asked, forkFails>>

\* coro_actor -s: SIGTERM to the pid of the pid file.
StopCommand ==
  /\ ~asked
  /\ asked' = TRUE
  /\ pending' = pending \cup {"TERM"}
  /\ UNCHANGED <<master, proc, signals, crashes, forkFails>>

Master == InitProxy \/ InitActor \/ RunLoop \/ HandleTerm \/ HandleChld
Child(c) == Starts(c) \/ Stops(c)

Next ==
  \/ Master
  \/ StopCommand
  \/ \E c \in Children : Child(c) \/ Crashes(c)

Spec == Init /\ [][Next]_vars

\* The master and its children run; nobody is obliged to crash or to stop.
Fairness ==
  /\ WF_vars(InitProxy \/ InitActor \/ RunLoop)
  /\ WF_vars(HandleTerm)
  /\ WF_vars(HandleChld)
  /\ \A c \in Children : WF_vars(Child(c))

FairSpec == Spec /\ Fairness

-----------------------------------------------------------------------------
(* Properties.                                                             *)

\* SIGCHLD does not count: one may stand for several children.  No child
\* that has ended is forgotten, thanks to the loop around waitpid
\* (coro_actor.cpp 972-996).
NoExitForgotten == Zombies # {} => "CHLD" \in pending

\* The flag by which an actor process would be forked again is never set for
\* one that is alive (coro_actor.cpp 733, 993, 1009).
ExitedIsReaped == \A s \in Slots \cap pids \cap exited : proc[s] = "reaped"

\* Whoever runs when a SIGTERM reaches a master that reads its signals ends,
\* whatever dies, starts or is reaped before the master handles it
\* (coro_actor.cpp 364-371, 444-448, 961-969).
StopsRunning ==
  \A c \in Children :
    (pc = "loop" /\ ~deaf /\ "TERM" \in pending /\ proc[c] = "running")
      ~> proc[c] \in {"zombie", "reaped"}

\* After a request to stop no child is left behind ("停止 proxy 进程", "停止所有
\* actor 进程", coro_actor.h 91, 109).
StopsAll ==
  asked ~> \A c \in Children : proc[c] \in {"none", "zombie", "reaped"}

\* An actor process that has exited is forked again ("重新拉起退出的 actor 进程",
\* coro_actor.h 106), unless the server stops.
Respawns ==
  \A s \in Slots :
    proc[s] = "zombie" ~> (proc[s] \in {"forked", "running"} \/ asked)

=============================================================================
