-------------------------- MODULE SupervisorProofs --------------------------
(* Theorems about Supervisor, for any number of actor processes, crashes   *)
(* and forks that fail.                                                    *)
EXTENDS Supervisor, TLAPS

\* What stays true: run() never changes the type of the master, so no child
\* is forked again.
SupervisorInv ==
  /\ TypeOK
  /\ type = "MASTER"
  /\ pc = "proxy" => pids = {}
  /\ NoExitForgotten
  /\ ExitedIsReaped

LEMMA SupervisorInit ==
  ASSUME Init
  PROVE  SupervisorInv
<1>1. 0 \in 0 .. N /\ 0 \in 0 .. MaxCrashes /\ 0 \in 0 .. MaxForkFails
  BY SupervisorAssumption
<1>2. TypeOK
  BY <1>1 DEF Init, TypeOK
<1>3. Zombies = {}
  BY DEF Init, Zombies
<1> QED
  BY <1>2, <1>3 DEF Init, SupervisorInv, NoExitForgotten, ExitedIsReaped

LEMMA NeverRespawned ==
  ASSUME SupervisorInv, NEW ex
  PROVE  Respawned(ex) = {}
  BY DEF SupervisorInv, Respawned

\* What a fork, successful or not, does to the children.
LEMMA ForkStep ==
  ASSUME SupervisorInv, NEW c \in Children \ pids, Forks(c) \/ ForkFails,
         UNCHANGED <<type, pending>>, exited' \subseteq exited,
         Forks(c) => c \notin exited' \cap Slots
  PROVE  /\ pids' \subseteq Children
         /\ exited' \subseteq Children
         /\ deaf' \in BOOLEAN
         /\ proc' \in [Children -> {"none", "forked", "running", "zombie", "reaped"}]
         /\ signals' \in [Children -> SUBSET {"TERM"}]
         /\ forkFails' \in 0 .. MaxForkFails
         /\ NoExitForgotten'
         /\ ExitedIsReaped'
<1> USE SupervisorAssumption
<1>1. CASE Forks(c)
  BY <1>1 DEF Forks, SupervisorInv, TypeOK, NoExitForgotten, ExitedIsReaped,
     Zombies
<1>2. CASE ForkFails
  BY <1>2 DEF ForkFails, SupervisorInv, TypeOK, NoExitForgotten,
     ExitedIsReaped, Zombies
<1> QED
  BY <1>1, <1>2

LEMMA MasterStep ==
  ASSUME SupervisorInv, Master
  PROVE  SupervisorInv'
<1> USE SupervisorAssumption
<1>1. CASE InitProxy
  <2>1. /\ Forks(ProxyPid) \/ ForkFails
        /\ UNCHANGED <<i, exited, type, terminate, pending, asked, crashes>>
        /\ pc' = "actors" /\ ProxyPid \in Children \ pids
        /\ ProxyPid \notin Slots
    BY <1>1 DEF InitProxy, Children, SupervisorInv
  <2> QED
    BY <2>1, ForkStep DEF SupervisorInv, TypeOK
<1>2. CASE InitActor
  <2>1. PICK s \in FreeSlots : Spawn(s)
    BY <1>2 DEF InitActor
  <2>2. s \in Children \ pids
    BY <2>1 DEF FreeSlots, Children
  <2>3. i' \in 0 .. N /\ pc' # "proxy"
    BY <1>2 DEF InitActor, SupervisorInv, TypeOK
  <2>4. /\ Forks(s) \/ ForkFails
        /\ exited' \subseteq exited
        /\ Forks(s) => s \notin exited'
        /\ UNCHANGED <<pc, type, terminate, pending, asked, crashes>>
    BY <1>2, <2>1, <2>2 DEF InitActor, Spawn, Forks, ForkFails
  <2> QED
    BY <2>2, <2>3, <2>4, ForkStep DEF SupervisorInv, TypeOK
<1>3. CASE RunLoop
  BY <1>3 DEF RunLoop, SupervisorInv, TypeOK, NoExitForgotten,
     ExitedIsReaped, Zombies
<1>4. CASE HandleTerm
  BY <1>4 DEF HandleTerm, SupervisorInv, TypeOK, NoExitForgotten,
     ExitedIsReaped, Zombies
<1>5. CASE HandleChld
  <2>1. /\ exited' = exited \cup (Zombies \cap pids)
        /\ proc' = [c \in Children |-> IF c \in Zombies THEN "reaped"
                                       ELSE proc[c]]
    BY <1>5, NeverRespawned DEF HandleChld, Collected
  <2>2. UNCHANGED <<pc, i, pids, type, terminate, deaf, signals, asked,
                    crashes, forkFails>>
    BY <1>5 DEF HandleChld
  <2>3. TypeOK'
    BY <1>5, <2>1, <2>2 DEF HandleChld, SupervisorInv, TypeOK, Zombies
  <2>4. \A c \in Children : proc'[c] = IF c \in Zombies THEN "reaped" ELSE proc[c]
    BY <2>1
  <2>5. NoExitForgotten'
    BY <2>4 DEF NoExitForgotten, Zombies
  <2>6. ExitedIsReaped'
    BY <2>1, <2>2, <2>4 DEF SupervisorInv, ExitedIsReaped, Children
  <2>7. type' = "MASTER" /\ (pc' = "proxy" => pids' = {})
    BY <2>2 DEF SupervisorInv
  <2> QED
    BY <2>3, <2>5, <2>6, <2>7 DEF SupervisorInv
<1> QED
  BY <1>1, <1>2, <1>3, <1>4, <1>5 DEF Master

LEMMA ChildStep ==
  ASSUME SupervisorInv,
         StopCommand \/ \E c \in Children : Child(c) \/ Crashes(c)
  PROVE  SupervisorInv'
<1> USE SupervisorAssumption
<1>1. CASE StopCommand
  BY <1>1 DEF StopCommand, master, SupervisorInv, TypeOK, NoExitForgotten,
     ExitedIsReaped, Zombies
<1>2. ASSUME NEW c \in Children, Starts(c)
      PROVE  SupervisorInv'
  BY <1>2 DEF Starts, master, SupervisorInv, TypeOK, NoExitForgotten,
     ExitedIsReaped, Zombies, Children
<1>3. ASSUME NEW c \in Children, Stops(c) \/ Crashes(c)
      PROVE  SupervisorInv'
  <2>1. /\ proc[c] = "running" /\ Exits(c)
        /\ UNCHANGED <<master, signals, asked, forkFails>>
        /\ crashes' \in 0 .. MaxCrashes
    BY <1>3 DEF Stops, Crashes, SupervisorInv, TypeOK
  <2> QED
    BY <2>1 DEF Exits, master, SupervisorInv, TypeOK, NoExitForgotten,
       ExitedIsReaped, Zombies, Children
<1> QED
  BY <1>1, <1>2, <1>3 DEF Child

LEMMA SupervisorCorrect == Spec => []SupervisorInv
<1>1. SupervisorInv /\ [Next]_vars => SupervisorInv'
  <2> SUFFICES ASSUME SupervisorInv, [Next]_vars
               PROVE  SupervisorInv'
    OBVIOUS
  <2>1. CASE UNCHANGED vars
    BY <2>1 DEF vars, master, SupervisorInv, TypeOK, NoExitForgotten,
       ExitedIsReaped, Zombies
  <2>2. CASE Next
    BY <2>2, MasterStep, ChildStep DEF Next
  <2> QED
    BY <2>1, <2>2
<1> QED
  BY <1>1, SupervisorInit, PTL DEF Spec

\* The master's tables hold none but processes of the configuration, and its
\* loop of forks stays within them, whatever dies, fails to fork or is
\* signalled meanwhile.
THEOREM SupervisorTypes == Spec => []TypeOK
<1>1. SupervisorInv => TypeOK
  BY DEF SupervisorInv
<1> QED
  BY <1>1, SupervisorCorrect, PTL

\* Whenever a child has ended and has not been waited for, a SIGCHLD is left
\* that will make the master wait for it, however many children end at once
\* and whenever they do, the startup of the master included.
THEOREM EveryExitIsNoticed == Spec => []NoExitForgotten
<1>1. SupervisorInv => NoExitForgotten
  BY DEF SupervisorInv
<1> QED
  BY <1>1, SupervisorCorrect, PTL

\* The master never takes a living actor process for one that has exited, so
\* the test of reap_actor_processes would fork none twice.
THEOREM LivingNotExited == Spec => []ExitedIsReaped
<1>1. SupervisorInv => ExitedIsReaped
  BY DEF SupervisorInv
<1> QED
  BY <1>1, SupervisorCorrect, PTL

=============================================================================
