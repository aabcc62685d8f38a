-------------------------- MODULE LifecycleProofs --------------------------
(***************************************************************************)
(* For any number of masters, nodes, endpoints and stop commands: while no *)
(* two masters start at the same time, the one that runs has the pid file, *)
(* and one that has ended has left none behind.                            *)
(***************************************************************************)
EXTENDS Lifecycle, TLAPS

\* What each place in a master's life says about the file.
FileOf(m) ==
  /\ at[m] = "creating" => file = NoFile
  /\ at[m] = "created" => file = Empty
  /\ at[m] # "orphaned"
  /\ at[m] \in {"written", "binding", "running", "deaf", "removing"} => file = m
  /\ at[m] = "ended" => file # m

\* The inductive invariant: besides, one master starts at a time.
OneStarts == \A m, n \in Starting : m = n

FileInv == ~overlapped => OneStarts /\ \A m \in Masters : FileOf(m)

IInv == TypeOK /\ FileInv

-----------------------------------------------------------------------------
(* Types.                                                                  *)

LEMMA TypeStarts ==
  ASSUME TypeOK, NEW m \in Masters, Starts(m)
  PROVE  TypeOK'
<1>1. CASE RefuseConfig(m)
  BY <1>1 DEF RefuseConfig, Moves, TypeOK, Places
<1>2. CASE TakeConfig(m)
  <2>1. todo' \in [Masters -> SUBSET (Nodes \X Endpoints)]
    <3>1. PICK listening \in SUBSET Nodes : \E endpoint \in [listening -> Endpoints] :
            todo' = [todo EXCEPT ![m] = {<<n, endpoint[n]>> : n \in listening}]
      BY <1>2 DEF TakeConfig
    <3>2. PICK endpoint \in [listening -> Endpoints] :
            todo' = [todo EXCEPT ![m] = {<<n, endpoint[n]>> : n \in listening}]
      BY <3>1
    <3>3. {<<n, endpoint[n]>> : n \in listening} \in SUBSET (Nodes \X Endpoints)
      BY <3>2
    <3> QED
      BY <3>2, <3>3 DEF TypeOK
  <2> QED
    BY <1>2, <2>1 DEF TakeConfig, Moves, TypeOK, Places
<1>3. CASE LookForFile(m)
  BY <1>3 DEF LookForFile, Moves, TypeOK, Places
<1>4. CASE CreateFile(m)
  BY <1>4 DEF CreateFile, Moves, TypeOK, Places
<1>5. CASE WriteFile(m)
  <2>1. file' \in Masters \cup {NoFile, Empty, Mixed}
    BY <1>5 DEF WriteFile, TypeOK
  <2> QED
    BY <1>5, <2>1 DEF WriteFile, Moves, TypeOK, Places
<1>6. CASE AddSignals(m)
  BY <1>6 DEF AddSignals, Moves, TypeOK, Places
<1>7. CASE Bind(m)
  <2>1. PICK node \in todo[m] :
          IF node[2] \in Bound
          THEN Moves(m, "binding", "ending") /\ UNCHANGED <<todo, ports>>
          ELSE /\ todo' = [todo EXCEPT ![m] = @ \ {node}]
               /\ ports' = [ports EXCEPT ![m] = @ \cup {node[2]}]
               /\ UNCHANGED at
    BY <1>7 DEF Bind
  <2>2. node[2] \in Endpoints
    BY DEF TypeOK
  <2>3. UNCHANGED <<kids, termed, file, stopper, target, stops, overlapped>>
    BY <1>7 DEF Bind
  <2>4. CASE node[2] \in Bound
    BY <2>1, <2>3, <2>4 DEF Moves, TypeOK, Places
  <2>5. CASE node[2] \notin Bound
    <3>1. todo' \in [Masters -> SUBSET (Nodes \X Endpoints)]
      BY <2>1, <2>5 DEF TypeOK
    <3>2. ports' \in [Masters -> SUBSET Endpoints]
      BY <2>1, <2>2, <2>5 DEF TypeOK
    <3> QED
      BY <2>1, <2>3, <2>5, <3>1, <3>2 DEF TypeOK
  <2> QED
    BY <2>4, <2>5
<1>8. CASE Run(m)
  BY <1>8 DEF Run, Moves, TypeOK, Places
<1>9. CASE RunDeaf(m)
  BY <1>9 DEF RunDeaf, Moves, TypeOK, Places
<1>10. CASE WriteOrphan(m)
  BY <1>10 DEF WriteOrphan, Moves, TypeOK, Places
<1> QED
  BY <1>1, <1>2, <1>3, <1>4, <1>5, <1>6, <1>7, <1>8, <1>9, <1>10 DEF Starts

LEMMA ReleasedType ==
  ASSUME TypeOK, NEW m \in Masters
  PROVE  Released(m) \in [Masters -> SUBSET Endpoints]
BY DEF Released, TypeOK

LEMMA TypeEnds ==
  ASSUME TypeOK, NEW m \in Masters, Ends(m) \/ Kill(m) \/ KidsEnd(m)
  PROVE  TypeOK'
<1>1. CASE HandleTerm(m)
  BY <1>1 DEF HandleTerm, Moves, TypeOK, Places
<1>2. CASE LookToDelete(m)
  BY <1>2, ReleasedType DEF LookToDelete, Moves, TypeOK, Places
<1>3. CASE ReadToDelete(m)
  BY <1>3, ReleasedType DEF ReadToDelete, Moves, TypeOK, Places
<1>4. CASE RemoveFile(m)
  BY <1>4, ReleasedType DEF RemoveFile, TypeOK, Places
<1>5. CASE Kill(m)
  BY <1>5, ReleasedType DEF Kill, Dies, TypeOK, Places
<1>6. CASE KidsEnd(m)
  BY <1>6 DEF KidsEnd, TypeOK
<1> QED
  BY <1>1, <1>2, <1>3, <1>4, <1>5, <1>6 DEF Ends

LEMMA TypeStop ==
  ASSUME TypeOK, Stop \/ CleanUp
  PROVE  TypeOK'
<1>1. CASE StopLooks
  BY <1>1, LifecycleAssumption DEF StopLooks, TypeOK
<1>2. CASE StopReads
  BY <1>2 DEF StopReads, HoldsPid, TypeOK
<1>3. CASE StopKills
  <2>1. target \in Masters
    BY <1>3 DEF StopKills, TypeOK
  <2>2. /\ stopper' = "idle" /\ target' = Nobody
        /\ UNCHANGED <<todo, kids, file, stops, overlapped>>
    BY <1>3 DEF StopKills
  <2>3. \/ Dies(target)
        \/ termed' = termed \cup {target} /\ UNCHANGED <<at, ports>>
        \/ UNCHANGED <<at, ports, termed>>
    BY <1>3 DEF StopKills
  <2>4. /\ at' \in [Masters -> Places] /\ ports' \in [Masters -> SUBSET Endpoints]
        /\ termed' \subseteq Masters
    BY <2>1, <2>3, ReleasedType DEF Dies, TypeOK, Places
  <2> QED
    BY <2>2, <2>4 DEF TypeOK
<1>4. CASE CleanUp
  BY <1>4 DEF CleanUp, TypeOK
<1> QED
  BY <1>1, <1>2, <1>3, <1>4 DEF Stop

-----------------------------------------------------------------------------
(* The file.                                                               *)

\* A step that leaves the file alone, brings nobody to a place that says
\* something about it, and lets nobody start.
LEMMA QuietStep ==
  ASSUME IInv, NEW m \in Masters, NEW to,
         to \in {"loaded", "ending", "deleting", "killed"}
           \/ (at[m] \in {"written", "binding"} /\ to \in {"binding", "running", "deaf"})
           \/ (to = "removing" /\ file = m) \/ (to = "ended" /\ file # m),
         at' = [at EXCEPT ![m] = to] \/ UNCHANGED at,
         UNCHANGED <<file, overlapped>>
  PROVE  FileInv'
<1> SUFFICES ASSUME ~overlapped
             PROVE  OneStarts' /\ \A n \in Masters : FileOf(n)'
  BY DEF FileInv
<1>1. OneStarts /\ \A n \in Masters : FileOf(n)
  BY DEF IInv, FileInv
<1>2. \A n \in Masters : at'[n] = at[n] \/ (n = m /\ at'[n] = to)
  BY DEF IInv, TypeOK
<1>3. Starting' \subseteq Starting
  BY <1>2 DEF Starting
<1>4. ASSUME NEW n \in Masters
      PROVE  FileOf(n)'
  BY <1>1, <1>2 DEF FileOf
<1> QED
  BY <1>1, <1>3, <1>4 DEF OneStarts

LEMMA StartsFile ==
  ASSUME IInv, NEW m \in Masters, Starts(m)
  PROVE  FileInv'
<1>0. at \in [Masters -> Places] /\ (~overlapped => OneStarts /\ \A n \in Masters : FileOf(n))
  BY DEF IInv, TypeOK, FileInv
<1>1. CASE RefuseConfig(m)
  BY <1>1, QuietStep DEF RefuseConfig, Moves
<1>2. CASE TakeConfig(m)
  BY <1>2, QuietStep DEF TakeConfig, Moves
<1>3. CASE LookForFile(m)
  <2>1. CASE file = NoFile
    <3> SUFFICES ASSUME ~overlapped, Starting = {}
                 PROVE  OneStarts' /\ \A n \in Masters : FileOf(n)'
      BY <1>3, <2>1 DEF LookForFile, FileInv
    <3>1. at' = [at EXCEPT ![m] = "creating"] /\ file' = NoFile
      BY <1>3, <2>1 DEF LookForFile, Moves
    <3>2. \A n \in Masters \ {m} : at'[n] = at[n]
      BY <1>0, <3>1
    <3>3. Starting' = {m}
      BY <1>0, <3>1 DEF Starting
    <3>4. \A n \in Masters : FileOf(n)'
      BY <1>0, <2>1, <3>1, <3>2 DEF FileOf
    <3> QED
      BY <3>3, <3>4 DEF OneStarts
  <2>2. CASE file # NoFile
    <3>1. at' = [at EXCEPT ![m] = "ending"] /\ file' = file
      BY <1>3, <2>2 DEF LookForFile, Moves
    <3>2. overlapped' = overlapped
      BY <1>3, <2>2 DEF LookForFile, IInv, TypeOK
    <3> QED
      BY <3>1, <3>2, QuietStep
  <2> QED
    BY <2>1, <2>2
<1>4. CASE CreateFile(m)
  <2> SUFFICES ASSUME ~overlapped
               PROVE  OneStarts' /\ \A n \in Masters : FileOf(n)'
    BY <1>4 DEF CreateFile, FileInv
  <2>1. at[m] = "creating" /\ at' = [at EXCEPT ![m] = "created"] /\ file' = Empty
    BY <1>4 DEF CreateFile, Moves
  <2>2. Starting = {m} /\ Starting' = {m} /\ file = NoFile
    BY <1>0, <2>1 DEF Starting, OneStarts, FileOf
  <2>3. ASSUME NEW n \in Masters
        PROVE  FileOf(n)'
    <3>1. CASE n = m
      BY <1>0, <2>1, <2>2, <3>1 DEF FileOf
    <3>2. CASE n # m
      <4>1. at'[n] = at[n] /\ at[n] \notin {"creating", "created", "orphaned"}
        BY <1>0, <2>1, <2>2, <3>2 DEF Starting
      <4>2. Empty \notin Masters /\ NoFile \notin Masters
        BY LifecycleAssumption
      <4> QED
        BY <1>0, <2>1, <2>2, <4>1, <4>2 DEF FileOf
    <3> QED
      BY <3>1, <3>2
  <2> QED
    BY <2>2, <2>3 DEF OneStarts
<1>5. CASE WriteFile(m)
  <2> SUFFICES ASSUME ~overlapped
               PROVE  OneStarts' /\ \A n \in Masters : FileOf(n)'
    BY <1>5 DEF WriteFile, FileInv
  <2>1. at[m] = "created" /\ at' = [at EXCEPT ![m] = "written"]
    BY <1>5 DEF WriteFile, Moves
  <2>2. Starting = {m} /\ Starting' = {} /\ file = Empty /\ file' = m
    BY <1>0, <1>5, <2>1 DEF WriteFile, Starting, OneStarts, FileOf
  <2>3. ASSUME NEW n \in Masters
        PROVE  FileOf(n)'
    <3>1. CASE n = m
      BY <1>0, <2>1, <2>2, <3>1 DEF FileOf
    <3>2. CASE n # m
      <4>1. at'[n] = at[n] /\ at[n] \notin {"creating", "created", "orphaned"}
        BY <1>0, <2>1, <2>2, <3>2 DEF Starting
      <4>2. Empty \notin Masters
        BY LifecycleAssumption
      <4> QED
        BY <1>0, <2>1, <2>2, <3>2, <4>1, <4>2 DEF FileOf
    <3> QED
      BY <3>1, <3>2
  <2> QED
    BY <2>2, <2>3 DEF OneStarts
<1>6. CASE AddSignals(m)
  BY <1>6, QuietStep DEF AddSignals, Moves
<1>7. CASE Bind(m)
  <2>1. at' = [at EXCEPT ![m] = "ending"] \/ UNCHANGED at
    BY <1>7 DEF Bind, Moves
  <2> QED
    BY <1>7, <2>1, QuietStep DEF Bind
<1>8. CASE Run(m)
  BY <1>8, QuietStep DEF Run, Moves
<1>9. CASE RunDeaf(m)
  BY <1>9, QuietStep DEF RunDeaf, Moves
<1>10. CASE WriteOrphan(m)
  BY <1>10 DEF WriteOrphan, Moves, IInv, FileInv, FileOf
<1> QED
  BY <1>1, <1>2, <1>3, <1>4, <1>5, <1>6, <1>7, <1>8, <1>9, <1>10 DEF Starts

LEMMA EndsFile ==
  ASSUME IInv, NEW m \in Masters, Ends(m) \/ Kill(m) \/ KidsEnd(m)
  PROVE  FileInv'
<1>0. NoFile \notin Masters
  BY LifecycleAssumption
<1>1. CASE HandleTerm(m)
  BY <1>1, QuietStep DEF HandleTerm, Moves
<1>2. CASE LookToDelete(m)
  BY <1>0, <1>2, QuietStep DEF LookToDelete, Moves
<1>3. CASE ReadToDelete(m)
  BY <1>3, QuietStep DEF ReadToDelete, Moves, IsOwn
<1>4. CASE RemoveFile(m)
  <2> SUFFICES ASSUME ~overlapped
               PROVE  OneStarts' /\ \A n \in Masters : FileOf(n)'
    BY <1>4 DEF RemoveFile, FileInv
  <2>1. at[m] = "removing" /\ file' = NoFile
    BY <1>4 DEF RemoveFile
  <2>2. OneStarts /\ \A n \in Masters : FileOf(n)
    BY DEF IInv, FileInv
  <2>3. file = m
    BY <2>1, <2>2 DEF FileOf
  <2>4. Empty \notin Masters
    BY LifecycleAssumption
  <2>5. at'[m] = "ended" /\ \A n \in Masters \ {m} : at'[n] = at[n]
    <3>1. \A n \in Masters : at[n] # "created"
      BY <2>2, <2>3, <2>4 DEF FileOf
    <3> QED
      BY <1>4, <3>1 DEF RemoveFile
  <2>6. Starting' \subseteq Starting
    BY <2>5 DEF Starting
  <2>7. \A n \in Masters : FileOf(n)'
    BY <1>0, <2>1, <2>2, <2>3, <2>4, <2>5 DEF FileOf
  <2> QED
    BY <2>2, <2>6, <2>7 DEF OneStarts
<1>5. CASE Kill(m)
  BY <1>5, QuietStep DEF Kill, Dies
<1>6. CASE KidsEnd(m)
  BY <1>6, QuietStep DEF KidsEnd
<1> QED
  BY <1>1, <1>2, <1>3, <1>4, <1>5, <1>6 DEF Ends

\* Nobody removes the file of a master that lives.
LEMMA StopFile ==
  ASSUME IInv, Stop \/ CleanUp
  PROVE  FileInv'
<1>1. CASE StopKills
  <2>0. target \in Masters
    BY <1>1 DEF StopKills, IInv, TypeOK
  <2>1. CASE at[target] = "written"
    <3>1. at' = [at EXCEPT ![target] = "killed"] /\ UNCHANGED <<file, overlapped>>
      BY <1>1, <2>1 DEF StopKills, Dies
    <3> QED
      BY <2>0, <3>1, QuietStep
  <2>2. CASE at[target] # "written"
    <3>1. UNCHANGED <<at, file, overlapped>>
      BY <1>1, <2>2 DEF StopKills, Dies
    <3> QED
      BY <3>1 DEF IInv, FileInv, OneStarts, Starting, FileOf
  <2> QED
    BY <2>1, <2>2
<1>2. CASE StopLooks \/ StopReads
  <2>1. UNCHANGED <<at, file, overlapped>>
    BY <1>2 DEF StopLooks, StopReads
  <2> QED
    BY <2>1 DEF IInv, FileInv, OneStarts, Starting, FileOf
<1>3. CASE CleanUp
  <2>1. /\ Starting = {} /\ file' = NoFile /\ UNCHANGED <<at, overlapped>>
        /\ file \in Masters => at[file] \in {"ended", "killed"}
    BY <1>3 DEF CleanUp
  <2>2. Starting' = Starting
    BY <2>1 DEF Starting
  <2>3. NoFile \notin Masters
    BY LifecycleAssumption
  <2>4. ASSUME ~overlapped, NEW m \in Masters
        PROVE  FileOf(m)'
    <3>1. FileOf(m) /\ at[m] \notin {"creating", "created", "orphaned"}
      BY <2>1, <2>4 DEF IInv, FileInv, Starting
    <3> QED
      BY <2>1, <2>3, <3>1 DEF FileOf
  <2> QED
    BY <2>1, <2>2, <2>4 DEF FileInv, OneStarts
<1> QED
  BY <1>1, <1>2, <1>3 DEF Stop

-----------------------------------------------------------------------------

LEMMA AlwaysInv == Spec => []IInv
<1>1. Init => IInv
  <2> SUFFICES ASSUME Init
               PROVE  IInv
    OBVIOUS
  <2>1. TypeOK
    <3>1. at \in [Masters -> Places]
      BY DEF Init, Places
    <3>2. /\ todo \in [Masters -> SUBSET (Nodes \X Endpoints)]
          /\ ports \in [Masters -> SUBSET Endpoints]
          /\ stops \in 0 .. MaxStops
      BY LifecycleAssumption DEF Init
    <3> QED
      BY <3>1, <3>2 DEF Init, TypeOK
  <2>2. Starting = {} /\ \A m \in Masters : at[m] = "off"
    BY DEF Init, Starting
  <2>3. FileInv
    BY <2>2 DEF FileInv, OneStarts, FileOf
  <2> QED
    BY <2>1, <2>3 DEF IInv
<1>2. IInv /\ [Next]_vars => IInv'
  <2> SUFFICES ASSUME IInv, [Next]_vars
               PROVE  IInv'
    OBVIOUS
  <2>1. CASE Stop \/ CleanUp
    BY <2>1, TypeStop, StopFile DEF IInv
  <2>2. ASSUME NEW m \in Masters, Starts(m)
        PROVE  IInv'
    BY <2>2, TypeStarts, StartsFile DEF IInv
  <2>3. ASSUME NEW m \in Masters, Ends(m) \/ Kill(m) \/ KidsEnd(m)
        PROVE  IInv'
    BY <2>3, TypeEnds, EndsFile DEF IInv
  <2>4. CASE UNCHANGED vars
    <3>1. TypeOK'
      BY <2>4 DEF IInv, TypeOK, vars
    <3>2. FileInv'
      BY <2>4 DEF IInv, FileInv, OneStarts, Starting, FileOf, vars
    <3> QED
      BY <3>1, <3>2 DEF IInv
  <2> QED
    BY <2>1, <2>2, <2>3, <2>4 DEF Next
<1> QED
  BY <1>1, <1>2, PTL DEF Spec

\* The variables keep their types.
THEOREM LifecycleTypeOK == Spec => []TypeOK
<1>1. IInv => TypeOK
  BY DEF IInv
<1> QED
  BY <1>1, AlwaysInv, PTL

\* A master that runs, though its last fork may have failed, has its pid in
\* the file, so that a stop command finds it and no second one starts
\* (coro_actor.cpp 169-180, 184-198).
THEOREM LifecycleRunningHasFile == Spec => []RunningHasFile
<1>1. IInv => RunningHasFile
  BY DEF IInv, FileInv, FileOf, RunningHasFile, Runs
<1> QED
  BY <1>1, AlwaysInv, PTL

\* A master that has ended has left no file that would forbid the next start
\* (coro_actor.cpp 41-44, 184-198).
THEOREM LifecycleEndedLeavesNone == Spec => []EndedLeavesNone
<1>1. IInv => EndedLeavesNone
  BY DEF IInv, FileInv, FileOf, EndedLeavesNone
<1> QED
  BY <1>1, AlwaysInv, PTL

=============================================================================
