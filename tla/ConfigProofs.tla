---------------------------- MODULE ConfigProofs ----------------------------
(***************************************************************************)
(* For every set of names, services, addresses and ports, and files of any *)
(* length: the maps that the loader builds agree with each other and with  *)
(* the file it takes, and it refuses no file without a reason.             *)
(***************************************************************************)
EXTENDS ConfigLoad, TLAPS

-----------------------------------------------------------------------------
(* Sequences.                                                              *)

\* What Append adds to the members.
LEMMA MembersOfAppend ==
  ASSUME NEW S, NEW seq \in Seq(S), NEW e \in S
  PROVE  Members(Append(seq, e)) = Members(seq) \cup {e}
<1> DEFINE longer == Append(seq, e)
<1>1. /\ DOMAIN longer = 1 .. Len(seq) + 1
      /\ DOMAIN seq = 1 .. Len(seq)
      /\ longer[Len(seq) + 1] = e
      /\ \A i \in DOMAIN seq : longer[i] = seq[i]
      /\ Len(seq) \in Nat
  OBVIOUS
<1>2. DOMAIN longer = DOMAIN seq \cup {Len(seq) + 1}
  BY <1>1
<1> HIDE DEF longer
<1>3. Members(longer) = Members(seq) \cup {e}
  BY <1>1, <1>2 DEF Members
<1> QED
  BY <1>3 DEF longer

\* No name twice, in nodes as the file lists them.
NameOnce(seq) == \A i, j \in DOMAIN seq : seq[i].name = seq[j].name => i = j
NamesOf(seq) == {seq[i].name : i \in DOMAIN seq}

LEMMA NameOnceAppend ==
  ASSUME NEW S, NEW seq \in Seq(S), NEW e \in S
  PROVE  /\ NameOnce(seq) /\ e.name \notin NamesOf(seq) => NameOnce(Append(seq, e))
         /\ e.name \in NamesOf(seq) => ~NameOnce(Append(seq, e))
         /\ NamesOf(Append(seq, e)) = NamesOf(seq) \cup {e.name}
<1> DEFINE longer == Append(seq, e)
<1>1. /\ DOMAIN longer = 1 .. Len(seq) + 1
      /\ DOMAIN seq = 1 .. Len(seq)
      /\ longer[Len(seq) + 1] = e
      /\ \A i \in DOMAIN seq : longer[i] = seq[i]
      /\ Len(seq) \in Nat
  OBVIOUS
<1>2. /\ DOMAIN longer = DOMAIN seq \cup {Len(seq) + 1}
      /\ Len(seq) + 1 \notin DOMAIN seq
  BY <1>1
<1> HIDE DEF longer
<1>3. NameOnce(seq) /\ e.name \notin NamesOf(seq) => NameOnce(longer)
  BY <1>1, <1>2 DEF NameOnce, NamesOf
<1>4. e.name \in NamesOf(seq) => ~NameOnce(longer)
  BY <1>1, <1>2 DEF NameOnce, NamesOf
<1>5. NamesOf(longer) = NamesOf(seq) \cup {e.name}
  BY <1>1, <1>2 DEF NamesOf
<1> QED
  BY <1>3, <1>4, <1>5 DEF longer

\* No service twice, in pairs of node and service.
SvcOnce(seq) == \A i, j \in DOMAIN seq : seq[i][2] = seq[j][2] => i = j
Svcs(seq) == {seq[i][2] : i \in DOMAIN seq}

LEMMA SvcOnceAppend ==
  ASSUME NEW S, NEW seq \in Seq(S), NEW e \in S
  PROVE  /\ SvcOnce(seq) /\ e[2] \notin Svcs(seq) => SvcOnce(Append(seq, e))
         /\ e[2] \in Svcs(seq) => ~SvcOnce(Append(seq, e))
         /\ Svcs(Append(seq, e)) = Svcs(seq) \cup {e[2]}
<1> DEFINE longer == Append(seq, e)
<1>1. /\ DOMAIN longer = 1 .. Len(seq) + 1
      /\ DOMAIN seq = 1 .. Len(seq)
      /\ longer[Len(seq) + 1] = e
      /\ \A i \in DOMAIN seq : longer[i] = seq[i]
      /\ Len(seq) \in Nat
  OBVIOUS
<1>2. /\ DOMAIN longer = DOMAIN seq \cup {Len(seq) + 1}
      /\ Len(seq) + 1 \notin DOMAIN seq
  BY <1>1
<1> HIDE DEF longer
<1>3. SvcOnce(seq) /\ e[2] \notin Svcs(seq) => SvcOnce(longer)
  BY <1>1, <1>2 DEF SvcOnce, Svcs
<1>4. e[2] \in Svcs(seq) => ~SvcOnce(longer)
  BY <1>1, <1>2 DEF SvcOnce, Svcs
<1>5. Svcs(longer) = Svcs(seq) \cup {e[2]}
  BY <1>1, <1>2 DEF Svcs
<1> QED
  BY <1>3, <1>4, <1>5 DEF longer

-----------------------------------------------------------------------------
(* The inductive invariant.                                                *)

Finished == {n \in Names : actor_config_map[n] # None}

\* The sets that load() looks names up in are those of the file so far.
SetsRight ==
  /\ check_actor_name = NamesOf(entries)
  /\ check_service = Svcs(listed)
  /\ ~bad /\ NameOnce(entries) /\ SvcOnce(listed)

\* Where the node of each name is.
NodesRight ==
  /\ \A n \in Finished : actor_config_map[n].name = n
  /\ phase = "services" => cfg.name \in check_actor_name \ Finished
  /\ check_actor_name =
       Finished \cup IF phase = "services" THEN {cfg.name} ELSE {}

\* service_map is what the file lists.
MapRight ==
  \A s \in Services, n \in Names : service_map[s] = n <=> <<n, s>> \in Members(listed)

\* The nodes are those that the file lists, with their addresses.
Brief(c) == [name |-> c.name, listen |-> c.listen]
EntriesRight == {Brief(c) : c \in Nodes} = Members(entries)

Loading ==
  phase # "refused" => SetsRight /\ NodesRight /\ MapRight /\ EntriesRight

IInv == TypeOK /\ Loading /\ MapsAgree /\ RefusedRightly

LEMMA InitInv ==
  ASSUME Init
  PROVE  IInv
<1>1. TypeOK
  <2>1. /\ service_map \in [Services -> Names \cup {None}]
        /\ actor_config_map \in [Names -> Config \cup {None}]
    BY DEF Init
  <2>2. /\ check_actor_name \subseteq Names /\ check_service \subseteq Services
        /\ entries \in Seq(Entry) /\ listed \in Seq(Names \X Services)
    BY DEF Init
  <2> QED
    BY <2>1, <2>2 DEF Init, TypeOK
<1>2. /\ Finished = {} /\ Nodes = {}
      /\ Members(entries) = {} /\ Members(listed) = {}
      /\ NamesOf(entries) = {} /\ Svcs(listed) = {}
  BY DEF Init, Finished, Nodes, Members, NamesOf, Svcs
<1>3. NameOnce(entries) /\ SvcOnce(listed)
  BY DEF Init, NameOnce, SvcOnce
<1>4. \A s \in Services, n \in Names : service_map[s] # n
  BY ConfigAssumption DEF Init
<1>5. Loading /\ MapsAgree /\ RefusedRightly
  BY <1>2, <1>3, <1>4
  DEF Init, Loading, SetsRight, NodesRight, MapRight, EntriesRight, MapsAgree,
      RefusedRightly
<1> QED
  BY <1>1, <1>5 DEF IInv

LEMMA CfgIsConfig ==
  ASSUME TypeOK, phase = "services"
  PROVE  /\ cfg \in Config /\ cfg # None
         /\ cfg.name \in Names /\ cfg.services \subseteq Services
         /\ cfg.listen \in (Addresses \X Ports) \cup {None}
<1>1. cfg \in Config /\ cfg # None
  BY DEF TypeOK
<1> QED
  BY <1>1 DEF Config

\* The history grows by nodes.
LEMMA EntryType ==
  ASSUME TypeOK, NEW name \in Names, NEW address \in Addresses \cup {None},
         NEW port \in Ports \cup {None}
  PROVE  Append(entries, [name |-> name, listen |-> Listen(address, port)]) \in Seq(Entry)
<1> DEFINE e == [name |-> name, listen |-> Listen(address, port)]
<1>1. e \in Entry
  BY DEF Listen, Entry
<1> HIDE DEF e
<1>2. Append(entries, e) \in Seq(Entry)
  BY <1>1 DEF TypeOK
<1> QED
  BY <1>2 DEF e

LEMMA TypeStep ==
  ASSUME TypeOK, [Next]_vars
  PROVE  TypeOK'
<1>1. CASE BadEntry
  BY <1>1 DEF BadEntry, Ends, TypeOK
<1>2. CASE EndNode
  BY <1>2, CfgIsConfig DEF EndNode, TypeOK
<1>3. CASE Finish
  BY <1>3 DEF Finish, Ends, TypeOK
<1>4. ASSUME NEW name \in Names, NEW address \in Addresses \cup {None},
             NEW port \in Ports \cup {None}, SameName(name, address, port)
      PROVE  TypeOK'
  <2>1. entries' \in Seq(Entry)
    BY <1>4, EntryType DEF SameName
  <2> QED
    BY <1>4, <2>1 DEF SameName, Ends, TypeOK
<1>5. ASSUME NEW name \in Names, NEW address \in Addresses \cup {None},
             NEW port \in Ports \cup {None}, BeginNode(name, address, port)
      PROVE  TypeOK'
  <2>1. Listen(address, port) \in (Addresses \X Ports) \cup {None}
    BY DEF Listen
  <2>2. cfg' \in Config
    BY <1>5, <2>1 DEF BeginNode, Config
  <2>3. cfg' # None
    BY <2>2, ConfigAssumption DEF Config
  <2>4. entries' \in Seq(Entry)
    BY <1>5, EntryType DEF BeginNode
  <2> QED
    BY <1>5, <2>2, <2>3, <2>4 DEF BeginNode, TypeOK
<1>6. ASSUME NEW s \in Services, SameService(s)
      PROVE  TypeOK'
  <2>1. <<cfg.name, s>> \in Names \X Services
    BY <1>6, CfgIsConfig DEF SameService
  <2> QED
    BY <1>6, <2>1 DEF SameService, Ends, TypeOK
<1>7. ASSUME NEW s \in Services, ReadService(s)
      PROVE  TypeOK'
  <2>1. phase = "services" /\ cfg \in Config /\ cfg.name \in Names
    BY <1>7, CfgIsConfig DEF ReadService
  <2>2. cfg' \in Config
    BY <1>7, <2>1 DEF ReadService, Config
  <2>3. cfg' # None
    BY <2>2, ConfigAssumption DEF Config
  <2>4. <<cfg.name, s>> \in Names \X Services
    BY <2>1
  <2> QED
    BY <1>7, <2>1, <2>2, <2>3, <2>4 DEF ReadService, TypeOK
<1>8. CASE UNCHANGED vars
  BY <1>8 DEF vars, TypeOK
<1> QED
  BY <1>1, <1>2, <1>3, <1>4, <1>5, <1>6, <1>7, <1>8 DEF Next

-----------------------------------------------------------------------------
(* The rest of the invariant, action by action.                            *)

Rightly == Loading /\ MapsAgree /\ RefusedRightly

LEMMA BeginNodeStep ==
  ASSUME IInv, TypeOK', NEW name \in Names, NEW address \in Addresses \cup {None},
         NEW port \in Ports \cup {None}, BeginNode(name, address, port)
  PROVE  Rightly'
<1> DEFINE e == [name |-> name, listen |-> Listen(address, port)]
<1>0. e \in Entry /\ e.name = name
  BY DEF Listen, Entry
<1>1. /\ phase = "entry" /\ phase' = "services"
      /\ name \notin check_actor_name
      /\ cfg'.name = name /\ cfg'.services = {} /\ Brief(cfg') = e
      /\ check_actor_name' = check_actor_name \cup {name}
      /\ entries' = Append(entries, e)
      /\ UNCHANGED <<check_service, service_map, actor_config_map, listed, bad>>
  BY DEF BeginNode, NameTaken, Brief
<1> HIDE DEF e
<1>2. /\ entries \in Seq(Entry)
      /\ SetsRight /\ NodesRight /\ MapRight /\ EntriesRight /\ MapsAgree
  BY <1>1 DEF IInv, TypeOK, Loading
<1>3. /\ Members(entries') = Members(entries) \cup {e}
      /\ NamesOf(entries') = NamesOf(entries) \cup {name} /\ NameOnce(entries')
  BY <1>0, <1>1, <1>2, MembersOfAppend, NameOnceAppend DEF SetsRight
<1>4. SetsRight'
  BY <1>1, <1>2, <1>3 DEF SetsRight
<1>5. Finished' = Finished
  BY <1>1 DEF Finished
<1>6. NodesRight'
  BY <1>1, <1>2, <1>5 DEF NodesRight, Finished
<1>7. MapRight'
  BY <1>1, <1>2 DEF MapRight
<1>8. Nodes' = Nodes \cup {cfg'}
  BY <1>1 DEF Nodes
<1>9. MapsAgree'
  BY <1>1, <1>2, <1>8 DEF MapsAgree
<1>10. EntriesRight'
  BY <1>1, <1>2, <1>3, <1>8 DEF EntriesRight
<1> QED
  BY <1>1, <1>4, <1>6, <1>7, <1>9, <1>10 DEF Rightly, Loading, RefusedRightly

LEMMA ReadServiceStep ==
  ASSUME IInv, TypeOK', NEW s \in Services, ReadService(s)
  PROVE  Rightly'
<1> DEFINE e == <<cfg.name, s>>
<1>1. /\ phase = "services" /\ phase' = "services"
      /\ s \notin check_service
      /\ check_service' = check_service \cup {s}
      /\ service_map' = [service_map EXCEPT ![s] = cfg.name]
      /\ cfg' = [cfg EXCEPT !.services = @ \cup {s}]
      /\ listed' = Append(listed, e)
      /\ UNCHANGED <<check_actor_name, actor_config_map, entries, bad>>
  BY DEF ReadService, ServiceTaken
<1>2. /\ listed \in Seq(Names \X Services)
      /\ service_map \in [Services -> Names \cup {None}]
      /\ cfg \in Config /\ cfg.name \in Names /\ cfg.services \subseteq Services
      /\ SetsRight /\ NodesRight /\ MapRight /\ EntriesRight /\ MapsAgree
  BY <1>1, CfgIsConfig DEF IInv, TypeOK, Loading
<1>3. e \in Names \X Services /\ e[2] = s
  BY <1>2
<1>4. /\ cfg'.name = cfg.name
      /\ cfg'.services = cfg.services \cup {s}
      /\ Brief(cfg') = Brief(cfg)
  BY <1>1, <1>2 DEF Config, Brief
<1>5. service_map'[s] = cfg.name /\ \A x \in Services \ {s} : service_map'[x] = service_map[x]
  BY <1>1, <1>2
<1> HIDE DEF e
<1>6. /\ Members(listed') = Members(listed) \cup {e}
      /\ SvcOnce(listed')
      /\ Svcs(listed') = Svcs(listed) \cup {s}
  BY <1>1, <1>2, <1>3, MembersOfAppend, SvcOnceAppend DEF SetsRight
<1>7. SetsRight'
  BY <1>1, <1>2, <1>6 DEF SetsRight
<1>8. Finished' = Finished
  BY <1>1 DEF Finished
<1>9. NodesRight'
  BY <1>1, <1>2, <1>4, <1>8 DEF NodesRight
<1>10. \A n \in Names : <<n, s>> \notin Members(listed)
  <2>1. \A p \in Members(listed) : p[2] \in check_service
    BY <1>2 DEF Members, Svcs, SetsRight
  <2> QED
    BY <1>1, <2>1
<1>11. MapRight'
  <2>1. \A n \in Names : service_map'[s] = n <=> <<n, s>> \in Members(listed')
    BY <1>5, <1>6, <1>10 DEF e
  <2>2. \A x \in Services \ {s}, n \in Names :
          service_map'[x] = n <=> <<n, x>> \in Members(listed')
    BY <1>2, <1>5, <1>6 DEF MapRight, e
  <2> QED
    BY <2>1, <2>2 DEF MapRight
<1>12. MapsAgree'
  <2> DEFINE F == {actor_config_map[n] : n \in Finished}
  <2>1. Nodes = F \cup {cfg} /\ Nodes' = F \cup {cfg'}
    BY <1>1 DEF Nodes, Finished
  <2>2. \A c \in F : s \notin c.services
    <3>1. SUFFICES ASSUME NEW n \in Finished, s \in actor_config_map[n].services
                   PROVE  FALSE
      OBVIOUS
    <3>2. actor_config_map[n].name = n /\ n \in Names /\ actor_config_map[n] \in Nodes
      BY <1>2, <2>1 DEF NodesRight, Finished
    <3>3. service_map[s] = n
      BY <1>1, <1>2, <3>1, <3>2 DEF MapsAgree
    <3> QED
      BY <1>2, <1>10, <3>2, <3>3 DEF MapRight
  <2>3. s \notin cfg.services
    <3>1. SUFFICES ASSUME s \in cfg.services
                   PROVE  FALSE
      OBVIOUS
    <3>2. service_map[s] = cfg.name
      BY <1>1, <1>2, <2>1, <3>1 DEF MapsAgree
    <3> QED
      BY <1>2, <1>10, <3>2 DEF MapRight
  <2> HIDE DEF F
  <2>4. ASSUME NEW n \in Names
        PROVE  service_map'[s] = n <=> \E c \in Nodes' : c.name = n /\ s \in c.services
    BY <1>4, <1>5, <2>1, <2>2
  <2>5. ASSUME NEW x \in Services \ {s}, NEW n \in Names
        PROVE  service_map'[x] = n <=> \E c \in Nodes' : c.name = n /\ x \in c.services
    <3>1. service_map[x] = n <=> \E c \in Nodes : c.name = n /\ x \in c.services
      BY <1>1, <1>2 DEF MapsAgree
    <3>2. x \in cfg'.services <=> x \in cfg.services
      BY <1>4
    <3> QED
      BY <1>4, <1>5, <2>1, <3>1, <3>2
  <2> QED
    BY <2>4, <2>5 DEF MapsAgree
<1>13. EntriesRight'
  <2> DEFINE F == {actor_config_map[n] : n \in Finished}
  <2>1. Nodes = F \cup {cfg} /\ Nodes' = F \cup {cfg'}
    BY <1>1 DEF Nodes, Finished
  <2> HIDE DEF F
  <2>2. {Brief(c) : c \in Nodes'} = {Brief(c) : c \in Nodes}
    BY <1>4, <2>1
  <2> QED
    BY <1>1, <1>2, <2>2 DEF EntriesRight
<1> QED
  BY <1>1, <1>7, <1>9, <1>11, <1>12, <1>13 DEF Rightly, Loading, RefusedRightly

LEMMA EndNodeStep ==
  ASSUME IInv, EndNode
  PROVE  Rightly'
<1>1. /\ phase = "services" /\ phase' = "entry"
      /\ actor_config_map' =
           [actor_config_map EXCEPT ![cfg.name] = IF @ = None THEN cfg ELSE @]
      /\ UNCHANGED <<cfg, check_actor_name, check_service, service_map, entries,
                     listed, bad>>
  BY DEF EndNode
<1>2. /\ cfg # None /\ cfg.name \in Names
      /\ actor_config_map \in [Names -> Config \cup {None}]
      /\ SetsRight /\ NodesRight /\ MapRight /\ EntriesRight /\ MapsAgree
  BY <1>1, CfgIsConfig DEF IInv, TypeOK, Loading
<1>3. actor_config_map[cfg.name] = None
  BY <1>1, <1>2 DEF NodesRight, Finished
<1>4. /\ actor_config_map'[cfg.name] = cfg
      /\ \A n \in Names \ {cfg.name} : actor_config_map'[n] = actor_config_map[n]
  BY <1>1, <1>2, <1>3
<1>5. Finished' = Finished \cup {cfg.name}
  BY <1>2, <1>4 DEF Finished
<1>6. NodesRight'
  BY <1>1, <1>2, <1>4, <1>5 DEF NodesRight, Finished
<1>7. Nodes' = Nodes
  <2>1. Nodes = {actor_config_map[n] : n \in Finished} \cup {cfg}
    BY <1>1 DEF Nodes, Finished
  <2>2. Nodes' = {actor_config_map'[n] : n \in Finished'}
    BY <1>1 DEF Nodes, Finished
  <2>3. cfg.name \notin Finished /\ Finished \subseteq Names
    BY <1>3 DEF Finished
  <2> QED
    BY <1>4, <1>5, <2>1, <2>2, <2>3
<1>8. SetsRight' /\ MapRight' /\ EntriesRight' /\ MapsAgree'
  BY <1>1, <1>2, <1>7 DEF SetsRight, MapRight, EntriesRight, MapsAgree
<1> QED
  BY <1>1, <1>6, <1>8 DEF Rightly, Loading, RefusedRightly

\* The file is refused: what load() has built is not used.
LEMMA RefuseStep ==
  ASSUME IInv,
         \/ BadEntry
         \/ \E name \in Names, address \in Addresses \cup {None},
               port \in Ports \cup {None} : SameName(name, address, port)
         \/ \E s \in Services : SameService(s)
  PROVE  Rightly'
<1>1. phase' = "refused"
  BY DEF BadEntry, SameName, SameService, Ends
<1>2. phase # "refused" /\ SetsRight
  BY DEF BadEntry, SameName, SameService, IInv, Loading
<1>3. CASE BadEntry
  BY <1>1, <1>3 DEF BadEntry, Rightly, Loading, MapsAgree, RefusedRightly
<1>4. ASSUME NEW name \in Names, NEW address \in Addresses \cup {None},
             NEW port \in Ports \cup {None}, SameName(name, address, port)
      PROVE  Rightly'
  <2> DEFINE e == [name |-> name, listen |-> Listen(address, port)]
  <2>1. entries' = Append(entries, e) /\ e.name \in NamesOf(entries)
    BY <1>2, <1>4 DEF SameName, NameTaken, SetsRight
  <2>2. e \in Entry
    BY DEF Listen, Entry
  <2> HIDE DEF e
  <2>3. ~NameOnce(entries')
    BY <2>1, <2>2, NameOnceAppend DEF IInv, TypeOK
  <2> QED
    BY <1>1, <2>3
    DEF Rightly, Loading, MapsAgree, RefusedRightly, NamesOnce, NameOnce
<1>5. ASSUME NEW s \in Services, SameService(s)
      PROVE  Rightly'
  <2> DEFINE e == <<cfg.name, s>>
  <2>1. listed' = Append(listed, e) /\ e[2] \in Svcs(listed)
    BY <1>2, <1>5 DEF SameService, ServiceTaken, SetsRight
  <2>2. e \in Names \X Services
    BY <1>5, CfgIsConfig DEF SameService, IInv
  <2> HIDE DEF e
  <2>3. ~SvcOnce(listed')
    BY <2>1, <2>2, SvcOnceAppend DEF IInv, TypeOK
  <2> QED
    BY <1>1, <2>3 DEF Rightly, Loading, MapsAgree, RefusedRightly, ServicesOnce, SvcOnce
<1> QED
  BY <1>3, <1>4, <1>5

LEMMA FinishStep ==
  ASSUME IInv, Finish \/ UNCHANGED vars
  PROVE  Rightly'
<1>1. /\ UNCHANGED <<cfg, check_actor_name, check_service, service_map,
                     actor_config_map, entries, listed, bad>>
      /\ phase' = phase \/ (phase = "entry" /\ phase' = "done")
  BY DEF Finish, Ends, vars
<1>2. (phase' = "refused" <=> phase = "refused") /\ (phase' = "services" <=> phase = "services")
  BY <1>1
<1>3. Nodes' = Nodes /\ Finished' = Finished
  BY <1>1, <1>2 DEF Nodes, Finished
<1>4. Loading'
  BY <1>1, <1>2, <1>3 DEF IInv, Loading, SetsRight, NodesRight, MapRight, EntriesRight
<1>5. MapsAgree' /\ RefusedRightly'
  BY <1>1, <1>2, <1>3 DEF IInv, MapsAgree, RefusedRightly, NamesOnce, ServicesOnce,
                        AddressesOnce
<1> QED
  BY <1>4, <1>5 DEF Rightly

LEMMA StepInv ==
  ASSUME IInv, [Next]_vars
  PROVE  IInv'
<1>1. TypeOK'
  BY TypeStep DEF IInv
<1>2. Rightly'
  <2>1. CASE \/ BadEntry
             \/ \E name \in Names, address \in Addresses \cup {None},
                   port \in Ports \cup {None} : SameName(name, address, port)
             \/ \E s \in Services : SameService(s)
    BY <2>1, RefuseStep
  <2>2. CASE Finish \/ UNCHANGED vars
    BY <2>2, FinishStep
  <2>3. CASE EndNode
    BY <2>3, EndNodeStep
  <2>4. CASE \E name \in Names, address \in Addresses \cup {None},
                port \in Ports \cup {None} : BeginNode(name, address, port)
    BY <1>1, <2>4, BeginNodeStep
  <2>5. CASE \E s \in Services : ReadService(s)
    BY <1>1, <2>5, ReadServiceStep
  <2> QED
    BY <2>1, <2>2, <2>3, <2>4, <2>5 DEF Next
<1> QED
  BY <1>1, <1>2 DEF IInv, Rightly

LEMMA AlwaysInv == Spec => []IInv
<1>1. Init => IInv
  BY InitInv
<1>2. IInv /\ [Next]_vars => IInv'
  BY StepInv
<1> QED
  BY <1>1, <1>2, PTL DEF Spec

-----------------------------------------------------------------------------

\* The loader's state keeps its types.
THEOREM ConfigTypeOK == Spec => []TypeOK
<1>1. IInv => TypeOK
  BY DEF IInv
<1> QED
  BY <1>1, AlwaysInv, PTL

\* The map of services and the services of the nodes agree at every moment
\* (coro_actor_config.cpp 72-89).
THEOREM ConfigMapsAgree == Spec => []MapsAgree
<1>1. IInv => MapsAgree
  BY DEF IInv
<1> QED
  BY <1>1, AlwaysInv, PTL

\* A file that is taken lists no node and no service twice, and the maps hold
\* what it lists, the addresses too (coro_actor_config.cpp 55-89).
THEOREM ConfigLoadsRight == Spec => []LoadsRight
<1>1. IInv => LoadsRight
  <2> SUFFICES ASSUME IInv, phase = "done"
               PROVE  ~bad /\ NamesOnce /\ ServicesOnce /\ EntriesRight /\ MapRight
    BY DEF LoadsRight, MapRight, EntriesRight, Brief
  <2> QED
    BY DEF IInv, Loading, SetsRight, NamesOnce, NameOnce, ServicesOnce, SvcOnce
<1> QED
  BY <1>1, AlwaysInv, PTL

\* A file that can be read, and is what is asked for in
\* coro_actor_config.cpp 9-10 and 35-39, is taken (59-82).
THEOREM ConfigRefusedRightly == Spec => []RefusedRightly
<1>1. IInv => RefusedRightly
  BY DEF IInv
<1> QED
  BY <1>1, AlwaysInv, PTL

=============================================================================
