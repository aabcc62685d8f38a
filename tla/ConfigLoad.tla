---------------------------- MODULE ConfigLoad ----------------------------
(***************************************************************************)
(* coro_actor_config::load: the entries of a configuration file, and for   *)
(* each the file of its services, are read one after another into the two  *)
(* maps the server works with, or refused.                                 *)
(***************************************************************************)
EXTENDS Naturals, Sequences

CONSTANTS
  Names,      \* actor_name
  Services,   \* the names in the files of services
  Addresses,  \* actor_address
  Ports,      \* actor_port
  None        \* no entry, no node, no address or port

ASSUME ConfigAssumption ==
  None \notin Names \cup Addresses \cup Ports
    \cup [name : Names, services : SUBSET Services,
          listen : (Addresses \X Ports) \cup {None}]

VARIABLES
  phase,             \* where load() is
  cfg,               \* the entry it is at
  check_actor_name,  \* the names so far
  check_service,     \* the services so far
  service_map,       \* the node of each service
  actor_config_map,  \* the nodes that are finished
  entries,           \* history: the nodes that the file lists, as they begin
  listed,            \* history: the services that it lists, each with its node
  bad                \* history: an entry lacks a key, or has one of a wrong type

vars == <<phase, cfg, check_actor_name, check_service, service_map,
          actor_config_map, entries, listed, bad>>

\* A node's name, and the address and port it has in the file, if both.
Entry == [name : Names, listen : (Addresses \X Ports) \cup {None}]

Config == [name : Names, services : SUBSET Services,
           listen : (Addresses \X Ports) \cup {None}]

TypeOK ==
  /\ phase \in {"entry", "services", "done", "refused"}
  /\ cfg \in Config \cup {None}
  /\ phase = "services" => cfg # None
  /\ check_actor_name \subseteq Names
  /\ check_service \subseteq Services
  /\ service_map \in [Services -> Names \cup {None}]
  /\ actor_config_map \in [Names -> Config \cup {None}]
  /\ entries \in Seq(Entry)
  /\ listed \in Seq(Names \X Services)
  /\ bad \in BOOLEAN

Init ==
  /\ phase = "entry"
  /\ cfg = None
  /\ check_actor_name = {}
  /\ check_service = {}
  /\ service_map = [s \in Services |-> None]
  /\ actor_config_map = [n \in Names |-> None]
  /\ entries = <<>>
  /\ listed = <<>>
  /\ bad = FALSE

\* An exception, or root["actor_config"] is at its end.
Ends(how) ==
  /\ phase' = how
  /\ UNCHANGED <<cfg, check_actor_name, check_service, service_map,
                 actor_config_map>>

-----------------------------------------------------------------------------

\* (Mistake: an address is enough.)
Address(address, port) == IF address = None THEN None ELSE <<address, port>>
\* Both are set, or the node does not listen.
Listen(address, port) == IF None \in {address, port} THEN None ELSE <<address, port>>

\* (Mistake: the names are not looked up.)
NeverTaken(name) == FALSE
NameTaken(name) == name \in check_actor_name

\* The next entry lacks a key; it, or its file of services, cannot be read or
\* converted.
BadEntry ==
  /\ phase \in {"entry", "services"}
  /\ Ends("refused")
  /\ bad' = TRUE
  /\ UNCHANGED <<entries, listed>>

SameName(name, address, port) ==
  /\ phase = "entry"
  /\ NameTaken(name)
  /\ Ends("refused")
  /\ entries' = Append(entries, [name |-> name, listen |-> Listen(address, port)])
  /\ UNCHANGED <<listed, bad>>

BeginNode(name, address, port) ==
  /\ phase = "entry"
  /\ ~NameTaken(name)
  /\ phase' = "services"
  /\ cfg' = [name |-> name, services |-> {}, listen |-> Listen(address, port)]
  /\ check_actor_name' = check_actor_name \cup {name}
  /\ entries' = Append(entries, [name |-> name, listen |-> Listen(address, port)])
  /\ UNCHANGED <<check_service, service_map, actor_config_map, listed, bad>>

\* (Mistake: the set is one of each node's own.)
TakenHere(s) == s \in cfg.services
\* (Mistake: one set for the names and the services.)
TakenAsName(s) == s \in check_service \cup check_actor_name
ServiceTaken(s) == s \in check_service

SameService(s) ==
  /\ phase = "services"
  /\ ServiceTaken(s)
  /\ Ends("refused")
  /\ listed' = Append(listed, <<cfg.name, s>>)
  /\ UNCHANGED <<entries, bad>>

ReadService(s) ==
  /\ phase = "services"
  /\ ~ServiceTaken(s)
  /\ check_service' = check_service \cup {s}
  /\ service_map' = [service_map EXCEPT ![s] = cfg.name]
  /\ cfg' = [cfg EXCEPT !.services = @ \cup {s}]
  /\ listed' = Append(listed, <<cfg.name, s>>)
  /\ UNCHANGED <<phase, check_actor_name, actor_config_map, entries, bad>>

\* emplace: a node of that name would stay as it is.
EndNode ==
  /\ phase = "services"
  /\ phase' = "entry"
  /\ actor_config_map' =
       [actor_config_map EXCEPT ![cfg.name] = IF @ = None THEN cfg ELSE @]
  /\ UNCHANGED <<cfg, check_actor_name, check_service, service_map, entries,
                 listed, bad>>

Finish ==
  /\ phase = "entry"
  /\ Ends("done")
  /\ UNCHANGED <<entries, listed, bad>>

Next ==
  \/ BadEntry \/ EndNode \/ Finish
  \/ \E name \in Names, address \in Addresses \cup {None}, port \in Ports \cup {None} :
       SameName(name, address, port) \/ BeginNode(name, address, port)
  \/ \E s \in Services : SameService(s) \/ ReadService(s)

Spec == Init /\ [][Next]_vars

-----------------------------------------------------------------------------
(* Properties.                                                             *)

\* The file names no node twice, gives no service twice, and no two nodes the
\* same address and port: what config.cpp 9-10 and 35-39 ask of it.
NamesOnce == \A i, j \in DOMAIN entries : entries[i].name = entries[j].name => i = j
ServicesOnce == \A i, j \in DOMAIN listed : listed[i][2] = listed[j][2] => i = j
AddressesOnce ==
  \A i, j \in DOMAIN entries :
    entries[i].listen = entries[j].listen /\ entries[i].listen # None => i = j

\* The node at hand, or a finished one.
Nodes ==
  {actor_config_map[n] : n \in {x \in Names : actor_config_map[x] # None}}
    \cup IF phase = "services" THEN {cfg} ELSE {}

Members(seq) == {seq[i] : i \in DOMAIN seq}

\* What the proxy looks up (the node of a service, coro_actor.cpp 634) and
\* what the actors are started with (the services of a node, 747) agree at
\* every moment of an accepted or unfinished load.
MapsAgree ==
  phase # "refused" =>
    \A s \in Services, n \in Names :
      service_map[s] = n <=> \E c \in Nodes : c.name = n /\ s \in c.services

\* A file that is taken lists no node and no service twice, and both maps
\* hold all that it lists, the addresses too, and nothing else (config.cpp
\* 55-89).
LoadsRight ==
  phase = "done" =>
    /\ ~bad /\ NamesOnce /\ ServicesOnce
    /\ {[name |-> c.name, listen |-> c.listen] : c \in Nodes} = Members(entries)
    /\ \A s \in Services, n \in Names :
         service_map[s] = n <=> <<n, s>> \in Members(listed)

\* A file is refused for a reason only: something is missing or malformed, or
\* it is not what config.cpp 9-10 and 35-39 ask for.  A node may have a
\* service's name, and listen or not (config.cpp 59-82).
RefusedRightly ==
  phase = "refused" => bad \/ ~NamesOnce \/ ~ServicesOnce \/ ~AddressesOnce

\* What is said of a file: different nodes must not have the same address to
\* listen at (config.cpp 9), so none is taken that gives one twice (violated:
\* config.cpp 59-70 compare the names only).
AddressesDiffer == phase = "done" => AddressesOnce

=============================================================================
