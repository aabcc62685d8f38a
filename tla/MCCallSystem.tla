--------------------------- MODULE MCCallSystem ---------------------------
(* Values of the constants of CallSystem: parts of the configuration the   *)
(* repository ships (actor_config.yml, config/ and example/).              *)
EXTENDS CallSystem

\* Two calc processes that call add.
AddNodeOf == [a \in {"calc1", "calc2", "add1"} |->
                IF a \in {"calc1", "calc2"} THEN "calc" ELSE "add"]
AddMap   == [svc_calc |-> "calc", svc_add |-> "add"]
AddCalls == [svc_calc |-> {"svc_add"}, svc_add |-> {}]

\* Both calc processes call step_two, which calls echo.
TwoNodeOf == [a \in {"calc1", "calc2", "step_two1", "echo1"} |->
                CASE a \in {"calc1", "calc2"} -> "calc"
                  [] a = "step_two1" -> "step_two"
                  [] a = "echo1" -> "echo"]
TwoMap    == [svc_step |-> "calc", svc_step_two |-> "step_two",
              svc_echo |-> "echo"]
TwoCalls  == [svc_step |-> {"svc_step_two"}, svc_step_two |-> {"svc_echo"},
              svc_echo |-> {}]

\* Services that ask in different depths: calc asks step_two, which asks
\* echo, and then echo; add asks echo while that goes on.
ForkNodeOf == [a \in {"calc1", "add1", "step_two1", "echo1"} |->
                 CASE a = "calc1" -> "calc"
                   [] a = "add1" -> "add"
                   [] a = "step_two1" -> "step_two"
                   [] a = "echo1" -> "echo"]
ForkMap   == [svc_step |-> "calc", svc_add |-> "add",
              svc_step_two |-> "step_two", svc_echo |-> "echo"]
ForkCalls == [svc_step |-> {"svc_step_two", "svc_echo"},
              svc_add |-> {"svc_echo"}, svc_step_two |-> {"svc_echo"},
              svc_echo |-> {}]

\* What the shipped services never do: a service that calls back into its
\* caller's node (a cycle), one of its own node, and one nobody provides.
MixNodeOf == [a \in {"front1", "front2", "back1"} |->
                IF a = "back1" THEN "back" ELSE "front"]
MixMap    == [svc_front |-> "front", svc_back |-> "back"]
MixCalls  == [svc_front |-> {"svc_back"},
              svc_back  |-> {"svc_front", "svc_back", "svc_none"},
              svc_none  |-> {}]

\* Every process can load its library and reach the proxy.
ConnectingSpec == FairSpec /\ \A a \in Actors : WF_vars(ActorConnect(a))

\* An environment in which no client calls before every process has
\* connected to the proxy.
AllConnected == \A a \in Actors :
  \E i \in DOMAIN actor_info_map[NodeOf[a]] : actor_info_map[NodeOf[a]][i] = a

ReadySpec ==
  /\ Init
  /\ [][Next /\ (clients' # clients => AllConnected)]_vars
  /\ Fairness

=============================================================================
