----------------------------- MODULE FifoServer -----------------------------
(***************************************************************************)
(* What an actor process promises the other ends of its connections: it    *)
(* serves one request at a time, the requests of a connection in their     *)
(* order and none twice, and answers each before it takes the next of that *)
(* connection.  If it cannot, it closes the connection, and serves nothing *)
(* more of it.  The one to the proxy it closes for a failed service only.  *)
(***************************************************************************)
EXTENDS Naturals, Sequences

CONSTANTS
  Conns,      \* the connections
  Clients,    \* those of remote clients
  NoJob       \* nothing is being served

VARIABLES
  asked,      \* how many requests have been sent on each connection
  out,        \* the numbers of those that have been answered
  open,       \* the connections that the process has not closed
  job         \* the request that is being served

serverVars == <<asked, out, open, job>>

ServerInit ==
  /\ asked = [c \in Conns |-> 0]
  /\ out = [c \in Conns |-> <<>>]
  /\ open = [c \in Conns |-> TRUE]
  /\ job = NoJob

Ask(c) ==
  /\ asked' = [asked EXCEPT ![c] = @ + 1]
  /\ UNCHANGED <<out, open, job>>

Serve(c) ==
  /\ job = NoJob
  /\ open[c]
  /\ Len(out[c]) < asked[c]
  /\ job' = [conn |-> c, n |-> Len(out[c]) + 1]
  /\ UNCHANGED <<asked, out, open>>

Respond ==
  /\ job # NoJob
  /\ open[job.conn]
  /\ out' = [out EXCEPT ![job.conn] = Append(@, job.n)]
  /\ job' = NoJob
  /\ UNCHANGED <<asked, open>>

\* The request is not answered: its connection is closed, if it is not yet.
Drop ==
  /\ job # NoJob
  /\ open' = [open EXCEPT ![job.conn] = FALSE]
  /\ job' = NoJob
  /\ UNCHANGED <<asked, out>>

HangUp(c) ==
  /\ open' = [open EXCEPT ![c] = FALSE]
  /\ UNCHANGED <<asked, out, job>>

ServerNext ==
  \/ \E c \in Conns : Ask(c) \/ Serve(c)
  \/ Respond
  \/ Drop
  \/ \E c \in Clients : HangUp(c)

ServerSpec == ServerInit /\ [][ServerNext]_serverVars

=============================================================================
