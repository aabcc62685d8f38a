----------------------------- MODULE MCFraming -----------------------------
(* Values of the constants of Framing: the two formats of the program, with *)
(* length fields of two cells, so that one can be cut.                     *)
EXTENDS Framing

\* Between processes (coro_actor.cpp 689-695): proto, length, pack.
Internal == <<1, 2, Sized>>
\* From clients (coro_actor_session.cpp 30-84): the name's length, the name, the
\* type, the data's length, the data.
Remote == <<2, Sized, 1, 2, Sized>>

MCFormats == {Internal, Remote}
ProxyFormats == {Internal}

=============================================================================
