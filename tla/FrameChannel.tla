---------------------------- MODULE FrameChannel ----------------------------
(***************************************************************************)
(* What a connection promises those who use it: frames arrive whole and in *)
(* the order of the writes, and all of them while both ends live.  When an *)
(* end stops, what is under way may be lost.  When two writes overlap, the *)
(* promise is off.                                                         *)
(***************************************************************************)
EXTENDS Naturals, Sequences

CONSTANTS Frame

VARIABLES sent, received, state

vars == <<sent, received, state>>

Init ==
  /\ sent = <<>>
  /\ received = <<>>
  /\ state = "open"

\* The write of a frame starts; with it the promise may end.
Send ==
  /\ state \in {"open", "broken"}
  /\ \E frame \in Frame : sent' = Append(sent, frame)
  /\ state' \in {state, "broken"}
  /\ UNCHANGED received

Receive ==
  /\ state \in {"open", "ended"}
  /\ Len(received) < Len(sent)
  /\ received' = Append(received, sent[Len(received) + 1])
  /\ UNCHANGED <<sent, state>>

\* Anything may be taken for a frame.
Misread ==
  /\ state = "broken"
  /\ received' \in {Append(received, frame) : frame \in Frame}
  /\ UNCHANGED <<sent, state>>

End ==
  /\ state = "open"
  /\ state' = "ended"
  /\ UNCHANGED <<sent, received>>

Next == Send \/ Receive \/ Misread \/ End

Spec == Init /\ [][Next]_vars /\ WF_vars(state = "open" /\ Receive)

=============================================================================
