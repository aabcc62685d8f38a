------------------------------ MODULE Framing ------------------------------
(***************************************************************************)
(* One direction of a connection: coroutines of one process write frames   *)
(* with async_write, a composed operation of several async_write_some, and *)
(* a coroutine of the other reads them field by field with async_read.     *)
(*                                                                         *)
(* The byte stream is a sequence of cells, each with the number of the     *)
(* frame it belongs to, the field and the place in the field: what the     *)
(* reader gets is right when these are what it takes them for.             *)
(***************************************************************************)
EXTENDS Naturals, Sequences, SequencesExt

CONSTANTS
  Writers,    \* the coroutines that write to the socket
  Formats,    \* the fields of a frame, each with its cells, or Sized
  MaxFrames,  \* bound: how many frames are written
  MaxBody,    \* bound: how many cells a sized field has
  Capacity,   \* what the sockets' buffers hold
  Transfer    \* what one async_write_some hands over at most

\* As many cells as the field before it says.
Sized == 0

\* What was taken for a frame and is none.
Garbage == 0

\* The field before a sized one is of fixed size: it says that size.
ASSUME FramingAssumption ==
  /\ MaxFrames \in Nat /\ MaxBody \in Nat
  /\ Capacity \in Nat \ {0} /\ Transfer \in Nat \ {0}
  /\ \A frame \in Formats : frame \in Seq(Nat) /\ frame # <<>>
  /\ \A frame \in Formats : \A f \in DOMAIN frame :
       frame[f] = Sized => f > 1 /\ frame[f - 1] # Sized

VARIABLES
  format,      \* of the frames of this connection
  written,     \* the frames whose write has been started: the cells of each field
  unsent,      \* what each writer's async_write has still to hand over
  wire,        \* what the buffers hold
  open,        \* whether the writers' process has the connection
  reading,     \* whether the reader does
  field,       \* the field async_read waits for
  need,        \* the cells it has still to get
  pack,        \* what it has of the frame
  delivered,   \* the numbers of the frames that have been handed on
  overlapped   \* a write has been started while another was not finished

writing == <<written, unsent, open, overlapped>>
readers == <<reading, field, need, pack, delivered>>
vars == <<format, writing, wire, readers>>

\* The cells of frame number i.
Cells(i, frame) ==
  FlattenSeq([f \in DOMAIN frame |-> [p \in 1 .. frame[f] |-> <<i, f, p>>]])

Frames ==
  LET sized == {f \in DOMAIN format : format[f] = Sized}
  IN {[f \in DOMAIN format |-> IF f \in sized THEN size[f] ELSE format[f]]
        : size \in [sized -> 0 .. MaxBody]}

Cell == (1 .. MaxFrames) \X (DOMAIN format) \X (Nat \ {0})

TypeOK ==
  /\ format \in Formats
  /\ written \in Seq(Frames) /\ Len(written) <= MaxFrames
  /\ unsent \in [Writers -> Seq(Cell)]
  /\ wire \in Seq(Cell) /\ Len(wire) <= Capacity
  /\ open \in BOOLEAN
  /\ reading \in BOOLEAN
  /\ field \in DOMAIN format
  /\ need \in Nat
  /\ pack \in Seq(Cell)
  /\ delivered \in Seq(0 .. MaxFrames)
  /\ overlapped \in BOOLEAN

Init ==
  /\ format \in Formats
  /\ written = <<>>
  /\ unsent = [w \in Writers |-> <<>>]
  /\ wire = <<>>
  /\ open = TRUE
  /\ reading = TRUE
  /\ field = 1
  /\ need = format[1]
  /\ pack = <<>>
  /\ delivered = <<>>
  /\ overlapped = FALSE

Least(S) == CHOOSE n \in S : \A m \in S : n <= m

-----------------------------------------------------------------------------
(* The writers.                                                            *)

Busy(w) == unsent[w] # <<>>

\* (Mistake: the buffers hold anything.)
AllOf(cells) == Least({Len(cells), Transfer})
\* What async_write_some hands over.
Sendable(cells) == Least({Len(cells), Transfer, Capacity - Len(wire)})

\* (Mistake: async_write_some alone.)
Nothing(cells) == <<>>
\* What async_write goes on with.
Rest(cells) == SubSeq(cells, Sendable(cells) + 1, Len(cells))

HandOver(w, cells) ==
  /\ wire' = wire \o SubSeq(cells, 1, Sendable(cells))
  /\ unsent' = [unsent EXCEPT ![w] = Rest(cells)]

\* async_write: the first async_write_some is tried at once, also between two of
\* another write.  (Bound: after two writes have overlapped, none is started.)
StartWrite(w) ==
  /\ open /\ reading
  /\ ~overlapped
  /\ ~Busy(w)
  /\ Len(written) < MaxFrames
  /\ \E frame \in Frames :
       /\ written' = Append(written, frame)
       /\ HandOver(w, Cells(Len(written) + 1, frame))
  /\ overlapped' = (overlapped \/ \E v \in Writers : Busy(v))
  /\ UNCHANGED <<format, open, readers>>

\* The socket is ready again.
GoOnWriting(w) ==
  /\ open /\ reading
  /\ Busy(w)
  /\ Len(wire) < Capacity
  /\ HandOver(w, unsent[w])
  /\ UNCHANGED <<format, written, open, overlapped, readers>>

\* The writers' process ends, at whatever cell it is.
WriterEnds ==
  /\ open
  /\ open' = FALSE
  /\ unsent' = [w \in Writers |-> <<>>]
  /\ UNCHANGED <<format, written, wire, overlapped, readers>>

-----------------------------------------------------------------------------
(* The reader.                                                             *)

\* The size that the cells of field f say: when they are not those of one
\* frame's field, it may be anything.
Said(f, cells) ==
  LET own == {i \in DOMAIN written : cells = [p \in 1 .. format[f] |-> <<i, f, p>>]}
  IN IF own = {} THEN 0 .. MaxBody ELSE {written[i][f + 1] : i \in own}

\* The number of the frame that these are the cells of.
Numbered(cells) ==
  LET own == {i \in DOMAIN written : cells = Cells(i, written[i])}
  IN IF own = {} THEN Garbage ELSE CHOOSE i \in own : TRUE

\* (Mistake: async_read_some alone.)
Something == need = 0 \/ wire # <<>>
\* async_read completes.
Enough == need <= Len(wire)

Got == SubSeq(wire, 1, Least({need, Len(wire)}))
Gained == pack \o Got
LastCells(n) == SubSeq(Gained, Len(Gained) - n + 1, Len(Gained))

\* A field is there, and the frame has more.
ReadField ==
  /\ reading
  /\ Enough
  /\ field < Len(format)
  /\ field' = field + 1
  /\ need' \in IF format[field + 1] # Sized THEN {format[field + 1]}
               ELSE Said(field, LastCells(format[field]))
  /\ pack' = Gained
  /\ wire' = SubSeq(wire, Len(Got) + 1, Len(wire))
  /\ UNCHANGED <<format, writing, reading, delivered>>

\* The last field is there.
Deliver ==
  /\ reading
  /\ Enough
  /\ field = Len(format)
  /\ field' = 1
  /\ need' = format[1]
  /\ pack' = <<>>
  /\ delivered' = Append(delivered, Numbered(Gained))
  /\ wire' = SubSeq(wire, Len(Got) + 1, Len(wire))
  /\ UNCHANGED <<format, writing, reading>>

\* async_read has a part and waits for more.
ReadPart ==
  /\ reading
  /\ ~Enough
  /\ wire # <<>>
  /\ pack' = pack \o wire
  /\ need' = need - Len(wire)
  /\ wire' = <<>>
  /\ UNCHANGED <<format, writing, reading, field, delivered>>

\* The coroutine returns, and what it has of a frame goes with it.
Stops ==
  /\ reading' = FALSE
  /\ field' = 1 /\ need' = format[1] /\ pack' = <<>>
  /\ UNCHANGED <<format, written, open, overlapped, delivered>>

\* End of file, in a frame or not.
ReadEnd ==
  /\ reading
  /\ ~open
  /\ wire = <<>> /\ need > 0
  /\ Stops
  /\ UNCHANGED <<unsent, wire>>

\* The reader's process ends; async_write fails.
ReaderEnds ==
  /\ reading
  /\ Stops
  /\ wire' = <<>>
  /\ unsent' = [w \in Writers |-> <<>>]

Read == ReadField \/ Deliver \/ ReadPart \/ ReadEnd

Next ==
  \/ Read \/ WriterEnds \/ ReaderEnds
  \/ \E w \in Writers : StartWrite(w) \/ GoOnWriting(w)

\* Both processes run their loops.
Fairness == WF_vars(Read) /\ \A w \in Writers : WF_vars(GoOnWriting(w))

Spec == Init /\ [][Next]_vars /\ Fairness

-----------------------------------------------------------------------------
(* Properties.                                                             *)

\* While no two writes have overlapped, what is handed on are the frames that
\* were written, whole and in their order, however a write or a read is cut
\* (coro_actor.cpp 490-516, 849-882; coro_actor_session.cpp 30-94).  Of a
\* frame whose writer dies in the midst, nothing is handed on.
FramesWhole ==
  ~overlapped => /\ Len(delivered) <= Len(written)
                 /\ \A i \in DOMAIN delivered : delivered[i] = i

\* The connection keeps what FrameChannel promises; so the other modules may
\* treat the frames of a connection as a sequence of messages.
Channel == INSTANCE FrameChannel WITH
  Frame <- 0 .. MaxFrames,
  sent <- [i \in DOMAIN written |-> i],
  received <- delivered,
  state <- IF overlapped THEN "broken" ELSE IF open /\ reading THEN "open" ELSE "ended"

ImplementsChannel == Channel!Spec

\* What the assertions on pack_opt take for granted (coro_actor.cpp 523, 563,
\* 583, 887, 905): what has been read as a pack is one that was written
\* (violated: nothing keeps two coroutines of the proxy from writing to one
\* process at the same time, 609 and 697).
PacksValid == \A i \in DOMAIN delivered : delivered[i] # Garbage

=============================================================================
