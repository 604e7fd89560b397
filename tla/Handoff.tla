------------------------------ MODULE Handoff ------------------------------
(***************************************************************************)
(* What the producer-consumer labs promise: messages 1..N pass from the    *)
(* producer to the consumer in order, each whole, none before it is sent.  *)
(***************************************************************************)
EXTENDS Naturals, Sequences

CONSTANT N

VARIABLES written,   \* how many messages the producer has sent
          read       \* what the consumer has read

hvars == <<written, read>>

\* Message k: its id and the text that belongs to it.
Whole(k) == [id |-> k, text |-> k]

HInit == written = 0 /\ read = <<>>

Write == written < N /\ written' = written + 1 /\ UNCHANGED read

Read == /\ Len(read) < written
        /\ read' = Append(read, Whole(Len(read) + 1))
        /\ UNCHANGED written

HSpec == HInit /\ [][Write \/ Read]_hvars
=============================================================================
