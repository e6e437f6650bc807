---------------------------- MODULE OrderedStream ----------------------------
(***************************************************************************)
(* What the terminal's connection promises to the runtime that reads it    *)
(* (runtime/terminal-transport.ts: a connection is `send`, `close` and an  *)
(* async iterable of bytes; terminal/codec.ts makes frames of them).       *)
(* Frames arrive and are taken in the order they were sent, none twice and *)
(* none left out; a reading that ends, rather than fails, has taken every  *)
(* frame that had arrived, unless this side gave some of them up.          *)
(*                                                                         *)
(* One step may let frames arrive, take some and come to an end: bytes     *)
(* handed to a waiting reader are decoded at once.                         *)
(***************************************************************************)
EXTENDS Naturals, Sequences

CONSTANT Frame          \* what may be sent

VARIABLES
    sent,       \* the frames sent, in order
    arrived,    \* how many of them have arrived
    taken,      \* the frames taken, in order
    over,       \* the reading: open, ended, failed
    gaveUp      \* this side dropped something

streamVars == <<sent, arrived, taken, over, gaveUp>>

StreamInit ==
    /\ sent = <<>> /\ arrived = 0 /\ taken = <<>>
    /\ over = "open" /\ gaveUp = FALSE

Send == \E f \in Frame: sent' = Append(sent, f)

\* Arrival is in order, so a count says all there is to say.
Arrive == arrived' \in arrived .. Len(sent')

\* Only what arrived, and only from where the reading was.
Take == over = "open" /\ \E n \in Len(taken) .. arrived': taken' = SubSeq(sent', 1, n)

Fail == over = "open" /\ over' = "failed"
End == over = "open" /\ over' = "ended" /\ (gaveUp' \/ Len(taken') = arrived')

StreamNext ==
    /\ Send \/ UNCHANGED sent
    /\ Arrive
    /\ Take \/ UNCHANGED taken
    /\ Fail \/ End \/ UNCHANGED over
    /\ gaveUp => gaveUp'

StreamSpec == StreamInit /\ [][StreamNext]_streamVars
==============================================================================
