-------------------------------- MODULE LossyFifo --------------------------------
(***************************************************************************)
(* What an event pipeline promises to the reports built on it, whatever    *)
(* its goroutines do: a queue that may refuse an event only while MinFull  *)
(* events are already waiting, that delivers in the order of arrival and   *)
(* each event at most once, and that loses an accepted event only when it  *)
(* is unreadable or after the queue has been told to close.                *)
(***************************************************************************)
EXTENDS Naturals, Sequences

CONSTANTS MinFull, Unreadable

VARIABLES sent, queue, delivered, closing

fifoVars == <<sent, queue, delivered, closing>>

FifoInit == sent = 0 /\ queue = <<>> /\ delivered = <<>> /\ closing = FALSE

Accept ==
    /\ sent' = sent + 1
    /\ queue' = Append(queue, sent + 1)
    /\ UNCHANGED <<delivered, closing>>

Refuse ==
    /\ Len(queue) >= MinFull
    /\ sent' = sent + 1
    /\ UNCHANGED <<queue, delivered, closing>>

Deliver ==
    /\ queue # <<>> /\ Head(queue) \notin Unreadable
    /\ delivered' = Append(delivered, Head(queue))
    /\ queue' = Tail(queue)
    /\ UNCHANGED <<sent, closing>>

\* Only while closing may an event that could be read be lost.
Lose ==
    \E i \in DOMAIN queue :
        /\ closing \/ (i = 1 /\ queue[i] \in Unreadable)
        /\ queue' = SubSeq(queue, 1, i - 1) \o SubSeq(queue, i + 1, Len(queue))
        /\ UNCHANGED <<sent, delivered, closing>>

Close == closing' = TRUE /\ UNCHANGED <<sent, queue, delivered>>

FifoNext == Accept \/ Refuse \/ Deliver \/ Lose \/ Close

FifoSpec == FifoInit /\ [][FifoNext]_fifoVars
=============================================================================
