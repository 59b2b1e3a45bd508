------------------------------ MODULE EventPipeline ------------------------------
(***************************************************************************)
(* The path of one eBPF program's events through a kerno process: the      *)
(* kernel hook and its ring buffer, the readLoop goroutine of the loader,  *)
(* the Go channel between them, the goroutine that consumes it, and the    *)
(* main goroutine that owns both and shuts them down.                      *)
(*                                                                         *)
(* The six loaders are the same code over different event structs, so one  *)
(* instance stands for any of them.  Three owners use the loaders:         *)
(*   "collector"  doctor and predict: Collector.Stop cancels and waits for *)
(*                the consumer, at most two seconds;                       *)
(*   "bridge"     the daemon and the watch commands: the consumer is       *)
(*                cancelled and never waited for;                          *)
(*   "stream"     the trace and audit commands: main is the consumer.      *)
(*                                                                         *)
(* An event is the number of the hook firing that produced it.             *)
(***************************************************************************)
EXTENDS Naturals, Sequences

CONSTANTS
    RingCap,      \* records the BPF ring buffer holds (RINGBUF_SIZE)
    ChanCap,      \* capacity of the Go channel (256, 64 for oom_track)
    MaxEvents,    \* bound of the model: hook firings considered
    Owners,       \* the kinds of owner to start the pipeline with
    Malformed     \* the events whose bytes do not decode

ASSUME RingCapAssumption   == RingCap \in Nat \ {0}
ASSUME ChanCapAssumption   == ChanCap \in Nat \ {0}
ASSUME MaxEventsAssumption == MaxEvents \in Nat
ASSUME OwnersAssumption    == Owners \subseteq {"collector", "bridge", "stream"}
ASSUME MalformedAssumption == Malformed \subseteq Nat

VARIABLES
    owner,      \* who started the pipeline; never changes
    emitted,    \* hook firings that asked the ring buffer for space
    dropped,    \* how many of them got none
    ring,       \* submitted records that readLoop has not read
    hand,       \* the record readLoop has read and not yet sent: <<>> or <<e>>
    ch,         \* the buffered channel
    recorded,   \* events the consumer has aggregated, in order
    skipped,    \* events the consumer failed to decode
    cancelled,  \* ctx.Done() of the consumer and of readLoop
    readerShut, \* reader.Close() has been called
    readerNil,  \* l.reader has been set to nil
    chClosed,   \* readLoop has closed the channel
    rl,         \* control of readLoop
    cons,       \* control of the consumer
    main,       \* control of the owner's shutdown
    timedOut    \* Collector.Stop gave up waiting

queues   == <<ring, hand, ch, recorded>>
counters == <<emitted, dropped, skipped>>
loader   == <<readerShut, readerNil>>
vars == <<owner, queues, counters, loader, cancelled, chClosed, rl, cons, main, timedOut>>

Events == 1..MaxEvents

(***************************************************************************)
(* readLoop: "top" is about to evaluate l.reader, "reading" is inside      *)
(* Read, "send" is at the select, "panic" has dereferenced a nil reader.   *)
(* main: "run", then "await" inside Collector.Stop, then the steps of      *)
(* close(): "closeReader", "dropReader", "detach", and "down".             *)
(***************************************************************************)
TypeOK ==
    /\ owner \in Owners
    /\ emitted \in 0..MaxEvents
    /\ dropped \in Nat /\ skipped \in Nat
    /\ ring \in Seq(Events) /\ Len(ring) <= RingCap
    /\ hand \in Seq(Events) /\ Len(hand) <= 1
    /\ ch \in Seq(Events) /\ Len(ch) <= ChanCap
    /\ recorded \in Seq(Events)
    /\ cancelled \in BOOLEAN /\ chClosed \in BOOLEAN /\ timedOut \in BOOLEAN
    /\ readerShut \in BOOLEAN /\ readerNil \in BOOLEAN
    /\ rl \in {"top", "reading", "send", "exited", "panic"}
    /\ cons \in {"recv", "exited"}
    /\ main \in {"run", "await", "closeReader", "dropReader", "detach", "down"}

Init ==
    /\ owner \in Owners
    /\ emitted = 0 /\ dropped = 0 /\ skipped = 0
    /\ ring = <<>> /\ hand = <<>> /\ ch = <<>> /\ recorded = <<>>
    /\ cancelled = FALSE /\ chClosed = FALSE /\ timedOut = FALSE
    /\ readerShut = FALSE /\ readerNil = FALSE
    /\ rl = "top" /\ cons = "recv" /\ main = "run"

(***************************************************************************)
(* The kernel.  A hook asks for ring space and gives the event up when     *)
(* there is none; the hooks stay attached until close() drops the links.   *)
(***************************************************************************)
Attached == main # "down"

\* A panic in any goroutine ends the process, and with it every action.
Running == rl # "panic"

Emit ==
    /\ Running /\ Attached /\ emitted < MaxEvents
    /\ emitted' = emitted + 1
    /\ IF Len(ring) < RingCap
       THEN ring' = Append(ring, emitted + 1) /\ UNCHANGED dropped
       ELSE dropped' = dropped + 1 /\ UNCHANGED ring
    /\ UNCHANGED <<owner, hand, ch, recorded, skipped,
                   loader, cancelled, chClosed, rl, cons, main, timedOut>>

(***************************************************************************)
(* readLoop.                                                               *)
(***************************************************************************)
\* The expression l.reader is evaluated afresh before every Read.  The field is
\* written without synchronisation, so the nil may be seen at once or not yet.
EvalReader ==
    /\ rl = "top"
    /\ rl' \in {"reading"} \cup (IF readerNil THEN {"panic"} ELSE {})
    /\ UNCHANGED <<owner, queues, counters, loader, cancelled, chClosed,
                   cons, main, timedOut>>

ReadRecord ==
    /\ rl = "reading" /\ ~readerShut /\ ring # <<>>
    /\ hand' = <<Head(ring)>> /\ ring' = Tail(ring)
    /\ rl' = "send"
    /\ UNCHANGED <<owner, ch, recorded, counters, loader, cancelled, chClosed,
                   cons, main, timedOut>>

\* Read returns an error: the reader was closed under it, or it failed.
\* Both branches of the code return, and the deferred close(ch) runs.
ReadError ==
    /\ rl = "reading"
    /\ rl' = "exited" /\ chClosed' = TRUE
    /\ UNCHANGED <<owner, queues, counters, loader, cancelled, cons, main, timedOut>>

\* Mutant of Send: a "default:" arm that gives the record up when the channel is full.
SendOrDrop ==
    /\ rl = "send"
    /\ ch' = IF Len(ch) < ChanCap THEN Append(ch, Head(hand)) ELSE ch
    /\ hand' = <<>> /\ rl' = "top"
    /\ UNCHANGED <<owner, ring, recorded, counters, loader, cancelled, chClosed,
                   cons, main, timedOut>>

\* Mutant of Send: the buffer of the record is not cloned, so the records still
\* in the channel show the bytes of the latest one.
SendUncloned ==
    /\ rl = "send" /\ Len(ch) < ChanCap
    /\ ch' = Append([i \in DOMAIN ch |-> Head(hand)], Head(hand)) /\ hand' = <<>>
    /\ rl' = "top"
    /\ UNCHANGED <<owner, ring, recorded, counters, loader, cancelled, chClosed,
                   cons, main, timedOut>>

\* The two arms of the select.  When both are ready Go takes either.
Send ==
    /\ rl = "send" /\ Len(ch) < ChanCap
    /\ ch' = Append(ch, Head(hand)) /\ hand' = <<>>
    /\ rl' = "top"
    /\ UNCHANGED <<owner, ring, recorded, counters, loader, cancelled, chClosed,
                   cons, main, timedOut>>

\* Mutant of SendCancelled: "continue" for "return", so the loop reads on and
\* gives up one record after another.
SendCancelledContinues ==
    /\ rl = "send" /\ cancelled
    /\ hand' = <<>> /\ rl' = "top"
    /\ UNCHANGED <<owner, ring, ch, recorded, counters, loader, cancelled, chClosed,
                   cons, main, timedOut>>

SendCancelled ==
    /\ rl = "send" /\ cancelled
    /\ hand' = <<>>
    /\ rl' = "exited" /\ chClosed' = TRUE
    /\ UNCHANGED <<owner, ring, ch, recorded, counters, loader, cancelled,
                   cons, main, timedOut>>

(***************************************************************************)
(* The consumer: Collector.consume, Bridge.consume, or a trace command.    *)
(***************************************************************************)
\* Mutant of Consume: a decode error is logged and the zero event recorded.
ConsumeZero ==
    /\ Running /\ cons = "recv" /\ ch # <<>>
    /\ ch' = Tail(ch)
    /\ recorded' = Append(recorded, IF Head(ch) \in Malformed THEN 0 ELSE Head(ch))
    /\ UNCHANGED <<owner, ring, hand, counters,
                   loader, cancelled, chClosed, rl, cons, main, timedOut>>

\* Mutant of Consume: a decode error returns instead of continuing.
ConsumeOrQuit ==
    /\ Running /\ cons = "recv" /\ ch # <<>>
    /\ ch' = Tail(ch)
    /\ IF Head(ch) \in Malformed
       THEN skipped' = skipped + 1 /\ cons' = "exited" /\ UNCHANGED recorded
       ELSE recorded' = Append(recorded, Head(ch)) /\ UNCHANGED <<skipped, cons>>
    /\ UNCHANGED <<owner, ring, hand, emitted, dropped,
                   loader, cancelled, chClosed, rl, main, timedOut>>

Consume ==
    /\ Running /\ cons = "recv" /\ ch # <<>>
    /\ ch' = Tail(ch)
    /\ IF Head(ch) \in Malformed
       THEN skipped' = skipped + 1 /\ UNCHANGED recorded
       ELSE recorded' = Append(recorded, Head(ch)) /\ UNCHANGED skipped
    /\ UNCHANGED <<owner, ring, hand, emitted, dropped,
                   loader, cancelled, chClosed, rl, cons, main, timedOut>>

\* Mutant of ConsumerExit: "for raw := range ch" for the select on ctx.Done().
ConsumerRanges ==
    /\ Running /\ cons = "recv" /\ chClosed /\ ch = <<>>
    /\ cons' = "exited"
    /\ UNCHANGED <<owner, queues, counters, loader, cancelled, chClosed,
                   rl, main, timedOut>>

ConsumerExit ==
    /\ Running /\ cons = "recv"
    /\ \/ cancelled
       \/ chClosed /\ ch = <<>>
    /\ cons' = "exited"
    /\ UNCHANGED <<owner, queues, counters, loader, cancelled, chClosed,
                   rl, main, timedOut>>

(***************************************************************************)
(* The owner.                                                              *)
(***************************************************************************)
\* Collector.Stop: cancel, then wait for c.done or for two seconds.
StopCollector ==
    /\ Running /\ owner = "collector" /\ main = "run"
    /\ cancelled' = TRUE /\ main' = "await"
    /\ UNCHANGED <<owner, queues, counters, loader, chClosed, rl, cons, timedOut>>

\* Mutant of StopReturns: Stop cancels and does not wait for c.done.
StopReturnsAtOnce ==
    /\ Running /\ main = "await"
    /\ main' = "closeReader"
    /\ UNCHANGED <<owner, queues, counters, loader, cancelled, chClosed,
                   rl, cons, timedOut>>

StopReturns ==
    /\ Running /\ main = "await" /\ cons = "exited"
    /\ main' = "closeReader"
    /\ UNCHANGED <<owner, queues, counters, loader, cancelled, chClosed,
                   rl, cons, timedOut>>

StopTimesOut ==
    /\ Running /\ main = "await" /\ cons # "exited"
    /\ timedOut' = TRUE /\ main' = "closeReader"
    /\ UNCHANGED <<owner, queues, counters, loader, cancelled, chClosed, rl, cons>>

\* SIGINT, SIGTERM or --duration ends the context of the other owners.
Signal ==
    /\ Running /\ owner # "collector" /\ main = "run" /\ ~cancelled
    /\ cancelled' = TRUE
    /\ UNCHANGED <<owner, queues, counters, loader, chClosed, rl, cons, main, timedOut>>

\* The daemon wakes on ctx.Done(); Bridge.Stop cancels again, waits for nobody.
BridgeDone ==
    /\ Running /\ owner = "bridge" /\ main = "run" /\ cancelled
    /\ main' = "closeReader"
    /\ UNCHANGED <<owner, queues, counters, loader, cancelled, chClosed,
                   rl, cons, timedOut>>

\* A trace command's loop returns, on ctx.Done() or on a closed channel; the
\* deferred cancel runs before the deferred Close.
StreamDone ==
    /\ Running /\ owner = "stream" /\ main = "run" /\ cons = "exited"
    /\ cancelled' = TRUE /\ main' = "closeReader"
    /\ UNCHANGED <<owner, queues, counters, loader, chClosed, rl, cons, timedOut>>

\* Mutant of CloseReader: close() drops the reader without closing it.
CloseReaderForgets ==
    /\ Running /\ main = "closeReader"
    /\ main' = "dropReader"
    /\ UNCHANGED <<owner, queues, counters, loader, cancelled, chClosed, rl, cons, timedOut>>

\* close(): reader.Close(), then l.reader = nil, then the links, one by one.
CloseReader ==
    /\ Running /\ main = "closeReader"
    /\ readerShut' = TRUE /\ main' = "dropReader"
    /\ UNCHANGED <<owner, queues, counters, readerNil, cancelled, chClosed, rl, cons, timedOut>>

DropReader ==
    /\ Running /\ main = "dropReader"
    /\ readerNil' = TRUE /\ main' = "detach"
    /\ UNCHANGED <<owner, queues, counters, readerShut, cancelled, chClosed, rl, cons, timedOut>>

Detach ==
    /\ Running /\ main = "detach"
    /\ main' = "down"
    /\ UNCHANGED <<owner, queues, counters, loader, cancelled, chClosed,
                   rl, cons, timedOut>>

ReadLoop == EvalReader \/ ReadRecord \/ ReadError \/ Send \/ SendCancelled
Consumer == Consume \/ ConsumerExit
Shutdown == \/ StopReturns \/ StopTimesOut \/ BridgeDone \/ StreamDone
            \/ CloseReader \/ DropReader \/ Detach

Next == Emit \/ ReadLoop \/ Consumer \/ StopCollector \/ Signal \/ Shutdown

Spec == Init /\ [][Next]_vars

(***************************************************************************)
(* Fairness: every goroutine is scheduled, the kernel wakes a reader that  *)
(* has data or was closed, and the two-second timer of Stop fires.         *)
(* Nothing obliges hooks to fire, reads to fail or a signal to arrive.     *)
(***************************************************************************)
Fairness ==
    /\ WF_vars(EvalReader)
    /\ WF_vars(ReadRecord)
    /\ WF_vars(readerShut /\ ReadError)
    /\ WF_vars(Send \/ SendCancelled)
    /\ WF_vars(Consume)
    /\ WF_vars(ConsumerExit)
    /\ WF_vars(Shutdown)

FairSpec == Spec /\ Fairness

(***************************************************************************)
(* Safety.                                                                 *)
(***************************************************************************)
\* The whole path of the accepted events, oldest first.
Path == recorded \o ch \o hand \o ring

InFlight == Len(ch) + Len(hand) + Len(ring)
Settled  == dropped + skipped + Len(recorded)

\* Events that are neither settled nor in flight.
Lost == emitted - (Settled + InFlight)

(* Nothing is lost or counted twice between the ring buffer and the        *)
(* aggregates: the only event user space ever gives up is the one record   *)
(* readLoop holds at its select when the context is cancelled.             *)
LossBudget ==
    /\ Lost \in 0..1
    /\ Lost = 1 => cancelled /\ chClosed

(* Events reach the aggregates in the order the kernel produced them and   *)
(* at most once, across the ring, the read loop, the channel and the       *)
(* consumer.                                                               *)
FifoOrder ==
    \A i, j \in DOMAIN Path : i < j => Path[i] < Path[j]

(* Once Collector.Stop has returned without its timeout warning, or a      *)
(* trace command's loop has, the aggregates never change again: a report   *)
(* built from them afterwards is of a quiet collector.                     *)
Stopped == main \notin {"run", "await"} /\ owner # "bridge" /\ ~timedOut
FrozenAfterStop == [][Stopped => UNCHANGED <<recorded, skipped>>]_vars

(* The pipeline is the lossy queue that its users rely on.                 *)
Fifo == INSTANCE LossyFifo
          WITH MinFull <- RingCap, Unreadable <- Malformed, sent <- emitted,
               queue <- ch \o hand \o ring, delivered <- recorded, closing <- cancelled
ImplementsLossyFifo == Fifo!FifoSpec

(***************************************************************************)
(* Liveness.                                                               *)
(***************************************************************************)
(* While nobody cancels and Read does not fail, every event the ring       *)
(* buffer accepted is recorded or found unreadable: a full channel or a    *)
(* decode error delays the read loop and never wedges it.                  *)
EventuallyRecorded ==
    \A e \in Events :
        (\E i \in DOMAIN ring : ring[i] = e)
            ~> \/ \E i \in DOMAIN recorded : recorded[i] = e
               \/ e \in Malformed /\ skipped > 0
               \/ cancelled \/ chClosed

(* Every shutdown that begins ends, whether the consumer answers, is late, *)
(* or waits on a channel nobody will ever close.                           *)
ShutdownEnds == cancelled ~> (main = "down" \/ ~Running)

(* loader.go promises that the channel is closed once the loader is: no    *)
(* read loop stays blocked in Read behind a closed loader.                 *)
ReadLoopEnds == (main = "down") ~> (chClosed \/ ~Running)

(***************************************************************************)
(* What comments in the source promise and the code does not do.           *)
(***************************************************************************)
(* collector.go: "Stop gracefully shuts down the collector, flushing any   *)
(* buffered events."                                                       *)
StopFlushes ==
    \A e \in Events :
        (owner = "collector" /\ main = "await" /\ \E i \in DOMAIN ch : ch[i] = e)
            ~> \/ \E i \in DOMAIN recorded : recorded[i] = e
               \/ e \in Malformed \/ ~Running

(* The shutdown of every owner is called graceful: no goroutine panics.    *)
GracefulShutdown == rl # "panic"
=============================================================================
