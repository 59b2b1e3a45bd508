--------------------------- MODULE EventPipelineProofs ---------------------------
(***************************************************************************)
(* What EventPipeline guarantees for every capacity, every number of       *)
(* events, every owner and every set of undecodable events.                *)
(***************************************************************************)
EXTENDS EventPipeline, SequenceTheorems, TLAPS

Ordered(s) == \A i, j \in DOMAIN s : i < j => s[i] < s[j]
Below(s, t) == \A i \in DOMAIN s, j \in DOMAIN t : s[i] < t[j]
AtMost(s, n) == \A i \in DOMAIN s : s[i] <= n

(***************************************************************************)
(* The inductive invariant.  Neither LossBudget nor FifoOrder is inductive *)
(* by itself: the budget needs that readLoop holds a record exactly at its *)
(* select and closes the channel exactly when it exits, the order needs    *)
(* every stage below the next one and below the events still to come.      *)
(***************************************************************************)
Control ==
    /\ rl = "send" <=> Len(hand) = 1
    /\ chClosed <=> rl = "exited"
    /\ Stopped => cons = "exited"

Budget ==
    /\ Settled + InFlight <= emitted
    /\ emitted <= Settled + InFlight + 1
    /\ emitted = Settled + InFlight \/ (cancelled /\ rl = "exited")

Order ==
    /\ Ordered(recorded) /\ Ordered(ch) /\ Ordered(hand) /\ Ordered(ring)
    /\ Below(recorded, ch) /\ Below(recorded, hand) /\ Below(recorded, ring)
    /\ Below(ch, hand) /\ Below(ch, ring) /\ Below(hand, ring)
    /\ AtMost(recorded, emitted) /\ AtMost(ch, emitted)
    /\ AtMost(hand, emitted) /\ AtMost(ring, emitted)

IInv == TypeOK /\ Control /\ Budget /\ Order

(* A queue of one element is that element.                                 *)
LEMMA HeadOfSingleton ==
  ASSUME NEW E, NEW s \in Seq(E), Len(s) = 1
  PROVE  s # <<>> /\ Head(s) \in E
  OBVIOUS

(***************************************************************************)
(* Type correctness.                                                       *)
(***************************************************************************)
(* The initial state has the right types.                                  *)
LEMMA TypeInit == Init => TypeOK
<1> SUFFICES ASSUME Init PROVE TypeOK
  OBVIOUS
<1>1. ring \in Seq(Events) /\ Len(ring) = 0
  BY DEF Init
<1>2. hand \in Seq(Events) /\ ch \in Seq(Events) /\ recorded \in Seq(Events)
  BY DEF Init
<1>3. Len(hand) = 0 /\ Len(ch) = 0
  BY DEF Init
<1>4. 0 \in 0..MaxEvents /\ 0 <= RingCap /\ 0 <= ChanCap
  BY MaxEventsAssumption, RingCapAssumption, ChanCapAssumption
<1>5. /\ owner \in Owners /\ emitted \in 0..MaxEvents
      /\ dropped \in Nat /\ skipped \in Nat
      /\ Len(ring) <= RingCap /\ Len(ch) <= ChanCap /\ Len(hand) <= 1
  BY <1>1, <1>3, <1>4 DEF Init
<1> QED
  BY <1>1, <1>2, <1>5 DEF Init, TypeOK

(* Every step keeps the types and the capacities of both queues.           *)
LEMMA TypeStep == TypeOK /\ Control /\ [Next]_vars => TypeOK'
<1> SUFFICES ASSUME TypeOK, Control, [Next]_vars PROVE TypeOK'
  OBVIOUS
<1> USE MaxEventsAssumption, RingCapAssumption, ChanCapAssumption
<1> USE DEF TypeOK, Events, queues, counters, loader
<1>1. CASE Emit
  <2>1. emitted + 1 \in Events /\ emitted' \in 0..MaxEvents
    BY <1>1 DEF Emit
  <2>2. CASE Len(ring) < RingCap
    <3>1. ring' = Append(ring, emitted + 1) /\ dropped' = dropped
      BY <1>1, <2>2 DEF Emit
    <3>2. ring' \in Seq(Events) /\ Len(ring') = Len(ring) + 1
      BY <2>1, <3>1
    <3> QED
      BY <1>1, <2>1, <2>2, <3>1, <3>2 DEF Emit
  <2>3. CASE ~(Len(ring) < RingCap)
    BY <1>1, <2>1, <2>3 DEF Emit
  <2> QED
    BY <2>2, <2>3
<1>2. CASE EvalReader
  BY <1>2 DEF EvalReader
<1>3. CASE ReadRecord
  BY <1>3 DEF ReadRecord
<1>4. CASE ReadError
  BY <1>4 DEF ReadError
<1>5. CASE Send
  <2>1. Len(hand) = 1
    BY <1>5 DEF Send, Control
  <2>a. Head(hand) \in Events
    BY <2>1, HeadOfSingleton
  <2>2. ch' = Append(ch, Head(hand))
    BY <1>5 DEF Send
  <2>3. ch' \in Seq(Events) /\ Len(ch') = Len(ch) + 1
    BY <2>a, <2>2
  <2> QED
    BY <1>5, <2>3 DEF Send
<1>6. CASE SendCancelled
  BY <1>6 DEF SendCancelled
<1>7. CASE Consume
  <2>1. Head(ch) \in Events /\ Tail(ch) \in Seq(Events) /\ Len(Tail(ch)) = Len(ch) - 1
    BY <1>7 DEF Consume
  <2>2. CASE Head(ch) \in Malformed
    BY <1>7, <2>1, <2>2 DEF Consume
  <2>3. CASE Head(ch) \notin Malformed
    <3>1. recorded' = Append(recorded, Head(ch)) /\ skipped' = skipped
      BY <1>7, <2>3 DEF Consume
    <3>2. recorded' \in Seq(Events)
      BY <2>1, <3>1
    <3> QED
      BY <1>7, <2>1, <3>1, <3>2 DEF Consume
  <2> QED
    BY <2>2, <2>3
<1>8. CASE ConsumerExit
  BY <1>8 DEF ConsumerExit
<1>9. CASE StopCollector
  BY <1>9 DEF StopCollector
<1>10. CASE StopReturns
  BY <1>10 DEF StopReturns
<1>11. CASE StopTimesOut
  BY <1>11 DEF StopTimesOut
<1>12. CASE Signal
  BY <1>12 DEF Signal
<1>13. CASE BridgeDone
  BY <1>13 DEF BridgeDone
<1>14. CASE StreamDone
  BY <1>14 DEF StreamDone
<1>15. CASE CloseReader
  BY <1>15 DEF CloseReader
<1>16. CASE DropReader
  BY <1>16 DEF DropReader
<1>17. CASE Detach
  BY <1>17 DEF Detach
<1>18. CASE UNCHANGED vars
  BY <1>18 DEF vars
<1> QED
  BY <1>1, <1>2, <1>3, <1>4, <1>5, <1>6, <1>7, <1>8, <1>9, <1>10, <1>11, <1>12, <1>13, <1>14, <1>15, <1>16, <1>17, <1>18 DEF Next, ReadLoop, Consumer, Shutdown

(***************************************************************************)
(* Control: what each goroutine's position says about the shared state.    *)
(***************************************************************************)
(* Every step keeps the positions of the goroutines consistent.            *)
LEMMA ControlStep == TypeOK /\ Control /\ [Next]_vars => Control'
<1> SUFFICES ASSUME TypeOK, Control, [Next]_vars PROVE Control'
  OBVIOUS
<1> USE DEF TypeOK, Control, Stopped, Running, queues, counters, loader
<1>1. CASE Emit
  BY <1>1 DEF Emit
<1>2. CASE EvalReader
  BY <1>2 DEF EvalReader
<1>3. CASE ReadRecord
  BY <1>3 DEF ReadRecord
<1>4. CASE ReadError
  BY <1>4 DEF ReadError
<1>5. CASE Send
  BY <1>5 DEF Send
<1>6. CASE SendCancelled
  BY <1>6 DEF SendCancelled
<1>7. CASE Consume
  BY <1>7 DEF Consume
<1>8. CASE ConsumerExit
  BY <1>8 DEF ConsumerExit
<1>9. CASE StopCollector
  BY <1>9 DEF StopCollector
<1>10. CASE StopReturns
  BY <1>10 DEF StopReturns
<1>11. CASE StopTimesOut
  BY <1>11 DEF StopTimesOut
<1>12. CASE Signal
  BY <1>12 DEF Signal
<1>13. CASE BridgeDone
  BY <1>13 DEF BridgeDone
<1>14. CASE StreamDone
  BY <1>14 DEF StreamDone
<1>15. CASE CloseReader
  BY <1>15 DEF CloseReader
<1>16. CASE DropReader
  BY <1>16 DEF DropReader
<1>17. CASE Detach
  BY <1>17 DEF Detach
<1>18. CASE UNCHANGED vars
  BY <1>18 DEF vars
<1> QED
  BY <1>1, <1>2, <1>3, <1>4, <1>5, <1>6, <1>7, <1>8, <1>9, <1>10, <1>11, <1>12, <1>13, <1>14, <1>15, <1>16, <1>17, <1>18 DEF Next, ReadLoop, Consumer, Shutdown

(***************************************************************************)
(* The budget: every action moves one event from one place to another.     *)
(***************************************************************************)
(* Every step accounts for the event it moves, drops or gives up.          *)
LEMMA BudgetStep == TypeOK /\ Control /\ Budget /\ [Next]_vars => Budget'
<1> SUFFICES ASSUME TypeOK, Control, Budget, [Next]_vars PROVE Budget'
  OBVIOUS
<1>a. TypeOK'
  BY TypeStep
<1>b. /\ Settled \in Nat /\ InFlight \in Nat /\ emitted \in Nat
      /\ Settled' \in Nat /\ InFlight' \in Nat /\ emitted' \in Nat
  <2>1. Settled \in Nat /\ InFlight \in Nat /\ emitted \in Nat
    BY MaxEventsAssumption DEF TypeOK, Settled, InFlight
  <2>2. Settled' \in Nat /\ InFlight' \in Nat /\ emitted' \in Nat
    BY <1>a, MaxEventsAssumption DEF TypeOK, Settled, InFlight
  <2> QED
    BY <2>1, <2>2
<1> USE DEF Running, queues, counters, loader
<1>1. CASE Emit
  <2>1. emitted' = emitted + 1 /\ cancelled' = cancelled /\ rl' = rl
    BY <1>1 DEF Emit
  <2>2. CASE Len(ring) < RingCap
    <3>1. emitted + 1 \in Events /\ ring' = Append(ring, emitted + 1)
      BY <1>1, <2>2, MaxEventsAssumption DEF Emit, TypeOK, Events
    <3>2. Len(ring') = Len(ring) + 1
      BY <3>1 DEF TypeOK
    <3>3. InFlight' = InFlight + 1 /\ Settled' = Settled
      BY <1>1, <2>2, <3>2 DEF Emit, TypeOK, InFlight, Settled
    <3> QED
      BY <1>b, <2>1, <3>3 DEF Budget
  <2>3. CASE ~(Len(ring) < RingCap)
    <3>1. InFlight' = InFlight /\ Settled' = Settled + 1
      BY <1>1, <2>3 DEF Emit, TypeOK, InFlight, Settled
    <3> QED
      BY <1>b, <2>1, <3>1 DEF Budget
  <2> QED
    BY <2>2, <2>3
<1>2. CASE EvalReader
  BY <1>2 DEF EvalReader, Budget, Settled, InFlight
<1>3. CASE ReadRecord
  <2>1. Len(hand) = 0 /\ Len(hand') = 1 /\ Len(ring') = Len(ring) - 1
    BY <1>3 DEF ReadRecord, TypeOK, Control
  <2>2. InFlight' = InFlight /\ Settled' = Settled /\ emitted' = emitted
    BY <1>3, <2>1 DEF ReadRecord, TypeOK, InFlight, Settled
  <2> QED
    BY <1>3, <1>b, <2>2 DEF ReadRecord, Budget
<1>4. CASE ReadError
  BY <1>4 DEF ReadError, Budget, Settled, InFlight
<1>5. CASE Send
  <2>1. Len(hand) = 1 /\ Len(hand') = 0
    BY <1>5 DEF Send, TypeOK, Control
  <2>2. Head(hand) \in Events /\ ch' = Append(ch, Head(hand))
    <3>1. Head(hand) \in Events
      BY <2>1, HeadOfSingleton DEF TypeOK
    <3> QED
      BY <1>5, <3>1 DEF Send
  <2>3. Len(ch') = Len(ch) + 1
    BY <2>2 DEF TypeOK
  <2>4. InFlight' = InFlight /\ Settled' = Settled /\ emitted' = emitted
    BY <1>5, <2>1, <2>3 DEF Send, TypeOK, InFlight, Settled
  <2> QED
    BY <1>5, <1>b, <2>4 DEF Send, Budget
<1>6. CASE SendCancelled
  <2>1. Len(hand) = 1 /\ Len(hand') = 0
    BY <1>6 DEF SendCancelled, TypeOK, Control
  <2>2. InFlight' = InFlight - 1 /\ Settled' = Settled /\ emitted' = emitted
    BY <1>6, <2>1 DEF SendCancelled, TypeOK, InFlight, Settled
  <2>3. emitted = Settled + InFlight
    BY <1>6 DEF SendCancelled, Budget
  <2> QED
    BY <1>6, <1>b, <2>2, <2>3 DEF SendCancelled, Budget
<1>7. CASE Consume
  <2>1. Head(ch) \in Events /\ Len(ch') = Len(ch) - 1
    BY <1>7 DEF Consume, TypeOK
  <2>2. InFlight' = InFlight - 1 /\ emitted' = emitted
    BY <1>7, <2>1 DEF Consume, TypeOK, InFlight
  <2>3. Settled' = Settled + 1
    <3>1. CASE Head(ch) \in Malformed
      BY <1>7, <3>1 DEF Consume, TypeOK, Settled
    <3>2. CASE Head(ch) \notin Malformed
      <4>1. recorded' = Append(recorded, Head(ch))
        BY <1>7, <3>2 DEF Consume
      <4>2. Len(recorded') = Len(recorded) + 1
        BY <2>1, <4>1 DEF TypeOK
      <4> QED
        BY <1>7, <3>2, <4>2 DEF Consume, TypeOK, Settled
    <3> QED
      BY <3>1, <3>2
  <2> QED
    BY <1>7, <1>b, <2>2, <2>3 DEF Consume, Budget
<1>8. CASE ConsumerExit
  BY <1>8 DEF ConsumerExit, Budget, Settled, InFlight
<1>9. CASE StopCollector
  BY <1>9 DEF StopCollector, Budget, Settled, InFlight
<1>10. CASE StopReturns
  BY <1>10 DEF StopReturns, Budget, Settled, InFlight
<1>11. CASE StopTimesOut
  BY <1>11 DEF StopTimesOut, Budget, Settled, InFlight
<1>12. CASE Signal
  BY <1>12 DEF Signal, Budget, Settled, InFlight
<1>13. CASE BridgeDone
  BY <1>13 DEF BridgeDone, Budget, Settled, InFlight
<1>14. CASE StreamDone
  BY <1>14 DEF StreamDone, Budget, Settled, InFlight
<1>15. CASE CloseReader
  BY <1>15 DEF CloseReader, Budget, Settled, InFlight
<1>16. CASE DropReader
  BY <1>16 DEF DropReader, Budget, Settled, InFlight
<1>17. CASE Detach
  BY <1>17 DEF Detach, Budget, Settled, InFlight
<1>18. CASE UNCHANGED vars
  BY <1>18 DEF vars, Budget, Settled, InFlight
<1> QED
  BY <1>1, <1>2, <1>3, <1>4, <1>5, <1>6, <1>7, <1>8, <1>9, <1>10, <1>11, <1>12, <1>13, <1>14, <1>15, <1>16, <1>17, <1>18 DEF Next, ReadLoop, Consumer, Shutdown

(***************************************************************************)
(* Order: taking the head of one stage and appending it to the next keeps  *)
(* every stage increasing and below the later ones.                        *)
(***************************************************************************)
(* An empty stage is ordered and below anything.                           *)
LEMMA EmptyStage ==
  ASSUME NEW t, NEW n
  PROVE  Ordered(<<>>) /\ Below(<<>>, t) /\ Below(t, <<>>) /\ AtMost(<<>>, n)
  BY DEF Ordered, Below, AtMost

(* What is left after a dequeue.                                           *)
LEMMA TailElements ==
  ASSUME NEW s \in Seq(Nat), s # <<>>
  PROVE  /\ Head(s) = s[1] /\ 1 \in DOMAIN s /\ Head(s) \in Nat
         /\ Tail(s) \in Seq(Nat)
         /\ \A i \in DOMAIN Tail(s) :
              i \in Nat /\ i >= 1 /\ i + 1 \in DOMAIN s /\ Tail(s)[i] = s[i + 1]
  OBVIOUS

(* What is there after an enqueue.                                         *)
LEMMA AppendElements ==
  ASSUME NEW s \in Seq(Nat), NEW e \in Nat
  PROVE  /\ Append(s, e) \in Seq(Nat)
         /\ \A i \in DOMAIN Append(s, e) :
              \/ i \in DOMAIN s /\ Append(s, e)[i] = s[i]
              \/ i = Len(s) + 1 /\ Append(s, e)[i] = e
  OBVIOUS

(* A dequeue keeps a stage ordered, its head below the rest.               *)
LEMMA TailOrdered ==
  ASSUME NEW s \in Seq(Nat), s # <<>>, Ordered(s)
  PROVE  Ordered(Tail(s)) /\ Ordered(<<Head(s)>>) /\ Below(<<Head(s)>>, Tail(s))
<1>1. Ordered(Tail(s))
  <2> SUFFICES ASSUME NEW i \in DOMAIN Tail(s), NEW j \in DOMAIN Tail(s), i < j
               PROVE  Tail(s)[i] < Tail(s)[j]
    BY DEF Ordered
  <2>1. /\ i \in Nat /\ j \in Nat /\ i + 1 \in DOMAIN s /\ j + 1 \in DOMAIN s
        /\ Tail(s)[i] = s[i + 1] /\ Tail(s)[j] = s[j + 1]
    BY TailElements
  <2> QED
    BY <2>1 DEF Ordered
<1>2. Ordered(<<Head(s)>>)
  BY DEF Ordered
<1>3. Below(<<Head(s)>>, Tail(s))
  <2> SUFFICES ASSUME NEW j \in DOMAIN Tail(s)
               PROVE  Head(s) < Tail(s)[j]
    BY DEF Below
  <2>1. /\ j \in Nat /\ j >= 1 /\ j + 1 \in DOMAIN s /\ Tail(s)[j] = s[j + 1]
        /\ Head(s) = s[1] /\ 1 \in DOMAIN s
    BY TailElements
  <2> QED
    BY <2>1 DEF Ordered
<1> QED
  BY <1>1, <1>2, <1>3

(* A dequeue keeps a stage below another one.                              *)
LEMMA TailBelow ==
  ASSUME NEW s \in Seq(Nat), s # <<>>, NEW t
  PROVE  /\ Below(s, t) => Below(Tail(s), t) /\ Below(<<Head(s)>>, t)
         /\ Below(t, s) => Below(t, Tail(s)) /\ Below(t, <<Head(s)>>)
  BY TailElements DEF Below

(* A dequeue keeps the bound of a stage.                                   *)
LEMMA TailAtMost ==
  ASSUME NEW s \in Seq(Nat), s # <<>>, NEW n \in Nat, AtMost(s, n)
  PROVE  AtMost(Tail(s), n) /\ AtMost(<<Head(s)>>, n)
  BY TailElements DEF AtMost

(* An enqueue of a larger event keeps a stage ordered.                     *)
LEMMA AppendOrdered ==
  ASSUME NEW s \in Seq(Nat), NEW e \in Nat, Ordered(s), Below(s, <<e>>)
  PROVE  Ordered(Append(s, e))
<1> SUFFICES ASSUME NEW i \in DOMAIN Append(s, e), NEW j \in DOMAIN Append(s, e), i < j
             PROVE  Append(s, e)[i] < Append(s, e)[j]
  BY DEF Ordered
<1>1. i \in DOMAIN s /\ Append(s, e)[i] = s[i]
  BY AppendElements
<1>2. CASE j \in DOMAIN s /\ Append(s, e)[j] = s[j]
  BY <1>1, <1>2 DEF Ordered
<1>3. CASE Append(s, e)[j] = e
  BY <1>1, <1>3 DEF Below
<1> QED
  BY <1>2, <1>3, AppendElements

(* An enqueue keeps a stage below another one.                             *)
LEMMA AppendBelow ==
  ASSUME NEW s \in Seq(Nat), NEW e \in Nat, NEW t
  PROVE  /\ Below(s, t) /\ Below(<<e>>, t) => Below(Append(s, e), t)
         /\ Below(t, s) /\ Below(t, <<e>>) => Below(t, Append(s, e))
  BY AppendElements DEF Below

(* An enqueue keeps the bound of a stage.                                  *)
LEMMA AppendAtMost ==
  ASSUME NEW s \in Seq(Nat), NEW e \in Nat, NEW n \in Nat, AtMost(s, n), AtMost(<<e>>, n)
  PROVE  AtMost(Append(s, e), n)
  BY AppendElements DEF AtMost

(* A new event is above every stage bounded by the last one.               *)
LEMMA AtMostNext ==
  ASSUME NEW s \in Seq(Nat), NEW n \in Nat, AtMost(s, n)
  PROVE  AtMost(s, n + 1) /\ Below(s, <<n + 1>>)
  BY DEF AtMost, Below

(* Every stage is a sequence of naturals.                                  *)
LEMMA StageTypes ==
  TypeOK => /\ ring \in Seq(Nat) /\ hand \in Seq(Nat) /\ ch \in Seq(Nat)
            /\ recorded \in Seq(Nat) /\ emitted \in Nat
<1>1. Events \subseteq Nat
  BY MaxEventsAssumption DEF Events
<1>2. \A s \in Seq(Events) : s \in Seq(Nat)
  BY <1>1, SeqMonotonic
<1> QED
  BY <1>2, MaxEventsAssumption DEF TypeOK

(* A hand that is not empty holds one event.                               *)
LEMMA HandIsSingleton ==
  ASSUME NEW s \in Seq(Nat), Len(s) = 1
  PROVE  s = <<Head(s)>> /\ Head(s) \in Nat
<1>1. s \in [1..1 -> Nat]
  BY LenProperties
<1>2. Head(s) = s[1]
  BY SMTT(30)
<1>3. s[1] \in Nat
  BY <1>1
<1>4. s = <<s[1]>>
  BY <1>1, SMTT(30)
<1> QED
  BY <1>2, <1>3, <1>4

(* Every step keeps each stage ordered and below the earlier stages.       *)
LEMMA OrderStep == TypeOK /\ Control /\ Order /\ [Next]_vars => Order'
<1> SUFFICES ASSUME TypeOK, Control, Order, [Next]_vars PROVE Order'
  OBVIOUS
<1>a. /\ ring \in Seq(Nat) /\ hand \in Seq(Nat) /\ ch \in Seq(Nat)
      /\ recorded \in Seq(Nat) /\ emitted \in Nat
  BY StageTypes
<1> USE DEF queues, counters
<1>1. CASE Emit
  <2>1. UNCHANGED <<recorded, ch, hand>> /\ emitted' = emitted + 1
    BY <1>1 DEF Emit
  <2>2. /\ AtMost(recorded, emitted + 1) /\ Below(recorded, <<emitted + 1>>)
        /\ AtMost(ch, emitted + 1) /\ Below(ch, <<emitted + 1>>)
        /\ AtMost(hand, emitted + 1) /\ Below(hand, <<emitted + 1>>)
        /\ AtMost(ring, emitted + 1) /\ Below(ring, <<emitted + 1>>)
    BY <1>a, AtMostNext DEF Order
  <2>3. CASE ring' = ring
    BY <2>1, <2>2, <2>3 DEF Order
  <2>4. CASE ring' = Append(ring, emitted + 1)
    <3>1. AtMost(<<emitted + 1>>, emitted + 1) /\ emitted + 1 \in Nat
      BY <1>a DEF AtMost
    <3>2. Ordered(ring') /\ AtMost(ring', emitted + 1)
      BY <1>a, <2>2, <2>4, <3>1, AppendOrdered, AppendAtMost DEF Order
    <3>3. Below(recorded, ring') /\ Below(ch, ring') /\ Below(hand, ring')
      BY <1>a, <2>2, <2>4, <3>1, AppendBelow DEF Order
    <3> QED
      BY <2>1, <2>2, <3>2, <3>3 DEF Order
  <2> QED
    BY <1>1, <2>3, <2>4 DEF Emit
<1>2. CASE ReadRecord
  <2>1. /\ ring # <<>> /\ hand' = <<Head(ring)>> /\ ring' = Tail(ring)
        /\ UNCHANGED <<ch, recorded, emitted>>
    BY <1>2 DEF ReadRecord
  <2>2. /\ Ordered(ring') /\ Ordered(hand') /\ Below(hand', ring')
        /\ AtMost(ring', emitted) /\ AtMost(hand', emitted)
    BY <1>a, <2>1, TailOrdered, TailAtMost DEF Order
  <2>3. /\ Below(recorded, hand') /\ Below(recorded, ring')
        /\ Below(ch, hand') /\ Below(ch, ring')
    BY <1>a, <2>1, TailBelow DEF Order
  <2> QED
    BY <2>1, <2>2, <2>3 DEF Order
<1>3. CASE Send
  <2>1. /\ hand = <<Head(hand)>> /\ Head(hand) \in Nat
        /\ ch' = Append(ch, Head(hand)) /\ hand' = <<>>
        /\ UNCHANGED <<ring, recorded, emitted>>
    BY <1>3, <1>a, HandIsSingleton DEF Send, Control
  <2>2. Ordered(ch') /\ AtMost(ch', emitted)
    BY <1>a, <2>1, AppendOrdered, AppendAtMost DEF Order
  <2>3. Below(recorded, ch') /\ Below(ch', ring)
    BY <1>a, <2>1, AppendBelow DEF Order
  <2>4. /\ Ordered(hand') /\ Below(recorded, hand') /\ Below(ch', hand')
        /\ Below(hand', ring) /\ AtMost(hand', emitted)
    BY <2>1, EmptyStage
  <2> QED
    BY <2>1, <2>2, <2>3, <2>4 DEF Order
<1>4. CASE SendCancelled
  <2>1. hand' = <<>> /\ UNCHANGED <<ring, ch, recorded, emitted>>
    BY <1>4 DEF SendCancelled
  <2>2. /\ Ordered(hand') /\ Below(recorded, hand') /\ Below(ch, hand')
        /\ Below(hand', ring) /\ AtMost(hand', emitted)
    BY <2>1, EmptyStage
  <2> QED
    BY <2>1, <2>2 DEF Order
<1>5. CASE Consume
  <2>1. /\ ch # <<>> /\ ch' = Tail(ch) /\ Head(ch) \in Nat
        /\ UNCHANGED <<ring, hand, emitted>>
    BY <1>5, <1>a, TailElements DEF Consume
  <2>2. /\ Ordered(ch') /\ AtMost(ch', emitted) /\ Below(recorded, ch')
        /\ Below(ch', hand) /\ Below(ch', ring)
    BY <1>a, <2>1, TailOrdered, TailAtMost, TailBelow DEF Order
  <2>3. CASE recorded' = recorded
    BY <2>1, <2>2, <2>3 DEF Order
  <2>4. CASE recorded' = Append(recorded, Head(ch))
    <3>1. /\ Below(recorded, <<Head(ch)>>) /\ Below(<<Head(ch)>>, ch')
          /\ Below(<<Head(ch)>>, hand) /\ Below(<<Head(ch)>>, ring)
          /\ AtMost(<<Head(ch)>>, emitted)
      BY <1>a, <2>1, TailOrdered, TailAtMost, TailBelow DEF Order
    <3>2. Ordered(recorded') /\ AtMost(recorded', emitted)
      BY <1>a, <2>1, <2>4, <3>1, AppendOrdered, AppendAtMost DEF Order
    <3>3. Below(recorded', ch') /\ Below(recorded', hand) /\ Below(recorded', ring)
      BY <1>a, <2>1, <2>2, <2>4, <3>1, AppendBelow DEF Order
    <3> QED
      BY <2>1, <2>2, <3>2, <3>3 DEF Order
  <2> QED
    BY <1>5, <2>3, <2>4 DEF Consume
<1>6. CASE EvalReader
  BY <1>6 DEF EvalReader, Order
<1>7. CASE ReadError
  BY <1>7 DEF ReadError, Order
<1>8. CASE ConsumerExit
  BY <1>8 DEF ConsumerExit, Order
<1>9. CASE StopCollector
  BY <1>9 DEF StopCollector, Order
<1>10. CASE StopReturns
  BY <1>10 DEF StopReturns, Order
<1>11. CASE StopTimesOut
  BY <1>11 DEF StopTimesOut, Order
<1>12. CASE Signal
  BY <1>12 DEF Signal, Order
<1>13. CASE BridgeDone
  BY <1>13 DEF BridgeDone, Order
<1>14. CASE StreamDone
  BY <1>14 DEF StreamDone, Order
<1>15. CASE CloseReader
  BY <1>15 DEF CloseReader, Order
<1>16. CASE DropReader
  BY <1>16 DEF DropReader, Order
<1>17. CASE Detach
  BY <1>17 DEF Detach, Order
<1>18. CASE UNCHANGED vars
  BY <1>18 DEF vars, Order
<1> QED
  BY <1>1, <1>2, <1>3, <1>4, <1>5, <1>6, <1>7, <1>8, <1>9, <1>10, <1>11, <1>12, <1>13, <1>14, <1>15, <1>16, <1>17, <1>18 DEF Next, ReadLoop, Consumer, Shutdown

(***************************************************************************)
(* The inductive invariant, and what follows from it.                      *)
(***************************************************************************)
(* The initial state satisfies the inductive invariant.                    *)
LEMMA InitIInv == Init => IInv
<1> SUFFICES ASSUME Init PROVE IInv
  OBVIOUS
<1>1. TypeOK
  BY TypeInit
<1>2. /\ ring = <<>> /\ hand = <<>> /\ ch = <<>> /\ recorded = <<>> /\ emitted = 0
      /\ dropped = 0 /\ skipped = 0 /\ rl = "top" /\ chClosed = FALSE /\ main = "run"
  BY DEF Init
<1>3. Control
  BY <1>2 DEF Control, Stopped
<1>4. Settled = 0 /\ InFlight = 0
  BY <1>2 DEF Settled, InFlight
<1>5. Budget
  BY <1>2, <1>4 DEF Budget
<1>6. Order
  BY <1>2, EmptyStage DEF Order
<1> QED
  BY <1>1, <1>3, <1>5, <1>6 DEF IInv

(* Every step keeps the inductive invariant.                               *)
LEMMA StepIInv == IInv /\ [Next]_vars => IInv'
  BY TypeStep, ControlStep, BudgetStep, OrderStep DEF IInv

(* The inductive invariant holds in every state of every behaviour.        *)
THEOREM Invariance == Spec => []IInv
  BY InitIInv, StepIInv, PTL DEF Spec

(* Every variable keeps its type and both queues keep to their capacity.   *)
THEOREM TypeCorrect == Spec => []TypeOK
<1>1. IInv => TypeOK
  BY DEF IInv
<1> QED
  BY <1>1, Invariance, PTL

(* User space loses at most one event, and only to a cancellation.         *)
THEOREM LossBudgetHolds == Spec => []LossBudget
<1>1. IInv => LossBudget
  <2> SUFFICES ASSUME IInv PROVE LossBudget
    OBVIOUS
  <2>1. Settled \in Nat /\ InFlight \in Nat /\ emitted \in Nat
    BY MaxEventsAssumption DEF IInv, TypeOK, Settled, InFlight
  <2>2. emitted = Settled + InFlight \/ emitted = Settled + InFlight + 1
    BY <2>1 DEF IInv, Budget
  <2>3. CASE emitted = Settled + InFlight
    BY <2>1, <2>3 DEF LossBudget, Lost
  <2>4. CASE emitted = Settled + InFlight + 1
    <3>1. Lost = 1
      BY <2>1, <2>4 DEF Lost
    <3>2. cancelled /\ rl = "exited"
      BY <2>1, <2>4 DEF IInv, Budget
    <3> QED
      BY <3>1, <3>2 DEF LossBudget, IInv, Control
  <2> QED
    BY <2>2, <2>3, <2>4
<1> QED
  BY <1>1, Invariance, PTL

(***************************************************************************)
(* From stage-wise order to the order of the whole path.                   *)
(***************************************************************************)
(* Every element of a concatenation is one of its parts.                   *)
LEMMA ConcatElements ==
  ASSUME NEW s \in Seq(Nat), NEW t \in Seq(Nat), NEW i \in DOMAIN (s \o t)
  PROVE  /\ i \in Nat
         /\ \/ i \in DOMAIN s /\ (s \o t)[i] = s[i]
            \/ /\ i > Len(s) /\ i - Len(s) \in DOMAIN t
               /\ (s \o t)[i] = t[i - Len(s)]
<1>1. /\ s \o t \in Seq(Nat) /\ Len(s \o t) = Len(s) + Len(t)
      /\ \A k \in 1 .. Len(s) + Len(t) : (s \o t)[k] =
            IF k <= Len(s) THEN s[k] ELSE t[k - Len(s)]
  BY ConcatProperties
<1>2. Len(s) \in Nat /\ Len(t) \in Nat /\ DOMAIN s = 1..Len(s) /\ DOMAIN t = 1..Len(t)
  BY LenProperties
<1>3. i \in 1 .. Len(s) + Len(t)
  BY <1>1, LenProperties
<1>4. CASE i <= Len(s)
  BY <1>1, <1>2, <1>3, <1>4
<1>5. CASE i > Len(s)
  <2>1. i - Len(s) \in 1..Len(t)
    BY <1>2, <1>3, <1>5
  <2> QED
    BY <1>1, <1>2, <1>3, <1>5, <2>1
<1> QED
  BY <1>2, <1>3, <1>4, <1>5

(* Two ordered stages, one below the other, are ordered together.          *)
LEMMA ConcatOrdered ==
  ASSUME NEW s \in Seq(Nat), NEW t \in Seq(Nat), Ordered(s), Ordered(t), Below(s, t)
  PROVE  s \o t \in Seq(Nat) /\ Ordered(s \o t)
<1>1. s \o t \in Seq(Nat)
  BY ConcatProperties
<1>2. ASSUME NEW i \in DOMAIN (s \o t), NEW j \in DOMAIN (s \o t), i < j
      PROVE  (s \o t)[i] < (s \o t)[j]
  <2>0. i \in Nat /\ j \in Nat /\ Len(s) \in Nat /\ DOMAIN s = 1..Len(s)
    BY ConcatElements, LenProperties
  <2>1. CASE i \in DOMAIN s /\ j \in DOMAIN s
    <3>1. (s \o t)[i] = s[i] /\ (s \o t)[j] = s[j]
      BY <2>0, <2>1, ConcatElements
    <3> QED
      BY <1>2, <2>1, <3>1 DEF Ordered
  <2>2. CASE i \in DOMAIN s /\ j \notin DOMAIN s
    <3>1. (s \o t)[i] = s[i]
      BY <2>0, <2>2, ConcatElements
    <3>2. j - Len(s) \in DOMAIN t /\ (s \o t)[j] = t[j - Len(s)]
      BY <2>2, ConcatElements
    <3> QED
      BY <2>2, <3>1, <3>2 DEF Below
  <2>3. CASE i \notin DOMAIN s
    <3>1. i > Len(s) /\ i - Len(s) \in DOMAIN t /\ (s \o t)[i] = t[i - Len(s)]
      BY <2>3, ConcatElements
    <3>2. j \notin DOMAIN s
      BY <1>2, <2>0, <3>1
    <3>3. j - Len(s) \in DOMAIN t /\ (s \o t)[j] = t[j - Len(s)]
      BY <3>2, ConcatElements
    <3>4. i - Len(s) < j - Len(s)
      BY <1>2, <2>0
    <3> QED
      BY <3>1, <3>3, <3>4 DEF Ordered
  <2> QED
    BY <2>1, <2>2, <2>3
<1> QED
  BY <1>1, <1>2 DEF Ordered

(* A concatenation is below what both its parts are below.                 *)
LEMMA ConcatBelow ==
  ASSUME NEW s \in Seq(Nat), NEW t \in Seq(Nat), NEW u, Below(s, u), Below(t, u)
  PROVE  Below(s \o t, u)
  BY ConcatElements DEF Below

(* Events are recorded in the order the kernel produced them, each once.   *)
THEOREM FifoOrderHolds == Spec => []FifoOrder
<1>1. IInv => FifoOrder
  <2> SUFFICES ASSUME IInv PROVE FifoOrder
    OBVIOUS
  <2>1. /\ ring \in Seq(Nat) /\ hand \in Seq(Nat) /\ ch \in Seq(Nat)
        /\ recorded \in Seq(Nat) /\ Order
    BY StageTypes DEF IInv
  <2>2. recorded \o ch \in Seq(Nat) /\ Ordered(recorded \o ch)
    BY <2>1, ConcatOrdered DEF Order
  <2>3. Below(recorded \o ch, hand) /\ Below(recorded \o ch, ring)
    BY <2>1, ConcatBelow DEF Order
  <2>4. /\ (recorded \o ch) \o hand \in Seq(Nat)
        /\ Ordered((recorded \o ch) \o hand)
    BY <2>1, <2>2, <2>3, ConcatOrdered DEF Order
  <2>5. Below((recorded \o ch) \o hand, ring)
    BY <2>1, <2>2, <2>3, ConcatBelow DEF Order
  <2>6. Ordered(((recorded \o ch) \o hand) \o ring)
    BY <2>1, <2>4, <2>5, ConcatOrdered DEF Order
  <2> QED
    BY <2>6 DEF Ordered, FifoOrder, Path
<1> QED
  BY <1>1, Invariance, PTL

(* A collector whose Stop returned in time never changes its aggregates.   *)
THEOREM FrozenAfterStopHolds == Spec => FrozenAfterStop
<1>1. IInv /\ [Next]_vars => [Stopped => UNCHANGED <<recorded, skipped>>]_vars
  <2> SUFFICES ASSUME IInv, Next, Stopped PROVE UNCHANGED <<recorded, skipped>>
    OBVIOUS
  <2>1. cons = "exited"
    BY DEF IInv, Control
  <2>2. ~Consume
    BY <2>1 DEF Consume
  <2> QED
    BY <2>2 DEF Next, ReadLoop, Consumer, Shutdown, Emit, EvalReader, ReadRecord, ReadError,
       Send, SendCancelled, ConsumerExit, StopCollector, StopReturns, StopTimesOut, Signal,
       BridgeDone, StreamDone, CloseReader, DropReader, Detach, queues, counters
<1> QED
  BY <1>1, Invariance, PTL DEF Spec, FrozenAfterStop

(***************************************************************************)
(* The refinement of LossyFifo.  Its queue is the path without recorded,   *)
(* and a move from one stage to the next leaves that queue as it is.       *)
(***************************************************************************)
(* What the first part of a concatenation cuts off is the second part.     *)
LEMMA PartsOfConcat ==
  ASSUME NEW E, NEW s \in Seq(E), NEW t \in Seq(E)
  PROVE  /\ SubSeq(s \o t, 1, Len(s)) = s
         /\ SubSeq(s \o t, Len(s) + 1, Len(s \o t)) = t
<1>1. Len(s) \in Nat /\ Len(t) \in Nat /\ Len(s \o t) = Len(s) + Len(t)
  BY LenProperties, ConcatProperties
<1>2. SubSeq(s \o t, 1, Len(s)) = s
  <2>1. CASE s = <<>>
    <3>1. Len(s) = 0
      BY <2>1, EmptySeq
    <3> QED BY <2>1, <3>1, SubSeqEmpty
  <2>2. CASE s # <<>>
    <3>1. Len(s) \in Nat \ {0}
      BY <2>2, EmptySeq
    <3>2. 1 \in 1..Len(s) /\ Len(s) \in 1..Len(s)
      BY <3>1
    <3> QED BY <3>2, SubSeqOfConcat1, SubSeqFull
  <2> QED BY <2>1, <2>2
<1>3. SubSeq(s \o t, Len(s) + 1, Len(s) + Len(t)) = t
  <2>1. CASE t = <<>>
    <3>1. Len(t) = 0
      BY <2>1, EmptySeq
    <3>2. Len(s) + Len(t) < Len(s) + 1 /\ Len(s) + 1 \in Int /\ Len(s) + Len(t) \in Int
      BY <1>1, <3>1
    <3> QED BY <2>1, <3>2, SubSeqEmpty
  <2>2. CASE t # <<>>
    <3>1. Len(t) \in Nat \ {0}
      BY <2>2, EmptySeq
    <3>2. /\ Len(s) + 1 \in Len(s) + 1..Len(s) + Len(t)
          /\ Len(s) + Len(t) \in Len(s) + 1..Len(s) + Len(t)
      BY <1>1, <3>1
    <3>3. SubSeq(s \o t, Len(s) + 1, Len(s) + Len(t))
            = SubSeq(t, Len(s) + 1 - Len(s), Len(s) + Len(t) - Len(s))
      BY <3>2, SubSeqOfConcat2
    <3>4. Len(s) + 1 - Len(s) = 1 /\ Len(s) + Len(t) - Len(s) = Len(t)
      BY <1>1
    <3> QED BY <3>3, <3>4, SubSeqFull
  <2> QED BY <2>1, <2>2
<1> QED BY <1>1, <1>2, <1>3

(* A queue that is not empty is its head before its tail.                  *)
LEMMA HeadThenTail ==
  ASSUME NEW E, NEW s \in Seq(E), s # <<>>
  PROVE  /\ Head(s) \in E /\ Tail(s) \in Seq(E) /\ Head(s) = s[1] /\ 1 \in DOMAIN s
         /\ s = <<Head(s)>> \o Tail(s)
<1>1. Head(s) \in E /\ Tail(s) \in Seq(E)
  BY HeadTailProperties
<1>2. Len(s) \in Nat \ {0}
  BY EmptySeq
<1>3. 1 \in 1..Len(s) /\ Len(s) \in 1..Len(s)
  BY <1>2
<1>4. Head(s) = s[1] /\ 1 \in DOMAIN s
  <2>1. Head(SubSeq(s, 1, Len(s))) = s[1]
    BY <1>3, HeadTailOfSubSeq
  <2> QED BY <1>3, <2>1, SubSeqFull, LenProperties
<1>5. s = <<s[1]>> \o SubSeq(s, 1 + 1, Len(s))
  BY <1>3, SubSeqRecursiveFirst, SubSeqFull
<1>6. Tail(s) = SubSeq(s, 2, Len(s)) /\ 1 + 1 = 2
  BY TailIsSubSeq
<1> QED BY <1>1, <1>4, <1>5, <1>6

(* One element before a queue is its head.                                 *)
LEMMA HeadOfConcat ==
  ASSUME NEW E, NEW e \in E, NEW u \in Seq(E)
  PROVE  LET q == <<e>> \o u
         IN  /\ q \in Seq(E) /\ q # <<>> /\ 1 \in DOMAIN q
             /\ q[1] = e /\ Head(q) = e /\ Tail(q) = u
             /\ SubSeq(q, 1, 1 - 1) \o SubSeq(q, 1 + 1, Len(q)) = u
<1> DEFINE q == <<e>> \o u
           o == <<e>>
<1>1. o \in Seq(E) /\ Len(o) = 1 /\ o[1] = e
  OBVIOUS
<1>2. q = o \o u /\ Len(u) \in Nat
  BY LenProperties
<1> HIDE DEF q, o
<1>3. q \in Seq(E) /\ Len(q) = 1 + Len(u)
  BY <1>1, <1>2, ConcatProperties
<1>4. q[1] = e
  <2>1. 1 \in 1..Len(o) + Len(u) /\ 1 <= Len(o)
    BY <1>1, <1>2
  <2> QED BY <1>1, <1>2, <2>1, ConcatProperties
<1>5. q # <<>>
  BY <1>2, <1>3, EmptySeq
<1>6. Head(q) = e /\ 1 \in DOMAIN q
  BY <1>3, <1>4, <1>5, HeadThenTail
<1>7. SubSeq(q, 1 + 1, Len(q)) = u
  <2>1. SubSeq(o \o u, Len(o) + 1, Len(o \o u)) = u
    BY <1>1, PartsOfConcat
  <2> QED BY <1>1, <1>2, <2>1
<1>8. Tail(q) = u
  <2>1. 1 + 1 = 2
    OBVIOUS
  <2> QED BY <1>3, <1>5, <1>7, <2>1, TailIsSubSeq
<1>9. SubSeq(q, 1, 1 - 1) = <<>>
  <2>1. 1 - 1 \in Int /\ 1 - 1 < 1 /\ 1 \in Int
    OBVIOUS
  <2> QED BY <2>1, SubSeqEmpty
<1>10. SubSeq(q, 1, 1 - 1) \o SubSeq(q, 1 + 1, Len(q)) = u
  BY <1>7, <1>9, ConcatEmptySeq
<1> QED BY <1>3, <1>4, <1>5, <1>6, <1>8, <1>10 DEF q

\* Three stages in a row, and a queue without its element i.
Row(s, h, t) == s \o h \o t
Cut(q, i) == SubSeq(q, 1, i - 1) \o SubSeq(q, i + 1, Len(q))

(* The hand takes the first record of the ring.                            *)
LEMMA RowReads ==
  ASSUME NEW E, NEW s \in Seq(E), NEW t \in Seq(E), t # <<>>
  PROVE  s \o <<Head(t)>> \o Tail(t) = s \o <<>> \o t
<1>1. Head(t) \in E /\ Tail(t) \in Seq(E) /\ t = <<Head(t)>> \o Tail(t)
  BY HeadThenTail
<1>2. <<Head(t)>> \in Seq(E)
  BY <1>1
<1>3. (s \o <<Head(t)>>) \o Tail(t) = s \o t
  BY <1>1, <1>2, ConcatAssociative
<1> QED BY <1>3, ConcatEmptySeq

(* The channel takes the record in the hand.                               *)
LEMMA RowSends ==
  ASSUME NEW E, NEW s \in Seq(E), NEW t \in Seq(E), NEW e \in E
  PROVE  Append(s, e) \o <<>> \o t = s \o <<e>> \o t
  BY AppendProperties, AppendIsConcat, ConcatEmptySeq

(* The ring takes a new record.                                            *)
LEMMA RowAccepts ==
  ASSUME NEW E, NEW s \in Seq(E), NEW h \in Seq(E), NEW t \in Seq(E), NEW e \in E
  PROVE  s \o h \o Append(t, e) = Append(s \o h \o t, e)
<1>1. <<e>> \in Seq(E) /\ s \o h \in Seq(E) /\ s \o h \o t \in Seq(E)
  BY ConcatProperties
<1>2. Append(t, e) = t \o <<e>> /\ Append(s \o h \o t, e) = (s \o h \o t) \o <<e>>
  BY <1>1, AppendIsConcat
<1>3. ((s \o h) \o t) \o <<e>> = (s \o h) \o (t \o <<e>>)
  BY <1>1, ConcatAssociative
<1> QED BY <1>2, <1>3

(* The consumer takes the first record of the channel.                     *)
LEMMA RowDelivers ==
  ASSUME NEW E, NEW s \in Seq(E), NEW h \in Seq(E), NEW t \in Seq(E), s # <<>>
  PROVE  /\ Row(s, h, t) # <<>> /\ 1 \in DOMAIN Row(s, h, t)
         /\ Head(Row(s, h, t)) = Head(s) /\ Row(s, h, t)[1] = Head(s)
         /\ Tail(Row(s, h, t)) = Row(Tail(s), h, t)
         /\ Cut(Row(s, h, t), 1) = Row(Tail(s), h, t)
<1> DEFINE u == Tail(s) \o h \o t
<1>1. Head(s) \in E /\ Tail(s) \in Seq(E) /\ s = <<Head(s)>> \o Tail(s)
  BY HeadThenTail
<1>2. <<Head(s)>> \in Seq(E) /\ Tail(s) \o h \in Seq(E) /\ u \in Seq(E)
  BY <1>1, ConcatProperties
<1>3. s \o h = <<Head(s)>> \o (Tail(s) \o h)
  BY <1>1, <1>2, ConcatAssociative
<1>4. s \o h \o t = <<Head(s)>> \o u
  BY <1>2, <1>3, ConcatAssociative
<1> HIDE DEF u
<1>5. PICK e \in E : e = Head(s)
  BY <1>1
<1>6. PICK q \in Seq(E) : q = <<e>> \o u
  BY <1>2, HeadOfConcat
<1>7. /\ q # <<>> /\ 1 \in DOMAIN q /\ q[1] = e /\ Head(q) = e /\ Tail(q) = u
      /\ SubSeq(q, 1, 1 - 1) \o SubSeq(q, 1 + 1, Len(q)) = u
  BY <1>2, <1>6, HeadOfConcat
<1>8. Cut(q, 1) = u
  BY <1>7 DEF Cut
<1>9. Row(s, h, t) = q /\ Row(Tail(s), h, t) = u
  BY <1>4, <1>5, <1>6 DEF Row, u
<1> QED BY <1>5, <1>7, <1>8, <1>9

(* The record in the hand is given up.                                     *)
LEMMA RowLoses ==
  ASSUME NEW E, NEW s \in Seq(E), NEW t \in Seq(E), NEW e \in E
  PROVE  \E i \in DOMAIN Row(s, <<e>>, t) : Cut(Row(s, <<e>>, t), i) = Row(s, <<>>, t)
<1>a. <<e>> \in Seq(E) /\ Len(<<e>>) = 1
  OBVIOUS
<1>1. PICK o \in Seq(E) : o = <<e>> /\ Len(o) = 1
  BY <1>a, Zenon
<1>2. PICK n \in Nat, m \in Nat : n = Len(s) /\ m = Len(t)
  BY LenProperties
<1>3. s \o o \in Seq(E) /\ Len(s \o o) = n + 1
  <2>1. s \o o \in Seq(E) /\ Len(s \o o) = Len(s) + Len(o)
    BY <1>1, ConcatProperties
  <2> QED BY <1>1, <1>2, <2>1
<1>4. PICK v \in Seq(E) : v = o \o t
  BY <1>1, ConcatProperties
<1>5. PICK q \in Seq(E) : q = (s \o o) \o t /\ Len(q) = n + 1 + m
  <2>1. (s \o o) \o t \in Seq(E) /\ Len((s \o o) \o t) = Len(s \o o) + Len(t)
    BY <1>3, ConcatProperties
  <2> QED BY <1>2, <1>3, <2>1
<1>6. q = s \o v
  BY <1>1, <1>4, <1>5, ConcatAssociative
<1>7. n + 1 \in DOMAIN q
  BY <1>5, LenProperties
<1>8. SubSeq(q, 1, n) = s
  BY <1>2, <1>4, <1>6, PartsOfConcat
<1>9. SubSeq(q, (n + 1) + 1, Len(q)) = t
  <2>1. SubSeq((s \o o) \o t, Len(s \o o) + 1, Len((s \o o) \o t)) = t
    BY <1>3, PartsOfConcat
  <2> QED BY <1>3, <1>5, <2>1
<1>10. (n + 1) - 1 = n
  OBVIOUS
<1>11. Cut(q, n + 1) = s \o t
  <2>1. Cut(q, n + 1) = SubSeq(q, 1, (n + 1) - 1) \o SubSeq(q, (n + 1) + 1, Len(q))
    BY Zenon DEF Cut
  <2> QED BY <1>8, <1>9, <1>10, <2>1, Zenon
<1>12. Row(s, <<e>>, t) = q /\ Row(s, <<>>, t) = s \o t
  BY <1>1, <1>5, ConcatEmptySeq DEF Row
<1> QED BY <1>7, <1>11, <1>12

(* The empty pipeline is the empty queue.                                  *)
LEMMA RefinesInit == Init => Fifo!FifoInit
<1> SUFFICES ASSUME Init PROVE Fifo!FifoInit
  OBVIOUS
<1>1. ch = <<>> /\ hand = <<>> /\ ring = <<>>
  BY DEF Init
<1>2. <<>> \o <<>> \o <<>> = <<>>
  BY EmptySeq, ConcatEmptySeq
<1> QED BY <1>1, <1>2 DEF Init, Fifo!FifoInit

(* Every step of the pipeline is a step of the queue, or none.             *)
LEMMA RefinesStep == IInv /\ [Next]_vars => [Fifo!FifoNext]_(Fifo!fifoVars)
<1> SUFFICES ASSUME IInv, [Next]_vars PROVE [Fifo!FifoNext]_(Fifo!fifoVars)
  OBVIOUS
<1>a. TypeOK /\ Control
  BY DEF IInv
<1>b. /\ ring \in Seq(Nat) /\ hand \in Seq(Nat) /\ ch \in Seq(Nat)
      /\ emitted \in Nat /\ Len(hand) <= 1
  BY <1>a, StageTypes DEF TypeOK
<1>c. Len(ring) \in Nat /\ Len(hand) \in Nat /\ Len(ch) \in Nat
  BY <1>b, LenProperties
<1>d. Len(hand) = 0 \/ Len(hand) = 1
  <2>1. PICK n \in Nat : n = Len(hand)
    BY <1>c
  <2>2. n <= 1
    BY <1>b, <2>1
  <2> QED BY <2>1, <2>2
<1> USE DEF queues, counters
<1>1. CASE Emit
  <2>1. emitted' = emitted + 1 /\ UNCHANGED <<ch, hand, recorded, cancelled>>
    BY <1>1 DEF Emit
  <2>2. CASE Len(ring) < RingCap
    <3>1. ring' = Append(ring, emitted + 1)
      BY <1>1, <2>2 DEF Emit
    <3>2. ch \o hand \o ring' = Append(ch \o hand \o ring, emitted + 1)
      BY <1>b, <3>1, RowAccepts
    <3>3. Fifo!Accept
      BY <2>1, <3>2 DEF Fifo!Accept
    <3> QED BY <3>3 DEF Fifo!FifoNext
  <2>3. CASE ~(Len(ring) < RingCap)
    <3>1. ring' = ring
      BY <1>1, <2>3 DEF Emit
    <3>2. ch \o hand \in Seq(Nat) /\ Len(ch \o hand) = Len(ch) + Len(hand)
      BY <1>b, ConcatProperties
    <3>3. Len(ch \o hand \o ring) = Len(ch \o hand) + Len(ring)
      BY <1>b, <3>2, ConcatProperties
    <3>4. Len(ch \o hand \o ring) >= RingCap
      BY <1>c, <2>3, <3>2, <3>3, RingCapAssumption
    <3>5. Fifo!Refuse
      BY <2>1, <3>1, <3>4 DEF Fifo!Refuse
    <3> QED BY <3>5 DEF Fifo!FifoNext
  <2> QED BY <2>2, <2>3
<1>2. CASE ReadRecord
  <2>1. /\ ring # <<>> /\ hand' = <<Head(ring)>> /\ ring' = Tail(ring)
        /\ UNCHANGED <<ch, recorded, emitted, cancelled>> /\ rl = "reading"
    BY <1>2 DEF ReadRecord
  <2>2. hand = <<>>
    <3>a. rl # "send"
      BY <2>1
    <3>1. Len(hand) # 1
      BY <1>a, <3>a DEF Control
    <3>2. Len(hand) = 0
      BY <1>d, <3>1
    <3> QED BY <1>b, <3>2, EmptySeq
  <2>3. ch \o <<Head(ring)>> \o Tail(ring) = ch \o <<>> \o ring
    BY <1>b, <2>1, RowReads
  <2> QED BY <2>1, <2>2, <2>3 DEF Fifo!fifoVars
<1>3. CASE Send
  <2>1. /\ ch' = Append(ch, Head(hand)) /\ hand' = <<>> /\ rl = "send"
        /\ UNCHANGED <<ring, recorded, emitted, cancelled>>
    BY <1>3 DEF Send
  <2>2. hand = <<Head(hand)>> /\ Head(hand) \in Nat
    BY <1>a, <1>b, <2>1, HandIsSingleton DEF Control
  <2>3. Append(ch, Head(hand)) \o <<>> \o ring = ch \o <<Head(hand)>> \o ring
    BY <1>b, <2>2, RowSends
  <2> QED BY <2>1, <2>2, <2>3 DEF Fifo!fifoVars
<1>4. CASE SendCancelled
  <2>1. /\ cancelled /\ hand' = <<>> /\ rl = "send"
        /\ UNCHANGED <<ch, ring, recorded, emitted, cancelled>>
    BY <1>4 DEF SendCancelled
  <2>2. hand = <<Head(hand)>> /\ Head(hand) \in Nat
    BY <1>a, <1>b, <2>1, HandIsSingleton DEF Control
  <2>3. PICK e \in Nat : hand = <<e>>
    BY <2>2
  <2>4. \E i \in DOMAIN Row(ch, <<e>>, ring) : Cut(Row(ch, <<e>>, ring), i) = Row(ch, <<>>, ring)
    BY <1>b, RowLoses
  <2>5. PICK i \in DOMAIN Row(ch, hand, ring) : Cut(Row(ch, hand, ring), i) = Row(ch, <<>>, ring)
    BY <2>3, <2>4
  <2>6. (ch \o hand \o ring)' = Cut(Row(ch, hand, ring), i)
    BY <2>1, <2>5 DEF Row
  <2>7. Fifo!Lose
    BY <2>1, <2>5, <2>6 DEF Fifo!Lose, Row, Cut
  <2> QED BY <2>7 DEF Fifo!FifoNext
<1>5. CASE Consume
  <2>1. ch # <<>> /\ ch' = Tail(ch) /\ UNCHANGED <<hand, ring, emitted, cancelled>>
    BY <1>5 DEF Consume
  <2>2. /\ Row(ch, hand, ring) # <<>> /\ 1 \in DOMAIN Row(ch, hand, ring)
        /\ Head(Row(ch, hand, ring)) = Head(ch) /\ Row(ch, hand, ring)[1] = Head(ch)
        /\ Tail(Row(ch, hand, ring)) = Row(Tail(ch), hand, ring)
        /\ Cut(Row(ch, hand, ring), 1) = Row(Tail(ch), hand, ring)
    BY <1>b, <2>1, RowDelivers
  <2>8. (ch \o hand \o ring)' = Row(Tail(ch), hand, ring)
    BY <2>1 DEF Row
  <2>3. CASE Head(ch) \in Malformed
    <3>1. recorded' = recorded
      BY <1>5, <2>3 DEF Consume
    <3>2. Fifo!Lose
      BY <2>1, <2>2, <2>8, <2>3, <3>1 DEF Fifo!Lose, Row, Cut
    <3> QED BY <3>2 DEF Fifo!FifoNext
  <2>4. CASE Head(ch) \notin Malformed
    <3>1. recorded' = Append(recorded, Head(ch))
      BY <1>5, <2>4 DEF Consume
    <3>2. Fifo!Deliver
      BY <2>1, <2>2, <2>8, <2>4, <3>1 DEF Fifo!Deliver, Row
    <3> QED BY <3>2 DEF Fifo!FifoNext
  <2> QED BY <2>3, <2>4
<1>6. CASE StopCollector \/ Signal \/ StreamDone
  <2>1. cancelled' = TRUE /\ UNCHANGED <<emitted, ch, hand, ring, recorded>>
    BY <1>6 DEF StopCollector, Signal, StreamDone
  <2>2. Fifo!Close
    BY <2>1 DEF Fifo!Close
  <2> QED BY <2>2 DEF Fifo!FifoNext
<1>7. CASE UNCHANGED <<emitted, ch, hand, ring, recorded, cancelled>>
  BY <1>7 DEF Fifo!fifoVars
<1>8. CASE \/ EvalReader \/ ReadError \/ ConsumerExit \/ StopReturns \/ StopTimesOut
           \/ BridgeDone \/ CloseReader \/ DropReader \/ Detach \/ UNCHANGED vars
  BY <1>7, <1>8 DEF EvalReader, ReadError, ConsumerExit, StopReturns, StopTimesOut,
     BridgeDone, CloseReader, DropReader, Detach, vars
<1> QED BY <1>1, <1>2, <1>3, <1>4, <1>5, <1>6, <1>8 DEF Next, ReadLoop, Consumer, Shutdown

(* The pipeline, with its goroutines, buffers and shutdown, is the lossy   *)
(* queue its users rely on.                                                *)
THEOREM RefinesLossyFifo == Spec => ImplementsLossyFifo
  BY RefinesInit, RefinesStep, Invariance, PTL DEF Spec, ImplementsLossyFifo, Fifo!FifoSpec
=============================================================================
