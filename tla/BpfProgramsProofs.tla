---------------------------- MODULE BpfProgramsProofs ----------------------------
(***************************************************************************)
(* What the BPF programs guarantee for every set of threads, requests,     *)
(* tasks, sockets and processes, every map and ring size, and every order  *)
(* in which the kernel may fire their hooks.                               *)
(***************************************************************************)
EXTENDS BpfPrograms, FiniteSetTheorems, SequenceTheorems, TLAPS

(***************************************************************************)
(* Queues and maps.                                                        *)
(***************************************************************************)
(* A submitted record is last, and the others keep their places.           *)
LEMMA SubmitFacts ==
  ASSUME NEW E, NEW e \in E, ring \in Seq(E), Len(ring) <= RingCap, Submit(e)
  PROVE  /\ ring' \in Seq(E) /\ Len(ring') <= RingCap
         /\ \/ ring' = ring
            \/ /\ Len(ring') = Len(ring) + 1 /\ ring'[Len(ring) + 1] = e
               /\ \A i \in 1..Len(ring) : ring'[i] = ring[i]
<1>1. CASE Len(ring) < RingCap
  <2>1. ring' = Append(ring, e)
    BY <1>1 DEF Submit
  <2>2. Append(ring, e) \in Seq(E) /\ Len(Append(ring, e)) = Len(ring) + 1
    OBVIOUS
  <2>3. \A i \in 1..Len(ring) : Append(ring, e)[i] = ring[i]
    OBVIOUS
  <2>4. Append(ring, e)[Len(ring) + 1] = e
    OBVIOUS
  <2>5. Len(ring) + 1 <= RingCap
    BY <1>1, RingCapAssumption
  <2> QED BY <2>1, <2>2, <2>3, <2>4, <2>5
<1>2. CASE ~(Len(ring) < RingCap)
  BY <1>2 DEF Submit
<1> QED BY <1>1, <1>2

(* Reading takes the first record away and moves the others up.            *)
LEMMA ConsumeFacts ==
  ASSUME NEW E, ring \in Seq(E), Consume
  PROVE  /\ ring' \in Seq(E) /\ Len(ring) > 0 /\ Len(ring') = Len(ring) - 1
         /\ \A i \in 1..Len(ring') : i + 1 \in 1..Len(ring) /\ ring'[i] = ring[i + 1]
<1>1. ring # <<>> /\ ring' = Tail(ring)
  BY DEF Consume
<1>2. Len(ring) \in Nat /\ Len(ring) > 0
  BY <1>1
<1>3. Tail(ring) \in Seq(E) /\ Len(Tail(ring)) = Len(ring) - 1
  BY <1>1
<1>4. \A i \in 1..Len(Tail(ring)) : Tail(ring)[i] = ring[i + 1]
  BY <1>1, HeadTailProperties
<1> QED BY <1>1, <1>2, <1>3, <1>4

(***************************************************************************)
(* tcp_monitor.c and fd_track.c                                            *)
(***************************************************************************)
Undisturbed ==
    /\ sk \in [Sockets -> SocketStates] /\ fds \in [Procs -> 0..MaxFds]
    /\ said \in [Sockets -> {"none", "CONNECT", "CLOSE"}]
    /\ delta \in [Procs -> (0 - MaxFds)..MaxFds]
    /\ blurred \subseteq Sockets \cup Procs

\* Where fd_track is not attached, nothing is counted; the sets of sockets and
\* processes may overlap.
CountsAreQuiet == program # "fd_track" => \A p \in Procs : delta[p] <= fds[p]

EventInv == Undisturbed /\ CountsAreQuiet /\ StreamTellsConnections /\ DeltaNeverOverstates

(* The histories begin empty and hide what they cannot know.               *)
LEMMA EventInitially == EventInit => EventInv
<1> SUFFICES ASSUME EventInit PROVE EventInv
  OBVIOUS
<1>1. sk \in [Sockets -> SocketStates]
  BY DEF EventInit, SocketStates
<1>2. fds \in [Procs -> 0..MaxFds]
  BY MaxFdsAssumption DEF EventInit
<1>3. said = [s \in Sockets |-> "none"] /\ delta = [p \in Procs |-> 0]
  BY DEF EventInit
<1>4. blurred = {s \in Sockets : sk[s] \in Connected}
  BY DEF EventInit
<1>5. delta \in [Procs -> (0 - MaxFds)..MaxFds]
  BY <1>3, MaxFdsAssumption
<1>6. Undisturbed
  BY <1>1, <1>2, <1>3, <1>4, <1>5 DEF Undisturbed
<1>7. \A p \in Procs : delta[p] <= fds[p]
  BY <1>2, <1>3, MaxFdsAssumption
<1>8. StreamTellsConnections
  BY <1>3, <1>4, IPv4Assumption DEF StreamTellsConnections
<1> QED BY <1>6, <1>7, <1>8 DEF EventInv, CountsAreQuiet, DeltaNeverOverstates

(* A step that leaves the sockets alone and hides no less keeps the stream true. *)
LEMMA StreamKept ==
  ASSUME StreamTellsConnections, sk' = sk, said' = said, blurred \subseteq blurred'
  PROVE  StreamTellsConnections'
  BY DEF StreamTellsConnections

(* One change of state of a socket.                                        *)
LEMMA SetStateKeeps ==
  ASSUME EventInv, NEW s \in Sockets, SetState(s)
  PROVE  EventInv'
<1> USE DEF EventInv
<1>1. PICK newstate \in SocketStates :
          /\ program = "tcp_monitor"
          /\ <<sk[s], newstate>> \in
                 {<<"closed", "opening">>, <<"opening", "established">>, <<"opening", "closed">>,
                  <<"established", "closing">>, <<"established", "closed">>, <<"closing", "closed">>}
          /\ sk' = [sk EXCEPT ![s] = newstate] /\ tracepoint_inet_sock_set_state(s, newstate)
          /\ UNCHANGED <<program, fds>>
  BY DEF SetState
<1>2. sk' \in [Sockets -> SocketStates] /\ sk'[s] = newstate
      /\ \A r \in Sockets \ {s} : sk'[r] = sk[r]
  BY <1>1 DEF Undisturbed
<1>3. fds' = fds /\ program' = program /\ program = "tcp_monitor"
  BY <1>1
<1>4. CountsAreQuiet' /\ DeltaNeverOverstates' /\ Undisturbed'
  <2>1. CASE delta' = delta /\ said' \in [Sockets -> {"none", "CONNECT", "CLOSE"}]
             /\ blurred' \subseteq Sockets \cup Procs
    <3>1. \A p \in Procs : delta'[p] <= fds'[p]
      BY <2>1, <1>3 DEF CountsAreQuiet
    <3>2. Undisturbed'
      BY <2>1, <1>2, <1>3 DEF Undisturbed
    <3> QED BY <3>1, <3>2 DEF CountsAreQuiet, DeltaNeverOverstates
  <2>2. delta' = delta /\ said' \in [Sockets -> {"none", "CONNECT", "CLOSE"}]
        /\ blurred' \subseteq Sockets \cup Procs
    <3>1. CASE \E type \in {"CONNECT", "CLOSE"} : Lifecycle(s, type)
      BY <3>1 DEF Lifecycle, Undisturbed
    <3>2. CASE Silent
      BY <3>2 DEF Silent, Undisturbed
    <3> QED BY <1>1, <3>1, <3>2 DEF tracepoint_inet_sock_set_state
  <2> QED BY <2>1, <2>2
<1>5. CASE s \in IPv4 /\ newstate \in {"established", "closed"}
  <2>1. PICK type \in {"CONNECT", "CLOSE"} :
            Lifecycle(s, type) /\ (type = "CONNECT" <=> newstate = "established")
    BY <1>1, <1>5 DEF tracepoint_inet_sock_set_state
  <2>2. CASE Full
    <3>1. said' = said /\ blurred' = blurred \cup {s}
      BY <2>1, <2>2 DEF Lifecycle
    <3>2. \A r \in IPv4 \ blurred' : r # s /\ r \notin blurred
      BY <3>1
    <3> QED BY <3>1, <3>2, <1>2, <1>4, IPv4Assumption DEF StreamTellsConnections
  <2>3. CASE ~Full
    <3>1. said' = [said EXCEPT ![s] = type] /\ blurred' = blurred \ {s}
      BY <2>1, <2>3 DEF Lifecycle
    <3>2. said'[s] = type /\ \A r \in Sockets \ {s} : said'[r] = said[r]
      BY <3>1 DEF Undisturbed
    <3>3. sk'[s] \in Connected <=> said'[s] = "CONNECT"
      BY <3>2, <1>2, <1>5, <2>1 DEF Connected
    <3>4. \A r \in IPv4 \ blurred' : r # s => (sk'[r] \in Connected <=> said'[r] = "CONNECT")
      BY <3>1, <3>2, <1>2, IPv4Assumption DEF StreamTellsConnections
    <3> QED BY <3>3, <3>4, <1>4 DEF StreamTellsConnections
  <2> QED BY <2>2, <2>3
<1>6. CASE ~(s \in IPv4 /\ newstate \in {"established", "closed"})
  <2>1. said' = said /\ blurred' = blurred
    BY <1>1, <1>6 DEF tracepoint_inet_sock_set_state, Silent
  <2>2. s \in IPv4 => (sk'[s] \in Connected <=> sk[s] \in Connected)
    BY <1>1, <1>2, <1>6 DEF Connected, SocketStates
  <2> QED BY <2>1, <2>2, <1>2, <1>4, IPv4Assumption DEF StreamTellsConnections
<1> QED BY <1>5, <1>6

(* Opening and closing descriptors: each hook counts what has happened, or *)
(* the process is hidden.                                                  *)
LEMMA DescriptorsKeep ==
  ASSUME EventInv, NEW p \in Procs,
         Openat(p) \/ OpenOtherwise(p) \/ Close(p) \/ CloseOtherwise(p)
  PROVE  EventInv'
<1> USE DEF EventInv
<1>1. program = "fd_track" /\ program' = program /\ sk' = sk
  BY DEF Openat, OpenOtherwise, Close, CloseOtherwise
<1>2. fds[p] \in 0..MaxFds /\ delta[p] \in (0 - MaxFds)..MaxFds /\ MaxFds \in Nat
  BY MaxFdsAssumption DEF Undisturbed
<1> DEFINE Opens  == \/ /\ fds[p] < MaxFds /\ fds' = [fds EXCEPT ![p] = @ + 1]
                        /\ Descriptor(p, "FD_OPEN", 1) /\ delta[p] < MaxFds
           Closes == \/ /\ fds[p] > 0 /\ fds' = [fds EXCEPT ![p] = @ - 1]
                        /\ Descriptor(p, "FD_CLOSE", -1) /\ delta[p] > 0 - MaxFds
           Fails  == fds' = fds /\ Silent
           More   == fds[p] < MaxFds /\ fds' = [fds EXCEPT ![p] = @ + 1] /\ Silent
           Less   == /\ fds[p] > 0 /\ fds' = [fds EXCEPT ![p] = @ - 1]
                     /\ blurred' = blurred \cup {p} /\ UNCHANGED <<said, delta>>
<1>3. Opens \/ Closes \/ Fails \/ More \/ Less
  <2>1. CASE Openat(p)
    <3>1. ~(fds[p] < 0) /\ -1 < 0
      BY <1>2
    <3> QED BY <2>1, <3>1 DEF Openat, tracepoint_sys_exit_openat
  <2>2. CASE Close(p)
    <3>1. ~(0 # 0) /\ -1 # 0
      OBVIOUS
    <3> QED BY <2>2, <3>1 DEF Close, tracepoint_sys_exit_close
  <2>3. CASE OpenOtherwise(p)
    BY <2>3 DEF OpenOtherwise
  <2>4. CASE CloseOtherwise(p)
    BY <2>4 DEF CloseOtherwise
  <2> QED BY <2>1, <2>2, <2>3, <2>4
<1>4. said' = said /\ blurred \subseteq blurred' /\ blurred' \subseteq Sockets \cup Procs
  BY <1>3 DEF Descriptor, Unseen, Silent, Undisturbed
<1>5. StreamTellsConnections'
  BY <1>1, <1>4, StreamKept
<1>6. fds' \in [Procs -> 0..MaxFds] /\ \A q \in Procs \ {p} : fds'[q] = fds[q]
  BY <1>2, <1>3 DEF Undisturbed
<1>7. delta' \in [Procs -> (0 - MaxFds)..MaxFds] /\ \A q \in Procs \ {p} : delta'[q] = delta[q]
  <2>1. CASE Opens
    BY <2>1, <1>2 DEF Descriptor, Undisturbed
  <2>2. CASE Closes
    BY <2>2, <1>2 DEF Descriptor, Undisturbed
  <2>3. CASE Fails \/ More \/ Less
    BY <2>3 DEF Silent, Undisturbed
  <2> QED BY <1>3, <2>1, <2>2, <2>3
<1>8. p \notin blurred' => delta'[p] <= fds'[p]
  <2> SUFFICES ASSUME p \notin blurred' PROVE delta'[p] <= fds'[p]
    OBVIOUS
  <2>1. delta[p] <= fds[p]
    BY <1>4 DEF DeltaNeverOverstates
  <2>2. CASE Opens
    <3>1. ~Full
      BY <2>2 DEF Descriptor, Unseen
    <3>2. delta'[p] = delta[p] + 1 /\ fds'[p] = fds[p] + 1
      BY <2>2, <3>1 DEF Descriptor, Undisturbed
    <3> QED BY <2>1, <3>2, <1>2
  <2>3. CASE Closes
    <3>1. ~Full
      BY <2>3 DEF Descriptor, Unseen
    <3>2. delta'[p] = delta[p] + (-1) /\ fds'[p] = fds[p] - 1
      BY <2>3, <3>1 DEF Descriptor, Undisturbed
    <3> QED BY <2>1, <3>2, <1>2
  <2>4. CASE Fails
    BY <2>1, <2>4 DEF Silent
  <2>5. CASE More
    <3>1. delta'[p] = delta[p] /\ fds'[p] = fds[p] + 1
      BY <2>5 DEF Silent, Undisturbed
    <3> QED BY <2>1, <3>1, <1>2
  <2>6. CASE Less
    BY <2>6
  <2> QED BY <1>3, <2>2, <2>3, <2>4, <2>5, <2>6
<1>9. \A q \in Procs \ blurred' : delta'[q] <= fds'[q]
  BY <1>4, <1>6, <1>7, <1>8 DEF DeltaNeverOverstates
<1>10. Undisturbed'
  BY <1>1, <1>4, <1>6, <1>7 DEF Undisturbed
<1> QED BY <1>1, <1>5, <1>9, <1>10 DEF CountsAreQuiet, DeltaNeverOverstates

(* Everything else leaves what is said and counted alone.                  *)
LEMMA EventQuiet ==
  ASSUME EventInv, UNCHANGED <<program, eventVars>>
  PROVE  EventInv'
  BY DEF EventInv, eventVars, Undisturbed, CountsAreQuiet, StreamTellsConnections,
         DeltaNeverOverstates

(* Every step of the three programs.                                       *)
LEMMA EventStep ==
  ASSUME EventInv, EventNext
  PROVE  EventInv'
<1>1. ASSUME NEW s \in Sockets, SetState(s) PROVE EventInv'
  BY <1>1, SetStateKeeps
<1>2. ASSUME NEW s \in Sockets, Retransmit(s) PROVE EventInv'
  <2>1. UNCHANGED <<program, eventVars>>
    BY <1>2 DEF Retransmit, tracepoint_tcp_retransmit, eventVars
  <2> QED BY <2>1, EventQuiet
<1>3. ASSUME NEW p \in Procs, OomKill(p) PROVE EventInv'
  BY <1>3, EventQuiet DEF OomKill
<1>4. ASSUME NEW p \in Procs, Openat(p) \/ OpenOtherwise(p) \/ Close(p) \/ CloseOtherwise(p)
      PROVE  EventInv'
  BY <1>4, DescriptorsKeep
<1> QED BY <1>1, <1>2, <1>3, <1>4 DEF EventNext

(***************************************************************************)
(* The three programs that measure.                                        *)
(***************************************************************************)
(* An update changes one pair or, where there is no room for it, nothing.  *)
LEMMA UpdatedFacts ==
  ASSUME NEW k, start' = Updated(start, k, now)
  PROVE  /\ Fits(start, k) => /\ DOMAIN start' = DOMAIN start \cup {k}
                             /\ start'[k] = now
                             /\ \A j \in DOMAIN start \ {k} : start'[j] = start[j]
         /\ ~Fits(start, k) => start' = start /\ k \notin DOMAIN start
  BY DEF Updated, Fits

(* A deletion takes one pair away.                                         *)
LEMMA DeletedFacts ==
  ASSUME NEW k, start' = Deleted(start, k)
  PROVE  DOMAIN start' = DOMAIN start \ {k} /\ \A j \in DOMAIN start' : start'[j] = start[j]
  BY DEF Deleted

(* The operations of each program, and their keys.                         *)
LEMMA KeyFacts ==
  ASSUME program \in LatencyPrograms
  PROVE  /\ program = "syscall_latency" => Ops(program) = Threads
         /\ program = "disk_io" => Ops(program) = Requests
         /\ program = "sched_delay" => Ops(program) = Tasks
         /\ \A o \in Ops(program) :
               /\ Key(o) \in Keys
               /\ program = "disk_io" => Key(o) = Sector[o]
               /\ program # "disk_io" => Key(o) = o
<1>1. /\ program = "syscall_latency" => Ops(program) = Threads
      /\ program = "disk_io" => Ops(program) = Requests
      /\ program = "sched_delay" => Ops(program) = Tasks
  BY DEF Ops
<1> QED BY <1>1 DEF LatencyPrograms, Key, Keys

(***************************************************************************)
(* What a step does to the map and the ring: a stamp, a measurement or     *)
(* nothing.  The properties of the records follow from that alone; the     *)
(* others need to know which operation a key belongs to.                   *)
(***************************************************************************)
Record(o) == [key |-> Key(o), from |-> start[Key(o)], to |-> now,
              began |-> since[o], last |-> latest[Key(o)]]

Measured(o) ==
    /\ start' = Deleted(start, Key(o))
    /\ latest' = [latest EXCEPT ![Key(o)] = 0] /\ refused' = refused \ {Key(o)}
    /\ ring' = ring \/ (Key(o) \in DOMAIN start /\ Submit(Record(o)))

Untouched == NoStamp /\ ring' = ring

Does(o) == (Stamp(Key(o)) /\ ring' = ring) \/ Measured(o)

Effect ==
    /\ program \in LatencyPrograms /\ program' = program
    /\ \/ now' = now /\ \E o \in Ops(program) : Does(o)
       \/ now' = now /\ Untouched
       \/ Tick

\* Measure never submits what it did not find.
LEMMA MeasureIsMeasured ==
  ASSUME NEW o, NEW reported, Measure(o, reported)
  PROVE  Measured(o)
  BY DEF Measure, Measured, Record

(* Each action of the kernel with what its hook does.                      *)
LEMMA Effects ==
  ASSUME LatencyNext
  PROVE  Effect
<1>1. ASSUME NEW t \in Threads, EnterSyscall(t) \/ ReturnFromSyscall(t) \/ ForkThread(t) \/ ExitThread(t)
      PROVE  Effect
  <2>1. program = "syscall_latency" /\ program' = program /\ now' = now
    BY <1>1 DEF EnterSyscall, ReturnFromSyscall, ForkThread, ExitThread, Becomes
  <2>2. t \in Ops(program) /\ program \in LatencyPrograms
    BY <2>1 DEF Ops, LatencyPrograms
  <2>3. Does(t) \/ Untouched
    BY <1>1, MeasureIsMeasured DEF Does, EnterSyscall, ReturnFromSyscall, ForkThread, ExitThread,
       tracepoint_sys_enter, tracepoint_sys_exit, Untouched
  <2> QED BY <2>1, <2>2, <2>3 DEF Effect
<1>2. ASSUME NEW r \in Requests, IssueRequest(r) \/ RequeueRequest(r) \/ CompleteRequest(r)
      PROVE  Effect
  <2>1. program = "disk_io" /\ program' = program /\ now' = now
    BY <1>2 DEF IssueRequest, RequeueRequest, CompleteRequest, Becomes
  <2>2. r \in Ops(program) /\ program \in LatencyPrograms
    BY <2>1 DEF Ops, LatencyPrograms
  <2>3. Does(r) \/ Untouched
    BY <1>2, MeasureIsMeasured DEF Does, IssueRequest, RequeueRequest, CompleteRequest,
       tracepoint_block_rq_issue, tracepoint_block_rq_complete, Untouched
  <2> QED BY <2>1, <2>2, <2>3 DEF Effect
<1>3. ASSUME NEW t \in Tasks, \/ WakeTask(t) \/ WakeDozing(t) \/ PrepareToSleep(t)
                              \/ SwitchOut(t) \/ SwitchIn(t) \/ ForkTask(t)
      PROVE  Effect
  <2>1. program = "sched_delay" /\ program' = program /\ now' = now
    BY <1>3 DEF WakeTask, WakeDozing, PrepareToSleep, SwitchOut, SwitchIn, ForkTask, Becomes
  <2>2. t \in Ops(program) /\ program \in LatencyPrograms
    BY <2>1 DEF Ops, LatencyPrograms
  <2>3. Does(t) \/ Untouched
    BY <1>3, MeasureIsMeasured DEF Does, WakeTask, WakeDozing, PrepareToSleep, SwitchOut, SwitchIn,
       ForkTask, tracepoint_sched_wakeup, tracepoint_sched_switch, Untouched
  <2> QED BY <2>1, <2>2, <2>3 DEF Effect
<1>4. CASE Tick
  BY <1>4 DEF Tick, Effect
<1>5. Effect
  <2>1. CASE \E t \in Threads : EnterSyscall(t) \/ ReturnFromSyscall(t) \/ ExitThread(t) \/ ForkThread(t)
    BY <2>1, <1>1
  <2>2. CASE \E r \in Requests : IssueRequest(r) \/ RequeueRequest(r) \/ CompleteRequest(r)
    BY <2>2, <1>2
  <2>3. CASE \E t \in Tasks : \/ WakeTask(t) \/ WakeDozing(t) \/ PrepareToSleep(t)
                             \/ SwitchOut(t) \/ SwitchIn(t) \/ ForkTask(t)
    BY <2>3, <1>3
  <2> QED BY <2>1, <2>2, <2>3, <1>4 DEF LatencyNext
<1> QED BY <1>5

(***************************************************************************)
(* Types, and times that do not lie in the future.                         *)
(***************************************************************************)
Clocks ==
    /\ now \in 1..MaxTime + 1
    /\ DOMAIN start \subseteq Keys /\ \A k \in DOMAIN start : start[k] \in Times
    /\ IsFiniteSet(DOMAIN start) /\ Cardinality(DOMAIN start) <= MaxEntries
    /\ latest \in [Keys -> Times] /\ refused \subseteq Keys

Operations ==
    /\ st \in [Ops(program) -> States(program)] /\ since \in [Ops(program) -> Times]
    /\ \A o \in Ops(program) : since[o] <= now

Records ==
    /\ program \in LatencyPrograms =>
          /\ ring \in Seq(LatencyEvent) /\ Len(ring) <= RingCap
          /\ \A i \in 1..Len(ring) : ring[i].to <= now
    /\ program \in EventPrograms => ring \in Seq(Event) /\ Len(ring) <= RingCap

(* The map keeps its bound.                                                *)
LEMMA ClocksStep ==
  ASSUME Clocks, LatencyNext
  PROVE  Clocks' /\ now <= now'
<1>1. now \in Nat /\ now <= MaxTime + 1 /\ 1 <= now /\ MaxTime \in Nat /\ now \in Times
  BY MaxTimeAssumption DEF Clocks, Times
<1>2. program \in LatencyPrograms
  BY Effects DEF Effect
<1>3. ASSUME NEW o \in Ops(program), Stamp(Key(o)), now' = now PROVE Clocks'
  <2> DEFINE k == Key(o)
  <2>1. k \in Keys
    BY <1>2, KeyFacts
  <2> HIDE DEF k
  <2>2. start' = Updated(start, k, now) /\ latest' = [latest EXCEPT ![k] = now]
        /\ refused' \subseteq refused \cup {k}
    BY <1>3 DEF Stamp, k
  <2>3. latest' \in [Keys -> Times] /\ refused' \subseteq Keys
    BY <1>1, <2>1, <2>2 DEF Clocks
  <2>4. CASE Fits(start, k)
    <3>1. DOMAIN start' = DOMAIN start \cup {k} /\ start'[k] = now
          /\ \A j \in DOMAIN start \ {k} : start'[j] = start[j]
      BY <2>2, <2>4, UpdatedFacts
    <3>2. /\ IsFiniteSet(DOMAIN start')
          /\ k \in DOMAIN start => Cardinality(DOMAIN start') = Cardinality(DOMAIN start)
          /\ k \notin DOMAIN start => Cardinality(DOMAIN start') = Cardinality(DOMAIN start) + 1
      BY <3>1, FS_AddElement DEF Clocks
    <3>3. Cardinality(DOMAIN start) \in Nat
      BY FS_CardinalityType DEF Clocks
    <3>4. Cardinality(DOMAIN start') <= MaxEntries
      BY <2>4, <3>2, <3>3, MaxEntriesAssumption DEF Fits, Clocks
    <3>5. DOMAIN start' \subseteq Keys /\ \A j \in DOMAIN start' : start'[j] \in Times
      BY <1>1, <2>1, <3>1 DEF Clocks
    <3> QED BY <1>1, <1>3, <2>3, <3>2, <3>4, <3>5 DEF Clocks
  <2>5. CASE ~Fits(start, k)
    <3>1. start' = start
      BY <2>2, <2>5, UpdatedFacts
    <3> QED BY <1>3, <2>3, <3>1 DEF Clocks
  <2> QED BY <2>4, <2>5
<1>4. ASSUME NEW o \in Ops(program), Measured(o), now' = now PROVE Clocks'
  <2>1. DOMAIN start' = DOMAIN start \ {Key(o)} /\ \A j \in DOMAIN start' : start'[j] = start[j]
    BY <1>4, DeletedFacts DEF Measured
  <2>2. IsFiniteSet(DOMAIN start')
    BY <2>1, FS_RemoveElement DEF Clocks
  <2>3. Cardinality(DOMAIN start') <= Cardinality(DOMAIN start)
    BY <2>1, FS_Subset DEF Clocks
  <2>4. Cardinality(DOMAIN start') \in Nat /\ Cardinality(DOMAIN start) \in Nat
    BY <2>2, FS_CardinalityType DEF Clocks
  <2>5. Cardinality(DOMAIN start') <= MaxEntries
    BY <2>3, <2>4, MaxEntriesAssumption DEF Clocks
  <2>6. latest' \in [Keys -> Times] /\ refused' \subseteq Keys
    <3>1. 0 \in Times
      BY MaxTimeAssumption DEF Times
    <3> QED BY <1>4, <3>1 DEF Measured, Clocks
  <2> QED BY <1>4, <2>1, <2>2, <2>5, <2>6 DEF Clocks
<1>5. ASSUME Untouched, now' = now PROVE Clocks'
  BY <1>5 DEF Untouched, NoStamp, Clocks
<1>6. ASSUME Tick PROVE Clocks' /\ now' = now + 1
  <2>1. now' = now + 1 /\ now <= MaxTime /\ UNCHANGED <<start, latest, refused>>
    BY <1>6 DEF Tick
  <2>2. now' \in 1..MaxTime + 1
    BY <1>1, <2>1
  <2> QED BY <2>1, <2>2 DEF Clocks
<1>7. now' = now \/ now' = now + 1
  BY Effects, <1>6 DEF Effect
<1> QED BY <1>1, <1>3, <1>4, <1>5, <1>6, <1>7, Effects DEF Effect, Does

(* What the kernel does with one operation; an operation begins now or never. *)
LEMMA OperationsStep ==
  ASSUME Operations, Clocks, LatencyNext
  PROVE  Operations'
<1>1. now \in Times /\ 0 \in Times /\ now \in Nat /\ 0 <= now
  BY MaxTimeAssumption DEF Clocks, Times
<1>2. ASSUME NEW o \in Ops(program), NEW s \in States(program), NEW t \in Times, t <= now,
             Becomes(o, s, t)
      PROVE  Operations'
  <2>1. program' = program /\ now' = now
        /\ st' = [st EXCEPT ![o] = s] /\ since' = [since EXCEPT ![o] = t]
    BY <1>2 DEF Becomes
  <2>2. st' \in [Ops(program) -> States(program)] /\ since' \in [Ops(program) -> Times]
    BY <2>1 DEF Operations
  <2>3. \A p \in Ops(program) : since'[p] <= now
    BY <2>1, <1>2 DEF Operations
  <2> QED BY <2>1, <2>2, <2>3 DEF Operations, Ops, States
<1>3. ASSUME NEW t \in Threads, EnterSyscall(t) \/ ReturnFromSyscall(t) \/ ForkThread(t) \/ ExitThread(t)
      PROVE  Operations'
  <2>1. program = "syscall_latency"
    BY <1>3 DEF EnterSyscall, ReturnFromSyscall, ForkThread, ExitThread
  <2>2. Ops(program) = Threads /\ States(program) = {"user", "syscall", "dead"}
    BY <2>1 DEF Ops, States
  <2>3. \E s \in States(program), u \in {0, now} : Becomes(t, s, u)
    BY <1>3, <2>2 DEF EnterSyscall, ReturnFromSyscall, ForkThread, ExitThread
  <2> QED BY <1>1, <1>2, <2>2, <2>3
<1>4. ASSUME NEW r \in Requests, IssueRequest(r) \/ RequeueRequest(r) \/ CompleteRequest(r)
      PROVE  Operations'
  <2>1. program = "disk_io"
    BY <1>4 DEF IssueRequest, RequeueRequest, CompleteRequest
  <2>2. Ops(program) = Requests /\ States(program) = {"idle", "issued"}
    BY <2>1 DEF Ops, States
  <2>3. \E s \in States(program), u \in {0, now} : Becomes(r, s, u)
    BY <1>4, <2>2 DEF IssueRequest, RequeueRequest, CompleteRequest
  <2> QED BY <1>1, <1>2, <2>2, <2>3
<1>5. ASSUME NEW t \in Tasks, \/ WakeTask(t) \/ WakeDozing(t) \/ PrepareToSleep(t)
                              \/ SwitchOut(t) \/ SwitchIn(t) \/ ForkTask(t)
      PROVE  Operations'
  <2>1. program = "sched_delay"
    BY <1>5 DEF WakeTask, WakeDozing, PrepareToSleep, SwitchOut, SwitchIn, ForkTask
  <2>2. Ops(program) = Tasks
        /\ States(program) = {"asleep", "queued", "queued dozing", "dead"} \cup {"running", "dozing"}
    BY <2>1 DEF Ops, States, OnCpu
  <2>3. since[t] \in Times /\ since[t] <= now
    BY <2>2 DEF Operations
  <2>4. PICK s \in States(program), u \in {0, now, since[t]} : Becomes(t, s, u)
    <3>1. CASE WakeTask(t) \/ PrepareToSleep(t) \/ ForkTask(t)
      BY <3>1, <2>2 DEF WakeTask, PrepareToSleep, ForkTask
    <3>2. CASE WakeDozing(t)
      <4>1. Becomes(t, "running", since[t]) \/ Becomes(t, "queued", since[t])
        BY <3>2 DEF WakeDozing
      <4> QED BY <4>1, <2>2
    <3>3. CASE SwitchIn(t)
      <4>1. Becomes(t, "running", 0) \/ Becomes(t, "dozing", 0)
        BY <3>3 DEF SwitchIn
      <4> QED BY <4>1, <2>2
    <3>4. CASE SwitchOut(t)
      <4>1. \/ Becomes(t, "queued", now) \/ Becomes(t, "dead", 0)
            \/ Becomes(t, "queued dozing", now) \/ Becomes(t, "asleep", 0)
        BY <3>4 DEF SwitchOut
      <4> QED BY <4>1, <2>2
    <3> QED BY <1>5, <3>1, <3>2, <3>3, <3>4
  <2>5. t \in Ops(program)
    BY <2>2
  <2>6. u = 0 \/ u = now \/ u = since[t]
    OBVIOUS
  <2>7. u \in Times /\ u <= now
    <3>1. now <= now
      BY <1>1
    <3> QED BY <1>1, <2>3, <2>6, <3>1, Zenon
  <2> QED BY <1>2, <2>4, <2>5, <2>7
<1>6. ASSUME Tick PROVE Operations'
  <2>1. UNCHANGED <<program, st, since>> /\ now' = now + 1
    BY <1>6 DEF Tick
  <2>2. \A o \in Ops(program) : since[o] \in Nat
    BY MaxTimeAssumption DEF Operations, Times
  <2>3. \A o \in Ops(program) : since[o] <= now + 1
    BY <2>2, <1>1 DEF Operations
  <2> QED BY <2>1, <2>3 DEF Operations, Ops, States
<1>7. CASE \E t \in Threads : EnterSyscall(t) \/ ReturnFromSyscall(t) \/ ExitThread(t) \/ ForkThread(t)
  BY <1>7, <1>3
<1>8. CASE \E r \in Requests : IssueRequest(r) \/ RequeueRequest(r) \/ CompleteRequest(r)
  BY <1>8, <1>4
<1>9. CASE \E t \in Tasks : \/ WakeTask(t) \/ WakeDozing(t) \/ PrepareToSleep(t)
                           \/ SwitchOut(t) \/ SwitchIn(t) \/ ForkTask(t)
  BY <1>9, <1>5
<1> QED BY <1>6, <1>7, <1>8, <1>9 DEF LatencyNext

(* Elements of a typed ring.                                               *)
LEMMA RecordsAreTyped ==
  ASSUME ring \in Seq(LatencyEvent), NEW i \in 1..Len(ring)
  PROVE  /\ ring[i] \in LatencyEvent
         /\ ring[i].from \in Nat /\ ring[i].to \in Nat /\ ring[i].began \in Nat
<1>1. ring[i] \in LatencyEvent
  BY ElementOfSeq
<1> QED BY <1>1, MaxTimeAssumption DEF LatencyEvent, Times

(* A record that is submitted is one; nothing is reported from the future. *)
LEMMA RecordsStep ==
  ASSUME Records, Operations, Clocks, LatencyNext
  PROVE  Records'
<1>1. now \in Times /\ now \in Nat /\ now' \in Nat /\ now <= now'
  BY MaxTimeAssumption, ClocksStep DEF Clocks, Times
<1>2. program \in LatencyPrograms /\ program' = program /\ program \notin EventPrograms
  BY Effects DEF Effect, Does, LatencyPrograms, EventPrograms
<1>3. ring \in Seq(LatencyEvent) /\ Len(ring) <= RingCap /\ \A i \in 1..Len(ring) : ring[i].to <= now
  BY <1>2 DEF Records
<1>4. CASE ring' = ring
  <2>1. \A i \in 1..Len(ring) : ring[i].to <= now'
    BY <1>1, <1>3, RecordsAreTyped
  <2> QED BY <1>2, <1>3, <1>4, <2>1 DEF Records
<1>5. ASSUME NEW o \in Ops(program), Measured(o), now' = now PROVE Records'
  <2>1. CASE ring' = ring
    BY <2>1, <1>4
  <2>2. CASE Key(o) \in DOMAIN start /\ Submit(Record(o))
    <3>1. Key(o) \in Keys
      BY <1>2, KeyFacts
    <3>2. Record(o) \in LatencyEvent /\ Record(o).to = now
      BY <1>1, <2>2, <3>1 DEF Record, LatencyEvent, Clocks, Operations
    <3>3. /\ ring' \in Seq(LatencyEvent) /\ Len(ring') <= RingCap
          /\ \/ ring' = ring
             \/ /\ Len(ring') = Len(ring) + 1 /\ ring'[Len(ring) + 1] = Record(o)
                /\ \A i \in 1..Len(ring) : ring'[i] = ring[i]
      BY <1>3, <2>2, <3>2, SubmitFacts
    <3>4. \A i \in 1..Len(ring') : ring'[i].to <= now
      BY <1>1, <1>3, <3>2, <3>3
    <3> QED BY <1>2, <1>5, <3>3, <3>4 DEF Records
  <2> QED BY <1>5, <2>1, <2>2 DEF Measured
<1> QED BY <1>4, <1>5, Effects DEF Effect, Does, Untouched, Tick

(***************************************************************************)
(* FromLatestStart and NoTimeTwice follow from the effects alone.          *)
(***************************************************************************)
(* A stamp is the newest one of its key from the moment it is put in.      *)
LEMMA LatestStep ==
  ASSUME Records, Operations, Clocks, FromLatestStart, LatencyNext
  PROVE  FromLatestStart'
<1>1. program \in LatencyPrograms /\ program' = program
  BY Effects DEF Effect
<1>2. ring \in Seq(LatencyEvent) /\ Len(ring) <= RingCap
  BY <1>1 DEF Records
<1>3. (\A i \in 1..Len(ring) : ring[i].from = ring[i].last) /\ \A k \in DOMAIN start : start[k] = latest[k]
  BY <1>1 DEF FromLatestStart
<1>4. ASSUME NEW o \in Ops(program), Stamp(Key(o)), ring' = ring PROVE FromLatestStart'
  <2> DEFINE k == Key(o)
  <2>1. k \in Keys
    BY <1>1, KeyFacts
  <2> HIDE DEF k
  <2>2. start' = Updated(start, k, now) /\ latest' = [latest EXCEPT ![k] = now]
    BY <1>4 DEF Stamp, k
  <2>3. latest'[k] = now /\ \A j \in Keys \ {k} : latest'[j] = latest[j]
    BY <2>1, <2>2 DEF Clocks
  <2>4. \A j \in DOMAIN start' : start'[j] = latest'[j]
    <3>1. CASE Fits(start, k)
      <4>1. /\ DOMAIN start' = DOMAIN start \cup {k} /\ start'[k] = now
            /\ \A j \in DOMAIN start \ {k} : start'[j] = start[j]
        BY <2>2, <3>1, UpdatedFacts
      <4>2. DOMAIN start \subseteq Keys
        BY DEF Clocks
      <4> QED BY <1>3, <2>3, <4>1, <4>2
    <3>2. CASE ~Fits(start, k)
      BY <1>3, <2>2, <2>3, <3>2, UpdatedFacts DEF Clocks
    <3> QED BY <3>1, <3>2
  <2> QED BY <1>3, <1>4, <2>4 DEF FromLatestStart
<1>5. ASSUME NEW o \in Ops(program), Measured(o) PROVE FromLatestStart'
  <2> DEFINE k == Key(o)
  <2>1. k \in Keys
    BY <1>1, KeyFacts
  <2>2. \A j \in DOMAIN start' : start'[j] = latest'[j]
    <3>1. DOMAIN start' = DOMAIN start \ {k} /\ \A j \in DOMAIN start' : start'[j] = start[j]
      BY <1>5, DeletedFacts DEF Measured
    <3>2. \A j \in Keys \ {k} : latest'[j] = latest[j]
      BY <1>5 DEF Measured, Clocks
    <3> QED BY <1>3, <3>1, <3>2 DEF Clocks
  <2>3. \A i \in 1..Len(ring') : ring'[i].from = ring'[i].last
    <3>1. CASE ring' = ring
      BY <3>1, <1>3
    <3>2. CASE k \in DOMAIN start /\ Submit(Record(o))
      <4>1. Record(o).from = Record(o).last
        BY <1>3, <3>2 DEF Record
      <4>2. \/ ring' = ring
            \/ /\ Len(ring') = Len(ring) + 1 /\ ring'[Len(ring) + 1] = Record(o)
               /\ \A i \in 1..Len(ring) : ring'[i] = ring[i]
        <5>1. now \in Times
          BY MaxTimeAssumption DEF Clocks, Times
        <5>2. Record(o) \in LatencyEvent
          BY <5>1, <2>1, <3>2 DEF Record, LatencyEvent, Clocks, Operations
        <5> QED BY <1>2, <3>2, <5>2, SubmitFacts
      <4> QED BY <1>2, <1>3, <4>1, <4>2
    <3> QED BY <1>5, <3>1, <3>2 DEF Measured
  <2> QED BY <2>2, <2>3 DEF FromLatestStart
<1>6. CASE UNCHANGED <<start, latest, ring>>
  BY <1>3, <1>6 DEF FromLatestStart
<1> QED BY <1>4, <1>5, <1>6, Effects DEF Effect, Does, Untouched, NoStamp, Tick

(* A stamp is put in after all the times reported for its key have ended,  *)
(* and goes when it is used.                                               *)
LEMMA OnceStep ==
  ASSUME Records, Operations, Clocks, NoTimeTwice, LatencyNext
  PROVE  NoTimeTwice'
<1> DEFINE Apart(r) == \A i, j \in 1..Len(r) : i < j /\ r[i].key = r[j].key => r[i].to <= r[j].from
           Over(r, s) == \A i \in 1..Len(r) : r[i].key \in DOMAIN s => r[i].to <= s[r[i].key]
<1>1. program \in LatencyPrograms /\ program' = program
  BY Effects DEF Effect
<1>2. /\ ring \in Seq(LatencyEvent) /\ Len(ring) <= RingCap /\ Len(ring) \in Nat
      /\ \A i \in 1..Len(ring) : ring[i].to <= now
  BY <1>1 DEF Records
<1>3. Apart(ring) /\ Over(ring, start)
  BY <1>1 DEF NoTimeTwice
<1>4. SUFFICES Apart(ring') /\ Over(ring', start')
  BY DEF NoTimeTwice
<1>5. ASSUME NEW o \in Ops(program), Stamp(Key(o)), ring' = ring PROVE Over(ring', start')
  <2> DEFINE k == Key(o)
  <2>1. start' = Updated(start, k, now)
    BY <1>5 DEF Stamp
  <2> HIDE DEF k
  <2>2. ASSUME NEW i \in 1..Len(ring), ring[i].key \in DOMAIN start' PROVE ring[i].to <= start'[ring[i].key]
    <3>1. CASE Fits(start, k) /\ ring[i].key = k
      BY <1>2, <2>1, <3>1, UpdatedFacts
    <3>2. CASE Fits(start, k) /\ ring[i].key # k
      <4>1. /\ DOMAIN start' = DOMAIN start \cup {k}
            /\ \A j \in DOMAIN start \ {k} : start'[j] = start[j]
        BY <2>1, <3>2, UpdatedFacts
      <4>2. ring[i].key \in DOMAIN start /\ start'[ring[i].key] = start[ring[i].key]
        BY <2>2, <3>2, <4>1
      <4> QED BY <1>3, <4>2
    <3>3. CASE ~Fits(start, k)
      <4>1. start' = start
        BY <2>1, <3>3, UpdatedFacts
      <4> QED BY <1>3, <2>2, <4>1
    <3> QED BY <3>1, <3>2, <3>3
  <2> QED BY <1>5, <2>2
<1>6. ASSUME NEW o \in Ops(program), Measured(o) PROVE Apart(ring') /\ Over(ring', start')
  <2> DEFINE k == Key(o)
  <2>1. DOMAIN start' = DOMAIN start \ {k} /\ \A j \in DOMAIN start' : start'[j] = start[j]
    BY <1>6, DeletedFacts DEF Measured
  <2>2. Over(ring, start')
    BY <1>3, <2>1
  <2>3. CASE ring' = ring
    BY <1>3, <2>2, <2>3
  <2>4. CASE k \in DOMAIN start /\ Submit(Record(o))
    <3>1. /\ Record(o).key = k /\ Record(o).from = start[k]
      BY DEF Record
    <3>2. \/ ring' = ring
          \/ /\ Len(ring') = Len(ring) + 1 /\ ring'[Len(ring) + 1] = Record(o)
             /\ \A i \in 1..Len(ring) : ring'[i] = ring[i]
      <4>1. now \in Times /\ k \in Keys
        BY <1>1, KeyFacts, MaxTimeAssumption DEF Clocks, Times
      <4>2. Record(o) \in LatencyEvent
        BY <4>1, <2>4 DEF Record, LatencyEvent, Clocks, Operations
      <4> QED BY <1>2, <2>4, <4>2, SubmitFacts
    <3> SUFFICES ASSUME /\ Len(ring') = Len(ring) + 1 /\ ring'[Len(ring) + 1] = Record(o)
                        /\ \A i \in 1..Len(ring) : ring'[i] = ring[i]
                 PROVE  Apart(ring') /\ Over(ring', start')
      BY <3>2, <2>3
    <3>3. ASSUME NEW i \in 1..Len(ring'), NEW j \in 1..Len(ring'), i < j, ring'[i].key = ring'[j].key
          PROVE  ring'[i].to <= ring'[j].from
      <4>1. i \in 1..Len(ring) /\ (j \in 1..Len(ring) \/ j = Len(ring) + 1)
        BY <1>2, <3>3
      <4>2. CASE j \in 1..Len(ring)
        BY <1>3, <3>3, <4>1, <4>2
      <4>3. CASE j = Len(ring) + 1
        <5>1. ring[i].key = k /\ ring[i].to <= start[k]
          BY <1>3, <2>4, <3>1, <3>3, <4>1, <4>3
        <5> QED BY <3>1, <4>1, <4>3, <5>1
      <4> QED BY <4>1, <4>2, <4>3
    <3>4. ASSUME NEW i \in 1..Len(ring'), ring'[i].key \in DOMAIN start'
          PROVE  ring'[i].to <= start'[ring'[i].key]
      <4>1. i \in 1..Len(ring) \/ i = Len(ring) + 1
        BY <1>2
      <4>2. CASE i = Len(ring) + 1
        BY <2>1, <3>1, <3>4, <4>2
      <4>3. CASE i \in 1..Len(ring)
        BY <2>2, <3>4, <4>3
      <4> QED BY <4>1, <4>2, <4>3
    <3> QED BY <3>3, <3>4
  <2> QED BY <1>6, <2>3, <2>4 DEF Measured
<1>7. CASE UNCHANGED <<start, ring>>
  BY <1>3, <1>7
<1>8. ASSUME NEW o \in Ops(program), Does(o) PROVE Apart(ring') /\ Over(ring', start')
  BY <1>3, <1>5, <1>6, <1>8 DEF Does
<1>9. CASE Untouched \/ Tick
  BY <1>7, <1>9 DEF Untouched, NoStamp, Tick
<1> HIDE DEF Apart, Over
<1> QED BY <1>8, <1>9, Effects DEF Effect

(***************************************************************************)
(* Whose stamp is in the map.                                              *)
(***************************************************************************)
\* Nothing is said of keys other than k by the step.
Elsewhere(k) ==
    /\ DOMAIN start' \ {k} = DOMAIN start \ {k} /\ refused' \ {k} = refused \ {k}
    /\ \A j \in DOMAIN start \ {k} : start'[j] = start[j]

\* A thread in user space has no stamp, and one in a syscall its own or none.
ThreadsOwn ==
    program = "syscall_latency" => \A t \in Threads :
        /\ st[t] = "user" => t \notin DOMAIN start
        /\ st[t] # "syscall" => since[t] = 0
        /\ st[t] = "syscall" /\ since[t] # 0 =>
              t \in DOMAIN start \cup refused /\ (t \in DOMAIN start => start[t] = since[t])

Alone(r) == \A p \in Requests \ {r} : Sector[p] # Sector[r]

\* The stamp of a sector is not older than any of the requests issued there.
RequestsOwn ==
    program = "disk_io" =>
        /\ 0 \notin DOMAIN start
        /\ \A r \in Requests : st[r] = "issued" =>
              /\ Sector[r] \in DOMAIN start => since[r] <= start[Sector[r]]
              /\ since[r] # 0 /\ Sector[r] # 0 /\ Alone(r) => Sector[r] \in DOMAIN start \cup refused

(* A stamp that is put in, or was refused, and what it leaves alone.       *)
LEMMA StampFacts ==
  ASSUME NEW k, Stamp(k)
  PROVE  /\ Elsewhere(k) /\ k \in DOMAIN start' \cup refused'
         /\ k \in DOMAIN start' => start'[k] = now
<1>1. start' = Updated(start, k, now)
      /\ refused' = IF Fits(start, k) THEN refused \ {k} ELSE refused \cup {k}
  BY DEF Stamp
<1>2. CASE Fits(start, k)
  <2>1. /\ DOMAIN start' = DOMAIN start \cup {k} /\ start'[k] = now
        /\ \A j \in DOMAIN start \ {k} : start'[j] = start[j]
    BY <1>1, <1>2, UpdatedFacts
  <2>2. refused' = refused \ {k}
    BY <1>1, <1>2
  <2> QED BY <2>1, <2>2 DEF Elsewhere
<1>3. CASE ~Fits(start, k)
  <2>1. start' = start /\ k \notin DOMAIN start
    BY <1>1, <1>3, UpdatedFacts
  <2>2. refused' = refused \cup {k}
    BY <1>1, <1>3
  <2> QED BY <2>1, <2>2 DEF Elsewhere
<1> QED BY <1>2, <1>3

(* A measurement takes out one stamp.                                      *)
LEMMA MeasuredFacts ==
  ASSUME NEW o, Measured(o)
  PROVE  Elsewhere(Key(o)) /\ Key(o) \notin DOMAIN start'
<1>1. DOMAIN start' = DOMAIN start \ {Key(o)} /\ \A j \in DOMAIN start' : start'[j] = start[j]
  BY DeletedFacts DEF Measured
<1>2. refused' = refused \ {Key(o)}
  BY DEF Measured
<1> QED BY <1>1, <1>2 DEF Elsewhere

(* One operation moves on; the others, and the clock, do not.              *)
LEMMA BecomesFacts ==
  ASSUME Operations, NEW o \in Ops(program), NEW s, NEW t, Becomes(o, s, t)
  PROVE  /\ st'[o] = s /\ since'[o] = t /\ program' = program /\ now' = now
         /\ \A p \in Ops(program) \ {o} : st'[p] = st[p] /\ since'[p] = since[p]
  BY DEF Operations, Becomes

(* The hooks of one thread concern its own pair.                           *)
LEMMA ThreadStep ==
  ASSUME Operations, ThreadsOwn, NEW t \in Threads,
         EnterSyscall(t) \/ ReturnFromSyscall(t) \/ ForkThread(t) \/ ExitThread(t)
  PROVE  /\ ThreadsOwn'
         /\ Measured(t) /\ since[t] # 0 /\ t \in DOMAIN start => start[t] = since[t]
<1>1. program = "syscall_latency" /\ program \in LatencyPrograms
  BY DEF EnterSyscall, ReturnFromSyscall, ForkThread, ExitThread, LatencyPrograms
<1>2. Ops(program) = Threads /\ t \in Ops(program) /\ Key(t) = t
  BY <1>1, KeyFacts
<1>3. \A p \in Threads \ {t} :
        /\ st[p] = "user" => p \notin DOMAIN start
        /\ st[p] # "syscall" => since[p] = 0
        /\ st[p] = "syscall" /\ since[p] # 0 =>
              p \in DOMAIN start \cup refused /\ (p \in DOMAIN start => start[p] = since[p])
  BY <1>1 DEF ThreadsOwn
<1> DEFINE Others == \A p \in Threads \ {t} : st'[p] = st[p] /\ since'[p] = since[p]
           Mine   == /\ st'[t] = "user" => t \notin DOMAIN start'
                     /\ st'[t] # "syscall" => since'[t] = 0
                     /\ st'[t] = "syscall" /\ since'[t] # 0 =>
                           t \in DOMAIN start' \cup refused' /\ (t \in DOMAIN start' => start'[t] = since'[t])
<1>4. Others /\ Elsewhere(t) /\ Mine
  <2>1. CASE EnterSyscall(t)
    <3>1. Becomes(t, "syscall", now) /\ Stamp(t)
      BY <1>2, <2>1 DEF EnterSyscall, tracepoint_sys_enter
    <3>2. st'[t] = "syscall" /\ since'[t] = now /\ Others
      BY <1>2, <3>1, BecomesFacts
    <3> QED BY <3>1, <3>2, StampFacts
  <2>2. CASE ReturnFromSyscall(t) \/ ForkThread(t)
    <3>1. Becomes(t, "user", 0) /\ Measured(t)
      BY <2>2, MeasureIsMeasured DEF ReturnFromSyscall, ForkThread, tracepoint_sys_exit
    <3>2. st'[t] = "user" /\ since'[t] = 0 /\ Others
      BY <1>2, <3>1, BecomesFacts
    <3>3. Elsewhere(t) /\ t \notin DOMAIN start'
      BY <1>2, <3>1, MeasuredFacts
    <3> QED BY <3>2, <3>3
  <2>3. CASE ExitThread(t)
    <3>1. Becomes(t, "dead", 0) /\ NoStamp
      BY <2>3 DEF ExitThread
    <3>2. st'[t] = "dead" /\ since'[t] = 0 /\ Others
      BY <1>2, <3>1, BecomesFacts
    <3> QED BY <3>1, <3>2 DEF NoStamp, Elsewhere
  <2> QED BY <2>1, <2>2, <2>3
<1>5. \A p \in Threads \ {t} :
        /\ st'[p] = "user" => p \notin DOMAIN start'
        /\ st'[p] # "syscall" => since'[p] = 0
        /\ st'[p] = "syscall" /\ since'[p] # 0 =>
              p \in DOMAIN start' \cup refused' /\ (p \in DOMAIN start' => start'[p] = since'[p])
  <2> SUFFICES ASSUME NEW p \in Threads \ {t}
               PROVE  /\ p \in DOMAIN start' <=> p \in DOMAIN start
                      /\ p \in refused' <=> p \in refused
                      /\ p \in DOMAIN start => start'[p] = start[p]
                      /\ st'[p] = st[p] /\ since'[p] = since[p]
    BY <1>3
  <2> QED BY <1>4 DEF Elsewhere
<1>6. ThreadsOwn'
  BY <1>4, <1>5 DEF ThreadsOwn
<1>7. ASSUME Measured(t), since[t] # 0, t \in DOMAIN start PROVE start[t] = since[t]
  <2>1. st[t] = "syscall"
    BY <1>1, <1>7 DEF ThreadsOwn
  <2> QED BY <1>1, <1>7, <2>1 DEF ThreadsOwn
<1> QED BY <1>6, <1>7

(* The hooks of one request concern the pair of its sector.                *)
LEMMA RequestStep ==
  ASSUME Operations, Clocks, RequestsOwn, NEW r \in Requests,
         IssueRequest(r) \/ RequeueRequest(r) \/ CompleteRequest(r)
  PROVE  /\ RequestsOwn'
         /\ ring' # ring /\ Sector[r] \in DOMAIN start => since[r] <= start[Sector[r]]
<1>1. program = "disk_io" /\ program \in LatencyPrograms
  BY DEF IssueRequest, RequeueRequest, CompleteRequest, LatencyPrograms
<1>2. Ops(program) = Requests /\ r \in Ops(program) /\ Key(r) = Sector[r]
  BY <1>1, KeyFacts
<1>3. now \in Nat /\ \A p \in Requests : since[p] <= now
  BY <1>2 DEF Clocks, Operations
<1>4. 0 \notin DOMAIN start /\ \A p \in Requests : st[p] = "issued" =>
          /\ Sector[p] \in DOMAIN start => since[p] <= start[Sector[p]]
          /\ since[p] # 0 /\ Sector[p] # 0 /\ Alone(p) => Sector[p] \in DOMAIN start \cup refused
  BY <1>1 DEF RequestsOwn
<1>5. ASSUME IssueRequest(r) PROVE RequestsOwn'
  <2>1. Becomes(r, "issued", now)
    BY <1>5 DEF IssueRequest
  <2>2. st'[r] = "issued" /\ since'[r] = now
        /\ \A p \in Requests \ {r} : st'[p] = st[p] /\ since'[p] = since[p]
    BY <1>2, <2>1, BecomesFacts
  <2>3. CASE Sector[r] = 0
    <3>1. start' = start /\ refused' = refused
      BY <1>5, <2>3 DEF IssueRequest, tracepoint_block_rq_issue, NoStamp
    <3> QED BY <1>4, <2>2, <2>3, <3>1 DEF RequestsOwn
  <2>4. CASE Sector[r] # 0
    <3>1. Elsewhere(Sector[r]) /\ Sector[r] \in DOMAIN start' \cup refused'
          /\ (Sector[r] \in DOMAIN start' => start'[Sector[r]] = now)
      BY <1>2, <1>5, <2>4, StampFacts DEF IssueRequest, tracepoint_block_rq_issue
    <3>2. 0 \notin DOMAIN start'
      BY <1>4, <2>4, <3>1 DEF Elsewhere
    <3>3. ASSUME NEW p \in Requests, st'[p] = "issued"
          PROVE  /\ Sector[p] \in DOMAIN start' => since'[p] <= start'[Sector[p]]
                 /\ since'[p] # 0 /\ Sector[p] # 0 /\ Alone(p) => Sector[p] \in DOMAIN start' \cup refused'
      <4>1. since'[p] <= now
        BY <1>3, <2>2
      <4>2. CASE Sector[p] = Sector[r]
        BY <3>1, <4>1, <4>2
      <4>3. CASE Sector[p] # Sector[r]
        <5>1. st[p] = "issued" /\ since'[p] = since[p]
          BY <2>2, <3>3, <4>3
        <5>2. /\ Sector[p] \in DOMAIN start' <=> Sector[p] \in DOMAIN start
              /\ Sector[p] \in refused' <=> Sector[p] \in refused
              /\ Sector[p] \in DOMAIN start => start'[Sector[p]] = start[Sector[p]]
          BY <3>1, <4>3 DEF Elsewhere
        <5> QED BY <1>4, <5>1, <5>2
      <4> QED BY <4>2, <4>3
    <3> QED BY <3>2, <3>3 DEF RequestsOwn, Alone
  <2> QED BY <2>3, <2>4
<1>6. ASSUME CompleteRequest(r) PROVE RequestsOwn'
  <2>1. Becomes(r, "idle", 0) /\ Measured(r)
    BY <1>6, MeasureIsMeasured DEF CompleteRequest, tracepoint_block_rq_complete
  <2>2. st'[r] = "idle" /\ since'[r] = 0
        /\ \A p \in Requests \ {r} : st'[p] = st[p] /\ since'[p] = since[p]
    BY <1>2, <2>1, BecomesFacts
  <2>3. Elsewhere(Sector[r]) /\ Sector[r] \notin DOMAIN start'
    BY <1>2, <2>1, MeasuredFacts
  <2>4. 0 \notin DOMAIN start'
    BY <1>4, <2>3 DEF Elsewhere
  <2>5. ASSUME NEW p \in Requests, st'[p] = "issued"
        PROVE  /\ Sector[p] \in DOMAIN start' => since'[p] <= start'[Sector[p]]
               /\ since'[p] # 0 /\ Sector[p] # 0 /\ Alone(p) => Sector[p] \in DOMAIN start' \cup refused'
    <3>1. p # r /\ st[p] = "issued" /\ since'[p] = since[p]
      BY <2>2, <2>5
    <3>2. CASE Sector[p] = Sector[r]
      BY <2>3, <3>1, <3>2 DEF Alone
    <3>3. CASE Sector[p] # Sector[r]
      <4>1. /\ Sector[p] \in DOMAIN start' <=> Sector[p] \in DOMAIN start
            /\ Sector[p] \in refused' <=> Sector[p] \in refused
            /\ Sector[p] \in DOMAIN start => start'[Sector[p]] = start[Sector[p]]
        BY <2>3, <3>3 DEF Elsewhere
      <4> QED BY <1>4, <3>1, <4>1
    <3> QED BY <3>2, <3>3
  <2> QED BY <2>4, <2>5 DEF RequestsOwn, Alone
<1>7. ASSUME RequeueRequest(r) PROVE RequestsOwn'
  <2>1. Becomes(r, "idle", 0) /\ start' = start /\ refused' = refused
    BY <1>7 DEF RequeueRequest, NoStamp
  <2>2. st'[r] = "idle" /\ \A p \in Requests \ {r} : st'[p] = st[p] /\ since'[p] = since[p]
    BY <1>2, <2>1, BecomesFacts
  <2> QED BY <1>4, <2>1, <2>2 DEF RequestsOwn
<1>8. ASSUME ring' # ring, Sector[r] \in DOMAIN start PROVE since[r] <= start[Sector[r]]
  <2>1. CompleteRequest(r)
    BY <1>8 DEF IssueRequest, RequeueRequest, tracepoint_block_rq_issue
  <2> QED BY <1>4, <1>8, <2>1 DEF CompleteRequest
<1>9. RequestsOwn'
  BY <1>5, <1>6, <1>7
<1> QED BY <1>8, <1>9

(* What is submitted was measured on an operation, with its own time.      *)
LEMMA OwnTimeSubmitted ==
  ASSUME program \in LatencyPrograms, Clocks, Operations, Records, TimeIsItsOwn,
         program' = program, NEW o \in Ops(program),
         ring' = ring \/ (Key(o) \in DOMAIN start /\ Submit(Record(o))),
         ring' # ring /\ Key(o) \in DOMAIN start =>
             /\ program = "syscall_latency" /\ since[o] # 0 => start[Key(o)] = since[o]
             /\ program = "disk_io" => start[Key(o)] >= since[o]
  PROVE  TimeIsItsOwn'
<1>1. CASE ring' = ring
  BY <1>1 DEF TimeIsItsOwn
<1>2. CASE ring' # ring
  <2>1. Key(o) \in DOMAIN start /\ Submit(Record(o))
    BY <1>2
  <2>2. now \in Times /\ Key(o) \in Keys
    BY KeyFacts, MaxTimeAssumption DEF Clocks, Times
  <2>3. Record(o) \in LatencyEvent
    BY <2>1, <2>2 DEF Record, LatencyEvent, Clocks, Operations
  <2>4. ring \in Seq(LatencyEvent) /\ Len(ring) <= RingCap
    BY DEF Records
  <2>5. /\ Len(ring') = Len(ring) + 1 /\ ring'[Len(ring) + 1] = Record(o)
        /\ \A i \in 1..Len(ring) : ring'[i] = ring[i]
    BY <1>2, <2>1, <2>3, <2>4, SubmitFacts
  <2>6. Record(o).began = since[o] /\ Record(o).from = start[Key(o)]
    BY DEF Record
  <2>7. ASSUME NEW i \in 1..Len(ring')
        PROVE  /\ program = "syscall_latency" /\ ring'[i].began # 0 => ring'[i].from = ring'[i].began
               /\ program = "disk_io" => ring'[i].from >= ring'[i].began
    <3>1. i \in 1..Len(ring) \/ i = Len(ring) + 1
      BY <2>4, <2>5
    <3>2. CASE i \in 1..Len(ring)
      BY <2>5, <3>2 DEF TimeIsItsOwn
    <3>3. CASE i = Len(ring) + 1
      BY <1>2, <2>1, <2>5, <2>6, <3>3
    <3> QED BY <3>1, <3>2, <3>3
  <2> QED BY <2>7 DEF TimeIsItsOwn
<1> QED BY <1>1, <1>2

(* Whatever the kernel does next, a stamp stays with whom it belongs to.   *)
LEMMA OwnStep ==
  ASSUME Clocks, Operations, Records, ThreadsOwn, RequestsOwn, TimeIsItsOwn, LatencyNext
  PROVE  ThreadsOwn' /\ RequestsOwn' /\ TimeIsItsOwn'
<1>1. program \in LatencyPrograms /\ program' = program
  BY Effects DEF Effect
<1>2. ASSUME NEW t \in Threads, EnterSyscall(t) \/ ReturnFromSyscall(t) \/ ForkThread(t) \/ ExitThread(t)
      PROVE  ThreadsOwn' /\ RequestsOwn' /\ TimeIsItsOwn'
  <2>1. program = "syscall_latency"
    BY <1>2 DEF EnterSyscall, ReturnFromSyscall, ForkThread, ExitThread
  <2>2. t \in Ops(program) /\ Key(t) = t
    BY <1>1, <2>1, KeyFacts
  <2>3. ThreadsOwn' /\ (Measured(t) /\ since[t] # 0 /\ t \in DOMAIN start => start[t] = since[t])
    BY <1>2, ThreadStep
  <2>4. ring' = ring \/ Measured(t)
    BY <1>2, MeasureIsMeasured DEF EnterSyscall, ReturnFromSyscall, ForkThread, ExitThread,
       tracepoint_sys_enter, tracepoint_sys_exit
  <2>5. TimeIsItsOwn'
    BY <1>1, <2>1, <2>2, <2>3, <2>4, OwnTimeSubmitted DEF Measured
  <2>6. RequestsOwn'
    BY <1>1, <2>1 DEF RequestsOwn
  <2> QED BY <2>3, <2>5, <2>6
<1>3. ASSUME NEW r \in Requests, IssueRequest(r) \/ RequeueRequest(r) \/ CompleteRequest(r)
      PROVE  ThreadsOwn' /\ RequestsOwn' /\ TimeIsItsOwn'
  <2>1. program = "disk_io"
    BY <1>3 DEF IssueRequest, RequeueRequest, CompleteRequest
  <2>2. r \in Ops(program) /\ Key(r) = Sector[r] /\ Ops(program) = Requests
    BY <1>1, <2>1, KeyFacts
  <2>3. RequestsOwn' /\ (ring' # ring /\ Sector[r] \in DOMAIN start => since[r] <= start[Sector[r]])
    BY <1>3, RequestStep
  <2>4. ring' = ring \/ Measured(r)
    BY <1>3, MeasureIsMeasured DEF IssueRequest, RequeueRequest, CompleteRequest,
       tracepoint_block_rq_issue, tracepoint_block_rq_complete
  <2>5. ring' # ring /\ Key(r) \in DOMAIN start => start[Key(r)] >= since[r]
    <3> SUFFICES ASSUME ring' # ring, Key(r) \in DOMAIN start PROVE start[Key(r)] >= since[r]
      OBVIOUS
    <3>1. since[r] \in Nat /\ start[Sector[r]] \in Nat
      BY <2>2, MaxTimeAssumption DEF Clocks, Operations, Times
    <3>2. since[r] <= start[Sector[r]]
      BY <2>2, <2>3
    <3> QED BY <2>2, <3>1, <3>2
  <2>6. TimeIsItsOwn'
    BY <1>1, <2>1, <2>2, <2>4, <2>5, OwnTimeSubmitted DEF Measured
  <2>7. ThreadsOwn'
    BY <1>1, <2>1 DEF ThreadsOwn
  <2> QED BY <2>3, <2>6, <2>7
<1>4. ASSUME NEW t \in Tasks, \/ WakeTask(t) \/ WakeDozing(t) \/ PrepareToSleep(t)
                              \/ SwitchOut(t) \/ SwitchIn(t) \/ ForkTask(t)
      PROVE  ThreadsOwn' /\ RequestsOwn' /\ TimeIsItsOwn'
  <2>1. program' = "sched_delay"
    BY <1>1, <1>4 DEF WakeTask, WakeDozing, PrepareToSleep, SwitchOut, SwitchIn, ForkTask
  <2> QED BY <2>1 DEF ThreadsOwn, RequestsOwn, TimeIsItsOwn
<1>5. ASSUME Tick PROVE ThreadsOwn' /\ RequestsOwn' /\ TimeIsItsOwn'
  BY <1>5 DEF Tick, ThreadsOwn, RequestsOwn, TimeIsItsOwn
<1>6. CASE \E t \in Threads : EnterSyscall(t) \/ ReturnFromSyscall(t) \/ ExitThread(t) \/ ForkThread(t)
  BY <1>6, <1>2
<1>7. CASE \E r \in Requests : IssueRequest(r) \/ RequeueRequest(r) \/ CompleteRequest(r)
  BY <1>7, <1>3
<1>8. CASE \E t \in Tasks : \/ WakeTask(t) \/ WakeDozing(t) \/ PrepareToSleep(t)
                           \/ SwitchOut(t) \/ SwitchIn(t) \/ ForkTask(t)
  BY <1>8, <1>4
<1> QED BY <1>5, <1>6, <1>7, <1>8 DEF LatencyNext

(* No operation under way is missing from the map but for want of room.    *)
LEMMA OwnersAreFound ==
  ASSUME ThreadsOwn, RequestsOwn
  PROVE  MissedOnlyWhenFull
<1>1. CASE program = "syscall_latency"
  <2>1. Ops(program) = Threads
    BY <1>1 DEF Ops
  <2> QED BY <1>1, <2>1 DEF ThreadsOwn, MissedOnlyWhenFull
<1>2. CASE program = "disk_io"
  <2>1. Ops(program) = Requests
    BY <1>2 DEF Ops
  <2> QED BY <1>2, <2>1 DEF RequestsOwn, Alone, MissedOnlyWhenFull
<1> QED BY <1>1, <1>2 DEF MissedOnlyWhenFull

(***************************************************************************)
(* The inductive invariant, and what follows from it.                      *)
(***************************************************************************)
LatencyInv ==
    /\ Clocks /\ Operations
    /\ FromLatestStart /\ NoTimeTwice /\ ThreadsOwn /\ RequestsOwn /\ TimeIsItsOwn

IInv == program \in Programs /\ Records /\ LatencyInv /\ EventInv

(* Before the first hook there is nothing to be wrong.                     *)
LEMMA InitiallyInv == Init => IInv
<1> SUFFICES ASSUME Init PROVE IInv
  OBVIOUS
<1>1. /\ program \in Programs /\ ring = <<>> /\ now = 1 /\ start = <<>> /\ refused = {}
      /\ st \in [Ops(program) -> States(program) \ {"dead"}]
      /\ since = [o \in Ops(program) |-> 0] /\ latest = [k \in Keys |-> 0]
  BY DEF Init, LatencyInit
<1>2. DOMAIN start = {} /\ Len(ring) = 0
  BY <1>1
<1>3. 0 \in Times /\ 1 \in 1..MaxTime + 1 /\ 0 <= MaxEntries /\ 0 <= RingCap /\ 0 <= 1
  BY MaxTimeAssumption, MaxEntriesAssumption, RingCapAssumption DEF Times
<1>4. Clocks
  <2>1. IsFiniteSet({}) /\ Cardinality({}) = 0
    BY FS_EmptySet
  <2> QED BY <1>1, <1>2, <1>3, <2>1 DEF Clocks
<1>5. Operations
  BY <1>1, <1>3 DEF Operations
<1>6. Records
  BY <1>1, <1>2, <1>3 DEF Records
<1>7. FromLatestStart /\ NoTimeTwice /\ TimeIsItsOwn
  BY <1>2 DEF FromLatestStart, NoTimeTwice, TimeIsItsOwn
<1>8. ThreadsOwn
  <2>1. program = "syscall_latency" => Ops(program) = Threads
    BY DEF Ops
  <2> QED BY <1>1, <1>2, <2>1 DEF ThreadsOwn
<1>9. RequestsOwn
  <2>1. program = "disk_io" => Ops(program) = Requests
    BY DEF Ops
  <2> QED BY <1>1, <1>2, <2>1 DEF RequestsOwn
<1>10. EventInv
  BY EventInitially DEF Init
<1> QED BY <1>1, <1>4, <1>5, <1>6, <1>7, <1>8, <1>9, <1>10 DEF IInv, LatencyInv

(* A hook of tcp_monitor, fd_track or oom_track.                           *)
LEMMA EventHook ==
  ASSUME IInv, EventNext, UNCHANGED latencyVars
  PROVE  IInv'
<1>1. program \in EventPrograms /\ program' = program
  BY DEF EventNext, SetState, Retransmit, Openat, OpenOtherwise, Close, CloseOtherwise, OomKill,
     EventPrograms
<1>2. program \notin LatencyPrograms /\ program # "syscall_latency" /\ program # "disk_io"
  BY <1>1 DEF EventPrograms, LatencyPrograms
<1>3. UNCHANGED <<now, start, st, since, latest, refused>>
  BY DEF latencyVars
<1>4. Clocks' /\ Operations'
  BY <1>1, <1>3 DEF IInv, LatencyInv, Clocks, Operations, Ops, States
<1>5. FromLatestStart' /\ NoTimeTwice' /\ ThreadsOwn' /\ RequestsOwn' /\ TimeIsItsOwn'
  BY <1>1, <1>2 DEF FromLatestStart, NoTimeTwice, ThreadsOwn, RequestsOwn, TimeIsItsOwn
<1>6. ring \in Seq(Event) /\ Len(ring) <= RingCap
  BY <1>1 DEF IInv, Records
<1>7. ring' = ring \/ \E e \in Event : Submit(e)
  <2>1. \A w \in Sockets \cup Procs :
            \A y \in {"CONNECT", "CLOSE", "RETRANSMIT", "FD_OPEN", "FD_CLOSE", "KILL"} :
               [who |-> w, type |-> y] \in Event
    BY DEF Event
  <2>2. ASSUME NEW s \in Sockets, SetState(s) \/ Retransmit(s)
        PROVE  ring' = ring \/ \E e \in Event : Submit(e)
    <3>1. ring' = ring \/ Submit([who |-> s, type |-> "CONNECT"])
          \/ Submit([who |-> s, type |-> "CLOSE"]) \/ Submit([who |-> s, type |-> "RETRANSMIT"])
      BY <2>2 DEF SetState, Retransmit, tracepoint_inet_sock_set_state, tracepoint_tcp_retransmit,
         Lifecycle, Silent
    <3> QED BY <2>1, <3>1
  <2>3. ASSUME NEW p \in Procs, \/ Openat(p) \/ OpenOtherwise(p) \/ Close(p)
                                \/ CloseOtherwise(p) \/ OomKill(p)
        PROVE  ring' = ring \/ \E e \in Event : Submit(e)
    <3>1. ring' = ring \/ Submit([who |-> p, type |-> "FD_OPEN"])
          \/ Submit([who |-> p, type |-> "FD_CLOSE"]) \/ Submit([who |-> p, type |-> "KILL"])
      BY <2>3 DEF Openat, OpenOtherwise, Close, CloseOtherwise, OomKill, tracepoint_sys_exit_openat,
         tracepoint_sys_exit_close, kprobe_oom_kill, Descriptor, Silent
    <3> QED BY <2>1, <3>1
  <2> QED BY <2>2, <2>3 DEF EventNext
<1>8. ring' \in Seq(Event) /\ Len(ring') <= RingCap
  BY <1>6, <1>7, SubmitFacts
<1>9. Records'
  BY <1>1, <1>2, <1>8 DEF Records
<1> QED BY <1>1, <1>4, <1>5, <1>9, EventStep DEF IInv, LatencyInv

(* A hook of syscall_latency, disk_io or sched_delay, or time that passes.  *)
LEMMA LatencyHook ==
  ASSUME IInv, LatencyNext, UNCHANGED eventVars
  PROVE  IInv'
<1>1. program' = program
  BY Effects DEF Effect
<1>2. EventInv'
  BY <1>1, EventQuiet DEF IInv
<1>3. Clocks' /\ Operations' /\ Records'
  BY ClocksStep, OperationsStep, RecordsStep DEF IInv, LatencyInv
<1>4. FromLatestStart' /\ NoTimeTwice' /\ ThreadsOwn' /\ RequestsOwn' /\ TimeIsItsOwn'
  BY LatestStep, OnceStep, OwnStep DEF IInv, LatencyInv
<1> QED BY <1>1, <1>2, <1>3, <1>4 DEF IInv, LatencyInv

(* User space takes the oldest record; those that stay keep their order.   *)
LEMMA ReadKeeps ==
  ASSUME IInv, Read
  PROVE  IInv'
<1>1. Consume /\ program' = program /\ UNCHANGED latencyVars /\ UNCHANGED eventVars
  BY DEF Read
<1>2. UNCHANGED <<now, start, st, since, latest, refused>>
  BY <1>1 DEF latencyVars
<1>3. Clocks' /\ Operations' /\ ThreadsOwn' /\ RequestsOwn'
  BY <1>1, <1>2 DEF IInv, LatencyInv, Clocks, Operations, Ops, States, ThreadsOwn, RequestsOwn
<1>4. EventInv'
  BY <1>1, EventQuiet DEF IInv
<1>5. program \in LatencyPrograms \/ program \in EventPrograms
  BY ProgramsAssumption DEF IInv, LatencyPrograms, EventPrograms
<1>6. CASE program \in EventPrograms
  <2>1. program' \notin LatencyPrograms /\ program' # "syscall_latency" /\ program' # "disk_io"
    BY <1>1, <1>6 DEF EventPrograms, LatencyPrograms
  <2>2. ring \in Seq(Event) /\ Len(ring) <= RingCap
    BY <1>6 DEF IInv, Records
  <2>3. ring' \in Seq(Event) /\ Len(ring') <= RingCap
    BY <1>1, <2>2, ConsumeFacts, RingCapAssumption
  <2> QED BY <1>1, <1>3, <1>4, <2>1, <2>3
          DEF IInv, LatencyInv, Records, FromLatestStart, NoTimeTwice, TimeIsItsOwn
<1>7. CASE program \in LatencyPrograms
  <2>1. program' \in LatencyPrograms /\ program' \notin EventPrograms
    BY <1>1, <1>7 DEF EventPrograms, LatencyPrograms
  <2>2. ring \in Seq(LatencyEvent) /\ Len(ring) <= RingCap
    BY <1>7 DEF IInv, Records
  <2>3. /\ ring' \in Seq(LatencyEvent) /\ Len(ring') = Len(ring) - 1 /\ Len(ring') \in Nat
        /\ \A i \in 1..Len(ring') : i + 1 \in 1..Len(ring) /\ ring'[i] = ring[i + 1]
    BY <1>1, <2>2, ConsumeFacts
  <2>4. Len(ring') <= RingCap
    BY <2>2, <2>3, RingCapAssumption
  <2>5. \A i \in 1..Len(ring') : ring'[i].to <= now'
    BY <1>2, <1>7, <2>3 DEF IInv, Records
  <2>6. Records'
    BY <2>1, <2>3, <2>4, <2>5 DEF Records
  <2>7. FromLatestStart'
    BY <1>2, <1>7, <2>3 DEF IInv, LatencyInv, FromLatestStart
  <2>8. NoTimeTwice'
    <3>1. ASSUME NEW i \in 1..Len(ring'), NEW j \in 1..Len(ring'), i < j, ring'[i].key = ring'[j].key
          PROVE  ring'[i].to <= ring'[j].from
      <4>1. i + 1 \in 1..Len(ring) /\ j + 1 \in 1..Len(ring) /\ i + 1 < j + 1
        BY <2>3, <3>1
      <4>2. ring'[i] = ring[i + 1] /\ ring'[j] = ring[j + 1]
        BY <2>3
      <4> QED BY <1>7, <3>1, <4>1, <4>2 DEF IInv, LatencyInv, NoTimeTwice
    <3>2. \A i \in 1..Len(ring') : ring'[i].key \in DOMAIN start' => ring'[i].to <= start'[ring'[i].key]
      BY <1>2, <1>7, <2>3 DEF IInv, LatencyInv, NoTimeTwice
    <3> QED BY <3>1, <3>2 DEF NoTimeTwice
  <2>9. TimeIsItsOwn'
    BY <1>1, <2>3 DEF IInv, LatencyInv, TimeIsItsOwn
  <2> QED BY <1>1, <1>3, <1>4, <2>6, <2>7, <2>8, <2>9 DEF IInv, LatencyInv
<1> QED BY <1>5, <1>6, <1>7

(* Every step of every program keeps the invariant.                        *)
LEMMA NextKeeps ==
  ASSUME IInv, [Next]_vars
  PROVE  IInv'
<1>1. CASE UNCHANGED vars
  <2>1. UNCHANGED <<program, ring, now, start, st, since, latest, refused>> /\ UNCHANGED eventVars
    BY <1>1 DEF vars, latencyVars
  <2>2. EventInv'
    BY <2>1, EventQuiet DEF IInv
  <2>3. Clocks' /\ Operations' /\ Records'
    BY <2>1 DEF IInv, LatencyInv, Clocks, Operations, Records, Ops, States
  <2>4. FromLatestStart' /\ NoTimeTwice' /\ ThreadsOwn' /\ RequestsOwn' /\ TimeIsItsOwn'
    BY <2>1 DEF IInv, LatencyInv, FromLatestStart, NoTimeTwice, ThreadsOwn, RequestsOwn, TimeIsItsOwn
  <2> QED BY <2>1, <2>2, <2>3, <2>4 DEF IInv, LatencyInv
<1> QED BY <1>1, LatencyHook, EventHook, ReadKeeps DEF Next

(* The strengthened invariant of the six programs: what TLC checks on      *)
(* small sets of operations and a small map and ring, for all of them.     *)
THEOREM Invariance == Spec => []IInv
<1>1. IInv /\ [Next]_vars => IInv'
  BY NextKeeps
<1> QED BY InitiallyInv, <1>1, PTL DEF Spec

(* The maps and the ring keep their bounds, and all values their types.    *)
THEOREM TypeCorrect == Spec => []TypeOK
<1>1. IInv => TypeOK
  BY DEF IInv, LatencyInv, Records, Clocks, Operations, EventInv, Undisturbed,
     TypeOK, LatencyTypeOK, EventTypeOK
<1> QED BY Invariance, <1>1, PTL

(* A reported time runs from the last opening hook of its key.             *)
THEOREM FromLatestStartHolds == Spec => []FromLatestStart
<1>1. IInv => FromLatestStart
  BY DEF IInv, LatencyInv
<1> QED BY Invariance, <1>1, PTL

(* The times reported for one key never overlap.                           *)
THEOREM NoTimeTwiceHolds == Spec => []NoTimeTwice
<1>1. IInv => NoTimeTwice
  BY DEF IInv, LatencyInv
<1> QED BY Invariance, <1>1, PTL

(* A syscall is reported with its own duration and a disk request with no  *)
(* more than its own, whatever other operations share the map and the key. *)
THEOREM TimeIsItsOwnHolds == Spec => []TimeIsItsOwn
<1>1. IInv => TimeIsItsOwn
  BY DEF IInv, LatencyInv
<1> QED BY Invariance, <1>1, PTL

(* What is under way is in the map unless the map was full when it began.  *)
THEOREM MissedOnlyWhenFullHolds == Spec => []MissedOnlyWhenFull
<1>1. IInv => MissedOnlyWhenFull
  BY OwnersAreFound DEF IInv, LatencyInv
<1> QED BY Invariance, <1>1, PTL

(* The CONNECT and CLOSE records tell which IPv4 sockets are connected.    *)
THEOREM StreamTellsConnectionsHolds == Spec => []StreamTellsConnections
<1>1. IInv => StreamTellsConnections
  BY DEF IInv, EventInv
<1> QED BY Invariance, <1>1, PTL

(* Opens less closes never exceed the descriptors a process has open.      *)
THEOREM DeltaNeverOverstatesHolds == Spec => []DeltaNeverOverstates
<1>1. IInv => DeltaNeverOverstates
  BY DEF IInv, EventInv
<1> QED BY Invariance, <1>1, PTL

(***************************************************************************)
(* The letter of a disk request.                                           *)
(***************************************************************************)
Letters == {"F", "R", "W", "D", "A", "S", "M"}

With(s, flag, letter) == s \o If(flag, letter)

(* A flag that is set adds its letter, and one that is not adds nothing.   *)
LEMMA FlagAppends ==
  ASSUME NEW s \in Seq(Letters), NEW flag \in BOOLEAN, NEW letter \in Letters
  PROVE  /\ With(s, flag, letter) \in Seq(Letters)
         /\ Len(s) \in Nat
         /\ Len(With(s, flag, letter)) = IF flag THEN Len(s) + 1 ELSE Len(s)
         /\ \A i \in 1..Len(s) : With(s, flag, letter)[i] = s[i]
         /\ flag => With(s, flag, letter)[Len(s) + 1] = letter
<1>1. CASE flag
  <2>1. If(flag, letter) = <<letter>>
    BY <1>1 DEF If
  <2> DEFINE o == <<letter>>
  <2>2. o \in Seq(Letters) /\ Len(o) = 1 /\ o[1] = letter
    OBVIOUS
  <2> HIDE DEF o
  <2>3. /\ s \o o \in Seq(Letters) /\ Len(s \o o) = Len(s) + Len(o)
        /\ \A i \in 1..(Len(s) + Len(o)) : (s \o o)[i] = IF i <= Len(s) THEN s[i] ELSE o[i - Len(s)]
    BY <2>2, ConcatProperties
  <2>4. PICK n \in Nat : n = Len(s)
    BY LenProperties
  <2>5. n + 1 \in 1..(Len(s) + Len(o)) /\ ~(n + 1 <= Len(s)) /\ (n + 1) - Len(s) = 1
    BY <2>2, <2>4
  <2>6. (s \o o)[n + 1] = letter
    BY <2>2, <2>3, <2>5
  <2>7. \A i \in 1..n : i \in 1..(Len(s) + Len(o)) /\ i <= Len(s)
    BY <2>2, <2>4
  <2>8. \A i \in 1..n : (s \o o)[i] = s[i]
    BY <2>3, <2>7
  <2>9. Len(s \o o) = n + 1
    BY <2>2, <2>3, <2>4
  <2> QED BY <1>1, <2>1, <2>3, <2>4, <2>6, <2>8, <2>9, Zenon DEF o, With
<1>2. CASE ~flag
  <2>1. If(flag, letter) = <<>>
    BY <1>2 DEF If
  <2>2. s \o <<>> = s /\ Len(s) \in Nat
    BY ConcatEmptySeq, LenProperties
  <2>3. s \o If(flag, letter) = s
    BY <2>1, <2>2, Zenon
  <2> QED BY <1>2, <2>2, <2>3, Zenon DEF With
<1> QED BY <1>1, <1>2

(* Whatever letters come before it, an S or the F of a forced request is   *)
(* one of the three that are looked at, and the F of a flush is not.       *)
LEMMA LetterIsReported ==
  ASSUME NEW kind \in RequestKind
  PROVE  (ReportedOp(blk_fill_rwbs(kind)) = "S") <=> (kind.sync \/ kind.fua)
<1> DEFINE s0 == <<>>
           s1 == With(s0, kind.preflush, "F")
           s2 == With(s1, TRUE, kind.op)
           s3 == With(s2, kind.fua, "F")
           s4 == With(s3, kind.ahead, "A")
           s5 == With(s4, kind.sync, "S")
           s6 == With(s5, kind.meta, "M")
<1>1. /\ kind.op \in {"R", "W", "D"} /\ kind.preflush \in BOOLEAN /\ kind.fua \in BOOLEAN
      /\ kind.ahead \in BOOLEAN /\ kind.sync \in BOOLEAN /\ kind.meta \in BOOLEAN
  BY DEF RequestKind
<1>2. /\ kind.op \in Letters /\ "F" \in Letters /\ "A" \in Letters /\ "S" \in Letters /\ "M" \in Letters
      /\ TRUE \in BOOLEAN
  BY <1>1 DEF Letters
<1>3. blk_fill_rwbs(kind) = s6
  <2>1. s1 = If(kind.preflush, "F")
    <3>1. If(kind.preflush, "F") \in Seq(Letters)
      BY <1>2 DEF If
    <3> QED BY <3>1, ConcatEmptySeq DEF With
  <2>2. If(TRUE, kind.op) = <<kind.op>>
    BY DEF If
  <2> HIDE DEF s1
  <2> QED BY <2>1, <2>2, Zenon DEF blk_fill_rwbs, With
<1>4. s0 \in Seq(Letters) /\ Len(s0) = 0
  OBVIOUS
<1> HIDE DEF s0
<1>5. /\ s1 \in Seq(Letters) /\ Len(s1) = (IF kind.preflush THEN Len(s0) + 1 ELSE Len(s0))
      /\ kind.preflush => s1[Len(s0) + 1] = "F"
  BY <1>1, <1>2, <1>4, FlagAppends
<1> HIDE DEF s1
<1>6. /\ s2 \in Seq(Letters) /\ Len(s2) = Len(s1) + 1 /\ Len(s1) \in Nat
      /\ \A i \in 1..Len(s1) : s2[i] = s1[i]
      /\ s2[Len(s1) + 1] = kind.op
  BY <1>1, <1>2, <1>5, FlagAppends
<1> HIDE DEF s2
<1>7. /\ s3 \in Seq(Letters) /\ Len(s3) = (IF kind.fua THEN Len(s2) + 1 ELSE Len(s2)) /\ Len(s2) \in Nat
      /\ \A i \in 1..Len(s2) : s3[i] = s2[i]
      /\ kind.fua => s3[Len(s2) + 1] = "F"
  <2>1. s2 \in Seq(Letters) /\ kind.fua \in BOOLEAN /\ "F" \in Letters
    BY <1>1, <1>2, <1>6
  <2> QED BY <2>1, FlagAppends
<1> HIDE DEF s3
<1>8. /\ s4 \in Seq(Letters) /\ Len(s4) = (IF kind.ahead THEN Len(s3) + 1 ELSE Len(s3)) /\ Len(s3) \in Nat
      /\ \A i \in 1..Len(s3) : s4[i] = s3[i]
      /\ kind.ahead => s4[Len(s3) + 1] = "A"
  <2>1. s3 \in Seq(Letters) /\ kind.ahead \in BOOLEAN /\ "A" \in Letters
    BY <1>1, <1>2, <1>7
  <2> QED BY <2>1, FlagAppends
<1> HIDE DEF s4
<1>9. /\ s5 \in Seq(Letters) /\ Len(s5) = (IF kind.sync THEN Len(s4) + 1 ELSE Len(s4)) /\ Len(s4) \in Nat
      /\ \A i \in 1..Len(s4) : s5[i] = s4[i]
      /\ kind.sync => s5[Len(s4) + 1] = "S"
  <2>1. s4 \in Seq(Letters) /\ kind.sync \in BOOLEAN /\ "S" \in Letters
    BY <1>1, <1>2, <1>8
  <2> QED BY <2>1, FlagAppends
<1> HIDE DEF s5
<1>10. /\ s6 \in Seq(Letters) /\ Len(s6) = (IF kind.meta THEN Len(s5) + 1 ELSE Len(s5)) /\ Len(s5) \in Nat
       /\ \A i \in 1..Len(s5) : s6[i] = s5[i]
       /\ kind.meta => s6[Len(s5) + 1] = "M"
  <2>1. s5 \in Seq(Letters) /\ kind.meta \in BOOLEAN /\ "M" \in Letters
    BY <1>1, <1>2, <1>9
  <2> QED BY <2>1, FlagAppends
<1> HIDE DEF s6
<1> DEFINE n1 == Len(s1)
           n2 == Len(s2)
           n3 == Len(s3)
           n4 == Len(s4)
           n5 == Len(s5)
           n6 == Len(s6)
<1>11. /\ n1 = (IF kind.preflush THEN 1 ELSE 0)
       /\ n2 = n1 + 1
       /\ n3 = (IF kind.fua THEN n2 + 1 ELSE n2)
       /\ n4 = (IF kind.ahead THEN n3 + 1 ELSE n3)
       /\ n5 = (IF kind.sync THEN n4 + 1 ELSE n4)
       /\ n6 = (IF kind.meta THEN n5 + 1 ELSE n5)
  <2>1. n1 = (IF kind.preflush THEN 1 ELSE 0)
    BY <1>4, <1>5
  <2>2. n2 = n1 + 1
    BY <1>6
  <2>3. n3 = (IF kind.fua THEN n2 + 1 ELSE n2)
    BY <1>7
  <2>4. n4 = (IF kind.ahead THEN n3 + 1 ELSE n3)
    BY <1>8
  <2>5. n5 = (IF kind.sync THEN n4 + 1 ELSE n4)
    BY <1>9
  <2>6. n6 = (IF kind.meta THEN n5 + 1 ELSE n5)
    BY <1>10
  <2> QED BY <2>1, <2>2, <2>3, <2>4, <2>5, <2>6
<1>12. /\ n1 \in Nat /\ n2 \in Nat /\ n3 \in Nat /\ n4 \in Nat /\ n5 \in Nat /\ n6 \in Nat
       /\ n2 <= n3 /\ n3 <= n4 /\ n4 <= n5 /\ n5 <= n6
  BY <1>1, <1>11
<1>13. /\ s6[n2] = kind.op
       /\ n1 = 1 => s6[1] = "F"
       /\ kind.fua => s6[n2 + 1] = "F"
       /\ kind.ahead => s6[n3 + 1] = "A"
       /\ kind.sync => s6[n4 + 1] = "S"
       /\ kind.meta => s6[n5 + 1] = "M"
  <2>1. \A i \in 1..n2 : i \in 1..n3 /\ i \in 1..n4 /\ i \in 1..n5 /\ s6[i] = s2[i]
    BY <1>7, <1>8, <1>9, <1>10, <1>12
  <2>2. \A i \in 1..n3 : i \in 1..n4 /\ i \in 1..n5 /\ s6[i] = s3[i]
    BY <1>8, <1>9, <1>10, <1>12
  <2>3. \A i \in 1..n4 : i \in 1..n5 /\ s6[i] = s4[i]
    BY <1>9, <1>10, <1>12
  <2>4. s6[n2] = kind.op
    <3>1. n2 \in 1..n2
      BY <1>11, <1>12
    <3>2. s2[n2] = kind.op
      BY <1>6
    <3> QED BY <2>1, <3>1, <3>2
  <2>5. n1 = 1 => s6[1] = "F"
    <3> SUFFICES ASSUME n1 = 1 PROVE s6[1] = "F"
      OBVIOUS
    <3> HIDE DEF n1, n2, n3, n4, n5, n6
    <3>1. kind.preflush /\ n2 = 2
      <4>1. kind.preflush
        BY <1>1, <1>11
      <4>2. n2 = 2
        BY <1>11
      <4> QED BY <4>1, <4>2
    <3>2. 1 \in 1..n1 /\ 1 \in 1..n2 /\ Len(s0) + 1 = 1
      BY <1>4, <3>1
    <3>3. s1[1] = "F" /\ s2[1] = s1[1]
      BY <1>5, <1>6, <3>1, <3>2 DEF n1
    <3> QED BY <2>1, <3>2, <3>3
  <2>6. kind.fua => s6[n2 + 1] = "F"
    <3> SUFFICES ASSUME kind.fua PROVE s6[n2 + 1] = "F"
      OBVIOUS
    <3>1. n2 + 1 \in 1..n3
      BY <1>11, <1>12
    <3> QED BY <1>7, <2>2, <3>1
  <2>7. kind.ahead => s6[n3 + 1] = "A"
    <3> SUFFICES ASSUME kind.ahead PROVE s6[n3 + 1] = "A"
      OBVIOUS
    <3>1. n3 + 1 \in 1..n4
      BY <1>11, <1>12
    <3> QED BY <1>8, <2>3, <3>1
  <2>8. kind.sync => s6[n4 + 1] = "S"
    <3> SUFFICES ASSUME kind.sync PROVE s6[n4 + 1] = "S"
      OBVIOUS
    <3>1. n4 + 1 \in 1..n5
      BY <1>11, <1>12
    <3> QED BY <1>9, <1>10, <3>1
  <2>9. kind.meta => s6[n5 + 1] = "M"
    BY <1>10
  <2> QED BY <2>4, <2>5, <2>6, <2>7, <2>8, <2>9
<1> HIDE DEF n1, n2, n3, n4, n5, n6
<1>14. ReportedOp(s6) = IF \E i \in 2..4 : i <= n6 /\ s6[i] \in {"S", "F"} THEN "S" ELSE s6[1]
  BY DEF ReportedOp, n6
<1>15. ASSUME kind.fua PROVE \E i \in 2..4 : i <= n6 /\ s6[i] \in {"S", "F"}
  <2>1. n2 + 1 \in 2..4 /\ n2 + 1 <= n6
    BY <1>11, <1>12, <1>15
  <2> QED BY <1>13, <1>15, <2>1
<1>16. ASSUME kind.sync, ~kind.fua PROVE \E i \in 2..4 : i <= n6 /\ s6[i] \in {"S", "F"}
  <2>1. n4 + 1 \in 2..4 /\ n4 + 1 <= n6
    BY <1>11, <1>12, <1>16
  <2> QED BY <1>13, <1>16, <2>1
<1>17. ASSUME ~kind.sync, ~kind.fua, NEW i \in 2..4, i <= n6 PROVE s6[i] \notin {"S", "F"}
  <2>1. \/ i = n2
        \/ kind.ahead /\ i = n3 + 1
        \/ kind.meta /\ i = n5 + 1
    BY <1>1, <1>11, <1>12, <1>17
  <2>2. s6[i] \in {kind.op, "A", "M"}
    BY <1>13, <2>1
  <2> QED BY <1>1, <2>2
<1>18. s6[1] # "S"
  <2>1. CASE n1 = 1
    BY <1>13, <2>1
  <2>2. CASE n1 # 1
    <3>1. n2 = 1
      BY <1>11, <2>2
    <3> QED BY <1>1, <1>13, <3>1
  <2> QED BY <2>1, <2>2
<1>19. (ReportedOp(s6) = "S") <=> (kind.sync \/ kind.fua)
  <2>1. CASE kind.sync \/ kind.fua
    BY <1>14, <1>15, <1>16, <2>1
  <2>2. CASE ~kind.sync /\ ~kind.fua
    BY <1>14, <1>17, <1>18, <2>2
  <2> QED BY <2>1, <2>2
<1> QED BY <1>3, <1>19

(* disk_io reports S for the synchronous and forced requests, all of them  *)
(* and no others, whatever other flags the kernel prints before theirs.    *)
THEOREM SyncIsPromotedHolds == Spec => []SyncIsPromoted
<1>1. Init => SyncIsPromoted
  BY LetterIsReported DEF SyncIsPromoted
<1>2. SyncIsPromoted /\ [Next]_vars => SyncIsPromoted'
  BY LetterIsReported DEF SyncIsPromoted
<1> QED BY <1>1, <1>2, PTL DEF Spec
=============================================================================
