----------------------------- MODULE LatencyTracers -----------------------------
(***************************************************************************)
(* syscall_latency.c, disk_io.c and sched_delay.c: one hook puts the time  *)
(* into a hash map under a key, another takes it out and reports the       *)
(* difference.  What differs is the key, what is filtered, and above all   *)
(* the kernel that fires the hooks, which is modelled here as far as it    *)
(* decides which hook may follow which:                                    *)
(*   syscall_latency  operations are threads, keyed by pid_tgid.  A thread *)
(*                    that dies inside exit() fires no sys_exit, and the   *)
(*                    first hook of a forked one is the sys_exit of its    *)
(*                    parent's clone().                                    *)
(*   disk_io          operations are requests, keyed by sector alone, so   *)
(*                    requests of two devices may share a key.  A request  *)
(*                    may be requeued and issued again.                    *)
(*   sched_delay      operations are tasks, keyed by pid.  A task that is  *)
(*                    about to sleep ("dozing") can be woken before it has *)
(*                    left the CPU, and a preempted one is queued without  *)
(*                    any hook that names it.                              *)
(***************************************************************************)
EXTENDS BpfRuntime

CONSTANTS
    Threads,    \* operations of syscall_latency; ids of dead ones are used again
    Requests,   \* operations of disk_io
    Sector,     \* the sector of each request
    Tasks,      \* operations of sched_delay; ids of dead ones are used again
    Cpus,       \* CPUs of the machine
    Noise,      \* 1000 ns in ticks: shorter times are not reported
    MaxTime     \* bound of the model: ticks considered

ASSUME OpsAssumption     == IsFiniteSet(Threads) /\ IsFiniteSet(Requests) /\ IsFiniteSet(Tasks)
ASSUME SectorAssumption  == Sector \in [Requests -> Nat]
ASSUME CpusAssumption    == Cpus \in Nat \ {0}
ASSUME NoiseAssumption   == Noise \in Nat \ {0}
ASSUME MaxTimeAssumption == MaxTime \in Nat

VARIABLES
    now,        \* bpf_ktime_get_ns(), from 1
    start,      \* the hash map: syscall_start, io_start or wakeup_ts
    st,         \* what the kernel is doing with each operation
    since,      \* history: when that began, 0 if before the program was attached
    latest,     \* history: when the opening hook last fired for a key, 0 after a closing one
    refused     \* history: keys whose last hook was an opening one that found the map full

latencyVars == <<now, start, st, since, latest, refused>>

LatencyPrograms == {"syscall_latency", "disk_io", "sched_delay"}
OnCpu == {"running", "dozing"}

Ops(p) ==
    CASE p = "syscall_latency" -> Threads
      [] p = "disk_io"         -> Requests
      [] p = "sched_delay"     -> Tasks
      [] OTHER                 -> {}

States(p) ==
    CASE p = "syscall_latency" -> {"user", "syscall", "dead"}
      [] p = "disk_io"         -> {"idle", "issued"}
      [] p = "sched_delay"     -> {"asleep", "queued", "queued dozing", "dead"} \cup OnCpu
      [] OTHER                 -> {"none"}

\* Mutant of Key: the process id alone, which all threads of a process share.
KeyOfProcess(o) == IF program = "disk_io" THEN Sector[o] ELSE CHOOSE p \in Threads : TRUE

Key(o) == IF program = "disk_io" THEN Sector[o] ELSE o

Keys  == Threads \cup Tasks \cup {Sector[r] : r \in Requests}
Times == 0..MaxTime + 1

\* A record of the ring: latency_ns is to - from.  began and last are history:
\* when the operation began and when the opening hook last fired for its key.
LatencyEvent == [key : Keys, from : Times, to : Times, began : Times, last : Times]

LatencyTypeOK ==
    /\ now \in 1..MaxTime + 1
    /\ DOMAIN start \subseteq Keys /\ \A k \in DOMAIN start : start[k] \in Times
    /\ Cardinality(DOMAIN start) <= MaxEntries
    /\ st \in [Ops(program) -> States(program)]
    /\ since \in [Ops(program) -> Times] /\ latest \in [Keys -> Times]
    /\ refused \subseteq Keys
    /\ program \in LatencyPrograms => ring \in Seq(LatencyEvent) /\ Len(ring) <= RingCap

LatencyInit ==
    /\ now = 1 /\ start = <<>> /\ refused = {}
    /\ st \in [Ops(program) -> States(program) \ {"dead"}]
    /\ Cardinality({o \in Ops(program) : st[o] \in OnCpu}) <= Cpus
    /\ since = [o \in Ops(program) |-> 0] /\ latest = [k \in Keys |-> 0]

(***************************************************************************)
(* What the hooks do.                                                      *)
(***************************************************************************)
Stamp(k) ==
    /\ start' = Updated(start, k, now)
    /\ latest' = [latest EXCEPT ![k] = now]
    /\ refused' = IF Fits(start, k) THEN refused \ {k} ELSE refused \cup {k}

NoStamp == UNCHANGED <<start, latest, refused>>

Latency(k) == now - start[k]

\* Mutant of Measure: the filter returns before the pair is deleted.
MeasureBeforeDelete(o, reported) ==
    LET k == Key(o) IN
    IF k \in DOMAIN start /\ reported
    THEN /\ Submit([key |-> k, from |-> start[k], to |-> now,
                    began |-> since[o], last |-> latest[k]])
         /\ start' = Deleted(start, k)
         /\ latest' = [latest EXCEPT ![k] = 0] /\ refused' = refused \ {k}
    ELSE UNCHANGED <<ring, start, latest, refused>>

\* Lookup, delete, and a record if the time found is worth one.
Measure(o, reported) ==
    LET k == Key(o) IN
    /\ start' = Deleted(start, k)
    /\ IF k \in DOMAIN start /\ reported
       THEN Submit([key |-> k, from |-> start[k], to |-> now,
                    began |-> since[o], last |-> latest[k]])
       ELSE UNCHANGED ring
    /\ latest' = [latest EXCEPT ![k] = 0] /\ refused' = refused \ {k}

tracepoint_sys_enter(t) == Stamp(Key(t)) /\ UNCHANGED ring

tracepoint_sys_exit(t) == Measure(t, Latency(Key(t)) >= Noise)

tracepoint_block_rq_issue(r) ==
    /\ IF Sector[r] = 0 THEN NoStamp ELSE Stamp(Key(r))
    /\ UNCHANGED ring

tracepoint_block_rq_complete(r) == Measure(r, TRUE)

tracepoint_sched_wakeup(t) == Stamp(Key(t)) /\ UNCHANGED ring

tracepoint_sched_switch(next) == Measure(next, Latency(Key(next)) >= Noise)

(***************************************************************************)
(* The kernel.  Becomes(o, s, t) moves an operation on; t is the time at   *)
(* which what it does now began.                                           *)
(***************************************************************************)
Becomes(o, s, t) ==
    /\ st' = [st EXCEPT ![o] = s] /\ since' = [since EXCEPT ![o] = t]
    /\ UNCHANGED <<program, now>>

EnterSyscall(t) ==
    /\ program = "syscall_latency" /\ st[t] = "user"
    /\ Becomes(t, "syscall", now) /\ tracepoint_sys_enter(t)

ReturnFromSyscall(t) ==
    /\ program = "syscall_latency" /\ st[t] = "syscall"
    /\ Becomes(t, "user", 0) /\ tracepoint_sys_exit(t)

\* exit() and exit_group() do not return, and fire no hook at their end.
ExitThread(t) ==
    /\ program = "syscall_latency" /\ st[t] = "syscall"
    /\ Becomes(t, "dead", 0) /\ NoStamp /\ UNCHANGED ring

\* The id is given to a new thread, which begins by leaving the clone().
ForkThread(t) ==
    /\ program = "syscall_latency" /\ st[t] = "dead"
    /\ Becomes(t, "user", 0) /\ tracepoint_sys_exit(t)

IssueRequest(r) ==
    /\ program = "disk_io" /\ st[r] = "idle"
    /\ Becomes(r, "issued", now) /\ tracepoint_block_rq_issue(r)

\* A requeued request fires no hook the program listens to, and may be cancelled.
RequeueRequest(r) ==
    /\ program = "disk_io" /\ st[r] = "issued"
    /\ Becomes(r, "idle", 0) /\ NoStamp /\ UNCHANGED ring

CompleteRequest(r) ==
    /\ program = "disk_io" /\ st[r] = "issued"
    /\ Becomes(r, "idle", 0) /\ tracepoint_block_rq_complete(r)

WakeTask(t) ==
    /\ program = "sched_delay" /\ st[t] = "asleep"
    /\ Becomes(t, "queued", now) /\ tracepoint_sched_wakeup(t)

\* A wakeup that comes before the task has gone to sleep fires the same hook.
WakeDozing(t) ==
    /\ program = "sched_delay" /\ st[t] \in {"dozing", "queued dozing"}
    /\ Becomes(t, IF st[t] = "dozing" THEN "running" ELSE "queued", since[t])
    /\ tracepoint_sched_wakeup(t)

\* The task has announced that it will sleep, and not yet given the CPU up.
PrepareToSleep(t) ==
    /\ program = "sched_delay" /\ st[t] = "running"
    /\ Becomes(t, "dozing", 0) /\ NoStamp /\ UNCHANGED ring

\* The hook of this switch looks at the next task only.
SwitchOut(t) ==
    /\ program = "sched_delay"
    /\ \/ st[t] = "running" /\ Becomes(t, "queued", now)
       \/ st[t] = "running" /\ Becomes(t, "dead", 0)
       \/ st[t] = "dozing"  /\ Becomes(t, "queued dozing", now)
       \/ st[t] = "dozing"  /\ Becomes(t, "asleep", 0)
    /\ NoStamp /\ UNCHANGED ring

SwitchIn(t) ==
    /\ program = "sched_delay" /\ st[t] \in {"queued", "queued dozing"}
    /\ Cardinality({o \in Ops(program) : st[o] \in OnCpu}) < Cpus
    /\ Becomes(t, IF st[t] = "queued" THEN "running" ELSE "dozing", 0)
    /\ tracepoint_sched_switch(t)

\* A new task is queued by sched_wakeup_new, which has no hook.
ForkTask(t) ==
    /\ program = "sched_delay" /\ st[t] = "dead"
    /\ Becomes(t, "queued", now) /\ NoStamp /\ UNCHANGED ring

Tick ==
    /\ program \in LatencyPrograms /\ now <= MaxTime
    /\ now' = now + 1
    /\ UNCHANGED <<program, ring, start, st, since, latest, refused>>

LatencyNext ==
    \/ \E t \in Threads : \/ EnterSyscall(t) \/ ReturnFromSyscall(t)
                         \/ ExitThread(t) \/ ForkThread(t)
    \/ \E r \in Requests : IssueRequest(r) \/ RequeueRequest(r) \/ CompleteRequest(r)
    \/ \E t \in Tasks : \/ WakeTask(t) \/ WakeDozing(t) \/ PrepareToSleep(t)
                       \/ SwitchOut(t) \/ SwitchIn(t) \/ ForkTask(t)
    \/ Tick

(***************************************************************************)
(* disk_io.c reports one letter for the kind of a request, taken from the  *)
(* string that blk_fill_rwbs of the kernel writes into the tracepoint.     *)
(***************************************************************************)
RequestKind == [op : {"R", "W", "D"}, preflush : BOOLEAN, fua : BOOLEAN,
                ahead : BOOLEAN, sync : BOOLEAN, meta : BOOLEAN]

If(flag, letter) == IF flag THEN <<letter>> ELSE <<>>

blk_fill_rwbs(kind) ==
    If(kind.preflush, "F") \o <<kind.op>> \o If(kind.fua, "F") \o If(kind.ahead, "A")
        \o If(kind.sync, "S") \o If(kind.meta, "M")

\* Mutant of ReportedOp: only rwbs[1] and rwbs[2] are looked at.
ReportedOpTwo(rwbs) ==
    IF \E i \in 2..3 : i <= Len(rwbs) /\ rwbs[i] \in {"S", "F"} THEN "S" ELSE rwbs[1]

\* rwbs[1], rwbs[2] and rwbs[3] of the code, which counts from 0.
ReportedOp(rwbs) ==
    IF \E i \in 2..4 : i <= Len(rwbs) /\ rwbs[i] \in {"S", "F"} THEN "S" ELSE rwbs[1]

-----------------------------------------------------------------------------
(***************************************************************************)
(* Properties.                                                             *)
(***************************************************************************)
\* A reported time runs from the last time the opening hook fired for its key:
\* neither a full map nor an id in its second life leaves an older stamp in the
\* place of a newer one.
FromLatestStart ==
    program \in LatencyPrograms =>
        /\ \A i \in 1..Len(ring) : ring[i].from = ring[i].last
        /\ \A k \in DOMAIN start : start[k] = latest[k]

\* A stamp is used once: the times reported for one key never overlap, so that
\* they can be added up, and what is in the map is younger than all of them.
NoTimeTwice ==
    program \in LatencyPrograms =>
        /\ \A i, j \in 1..Len(ring) :
              i < j /\ ring[i].key = ring[j].key => ring[i].to <= ring[j].from
        /\ \A i \in 1..Len(ring) :
              ring[i].key \in DOMAIN start => ring[i].to <= start[ring[i].key]

\* Whose time it is.  A syscall that began under tracing is reported with its own
\* duration.  A disk request may have its stamp replaced by one of another device,
\* or of its own second issue: it is never reported longer than it took.
TimeIsItsOwn ==
    \A i \in 1..Len(ring) :
        /\ program = "syscall_latency" /\ ring[i].began # 0 => ring[i].from = ring[i].began
        /\ program = "disk_io" => ring[i].from >= ring[i].began

\* A syscall under way, or a disk request that shares its sector with no other,
\* is in the map unless the map was full when it began; a thread in user space is
\* not.  So only threads that died in a syscall, and requests that were never
\* completed, use up the map without being seen again.
MissedOnlyWhenFull ==
    \A o \in Ops(program) :
        /\ program = "syscall_latency" /\ st[o] = "user" => o \notin DOMAIN start
        /\ program = "syscall_latency" /\ st[o] = "syscall" /\ since[o] # 0 =>
              o \in DOMAIN start \cup refused
        /\ program = "disk_io" /\ st[o] = "issued" /\ since[o] # 0 /\ Sector[o] # 0
              /\ (\A p \in Requests \ {o} : Sector[p] # Sector[o]) =>
              Sector[o] \in DOMAIN start \cup refused

\* sched_delay.c:12: what is reported is the time a task waited in the run queue.
\* A task woken before it slept keeps a stamp while it runs, and reports it the
\* next time it is switched in.
MeasuresQueueTime ==
    program = "sched_delay" =>
        \A i \in 1..Len(ring) : ring[i].began # 0 => ring[i].from = ring[i].began

\* disk_io.c:58: the letter S stands for the synchronous and forced requests, all
\* of them and no others, whatever other flags the kernel prints before theirs.
SyncIsPromoted ==
    program = "disk_io" => \A kind \in RequestKind :
        (ReportedOp(blk_fill_rwbs(kind)) = "S") <=> (kind.sync \/ kind.fua)

=============================================================================
