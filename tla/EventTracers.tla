------------------------------ MODULE EventTracers ------------------------------
(***************************************************************************)
(* tcp_monitor.c, fd_track.c and oom_track.c: each hook filters what the   *)
(* kernel tells it and submits one record, nothing is kept between two     *)
(* hooks.  What user space can know from the records therefore depends on  *)
(* which of the kernel's steps fire a hook at all; the kernel below has    *)
(* steps of both sorts.                                                    *)
(***************************************************************************)
EXTENDS BpfRuntime, Integers

CONSTANTS
    Sockets,     \* TCP sockets
    IPv4,        \* those whose family is AF_INET
    Procs,       \* processes
    MaxFds       \* bound of the model: descriptors of a process

ASSUME IPv4Assumption   == IPv4 \subseteq Sockets
ASSUME MaxFdsAssumption == MaxFds \in Nat

VARIABLES
    sk,          \* state of each socket
    fds,         \* open descriptors of each process
    said,        \* history: the last CONNECT or CLOSE submitted for a socket
    delta,       \* history: OPENs less CLOSEs submitted for a process
    blurred      \* history: sockets and processes some change of which was not seen

eventVars == <<sk, fds, said, delta, blurred>>

EventPrograms == {"tcp_monitor", "fd_track", "oom_track"}

SocketStates == {"closed", "opening", "established", "closing"}
Connected    == {"established", "closing"}

\* TCP_EVENT_*, FD_OP_* and the one type of oom_track; who the record is about.
Event == [who : Sockets \cup Procs,
          type : {"CONNECT", "CLOSE", "RETRANSMIT", "FD_OPEN", "FD_CLOSE", "KILL"}]

EventTypeOK ==
    /\ sk \in [Sockets -> SocketStates] /\ fds \in [Procs -> 0..MaxFds]
    /\ said \in [Sockets -> {"none", "CONNECT", "CLOSE"}]
    /\ delta \in [Procs -> (0 - MaxFds)..MaxFds]
    /\ blurred \subseteq Sockets \cup Procs
    /\ program \in EventPrograms => ring \in Seq(Event) /\ Len(ring) <= RingCap

EventInit ==
    /\ IF program = "tcp_monitor" THEN sk \in [Sockets -> SocketStates]
       ELSE sk = [s \in Sockets |-> "closed"]
    /\ IF program = "fd_track" THEN fds \in [Procs -> 0..MaxFds]
       ELSE fds = [p \in Procs |-> 0]
    /\ said = [s \in Sockets |-> "none"] /\ delta = [p \in Procs |-> 0]
    /\ blurred = {s \in Sockets : sk[s] \in Connected}

Full == Len(ring) >= RingCap

Unseen(who) == blurred' = IF Full THEN blurred \cup {who} ELSE blurred

Silent == UNCHANGED <<ring, said, delta, blurred>>

(***************************************************************************)
(* tcp_monitor.c                                                           *)
(***************************************************************************)
tracepoint_tcp_retransmit(s) ==
    /\ IF s \in IPv4 THEN Submit([who |-> s, type |-> "RETRANSMIT"]) ELSE UNCHANGED ring
    /\ UNCHANGED <<said, delta, blurred>>

Lifecycle(s, type) ==
    /\ Submit([who |-> s, type |-> type])
    /\ said' = IF Full THEN said ELSE [said EXCEPT ![s] = type]
    /\ blurred' = IF Full THEN blurred \cup {s} ELSE blurred \ {s}
    /\ UNCHANGED delta

\* Mutant of tracepoint_inet_sock_set_state: the active side's first state, and
\* not the last, is taken for the end.
inet_sock_set_state_early(s, newstate) ==
    CASE s \in IPv4 /\ newstate = "established" -> Lifecycle(s, "CONNECT")
      [] s \in IPv4 /\ newstate = "closing"     -> Lifecycle(s, "CLOSE")
      [] OTHER                                  -> Silent

tracepoint_inet_sock_set_state(s, newstate) ==
    CASE s \in IPv4 /\ newstate = "established" -> Lifecycle(s, "CONNECT")
      [] s \in IPv4 /\ newstate = "closed"      -> Lifecycle(s, "CLOSE")
      [] OTHER                                  -> Silent

SetState(s) ==
    \E newstate \in SocketStates :
        /\ program = "tcp_monitor"
        /\ <<sk[s], newstate>> \in
               {<<"closed", "opening">>, <<"opening", "established">>, <<"opening", "closed">>,
                <<"established", "closing">>, <<"established", "closed">>, <<"closing", "closed">>}
        /\ sk' = [sk EXCEPT ![s] = newstate] /\ tracepoint_inet_sock_set_state(s, newstate)
        /\ UNCHANGED <<program, fds>>

Retransmit(s) ==
    /\ program = "tcp_monitor" /\ sk[s] # "closed"
    /\ tracepoint_tcp_retransmit(s)
    /\ UNCHANGED <<program, sk, fds>>

(***************************************************************************)
(* fd_track.c: ret is what openat or close returned.                       *)
(***************************************************************************)
Descriptor(p, type, change) ==
    /\ Submit([who |-> p, type |-> type]) /\ Unseen(p)
    /\ delta' = IF Full THEN delta ELSE [delta EXCEPT ![p] = @ + change]
    /\ UNCHANGED said

\* Mutant of tracepoint_sys_exit_openat: the test for a failed open is missing.
sys_exit_openat_any(p, ret) == Descriptor(p, "FD_OPEN", 1)

tracepoint_sys_exit_openat(p, ret) ==
    IF ret < 0 THEN Silent ELSE Descriptor(p, "FD_OPEN", 1)

tracepoint_sys_exit_close(p, ret) ==
    IF ret # 0 THEN Silent ELSE Descriptor(p, "FD_CLOSE", -1)

Openat(p) ==
    /\ program = "fd_track" /\ delta[p] < MaxFds
    /\ \/ /\ fds[p] < MaxFds
          /\ fds' = [fds EXCEPT ![p] = @ + 1] /\ tracepoint_sys_exit_openat(p, fds[p])
       \/ UNCHANGED fds /\ tracepoint_sys_exit_openat(p, -1)
    /\ UNCHANGED <<program, sk>>

\* socket, accept, pipe, dup: no hook.
OpenOtherwise(p) ==
    /\ program = "fd_track" /\ fds[p] < MaxFds
    /\ fds' = [fds EXCEPT ![p] = @ + 1] /\ Silent
    /\ UNCHANGED <<program, sk>>

Close(p) ==
    /\ program = "fd_track" /\ delta[p] > 0 - MaxFds
    /\ \/ fds[p] > 0 /\ fds' = [fds EXCEPT ![p] = @ - 1] /\ tracepoint_sys_exit_close(p, 0)
       \/ UNCHANGED fds /\ tracepoint_sys_exit_close(p, -1)
    /\ UNCHANGED <<program, sk>>

\* dup2 over an open descriptor, close-on-exec, close_range and exit: no hook.
CloseOtherwise(p) ==
    /\ program = "fd_track" /\ fds[p] > 0
    /\ fds' = [fds EXCEPT ![p] = @ - 1] /\ blurred' = blurred \cup {p}
    /\ UNCHANGED <<program, sk, ring, said, delta>>

(***************************************************************************)
(* oom_track.c: a call of oom_kill_process, one victim each.               *)
(***************************************************************************)
kprobe_oom_kill(victim) == Submit([who |-> victim, type |-> "KILL"])

OomKill(victim) ==
    /\ program = "oom_track"
    /\ kprobe_oom_kill(victim)
    /\ UNCHANGED <<program, eventVars>>

EventNext ==
    \/ \E s \in Sockets : SetState(s) \/ Retransmit(s)
    \/ \E p \in Procs : \/ Openat(p) \/ OpenOtherwise(p) \/ Close(p) \/ CloseOtherwise(p)
                        \/ OomKill(p)

-----------------------------------------------------------------------------
(***************************************************************************)
(* Properties.                                                             *)
(***************************************************************************)
\* The CONNECT and CLOSE records tell exactly which IPv4 sockets are connected:
\* all others, for a socket that was connected before the program was attached or
\* whose last record found the ring full.  A failed connect (CLOSE with no CONNECT)
\* and the states in between do not mislead.
StreamTellsConnections ==
    \A s \in IPv4 \ blurred : sk[s] \in Connected <=> said[s] = "CONNECT"

\* fd_track.c:12 looks for leaks in opens less closes.  That number is never more
\* than the descriptors a process has open, so that no leak is seen where there is
\* none, unless a record was lost or a descriptor went away without close(2).
DeltaNeverOverstates ==
    \A p \in Procs \ blurred : delta[p] <= fds[p]

=============================================================================
