------------------------------- MODULE BpfRuntime -------------------------------
(***************************************************************************)
(* What headers/kerno.h and the BPF helpers give each of the six programs: *)
(* a hash map of bounded size and a ring buffer that is written from the   *)
(* hooks and read by the loader in user space.                             *)
(*                                                                         *)
(* The programs share no map and no buffer, so a behaviour has one of them *)
(* attached, and every module of the programs acts on these variables.  A  *)
(* hook runs to its end undisturbed: it is one step.                       *)
(***************************************************************************)
EXTENDS Naturals, FiniteSets, Sequences

CONSTANTS
    Programs,     \* the programs to choose from
    MaxEntries,   \* MAX_ENTRIES: pairs a hash map holds
    RingCap       \* RINGBUF_SIZE, in records

ASSUME ProgramsAssumption   == Programs \subseteq
    {"syscall_latency", "disk_io", "sched_delay", "tcp_monitor", "fd_track", "oom_track"}
ASSUME MaxEntriesAssumption == MaxEntries \in Nat \ {0}
ASSUME RingCapAssumption    == RingCap \in Nat \ {0}

VARIABLES
    program,      \* the program that is attached; never changes
    ring          \* submitted records that user space has not read

(***************************************************************************)
(* BPF_MAP_TYPE_HASH.  An update with BPF_ANY replaces the value of a key  *)
(* that is present, adds a pair while there is room and fails otherwise;   *)
(* no program looks at its result.                                         *)
(***************************************************************************)
Fits(map, key) == key \in DOMAIN map \/ Cardinality(DOMAIN map) < MaxEntries

\* Mutant of Updated: a map type without a bound.
UpdatedAlways(map, key, value) ==
    [k \in DOMAIN map \cup {key} |-> IF k = key THEN value ELSE map[k]]

\* Mutant of Updated: BPF_NOEXIST for BPF_ANY.
UpdatedIfNew(map, key, value) ==
    IF Fits(map, key) /\ key \notin DOMAIN map
    THEN [k \in DOMAIN map \cup {key} |-> IF k = key THEN value ELSE map[k]]
    ELSE map

Updated(map, key, value) ==
    IF Fits(map, key)
    THEN [k \in DOMAIN map \cup {key} |-> IF k = key THEN value ELSE map[k]]
    ELSE map

\* Mutant of Deleted: the pair stays after it was used.
NotDeleted(map, key) == map

Deleted(map, key) == [k \in DOMAIN map \ {key} |-> map[k]]

(***************************************************************************)
(* BPF_MAP_TYPE_RINGBUF.  bpf_ringbuf_reserve finds no room in a full      *)
(* buffer, and then the event is given up.                                 *)
(***************************************************************************)
Submit(e) == ring' = IF Len(ring) < RingCap THEN Append(ring, e) ELSE ring

\* User space reads the oldest record and frees its room.
Consume == ring # <<>> /\ ring' = Tail(ring)

=============================================================================
