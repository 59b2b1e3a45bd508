------------------------------ MODULE DoctorSession ------------------------------
(***************************************************************************)
(* One process of "kerno doctor": buildCollectors, StartAll, the cycles of *)
(* runDiagnosticCycle, and the deferred StopAll and closers, with the      *)
(* collectors counting in the background all the while.                    *)
(*                                                                         *)
(* EventPipeline is the inside of one collector and its loader and         *)
(* KeyedCollector its aggregates; here a collector is what the session     *)
(* sees: a counter that only grows, and for "oom" the bounded log of kills *)
(* (a kill is its number).                                                 *)
(***************************************************************************)
EXTENDS Naturals, Sequences, FiniteSets

CONSTANTS
    Collectors,     \* the enabled programs; "oom" keeps a log, the others count
    Options,        \* the flags to consider, a set of records
    MaxOOMEvents,   \* capacity of the kill log (256 in the code)
    MaxHistory,     \* snapshots the engine keeps (10 in the code)
    MaxEvents,      \* bound of the model: [Collectors -> Nat], events of each
    MaxCycles       \* bound of the model: diagnostic cycles

Flags == [continuous : BOOLEAN, exitCode : BOOLEAN, quiet : BOOLEAN,
          json : BOOLEAN, onlyCritical : BOOLEAN]

ASSUME OptionsAssumption   == Options \subseteq Flags
ASSUME LogAssumption       == MaxOOMEvents \in Nat \ {0}
ASSUME HistoryAssumption   == MaxHistory \in Nat \ {0}
ASSUME MaxEventsAssumption == MaxEvents \in [Collectors -> Nat]
ASSUME MaxCyclesAssumption == MaxCycles \in Nat \ {0}

VARIABLES
    opts,       \* the flags of this run
    main,       \* control of runDoctor
    todo,       \* collectors the loop main is in has not reached yet
    loaded,     \* registered collectors, whose loader has a closer
    failed,     \* LoadFailures
    alive,      \* collectors whose consumer is running
    late,       \* collectors Stop has given up waiting for
    closed,     \* loaders closed
    count,      \* [Collectors -> Nat]: events recorded so far
    oomLog,     \* the kills OOMCollector holds, oldest first
    signals,    \* the snapshots gathered: [count, kills]
    findings,   \* severities found by the rules, after the filter
    history,    \* engine.history: cycle numbers, oldest first
    cycle,      \* cycles begun
    shown,      \* what this cycle printed: "nothing", "report", "clear"
    exit,       \* "running", "ok", "critical", "error", "killed"
    atEnd,      \* history: count when the window of this cycle ended
    before      \* history: the kills of the previous report

vars == <<opts, main, todo, loaded, failed, alive, late, closed, count, oomLog, signals,
          findings, history, cycle, shown, exit, atEnd, before>>

build    == <<loaded, failed>>
running  == <<alive, late>>
observed == <<count, oomLog>>
report   == <<signals, findings, shown, atEnd, before>>

NoSignals  == [count |-> [c \in Collectors |-> 0], kills |-> <<>>]
Severities == {"info", "warning", "critical"}

TypeOK ==
    /\ opts \in Options
    /\ main \in {"load", "start", "collect", "snapshot", "diagnose", "render", "check",
                 "wait", "stop", "close", "down"}
    /\ todo \subseteq Collectors
    /\ loaded \subseteq Collectors /\ failed \subseteq Collectors
    /\ alive \subseteq loaded /\ late \subseteq loaded /\ closed \subseteq loaded
    /\ count \in [Collectors -> Nat] /\ \A c \in Collectors : count[c] <= MaxEvents[c]
    /\ oomLog \in Seq(Nat) /\ Len(oomLog) <= MaxOOMEvents
    /\ signals \in [count : [Collectors -> Nat], kills : Seq(Nat)]
    /\ findings \subseteq Severities
    /\ history \in Seq(1..MaxCycles) /\ Len(history) <= MaxHistory
    /\ cycle \in 0..MaxCycles
    /\ shown \in {"nothing", "report", "clear"}
    /\ exit \in {"running", "ok", "critical", "error", "killed"}
    /\ atEnd \in [Collectors -> Nat]
    /\ before \subseteq Nat

Init ==
    /\ opts \in Options
    /\ main = "load" /\ todo = Collectors
    /\ loaded = {} /\ failed = {} /\ alive = {} /\ late = {} /\ closed = {}
    /\ count = [c \in Collectors |-> 0] /\ oomLog = <<>>
    /\ signals = NoSignals /\ findings = {} /\ history = <<>>
    /\ cycle = 0 /\ shown = "nothing" /\ exit = "running"
    /\ atEnd = [c \in Collectors |-> 0] /\ before = {}

Kills(s) == {s[i] : i \in DOMAIN s}

(***************************************************************************)
(* buildCollectors and StartAll.                                           *)
(***************************************************************************)
\* A loader that fails to load is skipped and its failure kept.
Load(c) ==
    /\ main = "load" /\ c \in todo
    /\ todo' = todo \ {c}
    /\ \/ loaded' = loaded \cup {c} /\ UNCHANGED failed
       \/ failed' = failed \cup {c} /\ UNCHANGED loaded
    /\ UNCHANGED <<opts, main, running, closed, observed, report, history, cycle, exit>>

Built ==
    /\ main = "load" /\ todo = {}
    /\ main' = "start" /\ todo' = loaded
    /\ UNCHANGED <<opts, build, running, closed, observed, report, history, cycle, exit>>

\* Start of a collector whose loader has loaded does not fail.
Start(c) ==
    /\ main = "start" /\ c \in todo
    /\ todo' = todo \ {c} /\ alive' = alive \cup {c}
    /\ UNCHANGED <<opts, main, build, late, closed, observed, report, history, cycle, exit>>

BeginCycle ==
    /\ cycle' = cycle + 1 /\ shown' = "nothing"
    /\ main' = "collect"

Started ==
    /\ main = "start" /\ todo = {}
    /\ BeginCycle
    /\ UNCHANGED <<opts, todo, build, running, closed, observed, signals, findings,
                   history, exit, atEnd, before>>

(***************************************************************************)
(* The collectors, in the background from Start to Stop.                   *)
(***************************************************************************)
\* Mutant of LogKill: a full log keeps the oldest kills.
LogKillKeepsOldest(log, kill) == IF Len(log) >= MaxOOMEvents THEN log ELSE Append(log, kill)

LogKill(log, kill) ==
    Append(IF Len(log) >= MaxOOMEvents THEN Tail(log) ELSE log, kill)

Record(c) ==
    /\ c \in alive /\ count[c] < MaxEvents[c]
    /\ count' = [count EXCEPT ![c] = @ + 1]
    /\ oomLog' = IF c = "oom" THEN LogKill(oomLog, count[c] + 1) ELSE oomLog
    /\ UNCHANGED <<opts, main, todo, build, running, closed, report, history, cycle, exit>>

\* The consumer returns: the ring buffer reader has failed, so that the read
\* loop has ended and closed the channel, or Stop has timed out before.  The
\* collector stays registered.
Dies(c) ==
    /\ c \in alive
    /\ alive' = alive \ {c}
    /\ UNCHANGED <<opts, main, todo, build, late, closed, observed, report, history, cycle, exit>>

(***************************************************************************)
(* runDiagnosticCycle.                                                     *)
(***************************************************************************)
WindowEnds ==
    /\ main = "collect"
    /\ main' = "snapshot" /\ todo' = loaded
    /\ before' = Kills(signals.kills) /\ signals' = NoSignals /\ atEnd' = count
    /\ UNCHANGED <<opts, build, running, closed, observed, findings, history, cycle, shown, exit>>

\* Mutant of TakeSnapshot: only collectors that are still consuming are asked.
TakeSnapshotIfAlive(c) ==
    /\ main = "snapshot" /\ c \in todo
    /\ todo' = todo \ {c}
    /\ signals' = IF c \notin alive THEN signals
                  ELSE [count |-> [signals.count EXCEPT ![c] = count[c]],
                        kills |-> IF c = "oom" THEN oomLog ELSE signals.kills]
    /\ UNCHANGED <<opts, main, build, running, closed, observed, findings, history, cycle,
                   shown, exit, atEnd, before>>

\* Mutant of SnapshotsTaken: the cycle goes on only while a collector is alive.
SnapshotsOfTheLiving ==
    /\ main = "snapshot" /\ todo = {} /\ (loaded # {} => alive # {})
    /\ main' = "diagnose"
    /\ UNCHANGED <<opts, todo, build, running, closed, observed, report, history, cycle, exit>>

\* Registry.Signals asks the collectors one after the other, in map order,
\* while all of them go on counting.
TakeSnapshot(c) ==
    /\ main = "snapshot" /\ c \in todo
    /\ todo' = todo \ {c}
    /\ signals' = [count |-> [signals.count EXCEPT ![c] = count[c]],
                   kills |-> IF c = "oom" THEN oomLog ELSE signals.kills]
    /\ UNCHANGED <<opts, main, build, running, closed, observed, findings, history, cycle,
                   shown, exit, atEnd, before>>

SnapshotsTaken ==
    /\ main = "snapshot" /\ todo = {}
    /\ main' = "diagnose"
    /\ UNCHANGED <<opts, todo, build, running, closed, observed, report, history, cycle, exit>>

\* The severities the rules may produce: every kill is critical; what the
\* other signals amount to depends on data that is not modelled.
Verdicts ==
    {s \in SUBSET Severities :
        /\ s # {} /\ ("info" \in s => s = {"info"})
        /\ signals.kills # <<>> => "critical" \in s
        /\ s # {"info"} => signals.kills # <<>> \/ \E c \in Collectors : signals.count[c] > 0}

\* Mutant of Remember: the snapshot is appended before the oldest is dropped
\* and the comparison is off by one.
RememberOneMore(h, n) ==
    LET longer == Append(h, n) IN IF Len(longer) > MaxHistory + 1 THEN Tail(longer) ELSE longer

Remember(h, n) ==
    LET longer == Append(h, n) IN IF Len(longer) > MaxHistory THEN Tail(longer) ELSE longer

\* Mutant of Filter: the filter keeps what it should remove.
FilterInverted(s) == IF opts.onlyCritical THEN s \ {"critical"} ELSE s

\* --only-critical.
Filter(s) == IF opts.onlyCritical THEN s \cap {"critical"} ELSE s

Diagnose ==
    /\ main = "diagnose"
    /\ \E s \in Verdicts : findings' = Filter(s)
    /\ history' = Remember(history, cycle)
    /\ main' = "render"
    /\ UNCHANGED <<opts, todo, build, running, closed, observed, signals, cycle, shown, exit,
                   atEnd, before>>

\* --quiet prints a single line when nothing is at least a warning.
AllClear == opts.quiet /\ ~opts.json /\ findings \cap {"warning", "critical"} = {}

Render ==
    /\ main = "render"
    /\ shown' = IF AllClear THEN "clear" ELSE "report"
    /\ main' = "check"
    /\ UNCHANGED <<opts, todo, build, running, closed, observed, signals, findings, history,
                   cycle, exit, atEnd, before>>

\* The deferred StopAll, then the deferred closers, run on every return.
Return(code) == main' = "stop" /\ todo' = loaded /\ exit' = code

\* Only the renderer reports an error; the single line ignores it.
RenderFails ==
    /\ main = "render" /\ ~AllClear
    /\ Return("error")
    /\ UNCHANGED <<opts, build, running, closed, observed, report, history, cycle>>

ExitCritical ==
    /\ main = "check" /\ opts.exitCode /\ "critical" \in findings
    /\ Return("critical")
    /\ UNCHANGED <<opts, build, running, closed, observed, report, history, cycle>>

\* Mutant of CycleDone: a continuous run loops before it looks at the exit code.
CycleDoneFirst ==
    /\ main = "check"
    /\ IF opts.continuous THEN main' = "wait" /\ UNCHANGED <<todo, exit>> ELSE Return("ok")
    /\ UNCHANGED <<opts, build, running, closed, observed, report, history, cycle>>

CycleDone ==
    /\ main = "check" /\ ~(opts.exitCode /\ "critical" \in findings)
    /\ IF opts.continuous THEN main' = "wait" /\ UNCHANGED <<todo, exit>> ELSE Return("ok")
    /\ UNCHANGED <<opts, build, running, closed, observed, report, history, cycle>>

IntervalPasses ==
    /\ main = "wait" /\ cycle < MaxCycles
    /\ BeginCycle
    /\ UNCHANGED <<opts, todo, build, running, closed, observed, signals, findings, history,
                   exit, atEnd, before>>

(***************************************************************************)
(* Shutdown, and the signal nobody handles.                                *)
(***************************************************************************)
\* Mutant of Stop: the collectors are told to stop and not waited for.
StopWithoutWaiting(c) ==
    /\ main = "stop" /\ c \in todo
    /\ todo' = todo \ {c}
    /\ UNCHANGED <<opts, main, build, running, closed, observed, report, history, cycle, exit>>

\* Stop cancels the consumer and waits for it, two seconds at most.
Stop(c) ==
    /\ main = "stop" /\ c \in todo
    /\ todo' = todo \ {c}
    /\ \/ alive' = alive \ {c} /\ UNCHANGED late
       \/ c \in alive /\ late' = late \cup {c} /\ UNCHANGED alive
    /\ UNCHANGED <<opts, main, build, closed, observed, report, history, cycle, exit>>

Stopped ==
    /\ main = "stop" /\ todo = {}
    /\ main' = "close" /\ todo' = loaded
    /\ UNCHANGED <<opts, build, running, closed, observed, report, history, cycle, exit>>

Close(c) ==
    /\ main = "close" /\ c \in todo
    /\ todo' = todo \ {c} /\ closed' = closed \cup {c}
    /\ UNCHANGED <<opts, main, build, running, observed, report, history, cycle, exit>>

Exit ==
    /\ main = "close" /\ todo = {}
    /\ main' = "down" /\ alive' = {}
    /\ UNCHANGED <<opts, todo, build, late, closed, observed, report, history, cycle, exit>>

\* Ctrl+C.  main.go calls Execute without a context and doctor installs no
\* handler, so the signal has its default effect: the process ends.
Interrupt ==
    /\ main # "down"
    /\ main' = "down" /\ exit' = "killed" /\ alive' = {}
    /\ UNCHANGED <<opts, todo, build, late, closed, observed, report, history, cycle>>

Background == \E c \in Collectors : Record(c) \/ Dies(c)

Setup == \/ \E c \in Collectors : Load(c) \/ Start(c)
         \/ Built \/ Started

Cycle == \/ WindowEnds
         \/ \E c \in Collectors : TakeSnapshot(c)
         \/ SnapshotsTaken \/ Diagnose \/ Render \/ RenderFails
         \/ ExitCritical \/ CycleDone

Teardown == \/ \E c \in Collectors : Stop(c) \/ Close(c)
            \/ Stopped \/ Exit

Next == Background \/ Setup \/ Cycle \/ IntervalPasses \/ Teardown \/ Interrupt

Spec == Init /\ [][Next]_vars

(***************************************************************************)
(* Fairness: main is scheduled, and the timer of the window fires.  Nobody *)
(* has to press Ctrl+C, and no event has to happen.  With an AI analyzer,  *)
(* this takes a provider that answers or fails: its client has no timeout. *)
(***************************************************************************)
FairSpec == Spec /\ WF_vars(Setup \/ Cycle \/ Teardown)

(***************************************************************************)
(* Properties.                                                             *)
(***************************************************************************)
\* s holds the newest of 1..n, oldest first, at most cap of them.
HoldsNewest(s, n, cap) ==
    /\ Len(s) = IF n < cap THEN n ELSE cap
    /\ \A i \in 1..Len(s) : s[i] = n - Len(s) + i

(* The OOM log always holds the newest kills, in order: a storm of kills   *)
(* drops old ones and never the one that just happened.                    *)
OomLogIsNewest ==
    "oom" \in Collectors => HoldsNewest(oomLog, count["oom"], MaxOOMEvents)

(* A report misses nothing recorded before its window ended, by any        *)
(* registered collector, also one that died meanwhile, and shows nothing   *)
(* that has not happened.                                                  *)
ReportIsComplete ==
    main \in {"diagnose", "render", "check"} =>
        /\ \A c \in loaded : atEnd[c] <= signals.count[c] /\ signals.count[c] <= count[c]
        /\ "oom" \in loaded =>
              \A k \in 1..atEnd["oom"] :
                 k \in Kills(signals.kills) \/ k + MaxOOMEvents <= signals.count["oom"]

(* --exit-code, end to end: a run that ends of itself with success has had *)
(* no kill recorded before the end of its last window, and one that exits  *)
(* as critical has printed a full report that says so.                     *)
ExitCodeTellsTheTruth ==
    opts.exitCode /\ main = "down" =>
        /\ exit = "ok" /\ "oom" \in loaded => atEnd["oom"] = 0
        /\ exit = "critical" => shown = "report" /\ "critical" \in findings

(* No loader is closed under a running consumer but one whose Stop has     *)
(* timed out, and a run that is not killed leaves no loader open, even     *)
(* when it ends with an error or as critical.                              *)
CleanShutdown ==
    /\ alive \cap closed \subseteq late
    /\ main \in {"close", "down"} => alive \subseteq late
    /\ main = "down" /\ exit # "killed" => closed = loaded

(* The AI analyzer gets the snapshots of the cycles just before this one,  *)
(* consecutive and never the current one; at most MaxHistory of them.      *)
HistoryIsRecent ==
    LET past == IF main \in {"render", "check", "wait"} THEN cycle ELSE cycle - 1
    IN  exit = "running" /\ cycle > 0 => HoldsNewest(history, past, MaxHistory)

(* Every cycle that begins prints something or ends the process.           *)
EveryCycleReports ==
    main = "collect" ~> (shown # "nothing" \/ main = "down")

(***************************************************************************)
(* What comments promise and the code does not do.                         *)
(***************************************************************************)
(* oom.go calls the log "per-window", signals.go the snapshot "OOM kill    *)
(* events observed during the window": no kill is in two reports.          *)
KillsAreOfTheWindow ==
    main = "render" => before \cap Kills(signals.kills) = {}
=============================================================================
