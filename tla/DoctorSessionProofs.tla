--------------------------- MODULE DoctorSessionProofs ---------------------------
(***************************************************************************)
(* For every set of collectors, every set of flags and every capacity of   *)
(* the kill log and of the history: TypeOK and the safety invariants of    *)
(* DoctorSession.                                                          *)
(*                                                                         *)
(* Control says what main's position implies, Snapshots what has been      *)
(* gathered so far, Severe and Told carry a kill from the log through the  *)
(* findings to the exit code.                                              *)
(***************************************************************************)
EXTENDS DoctorSession, TLAPS

Starting  == {"load", "start"}
Cycling == {"collect", "snapshot", "diagnose", "render", "check", "wait"}

Control ==
    /\ main \in Starting => history = <<>> /\ cycle = 0
    /\ main \in Cycling => cycle \in 1..MaxCycles
    /\ main \in Starting \cup Cycling => closed = {} /\ exit = "running"
    /\ main \in {"start", "snapshot", "stop", "close"} => todo \subseteq loaded
    /\ main = "stop" => alive \subseteq todo \cup late /\ closed = {} /\ exit # "running"
    /\ main = "close" => alive \subseteq late /\ closed = loaded \ todo /\ exit # "running"
    /\ main = "down" => alive = {} /\ exit # "running" /\ (exit # "killed" => closed = loaded)

\* The collectors of which main has the snapshot of this cycle.
Gathered == IF main = "snapshot" THEN loaded \ todo
            ELSE IF main \in {"diagnose", "render", "check"} THEN loaded ELSE {}

Snapshots ==
    /\ \A c \in Gathered : atEnd[c] <= signals.count[c] /\ signals.count[c] <= count[c]
    /\ main = "snapshot" => \A c \in Collectors : atEnd[c] <= count[c]
    /\ "oom" \in Gathered => HoldsNewest(signals.kills, signals.count["oom"], MaxOOMEvents)

Severe ==
    /\ main \in {"render", "check"} /\ signals.kills # <<>> => "critical" \in findings
    /\ main = "check" /\ "critical" \in findings => shown = "report"

\* The exit code is settled once and for all when main returns.
Told ==
    opts.exitCode =>
        /\ exit = "ok" /\ "oom" \in loaded => atEnd["oom"] = 0
        /\ exit = "critical" => shown = "report" /\ "critical" \in findings

IInv == /\ TypeOK /\ Control /\ OomLogIsNewest /\ Snapshots
        /\ Severe /\ Told /\ HistoryIsRecent

(***************************************************************************)
(* The two bounded queues.                                                 *)
(***************************************************************************)
(* Appending n + 1 to the newest of 1..n, at the cost of the oldest when   *)
(* the queue is full, gives the newest of 1..n + 1.                        *)
LEMMA NewestNext ==
  ASSUME NEW S, NEW s \in Seq(S), NEW n \in Nat, n + 1 \in S,
         NEW cap \in Nat \ {0}, HoldsNewest(s, n, cap),
         NEW t, t = Append(IF Len(s) >= cap THEN Tail(s) ELSE s, n + 1)
  PROVE  t \in Seq(S) /\ Len(t) <= cap /\ HoldsNewest(t, n + 1, cap)
  <1>1. CASE Len(s) >= cap
    <2>1. Len(s) = cap /\ n >= cap /\ s # <<>>
      BY <1>1 DEF HoldsNewest
    <2>2. /\ Tail(s) \in Seq(S) /\ Len(Tail(s)) = cap - 1
          /\ \A i \in 1..(cap - 1) : Tail(s)[i] = s[i + 1]
      BY <2>1
    <2>3. /\ t \in Seq(S) /\ Len(t) = cap /\ t[cap] = n + 1
          /\ \A i \in 1..(cap - 1) : t[i] = Tail(s)[i]
      BY <1>1, <2>2
    <2>4. \A i \in 1..cap : s[i] = n - cap + i
      BY <2>1 DEF HoldsNewest
    <2>5. \A i \in 1..(cap - 1) : i + 1 \in 1..cap /\ t[i] = s[i + 1]
      BY <2>2, <2>3
    <2>6. \A i \in 1..(cap - 1) : t[i] = (n + 1) - cap + i
      BY <2>4, <2>5
    <2>7. \A i \in 1..cap : i = cap \/ i \in 1..(cap - 1)
      OBVIOUS
    <2>8. \A i \in 1..cap : t[i] = (n + 1) - cap + i
      BY <2>3, <2>6, <2>7
    <2>9. Len(t) = IF n + 1 < cap THEN n + 1 ELSE cap
      BY <2>1, <2>3
    <2>10. HoldsNewest(t, n + 1, cap)
      BY <2>3, <2>8, <2>9 DEF HoldsNewest
    <2>11. QED
      BY <2>3, <2>10
  <1>2. CASE ~(Len(s) >= cap)
    <2>1. Len(s) = n /\ n < cap
      BY <1>2 DEF HoldsNewest
    <2>2. /\ t \in Seq(S) /\ Len(t) = n + 1 /\ t[n + 1] = n + 1
          /\ \A i \in 1..n : t[i] = s[i]
      BY <1>2, <2>1
    <2>3. \A i \in 1..n : s[i] = i
      BY <2>1 DEF HoldsNewest
    <2>4. \A i \in 1..(n + 1) : i = n + 1 \/ i \in 1..n
      OBVIOUS
    <2>5. \A i \in 1..(n + 1) : t[i] = (n + 1) - (n + 1) + i
      BY <2>2, <2>3, <2>4
    <2>6. Len(t) = IF n + 1 < cap THEN n + 1 ELSE cap
      BY <2>1, <2>2
    <2>7. HoldsNewest(t, n + 1, cap)
      BY <2>2, <2>5, <2>6 DEF HoldsNewest
    <2>8. QED
      BY <2>1, <2>2, <2>7
  <1>3. QED
    BY <1>1, <1>2

(* The kill log after one more kill.                                       *)
LEMMA LogKillKeeps ==
  ASSUME NEW log \in Seq(Nat), NEW n \in Nat, HoldsNewest(log, n, MaxOOMEvents)
  PROVE  /\ LogKill(log, n + 1) \in Seq(Nat) /\ Len(LogKill(log, n + 1)) <= MaxOOMEvents
         /\ HoldsNewest(LogKill(log, n + 1), n + 1, MaxOOMEvents)
  <1>1. n + 1 \in Nat
    OBVIOUS
  <1>2. LogKill(log, n + 1) = Append(IF Len(log) >= MaxOOMEvents THEN Tail(log) ELSE log, n + 1)
    BY DEF LogKill
  <1>3. QED
    BY <1>1, <1>2, NewestNext, LogAssumption

(* The engine's history after one more snapshot: dropping the oldest after *)
(* the append is dropping it before.                                       *)
LEMMA RememberKeeps ==
  ASSUME NEW S, NEW h \in Seq(S), NEW n \in Nat, n + 1 \in S, HoldsNewest(h, n, MaxHistory)
  PROVE  /\ Remember(h, n + 1) \in Seq(S) /\ Len(Remember(h, n + 1)) <= MaxHistory
         /\ HoldsNewest(Remember(h, n + 1), n + 1, MaxHistory)
  <1>1. Len(h) <= MaxHistory /\ MaxHistory \in Nat \ {0}
    BY HistoryAssumption DEF HoldsNewest
  <1>2. Len(Append(h, n + 1)) = Len(h) + 1
    OBVIOUS
  <1>3. CASE Len(h) >= MaxHistory
    <2>1. h # <<>>
      BY <1>1, <1>3
    <2>2. Tail(Append(h, n + 1)) = Append(Tail(h), n + 1)
      BY <2>1
    <2>3. Remember(h, n + 1) = Append(Tail(h), n + 1)
      BY <1>1, <1>2, <1>3, <2>2 DEF Remember
    <2>4. QED
      BY <1>1, <1>3, <2>3, NewestNext
  <1>4. CASE ~(Len(h) >= MaxHistory)
    <2>1. Remember(h, n + 1) = Append(h, n + 1)
      BY <1>1, <1>2, <1>4 DEF Remember
    <2>2. QED
      BY <1>1, <1>4, <2>1, NewestNext
  <1>5. QED
    BY <1>3, <1>4

(***************************************************************************)
(* Types.                                                                  *)
(***************************************************************************)
(* Every action keeps the types and the capacities.                        *)
LEMMA TypeStep == TypeOK /\ Control /\ OomLogIsNewest /\ HistoryIsRecent /\ [Next]_vars => TypeOK'
  <1> SUFFICES ASSUME TypeOK, Control, OomLogIsNewest, HistoryIsRecent, [Next]_vars PROVE TypeOK'
    OBVIOUS
  <1>1. ASSUME NEW c \in Collectors, Load(c) PROVE TypeOK'
    BY <1>1 DEF Load, build, running, observed, report, TypeOK
  <1>2. ASSUME NEW c \in Collectors, Start(c) PROVE TypeOK'
    BY <1>2 DEF Start, build, running, observed, report, TypeOK, Control
  <1>3. CASE Built
    BY <1>3 DEF Built, build, running, observed, report, TypeOK
  <1>4. CASE Started
    BY <1>4, MaxCyclesAssumption DEF Started, BeginCycle, build, running,
      observed, report, TypeOK, Control, Starting
  <1>5. ASSUME NEW c \in Collectors, Record(c) PROVE TypeOK'
    <2>1. count \in [Collectors -> Nat] /\ count[c] < MaxEvents[c] /\ oomLog \in Seq(Nat)
      BY <1>5 DEF Record, TypeOK
    <2>2. count[c] + 1 \in Nat /\ count[c] + 1 <= MaxEvents[c] /\ MaxEvents[c] \in Nat
      BY <2>1, MaxEventsAssumption
    <2>3. count' \in [Collectors -> Nat] /\ \A x \in Collectors : count'[x] <= MaxEvents[x]
      BY <1>5, <2>1, <2>2 DEF Record, TypeOK
    <2>4. oomLog' \in Seq(Nat) /\ Len(oomLog') <= MaxOOMEvents
      <3>1. CASE c = "oom"
        <4>1. HoldsNewest(oomLog, count[c], MaxOOMEvents)
          BY <3>1 DEF OomLogIsNewest
        <4>2. oomLog' = LogKill(oomLog, count[c] + 1)
          BY <1>5, <3>1 DEF Record
        <4>3. QED
          BY <2>1, <4>1, <4>2, LogKillKeeps
      <3>2. CASE c # "oom"
        BY <1>5, <2>1, <3>2 DEF Record, TypeOK
      <3>3. QED
        BY <3>1, <3>2
    <2>5. UNCHANGED <<opts, main, todo, build, running, closed, report, history, cycle, exit>>
      BY <1>5 DEF Record
    <2>6. QED
      BY <2>3, <2>4, <2>5 DEF build, running, report, TypeOK
  <1>6. ASSUME NEW c \in Collectors, Dies(c) PROVE TypeOK'
    BY <1>6 DEF Dies, build, running, observed, report, TypeOK
  <1>7. CASE WindowEnds
    <2>1. signals.kills \in Seq(Nat)
      BY DEF TypeOK
    <2>2. before' \subseteq Nat
      BY <1>7, <2>1 DEF WindowEnds, Kills
    <2>3. NoSignals \in [count : [Collectors -> Nat], kills : Seq(Nat)]
      BY DEF NoSignals
    <2>4. QED
      BY <1>7, <2>2, <2>3 DEF WindowEnds, build, running, observed, TypeOK
  <1>8. ASSUME NEW c \in Collectors, TakeSnapshot(c) PROVE TypeOK'
    BY <1>8 DEF TakeSnapshot, build, running, observed, report, TypeOK
  <1>9. CASE SnapshotsTaken
    BY <1>9 DEF SnapshotsTaken, build, running, observed, report, TypeOK
  <1>10. CASE Diagnose
    <2>1. main = "diagnose" /\ cycle \in 1..MaxCycles /\ exit = "running"
      BY <1>10 DEF Diagnose, Control, Starting, Cycling
    <2>2. HoldsNewest(history, cycle - 1, MaxHistory)
      BY <2>1 DEF HistoryIsRecent
    <2>3. cycle - 1 \in Nat /\ (cycle - 1) + 1 = cycle /\ history \in Seq(1..MaxCycles)
      BY <2>1, MaxCyclesAssumption DEF TypeOK
    <2>4. history' \in Seq(1..MaxCycles) /\ Len(history') <= MaxHistory
      BY <1>10, <2>1, <2>2, <2>3, RememberKeeps DEF Diagnose
    <2>5. findings' \subseteq Severities
      BY <1>10 DEF Diagnose, Filter, Verdicts
    <2>6. QED
      BY <1>10, <2>4, <2>5 DEF Diagnose, build, running, observed, TypeOK
  <1>11. CASE Render
    BY <1>11 DEF Render, build, running, observed, report, TypeOK
  <1>12. CASE RenderFails
    BY <1>12 DEF RenderFails, Return, build, running, observed, report,
      TypeOK
  <1>13. CASE ExitCritical
    BY <1>13 DEF ExitCritical, Return, build, running, observed, report,
      TypeOK
  <1>14. CASE CycleDone
    BY <1>14 DEF CycleDone, Return, build, running, observed, report, TypeOK
  <1>15. CASE IntervalPasses
    BY <1>15, MaxCyclesAssumption DEF IntervalPasses, BeginCycle, build,
      running, observed, report, TypeOK
  <1>16. ASSUME NEW c \in Collectors, Stop(c) PROVE TypeOK'
    BY <1>16 DEF Stop, build, running, observed, report, TypeOK
  <1>17. ASSUME NEW c \in Collectors, Close(c) PROVE TypeOK'
    BY <1>17 DEF Close, build, running, observed, report, TypeOK, Control
  <1>18. CASE Stopped
    BY <1>18 DEF Stopped, build, running, observed, report, TypeOK
  <1>19. CASE Exit
    BY <1>19 DEF Exit, build, running, observed, report, TypeOK
  <1>20. CASE Interrupt
    BY <1>20 DEF Interrupt, build, running, observed, report, TypeOK
  <1>21. CASE UNCHANGED vars
    BY <1>21 DEF vars, build, running, observed, report, TypeOK
  <1>22. QED
    BY <1>1, <1>2, <1>3, <1>4, <1>5, <1>6, <1>7, <1>8, <1>9, <1>10, <1>11,
      <1>12, <1>13, <1>14, <1>15, <1>16, <1>17, <1>18, <1>19, <1>20, <1>21
      DEF Next, Background, Setup, Cycle, Teardown

(***************************************************************************)
(* Control.                                                                *)
(***************************************************************************)
(* What the position of main says about its loops, the closers and the     *)
(* exit code.                                                              *)
LEMMA ControlStep == TypeOK /\ Control /\ [Next]_vars => Control'
  <1> SUFFICES ASSUME TypeOK, Control, [Next]_vars PROVE Control'
    OBVIOUS
  <1>1. ASSUME NEW c \in Collectors, Load(c) PROVE Control'
    BY <1>1 DEF Load, build, running, observed, report, TypeOK, Control,
      Starting, Cycling
  <1>2. ASSUME NEW c \in Collectors, Start(c) PROVE Control'
    BY <1>2 DEF Start, build, running, observed, report, TypeOK, Control,
      Starting, Cycling
  <1>3. CASE Built
    BY <1>3 DEF Built, build, running, observed, report, TypeOK, Control,
      Starting, Cycling
  <1>4. CASE Started
    BY <1>4, MaxCyclesAssumption DEF Started, BeginCycle, build, running,
      observed, report, TypeOK, Control, Starting, Cycling
  <1>5. ASSUME NEW c \in Collectors, Record(c) PROVE Control'
    BY <1>5 DEF Record, build, running, observed, report, TypeOK, Control,
      Starting, Cycling
  <1>6. ASSUME NEW c \in Collectors, Dies(c) PROVE Control'
    BY <1>6 DEF Dies, build, running, observed, report, TypeOK, Control,
      Starting, Cycling
  <1>7. CASE WindowEnds
    BY <1>7 DEF WindowEnds, build, running, observed, report, TypeOK,
      Control, Starting, Cycling
  <1>8. ASSUME NEW c \in Collectors, TakeSnapshot(c) PROVE Control'
    BY <1>8 DEF TakeSnapshot, build, running, observed, report, TypeOK,
      Control, Starting, Cycling
  <1>9. CASE SnapshotsTaken
    BY <1>9 DEF SnapshotsTaken, build, running, observed, report, TypeOK,
      Control, Starting, Cycling
  <1>10. CASE Diagnose
    BY <1>10 DEF Diagnose, build, running, observed, report, TypeOK,
      Control, Starting, Cycling
  <1>11. CASE Render
    BY <1>11 DEF Render, build, running, observed, report, TypeOK, Control,
      Starting, Cycling
  <1>12. CASE RenderFails
    BY <1>12 DEF RenderFails, Return, build, running, observed, report,
      TypeOK, Control, Starting, Cycling
  <1>13. CASE ExitCritical
    BY <1>13 DEF ExitCritical, Return, build, running, observed, report,
      TypeOK, Control, Starting, Cycling
  <1>14. CASE CycleDone
    BY <1>14 DEF CycleDone, Return, build, running, observed, report,
      TypeOK, Control, Starting, Cycling
  <1>15. CASE IntervalPasses
    BY <1>15, MaxCyclesAssumption DEF IntervalPasses, BeginCycle, build,
      running, observed, report, TypeOK, Control, Starting, Cycling
  <1>16. ASSUME NEW c \in Collectors, Stop(c) PROVE Control'
    BY <1>16 DEF Stop, build, running, observed, report, TypeOK, Control,
      Starting, Cycling
  <1>17. ASSUME NEW c \in Collectors, Close(c) PROVE Control'
    BY <1>17 DEF Close, build, running, observed, report, TypeOK, Control,
      Starting, Cycling
  <1>18. CASE Stopped
    BY <1>18 DEF Stopped, build, running, observed, report, TypeOK, Control,
      Starting, Cycling
  <1>19. CASE Exit
    BY <1>19 DEF Exit, build, running, observed, report, TypeOK, Control,
      Starting, Cycling
  <1>20. CASE Interrupt
    BY <1>20 DEF Interrupt, build, running, observed, report, TypeOK,
      Control, Starting, Cycling
  <1>21. CASE UNCHANGED vars
    BY <1>21 DEF vars, build, running, observed, report, TypeOK, Control,
      Starting, Cycling
  <1>22. QED
    BY <1>1, <1>2, <1>3, <1>4, <1>5, <1>6, <1>7, <1>8, <1>9, <1>10, <1>11,
      <1>12, <1>13, <1>14, <1>15, <1>16, <1>17, <1>18, <1>19, <1>20, <1>21
      DEF Next, Background, Setup, Cycle, Teardown

(***************************************************************************)
(* The queues, the snapshots, the findings and the exit code.              *)
(***************************************************************************)
(* The kill log changes with the count of kills.                           *)
LEMMA LogStep == TypeOK /\ OomLogIsNewest /\ [Next]_vars => OomLogIsNewest'
  <1> SUFFICES ASSUME TypeOK, OomLogIsNewest, [Next]_vars PROVE OomLogIsNewest'
    OBVIOUS
  <1>1. ASSUME NEW c \in Collectors, Load(c) PROVE OomLogIsNewest'
    BY <1>1 DEF Load, build, running, observed, report, OomLogIsNewest
  <1>2. ASSUME NEW c \in Collectors, Start(c) PROVE OomLogIsNewest'
    BY <1>2 DEF Start, build, running, observed, report, OomLogIsNewest
  <1>3. CASE Built
    BY <1>3 DEF Built, build, running, observed, report, OomLogIsNewest
  <1>4. CASE Started
    BY <1>4 DEF Started, BeginCycle, build, running, observed, report,
      OomLogIsNewest
  <1>5. ASSUME NEW c \in Collectors, Record(c) PROVE OomLogIsNewest'
    <2>1. CASE c = "oom"
      <3>1. count \in [Collectors -> Nat] /\ oomLog \in Seq(Nat)
        BY DEF TypeOK
      <3>2. oomLog' = LogKill(oomLog, count[c] + 1) /\ count'[c] = count[c] + 1
        BY <1>5, <2>1, <3>1 DEF Record
      <3>3. HoldsNewest(oomLog, count[c], MaxOOMEvents)
        BY <2>1 DEF OomLogIsNewest
      <3>4. HoldsNewest(oomLog', count'[c], MaxOOMEvents)
        BY <3>1, <3>2, <3>3, LogKillKeeps
      <3>5. QED
        BY <2>1, <3>4 DEF OomLogIsNewest
    <2>2. CASE c # "oom"
      BY <1>5, <2>2 DEF Record, OomLogIsNewest, TypeOK
    <2>3. QED
      BY <2>1, <2>2
  <1>6. ASSUME NEW c \in Collectors, Dies(c) PROVE OomLogIsNewest'
    BY <1>6 DEF Dies, build, running, observed, report, OomLogIsNewest
  <1>7. CASE WindowEnds
    BY <1>7 DEF WindowEnds, build, running, observed, report, OomLogIsNewest
  <1>8. ASSUME NEW c \in Collectors, TakeSnapshot(c) PROVE OomLogIsNewest'
    BY <1>8 DEF TakeSnapshot, build, running, observed, report,
      OomLogIsNewest
  <1>9. CASE SnapshotsTaken
    BY <1>9 DEF SnapshotsTaken, build, running, observed, report,
      OomLogIsNewest
  <1>10. CASE Diagnose
    BY <1>10 DEF Diagnose, build, running, observed, report, OomLogIsNewest
  <1>11. CASE Render
    BY <1>11 DEF Render, build, running, observed, report, OomLogIsNewest
  <1>12. CASE RenderFails
    BY <1>12 DEF RenderFails, Return, build, running, observed, report,
      OomLogIsNewest
  <1>13. CASE ExitCritical
    BY <1>13 DEF ExitCritical, Return, build, running, observed, report,
      OomLogIsNewest
  <1>14. CASE CycleDone
    BY <1>14 DEF CycleDone, Return, build, running, observed, report,
      OomLogIsNewest
  <1>15. CASE IntervalPasses
    BY <1>15 DEF IntervalPasses, BeginCycle, build, running, observed,
      report, OomLogIsNewest
  <1>16. ASSUME NEW c \in Collectors, Stop(c) PROVE OomLogIsNewest'
    BY <1>16 DEF Stop, build, running, observed, report, OomLogIsNewest
  <1>17. ASSUME NEW c \in Collectors, Close(c) PROVE OomLogIsNewest'
    BY <1>17 DEF Close, build, running, observed, report, OomLogIsNewest
  <1>18. CASE Stopped
    BY <1>18 DEF Stopped, build, running, observed, report, OomLogIsNewest
  <1>19. CASE Exit
    BY <1>19 DEF Exit, build, running, observed, report, OomLogIsNewest
  <1>20. CASE Interrupt
    BY <1>20 DEF Interrupt, build, running, observed, report, OomLogIsNewest
  <1>21. CASE UNCHANGED vars
    BY <1>21 DEF vars, build, running, observed, report, OomLogIsNewest
  <1>22. QED
    BY <1>1, <1>2, <1>3, <1>4, <1>5, <1>6, <1>7, <1>8, <1>9, <1>10, <1>11,
      <1>12, <1>13, <1>14, <1>15, <1>16, <1>17, <1>18, <1>19, <1>20, <1>21
      DEF Next, Background, Setup, Cycle, Teardown

(* What has been gathered lies between the end of the window and now.      *)
LEMMA SnapshotsStep == TypeOK /\ Control /\ OomLogIsNewest /\ Snapshots /\ [Next]_vars => Snapshots'
  <1> SUFFICES ASSUME TypeOK, Control, OomLogIsNewest, Snapshots, [Next]_vars PROVE Snapshots'
    OBVIOUS
  <1>1. ASSUME NEW c \in Collectors, Load(c) PROVE Snapshots'
    BY <1>1 DEF Load, build, running, observed, report, TypeOK, Control,
      Snapshots, Gathered
  <1>2. ASSUME NEW c \in Collectors, Start(c) PROVE Snapshots'
    BY <1>2 DEF Start, build, running, observed, report, TypeOK, Control,
      Snapshots, Gathered
  <1>3. CASE Built
    BY <1>3 DEF Built, build, running, observed, report, TypeOK, Control,
      Snapshots, Gathered
  <1>4. CASE Started
    BY <1>4 DEF Started, BeginCycle, build, running, observed, report,
      TypeOK, Control, Snapshots, Gathered
  <1>5. ASSUME NEW c \in Collectors, Record(c) PROVE Snapshots'
    BY <1>5 DEF Record, build, running, observed, report, TypeOK, Control,
      Snapshots, Gathered
  <1>6. ASSUME NEW c \in Collectors, Dies(c) PROVE Snapshots'
    BY <1>6 DEF Dies, build, running, observed, report, TypeOK, Control,
      Snapshots, Gathered
  <1>7. CASE WindowEnds
    BY <1>7 DEF WindowEnds, build, running, observed, report, TypeOK,
      Control, Snapshots, Gathered
  <1>8. ASSUME NEW c \in Collectors, TakeSnapshot(c) PROVE Snapshots'
    <2>1. main = "snapshot" /\ main' = "snapshot" /\ c \in todo /\ todo' = todo \ {c}
      BY <1>8 DEF TakeSnapshot
    <2>2. UNCHANGED <<loaded, count, atEnd>> /\ todo \subseteq loaded
      BY <1>8, <2>1 DEF TakeSnapshot, build, observed, Control
    <2>3. Gathered = loaded \ todo /\ Gathered' = Gathered \cup {c}
      BY <2>1, <2>2 DEF Gathered
    <2>4. /\ signals'.count = [signals.count EXCEPT ![c] = count[c]]
          /\ signals'.kills = IF c = "oom" THEN oomLog ELSE signals.kills
      BY <1>8 DEF TakeSnapshot
    <2>5. /\ signals.count \in [Collectors -> Nat] /\ count \in [Collectors -> Nat]
          /\ atEnd \in [Collectors -> Nat] /\ Gathered \subseteq Collectors
      BY <2>3 DEF TypeOK
    <2>6. /\ signals'.count[c] = count[c]
          /\ \A x \in Collectors \ {c} : signals'.count[x] = signals.count[x]
      BY <2>4, <2>5
    <2>7. \A x \in Collectors : atEnd'[x] <= count'[x]
      BY <2>1, <2>2 DEF Snapshots
    <2>8. ASSUME NEW x \in Gathered'
          PROVE  atEnd'[x] <= signals'.count[x] /\ signals'.count[x] <= count'[x]
      <3>1. CASE x = c
        BY <2>2, <2>5, <2>6, <2>7, <3>1
      <3>2. CASE x # c
        BY <2>2, <2>3, <2>5, <2>6, <3>2 DEF Snapshots
      <3>3. QED
        BY <3>1, <3>2
    <2>9. ASSUME "oom" \in Gathered'
          PROVE  HoldsNewest(signals'.kills, signals'.count["oom"], MaxOOMEvents)
      <3>1. CASE c = "oom"
        BY <2>4, <2>6, <3>1 DEF OomLogIsNewest
      <3>2. CASE c # "oom"
        <4>1. "oom" \in Gathered /\ "oom" \in Collectors \ {c}
          BY <2>3, <2>5, <2>9, <3>2
        <4>2. signals'.kills = signals.kills /\ signals'.count["oom"] = signals.count["oom"]
          BY <2>4, <2>6, <3>2, <4>1
        <4>3. HoldsNewest(signals.kills, signals.count["oom"], MaxOOMEvents)
          BY <4>1 DEF Snapshots
        <4>4. QED
          BY <4>2, <4>3
      <3>3. QED
        BY <3>1, <3>2
    <2>10. QED
      BY <2>7, <2>8, <2>9 DEF Snapshots
  <1>9. CASE SnapshotsTaken
    BY <1>9 DEF SnapshotsTaken, build, running, observed, report, TypeOK,
      Control, Snapshots, Gathered
  <1>10. CASE Diagnose
    BY <1>10 DEF Diagnose, build, running, observed, report, TypeOK,
      Control, Snapshots, Gathered
  <1>11. CASE Render
    BY <1>11 DEF Render, build, running, observed, report, TypeOK, Control,
      Snapshots, Gathered
  <1>12. CASE RenderFails
    BY <1>12 DEF RenderFails, Return, build, running, observed, report,
      TypeOK, Control, Snapshots, Gathered
  <1>13. CASE ExitCritical
    BY <1>13 DEF ExitCritical, Return, build, running, observed, report,
      TypeOK, Control, Snapshots, Gathered
  <1>14. CASE CycleDone
    BY <1>14 DEF CycleDone, Return, build, running, observed, report,
      TypeOK, Control, Snapshots, Gathered
  <1>15. CASE IntervalPasses
    BY <1>15 DEF IntervalPasses, BeginCycle, build, running, observed,
      report, TypeOK, Control, Snapshots, Gathered
  <1>16. ASSUME NEW c \in Collectors, Stop(c) PROVE Snapshots'
    BY <1>16 DEF Stop, build, running, observed, report, TypeOK, Control,
      Snapshots, Gathered
  <1>17. ASSUME NEW c \in Collectors, Close(c) PROVE Snapshots'
    BY <1>17 DEF Close, build, running, observed, report, TypeOK, Control,
      Snapshots, Gathered
  <1>18. CASE Stopped
    BY <1>18 DEF Stopped, build, running, observed, report, TypeOK, Control,
      Snapshots, Gathered
  <1>19. CASE Exit
    BY <1>19 DEF Exit, build, running, observed, report, TypeOK, Control,
      Snapshots, Gathered
  <1>20. CASE Interrupt
    BY <1>20 DEF Interrupt, build, running, observed, report, TypeOK,
      Control, Snapshots, Gathered
  <1>21. CASE UNCHANGED vars
    BY <1>21 DEF vars, build, running, observed, report, TypeOK, Control,
      Snapshots, Gathered
  <1>22. QED
    BY <1>1, <1>2, <1>3, <1>4, <1>5, <1>6, <1>7, <1>8, <1>9, <1>10, <1>11,
      <1>12, <1>13, <1>14, <1>15, <1>16, <1>17, <1>18, <1>19, <1>20, <1>21
      DEF Next, Background, Setup, Cycle, Teardown

(* A kill in the signals is a critical finding, and one such is printed.   *)
LEMMA SevereStep == TypeOK /\ Control /\ Severe /\ [Next]_vars => Severe'
  <1> SUFFICES ASSUME TypeOK, Control, Severe, [Next]_vars PROVE Severe'
    OBVIOUS
  <1>1. ASSUME NEW c \in Collectors, Load(c) PROVE Severe'
    BY <1>1 DEF Load, build, running, observed, report, Severe
  <1>2. ASSUME NEW c \in Collectors, Start(c) PROVE Severe'
    BY <1>2 DEF Start, build, running, observed, report, Severe
  <1>3. CASE Built
    BY <1>3 DEF Built, build, running, observed, report, Severe
  <1>4. CASE Started
    BY <1>4 DEF Started, BeginCycle, build, running, observed, report,
      Severe
  <1>5. ASSUME NEW c \in Collectors, Record(c) PROVE Severe'
    BY <1>5 DEF Record, build, running, observed, report, Severe
  <1>6. ASSUME NEW c \in Collectors, Dies(c) PROVE Severe'
    BY <1>6 DEF Dies, build, running, observed, report, Severe
  <1>7. CASE WindowEnds
    BY <1>7 DEF WindowEnds, build, running, observed, report, Severe
  <1>8. ASSUME NEW c \in Collectors, TakeSnapshot(c) PROVE Severe'
    BY <1>8 DEF TakeSnapshot, build, running, observed, report, Severe
  <1>9. CASE SnapshotsTaken
    BY <1>9 DEF SnapshotsTaken, build, running, observed, report, Severe
  <1>10. CASE Diagnose
    <2>1. signals' = signals /\ main' = "render"
      BY <1>10 DEF Diagnose
    <2>2. PICK s \in Verdicts : findings' = Filter(s)
      BY <1>10 DEF Diagnose
    <2>3. signals.kills # <<>> => "critical" \in s
      BY DEF Verdicts
    <2>4. signals.kills # <<>> => "critical" \in findings'
      BY <2>2, <2>3 DEF Filter
    <2>5. QED
      BY <2>1, <2>4 DEF Severe
  <1>11. CASE Render
    <2>1. /\ main = "render" /\ main' = "check" /\ UNCHANGED <<signals, findings>>
          /\ shown' = IF AllClear THEN "clear" ELSE "report"
      BY <1>11 DEF Render
    <2>2. "critical" \in findings => ~AllClear
      BY DEF AllClear
    <2>3. QED
      BY <2>1, <2>2 DEF Severe
  <1>12. CASE RenderFails
    BY <1>12 DEF RenderFails, Return, build, running, observed, report,
      Severe
  <1>13. CASE ExitCritical
    BY <1>13 DEF ExitCritical, Return, build, running, observed, report,
      Severe
  <1>14. CASE CycleDone
    BY <1>14 DEF CycleDone, Return, build, running, observed, report, Severe
  <1>15. CASE IntervalPasses
    BY <1>15 DEF IntervalPasses, BeginCycle, build, running, observed,
      report, Severe
  <1>16. ASSUME NEW c \in Collectors, Stop(c) PROVE Severe'
    BY <1>16 DEF Stop, build, running, observed, report, Severe
  <1>17. ASSUME NEW c \in Collectors, Close(c) PROVE Severe'
    BY <1>17 DEF Close, build, running, observed, report, Severe
  <1>18. CASE Stopped
    BY <1>18 DEF Stopped, build, running, observed, report, Severe
  <1>19. CASE Exit
    BY <1>19 DEF Exit, build, running, observed, report, Severe
  <1>20. CASE Interrupt
    BY <1>20 DEF Interrupt, build, running, observed, report, Severe
  <1>21. CASE UNCHANGED vars
    BY <1>21 DEF vars, build, running, observed, report, Severe
  <1>22. QED
    BY <1>1, <1>2, <1>3, <1>4, <1>5, <1>6, <1>7, <1>8, <1>9, <1>10, <1>11,
      <1>12, <1>13, <1>14, <1>15, <1>16, <1>17, <1>18, <1>19, <1>20, <1>21
      DEF Next, Background, Setup, Cycle, Teardown

(* The exit code, once given, tells what the last report said.             *)
LEMMA ToldStep == TypeOK /\ Control /\ Snapshots /\ Severe /\ Told /\ [Next]_vars => Told'
  <1> SUFFICES ASSUME TypeOK, Control, Snapshots, Severe, Told, [Next]_vars PROVE Told'
    OBVIOUS
  <1>1. ASSUME NEW c \in Collectors, Load(c) PROVE Told'
    BY <1>1 DEF Load, build, running, observed, report, Told, Control,
      Starting, Cycling
  <1>2. ASSUME NEW c \in Collectors, Start(c) PROVE Told'
    BY <1>2 DEF Start, build, running, observed, report, Told, Control,
      Starting, Cycling
  <1>3. CASE Built
    BY <1>3 DEF Built, build, running, observed, report, Told, Control,
      Starting, Cycling
  <1>4. CASE Started
    BY <1>4 DEF Started, BeginCycle, build, running, observed, report, Told,
      Control, Starting, Cycling
  <1>5. ASSUME NEW c \in Collectors, Record(c) PROVE Told'
    BY <1>5 DEF Record, build, running, observed, report, Told, Control,
      Starting, Cycling
  <1>6. ASSUME NEW c \in Collectors, Dies(c) PROVE Told'
    BY <1>6 DEF Dies, build, running, observed, report, Told, Control,
      Starting, Cycling
  <1>7. CASE WindowEnds
    BY <1>7 DEF WindowEnds, build, running, observed, report, Told, Control,
      Starting, Cycling
  <1>8. ASSUME NEW c \in Collectors, TakeSnapshot(c) PROVE Told'
    BY <1>8 DEF TakeSnapshot, build, running, observed, report, Told,
      Control, Starting, Cycling
  <1>9. CASE SnapshotsTaken
    BY <1>9 DEF SnapshotsTaken, build, running, observed, report, Told,
      Control, Starting, Cycling
  <1>10. CASE Diagnose
    BY <1>10 DEF Diagnose, build, running, observed, report, Told, Control,
      Starting, Cycling
  <1>11. CASE Render
    BY <1>11 DEF Render, build, running, observed, report, Told, Control,
      Starting, Cycling
  <1>12. CASE RenderFails
    BY <1>12 DEF RenderFails, Return, build, running, observed, report,
      Told, Control, Starting, Cycling
  <1>13. CASE ExitCritical
    <2>1. /\ main = "check" /\ "critical" \in findings /\ exit' = "critical"
          /\ UNCHANGED <<opts, shown, findings>>
      BY <1>13 DEF ExitCritical, Return, report
    <2>2. shown = "report"
      BY <2>1 DEF Severe
    <2>3. QED
      BY <2>1, <2>2 DEF Told
  <1>14. CASE CycleDone
    <2>1. /\ main = "check" /\ exit = "running" /\ exit' \in {"running", "ok"}
          /\ opts.exitCode => "critical" \notin findings
          /\ UNCHANGED <<opts, loaded, atEnd>>
      BY <1>14 DEF CycleDone, Return, report, build, Control, Starting, Cycling
    <2>2. ASSUME opts.exitCode, "oom" \in loaded PROVE atEnd["oom"] = 0
      <3>1. signals.kills = <<>>
        BY <2>1, <2>2 DEF Severe
      <3>2. "oom" \in Gathered /\ "oom" \in Collectors
        BY <2>1, <2>2 DEF Gathered, TypeOK
      <3>3. HoldsNewest(<<>>, signals.count["oom"], MaxOOMEvents)
        BY <3>1, <3>2 DEF Snapshots
      <3>4. signals.count["oom"] \in Nat /\ atEnd["oom"] \in Nat
        BY <3>2 DEF TypeOK
      <3>5. signals.count["oom"] = 0
        BY <3>3, <3>4, LogAssumption DEF HoldsNewest
      <3>6. QED
        BY <3>2, <3>4, <3>5 DEF Snapshots
    <2>3. QED
      BY <2>1, <2>2 DEF Told
  <1>15. CASE IntervalPasses
    BY <1>15 DEF IntervalPasses, BeginCycle, build, running, observed,
      report, Told, Control, Starting, Cycling
  <1>16. ASSUME NEW c \in Collectors, Stop(c) PROVE Told'
    BY <1>16 DEF Stop, build, running, observed, report, Told, Control,
      Starting, Cycling
  <1>17. ASSUME NEW c \in Collectors, Close(c) PROVE Told'
    BY <1>17 DEF Close, build, running, observed, report, Told, Control,
      Starting, Cycling
  <1>18. CASE Stopped
    BY <1>18 DEF Stopped, build, running, observed, report, Told, Control,
      Starting, Cycling
  <1>19. CASE Exit
    BY <1>19 DEF Exit, build, running, observed, report, Told, Control,
      Starting, Cycling
  <1>20. CASE Interrupt
    BY <1>20 DEF Interrupt, build, running, observed, report, Told, Control,
      Starting, Cycling
  <1>21. CASE UNCHANGED vars
    BY <1>21 DEF vars, build, running, observed, report, Told, Control,
      Starting, Cycling
  <1>22. QED
    BY <1>1, <1>2, <1>3, <1>4, <1>5, <1>6, <1>7, <1>8, <1>9, <1>10, <1>11,
      <1>12, <1>13, <1>14, <1>15, <1>16, <1>17, <1>18, <1>19, <1>20, <1>21
      DEF Next, Background, Setup, Cycle, Teardown

(* The history changes with the cycle that is diagnosed.                   *)
LEMMA HistoryStep == TypeOK /\ Control /\ HistoryIsRecent /\ [Next]_vars => HistoryIsRecent'
  <1> SUFFICES ASSUME TypeOK, Control, HistoryIsRecent, [Next]_vars PROVE HistoryIsRecent'
    OBVIOUS
  <1>1. ASSUME NEW c \in Collectors, Load(c) PROVE HistoryIsRecent'
    BY <1>1 DEF Load, build, running, observed, report, HistoryIsRecent,
      Control, Starting, Cycling
  <1>2. ASSUME NEW c \in Collectors, Start(c) PROVE HistoryIsRecent'
    BY <1>2 DEF Start, build, running, observed, report, HistoryIsRecent,
      Control, Starting, Cycling
  <1>3. CASE Built
    BY <1>3 DEF Built, build, running, observed, report, HistoryIsRecent,
      Control, Starting, Cycling
  <1>4. CASE Started
    <2>1. history' = <<>> /\ cycle' = 1 /\ main' = "collect"
      BY <1>4 DEF Started, BeginCycle, Control, Starting
    <2>2. HoldsNewest(<<>>, 0, MaxHistory)
      BY HistoryAssumption DEF HoldsNewest
    <2>3. QED
      BY <2>1, <2>2 DEF HistoryIsRecent
  <1>5. ASSUME NEW c \in Collectors, Record(c) PROVE HistoryIsRecent'
    BY <1>5 DEF Record, build, running, observed, report, HistoryIsRecent,
      Control, Starting, Cycling
  <1>6. ASSUME NEW c \in Collectors, Dies(c) PROVE HistoryIsRecent'
    BY <1>6 DEF Dies, build, running, observed, report, HistoryIsRecent,
      Control, Starting, Cycling
  <1>7. CASE WindowEnds
    BY <1>7 DEF WindowEnds, build, running, observed, report,
      HistoryIsRecent, Control, Starting, Cycling
  <1>8. ASSUME NEW c \in Collectors, TakeSnapshot(c) PROVE HistoryIsRecent'
    BY <1>8 DEF TakeSnapshot, build, running, observed, report,
      HistoryIsRecent, Control, Starting, Cycling
  <1>9. CASE SnapshotsTaken
    BY <1>9 DEF SnapshotsTaken, build, running, observed, report,
      HistoryIsRecent, Control, Starting, Cycling
  <1>10. CASE Diagnose
    <2>1. /\ main = "diagnose" /\ cycle \in 1..MaxCycles /\ exit = "running"
          /\ history \in Seq(1..MaxCycles)
      BY <1>10 DEF Diagnose, Control, Starting, Cycling, TypeOK
    <2>2. HoldsNewest(history, cycle - 1, MaxHistory)
      BY <2>1 DEF HistoryIsRecent
    <2>3. cycle - 1 \in Nat /\ (cycle - 1) + 1 = cycle
      BY <2>1, MaxCyclesAssumption
    <2>4. HoldsNewest(Remember(history, cycle), cycle, MaxHistory)
      BY <2>1, <2>2, <2>3, RememberKeeps
    <2>5. history' = Remember(history, cycle) /\ main' = "render" /\ cycle' = cycle
      BY <1>10 DEF Diagnose
    <2>6. QED
      BY <2>4, <2>5 DEF HistoryIsRecent
  <1>11. CASE Render
    BY <1>11 DEF Render, build, running, observed, report, HistoryIsRecent,
      Control, Starting, Cycling
  <1>12. CASE RenderFails
    BY <1>12 DEF RenderFails, Return, build, running, observed, report,
      HistoryIsRecent, Control, Starting, Cycling
  <1>13. CASE ExitCritical
    BY <1>13 DEF ExitCritical, Return, build, running, observed, report,
      HistoryIsRecent, Control, Starting, Cycling
  <1>14. CASE CycleDone
    BY <1>14 DEF CycleDone, Return, build, running, observed, report,
      HistoryIsRecent, Control, Starting, Cycling
  <1>15. CASE IntervalPasses
    BY <1>15 DEF IntervalPasses, BeginCycle, build, running, observed,
      report, HistoryIsRecent, Control, Starting, Cycling
  <1>16. ASSUME NEW c \in Collectors, Stop(c) PROVE HistoryIsRecent'
    BY <1>16 DEF Stop, build, running, observed, report, HistoryIsRecent,
      Control, Starting, Cycling
  <1>17. ASSUME NEW c \in Collectors, Close(c) PROVE HistoryIsRecent'
    BY <1>17 DEF Close, build, running, observed, report, HistoryIsRecent,
      Control, Starting, Cycling
  <1>18. CASE Stopped
    BY <1>18 DEF Stopped, build, running, observed, report, HistoryIsRecent,
      Control, Starting, Cycling
  <1>19. CASE Exit
    BY <1>19 DEF Exit, build, running, observed, report, HistoryIsRecent,
      Control, Starting, Cycling
  <1>20. CASE Interrupt
    BY <1>20 DEF Interrupt, build, running, observed, report,
      HistoryIsRecent, Control, Starting, Cycling
  <1>21. CASE UNCHANGED vars
    BY <1>21 DEF vars, build, running, observed, report, HistoryIsRecent,
      Control, Starting, Cycling
  <1>22. QED
    BY <1>1, <1>2, <1>3, <1>4, <1>5, <1>6, <1>7, <1>8, <1>9, <1>10, <1>11,
      <1>12, <1>13, <1>14, <1>15, <1>16, <1>17, <1>18, <1>19, <1>20, <1>21
      DEF Next, Background, Setup, Cycle, Teardown

(***************************************************************************)
(* The inductive invariant, and what follows from it.                      *)
(***************************************************************************)
(* A process that has just started satisfies the invariant.                *)
LEMMA InitIInv == Init => IInv
  <1> SUFFICES ASSUME Init PROVE IInv
    OBVIOUS
  <1>1. NoSignals \in [count : [Collectors -> Nat], kills : Seq(Nat)]
    BY DEF NoSignals
  <1>2. TypeOK
    BY <1>1, MaxEventsAssumption, MaxCyclesAssumption, LogAssumption, HistoryAssumption
      DEF Init, TypeOK, Severities
  <1>3. Control /\ Severe /\ Told /\ HistoryIsRecent
    BY DEF Init, Control, Severe, Told, HistoryIsRecent, Starting, Cycling
  <1>4. HoldsNewest(<<>>, 0, MaxOOMEvents)
    BY LogAssumption DEF HoldsNewest
  <1>5. OomLogIsNewest
    BY <1>4 DEF Init, OomLogIsNewest
  <1>6. Snapshots
    BY DEF Init, Snapshots, Gathered
  <1>7. QED
    BY <1>2, <1>3, <1>5, <1>6 DEF IInv

(* Every step keeps it.                                                    *)
LEMMA StepIInv == IInv /\ [Next]_vars => IInv'
  BY TypeStep, ControlStep, LogStep, SnapshotsStep, SevereStep, ToldStep, HistoryStep DEF IInv

(* The inductive invariant holds of every behaviour of the session.        *)
THEOREM Invariance == Spec => []IInv
  BY InitIInv, StepIInv, PTL DEF Spec

(* Every variable keeps its type; the kill log and the history keep to     *)
(* their capacities.                                                       *)
THEOREM TypeCorrect == Spec => []TypeOK
  <1>1. IInv => TypeOK
    BY DEF IInv
  <1>2. QED
    BY <1>1, Invariance, PTL

(* However many kills there are, the log holds the newest of them.         *)
THEOREM OomLogIsNewestHolds == Spec => []OomLogIsNewest
  <1>1. IInv => OomLogIsNewest
    BY DEF IInv
  <1>2. QED
    BY <1>1, Invariance, PTL

(* The AI analyzer is always given the snapshots of the cycles just before *)
(* the current one.                                                        *)
THEOREM HistoryIsRecentHolds == Spec => []HistoryIsRecent
  <1>1. IInv => HistoryIsRecent
    BY DEF IInv
  <1>2. QED
    BY <1>1, Invariance, PTL

(* A report counts everything recorded before its window ended, and shows  *)
(* every kill of it but those a full log has had to drop.                  *)
THEOREM ReportIsCompleteHolds == Spec => []ReportIsComplete
  <1>1. IInv => ReportIsComplete
    <2> SUFFICES ASSUME IInv, main \in {"diagnose", "render", "check"} PROVE ReportIsComplete
      BY DEF ReportIsComplete
    <2>1. Gathered = loaded
      BY DEF Gathered
    <2>2. \A c \in loaded : atEnd[c] <= signals.count[c] /\ signals.count[c] <= count[c]
      BY <2>1 DEF IInv, Snapshots
    <2>3. ASSUME "oom" \in loaded, NEW k \in 1..atEnd["oom"]
          PROVE  k \in Kills(signals.kills) \/ k + MaxOOMEvents <= signals.count["oom"]
      <3> DEFINE n == signals.count["oom"]
                 len == Len(signals.kills)
      <3>1. /\ n \in Nat /\ atEnd["oom"] \in Nat /\ k \in Nat \ {0} /\ k <= n
            /\ signals.kills \in Seq(Nat) /\ len \in Nat
        BY <2>2, <2>3 DEF IInv, TypeOK
      <3>2. HoldsNewest(signals.kills, n, MaxOOMEvents)
        BY <2>1, <2>3 DEF IInv, Snapshots
      <3>3. CASE k > n - len
        <4>1. k - (n - len) \in 1..len
          BY <3>1, <3>3
        <4>2. signals.kills[k - (n - len)] = n - len + (k - (n - len))
          BY <3>2, <4>1 DEF HoldsNewest
        <4>3. signals.kills[k - (n - len)] = k
          BY <3>1, <4>2
        <4>4. QED
          BY <3>1, <4>1, <4>3 DEF Kills
      <3>4. CASE ~(k > n - len)
        <4>1. len = IF n < MaxOOMEvents THEN n ELSE MaxOOMEvents
          BY <3>2 DEF HoldsNewest
        <4>2. k + MaxOOMEvents <= n
          BY <3>1, <3>4, <4>1, LogAssumption
        <4>3. QED
          BY <4>2
      <3>5. QED
        BY <3>3, <3>4
    <2>4. QED
      BY <2>2, <2>3 DEF ReportIsComplete
  <1>2. QED
    BY <1>1, Invariance, PTL

(* With --exit-code, success means that no kill was recorded before the    *)
(* last window ended, and failure that the report said so.                 *)
THEOREM ExitCodeTellsTheTruthHolds == Spec => []ExitCodeTellsTheTruth
  <1>1. IInv => ExitCodeTellsTheTruth
    BY DEF IInv, Told, ExitCodeTellsTheTruth
  <1>2. QED
    BY <1>1, Invariance, PTL

(* No loader is closed under a consumer that Stop waited for, and none is  *)
(* left open.                                                              *)
THEOREM CleanShutdownHolds == Spec => []CleanShutdown
  <1>1. IInv => CleanShutdown
    BY DEF IInv, TypeOK, Control, CleanShutdown, Starting, Cycling
  <1>2. QED
    BY <1>1, Invariance, PTL
=============================================================================
