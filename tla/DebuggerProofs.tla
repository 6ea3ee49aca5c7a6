----------------------------- MODULE DebuggerProofs -----------------------------
(* Proofs about module Debugger, for every set of threads, every program and   *)
(* every choice of the user's commands.                                        *)
EXTENDS Debugger, TLAPS

\* A source step that has not ended is below its limit.
StepsLeft == Busy => steps < StepLimit

-----------------------------------------------------------------------------
(* Types.                                                                  *)

KernelType ==
    /\ st \in [Thread -> State] /\ ev \in [Thread -> Event]
    /\ unseen \subseteq {t \in Thread : st[t] = "stopped"}

TableType ==
    /\ bp \in [Addr -> {"none", "disabled", "enabled"}] /\ temp \subseteq Addr

LEMMA StopsWithType ==
  ASSUME KernelType, NEW t \in Thread, NEW e \in Event, StopsWith(t, e)
  PROVE  KernelType'
  BY DEF KernelType, StopsWith, State

LEMMA CompletesType ==
  ASSUME KernelType, NEW t \in Thread, Completes(t)
  PROVE  KernelType'
<1>1. CASE st[t] = "stepping"
  <2>1. StopsWith(t, "step") /\ "step" \in Event
    BY <1>1 DEF Completes, Event
  <2> QED
    BY <2>1, StopsWithType
<1> QED
  BY <1>1 DEF Completes, KernelType

LEMMA AfterResumeType ==
  ASSUME KernelType, NEW T \in SUBSET Thread, NEW how \in {"running", "stepping"},
         AfterResume(T, how)
  PROVE  KernelType'
  BY DEF KernelType, AfterResume, State, Event

\* What a thread of the target does.
LEMMA ThreadStepType ==
  ASSUME TraceeTypeOK, NEW t \in Thread, NEW inserted,
         ThreadStep(t, inserted) \/ Signal(t) \/ Interrupted(t)
  PROVE  TraceeTypeOK'
<1> USE ProgramAssumption
<1>1. KernelType
  BY DEF TraceeTypeOK, KernelType
<1>2. SUFFICES KernelType' /\ pc' \in [Thread -> Addr] /\ past' \in [Thread -> BOOLEAN]
               /\ doomed' \in BOOLEAN /\ mapped' \in BOOLEAN
               /\ signals' \in 0..MaxSignals /\ interrupt' \in BOOLEAN
  BY DEF TraceeTypeOK, KernelType
<1>3. {"trap", "exit", "sigstop", "signal"} \subseteq Event
  BY DEF Event
<1>4. CASE ExecuteTrap(t, inserted)
  BY <1>1, <1>3, <1>4, StopsWithType DEF ExecuteTrap, TraceeTypeOK
<1>5. CASE ExecuteInstruction(t, inserted)
  <2>1. pc[t] \in Addr /\ Succ[pc[t]] \subseteq Addr
    BY DEF TraceeTypeOK
  <2>2. /\ pc' \in [Thread -> Addr] /\ past' \in [Thread -> BOOLEAN]
        /\ signals' \in 0..MaxSignals /\ interrupt' \in BOOLEAN
    BY <1>5, <2>1 DEF ExecuteInstruction, TraceeTypeOK
  <2>6. doomed' = doomed /\ doomed' \in BOOLEAN
    BY <1>5 DEF ExecuteInstruction, TraceeTypeOK
  <2>7. mapped' \in BOOLEAN
    BY <1>5 DEF ExecuteInstruction, TraceeTypeOK
  <2>3. ASSUME Completes(t) \/ StopsWith(t, "signal")
        PROVE  KernelType'
    BY <1>1, <1>3, <2>3, CompletesType, StopsWithType
  <2>4. ASSUME NEW u \in Thread, 
               st' = [st EXCEPT ![t] = "stopped", ![u] = "running"],
               ev' = [ev EXCEPT ![t] = "clone", ![u] = "start"],
               unseen' = unseen \cup {t}, st[u] = "none", Runs(t)
        PROVE  KernelType'
    BY <1>1, <2>4 DEF KernelType, State, Event, Runs
  <2>5. Completes(t) \/ StopsWith(t, "signal") \/ KernelType'
    BY <1>5, <2>4 DEF ExecuteInstruction
  <2> QED
    BY <2>2, <2>3, <2>5, <2>6, <2>7
<1>6. CASE ExecuteExit(t, inserted)
  BY <1>1, <1>3, <1>6, StopsWithType DEF ExecuteExit, TraceeTypeOK
<1>7. CASE FirstStop(t)
  BY <1>1, <1>3, <1>7, StopsWithType DEF FirstStop, TraceeTypeOK
<1>8. CASE Killed(t)
  <2>1. CASE StopsWith(t, "exit")
    BY <1>1, <1>3, <1>8, <2>1, StopsWithType DEF Killed, TraceeTypeOK
  <2>2. CASE ~StopsWith(t, "exit")
    BY <1>1, <1>8, <2>2 DEF Killed, KernelType, TraceeTypeOK, State, Event
  <2> QED
    BY <2>1, <2>2
<1>9. CASE Signal(t)
  BY <1>1, <1>3, <1>9, StopsWithType DEF Signal, TraceeTypeOK
<1>10. CASE Interrupted(t)
  BY <1>1, <1>3, <1>10, StopsWithType DEF Interrupted, TraceeTypeOK
<1> QED
  BY <1>4, <1>5, <1>6, <1>7, <1>8, <1>9, <1>10 DEF ThreadStep

LEMMA PrintStopType ==
  ASSUME TraceeTypeOK, TableType, NEW t \in Thread,
         NEW b \in [Addr -> {"none", "disabled", "enabled"}], NEW s0, PrintStop(t, b, s0)
  PROVE  pc' \in [Thread -> Addr] /\ past' \in [Thread -> BOOLEAN] /\ TableType' /\ cut' \subseteq cut
<1> DEFINE hit == Hit(t, b, s0)
<1>1. hit \subseteq Addr /\ (hit # {} => Candidate(t) \in Addr)
  BY DEF Hit
<1>2. pc' \in [Thread -> Addr] /\ past' \in [Thread -> BOOLEAN]
  BY <1>1 DEF PrintStop, TraceeTypeOK
<1>3. TableType' /\ cut' \subseteq cut
  BY <1>1 DEF PrintStop, TableType
<1> QED
  BY <1>2, <1>3

\* The variables that the target's threads leave alone.
DebuggerType ==
    /\ phase \in {"prompt", "stepover", "overwait", "resume", "wait", "report", "quit"}
    /\ cmd \in {"continue", "stepi", "step", "finish"} /\ failed \in BOOLEAN
    /\ cut \subseteq Thread /\ steps \in 0..StepLimit
    /\ line \in {Line[a] : a \in Addr} \cup {NoLine}
    /\ selected \in Thread /\ alive \in BOOLEAN /\ stopped \subseteq Thread
    /\ TableType
    /\ pending \subseteq LibAddr /\ wanted \subseteq Addr
    /\ libSeen \in BOOLEAN /\ lifted \subseteq Addr
    /\ StepsLeft

\* What refresh_modules and resolve_pending_breakpoints may insert.
LEMMA ResolvingType ==
  ASSUME DebuggerType
  PROVE  /\ Resolved \subseteq pending /\ New \subseteq Resolved /\ Resolved \subseteq Addr
         /\ Resolving \in [Addr -> {"none", "disabled", "enabled"}]
         /\ New = {} => Resolving = bp
<1>1. /\ Resolved \subseteq pending /\ New \subseteq Resolved /\ Resolved \subseteq Addr
      /\ bp \in [Addr -> {"none", "disabled", "enabled"}]
  BY ProgramAssumption DEF Resolved, New, DebuggerType, TableType
<1> QED
  BY <1>1 DEF Resolving

LEMMA TypeParts ==
  TypeOK /\ StepsLeft <=> TraceeTypeOK /\ DebuggerType
  BY DEF TypeOK, DebuggerType, TableType

LEMMA UserCommandType ==
  ASSUME TypeOK, StepsLeft, UserCommand
  PROVE  TypeOK' /\ StepsLeft'
<1> USE ProgramAssumption, ThreadAssumption, CommandAssumption
<1>1. TraceeTypeOK /\ DebuggerType
  BY TypeParts
<1>2. SUFFICES TraceeTypeOK' /\ DebuggerType'
  BY TypeParts DEF TypeOK, DebuggerType, TableType
<1> USE <1>1
<1>3. ASSUME NEW a \in Addr, Break(a) \/ Delete(a) \/ Enable(a) \/ Disable(a)
      PROVE  TraceeTypeOK' /\ DebuggerType'
  <2>1. UNCHANGED <<tracee, phase, failed, cut, locals, libSeen, lifted, threads>>
    BY <1>3 DEF Break, Delete, Enable, Disable, Quiet
  <2>2. TableType'
    BY <1>3 DEF Break, Delete, Enable, Disable, DebuggerType, TableType, SetBp, table
  <2>3. pending' \subseteq LibAddr /\ wanted' \subseteq Addr
    BY <1>3 DEF Break, Delete, Enable, Disable, DebuggerType, TableType, Unresolved
  <2> QED
    BY <2>1, <2>2, <2>3 DEF tracee, locals, threads, TraceeTypeOK, DebuggerType, StepsLeft, Busy
<1>4. ASSUME NEW t \in Thread, SelectThread(t)
      PROVE  TraceeTypeOK' /\ DebuggerType'
  <2>1. /\ pc' \in [Thread -> Addr] /\ past' \in [Thread -> BOOLEAN] /\ TableType'
        /\ cut' \subseteq Thread
    BY <1>4, PrintStopType DEF SelectThread, DebuggerType, TableType
  <2>2. /\ UNCHANGED <<st, ev, unseen, kernel, phase, failed, locals, libSeen, lifted, alive,
                      stopped, pending, wanted>>
        /\ selected' = t
    BY <1>4 DEF SelectThread
  <2>3. TraceeTypeOK'
    BY <2>1, <2>2 DEF kernel, TraceeTypeOK
  <2>4. DebuggerType'
    BY <2>1, <2>2 DEF locals, DebuggerType, StepsLeft, Busy
  <2> QED
    BY <2>3, <2>4
<1>5. ASSUME NEW c \in Cmd, Begin(c)
      PROVE  TraceeTypeOK' /\ DebuggerType'
  <2>1. TableType' /\ failed' \in BOOLEAN /\ phase' \in {"prompt", "stepover"}
    <3>1. CASE c # "finish"
      BY <1>5, <3>1 DEF Begin, DebuggerType, TableType
    <3>2. CASE c = "finish"
      <4>1. PICK a \in ReturnAddr :
              /\ IF bp[a] # "none" THEN UNCHANGED <<bp, temp>>
                 ELSE /\ SetBp(a, IF CanAccess(a) THEN "enabled" ELSE "disabled")
                      /\ temp' = temp \cup {a}
              /\ failed' = (bp[a] = "none" /\ ~CanAccess(a))
              /\ phase' = IF failed' THEN "prompt" ELSE "stepover"
        BY <1>5, <3>2 DEF Begin
      <4>2. ASSUME bp[a] # "none"
            PROVE  TableType'
        BY <4>1, <4>2 DEF DebuggerType, TableType
      <4>3. ASSUME bp[a] = "none"
            PROVE  TableType'
        <5>1. a \in Addr /\ temp' = temp \cup {a}
          BY <4>1, <4>3
        <5>2. bp' \in [Addr -> {"none", "disabled", "enabled"}]
          BY <4>1, <4>3 DEF DebuggerType, TableType, SetBp
        <5> QED
          BY <5>1, <5>2 DEF DebuggerType, TableType
      <4>4. failed' \in BOOLEAN /\ phase' \in {"prompt", "stepover"}
        BY <4>1
      <4> QED
        BY <4>2, <4>3, <4>4
    <3> QED
      BY <3>1, <3>2
  <2>2. cmd' \in {"continue", "stepi", "step", "finish"}
        /\ line' \in {Line[a] : a \in Addr} \cup {NoLine}
    BY <1>5 DEF Begin, TraceeTypeOK, DebuggerType
  <2>3. steps' = 0
    BY <1>5 DEF Begin
  <2>4. UNCHANGED <<tracee, cut, threads, pending, libSeen, lifted, wanted>>
    BY <1>5 DEF Begin
  <2>5. TraceeTypeOK'
    BY <2>4 DEF tracee, TraceeTypeOK
  <2> QED
    BY <2>1, <2>2, <2>3, <2>4, <2>5 DEF threads, DebuggerType, StepsLeft, Busy
<1>6. CASE Detach
  <2>1. TableType' /\ st' \in [Thread -> State] /\ unseen' = {}
    BY <1>6 DEF Detach, DebuggerType, TableType, State, TraceeTypeOK
  <2> QED
    BY <1>6, <2>1 DEF Detach, kernel, locals, threads, TraceeTypeOK, DebuggerType, StepsLeft, Busy
<1> QED
  BY <1>3, <1>4, <1>5, <1>6 DEF UserCommand

LEMMA DebuggerStepType ==
  ASSUME TypeOK, StepsLeft, DebuggerStep
  PROVE  TypeOK' /\ StepsLeft'
<1> USE ProgramAssumption, ThreadAssumption, CommandAssumption
<1>1. TraceeTypeOK /\ DebuggerType /\ KernelType
  BY TypeParts DEF TraceeTypeOK, KernelType
<1>2. SUFFICES TraceeTypeOK' /\ DebuggerType'
  BY TypeParts DEF TypeOK, DebuggerType, TableType
<1> USE <1>1
<1>3. CASE StepOverBreakpoint
  <2>1. UNCHANGED <<cmd, cut, line, steps, selected, alive, temp, pending, libSeen, wanted>>
        /\ phase = "stepover" /\ phase' \in {"prompt", "resume", "overwait"} /\ failed' \in BOOLEAN
    BY <1>3 DEF StepOverBreakpoint, Fail, DebuggerType
  <2>2. /\ bp' \in [Addr -> {"none", "disabled", "enabled"}] /\ lifted' \subseteq Addr
        /\ stopped' \subseteq Thread
    <3>1. bp' = bp \/ \E a \in Addr : bp' = [bp EXCEPT ![a] = "disabled"]
      BY <1>3 DEF StepOverBreakpoint, SetBp, Inserted
    <3>2. bp' \in [Addr -> {"none", "disabled", "enabled"}]
      BY <3>1 DEF DebuggerType, TableType
    <3>3. lifted' \subseteq Addr /\ stopped' \subseteq Thread
      BY <1>3 DEF StepOverBreakpoint, DebuggerType, Inserted
    <3> QED
      BY <3>2, <3>3
  <2>3. TableType'
    BY <2>1, <2>2 DEF DebuggerType, TableType
  <2>4. TraceeTypeOK'
    <3>1. CASE UNCHANGED tracee
      BY <3>1 DEF tracee, TraceeTypeOK
    <3>2. CASE AfterResume({selected}, "stepping") /\ UNCHANGED <<pc, past, kernel>>
      <4>1. KernelType'
        BY <3>2, AfterResumeType DEF DebuggerType
      <4> QED
        BY <3>2, <4>1 DEF kernel, KernelType, TraceeTypeOK
    <3>3. CASE Killed(selected)
      BY <3>3, ThreadStepType DEF ThreadStep, DebuggerType
    <3> QED
      BY <1>3, <3>1, <3>2, <3>3 DEF StepOverBreakpoint
  <2>5. DebuggerType'
    BY <2>1, <2>2, <2>3 DEF DebuggerType, StepsLeft, Busy
  <2> QED
    BY <2>4, <2>5
<1>4. CASE ResumeThreads
  <2> DEFINE targets == Targets(cmd)
             done == {t \in targets : \A u \in targets : u <= t => Ptrace(u)}
  <2>1. done \subseteq Thread /\ Request(cmd) \in {"running", "stepping"}
    BY DEF Targets, Request, DebuggerType
  <2>2. KernelType'
    BY <1>4, <2>1, AfterResumeType DEF ResumeThreads
  <2>3. phase' \in {"wait", "prompt"} /\ failed' \in BOOLEAN /\ phase = "resume"
    BY <1>4 DEF ResumeThreads, Fail, DebuggerType
  <2>4. UNCHANGED <<pc, past, kernel, cut, locals, selected, alive, table, libSeen, lifted>>
        /\ stopped' \subseteq stopped
    BY <1>4 DEF ResumeThreads
  <2>5. TraceeTypeOK'
    BY <2>2, <2>4 DEF kernel, KernelType, TraceeTypeOK
  <2>6. DebuggerType'
    BY <2>3, <2>4 DEF locals, table, DebuggerType, TableType, StepsLeft, Busy
  <2> QED
    BY <2>5, <2>6
<1>5. CASE WaitFails
  BY <1>5 DEF WaitFails, Fail, tracee, locals, threads, table, TraceeTypeOK, DebuggerType,
              TableType, StepsLeft, Busy
<1>6. CASE Report
  <2>1. New \subseteq Addr /\ Resolving \in [Addr -> {"none", "disabled", "enabled"}]
    BY ResolvingType
  <2>2. steps < StepLimit /\ libSeen' \in BOOLEAN /\ pending' \subseteq LibAddr
        /\ wanted' \subseteq Addr
    BY <1>6, <2>1 DEF Report, Seen, DebuggerType, StepsLeft, Busy, TraceeTypeOK
  <2>3. UNCHANGED <<st, ev, unseen, kernel, cmd, line, threads, lifted>>
    BY <1>6 DEF Report
  <2>4. /\ pc' \in [Thread -> Addr] /\ past' \in [Thread -> BOOLEAN] /\ TableType'
        /\ cut' \subseteq Thread
    <3>1. CASE PrintStop(selected, Resolving, stopped)
      BY <2>1, <3>1, PrintStopType DEF DebuggerType
    <3>2. CASE bp' = Resolving /\ UNCHANGED <<pc, past, cut, temp>>
      BY <2>1, <3>2 DEF TraceeTypeOK, DebuggerType, TableType
    <3> QED
      BY <1>6, <3>1, <3>2 DEF Report
  <2>5. failed' \in BOOLEAN /\ phase' \in {"prompt", "stepover"} /\ steps' \in 0..StepLimit
        /\ (phase' = "stepover" => steps' < StepLimit)
    <3>1. steps + 1 \in 0..StepLimit /\ steps \in 0..StepLimit
      BY <2>2 DEF DebuggerType
    <3> QED
      BY <1>6, <3>1 DEF Report, Fail, DebuggerType
  <2>6. TraceeTypeOK'
    BY <2>3, <2>4 DEF kernel, TraceeTypeOK
  <2>7. DebuggerType'
    BY <2>2, <2>3, <2>4, <2>5 DEF threads, DebuggerType, StepsLeft, Busy
  <2> QED
    BY <2>6, <2>7
<1>11. CASE ReportThrows
  <2>1. /\ UNCHANGED <<tracee, locals, temp, threads, lifted>>
        /\ phase' = "prompt" /\ failed' = TRUE /\ cut' \subseteq Thread
    BY <1>11 DEF ReportThrows, Fail, LeftBehind, DebuggerType
  <2>2. /\ bp' \in [Addr -> {"none", "disabled", "enabled"}] /\ pending' \subseteq LibAddr
        /\ wanted' \subseteq Addr /\ libSeen' \in BOOLEAN
    <3>1. bp' \in [Addr -> {"none", "disabled", "enabled"}]
      <4>1. CASE bp' = bp
        BY <4>1 DEF DebuggerType, TableType
      <4>2. CASE bp' # bp
        <5>1. PICK bad \in New, done \in SUBSET Resolved :
                bp' = [a \in Addr |-> IF a = bad THEN "disabled"
                                     ELSE IF a \in done THEN Resolving[a] ELSE bp[a]]
          BY <1>11, <4>2 DEF ReportThrows
        <5> QED
          BY <5>1, ResolvingType DEF DebuggerType, TableType
      <4> QED
        BY <4>1, <4>2
    <3>2. pending' \subseteq LibAddr /\ wanted' \subseteq Addr
      BY <1>11, ResolvingType DEF ReportThrows, DebuggerType
    <3>3. libSeen' \in BOOLEAN
      BY <1>11 DEF ReportThrows, Seen, DebuggerType, TraceeTypeOK
    <3> QED
      BY <3>1, <3>2, <3>3
  <2>3. TraceeTypeOK'
    BY <2>1 DEF tracee, TraceeTypeOK
  <2>4. DebuggerType'
    BY <2>1, <2>2 DEF locals, threads, DebuggerType, TableType, StepsLeft, Busy
  <2> QED
    BY <2>3, <2>4
<1>7. ASSUME NEW t \in Thread, OverStop(t)
      PROVE  TraceeTypeOK' /\ DebuggerType'
  <2>1. Reenabled \in [Addr -> {"none", "disabled", "enabled"}]
    BY DEF Reenabled, DebuggerType, TableType
  <2>2. /\ pc' \in [Thread -> Addr] /\ past' \in [Thread -> BOOLEAN] /\ TableType'
        /\ cut' \subseteq Thread
    BY <1>7, <2>1, PrintStopType DEF OverStop, LeftBehind, DebuggerType, TableType, TraceeTypeOK
  <2>3. phase' \in {"prompt", "resume"} /\ failed' \in BOOLEAN /\ selected' \in Thread
        /\ stopped' \subseteq Thread
    BY <1>7 DEF OverStop, Fail, Recorded, DebuggerType
  <2> QED
    BY <1>7, <2>2, <2>3 DEF OverStop, kernel, locals, TraceeTypeOK, DebuggerType, StepsLeft, Busy
<1>8. ASSUME NEW t \in Thread, OverExit(t)
      PROVE  TraceeTypeOK' /\ DebuggerType'
  <2>1. KernelType'
    BY <1>8 DEF OverExit, Reapable, KernelType, State
  <2> QED
    BY <1>8, <2>1 DEF OverExit, kernel, locals, table, KernelType, TraceeTypeOK, DebuggerType,
                      TableType, StepsLeft, Busy
<1>9. ASSUME NEW t \in Thread, CollectStop(t)
      PROVE  TraceeTypeOK' /\ DebuggerType'
  BY <1>9 DEF CollectStop, Recorded, kernel, locals, table, TraceeTypeOK, DebuggerType,
              TableType, StepsLeft, Busy
<1>10. ASSUME NEW t \in Thread, CollectExit(t)
       PROVE  TraceeTypeOK' /\ DebuggerType'
  <2>1. KernelType'
    BY <1>10 DEF CollectExit, Reapable, KernelType, State
  <2>2. alive' \in BOOLEAN /\ failed' \in BOOLEAN
    BY <1>10 DEF CollectExit, AliveAfter, DebuggerType
  <2> QED
    BY <1>10, <2>1, <2>2 DEF CollectExit, kernel, locals, table, KernelType, TraceeTypeOK,
                             DebuggerType, TableType, StepsLeft, Busy
<1> QED
  BY <1>3, <1>4, <1>5, <1>6, <1>7, <1>8, <1>9, <1>10, <1>11 DEF DebuggerStep

LEMMA TargetType ==
  ASSUME TypeOK, StepsLeft, NEW t \in Thread,
         TargetStep(t) \/ TargetSignal(t) \/ TargetInterrupted(t)
  PROVE  TypeOK' /\ StepsLeft'
<1>1. TraceeTypeOK /\ DebuggerType
  BY TypeParts
<1>2. TraceeTypeOK'
  BY <1>1, ThreadStepType DEF TargetStep, TargetSignal, TargetInterrupted
<1>3. cut' \subseteq Thread
  BY <1>1 DEF TargetStep, TargetSignal, TargetInterrupted, DebuggerType
<1>4. Untouched
  BY DEF TargetStep, TargetSignal, TargetInterrupted
<1>5. DebuggerType'
  BY <1>1, <1>3, <1>4 DEF Untouched, threads, table, DebuggerType, TableType, StepsLeft, Busy
<1> QED
  BY <1>2, <1>5, TypeParts DEF TypeOK, DebuggerType, TableType

\* Types and the step limit together are inductive.
LEMMA TypeInvariant == Spec => [](TypeOK /\ StepsLeft)
<1>1. Init => TypeOK /\ StepsLeft
  <2> SUFFICES ASSUME Init PROVE TypeOK /\ StepsLeft
    OBVIOUS
  <2> USE ProgramAssumption, ThreadAssumption, CommandAssumption
  <2>1. TraceeTypeOK
    <3>1. st \in [Thread -> State] /\ ev \in [Thread -> Event]
      BY DEF Init, TraceeInit, State, Event
    <3>2. pc \in [Thread -> Addr] /\ past \in [Thread -> BOOLEAN]
      BY DEF Init, TraceeInit
    <3>3. doomed \in BOOLEAN /\ mapped \in BOOLEAN /\ interrupt \in BOOLEAN
      BY Zenon DEF Init, TraceeInit
    <3>4. unseen = {} /\ signals \in 0..MaxSignals
      BY DEF Init, TraceeInit
    <3> QED
      BY <3>1, <3>2, <3>3, <3>4 DEF TraceeTypeOK
  <2>2. bp \in [Addr -> {"none", "disabled", "enabled"}]
    BY DEF Init
  <2>3. failed \in BOOLEAN /\ alive \in BOOLEAN /\ libSeen \in BOOLEAN
    BY Zenon DEF Init
  <2>4. /\ phase = "prompt" /\ cmd = "continue" /\ cut = {} /\ line = NoLine
        /\ steps = 0 /\ selected = Leader /\ stopped = {Leader} /\ temp = {} /\ pending = {}
        /\ lifted = {} /\ wanted = {}
    BY DEF Init
  <2> QED
    BY <2>1, <2>2, <2>3, <2>4 DEF TypeOK, StepsLeft, Busy
<1>2. TypeOK /\ StepsLeft /\ [Next]_vars => (TypeOK /\ StepsLeft)'
  <2> SUFFICES ASSUME TypeOK, StepsLeft, [Next]_vars PROVE TypeOK' /\ StepsLeft'
    OBVIOUS
  <2>1. CASE UserCommand
    BY <2>1, UserCommandType
  <2>2. CASE Interrupt
    <3>1. TraceeTypeOK'
      BY <2>2, ProgramAssumption DEF Interrupt, TypeOK, TraceeTypeOK
    <3> QED
      BY <2>2, <3>1 DEF Interrupt, debugger, TypeOK, StepsLeft, Busy
  <2>3. CASE DebuggerStep
    BY <2>3, DebuggerStepType
  <2>4. CASE \E t \in Thread : TargetStep(t) \/ TargetSignal(t) \/ TargetInterrupted(t)
    BY <2>4, TargetType
  <2>5. CASE UNCHANGED vars
    BY <2>5 DEF vars, tracee, debugger, TypeOK, TraceeTypeOK, StepsLeft, Busy
  <2> QED
    BY <2>1, <2>2, <2>3, <2>4, <2>5 DEF Next
<1> QED
  BY <1>1, <1>2, PTL DEF Spec

\* Every variable keeps its type; a source step in progress stays under its limit.
THEOREM TypeCorrect == Spec => []TypeOK
  BY TypeInvariant, PTL

-----------------------------------------------------------------------------
(* threads_ against the kernel.                                            *)

\* What one step of a target's thread does to the states of them all: it runs,
\* or is being killed, and what stops is seen to stop.
LEMMA ThreadMoves ==
  ASSUME TraceeTypeOK, NEW t \in Thread, NEW inserted,
         ThreadStep(t, inserted) \/ Signal(t) \/ Interrupted(t)
  PROVE  /\ Runs(t) \/ (doomed /\ Live(t))
         /\ doomed => doomed'
         /\ t \in unseen' <=> st'[t] = "stopped"
         /\ \A u \in Thread \ {t} :
              \/ st'[u] = st[u] /\ (u \in unseen' <=> u \in unseen)
              \/ st[u] = "none" /\ st'[u] = "running" /\ u \notin unseen' /\ Runs(t)
<1> DEFINE Moves ==
      /\ t \in unseen' <=> st'[t] = "stopped"
      /\ \A u \in Thread \ {t} :
           \/ st'[u] = st[u] /\ (u \in unseen' <=> u \in unseen)
           \/ st[u] = "none" /\ st'[u] = "running" /\ u \notin unseen' /\ Runs(t)
<1>1. st \in [Thread -> State] /\ unseen \subseteq {u \in Thread : st[u] = "stopped"}
  BY DEF TraceeTypeOK
<1>2. Runs(t) \/ (doomed /\ Live(t))
  BY DEF ThreadStep, ExecuteTrap, ExecuteInstruction, ExecuteExit, FirstStop, Killed, Dying,
         Signal, Interrupted
<1>3. doomed => doomed'
  BY DEF ThreadStep, ExecuteTrap, ExecuteInstruction, ExecuteExit, FirstStop, Killed,
         Signal, Interrupted
<1>4. ASSUME NEW e, StopsWith(t, e)
      PROVE  Moves
  BY <1>1, <1>4 DEF StopsWith
<1>5. ASSUME Completes(t), Runs(t)
      PROVE  Moves
  BY <1>1, <1>4, <1>5 DEF Completes, Runs
<1>6. ASSUME NEW u \in Thread, Runs(t), st[u] = "none",
             st' = [st EXCEPT ![t] = "stopped", ![u] = "running"],
             unseen' = unseen \cup {t}
      PROVE  Moves
  BY <1>1, <1>6 DEF Runs
<1>7. ASSUME st' = [st EXCEPT ![t] = "zombie"], unseen' = unseen \ {t}
      PROVE  Moves
  BY <1>1, <1>7
<1>8. \/ \E e : StopsWith(t, e)
      \/ Completes(t) /\ Runs(t)
      \/ /\ Runs(t)
         /\ \E u \in Thread : /\ st[u] = "none" /\ unseen' = unseen \cup {t}
                              /\ st' = [st EXCEPT ![t] = "stopped", ![u] = "running"]
      \/ st' = [st EXCEPT ![t] = "zombie"] /\ unseen' = unseen \ {t}
  <2>1. CASE ExecuteInstruction(t, inserted)
    BY <2>1 DEF ExecuteInstruction
  <2>2. CASE Killed(t)
    BY <2>2 DEF Killed
  <2>3. CASE ExecuteTrap(t, inserted) \/ ExecuteExit(t, inserted) \/ FirstStop(t)
             \/ Signal(t) \/ Interrupted(t)
    BY <2>3 DEF ExecuteTrap, ExecuteExit, FirstStop, Signal, Interrupted
  <2> QED
    BY <2>1, <2>2, <2>3 DEF ThreadStep
<1>9. Moves
  BY <1>4, <1>5, <1>6, <1>7, <1>8
<1> QED
  BY <1>2, <1>3, <1>9

\* Resuming threads of the table, and recording a stop, keep it accurate.
LEMMA ResumeKeeps ==
  ASSUME TypeOK, ThreadsAccurate, phase # "quit", NEW T \in SUBSET stopped,
         \A u \in T : Ptrace(u), NEW how \in {"running", "stepping"},
         AfterResume(T, how), stopped' = stopped \ T, doomed' = doomed
  PROVE  ThreadsAccurate' /\ \A u \in Thread \ T : st'[u] = st[u] /\ (u \in unseen' <=> u \in unseen)
  BY DEF TypeOK, TraceeTypeOK, ThreadsAccurate, AfterResume, Ptrace

LEMMA RecordKeeps ==
  ASSUME TypeOK, ThreadsAccurate, phase # "quit", NEW t \in unseen,
         unseen' = unseen \ {t}, stopped' = Recorded(t), UNCHANGED <<st, doomed>>
  PROVE  ThreadsAccurate'
  BY DEF TypeOK, TraceeTypeOK, ThreadsAccurate, Recorded, Ptrace

LEMMA ReapKeeps ==
  ASSUME TypeOK, ThreadsAccurate, phase # "quit", NEW t \in Thread, Reapable(t),
         st' = [st EXCEPT ![t] = "gone"], stopped' = stopped \ {t}, UNCHANGED <<unseen, doomed>>
  PROVE  ThreadsAccurate'
  BY DEF TypeOK, TraceeTypeOK, ThreadsAccurate, Reapable, Ptrace

\* The inductive invariant.
ThreadsInv ==
    TypeOK /\ StepsLeft /\ ThreadsAccurate /\ DeadMeansGone /\ ContinueLeavesNoneStopped

\* At the prompt nothing is resumed, but for a target that is left alone.
LEMMA UserCommandThreads ==
  ASSUME ThreadsInv, UserCommand
  PROVE  ThreadsAccurate' /\ DeadMeansGone' /\ ContinueLeavesNoneStopped'
<1> USE DEF ThreadsInv
<1>1. phase = "prompt"
  BY DEF UserCommand, Break, Delete, Enable, Disable, SelectThread, Begin, Detach, AtPrompt
<1>2. CASE Detach
  BY <1>2 DEF Detach, TypeOK, TraceeTypeOK, ThreadsAccurate, DeadMeansGone,
              ContinueLeavesNoneStopped, threads
<1>3. CASE ~Detach
  <2>1. UNCHANGED <<st, unseen, doomed, alive, stopped>> /\ phase' \in {"prompt", "stepover"}
    BY <1>1, <1>3 DEF UserCommand, Break, Delete, Enable, Disable, SelectThread, Begin, Quiet,
                      tracee, kernel, threads, AtPrompt
  <2> QED
    BY <1>1, <2>1 DEF ThreadsAccurate, DeadMeansGone, ContinueLeavesNoneStopped, Ptrace
<1> QED
  BY <1>2, <1>3

LEMMA DebuggerStepThreads ==
  ASSUME ThreadsInv, DebuggerStep
  PROVE  ThreadsAccurate' /\ DeadMeansGone' /\ ContinueLeavesNoneStopped'
<1> USE DEF ThreadsInv
<1>1. phase # "quit" /\ phase # "prompt"
  BY DEF DebuggerStep, StepOverBreakpoint, ResumeThreads, WaitFails, Report, ReportThrows,
         OverStop, OverExit, CollectStop, CollectExit
<1>2. CASE UNCHANGED <<st, unseen, doomed, alive, stopped>> /\ phase' # "wait"
  BY <1>1, <1>2 DEF ThreadsAccurate, DeadMeansGone, ContinueLeavesNoneStopped, Ptrace
<1>3. ASSUME NEW T \in SUBSET stopped, \A u \in T : Ptrace(u),
             NEW how \in {"running", "stepping"},
             AfterResume(T, how), stopped' = stopped \ T, UNCHANGED <<doomed, alive>>
      PROVE  ThreadsAccurate' /\ DeadMeansGone'
  <2>1. ThreadsAccurate' /\ \A u \in Thread \ T : st'[u] = st[u]
    BY <1>1, <1>3, ResumeKeeps
  <2>2. ~alive => T = {}
    BY <1>3 DEF DeadMeansGone, Ptrace, TypeOK
  <2> QED
    BY <1>3, <2>1, <2>2 DEF DeadMeansGone, TypeOK
<1>4. CASE StepOverBreakpoint
  <2>1. CASE AfterResume({selected}, "stepping") /\ stopped' = stopped \ {selected}
             /\ Ptrace(selected) /\ phase' = "overwait" /\ UNCHANGED <<doomed, alive>>
    <3>1. CASE selected \in stopped
      BY <1>3, <2>1, <3>1 DEF ContinueLeavesNoneStopped
    <3>2. CASE selected \notin stopped
      BY <1>1, <2>1, <3>2 DEF TypeOK, TraceeTypeOK, ThreadsAccurate, AfterResume, Ptrace,
                              DeadMeansGone, ContinueLeavesNoneStopped
    <3> QED
      BY <3>1, <3>2
  <2>2. UNCHANGED alive
    BY <1>4 DEF StepOverBreakpoint
  <2>3. \/ UNCHANGED <<st, unseen, doomed, stopped>> /\ phase' \in {"prompt", "resume"}
        \/ /\ AfterResume({selected}, "stepping") /\ stopped' = stopped \ {selected}
           /\ Ptrace(selected) /\ phase' = "overwait" /\ UNCHANGED doomed
        \/ Killed(selected) /\ stopped' = stopped /\ phase' = "prompt"
    BY <1>4 DEF StepOverBreakpoint, CanAccess, Fail, tracee, kernel
  <2>4. CASE UNCHANGED <<st, unseen, doomed, stopped>> /\ phase' \in {"prompt", "resume"}
    BY <1>2, <2>2, <2>4
  <2>5. CASE Killed(selected) /\ stopped' = stopped /\ phase' = "prompt"
    <3>1. /\ doomed /\ doomed' /\ Live(selected)
          /\ selected \in unseen' <=> st'[selected] = "stopped"
          /\ \A u \in Thread \ {selected} :
               \/ st'[u] = st[u] /\ (u \in unseen' <=> u \in unseen)
               \/ st[u] = "none" /\ st'[u] = "running" /\ u \notin unseen' /\ Runs(selected)
      BY <2>5, ThreadMoves DEF TypeOK, ThreadStep, Killed, Dying
    <3> QED
      BY <1>1, <2>2, <2>5, <3>1 DEF TypeOK, ThreadsAccurate, DeadMeansGone,
                                   ContinueLeavesNoneStopped, Ptrace, Runs, Live
  <2> QED
    BY <2>1, <2>2, <2>3, <2>4, <2>5
<1>5. CASE ResumeThreads
  <2> DEFINE targets == Targets(cmd)
             done == {t \in targets : \A u \in targets : u <= t => Ptrace(u)}
  <2>1. targets \subseteq stopped /\ targets \subseteq Nat
    BY ThreadAssumption DEF Targets, TypeOK
  <2>2. done \subseteq stopped /\ \A u \in done : Ptrace(u)
    BY <2>1
  <2>3. Request(cmd) \in {"running", "stepping"} /\ AfterResume(done, Request(cmd))
        /\ stopped' = stopped \ done /\ UNCHANGED <<doomed, alive>>
    BY <1>5 DEF ResumeThreads, Request, kernel
  <2>4. ThreadsAccurate' /\ DeadMeansGone'
    BY <1>3, <2>2, <2>3
  <2>5. ASSUME phase' = "wait", cmd' \in {"continue", "finish"}, NEW t \in Thread, Ptrace(t)'
        PROVE  t \in unseen'
    <3>1. done = stopped
      BY <1>5, <2>5 DEF ResumeThreads, Fail, Targets, locals
    <3>2. t \notin stopped
      BY <2>3, <2>5, <3>1 DEF AfterResume, Ptrace
    <3> QED
      BY <1>1, <2>3, <2>5, <3>1, <3>2 DEF AfterResume, Ptrace, ThreadsAccurate
  <2> QED
    BY <2>4, <2>5 DEF ContinueLeavesNoneStopped
<1>6. CASE WaitFails \/ Report \/ ReportThrows
  <2>1. UNCHANGED <<st, unseen, doomed, alive, stopped>>
    BY <1>6 DEF WaitFails, Report, ReportThrows, tracee, threads, kernel
  <2>2. phase' \in {"prompt", "stepover"}
    BY <1>6 DEF WaitFails, Report, ReportThrows, Fail
  <2> QED
    BY <1>2, <2>1, <2>2
<1>7. ASSUME NEW t \in Thread, OverStop(t)
      PROVE  ThreadsAccurate' /\ DeadMeansGone' /\ ContinueLeavesNoneStopped'
  <2>1. ThreadsAccurate'
    BY <1>1, <1>7, RecordKeeps DEF OverStop, kernel
  <2> QED
    BY <1>7, <2>1 DEF OverStop, Fail, DeadMeansGone, ContinueLeavesNoneStopped
<1>8. ASSUME NEW t \in Thread, OverExit(t)
      PROVE  ThreadsAccurate' /\ DeadMeansGone' /\ ContinueLeavesNoneStopped'
  <2>1. ThreadsAccurate'
    BY <1>1, <1>8, ReapKeeps DEF OverExit, kernel
  <2> QED
    BY <1>8, <2>1 DEF OverExit, DeadMeansGone, ContinueLeavesNoneStopped, TypeOK, TraceeTypeOK
<1>9. ASSUME NEW t \in Thread, CollectStop(t)
      PROVE  ThreadsAccurate' /\ DeadMeansGone' /\ ContinueLeavesNoneStopped'
  <2>1. ThreadsAccurate'
    BY <1>1, <1>9, RecordKeeps DEF CollectStop, kernel
  <2> QED
    BY <1>9, <2>1 DEF CollectStop, DeadMeansGone, ContinueLeavesNoneStopped
<1>10. ASSUME NEW t \in Thread, CollectExit(t)
       PROVE  ThreadsAccurate' /\ DeadMeansGone' /\ ContinueLeavesNoneStopped'
  <2>1. ThreadsAccurate'
    BY <1>1, <1>10, ReapKeeps DEF CollectExit, kernel
  <2>2. DeadMeansGone'
    BY <1>10, ThreadAssumption DEF CollectExit, AliveAfter, Reapable, DeadMeansGone, TypeOK,
                                   TraceeTypeOK
  <2> QED
    BY <1>10, <2>1, <2>2 DEF CollectExit, ContinueLeavesNoneStopped
<1> QED
  BY <1>4, <1>5, <1>6, <1>7, <1>8, <1>9, <1>10 DEF DebuggerStep

LEMMA TargetThreads ==
  ASSUME ThreadsInv, NEW t \in Thread,
         TargetStep(t) \/ TargetSignal(t) \/ TargetInterrupted(t)
  PROVE  ThreadsAccurate' /\ DeadMeansGone' /\ ContinueLeavesNoneStopped'
<1> USE DEF ThreadsInv
<1>1. TraceeTypeOK /\ phase # "quit" /\ UNCHANGED <<phase, cmd, alive, stopped>>
  BY DEF TargetStep, TargetSignal, TargetInterrupted, Untouched, threads, TypeOK
<1>2. /\ Runs(t) \/ (doomed /\ Live(t))
      /\ doomed => doomed'
      /\ t \in unseen' <=> st'[t] = "stopped"
      /\ \A u \in Thread \ {t} :
           \/ st'[u] = st[u] /\ (u \in unseen' <=> u \in unseen)
           \/ st[u] = "none" /\ st'[u] = "running" /\ u \notin unseen' /\ Runs(t)
  BY <1>1, ThreadMoves DEF TargetStep, TargetSignal, TargetInterrupted
<1>3. ThreadsAccurate'
  BY <1>1, <1>2 DEF ThreadsAccurate, Ptrace, Runs, Live
<1>4. DeadMeansGone'
  BY <1>1, <1>2 DEF DeadMeansGone, Runs, Live
<1>5. ContinueLeavesNoneStopped'
  BY <1>1, <1>2 DEF ContinueLeavesNoneStopped, Ptrace
<1> QED
  BY <1>3, <1>4, <1>5

LEMMA ThreadsInvariant == Spec => []ThreadsInv
<1>1. Init => ThreadsAccurate /\ DeadMeansGone /\ ContinueLeavesNoneStopped
  BY DEF Init, TraceeInit, ThreadsAccurate, DeadMeansGone, ContinueLeavesNoneStopped, Ptrace
<1>2. ThreadsInv /\ [Next]_vars => (ThreadsAccurate /\ DeadMeansGone /\ ContinueLeavesNoneStopped)'
  <2> SUFFICES ASSUME ThreadsInv, [Next]_vars
               PROVE  ThreadsAccurate' /\ DeadMeansGone' /\ ContinueLeavesNoneStopped'
    OBVIOUS
  <2>1. CASE UserCommand
    BY <2>1, UserCommandThreads
  <2>2. CASE Interrupt \/ UNCHANGED vars
    BY <2>2 DEF Interrupt, vars, tracee, debugger, ThreadsInv, ThreadsAccurate, DeadMeansGone,
                ContinueLeavesNoneStopped, Ptrace
  <2>3. CASE DebuggerStep
    BY <2>3, DebuggerStepThreads
  <2>4. CASE \E t \in Thread : TargetStep(t) \/ TargetSignal(t) \/ TargetInterrupted(t)
    BY <2>4, TargetThreads
  <2> QED
    BY <2>1, <2>2, <2>3, <2>4 DEF Next
<1> QED
  BY <1>1, <1>2, TypeInvariant, PTL DEF Spec, ThreadsInv

\* threads_ and the kernel agree, in whatever order events are collected, for any
\* number of threads and any program.
THEOREM ThreadsAccurateAlways == Spec => []ThreadsAccurate
  BY ThreadsInvariant, PTL DEF ThreadsInv

\* cosy takes a target for dead only when none of its threads is left.
THEOREM DeadMeansGoneAlways == Spec => []DeadMeansGone
  BY ThreadsInvariant, PTL DEF ThreadsInv

\* While continue or finish waits, no collected stop is left unresumed.
THEOREM ContinueLeavesNoneStoppedAlways == Spec => []ContinueLeavesNoneStopped
  BY ThreadsInvariant, PTL DEF ThreadsInv

\* A stepi or step of one thread leaves the others that are recorded as stopped
\* where they are.
THEOREM PausedStayPausedAlways == Spec => PausedStayPaused
<1> DEFINE Paused ==
      (phase \in {"stepover", "resume"} /\ cmd \in {"stepi", "step"}) =>
        (\A t \in stopped \ {selected} : Ptrace(t) => (doomed \/ Ptrace(t)'))
<1>1. ThreadsInv /\ [Next]_vars => [Paused]_vars
  <2> SUFFICES ASSUME ThreadsInv, Next, phase \in {"stepover", "resume"},
                      cmd \in {"stepi", "step"}, NEW u \in stopped \ {selected}, Ptrace(u),
                      ~doomed
               PROVE  Ptrace(u)'
    BY DEF Ptrace
  <2> USE DEF ThreadsInv
  <2>1. u \in Thread /\ stopped \subseteq Thread /\ TraceeTypeOK
    BY DEF TypeOK
  <2>2. ~UserCommand
    BY DEF UserCommand, Break, Delete, Enable, Disable, SelectThread, Begin, Detach, AtPrompt
  <2>3. CASE Interrupt
    BY <2>3 DEF Interrupt, Ptrace
  <2>4. CASE DebuggerStep
    <3>1. CASE StepOverBreakpoint
      BY <2>1, <3>1 DEF StepOverBreakpoint, AfterResume, Ptrace, tracee, Killed, Dying
    <3>2. CASE ResumeThreads
      BY <2>1, <3>2 DEF ResumeThreads, AfterResume, Targets, Ptrace
    <3>3. StepOverBreakpoint \/ ResumeThreads
      BY <2>4 DEF DebuggerStep, WaitFails, Report, ReportThrows, OverStop, OverExit, CollectStop, CollectExit
    <3> QED
      BY <3>1, <3>2, <3>3
  <2>5. ASSUME NEW t \in Thread, TargetStep(t) \/ TargetSignal(t) \/ TargetInterrupted(t)
        PROVE  Ptrace(u)'
    <3>1. Runs(t) \/ (doomed /\ Live(t))
      BY <2>1, <2>5, ThreadMoves DEF TargetStep, TargetSignal, TargetInterrupted
    <3>2. t # u
      BY <3>1 DEF Runs, Ptrace
    <3>3. st'[u] = st[u] \/ st[u] = "none"
      BY <2>1, <2>5, <3>2, ThreadMoves DEF TargetStep, TargetSignal, TargetInterrupted
    <3> QED
      BY <3>3 DEF Ptrace
  <2> QED
    BY <2>2, <2>3, <2>4, <2>5 DEF Next
<1> QED
  BY <1>1, ThreadsInvariant, PTL DEF Spec, PausedStayPaused

=============================================================================
