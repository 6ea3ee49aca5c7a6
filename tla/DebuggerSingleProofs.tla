------------------------- MODULE DebuggerSingleProofs -------------------------
(* Proofs of what module Debugger promises of a target with one thread, for    *)
(* every program, every choice of breakpoints and commands; and of the wait of *)
(* a target with any number of threads and no breakpoints.                     *)
EXTENDS DebuggerProofs

-----------------------------------------------------------------------------
(* The parts of the inductive invariant, for Thread = {Leader}.            *)

\* Where the thread is in each phase: stopped and recorded, or gone, whenever
\* the debugger acts; resumed while it waits; at its exit if it called exit_group.
Where ==
    /\ st[Leader] # "none"
    /\ phase \in {"prompt", "stepover", "resume", "report"} =>
         /\ st[Leader] \in {"stopped", "gone"} /\ Leader \notin unseen
         /\ st[Leader] = "stopped" => Leader \in stopped
    /\ phase = "overwait" =>
         /\ Leader \notin stopped
         /\ st[Leader] \in {"stepping", "zombie"} \/ Leader \in unseen
    /\ phase = "wait" =>
         /\ Leader \notin stopped
         /\ st[Leader] \in {Request(cmd), "zombie", "gone"} \/ Leader \in unseen
    /\ phase = "quit" => st[Leader] \in {"free", "gone"}
    /\ doomed => ~Runs(Leader) /\ (st[Leader] = "stopped" => ev[Leader] = "exit")

\* What the table holds: the trap of a step-over is out, a trap in a library is
\* in mapped memory, and what the user wants is in place or about to be put back.
Table ==
    /\ temp \subseteq {a \in Addr : bp[a] # "none"}
    /\ lifted # {} => phase = "overwait"
    /\ \A a \in lifted : bp[a] = "disabled"
    /\ \A a \in LibAddr : a \in Inserted \cup lifted => mapped
    /\ Live(Leader) => wanted \subseteq Inserted \cup lifted /\ wanted \cap temp = {}

\* Without source steps, a thread is past a trap only until its stop is reported, or
\* the report cut short, and a step-over does not meet a trap.
Rewound ==
    /\ cmd # "step"
    /\ past[Leader] => Leader \in cut \/
         /\ st[Leader] = "stopped" /\ ev[Leader] = "trap" /\ phase \in {"wait", "report"}
         /\ bp[pc[Leader]] = "enabled" /\ TrapAdvance = 1
    /\ phase = "overwait" /\ Runs(Leader) /\ ~past[Leader] => pc[Leader] \notin Inserted

SingleInv == ThreadsInv /\ Where /\ Table

\* What a lone thread's step does: it runs, and stops or runs on.
LEMMA LoneStep ==
  ASSUME TraceeTypeOK, Thread = {Leader}, Where, NEW inserted,
         ThreadStep(Leader, inserted) \/ Signal(Leader) \/ Interrupted(Leader)
  PROVE  /\ Runs(Leader)
         /\ \/ Leader \in unseen' /\ st'[Leader] = "stopped"
            \/ st[Leader] = "running" /\ st'[Leader] = "running"
         /\ mapped => mapped'
         /\ doomed' => st'[Leader] = "stopped" /\ ev'[Leader] = "exit"
         /\ past'[Leader] /\ ~past[Leader] =>
              /\ pc[Leader] \in inserted /\ pc' = pc /\ TrapAdvance = 1
              /\ st'[Leader] = "stopped" /\ ev'[Leader] = "trap"
<1> USE DEF TraceeTypeOK
<1>1. ~Dying(Leader)
  BY DEF Dying, Where, Runs, Live
<1>2. Runs(Leader) /\ ~doomed
  BY <1>1 DEF ThreadStep, ExecuteTrap, ExecuteInstruction, ExecuteExit, FirstStop, Killed,
              Signal, Interrupted, Where
<1>3. ASSUME NEW e, StopsWith(Leader, e)
      PROVE  Leader \in unseen' /\ st'[Leader] = "stopped" /\ ev'[Leader] = e
  BY <1>3, ThreadAssumption DEF StopsWith
<1>4. CASE ExecuteTrap(Leader, inserted)
  BY <1>2, <1>3, <1>4, ProgramAssumption, ThreadAssumption DEF ExecuteTrap
<1>5. CASE ExecuteInstruction(Leader, inserted)
  <2>1. ~past'[Leader] /\ doomed' = doomed /\ (mapped => mapped')
    BY <1>5, ThreadAssumption DEF ExecuteInstruction
  <2>2. ASSUME Completes(Leader)
        PROVE  \/ Leader \in unseen' /\ st'[Leader] = "stopped"
               \/ st[Leader] = "running" /\ st'[Leader] = "running"
    BY <1>2, <1>3, <2>2 DEF Completes, Runs
  <2>3. {u \in Thread : st[u] = "none"} = {}
    BY <1>2 DEF Runs
  <2>4. Completes(Leader) \/ StopsWith(Leader, "signal")
    BY <1>5, <2>3 DEF ExecuteInstruction
  <2> QED
    BY <1>2, <1>3, <2>1, <2>2, <2>4
<1>6. CASE ExecuteExit(Leader, inserted)
  BY <1>2, <1>3, <1>6 DEF ExecuteExit
<1>7. CASE FirstStop(Leader) \/ Signal(Leader) \/ Interrupted(Leader)
  BY <1>2, <1>3, <1>7 DEF FirstStop, Signal, Interrupted
<1> QED
  BY <1>1, <1>4, <1>5, <1>6, <1>7 DEF ThreadStep, Killed

\* ... and what it leaves of the invariant.
LEMMA LoneTarget ==
  ASSUME SingleInv, Thread = {Leader}, NEW t \in Thread,
         TargetStep(t) \/ TargetSignal(t) \/ TargetInterrupted(t)
  PROVE  Where' /\ Table'
<1> USE DEF SingleInv, ThreadsInv
<1>1. t = Leader /\ TraceeTypeOK /\ Untouched /\ phase # "quit"
  BY DEF TypeOK, TargetStep, TargetSignal, TargetInterrupted
<1>2. /\ Runs(Leader)
      /\ \/ Leader \in unseen' /\ st'[Leader] = "stopped"
         \/ st[Leader] = "running" /\ st'[Leader] = "running"
      /\ mapped => mapped'
      /\ doomed' => st'[Leader] = "stopped" /\ ev'[Leader] = "exit"
  BY <1>1, LoneStep DEF TargetStep, TargetSignal, TargetInterrupted
<1>3. phase \in {"wait", "overwait"} /\ phase' = phase /\ cmd' = cmd /\ stopped' = stopped
  BY <1>1, <1>2 DEF TypeOK, Where, Runs, Untouched, threads
<1>4. Where'
  <2>1. Leader \notin unseen
    BY <1>1, <1>2 DEF TraceeTypeOK, Runs
  <2> QED
    BY <1>2, <1>3, <2>1 DEF Where, Request, Runs
<1>5. Table'
  BY <1>1, <1>2, <1>3 DEF Untouched, table, Table, Inserted, Live, Runs
<1> QED
  BY <1>4, <1>5

\* Commands that only edit the table, one entry at a time.
LEMMA LoneEdit ==
  ASSUME SingleInv, Thread = {Leader}, NEW a \in Addr,
         Break(a) \/ Delete(a) \/ Enable(a) \/ Disable(a)
  PROVE  Where' /\ Table'
<1> USE DEF SingleInv, ThreadsInv
<1>1. /\ phase = "prompt" /\ selected = Leader /\ bp \in [Addr -> {"none", "disabled", "enabled"}]
      /\ wanted \subseteq Addr /\ temp \subseteq Addr
  BY DEF Break, Delete, Enable, Disable, AtPrompt, TypeOK
<1>2. UNCHANGED <<tracee, phase, failed, locals, libSeen, lifted, threads>>
  BY DEF Break, Delete, Enable, Disable, Quiet
<1>3. Where'
  BY <1>1, <1>2 DEF tracee, locals, threads, Where, Runs, Request
<1>4. lifted = {} /\ lifted' = {} /\ mapped' = mapped /\ st' = st
  BY <1>1, <1>2 DEF Table, tracee
<1>5. Live(Leader) /\ CanAccess(a) => (a \in LibAddr => mapped)
  BY DEF CanAccess
<1>6. ASSUME UNCHANGED <<bp, temp>>, wanted' \subseteq wanted
      PROVE  Table'
  BY <1>4, <1>6 DEF Table, Inserted, Live
<1>7. ASSUME Break(a)
      PROVE  Table'
  BY <1>1, <1>4, <1>5, <1>6, <1>7 DEF Break, SetBp, Table, Inserted, Live, CanAccess
<1>8. ASSUME Delete(a)
      PROVE  Table'
  BY <1>1, <1>4, <1>6, <1>8 DEF Delete, SetBp, Table, Inserted, Live
<1>9. ASSUME Enable(a)
      PROVE  Table'
  BY <1>1, <1>4, <1>5, <1>9 DEF Enable, SetBp, Table, Inserted, Live, CanAccess
<1>10. ASSUME Disable(a)
      PROVE  Table'
  BY <1>1, <1>4, <1>10 DEF Disable, SetBp, Table, Inserted, Live
<1> QED
  BY <1>3, <1>7, <1>8, <1>9, <1>10

\* print_stop on table b: it drops the temporary breakpoint that was hit, if any.
LEMMA PrintStopTable ==
  ASSUME NEW t, NEW b, NEW s0, PrintStop(t, b, s0), \A a \in temp : b[a] # "none"
  PROVE  /\ \A a \in Addr : a \in temp' => b[a] # "none" /\ bp'[a] = b[a]
         /\ \A a \in Addr : bp'[a] = "enabled" => b[a] = "enabled"
         /\ \A a \in Addr \ temp : bp'[a] = b[a]
         /\ temp' \subseteq temp
<1> DEFINE hit == Hit(t, b, s0)
<1>1. /\ bp' = [a \in Addr |-> IF a \in hit \cap temp THEN "none" ELSE b[a]]
      /\ temp' = temp \ hit
  BY DEF PrintStop
<1> HIDE DEF hit
<1> QED
  BY <1>1

\* `thread', for the only one there is, prints its stop again.
LEMMA LoneSelect ==
  ASSUME SingleInv, Thread = {Leader}, NEW t \in Thread, SelectThread(t)
  PROVE  Where' /\ Table'
<1> USE DEF SingleInv, ThreadsInv
<1>1. /\ phase = "prompt" /\ lifted = {} /\ wanted \subseteq Addr /\ temp \subseteq Addr
      /\ UNCHANGED <<st, ev, unseen, kernel, phase, locals, lifted, stopped, wanted>>
  BY DEF SelectThread, AtPrompt, TypeOK, Table
<1>2. Where'
  BY <1>1 DEF kernel, locals, Where, Runs
<1>3. /\ \A a \in Addr : a \in temp' => bp[a] # "none" /\ bp'[a] = bp[a]
      /\ \A a \in Addr : bp'[a] = "enabled" => bp[a] = "enabled"
      /\ \A a \in Addr \ temp : bp'[a] = bp[a]
      /\ temp' \subseteq temp
  BY PrintStopTable DEF SelectThread, Table
<1>4. Table'
  <2>1. Live(Leader)' => wanted' \subseteq Inserted' /\ wanted' \cap temp' = {}
    BY <1>1, <1>3 DEF Table, Inserted, Live
  <2> QED
    BY <1>1, <1>3, <2>1, ProgramAssumption DEF Table, Inserted, kernel
<1> QED
  BY <1>2, <1>4

LEMMA LoneCommand ==
  ASSUME SingleInv, Thread = {Leader}, UserCommand
  PROVE  Where' /\ Table'
<1> USE DEF SingleInv, ThreadsInv
<1>1. /\ phase = "prompt" /\ selected = Leader /\ stopped \subseteq {Leader}
      /\ bp \in [Addr -> {"none", "disabled", "enabled"}] /\ lifted = {}
      /\ wanted \subseteq Addr /\ temp \subseteq Addr
  BY DEF UserCommand, Break, Delete, Enable, Disable, SelectThread, Begin, Detach, AtPrompt, TypeOK,
         Table
<1>2. ASSUME NEW t \in Thread, SelectThread(t)
      PROVE  Where' /\ Table'
  BY <1>2, LoneSelect
<1>3. ASSUME NEW c \in Cmd, Begin(c)
      PROVE  Where' /\ Table'
  <2>1. /\ UNCHANGED <<tracee, threads, pending, libSeen, lifted, wanted>>
        /\ phase' \in {"prompt", "stepover"}
    BY <1>3 DEF Begin
  <2>2. Where'
    BY <1>1, <2>1 DEF tracee, threads, Where, Runs
  <2>3. ASSUME UNCHANGED <<bp, temp>>
        PROVE  Table'
    BY <1>1, <2>1, <2>3 DEF Table, Inserted, tracee, Live
  <2>4. ASSUME NEW a \in ReturnAddr, bp[a] = "none",
               SetBp(a, IF CanAccess(a) THEN "enabled" ELSE "disabled"), temp' = temp \cup {a},
               Ptrace(selected)
        PROVE  Table'
    <3>1. a \in Addr /\ Live(Leader)
      BY <1>1, <2>4, CommandAssumption DEF Live, Ptrace
    <3>2. a \notin wanted
      BY <1>1, <2>4, <3>1 DEF Table, Inserted
    <3> QED
      BY <1>1, <2>1, <2>4, <3>1, <3>2 DEF Table, Inserted, SetBp, tracee, Live, CanAccess
  <2>5. UNCHANGED <<bp, temp>> \/ Table'
    BY <1>3, <2>4 DEF Begin
  <2> QED
    BY <2>2, <2>3, <2>5
<1>4. CASE Detach
  <2>1. /\ phase' = "quit" /\ st'[Leader] \in {"free", "gone"} /\ UNCHANGED <<cmd, doomed>>
        /\ lifted' = {} /\ temp' = temp /\ mapped' = mapped
        /\ bp' = [a \in Addr |-> IF Restorable(a) THEN "disabled" ELSE bp[a]]
    BY <1>1, <1>4 DEF Detach, Where, locals, kernel
  <2>2. Where'
    BY <1>1, <2>1 DEF Where, Runs
  <2>3. Table'
    BY <1>1, <2>1, ProgramAssumption DEF Table, Inserted, Live, Restorable
  <2> QED
    BY <2>2, <2>3
<1> QED
  BY <1>2, <1>3, <1>4, LoneEdit DEF UserCommand

\* A report, complete or cut short: some of what was pending is inserted, and a
\* temporary breakpoint that was hit dropped.
LEMMA LoneReport ==
  ASSUME SingleInv, Thread = {Leader}, Report \/ ReportThrows
  PROVE  Where' /\ Table'
<1> USE DEF SingleInv, ThreadsInv
<1>1. /\ phase = "report" /\ lifted = {} /\ wanted \subseteq Addr /\ temp \subseteq Addr
      /\ bp \in [Addr -> {"none", "disabled", "enabled"}]
  BY DEF Report, ReportThrows, TypeOK, Table
<1>2. /\ UNCHANGED <<st, ev, unseen, kernel, cmd, threads, lifted>>
      /\ phase' \in {"prompt", "stepover"} /\ (phase' = "stepover" => cmd = "step")
  <2>1. CASE Report
    BY <2>1 DEF Report, Fail
  <2>2. CASE ReportThrows
    BY <2>2 DEF ReportThrows, Fail, tracee, locals, kernel
  <2> QED
    BY <2>1, <2>2
<1>3. Where'
  BY <1>1, <1>2 DEF kernel, threads, Where, Runs
<1>4. /\ New \subseteq Addr /\ (New # {} => mapped)
      /\ \A a \in New : bp[a] = "none"
      /\ \A a \in Addr : Resolving[a] = IF a \in New THEN "enabled" ELSE bp[a]
  BY <1>1, ProgramAssumption DEF New, Resolved, Seen, Resolving, TypeOK
\* In table b, before print_stop, the breakpoints ins are in, and the others as before.
<1> DEFINE Inserting(b, ins) ==
      /\ ins \subseteq New /\ wanted' = wanted \cup ins
      /\ \A a \in Addr : bp[a] # "none" => b[a] = bp[a]
      /\ \A a \in Addr : b[a] = "enabled" <=> bp[a] = "enabled" \/ a \in ins
      /\ \A a \in Addr : a \in temp' => bp'[a] = b[a]
      /\ \A a \in Addr : bp'[a] = "enabled" => b[a] = "enabled"
      /\ \A a \in Addr \ temp : bp'[a] = b[a]
      /\ temp' \subseteq temp
<1>5. \E b, ins : Inserting(b, ins)
  <2>1. CASE Report
    <3>1. /\ \A a \in Addr : a \in temp' => bp'[a] = Resolving[a]
          /\ \A a \in Addr : bp'[a] = "enabled" => Resolving[a] = "enabled"
          /\ \A a \in Addr \ temp : bp'[a] = Resolving[a]
          /\ temp' \subseteq temp
      <4>1. CASE PrintStop(selected, Resolving, stopped)
        <5>1. \A a \in temp : Resolving[a] # "none"
          BY <1>1, <1>4 DEF Table
        <5> QED
          BY <4>1, <5>1, PrintStopTable
      <4>2. CASE bp' = Resolving /\ temp' = temp
        BY <4>2
      <4> QED
        BY <2>1, <4>1, <4>2 DEF Report
    <3>2. wanted' = wanted \cup New
      BY <2>1 DEF Report
    <3>3. Inserting(Resolving, New)
      BY <1>1, <1>4, <3>1, <3>2
    <3> QED
      BY <3>3
  <2>2. CASE ReportThrows
    <3>1. temp' = temp
      BY <2>2 DEF ReportThrows
    <3>2. CASE UNCHANGED <<bp, wanted>>
      <4>1. Inserting(bp, {})
        BY <3>1, <3>2
      <4> HIDE DEF Inserting
      <4> QED
        BY <4>1
    <3>3. ASSUME NEW bad \in New, NEW done \in SUBSET Resolved, bad \notin done,
                 bp' = [a \in Addr |-> IF a = bad THEN "disabled"
                                      ELSE IF a \in done THEN Resolving[a] ELSE bp[a]],
                 wanted' = wanted \cup (done \cap New)
          PROVE  Inserting(bp', done \cap New)
      <4>1. \A a \in Addr : bp[a] # "none" => bp'[a] = bp[a]
        BY <1>4, <3>3
      <4>2. \A a \in Addr : bp'[a] = "enabled" <=> bp[a] = "enabled" \/ a \in done \cap New
        BY <1>1, <1>4, <3>3
      <4>3. done \cap New \subseteq New
        OBVIOUS
      <4> QED
        BY <3>1, <3>3, <4>1, <4>2, <4>3
    <3>4. CASE ~UNCHANGED <<bp, wanted>>
      <4>1. PICK bad \in New, done \in SUBSET Resolved :
              /\ bad \notin done
              /\ bp' = [a \in Addr |-> IF a = bad THEN "disabled"
                                      ELSE IF a \in done THEN Resolving[a] ELSE bp[a]]
              /\ wanted' = wanted \cup (done \cap New)
        BY <2>2, <3>4 DEF ReportThrows
      <4>2. Inserting(bp', done \cap New)
        BY <3>3, <4>1
      <4> HIDE DEF Inserting
      <4> QED
        BY <4>2
    <3> QED
      BY <3>2, <3>4
  <2> QED
    BY <2>1, <2>2
<1>6. PICK b, ins : Inserting(b, ins)
  BY <1>5
<1>7. temp' \subseteq {a \in Addr : bp'[a] # "none"}
  BY <1>1, <1>6 DEF Table
<1>8. \A a \in LibAddr : a \in Inserted' => mapped'
  BY <1>2, <1>4, <1>6, ProgramAssumption DEF Table, Inserted, kernel
<1>9. Live(Leader)' => wanted' \subseteq Inserted' /\ wanted' \cap temp' = {}
  <2> SUFFICES ASSUME Live(Leader)
               PROVE  wanted' \subseteq Inserted' /\ wanted' \cap temp' = {}
    BY <1>2 DEF Live
  <2>1. temp \cap New = {}
    BY <1>4 DEF Table
  <2> QED
    BY <1>1, <1>4, <1>6, <2>1 DEF Table, Inserted
<1> QED
  BY <1>1, <1>2, <1>3, <1>7, <1>8, <1>9 DEF Table

LEMMA LoneDebugger ==
  ASSUME SingleInv, Thread = {Leader}, DebuggerStep
  PROVE  Where' /\ Table'
<1> USE DEF SingleInv, ThreadsInv
<1>1. /\ selected = Leader /\ stopped \subseteq {Leader}
      /\ bp \in [Addr -> {"none", "disabled", "enabled"}]
      /\ wanted \subseteq Addr /\ temp \subseteq Addr /\ lifted \subseteq Addr
      /\ cmd \in {"continue", "stepi", "step", "finish"}
      /\ TraceeTypeOK
  BY DEF TypeOK
<1>2. CASE StepOverBreakpoint
  <2>1. phase = "stepover" /\ lifted = {}
        /\ UNCHANGED <<cmd, cut, line, steps, selected, alive, temp, pending,
                       libSeen, wanted>>
    BY <1>2 DEF StepOverBreakpoint, Table
  <2>2. CASE UNCHANGED <<tracee, bp, stopped, lifted>> /\ phase' \in {"prompt", "resume"}
    BY <1>1, <2>1, <2>2 DEF tracee, Where, Table, Runs, Live, Inserted
  <2>3. CASE \E a \in Inserted :
               /\ CanAccess(a) /\ SetBp(a, "disabled") /\ lifted' = {a}
               /\ AfterResume({selected}, "stepping") /\ stopped' = stopped \ {selected}
               /\ phase' = "overwait" /\ UNCHANGED kernel
    <3>1. st'[Leader] \in {"stepping", "zombie"} /\ (st'[Leader] = "stepping" => ~doomed)
      BY <1>1, <2>3 DEF AfterResume, Where, CanAccess, Ptrace
    <3>2. Live(Leader)
      BY <1>1, <2>3 DEF CanAccess, Ptrace, Live
    <3>3. Where'
      BY <1>1, <2>1, <2>3, <3>1 DEF Where, Runs, kernel
    <3>4. Table'
      BY <1>1, <2>1, <2>3, <3>2 DEF Table, SetBp, Inserted, kernel, CanAccess
    <3> QED
      BY <3>3, <3>4
  <2>5. ~Killed(selected)
    BY <1>1 DEF Where, Killed, Dying, Runs, Live
  <2>4. \A a \in Inserted : a = Counter(selected) =>
          {x \in Inserted : x = Counter(selected)} = {a}
    OBVIOUS
  <2> QED
    BY <1>2, <2>2, <2>3, <2>4, <2>5 DEF StepOverBreakpoint, Fail
<1>3. CASE ResumeThreads
  <2> DEFINE targets == Targets(cmd)
             done == {t \in targets : \A u \in targets : u <= t => Ptrace(u)}
  <2>1. /\ phase = "resume" /\ AfterResume(done, Request(cmd)) /\ stopped' = stopped \ done
        /\ UNCHANGED <<pc, past, kernel, cut, locals, selected, alive, table, libSeen, lifted>>
        /\ (done = targets => phase' = "wait") /\ (done # targets => phase' = "prompt")
    BY <1>3 DEF ResumeThreads, Fail
  <2>2. targets = stopped
    BY <1>1 DEF Targets
  <2>3. CASE st[Leader] = "stopped"
    <3>1. done = {Leader} /\ stopped = {Leader}
      BY <1>1, <2>1, <2>2, <2>3 DEF Where, Ptrace
    <3>2. st'[Leader] \in {Request(cmd), "zombie"} /\ (doomed => st'[Leader] = "zombie")
      BY <2>1, <2>3, <3>1 DEF AfterResume, Where
    <3>3. Where' /\ phase' = "wait" /\ stopped' = {}
      BY <2>1, <2>2, <3>1, <3>2 DEF Where, Runs, Request, kernel, locals
    <3> HIDE DEF done
    <3>4. Table'
      BY <1>1, <2>1, <2>3, <3>2, <3>3 DEF Table, Runs, Request, kernel, locals,
                                          table, Live, Inserted
    <3> QED
      BY <3>3, <3>4
  <2>4. CASE st[Leader] = "gone"
    <3>1. done = {} \/ done = {Leader}
      BY <1>1, <2>2
    <3>2. ~Ptrace(Leader)
      BY <2>4 DEF Ptrace
    <3>3. done = {} /\ st' = st /\ stopped' = stopped /\ unseen' = unseen
      <4>1. done = {}
        BY <1>1, <3>1, <3>2, ThreadAssumption
      <4>2. st' = [t \in Thread |-> st[t]] /\ stopped' = stopped /\ unseen' = unseen
        BY <2>1, <4>1 DEF AfterResume
      <4> QED
        BY <1>1, <4>1, <4>2 DEF TraceeTypeOK
    <3>4. Where'
      BY <1>1, <2>1, <2>2, <2>4, <3>3 DEF Where, Runs, kernel
    <3> HIDE DEF done
    <3>5. Table'
      BY <1>1, <2>1, <2>4, <3>3 DEF Table, Runs, kernel, locals, table, Live, Inserted
    <3> QED
      BY <3>4, <3>5
  <2> QED
    BY <2>1, <2>3, <2>4 DEF Where
<1>4. CASE WaitFails
  <2>1. st[Leader] = "gone" /\ phase' = "prompt" /\ lifted' = {}
        /\ UNCHANGED <<tracee, locals, threads, table>>
    BY <1>4 DEF WaitFails, Fail, NoChild, Where
  <2>2. Leader \notin unseen
    BY <1>1, <2>1 DEF TraceeTypeOK
  <2> QED
    BY <1>1, <2>1, <2>2 DEF tracee, locals, threads, table, Where, Table, Runs,
                            Live, Inserted
<1>5. ASSUME NEW t \in Thread, OverStop(t)
      PROVE  Where' /\ Table'
  <2>1. /\ t = Leader /\ phase = "overwait" /\ Leader \in unseen /\ st[Leader] = "stopped"
        /\ unseen' = unseen \ {t} /\ stopped' = Recorded(t) /\ lifted' = {}
        /\ UNCHANGED <<st, ev, kernel, locals, alive, pending, libSeen, wanted>>
    BY <1>1, <1>5 DEF OverStop, TraceeTypeOK
  <2>2. \A a \in lifted : CanAccess(a)
    BY <1>1, <2>1 DEF Table, CanAccess, Ptrace
  <2>3. phase' = "resume" /\ bp' = Reenabled /\ temp' = temp
    BY <1>1, <1>5, <2>1, <2>2 DEF OverStop
  <2>4. Where'
    BY <1>1, <2>1, <2>3 DEF kernel, locals, Where, Runs, Recorded
  <2>5. Table'
    BY <1>1, <2>1, <2>3 DEF kernel, Table, Reenabled, Inserted, Live
  <2> QED
    BY <2>4, <2>5
<1>6. ASSUME NEW t \in Thread, OverExit(t)
      PROVE  Where' /\ Table'
  <2>1. /\ phase = "overwait" /\ st'[Leader] = "gone" /\ phase' = "resume" /\ lifted' = {}
        /\ UNCHANGED <<ev, unseen, kernel, locals, table>> /\ st[Leader] = "zombie"
    BY <1>1, <1>6 DEF OverExit, Reapable, TraceeTypeOK
  <2>2. Leader \notin unseen
    BY <1>1, <2>1 DEF TraceeTypeOK
  <2> QED
    BY <1>1, <2>1, <2>2 DEF kernel, locals, table, Where, Table, Runs, Live, Inserted
<1>7. ASSUME NEW t \in Thread, CollectStop(t)
      PROVE  Where' /\ Table'
  <2>1. /\ t = Leader /\ phase = "wait" /\ Leader \in unseen /\ st[Leader] = "stopped"
        /\ unseen' = unseen \ {t} /\ stopped' = Recorded(t) /\ phase' = "report"
        /\ UNCHANGED <<st, ev, kernel, locals, table, lifted>>
    BY <1>1, <1>7 DEF CollectStop, TraceeTypeOK
  <2> QED
    BY <1>1, <2>1 DEF kernel, locals, table, Where, Table, Runs, Recorded, Live,
                      Inserted
<1>8. ASSUME NEW t \in Thread, CollectExit(t)
      PROVE  Where' /\ Table'
  <2>1. /\ phase = "wait" /\ st'[Leader] = "gone" /\ phase' = "prompt" /\ st[Leader] = "zombie"
        /\ UNCHANGED <<ev, unseen, kernel, locals, table, lifted>>
    BY <1>1, <1>8 DEF CollectExit, Reapable, TraceeTypeOK
  <2>2. Leader \notin unseen
    BY <1>1, <2>1 DEF TraceeTypeOK
  <2> QED
    BY <1>1, <2>1, <2>2 DEF kernel, locals, table, Where, Table, Runs, Live, Inserted
<1> QED
  BY <1>2, <1>3, <1>4, <1>5, <1>6, <1>7, <1>8, LoneReport DEF DebuggerStep

LEMMA SingleInvariant ==
  ASSUME Thread = {Leader}
  PROVE  Spec => []SingleInv
<1>1. Init => Where /\ Table
  BY DEF Init, TraceeInit, Where, Table, Runs, Live, Inserted
<1>2. SingleInv /\ [Next]_vars => (Where /\ Table)'
  <2> SUFFICES ASSUME SingleInv, [Next]_vars
               PROVE  Where' /\ Table'
    OBVIOUS
  <2>1. CASE UserCommand
    BY <2>1, LoneCommand
  <2>2. CASE Interrupt \/ UNCHANGED vars
    <3>1. UNCHANGED <<st, ev, unseen, doomed, mapped, debugger>>
      BY <2>2 DEF Interrupt, vars, tracee, debugger
    <3> QED
      BY <3>1 DEF debugger, SingleInv, Where, Table, Runs, Live, Inserted, Request
  <2>3. CASE DebuggerStep
    BY <2>3, LoneDebugger
  <2>4. CASE \E t \in Thread : TargetStep(t) \/ TargetSignal(t) \/ TargetInterrupted(t)
    BY <2>4, LoneTarget
  <2> QED
    BY <2>1, <2>2, <2>3, <2>4 DEF Next
<1> QED
  BY <1>1, <1>2, ThreadsInvariant, PTL DEF Spec, SingleInv

\* A breakpoint the user wants is in place at every prompt of a live target with
\* one thread, whatever its program, the breakpoints and the commands.
THEOREM WantedInPlaceAlways ==
  ASSUME Thread = {Leader}
  PROVE  Spec => []WantedInPlace
<1>1. SingleInv => WantedInPlace
  BY DEF SingleInv, Table, WantedInPlace, Inserted
<1> QED
  BY <1>1, SingleInvariant, PTL

-----------------------------------------------------------------------------
(* Threads behind a trap.                                                  *)

\* No thread is left behind a trap.
RewoundInv == SingleInv /\ Rewound /\ QuitClean

LEMMA RewoundTarget ==
  ASSUME RewoundInv, Thread = {Leader}, NEW t \in Thread,
         TargetStep(t) \/ TargetSignal(t) \/ TargetInterrupted(t)
  PROVE  Rewound' /\ QuitClean'
<1> USE DEF RewoundInv, SingleInv, ThreadsInv
<1>1. t = Leader /\ TraceeTypeOK /\ Untouched /\ phase # "quit"
  BY DEF TypeOK, TargetStep, TargetSignal, TargetInterrupted
<1>2. /\ Runs(Leader)
      /\ \/ Leader \in unseen' /\ st'[Leader] = "stopped"
         \/ st[Leader] = "running" /\ st'[Leader] = "running"
      /\ past'[Leader] /\ ~past[Leader] =>
           /\ pc[Leader] \in Inserted /\ pc' = pc /\ TrapAdvance = 1
           /\ st'[Leader] = "stopped" /\ ev'[Leader] = "trap"
  BY <1>1, LoneStep DEF TargetStep, TargetSignal, TargetInterrupted
<1>3. UNCHANGED <<phase, cmd, bp>>
  BY <1>1 DEF Untouched, table
<1>4. phase \in {"wait", "overwait"} /\ (past[Leader] => Leader \in cut)
  BY <1>1, <1>2 DEF TypeOK, Where, Runs, Rewound
<1>5. phase = "overwait" => st[Leader] = "stepping"
  BY <1>1, <1>2 DEF Where, Runs, TraceeTypeOK
<1>6. Leader \in cut /\ past'[Leader] => Leader \in cut'
  BY <1>1 DEF TargetStep, TargetSignal, TargetInterrupted
<1>7. past'[Leader] => Leader \in cut' \/
        /\ st'[Leader] = "stopped" /\ ev'[Leader] = "trap" /\ phase' \in {"wait", "report"}
        /\ bp'[pc'[Leader]] = "enabled" /\ TrapAdvance = 1
  BY <1>2, <1>3, <1>4, <1>6 DEF Rewound, Inserted
<1>8. Rewound'
  BY <1>2, <1>3, <1>5, <1>7 DEF Rewound, Runs
<1> QED
  BY <1>1, <1>3, <1>8 DEF QuitClean

LEMMA RewoundCommand ==
  ASSUME RewoundInv, Thread = {Leader}, "step" \notin Cmd, UserCommand
  PROVE  Rewound' /\ QuitClean'
<1> USE DEF RewoundInv, SingleInv, ThreadsInv
<1>1. /\ phase = "prompt" /\ selected = Leader /\ (past[Leader] => Leader \in cut)
      /\ bp \in [Addr -> {"none", "disabled", "enabled"}] /\ past \in [Thread -> BOOLEAN]
  BY DEF UserCommand, Break, Delete, Enable, Disable, SelectThread, Begin, Detach, AtPrompt, TypeOK,
         TraceeTypeOK, Rewound
<1>2. CASE Detach
  <2>1. /\ phase' = "quit" /\ past' = past /\ cmd' = cmd /\ cut' = cut
        /\ \A a \in Addr : bp'[a] = "enabled" => bp[a] = "enabled" /\ ~Restorable(a)
        /\ st'[Leader] = "free" => Ptrace(Leader)
    BY <1>1, <1>2 DEF Detach, kernel, locals
  <2>2. st'[Leader] = "free" => Inserted' = {}
    BY <1>1, <2>1 DEF Table, Inserted, Restorable, CanAccess
  <2> QED
    BY <1>1, <2>1, <2>2 DEF Rewound, QuitClean
<1>3. CASE \E t \in Thread : SelectThread(t)
  <2>1. /\ phase' = "prompt" /\ cmd' = cmd /\ cut' = {u \in cut : past'[u]}
        /\ past'[Leader] => past[Leader]
    BY <1>1, <1>3 DEF SelectThread, PrintStop, AtPrompt, locals
  <2> QED
    BY <1>1, <2>1 DEF Rewound, QuitClean
<1>4. CASE ~Detach /\ ~\E t \in Thread : SelectThread(t)
  <2>1. /\ past' = past /\ phase' \in {"prompt", "stepover"} /\ (cmd' = cmd \/ cmd' # "step")
        /\ cut' = cut
    BY <1>1, <1>4 DEF UserCommand, Break, Delete, Enable, Disable, Begin, Quiet, AtPrompt,
                      tracee, locals
  <2> QED
    BY <1>1, <2>1 DEF Rewound, QuitClean
<1> QED
  BY <1>2, <1>3, <1>4

LEMMA RewoundDebugger ==
  ASSUME RewoundInv, Thread = {Leader}, DebuggerStep
  PROVE  Rewound' /\ QuitClean'
<1> USE DEF RewoundInv, SingleInv, ThreadsInv
<1>1. /\ selected = Leader /\ stopped \subseteq {Leader} /\ TraceeTypeOK
      /\ bp \in [Addr -> {"none", "disabled", "enabled"}]
      /\ cmd \in {"continue", "stepi", "finish"}
  BY DEF TypeOK, Rewound
<1>2. cmd' = cmd /\ phase' # "quit"
  BY DEF DebuggerStep, StepOverBreakpoint, ResumeThreads, WaitFails, Report, ReportThrows,
         OverStop, OverExit, CollectStop, CollectExit, locals, Fail
<1>3. QuitClean'
  BY <1>2 DEF QuitClean
<1>4. CASE phase \in {"stepover", "overwait", "resume"}
  <2>1. past[Leader] => Leader \in cut
    BY <1>4 DEF Rewound
  <2>2. past' = past /\ cut \subseteq cut'
    <3>1. ~Killed(selected)
      BY <1>1 DEF Where, Killed, Dying, Runs, Live
    <3> QED
      BY <1>1, <1>4, <3>1 DEF DebuggerStep, StepOverBreakpoint, ResumeThreads, WaitFails, Report,
                        ReportThrows, OverStop, OverExit, CollectStop, CollectExit, LeftBehind, tracee
  <2>3. phase' # "overwait" \/ (Runs(Leader)' /\ ~past'[Leader] => pc'[Leader] \notin Inserted')
    <3>1. CASE StepOverBreakpoint
      <4> SUFFICES ASSUME ~past[Leader], phase' = "overwait"
                   PROVE  pc'[Leader] \notin Inserted'
        BY <2>2
      <4>1. Counter(Leader) = pc[Leader]
        <5>1. Counter(Leader) = pc[Leader] + 0
          BY DEF Counter
        <5>2. pc[Leader] \in Nat
          BY <1>1, ProgramAssumption DEF TraceeTypeOK
        <5> QED
          BY <5>1, <5>2
      <4>2. bp'[pc[Leader]] = "disabled" /\ pc' = pc
        BY <1>1, <3>1, <4>1 DEF StepOverBreakpoint, Fail, SetBp, Inserted
      <4> QED
        BY <4>2 DEF Inserted
    <3>2. CASE ~StepOverBreakpoint
      BY <1>4, <3>2 DEF DebuggerStep, ResumeThreads, WaitFails, Report, ReportThrows, OverStop,
                        OverExit, CollectStop, CollectExit, Fail
    <3> QED
      BY <3>1, <3>2
  <2> QED
    BY <1>1, <1>2, <1>3, <2>1, <2>2, <2>3 DEF Rewound
<1>5. ASSUME NEW t \in Thread, CollectStop(t)
      PROVE  Rewound'
  BY <1>1, <1>5 DEF CollectStop, Rewound, locals, table
<1>6. ASSUME NEW t \in Thread, CollectExit(t)
      PROVE  Rewound'
  BY <1>1, <1>6 DEF CollectExit, Reapable, Rewound, locals, table
<1>7. ASSUME WaitFails
      PROVE  Rewound'
  BY <1>1, <1>7 DEF WaitFails, NoChild, Fail, Rewound, locals, table, tracee
<1>8. ASSUME Report
      PROVE  Rewound'
  <2>1. phase' = "prompt" /\ PrintStop(selected, Resolving, stopped)
    BY <1>1, <1>8 DEF Report
  <2>2. past'[Leader] => past[Leader] /\ (Leader \in cut => Leader \in cut')
    BY <1>1, <2>1 DEF PrintStop, TraceeTypeOK
  <2>3. ASSUME past[Leader], Leader \notin cut
        PROVE  ~past'[Leader]
    <3>1. /\ st[Leader] = "stopped" /\ ev[Leader] = "trap" /\ phase = "report"
          /\ bp[pc[Leader]] = "enabled" /\ TrapAdvance = 1 /\ pc[Leader] \in Addr /\ pc[Leader] \in Nat
      BY <1>1, <1>8, <2>3, ProgramAssumption DEF Rewound, Report, TraceeTypeOK
    <3>2. alive /\ Leader \in stopped /\ Ptrace(selected) /\ TrapSignal(Leader)
      BY <1>1, <3>1 DEF DeadMeansGone, TypeOK, Where, Ptrace, TrapSignal
    <3>3. Candidate(Leader) = pc[Leader]
      BY <2>3, <3>1 DEF Candidate, Counter
    <3>4. Resolving[pc[Leader]] # "none"
      BY <1>1, <3>1 DEF Resolving
    <3>5. pc[Leader] \in Hit(selected, Resolving, stopped)
      BY <1>1, <3>1, <3>2, <3>3, <3>4 DEF Hit
    <3> QED
      BY <1>1, <2>1, <3>5 DEF PrintStop, TraceeTypeOK
  <2> QED
    BY <1>1, <1>2, <2>1, <2>2, <2>3 DEF Rewound
<1>10. ASSUME ReportThrows
       PROVE  Rewound'
  BY <1>1, <1>10 DEF ReportThrows, Fail, LeftBehind, Rewound, tracee, locals
<1>9. phase \in {"stepover", "overwait", "resume"} \/ Report \/ ReportThrows \/ WaitFails
      \/ \E t \in Thread : CollectStop(t) \/ CollectExit(t)
  BY DEF DebuggerStep, StepOverBreakpoint, ResumeThreads, OverStop, OverExit
<1> QED
  BY <1>3, <1>4, <1>5, <1>6, <1>7, <1>8, <1>9, <1>10

LEMMA RewoundInvariant ==
  ASSUME Thread = {Leader}, "step" \notin Cmd
  PROVE  Spec => []RewoundInv
<1>1. Init => Rewound /\ QuitClean
  BY DEF Init, TraceeInit, Rewound, QuitClean
<1>2. RewoundInv /\ [Next]_vars => (Rewound /\ QuitClean)'
  <2> SUFFICES ASSUME RewoundInv, [Next]_vars
               PROVE  Rewound' /\ QuitClean'
    OBVIOUS
  <2>1. CASE UserCommand
    BY <2>1, RewoundCommand
  <2>2. CASE Interrupt \/ UNCHANGED vars
    <3>1. UNCHANGED <<st, ev, past, pc, phase, cmd, bp, cut>>
      BY <2>2 DEF Interrupt, vars, tracee, debugger
    <3> QED
      BY <3>1 DEF RewoundInv, Rewound, QuitClean, Alone, Runs, Inserted
  <2>3. CASE DebuggerStep
    BY <2>3, RewoundDebugger
  <2>4. CASE \E t \in Thread : TargetStep(t) \/ TargetSignal(t) \/ TargetInterrupted(t)
    BY <2>4, RewoundTarget
  <2> QED
    BY <2>1, <2>2, <2>3, <2>4 DEF Next
<1> QED
  BY <1>1, <1>2, SingleInvariant, PTL DEF Spec, RewoundInv

\* Without source steps, a lone thread never runs on from behind a trap, on x86-64
\* or AArch64: every stop that leaves it there is rewound before it is resumed, but
\* for one whose report an exception cut short.
THEOREM TrapRewoundAlways ==
  ASSUME Thread = {Leader}, "step" \notin Cmd
  PROVE  Spec => []TrapRewound
<1>1. RewoundInv => TrapRewound
  BY DEF RewoundInv, Rewound, TrapRewound, Runs
<1> QED
  BY <1>1, RewoundInvariant, PTL

\* A lone thread that outlives quit finds no trap in its text, and is behind none but
\* where an exception cut the report of its stop short.
THEOREM QuitCleanAlways ==
  ASSUME Thread = {Leader}, "step" \notin Cmd
  PROVE  Spec => []QuitClean
  BY RewoundInvariant, PTL DEF RewoundInv

-----------------------------------------------------------------------------
(* The wait, with one thread, or without breakpoints and any number.       *)

\* Where no more than one thread is stopped at a time, whatever cosy collects it
\* resumes before it waits again.
OneAtATime ==
    /\ stopped \subseteq {selected}
    /\ phase \in {"wait", "overwait"} => stopped = {}
    /\ phase # "quit" => \A t \in Thread : st[t] # "free"

NoBreakpoints == BreakAddr = {} /\ "finish" \notin Cmd
TableEmpty ==
    /\ \A a \in Addr : bp[a] = "none"
    /\ pending = {} /\ lifted = {} /\ phase # "overwait"

WaitInv == ThreadsInv /\ OneAtATime /\ (NoBreakpoints => TableEmpty)

\* Without break and finish nothing ever enters the table.
LEMMA TableStaysEmpty ==
  ASSUME TypeOK, NoBreakpoints, TableEmpty, Next
  PROVE  TableEmpty'
<1> USE DEF NoBreakpoints, TableEmpty
<1>1. Inserted = {}
  BY DEF Inserted
<1>2. ASSUME NEW t, NEW s0, PrintStop(t, bp, s0)
      PROVE  \A a \in Addr : bp'[a] = "none"
  BY <1>2 DEF PrintStop
<1>3. CASE UserCommand
  <2>1. ASSUME NEW t \in Thread, SelectThread(t)
        PROVE  TableEmpty'
    BY <1>2, <2>1 DEF SelectThread
  <2>2. ASSUME NEW a \in Addr, Break(a) \/ Delete(a) \/ Enable(a) \/ Disable(a)
        PROVE  FALSE
    BY <2>2 DEF Break, Delete, Enable, Disable
  <2>3. ASSUME NEW c \in Cmd, Begin(c)
        PROVE  TableEmpty'
    BY <2>3 DEF Begin
  <2>4. ASSUME Detach
        PROVE  TableEmpty'
    BY <2>4, <1>1 DEF Detach, Restorable
  <2> QED
    BY <1>3, <2>1, <2>2, <2>3, <2>4 DEF UserCommand
<1>4. CASE DebuggerStep
  <2>1. CASE Report \/ ReportThrows
    <3>1. Resolved = {} /\ New = {} /\ Resolving = bp
      BY DEF Resolved, New, Resolving, TypeOK
    <3>2. \A a \in Addr : bp'[a] = "none"
      BY <1>2, <2>1, <3>1 DEF Report, ReportThrows
    <3> QED
      BY <2>1, <3>1, <3>2 DEF Report, ReportThrows, Fail
  <2>2. CASE StepOverBreakpoint
    BY <1>1, <2>2 DEF StepOverBreakpoint, Fail
  <2>3. CASE ResumeThreads \/ WaitFails \/ \E t \in Thread : CollectStop(t) \/ CollectExit(t)
    BY <2>3 DEF ResumeThreads, WaitFails, CollectStop, CollectExit, Fail, table
  <2>4. ~ \E t \in Thread : OverStop(t) \/ OverExit(t)
    BY DEF OverStop, OverExit
  <2> QED
    BY <1>4, <2>1, <2>2, <2>3, <2>4 DEF DebuggerStep
<1>5. CASE Interrupt \/ \E t \in Thread : TargetStep(t) \/ TargetSignal(t) \/ TargetInterrupted(t)
  BY <1>5 DEF Interrupt, debugger, TargetStep, TargetSignal, TargetInterrupted, Untouched, table
<1> QED
  BY <1>3, <1>4, <1>5 DEF Next

LEMMA OneAtATimeStep ==
  ASSUME WaitInv, Thread = {Leader} \/ NoBreakpoints, Next
  PROVE  OneAtATime'
<1> USE DEF WaitInv, ThreadsInv, OneAtATime
<1>1. stopped \subseteq Thread /\ selected \in Thread /\ st \in [Thread -> State]
  BY DEF TypeOK, TraceeTypeOK
<1>2. CASE UserCommand
  <2>1. phase = "prompt" /\ phase' \in {"prompt", "stepover", "quit"} /\ stopped' = stopped
    BY <1>2 DEF UserCommand, Break, Delete, Enable, Disable, SelectThread, Begin, Detach, Quiet,
                AtPrompt, threads
  <2>2. selected' = selected
    BY <1>2 DEF UserCommand, Break, Delete, Enable, Disable, SelectThread, Begin, Detach, threads
  <2>3. phase' = "quit" \/ st' = st
    BY <1>2 DEF UserCommand, Break, Delete, Enable, Disable, SelectThread, Begin, Detach, Quiet, tracee
  <2> QED
    BY <2>1, <2>2, <2>3
<1>3. CASE DebuggerStep
  <2>1. CASE StepOverBreakpoint
    <3>1. \/ st' = st /\ stopped' = stopped /\ phase' \in {"prompt", "resume"}
          \/ AfterResume({selected}, "stepping") /\ stopped' = stopped \ {selected}
          \/ Killed(selected) /\ stopped' = stopped /\ phase' = "prompt"
      BY <2>1 DEF StepOverBreakpoint, Fail, tracee
    <3>2. ASSUME Killed(selected)
          PROVE  \A t \in Thread : st'[t] \in {st[t], "stopped", "zombie"}
      BY <1>1, <3>2 DEF Killed, StopsWith
    <3> QED
      BY <1>1, <2>1, <3>1, <3>2 DEF StepOverBreakpoint, AfterResume
  <2>2. CASE ResumeThreads
    <3> DEFINE targets == Targets(cmd)
               done == {t \in targets : \A u \in targets : u <= t => Ptrace(u)}
    <3>1. targets = stopped
      BY DEF Targets
    <3>2. /\ phase = "resume" /\ AfterResume(done, Request(cmd)) /\ stopped' = stopped \ done
          /\ selected' = selected /\ (done = targets \/ phase' = "prompt")
      BY <2>2 DEF ResumeThreads, Fail
    <3>3. \A t \in Thread : st'[t] # "free"
      BY <1>1, <3>2 DEF AfterResume, Request
    <3> HIDE DEF done
    <3> QED
      BY <2>2, <3>1, <3>2, <3>3 DEF ResumeThreads, Fail
  <2>3. CASE WaitFails \/ Report \/ ReportThrows
    BY <2>3 DEF WaitFails, Report, ReportThrows, Fail, tracee, threads
  <2>4. ASSUME NEW t \in Thread, OverStop(t)
        PROVE  OneAtATime'
    BY <1>1, <2>4 DEF OverStop, Recorded, Fail, TableEmpty
  <2>5. ASSUME NEW t \in Thread, OverExit(t) \/ CollectExit(t)
        PROVE  OneAtATime'
    BY <1>1, <2>5 DEF OverExit, CollectExit
  <2>6. ASSUME NEW t \in Thread, CollectStop(t)
        PROVE  OneAtATime'
    BY <1>1, <2>6 DEF CollectStop, Recorded
  <2> QED
    BY <1>3, <2>1, <2>2, <2>3, <2>4, <2>5, <2>6 DEF DebuggerStep
<1>4. CASE Interrupt
  BY <1>4 DEF Interrupt, debugger
<1>5. ASSUME NEW t \in Thread, TargetStep(t) \/ TargetSignal(t) \/ TargetInterrupted(t)
      PROVE  OneAtATime'
  <2>1. TraceeTypeOK /\ phase # "quit" /\ UNCHANGED <<phase, stopped, selected>>
    BY <1>5 DEF TypeOK, TargetStep, TargetSignal, TargetInterrupted, Untouched, threads
  <2>2. \A u \in Thread : u # t => st'[u] \in {st[u], "running"}
    BY <1>5, <2>1, ThreadMoves DEF TargetStep, TargetSignal, TargetInterrupted
  <2>3. st'[t] # "free"
    <3>1. ASSUME NEW inserted, ThreadStep(t, inserted) \/ Signal(t) \/ Interrupted(t)
          PROVE  st'[t] # "free"
      <4>1. ASSUME NEW e, StopsWith(t, e)
            PROVE  st'[t] # "free"
        BY <1>1, <4>1 DEF StopsWith
      <4>2. ASSUME Completes(t)
            PROVE  st'[t] # "free"
        BY <1>1, <2>1, <4>1, <4>2 DEF Completes
      <4>3. CASE ExecuteInstruction(t, inserted)
        BY <1>1, <4>1, <4>2, <4>3 DEF ExecuteInstruction
      <4>4. CASE Killed(t)
        BY <1>1, <4>1, <4>4 DEF Killed
      <4> QED
        BY <3>1, <4>1, <4>3, <4>4 DEF ThreadStep, ExecuteTrap, ExecuteExit, FirstStop, Signal,
                                      Interrupted
    <3> QED
      BY <1>5, <3>1 DEF TargetStep, TargetSignal, TargetInterrupted
  <2> QED
    BY <1>1, <2>1, <2>2, <2>3
<1> QED
  BY <1>2, <1>3, <1>4, <1>5 DEF Next

\* When one thread is stopped at a time, cosy waits with all of them resumed: one
\* runs, has a stop or an exit to collect, or none is left.
LEMMA WaitSound ==
  ASSUME WaitInv
  PROVE  NoLostWait
<1> SUFFICES ASSUME phase \in {"wait", "overwait"}, ~NoChild,
                    \A t \in Thread : ~Runs(t) /\ t \notin unseen
             PROVE  \E t \in Thread : Reapable(t)
  BY DEF NoLostWait
<1> USE DEF WaitInv, ThreadsInv
<1>1. \A t \in Thread : st[t] \in {"none", "zombie", "gone"}
  BY DEF TypeOK, TraceeTypeOK, State, Runs, ThreadsAccurate, OneAtATime, Ptrace
<1>2. PICK t \in Thread : st[t] = "zombie"
  BY <1>1 DEF NoChild
<1>3. CASE \E u \in Thread \ {Leader} : st[u] = "zombie"
  BY <1>3 DEF Reapable
<1>4. CASE \A u \in Thread \ {Leader} : st[u] # "zombie"
  BY <1>1, <1>2, <1>4 DEF Reapable
<1> QED
  BY <1>3, <1>4

\* cosy never blocks in waitpid for an event that cannot come: with one thread,
\* whatever the user does, and with any number of them when there is no breakpoint.
THEOREM NoLostWaitAlways ==
  ASSUME Thread = {Leader} \/ NoBreakpoints
  PROVE  Spec => []NoLostWait
<1>1. Init => OneAtATime /\ TableEmpty
  BY DEF Init, TraceeInit, OneAtATime, TableEmpty
<1>2. WaitInv /\ [Next]_vars => OneAtATime' /\ (NoBreakpoints => TableEmpty)'
  <2> SUFFICES ASSUME WaitInv, [Next]_vars
               PROVE  OneAtATime' /\ (NoBreakpoints => TableEmpty')
    BY DEF NoBreakpoints
  <2>1. CASE Next
    BY <2>1, OneAtATimeStep, TableStaysEmpty DEF WaitInv, ThreadsInv
  <2>2. CASE UNCHANGED vars
    BY <2>2 DEF vars, tracee, debugger, WaitInv, OneAtATime, TableEmpty
  <2> QED
    BY <2>1, <2>2
<1>3. WaitInv => NoLostWait
  BY WaitSound
<1> QED
  BY <1>1, <1>2, <1>3, ThreadsInvariant, PTL DEF Spec, WaitInv
===============================================================================
