------------------------------- MODULE Debugger -------------------------------
(***************************************************************************)
(* The run control of cosy (src/src/debugger.cpp): commands, step-over,    *)
(* resumption, the wait and the report of what it returned, against the    *)
(* threads of module Tracee.                                               *)
(*                                                                         *)
(* cosy is one thread that reads a command, resumes target threads, blocks *)
(* in one waitpid, and reports the one event it got; the other threads go  *)
(* on running the whole time.  The state is the members of Debugger::Impl  *)
(* and the locals of the functions in progress.  A trap stands at an       *)
(* address iff its breakpoint is enabled, which module Breakpoints shows   *)
(* of the table that this module abstracts to one state per address.       *)
(***************************************************************************)
EXTENDS Tracee

CONSTANTS
    Line,       \* [Addr -> line]: modules_.location, NoLine without debug data
    NoLine,
    BreakAddr,  \* where the user sets breakpoints
    ReturnAddr, \* what return_address may read for finish
    Cmd,        \* the resuming commands the user gives
    StepLimit   \* instructions a source step may take (100000 in the code)

ASSUME CommandAssumption ==
    /\ BreakAddr \subseteq Addr /\ ReturnAddr \subseteq Addr
    /\ Cmd \subseteq {"continue", "stepi", "step", "finish"}
    /\ DOMAIN Line = Addr /\ StepLimit \in Nat \ {0}

VARIABLES
    phase,     \* where the debugger's thread of control is
    cmd,       \* the resuming command in progress, or the last one
    failed,    \* it ended in an exception
    cut,       \* ghost: threads left behind a trap by a report that was cut short
    line,      \* source_step: the line it started on
    steps,     \* source_step: instructions taken
    selected,  \* selected_tid_
    alive,     \* alive_
    stopped,   \* the threads that threads_ records as stopped
    bp,        \* breakpoints_: none, disabled or enabled at an address
    temp,      \* the temporary ones
    pending,   \* pending_breakpoints_, as the library addresses they are for
    libSeen,   \* modules_ includes the library
    lifted,    \* breakpoint of the step-over in flight, if any
    wanted     \* ghost: breakpoints in place by the user's successful break and enable

locals  == <<cmd, line, steps>>
table   == <<bp, temp, pending, wanted>>
threads == <<selected, alive, stopped>>
kernel  == <<doomed, mapped, signals, interrupt>>
debugger == <<phase, cmd, failed, cut, line, steps, selected, alive, stopped,
              bp, temp, pending, libSeen, lifted, wanted>>
vars == <<tracee, debugger>>

Inserted == {a \in Addr : bp[a] = "enabled"}

\* ptrace works on a thread that is in a ptrace-stop, collected or not.
Ptrace(t) == st[t] = "stopped"
\* Memory is read and written through selected_tid_.
CanAccess(a) == Ptrace(selected) /\ (a \in LibAddr => mapped)

-----------------------------------------------------------------------------
(* Commands on breakpoints and threads (dispatch).                         *)

AtPrompt == phase = "prompt"
Quiet == UNCHANGED <<tracee, phase, failed, cut, locals, libSeen, lifted>>

SetBp(a, state) == bp' = [bp EXCEPT ![a] = state]

NotFoundInAnyModule(a) == ~libSeen
Unresolved(a) == a \in LibAddr /\ ~libSeen

\* break: pending without its library, else create_breakpoint.
Break(a) ==
    /\ AtPrompt /\ a \in BreakAddr /\ Quiet /\ UNCHANGED <<threads, temp>>
    /\ \/ /\ Unresolved(a) /\ a \notin pending
          /\ pending' = pending \cup {a} /\ UNCHANGED <<bp, wanted>>
       \/ /\ ~Unresolved(a) /\ bp[a] = "none" /\ CanAccess(a)
          /\ SetBp(a, "enabled") /\ wanted' = wanted \cup {a} /\ UNCHANGED pending
       \/ /\ ~Unresolved(a) /\ bp[a] = "none" /\ ~CanAccess(a)
          /\ SetBp(a, "disabled") /\ UNCHANGED <<wanted, pending>>

Delete(a) ==
    /\ AtPrompt /\ Quiet /\ UNCHANGED threads
    /\ \/ /\ bp[a] # "none" /\ (bp[a] = "enabled" => CanAccess(a))
          /\ SetBp(a, "none") /\ temp' = temp \ {a} /\ UNCHANGED pending
       \/ a \in pending /\ pending' = pending \ {a} /\ UNCHANGED <<bp, temp>>
    /\ wanted' = wanted \ {a}

Enable(a) ==
    /\ AtPrompt /\ Quiet /\ UNCHANGED <<threads, temp, pending>>
    /\ bp[a] = "disabled" /\ CanAccess(a)
    /\ SetBp(a, "enabled") /\ wanted' = wanted \cup ({a} \ temp)

Disable(a) ==
    /\ AtPrompt /\ Quiet /\ UNCHANGED <<threads, temp, pending>>
    /\ bp[a] = "enabled" /\ CanAccess(a)
    /\ SetBp(a, "disabled") /\ wanted' = wanted \ {a}

-----------------------------------------------------------------------------
(* print_stop: rewind the thread to the breakpoint its program counter is  *)
(* just past, hit or not, and drop a temporary one.                        *)

TrapSignal(t) == ev[t] \in {"trap", "step", "clone", "exit"}
CandidateUnadjusted(t) == Counter(t)
Candidate(t) == Counter(t) - TrapAdvance

\* The breakpoint print_stop believes t has hit, in table b.
Hit(t, b, st0) ==
    IF alive /\ t \in st0 /\ TrapSignal(t) /\ Ptrace(t)
    THEN {a \in Addr : a = Candidate(t) /\ b[a] # "none"} ELSE {}

\* The effect of print_stop(t) when table b and stopped threads st0 are in
\* force; disable() of a temporary breakpoint can write, as t is stopped.
PrintStop(t, b, st0) ==
    LET hit == Hit(t, b, st0) IN
    /\ pc' = [pc EXCEPT ![t] = IF hit = {} THEN @ ELSE Candidate(t)]
    /\ past' = [past EXCEPT ![t] = IF hit = {} THEN @ ELSE FALSE]
    /\ cut' = {u \in cut : past'[u]}
    /\ bp' = [a \in Addr |-> IF a \in hit \cap temp THEN "none" ELSE b[a]]
    /\ temp' = temp \ hit

\* thread TID, which may be the selected one.
SelectThread(t) ==
    /\ AtPrompt /\ t \in stopped
    /\ selected' = t /\ PrintStop(t, bp, stopped)
    /\ UNCHANGED <<st, ev, unseen, kernel, phase, failed, locals, libSeen, lifted, alive, stopped,
                   pending, wanted>>

-----------------------------------------------------------------------------
(* continue, stepi, step (and next), finish.                               *)

\* The command is given; step looks up the line it starts on, finish creates
\* its temporary breakpoint.
Begin(c) ==
    /\ AtPrompt /\ c \in Cmd
    /\ alive \/ c = "finish"
    /\ c = "step" => Ptrace(selected)
    /\ cmd' = IF c = "step" /\ Line[pc[selected]] = NoLine THEN "stepi" ELSE c
    /\ line' = IF c = "step" THEN Line[pc[selected]] ELSE NoLine
    /\ steps' = 0
    /\ IF c # "finish" THEN phase' = "stepover" /\ failed' = FALSE /\ UNCHANGED <<bp, temp>>
       ELSE \E a \in ReturnAddr :
            /\ Ptrace(selected)
            /\ IF bp[a] # "none" THEN UNCHANGED <<bp, temp>>
               ELSE /\ SetBp(a, IF CanAccess(a) THEN "enabled" ELSE "disabled")
                    /\ temp' = temp \cup {a}
            /\ failed' = (bp[a] = "none" /\ ~CanAccess(a))
            /\ phase' = IF failed' THEN "prompt" ELSE "stepover"
    /\ UNCHANGED <<tracee, cut, threads, pending, libSeen, lifted, wanted>>

Fail == phase' = "prompt" /\ failed' = TRUE

\* t was stopped and print_stop was not called: it stays where it is.
LeftBehind(t) == cut' = cut \cup {u \in {t} : past[u]}

\* step_over_breakpoint up to its wait.
StepOverBreakpoint ==
    /\ phase = "stepover"
    /\ LET at == {a \in Inserted : a = Counter(selected)} IN
       \/ /\ ~Ptrace(selected)  \* architecture_->pc throws
          /\ Fail /\ UNCHANGED <<tracee, bp, stopped, lifted>>
       \/ /\ Ptrace(selected) /\ at = {}
          /\ phase' = "resume" /\ UNCHANGED <<tracee, failed, bp, stopped, lifted>>
       \/ \E a \in at :
          /\ CanAccess(a)
          /\ SetBp(a, "disabled") /\ lifted' = at
          /\ AfterResume({selected}, "stepping") /\ stopped' = stopped \ {selected}
          /\ phase' = "overwait"
          /\ UNCHANGED <<pc, past, kernel, failed>>
       \/ \E a \in at :  \* killed after disable: PTRACE_SINGLESTEP throws
          /\ CanAccess(a) /\ Killed(selected)
          /\ SetBp(a, "disabled") /\ Fail
          /\ UNCHANGED <<stopped, lifted>>
    /\ UNCHANGED <<cmd, cut, line, steps, selected, alive, temp, pending,
                   libSeen, wanted>>

ReenabledNever == bp
Reenabled == [a \in Addr |-> IF a \in lifted THEN "enabled" ELSE bp[a]]

RecordedNot(t) == stopped
Recorded(t) == stopped \cup {t}

\* What the step-over's waitpid returns: a stop, of whatever thread, puts the
\* trap back through selected_tid_; another thread's is reported at once, and
\* that thread selected.
OverStop(t) ==
    /\ phase = "overwait" /\ t \in unseen
    /\ unseen' = unseen \ {t} /\ stopped' = Recorded(t) /\ lifted' = {}
    /\ IF \A a \in lifted : CanAccess(a)
       THEN /\ phase' = "resume" /\ selected' = t /\ failed' = failed
            /\ IF t = selected THEN bp' = Reenabled /\ UNCHANGED <<pc, past, temp, cut>>
                               ELSE PrintStop(t, Reenabled, stopped')
       ELSE Fail /\ LeftBehind(t) /\ UNCHANGED <<pc, past, bp, temp, selected>>
    /\ UNCHANGED <<st, ev, kernel, locals, alive, pending, libSeen, wanted>>

\* ... or an exit, which only threads_ learns of: the breakpoint stays out.
OverExit(t) ==
    /\ phase = "overwait" /\ Reapable(t)
    /\ st' = [st EXCEPT ![t] = "gone"] /\ stopped' = stopped \ {t}
    /\ lifted' = {} /\ phase' = "resume"
    /\ UNCHANGED <<ev, unseen, pc, past, kernel, failed, cut, locals, selected, alive,
                   table, libSeen>>

TargetsAll(c) == stopped
TargetsSelected(c) == stopped \cap {selected}
Targets(c) == IF c \in {"continue", "finish"} THEN stopped ELSE stopped \cap {selected}

Request(c) == IF c \in {"continue", "finish"} THEN "running" ELSE "stepping"

\* resume_thread for every recorded stop, or for the selected thread.  A dead
\* one makes it throw with the threads before it, in order of id, resumed.
ResumeThreads ==
    LET targets == Targets(cmd)
        done == {t \in targets : \A u \in targets : u <= t => Ptrace(u)}
    IN
    /\ phase = "resume"
    /\ AfterResume(done, Request(cmd))
    /\ stopped' = stopped \ done
    /\ IF done = targets THEN phase' = "wait" /\ failed' = failed ELSE Fail
    /\ UNCHANGED <<pc, past, kernel, cut, locals, selected, alive, table, libSeen, lifted>>

-----------------------------------------------------------------------------
(* wait_and_report.                                                        *)

\* waitpid returns a stop; it is recorded and its thread selected.
CollectStop(t) ==
    /\ phase = "wait" /\ t \in unseen
    /\ unseen' = unseen \ {t} /\ stopped' = Recorded(t) /\ selected' = t
    /\ phase' = "report"
    /\ UNCHANGED <<st, ev, pc, past, kernel, failed, cut, locals, alive, table, libSeen, lifted>>

AliveNever(t) == FALSE
AliveAfter(t) == alive /\ t # Leader

\* waitpid returns an exit: the thread is forgotten but selected.  In a source
\* step of a target that lives on, reading its pc throws next.
CollectExit(t) ==
    /\ phase = "wait" /\ Reapable(t)
    /\ st' = [st EXCEPT ![t] = "gone"]
    /\ stopped' = stopped \ {t} /\ selected' = t /\ alive' = AliveAfter(t)
    /\ phase' = "prompt" /\ failed' = (cmd = "step" /\ alive')
    /\ UNCHANGED <<ev, unseen, pc, past, kernel, cut, locals, table, libSeen, lifted>>

\* waitpid has no child to wait for.
WaitFails ==
    /\ phase \in {"wait", "overwait"} /\ NoChild
    /\ Fail /\ lifted' = {}
    /\ UNCHANGED <<tracee, cut, locals, threads, table, libSeen>>

SameLine == Line[pc[selected]] # NoLine /\ Line[pc[selected]] = line

\* refresh_modules finds the library if it is mapped; resolve_pending_breakpoints
\* inserts what can be, unless there is an entry already.
Seen == mapped /\ Live(Leader)
Resolved == IF Seen THEN pending ELSE {}
New == {a \in Resolved : bp[a] = "none"}
Resolving == [a \in Addr |-> IF a \in New THEN "enabled" ELSE bp[a]]

\* An exception on the way to print_stop: a clone's event message or refresh_modules
\* (a dead thread, no descriptor left), with nothing changed; or create_breakpoint
\* at `bad', after those for `done' (a thread killed, a library gone again).
ReportThrows ==
    /\ phase = "report" /\ Fail /\ LeftBehind(selected)
    /\ \/ UNCHANGED <<libSeen, bp, pending, wanted>>
       \/ \E bad \in New : \E done \in SUBSET (Resolved \ {bad}) :
            /\ Ptrace(selected) \/ done \cap New = {}
            /\ bp' = [a \in Addr |-> IF a = bad THEN "disabled"
                                    ELSE IF a \in done THEN Resolving[a] ELSE bp[a]]
            /\ pending' = pending \ done /\ wanted' = wanted \cup (done \cap New)
            /\ libSeen' = Seen
    /\ UNCHANGED <<tracee, locals, temp, threads, lifted>>

\* refresh_modules and resolve_pending_breakpoints; then print_stop, or in a
\* source step the next instruction, for which reading pc throws if the thread
\* has been killed since.
Report ==
    /\ phase = "report" /\ (New = {} \/ Ptrace(selected))
    /\ libSeen' = Seen /\ pending' = pending \ Resolved /\ wanted' = wanted \cup New
    /\ \/ /\ cmd = "step" /\ ~Ptrace(selected)
          /\ Fail /\ bp' = Resolving /\ UNCHANGED <<pc, past, cut, temp, steps>>
       \/ /\ cmd = "step" /\ Ptrace(selected) /\ SameLine
          /\ phase' = (IF steps + 1 < StepLimit THEN "stepover" ELSE "prompt")
          /\ steps' = steps + 1 /\ bp' = Resolving
          /\ UNCHANGED <<pc, past, cut, temp, failed>>
       \/ /\ cmd = "step" => Ptrace(selected) /\ ~SameLine
          /\ phase' = "prompt" /\ PrintStop(selected, Resolving, stopped)
          /\ UNCHANGED <<failed, steps>>
    /\ UNCHANGED <<st, ev, unseen, kernel, cmd, line, threads, lifted>>

-----------------------------------------------------------------------------
RestorableUserSet(a) == a \in Inserted /\ CanAccess(a) /\ a \notin temp
Restorable(a) == a \in Inserted /\ CanAccess(a)

\* quit: detach() restores memory through the selected thread and detaches the
\* threads recorded as stopped; then cosy exits, and the kernel kills a target
\* of which any thread is still attached (PTRACE_O_EXITKILL).
Detach ==
    LET detached == {t \in stopped : Ptrace(t)}
        survives == ~doomed /\ \A t \in Thread : Live(t) => t \in detached /\ ev[t] # "exit"
    IN
    /\ AtPrompt /\ phase' = "quit"
    /\ bp' = [a \in Addr |-> IF Restorable(a) THEN "disabled" ELSE bp[a]]
    /\ st' = [t \in Thread |-> IF st[t] = "none" THEN "none"
                               ELSE IF survives /\ t \in detached THEN "free" ELSE "gone"]
    /\ unseen' = {}
    /\ UNCHANGED <<ev, pc, past, kernel, failed, cut, locals, threads, temp, pending, libSeen,
                   lifted, wanted>>

Init ==
    /\ TraceeInit
    /\ phase = "prompt" /\ cmd = "continue" /\ failed = FALSE
    /\ cut = {} /\ line = NoLine /\ steps = 0
    /\ selected = Leader /\ alive = TRUE /\ stopped = {Leader}
    /\ bp = [a \in Addr |-> "none"] /\ temp = {} /\ pending = {} /\ libSeen = FALSE
    /\ lifted = {} /\ wanted = {}

UserCommand ==
    \/ \E a \in Addr : Break(a) \/ Delete(a) \/ Enable(a) \/ Disable(a)
    \/ \E t \in Thread : SelectThread(t)
    \/ \E c \in Cmd : Begin(c)
    \/ Detach

DebuggerStep ==
    \/ StepOverBreakpoint \/ ResumeThreads \/ WaitFails \/ Report \/ ReportThrows
    \/ \E t \in Thread : OverStop(t) \/ OverExit(t) \/ CollectStop(t) \/ CollectExit(t)

\* The target runs whatever the debugger does, until it quits.
Untouched == UNCHANGED <<phase, cmd, failed, line, steps, threads, table, libSeen, lifted>>
TargetStep(t) ==
    /\ phase # "quit" /\ ThreadStep(t, Inserted)
    /\ cut' = {u \in cut : past'[u]} /\ Untouched
TargetSignal(t) ==
    /\ phase # "quit" /\ Signal(t)
    /\ Untouched /\ cut' = cut
TargetInterrupted(t) ==
    /\ phase # "quit" /\ Interrupted(t)
    /\ Untouched /\ cut' = cut

\* on_interrupt: Ctrl-C, at any time, sends SIGSTOP to the target.
Interrupt ==
    /\ phase # "quit" /\ signals < MaxSignals /\ ~NoChild
    /\ interrupt' = TRUE /\ signals' = signals + 1
    /\ UNCHANGED <<st, ev, unseen, pc, past, doomed, mapped, debugger>>

Next ==
    \/ UserCommand \/ Interrupt \/ DebuggerStep
    \/ \E t \in Thread : TargetStep(t) \/ TargetSignal(t) \/ TargetInterrupted(t)

Spec == Init /\ [][Next]_vars

\* cosy's own code runs on, and so does every thread the kernel may schedule, and
\* a SIGSTOP that was sent is taken and exit_group kills the threads that loop;
\* no command and no signal ever has to come.
Fairness ==
    /\ WF_vars(DebuggerStep)
    /\ WF_vars(\E t \in Thread : TargetInterrupted(t))
    /\ \A t \in Thread : WF_vars(TargetStep(t)) /\ WF_vars(Killed(t) /\ TargetStep(t))
FairSpec == Spec /\ Fairness

-----------------------------------------------------------------------------
(* Properties.                                                             *)

TypeOK ==
    /\ TraceeTypeOK
    /\ phase \in {"prompt", "stepover", "overwait", "resume", "wait", "report", "quit"}
    /\ cmd \in {"continue", "stepi", "step", "finish"} /\ failed \in BOOLEAN
    /\ cut \subseteq Thread /\ steps \in 0..StepLimit
    /\ line \in {Line[a] : a \in Addr} \cup {NoLine}
    /\ selected \in Thread /\ alive \in BOOLEAN /\ stopped \subseteq Thread
    /\ bp \in [Addr -> {"none", "disabled", "enabled"}]
    /\ temp \subseteq Addr /\ pending \subseteq LibAddr /\ wanted \subseteq Addr
    /\ libSeen \in BOOLEAN /\ lifted \subseteq Addr

\* threads_ and the kernel agree, whatever order events are collected in: a stop
\* that was collected is recorded, and a recorded stop is one (a thread of a
\* target in exit_group may have been killed out of it).
ThreadsAccurate ==
    phase # "quit" => \A t \in Thread :
        /\ Ptrace(t) /\ t \notin unseen => t \in stopped
        /\ t \in stopped => Ptrace(t) \/ doomed
        /\ t \in stopped /\ t \in unseen => doomed

\* cosy blocks in waitpid only while a thread runs, has a stop or an exit to
\* collect, or is about to be killed.
NoLostWait ==
    phase \in {"wait", "overwait"} =>
        NoChild \/ \E t \in Thread : \/ Runs(t) \/ t \in unseen \/ Reapable(t)
                                     \/ Dying(t)

\* The target is taken for dead only when none of its threads is left.
DeadMeansGone == ~alive => \A t \in Thread : st[t] \in {"none", "gone", "free"}

\* While continue or finish waits, the kernel holds no thread in a stop that
\* cosy has collected already, in a step-over say, and would never resume.
ContinueLeavesNoneStopped ==
    phase = "wait" /\ cmd \in {"continue", "finish"} =>
        \A t \in Thread : Ptrace(t) => t \in unseen

\* A thread recorded as stopped stays stopped through a stepi or step of another.
PausedStayPaused ==
    [][(phase \in {"stepover", "resume"} /\ cmd \in {"stepi", "step"}) =>
         (\A t \in stopped \ {selected} : Ptrace(t) => (doomed \/ Ptrace(t)'))]_vars

\* The target has not started a second thread.
Alone == \A t \in Thread \ {Leader} : st[t] = "none"

\* No thread runs on from behind a trap: whatever executed a trap is put back to
\* it before it is resumed, so no instruction of the target is lost.  (Except where
\* an exception kept the stop from being reported.)
TrapRewound == Alone => \A t \in Thread : Runs(t) /\ past[t] => t \in cut

\* A breakpoint the user set or enabled, and did not disable, is in place at
\* every prompt while the target lives, however often it was stepped over.  (A
\* step-over that ends in the target's exit leaves it out, and alive_ TRUE.)
WantedInPlace ==
    Alone /\ phase = "prompt" /\ (\E t \in Thread : Live(t)) => wanted \subseteq Inserted

\* A target that outlives quit has no trap in its text, and no thread behind one
\* whose stop was reported.
QuitClean ==
    Alone /\ phase = "quit" => \A t \in Thread :
        st[t] = "free" => Inserted = {} /\ (past[t] => t \in cut)

\* Every resuming command comes back, unless the target itself runs for ever.
Busy == phase \notin {"prompt", "quit"}
CommandReturns ==
    (Busy ~> phase = "prompt") \/ <>[](\E t \in Thread : Runs(t))

\* Ctrl-C brings continue, stepi and finish back from their wait even when the
\* target loops and the thread that was started first has exited.  (A source step
\* takes the stop for one of its own and goes on, a step-over for the trap's.)
InterruptReturns ==
    phase = "wait" /\ cmd # "step" /\ interrupt ~> phase = "prompt"

-----------------------------------------------------------------------------
(* What the documentation says of the program, and the code does not do.   *)



\* docs/COMMANDS.md:15, quit: "Restore software breakpoints and terminate Cosy."
\* A target that outlives quit has no trap in its text.
QuitTakesTrapsOut == (\E t \in Thread : st[t] = "free") => Inserted = {}
=============================================================================
