-------------------------------- MODULE Tracee --------------------------------
(***************************************************************************)
(* The other side of ptrace, which is not part of cosy: a multithreaded    *)
(* target program and what the Linux kernel does with its threads under    *)
(* the options launch() sets (TRACECLONE, TRACEEXIT, EXITKILL).  Modelled  *)
(* from how src/src/debugger.cpp uses it.                                  *)
(*                                                                         *)
(* A thread runs until an event stops it; the stop stays `unseen' until    *)
(* the tracer's waitpid collects it.  The program is a graph of            *)
(* instructions.  An address is a number; when a trap at a is executed the *)
(* program counter is left TrapAdvance past a (1 on x86-64, 0 on AArch64), *)
(* which `past' records until the tracer rewinds it.                       *)
(***************************************************************************)
EXTENDS Integers, FiniteSets

CONSTANTS
    Thread,       \* thread ids, numbers: the kernel hands them out upwards
    Leader,       \* the thread that was forked
    Addr,         \* addresses of instructions
    LibAddr,      \* those in a library the program maps while running
    Op,           \* [Addr -> {"plain", "clone", "exit", "exit_group", "map"}]
    Succ,         \* [Addr -> SUBSET Addr]: where control goes
    Start, ThreadStart, \* where the first and every other thread begins
    TrapAdvance,
    MaxSignals    \* bound: asynchronous signals

ASSUME ThreadAssumption == Thread \subseteq Nat /\ Leader \in Thread
ASSUME ProgramAssumption ==
    /\ Addr \subseteq Nat /\ LibAddr \subseteq Addr
    /\ Op \in [Addr -> {"plain", "clone", "exit", "exit_group", "map"}]
    /\ Succ \in [Addr -> SUBSET Addr] /\ {Start, ThreadStart} \subseteq Addr
    /\ TrapAdvance \in {0, 1} /\ MaxSignals \in Nat

VARIABLES
    st,      \* none, running, stepping, stopped, zombie, gone, free (detached)
    ev,      \* why a thread stopped; "start" before a clone's first stop
    unseen,  \* the stopped threads whose stop waitpid has not returned
    pc,      \* the instruction a thread is at
    past,    \* it has executed the trap there, and was not rewound
    doomed,  \* exit_group was called
    mapped,  \* the library is mapped
    signals, \* asynchronous signals so far
    interrupt \* a SIGSTOP for the process, not for one thread, is pending

tracee == <<st, ev, unseen, pc, past, doomed, mapped, signals, interrupt>>

State == {"none", "running", "stepping", "stopped", "zombie", "gone", "free"}
Event == {"none", "start", "trap", "step", "clone", "exit", "sigstop", "signal"}

Runs(t) == st[t] \in {"running", "stepping"}
Live(t) == st[t] \in {"running", "stepping", "stopped"}

\* The program counter a PTRACE_GETREGSET shows.
Counter(t) == pc[t] + (IF past[t] THEN TrapAdvance ELSE 0)

StopsWith(t, e) ==
    /\ st' = [st EXCEPT ![t] = "stopped"]
    /\ ev' = [ev EXCEPT ![t] = e]
    /\ unseen' = unseen \cup {t}

\* A step completes in a stop if the thread was single-stepped.
Completes(t) ==
    IF st[t] = "stepping" THEN StopsWith(t, "step")
                          ELSE UNCHANGED <<st, ev, unseen>>

-----------------------------------------------------------------------------
(* What a thread does when it runs; `inserted' is where traps stand.       *)

ExecuteTrap(t, inserted) ==
    /\ Runs(t) /\ ev[t] # "start" /\ ~past[t] /\ pc[t] \in inserted
    /\ StopsWith(t, "trap")
    /\ past' = [past EXCEPT ![t] = TrapAdvance # 0]
    /\ UNCHANGED <<pc, doomed, mapped, signals, interrupt>>

\* The instruction at pc itself; after a trap that was not rewound, whatever
\* its bytes after the first happen to be: skipped here, or a fault.
ExecuteInstruction(t, inserted) ==
    /\ Runs(t) /\ ev[t] # "start" /\ (past[t] \/ pc[t] \notin inserted)
    /\ \/ /\ past[t] \/ Op[pc[t]] \in {"plain", "map"}
          /\ Completes(t)
          /\ mapped' = (mapped \/ (Op[pc[t]] = "map" /\ ~past[t]))
          /\ doomed' = doomed
       \/ /\ past[t] /\ StopsWith(t, "signal")
          /\ UNCHANGED <<mapped, doomed>>
       \/ /\ ~past[t] /\ Op[pc[t]] = "clone"
          /\ LET new == {u \in Thread : st[u] = "none"} IN
             IF new = {} THEN Completes(t) ELSE
             \E u \in new :
             /\ \A v \in new : u <= v
             /\ st' = [st EXCEPT ![t] = "stopped", ![u] = "running"]
             /\ ev' = [ev EXCEPT ![t] = "clone", ![u] = "start"]
             /\ unseen' = unseen \cup {t}
          /\ UNCHANGED <<mapped, doomed>>
    /\ \E a \in Succ[pc[t]] : pc' = [pc EXCEPT ![t] = a]
    /\ past' = [past EXCEPT ![t] = FALSE]
    /\ UNCHANGED <<signals, interrupt>>

\* exit and exit_group stop the thread a last time, still at the call.
ExecuteExit(t, inserted) ==
    /\ Runs(t) /\ ev[t] # "start" /\ ~past[t] /\ pc[t] \notin inserted
    /\ Op[pc[t]] \in {"exit", "exit_group"}
    /\ StopsWith(t, "exit")
    /\ doomed' = (doomed \/ Op[pc[t]] = "exit_group")
    /\ UNCHANGED <<pc, past, mapped, signals, interrupt>>

\* A clone begins with a SIGSTOP, some time after its creator's clone event.
FirstStop(t) ==
    /\ Runs(t) /\ ev[t] = "start"
    /\ StopsWith(t, "sigstop")
    /\ UNCHANGED <<pc, past, doomed, mapped, signals, interrupt>>

\* A signal for the thread.
Signal(t) ==
    /\ Runs(t) /\ ev[t] # "start" /\ signals < MaxSignals
    /\ StopsWith(t, "signal") /\ signals' = signals + 1
    /\ UNCHANGED <<pc, past, doomed, mapped, interrupt>>

\* kill(2) with SIGSTOP stops whichever thread of the process takes it first.
Interrupted(t) ==
    /\ interrupt /\ Runs(t) /\ ev[t] # "start"
    /\ StopsWith(t, "sigstop") /\ interrupt' = FALSE
    /\ UNCHANGED <<pc, past, doomed, mapped, signals>>

\* exit_group kills every other thread, stopped or not, wherever it is; it
\* reports its exit or, being killed, does not.
Dying(t) == doomed /\ Live(t) /\ ~(st[t] = "stopped" /\ ev[t] = "exit")
Killed(t) ==
    /\ Dying(t)
    /\ \/ StopsWith(t, "exit")
       \/ /\ st' = [st EXCEPT ![t] = "zombie"] /\ ev' = [ev EXCEPT ![t] = "none"]
          /\ unseen' = unseen \ {t}
    /\ UNCHANGED <<pc, past, doomed, mapped, signals, interrupt>>

ThreadStep(t, inserted) ==
    \/ ExecuteTrap(t, inserted) \/ ExecuteInstruction(t, inserted)
    \/ ExecuteExit(t, inserted) \/ FirstStop(t) \/ Killed(t)

-----------------------------------------------------------------------------
(* What the tracer's calls do.                                             *)

\* PTRACE_CONT (running) or PTRACE_SINGLESTEP (stepping) of stopped threads.
\* A thread at its exit event goes on to die.
AfterResume(T, how) ==
    /\ st' = [t \in Thread |-> IF t \notin T THEN st[t]
                               ELSE IF ev[t] = "exit" THEN "zombie" ELSE how]
    /\ ev' = [t \in Thread |-> IF t \in T THEN "none" ELSE ev[t]]
    /\ unseen' = unseen \ T

\* A dead leader cannot be waited for while another thread is left.
Reapable(t) ==
    /\ st[t] = "zombie"
    /\ t = Leader => \A u \in Thread \ {t} : st[u] \in {"none", "gone"}

NoChild == \A t \in Thread : st[t] \in {"none", "gone"}

TraceeInit ==
    /\ st = [t \in Thread |-> IF t = Leader THEN "stopped" ELSE "none"]
    /\ ev = [t \in Thread |-> IF t = Leader THEN "trap" ELSE "none"]
    /\ unseen = {} /\ pc = [t \in Thread |-> IF t = Leader THEN Start ELSE ThreadStart]
    /\ past = [t \in Thread |-> FALSE]
    /\ doomed = FALSE /\ mapped = FALSE /\ signals = 0 /\ interrupt = FALSE

TraceeTypeOK ==
    /\ st \in [Thread -> State] /\ ev \in [Thread -> Event]
    /\ unseen \subseteq {t \in Thread : st[t] = "stopped"}
    /\ pc \in [Thread -> Addr] /\ past \in [Thread -> BOOLEAN]
    /\ doomed \in BOOLEAN /\ mapped \in BOOLEAN /\ signals \in 0..MaxSignals
    /\ interrupt \in BOOLEAN
=============================================================================
