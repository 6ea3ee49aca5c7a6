------------------------------ MODULE Breakpoints ------------------------------
(***************************************************************************)
(* The software-breakpoint subsystem of cosy (src/src/debugger.cpp): the   *)
(* table breakpoints_, the list pending_breakpoints_, the identifier       *)
(* counter, and the text of the target into which traps are patched.       *)
(*                                                                         *)
(* Threads are abstracted to one fact: whether selected_tid_, through      *)
(* which all memory is read and written, is in a ptrace-stop (`reach').    *)
(* Other threads of the target keep running while the debugger works, so   *)
(* the target may replace its own text, or die, between any two steps.     *)
(* Module Debugger models the threads themselves.                          *)
(***************************************************************************)
EXTENDS Integers, FiniteSets

CONSTANTS
    Addr,      \* instruction addresses
    Image,     \* versions of the target's own text at an address
    Program,   \* the addresses mapped when the program starts
    Segment,   \* sets of addresses that are mapped and replaced together
    Location,  \* breakpoint specifications a user can type
    Site,      \* [Location -> SUBSET Addr]: where a specification points
    Absolute,  \* the specifications "*ADDRESS", which need no module
    Trap, Unmapped, NoBytes,  \* the trap; no memory; an empty byte vector
    MaxId      \* bound: breakpoint identifiers handed out

ASSUME ImageAssumption == {Trap, Unmapped, NoBytes} \cap Image = {}
                            /\ Trap # Unmapped
ASSUME SegmentAssumption == Segment \subseteq SUBSET Addr /\ Program \subseteq Addr
ASSUME SiteAssumption == Site \in [Location -> SUBSET Addr]
                           /\ Absolute \subseteq Location
ASSUME MaxIdAssumption == MaxId \in Nat

VARIABLES
    text,      \* the code the target would run without a debugger
    mem,       \* the code it runs: text with traps patched in
    bp,        \* breakpoints_, total: an address without entry has NoBreakpoint
    pending,   \* pending_breakpoints_: records [id, spec], in order of id
    nextId,    \* next_breakpoint_id_
    symbols,   \* the addresses of modules found by the last refresh_modules
    phase,     \* where the debugger's one thread of control is
    todo,      \* addresses for which create_breakpoint is still to be called
    unvisited, \* the part of pending that the resolving pass has not examined
    lifted,    \* the address whose trap a step-over has taken out, if any
    reach,     \* selected_tid_ is in a ptrace-stop
    clobbered, \* ghost: addresses whose text changed under an inserted trap
    aborted    \* ghost: the last resolving pass was cut short by an exception

target   == <<text, mem, clobbered>>
resolver == <<symbols, todo, unvisited, aborted>>
vars == <<text, mem, bp, pending, nextId, symbols, phase, todo, unvisited,
          lifted, reach, clobbered, aborted>>

Phase == {"prompt", "creating", "advance", "lifted", "stepreport", "resume",
          "running", "resolving", "matched", "report", "quit"}

NoBreakpoint == [id |-> 0, enabled |-> FALSE, temporary |-> FALSE, saved |-> NoBytes]
Breakpoint == [id: Nat, enabled: BOOLEAN, temporary: BOOLEAN,
               saved: Image \cup {Trap, NoBytes}]
Pending == [id: Nat \ {0}, spec: Location]

Has(a) == bp[a].id # 0

-----------------------------------------------------------------------------
(* Memory, enable and disable.  A trap lies within one aligned word, so    *)
(* either write happens as a whole or the exception leaves no trace.       *)

CanAccess(a) == reach /\ mem[a] # Unmapped

Armed(e, bytes) == [e EXCEPT !.enabled = TRUE, !.saved = bytes]
Disabled(e) == [e EXCEPT !.enabled = FALSE]

\* enable() of entry e at address a, when the ptrace calls succeed.
Enable(a, e) ==
    /\ mem[a] # Unmapped
    /\ mem' = [mem EXCEPT ![a] = Trap]
    /\ bp' = [bp EXCEPT ![a] = Armed(e, mem[a])]

WriteBackAlways(a) == [mem EXCEPT ![a] = bp[a].saved]
WriteBack(a) == IF bp[a].enabled THEN [mem EXCEPT ![a] = bp[a].saved] ELSE mem

\* disable(), after which the entry is e: itself switched off, or erased.
Disable(a, e) ==
    /\ bp[a].enabled => CanAccess(a)
    /\ mem' = WriteBack(a)
    /\ bp' = [bp EXCEPT ![a] = e]

-----------------------------------------------------------------------------
(* create_breakpoint.  The entry is in the table before enable() runs, and *)
(* stays there, switched off, when enable() throws.                        *)

EntryDefaultEnabled(temporary) ==
    [id |-> nextId, enabled |-> TRUE, temporary |-> temporary, saved |-> NoBytes]
EntryKeepingPendingId(temporary) ==
    [id |-> IF phase = "matched" THEN CHOOSE n \in 1..nextId :
                 \E p \in unvisited : p.id = n /\ \A q \in unvisited : n <= q.id
            ELSE nextId,
     enabled |-> FALSE, temporary |-> temporary, saved |-> NoBytes]
Entry(temporary) ==
    [id |-> nextId, enabled |-> FALSE, temporary |-> temporary, saved |-> NoBytes]

CreateExisting(a) == Has(a) /\ UNCHANGED <<bp, mem, nextId>>

CreateNew(a, temporary) ==
    /\ ~Has(a) /\ reach /\ nextId < MaxId
    /\ Enable(a, Entry(temporary))
    /\ nextId' = nextId + 1

CreateThrows(a, temporary) ==
    /\ ~Has(a) /\ ~CanAccess(a) /\ nextId < MaxId
    /\ bp' = [bp EXCEPT ![a] = Entry(temporary)]
    /\ nextId' = nextId + 1
    /\ mem' = mem

-----------------------------------------------------------------------------
(* Commands at the prompt: break, delete, enable, disable, set memory.     *)

Resolve(s) == IF s \in Absolute THEN Site[s] ELSE Site[s] \cap symbols

\* set_breakpoint, a specification that resolves: create at each address.
SetBreakpoint(s) ==
    /\ phase = "prompt" /\ Resolve(s) # {} /\ nextId < MaxId
    /\ phase' = "creating" /\ todo' = Resolve(s)
    /\ UNCHANGED <<target, bp, pending, nextId, symbols, unvisited, lifted, reach, aborted>>

\* set_breakpoint, a specification that does not: create_pending_breakpoint.
SetPending(s) ==
    /\ phase = "prompt" /\ Resolve(s) = {} /\ nextId < MaxId
    /\ pending' = pending \cup {[id |-> nextId, spec |-> s]}
    /\ nextId' = nextId + 1
    /\ UNCHANGED <<target, bp, symbols, phase, todo, unvisited, lifted, reach, aborted>>

\* One turn of set_breakpoint's loop.
Create(a) ==
    /\ phase = "creating" /\ a \in todo
    /\ \/ /\ CreateExisting(a) \/ CreateNew(a, FALSE)
          /\ todo' = todo \ {a}
       \/ CreateThrows(a, FALSE) /\ todo' = {}
    /\ phase' = IF todo' = {} THEN "prompt" ELSE "creating"
    /\ UNCHANGED <<text, clobbered, pending, symbols, unvisited, lifted, reach, aborted>>

EraseWithoutDisable(a) ==
    /\ phase = "prompt" /\ Has(a)
    /\ bp' = [bp EXCEPT ![a] = NoBreakpoint] /\ mem' = mem
    /\ UNCHANGED <<text, clobbered, pending, nextId, resolver, phase, lifted, reach>>

\* delete ID, an entry of the table.
RemoveBreakpoint(a) ==
    /\ phase = "prompt" /\ Has(a)
    /\ Disable(a, NoBreakpoint)
    /\ UNCHANGED <<text, clobbered, pending, nextId, resolver, phase, lifted, reach>>

\* The classic slip of an erase to the end of the vector.
RemovePendingAndLater(p) ==
    /\ phase = "prompt"
    /\ pending' = {q \in pending : q.id < p.id}
    /\ UNCHANGED <<target, bp, nextId, resolver, phase, lifted, reach>>

\* delete ID, a pending breakpoint.
RemovePending(p) ==
    /\ phase = "prompt"
    /\ pending' = pending \ {p}
    /\ UNCHANGED <<target, bp, nextId, resolver, phase, lifted, reach>>

EnableCommand(a) ==
    /\ phase = "prompt" /\ Has(a) /\ ~bp[a].enabled
    /\ reach /\ Enable(a, bp[a])
    /\ UNCHANGED <<text, clobbered, pending, nextId, resolver, phase, lifted, reach>>

DisableCommand(a) ==
    /\ phase = "prompt" /\ bp[a].enabled
    /\ Disable(a, Disabled(bp[a]))
    /\ UNCHANGED <<text, clobbered, pending, nextId, resolver, phase, lifted, reach>>

\* New code in place of what is at R, traps included.
Overwrite(R, c) ==
    /\ text' = [a \in Addr |-> IF a \in R THEN c ELSE text[a]]
    /\ mem' = [a \in Addr |-> IF a \in R THEN c ELSE mem[a]]
    /\ clobbered' = (clobbered \ R) \cup {a \in R : bp[a].enabled}

\* set memory ADDRESS VALUE, aimed at code: the user's bytes are the text now.
SetMemory(a, c) ==
    /\ phase = "prompt" /\ CanAccess(a) /\ c \in Image
    /\ Overwrite({a}, c)
    /\ UNCHANGED <<bp, pending, nextId, resolver, phase, lifted, reach>>

\* thread TID: another thread recorded as stopped; print_stop shows it.
SelectThread ==
    /\ phase = "prompt"
    /\ reach' \in BOOLEAN /\ phase' = "report"
    /\ UNCHANGED <<target, bp, pending, nextId, resolver, lifted>>

-----------------------------------------------------------------------------
(* Resuming the target.                                                    *)

\* continue, stepi, step; and finish, which first creates a temporary
\* breakpoint at the return address it reads.
Advance ==
    /\ phase = "prompt" /\ phase' = "advance"
    /\ UNCHANGED <<target, bp, pending, nextId, resolver, lifted, reach>>

Finish(a) ==
    /\ phase = "prompt" /\ reach
    /\ \/ (CreateExisting(a) \/ CreateNew(a, TRUE)) /\ phase' = "advance"
       \/ CreateThrows(a, TRUE) /\ phase' = "prompt"
    /\ UNCHANGED <<text, clobbered, pending, resolver, lifted, reach>>

\* step_over_breakpoint up to its wait: pc is at a.
StepOverBreakpoint(a) ==
    /\ phase = "advance" /\ bp[a].enabled
    /\ Disable(a, Disabled(bp[a]))
    /\ phase' = "lifted" /\ lifted' = {a} /\ reach' = FALSE
    /\ UNCHANGED <<text, clobbered, pending, nextId, resolver>>

\* pc is at no enabled breakpoint: the target is resumed as it is.
Resume ==
    /\ phase \in {"advance", "resume"} /\ reach
    /\ phase' = "running" /\ reach' = FALSE
    /\ UNCHANGED <<target, bp, pending, nextId, resolver, lifted>>

\* pc, disable or PTRACE_CONT fails: dispatch prints the error.
AdvanceFails ==
    /\ phase \in {"advance", "resume"}
    /\ (phase = "advance" /\ reach) => \E a \in Addr : bp[a].enabled /\ ~CanAccess(a)
    /\ phase = "resume" => ~reach
    /\ phase' = "prompt"
    /\ UNCHANGED <<target, bp, pending, nextId, resolver, lifted, reach>>

\* The step-over collects a stop and puts the trap back through selected_tid_:
\* the thread itself, or one that is running when the stop is another thread's
\* (and then print_stop runs before the resumption).
StepOverStop(own) ==
    /\ phase = "lifted" /\ lifted' = {}
    /\ \E a \in lifted : Enable(a, bp[a])
    /\ reach' = TRUE
    /\ phase' = IF own THEN "resume" ELSE "stepreport"
    /\ UNCHANGED <<text, clobbered, pending, nextId, resolver>>

\* ... which throws: the breakpoint is left switched off.
StepOverThrows ==
    /\ phase = "lifted" /\ lifted' = {}
    /\ reach' \in BOOLEAN /\ phase' = "prompt"
    /\ UNCHANGED <<target, bp, pending, nextId, resolver>>

\* The step-over collects an exit: nothing is put back, the caller goes on.
StepOverExit ==
    /\ phase = "lifted" /\ lifted' = {}
    /\ reach' \in BOOLEAN /\ phase' = "running"
    /\ UNCHANGED <<target, bp, pending, nextId, resolver>>

-----------------------------------------------------------------------------
(* wait_and_report.                                                        *)

\* A stop is collected: refresh_modules, then the resolving pass begins.
Stop ==
    /\ phase = "running"
    /\ reach' = TRUE
    /\ symbols' = {a \in Addr : text[a] # Unmapped}
    /\ unvisited' = pending /\ aborted' = FALSE /\ phase' = "resolving"
    /\ UNCHANGED <<target, bp, pending, nextId, todo, lifted>>

\* ... or an exception keeps the pass from beginning: refresh_modules cannot read
\* the memory map, or PTRACE_GETEVENTMSG fails.  The modules stay as they were.
StopUnrefreshed ==
    /\ phase = "running"
    /\ reach' = TRUE /\ phase' = "prompt"
    /\ UNCHANGED <<target, bp, pending, nextId, resolver, lifted>>

\* An exit is collected: it is reported without a refresh, and selected_tid_
\* is the thread that exited.  Or no child is left and waitpid fails.
StopExit ==
    /\ phase = "running"
    /\ reach' = FALSE /\ phase' = "prompt"
    /\ UNCHANGED <<target, bp, pending, nextId, resolver, lifted>>

Iterator(p) == p \in unvisited /\ \A q \in unvisited : p.id <= q.id

\* resolve_pending_breakpoints: the specification does not resolve, ++iterator.
KeepPending(p) ==
    /\ phase = "resolving" /\ Iterator(p) /\ Resolve(p.spec) = {}
    /\ unvisited' = unvisited \ {p}
    /\ UNCHANGED <<target, bp, pending, nextId, symbols, todo, aborted, phase, lifted, reach>>

\* It resolves: create_breakpoint for each address ...
MatchPending(p) ==
    /\ phase = "resolving" /\ Iterator(p) /\ Resolve(p.spec) # {}
    /\ todo' = Resolve(p.spec) /\ phase' = "matched"
    /\ UNCHANGED <<target, bp, pending, nextId, symbols, unvisited, aborted, lifted, reach>>

CreateResolved(a) ==
    /\ phase = "matched" /\ a \in todo
    /\ \/ /\ CreateExisting(a) \/ CreateNew(a, FALSE)
          /\ todo' = todo \ {a}
          /\ UNCHANGED <<phase, unvisited, aborted>>
       \/ /\ CreateThrows(a, FALSE)  \* the exception leaves wait_and_report
          /\ todo' = {} /\ unvisited' = {} /\ aborted' = TRUE /\ phase' = "prompt"
    /\ UNCHANGED <<text, clobbered, pending, symbols, lifted, reach>>

\* The classic slip: erase moves the iterator and the loop advances it again.
AfterEraseSkipping(p) ==
    unvisited \ {q \in unvisited : \A r \in unvisited \ {p} : q.id <= r.id}
AfterErase(p) == unvisited \ {p}

EraseAfterFirst == phase = "matched"
AllCreated == phase = "matched" /\ todo = {}

\* ... and the pending breakpoint is erased, its identifier with it.
ErasePending(p) ==
    /\ AllCreated /\ Iterator(p)
    /\ pending' = pending \ {p} /\ unvisited' = AfterErase(p)
    /\ todo' = {} /\ phase' = "resolving"
    /\ UNCHANGED <<target, bp, nextId, symbols, aborted, lifted, reach>>

\* End of the pass: print_stop, or the next step of a source step.
EndResolve(next) ==
    /\ phase = "resolving" /\ unvisited = {}
    /\ phase' = next
    /\ UNCHANGED <<target, bp, pending, nextId, resolver, lifted, reach>>

\* print_stop at a temporary breakpoint: disable and erase it ...
AtTemporary(a) ==
    /\ phase \in {"report", "stepreport"} /\ bp[a].temporary
    /\ Disable(a, NoBreakpoint)
    /\ phase' = IF phase = "report" THEN "prompt" ELSE "resume"
    /\ UNCHANGED <<text, clobbered, pending, nextId, resolver, lifted, reach>>

\* ... or elsewhere, or failing ("trap inspection failed"): the table stays.
AtOther ==
    /\ phase \in {"report", "stepreport"}
    /\ phase' = IF phase = "report" THEN "prompt" ELSE "resume"
    /\ UNCHANGED <<target, bp, pending, nextId, resolver, lifted, reach>>

-----------------------------------------------------------------------------
(* detach, and what the target does by itself.                             *)

RestorableUserSet(a) == bp[a].enabled /\ CanAccess(a) /\ ~bp[a].temporary
Restorable(a) == bp[a].enabled /\ CanAccess(a)

Detach ==
    /\ phase = "prompt" /\ phase' = "quit"
    /\ mem' = [a \in Addr |-> IF Restorable(a) THEN bp[a].saved ELSE mem[a]]
    /\ bp' = [a \in Addr |-> IF Restorable(a) THEN Disabled(bp[a]) ELSE bp[a]]
    /\ UNCHANGED <<text, clobbered, pending, nextId, resolver, lifted, reach>>

\* exec, dlopen, dlclose: a segment gets other text, or none.
Remap(R, c) ==
    /\ phase # "quit" /\ R \in Segment
    /\ Overwrite(R, c)
    /\ UNCHANGED <<bp, pending, nextId, resolver, phase, lifted, reach>>

\* The selected thread is killed, by exit_group or exec in another thread.
LoseThread ==
    /\ phase # "quit" /\ reach /\ reach' = FALSE
    /\ UNCHANGED <<target, bp, pending, nextId, resolver, phase, lifted>>

-----------------------------------------------------------------------------
\* The state launch() leaves: the program mapped, nothing set, one stop.
Init ==
    /\ text \in [Addr -> Image \cup {Unmapped}] /\ mem = text
    /\ \A a \in Addr : a \in Program <=> text[a] # Unmapped
    /\ bp = [a \in Addr |-> NoBreakpoint]
    /\ pending = {} /\ nextId = 1
    /\ symbols = {a \in Addr : text[a] # Unmapped}
    /\ phase = "prompt" /\ todo = {} /\ unvisited = {}
    /\ lifted = {} /\ reach = TRUE
    /\ clobbered = {} /\ aborted = FALSE

Command ==
    \/ \E s \in Location : SetBreakpoint(s) \/ SetPending(s)
    \/ \E a \in Addr : \/ Create(a) \/ RemoveBreakpoint(a) \/ EnableCommand(a)
                       \/ DisableCommand(a) \/ Finish(a)
    \/ \E a \in Addr, c \in Image : SetMemory(a, c)
    \/ \E p \in pending : RemovePending(p)
    \/ SelectThread \/ Advance \/ Detach

Proceed ==
    \/ \E a \in Addr : StepOverBreakpoint(a)
    \/ \E own \in BOOLEAN : StepOverStop(own)
    \/ Resume \/ AdvanceFails \/ StepOverThrows \/ StepOverExit

Report ==
    \/ Stop \/ StopUnrefreshed \/ StopExit \/ AtOther
    \/ \E p \in unvisited : KeepPending(p) \/ MatchPending(p) \/ ErasePending(p)
    \/ \E next \in {"report", "advance"} : EndResolve(next)
    \/ \E a \in Addr : CreateResolved(a) \/ AtTemporary(a)

Environment ==
    \/ \E R \in Segment, c \in Image \cup {Unmapped} : Remap(R, c)
    \/ LoseThread

Next == Command \/ Proceed \/ Report \/ Environment

Spec == Init /\ [][Next]_vars
-----------------------------------------------------------------------------
(* Properties.                                                             *)

TypeOK ==
    /\ text \in [Addr -> Image \cup {Unmapped}]
    /\ mem \in [Addr -> Image \cup {Unmapped, Trap}]
    /\ bp \in [Addr -> Breakpoint]
    /\ pending \subseteq Pending /\ unvisited \subseteq pending
    /\ nextId \in Nat \ {0}
    /\ symbols \subseteq Addr /\ todo \subseteq Addr /\ clobbered \subseteq Addr
    /\ phase \in Phase /\ lifted \subseteq Addr
    /\ reach \in BOOLEAN /\ aborted \in BOOLEAN

\* Unless the text was replaced under an inserted trap, the table and memory
\* agree, through failed creations, interrupted step-overs and remappings: a
\* trap stands exactly at the breakpoints that are switched on, the target's
\* own code everywhere else, and that code is what was saved.
Coherent ==
    \A a \in Addr \ clobbered :
        /\ mem[a] = IF bp[a].enabled THEN Trap ELSE text[a]
        /\ bp[a].enabled => bp[a].saved = text[a]

\* At every address, replaced text or not: a trap in memory belongs to an entry
\* that will take it out, and no entry ever saved a trap as the target's code
\* (writing it back would leave a trap nobody owns).
TrapsOwned ==
    \A a \in Addr :
        /\ mem[a] = Trap => Has(a) /\ bp[a].enabled
        /\ bp[a].enabled => bp[a].saved \in Image

\* What `info break' prints.
InfoLine(a) ==
    [num |-> bp[a].id, at |-> a, status |-> IF bp[a].enabled THEN "enabled" ELSE "disabled"]
InfoPending(p) == [num |-> p.id, at |-> p.spec, status |-> "pending"]
InfoBreak == {InfoLine(a) : a \in {b \in Addr : Has(b)}} \cup {InfoPending(p) : p \in pending}

Listing == INSTANCE BreakpointSet WITH
    Place <- Addr, Wish <- Location,
    listed <- InfoBreak, last <- nextId - 1, closed <- phase = "quit"

\* Through commands, failures, hits, step-overs and resolving passes the list of
\* breakpoints changes only as module BreakpointSet says.
ImplementsBreakpointSet == Listing!Spec

\* delete, enable and disable name breakpoints by identifier: no two entries,
\* of the table or of the pending list, ever share one, although a pending
\* breakpoint gets a new identifier, or several, when it resolves.
IdsUnique ==
    /\ \A a, b \in Addr : Has(a) /\ bp[a].id = bp[b].id => a = b
    /\ \A p, q \in pending : p.id = q.id => p = q
    /\ \A a \in Addr, p \in pending : bp[a].id # p.id

\* At the prompt no breakpoint is pending that the loaded modules resolve,
\* unless the last resolving pass was cut short by an exception.
PendingUnresolvable ==
    phase = "prompt" /\ ~aborted => \A p \in pending : Resolve(p.spec) = {}

\* A resolving pass takes a breakpoint off the pending list only when every
\* address it resolved to has an entry in the table.
ResolvedHasEntries ==
    [][phase = "matched" =>
         \A p \in pending \ pending' : \A a \in Resolve(p.spec) : bp'[a].id # 0]_vars

\* quit through a selected thread that is stopped leaves the target's own code
\* at every address, save where it was replaced under a trap.
QuitRestores ==
    phase = "quit" /\ reach => \A a \in Addr \ clobbered : mem[a] = text[a]
=============================================================================
