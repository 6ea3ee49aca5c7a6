------------------------------ MODULE Watchpoints ------------------------------
(***************************************************************************)
(* Hardware watchpoints (set_watchpoint, configure_thread_watchpoints of   *)
(* src/src/debugger.cpp, configure_watchpoint of both architectures): the  *)
(* debugger's list against the debug registers of each thread.             *)
(*                                                                         *)
(* A watchpoint is programmed by `watch` into the threads then recorded as *)
(* stopped, and by wait_and_report into a thread that reports SIGSTOP (the *)
(* first stop of a clone).  Nothing is ever taken out of a register.  The  *)
(* run control of module Debugger is reduced to who is recorded as stopped *)
(* and which of the two waits collects a stop.                             *)
(***************************************************************************)
EXTENDS Integers, FiniteSets, FiniteSetsExt

CONSTANTS
    Thread,   \* thread ids, resumed and programmed in order
    Leader,   \* the thread launch() starts
    Watch,    \* what the user asks to watch: addresses, accesses and sizes
    Slots,    \* slots set_watchpoint hands out (4 in the code)
    MayRefuse \* the kernel may refuse to write a register of a live thread

ASSUME WatchAssumption ==
    /\ Leader \in Thread /\ Thread \subseteq Nat /\ IsFiniteSet(Thread)
    /\ Watch \subseteq [address : Nat, access : {{"read"}, {"write"}, {"read", "write"}},
                       bytes : Nat \ {0}]
    /\ Slots \in 1..4
    /\ MayRefuse \in BOOLEAN

VARIABLES
    machine, \* the architecture cosy is built for: "x86_64" or "aarch64"
    life,    \* per thread: none, running, waiting, stopped (collected) or gone
    stop,    \* what its stop is: "sigstop" or "other"
    hw,      \* its debug registers: the addresses and the bits set in control
    phase,   \* prompt, wait (wait_and_report) or over (step_over_breakpoint)
    recorded,\* threads recorded as stopped
    listed,  \* watchpoints_, as a function from the slots taken
    due      \* ghost: slots the code believes it programmed in a thread

vars == <<machine, life, stop, hw, phase, recorded, listed, due>>

Slot == 0..(Slots - 1)

-----------------------------------------------------------------------------
(* configure_watchpoint: `h` with `slot` programmed for w.                 *)

\* Bits first .. first+3 that spell the number n.
Field(first, n) == {first + i : i \in {j \in 0..12 : (n \div 2^j) % 2 = 1}}

\* DR7: two enable bits per slot at 2*slot, four of access and length from 16.
Length == [b \in {1, 2, 4, 8} |-> CASE b = 1 -> 0 [] b = 2 -> 1 [] b = 4 -> 3 [] b = 8 -> 2]
X86Clear(slot) == (16 + 4 * slot)..(19 + 4 * slot) \cup {2 * slot, 2 * slot + 1}
X86Bits(slot, w) ==
    {2 * slot} \cup Field(16 + 4 * slot, (IF w.access = {"write"} THEN 1 ELSE 3) + 4 * Length[w.bytes])

\* A DBGWCR of its own per slot: enable, privilege 2, access, byte mask.
ArmClear(slot) == (32 * slot)..(32 * slot + 31)
ArmBits(slot, w) ==
    LET type == (IF "read" \in w.access THEN 1 ELSE 0) + (IF "write" \in w.access THEN 2 ELSE 0)
    IN Field(32 * slot, 1 + 2 * 2 + 8 * type) \cup Field(32 * slot + 5, 2^w.bytes - 1)

ClearNothing(slot) == {}
Cleared(slot) == IF machine = "x86_64" THEN X86Clear(slot) ELSE ArmClear(slot)
BitsOneEnable(slot, w) ==
    IF machine = "x86_64" THEN (X86Bits(slot, w) \ {2 * slot}) \cup {slot} ELSE ArmBits(slot + 1, w)
Bits(slot, w) == IF machine = "x86_64" THEN X86Bits(slot, w) ELSE ArmBits(slot, w)

Valid(w) ==
    /\ w.bytes \in {1, 2, 4, 8}
    /\ machine = "x86_64" => w.address % w.bytes = 0

\* The registers `h` with every slot of `list` programmed for its watchpoint.
Programmed(h, list) ==
    [address |-> [s \in Slot |-> IF s \in DOMAIN list THEN list[s].address ELSE h.address[s]],
     control |-> (h.control \ UNION {Cleared(s) : s \in DOMAIN list})
                   \cup UNION {Bits(s, list[s]) : s \in DOMAIN list}]

\* What the kernel's refusal of slot leaves: x86 writes the address before DR7,
\* AArch64 both at once.
Refused(h, slot, w) ==
    {h} \cup (IF machine = "x86_64" THEN {[h EXCEPT !.address[slot] = w.address]} ELSE {})

\* What the processor takes `h` to watch in a slot.
Number(h, first) ==
    (IF first \in h.control THEN 1 ELSE 0) + (IF first + 1 \in h.control THEN 2 ELSE 0)
Enabled(h, slot) ==
    IF machine = "x86_64" THEN {2 * slot, 2 * slot + 1} \cap h.control # {}
                          ELSE 32 * slot \in h.control
Watched(h, slot) ==
    IF machine = "x86_64"
    THEN [address |-> h.address[slot],
          access |-> CASE Number(h, 16 + 4 * slot) = 1 -> {"write"}
                       [] Number(h, 16 + 4 * slot) = 3 -> {"read", "write"}
                       [] OTHER -> {},
          bytes |-> CASE Number(h, 18 + 4 * slot) = 0 -> 1
                      [] Number(h, 18 + 4 * slot) = 1 -> 2
                      [] Number(h, 18 + 4 * slot) = 2 -> 8
                      [] OTHER -> 4]
    ELSE [address |-> h.address[slot],
          access |-> (IF 32 * slot + 3 \in h.control THEN {"read"} ELSE {})
                     \cup (IF 32 * slot + 4 \in h.control THEN {"write"} ELSE {}),
          bytes |-> Cardinality(h.control \cap (32 * slot + 5)..(32 * slot + 12))]

-----------------------------------------------------------------------------
(* Commands.                                                               *)

\* ptrace works on a collected stop, and on nothing of a thread that died.
Accepts(t, w) == Valid(w) /\ life[t] = "stopped"
Throws(t, w) == ~Accepts(t, w) \/ MayRefuse
Partly(t, slot, w) == IF Accepts(t, w) THEN Refused(hw[t], slot, w) ELSE {hw[t]}

FreeSlotAfter(taken) == Cardinality(taken) + 1
FreeSlot(taken) == Min({s \in 0..Slots : s \notin taken})

\* watch: programs the recorded threads in turn, and lists the watchpoint only
\* if none of them throws; those before the one that does stay programmed.
SetWatchpoint(w) ==
    LET slot == FreeSlot(DOMAIN listed)
        one == [s \in {slot} |-> w]
        program(done) == [t \in Thread |-> IF t \in done THEN Programmed(hw[t], one) ELSE hw[t]]
    IN
    /\ phase = "prompt" /\ slot < Slots
    /\ \/ /\ \A t \in recorded : Accepts(t, w)
          /\ hw' = program(recorded)
          /\ listed' = [s \in DOMAIN listed \cup {slot} |-> IF s = slot THEN w ELSE listed[s]]
          /\ due' = [t \in Thread |-> IF t \in recorded THEN due[t] \cup {slot} ELSE due[t]]
       \/ \E t \in recorded :
          LET before == {u \in recorded : u < t} IN
          /\ \A u \in before : Accepts(u, w)
          /\ Throws(t, w)
          /\ \E h \in Partly(t, slot, w) : hw' = [program(before) EXCEPT ![t] = h]
          /\ UNCHANGED <<listed, due>>
    /\ UNCHANGED <<life, stop, phase, recorded>>

\* continue resumes every recorded thread, a step one or none; a dead thread
\* makes it throw with those before it resumed.
Resume(T) ==
    LET done == {t \in T : \A u \in T : u <= t => life[u] = "stopped"} IN
    /\ phase \in {"prompt", "proceed"}
    /\ T = recorded \/ \E t \in Thread : T = recorded \cap {t}
    /\ life' = [t \in Thread |-> IF t \in done THEN "running" ELSE life[t]]
    /\ recorded' = recorded \ done
    /\ phase' = IF done = T THEN "wait" ELSE "prompt"
    /\ UNCHANGED <<stop, hw, listed, due>>

\* A resuming command that first steps the selected thread over a breakpoint.
StepOver(t) ==
    /\ phase = "prompt" /\ life[t] = "stopped"
    /\ life' = [life EXCEPT ![t] = "running"] /\ recorded' = recorded \ {t}
    /\ phase' = "over"
    /\ UNCHANGED <<stop, hw, listed, due>>

-----------------------------------------------------------------------------
(* What waitpid returns.                                                   *)

Collect(t) ==
    /\ life[t] = "waiting"
    /\ life' = [life EXCEPT ![t] = "stopped"] /\ recorded' = recorded \cup {t}
    /\ stop' = [stop EXCEPT ![t] = "other"] /\ UNCHANGED listed

\* step_over_breakpoint only records the stop, whatever it is.
OverStop(t) ==
    /\ phase = "over" /\ Collect(t) /\ phase' = "proceed"
    /\ UNCHANGED <<hw, due>>

\* wait_and_report programs a thread that reports SIGSTOP with the whole list,
\* in order, up to the first entry that throws.
WaitStop(t) ==
    LET slots == DOMAIN listed
        first(n) == [s \in {x \in slots : x < n} |-> listed[s]]
    IN
    /\ phase = "wait" /\ Collect(t) /\ phase' = "prompt"
    /\ \/ stop[t] # "sigstop" /\ UNCHANGED <<hw, due>>
       \/ /\ stop[t] = "sigstop" /\ \A s \in slots : Valid(listed[s])
          /\ hw' = [hw EXCEPT ![t] = Programmed(@, listed)]
          /\ due' = [due EXCEPT ![t] = slots]
       \/ /\ stop[t] = "sigstop"
          /\ \E s \in slots :
             /\ \A u \in slots : u < s => Valid(listed[u])
             /\ ~Valid(listed[s]) \/ MayRefuse
             /\ \E h \in (IF Valid(listed[s]) THEN Refused(Programmed(hw[t], first(s)), s, listed[s])
                                              ELSE {Programmed(hw[t], first(s))}) :
                  hw' = [hw EXCEPT ![t] = h]
             /\ due' = [due EXCEPT ![t] = @ \cup DOMAIN first(s)]

\* An exit is collected: threads_ forgets the thread.
WaitExit(t) ==
    /\ phase \in {"wait", "over"} /\ life[t] = "dead"
    /\ life' = [life EXCEPT ![t] = "gone"] /\ recorded' = recorded \ {t}
    /\ phase' = IF phase = "wait" THEN "prompt" ELSE "proceed"
    /\ UNCHANGED <<stop, hw, listed, due>>

WaitFails ==
    /\ phase \in {"wait", "over"} /\ \A t \in Thread : life[t] \in {"none", "gone"}
    /\ phase' = "prompt" /\ UNCHANGED <<life, stop, hw, recorded, listed, due>>

-----------------------------------------------------------------------------
(* The target and the kernel.                                              *)

Fresh == [address |-> [s \in Slot |-> 0], control |-> {}]

\* A clone starts stopped by SIGSTOP, with no debug registers in use.
Clone(t) ==
    /\ life[t] = "none" /\ \E u \in Thread : life[u] = "running"
    /\ life' = [life EXCEPT ![t] = "waiting"] /\ stop' = [stop EXCEPT ![t] = "sigstop"]
    /\ UNCHANGED <<hw, phase, recorded, listed, due>>

StopFor(t, event) ==
    /\ life[t] = "running"
    /\ life' = [life EXCEPT ![t] = "waiting"] /\ stop' = [stop EXCEPT ![t] = event]
    /\ UNCHANGED <<hw, phase, recorded, listed, due>>

\* A thread ends, and its registers with it.
Exit(t) ==
    /\ life[t] = "running" /\ life' = [life EXCEPT ![t] = "dead"]
    /\ hw' = [hw EXCEPT ![t] = Fresh] /\ due' = [due EXCEPT ![t] = {}]
    /\ UNCHANGED <<stop, phase, recorded, listed>>

\* exec by the leader ends the other threads, stopped ones too, and clears its
\* debug registers.
Exec ==
    /\ life[Leader] = "running"
    /\ life' = [t \in Thread |-> IF t = Leader THEN "waiting"
                                 ELSE IF life[t] \in {"none", "gone"} THEN life[t] ELSE "dead"]
    /\ stop' = [t \in Thread |-> "other"]
    /\ hw' = [t \in Thread |-> Fresh] /\ due' = [t \in Thread |-> {}]
    /\ UNCHANGED <<phase, recorded, listed>>

Init ==
    /\ machine \in {"x86_64", "aarch64"}
    /\ life = [t \in Thread |-> IF t = Leader THEN "stopped" ELSE "none"]
    /\ stop = [t \in Thread |-> "other"] /\ hw = [t \in Thread |-> Fresh]
    /\ phase = "prompt" /\ recorded = {Leader}
    /\ listed = [s \in {} |-> 0] /\ due = [t \in Thread |-> {}]

Step ==
    \/ \E w \in Watch : SetWatchpoint(w)
    \/ \E T \in SUBSET recorded : Resume(T)
    \/ \E t \in Thread : StepOver(t) \/ OverStop(t) \/ WaitStop(t) \/ WaitExit(t)
    \/ WaitFails
    \/ \E t \in Thread : Clone(t) \/ Exit(t) \/ \E e \in {"sigstop", "other"} : StopFor(t, e)
    \/ Exec

Next == Step /\ machine' = machine

Spec == Init /\ [][Next]_vars

-----------------------------------------------------------------------------
Alive(t) == life[t] \notin {"none", "dead", "gone"}

\* Every variable has its type; a free slot is always the one after those taken.
TypeOK ==
    /\ machine \in {"x86_64", "aarch64"}
    /\ life \in [Thread -> {"none", "running", "waiting", "stopped", "dead", "gone"}]
    /\ stop \in [Thread -> {"sigstop", "other"}]
    /\ hw \in [Thread -> [address : [Slot -> Nat], control : SUBSET Nat]]
    /\ due \in [Thread -> SUBSET DOMAIN listed]
    /\ phase \in {"prompt", "wait", "over", "proceed"}
    /\ recorded \subseteq Thread /\ \A t \in recorded : life[t] \in {"stopped", "dead"}
    /\ \E n \in 0..Slots : listed \in [0..(n - 1) -> Watch]

\* A thread that configure_watchpoint returned for, in set_watchpoint or at its
\* SIGSTOP, watches what the list says: the slot is on, with the address, the
\* size and at least the accesses asked for, whatever was programmed into the
\* other slots, or refused, before and after.
ProgrammedRight ==
    \A t \in Thread : Alive(t) =>
      \A s \in due[t] :
        LET got == Watched(hw[t], s) IN
        /\ Enabled(hw[t], s)
        /\ got.address = listed[s].address /\ got.bytes = listed[s].bytes
        /\ listed[s].access \subseteq got.access
        /\ "read" \notin listed[s].access => "read" \notin got.access

\* A `watch` that fails half way leaves slots on in the threads it had reached;
\* no thread ever watches for a slot beyond the next one to be handed out, so
\* the next successful watch takes the leftover's place in the threads it reaches.
LeftoverIsNext ==
    \A t \in Thread : Alive(t) =>
      \A s \in Slot : Enabled(hw[t], s) => s <= Cardinality(DOMAIN listed)
=============================================================================
