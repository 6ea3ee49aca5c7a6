--------------------------- MODULE BreakpointsProofs ---------------------------
(* Proofs about module Breakpoints, for every set of addresses, versions of    *)
(* the text, specifications and mappings.                                      *)
EXTENDS Breakpoints, TLAPS

\* What the functions in progress hold on to.  While a step-over is in flight
\* its breakpoint is in the table, switched off: the pointer it keeps across its
\* wait stays valid, because nothing is erased before it puts the trap back.  And
\* the resolving pass has entries left to visit only while it runs.
Locals ==
    /\ lifted # {} => phase = "lifted"
    /\ \A a \in lifted : Has(a) /\ ~bp[a].enabled
    /\ unvisited # {} => phase \in {"resolving", "matched"}

\* Only entries of the table are switched on, or temporary.
EnabledHas == \A a \in Addr : bp[a].enabled \/ bp[a].temporary => Has(a)

\* What the primitives on the table and memory preserve ...
TableType ==
    /\ text \in [Addr -> Image \cup {Unmapped}]
    /\ mem \in [Addr -> Image \cup {Unmapped, Trap}]
    /\ bp \in [Addr -> Breakpoint]
    /\ clobbered \subseteq Addr

Table == TableType /\ Coherent /\ TrapsOwned /\ EnabledHas

\* ... and the inductive invariant.
IInv == TypeOK /\ Coherent /\ TrapsOwned /\ EnabledHas /\ Locals

-----------------------------------------------------------------------------
\* What the constructors of entries return.
LEMMA ArmedFields ==
  ASSUME NEW e \in Breakpoint, NEW c \in Image
  PROVE  /\ Armed(e, c) \in Breakpoint
         /\ Armed(e, c).id = e.id /\ Armed(e, c).enabled /\ Armed(e, c).saved = c
  BY DEF Armed, Breakpoint

LEMMA DisabledFields ==
  ASSUME NEW e \in Breakpoint
  PROVE  /\ Disabled(e) \in Breakpoint /\ Disabled(e).id = e.id
         /\ ~Disabled(e).enabled /\ Disabled(e).temporary = e.temporary
  BY DEF Disabled, Breakpoint

LEMMA EntryFields ==
  ASSUME NEW t \in BOOLEAN, nextId \in Nat \ {0}
  PROVE  Entry(t) \in Breakpoint /\ Entry(t).id = nextId /\ ~Entry(t).enabled
  BY DEF Entry, Breakpoint

LEMMA NoBreakpointFields ==
  /\ NoBreakpoint \in Breakpoint /\ NoBreakpoint.id = 0
  /\ ~NoBreakpoint.enabled /\ ~NoBreakpoint.temporary
  BY DEF NoBreakpoint, Breakpoint

\* enable() of an entry that is off keeps the table and memory in agreement:
\* what it saves is never a trap.
LEMMA EnableKeeps ==
  ASSUME Table, NEW a \in Addr, NEW e \in Breakpoint, e.id # 0, ~bp[a].enabled,
         Enable(a, e), UNCHANGED <<text, clobbered>>
  PROVE  Table'
<1> USE ImageAssumption DEF Table, TableType
<1>1. mem[a] \in Image
  BY DEF TrapsOwned, Enable
<1>2. /\ Armed(e, mem[a]) \in Breakpoint /\ Armed(e, mem[a]).id # 0
      /\ Armed(e, mem[a]).enabled /\ Armed(e, mem[a]).saved = mem[a]
  BY <1>1, ArmedFields
<1>3. TableType'
  BY <1>2 DEF Enable
<1>4. /\ bp'[a] = Armed(e, mem[a]) /\ mem'[a] = Trap
      /\ \A b \in Addr \ {a} : bp'[b] = bp[b] /\ mem'[b] = mem[b]
  BY DEF Enable
<1>5. a \notin clobbered => mem[a] = text[a]
  BY DEF Coherent
<1>6. Coherent'
  BY <1>2, <1>4, <1>5 DEF Coherent
<1>7. TrapsOwned' /\ EnabledHas'
  BY <1>1, <1>2, <1>4 DEF TrapsOwned, EnabledHas, Has
<1> QED
  BY <1>3, <1>6, <1>7

\* disable(), whatever switched-off entry or absence it leaves behind.
LEMMA DisableKeeps ==
  ASSUME Table, NEW a \in Addr, NEW e \in Breakpoint, ~e.enabled,
         e.temporary => e.id # 0, Disable(a, e), UNCHANGED <<text, clobbered>>
  PROVE  Table' /\ \A b \in Addr \ {a} : bp'[b] = bp[b]
<1> USE ImageAssumption DEF Table, TableType
<1>1. /\ bp'[a] = e
      /\ \A b \in Addr \ {a} : bp'[b] = bp[b] /\ mem'[b] = mem[b]
      /\ mem'[a] = IF bp[a].enabled THEN bp[a].saved ELSE mem[a]
  BY DEF Disable, WriteBack
<1>2. TableType'
  BY DEF Disable, WriteBack, TrapsOwned
<1>3. Coherent'
  BY <1>1 DEF Coherent
<1>4. TrapsOwned' /\ EnabledHas'
  BY <1>1 DEF TrapsOwned, EnabledHas, Has
<1> QED
  BY <1>1, <1>2, <1>3, <1>4

\* New text, by the target or by the user, over any set of addresses.
LEMMA OverwriteKeeps ==
  ASSUME Table, NEW R \in SUBSET Addr, NEW c \in Image \cup {Unmapped},
         Overwrite(R, c), bp' = bp
  PROVE  Table'
<1> USE ImageAssumption DEF Table, TableType, Overwrite
<1>1. TableType'
  OBVIOUS
<1>2. Coherent'
  BY DEF Coherent, TrapsOwned
<1>3. TrapsOwned' /\ EnabledHas'
  BY DEF TrapsOwned, EnabledHas, Has
<1> QED
  BY <1>1, <1>2, <1>3

\* create_breakpoint in its three outcomes; a failed one leaves an entry that
\* is off where there was none.
LEMMA CreateKeeps ==
  ASSUME Table, nextId \in Nat \ {0}, NEW a \in Addr, NEW t \in BOOLEAN,
         CreateExisting(a) \/ CreateNew(a, t) \/ CreateThrows(a, t),
         UNCHANGED <<text, clobbered>>
  PROVE  Table' /\ nextId' \in Nat \ {0}
<1>1. CASE CreateExisting(a)
  BY <1>1 DEF CreateExisting, Table, TableType, Coherent, TrapsOwned, EnabledHas, Has
<1>2. Entry(t) \in Breakpoint /\ Entry(t).id = nextId /\ ~Entry(t).enabled
  BY EntryFields
<1>3. ~Has(a) => ~bp[a].enabled
  BY DEF Table, EnabledHas
<1>4. CASE CreateNew(a, t)
  <2>1. Table'
    BY <1>2, <1>3, <1>4, EnableKeeps DEF CreateNew
  <2> QED
    BY <1>4, <2>1 DEF CreateNew
<1>5. CASE CreateThrows(a, t)
  <2>1. Disable(a, Entry(t))
    BY <1>3, <1>5 DEF CreateThrows, Disable, WriteBack
  <2>2. Table'
    BY <1>2, <2>1, DisableKeeps
  <2> QED
    BY <1>5, <2>2 DEF CreateThrows
<1> QED
  BY <1>1, <1>4, <1>5

\* detach() writes saved text back wherever it can; elsewhere all stays.
LEMMA DetachKeeps ==
  ASSUME Table, Detach
  PROVE  Table'
<1> USE ImageAssumption DEF Table, TableType
<1>1. /\ \A a \in Addr : bp[a] \in Breakpoint
      /\ \A a \in Addr : Disabled(bp[a]) \in Breakpoint
      /\ \A a \in Addr : /\ Disabled(bp[a]).id = bp[a].id /\ ~Disabled(bp[a]).enabled
                         /\ Disabled(bp[a]).temporary = bp[a].temporary
  BY DisabledFields
<1>2. \A a \in Addr :
        /\ bp'[a] = IF Restorable(a) THEN Disabled(bp[a]) ELSE bp[a]
        /\ mem'[a] = IF Restorable(a) THEN bp[a].saved ELSE mem[a]
  BY DEF Detach
<1>3. TableType'
  <2>1. \A a \in Addr : mem'[a] \in Image \cup {Unmapped, Trap}
    BY <1>2 DEF Restorable, TrapsOwned
  <2> QED
    BY <1>1, <2>1 DEF Detach, target
<1>4. text' = text /\ clobbered' = clobbered
  BY DEF Detach
<1>5. Coherent'
  BY <1>1, <1>2, <1>4 DEF Coherent, Restorable
<1>6. TrapsOwned' /\ EnabledHas'
  BY <1>1, <1>2, <1>4 DEF TrapsOwned, EnabledHas, Has, Restorable
<1> QED
  BY <1>3, <1>5, <1>6

\* A step that leaves the table and memory alone.
LEMMA SameTable ==
  ASSUME Table, UNCHANGED <<target, bp>>
  PROVE  Table'
  BY DEF Table, TableType, target, Coherent, TrapsOwned, EnabledHas, Has

-----------------------------------------------------------------------------
\* The typing of the rest of the state.
ControlType ==
    /\ pending \subseteq Pending /\ unvisited \subseteq pending
    /\ nextId \in Nat \ {0}
    /\ symbols \subseteq Addr /\ todo \subseteq Addr
    /\ phase \in Phase /\ lifted \subseteq Addr
    /\ reach \in BOOLEAN /\ aborted \in BOOLEAN

LEMMA IInvParts == IInv <=> Table /\ ControlType /\ Locals
  BY DEF IInv, TypeOK, Table, TableType, ControlType

LEMMA IInvPartsNext == IInv' <=> Table' /\ ControlType' /\ Locals'
  BY DEF IInv, TypeOK, Table, TableType, ControlType

\* The state launch leaves satisfies the invariant.
LEMMA InitIInv == Init => IInv
<1> SUFFICES ASSUME Init PROVE Table /\ ControlType /\ Locals
  BY IInvParts
<1> USE ImageAssumption DEF Init
<1>1. \A a \in Addr : bp[a] = NoBreakpoint
  OBVIOUS
<1>2. Table
  <2>1. TableType
    BY NoBreakpointFields DEF TableType
  <2> QED
    BY <1>1, <2>1, NoBreakpointFields DEF Table, Coherent, TrapsOwned, EnabledHas
<1>3. ControlType
  <2>1. reach \in BOOLEAN /\ aborted \in BOOLEAN
    OBVIOUS
  <2>2. symbols \subseteq Addr /\ todo \subseteq Addr /\ phase \in Phase
    BY DEF Phase
  <2>3. pending \subseteq Pending /\ unvisited \subseteq pending /\ lifted \subseteq Addr
    OBVIOUS
  <2>4. nextId \in Nat \ {0}
    OBVIOUS
  <2> QED
    BY <2>1, <2>2, <2>3, <2>4 DEF ControlType
<1>4. Locals
  BY DEF Locals
<1> QED
  BY <1>2, <1>3, <1>4

\* Each command at the prompt preserves the invariant.
LEMMA CommandStep == IInv /\ Command => IInv'
<1> SUFFICES ASSUME IInv, Command PROVE Table' /\ ControlType' /\ Locals'
  BY IInvPartsNext
<1>0. Table /\ ControlType /\ Locals
  BY IInvParts
<1>t. \A a \in Addr : bp[a] \in Breakpoint
  BY <1>0 DEF Table, TableType
<1> USE <1>0, SiteAssumption
<1>1. ASSUME NEW s \in Location, SetBreakpoint(s) PROVE Table' /\ ControlType' /\ Locals'
  <2>1. Table' /\ Locals'
    BY <1>1, SameTable DEF SetBreakpoint, Locals, Has
  <2>2. Resolve(s) \subseteq Addr
    BY DEF Resolve, ControlType
  <2>3. ControlType'
    BY <1>1, <2>2 DEF SetBreakpoint, ControlType, Phase
  <2> QED
    BY <2>1, <2>3
<1>2. ASSUME NEW s \in Location, SetPending(s) PROVE Table' /\ ControlType' /\ Locals'
  <2>1. Table' /\ Locals'
    BY <1>2, SameTable DEF SetPending, Locals, Has
  <2>2. [id |-> nextId, spec |-> s] \in Pending
    BY DEF ControlType, Pending
  <2>3. ControlType'
    BY <1>2, <2>2 DEF SetPending, ControlType
  <2> QED
    BY <2>1, <2>3
<1>3. ASSUME NEW a \in Addr, Create(a) PROVE Table' /\ ControlType' /\ Locals'
  <2>1. Table' /\ nextId' \in Nat \ {0}
    BY <1>3, CreateKeeps DEF Create, ControlType
  <2>2. ControlType' /\ Locals'
    BY <1>3, <2>1 DEF Create, ControlType, Locals, Phase
  <2> QED
    BY <2>1, <2>2
<1>4. ASSUME NEW a \in Addr, RemoveBreakpoint(a) PROVE Table' /\ ControlType' /\ Locals'
  <2>1. Table'
    BY <1>4, NoBreakpointFields, DisableKeeps DEF RemoveBreakpoint
  <2> QED
    BY <1>4, <2>1 DEF RemoveBreakpoint, resolver, ControlType, Locals, Phase
<1>5. ASSUME NEW a \in Addr, EnableCommand(a) PROVE Table' /\ ControlType' /\ Locals'
  <2>1. Table'
    BY <1>5, <1>t, EnableKeeps DEF EnableCommand, Has
  <2> QED
    BY <1>5, <2>1 DEF EnableCommand, resolver, ControlType, Locals, Phase
<1>6. ASSUME NEW a \in Addr, DisableCommand(a) PROVE Table' /\ ControlType' /\ Locals'
  <2>1. Table'
    BY <1>6, <1>t, DisabledFields, DisableKeeps DEF DisableCommand, Table, EnabledHas, Has
  <2> QED
    BY <1>6, <2>1 DEF DisableCommand, resolver, ControlType, Locals, Phase
<1>7. ASSUME NEW a \in Addr, Finish(a) PROVE Table' /\ ControlType' /\ Locals'
  <2>1. Table' /\ nextId' \in Nat \ {0}
    BY <1>7, CreateKeeps DEF Finish, ControlType
  <2> QED
    BY <1>7, <2>1 DEF Finish, resolver, ControlType, Locals, Phase
<1>8. ASSUME NEW a \in Addr, NEW c \in Image, SetMemory(a, c)
      PROVE  Table' /\ ControlType' /\ Locals'
  <2>1. Table'
    BY <1>8, OverwriteKeeps DEF SetMemory
  <2> QED
    BY <1>8, <2>1 DEF SetMemory, resolver, ControlType, Locals, Has
<1>9. ASSUME NEW p \in pending, RemovePending(p) PROVE Table' /\ ControlType' /\ Locals'
  BY <1>9, SameTable DEF RemovePending, resolver, ControlType, Locals, Has
<1>10. ASSUME SelectThread \/ Advance PROVE Table' /\ ControlType' /\ Locals'
  BY <1>10, SameTable
  DEF SelectThread, Advance, resolver, ControlType, Locals, Phase, Has
<1>11. ASSUME Detach PROVE Table' /\ ControlType' /\ Locals'
  <2>1. Table'
    BY <1>11, DetachKeeps
  <2> QED
    BY <1>11, <2>1 DEF Detach, resolver, ControlType, Locals, Phase
<1> QED
  BY <1>1, <1>2, <1>3, <1>4, <1>5, <1>6, <1>7, <1>8, <1>9, <1>10, <1>11 DEF Command

\* Each step that resumes the target, or collects an event in a step-over.
LEMMA ProceedStep == IInv /\ Proceed => IInv'
<1> SUFFICES ASSUME IInv, Proceed PROVE Table' /\ ControlType' /\ Locals'
  BY IInvPartsNext
<1>0. Table /\ ControlType /\ Locals
  BY IInvParts
<1>t. \A a \in Addr : bp[a] \in Breakpoint
  BY <1>0 DEF Table, TableType
<1> USE <1>0
<1>1. ASSUME NEW a \in Addr, StepOverBreakpoint(a)
      PROVE  Table' /\ ControlType' /\ Locals'
  <2>1. Has(a) /\ ~Disabled(bp[a]).enabled /\ Disabled(bp[a]).id = bp[a].id
    BY <1>1, <1>t, DisabledFields DEF StepOverBreakpoint, Table, EnabledHas
  <2>2. Table'
    BY <1>1, <1>t, <2>1, DisabledFields, DisableKeeps DEF StepOverBreakpoint, Has
  <2>3. bp'[a] = Disabled(bp[a])
    BY <1>1 DEF StepOverBreakpoint, Disable, Table, TableType
  <2>4. Locals'
    BY <1>1, <2>1, <2>3 DEF StepOverBreakpoint, resolver, Locals, Has
  <2> QED
    BY <1>1, <2>2, <2>4 DEF StepOverBreakpoint, resolver, ControlType, Phase
<1>2. ASSUME NEW own \in BOOLEAN, StepOverStop(own)
      PROVE  Table' /\ ControlType' /\ Locals'
  <2>1. PICK a \in lifted : Enable(a, bp[a])
    BY <1>2 DEF StepOverStop
  <2>2. a \in Addr /\ bp[a].id # 0 /\ ~bp[a].enabled
    BY DEF ControlType, Locals, Has
  <2>3. Table'
    BY <1>2, <1>t, <2>1, <2>2, EnableKeeps DEF StepOverStop
  <2> QED
    BY <1>2, <2>3 DEF StepOverStop, resolver, ControlType, Locals, Phase
<1>3. ASSUME Resume \/ AdvanceFails PROVE Table' /\ ControlType' /\ Locals'
  BY <1>3, SameTable DEF Resume, AdvanceFails, resolver, ControlType, Locals, Phase
<1>4. ASSUME StepOverThrows \/ StepOverExit PROVE Table' /\ ControlType' /\ Locals'
  BY <1>4, SameTable
  DEF StepOverThrows, StepOverExit, resolver, ControlType, Locals, Phase
<1> QED
  BY <1>1, <1>2, <1>3, <1>4 DEF Proceed

\* Each step of wait_and_report and print_stop.
LEMMA ReportStep == IInv /\ Report => IInv'
<1> SUFFICES ASSUME IInv, Report PROVE Table' /\ ControlType' /\ Locals'
  BY IInvPartsNext
<1>0. Table /\ ControlType /\ Locals
  BY IInvParts
<1> USE <1>0, SiteAssumption
<1>1. ASSUME Stop PROVE Table' /\ ControlType' /\ Locals'
  BY <1>1, SameTable DEF Stop, ControlType, Locals, Phase
<1>2. ASSUME StopUnrefreshed \/ StopExit \/ AtOther PROVE Table' /\ ControlType' /\ Locals'
  BY <1>2, SameTable DEF StopUnrefreshed, StopExit, AtOther, resolver, ControlType, Locals, Phase
<1>3. ASSUME NEW p \in unvisited, KeepPending(p)
      PROVE  Table' /\ ControlType' /\ Locals'
  BY <1>3, SameTable DEF KeepPending, ControlType, Locals
<1>4. ASSUME NEW p \in unvisited, MatchPending(p)
      PROVE  Table' /\ ControlType' /\ Locals'
  <2>1. p.spec \in Location
    BY DEF ControlType, Pending
  <2>2. Resolve(p.spec) \subseteq Addr
    BY <2>1 DEF Resolve, ControlType
  <2> QED
    BY <1>4, <2>2, SameTable DEF MatchPending, ControlType, Locals, Phase
<1>5. ASSUME NEW p \in unvisited, ErasePending(p)
      PROVE  Table' /\ ControlType' /\ Locals'
  BY <1>5, SameTable
  DEF ErasePending, AllCreated, AfterErase, ControlType, Locals, Phase
<1>6. ASSUME NEW next \in {"report", "advance"}, EndResolve(next)
      PROVE  Table' /\ ControlType' /\ Locals'
  BY <1>6, SameTable DEF EndResolve, resolver, ControlType, Locals, Phase
<1>7. ASSUME NEW a \in Addr, CreateResolved(a)
      PROVE  Table' /\ ControlType' /\ Locals'
  <2>1. Table' /\ nextId' \in Nat \ {0}
    BY <1>7, CreateKeeps DEF CreateResolved, ControlType
  <2> QED
    BY <1>7, <2>1 DEF CreateResolved, ControlType, Locals, Phase
<1>8. ASSUME NEW a \in Addr, AtTemporary(a) PROVE Table' /\ ControlType' /\ Locals'
  <2>1. Table'
    BY <1>8, NoBreakpointFields, DisableKeeps DEF AtTemporary
  <2> QED
    BY <1>8, <2>1 DEF AtTemporary, resolver, ControlType, Locals, Phase
<1> QED
  BY <1>1, <1>2, <1>3, <1>4, <1>5, <1>6, <1>7, <1>8 DEF Report

\* What the target does by itself.
LEMMA EnvironmentStep == IInv /\ Environment => IInv'
<1> SUFFICES ASSUME IInv, Environment PROVE Table' /\ ControlType' /\ Locals'
  BY IInvPartsNext
<1>0. Table /\ ControlType /\ Locals
  BY IInvParts
<1> USE <1>0
<1>1. ASSUME NEW R \in Segment, NEW c \in Image \cup {Unmapped}, Remap(R, c)
      PROVE  Table' /\ ControlType' /\ Locals'
  <2>1. R \in SUBSET Addr
    BY SegmentAssumption
  <2>2. Table'
    BY <1>1, <2>1, OverwriteKeeps DEF Remap
  <2> QED
    BY <1>1, <2>2 DEF Remap, resolver, ControlType, Locals, Has
<1>2. ASSUME LoseThread PROVE Table' /\ ControlType' /\ Locals'
  BY <1>2, SameTable DEF LoseThread, resolver, ControlType, Locals, Has
<1> QED
  BY <1>1, <1>2 DEF Environment

LEMMA Inductive == IInv /\ [Next]_vars => IInv'
<1> SUFFICES ASSUME IInv, [Next]_vars PROVE IInv'
  OBVIOUS
<1>1. CASE UNCHANGED vars
  <2>1. Table' /\ ControlType' /\ Locals'
    BY <1>1, IInvParts, SameTable DEF vars, target, ControlType, Locals, Has
  <2> QED
    BY <2>1, IInvPartsNext
<1> QED
  BY <1>1, CommandStep, ProceedStep, ReportStep, EnvironmentStep DEF Next

-----------------------------------------------------------------------------
\* The invariant holds in every reachable state.
THEOREM Invariant == Spec => []IInv
  BY InitIInv, Inductive, PTL DEF Spec

\* Type correctness: the table, the pending list and the resolver never hold
\* anything but what the code declares, whatever fails part-way.
THEOREM TypeCorrect == Spec => []TypeOK
<1>1. IInv => TypeOK
  BY DEF IInv
<1> QED
  BY <1>1, Invariant, PTL

\* Where no text was replaced under a trap, the table and memory agree always:
\* through failed creations, interrupted step-overs, lost threads and exec.
THEOREM CoherentAlways == Spec => []Coherent
<1>1. IInv => Coherent
  BY DEF IInv
<1> QED
  BY <1>1, Invariant, PTL

\* No trap in the target is ever without the entry that can take it out, and
\* none is ever mistaken for the target's own code.
THEOREM TrapsOwnedAlways == Spec => []TrapsOwned
<1>1. IInv => TrapsOwned
  BY DEF IInv
<1> QED
  BY <1>1, Invariant, PTL

\* Only quit ends a session, and nothing happens after it.
LEMMA OnlyDetachQuits ==
  ASSUME Next
  PROVE  phase # "quit" /\ (~Detach => phase' # "quit")
<1>1. Command => phase # "quit" /\ (~Detach => phase' # "quit")
  BY DEF Command, SetBreakpoint, SetPending, Create, RemoveBreakpoint, EnableCommand,
         DisableCommand, Finish, SetMemory, RemovePending, SelectThread, Advance,
         Detach, resolver
<1>2. Proceed => phase # "quit" /\ phase' # "quit"
  BY DEF Proceed, StepOverBreakpoint, StepOverStop, Resume, AdvanceFails,
         StepOverThrows, StepOverExit
<1>3. Report => phase # "quit" /\ phase' # "quit"
  BY DEF Report, Stop, StopUnrefreshed, StopExit, AtOther, KeepPending, MatchPending, ErasePending,
         AllCreated, EndResolve, CreateResolved, AtTemporary
<1>4. Environment => phase # "quit" /\ phase' # "quit"
  BY DEF Environment, Remap, LoseThread
<1> QED
  BY <1>1, <1>2, <1>3, <1>4 DEF Next

\* After quit through a stopped thread no breakpoint is on that detach could
\* have taken out.
LEMMA QuitInductive ==
  /\ Init => QuitRestores
  /\ IInv /\ QuitRestores /\ [Next]_vars => QuitRestores'
<1>1. Init => QuitRestores
  BY DEF Init, QuitRestores
<1>2. ASSUME IInv, QuitRestores, Next PROVE QuitRestores'
  <2>0. Table /\ ControlType /\ Locals
    BY <1>2, IInvParts
  <2>1. CASE Detach
    <3>1. ASSUME NEW a \in Addr \ clobbered, reach PROVE mem'[a] = text[a]
      BY <2>0, <2>1, <3>1, ImageAssumption
      DEF Detach, Restorable, CanAccess, Table, TableType, Coherent
    <3> QED
      BY <2>1, <3>1 DEF Detach, QuitRestores
  <2>2. ASSUME ~Detach PROVE phase' # "quit"
    BY <1>2, <2>2, OnlyDetachQuits
  <2> QED
    BY <2>1, <2>2 DEF QuitRestores
<1>3. ASSUME QuitRestores, UNCHANGED vars PROVE QuitRestores'
  BY <1>3 DEF QuitRestores, vars
<1> QED
  BY <1>1, <1>2, <1>3

\* quit gives the target its own code back wherever nobody replaced that code
\* under a trap, provided the selected thread is stopped.
THEOREM QuitRestoresAlways == Spec => []QuitRestores
  BY Invariant, QuitInductive, PTL DEF Spec
=============================================================================
