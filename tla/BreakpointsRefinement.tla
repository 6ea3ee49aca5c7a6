------------------------- MODULE BreakpointsRefinement -------------------------
(* Module Breakpoints implements module BreakpointSet, and its identifiers are *)
(* unique, for every value of the constants.  The refinement mapping is the    *)
(* list that `info break' prints; the numbers handed out are those below       *)
(* next_breakpoint_id_.                                                        *)
EXTENDS BreakpointsProofs

Entries == bp \in [Addr -> Breakpoint] /\ nextId \in Nat \ {0}

-----------------------------------------------------------------------------
\* A line of the table is told from every other by its address, and from the
\* pending ones by its status.
LEMMA LinesDiffer ==
  ASSUME NEW a \in Addr
  PROVE  /\ \A b \in Addr : InfoLine(a) = InfoLine(b) => a = b
         /\ \A p \in pending : InfoLine(a) # InfoPending(p)
         /\ InfoLine(a).status \in {"enabled", "disabled"} /\ InfoLine(a).at = a
  BY DEF InfoLine, InfoPending

\* What becomes of the list when one entry changes.
LEMMA OneEntry ==
  ASSUME Entries, NEW a \in Addr, NEW e \in Breakpoint,
         bp' = [bp EXCEPT ![a] = e], pending' = pending
  PROVE  /\ ~Has(a) /\ e.id # 0 => InfoBreak' = InfoBreak \cup {InfoLine(a)'}
         /\ Has(a) /\ e.id = 0 => InfoBreak' = InfoBreak \ {InfoLine(a)}
         /\ Has(a) /\ e.id # 0 =>
              InfoBreak' = (InfoBreak \ {InfoLine(a)}) \cup {InfoLine(a)'}
         /\ InfoLine(a)' = [num |-> e.id, at |-> a,
                            status |-> IF e.enabled THEN "enabled" ELSE "disabled"]
<1>1. bp'[a] = e /\ \A b \in Addr \ {a} : bp'[b] = bp[b]
  BY DEF Entries
<1>2. \A b \in Addr \ {a} : InfoLine(b)' = InfoLine(b) /\ (Has(b)' <=> Has(b))
  BY <1>1 DEF InfoLine, Has
<1>3. Has(a)' <=> e.id # 0
  BY <1>1 DEF Has
<1>4. {InfoPending(p) : p \in pending}' = {InfoPending(p) : p \in pending}
  BY DEF InfoPending
<1>5. InfoLine(a)' = [num |-> e.id, at |-> a,
                      status |-> IF e.enabled THEN "enabled" ELSE "disabled"]
  BY <1>1 DEF InfoLine
<1>6. ASSUME ~Has(a), e.id # 0 PROVE InfoBreak' = InfoBreak \cup {InfoLine(a)'}
  BY <1>2, <1>3, <1>4, <1>6 DEF InfoBreak
<1>7. ASSUME Has(a), e.id = 0 PROVE InfoBreak' = InfoBreak \ {InfoLine(a)}
  BY <1>2, <1>3, <1>4, <1>7, LinesDiffer DEF InfoBreak
<1>8. ASSUME Has(a), e.id # 0
      PROVE  InfoBreak' = (InfoBreak \ {InfoLine(a)}) \cup {InfoLine(a)'}
  BY <1>2, <1>3, <1>4, <1>8, LinesDiffer DEF InfoBreak
<1> QED
  BY <1>5, <1>6, <1>7, <1>8

-----------------------------------------------------------------------------
(* Each kind of change of the table is a step of the abstract list.          *)

LEMMA ListSame ==
  ASSUME UNCHANGED <<bp, pending, nextId>>, phase # "quit", phase' # "quit"
  PROVE  UNCHANGED Listing!listVars
<1>1. InfoBreak' = InfoBreak
  BY DEF InfoBreak, InfoLine, InfoPending, Has
<1> QED
  BY <1>1 DEF Listing!listVars

\* create_breakpoint, with or without the trap.
LEMMA ListAdd ==
  ASSUME Entries, phase # "quit", phase' # "quit", pending' = pending,
         NEW a \in Addr, ~Has(a), NEW e \in Breakpoint, e.id = nextId,
         bp' = [bp EXCEPT ![a] = e], nextId' = nextId + 1
  PROVE  Listing!Next
<1>1. e.id # 0 /\ (nextId' - 1) = (nextId - 1) + 1 /\ e.id = (nextId - 1) + 1
  BY DEF Entries
<1>r. InfoLine(a)' = [num |-> e.id, at |-> a,
                      status |-> IF e.enabled THEN "enabled" ELSE "disabled"]
  BY OneEntry
<1>2. PICK status \in {"enabled", "disabled"} :
        InfoLine(a)' = [num |-> (nextId - 1) + 1, at |-> a, status |-> status]
  BY <1>1, <1>r
<1>3. InfoBreak' = InfoBreak \cup {InfoLine(a)'}
  BY <1>1, OneEntry
<1>4. Listing!New(a, status)
  BY <1>1, <1>2, <1>3 DEF Listing!New
<1>5. ~Listing!ListedAt(a)
  BY DEF Listing!ListedAt, InfoBreak, InfoLine, InfoPending
<1> QED
  BY <1>4, <1>5 DEF Listing!Add, Listing!Next

LEMMA ListAddPending ==
  ASSUME Entries, phase # "quit", phase' # "quit", bp' = bp, NEW s \in Location,
         pending' = pending \cup {[id |-> nextId, spec |-> s]}, nextId' = nextId + 1
  PROVE  Listing!Next
<1>1. (nextId' - 1) = (nextId - 1) + 1 /\ nextId = (nextId - 1) + 1
  BY DEF Entries
<1> DEFINE p == [id |-> nextId, spec |-> s]
<1>2. InfoPending(p) = [num |-> (nextId - 1) + 1, at |-> s, status |-> "pending"]
  BY <1>1 DEF InfoPending
<1>3. InfoBreak' = InfoBreak \cup {InfoPending(p)}
  <2>1. /\ \A a \in Addr : InfoLine(a)' = InfoLine(a) /\ (Has(a)' <=> Has(a))
        /\ pending' = pending \cup {p}
    BY DEF InfoLine, Has
  <2> HIDE DEF p
  <2>2. {InfoPending(q) : q \in pending}' = {InfoPending(q) : q \in pending} \cup {InfoPending(p)}
    BY <2>1 DEF InfoPending
  <2> QED
    BY <2>1, <2>2 DEF InfoBreak
<1> QED
  BY <1>1, <1>2, <1>3 DEF Listing!New, Listing!AddPending, Listing!Next

\* erase, from the table or from the pending list.
LEMMA ListDrop ==
  ASSUME Entries, phase # "quit", phase' # "quit", UNCHANGED <<pending, nextId>>,
         NEW a \in Addr, Has(a), bp' = [bp EXCEPT ![a] = NoBreakpoint]
  PROVE  Listing!Next
<1>1. InfoBreak' = InfoBreak \ {InfoLine(a)}
  BY OneEntry, NoBreakpointFields
<1>2. InfoLine(a) \in InfoBreak \ InfoBreak'
  BY <1>1 DEF InfoBreak
<1> QED
  BY <1>1, <1>2 DEF Listing!Drop, Listing!Next

LEMMA ListDropPending ==
  ASSUME pending \subseteq Pending, phase # "quit", phase' # "quit",
         UNCHANGED <<bp, nextId>>, NEW p \in pending, pending' = pending \ {p}
  PROVE  Listing!Next
<1>1. \A q \in pending : InfoPending(q) = InfoPending(p) => q = p
  BY DEF Pending, InfoPending
<1>2. \A a \in Addr : InfoLine(a) # InfoPending(p) /\ InfoLine(a)' = InfoLine(a)
  BY LinesDiffer DEF InfoLine
<1>3. InfoBreak' = InfoBreak \ {InfoPending(p)}
  <2>1. \A a \in Addr : Has(a)' <=> Has(a)
    BY DEF Has
  <2>2. \A q \in pending : InfoPending(q)' = InfoPending(q)
    BY DEF InfoPending
  <2> QED
    BY <1>1, <1>2, <2>1, <2>2 DEF InfoBreak, InfoPending
<1>4. InfoPending(p) \in InfoBreak \ InfoBreak'
  BY <1>3 DEF InfoBreak
<1> QED
  BY <1>3, <1>4 DEF Listing!Drop, Listing!Next

\* enable and disable, by command or around a step-over.
LEMMA ListSwitch ==
  ASSUME Entries, phase # "quit", phase' # "quit", UNCHANGED <<pending, nextId>>,
         NEW a \in Addr, Has(a), NEW e \in Breakpoint, e.id = bp[a].id,
         e.enabled # bp[a].enabled, bp' = [bp EXCEPT ![a] = e]
  PROVE  Listing!Next
<1>1. InfoBreak' = (InfoBreak \ {InfoLine(a)}) \cup {InfoLine(a)'}
  BY OneEntry DEF Has
<1>2. PICK status \in {"enabled", "disabled"} :
        InfoLine(a)' = Listing!Switched(InfoLine(a), status)
  BY OneEntry DEF InfoLine, Listing!Switched
<1>3. InfoLine(a)' # InfoLine(a)
  <2>1. InfoLine(a).status = IF bp[a].enabled THEN "enabled" ELSE "disabled"
    BY DEF InfoLine
  <2>2. InfoLine(a)' = [num |-> e.id, at |-> a,
                        status |-> IF e.enabled THEN "enabled" ELSE "disabled"]
    BY OneEntry
  <2> QED
    BY <2>1, <2>2 DEF Entries, Breakpoint
<1>4. InfoLine(a) \in InfoBreak \ InfoBreak' /\ InfoLine(a).status # "pending"
  BY <1>1, <1>3, LinesDiffer DEF InfoBreak
<1>5. Listing!Switch(InfoLine(a))
  BY <1>1, <1>2, <1>4 DEF Listing!Switch
<1> QED
  BY <1>4, <1>5 DEF Listing!Next

\* detach(): every line it could restore is off.
LEMMA ListClose ==
  ASSUME IInv, Detach
  PROVE  Listing!Next
<1> DEFINE off == {InfoLine(a) : a \in {b \in Addr : Restorable(b)}}
<1>1. Entries /\ EnabledHas
  BY IInvParts DEF Table, TableType, ControlType, Entries
<1>2. \A a \in Addr : /\ bp'[a].id = bp[a].id
                      /\ bp'[a].enabled = (bp[a].enabled /\ ~Restorable(a))
  BY <1>1, DisabledFields DEF Detach, Restorable, Entries, Breakpoint
<1>3. \A a \in Addr : Restorable(a) => Has(a) /\ bp[a].enabled
  BY <1>1 DEF Restorable, EnabledHas
<1>4. off \in SUBSET {r \in InfoBreak : r.status = "enabled"}
  BY <1>3 DEF InfoBreak, InfoLine
<1>5. \A a \in Addr : /\ Has(a)' <=> Has(a)
                      /\ Restorable(a) => InfoLine(a)' = Listing!Switched(InfoLine(a), "disabled")
                      /\ ~Restorable(a) => InfoLine(a)' = InfoLine(a)
  <2>1. ASSUME NEW a \in Addr, Restorable(a)
        PROVE  InfoLine(a)' = Listing!Switched(InfoLine(a), "disabled")
    <3> DEFINE disabled == [num |-> bp[a].id, at |-> a, status |-> "disabled"]
    <3>1. InfoLine(a)' = disabled
      BY <1>2, <2>1 DEF InfoLine
    <3>2. Listing!Switched(InfoLine(a), "disabled") = disabled
      BY DEF InfoLine, Listing!Switched
    <3> QED
      BY <3>1, <3>2
  <2>2. ASSUME NEW a \in Addr, ~Restorable(a) PROVE InfoLine(a)' = InfoLine(a)
    BY <1>1, <1>2, <2>2 DEF InfoLine, Entries, Breakpoint
  <2> QED
    BY <1>2, <2>1, <2>2 DEF Has
<1>6. InfoBreak' = (InfoBreak \ off) \cup {Listing!Switched(r, "disabled") : r \in off}
  <2> DEFINE Line(a) == InfoLine(a)
             Waits == {InfoPending(p) : p \in pending}
  <2>1. Waits' = Waits /\ off \cap Waits = {}
    BY LinesDiffer DEF Detach, InfoPending
  <2>2. \A a \in Addr : InfoLine(a) \in off <=> Restorable(a)
    BY LinesDiffer
  <2>3. InfoBreak \ off = {InfoLine(a) : a \in {b \in Addr : Has(b) /\ ~Restorable(b)}} \cup Waits
    BY <2>1, <2>2 DEF InfoBreak
  <2>4. {Listing!Switched(r, "disabled") : r \in off}
          = {Listing!Switched(InfoLine(a), "disabled") : a \in {b \in Addr : Restorable(b)}}
    OBVIOUS
  <2>5. InfoBreak' = {InfoLine(a)' : a \in {b \in Addr : Has(b)}} \cup Waits
    BY <1>5, <2>1 DEF InfoBreak
  <2> HIDE DEF off, Waits
  <2> QED
    BY <1>3, <1>5, <2>3, <2>4, <2>5
<1>7. phase # "quit" /\ phase' = "quit" /\ nextId' = nextId
  BY DEF Detach
<1> QED
  BY <1>4, <1>6, <1>7 DEF Listing!Close, Listing!Next

-----------------------------------------------------------------------------
(* Every step of Breakpoints is a step of the list or leaves it alone.       *)

Open == Entries /\ phase # "quit" /\ phase' # "quit"

\* create_breakpoint in its three outcomes.
LEMMA CreateList ==
  ASSUME IInv, Open, pending' = pending, NEW a \in Addr, NEW t \in BOOLEAN,
         CreateExisting(a) \/ CreateNew(a, t) \/ CreateThrows(a, t)
  PROVE  Listing!Next \/ UNCHANGED Listing!listVars
<1>1. CASE CreateExisting(a)
  BY <1>1, ListSame DEF CreateExisting, Open
<1>2. Entry(t) \in Breakpoint /\ Entry(t).id = nextId
  BY EntryFields DEF Open, Entries
<1>3. CASE CreateNew(a, t)
  <2>1. mem[a] \in Image
    BY <1>3, IInvParts DEF Table, TableType, TrapsOwned, CreateNew, Enable
  <2>2. Armed(Entry(t), mem[a]) \in Breakpoint /\ Armed(Entry(t), mem[a]).id = nextId
    BY <1>2, <2>1, ArmedFields
  <2> QED
    BY <1>3, <2>2, ListAdd DEF CreateNew, Enable, Open
<1>4. CASE CreateThrows(a, t)
  BY <1>2, <1>4, ListAdd DEF CreateThrows, Open
<1> QED
  BY <1>1, <1>3, <1>4

\* enable() of an entry that is off, disable() of one that is on.
LEMMA EnableList ==
  ASSUME IInv, Open, UNCHANGED <<pending, nextId>>, NEW a \in Addr,
         Has(a), ~bp[a].enabled, Enable(a, bp[a])
  PROVE  Listing!Next
<1>1. bp[a] \in Breakpoint /\ mem[a] \in Image
  BY IInvParts DEF Table, TableType, TrapsOwned, Enable
<1>2. /\ Armed(bp[a], mem[a]) \in Breakpoint /\ Armed(bp[a], mem[a]).id = bp[a].id
      /\ Armed(bp[a], mem[a]).enabled
  BY <1>1, ArmedFields
<1> QED
  BY <1>2, ListSwitch DEF Enable, Open

LEMMA DisableList ==
  ASSUME IInv, Open, UNCHANGED <<pending, nextId>>, NEW a \in Addr,
         bp[a].enabled, Disable(a, Disabled(bp[a]))
  PROVE  Listing!Next
<1>1. bp[a] \in Breakpoint /\ Has(a)
  BY IInvParts DEF Table, TableType, EnabledHas
<1>2. /\ Disabled(bp[a]) \in Breakpoint /\ Disabled(bp[a]).id = bp[a].id
      /\ ~Disabled(bp[a]).enabled
  BY <1>1, DisabledFields
<1> QED
  BY <1>1, <1>2, ListSwitch DEF Disable, Open

LEMMA CommandList ==
  ASSUME IInv, Open, Command, ~Detach
  PROVE  Listing!Next \/ UNCHANGED Listing!listVars
<1> USE DEF Open
<1>1. ASSUME NEW s \in Location, SetPending(s) PROVE Listing!Next
  BY <1>1, ListAddPending DEF SetPending
<1>2. ASSUME NEW a \in Addr, Create(a) \/ Finish(a)
      PROVE  Listing!Next \/ UNCHANGED Listing!listVars
  BY <1>2, CreateList DEF Create, Finish
<1>3. ASSUME NEW a \in Addr, RemoveBreakpoint(a) PROVE Listing!Next
  BY <1>3, ListDrop DEF RemoveBreakpoint, Disable
<1>4. ASSUME NEW a \in Addr, EnableCommand(a) PROVE Listing!Next
  BY <1>4, EnableList DEF EnableCommand
<1>5. ASSUME NEW a \in Addr, DisableCommand(a) PROVE Listing!Next
  BY <1>5, DisableList DEF DisableCommand
<1>6. ASSUME NEW p \in pending, RemovePending(p) PROVE Listing!Next
  BY <1>6, ListDropPending, IInvParts DEF RemovePending, ControlType, target
<1>7. ASSUME \/ \E s \in Location : SetBreakpoint(s)
             \/ \E a \in Addr, c \in Image : SetMemory(a, c)
             \/ SelectThread \/ Advance
      PROVE  UNCHANGED Listing!listVars
  BY <1>7, ListSame DEF SetBreakpoint, SetMemory, SelectThread, Advance, target
<1> QED
  BY <1>1, <1>2, <1>3, <1>4, <1>5, <1>6, <1>7 DEF Command

LEMMA ProceedList ==
  ASSUME IInv, Open, Proceed
  PROVE  Listing!Next \/ UNCHANGED Listing!listVars
<1> USE DEF Open
<1>1. ASSUME NEW a \in Addr, StepOverBreakpoint(a) PROVE Listing!Next
  BY <1>1, DisableList DEF StepOverBreakpoint
<1>2. ASSUME NEW own \in BOOLEAN, StepOverStop(own) PROVE Listing!Next
  <2>1. PICK a \in lifted : Enable(a, bp[a])
    BY <1>2 DEF StepOverStop
  <2>2. a \in Addr /\ Has(a) /\ ~bp[a].enabled
    BY IInvParts DEF ControlType, Locals
  <2> QED
    BY <1>2, <2>1, <2>2, EnableList DEF StepOverStop
<1>3. ASSUME Resume \/ AdvanceFails \/ StepOverThrows \/ StepOverExit
      PROVE  UNCHANGED Listing!listVars
  BY <1>3, ListSame DEF Resume, AdvanceFails, StepOverThrows, StepOverExit, target
<1> QED
  BY <1>1, <1>2, <1>3 DEF Proceed

LEMMA ReportList ==
  ASSUME IInv, Open, Report
  PROVE  Listing!Next \/ UNCHANGED Listing!listVars
<1> USE DEF Open
<1>1. pending \subseteq Pending /\ unvisited \subseteq pending
  BY IInvParts DEF ControlType
<1>2. ASSUME NEW p \in unvisited, ErasePending(p) PROVE Listing!Next
  BY <1>1, <1>2, ListDropPending DEF ErasePending, target
<1>3. ASSUME NEW a \in Addr, CreateResolved(a)
      PROVE  Listing!Next \/ UNCHANGED Listing!listVars
  BY <1>3, CreateList DEF CreateResolved
<1>4. ASSUME NEW a \in Addr, AtTemporary(a) PROVE Listing!Next
  <2>1. Has(a)
    BY <1>4, IInvParts DEF AtTemporary, Table, EnabledHas
  <2> QED
    BY <1>4, <2>1, ListDrop DEF AtTemporary, Disable
<1>5. ASSUME \/ Stop \/ StopUnrefreshed \/ StopExit \/ AtOther
             \/ \E p \in unvisited : KeepPending(p) \/ MatchPending(p)
             \/ \E next \in {"report", "advance"} : EndResolve(next)
      PROVE  UNCHANGED Listing!listVars
  BY <1>5, ListSame
  DEF Stop, StopUnrefreshed, StopExit, AtOther, KeepPending, MatchPending, EndResolve, target
<1> QED
  BY <1>2, <1>3, <1>4, <1>5 DEF Report

LEMMA EnvironmentList ==
  ASSUME IInv, Open, Environment
  PROVE  UNCHANGED Listing!listVars
  BY ListSame DEF Environment, Remap, LoseThread, target, Open

LEMMA StepList ==
  ASSUME IInv, [Next]_vars
  PROVE  [Listing!Next]_Listing!listVars
<1>1. CASE UNCHANGED vars
  <2>1. InfoBreak' = InfoBreak
    BY <1>1 DEF vars, InfoBreak, InfoLine, InfoPending, Has
  <2> QED
    BY <1>1, <2>1 DEF vars, Listing!listVars
<1>2. CASE Detach
  BY <1>2, ListClose
<1>3. CASE Next /\ ~Detach
  <2>1. Open
    BY <1>3, OnlyDetachQuits, IInvParts DEF Open, Entries, Table, TableType, ControlType
  <2> QED
    BY <1>3, <2>1, CommandList, ProceedList, ReportList, EnvironmentList DEF Next
<1> QED
  BY <1>1, <1>2, <1>3

LEMMA InitList == Init => Listing!Init
<1> SUFFICES ASSUME Init PROVE Listing!Init
  OBVIOUS
<1>1. InfoBreak = {}
  BY NoBreakpointFields DEF Init, InfoBreak, Has
<1>2. nextId - 1 = 0 /\ phase # "quit"
  BY DEF Init
<1> QED
  BY <1>1, <1>2 DEF Listing!Init

\* Through every interleaving of commands, hits, failures, step-overs and
\* resolving passes with a target that maps, replaces and dies, the list of
\* breakpoints changes only as BreakpointSet promises the user.
THEOREM Refinement == Spec => ImplementsBreakpointSet
<1>1. Spec => Listing!Spec
  BY InitList, StepList, Invariant, PTL DEF Spec, Listing!Spec
<1> QED
  BY <1>1 DEF ImplementsBreakpointSet

-----------------------------------------------------------------------------
(* Identifiers: unique in the list, so unique in the table.                  *)

LEMMA NumbersInit == Listing!Init => Listing!NumbersUnique
<1> SUFFICES ASSUME Listing!Init PROVE Listing!NumbersUnique
  OBVIOUS
<1>1. InfoBreak = {} /\ nextId - 1 = 0
  BY DEF Listing!Init
<1> QED
  BY <1>1 DEF Listing!NumbersUnique

LEMMA NumbersStep ==
  ASSUME Listing!NumbersUnique, [Listing!Next]_Listing!listVars
  PROVE  Listing!NumbersUnique'
<1> USE DEF Listing!NumbersUnique
<1> DEFINE last == nextId - 1
<1>1. ASSUME NEW at, NEW status, Listing!New(at, status) PROVE Listing!NumbersUnique'
  <2> DEFINE line == [num |-> last + 1, at |-> at, status |-> status]
  <2>1. /\ last' = last + 1 /\ InfoBreak' = InfoBreak \cup {line}
        /\ line.num = last + 1
    BY <1>1 DEF Listing!New
  <2> HIDE DEF line, last
  <2>2. last \in Nat /\ \A r \in InfoBreak : r.num \in 1..last
    BY DEF last
  <2>3. last' \in Nat /\ \A r \in InfoBreak' : r.num \in 1..last'
    BY <2>1, <2>2
  <2>4. \A r, s \in InfoBreak' : r.num = s.num => r = s
    BY <2>1, <2>2
  <2> QED
    BY <2>3, <2>4 DEF last
<1>2. ASSUME NEW line, Listing!Drop(line) PROVE Listing!NumbersUnique'
  BY <1>2 DEF Listing!Drop
<1>3. ASSUME NEW line \in InfoBreak, Listing!Switch(line) PROVE Listing!NumbersUnique'
  <2>1. PICK status : InfoBreak' = (InfoBreak \ {line}) \cup {Listing!Switched(line, status)}
    BY <1>3 DEF Listing!Switch
  <2>2. Listing!Switched(line, status).num = line.num
    BY DEF Listing!Switched
  <2>3. last' = last
    BY <1>3 DEF Listing!Switch
  <2> QED
    BY <2>1, <2>2, <2>3
<1>4. ASSUME Listing!Close PROVE Listing!NumbersUnique'
  <2>1. PICK off \in SUBSET InfoBreak :
          InfoBreak' = (InfoBreak \ off) \cup {Listing!Switched(r, "disabled") : r \in off}
    BY <1>4 DEF Listing!Close
  <2>2. \A r : Listing!Switched(r, "disabled").num = r.num
    BY DEF Listing!Switched
  <2>3. last' = last
    BY <1>4 DEF Listing!Close
  <2> QED
    BY <2>1, <2>2, <2>3
<1>5. ASSUME UNCHANGED Listing!listVars PROVE Listing!NumbersUnique'
  BY <1>5 DEF Listing!listVars
<1> QED
  BY <1>1, <1>2, <1>3, <1>4, <1>5 DEF Listing!Next, Listing!Add, Listing!AddPending

LEMMA NumbersAreIds ==
  ASSUME IInv
  PROVE  Listing!NumbersUnique => IdsUnique
<1> SUFFICES ASSUME Listing!NumbersUnique PROVE IdsUnique
  OBVIOUS
<1>1. pending \subseteq Pending
  BY IInvParts DEF ControlType
<1>2. \A a \in Addr : Has(a) => InfoLine(a) \in InfoBreak /\ InfoLine(a).num = bp[a].id
  BY DEF InfoBreak, InfoLine
<1>3. \A p \in pending : /\ InfoPending(p) \in InfoBreak
                         /\ InfoPending(p).num = p.id /\ p.id # 0
  BY <1>1 DEF InfoBreak, InfoPending, Pending
<1>4. \A p, q \in pending : InfoPending(p) = InfoPending(q) => p = q
  BY <1>1 DEF InfoPending, Pending
<1>5. ASSUME NEW a \in Addr, NEW b \in Addr, Has(a), bp[a].id = bp[b].id PROVE a = b
  <2>1. Has(b)
    BY <1>5 DEF Has
  <2> QED
    BY <1>2, <1>5, <2>1, LinesDiffer DEF Listing!NumbersUnique
<1>6. ASSUME NEW a \in Addr, NEW p \in pending, bp[a].id = p.id PROVE FALSE
  <2>1. Has(a)
    BY <1>3, <1>6 DEF Has
  <2> QED
    BY <1>2, <1>3, <1>6, <2>1, LinesDiffer DEF Listing!NumbersUnique
<1> QED
  BY <1>3, <1>4, <1>5, <1>6 DEF IdsUnique, Listing!NumbersUnique

\* No two breakpoints, set or pending, ever answer to one identifier.
THEOREM IdsUniqueAlways == Spec => []IdsUnique
<1>1. Spec => []Listing!NumbersUnique
  BY InitList, StepList, Invariant, NumbersInit, NumbersStep, PTL DEF Spec
<1> QED
  BY <1>1, NumbersAreIds, Invariant, PTL

-----------------------------------------------------------------------------
(* The resolving pass.                                                       *)

\* What the pass has examined and kept does not resolve, and what it is
\* resolving has an entry at each address it is done with.
Examined ==
    ~aborted => \A p \in pending \ unvisited : Resolve(p.spec) = {}
Resolved ==
    phase = "matched" =>
        \A p \in unvisited : Iterator(p) => \A a \in Resolve(p.spec) \ todo : Has(a)

\* No entry leaves the table while a pass runs.
LEMMA CreateHas ==
  ASSUME Entries, NEW a \in Addr, NEW t \in BOOLEAN,
         CreateExisting(a) \/ CreateNew(a, t) \/ CreateThrows(a, t)
  PROVE  \A b \in Addr : Has(b) \/ b = a => Has(b)'
<1>1. CASE CreateExisting(a)
  BY <1>1 DEF CreateExisting, Has
<1>2. Entry(t).id # 0 /\ Armed(Entry(t), mem[a]).id # 0
  BY DEF Entries, Entry, Armed
<1>3. CASE CreateNew(a, t)
  BY <1>2, <1>3 DEF CreateNew, Enable, Has, Entries
<1>4. CASE CreateThrows(a, t)
  BY <1>2, <1>4 DEF CreateThrows, Has, Entries
<1> QED
  BY <1>1, <1>3, <1>4

LEMMA ExaminedStep ==
  ASSUME IInv, Examined, [Next]_vars
  PROVE  Examined'
<1>0. unvisited # {} => phase \in {"resolving", "matched"}
  BY IInvParts DEF Locals
<1> USE <1>0 DEF Examined, Resolve
<1>1. ASSUME Command PROVE Examined'
  <2>1. ASSUME NEW s \in Location, SetPending(s) PROVE Examined'
    BY <2>1 DEF SetPending
  <2>2. ASSUME NEW p \in pending, RemovePending(p) PROVE Examined'
    BY <2>2 DEF RemovePending, resolver
  <2>3. ASSUME ~ \E s \in Location : SetPending(s), ~ \E p \in pending : RemovePending(p)
        PROVE  UNCHANGED <<pending, unvisited, symbols, aborted>>
    BY <1>1, <2>3
    DEF Command, SetBreakpoint, Create, RemoveBreakpoint, EnableCommand, DisableCommand,
        Finish, SetMemory, SelectThread, Advance, Detach, resolver
  <2> QED
    BY <2>1, <2>2, <2>3
<1>2. ASSUME Proceed PROVE Examined'
  <2>1. UNCHANGED <<pending, resolver>>
    BY <1>2
    DEF Proceed, StepOverBreakpoint, StepOverStop, Resume, AdvanceFails,
        StepOverThrows, StepOverExit
  <2> QED
    BY <2>1 DEF resolver
<1>3. ASSUME Report PROVE Examined'
  BY <1>3
  DEF Report, Stop, StopUnrefreshed, StopExit, AtOther, KeepPending, MatchPending, ErasePending,
      AfterErase, EndResolve, CreateResolved, AtTemporary, resolver
<1>4. ASSUME Environment \/ UNCHANGED vars PROVE Examined'
  BY <1>4 DEF Environment, Remap, LoseThread, resolver, vars
<1> QED
  BY <1>1, <1>2, <1>3, <1>4 DEF Next

LEMMA ResolvedStep ==
  ASSUME IInv, IdsUnique, Resolved, [Next]_vars
  PROVE  Resolved'
<1> SUFFICES ASSUME phase' = "matched" PROVE Resolved'
  BY DEF Resolved
<1>0. /\ unvisited \subseteq pending /\ pending \subseteq Pending /\ Entries
      /\ \A p \in pending : Resolve(p.spec) \subseteq Addr
  BY IInvParts, SiteAssumption
  DEF ControlType, Table, TableType, Entries, Pending, Resolve
<1>1. ASSUME Command PROVE FALSE
  BY <1>1
  DEF Command, SetBreakpoint, SetPending, Create, RemoveBreakpoint, EnableCommand,
      DisableCommand, Finish, SetMemory, RemovePending, SelectThread, Advance, Detach
<1>2. ASSUME Proceed PROVE FALSE
  BY <1>2
  DEF Proceed, StepOverBreakpoint, StepOverStop, Resume, AdvanceFails,
      StepOverThrows, StepOverExit
<1>3. ASSUME NEW p \in unvisited, MatchPending(p) PROVE Resolved'
  BY <1>0, <1>3 DEF MatchPending, Iterator, Resolved, Resolve, IdsUnique, Pending
<1>4. ASSUME NEW a \in Addr, CreateResolved(a) PROVE Resolved'
  <2>1. \A b \in Addr : Has(b) \/ b = a => Has(b)'
    BY <1>0, <1>4, CreateHas DEF CreateResolved
  <2>2. UNCHANGED <<unvisited, symbols>> /\ todo' = todo \ {a}
    BY <1>4 DEF CreateResolved
  <2> QED
    BY <1>0, <1>4, <2>1, <2>2 DEF CreateResolved, Iterator, Resolved, Resolve
<1>5. ASSUME Report,
             ~ \E p \in unvisited : MatchPending(p), ~ \E a \in Addr : CreateResolved(a)
      PROVE  FALSE
  BY <1>5
  DEF Report, Stop, StopUnrefreshed, StopExit, AtOther, KeepPending, ErasePending, EndResolve, AtTemporary
<1>6. ASSUME Environment \/ UNCHANGED vars PROVE Resolved'
  BY <1>6
  DEF Environment, Remap, LoseThread, resolver, vars, Resolved, Resolve, Iterator, Has
<1> QED
  BY <1>1, <1>2, <1>3, <1>4, <1>5, <1>6 DEF Next

\* At the prompt nothing is pending that the loaded modules resolve, however
\* breakpoints, modules and failures interleave, unless an exception cut the
\* last pass short.
THEOREM PendingUnresolvableAlways == Spec => []PendingUnresolvable
<1>1. Init => Examined
  BY DEF Init, Examined
<1>2. IInv /\ Examined => PendingUnresolvable
  BY IInvParts DEF Examined, PendingUnresolvable, Locals
<1> QED
  BY <1>1, <1>2, ExaminedStep, Invariant, PTL DEF Spec

\* A pending breakpoint is given up for entries of the table only when each of
\* its addresses has one.
THEOREM ResolvedHasEntriesAlways == Spec => ResolvedHasEntries
<1>1. Init => Resolved
  BY DEF Init, Resolved
<1>2. ASSUME IInv, IdsUnique, Resolved, [Next]_vars, phase = "matched",
             NEW p \in pending \ pending', NEW a \in Resolve(p.spec)
      PROVE  bp'[a].id # 0
  <2>1. PICK q \in unvisited : ErasePending(q)
    BY <1>2
    DEF Next, Command, SetBreakpoint, SetPending, Create, RemoveBreakpoint,
        EnableCommand, DisableCommand, Finish, SetMemory, RemovePending, SelectThread,
        Advance, Detach, Proceed, StepOverBreakpoint, StepOverStop, Resume,
        AdvanceFails, StepOverThrows, StepOverExit, Report, Stop, StopUnrefreshed, StopExit, AtOther,
        KeepPending, MatchPending, EndResolve, CreateResolved, AtTemporary,
        Environment, Remap, LoseThread, vars
  <2>2. p = q /\ todo = {} /\ Iterator(q) /\ bp' = bp
    BY <1>2, <2>1 DEF ErasePending, AllCreated, target
  <2> QED
    BY <1>2, <2>2 DEF Resolved, Has
<1>3. IInv /\ IdsUnique /\ Resolved /\ [Next]_vars =>
        [phase = "matched" =>
           \A p \in pending \ pending' : \A a \in Resolve(p.spec) : bp'[a].id # 0]_vars
  BY <1>2
<1> QED
  BY <1>1, <1>3, ResolvedStep, Invariant, IdsUniqueAlways, PTL
  DEF Spec, ResolvedHasEntries
=============================================================================
