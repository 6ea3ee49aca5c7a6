--------------------------- MODULE WatchpointsProofs ---------------------------
(* Proofs about module Watchpoints, for every set of threads and of things to  *)
(* watch, on both architectures.                                               *)
EXTENDS Watchpoints, FiniteSetTheorems, TLAPS

-----------------------------------------------------------------------------
(* The debug registers.                                                    *)

Register == [address : [Slot -> Nat], control : SUBSET Nat]
Machine == machine \in {"x86_64", "aarch64"}

\* Lists of watchpoints for some of the slots.
Lists == UNION {[S -> Watch] : S \in SUBSET Slot}

LEMMA SlotsAre == Slots \in 1..4 /\ Slot \subseteq 0..3 /\ Slot \subseteq Nat
  BY WatchAssumption DEF Slot

\* The bits of a slot lie in that slot's part of the control registers.
LEMMA BitsType ==
  ASSUME Machine, NEW slot \in Slot, NEW w
  PROVE  Bits(slot, w) \subseteq Nat
<1>1. slot \in Nat
  BY SlotsAre
<1>2. ASSUME NEW first \in Nat, NEW n
      PROVE  Field(first, n) \subseteq Nat
  BY <1>2 DEF Field
<1>3. X86Bits(slot, w) \subseteq Nat
  BY <1>1, <1>2 DEF X86Bits
<1>4. ArmBits(slot, w) \subseteq Nat
  BY <1>1, <1>2 DEF ArmBits
<1> QED
  BY <1>3, <1>4 DEF Bits

LEMMA BitsOfOne ==
  ASSUME Machine, NEW slot \in Slot, NEW other \in Slot, slot # other, NEW w
  PROVE  /\ machine = "x86_64" => {2 * other, 2 * other + 1} \cap Bits(slot, w) = {}
         /\ machine = "aarch64" => 32 * other \notin Bits(slot, w)
<1>1. slot \in 0..3 /\ other \in 0..3
  BY SlotsAre
<1>2. ASSUME NEW first \in Nat, NEW n, NEW b \in Field(first, n)
      PROVE  b \in Nat /\ first <= b /\ b <= first + 12
  BY <1>2 DEF Field
<1>3. {2 * other, 2 * other + 1} \cap X86Bits(slot, w) = {}
  <2>1. SUFFICES ASSUME NEW b \in X86Bits(slot, w), b = 2 * other \/ b = 2 * other + 1
                 PROVE  FALSE
    OBVIOUS
  <2>2. b = 2 * slot \/ 16 + 4 * slot <= b
    BY <1>1, <1>2 DEF X86Bits
  <2> QED
    BY <1>1, <2>1, <2>2
<1>4. 32 * other \notin ArmBits(slot, w)
  <2>1. SUFFICES ASSUME 32 * other \in ArmBits(slot, w)
                 PROVE  FALSE
    OBVIOUS
  <2>2. 32 * slot <= 32 * other /\ 32 * other <= 32 * slot + 17
    BY <1>1, <1>2, <2>1 DEF ArmBits
  <2> QED
    BY <1>1, <2>2
<1> QED
  BY <1>3, <1>4 DEF Bits

LEMMA ProgrammedType ==
  ASSUME Machine, NEW h \in Register, NEW list \in Lists
  PROVE  Programmed(h, list) \in Register
<1>1. PICK S \in SUBSET Slot : list \in [S -> Watch]
  BY DEF Lists
<1>2. \A s \in DOMAIN list : s \in Slot /\ list[s].address \in Nat
  BY <1>1, WatchAssumption
<1>3. UNION {Bits(s, list[s]) : s \in DOMAIN list} \subseteq Nat
  BY <1>2, BitsType
<1> QED
  BY <1>2, <1>3 DEF Programmed, Register

\* Programming some slots turns on no other.
LEMMA ProgrammedEnables ==
  ASSUME Machine, NEW h \in Register, NEW list \in Lists, NEW slot \in Slot,
         Enabled(Programmed(h, list), slot)
  PROVE  slot \in DOMAIN list \/ Enabled(h, slot)
<1>1. DOMAIN list \subseteq Slot
  BY DEF Lists
<1>2. SUFFICES ASSUME slot \notin DOMAIN list PROVE Enabled(h, slot)
  OBVIOUS
<1>3. Programmed(h, list).control \subseteq h.control \cup UNION {Bits(s, list[s]) : s \in DOMAIN list}
  BY DEF Programmed
<1>4. CASE machine = "x86_64"
  <2>1. PICK b \in {2 * slot, 2 * slot + 1} : b \in Programmed(h, list).control
    BY <1>4 DEF Enabled
  <2>2. \A s \in DOMAIN list : b \notin Bits(s, list[s])
    BY <1>1, <1>2, <1>4, BitsOfOne
  <2>3. b \in h.control
    BY <1>3, <2>1, <2>2
  <2> QED
    BY <1>4, <2>3 DEF Enabled
<1>5. CASE machine = "aarch64"
  <2>1. 32 * slot \in Programmed(h, list).control
    BY <1>5 DEF Enabled
  <2>2. \A s \in DOMAIN list : 32 * slot \notin Bits(s, list[s])
    BY <1>1, <1>2, <1>5, BitsOfOne
  <2>3. 32 * slot \in h.control
    BY <1>3, <2>1, <2>2
  <2> QED
    BY <1>5, <2>3 DEF Enabled
<1> QED
  BY <1>4, <1>5 DEF Machine

\* A refusal turns on nothing.
LEMMA RefusedKeeps ==
  ASSUME NEW h \in Register, NEW slot \in Slot, NEW w \in Watch, NEW g \in Refused(h, slot, w)
  PROVE  g \in Register /\ g.control = h.control
  BY WatchAssumption DEF Refused, Register

LEMMA FreshType == Fresh \in Register /\ \A slot \in Slot : ~Enabled(Fresh, slot)
  BY DEF Fresh, Register, Enabled

-----------------------------------------------------------------------------
(* The list.                                                               *)

Taken(n) == n \in 0..Slots /\ listed \in [0..(n - 1) -> Watch]

LEMMA ListedCount ==
  ASSUME NEW n, Taken(n)
  PROVE  Cardinality(DOMAIN listed) = n /\ DOMAIN listed \subseteq Slot /\ listed \in Lists
<1>1. n \in 0..Slots /\ DOMAIN listed = 0..(n - 1)
  BY DEF Taken
<1>2. Cardinality(0..(n - 1)) = n
  BY <1>1, SlotsAre, FS_Interval
<1>3. 0..(n - 1) \subseteq Slot
  BY <1>1, SlotsAre DEF Slot
<1>4. listed \in Lists
  BY <1>1, <1>3 DEF Lists, Taken
<1> QED
  BY <1>1, <1>2, <1>3, <1>4

\* The slot handed out is the first that is not taken.
LEMMA FreeSlotIs ==
  ASSUME NEW n, Taken(n)
  PROVE  FreeSlot(DOMAIN listed) = n
<1>1. n \in 0..Slots /\ DOMAIN listed = 0..(n - 1) /\ Slots \in Nat
  BY SlotsAre DEF Taken
<1>2. {s \in 0..Slots : s \notin 0..(n - 1)} = n..Slots
  BY <1>1
<1> QED
  BY <1>1, <1>2 DEF FreeSlot, Min

-----------------------------------------------------------------------------
(* The invariant: LeftoverIsNext of every thread, living or not.           *)

OnlyNext ==
    \A t \in Thread : \A s \in Slot : Enabled(hw[t], s) => s <= Cardinality(DOMAIN listed)

WInv == TypeOK /\ OnlyNext

\* The parts of the invariant that speak of registers and list, for n slots taken.
Parts(n) ==
    /\ Machine /\ Taken(n)
    /\ hw \in [Thread -> Register] /\ due \in [Thread -> SUBSET DOMAIN listed]
    /\ \A t \in Thread : \A s \in Slot : Enabled(hw[t], s) => s <= n

Control ==
    /\ life \in [Thread -> {"none", "running", "waiting", "stopped", "dead", "gone"}]
    /\ stop \in [Thread -> {"sigstop", "other"}]
    /\ phase \in {"prompt", "wait", "over", "proceed"}
    /\ recorded \subseteq Thread /\ \A t \in recorded : life[t] \in {"stopped", "dead"}

LEMMA InvParts == WInv <=> Control /\ \E n : Parts(n)
  BY ListedCount DEF WInv, TypeOK, OnlyNext, Control, Parts, Taken, Machine, Register

LEMMA EnabledAfter ==
  ASSUME machine' = machine
  PROVE  \A n : Parts(n)' <=> /\ Machine /\ Taken(n)'
                            /\ hw' \in [Thread -> Register]
                            /\ due' \in [Thread -> SUBSET DOMAIN listed']
                            /\ \A t \in Thread : \A s \in Slot : Enabled(hw'[t], s) => s <= n
  BY DEF Parts, Machine, Enabled, Register, Slot

LEMMA SetWatchpointKeeps ==
  ASSUME NEW n, Parts(n), Control, NEW w \in Watch, SetWatchpoint(w), machine' = machine
  PROVE  Control' /\ \E m : Parts(m)'
<1> DEFINE one == [s \in {n} |-> w]
           program(done) == [t \in Thread |-> IF t \in done THEN Programmed(hw[t], one) ELSE hw[t]]
<1>1. Machine /\ Taken(n) /\ hw \in [Thread -> Register]
      /\ due \in [Thread -> SUBSET DOMAIN listed] /\ recorded \subseteq Thread
      /\ \A t \in Thread : \A s \in Slot : Enabled(hw[t], s) => s <= n
  BY DEF Parts, Control
<1>2. FreeSlot(DOMAIN listed) = n /\ n < Slots /\ n \in Slot
  <2>1. FreeSlot(DOMAIN listed) = n
    BY <1>1, FreeSlotIs
  <2>2. FreeSlot(DOMAIN listed) < Slots
    BY DEF SetWatchpoint
  <2> QED
    BY <1>1, <2>1, <2>2, SlotsAre DEF Taken, Slot
<1>3. one \in Lists /\ DOMAIN one = {n}
  <2>1. one \in [{n} -> Watch] /\ {n} \in SUBSET Slot
    BY <1>2
  <2> QED
    BY <2>1 DEF Lists
<1>4. \A h \in Register :
        /\ Programmed(h, one) \in Register
        /\ \A s \in Slot : Enabled(Programmed(h, one), s) => s = n \/ Enabled(h, s)
  BY <1>1, <1>3, ProgrammedType, ProgrammedEnables
<1>5. \A done : /\ program(done) \in [Thread -> Register]
                /\ \A t \in Thread : \A s \in Slot :
                     Enabled(program(done)[t], s) => s <= n
  BY <1>1, <1>4, SlotsAre
<1>6. Control'
  BY DEF SetWatchpoint, Control
<1>7. CASE /\ hw' = program(recorded)
           /\ listed' = [s \in DOMAIN listed \cup {n} |-> IF s = n THEN w ELSE listed[s]]
           /\ due' = [t \in Thread |-> IF t \in recorded THEN due[t] \cup {n} ELSE due[t]]
  <2>1. Taken(n + 1)'
    <3>1. n \in Nat /\ n + 1 \in 0..Slots /\ 0..((n + 1) - 1) = (0..(n - 1)) \cup {n}
      BY <1>1, <1>2, SlotsAre DEF Taken
    <3> QED
      BY <1>1, <1>7, <3>1 DEF Taken
  <2>2. due' \in [Thread -> SUBSET DOMAIN listed']
    BY <1>1, <1>7
  <2>3. hw' \in [Thread -> Register]
        /\ \A t \in Thread : \A s \in Slot : Enabled(hw'[t], s) => s <= n + 1
    BY <1>1, <1>2, <1>5, <1>7, SlotsAre DEF Taken
  <2> QED
    BY <1>1, <1>6, <2>1, <2>2, <2>3, EnabledAfter
<1>8. ASSUME NEW t \in recorded, NEW h \in Partly(t, n, w), UNCHANGED <<listed, due>>,
             hw' = [program({u \in recorded : u < t}) EXCEPT ![t] = h]
      PROVE  Control' /\ \E m : Parts(m)'
  <2>1. t \in Thread /\ hw[t] \in Register
    BY <1>1
  <2>2. h \in Register /\ h.control = hw[t].control
    BY <1>2, <1>8, <2>1, RefusedKeeps DEF Partly
  <2>3. \A s \in Slot : Enabled(h, s) => s <= n
    BY <1>1, <2>1, <2>2 DEF Enabled
  <2>4. hw' \in [Thread -> Register]
        /\ \A u \in Thread : \A s \in Slot : Enabled(hw'[u], s) => s <= n
    BY <1>5, <1>8, <2>1, <2>2, <2>3
  <2> QED
    BY <1>1, <1>6, <1>8, <2>4, EnabledAfter DEF Taken
<1> QED
  BY <1>2, <1>7, <1>8 DEF SetWatchpoint

LEMMA CollectKeeps ==
  ASSUME Control, NEW t \in Thread, Collect(t), phase' \in {"prompt", "proceed"}
  PROVE  Control'
  BY DEF Collect, Control

LEMMA WaitStopKeeps ==
  ASSUME NEW n, Parts(n), Control, NEW t \in Thread, WaitStop(t), machine' = machine
  PROVE  Control' /\ Parts(n)'
<1> DEFINE slots == DOMAIN listed
           first(k) == [s \in {x \in slots : x < k} |-> listed[s]]
           Good(h) == h \in Register /\ \A s \in Slot : Enabled(h, s) => s <= n
<1>1. /\ Machine /\ Taken(n) /\ hw \in [Thread -> Register]
      /\ due \in [Thread -> SUBSET slots] /\ Good(hw[t])
      /\ \A u \in Thread : \A s \in Slot : Enabled(hw[u], s) => s <= n
  BY DEF Parts
<1>2. slots \subseteq Slot /\ slots = 0..(n - 1) /\ listed \in [slots -> Watch]
  BY <1>1, ListedCount DEF Taken
<1>3. listed \in Lists /\ \A k : first(k) \in Lists /\ DOMAIN first(k) \subseteq slots
  <2>1. \A k : first(k) \in [{x \in slots : x < k} -> Watch]
              /\ {x \in slots : x < k} \in SUBSET Slot
    BY <1>2
  <2> QED
    BY <1>1, <2>1, ListedCount DEF Lists
<1>4. ASSUME NEW list \in Lists, DOMAIN list \subseteq slots
      PROVE  Good(Programmed(hw[t], list))
  <2>1. \A s \in slots : s <= n
    BY <1>1, <1>2, SlotsAre DEF Taken
  <2> QED
    BY <1>1, <1>4, <2>1, ProgrammedType, ProgrammedEnables
<1>5. ASSUME NEW h, Good(h), hw' = [hw EXCEPT ![t] = h], UNCHANGED listed,
             due' \in [Thread -> SUBSET slots]
      PROVE  Parts(n)'
  BY <1>1, <1>5, EnabledAfter DEF Taken
<1>6. Control' /\ UNCHANGED listed
  BY CollectKeeps DEF WaitStop, Collect
<1>7. CASE UNCHANGED <<hw, due>>
  BY <1>1, <1>6, <1>7, EnabledAfter DEF Taken
<1>8. CASE hw' = [hw EXCEPT ![t] = Programmed(@, listed)] /\ due' = [due EXCEPT ![t] = slots]
  <2>1. Good(Programmed(hw[t], listed))
    BY <1>3, <1>4
  <2>2. hw' = [hw EXCEPT ![t] = Programmed(hw[t], listed)]
    BY <1>1, <1>8
  <2> QED
    BY <1>1, <1>5, <1>6, <1>8, <2>1, <2>2
<1>9. ASSUME NEW s \in slots,
             \E h \in (IF Valid(listed[s]) THEN Refused(Programmed(hw[t], first(s)), s, listed[s])
                                           ELSE {Programmed(hw[t], first(s))}) :
                hw' = [hw EXCEPT ![t] = h],
             due' = [due EXCEPT ![t] = @ \cup DOMAIN first(s)]
      PROVE  Parts(n)'
  <2>1. PICK h : /\ hw' = [hw EXCEPT ![t] = h]
                 /\ \/ h = Programmed(hw[t], first(s))
                    \/ h \in Refused(Programmed(hw[t], first(s)), s, listed[s])
    BY <1>9
  <2>2. Good(Programmed(hw[t], first(s))) /\ s \in Slot /\ listed[s] \in Watch
    BY <1>2, <1>3, <1>4
  <2>3. Good(h)
    <3>1. h \in Register /\ h.control = Programmed(hw[t], first(s)).control
      BY <2>1, <2>2, RefusedKeeps
    <3> QED
      BY <2>2, <3>1 DEF Enabled
  <2>4. due' \in [Thread -> SUBSET slots]
    BY <1>1, <1>9
  <2> QED
    BY <1>5, <1>6, <2>1, <2>3, <2>4
<1> QED
  BY <1>6, <1>7, <1>8, <1>9 DEF WaitStop

\* What touches no register but to clear it.
LEMMA ClearKeeps ==
  ASSUME NEW n, Parts(n), UNCHANGED <<machine, listed>>,
         hw' \in [Thread -> Register], due' \in [Thread -> SUBSET DOMAIN listed],
         \A t \in Thread : hw'[t] \in {hw[t], Fresh}
  PROVE  Parts(n)'
  BY FreshType, EnabledAfter DEF Parts, Taken

LEMMA InvPartsNext == WInv' <=> (Control /\ \E n : Parts(n))'
  BY InvParts, PTL

LEMMA StepKeeps == WInv /\ [Next]_vars => WInv'
<1> SUFFICES ASSUME Control, NEW n, Parts(n), [Next]_vars
             PROVE  Control' /\ \E m : Parts(m)'
  BY InvParts, InvPartsNext
<1>1. /\ hw \in [Thread -> Register] /\ due \in [Thread -> SUBSET DOMAIN listed]
      /\ recorded \subseteq Thread /\ Leader \in Thread
  BY WatchAssumption DEF Parts, Control
<1>2. CASE \E w \in Watch : SetWatchpoint(w) /\ machine' = machine
  BY <1>2, SetWatchpointKeeps
<1>3. ASSUME NEW T \in SUBSET recorded, Resume(T), machine' = machine
      PROVE  Control' /\ Parts(n)'
  <2>1. Control'
    BY <1>3 DEF Resume, Control
  <2> QED
    BY <1>1, <1>3, <2>1, ClearKeeps DEF Resume
<1>4. ASSUME NEW t \in Thread, StepOver(t) \/ OverStop(t) \/ WaitExit(t), machine' = machine
      PROVE  Control' /\ Parts(n)'
  <2>1. Control'
    <3>1. CASE OverStop(t)
      BY <3>1, CollectKeeps DEF OverStop
    <3>2. CASE StepOver(t) \/ WaitExit(t)
      BY <3>2 DEF StepOver, WaitExit, Control
    <3> QED
      BY <1>4, <3>1, <3>2
  <2> QED
    BY <1>1, <1>4, <2>1, ClearKeeps DEF StepOver, OverStop, WaitExit, Collect
<1>5. CASE (\E t \in Thread : WaitStop(t)) /\ machine' = machine
  BY <1>5, WaitStopKeeps
<1>6. CASE WaitFails /\ machine' = machine
  BY <1>1, <1>6, ClearKeeps DEF WaitFails, Control
<1>7. ASSUME NEW t \in Thread, machine' = machine,
             Clone(t) \/ Exit(t) \/ \E e \in {"sigstop", "other"} : StopFor(t, e)
      PROVE  Control' /\ Parts(n)'
  <2>1. Control'
    BY <1>7 DEF Clone, Exit, StopFor, Control
  <2>2. /\ hw' \in [Thread -> Register] /\ due' \in [Thread -> SUBSET DOMAIN listed]
        /\ \A u \in Thread : hw'[u] \in {hw[u], Fresh}
    BY <1>1, <1>7, FreshType DEF Clone, Exit, StopFor
  <2> QED
    BY <1>7, <2>1, <2>2, ClearKeeps DEF Clone, Exit, StopFor
<1>8. CASE Exec /\ machine' = machine
  <2>1. Control'
    BY <1>8 DEF Exec, Control
  <2>2. /\ hw' \in [Thread -> Register] /\ due' \in [Thread -> SUBSET DOMAIN listed]
        /\ \A u \in Thread : hw'[u] \in {hw[u], Fresh}
    BY <1>8, FreshType DEF Exec
  <2> QED
    BY <1>8, <2>1, <2>2, ClearKeeps DEF Exec
<1>9. CASE UNCHANGED vars
  BY <1>1, <1>9, ClearKeeps DEF vars, Control
<1> QED
  BY <1>2, <1>3, <1>4, <1>5, <1>6, <1>7, <1>8, <1>9 DEF Next, Step

LEMMA InitKeeps == Init => WInv
<1> SUFFICES ASSUME Init PROVE Control /\ Parts(0)
  BY InvParts
<1>1. Machine /\ Control
  BY WatchAssumption DEF Init, Machine, Control
<1>2. Taken(0)
  BY SlotsAre DEF Init, Taken
<1>3. hw \in [Thread -> Register] /\ \A t \in Thread : hw[t] = Fresh
  BY FreshType DEF Init
<1>4. due \in [Thread -> SUBSET DOMAIN listed]
  BY DEF Init
<1> QED
  BY <1>1, <1>2, <1>3, <1>4, FreshType DEF Parts

LEMMA Invariant == Spec => []WInv
  BY InitKeeps, StepKeeps, PTL DEF Spec

\* Every variable keeps its type, and the slots taken are the first ones.
THEOREM TypeCorrect == Spec => []TypeOK
  BY Invariant, PTL DEF WInv

\* However many commands fail half way in however many threads, no thread watches
\* for a slot beyond the next one that `watch` will hand out.
THEOREM LeftoverIsNextAlways == Spec => []LeftoverIsNext
<1>1. WInv => LeftoverIsNext
  BY DEF WInv, OnlyNext, LeftoverIsNext
<1> QED
  BY <1>1, Invariant, PTL

-----------------------------------------------------------------------------
(* What a slot is programmed for, and what the processor makes of it.      *)

\* Bit j of n.
Digit(n, j) == (n \div 2^j) % 2 = 1

\* The binary digits of the numbers configure_watchpoint writes.
LEMMA Digits ==
  ASSUME NEW j \in 0..12, NEW n \in {1, 3, 5, 7, 9, 11, 13, 15, 21, 29, 255}
  PROVE  Digit(n, j) <=> \/ j = 0
                         \/ j = 1 /\ n \in {3, 7, 11, 15, 255}
                         \/ j = 2 /\ n \in {5, 7, 13, 15, 21, 29, 255}
                         \/ j = 3 /\ n \in {9, 11, 13, 15, 29, 255}
                         \/ j = 4 /\ n \in {21, 29, 255}
                         \/ j \in 5..7 /\ n = 255
<1>1. CASE j = 0
  <2>1. 2^j = 1
    BY <1>1
  <2> QED
    BY <1>1, <2>1 DEF Digit
<1>2. CASE j = 1
  <2>1. 2^j = 2
    BY <1>2
  <2> QED
    BY <1>2, <2>1 DEF Digit
<1>3. CASE j = 2
  <2>1. 2^j = 4
    BY <1>3
  <2> QED
    BY <1>3, <2>1 DEF Digit
<1>4. CASE j = 3
  <2>1. 2^j = 8
    BY <1>4
  <2> QED
    BY <1>4, <2>1 DEF Digit
<1>5. CASE j = 4
  <2>1. 2^j = 16
    BY <1>5
  <2> QED
    BY <1>5, <2>1 DEF Digit
<1>6. CASE j = 5
  <2>1. 2^j = 32
    BY <1>6
  <2> QED
    BY <1>6, <2>1 DEF Digit
<1>7. CASE j = 6
  <2>1. 2^j = 64
    BY <1>7
  <2> QED
    BY <1>7, <2>1 DEF Digit
<1>8. CASE j = 7
  <2>1. 2^j = 128
    BY <1>8
  <2> QED
    BY <1>8, <2>1 DEF Digit
<1>9. CASE j = 8
  <2>1. 2^j = 256
    BY <1>9
  <2> QED
    BY <1>9, <2>1 DEF Digit
<1>10. CASE j = 9
  <2>1. 2^j = 512
    BY <1>10
  <2> QED
    BY <1>10, <2>1 DEF Digit
<1>11. CASE j = 10
  <2>1. 2^j = 1024
    BY <1>11
  <2> QED
    BY <1>11, <2>1 DEF Digit
<1>12. CASE j = 11
  <2>1. 2^j = 2048
    BY <1>12
  <2> QED
    BY <1>12, <2>1 DEF Digit
<1>13. CASE j = 12
  <2>1. 2^j = 4096
    BY <1>13
  <2> QED
    BY <1>13, <2>1 DEF Digit
<1> QED
  BY <1>1, <1>2, <1>3, <1>4, <1>5, <1>6, <1>7, <1>8, <1>9, <1>10, <1>11, <1>12, <1>13

\* The bits that stand for a small number.
LEMMA FieldBits ==
  ASSUME NEW first \in Nat
  PROVE  /\ Field(first, 1) = {first} /\ Field(first, 3) = {first, first + 1}
         /\ Field(first, 5) = {first, first + 2} /\ Field(first, 7) = {first, first + 1, first + 2}
         /\ Field(first, 9) = {first, first + 3} /\ Field(first, 11) = {first, first + 1, first + 3}
         /\ Field(first, 13) = {first, first + 2, first + 3}
         /\ Field(first, 15) = {first, first + 1, first + 2, first + 3}
         /\ Field(first, 21) = {first, first + 2, first + 4}
         /\ Field(first, 29) = {first, first + 2, first + 3, first + 4}
         /\ Field(first, 255) = first..(first + 7)
<1> DEFINE Set(n) == {j \in 0..12 : Digit(n, j)}
<1>1. ASSUME NEW n \in {1, 3, 5, 7, 9, 11, 13, 15, 21, 29, 255}
      PROVE  \A j : j \in Set(n) <=>
               /\ j \in 0..12
               /\ \/ j = 0
                  \/ j = 1 /\ n \in {3, 7, 11, 15, 255}
                  \/ j = 2 /\ n \in {5, 7, 13, 15, 21, 29, 255}
                  \/ j = 3 /\ n \in {9, 11, 13, 15, 29, 255}
                  \/ j = 4 /\ n \in {21, 29, 255}
                  \/ j \in 5..7 /\ n = 255
  BY <1>1, Digits
<1>6. \A n : Field(first, n) = {first + i : i \in Set(n)}
  BY DEF Field, Digit
<1> HIDE DEF Set
<1>2. Set(1) = {0} /\ Set(3) = {0, 1} /\ Set(5) = {0, 2} /\ Set(7) = {0, 1, 2}
  BY <1>1
<1>3. Set(9) = {0, 3} /\ Set(11) = {0, 1, 3} /\ Set(13) = {0, 2, 3} /\ Set(15) = {0, 1, 2, 3}
  BY <1>1
<1>4. Set(21) = {0, 2, 4} /\ Set(29) = {0, 2, 3, 4}
  BY <1>1
<1>5. Set(255) = 0..7
  BY <1>1
<1>7. /\ Field(first, 1) = {first} /\ Field(first, 3) = {first, first + 1}
      /\ Field(first, 5) = {first, first + 2} /\ Field(first, 7) = {first, first + 1, first + 2}
  BY <1>2, <1>6
<1>8. /\ Field(first, 9) = {first, first + 3} /\ Field(first, 11) = {first, first + 1, first + 3}
      /\ Field(first, 13) = {first, first + 2, first + 3}
      /\ Field(first, 15) = {first, first + 1, first + 2, first + 3}
  BY <1>3, <1>6
<1>9. Field(first, 21) = {first, first + 2, first + 4}
      /\ Field(first, 29) = {first, first + 2, first + 3, first + 4}
  BY <1>4, <1>6
<1>10. Field(first, 255) = first..(first + 7)
  <2>1. \A b \in first..(first + 7) : b - first \in 0..7 /\ b = first + (b - first)
    OBVIOUS
  <2>2. \A i \in 0..7 : first + i \in first..(first + 7)
    OBVIOUS
  <2>3. Field(first, 255) = {first + i : i \in 0..7}
    BY <1>5, <1>6
  <2> QED
    BY <2>1, <2>2, <2>3
<1> QED
  BY <1>7, <1>8, <1>9, <1>10

\* On x86-64 the bits are the enable bit, the access and the length.
LEMMA X86BitsAre ==
  ASSUME NEW slot \in 0..3, NEW w \in Watch, w.bytes \in {1, 2, 4, 8}
  PROVE  LET first == 16 + 4 * slot IN
         X86Bits(slot, w) = {2 * slot, first}
                            \cup (IF w.access = {"write"} THEN {} ELSE {first + 1})
                            \cup (IF w.bytes \in {2, 4} THEN {first + 2} ELSE {})
                            \cup (IF w.bytes \in {4, 8} THEN {first + 3} ELSE {})
<1> DEFINE first == 16 + 4 * slot
           access == IF w.access = {"write"} THEN 1 ELSE 3
<1>1. first \in Nat
  OBVIOUS
<1>2. X86Bits(slot, w) = {2 * slot} \cup Field(first, access + 4 * Length[w.bytes])
  BY DEF X86Bits
<1> SUFFICES X86Bits(slot, w) = {2 * slot, first}
                            \cup (IF w.access = {"write"} THEN {} ELSE {first + 1})
                            \cup (IF w.bytes \in {2, 4} THEN {first + 2} ELSE {})
                            \cup (IF w.bytes \in {4, 8} THEN {first + 3} ELSE {})
  OBVIOUS
<1> HIDE DEF first
<1>3. CASE w.bytes = 1
  <2>1. access + 4 * Length[w.bytes] = IF w.access = {"write"} THEN 1 ELSE 3
    BY <1>3 DEF Length
  <2>2. CASE w.access = {"write"}
    <3>1. Field(first, access + 4 * Length[w.bytes]) = {first}
      BY <1>1, <2>1, <2>2, FieldBits
    <3> QED
      BY <1>2, <1>3, <2>2, <3>1
  <2>3. CASE w.access # {"write"}
    <3>1. Field(first, access + 4 * Length[w.bytes]) = {first, first + 1}
      BY <1>1, <2>1, <2>3, FieldBits
    <3> QED
      BY <1>2, <1>3, <2>3, <3>1
  <2> QED
    BY <2>2, <2>3
<1>4. CASE w.bytes = 2
  <2>1. access + 4 * Length[w.bytes] = IF w.access = {"write"} THEN 5 ELSE 7
    BY <1>4 DEF Length
  <2>2. CASE w.access = {"write"}
    <3>1. Field(first, access + 4 * Length[w.bytes]) = {first, first + 2}
      BY <1>1, <2>1, <2>2, FieldBits
    <3> QED
      BY <1>2, <1>4, <2>2, <3>1
  <2>3. CASE w.access # {"write"}
    <3>1. Field(first, access + 4 * Length[w.bytes]) = {first, first + 1, first + 2}
      BY <1>1, <2>1, <2>3, FieldBits
    <3> QED
      BY <1>2, <1>4, <2>3, <3>1
  <2> QED
    BY <2>2, <2>3
<1>5. CASE w.bytes = 4
  <2>1. access + 4 * Length[w.bytes] = IF w.access = {"write"} THEN 13 ELSE 15
    BY <1>5 DEF Length
  <2>2. CASE w.access = {"write"}
    <3>1. Field(first, access + 4 * Length[w.bytes]) = {first, first + 2, first + 3}
      BY <1>1, <2>1, <2>2, FieldBits
    <3> QED
      BY <1>2, <1>5, <2>2, <3>1
  <2>3. CASE w.access # {"write"}
    <3>1. Field(first, access + 4 * Length[w.bytes]) = {first, first + 1, first + 2, first + 3}
      BY <1>1, <2>1, <2>3, FieldBits
    <3> QED
      BY <1>2, <1>5, <2>3, <3>1
  <2> QED
    BY <2>2, <2>3
<1>6. CASE w.bytes = 8
  <2>1. access + 4 * Length[w.bytes] = IF w.access = {"write"} THEN 9 ELSE 11
    BY <1>6 DEF Length
  <2>2. CASE w.access = {"write"}
    <3>1. Field(first, access + 4 * Length[w.bytes]) = {first, first + 3}
      BY <1>1, <2>1, <2>2, FieldBits
    <3> QED
      BY <1>2, <1>6, <2>2, <3>1
  <2>3. CASE w.access # {"write"}
    <3>1. Field(first, access + 4 * Length[w.bytes]) = {first, first + 1, first + 3}
      BY <1>1, <2>1, <2>3, FieldBits
    <3> QED
      BY <1>2, <1>6, <2>3, <3>1
  <2> QED
    BY <2>2, <2>3
<1> QED
  BY <1>3, <1>4, <1>5, <1>6

\* On AArch64 they are enable and privilege, the accesses, and a mask of the bytes.
LEMMA ArmBitsAre ==
  ASSUME NEW slot \in 0..3, NEW w \in Watch, w.bytes \in {1, 2, 4, 8}
  PROVE  LET first == 32 * slot IN
         ArmBits(slot, w) = {first, first + 2}
                            \cup (IF "read" \in w.access THEN {first + 3} ELSE {})
                            \cup (IF "write" \in w.access THEN {first + 4} ELSE {})
                            \cup (first + 5)..(first + 4 + w.bytes)
<1> DEFINE first == 32 * slot
           type == (IF "read" \in w.access THEN 1 ELSE 0) + (IF "write" \in w.access THEN 2 ELSE 0)
<1>1. first \in Nat /\ first + 5 \in Nat
  OBVIOUS
<1>2. ArmBits(slot, w) = Field(first, 1 + 2 * 2 + 8 * type) \cup Field(first + 5, 2^w.bytes - 1)
  BY DEF ArmBits
<1>3. w.access \in {{"read"}, {"write"}, {"read", "write"}}
  BY WatchAssumption
<1> HIDE DEF first
<1>4. Field(first, 1 + 2 * 2 + 8 * type) =
        {first, first + 2} \cup (IF "read" \in w.access THEN {first + 3} ELSE {})
                           \cup (IF "write" \in w.access THEN {first + 4} ELSE {})
  <2>1. CASE w.access = {"read"}
    <3>1. 1 + 2 * 2 + 8 * type = 13
      BY <2>1
    <3> QED
      BY <1>1, <2>1, <3>1, FieldBits
  <2>2. CASE w.access = {"write"}
    <3>1. 1 + 2 * 2 + 8 * type = 21
      BY <2>2
    <3> QED
      BY <1>1, <2>2, <3>1, FieldBits
  <2>3. CASE w.access = {"read", "write"}
    <3>1. 1 + 2 * 2 + 8 * type = 29
      BY <2>3
    <3> QED
      BY <1>1, <2>3, <3>1, FieldBits
  <2> QED
    BY <1>3, <2>1, <2>2, <2>3
<1>5. Field(first + 5, 2^w.bytes - 1) = (first + 5)..(first + 4 + w.bytes)
  <2>1. 2^1 - 1 = 1 /\ 2^2 - 1 = 3 /\ 2^4 - 1 = 15 /\ 2^8 - 1 = 255
    OBVIOUS
  <2> DEFINE mask == first + 5
  <2>6. /\ Field(mask, 1) = {mask} /\ Field(mask, 3) = {mask, mask + 1}
        /\ Field(mask, 15) = {mask, mask + 1, mask + 2, mask + 3}
        /\ Field(mask, 255) = mask..(mask + 7)
    BY <1>1, FieldBits
  <2>7. mask \in Nat /\ first + 4 + w.bytes = mask + w.bytes - 1
    BY <1>1
  <2> HIDE DEF mask
  <2>2. CASE w.bytes = 1
    <3>1. (first + 5)..(first + 4 + w.bytes) = {mask}
      BY <2>2, <2>7 DEF mask
    <3>2. 2^w.bytes - 1 = 1
      BY <2>2
    <3> QED
      BY <2>6, <3>1, <3>2 DEF mask
  <2>3. CASE w.bytes = 2
    <3>1. (first + 5)..(first + 4 + w.bytes) = {mask, mask + 1}
      BY <2>3, <2>7 DEF mask
    <3>2. 2^w.bytes - 1 = 3
      BY <2>3
    <3> QED
      BY <2>6, <3>1, <3>2 DEF mask
  <2>4. CASE w.bytes = 4
    <3>1. (first + 5)..(first + 4 + w.bytes) = {mask, mask + 1, mask + 2, mask + 3}
      BY <2>4, <2>7 DEF mask
    <3>2. 2^w.bytes - 1 = 15
      BY <2>4
    <3> QED
      BY <2>6, <3>1, <3>2 DEF mask
  <2>5. CASE w.bytes = 8
    <3>1. (first + 5)..(first + 4 + w.bytes) = mask..(mask + 7)
      BY <2>5, <2>7 DEF mask
    <3>2. 2^w.bytes - 1 = 255
      BY <2>5
    <3> QED
      BY <2>6, <3>1, <3>2 DEF mask
  <2> QED
    BY <2>2, <2>3, <2>4, <2>5 DEF mask
<1> QED
  BY <1>2, <1>4, <1>5 DEF first

\* The bits of a slot lie in the part of the control registers it clears first.
LEMMA BitsCleared ==
  ASSUME Machine, NEW slot \in Slot, NEW w \in Watch, Valid(w)
  PROVE  Bits(slot, w) \subseteq Cleared(slot)
<1>1. slot \in 0..3 /\ w.bytes \in {1, 2, 4, 8}
  BY SlotsAre DEF Valid
<1>2. X86Bits(slot, w) \subseteq X86Clear(slot)
  <2>1. X86Bits(slot, w) \subseteq {2 * slot} \cup (16 + 4 * slot)..(19 + 4 * slot)
    BY <1>1, X86BitsAre
  <2> QED
    BY <2>1 DEF X86Clear
<1>3. ArmBits(slot, w) \subseteq ArmClear(slot)
  <2> DEFINE first == 32 * slot
  <2>1. ArmBits(slot, w) \subseteq {first, first + 2, first + 3, first + 4}
                                   \cup (first + 5)..(first + 4 + w.bytes)
    BY <1>1, ArmBitsAre
  <2>2. (first + 5)..(first + 4 + w.bytes) \subseteq first..(first + 31)
    BY <1>1
  <2>3. {first, first + 2, first + 3, first + 4} \subseteq first..(first + 31)
    BY <1>1
  <2> QED
    BY <2>1, <2>2, <2>3 DEF ArmClear
<1> QED
  BY <1>2, <1>3 DEF Bits, Cleared

LEMMA ClearedApart ==
  ASSUME Machine, NEW slot \in Slot, NEW other \in Slot, slot # other
  PROVE  Cleared(slot) \cap Cleared(other) = {}
<1>1. slot \in 0..3 /\ other \in 0..3
  BY SlotsAre
<1>2. X86Clear(slot) \cap X86Clear(other) = {}
  BY <1>1 DEF X86Clear
<1>3. ArmClear(slot) \cap ArmClear(other) = {}
  BY <1>1 DEF ArmClear
<1> QED
  BY <1>2, <1>3 DEF Cleared

\* The registers h are what configure_watchpoint makes of the slot for w.
Carries(h, slot, w) ==
    h.address[slot] = w.address /\ h.control \cap Cleared(slot) = Bits(slot, w)

\* Programming a list gives each of its slots what it asks, and spares the others.
LEMMA ProgrammedSlot ==
  ASSUME Machine, NEW h \in Register, NEW list \in Lists, NEW slot \in Slot,
         \A s \in DOMAIN list : Valid(list[s])
  PROVE  LET g == Programmed(h, list) IN
         /\ slot \in DOMAIN list => Carries(g, slot, list[slot])
         /\ slot \notin DOMAIN list =>
              /\ g.address[slot] = h.address[slot]
              /\ g.control \cap Cleared(slot) = h.control \cap Cleared(slot)
<1> DEFINE g == Programmed(h, list)
           Off == UNION {Cleared(s) : s \in DOMAIN list}
           On == UNION {Bits(s, list[s]) : s \in DOMAIN list}
<1>1. \A s \in DOMAIN list : s \in Slot /\ list[s] \in Watch
  BY DEF Lists
<1>2. \A s \in DOMAIN list : Bits(s, list[s]) \subseteq Cleared(s)
  BY <1>1, BitsCleared
<1>3. \A s \in DOMAIN list : s # slot => Cleared(s) \cap Cleared(slot) = {}
  BY <1>1, ClearedApart
<1>4. /\ g.control = (h.control \ Off) \cup On
      /\ g.address[slot] = IF slot \in DOMAIN list THEN list[slot].address ELSE h.address[slot]
  BY DEF Programmed
<1>5. CASE slot \in DOMAIN list
  <2>1. Cleared(slot) \subseteq Off
    BY <1>5
  <2>2. On \cap Cleared(slot) = Bits(slot, list[slot])
    BY <1>2, <1>3, <1>5
  <2>3. g.control \cap Cleared(slot) = Bits(slot, list[slot])
    BY <1>4, <2>1, <2>2
  <2> QED
    BY <1>4, <1>5, <2>3 DEF Carries
<1>6. CASE slot \notin DOMAIN list
  <2>1. Off \cap Cleared(slot) = {} /\ On \cap Cleared(slot) = {}
    BY <1>2, <1>3, <1>6
  <2>2. g.control \cap Cleared(slot) = h.control \cap Cleared(slot)
    BY <1>4, <2>1
  <2> QED
    BY <1>4, <1>6, <2>2
<1> QED
  BY <1>5, <1>6

\* What ProgrammedRight asks of one slot.
SlotRight(h, slot, w) ==
    LET got == Watched(h, slot) IN
    /\ Enabled(h, slot)
    /\ got.address = w.address /\ got.bytes = w.bytes
    /\ w.access \subseteq got.access
    /\ "read" \notin w.access => "read" \notin got.access

LEMMA X86Right ==
  ASSUME machine = "x86_64", NEW h \in Register, NEW slot \in Slot, NEW w \in Watch, Valid(w),
         Carries(h, slot, w)
  PROVE  SlotRight(h, slot, w)
<1> DEFINE first == 16 + 4 * slot
<1>1. slot \in 0..3 /\ w.bytes \in {1, 2, 4, 8} /\ first \in Nat
      /\ w.access \in {{"read"}, {"write"}, {"read", "write"}}
  BY SlotsAre, WatchAssumption DEF Valid
<1>2. h.control \cap X86Clear(slot) = {2 * slot, first}
                            \cup (IF w.access = {"write"} THEN {} ELSE {first + 1})
                            \cup (IF w.bytes \in {2, 4} THEN {first + 2} ELSE {})
                            \cup (IF w.bytes \in {4, 8} THEN {first + 3} ELSE {})
  BY <1>1, X86BitsAre DEF Carries, Cleared, Bits
<1>3. {2 * slot, first, first + 1, first + 2, first + 3} \subseteq X86Clear(slot)
  BY <1>1 DEF X86Clear
<1>4. 2 * slot < first
  BY <1>1
<1> HIDE DEF first
<1>5. /\ 2 * slot \in h.control /\ first \in h.control
      /\ first + 1 \in h.control <=> w.access # {"write"}
      /\ first + 2 \in h.control <=> w.bytes \in {2, 4}
      /\ first + 3 \in h.control <=> w.bytes \in {4, 8}
  BY <1>1, <1>2, <1>3, <1>4
<1>6. Number(h, first) = IF w.access = {"write"} THEN 1 ELSE 3
  BY <1>5 DEF Number
<1>7. Number(h, first + 2) = CASE w.bytes = 1 -> 0 [] w.bytes = 2 -> 1 [] w.bytes = 4 -> 3
                               [] w.bytes = 8 -> 2
  <2>1. (first + 2) + 1 = first + 3
    BY <1>1
  <2> QED
    BY <1>1, <1>5, <2>1 DEF Number
<1>8. 16 + 4 * slot = first /\ 18 + 4 * slot = first + 2
  BY <1>1 DEF first
<1>9. Enabled(h, slot)
  BY <1>5 DEF Enabled
<1> DEFINE got == Watched(h, slot)
<1>10. got.access = IF w.access = {"write"} THEN {"write"} ELSE {"read", "write"}
  BY <1>6, <1>8 DEF Watched
<1>11. got.bytes = w.bytes
  BY <1>1, <1>7, <1>8 DEF Watched
<1>12. got.address = w.address
  BY DEF Watched, Carries
<1> HIDE DEF got
<1>13. w.access \subseteq got.access /\ ("read" \notin w.access => "read" \notin got.access)
  BY <1>1, <1>10
<1> QED
  BY <1>9, <1>11, <1>12, <1>13 DEF SlotRight, got

LEMMA ArmRight ==
  ASSUME machine = "aarch64", NEW h \in Register, NEW slot \in Slot, NEW w \in Watch, Valid(w),
         Carries(h, slot, w)
  PROVE  SlotRight(h, slot, w)
<1> DEFINE first == 32 * slot
           mask == (first + 5)..(first + 4 + w.bytes)
<1>1. slot \in 0..3 /\ w.bytes \in {1, 2, 4, 8} /\ first \in Nat
      /\ w.access \in {{"read"}, {"write"}, {"read", "write"}}
  BY SlotsAre, WatchAssumption DEF Valid
<1>2. h.control \cap ArmClear(slot) = {first, first + 2}
                            \cup (IF "read" \in w.access THEN {first + 3} ELSE {})
                            \cup (IF "write" \in w.access THEN {first + 4} ELSE {})
                            \cup mask
  BY <1>1, ArmBitsAre DEF Carries, Cleared, Bits
<1>3. {first, first + 3, first + 4} \cup (first + 5)..(first + 12) \subseteq ArmClear(slot)
  BY <1>1 DEF ArmClear
<1> HIDE DEF first
<1>4. mask \subseteq (first + 5)..(first + 12)
  BY <1>1
<1>5. \A b \in (first + 5)..(first + 12) : b \notin {first, first + 2, first + 3, first + 4}
  BY <1>1
<1>6. first \in h.control
  BY <1>2
<1>7. /\ first + 3 \in h.control <=> "read" \in w.access
      /\ first + 4 \in h.control <=> "write" \in w.access
  <2>1. first + 3 \notin mask /\ first + 4 \notin mask
    BY <1>1, <1>4, <1>5
  <2> HIDE DEF mask
  <2> QED
    BY <1>1, <1>2, <1>3, <2>1
<1>8. h.control \cap (first + 5)..(first + 12) = mask
  <2> HIDE DEF mask
  <2> QED
    BY <1>2, <1>3, <1>4, <1>5
<1>9. Cardinality(mask) = w.bytes
  <2>1. first + 5 \in Int /\ first + 4 + w.bytes \in Int /\ first + 5 <= first + 4 + w.bytes
    BY <1>1
  <2>2. Cardinality(mask) = ((first + 4 + w.bytes) - (first + 5)) + 1
    BY <2>1, FS_Interval
  <2> QED
    BY <1>1, <2>2
<1> DEFINE got == Watched(h, slot)
<1>10. got.access = (IF first + 3 \in h.control THEN {"read"} ELSE {})
                    \cup (IF first + 4 \in h.control THEN {"write"} ELSE {})
  BY DEF Watched, first
<1>11. got.bytes = w.bytes
  BY <1>8, <1>9 DEF Watched, first
<1>12. got.address = w.address
  BY DEF Watched, Carries
<1>13. Enabled(h, slot)
  BY <1>6 DEF Enabled, first
<1> HIDE DEF got
<1>14. got.access = w.access
  BY <1>1, <1>7, <1>10
<1> QED
  BY <1>11, <1>12, <1>13, <1>14 DEF SlotRight, got

-----------------------------------------------------------------------------
(* The invariant: a slot due to a thread carries its watchpoint, whatever   *)
(* was programmed or refused in the others.                                 *)

DueCarried ==
    \A t \in Thread : \A s \in due[t] : Valid(listed[s]) /\ Carries(hw[t], s, listed[s])

LEMMA CarriedAfter ==
  ASSUME machine' = machine
  PROVE  DueCarried' <=> \A t \in Thread : \A s \in due'[t] :
                           Valid(listed'[s]) /\ Carries(hw'[t], s, listed'[s])
  BY DEF DueCarried, Valid, Carries, Cleared, Bits

\* What clears registers and forgets their slots, or touches neither.
LEMMA ClearCarries ==
  ASSUME DueCarried, UNCHANGED <<machine, listed>>,
         \A t \in Thread : (hw'[t] = hw[t] /\ due'[t] = due[t]) \/ due'[t] = {}
  PROVE  DueCarried'
<1> SUFFICES ASSUME NEW t \in Thread, NEW s \in due'[t]
             PROVE  Valid(listed'[s]) /\ Carries(hw'[t], s, listed'[s])
  BY CarriedAfter
<1> QED
  BY DEF DueCarried

LEMMA SetWatchpointCarries ==
  ASSUME NEW n, Parts(n), Control, DueCarried, NEW w \in Watch, SetWatchpoint(w), machine' = machine
  PROVE  DueCarried'
<1> DEFINE one == [s \in {n} |-> w]
           program(done) == [t \in Thread |-> IF t \in done THEN Programmed(hw[t], one) ELSE hw[t]]
<1>1. Machine /\ Taken(n) /\ hw \in [Thread -> Register]
      /\ due \in [Thread -> SUBSET DOMAIN listed] /\ recorded \subseteq Thread
  BY DEF Parts, Control
<1>2. FreeSlot(DOMAIN listed) = n /\ n \in Slot /\ DOMAIN listed \subseteq Slot
      /\ n \notin DOMAIN listed
  <2>1. FreeSlot(DOMAIN listed) = n
    BY <1>1, FreeSlotIs
  <2>2. FreeSlot(DOMAIN listed) < Slots
    BY DEF SetWatchpoint
  <2>3. DOMAIN listed \subseteq Slot
    BY <1>1, ListedCount
  <2> QED
    BY <1>1, <2>1, <2>2, <2>3, SlotsAre DEF Taken, Slot
<1>3. one \in Lists /\ DOMAIN one = {n} /\ one[n] = w
  <2>1. one \in [{n} -> Watch] /\ {n} \in SUBSET Slot
    BY <1>2
  <2> QED
    BY <2>1 DEF Lists
<1>4. ASSUME Valid(w), NEW t \in Thread
      PROVE  /\ Carries(Programmed(hw[t], one), n, w)
             /\ \A s \in Slot \ {n} :
                  /\ Programmed(hw[t], one).address[s] = hw[t].address[s]
                  /\ Programmed(hw[t], one).control \cap Cleared(s) = hw[t].control \cap Cleared(s)
  <2>1. \A s \in DOMAIN one : Valid(one[s])
    BY <1>3, <1>4
  <2> HIDE DEF one
  <2> QED
    BY <1>1, <1>2, <1>3, <1>4, <2>1, ProgrammedSlot
<1> HIDE DEF one
<1>5. ASSUME NEW t \in Thread, NEW s \in due[t]
      PROVE  s \in Slot \ {n} /\ s \in DOMAIN listed /\ Valid(listed[s])
             /\ Carries(hw[t], s, listed[s])
             /\ (Valid(w) => Carries(Programmed(hw[t], one), s, listed[s]))
  <2>1. s \in DOMAIN listed /\ s \in Slot \ {n}
    BY <1>1, <1>2, <1>5
  <2>2. Valid(listed[s]) /\ Carries(hw[t], s, listed[s])
    BY <1>5 DEF DueCarried
  <2> QED
    BY <1>4, <2>1, <2>2 DEF Carries
<1>6. CASE /\ \A t \in recorded : Accepts(t, w)
           /\ hw' = program(recorded)
           /\ listed' = [s \in DOMAIN listed \cup {n} |-> IF s = n THEN w ELSE listed[s]]
           /\ due' = [t \in Thread |-> IF t \in recorded THEN due[t] \cup {n} ELSE due[t]]
  <2> SUFFICES ASSUME NEW t \in Thread, NEW s \in due'[t]
               PROVE  Valid(listed'[s]) /\ Carries(hw'[t], s, listed'[s])
    BY CarriedAfter
  <2>1. CASE s = n
    <3>1. s \notin due[t]
      BY <1>5, <2>1
    <3>2. t \in recorded /\ Valid(w)
      BY <1>6, <3>1, <2>1 DEF Accepts
    <3> QED
      BY <1>4, <1>6, <2>1, <3>2
  <2>2. CASE s # n
    <3>1. s \in due[t]
      BY <1>6, <2>2
    <3>2. listed'[s] = listed[s]
      BY <1>5, <1>6, <2>2, <3>1
    <3>3. hw'[t] = hw[t] \/ (hw'[t] = Programmed(hw[t], one) /\ Valid(w))
      BY <1>6 DEF Accepts
    <3> QED
      BY <1>5, <3>1, <3>2, <3>3
  <2> QED
    BY <2>1, <2>2
<1>7. ASSUME NEW t \in recorded, NEW h \in Partly(t, n, w), UNCHANGED <<listed, due>>,
             \A u \in {v \in recorded : v < t} : Accepts(u, w),
             hw' = [program({v \in recorded : v < t}) EXCEPT ![t] = h]
      PROVE  DueCarried'
  <2> SUFFICES ASSUME NEW u \in Thread, NEW s \in due[u]
               PROVE  Valid(listed[s]) /\ Carries(hw'[u], s, listed[s])
    BY <1>7, CarriedAfter
  <2>1. CASE u = t
    <3>1. hw'[u] = h
      BY <1>7, <2>1
    <3>2. h.address[s] = hw[u].address[s] /\ h.control = hw[u].control
      BY <1>1, <1>2, <1>5, <1>7, <2>1 DEF Partly, Refused, Register
    <3> QED
      BY <1>5, <3>1, <3>2 DEF Carries
  <2>2. CASE u # t
    <3>1. hw'[u] = hw[u] \/ (hw'[u] = Programmed(hw[u], one) /\ Valid(w))
      BY <1>1, <1>7, <2>2 DEF Accepts
    <3> QED
      BY <1>5, <3>1
  <2> QED
    BY <2>1, <2>2
<1> QED
  BY <1>2, <1>6, <1>7 DEF SetWatchpoint, one

LEMMA WaitStopCarries ==
  ASSUME NEW n, Parts(n), DueCarried, NEW t \in Thread, WaitStop(t), machine' = machine
  PROVE  DueCarried'
<1> DEFINE slots == DOMAIN listed
           first(k) == [s \in {x \in slots : x < k} |-> listed[s]]
<1>1. /\ Machine /\ Taken(n) /\ hw \in [Thread -> Register] /\ hw[t] \in Register
      /\ due \in [Thread -> SUBSET slots]
  BY DEF Parts
<1>2. /\ slots \subseteq Slot /\ slots = 0..(n - 1) /\ listed \in [slots -> Watch]
      /\ listed \in Lists
  BY <1>1, ListedCount DEF Taken
<1>3. \A k : first(k) \in Lists /\ DOMAIN first(k) = {x \in slots : x < k}
             /\ \A s \in DOMAIN first(k) : first(k)[s] = listed[s]
  <2>1. \A k : first(k) \in [{x \in slots : x < k} -> Watch]
              /\ {x \in slots : x < k} \in SUBSET Slot
    BY <1>2
  <2> QED
    BY <1>1, <2>1, ListedCount DEF Lists
<1>4. UNCHANGED listed
  BY DEF WaitStop, Collect
<1>5. \A s \in due[t] : s \in slots /\ Valid(listed[s]) /\ Carries(hw[t], s, listed[s])
  BY <1>1 DEF DueCarried
<1>6. ASSUME NEW h, NEW new \in SUBSET slots, hw' = [hw EXCEPT ![t] = h],
             due' = [due EXCEPT ![t] = new],
             \A s \in new : Valid(listed[s]) /\ Carries(h, s, listed[s])
      PROVE  DueCarried'
  <2> SUFFICES ASSUME NEW u \in Thread, NEW s \in due'[u]
               PROVE  Valid(listed'[s]) /\ Carries(hw'[u], s, listed'[s])
    BY CarriedAfter
  <2>1. CASE u = t
    BY <1>1, <1>4, <1>6, <2>1
  <2>2. CASE u # t
    BY <1>1, <1>4, <1>6, <2>2 DEF DueCarried
  <2> QED
    BY <2>1, <2>2
<1>7. CASE UNCHANGED <<hw, due>>
  BY <1>4, <1>7, ClearCarries
<1>8. CASE /\ \A s \in slots : Valid(listed[s])
           /\ hw' = [hw EXCEPT ![t] = Programmed(@, listed)] /\ due' = [due EXCEPT ![t] = slots]
  <2>1. \A s \in slots : Carries(Programmed(hw[t], listed), s, listed[s])
    BY <1>1, <1>2, <1>8, ProgrammedSlot
  <2>2. hw' = [hw EXCEPT ![t] = Programmed(hw[t], listed)]
    BY <1>1, <1>8
  <2> QED
    BY <1>6, <1>8, <2>1, <2>2
<1>9. ASSUME NEW s \in slots, \A u \in slots : u < s => Valid(listed[u]),
             \E h \in (IF Valid(listed[s]) THEN Refused(Programmed(hw[t], first(s)), s, listed[s])
                                           ELSE {Programmed(hw[t], first(s))}) :
                hw' = [hw EXCEPT ![t] = h],
             due' = [due EXCEPT ![t] = @ \cup DOMAIN first(s)]
      PROVE  DueCarried'
  <2> DEFINE g == Programmed(hw[t], first(s))
  <2>1. PICK h : /\ hw' = [hw EXCEPT ![t] = h]
                 /\ h = g \/ h \in Refused(g, s, listed[s])
    BY <1>9
  <2>2. first(s) \in Lists /\ DOMAIN first(s) \subseteq slots
        /\ \A u \in DOMAIN first(s) : Valid(first(s)[u]) /\ first(s)[u] = listed[u] /\ u # s
    <3> HIDE DEF first
    <3>1. first(s) \in Lists /\ DOMAIN first(s) = {x \in slots : x < s}
          /\ \A u \in DOMAIN first(s) : first(s)[u] = listed[u]
      BY <1>3
    <3>2. \A u \in slots : u \in Int
      BY <1>2, SlotsAre
    <3>3. \A u \in DOMAIN first(s) : u \in slots /\ u # s /\ Valid(listed[u])
      BY <1>9, <3>1, <3>2
    <3> QED
      BY <3>1, <3>3
  <2> HIDE DEF first
  <2>3. \A u \in slots :
          /\ u \in DOMAIN first(s) => Carries(g, u, listed[u])
          /\ u \notin DOMAIN first(s) => /\ g.address[u] = hw[t].address[u]
                                         /\ g.control \cap Cleared(u) = hw[t].control \cap Cleared(u)
    BY <1>1, <1>2, <2>2, ProgrammedSlot
  <2>4. g \in Register /\ s \in Slot /\ listed[s] \in Watch
    BY <1>1, <1>2, <1>9, <2>2, ProgrammedType
  <2> HIDE DEF g
  <2>5. /\ h.control = g.control
        /\ \A u \in Slot \ {s} : h.address[u] = g.address[u]
        /\ (h.address[s] = g.address[s] \/ h.address[s] = listed[s].address)
    BY <2>1, <2>4 DEF Refused, Register
  <2>6. ASSUME NEW u \in due[t] \cup DOMAIN first(s)
        PROVE  Valid(listed[u]) /\ Carries(h, u, listed[u])
    <3>1. u \in slots /\ u \in Slot /\ Valid(listed[u])
      BY <1>2, <1>5, <2>2, <2>6
    <3>2. CASE u \in DOMAIN first(s)
      <4>1. Carries(g, u, listed[u]) /\ u # s
        BY <2>2, <2>3, <3>1, <3>2
      <4> QED
        BY <2>5, <3>1, <4>1 DEF Carries
    <3>3. CASE u \notin DOMAIN first(s)
      <4>1. Carries(hw[t], u, listed[u])
        BY <1>5, <2>6, <3>3
      <4>2. Carries(g, u, listed[u])
        BY <2>3, <3>1, <3>3, <4>1 DEF Carries
      <4>3. h.address[u] = listed[u].address
        <5>1. g.address[u] = listed[u].address
          BY <4>2 DEF Carries
        <5>2. CASE u = s
          BY <2>5, <5>1, <5>2
        <5>3. CASE u # s
          BY <2>5, <3>1, <5>1, <5>3
        <5> QED
          BY <5>2, <5>3
      <4> QED
        BY <2>5, <3>1, <4>2, <4>3 DEF Carries
    <3> QED
      BY <3>2, <3>3
  <2>7. due[t] \cup DOMAIN first(s) \in SUBSET slots
    BY <1>1, <2>2
  <2>8. due' = [due EXCEPT ![t] = due[t] \cup DOMAIN first(s)]
    BY <1>1, <1>9
  <2> QED
    BY <1>6, <2>1, <2>6, <2>7, <2>8
<1> QED
  BY <1>7, <1>8, <1>9 DEF WaitStop

LEMMA StepCarries == WInv /\ DueCarried /\ [Next]_vars => DueCarried'
<1> SUFFICES ASSUME Control, NEW n, Parts(n), DueCarried, [Next]_vars
             PROVE  DueCarried'
  BY InvParts
<1>1. CASE \E w \in Watch : SetWatchpoint(w) /\ machine' = machine
  BY <1>1, SetWatchpointCarries
<1>2. CASE (\E t \in Thread : WaitStop(t)) /\ machine' = machine
  BY <1>2, WaitStopCarries
<1>3. CASE \/ \E T \in SUBSET recorded : Resume(T) /\ machine' = machine
           \/ \E t \in Thread : /\ StepOver(t) \/ OverStop(t) \/ WaitExit(t)
                                /\ machine' = machine
           \/ WaitFails /\ machine' = machine
           \/ \E t \in Thread : /\ Clone(t) \/ \E e \in {"sigstop", "other"} : StopFor(t, e)
                                /\ machine' = machine
           \/ UNCHANGED vars
  <2>1. UNCHANGED <<machine, listed, hw, due>>
    BY <1>3 DEF Resume, StepOver, OverStop, Collect, WaitExit, WaitFails, Clone, StopFor, vars
  <2> QED
    BY <2>1, ClearCarries
<1>4. CASE (Exec \/ \E t \in Thread : Exit(t)) /\ machine' = machine
  <2>1. UNCHANGED <<machine, listed>>
        /\ \A u \in Thread : (hw'[u] = hw[u] /\ due'[u] = due[u]) \/ due'[u] = {}
    BY <1>4 DEF Exec, Exit, Parts
  <2> QED
    BY <2>1, ClearCarries
<1> QED
  BY <1>1, <1>2, <1>3, <1>4 DEF Next, Step

LEMMA CarriedInvariant == Spec => [](WInv /\ DueCarried)
<1>1. Init => DueCarried
  BY DEF Init, DueCarried
<1>2. (WInv /\ DueCarried) /\ [Next]_vars => (WInv /\ DueCarried)'
  BY StepKeeps, StepCarries
<1> QED
  BY <1>1, <1>2, InitKeeps, PTL DEF Spec

\* A thread that configure_watchpoint returned for watches what the list says, on
\* both machines and after any sequence of watches, clones, refusals and execs.
THEOREM ProgrammedRightAlways == Spec => []ProgrammedRight
<1>1. WInv /\ DueCarried => ProgrammedRight
  <2> SUFFICES ASSUME NEW n, Parts(n), DueCarried, NEW t \in Thread, NEW s \in due[t]
               PROVE  SlotRight(hw[t], s, listed[s])
    BY InvParts DEF ProgrammedRight, SlotRight
  <2>1. s \in Slot /\ listed[s] \in Watch /\ hw[t] \in Register /\ Machine
    <3>1. DOMAIN listed \subseteq Slot /\ listed \in [DOMAIN listed -> Watch]
      BY ListedCount DEF Parts, Taken
    <3> QED
      BY <3>1 DEF Parts
  <2>2. Valid(listed[s]) /\ Carries(hw[t], s, listed[s])
    BY DEF DueCarried
  <2> QED
    BY <2>1, <2>2, X86Right, ArmRight DEF Machine
<1> QED
  BY <1>1, CarriedInvariant, PTL
=============================================================================
