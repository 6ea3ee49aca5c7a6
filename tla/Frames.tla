-------------------------------- MODULE Frames --------------------------------
(***************************************************************************)
(* What cosy makes of the target's stack: finish, which sets a temporary   *)
(* breakpoint at the return address it reads; backtrace and frame; and     *)
(* info locals, which evaluates the location expressions of the variables  *)
(* in scope (src/src/debugger.cpp, src/src/elf_dwarf.cpp).                 *)
(*                                                                         *)
(* The target has one thread (CallStack), so a command waits for its stop; *)
(* threads and failing calls are the subject of Debugger and Breakpoints.  *)
(***************************************************************************)
EXTENDS CallStack, FiniteSets, SequencesExt

CONSTANTS
    BreakAddr,   \* where the user sets breakpoints
    Scopes,      \* [Addr -> sequence of scopes, innermost first, the unit last]; a
                 \* scope is a sequence of variables [name, ops, bytes, half]: its
                 \* location, its size, and whether it is in the upper half of a word
    Bias,        \* [Addr -> Int]: by how much the file of that code is relocated
    Global,      \* the address of a word of data, and what it holds at first
    GlobalValue,
    UserWords,   \* the words and registers the user writes to, and what
    UserRegisters,
    UserValue,
    MaxFrames    \* frames a backtrace lists (64 in the code)

ASSUME FramesAssumption ==
    /\ BreakAddr \subseteq Addr /\ DOMAIN Scopes = Addr /\ Bias \in [Addr -> Int]
    /\ GlobalValue \in Int /\ UserValue \in Int
    /\ Global \notin Addr \cup (0..2) \cup (Low..Top) /\ MaxFrames \in Nat \ {0}

VARIABLES
    phase,    \* prompt; over: stepping over a breakpoint; running; exited;
              \* tampered: the user wrote to the frames themselves, after which the
              \* model does not follow the target
    cmd,      \* the resuming command in progress, or the last one
    bp,       \* breakpoints_: none, off or on at an address
    temp,     \* the temporary ones
    selected, \* selected_frame_
    user,     \* ghost: the addresses of entries that the user's breaks made
    fin,      \* ghost of finish: [depth, ret, sure] when it was given
    global,   \* the word at Global
    written   \* the registers the program leaves alone that the user wrote

debugger == <<phase, cmd, bp, temp, selected, user, fin>>
data == <<global, written>>
vars == <<cpu, data, debugger>>

AtPrompt == phase = "prompt"
NoFinish == [depth |-> 0, ret |-> Libc, sure |-> FALSE]

-----------------------------------------------------------------------------
(* Memory and registers.                                                   *)

Readable(a) == a \in Low..Top \/ a = Global
Word(a) == IF a = Global THEN global ELSE stack[a]

\* A word is two halves of four bytes.
LowerHalf(w) == w % Wide
UpperHalf(w) == (w \div Wide) % Wide

\* read_word of an address: the word, or, at the upper half of one, that half and
\* the lower of the next.
WordReadable(a, half) == Readable(a) /\ (half = 1 => Readable(a + 1))
WordRead(a, half) ==
    IF half = 0 THEN Word(a) ELSE UpperHalf(Word(a)) + Wide * LowerHalf(Word(a + 1))

\* Registers are named by number: 3 is rbx, 6 rbp, 7 rsp and 16 rip; the
\* program leaves the others alone.
DwarfNames == <<"rax", "rdx", "rcx", "rbx", "rsi", "rdi", "rbp", "rsp", "r8", "r9",
                "r10", "r11", "r12", "r13", "r14", "r15", "rip">>
RegisterValue(name) ==
    CASE name = "rbx" -> rbx [] name = "rbp" -> fp [] name = "rsp" -> sp
      [] name = "rip" -> pc
      [] OTHER -> IF name \in written THEN UserValue ELSE 0

KnownRegister(n) == n + 1 \in DOMAIN DwarfNames
DwarfRegister(n) == RegisterValue(DwarfNames[n + 1])

ReturnWord == fp + 1

-----------------------------------------------------------------------------
(* backtrace.                                                              *)

WalkFrom == [frames |-> <<>>, pc |-> pc, fp |-> fp, seen |-> {}, done |-> FALSE]

EndsBelowOnly(w) == w.fp = 0 \/ ~Readable(w.fp + 1) \/ ~Readable(w.fp)
Ends(w) ==
    \/ w.fp = 0 \/ w.fp \in w.seen
    \/ ~Readable(w.fp + 1) \/ ~Readable(w.fp) \/ Word(w.fp) <= w.fp

WalkNext(w) ==
    LET frames == Append(w.frames, [pc |-> w.pc, fp |-> w.fp]) IN
    IF w.done THEN w
    ELSE IF Ends(w) THEN [w EXCEPT !.frames = frames, !.done = TRUE]
    ELSE [frames |-> frames, pc |-> Word(w.fp + 1), fp |-> Word(w.fp),
          seen |-> w.seen \cup {w.fp}, done |-> FALSE]

Walk[n \in 0..MaxFrames] == IF n = 0 THEN WalkFrom ELSE WalkNext(Walk[n - 1])
Backtrace == Walk[MaxFrames].frames

-----------------------------------------------------------------------------
(* Location expressions.  An operation has the operands libdw decodes into *)
(* number and number2; regN and bregN have a register in the atom.         *)

FrameBaseAtFrame == fp
FrameBase == fp + 2

Text(t) == [kind |-> t, value |-> 0]
Supported == {"addr", "reg", "regx", "breg", "bregx", "fbreg", "deref", "plus_uconst", "stack_value"}

\* One operation, on the stack, which of stack_value and register_value are set,
\* and the answer that ends the evaluation early, if any.
State(words, flags, answer) == [stack |-> words, flags |-> flags, answer |-> answer]
Push1(e, v) == State(Append(e.stack, v), e.flags, e.answer)
SetTop(e, v) == State([e.stack EXCEPT ![Len(e.stack)] = v], e.flags, e.answer)
Flag(e, f) == State(e.stack, e.flags \cup {f}, e.answer)
Answer(e, text) == State(e.stack, e.flags, Text(text))

Register(op) == IF op.atom \in {"reg", "breg"} THEN op.atomRegister ELSE op.number
Named(e, n, offset) ==
    IF KnownRegister(n) THEN Push1(e, DwarfRegister(n) + offset)
                        ELSE Answer(e, "<unknown register>")
Operation(e, op) ==
    LET depth == Len(e.stack)
        top == e.stack[depth] IN
    IF e.answer.kind # "" THEN e ELSE
    CASE op.atom = "addr" -> Push1(e, op.number)
      [] op.atom \in {"reg", "regx"} -> Flag(Named(e, Register(op), 0), "register_value")
      [] op.atom \in {"breg", "bregx"} -> Named(e, Register(op), op.number2)
      [] op.atom = "fbreg" -> Push1(e, FrameBase + op.number)
      [] op.atom \in {"deref", "plus_uconst"} /\ depth = 0 -> Answer(e, "<bad DWARF expression>")
      [] op.atom = "deref" /\ depth # 0 ->
            IF Readable(top) THEN Flag(SetTop(e, Word(top)), "register_value")
                             ELSE Answer(e, "throws")
      [] op.atom = "plus_uconst" /\ depth # 0 -> SetTop(e, top + op.number)
      [] op.atom = "stack_value" -> Flag(e, "stack_value")
      [] op.atom \notin Supported -> Answer(e, "<unsupported DWARF expression>")

\* The loop over the operations, and what is made of its result.
Start == State(<<>>, {}, Text(""))
Evaluated(ops) ==
    LET after[n \in 0..Len(ops)] == IF n = 0 THEN Start ELSE Operation(after[n - 1], ops[n])
    IN after[Len(ops)]
\* A whole word is printed, whatever the variable's size.
Value(v) == [kind |-> "value", value |-> v]
Evaluate(variable) ==
    LET e == Evaluated(variable.ops)
        top == Last(e.stack) IN
    IF e.answer.kind # "" THEN e.answer
    ELSE IF e.stack = <<>> THEN Text("<unavailable>")
    ELSE IF e.flags # {} THEN Value(top)
    ELSE IF WordReadable(top, variable.half) THEN Value(WordRead(top, variable.half))
    ELSE Text("throws")

\* DebugFile::locals: of the variables of each name the first, from the innermost
\* scope outwards.
Places(scopes) == UNION {{i} \X DOMAIN scopes[i] : i \in DOMAIN scopes}
Earlier(p, q) == p[1] < q[1] \/ (p[1] = q[1] /\ p[2] < q[2])
Visible(scopes) ==
    LET name(p) == scopes[p[1]][p[2]].name IN
    {scopes[p[1]][p[2]] : p \in {q \in Places(scopes) :
        \A r \in Places(scopes) : Earlier(r, q) => name(r) # name(q)}}

LocalsAvailable == selected = 0

\* info locals, print NAME: nothing if a frame is selected, or if any read fails.
InfoLocals ==
    LET values == {[variable |-> v, value |-> Evaluate(v)] : v \in Visible(Scopes[pc])} IN
    IF LocalsAvailable /\ \A v \in values : v.value.kind # "throws" THEN values ELSE {}

-----------------------------------------------------------------------------
(* Commands.                                                               *)

CreateDisabled(a, temporary) ==
    IF bp[a] # "none" THEN UNCHANGED <<bp, temp>>
    ELSE /\ bp' = [bp EXCEPT ![a] = "off"]
         /\ temp' = IF temporary THEN temp \cup {a} ELSE temp
CreateMarking(a, temporary) ==
    /\ bp' = [bp EXCEPT ![a] = IF @ = "none" THEN "on" ELSE @]
    /\ temp' = IF temporary THEN temp \cup {a} ELSE temp
\* create_breakpoint: an entry that is there stays as it is.
CreateBreakpoint(a, temporary) ==
    IF bp[a] # "none" THEN UNCHANGED <<bp, temp>>
    ELSE /\ bp' = [bp EXCEPT ![a] = "on"]
         /\ temp' = IF temporary THEN temp \cup {a} ELSE temp

Break(a) ==
    /\ AtPrompt /\ a \in BreakAddr
    /\ CreateBreakpoint(a, FALSE)
    /\ user' = IF bp[a] = "none" THEN user \cup {a} ELSE user
    /\ UNCHANGED <<cpu, data, phase, cmd, selected, fin>>

Delete(a) ==
    /\ AtPrompt /\ bp[a] # "none"
    /\ bp' = [bp EXCEPT ![a] = "none"] /\ temp' = temp \ {a} /\ user' = user \ {a}
    /\ UNCHANGED <<cpu, data, phase, cmd, selected, fin>>

EnableDisable(a, state) ==
    /\ AtPrompt /\ bp[a] # "none"
    /\ bp' = [bp EXCEPT ![a] = state]
    /\ UNCHANGED <<cpu, data, phase, cmd, temp, selected, user, fin>>

\* backtrace goes to frame 0, frame N to any number.
SelectFrame(n) ==
    /\ AtPrompt /\ selected' = n
    /\ UNCHANGED <<cpu, data, phase, cmd, bp, temp, user, fin>>

\* set memory, aimed at data: a local of a function that has made its frame, the
\* global, or anything else on the stack.  (Text is the subject of Breakpoints.)
Framed == IF Own(pc) THEN DOMAIN calls ELSE DOMAIN calls \ {Len(calls)}
LocalsOf(k) == (calls[k].cfa - 2 - LocalWords)..(calls[k].cfa - 3)
SetMemory(a) ==
    /\ AtPrompt /\ Readable(a)
    /\ stack' = IF a = Global THEN stack ELSE [stack EXCEPT ![a] = UserValue]
    /\ global' = IF a = Global THEN UserValue ELSE global
    /\ phase' = IF a = Global \/ \E k \in Framed : a \in LocalsOf(k) THEN phase ELSE "tampered"
    /\ UNCHANGED <<pc, fp, sp, rbx, calls, written, cmd, bp, temp, selected, user, fin>>

\* register write: any general register, rip and eflags; the others are refused.
FrameRegisters == {"rbp", "rsp", "rip"}
WritableRegisters == {DwarfNames[i] : i \in DOMAIN DwarfNames} \cup {"eflags"}
RegisterWrite(name) ==
    /\ AtPrompt /\ name \in WritableRegisters
    /\ rbx' = IF name = "rbx" THEN UserValue ELSE rbx
    /\ fp' = IF name = "rbp" THEN UserValue ELSE fp
    /\ sp' = IF name = "rsp" THEN UserValue ELSE sp
    /\ pc' = IF name = "rip" THEN UserValue ELSE pc
    /\ written' = IF name \in FrameRegisters \cup {"rbx"} THEN written ELSE written \cup {name}
    /\ phase' = IF name \in FrameRegisters THEN "tampered" ELSE phase
    /\ UNCHANGED <<stack, calls, global, cmd, bp, temp, selected, user, fin>>

\* continue: the trap at the program counter, if any, is stepped over.
Resumed(c) ==
    /\ cmd' = c
    /\ phase' = IF bp'[pc] = "on" THEN "over" ELSE "running"

Continue ==
    /\ AtPrompt /\ UNCHANGED <<cpu, data, bp, temp, selected, user>>
    /\ Resumed("continue") /\ fin' = NoFinish

\* finish, from anywhere in a function; where the return address cannot be read
\* it says so and nothing happens.
StepOut ==
    /\ AtPrompt /\ Readable(ReturnWord)
    /\ LET ret == Word(ReturnWord) IN
       /\ CreateBreakpoint(ret, TRUE)
       /\ fin' = [depth |-> Len(calls), ret |-> ret, sure |-> Own(pc) /\ bp[ret] # "off"]
    /\ Resumed("finish")
    /\ UNCHANGED <<cpu, data, selected, user>>

-----------------------------------------------------------------------------
(* The target runs, and stops.                                             *)

TargetRuns ==
    /\ \/ phase = "over"
       \/ phase = "running" /\ bp[pc] # "on"
    /\ Instruction
    /\ phase' = "running"
    /\ UNCHANGED <<data, cmd, bp, temp, selected, user, fin>>

TargetExits ==
    /\ phase \in {"over", "running"} /\ Op[pc] = "exit"
    /\ phase = "running" => bp[pc] # "on"
    /\ phase' = "exited"
    /\ UNCHANGED <<cpu, data, cmd, bp, temp, selected, user, fin>>

\* A trap is hit: wait_and_report, and print_stop removes a temporary breakpoint.
Stop ==
    /\ phase = "running" /\ bp[pc] = "on"
    /\ phase' = "prompt"
    /\ IF pc \in temp THEN bp' = [bp EXCEPT ![pc] = "none"] /\ temp' = temp \ {pc}
                      ELSE UNCHANGED <<bp, temp>>
    /\ UNCHANGED <<cpu, data, cmd, selected, user, fin>>

Init ==
    /\ StackInit
    /\ phase = "prompt" /\ cmd = "continue"
    /\ bp = [a \in Addr |-> "none"] /\ temp = {} /\ selected = 0
    /\ user = {} /\ fin = NoFinish
    /\ global = GlobalValue /\ written = {}

Next ==
    \/ \E a \in Addr : Break(a) \/ Delete(a) \/ EnableDisable(a, "on") \/ EnableDisable(a, "off")
    \/ \E n \in 0..1 : SelectFrame(n)
    \/ \E a \in UserWords : SetMemory(a)
    \/ \E name \in UserRegisters : RegisterWrite(name)
    \/ Continue \/ StepOut
    \/ TargetRuns \/ TargetExits \/ Stop

Spec == Init /\ [][Next]_vars

-----------------------------------------------------------------------------
(* Properties.                                                             *)

TypeOK ==
    /\ phase # "tampered" => /\ pc \in Addr /\ fp \in (Low..Top) \cup {0, 1}
                             /\ sp \in Low..(Top + 1)
    /\ DOMAIN stack = Low..Top /\ Len(calls) \in 0..MaxDepth
    /\ phase \in {"prompt", "over", "running", "exited", "tampered"}
    /\ cmd \in {"continue", "finish"}
    /\ bp \in [Addr -> {"none", "off", "on"}] /\ selected \in Nat
    /\ temp \subseteq {a \in Addr : bp[a] # "none"} \ user
    /\ user \subseteq {a \in Addr : bp[a] # "none"}

\* The program counters of the true stack: where the target is, and where each
\* activation will resume.  (That of main returns to code that is not listed.)
Resumes(k) == IF k = 0 THEN pc ELSE calls[Len(calls) - k + 1].ret
Depth == Len(calls)

\* At every stop within a function's body, after any number of calls, returns,
\* finishes and writes to locals, backtrace lists the activations there are,
\* innermost first, as many as it lists at all.
BacktraceRight ==
    AtPrompt /\ Own(pc) =>
        /\ Len(Backtrace) = (IF Depth < MaxFrames THEN Depth ELSE MaxFrames)
        /\ \A k \in DOMAIN Backtrace : Backtrace[k].pc = Resumes(k - 1)

\* What the location expressions mean that gcc gives the variables of unoptimised
\* code, for an activation with that frame address: an offset from it, a
\* register, an address, or a computed one, the last two before relocation.
Usual(ops) ==
    \/ Len(ops) = 1 /\ ops[1].atom \in {"fbreg", "reg", "addr"}
    \/ Last(ops).atom = "stack_value"
OwnBytes(v, w) == IF v.bytes = 8 THEN w ELSE LowerHalf(w)
Stored(v, w) == IF v.half = 0 THEN OwnBytes(v, w) ELSE UpperHalf(w)
Meaning(v, at, cfa) ==
    LET ops == v.ops IN
    IF Last(ops).atom = "stack_value"
    THEN OwnBytes(v, ops[1].number + ops[2].number + Bias[at])
    ELSE CASE ops[1].atom = "fbreg" -> Stored(v, stack[cfa + ops[1].number])
           [] ops[1].atom = "reg" -> OwnBytes(v, rbx)
           [] ops[1].atom = "addr" -> Stored(v, Word(ops[1].number + Bias[at]))

Atoms(ops) == {ops[i].atom : i \in DOMAIN ops}
Relocated(v, at) == "addr" \in Atoms(v.ops) /\ Bias[at] # 0
UsualHere(v, at) == Usual(v.ops) /\ ~Relocated(v, at)

\* The variables of the k-th activation: those of each scope that no inner scope
\* declares again.
TrueLocals(k) ==
    LET scopes == Scopes[Resumes(k)]
        names(i) == {scopes[i][n].name : n \in DOMAIN scopes[i]}
        ofScope(i) == {v \in {scopes[i][n] : n \in DOMAIN scopes[i]} :
                         UsualHere(v, Resumes(k)) /\ \A j \in 1..(i - 1) : v.name \notin names(j)}
    IN {[name |-> v.name, value |-> Meaning(v, Resumes(k), calls[Depth - k].cfa)] :
          v \in UNION {ofScope(i) : i \in DOMAIN scopes}}

\* What info locals prints of such variables, in as many bytes as they have.
UsualLocals ==
    {[name |-> l.variable.name, value |-> OwnBytes(l.variable, l.value.value)] :
       l \in {m \in InfoLocals : UsualHere(m.variable, pc) /\ m.value.kind = "value"}}

\* What info locals prints of the variables with usual locations, among others
\* with locations it does not understand, has in its lower bytes the values in the
\* frame that is selected; and of the innermost frame it prints them all, unless
\* a variable in scope has an address that was relocated, whose read may fail.
LocalsRight ==
    AtPrompt /\ Own(pc) /\ selected < Depth =>
        /\ UsualLocals \subseteq TrueLocals(selected)
        /\ selected = 0 /\ (\A v \in Visible(Scopes[pc]) : ~Relocated(v, pc)) =>
             UsualLocals = TrueLocals(0)

\* What gcc emits for unoptimised code: usual locations are words of the frame, or
\* half of one, rbx, the global or a constant; an unusual one reads nothing, or
\* only such words; of a relocated address nothing is assumed.
InFrame(n) == n \in (-(LocalWords + 2))..(-1)
UsualLocation(v) ==
    LET ops == v.ops IN
    \/ Len(ops) = 1 /\ ops[1].atom = "fbreg" /\ InFrame(ops[1].number)
                    /\ (v.half = 1 => v.bytes = 4 /\ InFrame(ops[1].number + 1))
    \/ Len(ops) = 1 /\ ops[1].atom = "reg" /\ ops[1].atomRegister = 3
    \/ Len(ops) = 1 /\ ops[1].atom = "addr" /\ ops[1].number = Global /\ v.half = 0
    \/ Len(ops) = 3 /\ ops[1].atom = "addr" /\ ops[2].atom = "plus_uconst"
                    /\ ops[3].atom = "stack_value"
UnusualLocation(v) ==
    LET ops == v.ops IN
    \/ "deref" \notin Atoms(ops) /\ ~(Atoms(ops) \subseteq Supported \ {"reg", "regx"})
    \/ Len(ops) = 2 /\ ops[1].atom = "fbreg" /\ InFrame(ops[1].number) /\ ops[2].atom = "deref"
    \/ Len(ops) = 1 /\ ops[1].atom = "breg" /\ ops[1].atomRegister = 6
                    /\ InFrame(ops[1].number2 - 2) /\ v.half = 0
Locations ==
    \A a \in Addr :
        /\ Scopes[a] \in Seq(Seq([name : STRING, bytes : {4, 8}, half : {0, 1},
                                  ops : Seq([atom : STRING, atomRegister : Nat,
                                             number : Int, number2 : Int])]))
        /\ \A i \in DOMAIN Scopes[a] :
             /\ \A m, n \in DOMAIN Scopes[a][i] : Scopes[a][i][m].name = Scopes[a][i][n].name => m = n
             /\ \A n \in DOMAIN Scopes[a][i] :
                  LET v == Scopes[a][i][n] IN
                  v.ops # <<>> /\ (Relocated(v, a) \/ IF Usual(v.ops) THEN UsualLocation(v)
                                                                      ELSE UnusualLocation(v))

\* A finish given in a function's body never lets that activation return without
\* stopping there, whatever stood at the return address or is recursive, unless
\* the user had switched the breakpoint there off.
FinishNeverOvershoots ==
    phase \in {"over", "running"} /\ cmd = "finish" /\ fin.sure =>
        Depth >= fin.depth \/ (Depth = fin.depth - 1 /\ pc = fin.ret)

-----------------------------------------------------------------------------
\* debugger.cpp:681, "finish   run until current function returns": a finish that
\* ends at its return address, and not at a breakpoint of the user's, has left
\* the function it was given in.
FinishStopsInCaller ==
    AtPrompt /\ cmd = "finish" /\ fin.sure /\ pc = fin.ret /\ pc \notin user =>
        Depth = fin.depth - 1

\* src/README.md:43-44, locals "are guaranteed for debug-first binaries": at a stop
\* in a function's body, info locals prints each variable in scope with its value.
LocalsGuaranteed ==
    AtPrompt /\ Own(pc) /\ selected = 0 =>
        \A v \in Visible(Scopes[pc]) : Usual(v.ops) =>
            [variable |-> v, value |-> Value(Meaning(v, pc, calls[Depth].cfa))] \in InfoLocals
=============================================================================
