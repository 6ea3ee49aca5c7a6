------------------------------- MODULE CallStack -------------------------------
(***************************************************************************)
(* One thread of a target as the frame commands of cosy meet it: code that *)
(* gcc compiled for x86-64 without optimisation, its registers and stack.  *)
(* Not part of cosy; modelled from how src/src/debugger.cpp and            *)
(* src/src/elf_dwarf.cpp use it.                                           *)
(*                                                                         *)
(* Memory is counted in words of eight bytes.  A function begins with push *)
(* and frame, which saves the caller's frame pointer below the return      *)
(* address and makes room for locals, and ends with leave and ret.  The    *)
(* ghost `calls' has the activations as they are, whatever the registers   *)
(* say: where each returns to, and its canonical frame address, the word   *)
(* above the return address.                                               *)
(***************************************************************************)
EXTENDS Integers, Sequences

CONSTANTS
    Addr,      \* addresses of instructions
    Op,        \* [Addr -> {"push", "frame", "store", "call", "plain", "leave",
               \*           "ret", "exit"}]
    Succ,      \* [Addr -> SUBSET Addr]: where control goes; after a call, on return
    Callee,    \* the function that a call calls
    Slot,      \* [Addr -> offset]: the word a store writes, from the frame pointer
    Main, Libc, \* where main begins, and where it returns to
    Low, Top,  \* the words of the stack
    LocalWords, \* the words for locals in each frame
    MaxDepth   \* bound: activations

\* The values of half a word: a scaled 2^32.
Wide == 256

ASSUME StackAssumption ==
    /\ Low \in Nat \ 0..2 /\ Top \in Nat /\ LocalWords \in Nat /\ MaxDepth \in Nat \ {0}
    /\ Low + (LocalWords + 2) * MaxDepth <= Top
    /\ Addr \subseteq Nat /\ Addr \cap (Low..Top) = {} /\ 0 \notin Addr /\ {Main, Libc, Callee} \subseteq Addr
ASSUME CodeAssumption ==
    /\ Succ \in [Addr -> SUBSET Addr] /\ DOMAIN Op = Addr /\ DOMAIN Slot = Addr

\* The prologue is over and the epilogue has not begun: the frame pointer is
\* that of the innermost activation.
Own(a) == Op[a] \notin {"push", "frame", "ret", "exit"}

\* The shape gcc gives every function: a prologue, a body that stores to its own
\* locals and to which calls return, an epilogue.
ASSUME ShapeAssumption ==
    /\ Op \in [Addr -> {"push", "frame", "store", "call", "plain", "leave", "ret", "exit"}]
    /\ Op[Main] = "push" /\ Op[Callee] = "push" /\ Op[Libc] = "exit"
    /\ \A a \in Addr : \A next \in Succ[a] :
         /\ Op[a] = "push" => Op[next] = "frame"
         /\ Op[a] \in {"frame", "store", "call", "plain"} => Own(next)
         /\ Op[a] = "leave" => Op[next] = "ret"
    /\ \A a \in Addr : Op[a] = "store" => Slot[a] \in (-LocalWords)..(-1)

VARIABLES
    pc, fp, sp, \* rip, rbp and rsp
    rbx,        \* a register in which the compiler keeps a variable
    stack,      \* [Low..Top -> word]
    calls       \* ghost: the activations [ret, cfa], innermost last

cpu == <<pc, fp, sp, rbx, stack, calls>>

Innermost == calls[Len(calls)]

StackInit ==
    /\ pc = Main /\ fp \in {0, 1} /\ sp = Top /\ rbx = 0
    /\ stack = [w \in Low..Top |-> IF w = Top THEN Libc ELSE 0]
    /\ calls = <<[ret |-> Libc, cfa |-> Top + 1]>>

Goes == pc' \in Succ[pc]

Push ==
    /\ Op[pc] = "push" /\ Goes
    /\ sp' = sp - 1 /\ stack' = [stack EXCEPT ![sp - 1] = fp]
    /\ UNCHANGED <<fp, rbx, calls>>

Frame ==
    /\ Op[pc] = "frame" /\ Goes
    /\ fp' = sp /\ sp' = sp - LocalWords
    /\ UNCHANGED <<rbx, stack, calls>>

\* The function gives the two halves of a word of its locals, and the register,
\* values of this activation.
Store ==
    /\ Op[pc] = "store" /\ Goes
    /\ stack' = [stack EXCEPT ![fp + Slot[pc]] = Len(calls) - Slot[pc] + Wide * Len(calls)]
    /\ rbx' = Len(calls)
    /\ UNCHANGED <<fp, sp, calls>>

Call ==
    /\ Op[pc] = "call" /\ Len(calls) < MaxDepth
    /\ \E ret \in Succ[pc] :
         /\ stack' = [stack EXCEPT ![sp - 1] = ret]
         /\ calls' = Append(calls, [ret |-> ret, cfa |-> sp])
    /\ pc' = Callee /\ sp' = sp - 1
    /\ UNCHANGED <<fp, rbx>>

Plain == Op[pc] = "plain" /\ Goes /\ UNCHANGED <<fp, sp, rbx, stack, calls>>

\* What is left below the stack pointer is forgotten: nothing reads it before it
\* is written again, save a local that was not given a value.
Leave ==
    /\ Op[pc] = "leave" /\ Goes
    /\ fp' = stack[fp] /\ sp' = fp + 1
    /\ stack' = [w \in Low..Top |-> IF w <= fp THEN 0 ELSE stack[w]]
    /\ UNCHANGED <<rbx, calls>>

Ret ==
    /\ Op[pc] = "ret"
    /\ pc' = stack[sp] /\ sp' = sp + 1 /\ stack' = [stack EXCEPT ![sp] = 0]
    /\ calls' = SubSeq(calls, 1, Len(calls) - 1)
    /\ UNCHANGED <<fp, rbx>>

Instruction == Push \/ Frame \/ Store \/ Call \/ Plain \/ Leave \/ Ret
=============================================================================
