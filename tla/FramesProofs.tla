------------------------------ MODULE FramesProofs ------------------------------
(* Proofs about module Frames, for every program whose functions have the     *)
(* shape CallStack assumes: breakpoints of the user's, the stack and what      *)
(* finish and backtrace make of it, and info locals.                           *)
EXTENDS Frames, Induction, SequenceTheorems, TLAPS

\* The inductive invariant: an entry that a user's break made is in the table,
\* and is none of the temporary ones, which their next hit removes; a temporary
\* one at an instruction is in the table too.
TableInv ==
    /\ bp \in [Addr -> {"none", "off", "on"}]
    /\ \A a \in user : bp[a] # "none"
    /\ user \subseteq Addr /\ user \cap temp = {}
    /\ \A a \in temp \cap Addr : bp[a] # "none"

LEMMA CommandKeeps ==
  ASSUME TableInv, NEW a \in Addr,
         Break(a) \/ Delete(a) \/ EnableDisable(a, "on") \/ EnableDisable(a, "off")
  PROVE  TableInv'
<1>1. CASE Break(a)
  BY <1>1 DEF Break, CreateBreakpoint, TableInv
<1>2. CASE Delete(a)
  BY <1>2 DEF Delete, TableInv
<1>3. CASE EnableDisable(a, "on") \/ EnableDisable(a, "off")
  BY <1>3 DEF EnableDisable, TableInv
<1> QED
  BY <1>1, <1>2, <1>3

LEMMA StepKeeps == TableInv /\ [Next]_vars => TableInv'
<1> SUFFICES ASSUME TableInv, [Next]_vars PROVE TableInv'
  OBVIOUS
<1>1. CASE \E a \in Addr :
             Break(a) \/ Delete(a) \/ EnableDisable(a, "on") \/ EnableDisable(a, "off")
  BY <1>1, CommandKeeps
<1>2. CASE StepOut
  BY <1>2 DEF StepOut, CreateBreakpoint, TableInv
<1>3. CASE Stop
  BY <1>3 DEF Stop, TableInv
<1>4. CASE UNCHANGED <<bp, temp, user>>
  BY <1>4 DEF TableInv
<1> QED
  BY <1>1, <1>2, <1>3, <1>4 DEF Next, SelectFrame, SetMemory, RegisterWrite, Continue, TargetRuns,
                                TargetExits, vars, debugger

-----------------------------------------------------------------------------
(* The stack of CallStack, for every program of the shape it assumes.      *)

\* The words of an activation: its return address, the saved frame pointer, its
\* locals.  Cfa(k) is the canonical frame address of the k-th.
FrameWords == LocalWords + 2
Cfa(k) == Top + 1 - FrameWords * (k - 1)

\* The frame pointer of the k-th activation, or of the code that called main.
FramePointers(k) == IF k = 0 THEN {0, 1} ELSE {Cfa(k) - 2}

\* The k-th activation has saved its caller's frame pointer.
Saved(k) == stack[Cfa(k) - 2] \in FramePointers(k - 1)

Activations ==
    /\ calls \in Seq([ret : Addr, cfa : Int]) /\ Len(calls) <= MaxDepth
    /\ stack = [w \in Low..Top |-> stack[w]]
    /\ \A k \in 1..Len(calls) :
         /\ calls[k].cfa = Cfa(k) /\ stack[Cfa(k) - 1] = calls[k].ret
         /\ IF k = 1 THEN calls[k].ret = Libc ELSE Own(calls[k].ret)
         /\ k < Len(calls) => Saved(k)

\* The registers, by how far the innermost function has come.
Registers ==
    /\ pc \in Addr
    /\ calls = <<>> => pc = Libc /\ fp \in {0, 1} /\ sp = Top + 1
    /\ calls # <<>> =>
         LET n == Len(calls) IN
         /\ Op[pc] # "exit"
         /\ Op[pc] \in {"push", "ret"} => sp = Cfa(n) - 1 /\ fp \in FramePointers(n - 1)
         /\ Op[pc] = "frame" => sp = Cfa(n) - 2 /\ fp \in FramePointers(n - 1) /\ Saved(n)
         /\ Own(pc) => fp = Cfa(n) - 2 /\ sp = fp - LocalWords /\ Saved(n)

StackInv == Activations /\ Registers

\* Where the target has not returned from main there is an activation.
LEMMA Active ==
  ASSUME StackInv, Op[pc] # "exit"
  PROVE  calls # <<>> /\ Len(calls) \in 1..Len(calls) /\ Len(calls) \in Nat /\ Len(calls) \in 1..MaxDepth
         /\ pc \in Addr
<1>1. calls # <<>> /\ pc \in Addr
  BY ShapeAssumption DEF StackInv, Registers
<1>2. calls \in Seq([ret : Addr, cfa : Int])
  BY DEF StackInv, Activations
<1>3. Len(calls) \in Nat /\ Len(calls) # 0
  BY <1>1, <1>2
<1>4. MaxDepth \in Nat /\ Len(calls) <= MaxDepth
  BY StackAssumption DEF StackInv, Activations
<1> QED
  BY <1>1, <1>3, <1>4

\* Frames follow each other downwards and all lie in the stack.
LEMMA CfaFacts ==
  /\ Cfa(1) = Top + 1
  /\ \A k \in 1..MaxDepth : Cfa(k) \in Int /\ Cfa(k) <= Top + 1 /\ Low + FrameWords < Cfa(k)
  /\ \A k \in 1..MaxDepth : Cfa(k + 1) = Cfa(k) - FrameWords
  /\ \A j, k \in 1..MaxDepth : j < k => Cfa(k) <= Cfa(j) - FrameWords
<1> USE StackAssumption DEF Cfa, FrameWords
<1>1. Cfa(1) = Top + 1
  OBVIOUS
<1>2. ASSUME NEW i \in Nat, NEW j \in Nat, i <= j
      PROVE  FrameWords * i \in Int /\ FrameWords * i <= FrameWords * j
  <2>1. FrameWords * (j - i) >= 0 /\ FrameWords * (j - i) = FrameWords * j - FrameWords * i
    BY <1>2
  <2> QED
    BY <2>1
<1>3. ASSUME NEW k \in 1..MaxDepth
      PROVE  /\ Cfa(k) \in Int /\ Cfa(k) <= Top + 1 /\ Low + FrameWords < Cfa(k)
             /\ Cfa(k + 1) = Cfa(k) - FrameWords
  <2>1. FrameWords * k = FrameWords * (k - 1) + FrameWords
    OBVIOUS
  <2>2. FrameWords * 0 <= FrameWords * (k - 1) /\ FrameWords * k <= FrameWords * MaxDepth
    BY <1>2
  <2> QED
    BY <2>1, <2>2
<1>4. ASSUME NEW j \in 1..MaxDepth, NEW k \in 1..MaxDepth, j < k
      PROVE  Cfa(k) <= Cfa(j) - FrameWords
  <2>1. FrameWords * j = FrameWords * (j - 1) + FrameWords
    OBVIOUS
  <2>2. FrameWords * j <= FrameWords * (k - 1)
    BY <1>2, <1>4
  <2> QED
    BY <2>1, <2>2
<1> QED
  BY <1>1, <1>3, <1>4

\* The words of a frame that the frames below do not touch.
LEMMA FrameWord ==
  ASSUME StackInv, NEW k \in 1..Len(calls)
  PROVE  /\ Len(calls) \in 1..MaxDepth /\ k \in 1..MaxDepth
         /\ Cfa(k) \in Int /\ Cfa(Len(calls)) \in Int
         /\ Cfa(k) - 1 \in Low..Top /\ Cfa(k) - 2 \in Low..Top
         /\ Cfa(Len(calls)) <= Cfa(k)
         /\ k < Len(calls) => Cfa(Len(calls)) <= Cfa(k) - 2
<1>1. Len(calls) \in Nat /\ Len(calls) <= MaxDepth /\ MaxDepth \in Nat
  BY StackAssumption DEF StackInv, Activations
<1>2. Len(calls) \in 1..MaxDepth /\ k \in 1..MaxDepth
  BY <1>1
<1>3. FrameWords \in Nat /\ FrameWords >= 2 /\ Low \in Nat /\ Top \in Nat
  BY StackAssumption DEF FrameWords
<1>4. /\ Cfa(k) \in Int /\ Cfa(Len(calls)) \in Int
      /\ Cfa(k) <= Top + 1 /\ Low + FrameWords < Cfa(k)
  BY <1>2, CfaFacts
<1>5. k < Len(calls) => Cfa(Len(calls)) <= Cfa(k) - FrameWords
  BY <1>2, CfaFacts
<1>6. k = Len(calls) \/ k < Len(calls)
  BY <1>1
<1> QED
  BY <1>2, <1>3, <1>4, <1>5, <1>6

\* A write to the stack.
LEMMA Written ==
  ASSUME Activations, NEW a, NEW v, stack' = [stack EXCEPT ![a] = v]
  PROVE  /\ stack' = [w \in Low..Top |-> stack'[w]]
         /\ \A w \in Low..Top : stack'[w] = IF w = a THEN v ELSE stack[w]
  BY DEF Activations

\* A step that changes no activation and nothing of the frames above keeps them.
LEMMA ActivationsKept ==
  ASSUME StackInv, calls' = calls, stack' = [w \in Low..Top |-> stack'[w]],
         \A w \in Low..Top : Cfa(Len(calls)) - 1 <= w => stack'[w] = stack[w]
  PROVE  Activations'
<1>1. ASSUME NEW k \in 1..Len(calls)
      PROVE  /\ stack'[Cfa(k) - 1] = stack[Cfa(k) - 1]
             /\ k < Len(calls) => stack'[Cfa(k) - 2] = stack[Cfa(k) - 2]
  BY FrameWord
<1> QED
  BY <1>1 DEF StackInv, Activations, Saved

LEMMA PushStep ==
  ASSUME StackInv, Push
  PROVE  StackInv'
<1> DEFINE n == Len(calls)
<1>1. calls # <<>> /\ n \in 1..n /\ n \in 1..MaxDepth
  BY Active DEF Push
<1>2. /\ pc \in Addr /\ pc' \in Addr /\ Op[pc'] = "frame" /\ sp = Cfa(n) - 1
      /\ fp \in FramePointers(n - 1)
  BY <1>1, ShapeAssumption, CodeAssumption DEF StackInv, Registers, Push, Goes
<1>3. Cfa(n) \in Int /\ Cfa(n) - 2 \in Low..Top
  BY <1>1, FrameWord
<1>4. sp - 1 = Cfa(n) - 2
  BY <1>2, <1>3
<1>5. /\ sp' = Cfa(n) - 2 /\ fp' = fp /\ calls' = calls
      /\ stack' = [w \in Low..Top |-> stack'[w]] /\ stack'[Cfa(n) - 2] = fp
      /\ \A w \in Low..Top : Cfa(n) - 1 <= w => stack'[w] = stack[w]
  <2>1. /\ stack' = [w \in Low..Top |-> stack'[w]]
        /\ \A w \in Low..Top : stack'[w] = IF w = Cfa(n) - 2 THEN fp ELSE stack[w]
    BY <1>4, Written DEF StackInv, Push
  <2> QED
    BY <1>3, <1>4, <2>1 DEF Push
<1>6. Activations'
  BY <1>5, ActivationsKept
<1>7. Registers'
  BY <1>1, <1>2, <1>3, <1>5 DEF Registers, Saved, Own
<1> QED
  BY <1>6, <1>7 DEF StackInv

LEMMA FrameStep ==
  ASSUME StackInv, Frame
  PROVE  StackInv'
<1> DEFINE n == Len(calls)
<1>1. calls # <<>> /\ n \in 1..n
  BY Active DEF Frame
<1>2. /\ pc \in Addr /\ pc' \in Addr /\ Own(pc') /\ sp = Cfa(n) - 2 /\ Saved(n)
  BY <1>1, ShapeAssumption, CodeAssumption DEF StackInv, Registers, Frame, Goes
<1>3. fp' = Cfa(n) - 2 /\ sp' = fp' - LocalWords /\ calls' = calls /\ stack' = stack
  BY <1>2 DEF Frame
<1>4. Activations'
  BY <1>3 DEF StackInv, Activations, Saved
<1>5. Registers'
  BY <1>1, <1>2, <1>3 DEF Registers, Saved, Own
<1> QED
  BY <1>4, <1>5 DEF StackInv

\* In the body, a step that goes on in the body and writes below the frame.
LEMMA BodyStep ==
  ASSUME StackInv, Own(pc), pc' \in Addr, Own(pc'), UNCHANGED <<fp, sp, calls>>,
         stack' = [w \in Low..Top |-> stack'[w]],
         \A w \in Low..Top : fp <= w => stack'[w] = stack[w]
  PROVE  StackInv'
<1> DEFINE n == Len(calls)
<1>1. calls # <<>> /\ n \in 1..n
  BY Active DEF Own
<1>2. fp = Cfa(n) - 2 /\ sp = fp - LocalWords /\ Saved(n)
  BY <1>1 DEF StackInv, Registers
<1>3. Cfa(n) \in Int /\ Cfa(n) - 2 \in Low..Top
  BY <1>1, FrameWord
<1>4. Activations'
  BY <1>2, <1>3, ActivationsKept
<1>5. Registers'
  BY <1>1, <1>2, <1>3 DEF Registers, Saved, Own
<1> QED
  BY <1>4, <1>5 DEF StackInv

LEMMA StoreStep ==
  ASSUME StackInv, Store \/ Plain
  PROVE  StackInv'
<1>1. Own(pc) /\ pc \in Addr /\ pc' \in Addr /\ Own(pc') /\ UNCHANGED <<fp, sp, calls>>
  <2>1. pc \in Addr
    BY DEF StackInv, Registers
  <2>2. pc' \in Succ[pc] /\ Op[pc] \in {"store", "plain"} /\ UNCHANGED <<fp, sp, calls>>
    BY DEF Store, Plain, Goes
  <2> QED
    BY <2>1, <2>2, ShapeAssumption, CodeAssumption DEF Own
<1>2. stack = [w \in Low..Top |-> stack[w]]
  BY DEF StackInv, Activations
<1>3. CASE Plain
  BY <1>1, <1>2, <1>3, BodyStep DEF Plain
<1>4. CASE Store
  <2>1. Slot[pc] \in (-LocalWords)..(-1) /\ LocalWords \in Nat
    BY <1>1, <1>4, ShapeAssumption, StackAssumption DEF Store
  <2>2. fp \in Int
    <3>1. calls # <<>> /\ Len(calls) \in 1..Len(calls)
      BY <1>1, Active DEF Own
    <3> QED
      BY <1>1, <3>1, FrameWord DEF StackInv, Registers
  <2>3. stack' = [stack EXCEPT ![fp + Slot[pc]] = Len(calls) - Slot[pc] + Wide * Len(calls)]
    BY <1>4 DEF Store
  <2>4. \A w \in Low..Top : fp <= w => stack'[w] = stack[w]
    BY <2>1, <2>2, <2>3, Written DEF StackInv
  <2>5. stack' = [w \in Low..Top |-> stack'[w]]
    BY <2>3, Written DEF StackInv
  <2> QED
    BY <1>1, <2>4, <2>5, BodyStep
<1> QED
  BY <1>3, <1>4

\* A call adds an activation, whose frame begins where its caller's ends.
LEMMA CallStep ==
  ASSUME StackInv, Call
  PROVE  StackInv'
<1> DEFINE n == Len(calls)
<1>1. calls # <<>> /\ n \in 1..n /\ n \in Nat /\ pc \in Addr
  BY Active DEF Call
<1>2. fp = Cfa(n) - 2 /\ sp = fp - LocalWords /\ Saved(n) /\ n < MaxDepth
  BY <1>1 DEF StackInv, Registers, Call, Own
<1>3. n \in 1..MaxDepth /\ n + 1 \in 1..MaxDepth
  BY <1>1, <1>2, StackAssumption
<1>4. /\ Cfa(n) \in Int /\ Cfa(n + 1) = Cfa(n) - FrameWords /\ Cfa(n + 1) \in Int
      /\ Low + FrameWords < Cfa(n + 1) /\ Cfa(n + 1) <= Top + 1
  BY <1>3, CfaFacts
<1>5. sp = Cfa(n + 1) /\ FrameWords \in Nat /\ FrameWords >= 2 /\ Low \in Nat /\ Top \in Nat
  BY <1>2, <1>4, StackAssumption DEF FrameWords
<1>6. PICK ret \in Succ[pc] :
        /\ stack' = [stack EXCEPT ![sp - 1] = ret]
        /\ calls' = Append(calls, [ret |-> ret, cfa |-> sp])
  BY DEF Call
<1>7. ret \in Addr /\ Own(ret)
  BY <1>1, ShapeAssumption, CodeAssumption DEF Call
<1>8. /\ calls' \in Seq([ret : Addr, cfa : Int]) /\ Len(calls') = n + 1
      /\ calls'[n + 1].ret = ret /\ calls'[n + 1].cfa = Cfa(n + 1)
      /\ \A k \in 1..n : calls'[k] = calls[k]
  BY <1>4, <1>5, <1>6, <1>7 DEF StackInv, Activations
<1>9. /\ stack' = [w \in Low..Top |-> stack'[w]]
      /\ \A w \in Low..Top : stack'[w] = IF w = sp - 1 THEN ret ELSE stack[w]
  BY <1>6, Written DEF StackInv
<1>10. stack'[Cfa(n + 1) - 1] = ret
  BY <1>4, <1>5, <1>9
<1>11. ASSUME NEW k \in 1..n
       PROVE  /\ stack'[Cfa(k) - 1] = stack[Cfa(k) - 1]
              /\ stack'[Cfa(k) - 2] = stack[Cfa(k) - 2]
  <2>1. Cfa(k) - 1 \in Low..Top /\ Cfa(k) - 2 \in Low..Top /\ Cfa(n) <= Cfa(k) /\ Cfa(k) \in Int
    BY FrameWord
  <2>2. Cfa(k) - 1 # sp - 1 /\ Cfa(k) - 2 # sp - 1
    <3>1. sp \in Int /\ sp = Cfa(n) - FrameWords /\ Cfa(n) \in Int
      BY <1>4, <1>5
    <3> HIDE DEF n
    <3> QED
      BY <1>5, <2>1, <3>1
  <2> QED
    BY <1>9, <2>1, <2>2
<1>12. Activations'
  <2>1. Len(calls') <= MaxDepth
    BY <1>3, <1>8
  <2>2. ASSUME NEW k \in 1..n
        PROVE  /\ calls'[k].cfa = Cfa(k) /\ stack'[Cfa(k) - 1] = calls'[k].ret
               /\ IF k = 1 THEN calls'[k].ret = Libc ELSE Own(calls'[k].ret)
               /\ Saved(k)'
    <3>1. Saved(k)
      <4>1. k = n \/ k < n
        BY <1>1
      <4> QED
        BY <1>2, <4>1 DEF StackInv, Activations
    <3> QED
      BY <1>8, <1>11, <3>1 DEF StackInv, Activations, Saved
  <2>3. \A k \in 1..Len(calls') : k \in 1..n \/ k = n + 1
    BY <1>1, <1>8
  <2>4. n + 1 # 1 /\ ~(n + 1 < Len(calls'))
    BY <1>1, <1>8
  <2> QED
    BY <1>7, <1>8, <1>9, <1>10, <2>1, <2>2, <2>3, <2>4 DEF Activations
<1>13. Registers'
  <2>1. pc' = Callee /\ Op[pc'] = "push" /\ pc' \in Addr /\ sp' = sp - 1 /\ fp' = fp
    BY ShapeAssumption, StackAssumption DEF Call
  <2>2. n + 1 - 1 = n /\ n # 0
    BY <1>1
  <2>3. calls' # <<>>
    BY <1>1, <1>8
  <2> QED
    BY <1>2, <1>5, <1>8, <2>1, <2>2, <2>3 DEF Registers, FramePointers, Own
<1> QED
  BY <1>12, <1>13 DEF StackInv

\* leave takes the frame down and gives the caller its frame pointer back.
LEMMA LeaveStep ==
  ASSUME StackInv, Leave
  PROVE  StackInv'
<1> DEFINE n == Len(calls)
<1>1. calls # <<>> /\ n \in 1..n /\ pc \in Addr
  BY Active DEF Leave
<1>2. fp = Cfa(n) - 2 /\ Saved(n)
  BY <1>1 DEF StackInv, Registers, Leave, Own
<1>3. pc' \in Addr /\ Op[pc'] = "ret"
  BY <1>1, ShapeAssumption, CodeAssumption DEF Leave, Goes
<1>4. Cfa(n) \in Int /\ Cfa(n) - 2 \in Low..Top
  BY <1>1, FrameWord
<1>5. sp' = Cfa(n) - 1 /\ fp' \in FramePointers(n - 1) /\ calls' = calls
  BY <1>2, <1>4 DEF Leave, Saved
<1>6. /\ stack' = [w \in Low..Top |-> stack'[w]]
      /\ \A w \in Low..Top : Cfa(n) - 1 <= w => stack'[w] = stack[w]
  BY <1>2, <1>4 DEF Leave
<1>7. Activations'
  BY <1>5, <1>6, ActivationsKept
<1>8. Registers'
  BY <1>1, <1>3, <1>5 DEF Registers, Own
<1> QED
  BY <1>7, <1>8 DEF StackInv

\* ret goes to the return address of the innermost activation, into its caller's body.
LEMMA Returns ==
  ASSUME StackInv, Ret
  PROVE  /\ calls # <<>> /\ Len(calls) \in 1..Len(calls) /\ Len(calls) \in Nat
         /\ sp = Cfa(Len(calls)) - 1 /\ fp \in FramePointers(Len(calls) - 1)
         /\ pc' = calls[Len(calls)].ret
         /\ calls' \in Seq([ret : Addr, cfa : Int]) /\ Len(calls') = Len(calls) - 1
         /\ \A k \in 1..(Len(calls) - 1) : calls'[k] = calls[k]
<1>1. calls # <<>> /\ Len(calls) \in 1..Len(calls) /\ Len(calls) \in Nat
  BY Active DEF Ret
<1>2. sp = Cfa(Len(calls)) - 1 /\ fp \in FramePointers(Len(calls) - 1)
  BY <1>1 DEF StackInv, Registers, Ret
<1>3. pc' = calls[Len(calls)].ret
  BY <1>1, <1>2 DEF StackInv, Activations, Ret
<1>4. /\ calls' \in Seq([ret : Addr, cfa : Int]) /\ Len(calls') = Len(calls) - 1
      /\ \A k \in 1..(Len(calls) - 1) : calls'[k] = calls[k]
  <2>1. calls' = SubSeq(calls, 1, Len(calls) - 1) /\ 1 \in Int /\ Len(calls) - 1 \in Int
    BY <1>1 DEF Ret
  <2>2. \A i \in 1..(Len(calls) - 1) : calls[i] \in [ret : Addr, cfa : Int]
    <3>1. \A i \in 1..(Len(calls) - 1) : i \in 1..Len(calls)
      BY <1>1
    <3> QED
      BY <3>1, ElementOfSeq DEF StackInv, Activations
  <2>3. /\ SubSeq(calls, 1, Len(calls) - 1) \in Seq([ret : Addr, cfa : Int])
        /\ Len(SubSeq(calls, 1, Len(calls) - 1))
             = IF 1 <= Len(calls) - 1 THEN (Len(calls) - 1) - 1 + 1 ELSE 0
        /\ \A i \in 1..((Len(calls) - 1) - 1 + 1) :
             SubSeq(calls, 1, Len(calls) - 1)[i] = calls[1 + i - 1]
    BY <2>1, <2>2, SubSeqProperties
  <2>4. \A n \in Nat \ {0} : (n - 1) - 1 + 1 = n - 1 /\ (1 <= n - 1 \/ n - 1 = 0)
    OBVIOUS
  <2>5. \A i \in 1..(Len(calls) - 1) : 1 + i - 1 = i
    BY <1>1
  <2>6. Len(calls) \in Nat \ {0}
    BY <1>1
  <2> QED
    BY <2>1, <2>3, <2>4, <2>5, <2>6
<1> QED
  BY <1>1, <1>2, <1>3, <1>4

LEMMA RetStep ==
  ASSUME StackInv, Ret
  PROVE  StackInv'
<1> DEFINE n == Len(calls)
           m == Len(calls')
<1>1. /\ calls # <<>> /\ n \in 1..n /\ n \in Nat /\ m = n - 1 /\ \A k \in 1..m : calls'[k] = calls[k]
      /\ sp = Cfa(n) - 1 /\ fp \in FramePointers(m) /\ pc' = calls[n].ret
      /\ calls' \in Seq([ret : Addr, cfa : Int])
  BY Returns
<1>2. fp' = fp /\ sp' = sp + 1 /\ stack' = [stack EXCEPT ![sp] = 0]
  BY DEF Ret
<1>3. m <= MaxDepth
  BY <1>1, StackAssumption DEF StackInv, Activations
<1>4. Cfa(n) \in Int /\ n \in 1..MaxDepth
  BY <1>1, FrameWord
<1>5. /\ stack' = [w \in Low..Top |-> stack'[w]]
      /\ \A w \in Low..Top : w # Cfa(n) - 1 => stack'[w] = stack[w]
  BY <1>1, <1>2, Written DEF StackInv
<1>6. ASSUME NEW k \in 1..m
      PROVE  /\ stack'[Cfa(k) - 1] = stack[Cfa(k) - 1] /\ stack'[Cfa(k) - 2] = stack[Cfa(k) - 2]
             /\ Saved(k)
  <2>1. k \in 1..n /\ k < n
    BY <1>1
  <2>2. Cfa(k) - 1 \in Low..Top /\ Cfa(k) - 2 \in Low..Top /\ Cfa(n) <= Cfa(k) - 2 /\ Cfa(k) \in Int
    BY <2>1, FrameWord
  <2>3. Cfa(k) - 1 # Cfa(n) - 1 /\ Cfa(k) - 2 # Cfa(n) - 1
    BY <1>4, <2>2
  <2>4. Saved(k)
    BY <2>1 DEF StackInv, Activations
  <2> QED
    BY <1>5, <2>2, <2>3, <2>4
<1>7. Activations'
  <2>1. \A k \in 1..m : k \in 1..n
    BY <1>1
  <2> QED
    BY <1>1, <1>3, <1>5, <1>6, <2>1 DEF StackInv, Activations, Saved
<1>8. CASE m = 0
  <2>1. calls' = <<>> /\ n = 1
    BY <1>1, <1>3, <1>8
  <2>2. pc' = Libc /\ pc' \in Addr
    BY <1>1, <2>1, StackAssumption DEF StackInv, Activations
  <2>3. fp' \in {0, 1} /\ sp' = Top + 1
    BY <1>1, <1>2, <1>4, <1>8, <2>1, CfaFacts DEF FramePointers
  <2> QED
    BY <1>7, <2>1, <2>2, <2>3 DEF StackInv, Registers
<1>9. CASE m # 0
  <2>1. n # 1 /\ m \in 1..m /\ calls' # <<>> /\ m \in 1..MaxDepth /\ m + 1 = n
    BY <1>1, <1>3, <1>4, <1>9, StackAssumption
  <2>2. Own(pc') /\ pc' \in Addr
    <3>1. calls[n] \in [ret : Addr, cfa : Int]
      BY <1>1, ElementOfSeq DEF StackInv, Activations
    <3>2. calls[n].ret \in Addr /\ Own(calls[n].ret)
      BY <1>1, <2>1, <3>1 DEF StackInv, Activations
    <3> QED
      BY <1>1, <3>2 DEF Own
  <2>3. fp = Cfa(m) - 2
    BY <1>1, <1>9 DEF FramePointers
  <2>4. Cfa(n) = Cfa(m) - FrameWords /\ Cfa(m) \in Int
    BY <2>1, CfaFacts
  <2>5. sp' = fp' - LocalWords
    <3>1. sp' = Cfa(n) - 1 + 1
      BY <1>1, <1>2
    <3>2. fp' = Cfa(m) - 2
      BY <1>2, <2>3
    <3> QED
      BY <1>4, <2>4, <3>1, <3>2, StackAssumption DEF FrameWords
  <2>6. stack'[Cfa(m) - 2] \in FramePointers(m - 1)
    BY <1>6, <2>1 DEF Saved
  <2> QED
    BY <1>2, <1>7, <2>1, <2>2, <2>3, <2>5, <2>6 DEF StackInv, Registers, Saved, Own
<1> QED
  BY <1>8, <1>9

LEMMA StackStart == StackInit => StackInv
<1> SUFFICES ASSUME StackInit PROVE StackInv
  OBVIOUS
<1> USE StackAssumption, ShapeAssumption DEF StackInit
<1>1. calls = <<[ret |-> Libc, cfa |-> Top + 1]>> /\ Len(calls) = 1 /\ calls # <<>>
  OBVIOUS
<1>2. 1 \in 1..MaxDepth /\ Cfa(1) = Top + 1 /\ Top \in Low..Top /\ Top + 1 - 1 = Top
  <2>1. Low + FrameWords < Top + 1 /\ FrameWords \in Nat
    BY CfaFacts DEF FrameWords
  <2> QED
    BY <2>1, CfaFacts
<1>3. Activations
  BY <1>1, <1>2 DEF Activations
<1>4. Registers
  BY <1>1, <1>2 DEF Registers, FramePointers, Own
<1> QED
  BY <1>3, <1>4 DEF StackInv

\* Whatever the program does, the registers and the return addresses stay where the
\* shape of its code puts them.
LEMMA InstructionKeeps ==
  ASSUME StackInv, Instruction
  PROVE  StackInv'
  BY PushStep, FrameStep, StoreStep, CallStep, LeaveStep, RetStep DEF Instruction

-----------------------------------------------------------------------------
(* What cosy reads of the stack.                                           *)

\* The frame pointer always belongs to an activation, or to the code before main.
LEMMA FramePointerOf ==
  ASSUME StackInv
  PROVE  fp \in {0, 1} \/ \E k \in 1..Len(calls) : fp = Cfa(k) - 2
<1> DEFINE n == Len(calls)
<1>1. ASSUME n \in 1..n, fp \in FramePointers(n - 1)
      PROVE  fp \in {0, 1} \/ \E k \in 1..n : fp = Cfa(k) - 2
  <2>1. n \in Nat
    BY DEF StackInv, Activations
  <2> HIDE DEF n
  <2>2. n - 1 = 0 \/ n - 1 \in 1..n
    BY <1>1, <2>1
  <2> QED
    BY <1>1, <2>2 DEF FramePointers
<1>2. calls = <<>> \/ n \in 1..n
  BY DEF StackInv, Activations
<1>3. calls = <<>> => fp \in {0, 1}
  BY DEF StackInv, Registers
<1>4. ASSUME n \in 1..n, calls # <<>>
      PROVE  fp \in FramePointers(n - 1) \/ fp = Cfa(n) - 2
  BY <1>4 DEF StackInv, Registers, Own
<1>5. n \in 1..n /\ calls # <<>> => fp \in {0, 1} \/ \E k \in 1..n : fp = Cfa(k) - 2
  BY <1>1, <1>4
<1> QED
  BY <1>2, <1>3, <1>5

LEMMA StackTypes ==
  ASSUME StackInv
  PROVE  /\ pc \in Addr /\ fp \in (Low..Top) \cup {0, 1} /\ sp \in Low..(Top + 1)
         /\ DOMAIN stack = Low..Top /\ Len(calls) \in 0..MaxDepth
<1> DEFINE n == Len(calls)
<1>1. pc \in Addr /\ DOMAIN stack = Low..Top /\ n \in 0..MaxDepth
  BY StackAssumption DEF StackInv, Activations, Registers
<1>2. fp \in (Low..Top) \cup {0, 1}
  BY FramePointerOf, FrameWord
<1>3. calls = <<>> => sp \in Low..(Top + 1)
  <2>1. Low + FrameWords < Top + 1 /\ FrameWords \in Nat
    BY CfaFacts, StackAssumption DEF FrameWords
  <2> QED
    BY <2>1, StackAssumption DEF StackInv, Registers
<1>4. ASSUME calls # <<>>
      PROVE  sp \in Low..(Top + 1)
  <2>1. n \in 1..n /\ n \in 1..MaxDepth
    BY <1>1, <1>4 DEF StackInv, Activations
  <2>2. Cfa(n) \in Int /\ Low + FrameWords < Cfa(n) /\ Cfa(n) <= Top + 1
    BY <2>1, CfaFacts
  <2>3. sp = Cfa(n) - 1 \/ sp = Cfa(n) - 2 \/ sp = Cfa(n) - 2 - LocalWords
    BY <1>4 DEF StackInv, Registers, Own
  <2> QED
    BY <2>2, <2>3, StackAssumption DEF FrameWords
<1> QED
  BY <1>1, <1>2, <1>3, <1>4

\* Both words of a frame are there, and say what is true.
LEMMA FrameRead ==
  ASSUME StackInv, NEW k \in 1..Len(calls)
  PROVE  /\ Cfa(k) - 2 \in Int /\ Cfa(k) - 2 > 1 /\ Cfa(k) - 2 + 1 = Cfa(k) - 1
         /\ Readable(Cfa(k) - 2) /\ Readable(Cfa(k) - 1)
         /\ Word(Cfa(k) - 1) = calls[k].ret /\ calls[k].ret \in Addr
         /\ Word(Cfa(k) - 2) = stack[Cfa(k) - 2]
<1>1. Cfa(k) \in Int /\ Cfa(k) - 1 \in Low..Top /\ Cfa(k) - 2 \in Low..Top
  BY FrameWord
<1>2. calls[k] \in [ret : Addr, cfa : Int]
  BY ElementOfSeq DEF StackInv, Activations
<1>3. stack[Cfa(k) - 1] = calls[k].ret
  BY DEF StackInv, Activations
<1>4. Cfa(k) - 2 > 1 /\ Cfa(k) - 2 + 1 = Cfa(k) - 1
  BY <1>1, StackAssumption
<1> QED
  BY <1>1, <1>2, <1>3, <1>4, FramesAssumption DEF Readable, Word

\* finish reads the return address of some activation, in a body the innermost's.
LEMMA ReturnRead ==
  ASSUME StackInv, Readable(ReturnWord)
  PROVE  /\ Word(ReturnWord) \in Addr
         /\ Own(pc) => /\ Len(calls) \in 1..Len(calls)
                       /\ Word(ReturnWord) = calls[Len(calls)].ret
<1>1. ~Readable(1) /\ ~Readable(2)
  BY StackAssumption, FramesAssumption DEF Readable
<1>2. fp # 0 /\ fp # 1
  BY <1>1 DEF ReturnWord
<1>3. PICK k \in 1..Len(calls) : fp = Cfa(k) - 2
  BY <1>2, FramePointerOf
<1>4. ReturnWord = Cfa(k) - 1
  BY <1>3, FrameRead DEF ReturnWord
<1>5. Own(pc) => Len(calls) \in 1..Len(calls) /\ fp = Cfa(Len(calls)) - 2
  BY ShapeAssumption, StackAssumption DEF StackInv, Activations, Registers, Own
<1>6. Own(pc) => ReturnWord = Cfa(Len(calls)) - 1
  BY <1>5, FrameRead DEF ReturnWord
<1> QED
  BY <1>4, <1>5, <1>6, FrameRead

-----------------------------------------------------------------------------
(* finish, and types.                                                      *)

\* A finish in progress has its trap in place, at the return address of its
\* activation, until the target is there.
FinishInv ==
    phase \in {"over", "running"} /\ cmd = "finish" /\ fin.sure =>
        /\ bp[fin.ret] = "on" /\ fin.depth \in Nat \ {0}
        /\ \/ Depth >= fin.depth /\ calls[fin.depth].ret = fin.ret
           \/ phase = "running" /\ Depth = fin.depth - 1 /\ pc = fin.ret

ControlType ==
    /\ phase \in {"prompt", "over", "running", "exited", "tampered"}
    /\ cmd \in {"continue", "finish"}
    /\ selected \in Nat /\ temp \subseteq Addr

\* Until the user writes to the frames themselves the stack is as the code left it.
Shaped ==
    /\ phase # "tampered" => StackInv
    /\ DOMAIN stack = Low..Top /\ Len(calls) \in 0..MaxDepth

FramesInv == Shaped /\ TableInv /\ ControlType /\ FinishInv

LEMMA CommandStep ==
  ASSUME FramesInv, StackInv,
         \/ \E a \in Addr :
              Break(a) \/ Delete(a) \/ EnableDisable(a, "on") \/ EnableDisable(a, "off")
         \/ \E n \in 0..1 : SelectFrame(n)
         \/ Continue
  PROVE  StackInv' /\ ControlType' /\ FinishInv'
<1> USE DEF FramesInv
<1>1. UNCHANGED cpu
  BY DEF Break, Delete, EnableDisable, SelectFrame, Continue
<1>2. StackInv'
  BY <1>1 DEF cpu, StackInv, Activations, Registers, Saved
<1>3. ControlType'
  BY DEF Break, CreateBreakpoint, Delete, EnableDisable, SelectFrame, Continue, Resumed, ControlType,
         AtPrompt
<1>4. FinishInv'
  BY DEF Break, Delete, EnableDisable, SelectFrame, Continue, Resumed, FinishInv, AtPrompt
<1> QED
  BY <1>2, <1>3, <1>4

\* A write to a local of a function that has made its frame leaves the words alone
\* that hold frame pointers and return addresses.
LEMMA LocalsApart ==
  ASSUME StackInv, NEW k \in Framed, NEW a \in LocalsOf(k), NEW j \in 1..Len(calls)
  PROVE  a # Cfa(j) - 1 /\ a # Cfa(j) - 2
<1>1. k \in 1..Len(calls) /\ Len(calls) \in Nat /\ calls[k].cfa = Cfa(k)
  <2>1. k \in DOMAIN calls
    BY DEF Framed
  <2>2. calls \in Seq([ret : Addr, cfa : Int])
    BY DEF StackInv, Activations
  <2>3. k \in 1..Len(calls) /\ Len(calls) \in Nat
    BY <2>1, <2>2
  <2> QED
    BY <2>3 DEF StackInv, Activations
<1>2. k \in 1..MaxDepth /\ j \in 1..MaxDepth /\ Cfa(k) \in Int /\ Cfa(j) \in Int
  BY <1>1, FrameWord
<1>3. a \in (Cfa(k) - 2 - LocalWords)..(Cfa(k) - 3) /\ LocalWords \in Nat
  BY <1>1, StackAssumption DEF LocalsOf
<1>4. CASE j = k
  BY <1>2, <1>3, <1>4
<1>5. CASE j < k
  <2>1. Cfa(k) <= Cfa(j) - FrameWords
    BY <1>2, <1>5, CfaFacts
  <2> QED
    BY <1>2, <1>3, <2>1 DEF FrameWords
<1>6. CASE k < j
  <2>1. Cfa(j) <= Cfa(k) - FrameWords
    BY <1>2, <1>6, CfaFacts
  <2> QED
    BY <1>2, <1>3, <2>1 DEF FrameWords
<1>7. j = k \/ j < k \/ k < j
  BY <1>2
<1> QED
  BY <1>4, <1>5, <1>6, <1>7

LEMMA SetMemoryStep ==
  ASSUME FramesInv, StackInv, NEW a, SetMemory(a)
  PROVE  Shaped' /\ ControlType' /\ FinishInv'
<1> USE DEF FramesInv
<1>1. /\ Readable(a) /\ phase = "prompt" /\ phase' \in {"prompt", "tampered"}
      /\ UNCHANGED <<pc, fp, sp, calls, cmd, bp, temp, selected, user, fin>>
      /\ stack' = IF a = Global THEN stack ELSE [stack EXCEPT ![a] = UserValue]
      /\ phase' # "tampered" => a = Global \/ \E k \in Framed : a \in LocalsOf(k)
  BY DEF SetMemory, AtPrompt
<1>2. ControlType' /\ FinishInv'
  BY <1>1 DEF ControlType, FinishInv
<1>3. DOMAIN stack' = Low..Top /\ Len(calls') \in 0..MaxDepth
  BY <1>1 DEF Shaped
<1>4. ASSUME phase' # "tampered"
      PROVE  StackInv'
  <2>1. CASE a = Global
    BY <1>1, <2>1 DEF StackInv, Activations, Registers, Saved
  <2>2. CASE a # Global
    <3>1. PICK k \in Framed : a \in LocalsOf(k)
      BY <1>1, <1>4, <2>2
    <3>2. /\ stack' = [w \in Low..Top |-> stack'[w]]
          /\ \A w \in Low..Top : stack'[w] = IF w = a THEN UserValue ELSE stack[w]
      BY <1>1, <2>2, Written DEF StackInv
    <3>3. ASSUME NEW j \in 1..Len(calls)
          PROVE  stack'[Cfa(j) - 1] = stack[Cfa(j) - 1] /\ stack'[Cfa(j) - 2] = stack[Cfa(j) - 2]
      <4>1. a # Cfa(j) - 1 /\ a # Cfa(j) - 2
        BY <3>1, LocalsApart
      <4>2. Cfa(j) - 1 \in Low..Top /\ Cfa(j) - 2 \in Low..Top
        BY FrameWord
      <4> QED
        BY <3>2, <4>1, <4>2
    <3>4. Activations'
      BY <1>1, <3>2, <3>3 DEF StackInv, Activations, Saved
    <3>5. calls = <<>> \/ Len(calls) \in 1..Len(calls)
      BY DEF StackInv, Activations
    <3>6. Registers'
      BY <1>1, <3>3, <3>5 DEF StackInv, Registers, Saved, Own
    <3> QED
      BY <3>4, <3>6 DEF StackInv
  <2> QED
    BY <2>1, <2>2
<1> QED
  BY <1>2, <1>3, <1>4 DEF Shaped

LEMMA RegisterWriteStep ==
  ASSUME FramesInv, StackInv, NEW name, RegisterWrite(name)
  PROVE  Shaped' /\ ControlType' /\ FinishInv'
<1> USE DEF FramesInv
<1>1. /\ phase = "prompt" /\ phase' \in {"prompt", "tampered"}
      /\ UNCHANGED <<stack, calls, cmd, bp, temp, selected, user, fin>>
  BY DEF RegisterWrite, AtPrompt
<1>2. phase' # "tampered" => UNCHANGED <<pc, fp, sp>>
  BY DEF RegisterWrite, FrameRegisters
<1>3. ControlType' /\ FinishInv'
  BY <1>1 DEF ControlType, FinishInv
<1>4. phase' # "tampered" => StackInv'
  BY <1>1, <1>2 DEF StackInv, Activations, Registers, Saved
<1> QED
  BY <1>1, <1>3, <1>4 DEF Shaped

LEMMA StepOutStep ==
  ASSUME FramesInv, StackInv, StepOut
  PROVE  StackInv' /\ ControlType' /\ FinishInv'
<1> USE DEF FramesInv
<1> DEFINE ret == Word(ReturnWord)
<1>1. ret \in Addr /\ (Own(pc) => Len(calls) \in 1..Len(calls) /\ ret = calls[Len(calls)].ret)
  BY ReturnRead DEF StepOut
<1>2. /\ CreateBreakpoint(ret, TRUE) /\ Resumed("finish") /\ UNCHANGED <<cpu, selected, user>>
      /\ fin' = [depth |-> Len(calls), ret |-> ret, sure |-> Own(pc) /\ bp[ret] # "off"]
  BY DEF StepOut
<1> HIDE DEF ret
<1>3. StackInv'
  BY <1>2 DEF cpu, StackInv, Activations, Registers, Saved
<1>4. ControlType'
  BY <1>1, <1>2 DEF CreateBreakpoint, Resumed, ControlType
<1>5. bp[ret] # "off" => bp'[ret] = "on"
  BY <1>1, <1>2 DEF CreateBreakpoint, TableInv
<1>6. Len(calls) \in Nat
  BY StackTypes
<1>7. FinishInv'
  <2>1. fin'.depth = Len(calls) /\ fin'.ret = ret /\ (fin'.sure => Own(pc) /\ bp[ret] # "off")
    BY <1>2
  <2>2. calls' = calls
    BY <1>2 DEF cpu
  <2> QED
    BY <1>1, <1>5, <1>6, <2>1, <2>2 DEF FinishInv, Depth
<1> QED
  BY <1>3, <1>4, <1>7

\* While the target runs, a finished activation ends at its return address, where
\* the trap is.
LEMMA RunStep ==
  ASSUME FramesInv, StackInv, TargetRuns
  PROVE  StackInv' /\ ControlType' /\ FinishInv'
<1> USE DEF FramesInv
<1>1. Instruction /\ phase' = "running" /\ UNCHANGED <<cmd, bp, temp, selected, user, fin>>
      /\ (phase = "running" => bp[pc] # "on") /\ phase \in {"over", "running"}
  BY DEF TargetRuns
<1>2. StackInv'
  BY <1>1, InstructionKeeps
<1>3. ControlType'
  BY <1>1 DEF ControlType
<1>4. ASSUME cmd = "finish", fin.sure
      PROVE  /\ bp[fin.ret] = "on" /\ fin.depth \in Nat \ {0}
             /\ \/ Len(calls') >= fin.depth /\ calls'[fin.depth].ret = fin.ret
                \/ Len(calls') = fin.depth - 1 /\ pc' = fin.ret
  <2>1. /\ bp[fin.ret] = "on" /\ fin.depth \in Nat \ {0}
        /\ Len(calls) >= fin.depth /\ calls[fin.depth].ret = fin.ret
    BY <1>1, <1>4 DEF FinishInv, Depth
  <2>2. Len(calls) \in Nat /\ fin.depth \in 1..Len(calls)
    BY <2>1, StackTypes
  <2>3. CASE Ret
    <3>1. /\ pc' = calls[Len(calls)].ret /\ Len(calls') = Len(calls) - 1
          /\ \A k \in 1..(Len(calls) - 1) : calls'[k] = calls[k]
      BY <2>3, Returns
    <3>2. CASE fin.depth = Len(calls)
      BY <2>1, <2>2, <3>1, <3>2
    <3>3. CASE fin.depth # Len(calls)
      <4>1. fin.depth \in 1..(Len(calls) - 1) /\ Len(calls) - 1 >= fin.depth
        BY <2>2, <3>3
      <4> QED
        BY <2>1, <3>1, <4>1
    <3> QED
      BY <3>2, <3>3
  <2>4. CASE Call
    <3>1. PICK c \in [ret : Addr, cfa : Int] : calls' = Append(calls, c)
      <4>1. PICK ret \in Succ[pc] : calls' = Append(calls, [ret |-> ret, cfa |-> sp])
        BY <2>4 DEF Call
      <4>2. ret \in Addr
        BY <4>1, CodeAssumption DEF StackInv, Registers
      <4>3. sp \in Int
        BY StackTypes, StackAssumption
      <4> QED
        BY <4>1, <4>2, <4>3
    <3>2. calls \in Seq([ret : Addr, cfa : Int])
      BY DEF StackInv, Activations
    <3>3. Len(calls') = Len(calls) + 1 /\ \A k \in 1..Len(calls) : calls'[k] = calls[k]
      BY <3>1, <3>2
    <3>4. Len(calls) + 1 >= fin.depth
      BY <2>2
    <3> QED
      BY <2>1, <2>2, <3>3, <3>4
  <2>5. CASE calls' = calls
    BY <2>1, <2>5
  <2> QED
    BY <1>1, <2>3, <2>4, <2>5 DEF Instruction, Push, Frame, Store, Plain, Leave
<1>5. FinishInv'
  BY <1>1, <1>4 DEF FinishInv, Depth
<1> QED
  BY <1>2, <1>3, <1>5

LEMMA StopStep ==
  ASSUME FramesInv, StackInv, TargetExits \/ Stop
  PROVE  StackInv' /\ ControlType' /\ FinishInv'
<1> USE DEF FramesInv
<1>1. UNCHANGED <<cpu, cmd, selected, user, fin>> /\ phase' \in {"prompt", "exited"}
      /\ temp' \subseteq temp
  BY DEF TargetExits, Stop
<1>2. StackInv'
  BY <1>1 DEF cpu, StackInv, Activations, Registers, Saved
<1> QED
  BY <1>1, <1>2 DEF ControlType, FinishInv

LEMMA FramesInvariant == Spec => []FramesInv
<1>1. Init => FramesInv
  <2>1. Init => StackInv /\ TableInv
    BY StackStart DEF Init, TableInv
  <2>2. StackInv => Shaped
    BY StackTypes DEF Shaped
  <2> QED
    BY <2>1, <2>2 DEF Init, FramesInv, ControlType, FinishInv
<1>2. FramesInv /\ [Next]_vars => FramesInv'
  <2> SUFFICES ASSUME FramesInv, [Next]_vars PROVE FramesInv'
    OBVIOUS
  <2>1. TableInv'
    BY StepKeeps DEF FramesInv
  <2>2. CASE UNCHANGED vars
    BY <2>1, <2>2 DEF vars, cpu, debugger, FramesInv, Shaped, StackInv, Activations, Registers, Saved,
                      ControlType, FinishInv, Depth
  <2>3. ASSUME Next
        PROVE  Shaped' /\ ControlType' /\ FinishInv'
    <3>1. phase # "tampered"
      BY <2>3 DEF Next, Break, Delete, EnableDisable, SelectFrame, SetMemory, RegisterWrite, Continue,
                  StepOut, TargetRuns, TargetExits, Stop, AtPrompt
    <3>2. StackInv
      BY <3>1 DEF FramesInv, Shaped
    <3>3. StackInv' => Shaped'
      BY StackAssumption DEF Shaped, StackInv, Activations
    <3> QED
      BY <2>3, <3>2, <3>3, CommandStep, SetMemoryStep, RegisterWriteStep, StepOutStep, RunStep, StopStep
      DEF Next
  <2> QED
    BY <2>1, <2>2, <2>3 DEF FramesInv
<1> QED
  BY <1>1, <1>2, PTL DEF Spec

\* Every variable keeps its type: the registers stay in the stack through any calls,
\* returns and writes to data, and a finish only ever sets a breakpoint at an instruction.
THEOREM TypeCorrect == Spec => []TypeOK
<1>1. FramesInv => TypeOK
  <2> SUFFICES ASSUME FramesInv PROVE TypeOK
    OBVIOUS
  <2> USE DEF FramesInv
  <2>1. phase # "tampered" => StackInv
    BY DEF Shaped
  <2>2. temp \subseteq {a \in Addr : bp[a] # "none"} \ user /\ user \subseteq {a \in Addr : bp[a] # "none"}
    BY DEF TableInv, ControlType
  <2> QED
    BY <2>1, <2>2, StackTypes DEF TypeOK, ControlType, TableInv, Shaped
<1> QED
  BY <1>1, FramesInvariant, PTL

\* A finish given in a function's body stops when that activation returns, however
\* deep the calls in between go and wherever they return to.
THEOREM FinishNeverOvershootsAlways == Spec => []FinishNeverOvershoots
<1>1. FramesInv => FinishNeverOvershoots
  BY DEF FramesInv, FinishInv, FinishNeverOvershoots
<1> QED
  BY <1>1, FramesInvariant, PTL

-----------------------------------------------------------------------------
(* backtrace.                                                              *)

\* The walk is the function its recursive definition says: one exists, since each
\* value needs the one before only.
LEMMA WalkDefined ==
  Walk = [n \in 0..MaxFrames |-> IF n = 0 THEN WalkFrom ELSE WalkNext(Walk[n - 1])]
<1> DEFINE Walks(g, m) == g = [n \in 0..m |-> IF n = 0 THEN WalkFrom ELSE WalkNext(g[n - 1])]
           S == {m \in Nat : \E g : Walks(g, m)}
<1>1. MaxFrames \in Nat
  BY FramesAssumption
<1>2. 0 \in S
  <2>1. Walks([n \in 0..0 |-> WalkFrom], 0)
    OBVIOUS
  <2> QED
    BY <2>1
<1>3. ASSUME NEW m \in 0..(MaxFrames - 1), m \in S
      PROVE  m + 1 \in S
  <2>1. PICK g : Walks(g, m)
    BY <1>3
  <2> DEFINE h == [n \in 0..(m + 1) |-> IF n = m + 1 THEN WalkNext(g[m]) ELSE g[n]]
             next == [n \in 0..(m + 1) |-> IF n = 0 THEN WalkFrom ELSE WalkNext(h[n - 1])]
  <2>2. ASSUME NEW n \in 0..(m + 1)
        PROVE  h[n] = next[n]
    <3>1. CASE n = m + 1
      <4>1. m \in 0..(m + 1) /\ m # m + 1 /\ n # 0 /\ n - 1 = m
        BY <1>1, <3>1
      <4>2. h[m] = g[m]
        BY <4>1
      <4> QED
        BY <3>1, <4>1, <4>2
    <3>2. CASE n # m + 1
      <4>1. n \in 0..m
        BY <1>1, <3>2
      <4>2. g[n] = IF n = 0 THEN WalkFrom ELSE WalkNext(g[n - 1])
        BY <2>1, <4>1
      <4>3. n # 0 => n - 1 \in 0..(m + 1) /\ n - 1 # m + 1
        BY <4>1
      <4> QED
        BY <3>2, <4>2, <4>3
    <3> QED
      BY <3>1, <3>2
  <2>3. Walks(h, m + 1)
    BY <2>2
  <2>4. m + 1 \in Nat
    BY <1>1
  <2> HIDE DEF h, Walks
  <2> QED
    BY <2>3, <2>4
<1> HIDE DEF S
<1>4. MaxFrames \in S
  BY <1>1, <1>2, <1>3, BoundedInduction
<1> QED
  BY <1>4 DEF S, Walk

\* The frames there are, innermost first.
Listed(n) == [i \in 1..n |-> [pc |-> Resumes(i - 1), fp |-> Cfa(Depth - i + 1) - 2]]

\* What the walk has after n steps: the n innermost frames, and where it is.
WalkedTo(n) ==
    [frames |-> Listed(n), pc |-> Resumes(n), fp |-> Cfa(Depth - n) - 2,
     seen |-> {Cfa(Depth - i) - 2 : i \in 0..(n - 1)}, done |-> FALSE]
Walked(n) ==
    /\ n < Depth => Walk[n] = WalkedTo(n)
    /\ n >= Depth => Walk[n].frames = Listed(Depth) /\ Walk[n].done

LEMMA ListedNext ==
  ASSUME NEW n \in Nat
  PROVE  Append(Listed(n), [pc |-> Resumes(n), fp |-> Cfa(Depth - (n + 1) + 1) - 2]) = Listed(n + 1)
<1>1. Len(Listed(n)) = n /\ n + 1 - 1 = n
  BY DEF Listed
<1>2. \A i \in 1..(n + 1) : i # n + 1 => i \in 1..n
  OBVIOUS
<1> QED
  BY <1>1, <1>2 DEF Listed

\* In a function's body every frame pointer is saved, so that a step of the walk
\* goes from an activation to its caller's, and ends at main's.
LEMMA WalkStep ==
  ASSUME StackInv, Own(pc), NEW n \in Nat, n < Depth
  PROVE  IF n + 1 < Depth THEN WalkNext(WalkedTo(n)) = WalkedTo(n + 1)
         ELSE WalkNext(WalkedTo(n)).frames = Listed(Depth) /\ WalkNext(WalkedTo(n)).done
<1> DEFINE k == Depth - n
           at == Cfa(k) - 2
           w == WalkedTo(n)
           frames == Append(w.frames, [pc |-> w.pc, fp |-> w.fp])
<1>1. /\ MaxDepth \in Nat /\ Depth \in Int
      /\ Depth \in 1..MaxDepth /\ k \in 1..Depth /\ k \in 1..MaxDepth
  BY StackTypes, StackAssumption DEF Depth
<1>2. Saved(k)
  <2>1. calls # <<>>
    BY <1>1 DEF Depth
  <2>2. k < Depth => Saved(k)
    BY <1>1 DEF StackInv, Activations, Depth
  <2>3. Saved(Depth)
    BY <2>1 DEF StackInv, Registers, Depth
  <2>4. k < Depth \/ k = Depth
    BY <1>1
  <2> QED
    BY <2>2, <2>3, <2>4
<1>3. /\ at \in Int /\ at > 1 /\ at + 1 = Cfa(k) - 1 /\ Readable(at) /\ Readable(at + 1)
      /\ Word(at + 1) = calls[k].ret /\ Word(at) \in FramePointers(k - 1)
  BY <1>1, <1>2, FrameRead DEF Depth, Saved
<1>4. /\ w.fp = at /\ w.pc = Resumes(n) /\ ~w.done /\ w.frames = Listed(n)
      /\ w.seen = {Cfa(Depth - i) - 2 : i \in 0..(n - 1)}
  BY DEF WalkedTo
<1>5. frames = Listed(n + 1)
  <2>1. Depth - (n + 1) + 1 = k
    BY <1>1
  <2> QED
    BY <1>4, <2>1, ListedNext
<1>6. at \notin w.seen
  <2>1. ASSUME NEW i \in 0..(n - 1)
        PROVE  Cfa(Depth - i) - 2 < at
    <3>1. Depth - i \in 1..MaxDepth /\ k < Depth - i
      BY <1>1
    <3>2. Cfa(Depth - i) <= Cfa(k) - FrameWords /\ Cfa(Depth - i) \in Int /\ Cfa(k) \in Int
      BY <1>1, <3>1, CfaFacts
    <3> QED
      BY <3>2, StackAssumption DEF FrameWords
  <2> QED
    BY <1>3, <1>4, <2>1
<1>7. CASE k = 1
  <2>1. Word(at) <= at
    BY <1>3, <1>7 DEF FramePointers
  <2>2. Ends(w)
    BY <1>4, <2>1 DEF Ends
  <2>3. WalkNext(w) = [w EXCEPT !.frames = frames, !.done = TRUE]
    BY <1>4, <2>2 DEF WalkNext
  <2>4. n + 1 = Depth
    BY <1>1, <1>7
  <2>5. WalkNext(w).frames = Listed(Depth) /\ WalkNext(w).done
    BY <1>5, <2>3, <2>4 DEF WalkedTo
  <2>6. ~(n + 1 < Depth)
    BY <1>1, <2>4
  <2> QED
    BY <2>5, <2>6
<1>8. CASE k # 1
  <2>1. k - 1 \in 1..MaxDepth /\ k - 1 < k /\ n + 1 < Depth /\ Depth - (n + 1) = k - 1
    BY <1>1, <1>8
  <2>2. Word(at) = Cfa(k - 1) - 2
    BY <1>3, <1>8 DEF FramePointers
  <2>3. ~(Word(at) <= at)
    <3>1. Cfa(k) <= Cfa(k - 1) - FrameWords /\ Cfa(k - 1) \in Int /\ Cfa(k) \in Int
      BY <1>1, <2>1, CfaFacts
    <3> QED
      BY <2>2, <3>1, StackAssumption DEF FrameWords
  <2>4. ~Ends(w)
    BY <1>3, <1>4, <1>6, <2>3 DEF Ends
  <2>5. WalkNext(w) = [frames |-> frames, pc |-> Word(at + 1), fp |-> Word(at),
                       seen |-> w.seen \cup {at}, done |-> FALSE]
    BY <1>4, <2>4 DEF WalkNext
  <2>6. Word(at + 1) = Resumes(n + 1)
    <3>1. Len(calls) - (n + 1) + 1 = k /\ n + 1 # 0
      BY <1>1 DEF Depth
    <3> QED
      BY <1>3, <3>1 DEF Resumes
  <2>7. w.seen \cup {at} = {Cfa(Depth - i) - 2 : i \in 0..((n + 1) - 1)}
    <3>1. 0..((n + 1) - 1) = 0..(n - 1) \cup {n}
      OBVIOUS
    <3> HIDE DEF w
    <3> QED
      BY <1>4, <3>1
  <2> HIDE DEF w, frames, at
  <2>8. WalkNext(w) = WalkedTo(n + 1)
    BY <1>5, <2>1, <2>2, <2>5, <2>6, <2>7 DEF WalkedTo
  <2> QED
    BY <2>1, <2>8 DEF w
<1> QED
  BY <1>7, <1>8

LEMMA WalkRight ==
  ASSUME StackInv, Own(pc)
  PROVE  \A n \in 0..MaxFrames : Walked(n)
<1> DEFINE S == {n \in 0..MaxFrames : Walked(n)}
<1>1. MaxFrames \in Nat /\ Depth \in Nat /\ Depth >= 1
  <2>1. calls # <<>>
    BY ShapeAssumption DEF StackInv, Registers, Own
  <2> QED
    BY <2>1, FramesAssumption, EmptySeq DEF StackInv, Activations, Depth
<1>2. \A n \in 0..MaxFrames : Walk[n] = IF n = 0 THEN WalkFrom ELSE WalkNext(Walk[n - 1])
  BY WalkDefined
<1>3. 0 \in S
  <2>1. Walk[0] = WalkFrom /\ 0 \in 0..MaxFrames
    BY <1>1, <1>2
  <2>2. fp = Cfa(Depth - 0) - 2 /\ pc = Resumes(0)
    BY <1>1 DEF StackInv, Registers, Resumes, Depth
  <2>3. Listed(0) = <<>> /\ {Cfa(Depth - i) - 2 : i \in 0..(0 - 1)} = {}
    BY DEF Listed
  <2>4. WalkFrom = WalkedTo(0)
    BY <2>2, <2>3 DEF WalkFrom, WalkedTo
  <2> QED
    BY <1>1, <2>1, <2>4 DEF Walked
<1>4. ASSUME NEW n \in 0..(MaxFrames - 1), n \in S
      PROVE  n + 1 \in S
  <2>1. n + 1 \in 0..MaxFrames /\ n \in Nat /\ Walk[n + 1] = WalkNext(Walk[n])
    <3>1. n + 1 \in 0..MaxFrames /\ n + 1 # 0 /\ n + 1 - 1 = n /\ n \in Nat
      BY <1>1
    <3> QED
      BY <1>2, <3>1
  <2>2. CASE n < Depth
    <3>1. Walk[n + 1] = WalkNext(WalkedTo(n))
      BY <1>4, <2>1, <2>2 DEF Walked
    <3>2. n + 1 >= Depth <=> ~(n + 1 < Depth)
      BY <1>1, <2>1
    <3> QED
      BY <2>1, <2>2, <3>1, <3>2, WalkStep DEF Walked
  <2>3. CASE ~(n < Depth)
    <3>1. n >= Depth /\ n + 1 >= Depth /\ ~(n + 1 < Depth)
      BY <1>1, <2>1, <2>3
    <3>2. Walk[n].frames = Listed(Depth) /\ Walk[n].done
      BY <1>4, <3>1 DEF Walked
    <3>3. Walk[n + 1] = Walk[n]
      BY <2>1, <3>2 DEF WalkNext
    <3> QED
      BY <2>1, <3>1, <3>2, <3>3 DEF Walked
  <2> QED
    BY <2>2, <2>3
<1> HIDE DEF S
<1>5. 0..MaxFrames \subseteq S
  BY <1>1, <1>3, <1>4, BoundedInduction
<1> QED
  BY <1>5 DEF S

\* At every stop within a function's body, after any number of calls, returns,
\* finishes and writes to locals, backtrace lists the activations there are.
THEOREM BacktraceRightAlways == Spec => []BacktraceRight
<1>1. FramesInv => BacktraceRight
  <2> SUFFICES ASSUME StackInv, Own(pc)
               PROVE  /\ Len(Backtrace) = (IF Depth < MaxFrames THEN Depth ELSE MaxFrames)
                      /\ \A k \in DOMAIN Backtrace : Backtrace[k].pc = Resumes(k - 1)
    BY DEF FramesInv, Shaped, AtPrompt, BacktraceRight
  <2>1. MaxFrames \in Nat /\ MaxFrames \in 0..MaxFrames /\ Depth \in Nat
    BY StackTypes, FramesAssumption DEF Depth
  <2>2. Walked(MaxFrames)
    BY <2>1, WalkRight
  <2>3. Backtrace = Listed(IF Depth < MaxFrames THEN Depth ELSE MaxFrames)
    <3>1. CASE MaxFrames < Depth
      <4>1. Walk[MaxFrames] = WalkedTo(MaxFrames) /\ ~(Depth < MaxFrames)
        BY <2>1, <2>2, <3>1 DEF Walked
      <4> QED
        BY <4>1 DEF Backtrace, WalkedTo
    <3>2. CASE ~(MaxFrames < Depth)
      <4>1. Walk[MaxFrames].frames = Listed(Depth)
        BY <2>1, <2>2, <3>2 DEF Walked
      <4>2. Depth = IF Depth < MaxFrames THEN Depth ELSE MaxFrames
        BY <2>1, <3>2
      <4> QED
        BY <4>1, <4>2 DEF Backtrace
    <3> QED
      BY <3>1, <3>2
  <2>4. \A n \in Nat : Len(Listed(n)) = n /\ DOMAIN Listed(n) = 1..n
                       /\ \A i \in 1..n : Listed(n)[i].pc = Resumes(i - 1)
    BY DEF Listed
  <2> QED
    BY <2>1, <2>3, <2>4
<1> QED
  BY <1>1, FramesInvariant, PTL

-----------------------------------------------------------------------------
(* info locals.                                                            *)

\* The loop over the operations of a location, one after the other.
LEMMA EvaluatedSteps ==
  ASSUME NEW ops, Len(ops) \in Nat
  PROVE  \E after : /\ after[0] = Start
                    /\ \A n \in 1..Len(ops) : after[n] = Operation(after[n - 1], ops[n])
                    /\ Evaluated(ops) = after[Len(ops)]
<1> DEFINE Loop(g, m) ==
             g = [n \in 0..m |-> IF n = 0 THEN Start ELSE Operation(g[n - 1], ops[n])]
           S == {m \in Nat : \E g : Loop(g, m)}
<1>1. Len(ops) \in Nat
  OBVIOUS
<1>2. 0 \in S
  <2>1. Loop([n \in 0..0 |-> Start], 0)
    OBVIOUS
  <2> QED
    BY <2>1
<1>3. ASSUME NEW m \in 0..(Len(ops) - 1), m \in S
      PROVE  m + 1 \in S
  <2>1. PICK g : Loop(g, m)
    BY <1>3
  <2> DEFINE h == [n \in 0..(m + 1) |-> IF n = m + 1 THEN Operation(g[m], ops[m + 1]) ELSE g[n]]
             next == [n \in 0..(m + 1) |-> IF n = 0 THEN Start ELSE Operation(h[n - 1], ops[n])]
  <2>2. ASSUME NEW n \in 0..(m + 1)
        PROVE  h[n] = next[n]
    <3>1. CASE n = m + 1
      <4>1. m \in 0..(m + 1) /\ m # m + 1 /\ n # 0 /\ n - 1 = m
        BY <1>1, <3>1
      <4>2. h[m] = g[m]
        BY <4>1
      <4> QED
        BY <3>1, <4>1, <4>2
    <3>2. CASE n # m + 1
      <4>1. n \in 0..m
        BY <1>1, <3>2
      <4>2. g[n] = IF n = 0 THEN Start ELSE Operation(g[n - 1], ops[n])
        BY <2>1, <4>1
      <4>3. n # 0 => n - 1 \in 0..(m + 1) /\ n - 1 # m + 1
        BY <4>1
      <4> QED
        BY <3>2, <4>2, <4>3
    <3> QED
      BY <3>1, <3>2
  <2>3. Loop(h, m + 1)
    BY <2>2
  <2>4. m + 1 \in Nat
    BY <1>1
  <2> HIDE DEF h, Loop
  <2> QED
    BY <2>3, <2>4
<1> HIDE DEF S
<1>4. Len(ops) \in S
  <2>1. 0..Len(ops) \subseteq S
    BY <1>1, <1>2, <1>3, BoundedInduction
  <2> QED
    BY <1>1, <2>1
<1> DEFINE after == CHOOSE g : Loop(g, Len(ops))
<1>5. Loop(after, Len(ops)) /\ Evaluated(ops) = after[Len(ops)]
  BY <1>4 DEF S, Evaluated
<1> HIDE DEF after
<1>6. after[0] = Start /\ \A n \in 1..Len(ops) : after[n] = Operation(after[n - 1], ops[n])
  <2>1. \A n \in 0..Len(ops) : after[n] = IF n = 0 THEN Start ELSE Operation(after[n - 1], ops[n])
    BY <1>5
  <2>2. 0 \in 0..Len(ops) /\ \A n \in 1..Len(ops) : n \in 0..Len(ops) /\ n # 0
    BY <1>1
  <2> HIDE DEF Loop
  <2> QED
    BY <2>1, <2>2
<1> QED
  BY <1>5, <1>6

LEMMA EvaluatedShort ==
  ASSUME NEW ops
  PROVE  /\ Len(ops) = 1 => Evaluated(ops) = Operation(Start, ops[1])
         /\ Len(ops) = 2 => Evaluated(ops) = Operation(Operation(Start, ops[1]), ops[2])
         /\ Len(ops) = 3 => Evaluated(ops) =
              Operation(Operation(Operation(Start, ops[1]), ops[2]), ops[3])
<1>1. SUFFICES ASSUME Len(ops) \in {1, 2, 3}
               PROVE  /\ Len(ops) = 1 => Evaluated(ops) = Operation(Start, ops[1])
                      /\ Len(ops) = 2 => Evaluated(ops) = Operation(Operation(Start, ops[1]), ops[2])
                      /\ Len(ops) = 3 => Evaluated(ops) =
                           Operation(Operation(Operation(Start, ops[1]), ops[2]), ops[3])
  OBVIOUS
<1>2. PICK after : /\ after[0] = Start
                   /\ \A n \in 1..Len(ops) : after[n] = Operation(after[n - 1], ops[n])
                   /\ Evaluated(ops) = after[Len(ops)]
  BY <1>1, EvaluatedSteps
<1>3. after[1] = Operation(Start, ops[1])
  BY <1>1, <1>2
<1>4. Len(ops) \in {2, 3} => after[2] = Operation(after[1], ops[2])
  BY <1>2
<1>5. Len(ops) = 3 => after[3] = Operation(after[2], ops[3])
  BY <1>2
<1> QED
  BY <1>1, <1>2, <1>3, <1>4, <1>5

\* The state of the evaluation with one value on the stack.
Holding(v, flags) == State(<<v>>, flags, Text(""))

LEMMA StartFields == Start.stack = <<>> /\ Start.flags = {} /\ Start.answer = Text("")
BY DEF Start, State

LEMMA HoldingFields ==
  ASSUME NEW v, NEW flags
  PROVE  /\ Holding(v, flags).stack = <<v>> /\ Holding(v, flags).flags = flags
         /\ Holding(v, flags).answer = Text("")
BY DEF Holding, State

LEMMA UpdateFields ==
  ASSUME NEW e, NEW x
  PROVE  /\ Push1(e, x).flags = e.flags /\ Push1(e, x).answer = e.answer
         /\ SetTop(e, x).flags = e.flags /\ SetTop(e, x).answer = e.answer
         /\ Flag(e, x).flags = e.flags \cup {x} /\ Flag(e, x).answer = e.answer
         /\ Answer(e, x).answer = Text(x)
BY DEF Push1, SetTop, Flag, Answer, State

LEMMA TextKind == \A text : Text(text).kind = text
BY DEF Text

\* What each operation makes of the states that short locations pass through.
LEMMA OperationFirst ==
  ASSUME NEW op
  PROVE  /\ op.atom = "addr" => Operation(Start, op) = Holding(op.number, {})
         /\ op.atom = "fbreg" => Operation(Start, op) = Holding(FrameBase + op.number, {})
         /\ op.atom = "reg" /\ op.atomRegister = 3 =>
              Operation(Start, op) = Holding(rbx + 0, {"register_value"})
         /\ op.atom = "breg" /\ op.atomRegister = 6 => Operation(Start, op) = Holding(fp + op.number2, {})
<1>1. Start.answer = Text("") /\ Start.answer.kind = "" /\ Start.stack = <<>> /\ Start.flags = {}
  BY StartFields, TextKind
<1>2. ASSUME NEW v
      PROVE  Push1(Start, v) = Holding(v, {})
  <2>1. Append(<<>>, v) = <<v>>
    OBVIOUS
  <2> QED
    BY <1>1, <2>1 DEF Push1, Holding
<1>3. KnownRegister(3) /\ DwarfRegister(3) = rbx
  BY DEF KnownRegister, DwarfRegister, DwarfNames, RegisterValue
<1>4. KnownRegister(6) /\ DwarfRegister(6) = fp
  BY DEF KnownRegister, DwarfRegister, DwarfNames, RegisterValue
<1>5. op.atom = "addr" => Operation(Start, op) = Push1(Start, op.number)
  BY <1>1 DEF Operation, Supported
<1>6. op.atom = "fbreg" => Operation(Start, op) = Push1(Start, FrameBase + op.number)
  BY <1>1 DEF Operation, Supported
<1>7. op.atom = "reg" => Operation(Start, op) = Flag(Named(Start, op.atomRegister, 0), "register_value")
  BY <1>1 DEF Operation, Supported, Register
<1>8. op.atom = "breg" => Operation(Start, op) = Named(Start, op.atomRegister, op.number2)
  BY <1>1 DEF Operation, Supported, Register
<1>9. Flag(Holding(rbx + 0, {}), "register_value") = Holding(rbx + 0, {"register_value"})
  BY HoldingFields DEF Flag, Holding
<1> QED
  BY <1>2, <1>3, <1>4, <1>5, <1>6, <1>7, <1>8, <1>9 DEF Named

LEMMA Depth1 ==
  ASSUME NEW e, NEW v, e.stack = <<v>>
  PROVE  Len(e.stack) # 0 /\ e.stack[Len(e.stack)] = v
OBVIOUS

LEMMA HoldingSet ==
  ASSUME NEW v, NEW flags, NEW x
  PROVE  SetTop(Holding(v, flags), x) = Holding(x, flags)
<1> DEFINE e == Holding(v, flags)
<1>1. e.answer = Text("") /\ e.stack = <<v>> /\ e.flags = flags
  BY HoldingFields
<1>2. [<<v>> EXCEPT ![1] = x] = <<x>> /\ Len(<<v>>) = 1
  OBVIOUS
<1> HIDE DEF e
<1>3. SetTop(e, x) = Holding(x, flags)
  BY <1>1, <1>2 DEF SetTop, Holding
<1> QED
  BY <1>3 DEF e

LEMMA HoldingFlag ==
  ASSUME NEW v, NEW flags, NEW f
  PROVE  Flag(Holding(v, flags), f) = Holding(v, flags \cup {f})
BY HoldingFields DEF Flag, Holding

LEMMA HoldingPlus ==
  ASSUME NEW op, op.atom = "plus_uconst", NEW v, NEW flags
  PROVE  Operation(Holding(v, flags), op) = Holding(v + op.number, flags)
<1> DEFINE e == Holding(v, flags)
<1>1. e.answer = Text("") /\ e.stack = <<v>>
  BY HoldingFields
<1> HIDE DEF e
<1>2. e.answer.kind = ""
  BY <1>1, TextKind
<1>3. Len(e.stack) # 0 /\ e.stack[Len(e.stack)] = v
  BY <1>1, Depth1
<1>4. Operation(e, op) = SetTop(e, v + op.number)
  BY <1>2, <1>3 DEF Operation, Supported
<1> QED
  BY <1>4, HoldingSet DEF e

LEMMA HoldingValue ==
  ASSUME NEW op, op.atom = "stack_value", NEW v, NEW flags
  PROVE  Operation(Holding(v, flags), op) = Holding(v, flags \cup {"stack_value"})
<1> DEFINE e == Holding(v, flags)
<1>1. e.answer = Text("") /\ e.stack = <<v>>
  BY HoldingFields
<1> HIDE DEF e
<1>2. e.answer.kind = ""
  BY <1>1, TextKind
<1>3. Operation(e, op) = Flag(e, "stack_value")
  BY <1>2 DEF Operation, Supported
<1> QED
  BY <1>3, HoldingFlag DEF e

LEMMA HoldingDeref ==
  ASSUME NEW op, op.atom = "deref", NEW v, Readable(v), NEW flags
  PROVE  Operation(Holding(v, flags), op) = Holding(Word(v), flags \cup {"register_value"})
<1> DEFINE e == Holding(v, flags)
<1>1. e.answer = Text("") /\ e.stack = <<v>>
  BY HoldingFields
<1> HIDE DEF e
<1>2. e.answer.kind = ""
  BY <1>1, TextKind
<1>3. Len(e.stack) # 0 /\ e.stack[Len(e.stack)] = v
  BY <1>1, Depth1
<1>4. Operation(e, op) = Flag(SetTop(e, Word(v)), "register_value")
  BY <1>2, <1>3 DEF Operation, Supported
<1> QED
  BY <1>4, HoldingSet, HoldingFlag DEF e

\* Of a word that is put together from two halves each can be had back.
LEMMA Quotient ==
  ASSUME NEW q \in Int, NEW l \in Int, NEW r \in 0..(Wide - 1), NEW h \in 0..(Wide - 1),
         r + Wide * q = h + Wide * l
  PROVE  r = h
<1> USE DEF Wide
<1>1. CASE q = l
  BY <1>1
<1>2. CASE q < l
  <2>1. q + 1 <= l
    BY <1>2
  <2>2. Wide * (q + 1) <= Wide * l
    BY <2>1
  <2> QED
    BY <2>2
<1>3. CASE l < q
  <2>1. l + 1 <= q
    BY <1>3
  <2>2. Wide * (l + 1) <= Wide * q
    BY <2>1
  <2> QED
    BY <2>2
<1> QED
  BY <1>1, <1>2, <1>3

LEMMA LowerOf ==
  ASSUME NEW h \in 0..(Wide - 1), NEW l \in Int
  PROVE  LowerHalf(h + Wide * l) = h
<1>1. PICK n \in Int : n = h + Wide * l
  BY DEF Wide
<1>2. /\ n \div Wide \in Int /\ n % Wide \in 0..(Wide - 1)
      /\ n = (n % Wide) + Wide * (n \div Wide)
  BY DEF Wide
<1>3. n % Wide = h
  BY <1>1, <1>2, Quotient
<1> QED
  BY <1>1, <1>3 DEF LowerHalf

LEMMA Halves ==
  ASSUME NEW w \in Int, NEW x \in Int
  PROVE  LowerHalf(UpperHalf(w) + Wide * LowerHalf(x)) = UpperHalf(w)
<1>1. LowerHalf(x) \in Int /\ UpperHalf(w) \in 0..(Wide - 1)
  BY DEF LowerHalf, UpperHalf, Wide
<1> QED
  BY <1>1, LowerOf

\* What is made of one value.
LEMMA EvaluateHolding ==
  ASSUME NEW variable, NEW v, NEW flags, Evaluated(variable.ops) = Holding(v, flags)
  PROVE  /\ flags # {} => Evaluate(variable) = Value(v)
         /\ flags = {} /\ WordReadable(v, variable.half) =>
              Evaluate(variable) = Value(WordRead(v, variable.half))
<1> DEFINE e == Holding(v, flags)
<1>1. e.answer = Text("") /\ e.stack = <<v>> /\ e.flags = flags
  BY HoldingFields
<1>2. <<v>> # <<>> /\ Last(<<v>>) = v
  BY DEF Last
<1> HIDE DEF e
<1>3. Evaluated(variable.ops) = e
  BY DEF e
<1>4. e.answer.kind = ""
  BY <1>1, TextKind
<1> QED
  BY <1>1, <1>2, <1>3, <1>4 DEF Evaluate

\* A word of the frame can be read, and the frame base is the canonical address of
\* the innermost activation.
LEMMA FrameLocal ==
  ASSUME StackInv, Own(pc)
  PROVE  /\ fp \in Int /\ FrameBase = calls[Depth].cfa /\ FrameBase = fp + 2 /\ FrameBase \in Int
         /\ \A n : InFrame(n) => /\ n \in Int /\ Readable(FrameBase + n) /\ FrameBase + n \in Low..Top
                                 /\ Word(FrameBase + n) = stack[FrameBase + n]
<1>1. calls # <<>> /\ Depth \in 1..Len(calls) /\ Depth \in 1..MaxDepth
  BY Active DEF Own, Depth
<1>2. fp = Cfa(Depth) - 2 /\ calls[Depth].cfa = Cfa(Depth)
  BY <1>1 DEF StackInv, Registers, Activations, Depth
<1>3. Cfa(Depth) \in Int /\ Cfa(Depth) <= Top + 1 /\ Low + FrameWords < Cfa(Depth)
  BY <1>1, CfaFacts
<1>4. FrameBase = Cfa(Depth) /\ fp \in Int /\ FrameBase = fp + 2
  BY <1>2, <1>3 DEF FrameBase
<1>5. ASSUME NEW n, InFrame(n)
      PROVE  n \in Int /\ Cfa(Depth) + n \in Low..Top
  <2>1. n \in (-(LocalWords + 2))..(-1) /\ LocalWords \in Nat /\ Low \in Nat /\ Top \in Nat
    BY <1>5, StackAssumption DEF InFrame
  <2> QED
    BY <1>3, <2>1 DEF FrameWords
<1>6. \A w \in Low..Top : Readable(w) /\ Word(w) = stack[w]
  BY FramesAssumption DEF Readable, Word
<1> QED
  BY <1>2, <1>3, <1>4, <1>5, <1>6

\* The register and the stack hold numbers.
Numbers == rbx \in Int /\ \A w \in Low..Top : stack[w] \in Int

\* A variable of the frame: the word, or half of it, that it is stored in.
LEMMA FrameVariable ==
  ASSUME StackInv, Own(pc), Numbers, NEW v, v.half \in {0, 1}, NEW n, InFrame(n),
         v.half = 1 => v.bytes = 4 /\ InFrame(n + 1)
  PROVE  /\ WordReadable(FrameBase + n, v.half)
         /\ OwnBytes(v, WordRead(FrameBase + n, v.half)) = Stored(v, stack[FrameBase + n])
<1>1. Readable(FrameBase + n) /\ Word(FrameBase + n) = stack[FrameBase + n]
  BY FrameLocal
<1>2. CASE v.half = 0
  BY <1>1, <1>2 DEF WordReadable, WordRead, Stored
<1>3. CASE v.half = 1
  <2>1. v.bytes = 4 /\ InFrame(n + 1)
    BY <1>3
  <2>2. FrameBase + n + 1 = FrameBase + (n + 1)
    BY FrameLocal
  <2>3. Readable(FrameBase + n + 1) /\ Word(FrameBase + n + 1) = stack[FrameBase + (n + 1)]
    BY <2>1, <2>2, FrameLocal
  <2>4. stack[FrameBase + n] \in Int /\ stack[FrameBase + (n + 1)] \in Int
    BY <2>1, FrameLocal DEF Numbers
  <2>5. WordRead(FrameBase + n, v.half)
          = UpperHalf(stack[FrameBase + n]) + Wide * LowerHalf(stack[FrameBase + (n + 1)])
    BY <1>1, <1>3, <2>3 DEF WordRead
  <2>6. LowerHalf(WordRead(FrameBase + n, v.half)) = UpperHalf(stack[FrameBase + n])
    BY <2>4, <2>5, Halves
  <2> QED
    BY <1>1, <1>3, <2>1, <2>3, <2>6 DEF WordReadable, OwnBytes, Stored
<1> QED
  BY <1>2, <1>3

\* The usual locations mean what gcc means by them.
LEMMA UsualRight ==
  ASSUME StackInv, Own(pc), Numbers, NEW v, v.half \in {0, 1}, Len(v.ops) \in Nat,
         DOMAIN v.ops = 1..Len(v.ops), \A k \in DOMAIN v.ops : v.ops[k].number \in Int,
         UsualLocation(v), ~Relocated(v, pc)
  PROVE  \E w : /\ Evaluate(v) = Value(w)
                /\ OwnBytes(v, w) = Meaning(v, pc, calls[Depth].cfa)
<1> DEFINE ops == v.ops
<1>1. CASE Len(ops) = 1 /\ ops[1].atom = "fbreg" /\ InFrame(ops[1].number)
           /\ (v.half = 1 => v.bytes = 4 /\ InFrame(ops[1].number + 1))
  <2>1. Evaluated(ops) = Holding(FrameBase + ops[1].number, {})
    BY <1>1, EvaluatedShort, OperationFirst
  <2>2. /\ WordReadable(FrameBase + ops[1].number, v.half)
        /\ OwnBytes(v, WordRead(FrameBase + ops[1].number, v.half))
             = Stored(v, stack[FrameBase + ops[1].number])
    BY <1>1, FrameVariable
  <2>3. Evaluate(v) = Value(WordRead(FrameBase + ops[1].number, v.half))
    BY <2>1, <2>2, EvaluateHolding
  <2>4. Meaning(v, pc, calls[Depth].cfa) = Stored(v, stack[FrameBase + ops[1].number])
    BY <1>1, FrameLocal DEF Meaning, Last
  <2> QED
    BY <2>2, <2>3, <2>4
<1>2. CASE Len(ops) = 1 /\ ops[1].atom = "reg" /\ ops[1].atomRegister = 3
  <2>1. Evaluated(ops) = Holding(rbx + 0, {"register_value"})
    BY <1>2, EvaluatedShort, OperationFirst
  <2>2. Evaluate(v) = Value(rbx)
    BY <2>1, EvaluateHolding DEF Numbers
  <2>3. Meaning(v, pc, calls[Depth].cfa) = OwnBytes(v, rbx)
    BY <1>2 DEF Meaning, Last
  <2> QED
    BY <2>2, <2>3
<1>3. CASE Len(ops) = 1 /\ ops[1].atom = "addr" /\ ops[1].number = Global /\ v.half = 0
  <2>1. Evaluated(ops) = Holding(Global, {})
    BY <1>3, EvaluatedShort, OperationFirst
  <2>2. WordReadable(Global, v.half) /\ WordRead(Global, v.half) = Word(Global)
    BY <1>3 DEF Readable, WordReadable, WordRead
  <2>3. Evaluate(v) = Value(Word(Global))
    BY <2>1, <2>2, EvaluateHolding
  <2>4. Meaning(v, pc, calls[Depth].cfa) = OwnBytes(v, Word(Global))
    <3>1. Bias[pc] = 0 /\ ops[1].number + 0 = Global
      BY <1>3 DEF Relocated, Atoms
    <3> QED
      BY <1>3, <3>1 DEF Meaning, Last, Stored
  <2> QED
    BY <2>3, <2>4
<1>4. CASE Len(ops) = 3 /\ ops[1].atom = "addr" /\ ops[2].atom = "plus_uconst"
           /\ ops[3].atom = "stack_value"
  <2>1. Operation(Start, ops[1]) = Holding(ops[1].number, {})
    BY <1>4, OperationFirst
  <2> DEFINE x == ops[1].number
             y == x + ops[2].number
  <2>2. Operation(Holding(x, {}), ops[2]) = Holding(y, {})
    BY <1>4, HoldingPlus
  <2>3. Operation(Holding(y, {}), ops[3]) = Holding(y, {"stack_value"})
    <3>1. {} \cup {"stack_value"} = {"stack_value"}
      OBVIOUS
    <3>2. Operation(Holding(y, {}), ops[3]) = Holding(y, {} \cup {"stack_value"})
      BY <1>4, HoldingValue
    <3> QED
      BY <3>1, <3>2
  <2>4. Evaluated(ops) = Holding(ops[1].number + ops[2].number, {"stack_value"})
    BY <1>4, <2>1, <2>2, <2>3, EvaluatedShort
  <2>5. Evaluate(v) = Value(ops[1].number + ops[2].number)
    BY <2>4, EvaluateHolding
  <2>6. Meaning(v, pc, calls[Depth].cfa) = OwnBytes(v, ops[1].number + ops[2].number)
    <3>1. ops[1].number + ops[2].number + Bias[pc] = ops[1].number + ops[2].number
      BY <1>4 DEF Relocated, Atoms
    <3> QED
      BY <1>4, <3>1 DEF Meaning, Last
  <2> QED
    BY <2>5, <2>6
<1> QED
  BY <1>1, <1>2, <1>3, <1>4 DEF UsualLocation

\* Without a dereference, no operation reads memory, and once one has answered, or
\* named a register, the result is not an address to read.
Unread(e) == e.answer.kind # "throws"
Answered(e) == e.answer.kind # "" \/ e.flags # {}

LEMMA OperationUnread ==
  ASSUME NEW e, Unread(e), NEW op, op.atom # "deref"
  PROVE  /\ Unread(Operation(e, op))
         /\ Answered(e) \/ op.atom \notin Supported \ {"reg", "regx"} => Answered(Operation(e, op))
<1> DEFINE Kept(d) == Unread(d) /\ (Answered(e) => Answered(d))
<1>1. \A v : Kept(Push1(e, v)) /\ Kept(SetTop(e, v))
  BY UpdateFields DEF Unread, Answered
<1>2. ASSUME NEW text \in {"<unknown register>", "<bad DWARF expression>", "<unsupported DWARF expression>"}
      PROVE  Kept(Answer(e, text)) /\ Answered(Answer(e, text))
  <2>1. Answer(e, text).answer = Text(text)
    BY DEF Answer, State
  <2> QED
    BY <2>1, TextKind DEF Unread, Answered
<1>3. \A n, offset : Kept(Named(e, n, offset))
  BY <1>1, <1>2 DEF Named
<1>4. ASSUME NEW d, Unread(d), NEW f
      PROVE  Unread(Flag(d, f)) /\ Answered(Flag(d, f))
  <2>1. Flag(d, f).answer = d.answer /\ Flag(d, f).flags = d.flags \cup {f}
    BY UpdateFields
  <2>2. d.flags \cup {f} # {}
    OBVIOUS
  <2> QED
    BY <1>4, <2>1, <2>2 DEF Unread, Answered
<1> HIDE DEF Kept
<1>5. CASE e.answer.kind # ""
  BY <1>5 DEF Operation, Answered
<1>6. CASE e.answer.kind = "" /\ op.atom \in {"addr", "fbreg"}
  BY <1>1, <1>6 DEF Operation, Supported, Kept
<1>7. CASE e.answer.kind = "" /\ op.atom \in {"reg", "regx"}
  <2>1. Operation(e, op) = Flag(Named(e, Register(op), 0), "register_value")
    BY <1>7 DEF Operation, Supported
  <2> QED
    BY <1>3, <1>4, <2>1 DEF Kept
<1>8. CASE e.answer.kind = "" /\ op.atom \in {"breg", "bregx"}
  BY <1>3, <1>8 DEF Operation, Supported, Kept
<1>9. CASE e.answer.kind = "" /\ op.atom = "plus_uconst"
  BY <1>1, <1>2, <1>9 DEF Operation, Supported, Kept
<1>10. CASE e.answer.kind = "" /\ op.atom = "stack_value"
  <2>1. Operation(e, op) = Flag(e, "stack_value")
    BY <1>10 DEF Operation, Supported
  <2> QED
    BY <1>4, <2>1
<1>11. CASE e.answer.kind = "" /\ op.atom \notin Supported
  <2>1. Operation(e, op) = Answer(e, "<unsupported DWARF expression>")
    BY <1>11 DEF Operation, Supported
  <2> QED
    BY <1>2, <2>1 DEF Kept
<1> QED
  BY <1>5, <1>6, <1>7, <1>8, <1>9, <1>10, <1>11 DEF Supported

\* The unusual locations do not make info locals fail.
LEMMA UnusualQuiet ==
  ASSUME StackInv, Own(pc), NEW v, Len(v.ops) \in Nat, DOMAIN v.ops = 1..Len(v.ops),
         \A i \in DOMAIN v.ops : v.ops[i].number2 \in Int, UnusualLocation(v)
  PROVE  Evaluate(v).kind # "throws"
<1> DEFINE ops == v.ops
<1>1. CASE "deref" \notin Atoms(ops) /\ ~(Atoms(ops) \subseteq Supported \ {"reg", "regx"})
  <2>1. PICK i \in 1..Len(ops) : ops[i].atom \notin Supported \ {"reg", "regx"}
    BY <1>1 DEF Atoms
  <2>2. \A n \in 1..Len(ops) : ops[n].atom # "deref"
    BY <1>1 DEF Atoms
  <2>3. PICK after : /\ after[0] = Start
                     /\ \A n \in 1..Len(ops) : after[n] = Operation(after[n - 1], ops[n])
                     /\ Evaluated(ops) = after[Len(ops)]
    BY EvaluatedSteps
  <2> DEFINE S == {n \in 0..Len(ops) : Unread(after[n]) /\ (i <= n => Answered(after[n]))}
  <2>4. 0 \in S
    <3>1. Unread(Start)
      BY StartFields, TextKind DEF Unread
    <3> QED
      BY <2>3, <3>1
  <2>5. ASSUME NEW n \in 0..(Len(ops) - 1), n \in S
        PROVE  n + 1 \in S
    <3>1. n + 1 \in 1..Len(ops) /\ n + 1 \in 0..Len(ops) /\ n + 1 - 1 = n
      OBVIOUS
    <3>2. after[n + 1] = Operation(after[n], ops[n + 1]) /\ ops[n + 1].atom # "deref"
      BY <2>2, <2>3, <3>1
    <3>3. Unread(after[n]) /\ (i <= n => Answered(after[n]))
      BY <2>5
    <3>4. Unread(after[n + 1])
      BY <3>2, <3>3, OperationUnread
    <3>5. ASSUME i <= n + 1
          PROVE  Answered(after[n + 1])
      <4>1. i <= n \/ i = n + 1
        BY <3>5
      <4> QED
        BY <2>1, <3>2, <3>3, <4>1, OperationUnread
    <3> QED
      BY <3>1, <3>4, <3>5
  <2> HIDE DEF S
  <2>6. Len(ops) \in S
    <3>1. 0..Len(ops) \subseteq S
      BY <2>4, <2>5, BoundedInduction
    <3> QED
      BY <3>1
  <2>7. Unread(Evaluated(ops)) /\ Answered(Evaluated(ops))
    BY <2>1, <2>3, <2>6 DEF S
  <2> QED
    BY <2>7 DEF Evaluate, Unread, Answered, Text, Value
<1>2. CASE Len(ops) = 2 /\ ops[1].atom = "fbreg" /\ InFrame(ops[1].number) /\ ops[2].atom = "deref"
  <2>1. Operation(Start, ops[1]) = Holding(FrameBase + ops[1].number, {})
    BY <1>2, OperationFirst
  <2> DEFINE w == FrameBase + ops[1].number
  <2>2. Operation(Holding(w, {}), ops[2]) = Holding(Word(w), {"register_value"})
    <3>1. {} \cup {"register_value"} = {"register_value"}
      OBVIOUS
    <3>2. Readable(w)
      BY <1>2, FrameLocal
    <3>3. Operation(Holding(w, {}), ops[2]) = Holding(Word(w), {} \cup {"register_value"})
      BY <1>2, <3>2, HoldingDeref
    <3> QED
      BY <3>1, <3>3
  <2>3. Evaluated(ops) = Holding(Word(FrameBase + ops[1].number), {"register_value"})
    BY <1>2, <2>1, <2>2, EvaluatedShort, FrameLocal
  <2>4. Evaluate(v) = Value(Word(FrameBase + ops[1].number))
    BY <2>3, EvaluateHolding
  <2> QED
    BY <2>4 DEF Value
<1>3. CASE Len(ops) = 1 /\ ops[1].atom = "breg" /\ ops[1].atomRegister = 6
           /\ InFrame(ops[1].number2 - 2) /\ v.half = 0
  <2>1. Evaluated(ops) = Holding(fp + ops[1].number2, {})
    BY <1>3, EvaluatedShort, OperationFirst
  <2>2. Readable(fp + ops[1].number2)
    <3> DEFINE p == ops[1].number2
    <3> DEFINE n == p - 2
    <3>1. n \in Int /\ Readable(FrameBase + n) /\ FrameBase = fp + 2 /\ fp \in Int
      BY <1>3, FrameLocal
    <3>2. p \in Int
      BY <1>3
    <3>3. FrameBase + n = fp + p
      <4> HIDE DEF p
      <4> QED
        BY <3>1, <3>2
    <3> QED
      BY <3>1, <3>3
  <2>3. WordReadable(fp + ops[1].number2, v.half)
    BY <1>3, <2>2 DEF WordReadable
  <2>4. Evaluate(v) = Value(WordRead(fp + ops[1].number2, v.half))
    BY <2>1, <2>3, EvaluateHolding
  <2> QED
    BY <2>4 DEF Value
<1> QED
  BY <1>1, <1>2, <1>3 DEF UnusualLocation

\* The n-th variable of the i-th scope, and what is known of it.
Variable(scopes, i, n) == scopes[i][n]

LEMMA ScopesTyped ==
  ASSUME Locations, NEW a \in Addr
  PROVE  LET scopes == Scopes[a] IN
         /\ \A i \in DOMAIN scopes : i \in Nat \ {0} /\ 1..(i - 1) \subseteq DOMAIN scopes
         /\ \A i \in DOMAIN scopes : \A n \in DOMAIN scopes[i] :
              LET v == Variable(scopes, i, n) IN
              /\ n \in Nat /\ v.half \in {0, 1}
              /\ Len(v.ops) \in Nat /\ DOMAIN v.ops = 1..Len(v.ops)
              /\ \A k \in DOMAIN v.ops : v.ops[k].number \in Int /\ v.ops[k].number2 \in Int
              /\ \/ Relocated(v, a)
                 \/ IF Usual(v.ops) THEN UsualLocation(v) ELSE UnusualLocation(v)
<1> DEFINE scopes == Scopes[a]
           Atom == [atom : STRING, atomRegister : Nat, number : Int, number2 : Int]
           Entry == [name : STRING, bytes : {4, 8}, half : {0, 1}, ops : Seq(Atom)]
<1>1. scopes \in Seq(Seq(Entry))
  BY DEF Locations
<1>2. \A i \in DOMAIN scopes : \A n \in DOMAIN scopes[i] :
        LET v == scopes[i][n] IN
        Relocated(v, a) \/ IF Usual(v.ops) THEN UsualLocation(v) ELSE UnusualLocation(v)
  BY DEF Locations
<1> HIDE DEF scopes, Entry
<1>3. /\ Len(scopes) \in Nat /\ DOMAIN scopes = 1..Len(scopes)
      /\ \A i \in DOMAIN scopes : scopes[i] \in Seq(Entry)
  BY <1>1
<1>4. \A i \in DOMAIN scopes : i \in Nat \ {0} /\ 1..(i - 1) \subseteq DOMAIN scopes
  BY <1>3
<1>5. ASSUME NEW i \in DOMAIN scopes, NEW n \in DOMAIN scopes[i]
      PROVE  LET ops == scopes[i][n].ops IN
             n \in Nat /\ scopes[i][n].half \in {0, 1} /\ Len(ops) \in Nat /\ DOMAIN ops = 1..Len(ops)
             /\ \A k \in DOMAIN ops : ops[k].number \in Int /\ ops[k].number2 \in Int
  <2> DEFINE scope == scopes[i]
             ops == scopes[i][n].ops
  <2>1. scope \in Seq(Entry) /\ n \in DOMAIN scope
    BY <1>3
  <2> HIDE DEF scope
  <2>2. n \in Nat /\ scope[n] \in Entry
    BY <2>1
  <2>3. ops \in Seq(Atom) /\ scopes[i][n].half \in {0, 1}
    <3> HIDE DEF Atom
    <3> QED
      BY <2>2 DEF scope, Entry
  <2> HIDE DEF ops
  <2>4. Len(ops) \in Nat /\ DOMAIN ops = 1..Len(ops) /\ \A k \in DOMAIN ops : ops[k] \in Atom
    <3> HIDE DEF Atom
    <3> QED
      BY <2>3
  <2>5. \A k \in DOMAIN ops : ops[k].number \in Int /\ ops[k].number2 \in Int
    BY <2>4
  <2> QED
    BY <2>2, <2>3, <2>4, <2>5 DEF ops
<1> QED
  BY <1>2, <1>4, <1>5 DEF scopes, Variable

\* A variable is visible where no variable before it, from the innermost scope out,
\* has its name.
First(scopes, i, n) ==
    \A j \in DOMAIN scopes : \A m \in DOMAIN scopes[j] :
        j < i \/ (j = i /\ m < n) => Variable(scopes, j, m).name # Variable(scopes, i, n).name

LEMMA VisibleIs ==
  ASSUME NEW scopes
  PROVE  \A v : v \in Visible(scopes) <=>
           \E i \in DOMAIN scopes : \E n \in DOMAIN scopes[i] :
             v = Variable(scopes, i, n) /\ First(scopes, i, n)
<1>1. \A p : p \in Places(scopes) <=> \E i \in DOMAIN scopes : \E n \in DOMAIN scopes[i] : p = <<i, n>>
  BY DEF Places
<1> DEFINE name(p) == scopes[p[1]][p[2]].name
           Clear(q) == \A r \in Places(scopes) : Earlier(r, q) => name(r) # name(q)
<1>2. ASSUME NEW i \in DOMAIN scopes, NEW n \in DOMAIN scopes[i]
      PROVE  Clear(<<i, n>>) <=> First(scopes, i, n)
  <2>1. ASSUME NEW j \in DOMAIN scopes, NEW m \in DOMAIN scopes[j]
        PROVE  /\ name(<<j, m>>) = Variable(scopes, j, m).name
               /\ name(<<i, n>>) = Variable(scopes, i, n).name
               /\ Earlier(<<j, m>>, <<i, n>>) <=> j < i \/ (j = i /\ m < n)
    BY DEF Earlier, Variable
  <2>2. Clear(<<i, n>>) <=> \A j \in DOMAIN scopes : \A m \in DOMAIN scopes[j] :
                              Earlier(<<j, m>>, <<i, n>>) => name(<<j, m>>) # name(<<i, n>>)
    <3> HIDE DEF name
    <3> QED
      BY <1>1
  <2>3. ASSUME NEW j \in DOMAIN scopes, NEW m \in DOMAIN scopes[j]
        PROVE  (Earlier(<<j, m>>, <<i, n>>) => name(<<j, m>>) # name(<<i, n>>))
                 <=> (j < i \/ (j = i /\ m < n)
                        => Variable(scopes, j, m).name # Variable(scopes, i, n).name)
    <3> HIDE DEF name
    <3> QED
      BY <2>1
  <2> HIDE DEF Clear, name
  <2> QED
    BY <2>2, <2>3 DEF First
<1>3. \A v : v \in Visible(scopes) <=> \E q \in Places(scopes) : Clear(q) /\ v = scopes[q[1]][q[2]]
  BY DEF Visible
<1>4. \A i, n : scopes[<<i, n>>[1]][<<i, n>>[2]] = Variable(scopes, i, n)
  BY DEF Variable
<1> HIDE DEF Clear
<1>5. ASSUME NEW v
      PROVE  v \in Visible(scopes) <=>
               \E i \in DOMAIN scopes : \E n \in DOMAIN scopes[i] : Clear(<<i, n>>) /\ v = Variable(scopes, i, n)
  <2>1. ASSUME v \in Visible(scopes)
        PROVE  \E i \in DOMAIN scopes : \E n \in DOMAIN scopes[i] :
                 Clear(<<i, n>>) /\ v = Variable(scopes, i, n)
    <3>1. PICK q \in Places(scopes) : Clear(q) /\ v = scopes[q[1]][q[2]]
      BY <1>3, <2>1
    <3>2. PICK i \in DOMAIN scopes : \E n \in DOMAIN scopes[i] : q = <<i, n>>
      BY <1>1
    <3> QED
      BY <1>4, <3>1, <3>2
  <2>2. ASSUME NEW i \in DOMAIN scopes, NEW n \in DOMAIN scopes[i],
               Clear(<<i, n>>), v = Variable(scopes, i, n)
        PROVE  v \in Visible(scopes)
    <3>1. <<i, n>> \in Places(scopes)
      BY <1>1
    <3> QED
      BY <1>3, <1>4, <2>2, <3>1
  <2> QED
    BY <2>1, <2>2
<1> QED
  BY <1>2, <1>5

\* The true locals, by place.
LEMMA TrueIs ==
  ASSUME Own(pc), StackInv, \A i \in DOMAIN Scopes[pc] : i \in Nat \ {0} /\ 1..(i - 1) \subseteq DOMAIN Scopes[pc]
  PROVE  LET scopes == Scopes[pc] IN
         \A l : l \in TrueLocals(0) <=>
           \E i \in DOMAIN scopes : \E n \in DOMAIN scopes[i] :
             LET v == Variable(scopes, i, n) IN
             /\ l = [name |-> v.name, value |-> Meaning(v, pc, calls[Depth].cfa)]
             /\ UsualHere(v, pc)
             /\ \A j \in DOMAIN scopes : \A m \in DOMAIN scopes[j] :
                  j < i => Variable(scopes, j, m).name # v.name
<1> DEFINE scopes == Scopes[pc]
           names(i) == {scopes[i][n].name : n \in DOMAIN scopes[i]}
           ofScope(i) == {v \in {scopes[i][n] : n \in DOMAIN scopes[i]} :
                            UsualHere(v, pc) /\ \A j \in 1..(i - 1) : v.name \notin names(j)}
           local(v) == [name |-> v.name, value |-> Meaning(v, pc, calls[Depth].cfa)]
           Outer(i, v) == \A j \in DOMAIN scopes : \A m \in DOMAIN scopes[j] :
                            j < i => Variable(scopes, j, m).name # v.name
<1>1. Resumes(0) = pc /\ Depth - 0 = Depth
  BY StackTypes DEF Resumes, Depth
<1>2. TrueLocals(0) = {local(v) : v \in UNION {ofScope(i) : i \in DOMAIN scopes}}
  BY <1>1 DEF TrueLocals
<1>3. ASSUME NEW i \in DOMAIN scopes, NEW v
      PROVE  (\A j \in 1..(i - 1) : v.name \notin names(j)) <=> Outer(i, v)
  <2>1. 1..(i - 1) = {j \in DOMAIN scopes : j < i}
    OBVIOUS
  <2>2. (\A j \in 1..(i - 1) : v.name \notin names(j))
          <=> \A j \in DOMAIN scopes : j < i => v.name \notin names(j)
    BY <2>1
  <2> QED
    BY <2>2 DEF Variable
<1>4. \A i \in DOMAIN scopes : \A v : v \in ofScope(i) <=>
        \E n \in DOMAIN scopes[i] : v = Variable(scopes, i, n) /\ UsualHere(v, pc) /\ Outer(i, v)
  BY <1>3 DEF Variable
<1> HIDE DEF ofScope, local, Outer
<1>5. \A l : l \in TrueLocals(0) <=> \E i \in DOMAIN scopes : \E v \in ofScope(i) : l = local(v)
  BY <1>2
<1>6. \A l : l \in TrueLocals(0) <=>
        \E i \in DOMAIN scopes : \E n \in DOMAIN scopes[i] :
          /\ l = local(Variable(scopes, i, n)) /\ UsualHere(Variable(scopes, i, n), pc)
          /\ Outer(i, Variable(scopes, i, n))
  BY <1>4, <1>5
<1> QED
  BY <1>6 DEF local, Outer

\* What info locals makes of the variables it sees.
LEMMA LocalsShown ==
  ASSUME Locations, StackInv, Own(pc), Numbers, selected = 0
  PROVE  LET scopes == Scopes[pc] IN
         /\ InfoLocals \subseteq {[variable |-> v, value |-> Evaluate(v)] : v \in Visible(scopes)}
         /\ (\A v \in Visible(scopes) : ~Relocated(v, pc)) =>
              InfoLocals = {[variable |-> v, value |-> Evaluate(v)] : v \in Visible(scopes)}
         /\ \A i \in DOMAIN scopes : \A n \in DOMAIN scopes[i] :
              LET v == Variable(scopes, i, n) IN
              UsualHere(v, pc) =>
                \E w : Evaluate(v) = Value(w) /\ OwnBytes(v, w) = Meaning(v, pc, calls[Depth].cfa)
<1> DEFINE scopes == Scopes[pc]
           values == {[variable |-> v, value |-> Evaluate(v)] : v \in Visible(scopes)}
<1>1. pc \in Addr
  BY StackTypes
<1>2. ASSUME NEW i \in DOMAIN scopes, NEW n \in DOMAIN scopes[i]
      PROVE  LET v == Variable(scopes, i, n) IN
             /\ UsualHere(v, pc) =>
                  \E w : Evaluate(v) = Value(w) /\ OwnBytes(v, w) = Meaning(v, pc, calls[Depth].cfa)
             /\ Relocated(v, pc) \/ Evaluate(v).kind # "throws"
  <2> DEFINE v == Variable(scopes, i, n)
             Right == \E w : Evaluate(v) = Value(w) /\ OwnBytes(v, w) = Meaning(v, pc, calls[Depth].cfa)
  <2>1. /\ v.half \in {0, 1} /\ Len(v.ops) \in Nat /\ DOMAIN v.ops = 1..Len(v.ops)
        /\ \A k \in DOMAIN v.ops : v.ops[k].number \in Int /\ v.ops[k].number2 \in Int
        /\ Relocated(v, pc) \/ IF Usual(v.ops) THEN UsualLocation(v) ELSE UnusualLocation(v)
    BY <1>1, ScopesTyped
  <2> HIDE DEF v
  <2>2. CASE Relocated(v, pc)
    BY <2>2 DEF UsualHere, v
  <2>3. CASE ~Relocated(v, pc) /\ Usual(v.ops)
    <3>1. UsualLocation(v)
      BY <2>1, <2>3
    <3>2. Right
      BY <2>1, <2>3, <3>1, UsualRight
    <3>3. Evaluate(v).kind # "throws"
      BY <3>2 DEF Value
    <3> QED
      BY <3>2, <3>3 DEF v
  <2>4. CASE ~Relocated(v, pc) /\ ~Usual(v.ops)
    <3>1. UnusualLocation(v)
      BY <2>1, <2>4
    <3>2. Evaluate(v).kind # "throws"
      BY <2>1, <3>1, UnusualQuiet
    <3> QED
      BY <2>4, <3>2 DEF UsualHere, v
  <2> QED
    BY <2>2, <2>3, <2>4
<1>3. InfoLocals = IF LocalsAvailable /\ \A l \in values : l.value.kind # "throws" THEN values ELSE {}
  BY DEF InfoLocals
<1>4. ASSUME \A v \in Visible(scopes) : ~Relocated(v, pc)
      PROVE  \A l \in values : l.value.kind # "throws"
  <2>1. ASSUME NEW v \in Visible(scopes)
        PROVE  Evaluate(v).kind # "throws"
    <3>1. PICK i \in DOMAIN scopes : \E n \in DOMAIN scopes[i] : v = Variable(scopes, i, n)
      BY VisibleIs
    <3>2. PICK n \in DOMAIN scopes[i] : v = Variable(scopes, i, n)
      BY <3>1
    <3>3. Relocated(v, pc) \/ Evaluate(v).kind # "throws"
      BY <1>2, <3>2
    <3> QED
      BY <1>4, <3>3
  <2> QED
    BY <2>1
<1>5. LocalsAvailable
  BY DEF LocalsAvailable
<1> HIDE DEF values
<1>6. InfoLocals \subseteq values /\ ((\A v \in Visible(scopes) : ~Relocated(v, pc)) => InfoLocals = values)
  BY <1>3, <1>4, <1>5
<1> QED
  BY <1>2, <1>6 DEF values

\* No other variable of the name of a visible one is visible.
LEMMA VisibleOnce ==
  ASSUME Locations, NEW a \in Addr,
         NEW i \in DOMAIN Scopes[a], NEW n \in DOMAIN Scopes[a][i], First(Scopes[a], i, n),
         NEW j \in DOMAIN Scopes[a], NEW m \in DOMAIN Scopes[a][j], First(Scopes[a], j, m),
         Variable(Scopes[a], i, n).name = Variable(Scopes[a], j, m).name
  PROVE  i = j /\ n = m
<1>1. i \in Nat /\ j \in Nat /\ n \in Nat /\ m \in Nat
  BY ScopesTyped
<1>2. ~(j < i) /\ ~(i < j) /\ ~(j = i /\ m < n) /\ ~(i = j /\ n < m)
  BY DEF First
<1> QED
  BY <1>1, <1>2

\* Where no scope further in declares the name, the variable is visible.
LEMMA FirstIs ==
  ASSUME Locations, NEW a \in Addr, NEW i \in DOMAIN Scopes[a], NEW n \in DOMAIN Scopes[a][i]
  PROVE  First(Scopes[a], i, n) <=>
           \A j \in DOMAIN Scopes[a] : \A m \in DOMAIN Scopes[a][j] :
             j < i => Variable(Scopes[a], j, m).name # Variable(Scopes[a], i, n).name
<1>1. \A m \in DOMAIN Scopes[a][i] :
        Variable(Scopes[a], i, m).name = Variable(Scopes[a], i, n).name => m = n
  BY DEF Locations, Variable
<1>2. n \in Nat /\ ~(n < n)
  BY ScopesTyped
<1> QED
  BY <1>1, <1>2 DEF First

\* What info locals prints of a variable of usual location, in its own bytes, is
\* one of the true locals.
LEMMA LocalsStep ==
  ASSUME Locations, StackInv, Own(pc), Numbers, selected = 0
  PROVE  /\ UsualLocals \subseteq TrueLocals(0)
         /\ (\A v \in Visible(Scopes[pc]) : ~Relocated(v, pc)) => UsualLocals = TrueLocals(0)
<1> DEFINE scopes == Scopes[pc]
           local(v) == [name |-> v.name, value |-> Meaning(v, pc, calls[Depth].cfa)]
           shown(v) == [variable |-> v, value |-> Evaluate(v)]
           printed(l) == [name |-> l.variable.name, value |-> OwnBytes(l.variable, l.value.value)]
           var(i, n) == Variable(scopes, i, n)
<1>1. pc \in Addr
  BY StackTypes
<1>2. \A l : l \in TrueLocals(0) <=>
        \E i \in DOMAIN scopes : \E n \in DOMAIN scopes[i] :
          l = local(var(i, n)) /\ UsualHere(var(i, n), pc) /\ First(scopes, i, n)
  <2>1. \A i \in DOMAIN scopes : \A n \in DOMAIN scopes[i] :
          First(scopes, i, n) <=>
            \A j \in DOMAIN scopes : \A m \in DOMAIN scopes[j] : j < i => var(j, m).name # var(i, n).name
    BY <1>1, FirstIs
  <2>2. \A i \in DOMAIN scopes : i \in Nat \ {0} /\ 1..(i - 1) \subseteq DOMAIN scopes
    BY <1>1, ScopesTyped
  <2>3. \A l : l \in TrueLocals(0) <=>
          \E i \in DOMAIN scopes : \E n \in DOMAIN scopes[i] :
            /\ l = local(var(i, n)) /\ UsualHere(var(i, n), pc)
            /\ \A j \in DOMAIN scopes : \A m \in DOMAIN scopes[j] : j < i => var(j, m).name # var(i, n).name
    BY <2>2, TrueIs
  <2> HIDE DEF var, local
  <2> QED
    BY <2>1, <2>3
<1>3. /\ InfoLocals \subseteq {shown(v) : v \in Visible(scopes)}
      /\ (\A v \in Visible(scopes) : ~Relocated(v, pc)) =>
           InfoLocals = {shown(v) : v \in Visible(scopes)}
  BY LocalsShown
<1>4. ASSUME NEW i \in DOMAIN scopes, NEW n \in DOMAIN scopes[i], UsualHere(var(i, n), pc)
      PROVE  printed(shown(var(i, n))) = local(var(i, n)) /\ shown(var(i, n)).value.kind = "value"
  <2>1. PICK w : Evaluate(var(i, n)) = Value(w)
                 /\ OwnBytes(var(i, n), w) = Meaning(var(i, n), pc, calls[Depth].cfa)
    BY <1>4, LocalsShown
  <2> HIDE DEF var
  <2> QED
    BY <2>1 DEF Value
<1>5. \A v : v \in Visible(scopes) <=>
        \E i \in DOMAIN scopes : \E n \in DOMAIN scopes[i] : v = var(i, n) /\ First(scopes, i, n)
  BY VisibleIs
<1>6. \A v : shown(v).variable = v
  OBVIOUS
<1>7. UsualLocals = {printed(l) : l \in {m \in InfoLocals : UsualHere(m.variable, pc)
                                                        /\ m.value.kind = "value"}}
  BY DEF UsualLocals
<1> HIDE DEF local, shown, printed, var, scopes
<1>8. ASSUME NEW l \in UsualLocals
      PROVE  l \in TrueLocals(0)
  <2>1. PICK m \in InfoLocals : l = printed(m) /\ UsualHere(m.variable, pc)
    BY <1>7
  <2>2. PICK v \in Visible(scopes) : m = shown(v)
    BY <1>3
  <2>3. l = printed(shown(v)) /\ UsualHere(v, pc)
    BY <1>6, <2>1, <2>2
  <2>4. PICK i \in DOMAIN scopes : \E n \in DOMAIN scopes[i] : v = var(i, n) /\ First(scopes, i, n)
    BY <1>5
  <2>5. PICK n \in DOMAIN scopes[i] : v = var(i, n) /\ First(scopes, i, n)
    BY <2>4
  <2>6. l = local(var(i, n))
    BY <1>4, <2>3, <2>5
  <2> QED
    BY <1>2, <2>3, <2>5, <2>6
<1>9. ASSUME \A v \in Visible(scopes) : ~Relocated(v, pc), NEW l \in TrueLocals(0)
      PROVE  l \in UsualLocals
  <2>1. PICK i \in DOMAIN scopes : \E n \in DOMAIN scopes[i] :
          l = local(var(i, n)) /\ UsualHere(var(i, n), pc) /\ First(scopes, i, n)
    BY <1>2
  <2>2. PICK n \in DOMAIN scopes[i] :
          l = local(var(i, n)) /\ UsualHere(var(i, n), pc) /\ First(scopes, i, n)
    BY <2>1
  <2>3. shown(var(i, n)) \in InfoLocals
    BY <1>3, <1>5, <1>9, <2>2
  <2>4. l = printed(shown(var(i, n))) /\ shown(var(i, n)).value.kind = "value"
    BY <1>4, <2>2
  <2>5. UsualHere(shown(var(i, n)).variable, pc)
    BY <1>6, <2>2
  <2> QED
    BY <1>7, <2>3, <2>4, <2>5
<1> QED
  BY <1>8, <1>9 DEF scopes

\* The numbers stay numbers.
NumbersKept == phase # "tampered" => Numbers

LEMMA NumbersAlways == Spec => []NumbersKept
<1>1. Init => NumbersKept
  <2> SUFFICES ASSUME StackInit PROVE Numbers
    BY DEF Init, NumbersKept
  <2>1. Libc \in Addr /\ Addr \subseteq Int
    BY StackAssumption
  <2>2. rbx = 0 /\ stack = [w \in Low..Top |-> IF w = Top THEN Libc ELSE 0]
    BY DEF StackInit
  <2> QED
    BY <2>1, <2>2 DEF Numbers
<1>2. FramesInv /\ NumbersKept /\ [Next]_vars => NumbersKept'
  <2> SUFFICES ASSUME FramesInv, NumbersKept, [Next]_vars, phase # "tampered" PROVE Numbers'
    BY DEF NumbersKept, Next, vars, debugger, Break, Delete, EnableDisable, SelectFrame, SetMemory,
           RegisterWrite, Continue, StepOut, TargetRuns, TargetExits, Stop, AtPrompt
  <2>1. StackInv /\ Numbers
    BY DEF FramesInv, Shaped, NumbersKept
  <2>2. Len(calls) \in Int /\ fp \in Int /\ stack = [w \in Low..Top |-> stack[w]]
    <3>1. Len(calls) \in 0..MaxDepth /\ fp \in (Low..Top) \cup {0, 1}
      BY <2>1, StackTypes
    <3>2. MaxDepth \in Nat /\ Low \in Nat /\ Top \in Nat
      BY StackAssumption
    <3> QED
      BY <2>1, <3>1, <3>2 DEF StackInv, Activations
  <2>3. \A a, v : v \in Int /\ stack' = [stack EXCEPT ![a] = v] => \A w \in Low..Top : stack'[w] \in Int
    BY <2>1, <2>2, Written DEF Numbers, StackInv
  <2>4. CASE \E name \in UserRegisters : RegisterWrite(name)
    BY <2>1, <2>4, FramesAssumption DEF RegisterWrite, Numbers
  <2>5. CASE \E a \in UserWords : SetMemory(a)
    <3>1. UserValue \in Int /\ rbx' = rbx
      BY <2>5, FramesAssumption DEF SetMemory
    <3>2. PICK a \in UserWords : stack' = IF a = Global THEN stack ELSE [stack EXCEPT ![a] = UserValue]
      BY <2>5 DEF SetMemory
    <3> QED
      BY <2>1, <2>3, <3>1, <3>2 DEF Numbers
  <2>6. CASE TargetRuns
    <3>1. rbx' \in Int
      BY <2>1, <2>2, <2>6 DEF TargetRuns, Instruction, Push, Frame, Store, Call, Plain, Leave, Ret, Numbers
    <3>2. pc \in Addr
      BY <2>1, StackTypes
    <3>3. CASE Push
      BY <2>2, <2>3, <3>1, <3>3 DEF Push, Numbers
    <3>4. CASE Store
      <4>1. Slot[pc] \in Int
        BY <3>2, <3>4, ShapeAssumption, StackAssumption DEF Store
      <4>2. Len(calls) - Slot[pc] + Wide * Len(calls) \in Int
        BY <2>2, <4>1 DEF Wide
      <4> QED
        BY <2>3, <3>1, <3>4, <4>2 DEF Store, Numbers
    <3>5. CASE Call
      <4>1. PICK ret \in Succ[pc] : stack' = [stack EXCEPT ![sp - 1] = ret]
        BY <3>5 DEF Call
      <4>2. ret \in Int
        BY <3>2, <4>1, CodeAssumption, StackAssumption
      <4> QED
        BY <2>3, <3>1, <4>1, <4>2 DEF Numbers
    <3>6. CASE Leave
      BY <2>1, <3>1, <3>6 DEF Leave, Numbers
    <3>7. CASE Ret
      <4>1. stack' = [stack EXCEPT ![sp] = 0] /\ 0 \in Int
        BY <3>7 DEF Ret
      <4> QED
        BY <2>3, <3>1, <4>1 DEF Numbers
    <3>8. CASE Frame \/ Plain
      BY <2>1, <3>1, <3>8 DEF Frame, Plain, Numbers
    <3> QED
      BY <2>6, <3>3, <3>4, <3>5, <3>6, <3>7, <3>8 DEF TargetRuns, Instruction
  <2>7. CASE \/ UNCHANGED vars
             \/ \E a \in Addr :
                  Break(a) \/ Delete(a) \/ EnableDisable(a, "on") \/ EnableDisable(a, "off")
             \/ \E n \in 0..1 : SelectFrame(n)
             \/ Continue \/ StepOut \/ TargetExits \/ Stop
    <3>1. UNCHANGED cpu
      BY <2>7 DEF vars, Break, Delete, EnableDisable, SelectFrame, Continue, StepOut,
                  TargetExits, Stop
    <3> QED
      BY <2>1, <3>1 DEF cpu, Numbers
  <2> QED
    BY <2>4, <2>5, <2>6, <2>7 DEF Next
<1> QED
  BY <1>1, <1>2, FramesInvariant, PTL DEF Spec

\* At every stop in a function's body, what info locals prints of a variable with a
\* usual location has in its lower bytes, as many as the variable has, the value in
\* the innermost activation, an inner variable hiding an outer one of its name; and it
\* prints each of them, whatever other locations there are, unless one in scope has
\* an address that was relocated.
THEOREM LocalsRightAlways == Locations => (Spec => []LocalsRight)
<1> SUFFICES ASSUME Locations PROVE Spec => []LocalsRight
  OBVIOUS
<1>1. FramesInv /\ NumbersKept => LocalsRight
  <2> SUFFICES ASSUME FramesInv, NumbersKept, AtPrompt, Own(pc)
               PROVE  /\ UsualLocals \subseteq TrueLocals(selected)
                      /\ selected = 0 /\ (\A v \in Visible(Scopes[pc]) : ~Relocated(v, pc)) =>
                           UsualLocals = TrueLocals(0)
    BY DEF LocalsRight
  <2>1. StackInv /\ Numbers
    BY DEF FramesInv, Shaped, NumbersKept, AtPrompt
  <2>2. CASE selected = 0
    BY <2>1, <2>2, LocalsStep
  <2>3. CASE selected # 0
    BY <2>3 DEF UsualLocals, InfoLocals, LocalsAvailable
  <2> QED
    BY <2>2, <2>3
<1> QED
  BY <1>1, FramesInvariant, NumbersAlways, PTL
===============================================================================
