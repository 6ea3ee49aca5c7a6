------------------------------- MODULE MCFrames -------------------------------
(* An instance of Frames: main calls f, which stores a local, then another of *)
(* the same name in an inner block, and calls itself or returns.  Addresses   *)
(* are spaced as the instructions of x86-64 are.                              *)
EXTENDS Frames, TLC

MainOp == (100 :> "push") @@ (101 :> "frame") @@ (105 :> "call") @@ (110 :> "leave")
          @@ (111 :> "ret") @@ (900 :> "exit")
FOp == (200 :> "push") @@ (201 :> "frame") @@ (205 :> "store") @@ (210 :> "store")
       @@ (215 :> "plain") @@ (220 :> "call") @@ (225 :> "plain") @@ (230 :> "leave")
       @@ (231 :> "ret")
Code == MainOp @@ FOp
Instructions == DOMAIN Code
Flow == (100 :> {101}) @@ (101 :> {105}) @@ (105 :> {110}) @@ (110 :> {111})
        @@ (111 :> {}) @@ (900 :> {})
        @@ (200 :> {201}) @@ (201 :> {205}) @@ (205 :> {210}) @@ (210 :> {215})
        @@ (215 :> {220, 230}) @@ (220 :> {225}) @@ (225 :> {230}) @@ (230 :> {231})
        @@ (231 :> {})
Slots == [a \in Instructions |-> IF a = 210 THEN -2 ELSE -1]

\* What libdw makes of an operation; fbreg is an offset from the frame base.
Operand(atom, number) == [atom |-> atom, atomRegister |-> 0, number |-> number, number2 |-> 0]
InAtom(atom, n, number) == [Operand(atom, number) EXCEPT !.atomRegister = n]
Variable(name, ops) == [name |-> name, ops |-> ops, bytes |-> 8, half |-> 0]
Int32(name, half, ops) == [Variable(name, ops) EXCEPT !.bytes = 4, !.half = half]
\* Two ints share the first word of the locals.
OuterLocal == Int32("n", 1, <<Operand("fbreg", -3)>>)
OtherLocal == Int32("m", 0, <<Operand("fbreg", -3)>>)
InnerLocal == Variable("n", <<Operand("fbreg", -4)>>)
InRegister == Variable("r", <<InAtom("reg", 3, 0)>>)
\* Passed by reference, relative to a register, in pieces, in a vector register.
ByReference == Variable("p", <<Operand("fbreg", -2), Operand("deref", 0)>>)
Relative == Variable("q", <<InAtom("breg", 6, -8)>>)
InPieces == Variable("u", <<Operand("piece", 4)>>)
Unknown == Variable("v", <<Operand("regx", 17)>>)
OfFunction == <<OuterLocal, OtherLocal, InRegister, ByReference, Relative, InPieces, Unknown>>
\* Of the unit of main, which is not relocated: a variable, a constant address, and
\* an outer n; and of a block of f, which is: a static variable.
GlobalVariable == Variable("g", <<Operand("addr", 300)>>)
Constant == Variable("k", <<Operand("addr", 300), Operand("plus_uconst", 2),
                            Operand("stack_value", 0)>>)
OfUnit == <<GlobalVariable, Constant, Int32("n", 0, <<Operand("addr", 300)>>)>>
StaticLocal == Variable("s", <<Operand("addr", 150)>>)
Variables ==
    [a \in Instructions |->
        IF a \in DOMAIN MainOp THEN << <<InRegister>>, OfUnit>>
        ELSE IF a \in 210..224 THEN << <<InnerLocal>>, OfFunction>>
        ELSE IF a \in 225..229 THEN << <<InnerLocal, StaticLocal>>, OfFunction>>
        ELSE <<OfFunction>>]
Biases == [a \in Instructions |-> IF a \in DOMAIN FOp THEN 150 ELSE 0]

ASSUME MCLocationAssumption == Locations
===============================================================================
