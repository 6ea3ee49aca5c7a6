------------------------------ MODULE MCDebugger ------------------------------
(* Instances of Debugger: small programs, given as instruction graphs.        *)
EXTENDS Debugger, TLC

Function(default, exceptions) ==
    [a \in Addr |-> IF a \in DOMAIN exceptions THEN exceptions[a] ELSE default]

\* 10 goes one of two ways to 50, where a thread calls exit_group: 20 maps a library,
\* 30 runs in it; or 60 clones a thread, which begins at 70 and may end at 80.
\* Instructions are longer than a trap.
BothCode == {10, 20, 30, 40, 50, 60, 70, 80}
BothOp == Function("plain", (20 :> "map") @@ (50 :> "exit_group") @@ (60 :> "clone")
                            @@ (80 :> "exit"))
BothSucc == (10 :> {20, 60}) @@ (20 :> {30}) @@ (30 :> {40}) @@ (40 :> {70}) @@ (50 :> {50})
            @@ (60 :> {70}) @@ (70 :> {50, 80}) @@ (80 :> {80})
BothLine == [a \in BothCode |-> 1]

\* Two threads: 10 clones; the creator goes 20, 30 and exits the group; the
\* other one goes 20 and ends at 40.
ThreadCode == {10, 20, 30, 40}
ThreadOp == Function("plain", (10 :> "clone") @@ (30 :> "exit_group") @@ (40 :> "exit"))
ThreadSucc == (10 :> {20}) @@ (20 :> {30, 40}) @@ (30 :> {30}) @@ (40 :> {40})
ThreadLine == [a \in ThreadCode |-> 1]

\* The same with a loop through 25, which a thread may never leave.  (A thread
\* that looped at one address would only stutter, and fairness end its loop.)
LoopCode == ThreadCode \cup {25}
LoopSucc == Function({25}, (25 :> {20, 30, 40}) @@ [a \in LoopCode \ {20, 25} |-> ThreadSucc[a]])
LoopLine == [a \in LoopCode |-> 1]
===============================================================================
