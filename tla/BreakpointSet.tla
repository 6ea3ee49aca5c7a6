---------------------------- MODULE BreakpointSet ----------------------------
(***************************************************************************)
(* What a user of cosy is promised about breakpoints, as far as the list   *)
(* that `info break' prints can tell: every breakpoint has a number, by    *)
(* which delete, enable and disable name it; numbers are handed out in     *)
(* order and never again; an address is listed once; a line keeps its      *)
(* number and its place for as long as it is there; and one line changes   *)
(* at a time, save at quit, which may only switch breakpoints off.         *)
(*                                                                         *)
(* Module Breakpoints implements this specification.                       *)
(***************************************************************************)
EXTENDS Integers

CONSTANTS
    Place,     \* addresses a breakpoint may stand at
    Wish       \* specifications that may wait for a library

VARIABLES
    listed,    \* the lines of the list
    last,      \* the last number handed out
    closed     \* quit was given

listVars == <<listed, last, closed>>

ListedAt(a) == \E r \in listed : r.status # "pending" /\ r.at = a

New(at, status) ==
    /\ last' = last + 1
    /\ listed' = listed \cup {[num |-> last + 1, at |-> at, status |-> status]}
    /\ UNCHANGED closed

Add(a) ==
    /\ \E status \in {"enabled", "disabled"} : New(a, status)
    /\ ~ListedAt(a)

AddPending(w) == New(w, "pending")

\* delete, a temporary breakpoint that was hit, or a pending one that resolved.
Drop(line) ==
    /\ listed' = listed \ {line}
    /\ UNCHANGED <<last, closed>>

Switched(line, status) == [num |-> line.num, at |-> line.at, status |-> status]

Switch(line) ==
    /\ line.status # "pending"
    /\ \E status \in {"enabled", "disabled"} :
         listed' = (listed \ {line}) \cup {Switched(line, status)}
    /\ UNCHANGED <<last, closed>>

Close ==
    /\ closed' = TRUE /\ last' = last
    /\ \E off \in SUBSET {r \in listed : r.status = "enabled"} :
         listed' = (listed \ off) \cup {Switched(r, "disabled") : r \in off}

Init == listed = {} /\ last = 0 /\ closed = FALSE

Next ==
    /\ ~closed
    /\ \/ \E a \in Place : Add(a)
       \/ \E w \in Wish : AddPending(w)
       \/ \E line \in listed \ listed' : Drop(line) \/ Switch(line)
       \/ Close

Spec == Init /\ [][Next]_listVars

-----------------------------------------------------------------------------
\* A number names one line, and none is named by a number to come.
NumbersUnique ==
    /\ last \in Nat
    /\ \A r, s \in listed : r.num = s.num => r = s
    /\ \A r \in listed : r.num \in 1..last
=============================================================================
