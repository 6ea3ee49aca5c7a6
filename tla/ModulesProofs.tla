----------------------------- MODULE ModulesProofs -----------------------------
(* Proofs about module Modules: what the table holds for any target, and what  *)
(* its answers are worth for one laid out as usual.                            *)
EXTENDS Modules, Induction, FiniteSetTheorems, SequenceTheorems, TLAPS

-----------------------------------------------------------------------------
(* Sets and sequences.                                                     *)

\* A finite set of numbers has a greatest one.
LEMMA Greatest ==
  ASSUME NEW S \in SUBSET Int, IsFiniteSet(S), S # {}
  PROVE  \E x \in S : \A y \in S : y <= x
<1> DEFINE Has(T) == \E x \in T : \A y \in T : y <= x
           N == {n \in Nat : \A T \in SUBSET Int :
                   IsFiniteSet(T) /\ Cardinality(T) = n + 1 => Has(T)}
<1>1. 0 \in N
  <2>1. ASSUME NEW T \in SUBSET Int, IsFiniteSet(T), Cardinality(T) = 0 + 1
        PROVE  Has(T)
    <3>1. Cardinality(T) = 1
      BY <2>1
    <3>2. PICK x : T = {x}
      BY <2>1, <3>1, FS_Singleton
    <3> QED
      BY <3>2
  <2> QED
    BY <2>1
<1>2. ASSUME NEW n \in Nat, n \in N
      PROVE  n + 1 \in N
  <2>1. ASSUME NEW T \in SUBSET Int, IsFiniteSet(T), Cardinality(T) = n + 1 + 1
        PROVE  Has(T)
    <3>1. T # {}
      BY <2>1, FS_EmptySet
    <3>2. PICK z \in T : TRUE
      BY <3>1
    <3>3. IsFiniteSet(T \ {z}) /\ Cardinality(T \ {z}) = n + 1
      BY <2>1, FS_RemoveElement
    <3>4. Has(T \ {z})
      BY <1>2, <3>3
    <3>5. PICK x \in T \ {z} : \A y \in T \ {z} : y <= x
      BY <3>4
    <3>6. CASE z <= x
      BY <3>5, <3>6
    <3>7. CASE ~(z <= x)
      BY <3>2, <3>5, <3>7
    <3> QED
      BY <3>6, <3>7
  <2> QED
    BY <2>1
<1> HIDE DEF N
<1>3. Nat \subseteq N
  BY <1>1, <1>2, SetInduction
<1>4. Cardinality(S) \in Nat /\ Cardinality(S) # 0
  BY FS_CardinalityType, FS_EmptySet
<1>5. Cardinality(S) - 1 \in Nat /\ Cardinality(S) = (Cardinality(S) - 1) + 1
  BY <1>4
<1> QED
  BY <1>3, <1>5 DEF N

LEMMA MaxFacts ==
  ASSUME NEW S \in SUBSET Int, IsFiniteSet(S), S # {}
  PROVE  Max(S) \in S /\ \A y \in S : y <= Max(S)
<1>1. PICK x \in S : \A y \in S : y <= x
  BY Greatest
<1>2. \A y \in S : x >= y
  BY <1>1
<1> QED
  BY <1>1, <1>2 DEF Max

LEMMA MinFacts ==
  ASSUME NEW S \in SUBSET Int, IsFiniteSet(S), S # {}
  PROVE  Min(S) \in S /\ \A y \in S : Min(S) <= y
<1> DEFINE T == {-x : x \in S}
           minus == [x \in S |-> -x]
<1>1. minus \in Surjection(S, T)
  BY DEF Surjection
<1>2. IsFiniteSet(T) /\ T # {} /\ T \in SUBSET Int
  <2>1. T # {} /\ T \in SUBSET Int
    OBVIOUS
  <2> HIDE DEF minus, T
  <2>2. IsFiniteSet(T)
    BY <1>1, FS_Surjection
  <2> QED
    BY <2>1, <2>2
<1>3. PICK z \in T : \A y \in T : y <= z
  BY <1>2, Greatest
<1>4. PICK x \in S : z = -x
  BY <1>3
<1>5. ASSUME NEW y \in S
      PROVE  x <= y
  <2>1. -y \in T
    OBVIOUS
  <2>2. -y <= -x
    BY <1>3, <1>4, <2>1
  <2> QED
    BY <2>2
<1> QED
  BY <1>4, <1>5 DEF Min

\* The files to open are each in the order once.
LEMMA OrderFacts ==
  ASSUME NEW S, IsFiniteSet(S), NEW s \in SetToSeqs(S)
  PROVE  /\ s \in Seq(S) /\ Len(s) = Cardinality(S)
         /\ \A i, j \in 1..Len(s) : s[i] = s[j] => i = j
         /\ \A x \in S : \E i \in 1..Len(s) : s[i] = x
<1> DEFINE n == Cardinality(S)
<1>1. n \in Nat
  BY FS_CardinalityType
<1>2. s \in [1..n -> S] /\ \A i, j \in 1..n : s[i] = s[j] => i = j
  BY DEF SetToSeqs
<1>3. s \in Seq(S) /\ Len(s) = n
  BY <1>1, <1>2
<1>4. s \in Injection(1..n, S)
  BY <1>2 DEF Injection, IsInjective
<1>5. Cardinality(1..n) = n
  BY <1>1, FS_Interval
<1>6. s \in Surjection(1..n, S)
  BY <1>4, <1>5, FS_Injection
<1> QED
  BY <1>2, <1>3, <1>6 DEF Surjection

\* A sequence without repetitions is no longer than the set it is over, and shorter
\* if it lacks a member.
LEMMA InjectiveLength ==
  ASSUME NEW S, IsFiniteSet(S), NEW s \in Seq(S), \A i, j \in 1..Len(s) : s[i] = s[j] => i = j
  PROVE  /\ Len(s) <= Cardinality(S)
         /\ \A x \in S : (\A i \in 1..Len(s) : s[i] # x) => Len(s) < Cardinality(S)
<1>1. Len(s) \in Nat /\ Cardinality(1..Len(s)) = Len(s) /\ Cardinality(S) \in Nat
  <2>1. Len(s) \in Nat /\ 1 \in Int /\ Len(s) \in Int
    OBVIOUS
  <2>2. Cardinality(1..Len(s)) = IF 1 > Len(s) THEN 0 ELSE Len(s) - 1 + 1
    BY <2>1, FS_Interval
  <2> QED
    BY <2>1, <2>2, FS_CardinalityType
<1>2. s \in Injection(1..Len(s), S)
  BY DEF Injection, IsInjective
<1>3. /\ Len(s) <= Cardinality(S)
      /\ Len(s) = Cardinality(S) => s \in Surjection(1..Len(s), S)
  BY <1>1, <1>2, FS_Injection
<1> QED
  BY <1>1, <1>3 DEF Surjection

\* The loop of refresh() leaves the ELF files, in their order.
LEMMA ParseFacts ==
  ASSUME NEW s \in Seq(File), \A i, j \in 1..Len(s) : s[i] = s[j] => i = j
  PROVE  /\ Parse(s) \in Seq({f \in File : Elf(f)}) /\ Len(Parse(s)) <= Len(s)
         /\ \A i, j \in 1..Len(Parse(s)) : Parse(s)[i] = Parse(s)[j] => i = j
         /\ \A i \in 1..Len(Parse(s)) : \E j \in 1..Len(s) : Parse(s)[i] = s[j]
         /\ \A j \in 1..Len(s) : Elf(s[j]) => \E i \in 1..Len(Parse(s)) : Parse(s)[i] = s[j]
<1> DEFINE Loop(g, m) ==
             g = [n \in 0..m |-> IF n = 0 THEN << >>
                                 ELSE IF Elf(s[n]) THEN Append(g[n - 1], s[n]) ELSE g[n - 1]]
           Done(p, m) ==
             /\ p \in Seq({f \in File : Elf(f)}) /\ Len(p) <= m
             /\ \A i, j \in 1..Len(p) : p[i] = p[j] => i = j
             /\ \A i \in 1..Len(p) : \E j \in 1..m : p[i] = s[j]
             /\ \A j \in 1..m : Elf(s[j]) => \E i \in 1..Len(p) : p[i] = s[j]
           S == {m \in Nat : \E g : Loop(g, m)}
<1>1. Len(s) \in Nat
  OBVIOUS
<1>2. 0 \in S
  <2>1. Loop([n \in 0..0 |-> << >>], 0)
    OBVIOUS
  <2> QED
    BY <2>1
<1>3. ASSUME NEW m \in 0..(Len(s) - 1), m \in S
      PROVE  m + 1 \in S
  <2>1. PICK g : Loop(g, m)
    BY <1>3
  <2> DEFINE last == IF Elf(s[m + 1]) THEN Append(g[m], s[m + 1]) ELSE g[m]
             h == [n \in 0..(m + 1) |-> IF n = m + 1 THEN last ELSE g[n]]
             next == [n \in 0..(m + 1) |-> IF n = 0 THEN << >>
                        ELSE IF Elf(s[n]) THEN Append(h[n - 1], s[n]) ELSE h[n - 1]]
  <2>2. ASSUME NEW n \in 0..(m + 1)
        PROVE  h[n] = next[n]
    <3>1. CASE n = m + 1
      <4>1. m \in 0..(m + 1) /\ m # m + 1 /\ n # 0 /\ n - 1 = m
        BY <1>1, <3>1
      <4>2. h[m] = g[m]
        BY <4>1
      <4> QED
        BY <3>1, <4>1, <4>2
    <3>2. CASE n # m + 1
      <4>1. n \in 0..m
        BY <1>1, <3>2
      <4>2. g[n] = IF n = 0 THEN << >>
                   ELSE IF Elf(s[n]) THEN Append(g[n - 1], s[n]) ELSE g[n - 1]
        BY <2>1, <4>1
      <4>3. n # 0 => n - 1 \in 0..(m + 1) /\ n - 1 # m + 1
        BY <4>1
      <4>4. h[n] = g[n] /\ (n # 0 => h[n - 1] = g[n - 1])
        BY <3>2, <4>3
      <4> HIDE DEF h
      <4> QED
        BY <4>2, <4>4
    <3> QED
      BY <3>1, <3>2
  <2>3. Loop(h, m + 1)
    BY <2>2
  <2>4. m + 1 \in Nat
    BY <1>1
  <2> HIDE DEF h, Loop
  <2> QED
    BY <2>3, <2>4
<1> HIDE DEF S
<1>4. Len(s) \in S
  <2>1. 0..Len(s) \subseteq S
    BY <1>1, <1>2, <1>3, BoundedInduction
  <2> QED
    BY <1>1, <2>1
<1> DEFINE g == CHOOSE g : Loop(g, Len(s))
<1>5. Loop(g, Len(s)) /\ Parse(s) = g[Len(s)]
  BY <1>4 DEF S, Parse
<1> HIDE DEF g
<1>6. \A n \in 0..Len(s) :
        g[n] = IF n = 0 THEN << >>
               ELSE IF Elf(s[n]) THEN Append(g[n - 1], s[n]) ELSE g[n - 1]
  BY <1>5
<1> HIDE DEF Loop
<1> DEFINE D == {n \in 0..Len(s) : Done(g[n], n)}
<1>7. 0 \in D
  <2>1. g[0] = << >> /\ 0 \in 0..Len(s)
    BY <1>1, <1>6
  <2>2. Done(<< >>, 0)
    OBVIOUS
  <2> HIDE DEF Done
  <2> QED
    BY <2>1, <2>2
<1>8. ASSUME NEW n \in 0..(Len(s) - 1), n \in D
      PROVE  n + 1 \in D
  <2>1. n \in Nat /\ n + 1 \in 1..Len(s) /\ n + 1 \in 0..Len(s) /\ n + 1 # 0 /\ n + 1 - 1 = n
    BY <1>1
  <2>2. g[n + 1] = IF Elf(s[n + 1]) THEN Append(g[n], s[n + 1]) ELSE g[n]
    BY <1>6, <2>1
  <2>3. s[n + 1] \in File /\ \A j \in 1..n : s[j] # s[n + 1]
    BY <2>1
  <2> DEFINE p == g[n]
             x == s[n + 1]
  <2>4. Done(p, n)
    BY <1>8
  <2>5. CASE Elf(x)
    <3> DEFINE q == Append(p, x)
    <3>1. /\ q \in Seq({f \in File : Elf(f)}) /\ Len(q) = Len(p) + 1 /\ Len(p) \in Nat
          /\ \A i \in 1..Len(p) : q[i] = p[i]
          /\ q[Len(p) + 1] = x
      BY <2>3, <2>4, <2>5
    <3>2. \A i \in 1..Len(p) : p[i] # x
      BY <2>3, <2>4
    <3> HIDE DEF p, q, x
    <3>3. \A i \in 1..Len(q) : i \in 1..Len(p) \/ i = Len(p) + 1
      BY <3>1
    <3>4. ASSUME NEW i \in 1..Len(q), NEW j \in 1..Len(q), q[i] = q[j]
          PROVE  i = j
      <4>1. CASE i \in 1..Len(p) /\ j \in 1..Len(p)
        BY <2>4, <3>1, <3>4, <4>1
      <4>2. CASE i = Len(p) + 1 \/ j = Len(p) + 1
        BY <3>1, <3>2, <3>3, <3>4, <4>2
      <4> QED
        BY <3>3, <4>1, <4>2
    <3>5. \A i \in 1..Len(q) : \E j \in 1..(n + 1) : q[i] = s[j]
      <4>1. \A j \in 1..n : j \in 1..(n + 1)
        BY <2>1
      <4>2. n + 1 \in 1..(n + 1) /\ x = s[n + 1]
        BY <2>1 DEF x
      <4>3. \A i \in 1..Len(p) : \E j \in 1..(n + 1) : p[i] = s[j]
        BY <2>4, <4>1
      <4> QED
        BY <3>1, <3>3, <4>2, <4>3
    <3>6. \A j \in 1..(n + 1) : Elf(s[j]) => \E i \in 1..Len(q) : q[i] = s[j]
      <4>1. \A j \in 1..(n + 1) : j \in 1..n \/ s[j] = x
        BY <2>1 DEF x
      <4>2. \A i \in 1..Len(p) : i \in 1..Len(q)
        BY <3>1
      <4>3. Len(p) + 1 \in 1..Len(q)
        BY <3>1
      <4> QED
        BY <2>4, <3>1, <4>1, <4>2, <4>3
    <3>7. Len(q) <= n + 1
      BY <2>1, <2>4, <3>1
    <3>8. Done(q, n + 1)
      BY <3>1, <3>4, <3>5, <3>6, <3>7
    <3>9. g[n + 1] = q
      BY <2>2, <2>5 DEF p, q, x
    <3> HIDE DEF Done
    <3> QED
      BY <2>1, <3>8, <3>9
  <2>6. CASE ~Elf(x)
    <3>1. \A j \in 1..(n + 1) : j \in 1..n \/ s[j] = x
      BY <2>1
    <3>2. \A j \in 1..n : j \in 1..(n + 1)
      BY <2>1
    <3> HIDE DEF p, x
    <3>3. Len(p) <= n + 1
      BY <2>1, <2>4
    <3>4. Done(p, n + 1)
      BY <2>4, <2>6, <3>1, <3>2, <3>3
    <3>5. g[n + 1] = p
      BY <2>2, <2>6 DEF p, x
    <3> HIDE DEF Done
    <3> QED
      BY <2>1, <3>4, <3>5
  <2> QED
    BY <2>5, <2>6
<1> HIDE DEF D
<1>9. Len(s) \in D
  <2>1. 0..Len(s) \subseteq D
    BY <1>1, <1>7, <1>8, BoundedInduction
  <2> QED
    BY <1>1, <2>1
<1> QED
  BY <1>5, <1>9 DEF D
-----------------------------------------------------------------------------
(* The invariant, for any target.                                          *)

ElfFile == {f \in File : Elf(f)}
Entries == [file : ElfFile, base : Int, end : Int]
Mappings == [file : File, start : Int, end : Int, offset : Nat]

TargetInv ==
    /\ DOMAIN loaded \subseteq File /\ \A f \in DOMAIN loaded : loaded[f] \in Bases[f]
    /\ copied \subseteq Copies /\ IsFiniteSet(copied)

TableInv ==
    /\ files \in Seq(Entries)
    /\ \A i \in DOMAIN files : files[i].base < files[i].end
    /\ \A i, j \in DOMAIN files : files[i].file = files[j].file => i = j
    /\ leaked \in Nat /\ leaked + Len(files) <= Room

ModulesInv == TargetInv /\ TableInv /\ MissingOnlyWhenFull

\* The target's mappings are finitely many, and none is empty.
LEMMA MapsFacts ==
  ASSUME TargetInv
  PROVE  /\ Maps \subseteq Mappings /\ IsFiniteSet(Maps)
         /\ \A m \in Maps : m.start < m.end
<1> DEFINE loads == {Segments(f, loaded[f]) : f \in DOMAIN loaded}
           copies == {Copy(c) : c \in copied}
           load == [f \in DOMAIN loaded |-> Segments(f, loaded[f])]
           copy == [c \in copied |-> Copy(c)]
<1>1. Text \in Nat /\ Text > 0 /\ \A f \in DOMAIN loaded : f \in File /\ loaded[f] \in Nat
  <2>1. Text \in Nat /\ Text > 0
    <3>1. Text \in Nat \ {0}
      BY ModuleAssumption
    <3> QED
      BY <3>1
  <2>2. Bases \in [File -> SUBSET Nat]
    BY ModuleAssumption
  <2> QED
    BY <2>1, <2>2 DEF TargetInv
<1>2. ASSUME NEW f \in DOMAIN loaded, NEW m \in Segments(f, loaded[f])
      PROVE  m \in Mappings /\ m.start < m.end
  <2> DEFINE b == loaded[f]
  <2>1. b \in Nat /\ f \in File
    BY <1>1
  <2> HIDE DEF b
  <2>2. \/ m = [file |-> f, start |-> b, end |-> b + Text, offset |-> 0]
        \/ m = [file |-> f, start |-> b + Text + 2, end |-> b + Text + 4, offset |-> Text]
    BY <1>2 DEF Segments, b
  <2> QED
    BY <1>1, <2>1, <2>2 DEF Mappings
<1>3. ASSUME NEW c \in copied
      PROVE  Copy(c) \in Mappings /\ Copy(c).start < Copy(c).end
  <2>1. c \in File \X Nat
    BY ModuleAssumption DEF TargetInv
  <2>2. c[1] \in File /\ c[2] \in Nat
    BY <2>1
  <2> QED
    BY <1>1, <2>2 DEF Copy, Mappings
<1>4. \A f \in DOMAIN loaded : IsFiniteSet(Segments(f, loaded[f]))
  <2>1. ASSUME NEW x, NEW y
        PROVE  IsFiniteSet({x, y})
    <3>1. IsFiniteSet({x} \cup {y})
      BY FS_Singleton, FS_AddElement
    <3>2. {x, y} = {x} \cup {y}
      OBVIOUS
    <3> QED
      BY <3>1, <3>2
  <2> QED
    BY <2>1 DEF Segments
<1>5. IsFiniteSet(loads)
  <2>1. IsFiniteSet(DOMAIN loaded)
    BY ModuleAssumption, FS_Subset DEF TargetInv
  <2>2. load \in Surjection(DOMAIN loaded, loads)
    BY DEF Surjection
  <2> HIDE DEF load, loads
  <2> QED
    BY <2>1, <2>2, FS_Surjection
<1>6. IsFiniteSet(copies)
  <2>1. IsFiniteSet(copied)
    BY DEF TargetInv
  <2>2. copy \in Surjection(copied, copies)
    BY DEF Surjection
  <2> HIDE DEF copy, copies
  <2> QED
    BY <2>1, <2>2, FS_Surjection
<1>7. \A T \in loads : IsFiniteSet(T)
  <2>1. ASSUME NEW T \in loads
        PROVE  IsFiniteSet(T)
    <3>1. PICK f \in DOMAIN loaded : T = Segments(f, loaded[f])
      OBVIOUS
    <3> QED
      BY <1>4, <3>1
  <2> QED
    BY <2>1
<1>8. IsFiniteSet(UNION loads)
  <2> HIDE DEF loads
  <2> QED
    BY <1>5, <1>7, FS_UNION
<1>9. Maps = copies \cup UNION loads
  BY DEF Maps
<1>10. IsFiniteSet(Maps)
  <2> HIDE DEF loads, copies
  <2>1. IsFiniteSet(copies \cup UNION loads)
    BY <1>6, <1>8, FS_Union
  <2> QED
    BY <1>9, <2>1
<1>11. ASSUME NEW m \in Maps
       PROVE  m \in Mappings /\ m.start < m.end
  <2>1. (\E f \in DOMAIN loaded : m \in Segments(f, loaded[f])) \/ \E c \in copied : m = Copy(c)
    BY <1>9
  <2> QED
    BY <1>2, <1>3, <2>1
<1> QED
  BY <1>10, <1>11

\* The entry of a file that is mapped spans something.
LEMMA EntryFacts ==
  ASSUME TargetInv, NEW f \in ElfFile, NEW m \in Maps, m.file = f
  PROVE  Entry(f) \in Entries /\ Entry(f).file = f /\ Entry(f).base < Entry(f).end
<1> DEFINE group == {x \in Maps : x.file = f}
           starts == {x.start - x.offset : x \in group}
           ends == {x.end : x \in group}
           start == [x \in group |-> x.start - x.offset]
           end == [x \in group |-> x.end]
<1>1. /\ IsFiniteSet(group) /\ m \in group /\ group \subseteq Mappings
      /\ \A x \in group : x.start < x.end
  BY MapsFacts, FS_Subset
<1>2. IsFiniteSet(starts) /\ starts \in SUBSET Int /\ starts # {}
  <2>1. start \in Surjection(group, starts)
    BY DEF Surjection
  <2>2. starts \in SUBSET Int /\ starts # {}
    BY <1>1 DEF Mappings
  <2> HIDE DEF group, start, starts
  <2> QED
    BY <1>1, <2>1, <2>2, FS_Surjection
<1>3. IsFiniteSet(ends) /\ ends \in SUBSET Int /\ ends # {}
  <2>1. end \in Surjection(group, ends)
    BY DEF Surjection
  <2>2. ends \in SUBSET Int /\ ends # {}
    BY <1>1 DEF Mappings
  <2> HIDE DEF group, end, ends
  <2> QED
    BY <1>1, <2>1, <2>2, FS_Surjection
<1>4. m.start - m.offset \in starts /\ m.end \in ends /\ m.start - m.offset < m.end
  BY <1>1 DEF Mappings
<1>5. Entry(f) = [file |-> f, base |-> Min(starts), end |-> Max(ends)]
  BY DEF Entry
<1> HIDE DEF starts, ends
<1>6. Min(starts) \in Int /\ Min(starts) <= m.start - m.offset
  BY <1>2, <1>4, MinFacts
<1>7. Max(ends) \in Int /\ m.end <= Max(ends)
  BY <1>3, <1>4, MaxFacts
<1>8. m.start - m.offset \in Int /\ m.end \in Int
  BY <1>2, <1>3, <1>4
<1>9. Min(starts) < Max(ends)
  BY <1>4, <1>6, <1>7, <1>8
<1> QED
  BY <1>5, <1>6, <1>7, <1>9 DEF Entries

\* What a refresh leaves: an entry for each of the ELF files it could open, which
\* are all unless the descriptors ran out.
LEMMA RefreshFacts ==
  ASSUME TargetInv, TableInv, Refresh
  PROVE  /\ UNCHANGED <<loaded, copied>> /\ seen' = Maps
         /\ leaked' \in Nat /\ leaked <= leaked' /\ leaked' + Len(files') <= Room - Len(files)
         /\ files' \in Seq(Entries)
         /\ \A i \in DOMAIN files' :
              /\ files'[i] = Entry(files'[i].file) /\ files'[i].base < files'[i].end
              /\ \E m \in Maps : m.file = files'[i].file
         /\ \A i, j \in DOMAIN files' : files'[i].file = files'[j].file => i = j
         /\ \A m \in Maps : Elf(m.file) /\ (\A i \in DOMAIN files' : files'[i].file # m.file)
              => leaked' + Len(files') = Room - Len(files)
<1> DEFINE room == Room - Len(files) - leaked
           openable == {f \in {m.file : m \in Maps} : Opens(f)}
<1>1. PICK tried \in Orders :
        LET opened == SubSeq(tried, 1, Min({room, Len(tried)}))
            parsed == Parse(opened)
        IN  /\ files' = [i \in DOMAIN parsed |-> Entry(parsed[i])]
            /\ leaked' = leaked + Len(opened) - Len(parsed)
  BY DEF Refresh
<1> DEFINE opened == SubSeq(tried, 1, Min({room, Len(tried)}))
           parsed == Parse(opened)
<1>2. /\ files' = [i \in DOMAIN parsed |-> Entry(parsed[i])]
      /\ leaked' = leaked + Len(opened) - Len(parsed)
  BY <1>1
<1>3. UNCHANGED <<loaded, copied>> /\ seen' = Maps /\ room >= 1
  BY DEF Refresh
<1>4. Room \in Nat /\ Len(files) \in Nat /\ leaked \in Nat /\ room \in Nat
  <2>1. Room \in Nat
    BY ModuleAssumption
  <2>2. Len(files) \in Nat /\ leaked \in Nat
    BY DEF TableInv
  <2> QED
    BY <1>3, <2>1, <2>2
<1>5. openable \subseteq File /\ IsFiniteSet(openable)
  <2>1. openable \subseteq File
    BY MapsFacts DEF Mappings
  <2> QED
    BY <2>1, ModuleAssumption, FS_Subset
<1>6. /\ tried \in Seq(openable)
      /\ \A i, j \in 1..Len(tried) : tried[i] = tried[j] => i = j
      /\ \A x \in openable : \E i \in 1..Len(tried) : tried[i] = x
  <2>1. tried \in SetToSeqs(openable)
    BY DEF Orders
  <2> HIDE DEF openable
  <2> QED
    BY <1>5, <2>1, OrderFacts
<1> DEFINE n == Min({room, Len(tried)})
<1>7. n \in Nat /\ n <= room /\ n <= Len(tried) /\ (n = room \/ n = Len(tried))
  <2>1. Len(tried) \in Nat
    BY <1>6
  <2> HIDE DEF room
  <2> QED
    BY <1>4, <2>1 DEF Min
<1> HIDE DEF n, room
<1>8. /\ opened \in Seq(openable) /\ Len(opened) = n
      /\ \A i \in 1..n : opened[i] = tried[i]
  <2> HIDE DEF openable
  <2>1. opened = SubSeq(tried, 1, n)
    BY DEF n
  <2>2. n <= Len(tried) /\ n \in Nat /\ tried \in Seq(openable)
    BY <1>6, <1>7
  <2> HIDE DEF opened
  <2> QED
    BY <2>1, <2>2
<1> HIDE DEF opened
<1>9. opened \in Seq(File) /\ \A i, j \in 1..Len(opened) : opened[i] = opened[j] => i = j
  <2>1. opened \in Seq(File)
    BY <1>5, <1>8
  <2>2. \A i \in 1..n : i \in 1..Len(tried)
    BY <1>6, <1>7
  <2> QED
    BY <1>6, <1>8, <2>1, <2>2
<1>10. /\ parsed \in Seq(ElfFile) /\ Len(parsed) <= Len(opened)
       /\ \A i, j \in 1..Len(parsed) : parsed[i] = parsed[j] => i = j
       /\ \A i \in 1..Len(parsed) : \E j \in 1..Len(opened) : parsed[i] = opened[j]
       /\ \A j \in 1..Len(opened) : Elf(opened[j]) => \E i \in 1..Len(parsed) : parsed[i] = opened[j]
  BY <1>9, ParseFacts DEF ElfFile
<1> HIDE DEF parsed
<1>11. DOMAIN parsed = 1..Len(parsed) /\ Len(parsed) \in Nat
  BY <1>10
<1>12. \A i \in 1..Len(parsed) : parsed[i] \in ElfFile /\ \E m \in Maps : m.file = parsed[i]
  <2>1. \A j \in 1..Len(opened) : opened[j] \in openable
    BY <1>8
  <2> QED
    BY <1>10, <2>1
<1>13. \A i \in 1..Len(parsed) : /\ files'[i] = Entry(parsed[i]) /\ files'[i] \in Entries
                                 /\ files'[i].file = parsed[i] /\ files'[i].base < files'[i].end
  BY <1>2, <1>11, <1>12, EntryFacts
<1>14. DOMAIN files' = 1..Len(parsed) /\ files' \in Seq(Entries) /\ Len(files') = Len(parsed)
  BY <1>2, <1>11, <1>13
<1>15. leaked' \in Nat /\ leaked <= leaked' /\ leaked' + Len(files') = leaked + n
  BY <1>2, <1>4, <1>7, <1>8, <1>10, <1>11, <1>14
<1>16. leaked' + Len(files') <= Room - Len(files)
  BY <1>4, <1>7, <1>15 DEF room
<1>17. ASSUME NEW m \in Maps, Elf(m.file), \A i \in DOMAIN files' : files'[i].file # m.file
       PROVE  leaked' + Len(files') = Room - Len(files)
  <2>1. m.file \in openable
    BY <1>17 DEF Elf, Opens
  <2>2. PICK j \in 1..Len(tried) : tried[j] = m.file
    BY <1>6, <2>1
  <2>3. ~(j \in 1..n)
    <3>1. SUFFICES ASSUME j \in 1..n
                   PROVE  FALSE
      OBVIOUS
    <3>2. j \in 1..Len(opened) /\ opened[j] = m.file
      BY <1>8, <2>2, <3>1
    <3>3. PICK i \in 1..Len(parsed) : parsed[i] = m.file
      BY <1>10, <1>17, <3>2
    <3>4. i \in DOMAIN files' /\ files'[i].file = m.file
      BY <1>13, <1>14, <3>3
    <3> QED
      BY <1>17, <3>4
  <2>4. n = room
    BY <1>6, <1>7, <2>3
  <2> QED
    BY <1>4, <1>15, <2>4 DEF room
<1>18. \A i \in DOMAIN files' :
          /\ files'[i] = Entry(files'[i].file) /\ files'[i].base < files'[i].end
          /\ \E m \in Maps : m.file = files'[i].file
  BY <1>12, <1>13, <1>14
<1>19. \A i, j \in DOMAIN files' : files'[i].file = files'[j].file => i = j
  BY <1>10, <1>13, <1>14
<1> HIDE DEF openable
<1> QED
  BY <1>3, <1>14, <1>15, <1>16, <1>17, <1>18, <1>19

\* A table holds no more entries than there are ELF files, and fewer if it lacks one.
LEMMA TableLength ==
  ASSUME NEW table \in Seq(Entries),
         \A i, j \in DOMAIN table : table[i].file = table[j].file => i = j
  PROVE  /\ Len(table) <= Cardinality(ElfFile)
         /\ \A f \in ElfFile : (\A i \in DOMAIN table : table[i].file # f)
              => Len(table) < Cardinality(ElfFile)
<1> DEFINE s == [i \in 1..Len(table) |-> table[i].file]
<1>1. DOMAIN table = 1..Len(table) /\ Len(table) \in Nat
  OBVIOUS
<1>2. \A i \in 1..Len(table) : table[i].file \in ElfFile
  <2>1. \A i \in 1..Len(table) : table[i] \in Entries
    BY ElementOfSeq
  <2> QED
    BY <2>1 DEF Entries
<1>3. s \in Seq(ElfFile) /\ Len(s) = Len(table)
  BY <1>1, <1>2
<1>4. \A i \in 1..Len(table) : s[i] = table[i].file
  OBVIOUS
<1>5. IsFiniteSet(ElfFile)
  BY ModuleAssumption, FS_Subset DEF ElfFile
<1> HIDE DEF s
<1>6. \A i, j \in 1..Len(s) : s[i] = s[j] => i = j
  BY <1>1, <1>3, <1>4
<1>7. /\ Len(s) <= Cardinality(ElfFile)
      /\ \A f \in ElfFile : (\A i \in 1..Len(s) : s[i] # f) => Len(s) < Cardinality(ElfFile)
  BY <1>3, <1>5, <1>6, InjectiveLength
<1> QED
  BY <1>1, <1>3, <1>4, <1>7

\* When a file is missing, the new table and the lost descriptors have taken all the
\* old table left, and neither table has more entries than there are files.
LEMMA RefreshKeeps ==
  ASSUME ModulesInv, Refresh
  PROVE  ModulesInv'
<1> USE DEF ModulesInv
<1>1. TargetInv'
  BY RefreshFacts DEF TargetInv
<1>2. Room \in Nat /\ leaked' \in Nat /\ Len(files) \in Nat /\ Len(files') \in Nat
      /\ Cardinality(ElfFile) \in Nat
  <2>1. Room \in Nat
    BY ModuleAssumption
  <2>2. IsFiniteSet(ElfFile)
    BY ModuleAssumption, FS_Subset DEF ElfFile
  <2>3. leaked' \in Nat /\ files' \in Seq(Entries) /\ files \in Seq(Entries)
    BY RefreshFacts DEF TableInv
  <2> QED
    BY <2>1, <2>2, <2>3, FS_CardinalityType
<1>3. TableInv'
  <2>1. leaked' + Len(files') <= Room
    <3>1. leaked' + Len(files') <= Room - Len(files)
      BY RefreshFacts
    <3> QED
      BY <1>2, <3>1
  <2> QED
    BY <2>1, RefreshFacts DEF TableInv
<1>4. MissingOnlyWhenFull'
  <2> SUFFICES ASSUME NEW m \in seen', Elf(m.file),
                      \A i \in DOMAIN files' : files'[i].file # m.file
               PROVE  leaked' + 2 * Cardinality(ElfFile) > Room
    BY DEF MissingOnlyWhenFull, ElfFile
  <2>1. m \in Maps /\ m.file \in ElfFile
    BY RefreshFacts, MapsFacts DEF Mappings, ElfFile
  <2>2. leaked' + Len(files') = Room - Len(files)
    BY <2>1, RefreshFacts
  <2>3. Len(files') < Cardinality(ElfFile)
    BY <1>3, <2>1, TableLength DEF TableInv
  <2>4. Len(files) <= Cardinality(ElfFile)
    BY TableLength DEF TableInv
  <2> QED
    BY <1>2, <2>2, <2>3, <2>4
<1> QED
  BY <1>1, <1>3, <1>4

LEMMA TargetKeeps ==
  ASSUME ModulesInv,
         \/ \E f \in File : Unload(f) \/ \E b \in Bases[f] : Load(f, b)
         \/ \E c \in Copies : MapCopy(c)
  PROVE  ModulesInv'
<1> USE DEF ModulesInv
<1>1. UNCHANGED <<files, leaked, seen>>
  BY DEF Unload, Load, MapCopy
<1>2. TableInv' /\ MissingOnlyWhenFull'
  BY <1>1 DEF TableInv, MissingOnlyWhenFull
<1>3. TargetInv'
  <2>1. CASE \E f \in File : Unload(f)
    BY <2>1 DEF Unload, TargetInv
  <2>2. CASE \E f \in File : \E b \in Bases[f] : Load(f, b)
    BY <2>2 DEF Load, TargetInv
  <2>3. CASE \E c \in Copies : MapCopy(c)
    BY <2>3, FS_AddElement DEF MapCopy, TargetInv
  <2> QED
    BY <2>1, <2>2, <2>3
<1> QED
  BY <1>2, <1>3

LEMMA ModulesInvariant == Spec => []ModulesInv
<1>1. Init => ModulesInv
  <2> SUFFICES ASSUME Init PROVE ModulesInv
    OBVIOUS
  <2>1. TargetInv
    BY FS_EmptySet DEF Init, TargetInv
  <2>2. TableInv
    <3>1. Room \in Nat
      BY ModuleAssumption
    <3> QED
      BY <3>1 DEF Init, TableInv
  <2> QED
    BY <2>1, <2>2 DEF Init, ModulesInv, MissingOnlyWhenFull
<1>2. ModulesInv /\ [Next]_vars => ModulesInv'
  <2>1. ModulesInv /\ UNCHANGED vars => ModulesInv'
    BY DEF vars, ModulesInv, TargetInv, TableInv, MissingOnlyWhenFull
  <2> QED
    BY <2>1, RefreshKeeps, TargetKeeps DEF Next
<1> QED
  BY <1>1, <1>2, PTL DEF Spec

\* The table has each ELF file at most once, with a span of its own, and together
\* with the descriptors lost so far fits in those the process may open, whatever
\* the target maps and in whatever order the files come.
THEOREM TypeCorrect == Spec => []TypeOK
<1>1. ModulesInv => TypeOK
  <2> SUFFICES ASSUME ModulesInv PROVE TypeOK
    OBVIOUS
  <2>1. \A i \in DOMAIN files : Elf(files[i].file)
    <3>1. \A i \in DOMAIN files : files[i] \in Entries
      BY ElementOfSeq DEF ModulesInv, TableInv
    <3>2. \A i \in DOMAIN files : files[i].file \in ElfFile
      BY <3>1 DEF Entries
    <3> QED
      BY <3>2 DEF ElfFile
  <2> QED
    BY <2>1 DEF ModulesInv, TargetInv, TableInv, TypeOK
<1> QED
  BY <1>1, ModulesInvariant, PTL

\* A file is missing after a refresh only if what is lost and two tables may take
\* all the descriptors there are.
THEOREM MissingOnlyWhenFullAlways == Spec => []MissingOnlyWhenFull
<1>1. ModulesInv => MissingOnlyWhenFull
  BY DEF ModulesInv
<1> QED
  BY <1>1, ModulesInvariant, PTL

-----------------------------------------------------------------------------
(* Targets that map no ELF file as data: an entry is where the loader has, or had, *)
(* put its file.                                                                   *)

\* Each entry is what the mappings at the last refresh said.
Placed ==
    \A i \in DOMAIN files : LET e == files[i] IN
      /\ e.base \in Bases[e.file] /\ e.end = e.base + Text + 4
      /\ {m \in seen : m.file = e.file} = Segments(e.file, e.base)

LEMMA LoadedGroup ==
  ASSUME DataCopies, TargetInv, NEW f \in ElfFile
  PROVE  {m \in Maps : m.file = f} = IF f \in DOMAIN loaded THEN Segments(f, loaded[f]) ELSE {}
<1>1. \A c \in copied : Copy(c).file # f
  BY DEF DataCopies, TargetInv, Copy, ElfFile
<1>2. \A g \in DOMAIN loaded : \A m \in Segments(g, loaded[g]) : m.file = g
  BY DEF Segments
<1>3. \A m : m \in Maps <=> \/ \E c \in copied : m = Copy(c)
                            \/ \E g \in DOMAIN loaded : m \in Segments(g, loaded[g])
  BY DEF Maps
<1> QED
  BY <1>1, <1>2, <1>3

LEMMA EntryPlaced ==
  ASSUME DataCopies, TargetInv, NEW f \in ElfFile, NEW m \in Maps, m.file = f
  PROVE  /\ f \in DOMAIN loaded /\ loaded[f] \in Bases[f] /\ loaded[f] \in Nat
         /\ Entry(f) = [file |-> f, base |-> loaded[f], end |-> loaded[f] + Text + 4]
         /\ {x \in Maps : x.file = f} = Segments(f, loaded[f])
<1>1. f \in DOMAIN loaded /\ {x \in Maps : x.file = f} = Segments(f, loaded[f])
  BY LoadedGroup
<1>2. loaded[f] \in Bases[f] /\ f \in File
  BY <1>1 DEF TargetInv
<1>3. loaded[f] \in Nat
  <2>1. Bases \in [File -> SUBSET Nat]
    BY ModuleAssumption
  <2> QED
    BY <1>2, <2>1
<1>4. Text \in Nat \ {0}
  BY ModuleAssumption
<1> DEFINE b == loaded[f]
           starts == {x.start - x.offset : x \in Segments(f, b)}
           ends == {x.end : x \in Segments(f, b)}
<1>5. starts = {b, b + 2}
  <2> DEFINE low == [file |-> f, start |-> b, end |-> b + Text, offset |-> 0]
             high == [file |-> f, start |-> b + Text + 2, end |-> b + Text + 4, offset |-> Text]
  <2>1. Segments(f, b) = {low, high}
    BY DEF Segments
  <2>2. low.start = b /\ low.offset = 0 /\ high.start = b + Text + 2 /\ high.offset = Text
    OBVIOUS
  <2>3. b \in Nat /\ Text \in Nat
    BY <1>3, <1>4
  <2> HIDE DEF low, high, b
  <2>4. low.start - low.offset = b /\ high.start - high.offset = b + 2
    BY <2>2, <2>3
  <2>5. starts = {low.start - low.offset, high.start - high.offset}
    BY <2>1
  <2> HIDE DEF starts
  <2> QED
    BY <2>4, <2>5
<1>6. ends = {b + Text, b + Text + 4}
  BY DEF Segments
<1>7. Entry(f) = [file |-> f, base |-> Min(starts), end |-> Max(ends)]
  BY <1>1 DEF Entry
<1> HIDE DEF b, starts, ends
<1>8. Min(starts) = b
  BY <1>3, <1>5 DEF Min, b
<1>9. Max(ends) = b + Text + 4
  BY <1>3, <1>4, <1>6 DEF Max, b
<1> QED
  BY <1>1, <1>2, <1>3, <1>7, <1>8, <1>9 DEF b

LEMMA PlacedInvariant ==
  ASSUME DataCopies
  PROVE  Spec => []Placed
<1>1. Init => Placed
  BY DEF Init, Placed
<1>2. ModulesInv /\ Placed /\ [Next]_vars => Placed'
  <2> SUFFICES ASSUME ModulesInv, Placed, [Next]_vars PROVE Placed'
    OBVIOUS
  <2>1. CASE UNCHANGED <<files, seen>>
    BY <2>1 DEF Placed
  <2>2. CASE Refresh
    <3>1. SUFFICES ASSUME NEW i \in DOMAIN files'
                   PROVE  LET e == files'[i] IN
                          /\ e.base \in Bases[e.file] /\ e.end = e.base + Text + 4
                          /\ {m \in seen' : m.file = e.file} = Segments(e.file, e.base)
      BY DEF Placed
    <3> DEFINE f == files'[i].file
    <3>2. /\ files' \in Seq(Entries) /\ files'[i] = Entry(f) /\ seen' = Maps
          /\ \E m \in Maps : m.file = f
      BY <2>2, RefreshFacts DEF ModulesInv
    <3>3. f \in ElfFile
      <4>1. files'[i] \in Entries
        BY <3>2, ElementOfSeq
      <4> QED
        BY <4>1 DEF Entries
    <3> HIDE DEF f
    <3>4. /\ loaded[f] \in Bases[f]
          /\ Entry(f) = [file |-> f, base |-> loaded[f], end |-> loaded[f] + Text + 4]
          /\ {x \in Maps : x.file = f} = Segments(f, loaded[f])
      BY <3>2, <3>3, EntryPlaced DEF ModulesInv
    <3> QED
      BY <3>2, <3>4 DEF f
  <2> QED
    BY <2>1, <2>2 DEF Next, Unload, Load, MapCopy, vars
<1> QED
  BY <1>1, <1>2, ModulesInvariant, PTL DEF Spec

\* Right after a refresh, an entry is where its file is now.
LEMMA FreshPlace ==
  ASSUME DataCopies, ModulesInv, Placed, Fresh, NEW i \in DOMAIN files
  PROVE  files[i].file \in DOMAIN loaded /\ loaded[files[i].file] = files[i].base
<1> DEFINE f == files[i].file
           b == files[i].base
<1>1. f \in ElfFile
  <2>1. files[i] \in Entries
    BY ElementOfSeq DEF ModulesInv, TableInv
  <2> QED
    BY <2>1 DEF Entries
<1>2. {m \in Maps : m.file = f} = Segments(f, b)
  BY DEF Placed, Fresh
<1> HIDE DEF f, b
<1>3. Segments(f, b) # {}
  BY DEF Segments
<1>4. f \in DOMAIN loaded /\ Segments(f, loaded[f]) = Segments(f, b)
  BY <1>1, <1>2, <1>3, LoadedGroup DEF ModulesInv
<1>5. [file |-> f, start |-> b, end |-> b + Text, offset |-> 0] \in Segments(f, loaded[f])
  BY <1>4 DEF Segments
<1>6. Text # 0
  BY ModuleAssumption
<1>7. loaded[f] = b
  BY <1>5, <1>6 DEF Segments
<1> QED
  BY <1>4, <1>7 DEF f, b

LEMMA SymbolFacts ==
  ASSUME NEW f \in File
  PROVE  /\ DOMAIN Symbols[f] = 1..Len(Symbols[f]) /\ Len(Symbols[f]) \in Nat
         /\ \A j \in DOMAIN Symbols[f] : Symbols[f][j].value \in Nat /\ Symbols[f][j].size \in Nat
         /\ \A s \in Range(Symbols[f]) : s.value \in Nat
<1> DEFINE Function == [name : Name, value : Nat \ {0}, size : Nat]
           table == Symbols[f]
<1>1. table \in Seq(Function)
  BY ModuleAssumption
<1>2. \A s \in Function : s.value \in Nat /\ s.size \in Nat
  OBVIOUS
<1> HIDE DEF Function
<1> HIDE DEF table
<1>3. DOMAIN table = 1..Len(table) /\ Len(table) \in Nat
  BY <1>1
<1>4. \A j \in DOMAIN table : table[j] \in Function
  BY <1>1, <1>3, ElementOfSeq
<1>5. \A j \in DOMAIN table : table[j].value \in Nat /\ table[j].size \in Nat
  BY <1>2, <1>4
<1>6. \A s \in Range(table) : s.value \in Nat
  BY <1>5 DEF Range
<1> QED
  BY <1>3, <1>5, <1>6 DEF table

\* After a refresh what a symbol or a line resolves to is code of a file that the
\* loader has in place, at the address where it is.
THEOREM ResolvesToCodeAlways ==
  ASSUME DataCopies
  PROVE  Spec => []ResolvesToCode
<1>1. ModulesInv /\ Placed => ResolvesToCode
  <2> SUFFICES ASSUME ModulesInv, Placed, Fresh, NEW w \in Where
               PROVE  /\ w.form = "symbol" => \A a \in Resolve(w) :
                           \E f \in DOMAIN loaded : \E s \in Range(Symbols[f]) :
                             s.name = w.name /\ a = Place(f, loaded[f], s.value)
                      /\ w.form = "line" => Resolve(w) =
                           UNION {{Place(f, loaded[f], a) : a \in SourceLine(f, w.file, w.line)} :
                                    f \in {g \in DOMAIN loaded : \E e \in Range(files) : e.file = g}}
    BY DEF ResolvesToCode
  <2>1. \A e \in Range(files) :
          /\ e.file \in DOMAIN loaded
          /\ \A v : RuntimeBase(e) + v = Place(e.file, loaded[e.file], v) \/ Kind[e.file] # "dyn"
          /\ Kind[e.file] # "dyn" => RuntimeBase(e) = 0
    BY FreshPlace DEF Range, RuntimeBase, Place
  <2>2. CASE w.form = "symbol"
    <3> SUFFICES ASSUME NEW a \in ResolveSymbol(w.module, w.name)
                 PROVE  \E f \in DOMAIN loaded : \E s \in Range(Symbols[f]) :
                          s.name = w.name /\ a = Place(f, loaded[f], s.value)
      BY <2>2 DEF Resolve
    <3>1. PICK e \in Range(files) : \E v \in Symbol(e.file, w.name) : a = RuntimeBase(e) + v
      BY DEF ResolveSymbol, First, Range
    <3>2. PICK s \in Range(Symbols[e.file]) : s.name = w.name /\ a = RuntimeBase(e) + s.value
      BY <3>1 DEF Symbol, Range
    <3>3. e.file \in File
      BY <2>1, <3>1 DEF ModulesInv, TargetInv
    <3>4. s.value \in Nat
      BY <3>2, <3>3, SymbolFacts
    <3>5. a = Place(e.file, loaded[e.file], s.value)
      BY <2>1, <3>1, <3>2, <3>4 DEF Place
    <3> QED
      BY <2>1, <3>1, <3>2, <3>5
  <2>3. CASE w.form = "line"
    <3>1. Resolve(w) =
            UNION {{RuntimeBase(e) + a : a \in SourceLine(e.file, w.file, w.line)} : e \in Range(files)}
      BY <2>3 DEF Resolve, ResolveLine
    <3>2. ASSUME NEW e \in Range(files), NEW a \in SourceLine(e.file, w.file, w.line)
          PROVE  RuntimeBase(e) + a = Place(e.file, loaded[e.file], a)
      <4>1. e.file \in File
        BY <2>1 DEF ModulesInv, TargetInv
      <4>2. \A r \in Lines[e.file] : r.address \in Nat
        BY <4>1, ModuleAssumption
      <4>3. a \in Nat
        BY <4>2 DEF SourceLine
      <4> QED
        BY <2>1, <4>3 DEF Place
    <3> DEFINE Lhs(e) == {RuntimeBase(e) + a : a \in SourceLine(e.file, w.file, w.line)}
               Rhs(f) == {Place(f, loaded[f], a) : a \in SourceLine(f, w.file, w.line)}
               held == {g \in DOMAIN loaded : \E e \in Range(files) : e.file = g}
    <3>3. \A e \in Range(files) : Lhs(e) = Rhs(e.file)
      BY <3>2
    <3> HIDE DEF Lhs, Rhs
    <3>4. \A e \in Range(files) : e.file \in held
      BY <2>1
    <3>5. \A f \in held : \E e \in Range(files) : e.file = f
      OBVIOUS
    <3> HIDE DEF held
    <3>6. UNION {Lhs(e) : e \in Range(files)} = UNION {Rhs(f) : f \in held}
      BY <3>3, <3>4, <3>5
    <3>7. Resolve(w) = UNION {Rhs(f) : f \in held}
      BY <3>1, <3>6 DEF Lhs
    <3> QED
      BY <2>3, <3>7 DEF Rhs, held
  <2> QED
    BY <2>2, <2>3
<1> QED
  BY <1>1, ModulesInvariant, PlacedInvariant, PTL

-----------------------------------------------------------------------------
(* Looking up what was resolved, in a target laid out as usual.            *)

\* The entry that answers for an address.
Covering(a) == First(LAMBDA d : Covers(d, a))

\* An address in the text of an entry's file belongs to no other entry.
LEMMA SoleEntry ==
  ASSUME ModulesInv, Placed, Layout, NEW i \in DOMAIN files, NEW v \in Nat,
         Place(files[i].file, files[i].base, v) \in files[i].base..(files[i].base + Text - 1)
  PROVE  /\ RuntimeBase(files[i]) \in Nat
         /\ RuntimeBase(files[i]) + v = Place(files[i].file, files[i].base, v)
         /\ Covering(RuntimeBase(files[i]) + v) = {files[i]}
<1>1. Text \in Nat \ {0}
  BY ModuleAssumption
<1>2. \A k \in DOMAIN files :
        /\ files[k].file \in ElfFile /\ files[k].file \in File
        /\ files[k].base \in Bases[files[k].file] /\ files[k].base \in Nat
        /\ files[k].end = files[k].base + Text + 4
  <2>1. \A k \in DOMAIN files : files[k] \in Entries
    BY ElementOfSeq DEF ModulesInv, TableInv
  <2>2. \A k \in DOMAIN files : files[k].file \in ElfFile
    BY <2>1 DEF Entries
  <2>3. \A f \in ElfFile : f \in File
    BY DEF ElfFile
  <2>4. Bases \in [File -> SUBSET Nat]
    BY ModuleAssumption
  <2> QED
    BY <2>2, <2>3, <2>4 DEF Placed
<1> DEFINE f == files[i].file
           b == files[i].base
           a == RuntimeBase(files[i]) + v
<1>3. RuntimeBase(files[i]) \in Nat /\ a = Place(f, b, v)
  BY <1>2 DEF RuntimeBase, Place
<1>4. b <= a /\ a <= b + Text - 1 /\ a \in Nat
  BY <1>1, <1>2, <1>3
<1>5. Covers(files[i], a)
  BY <1>1, <1>2, <1>3, <1>4 DEF Covers, RuntimeBase
<1>6. ASSUME NEW k \in DOMAIN files, k # i
      PROVE  ~Covers(files[k], a)
  <2> DEFINE g == files[k].file
             c == files[k].base
  <2>1. g # f
    BY <1>6 DEF ModulesInv, TableInv
  <2>2. b + Text <= Place(g, c, 0) \/ c + Text + 4 <= b
    BY <1>2, <2>1 DEF Layout, ElfFile
  <2>3. RuntimeBase(files[k]) = Place(g, c, 0) /\ RuntimeBase(files[k]) \in Nat
    BY <1>2 DEF RuntimeBase, Place
  <2>4. files[k].end = c + Text + 4 /\ c \in Nat /\ b \in Nat
    BY <1>2
  <2> HIDE DEF a, b, c
  <2> QED
    BY <1>1, <1>4, <2>2, <2>3, <2>4 DEF Covers
<1>7. DOMAIN files = 1..Len(files) /\ Len(files) \in Nat
  BY DEF ModulesInv, TableInv
<1>8. \A k \in 1..(i - 1) : k \in DOMAIN files /\ k # i
  BY <1>7
<1> HIDE DEF a
<1>9. Covering(a) = {files[i]}
  BY <1>5, <1>6, <1>8 DEF First, Covering
<1> QED
  BY <1>3, <1>9 DEF a

\* At the address of a function the closest is the first one listed that begins there.
LEMMA ClosestFacts ==
  ASSUME NEW f \in File, NEW j \in DOMAIN Symbols[f]
  PROVE  \E k \in DOMAIN Symbols[f] :
           /\ Symbols[f][k].value = Symbols[f][j].value
           /\ Symbols[f][k].name \in Closest(f, Symbols[f][j].value)
<1> DEFINE v == Symbols[f][j].value
           same == {k \in DOMAIN Symbols[f] : Symbols[f][k].value = v}
<1>1. /\ DOMAIN Symbols[f] = 1..Len(Symbols[f]) /\ Len(Symbols[f]) \in Nat
      /\ \A k \in DOMAIN Symbols[f] : Symbols[f][k].value \in Nat /\ Symbols[f][k].size \in Nat
  BY SymbolFacts
<1>2. same \in SUBSET Int /\ IsFiniteSet(same) /\ same # {}
  <2>1. IsFiniteSet(1..Len(Symbols[f]))
    BY <1>1, FS_Interval
  <2>2. same \in SUBSET (1..Len(Symbols[f])) /\ j \in same
    BY <1>1
  <2>3. same \in SUBSET Int
    BY <2>2
  <2> HIDE DEF same
  <2> QED
    BY <2>1, <2>2, <2>3, FS_Subset
<1>3. PICK k \in same : \A y \in same : k <= y
  <2> HIDE DEF same
  <2> QED
    BY <1>2, MinFacts
<1>4. v \in Nat /\ Symbols[f][k].value = v /\ k \in DOMAIN Symbols[f]
  BY <1>1
<1>5. k \in Under(f, v)
  <2>1. Symbols[f][k].size \in Nat
    BY <1>1, <1>4
  <2>2. Symbols[f][k].size = 0 \/ v < v + Symbols[f][k].size
    BY <1>4, <2>1
  <2> QED
    BY <1>4, <2>2 DEF Under
<1>6. ASSUME NEW x \in Under(f, v)
      PROVE  Behind(f, x, k)
  <2>1. x \in DOMAIN Symbols[f] /\ Symbols[f][x].value <= v /\ Symbols[f][x].value \in Nat
    BY <1>1 DEF Under
  <2>2. CASE Symbols[f][x].value = v
    <3>1. k <= x
      BY <1>3, <2>1, <2>2
    <3> QED
      BY <1>4, <2>2, <3>1 DEF Behind
  <2>3. CASE Symbols[f][x].value # v
    BY <1>4, <2>1, <2>3 DEF Behind
  <2> QED
    BY <2>2, <2>3
<1>7. Symbols[f][k].name \in Closest(f, v)
  BY <1>5, <1>6 DEF Closest
<1> QED
  BY <1>4, <1>7

\* What backtrace and the report of a stop call the address of a breakpoint is the
\* function or the line the user gave, or another function at that address.
THEOREM RoundTripAlways ==
  ASSUME DataCopies, Layout
  PROVE  Spec => []RoundTrip
<1>1. ModulesInv /\ Placed => RoundTrip
  <2> SUFFICES ASSUME ModulesInv, Placed, NEW w \in Where, NEW a \in Resolve(w)
               PROVE  /\ w.form = "symbol" => \E f \in Matches[w.module], n \in FunctionAt(a) :
                           \E v \in Symbol(f, w.name) :
                             \E s \in Range(Symbols[f]) : s.name = n /\ s.value = v
                      /\ w.form = "line" => \E r \in LocationOf(a) :
                           r.source \in Sources[w.file] /\ r.line = w.line
    BY DEF RoundTrip
  <2>1. \A i \in DOMAIN files :
          /\ files[i].file \in {g \in File : Elf(g)} /\ files[i].base \in Bases[files[i].file]
    <3>1. \A i \in DOMAIN files : files[i] \in Entries
      BY ElementOfSeq DEF ModulesInv, TableInv
    <3>2. \A i \in DOMAIN files : files[i].file \in ElfFile
      BY <3>1 DEF Entries
    <3> QED
      BY <3>2 DEF Placed, ElfFile
  <2>2. ASSUME w.form = "symbol"
        PROVE  \E f \in Matches[w.module], n \in FunctionAt(a) :
                 \E v \in Symbol(f, w.name) :
                   \E s \in Range(Symbols[f]) : s.name = n /\ s.value = v
    <3>1. a \in ResolveSymbol(w.module, w.name)
      BY <2>2 DEF Resolve
    <3>2. PICK i \in DOMAIN files : files[i].file \in Matches[w.module]
                 /\ \E v \in Symbol(files[i].file, w.name) : a = RuntimeBase(files[i]) + v
      BY <3>1 DEF ResolveSymbol, First
    <3> DEFINE f == files[i].file
    <3>3. PICK v \in Symbol(f, w.name) : a = RuntimeBase(files[i]) + v
      BY <3>2
    <3>4. f \in File /\ Elf(f) /\ files[i].base \in Bases[f]
      BY <2>1
    <3>5. PICK j \in DOMAIN Symbols[f] : v = Symbols[f][j].value
      BY <3>3 DEF Symbol
    <3>6. Symbols[f][j] \in Range(Symbols[f]) /\ v \in Nat
      BY <3>4, <3>5, SymbolFacts DEF Range
    <3>7. Place(f, files[i].base, v) \in files[i].base..(files[i].base + Text - 1)
      BY <3>4, <3>5, <3>6 DEF Layout
    <3>8. /\ RuntimeBase(files[i]) \in Nat
          /\ Covering(a) = {files[i]}
      BY <3>3, <3>6, <3>7, SoleEntry
    <3>9. a - RuntimeBase(files[i]) = v
      BY <3>3, <3>6, <3>8
    <3>10. FunctionAt(a) = Closest(f, v)
      BY <3>8, <3>9 DEF FunctionAt, Covering
    <3>11. PICK k \in DOMAIN Symbols[f] :
             Symbols[f][k].value = v /\ Symbols[f][k].name \in Closest(f, v)
      BY <3>4, <3>5, ClosestFacts
    <3>12. Symbols[f][k] \in Range(Symbols[f])
      BY DEF Range
    <3> QED
      BY <3>2, <3>10, <3>11, <3>12
  <2>3. ASSUME w.form = "line"
        PROVE  \E r \in LocationOf(a) : r.source \in Sources[w.file] /\ r.line = w.line
    <3>1. a \in ResolveLine(w.file, w.line)
      BY <2>3 DEF Resolve
    <3>2. PICK i \in DOMAIN files : \E x \in SourceLine(files[i].file, w.file, w.line) :
            a = RuntimeBase(files[i]) + x
      BY <3>1 DEF ResolveLine, Range
    <3> DEFINE f == files[i].file
    <3>3. PICK r \in Lines[f] : /\ r.source \in Sources[w.file] /\ r.line = w.line
                                /\ a = RuntimeBase(files[i]) + r.address
      BY <3>2 DEF SourceLine
    <3>4. f \in File /\ Elf(f) /\ files[i].base \in Bases[f]
      BY <2>1
    <3>5. \A q \in Lines[f] : q.address \in Nat
      BY <3>4, ModuleAssumption
    <3> DEFINE x == r.address
    <3>6. x \in Nat
      BY <3>5
    <3>7. Place(f, files[i].base, x) \in files[i].base..(files[i].base + Text - 1)
      BY <3>4 DEF Layout
    <3>8. /\ RuntimeBase(files[i]) \in Nat
          /\ Covering(a) = {files[i]}
      BY <3>3, <3>6, <3>7, SoleEntry
    <3>9. a - RuntimeBase(files[i]) = x
      BY <3>3, <3>6, <3>8
    <3> DEFINE before == {q.address : q \in {p \in Lines[f] : p.address <= x}}
    <3>10. x \in before /\ \A y \in before : y <= x /\ y \in Nat
      BY <3>5, <3>6
    <3> HIDE DEF before
    <3>11. before # {} /\ Max(before) = x
      BY <3>6, <3>10 DEF Max
    <3>12. LocationOf(a) = {q \in Lines[f] : before # {} /\ q.address = Max(before)}
      <4>1. LocationOf(a) =
              UNION {LET y == a - RuntimeBase(e)
                         lower == {q.address : q \in {p \in Lines[e.file] : p.address <= y}}
                     IN {q \in Lines[e.file] : lower # {} /\ q.address = Max(lower)} :
                       e \in Covering(a)}
        BY DEF LocationOf, Covering
      <4> QED
        BY <3>8, <3>9, <4>1 DEF before
    <3>13. r \in LocationOf(a)
      BY <3>11, <3>12
    <3> QED
      BY <3>3, <3>13
  <2> QED
    BY <2>2, <2>3
<1> QED
  BY <1>1, ModulesInvariant, PlacedInvariant, PTL
================================================================================
