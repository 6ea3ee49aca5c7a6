-------------------------------- MODULE Modules --------------------------------
(***************************************************************************)
(* The module table of cosy (ModuleManager and DebugFile of                *)
(* src/src/elf_dwarf.cpp, resolve_specification of src/src/debugger.cpp):  *)
(* what refresh() makes of the target's mappings, and what locations the   *)
(* user names resolve to.                                                  *)
(*                                                                         *)
(* The target maps and unmaps files; refresh() reads its mappings, groups  *)
(* them by file, and opens one DebugFile each, while the previous table is *)
(* still open.  A file that is not ELF is opened and then abandoned by the *)
(* constructor that throws, with its descriptor.                           *)
(***************************************************************************)
EXTENDS Integers, Sequences, FiniteSets, FiniteSetsExt, SequencesExt

CONSTANTS
    File,     \* files the target may map
    Kind,     \* [File -> {"dyn", "exec", "other", "deleted"}]: ELF type, if any
    Bases,    \* [File -> set of addresses]: where the loader may put it
    Text,     \* size of its text, mapped at offset 0; data follows, two above
    Copies,   \* <<file, address>>: where the program may map a file as data
    Name,     \* of functions
    Symbols,  \* [File -> sequence of [name, value, size]]: functions, in table order
    Lines,    \* [File -> set of [source, line, address, statement]]: its line table
    Where,    \* locations a user gives to break, by form
    Request,  \* what a user writes before `!`, and "" for nothing
    Matches,  \* [Request -> set of files]: module_matches
    Sources,  \* [what a user writes before `:` -> set of sources]: those it ends
    Room      \* descriptors the process may open beside those of its own

ASSUME ModuleAssumption ==
    /\ IsFiniteSet(File) /\ Kind \in [File -> {"dyn", "exec", "other", "deleted"}]
    /\ Bases \in [File -> SUBSET Nat] /\ Text \in Nat \ {0} /\ Room \in Nat
    /\ Copies \subseteq File \X Nat
    /\ \A f \in File : \A r \in Lines[f] : r.address \in Nat
    /\ \A f \in File :
         /\ Symbols[f] \in Seq([name : Name, value : Nat \ {0}, size : Nat])
         /\ \A r, q \in Lines[f] : r.address = q.address => r.line = q.line /\ r.source = q.source
    /\ \A w \in Where :
         \/ w.form = "address" /\ w.address \in Nat
         \/ w.form = "line" /\ w.file \in DOMAIN Sources /\ w.line \in Nat
         \/ w.form = "symbol" /\ w.module \in Request /\ w.name \in Name
         \/ w.form \in {"scoped", "malformed"}
    /\ Matches \in [Request -> SUBSET File] /\ "" \in Request /\ Matches[""] = File

VARIABLES
    loaded,  \* the base of each file the loader has in place
    copied,  \* the copies the program has mapped
    files,   \* debug_files: file, lowest start minus offset, highest end
    leaked,  \* descriptors of abandoned DebugFiles
    seen     \* ghost: the mappings of the last refresh that did not throw

vars == <<loaded, copied, files, leaked, seen>>

-----------------------------------------------------------------------------
(* /proc/PID/maps.                                                         *)

Segments(f, base) ==
    {[file |-> f, start |-> base, end |-> base + Text, offset |-> 0],
     [file |-> f, start |-> base + Text + 2, end |-> base + Text + 4, offset |-> Text]}
Copy(c) == [file |-> c[1], start |-> c[2], end |-> c[2] + Text, offset |-> 0]

Maps == {Copy(c) : c \in copied} \cup UNION {Segments(f, loaded[f]) : f \in DOMAIN loaded}

Overlap(m, n) == m.start < n.end /\ n.start < m.end
Free(new) == \A m \in new, n \in Maps : ~Overlap(m, n)

Load(f, base) ==
    /\ f \notin DOMAIN loaded /\ Free(Segments(f, base))
    /\ loaded' = [g \in DOMAIN loaded \cup {f} |-> IF g = f THEN base ELSE loaded[g]]
    /\ UNCHANGED <<copied, files, leaked, seen>>

Unload(f) ==
    /\ f \in DOMAIN loaded /\ Kind[f] # "exec"
    /\ loaded' = [g \in DOMAIN loaded \ {f} |-> loaded[g]]
    /\ UNCHANGED <<copied, files, leaked, seen>>

MapCopy(c) ==
    /\ c \notin copied /\ Free({Copy(c)}) /\ copied' = copied \cup {c}
    /\ UNCHANGED <<loaded, files, leaked, seen>>

-----------------------------------------------------------------------------
(* ModuleManager::refresh.                                                 *)

Elf(f) == Kind[f] \in {"dyn", "exec"}
OpensShared(f) == Kind[f] = "dyn" \/ Kind[f] = "other"
Opens(f) == Kind[f] # "deleted"  \* its path ends in " (deleted)"

EntryLast(f) ==
    LET group == {m \in Maps : m.file = f} IN
    [file |-> f, base |-> Max({m.start - m.offset : m \in group}),
     end |-> Max({m.end : m \in group})]
Entry(f) ==
    LET group == {m \in Maps : m.file = f} IN
    [file |-> f, base |-> Min({m.start - m.offset : m \in group}),
     end |-> Max({m.end : m \in group})]

\* The groups to open come in the order of an unordered_map, one for each file.
UngroupedOrders ==
    {[i \in DOMAIN s |-> s[i].file] : s \in SetToSeqs({m \in Maps : Opens(m.file)})}
Orders == SetToSeqs({f \in {m.file : m \in Maps} : Opens(f)})

\* The loop of refresh(): a file that is not ELF throws, and has no entry.
Parse(opened) ==
    LET parsed[n \in 0..Len(opened)] ==
          IF n = 0 THEN << >>
          ELSE IF Elf(opened[n]) THEN Append(parsed[n - 1], opened[n]) ELSE parsed[n - 1]
    IN parsed[Len(opened)]

\* Each takes a descriptor while there is one; only those of the new table are
\* ever given back.
Refresh ==
    LET room == Room - Len(files) - leaked IN
    /\ room >= 1  \* else read_maps throws, and nothing changes
    /\ \E tried \in Orders :
       LET opened == SubSeq(tried, 1, Min({room, Len(tried)}))
           parsed == Parse(opened)
       IN
       /\ files' = [i \in DOMAIN parsed |-> Entry(parsed[i])]
       /\ leaked' = leaked + Len(opened) - Len(parsed)
    /\ seen' = Maps
    /\ UNCHANGED <<loaded, copied>>

-----------------------------------------------------------------------------
(* What the table answers.                                                 *)

RuntimeBaseBias(e) == e.base
RuntimeBase(e) == IF Kind[e.file] = "dyn" THEN e.base ELSE 0
Covers(e, a) == RuntimeBase(e) <= a /\ a < e.end

\* The first entry that satisfies P, as a set of at most one.
First(P(_)) ==
    {files[i] : i \in {j \in DOMAIN files : P(files[j]) /\ \A k \in 1..(j - 1) : ~P(files[k])}}

\* DebugFile::symbol: the first function of the name.
Symbol(f, name) ==
    {Symbols[f][i].value : i \in {j \in DOMAIN Symbols[f] :
        Symbols[f][j].name = name /\ \A k \in 1..(j - 1) : Symbols[f][k].name # name}}

ResolveSymbol(request, name) ==
    UNION {{RuntimeBase(e) + v : v \in Symbol(e.file, name)} :
      e \in First(LAMBDA d : d.file \in Matches[request] /\ Symbol(d.file, name) # {})}

\* DebugFile::source_line: where statements of the line begin.
SourceLine(f, source, line) ==
    {r.address : r \in {q \in Lines[f] :
        q.source \in Sources[source] /\ q.line = line /\ q.statement}}

ResolveLine(source, line) ==
    UNION {{RuntimeBase(e) + a : a \in SourceLine(e.file, source, line)} : e \in Range(files)}

\* resolve_specification: `*ADDRESS`, `FILE:LINE`, or a symbol with or without
\* `MODULE!`.  A colon makes a line of anything else, and what follows it no
\* number makes nothing: so does an address that does not parse.
Resolve(w) ==
    CASE w.form = "address" -> {w.address}
      [] w.form = "line" -> ResolveLine(w.file, w.line)
      [] w.form = "symbol" -> ResolveSymbol(w.module, w.name)
      [] w.form \in {"scoped", "malformed"} -> {}

\* function(): in the first file that covers the address, the last function to
\* begin at or before it; one that has a size ends there.
Under(f, x) == {i \in DOMAIN Symbols[f] : LET s == Symbols[f][i] IN
                  s.value <= x /\ (s.size = 0 \/ x < s.value + s.size)}
ClosestFirst(f, x) == {Symbols[f][i].name : i \in {j \in Under(f, x) :
                         \A k \in Under(f, x) : j <= k}}
Behind(f, k, j) ==
    \/ Symbols[f][k].value < Symbols[f][j].value
    \/ Symbols[f][k].value = Symbols[f][j].value /\ j <= k
Closest(f, x) == {Symbols[f][i].name : i \in {j \in Under(f, x) :
                    \A k \in Under(f, x) : Behind(f, k, j)}}
FunctionAt(a) ==
    UNION {Closest(e.file, a - RuntimeBase(e)) : e \in First(LAMBDA d : Covers(d, a))}

\* location(): likewise the last row of its line table at or before it.
LocationOf(a) ==
    UNION {LET x == a - RuntimeBase(e)
               before == {r.address : r \in {q \in Lines[e.file] : q.address <= x}}
           IN {r \in Lines[e.file] : before # {} /\ r.address = Max(before)} :
             e \in First(LAMBDA d : Covers(d, a))}

Init ==
    /\ \E f \in File : Kind[f] = "exec" /\ \E b \in Bases[f] : loaded = [g \in {f} |-> b]
    /\ copied = {} /\ files = << >> /\ leaked = 0 /\ seen = {}

Next ==
    \/ \E f \in File : Unload(f) \/ \E b \in Bases[f] : Load(f, b)
    \/ \E c \in Copies : MapCopy(c)
    \/ Refresh

Spec == Init /\ [][Next]_vars

-----------------------------------------------------------------------------
\* Where a file's addresses are when the loader put it at base.
Place(f, base, a) == IF Kind[f] = "dyn" THEN base + a ELSE a
Fresh == seen = Maps

\* What a program usually does not do: map an ELF file as data.
DataCopies == \A c \in Copies : ~Elf(c[1])

\* How linkers and loaders lay files out: functions and lines are in the text, and
\* no file is put where another's addresses may be (those of a program with fixed
\* addresses reach down to 0).
Layout ==
    /\ \A f \in {g \in File : Elf(g)} : \A base \in Bases[f] :
         /\ \A s \in Range(Symbols[f]) : Place(f, base, s.value) \in base..(base + Text - 1)
         /\ \A r \in Lines[f] : Place(f, base, r.address) \in base..(base + Text - 1)
    /\ \A f, g \in {h \in File : Elf(h)} : f # g =>
         \A b \in Bases[f], c \in Bases[g] :
           b + Text <= Place(g, c, 0) \/ c + Text + 4 <= b

\* The table holds each ELF file at most once and fits in the descriptors.
TypeOK ==
    /\ DOMAIN loaded \subseteq File /\ \A f \in DOMAIN loaded : loaded[f] \in Bases[f]
    /\ copied \subseteq Copies
    /\ \A i \in DOMAIN files : Elf(files[i].file) /\ files[i].base < files[i].end
    /\ \A i, j \in DOMAIN files : files[i].file = files[j].file => i = j
    /\ leaked \in Nat /\ leaked + Len(files) <= Room

\* An ELF file that was mapped at the last refresh is missing from the table
\* only if the descriptors lost so far and those of two tables, the old one
\* still being open, leave none for it.
MissingOnlyWhenFull ==
    \A m \in seen : Elf(m.file) /\ (\A i \in DOMAIN files : files[i].file # m.file)
      => leaked + 2 * Cardinality({f \in File : Elf(f)}) > Room

\* Resolving a location and looking the address up agree: what print_stop and
\* backtrace say of a breakpoint's address is the function, or one at the same
\* address, or the line where the breakpoint was put.
RoundTrip ==
    \A w \in Where : \A a \in Resolve(w) :
      /\ w.form = "symbol" => \E f \in Matches[w.module], n \in FunctionAt(a) :
           \E v \in Symbol(f, w.name) : \E s \in Range(Symbols[f]) : s.name = n /\ s.value = v
      /\ w.form = "line" => \E r \in LocationOf(a) :
           r.source \in Sources[w.file] /\ r.line = w.line

\* After a refresh a symbol resolves to its place in a file the loader has in
\* place, and a line to its places in all of those that the table holds.
ResolvesToCode ==
    Fresh =>
      \A w \in Where :
        /\ w.form = "symbol" => \A a \in Resolve(w) :
             \E f \in DOMAIN loaded : \E s \in Range(Symbols[f]) :
               s.name = w.name /\ a = Place(f, loaded[f], s.value)
        /\ w.form = "line" => Resolve(w) =
             UNION {{Place(f, loaded[f], a) : a \in SourceLine(f, w.file, w.line)} :
                      f \in {g \in DOMAIN loaded : \E e \in Range(files) : e.file = g}}

\* src/src/elf_dwarf.cpp:410 lets mappings of deleted or pseudo files go without
\* symbols; every other file that is mapped at a refresh has them after it.
MappedSymbolized ==
    \A m \in seen : Elf(m.file) => \E i \in DOMAIN files : files[i].file = m.file
=============================================================================
