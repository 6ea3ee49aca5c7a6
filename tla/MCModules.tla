------------------------------ MODULE MCModules ------------------------------
(* A fixed-address program, two libraries that share a symbol and a line, a *)
(* data file (a locale archive, say) and a file deleted since.              *)
EXTENDS Modules

MCFile == {"prog", "liba", "libb", "data", "old"}
MCKind == [prog |-> "exec", liba |-> "dyn", libb |-> "dyn", data |-> "other", old |-> "deleted"]
MCBases == [prog |-> {10}, liba |-> {100, 140}, libb |-> {120}, data |-> {}, old |-> {160}]
Function(n, v, size) == [name |-> n, value |-> v, size |-> size]
MCSymbols ==
    [prog |-> <<Function("main", 11, 2)>>,
     liba |-> <<Function("f", 1, 1), Function("a", 2, 1), Function("alias", 2, 1)>>,
     libb |-> <<Function("start", 1, 0), Function("f", 3, 1), Function("f", 2, 1)>>,
     data |-> << >>, old |-> <<Function("a", 1, 1)>>]
Row(s, l, a, st) == [source |-> s, line |-> l, address |-> a, statement |-> st]
MCLines ==
    [prog |-> {Row("main.c", 10, 11, TRUE), Row("main.c", 10, 12, TRUE), Row("main.c", 10, 13, FALSE)},
     liba |-> {Row("lib.c", 20, 1, TRUE), Row("b.c", 20, 2, TRUE)},
     libb |-> {Row("lib.c", 20, 3, TRUE), Row("lib.c", 21, 2, FALSE)},
     data |-> {}, old |-> {}]
MCSources == "main.c" :> {"main.c"} @@ "b.c" :> {"b.c", "lib.c"}
MCMatches == "" :> MCFile @@ "liba" :> {"liba"} @@ "lib" :> {"liba", "libb"}
MCRequest == {"", "liba", "lib"}
MCName == {"main", "f", "a", "alias", "start"}
MCWhere == [form : {"symbol"}, module : MCRequest, name : MCName]
           \cup [form : {"line"}, file : {"main.c", "b.c"}, line : {10, 20}]
           \cup {[form |-> "address", address |-> 11], [form |-> "scoped"]}
DataOnly == {<<"data", 180>>}

ASSUME MCLayoutAssumption == DataCopies /\ Layout
=============================================================================
