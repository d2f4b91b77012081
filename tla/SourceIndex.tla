------------------------------ MODULE SourceIndex ------------------------------
(*****************************************************************************)
(* One Python file on its way through the code index: StructureVisitor walks *)
(* its syntax tree with a stack of open symbols, CodeIndexService._add_file  *)
(* stores the symbols in rounds, parents first, and get_structure shows a    *)
(* bounded preview.                                                          *)
(*                                                                           *)
(* The source is chosen line by line while it is visited, so that every tree *)
(* of at most MaxSymbols symbols over MaxLines lines is met.  A line is its  *)
(* number of characters, 0 when it is blank.  A symbol starts a line of its  *)
(* own, as the Python grammar demands, and ends with its last statement.     *)
(*****************************************************************************)
EXTENDS Naturals, Sequences, FiniteSets

CONSTANTS
    Widths,        \* characters a line of code may have
    MaxLines,      \* bound: lines of the file
    MaxSymbols,    \* bound: symbols of the file
    MaxImports,    \* bound: imports of the file
    MaxEntities,   \* ParserLimits.max_code_entities
    PreviewLimit   \* code_index_max_preview_entries

ASSUME WidthsAssumption == Widths \subseteq Nat \ {0}
ASSUME IndexBoundsAssumption == MaxLines \in Nat /\ MaxSymbols \in Nat /\ MaxImports \in Nat
ASSUME IndexLimitsAssumption == MaxEntities \in Nat /\ PreviewLimit \in Nat \ {0}

VARIABLES
    stage,     \* "visit", "store", "stored", then what SourceChunks adds, or "failed"
    code,      \* failure code
    lines,     \* characters of each line visited
    stack,     \* StructureVisitor._stack: local ids of the open symbols
    symbols,   \* local id -> parsed symbol
    imports,   \* scope of each import: the open symbols
    remaining, \* local ids _add_file has still to store
    stored     \* local ids stored

sourceVars == <<lines, stack, symbols, imports>>
storeVars  == <<remaining, stored>>

NoParent == 0
Ids == 1 .. Len(symbols)
Open == {stack[i] : i \in 1 .. Len(stack)}
Top == IF stack = <<>> THEN NoParent ELSE stack[Len(stack)]

IndexInit ==
    /\ stage = "visit" /\ code = "none"
    /\ lines = <<>> /\ stack = <<>> /\ symbols = <<>> /\ imports = <<>>
    /\ remaining = {} /\ stored = {}

IndexFailed(reason) == stage' = "failed" /\ code' = reason

-----------------------------------------------------------------------------
(* PythonAstParser and StructureVisitor. *)

\* A statement on the next line is the last one so far of every open symbol.
ReadLine(w) == Len(lines) < MaxLines /\ lines' = Append(lines, w)
Extended == [i \in Ids |-> IF i \in Open THEN [symbols[i] EXCEPT !.end = Len(lines) + 1]
                           ELSE symbols[i]]

BlankLine ==
    /\ stage = "visit" /\ ReadLine(0)
    /\ UNCHANGED <<stage, code, stack, symbols, imports, storeVars>>

Statement ==
    /\ stage = "visit"
    /\ \E w \in Widths : ReadLine(w)
    /\ symbols' = Extended
    /\ UNCHANGED <<stage, code, stack, imports, storeVars>>

Import ==
    /\ stage = "visit" /\ Len(imports) < MaxImports
    /\ \E w \in Widths : ReadLine(w)
    /\ symbols' = Extended
    /\ imports' = Append(imports, stack)
    /\ UNCHANGED <<stage, code, stack, storeVars>>

ParentIsClass == Top # NoParent /\ symbols[Top].kind = "class"
KindOf(node) == IF node = "def" THEN IF ParentIsClass THEN "method" ELSE "function"
                ELSE "class"

VisitSymbol(node) ==
    /\ stage = "visit" /\ Len(symbols) < MaxSymbols
    /\ \E w \in Widths : ReadLine(w)
    /\ symbols' = Append(Extended, [parent |-> Top, kind |-> KindOf(node),
                                    start |-> Len(lines) + 1, end |-> Len(lines) + 1])
    /\ stack' = Append(stack, Len(symbols) + 1)
    /\ UNCHANGED <<stage, code, imports, storeVars>>

LeaveSymbol ==
    /\ stage = "visit" /\ stack # <<>>
    /\ stack' = SubSeq(stack, 1, Len(stack) - 1)
    /\ UNCHANGED <<stage, code, lines, symbols, imports, storeVars>>

\* The file cannot be read or parsed, and no other file can be.
ParseFile ==
    /\ stage = "visit" /\ lines = <<>>
    /\ IndexFailed("NO_PYTHON_FILES")
    /\ UNCHANGED <<sourceVars, storeVars>>

Entities == Len(symbols) + Len(imports)

EndOfFile ==
    /\ stage = "visit" /\ stack = <<>>
    /\ IF Entities > MaxEntities
         THEN IndexFailed("PYTHON_SOURCE_LIMIT_EXCEEDED") /\ UNCHANGED remaining
         ELSE stage' = "store" /\ remaining' = Ids /\ UNCHANGED code
    /\ UNCHANGED <<sourceVars, stored>>

-----------------------------------------------------------------------------
(* CodeIndexService._add_file: a symbol's row refers to its parent's row. *)

Ready == {i \in remaining : symbols[i].parent \in stored \cup {NoParent}}

StoreRound ==
    /\ stage = "store" /\ remaining # {}
    /\ IF Ready = {}
         THEN IndexFailed("CODE_INDEX_FAILED") /\ UNCHANGED storeVars
         ELSE /\ stored' = stored \cup Ready
              /\ remaining' = remaining \ Ready
              /\ UNCHANGED <<stage, code>>
    /\ UNCHANGED sourceVars

Committed ==
    /\ stage = "store" /\ remaining = {}
    /\ stage' = "stored"
    /\ UNCHANGED <<code, sourceVars, storeVars>>

IndexNext ==
    \/ BlankLine \/ Statement \/ Import \/ LeaveSymbol
    \/ \E node \in {"class", "def"} : VisitSymbol(node)
    \/ ParseFile \/ EndOfFile \/ StoreRound \/ Committed

indexVars == <<stage, code, sourceVars, storeVars>>

IndexSpec == IndexInit /\ [][IndexNext]_indexVars

-----------------------------------------------------------------------------
(* get_structure: symbols come by start line, at most PreviewLimit entries. *)

Least(a, b) == IF a < b THEN a ELSE b

\* _preview_symbols keeps the first `limit` symbols and renumbers their parents.
StartOrder(i) == 1 + Cardinality({j \in Ids : symbols[j].start < symbols[i].start})
PreviewSymbols(limit) == {i \in Ids : StartOrder(i) <= limit}
ShownParent(i, shown) == IF symbols[i].parent \in shown THEN symbols[i].parent ELSE NoParent

\* _preview_files: the file is an entry, then its symbols, then its imports.
ShownSymbols == PreviewSymbols(PreviewLimit - 1)
ShownImports == Least(Len(imports), PreviewLimit - 1 - Cardinality(ShownSymbols))
Used == 1 + Cardinality(ShownSymbols) + ShownImports
Truncated == Used < 1 + Entities

-----------------------------------------------------------------------------
(* What the index promises to those who read it. *)

\* The hierarchy our own parser reports is never refused by _add_file as a
\* protocol error, whatever the nesting: some symbol is ready in every round.
NeverStuck == code # "CODE_INDEX_FAILED"

\* Symbols form a tree by source range: a symbol lies strictly below its parent,
\* within it, is a method exactly under a class, and two symbols that overlap are
\* nested.  What is stored has its parent stored.
TreeByRange ==
    /\ \A i \in Ids : LET s == symbols[i]
                          p == s.parent
                      IN /\ s.start \in 1 .. s.end /\ s.end <= Len(lines)
                         /\ p # NoParent => /\ p < i /\ symbols[p].start < s.start
                                            /\ s.end <= symbols[p].end
                         /\ (s.kind = "method") <=> (p # NoParent /\ symbols[p].kind = "class"
                                                       /\ s.kind # "class")
    /\ \A i, j \in Ids : (i < j /\ symbols[j].start <= symbols[i].end)
                            => symbols[j].end <= symbols[i].end
    /\ \A i \in stored : symbols[i].parent \in stored \cup {NoParent}

\* A cut preview still is a tree: no symbol loses its parent, and it says that it is
\* cut exactly when an entry is missing.
PreviewIsATree ==
    stage = "stored" =>
        /\ \A i \in ShownSymbols : ShownParent(i, ShownSymbols) = symbols[i].parent
        /\ Used <= PreviewLimit
        /\ Truncated <=> (ShownSymbols # Ids \/ ShownImports < Len(imports))

===============================================================================
