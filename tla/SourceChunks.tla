----------------------------- MODULE SourceChunks -----------------------------
(*****************************************************************************)
(* build_python_chunks on the file that SourceIndex stored.  Lines no symbol *)
(* covers, then every symbol, are cut into windows that overlap and fit a    *)
(* number of characters; windows of equal range are one chunk.               *)
(*                                                                           *)
(* The content of a chunk is its range: lines are compared by position.      *)
(* Lines of the syntax tree and of splitlines agree.                         *)
(*****************************************************************************)
EXTENDS SourceIndex

CONSTANTS
    MaxChunks, MaxChunkLines, MaxSymbolChunkLines, OverlapLines, MaxCharacters \* ChunkLimits

\* _validate_limits
ASSUME ChunkLimitsAssumption ==
    /\ MaxChunks \in Nat
    /\ {MaxChunkLines, MaxSymbolChunkLines, MaxCharacters} \subseteq Nat \ {0}
    /\ OverlapLines \in 0 .. MaxChunkLines - 1

VARIABLES
    spans,   \* ranges still to be cut: [owner, from, to, window]
    drafts,  \* windows drafted: [owner, start, end]; owner 0 is the module
    chunks   \* the drafts kept

chunkVars == <<spans, drafts, chunks>>
chunkingVars == <<indexVars, chunkVars>>

ChunkInit == IndexInit /\ spans = <<>> /\ drafts = {} /\ chunks = {}

-----------------------------------------------------------------------------
Lines == 1 .. Len(lines)
Covered == {n \in Lines : \E i \in Ids : n \in symbols[i].start .. symbols[i].end}

\* _uncovered_ranges: the maximal runs of lines outside every symbol.
UncoveredRanges ==
    {r \in Lines \X Lines :
        /\ r[1] <= r[2] /\ \A n \in r[1] .. r[2] : n \notin Covered
        /\ r[1] - 1 \notin Lines \ Covered
        /\ r[2] + 1 \notin Lines \ Covered}

ModuleSpans ==
    [k \in 1 .. Cardinality(UncoveredRanges) |->
        LET range == CHOOSE r \in UncoveredRanges :
                        Cardinality({s \in UncoveredRanges : s[1] < r[1]}) = k - 1
        IN [owner |-> 0, from |-> range[1], to |-> range[2], window |-> MaxChunkLines]]

\* _symbol_chunks: a short symbol is one window, a long one is cut.
SymbolSpan(i) ==
    LET length == symbols[i].end - symbols[i].start + 1
    IN [owner |-> i, from |-> symbols[i].start, to |-> symbols[i].end,
        window |-> IF length <= MaxSymbolChunkLines THEN length ELSE MaxChunkLines]

\* _chunks_for_file
ChunksForFile ==
    /\ stage = "stored"
    /\ stage' = "cut"
    /\ spans' = ModuleSpans \o [i \in Ids |-> SymbolSpan(i)]
    /\ UNCHANGED <<code, sourceVars, storeVars, drafts, chunks>>

-----------------------------------------------------------------------------
\* Characters of the first lines of a file; of its lines from .. to joined by newlines.
Total(file) ==
    LET sum[n \in 0 .. Len(file)] == IF n = 0 THEN 0 ELSE sum[n - 1] + file[n] IN sum
Characters(from, to) == Total(lines)[to] - Total(lines)[from - 1] + to - from
Blank(from, to) == \A n \in from .. to : lines[n] = 0

\* _fit_character_limit
Fitted(from, to) ==
    CHOOSE e \in from .. to :
        /\ e = from \/ Characters(from, e) <= MaxCharacters
        /\ \A f \in e + 1 .. to : Characters(from, f) > MaxCharacters

Greater(a, b) == IF a > b THEN a ELSE b

\* One turn of _window_ranges; a window without code is dropped.
WindowRange ==
    /\ stage = "cut" /\ spans # <<>>
    /\ LET span == spans[1]
           last == Fitted(span.from, Least(span.to, span.from + span.window - 1))
           next == Greater(span.from + 1, last + 1 - OverlapLines)
       IN IF Characters(span.from, last) > MaxCharacters
            THEN IndexFailed("RETRIEVAL_LIMIT_EXCEEDED") /\ UNCHANGED <<spans, drafts>>
            ELSE /\ drafts' = IF Blank(span.from, last) THEN drafts
                              ELSE drafts \cup {[owner |-> span.owner, start |-> span.from,
                                                 end |-> last]}
                 /\ spans' = IF last >= span.to THEN Tail(spans)
                             ELSE [spans EXCEPT ![1].from = next]
                 /\ UNCHANGED <<stage, code>>
    /\ UNCHANGED <<sourceVars, storeVars, chunks>>

-----------------------------------------------------------------------------
\* CHUNK_SPECIFICITY
Specificity(draft) ==
    IF draft.owner = 0 THEN 0 ELSE IF symbols[draft.owner].kind = "class" THEN 1 ELSE 2

\* Mutant: the first draft of a range is kept, as in python-symbol-v1.
KeptFirst(draft) ==
    \A other \in {d \in drafts : d.start = draft.start /\ d.end = draft.end} :
        draft.owner <= other.owner

\* _chunk_order puts the enclosing of two drafts of one range first: its qualified
\* name is a prefix of the other's.  _is_more_specific lets a later one replace it.
Kept(draft) ==
    \A other \in {d \in drafts : d.start = draft.start /\ d.end = draft.end} :
        \/ Specificity(draft) > Specificity(other)
        \/ Specificity(draft) = Specificity(other) /\ draft.owner <= other.owner

\* _deduplicate_chunks, then the number of chunks is checked; no chunk at all is refused
\* by _build_chunks.
Deduplicate ==
    /\ stage = "cut" /\ spans = <<>>
    /\ chunks' = {d \in drafts : Kept(d)}
    /\ IF Cardinality(chunks') \in 1 .. MaxChunks THEN stage' = "chunked" /\ UNCHANGED code
       ELSE IndexFailed("RETRIEVAL_LIMIT_EXCEEDED")
    /\ UNCHANGED <<sourceVars, storeVars, spans, drafts>>

ChunkNext == \/ IndexNext /\ UNCHANGED chunkVars
        \/ ChunksForFile \/ WindowRange \/ Deduplicate

-----------------------------------------------------------------------------
\* No line of code is lost between the windows: each lies in a chunk.
EveryLineInAChunk ==
    \A n \in Lines : lines[n] > 0 => \E c \in chunks : n \in c.start .. c.end

\* A symbol can be found at its first line under its own name, unless an enclosing
\* symbol that is no less specific, a function, say, owns a window of exactly that range.
EverySymbolFound ==
    \A i \in Ids : \E c \in chunks :
        /\ c.start = symbols[i].start /\ c.end <= symbols[i].end
        /\ c.owner # i => /\ c.owner \in 1 .. i - 1 /\ symbols[c.owner].end >= symbols[i].end
                          /\ Specificity(c) >= Specificity([c EXCEPT !.owner = i])

\* Chunks have the unique key of code_chunks and stay within the limits.
ChunksFit ==
    /\ \A c, d \in chunks : c.start = d.start /\ c.end = d.end => c = d
    /\ \A c \in chunks : /\ Characters(c.start, c.end) <= MaxCharacters
                         /\ c.end - c.start + 1 <= Greater(MaxChunkLines, MaxSymbolChunkLines)

ChunksDescribeFile ==
    /\ NeverStuck /\ TreeByRange /\ PreviewIsATree
    /\ stage = "chunked" => EveryLineInAChunk /\ EverySymbolFound /\ ChunksFit

===============================================================================
