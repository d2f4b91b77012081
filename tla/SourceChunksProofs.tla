-------------------------- MODULE SourceChunksProofs --------------------------
(*****************************************************************************)
(* The symbols of every file form a tree by source range, and _add_file      *)
(* stores every such tree: for files of any length and nesting of any depth. *)
(* What get_structure cuts off such a tree leaves a tree.                    *)
(*****************************************************************************)
EXTENDS SourceChunks, TLAPS, SequenceTheorems, FiniteSetTheorems,
        FunctionTheorems, WellFoundedInduction

Symbol == [parent : Nat, kind : {"class", "method", "function"}, start : Nat, end : Nat]

\* SourceChunks goes on from "stored" to "cut" and "chunked".
Types ==
    /\ stage \in {"visit", "store", "stored", "cut", "chunked", "failed"}
    /\ lines \in Seq(Nat) /\ symbols \in Seq(Symbol) /\ stack \in Seq(Nat)
    /\ remaining \subseteq Ids /\ stored \subseteq Ids

\* The stack is a path down the tree, in the order of the source.
StackIsPath ==
    \A k \in 1 .. Len(stack) :
        /\ stack[k] \in Ids
        /\ symbols[stack[k]].parent = IF k = 1 THEN NoParent ELSE stack[k - 1]
        /\ \A l \in k + 1 .. Len(stack) : stack[k] < stack[l]

\* A symbol that is closed ends before every later one that is still open.
ClosedBeforeOpen ==
    \A i \in Ids \ Open, j \in Open : i < j => symbols[i].end < symbols[j].start

RangesOf(parsed, last) ==
    \A i \in 1 .. Len(parsed) :
        LET s == parsed[i]
            p == s.parent
        IN /\ s.start \in 1 .. s.end /\ s.end <= last
           /\ p # NoParent => /\ p < i /\ parsed[p].start < s.start
                              /\ s.end <= parsed[p].end
           /\ (s.kind = "method") <=> (p # NoParent /\ parsed[p].kind = "class"
                                          /\ s.kind # "class")

NestedOf(parsed) ==
    \A i, j \in 1 .. Len(parsed) :
        i < j /\ parsed[j].start <= parsed[i].end => parsed[j].end <= parsed[i].end

Ranges == RangesOf(symbols, Len(lines))
Nested == NestedOf(symbols)

\* What is not stored yet still remains.
Rounds ==
    /\ stage = "visit" => stored = {}
    /\ stage = "store" => remaining = Ids \ stored
    /\ \A i \in stored : symbols[i].parent \in stored \cup {NoParent}

Inv == Types /\ StackIsPath /\ ClosedBeforeOpen /\ Ranges /\ Nested /\ Rounds /\ NeverStuck

-----------------------------------------------------------------------------
(* Least elements, induction and counting.                                   *)

Below == OpToRel(<, Nat)

LEMMA BelowWellFounded == IsWellFoundedOn(Below, Nat)
BY NatLessThanWellFounded, Zenon DEF Below

LEMMA BelowIs == Below = {ss \in Nat \X Nat : ss[1] < ss[2]}
BY DEF Below, OpToRel

LEMMA LeastMember ==
    ASSUME NEW T, T \subseteq Nat, T # {}
    PROVE  \E x \in T : \A y \in T : ~(y < x)
<1>1. PICK x \in T : \A y \in T : <<y, x>> \notin Below
  BY BelowWellFounded, WFMin
<1>2. \A y \in T : <<y, x>> \in Nat \X Nat /\ <<y, x>>[1] = y /\ <<y, x>>[2] = x
  OBVIOUS
<1> QED
  BY <1>1, <1>2, BelowIs

\* The same from above.
LEMMA GreatestMember ==
    ASSUME NEW n \in Nat, NEW T, T \subseteq 0 .. n, T # {}
    PROVE  \E x \in T : \A y \in T : ~(x < y)
<1> DEFINE M == {n - x : x \in T}
<1>1. M \subseteq Nat /\ M # {}
  <2>1. \A x \in T : x \in 0 .. n
    OBVIOUS
  <2>2. \A x \in T : n - x \in Nat
    BY <2>1
  <2> QED
    BY <2>2
<1>2. PICK z \in M : \A y \in M : ~(y < z)
  BY <1>1, LeastMember
<1>3. PICK x \in T : z = n - x
  BY <1>2
<1>4. ASSUME NEW y \in T PROVE ~(x < y)
  <2>1. ~(n - y < n - x)
    BY <1>2, <1>3
  <2>2. x \in 0 .. n /\ y \in 0 .. n
    BY <1>3
  <2> QED
    BY <2>1, <2>2
<1> QED
  BY <1>3, <1>4

\* Induction up to n, on the set of numbers for which a statement holds.
LEMMA UpTo ==
    ASSUME NEW T, NEW n \in Nat, 0 \in T, \A i \in 0 .. n - 1 : i \in T => i + 1 \in T
    PROVE  \A i \in 0 .. n : i \in T
<1> DEFINE missing == {i \in 0 .. n : i \notin T}
<1> SUFFICES ASSUME missing # {} PROVE FALSE
  OBVIOUS
<1>1. missing \subseteq Nat
  OBVIOUS
<1>2. PICK i \in missing : \A j \in missing : ~(j < i)
  BY <1>1, LeastMember
<1>3. i \in 1 .. n /\ i \notin T
  BY <1>2
<1>4. i - 1 \in 0 .. n - 1 /\ i - 1 < i /\ i - 1 + 1 = i /\ i - 1 \in 0 .. n
  BY <1>3
<1>5. i - 1 \notin missing
  BY <1>2, <1>4
<1> QED
  BY <1>3, <1>4, <1>5

StrictOrder(R, S) ==
    /\ \A c \in S : <<c, c>> \notin R
    /\ \A c, d \in S : c # d => <<c, d>> \in R \/ <<d, c>> \in R
    /\ \A c, d, e \in S : <<c, d>> \in R /\ <<d, e>> \in R => <<c, e>> \in R

Ahead(R, S, c) == {d \in S : <<d, c>> \in R}

\* The members of a finite set under a strict order are numbered by those before them.
LEMMA Numbered ==
    ASSUME NEW S, NEW R, IsFiniteSet(S), StrictOrder(R, S)
    PROVE  /\ Cardinality(S) \in Nat
           /\ \A c \in S : Cardinality(Ahead(R, S, c)) \in 0 .. Cardinality(S) - 1
           /\ \A c, d \in S : <<c, d>> \in R =>
                  Cardinality(Ahead(R, S, c)) < Cardinality(Ahead(R, S, d))
           /\ \A c, d \in S :
                  Cardinality(Ahead(R, S, c)) = Cardinality(Ahead(R, S, d)) => c = d
           /\ \A i \in 0 .. Cardinality(S) - 1 : \E c \in S : Cardinality(Ahead(R, S, c)) = i
<1> DEFINE N == Cardinality(S)
           B(c) == Ahead(R, S, c)
           rank == [c \in S |-> Cardinality(B(c))]
<1>1. N \in Nat
  BY FS_CardinalityType
<1>2. ASSUME NEW c \in S
      PROVE  IsFiniteSet(B(c)) /\ Cardinality(B(c)) \in 0 .. N - 1
  <2>1. B(c) \in SUBSET (S \ {c})
    BY DEF Ahead, StrictOrder
  <2>2. IsFiniteSet(S \ {c}) /\ Cardinality(S \ {c}) = N - 1
    BY FS_RemoveElement
  <2>3. IsFiniteSet(B(c)) /\ Cardinality(B(c)) <= N - 1
    BY <2>1, <2>2, FS_Subset
  <2>4. Cardinality(B(c)) \in Nat
    BY <2>3, FS_CardinalityType
  <2> QED
    BY <1>1, <2>3, <2>4
<1>3. ASSUME NEW c \in S, NEW d \in S, <<c, d>> \in R
      PROVE  Cardinality(B(c)) < Cardinality(B(d))
  <2>1. B(c) \in SUBSET B(d) /\ c \in B(d) /\ c \notin B(c)
    BY <1>3 DEF Ahead, StrictOrder
  <2>2. Cardinality(B(c)) <= Cardinality(B(d)) /\ Cardinality(B(c)) # Cardinality(B(d))
    BY <1>2, <2>1, FS_Subset
  <2> QED
    BY <1>2, <2>2
<1>4. ASSUME NEW c \in S, NEW d \in S, Cardinality(B(c)) = Cardinality(B(d)) PROVE c = d
  <2> SUFFICES ASSUME c # d PROVE FALSE
    OBVIOUS
  <2>1. <<c, d>> \in R \/ <<d, c>> \in R
    BY DEF StrictOrder
  <2>2. Cardinality(B(c)) < Cardinality(B(d)) \/ Cardinality(B(d)) < Cardinality(B(c))
    BY <1>3, <2>1
  <2> QED
    BY <1>2, <1>4, <2>2
<1>5. rank \in [S -> 0 .. N - 1] /\ \A c, d \in S : rank[c] = rank[d] => c = d
  BY <1>2, <1>4
<1>6. rank \in Injection(S, 0 .. N - 1)
  BY <1>5, Fun_IsInj
<1>7. IsFiniteSet(0 .. N - 1) /\ Cardinality(0 .. N - 1) = N
  <2>1. 0 \in Int /\ N - 1 \in Int
    BY <1>1
  <2>2. /\ IsFiniteSet(0 .. N - 1)
        /\ Cardinality(0 .. N - 1) = IF 0 > N - 1 THEN 0 ELSE N - 1 - 0 + 1
    BY <2>1, FS_Interval
  <2> QED
    BY <1>1, <2>2
<1>8. rank \in Surjection(S, 0 .. N - 1)
  BY <1>6, <1>7, FS_Injection
<1>9. \A i \in 0 .. N - 1 : \E c \in S : rank[c] = i
  BY <1>8 DEF Surjection
<1> QED
  BY <1>1, <1>2, <1>3, <1>4, <1>9

LEMMA LengthIs ==
    ASSUME NEW S, NEW n \in Nat, NEW seq \in Seq(S), DOMAIN seq = 1 .. n
    PROVE  Len(seq) = n
<1>1. DOMAIN seq = 1 .. Len(seq) /\ Len(seq) \in Nat
  OBVIOUS
<1> QED
  BY <1>1

OrderedList(o, S, R) ==
    /\ o \in Seq(S) /\ Len(o) = Cardinality(S) /\ Cardinality(S) \in Nat
    /\ \A c \in S : \E i \in 1 .. Len(o) : o[i] = c
    /\ \A i, j \in 1 .. Len(o) : i < j => <<o[i], o[j]>> \in R /\ o[i] # o[j]

\* A list with every member in its place is ordered and complete.
LEMMA Listed ==
    ASSUME NEW S, NEW R, IsFiniteSet(S), StrictOrder(R, S),
           NEW T, NEW o \in [1 .. Cardinality(S) -> T],
           \A c \in S : o[Cardinality(Ahead(R, S, c)) + 1] = c
    PROVE  OrderedList(o, S, R)
<1> DEFINE N == Cardinality(S)
           place(c) == Cardinality(Ahead(R, S, c))
<1>1. /\ N \in Nat
      /\ \A c \in S : place(c) \in 0 .. N - 1
      /\ \A c, d \in S : <<c, d>> \in R => place(c) < place(d)
      /\ \A c, d \in S : place(c) = place(d) => c = d
      /\ \A i \in 0 .. N - 1 : \E c \in S : place(c) = i
  BY Numbered
<1>2. \A c \in S : o[place(c) + 1] = c
  OBVIOUS
<1> HIDE DEF N, place
<1>3. \A c \in S : place(c) + 1 \in 1 .. N
  BY <1>1
<1>4. ASSUME NEW i \in 1 .. N PROVE o[i] \in S /\ place(o[i]) = i - 1
  <2>1. i - 1 \in 0 .. N - 1 /\ i - 1 + 1 = i
    BY <1>1
  <2>2. PICK c \in S : place(c) = i - 1
    BY <1>1, <2>1
  <2> QED
    BY <1>2, <2>1, <2>2
<1>5. o \in [1 .. N -> S]
  BY <1>4 DEF N
<1>6. o \in Seq(S) /\ DOMAIN o = 1 .. N
  <2>1. N \in Nat
    BY <1>1
  <2> QED
    BY <1>5, <2>1, SeqDef
<1>7. Len(o) = N
  <2>1. N \in Nat
    BY <1>1
  <2> QED
    BY <1>6, <2>1, LengthIs
<1>8. ASSUME NEW i \in 1 .. N, NEW j \in 1 .. N, i < j
      PROVE  <<o[i], o[j]>> \in R /\ o[i] # o[j]
  <2>1. o[i] \in S /\ o[j] \in S /\ place(o[i]) = i - 1 /\ place(o[j]) = j - 1
    BY <1>4
  <2>2. i - 1 < j - 1 /\ i \in Nat /\ j \in Nat
    BY <1>1, <1>8
  <2>3. o[i] # o[j]
    BY <2>1, <2>2
  <2>4. ~(place(o[j]) < place(o[i]))
    BY <2>1, <2>2
  <2> QED
    BY <1>1, <2>1, <2>3, <2>4 DEF StrictOrder
<1> QED
  BY <1>1, <1>2, <1>3, <1>6, <1>7, <1>8 DEF N, OrderedList

Computed(f, m, n, V, b, step) ==
    /\ f \in [m .. n -> V] /\ f[m] = b
    /\ \A i \in m + 1 .. n : f[i] = step[<<i, f[i - 1]>>]

\* A function on m .. n whose every value is computed from the one before exists.
LEMMA Recursion ==
    ASSUME NEW m \in Nat, NEW n \in Nat, m <= n, NEW V, NEW b \in V,
           NEW step, \A i \in m + 1 .. n, x \in V : step[<<i, x>>] \in V
    PROVE  \E f : Computed(f, m, n, V, b, step)
<1> DEFINE Good(k, f) == /\ f \in [m .. m + k -> V] /\ f[m] = b
                         /\ \A i \in m + 1 .. m + k : f[i] = step[<<i, f[i - 1]>>]
           T == {k \in 0 .. n - m : \E f : Good(k, f)}
<1>1. n - m \in Nat
  OBVIOUS
<1>2. 0 \in T
  <2>1. Good(0, [i \in m .. m + 0 |-> b])
    OBVIOUS
  <2> HIDE DEF Good
  <2> QED
    BY <1>1, <2>1
<1>3. ASSUME NEW k \in 0 .. (n - m) - 1, k \in T PROVE k + 1 \in T
  <2>1. PICK f : Good(k, f)
    BY <1>3
  <2> DEFINE g == [i \in m .. m + (k + 1) |->
                     IF i = m + (k + 1) THEN step[<<i, f[i - 1]>>] ELSE f[i]]
  <2>2. \A i \in m .. m + k : i \in m .. m + (k + 1) /\ i # m + (k + 1) /\ g[i] = f[i]
    OBVIOUS
  <2>3. f[m + k] \in V /\ m + (k + 1) \in m + 1 .. n /\ m + (k + 1) - 1 = m + k
    BY <2>1
  <2>4. g[m + (k + 1)] = step[<<m + (k + 1), f[m + k]>>] /\ g[m + (k + 1)] \in V
    BY <2>3
  <2>5. \A i \in m .. m + (k + 1) : i \in m .. m + k \/ i = m + (k + 1)
    OBVIOUS
  <2>6. g \in [m .. m + (k + 1) -> V]
    <3>1. \A i \in m .. m + (k + 1) : g[i] \in V
      BY <2>1, <2>2, <2>4, <2>5
    <3> QED
      BY <3>1
  <2>7. g[m] = b
    BY <2>1, <2>2
  <2>8. ASSUME NEW i \in m + 1 .. m + (k + 1) PROVE g[i] = step[<<i, g[i - 1]>>]
    <3>1. i - 1 \in m .. m + k
      OBVIOUS
    <3>2. g[i - 1] = f[i - 1]
      BY <2>2, <3>1
    <3>3. CASE i = m + (k + 1)
      BY <2>3, <2>4, <3>2, <3>3
    <3>4. CASE i # m + (k + 1)
      <4>1. i \in m + 1 .. m + k /\ i \in m .. m + k
        BY <3>4
      <4> QED
        BY <2>1, <2>2, <3>2, <4>1
    <3> QED
      BY <3>3, <3>4
  <2>9. Good(k + 1, g)
    BY <2>6, <2>7, <2>8
  <2>10. k + 1 \in 0 .. n - m
    OBVIOUS
  <2> HIDE DEF Good, g
  <2> QED
    BY <2>9, <2>10
<1>4. n - m \in T
  <2> HIDE DEF T
  <2>1. \A i \in 0 .. n - m : i \in T
    BY <1>1, <1>2, <1>3, UpTo
  <2> QED
    BY <1>1, <2>1
<1>5. PICK f : Good(n - m, f)
  BY <1>4
<1>6. m + (n - m) = n
  OBVIOUS
<1> QED
  BY <1>5, <1>6 DEF Computed

\* f is the sums of the first members of s.
SumsOf(f, s, n) == f = [i \in 0 .. n |-> IF i = 0 THEN 0 ELSE f[i - 1] + s[i]]

LEMMA SumsExist ==
    ASSUME NEW n \in Nat, NEW s, \A i \in 1 .. n : s[i] \in Nat
    PROVE  \E f : SumsOf(f, s, n)
<1> DEFINE step == [p \in (1 .. n) \X Nat |-> p[2] + s[p[1]]]
<1>1. \A i \in 1 .. n, x \in Nat : step[<<i, x>>] = x + s[i]
  OBVIOUS
<1> HIDE DEF step
<1>2. ASSUME NEW i \in 0 + 1 .. n, NEW x \in Nat PROVE step[<<i, x>>] \in Nat
  <2>1. i \in 1 .. n
    OBVIOUS
  <2>2. step[<<i, x>>] = x + s[i] /\ s[i] \in Nat
    BY <1>1, <2>1
  <2> QED
    BY <2>2
<1>3. 0 \in Nat /\ 0 <= n
  OBVIOUS
<1>4. PICK f : Computed(f, 0, n, Nat, 0, step)
  BY <1>2, <1>3, Recursion
<1>5. /\ f \in [0 .. n -> Nat] /\ f[0] = 0
      /\ \A i \in 1 .. n : f[i] = step[<<i, f[i - 1]>>]
  BY <1>4 DEF Computed
<1>6. ASSUME NEW i \in 0 .. n PROVE f[i] = IF i = 0 THEN 0 ELSE f[i - 1] + s[i]
  <2>1. CASE i = 0
    BY <1>5, <2>1
  <2>2. CASE i # 0
    <3>1. i \in 1 .. n /\ i - 1 \in 0 .. n
      BY <2>2
    <3>2. f[i - 1] \in Nat
      BY <1>5, <3>1
    <3>3. f[i] = step[<<i, f[i - 1]>>]
      BY <1>5, <3>1
    <3> QED
      BY <1>1, <2>2, <3>1, <3>2, <3>3
  <2> QED
    BY <2>1, <2>2
<1>7. f = [i \in 0 .. n |-> IF i = 0 THEN 0 ELSE f[i - 1] + s[i]]
  BY <1>5, <1>6
<1> QED
  BY <1>7 DEF SumsOf

LEMMA SumsAre ==
    ASSUME NEW n \in Nat, NEW s, \A i \in 1 .. n : s[i] \in Nat, NEW f, SumsOf(f, s, n)
    PROVE  /\ f[0] = 0 /\ \A i \in 1 .. n : f[i] = f[i - 1] + s[i]
           /\ \A i \in 0 .. n : f[i] \in Nat
<1>1. f[0] = 0 /\ \A i \in 1 .. n : f[i] = f[i - 1] + s[i]
  <2>1. \A i \in 0 .. n : f[i] = IF i = 0 THEN 0 ELSE f[i - 1] + s[i]
    BY DEF SumsOf
  <2> QED
    BY <2>1
<1> DEFINE T == {i \in 0 .. n : f[i] \in Nat}
<1>2. 0 \in T
  BY <1>1
<1>3. \A i \in 0 .. n - 1 : i \in T => i + 1 \in T
  <2> SUFFICES ASSUME NEW i \in 0 .. n - 1, f[i] \in Nat
               PROVE  i + 1 \in 0 .. n /\ f[i + 1] \in Nat
    OBVIOUS
  <2>1. i + 1 \in 1 .. n /\ i + 1 - 1 = i
    OBVIOUS
  <2>2. f[i + 1] = f[i] + s[i + 1] /\ s[i + 1] \in Nat
    BY <1>1, <2>1
  <2> QED
    BY <2>1, <2>2
<1> HIDE DEF T
<1>4. \A i \in 0 .. n : i \in T
  BY <1>2, <1>3, UpTo
<1> QED
  BY <1>1, <1>4 DEF T

-----------------------------------------------------------------------------
(* The invariant of the rounds.                                              *)

\* Of a tree whose parents come first, some part can always be stored.
LEMMA SomeIsReady == ASSUME Inv, stage = "store", remaining # {} PROVE Ready # {}
<1>1. remaining \subseteq Nat
  BY DEF Inv, Types, Ids
<1>2. PICK i \in remaining : \A j \in remaining : ~(j < i)
  BY <1>1, LeastMember
<1>3. i \in Ids /\ symbols[i].parent \in Nat /\ Len(symbols) \in Nat
  <2>1. i \in Ids /\ symbols \in Seq(Symbol)
    BY DEF Inv, Types
  <2>2. symbols[i] \in Symbol /\ Len(symbols) \in Nat
    BY <2>1 DEF Ids
  <2> QED
    BY <2>1, <2>2 DEF Symbol
<1>4. CASE symbols[i].parent = NoParent
  BY <1>4 DEF Ready
<1>5. CASE symbols[i].parent # NoParent
  <2>1. symbols[i].parent < i
    BY <1>3, <1>5 DEF Inv, Ranges, RangesOf, Ids
  <2>2. symbols[i].parent \in Ids
    BY <1>3, <1>5, <2>1 DEF Ids, NoParent
  <2>3. symbols[i].parent \notin remaining
    BY <1>2, <2>1
  <2>4. symbols[i].parent \in stored
    BY <2>2, <2>3 DEF Inv, Rounds
  <2> QED
    BY <2>4 DEF Ready
<1> QED
  BY <1>4, <1>5

-----------------------------------------------------------------------------
(* A line is read.                                                           *)

\* Every open symbol ends with the line, the others end where they did.
LEMMA ExtendedIs ==
    ASSUME Types
    PROVE  /\ Extended \in Seq(Symbol) /\ Len(Extended) = Len(symbols)
           /\ \A i \in Ids :
                  /\ Extended[i].parent = symbols[i].parent
                  /\ Extended[i].kind = symbols[i].kind
                  /\ Extended[i].start = symbols[i].start
                  /\ Extended[i].end = IF i \in Open THEN Len(lines) + 1 ELSE symbols[i].end
<1>1. \A i \in Ids : symbols[i] \in Symbol
  BY DEF Types, Ids
<1>2. Len(lines) + 1 \in Nat /\ Len(symbols) \in Nat
  BY DEF Types
<1>3. \A i \in Ids : /\ Extended[i] \in Symbol
                     /\ Extended[i].parent = symbols[i].parent
                     /\ Extended[i].kind = symbols[i].kind
                     /\ Extended[i].start = symbols[i].start
                     /\ Extended[i].end = IF i \in Open THEN Len(lines) + 1 ELSE symbols[i].end
  BY <1>1, <1>2 DEF Extended, Symbol
<1>4. Extended \in [1 .. Len(symbols) -> Symbol]
  <2>1. \A i \in 1 .. Len(symbols) : Extended[i] \in Symbol
    BY <1>3 DEF Ids
  <2>2. DOMAIN Extended = 1 .. Len(symbols)
    BY DEF Extended, Ids
  <2>3. Extended = [i \in 1 .. Len(symbols) |-> Extended[i]]
    BY DEF Extended, Ids
  <2> QED
    BY <2>1, <2>2, <2>3
<1>5. Extended \in Seq(Symbol)
  BY <1>2, <1>4, SeqDef
<1>6. Len(Extended) = Len(symbols)
  BY <1>2, <1>4, <1>5, LenProperties
<1> QED
  BY <1>3, <1>5, <1>6

LEMMA SymbolIs ==
    ASSUME Types
    PROVE  \A i \in Ids : /\ i \in Nat /\ symbols[i] \in Symbol
                         /\ symbols[i].start \in Nat /\ symbols[i].end \in Nat
                         /\ symbols[i].parent \in Nat
<1>1. \A i \in Ids : i \in Nat /\ symbols[i] \in Symbol
  BY DEF Types, Ids
<1> QED
  BY <1>1 DEF Symbol

\* The parent of an open symbol is open.
LEMMA OpenPath ==
    ASSUME Types, StackIsPath
    PROVE  /\ Open \subseteq Ids
           /\ \A i \in Open : symbols[i].parent \in Open \cup {NoParent}
<1>1. Len(stack) \in Nat
  BY DEF Types
<1>2. \A k \in 1 .. Len(stack) : k # 1 => k - 1 \in 1 .. Len(stack)
  BY <1>1
<1> QED
  BY <1>2 DEF StackIsPath, Open

\* The open symbols are as deep as the line, so they still enclose what is in them.
LEMMA ExtendedTree ==
    ASSUME Inv
    PROVE  RangesOf(Extended, Len(lines) + 1) /\ NestedOf(Extended)
<1> DEFINE L == Len(lines) + 1
<1> USE DEF Inv
<1>1. Len(lines) \in Nat /\ Len(Extended) = Len(symbols) /\ Ids = 1 .. Len(Extended)
  BY ExtendedIs DEF Types, Ids
<1>3. \A i \in Ids : /\ Extended[i].parent = symbols[i].parent
                     /\ Extended[i].kind = symbols[i].kind
                     /\ Extended[i].start = symbols[i].start
                     /\ Extended[i].end = IF i \in Open THEN L ELSE symbols[i].end
  BY ExtendedIs
<1>4. \A i \in Ids : i \in Nat /\ symbols[i].start \in Nat /\ symbols[i].end \in Nat
                    /\ symbols[i].parent \in Nat
  BY SymbolIs
<1>5. Open \subseteq Ids /\ \A i \in Open : symbols[i].parent \in Open \cup {NoParent}
  BY OpenPath
<1>6. \A i \in Ids :
        /\ symbols[i].start \in 1 .. symbols[i].end /\ symbols[i].end <= Len(lines)
        /\ symbols[i].parent # NoParent =>
               /\ symbols[i].parent < i /\ symbols[symbols[i].parent].start < symbols[i].start
               /\ symbols[i].end <= symbols[symbols[i].parent].end
        /\ (symbols[i].kind = "method") <=>
               (symbols[i].parent # NoParent /\ symbols[symbols[i].parent].kind = "class"
                  /\ symbols[i].kind # "class")
  BY DEF Ranges, RangesOf, Ids
<1>7. RangesOf(Extended, L)
  <2> SUFFICES ASSUME NEW i \in Ids
               PROVE  LET s == Extended[i]
                          p == s.parent
                      IN /\ s.start \in 1 .. s.end /\ s.end <= L
                         /\ p # NoParent => /\ p < i /\ Extended[p].start < s.start
                                            /\ s.end <= Extended[p].end
                         /\ (s.kind = "method") <=> (p # NoParent /\ Extended[p].kind = "class"
                                                        /\ s.kind # "class")
    BY <1>1 DEF RangesOf
  <2>2. symbols[i].parent # NoParent => symbols[i].parent \in Ids
    BY <1>4, <1>6 DEF Ids, NoParent, Types
  <2>3. Extended[i].start \in 1 .. Extended[i].end /\ Extended[i].end <= L
    <3>1. Extended[i].start = symbols[i].start /\ Extended[i].end \in {symbols[i].end, L}
      BY <1>3
    <3>2. symbols[i].start \in Nat /\ symbols[i].end \in Nat /\ Extended[i].end \in Nat
      BY <1>1, <1>4, <3>1
    <3> QED
      BY <1>1, <1>6, <3>1, <3>2
  <2>4. CASE symbols[i].parent = NoParent
    BY <1>3, <1>6, <2>3, <2>4
  <2>5. CASE symbols[i].parent # NoParent
    <3> DEFINE p == symbols[i].parent
    <3>1. p \in Ids /\ p \in Nat /\ symbols[p].end \in Nat /\ symbols[p].end <= Len(lines)
      BY <1>4, <1>6, <2>2, <2>5
    <3>2. Extended[i].end <= Extended[p].end
      BY <1>1, <1>3, <1>4, <1>5, <1>6, <2>5, <3>1
    <3>3. /\ Extended[i].parent = p /\ Extended[p].start = symbols[p].start
          /\ Extended[i].start = symbols[i].start
          /\ Extended[p].kind = symbols[p].kind /\ Extended[i].kind = symbols[i].kind
      BY <1>3, <3>1
    <3>4. p < i /\ Extended[p].start < Extended[i].start
      BY <1>6, <2>5, <3>3
    <3> QED
      BY <1>6, <2>3, <2>5, <3>2, <3>3, <3>4
  <2> QED
    BY <2>4, <2>5
<1>8. NestedOf(Extended)
  <2> SUFFICES ASSUME NEW i \in Ids, NEW j \in Ids, i < j, Extended[j].start <= Extended[i].end
               PROVE  Extended[j].end <= Extended[i].end
    BY <1>1 DEF NestedOf
  <2>2. CASE i \in Open
    BY <1>1, <1>3, <1>4, <1>6, <2>2
  <2>3. CASE i \notin Open /\ j \in Open
    <3>1. symbols[i].end < symbols[j].start
      BY <2>3 DEF ClosedBeforeOpen
    <3>2. symbols[j].start <= symbols[i].end
      BY <1>3, <2>3
    <3> QED
      BY <1>4, <3>1, <3>2
  <2>4. CASE i \notin Open /\ j \notin Open
    BY <1>3, <2>4 DEF Nested, NestedOf, Ids
  <2> QED
    BY <2>2, <2>3, <2>4
<1> QED
  BY <1>7, <1>8

\* A line that starts no symbol.
LEMMA InvRead ==
    ASSUME Inv, stage = "visit", NEW w \in Nat, lines' = Append(lines, w), symbols' = Extended,
           UNCHANGED <<stage, code, stack, storeVars>>
    PROVE  Inv'
<1> USE DEF Inv
<1>1. Len(lines) \in Nat /\ Len(lines') = Len(lines) + 1 /\ lines' \in Seq(Nat)
  BY DEF Types
<1>2. Ids' = Ids /\ Open' = Open /\ symbols' \in Seq(Symbol)
  BY ExtendedIs DEF Ids, Open
<1>3. \A i \in Ids : /\ symbols'[i].parent = symbols[i].parent
                     /\ symbols'[i].start = symbols[i].start
                     /\ symbols'[i].end = IF i \in Open THEN Len(lines) + 1 ELSE symbols[i].end
  BY ExtendedIs
<1>4. Types'
  BY <1>1, <1>2 DEF Types, storeVars
<1>5. StackIsPath'
  BY <1>2, <1>3 DEF StackIsPath
<1>6. Open \subseteq Ids
  BY OpenPath
<1>7. ClosedBeforeOpen'
  BY <1>2, <1>3, <1>6 DEF ClosedBeforeOpen
<1>8. Ranges' /\ Nested'
  BY <1>1, ExtendedTree DEF Ranges, Nested
<1>9. Rounds' /\ NeverStuck'
  BY <1>2, <1>3 DEF Rounds, NeverStuck, storeVars, Types
<1> QED
  BY <1>4, <1>5, <1>7, <1>8, <1>9

\* A symbol on a line of its own, at the end of a tree whose open part reaches it.
LEMMA AppendedTree ==
    ASSUME NEW s \in Seq(Symbol), NEW n \in Nat \ {0}, NEW e \in Symbol,
           RangesOf(s, n), NestedOf(s), e.start = n, e.end = n,
           e.parent # NoParent => /\ e.parent \in 1 .. Len(s)
                                  /\ s[e.parent].start < n /\ s[e.parent].end = n,
           (e.kind = "method") <=> (e.parent # NoParent /\ s[e.parent].kind = "class"
                                      /\ e.kind # "class")
    PROVE  RangesOf(Append(s, e), n) /\ NestedOf(Append(s, e))
<1> DEFINE t == Append(s, e)
           last == Len(s) + 1
<1>1. /\ Len(s) \in Nat /\ Len(t) = last /\ t[last] = e
      /\ \A i \in 1 .. Len(s) : t[i] = s[i]
  OBVIOUS
<1>2. \A i \in 1 .. last : i \in 1 .. Len(s) \/ i = last
  BY <1>1
<1>3. \A i \in 1 .. Len(s) : /\ i \in Nat /\ s[i].parent \in Nat
                             /\ s[i].start \in Nat /\ s[i].end \in Nat /\ s[i].end <= n
  <2>1. \A i \in 1 .. Len(s) : s[i] \in Symbol
    OBVIOUS
  <2> QED
    BY <2>1 DEF RangesOf, Symbol
<1>4. RangesOf(t, n)
  <2> SUFFICES ASSUME NEW i \in 1 .. last
               PROVE  LET x == t[i]
                          p == x.parent
                      IN /\ x.start \in 1 .. x.end /\ x.end <= n
                         /\ p # NoParent => p < i /\ t[p].start < x.start /\ x.end <= t[p].end
                         /\ (x.kind = "method") <=> (p # NoParent /\ t[p].kind = "class"
                                                        /\ x.kind # "class")
    BY <1>1 DEF RangesOf
  <2>1. CASE i \in 1 .. Len(s)
    <3>1. s[i].parent # NoParent => s[i].parent \in 1 .. Len(s)
      BY <1>1, <1>3, <2>1 DEF RangesOf, NoParent
    <3> QED
      BY <1>1, <2>1, <3>1 DEF RangesOf
  <2>2. CASE i = last
    BY <1>1, <2>2 DEF NoParent
  <2> QED
    BY <1>2, <2>1, <2>2
<1>5. NestedOf(t)
  <2> SUFFICES ASSUME NEW i \in 1 .. last, NEW j \in 1 .. last, i < j, t[j].start <= t[i].end
               PROVE  t[j].end <= t[i].end
    BY <1>1 DEF NestedOf
  <2>1. i \in 1 .. Len(s)
    BY <1>1, <1>2
  <2>2. CASE j \in 1 .. Len(s)
    BY <1>1, <2>1, <2>2 DEF NestedOf
  <2>3. CASE j = last
    BY <1>1, <2>1, <2>3
  <2> QED
    BY <1>2, <2>2, <2>3
<1> QED
  BY <1>4, <1>5

\* A symbol goes on the stack above the one it lies in.
LEMMA InvVisit == ASSUME Inv, NEW node \in {"class", "def"}, VisitSymbol(node) PROVE Inv'
<1> DEFINE n == Len(symbols)
           L == Len(lines) + 1
           d == Len(stack)
           e == [parent |-> Top, kind |-> KindOf(node), start |-> L, end |-> L]
<1> USE DEF Inv
<1>1. /\ stage = "visit" /\ symbols' = Append(Extended, e) /\ stack' = Append(stack, n + 1)
      /\ UNCHANGED <<stage, code, imports, remaining, stored>>
  BY DEF VisitSymbol, storeVars
<1>2. /\ n \in Nat /\ d \in Nat /\ L \in Nat \ {0} /\ Len(lines) \in Nat
      /\ lines' \in Seq(Nat) /\ Len(lines') = L
  <2>1. PICK w \in Widths : lines' = Append(lines, w)
    BY DEF VisitSymbol, ReadLine
  <2>2. w \in Nat
    BY <2>1, WidthsAssumption
  <2> QED
    BY <2>1, <2>2 DEF Types
<1>3. Extended \in Seq(Symbol) /\ Len(Extended) = n
  BY ExtendedIs
<1>4. \A i \in Ids : /\ Extended[i].parent = symbols[i].parent
                     /\ Extended[i].kind = symbols[i].kind
                     /\ Extended[i].start = symbols[i].start
                     /\ Extended[i].end = IF i \in Open THEN L ELSE symbols[i].end
  BY ExtendedIs
<1>5. Open \subseteq Ids /\ \A i \in Ids : i \in Nat /\ i < n + 1
  BY <1>2, OpenPath DEF Ids
<1>6. \A i \in Ids : /\ symbols[i].start \in Nat /\ symbols[i].end \in Nat
                     /\ symbols[i].start <= Len(lines) /\ symbols[i].end <= Len(lines)
  BY SymbolIs DEF Ranges, RangesOf, Ids
<1>7. Top # NoParent => Top \in Open /\ Top = stack[d] /\ d >= 1
  BY <1>2 DEF Top, Open, Types
<1>8. Top \in Nat /\ e \in Symbol
  <2>1. Top \in Nat
    BY <1>5, <1>7 DEF NoParent
  <2> QED
    BY <1>2, <2>1 DEF Symbol, KindOf
<1>9. Ranges' /\ Nested'
  <2>1. e.parent # NoParent => /\ e.parent \in 1 .. Len(Extended)
                               /\ Extended[e.parent].start < L /\ Extended[e.parent].end = L
    <3>1. e.parent = Top
      OBVIOUS
    <3>2. ASSUME Top # NoParent
          PROVE  Top \in Ids /\ Extended[Top].start < L /\ Extended[Top].end = L
      <4>1. Top \in Ids /\ Top \in Open
        BY <1>5, <1>7, <3>2
      <4>2. symbols[Top].start \in Nat /\ symbols[Top].start <= Len(lines)
        BY <1>6, <4>1
      <4> QED
        BY <1>2, <1>4, <4>1, <4>2
    <3> HIDE DEF e
    <3> QED
      BY <1>3, <3>1, <3>2 DEF Ids
  <2>2. (e.kind = "method") <=> (e.parent # NoParent /\ Extended[e.parent].kind = "class"
                                  /\ e.kind # "class")
    <3>1. Top # NoParent => Extended[Top].kind = symbols[Top].kind
      BY <1>4, <1>5, <1>7
    <3> QED
      BY <3>1 DEF KindOf, ParentIsClass
  <2>3. e.start = L /\ e.end = L
    OBVIOUS
  <2> HIDE DEF e
  <2>4. RangesOf(Append(Extended, e), L) /\ NestedOf(Append(Extended, e))
    BY <1>2, <1>3, <1>8, <2>1, <2>2, <2>3, ExtendedTree, AppendedTree
  <2> QED
    BY <1>1, <1>2, <2>4 DEF Ranges, Nested
<1>10. /\ symbols' \in Seq(Symbol) /\ Len(symbols') = n + 1
       /\ \A i \in Ids : symbols'[i] = Extended[i]
       /\ symbols'[n + 1] = e
  <2> HIDE DEF e
  <2> QED
    BY <1>1, <1>3, <1>8 DEF Ids
<1>11. /\ stack' \in Seq(Nat) /\ Len(stack') = d + 1 /\ stack'[d + 1] = n + 1
       /\ \A k \in 1 .. d : stack'[k] = stack[k]
  BY <1>1, <1>2 DEF Types
<1>12. Ids' = Ids \cup {n + 1}
  BY <1>2, <1>10 DEF Ids
<1>13. Open' = Open \cup {n + 1}
  <2>1. Open' = {stack'[k] : k \in 1 .. d + 1}
    BY <1>11 DEF Open
  <2>2. 1 .. d + 1 = (1 .. d) \cup {d + 1}
    BY <1>2
  <2>3. Open' = {stack'[k] : k \in 1 .. d} \cup {stack'[d + 1]}
    BY <2>1, <2>2
  <2>4. {stack'[k] : k \in 1 .. d} = {stack[k] : k \in 1 .. d}
    BY <1>11
  <2> QED
    BY <1>11, <2>3, <2>4 DEF Open
<1>14. Types'
  BY <1>1, <1>2, <1>10, <1>11, <1>12 DEF Types
<1>15. StackIsPath'
  <2> SUFFICES ASSUME NEW k \in 1 .. d + 1
               PROVE  /\ stack'[k] \in Ids'
                      /\ symbols'[stack'[k]].parent = IF k = 1 THEN NoParent ELSE stack'[k - 1]
                      /\ \A l \in k + 1 .. d + 1 : stack'[k] < stack'[l]
    BY <1>11 DEF StackIsPath
  <2>1. CASE k = d + 1
    <3>1. e.parent = IF d = 0 THEN NoParent ELSE stack[d]
      BY <1>2 DEF Top, Types
    <3>2. stack'[k] = n + 1 /\ stack'[k] \in Ids' /\ symbols'[stack'[k]].parent = e.parent
      BY <1>10, <1>11, <1>12, <2>1
    <3>3. k # 1 => stack'[k - 1] = stack[d]
      BY <1>2, <1>11, <2>1
    <3>4. k + 1 .. d + 1 = {}
      BY <1>2, <2>1
    <3>5. k = 1 <=> d = 0
      BY <1>2, <2>1
    <3> HIDE DEF e
    <3> QED
      BY <3>1, <3>2, <3>3, <3>4, <3>5
  <2>2. CASE k \in 1 .. d
    <3>1. /\ stack[k] \in Ids
          /\ symbols[stack[k]].parent = IF k = 1 THEN NoParent ELSE stack[k - 1]
          /\ \A l \in k + 1 .. d : stack[k] < stack[l]
      BY <2>2 DEF StackIsPath
    <3>2. k # 1 => k - 1 \in 1 .. d
      BY <1>2, <2>2
    <3>3. symbols'[stack'[k]].parent = IF k = 1 THEN NoParent ELSE stack'[k - 1]
      <4>1. stack'[k] = stack[k] /\ (k # 1 => stack'[k - 1] = stack[k - 1])
        BY <1>11, <2>2, <3>2
      <4>2. symbols'[stack[k]].parent = symbols[stack[k]].parent
        BY <1>4, <1>10, <3>1
      <4> QED
        BY <3>1, <4>1, <4>2
    <3>4. \A l \in k + 1 .. d + 1 : stack'[k] < stack'[l]
      <4> SUFFICES ASSUME NEW l \in k + 1 .. d + 1 PROVE stack'[k] < stack'[l]
        OBVIOUS
      <4>1. CASE l = d + 1
        BY <1>5, <1>11, <2>2, <3>1, <4>1
      <4>2. CASE l \in k + 1 .. d
        BY <1>11, <2>2, <3>1, <4>2
      <4> QED
        BY <1>2, <2>2, <4>1, <4>2
    <3> QED
      BY <1>11, <1>12, <2>2, <3>1, <3>3, <3>4
  <2> QED
    BY <1>2, <2>1, <2>2
<1>16. ClosedBeforeOpen'
  <2> SUFFICES ASSUME NEW i \in Ids' \ Open', NEW j \in Open', i < j
               PROVE  symbols'[i].end < symbols'[j].start
    BY DEF ClosedBeforeOpen
  <2>1. i \in Ids /\ i \notin Open /\ symbols'[i].end = symbols[i].end
    BY <1>4, <1>10, <1>12, <1>13
  <2>2. CASE j = n + 1
    BY <1>2, <1>6, <1>10, <2>1, <2>2
  <2>3. CASE j \in Open
    BY <1>4, <1>5, <1>10, <2>1, <2>3 DEF ClosedBeforeOpen
  <2> QED
    BY <1>13, <2>2, <2>3
<1>17. Rounds' /\ NeverStuck'
  BY <1>1 DEF Rounds, NeverStuck
<1> QED
  BY <1>9, <1>14, <1>15, <1>16, <1>17

\* The innermost open symbol is closed: nothing later is open.
LEMMA InvLeave == ASSUME Inv, LeaveSymbol PROVE Inv'
<1> DEFINE d == Len(stack)
           t == stack[d]
<1> USE DEF Inv
<1>1. /\ stage = "visit" /\ stack # <<>> /\ stack' = SubSeq(stack, 1, d - 1)
      /\ UNCHANGED <<stage, code, lines, symbols, imports, remaining, stored>>
  BY DEF LeaveSymbol, storeVars
<1>2. /\ d \in Nat \ {0} /\ stack' \in Seq(Nat) /\ Len(stack') = d - 1
      /\ \A k \in 1 .. d - 1 : stack'[k] = stack[k]
  <2>1. stack \in Seq(Nat) /\ d \in Nat \ {0}
    BY <1>1 DEF Types
  <2>2. d - 1 \in Int /\ 1 \in Int /\ \A k \in 1 .. d - 1 : stack[k] \in Nat
    <3>1. \A k \in 1 .. d - 1 : k \in 1 .. d
      BY <2>1
    <3> QED
      BY <2>1, <3>1
  <2>3. /\ SubSeq(stack, 1, d - 1) \in Seq(Nat)
        /\ Len(SubSeq(stack, 1, d - 1)) = IF 1 <= d - 1 THEN d - 1 - 1 + 1 ELSE 0
        /\ \A k \in 1 .. d - 1 - 1 + 1 : SubSeq(stack, 1, d - 1)[k] = stack[1 + k - 1]
    BY <2>2, SubSeqProperties
  <2>4. d - 1 - 1 + 1 = d - 1 /\ (\A k \in 1 .. d - 1 : 1 + k - 1 = k)
    BY <2>1
  <2>5. \A k \in 1 .. d - 1 : SubSeq(stack, 1, d - 1)[k] = stack[k]
    BY <2>3, <2>4
  <2>6. Len(SubSeq(stack, 1, d - 1)) = d - 1
    <3>1. \A x \in Nat \ {0} : (IF 1 <= x - 1 THEN x - 1 - 1 + 1 ELSE 0) = x - 1
      OBVIOUS
    <3>2. (IF 1 <= d - 1 THEN d - 1 - 1 + 1 ELSE 0) = d - 1
      BY <2>1, <3>1
    <3> QED
      BY <2>3, <3>2
  <2> QED
    BY <1>1, <2>1, <2>3, <2>5, <2>6
<1>3. Ids' = Ids /\ Open' \subseteq Open /\ Open \subseteq Open' \cup {t}
  BY <1>1, <1>2 DEF Ids, Open
<1>4. \A j \in Open' : j < t
  <2> SUFFICES ASSUME NEW k \in 1 .. d - 1 PROVE stack[k] < t
    BY <1>2 DEF Open
  <2>1. k \in 1 .. d /\ d \in k + 1 .. d
    BY <1>2
  <2> QED
    BY <2>1 DEF StackIsPath
<1>5. t \in Nat /\ \A i \in Ids : i \in Nat
  BY <1>2, SymbolIs DEF StackIsPath
<1>6. ClosedBeforeOpen'
  <2> SUFFICES ASSUME NEW i \in Ids \ Open', NEW j \in Open', i < j
               PROVE  symbols[i].end < symbols[j].start
    BY <1>1, <1>3 DEF ClosedBeforeOpen
  <2>1. i # t
    BY <1>3, <1>4, <1>5, OpenPath
  <2> QED
    BY <1>3, <2>1 DEF ClosedBeforeOpen
<1>7. StackIsPath'
  <2>1. \A k \in 1 .. d - 1 : k \in 1 .. d /\ (k # 1 => k - 1 \in 1 .. d - 1)
                             /\ k + 1 .. d - 1 \subseteq (k + 1 .. d) \cap (1 .. d - 1)
    BY <1>2
  <2> QED
    BY <1>1, <1>2, <1>3, <2>1 DEF StackIsPath
<1>8. Types' /\ Ranges' /\ Nested' /\ Rounds' /\ NeverStuck'
  BY <1>1, <1>2, <1>3 DEF Types, Ranges, Nested, Rounds, NeverStuck
<1> QED
  BY <1>6, <1>7, <1>8

-----------------------------------------------------------------------------
(* The other steps.                                                          *)

LEMMA InvBlank == ASSUME Inv, BlankLine PROVE Inv'
<1> USE DEF Inv
<1>1. /\ lines' \in Seq(Nat) /\ Len(lines) \in Nat /\ Len(lines') = Len(lines) + 1
      /\ UNCHANGED <<stage, code, symbols, stack, remaining, stored>>
  BY DEF BlankLine, ReadLine, Types, storeVars
<1>2. Ids' = Ids /\ Open' = Open
  BY <1>1 DEF Ids, Open
<1>3. \A i \in 1 .. Len(symbols) : symbols[i].end \in Nat
  BY SymbolIs DEF Ids
<1>4. Ranges'
  BY <1>1, <1>3 DEF Ranges, RangesOf
<1> QED
  BY <1>1, <1>2, <1>4
     DEF Types, StackIsPath, ClosedBeforeOpen, Nested, Rounds, NeverStuck

\* Steps that leave the source alone.
LEMMA InvStore ==
    ASSUME Inv, ParseFile \/ EndOfFile \/ StoreRound \/ Committed \/ UNCHANGED indexVars
    PROVE  Inv'
<1> USE DEF Inv
<1>1. UNCHANGED <<lines, symbols, stack>>
  BY DEF ParseFile, EndOfFile, StoreRound, Committed, indexVars, sourceVars
<1>2. Ids' = Ids /\ Open' = Open
  BY <1>1 DEF Ids, Open
<1>3. StackIsPath' /\ ClosedBeforeOpen' /\ Ranges' /\ Nested'
  BY <1>1, <1>2 DEF StackIsPath, ClosedBeforeOpen, Ranges, Nested
<1>4. Types' /\ Rounds' /\ NeverStuck'
  <2>1. CASE ParseFile
    BY <1>1, <1>2, <2>1 DEF ParseFile, IndexFailed, storeVars, Types, Rounds, NeverStuck
  <2>2. CASE EndOfFile
    BY <1>1, <1>2, <2>2 DEF EndOfFile, IndexFailed, Types, Rounds, NeverStuck
  <2>3. CASE Committed
    BY <1>1, <1>2, <2>3 DEF Committed, storeVars, Types, Rounds, NeverStuck
  <2>4. CASE UNCHANGED indexVars
    BY <1>1, <1>2, <2>4 DEF indexVars, storeVars, Types, Rounds, NeverStuck
  <2>5. CASE StoreRound
    <3>1. /\ stage = "store" /\ stored' = stored \cup Ready /\ remaining' = remaining \ Ready
          /\ UNCHANGED <<stage, code>>
      BY <2>5, SomeIsReady DEF StoreRound
    <3>2. Ready \subseteq remaining /\ \A i \in Ready : symbols[i].parent \in stored \cup {NoParent}
      BY DEF Ready
    <3> QED
      BY <1>1, <1>2, <3>1, <3>2 DEF Types, Rounds, NeverStuck
  <2> QED
    BY <2>1, <2>2, <2>3, <2>4, <2>5
<1> QED
  BY <1>3, <1>4

LEMMA InvNext == ASSUME Inv, [IndexNext]_indexVars PROVE Inv'
<1>1. CASE Statement \/ Import
  <2>1. PICK w \in Widths : lines' = Append(lines, w)
    BY <1>1 DEF Statement, Import, ReadLine
  <2>2. w \in Nat
    BY <2>1, WidthsAssumption
  <2> QED
    BY <1>1, <2>1, <2>2, InvRead DEF Statement, Import, storeVars
<1> QED
  BY <1>1, InvVisit, InvLeave, InvBlank, InvStore DEF IndexNext

LEMMA InvInit == ASSUME IndexInit PROVE Inv
<1>1. /\ stage = "visit" /\ code = "none" /\ lines = <<>> /\ stack = <<>> /\ symbols = <<>>
      /\ remaining = {} /\ stored = {}
  BY DEF IndexInit
<1>2. Len(<<>>) = 0 /\ 1 .. 0 = {} /\ Ids = {} /\ Open = {}
  BY <1>1 DEF Ids, Open
<1> QED
  BY <1>1, <1>2 DEF Inv, Types, StackIsPath, ClosedBeforeOpen, Ranges, RangesOf, Nested,
                    NestedOf, Rounds, NeverStuck

LEMMA Invariant == IndexSpec => []Inv
BY InvInit, InvNext, PTL DEF IndexSpec

\* _add_file never refuses what the project's own parser reports, whatever the depth of the
\* nesting and the number of symbols (CodeIndexService._add_file).
THEOREM SymbolsAreStored == IndexSpec => []NeverStuck
<1>1. Inv => NeverStuck
  BY DEF Inv
<1> QED
  BY <1>1, Invariant, PTL

\* Symbols form a tree by source range, and a stored symbol has its parent stored, for
\* files of any length and nesting of any depth (StructureVisitor, _add_file).
THEOREM SymbolsFormATree == IndexSpec => []TreeByRange
<1>1. Inv => TreeByRange
  BY DEF Inv, Ranges, RangesOf, Nested, NestedOf, Rounds, TreeByRange, Ids
<1> QED
  BY <1>1, Invariant, PTL

-----------------------------------------------------------------------------
(* The preview.                                                              *)

\* Symbols are numbered in the order of the source and start on a line of code.
SourceOrder ==
    /\ imports \in Seq(Seq(Nat))
    /\ \A i \in Ids : lines[symbols[i].start] > 0
    /\ \A i, j \in Ids : i < j => symbols[i].start < symbols[j].start

LEMMA StartsAre ==
    ASSUME Inv
    PROVE  \A i \in Ids : /\ symbols[i].start \in 1 .. Len(lines)
                         /\ symbols[i].end \in symbols[i].start .. Len(lines)
<1>1. \A i \in Ids : /\ symbols[i].start \in 1 .. symbols[i].end
                     /\ symbols[i].end <= Len(lines) /\ symbols[i].end \in Nat
  BY SymbolIs DEF Inv, Ranges, RangesOf, Ids
<1>2. Len(lines) \in Nat
  BY DEF Inv, Types
<1> QED
  BY <1>1, <1>2

\* A line more moves no symbol.
LEMMA SourceOrderRead ==
    ASSUME Inv, SourceOrder, NEW w \in Nat, lines' = Append(lines, w), Ids' = Ids,
           \A i \in Ids : symbols'[i].start = symbols[i].start, imports' \in Seq(Seq(Nat))
    PROVE  SourceOrder'
<1>1. \A i \in Ids : lines'[symbols[i].start] = lines[symbols[i].start]
  <2>1. lines \in Seq(Nat)
    BY DEF Inv, Types
  <2>2. \A n \in 1 .. Len(lines) : lines'[n] = lines[n]
    BY <2>1
  <2> QED
    BY <2>2, StartsAre
<1> QED
  BY <1>1 DEF SourceOrder

LEMMA SourceOrderVisit ==
    ASSUME Inv, SourceOrder, NEW node \in {"class", "def"}, VisitSymbol(node)
    PROVE  SourceOrder'
<1> DEFINE n == Len(symbols)
           L == Len(lines) + 1
           e == [parent |-> Top, kind |-> KindOf(node), start |-> L, end |-> L]
<1>1. PICK w \in Widths : lines' = Append(lines, w)
  BY DEF VisitSymbol, ReadLine
<1>2. w \in Nat \ {0} /\ lines \in Seq(Nat) /\ n \in Nat /\ L \in Nat
  BY <1>1, WidthsAssumption DEF Inv, Types
<1>3. lines'[L] = w /\ \A k \in 1 .. Len(lines) : lines'[k] = lines[k]
  BY <1>1, <1>2
<1>4. /\ Extended \in Seq(Symbol) /\ Len(Extended) = n
      /\ \A i \in Ids : Extended[i].start = symbols[i].start
  BY ExtendedIs DEF Inv
<1>5. symbols' = Append(Extended, e) /\ imports' = imports
  BY DEF VisitSymbol
<1>6. e.start = L
  OBVIOUS
<1> HIDE DEF e
<1>7. /\ Len(symbols') = n + 1 /\ symbols'[n + 1] = e
      /\ \A i \in 1 .. n : symbols'[i] = Extended[i]
  BY <1>2, <1>4, <1>5
<1>8. Ids' = Ids \cup {n + 1} /\ \A i \in Ids : i < n + 1 /\ i \in Nat
  BY <1>2, <1>7 DEF Ids
<1>9. /\ symbols'[n + 1].start = L
      /\ \A i \in Ids : /\ symbols'[i].start = symbols[i].start
                        /\ symbols[i].start \in 1 .. Len(lines)
  BY <1>4, <1>6, <1>7, StartsAre DEF Ids
<1>10. \A i \in Ids' : lines'[symbols'[i].start] > 0
  <2> SUFFICES ASSUME NEW i \in Ids' PROVE lines'[symbols'[i].start] > 0
    OBVIOUS
  <2>1. CASE i \in Ids
    BY <1>3, <1>9, <2>1 DEF SourceOrder
  <2>2. CASE i = n + 1
    BY <1>2, <1>3, <1>9, <2>2
  <2> QED
    BY <1>8, <2>1, <2>2
<1>11. ASSUME NEW i \in Ids', NEW j \in Ids', i < j
       PROVE  symbols'[i].start < symbols'[j].start
  <2>1. i \in Ids
    BY <1>2, <1>8, <1>11
  <2>2. CASE j \in Ids
    BY <1>9, <1>11, <2>1, <2>2 DEF SourceOrder
  <2>3. CASE j = n + 1
    BY <1>2, <1>9, <2>1, <2>3
  <2> QED
    BY <1>8, <2>2, <2>3
<1> QED
  BY <1>5, <1>10, <1>11 DEF SourceOrder

LEMMA SourceOrderNext ==
    ASSUME Inv, SourceOrder, [IndexNext]_indexVars
    PROVE  SourceOrder'
<1>1. CASE Statement \/ Import
  <2>1. PICK w \in Widths : lines' = Append(lines, w) /\ symbols' = Extended
    BY <1>1 DEF Statement, Import, ReadLine
  <2>2. w \in Nat
    BY <2>1, WidthsAssumption
  <2>3. Ids' = Ids /\ \A i \in Ids : symbols'[i].start = symbols[i].start
    BY <2>1, ExtendedIs DEF Ids, Inv
  <2>4. imports' \in Seq(Seq(Nat))
    <3>1. imports \in Seq(Seq(Nat)) /\ stack \in Seq(Nat)
      BY DEF SourceOrder, Inv, Types
    <3>2. imports' = imports \/ imports' = Append(imports, stack)
      BY <1>1 DEF Statement, Import
    <3>3. Append(imports, stack) \in Seq(Seq(Nat))
      BY <3>1, AppendProperties
    <3> QED
      BY <3>1, <3>2, <3>3
  <2> QED
    BY <2>1, <2>2, <2>3, <2>4, SourceOrderRead
<1>2. CASE BlankLine
  <2>1. lines' = Append(lines, 0) /\ symbols' = symbols /\ imports' = imports
    BY <1>2 DEF BlankLine, ReadLine
  <2>2. Ids' = Ids /\ imports' \in Seq(Seq(Nat))
    BY <2>1 DEF Ids, SourceOrder
  <2> QED
    BY <2>1, <2>2, SourceOrderRead
<1>3. CASE LeaveSymbol \/ ParseFile \/ EndOfFile \/ StoreRound \/ Committed
             \/ UNCHANGED indexVars
  <2>1. lines' = lines /\ symbols' = symbols /\ imports' = imports
    BY <1>3 DEF LeaveSymbol, ParseFile, EndOfFile, StoreRound, Committed, indexVars, sourceVars
  <2> QED
    BY <2>1 DEF SourceOrder, Ids
<1> QED
  BY <1>1, <1>2, <1>3, SourceOrderVisit DEF IndexNext

LEMMA SourceOrderInit == ASSUME IndexInit PROVE SourceOrder
<1>1. imports = <<>> /\ Len(symbols) = 0
  BY DEF IndexInit
<1>2. Ids = {}
  BY <1>1 DEF Ids
<1> QED
  BY <1>1, <1>2 DEF SourceOrder

\* A parent starts before its symbols, so it is among the first as soon as they are.
LEMMA PreviewOfATree == ASSUME Inv, SourceOrder PROVE PreviewIsATree
<1> DEFINE C == Cardinality(ShownSymbols)
<1>1. /\ Len(symbols) \in Nat /\ Len(imports) \in Nat
      /\ IsFiniteSet(Ids) /\ Cardinality(Ids) = Len(symbols)
  <2>1. Len(symbols) \in Nat /\ Len(imports) \in Nat
    BY DEF Inv, Types, SourceOrder
  <2>2. /\ IsFiniteSet(1 .. Len(symbols))
        /\ Cardinality(1 .. Len(symbols)) =
             IF 1 > Len(symbols) THEN 0 ELSE Len(symbols) - 1 + 1
    <3>1. 1 \in Int /\ Len(symbols) \in Int
      BY <2>1
    <3> QED
      BY <3>1, FS_Interval
  <2> QED
    BY <2>1, <2>2 DEF Ids
<1>2. ASSUME NEW i \in ShownSymbols PROVE ShownParent(i, ShownSymbols) = symbols[i].parent
  <2> DEFINE p == symbols[i].parent
             Earlier(k) == {j \in Ids : symbols[j].start < symbols[k].start}
  <2> SUFFICES ASSUME p # NoParent PROVE p \in ShownSymbols
    BY DEF ShownParent
  <2>1. i \in Ids /\ StartOrder(i) <= PreviewLimit - 1
    BY DEF ShownSymbols, PreviewSymbols
  <2>2. p \in Ids /\ symbols[p].start < symbols[i].start
    <3>1. i \in 1 .. Len(symbols) /\ p \in Nat /\ i \in Nat
      BY <2>1, SymbolIs DEF Ids, Inv
    <3>2. p < i /\ symbols[p].start < symbols[i].start
      BY <3>1 DEF Inv, Ranges, RangesOf
    <3> QED
      BY <1>1, <3>1, <3>2 DEF Ids, NoParent
  <2>3. Earlier(p) \subseteq Earlier(i)
    <3> SUFFICES ASSUME NEW j \in Ids, symbols[j].start < symbols[p].start
                 PROVE  symbols[j].start < symbols[i].start
      OBVIOUS
    <3>1. symbols[j].start \in Nat /\ symbols[p].start \in Nat /\ symbols[i].start \in Nat
      BY <2>1, <2>2, SymbolIs DEF Inv
    <3> QED
      BY <2>2, <3>1
  <2>4. IsFiniteSet(Earlier(i)) /\ IsFiniteSet(Earlier(p))
    <3>1. Earlier(i) \in SUBSET Ids /\ Earlier(p) \in SUBSET Ids
      OBVIOUS
    <3> QED
      BY <1>1, <3>1, FS_Subset
  <2>5. Cardinality(Earlier(p)) <= Cardinality(Earlier(i))
    BY <2>3, <2>4, FS_Subset
  <2>6. Cardinality(Earlier(p)) \in Nat /\ Cardinality(Earlier(i)) \in Nat
    BY <2>4, FS_CardinalityType
  <2>7. /\ StartOrder(p) = 1 + Cardinality(Earlier(p))
        /\ StartOrder(i) = 1 + Cardinality(Earlier(i))
    BY DEF StartOrder
  <2> HIDE DEF Earlier
  <2>8. StartOrder(p) <= PreviewLimit - 1
    BY <2>1, <2>5, <2>6, <2>7, IndexLimitsAssumption
  <2> QED
    BY <2>2, <2>8 DEF ShownSymbols, PreviewSymbols
<1>3. /\ C \in Nat /\ C <= Len(symbols) /\ (ShownSymbols = Ids <=> C = Len(symbols))
  <2>1. ShownSymbols \in SUBSET Ids
    BY DEF ShownSymbols, PreviewSymbols
  <2>2. /\ IsFiniteSet(ShownSymbols) /\ C <= Cardinality(Ids)
        /\ (C = Cardinality(Ids) => ShownSymbols = Ids)
    BY <1>1, <2>1, FS_Subset
  <2> QED
    BY <1>1, <2>2, FS_CardinalityType
<1>4. /\ ShownImports \in Int /\ ShownImports <= Len(imports)
      /\ ShownImports <= PreviewLimit - 1 - C
  BY <1>1, <1>3, IndexLimitsAssumption DEF ShownImports, Least
<1> HIDE DEF C
<1>5. Used = 1 + C + ShownImports /\ Entities = Len(symbols) + Len(imports)
  BY DEF Used, Entities, C
<1>6. Used <= PreviewLimit
  BY <1>3, <1>4, <1>5, IndexLimitsAssumption
<1>7. Truncated <=> (ShownSymbols # Ids \/ ShownImports < Len(imports))
  BY <1>1, <1>3, <1>4, <1>5 DEF Truncated
<1> QED
  BY <1>2, <1>6, <1>7 DEF PreviewIsATree

\* What get_structure shows of a file keeps its hierarchy and its limit, and says when it is
\* cut, for files of any length and any limit (_preview_files, _preview_symbols).
THEOREM PreviewsAreTrees == IndexSpec => []PreviewIsATree
<1>1. IndexInit => Inv /\ SourceOrder
  BY InvInit, SourceOrderInit
<1>2. Inv /\ SourceOrder /\ [IndexNext]_indexVars => (Inv /\ SourceOrder)'
  BY InvNext, SourceOrderNext
<1>3. Inv /\ SourceOrder => PreviewIsATree
  BY PreviewOfATree
<1> QED
  BY <1>1, <1>2, <1>3, PTL DEF IndexSpec

-----------------------------------------------------------------------------
(* Chunks. *)

Span == [owner : Nat, from : Nat, to : Nat, window : Nat]
Draft == [owner : Nat, start : Nat, end : Nat]
MaxWindow == Greater(MaxChunkLines, MaxSymbolChunkLines)

\* What is still to be cut, and what was cut, lies in the file and in its symbol.
GoodSpan(s) ==
    /\ s \in Span /\ s.from \in 1 .. s.to /\ s.to <= Len(lines) /\ s.window \in 1 .. MaxWindow
    /\ s.owner # 0 => /\ s.owner \in Ids
                      /\ symbols[s.owner].start <= s.from /\ s.to <= symbols[s.owner].end
GoodDraft(d) ==
    /\ d \in Draft /\ d.start \in 1 .. d.end /\ d.end <= Len(lines)
    /\ d.end - d.start + 1 <= MaxWindow /\ Characters(d.start, d.end) <= MaxCharacters
    /\ d.owner # 0 => /\ d.owner \in Ids
                      /\ symbols[d.owner].start <= d.start /\ d.end <= symbols[d.owner].end

\* A line of code, and the first line of a symbol, is in a window or still to be cut.
LineKept ==
    \A n \in Lines : lines[n] > 0 =>
        \/ \E d \in drafts : n \in d.start .. d.end
        \/ \E k \in 1 .. Len(spans) : n \in spans[k].from .. spans[k].to
SymbolKept ==
    \A i \in Ids :
        \/ \E d \in drafts : d.owner = i /\ d.start = symbols[i].start
        \/ \E k \in 1 .. Len(spans) : spans[k].owner = i /\ spans[k].from = symbols[i].start

ChunkInv ==
    /\ Inv /\ SourceOrder
    /\ stage \in {"visit", "store", "stored"} => spans = <<>> /\ drafts = {}
    /\ spans \in Seq(Span) /\ \A k \in 1 .. Len(spans) : GoodSpan(spans[k])
    /\ \A d \in drafts : GoodDraft(d)
    /\ stage \in {"cut", "chunked"} => LineKept /\ SymbolKept
    /\ stage = "chunked" => spans = <<>> /\ chunks = {d \in drafts : Kept(d)}

\* The characters of the first lines are numbers, and so are those of a range.
LEMMA CharactersAre ==
    ASSUME Inv, NEW from \in 1 .. Len(lines), NEW to \in from .. Len(lines)
    PROVE  Characters(from, to) \in Int
<1> DEFINE L == Len(lines)
           total == CHOOSE f : SumsOf(f, lines, L)
<1>1. L \in Nat /\ \A n \in 1 .. L : lines[n] \in Nat
  BY DEF Inv, Types
<1>2. Total(lines) = total
  BY DEF Total, SumsOf
<1> HIDE DEF L
<1>3. SumsOf(total, lines, L)
  <2>1. \E f : SumsOf(f, lines, L)
    BY <1>1, SumsExist
  <2> QED
    BY <2>1
<1> HIDE DEF total
<1>4. \A n \in 0 .. L : total[n] \in Nat
  BY <1>1, <1>3, SumsAre
<1>5. from - 1 \in 0 .. L /\ to \in 0 .. L /\ from \in Nat /\ to \in Nat
  BY <1>1 DEF L
<1>6. total[from - 1] \in Nat /\ total[to] \in Nat
  BY <1>4, <1>5
<1> QED
  BY <1>2, <1>5, <1>6 DEF Characters

\* _fit_character_limit stays in the window.
LEMMA FittedIs ==
    ASSUME Inv, NEW from \in 1 .. Len(lines), NEW to \in from .. Len(lines)
    PROVE  Fitted(from, to) \in from .. to
<1> DEFINE P(e) == Characters(from, e) <= MaxCharacters
           T == {e \in from .. to : e = from \/ P(e)}
<1>1. Len(lines) \in Nat /\ from \in Nat /\ to \in Nat /\ from <= to
  BY DEF Inv, Types
<1>2. T \subseteq 0 .. to /\ T # {}
  BY <1>1
<1>3. PICK e \in T : \A f \in T : ~(e < f)
  BY <1>1, <1>2, GreatestMember
<1>4. ASSUME NEW f \in e + 1 .. to PROVE Characters(from, f) > MaxCharacters
  <2>1. f \in from .. to /\ e < f /\ f \in from .. Len(lines)
    BY <1>1, <1>3
  <2>2. ~P(f)
    BY <1>3, <2>1
  <2>3. Characters(from, f) \in Int
    BY <2>1, CharactersAre
  <2> QED
    BY <2>2, <2>3, ChunkLimitsAssumption
<1> QED
  BY <1>3, <1>4 DEF Fitted


\* Of the drafts of a range, one is kept (_deduplicate_chunks).
LEMMA OneIsKept ==
    ASSUME ChunkInv, NEW d \in drafts
    PROVE  \E c \in drafts : Kept(c) /\ c.start = d.start /\ c.end = d.end
<1> DEFINE Same == {e \in drafts : e.start = d.start /\ e.end = d.end}
           Grade(g) == {e \in Same : Specificity(e) = g}
<1>1. \A e \in drafts : Specificity(e) \in {0, 1, 2} /\ e.owner \in Nat
  BY DEF ChunkInv, GoodDraft, Draft, Specificity
<1>2. PICK g \in {0, 1, 2} : Grade(g) # {} /\ \A h \in {0, 1, 2} : h > g => Grade(h) = {}
  <2>1. d \in Grade(Specificity(d)) /\ Specificity(d) \in {0, 1, 2}
    BY <1>1
  <2> HIDE DEF Grade
  <2>2. Grade(0) # {} \/ Grade(1) # {} \/ Grade(2) # {}
    BY <2>1
  <2>3. CASE Grade(2) # {}
    BY <2>3
  <2>4. CASE Grade(2) = {} /\ Grade(1) # {}
    BY <2>4
  <2>5. CASE Grade(2) = {} /\ Grade(1) = {} /\ Grade(0) # {}
    BY <2>5
  <2> QED
    BY <2>2, <2>3, <2>4, <2>5
<1> DEFINE owners == {e.owner : e \in Grade(g)}
<1>3. owners \subseteq Nat /\ owners # {}
  BY <1>1, <1>2
<1>4. PICK o \in owners : \A p \in owners : ~(p < o)
  BY <1>3, LeastMember
<1>5. PICK c \in Grade(g) : c.owner = o
  BY <1>4
<1>6. ASSUME NEW e \in Same
      PROVE  \/ Specificity(c) > Specificity(e)
             \/ Specificity(c) = Specificity(e) /\ c.owner <= e.owner
  <2>1. Specificity(c) = g /\ Specificity(e) \in {0, 1, 2} /\ e \in Grade(Specificity(e))
    BY <1>1, <1>5
  <2>2. ~(Specificity(e) > g)
    BY <1>2, <2>1
  <2>3. CASE Specificity(e) = g
    <3>1. e.owner \in owners
      BY <2>1, <2>3
    <3>2. ~(e.owner < o) /\ e.owner \in Nat /\ o \in Nat
      BY <1>3, <1>4, <3>1
    <3> QED
      BY <1>5, <2>1, <2>3, <3>2
  <2>4. CASE Specificity(e) # g
    BY <1>2, <2>1, <2>2, <2>4
  <2> QED
    BY <2>3, <2>4
<1>7. c \in drafts /\ c.start = d.start /\ c.end = d.end
  BY <1>5
<1>8. Kept(c)
  BY <1>6, <1>7 DEF Kept
<1> QED
  BY <1>7, <1>8

\* A chunk that another symbol owns lies in that symbol, which encloses the one whose
\* first line it starts at.
LEMMA Enclosing ==
    ASSUME Inv, SourceOrder, NEW i \in Ids, NEW j \in Ids, i # j, NEW end \in Nat,
           symbols[j].start <= symbols[i].start, symbols[i].start <= end,
           end <= symbols[j].end
    PROVE  j < i /\ symbols[j].end >= symbols[i].end
<1>1. /\ i \in Nat /\ j \in Nat
      /\ symbols[i].start \in Nat /\ symbols[j].start \in Nat
      /\ symbols[i].end \in Nat /\ symbols[j].end \in Nat
  BY SymbolIs DEF Inv
<1>2. ~(i < j)
  BY <1>1 DEF SourceOrder
<1>3. j < i /\ symbols[i].start <= symbols[j].end
  BY <1>1, <1>2
<1> QED
  BY <1>1, <1>3 DEF Inv, Nested, NestedOf, Ids

LEMMA KeptChunks ==
    ASSUME ChunkInv, stage = "chunked"
    PROVE  EveryLineInAChunk /\ EverySymbolFound /\ ChunksFit
<1>1. /\ spans = <<>> /\ chunks = {d \in drafts : Kept(d)} /\ LineKept /\ SymbolKept
      /\ \A d \in drafts : GoodDraft(d)
      /\ Inv /\ SourceOrder
  BY DEF ChunkInv
<1>2. \A k : k \notin 1 .. Len(spans)
  BY <1>1
<1>3. EveryLineInAChunk
  <2> SUFFICES ASSUME NEW n \in Lines, lines[n] > 0
               PROVE  \E c \in chunks : n \in c.start .. c.end
    BY DEF EveryLineInAChunk
  <2>1. PICK d \in drafts : n \in d.start .. d.end
    BY <1>1, <1>2 DEF LineKept
  <2>2. PICK c \in drafts : Kept(c) /\ c.start = d.start /\ c.end = d.end
    BY OneIsKept
  <2> QED
    BY <1>1, <2>1, <2>2
<1>4. EverySymbolFound
  <2> SUFFICES ASSUME NEW i \in Ids
               PROVE  \E c \in chunks :
                         /\ c.start = symbols[i].start /\ c.end <= symbols[i].end
                         /\ c.owner # i => /\ c.owner \in 1 .. i - 1
                                           /\ symbols[c.owner].end >= symbols[i].end
                                           /\ Specificity(c) >=
                                                Specificity([c EXCEPT !.owner = i])
    BY DEF EverySymbolFound
  <2>1. PICK d \in drafts : d.owner = i /\ d.start = symbols[i].start
    BY <1>1, <1>2 DEF SymbolKept
  <2>2. PICK c \in drafts : Kept(c) /\ c.start = d.start /\ c.end = d.end
    BY OneIsKept
  <2>3. i \in Nat \ {0} /\ symbols[i].start \in Nat /\ symbols[i].end \in Nat
    BY <1>1, SymbolIs DEF Ids, Inv
  <2>4. /\ d \in Draft /\ d.end <= symbols[i].end /\ d.start \in 1 .. d.end
        /\ c \in Draft /\ c.owner \in Nat /\ c.end \in Nat
        /\ (c.owner # 0 => /\ c.owner \in Ids /\ symbols[c.owner].start <= c.start
                           /\ c.end <= symbols[c.owner].end)
    BY <1>1, <2>1, <2>3 DEF GoodDraft, Draft
  <2>5. c \in chunks /\ c.start = symbols[i].start /\ c.end <= symbols[i].end
    BY <1>1, <2>1, <2>2, <2>4
  <2>6. ASSUME c.owner # i
        PROVE  /\ c.owner \in 1 .. i - 1 /\ symbols[c.owner].end >= symbols[i].end
               /\ Specificity(c) >= Specificity([c EXCEPT !.owner = i])
    <3>1. Specificity([c EXCEPT !.owner = i]) = Specificity(d)
      BY <2>1, <2>4 DEF Specificity, Draft
    <3>2. Specificity(d) \in {1, 2} /\ Specificity(c) \in {0, 1, 2}
      BY <2>1, <2>3 DEF Specificity
    <3>3. Specificity(c) >= Specificity(d)
      BY <2>2, <3>2 DEF Kept
    <3>4. c.owner # 0
      BY <3>2, <3>3 DEF Specificity
    <3>5. /\ c.owner \in Ids /\ symbols[c.owner].start <= symbols[i].start
          /\ symbols[i].start <= c.end /\ c.end <= symbols[c.owner].end
      BY <2>1, <2>2, <2>4, <3>4
    <3>6. c.owner < i /\ symbols[c.owner].end >= symbols[i].end
      BY <1>1, <2>4, <2>6, <3>5, Enclosing
    <3> QED
      BY <2>3, <2>4, <3>1, <3>3, <3>4, <3>6
  <2> QED
    BY <2>5, <2>6
<1>5. ChunksFit
  <2>1. ASSUME NEW c \in chunks, NEW d \in chunks, c.start = d.start, c.end = d.end
        PROVE  c = d
    <3>1. c \in drafts /\ d \in drafts /\ Kept(c) /\ Kept(d) /\ c \in Draft /\ d \in Draft
      BY <1>1 DEF GoodDraft
    <3>2. /\ Specificity(c) \in {0, 1, 2} /\ Specificity(d) \in {0, 1, 2}
          /\ c.owner \in Nat /\ d.owner \in Nat
      BY <3>1 DEF Specificity, Draft
    <3>3. /\ \/ Specificity(c) > Specificity(d)
             \/ Specificity(c) = Specificity(d) /\ c.owner <= d.owner
          /\ \/ Specificity(d) > Specificity(c)
             \/ Specificity(d) = Specificity(c) /\ d.owner <= c.owner
      BY <2>1, <3>1 DEF Kept
    <3>4. c.owner = d.owner
      BY <3>2, <3>3
    <3> QED
      BY <2>1, <3>1, <3>4 DEF Draft
  <2>2. \A c \in chunks : /\ Characters(c.start, c.end) <= MaxCharacters
                          /\ c.end - c.start + 1 <= Greater(MaxChunkLines, MaxSymbolChunkLines)
    BY <1>1 DEF GoodDraft, MaxWindow
  <2> QED
    BY <2>1, <2>2 DEF ChunksFit
<1> QED
  BY <1>3, <1>4, <1>5

-----------------------------------------------------------------------------
(* The ranges outside every symbol. *)

Free == Lines \ Covered
RunsInOrder == {p \in UncoveredRanges \X UncoveredRanges : p[1][1] < p[2][1]}

LEMMA RunsAre ==
    ASSUME Len(lines) \in Nat
    PROVE  /\ IsFiniteSet(UncoveredRanges) /\ StrictOrder(RunsInOrder, UncoveredRanges)
           /\ \A r \in UncoveredRanges : /\ r[1] \in 1 .. Len(lines)
                                         /\ r[2] \in r[1] .. Len(lines)
<1>1. \A r \in UncoveredRanges :
        /\ r \in Lines \X Lines /\ r[1] <= r[2]
        /\ \A n \in r[1] .. r[2] : n \notin Covered
        /\ r[2] + 1 \notin Free
  BY DEF UncoveredRanges, Free
<1>2. \A r \in UncoveredRanges :
        /\ r = <<r[1], r[2]>> /\ r[1] \in 1 .. Len(lines) /\ r[2] \in 1 .. Len(lines)
        /\ r[2] \in r[1] .. Len(lines) /\ r[1] \in Nat /\ r[2] \in Nat
  <2> SUFFICES ASSUME NEW r \in UncoveredRanges
               PROVE  /\ r = <<r[1], r[2]>>
                      /\ r[1] \in 1 .. Len(lines) /\ r[2] \in 1 .. Len(lines)
                      /\ r[2] \in r[1] .. Len(lines) /\ r[1] \in Nat /\ r[2] \in Nat
    OBVIOUS
  <2>1. r \in (1 .. Len(lines)) \X (1 .. Len(lines)) /\ r[1] <= r[2]
    BY <1>1 DEF Lines
  <2>2. r = <<r[1], r[2]>> /\ r[1] \in 1 .. Len(lines) /\ r[2] \in 1 .. Len(lines)
    BY <2>1
  <2> QED
    BY <2>1, <2>2
<1>3. IsFiniteSet(UncoveredRanges)
  <2>1. 1 \in Int /\ Len(lines) \in Int
    OBVIOUS
  <2>2. IsFiniteSet(Lines)
    BY <2>1, FS_Interval DEF Lines
  <2>3. IsFiniteSet(Lines \X Lines)
    BY <2>2, FS_Product
  <2>4. UncoveredRanges \in SUBSET (Lines \X Lines)
    BY DEF UncoveredRanges
  <2> QED
    BY <2>3, <2>4, FS_Subset
<1>4. ASSUME NEW r \in UncoveredRanges, NEW s \in UncoveredRanges, r[1] = s[1]
      PROVE  ~(r[2] < s[2])
  <2> SUFFICES ASSUME r[2] < s[2] PROVE FALSE
    OBVIOUS
  <2>1. r[2] + 1 \in s[1] .. s[2] /\ r[2] + 1 \in Lines
    BY <1>2, <1>4 DEF Lines
  <2> QED
    BY <1>1, <2>1 DEF Free
<1>5. ASSUME NEW r \in UncoveredRanges, NEW s \in UncoveredRanges, r # s
      PROVE  r[1] < s[1] \/ s[1] < r[1]
  <2> SUFFICES ASSUME r[1] = s[1] PROVE FALSE
    BY <1>2
  <2>1. r[2] = s[2]
    BY <1>2, <1>4
  <2> QED
    BY <1>2, <1>5, <2>1
<1>6. \A r, s \in UncoveredRanges : <<r, s>> \in RunsInOrder <=> r[1] < s[1]
  BY DEF RunsInOrder
<1>7. \A r \in UncoveredRanges : <<r, r>> \notin RunsInOrder
  BY <1>2, <1>6
<1>8. \A r, s, t \in UncoveredRanges :
        <<r, s>> \in RunsInOrder /\ <<s, t>> \in RunsInOrder => <<r, t>> \in RunsInOrder
  <2> SUFFICES ASSUME NEW r \in UncoveredRanges, NEW s \in UncoveredRanges,
                      NEW t \in UncoveredRanges, r[1] < s[1], s[1] < t[1]
               PROVE  r[1] < t[1]
    BY <1>6
  <2> QED
    BY <1>2
<1> QED
  BY <1>2, <1>3, <1>5, <1>6, <1>7, <1>8 DEF StrictOrder

\* The run around a line: as far up and down as no symbol covers.
LEMMA RunAround ==
    ASSUME Len(lines) \in Nat, NEW n \in Lines \ Covered
    PROVE  \E r \in UncoveredRanges : n \in r[1] .. r[2]
<1> DEFINE A == {a \in 1 .. n : \A m \in a .. n : m \in Free}
           B == {b \in n .. Len(lines) : \A m \in n .. b : m \in Free}
<1>1. n \in 1 .. Len(lines) /\ n \in Free /\ n \in Nat
  BY DEF Lines, Free
<1>2. n .. n = {n}
  BY <1>1
<1>3. A \subseteq Nat /\ A # {} /\ B \subseteq 0 .. Len(lines) /\ B # {}
  <2>1. n \in A /\ n \in B
    BY <1>1, <1>2
  <2>2. A \subseteq 1 .. n /\ B \subseteq n .. Len(lines)
    OBVIOUS
  <2>3. 1 .. n \subseteq Nat /\ n .. Len(lines) \subseteq 0 .. Len(lines)
    BY <1>1
  <2> QED
    BY <2>1, <2>2, <2>3
<1>4. PICK a \in A : \A x \in A : ~(x < a)
  BY <1>3, LeastMember
<1>5. PICK b \in B : \A x \in B : ~(b < x)
  BY <1>3, GreatestMember
<1>6. /\ a \in 1 .. n /\ b \in n .. Len(lines)
      /\ \A m \in a .. n : m \in Free
      /\ \A m \in n .. b : m \in Free
  BY <1>4, <1>5
<1>7. a - 1 \notin Free
  <2> SUFFICES ASSUME a - 1 \in Free PROVE FALSE
    OBVIOUS
  <2>1. a - 1 \in 1 .. n /\ a - 1 < a
    BY <1>1, <1>6 DEF Free, Lines
  <2>2. ASSUME NEW m \in a - 1 .. n PROVE m \in Free
    <3>1. m = a - 1 \/ m \in a .. n
      BY <1>6
    <3> QED
      BY <1>6, <3>1
  <2>3. a - 1 \in A
    BY <2>1, <2>2
  <2> QED
    BY <1>4, <2>1, <2>3
<1>8. b + 1 \notin Free
  <2> SUFFICES ASSUME b + 1 \in Free PROVE FALSE
    OBVIOUS
  <2>1. b + 1 \in n .. Len(lines) /\ b < b + 1
    BY <1>1, <1>6 DEF Free, Lines
  <2>2. ASSUME NEW m \in n .. b + 1 PROVE m \in Free
    <3>1. m = b + 1 \/ m \in n .. b
      BY <1>6
    <3> QED
      BY <1>6, <3>1
  <2>3. b + 1 \in B
    BY <2>1, <2>2
  <2> QED
    BY <1>5, <2>1, <2>3
<1>9. ASSUME NEW m \in a .. b PROVE m \notin Covered
  <2>1. m \in a .. n \/ m \in n .. b
    BY <1>1, <1>6
  <2> QED
    BY <1>6, <2>1 DEF Free
<1> DEFINE r == <<a, b>>
<1>10. r \in Lines \X Lines /\ r[1] = a /\ r[2] = b /\ a <= b
  BY <1>1, <1>6 DEF Lines
<1> HIDE DEF r
<1>11. r \in UncoveredRanges
  BY <1>7, <1>8, <1>9, <1>10 DEF UncoveredRanges, Free
<1> QED
  BY <1>1, <1>6, <1>10, <1>11

\* _chunks_for_file cuts the uncovered lines first, then each symbol.
LEMMA ModuleSpansAre ==
    ASSUME Inv
    PROVE  /\ ModuleSpans \in Seq(Span) /\ Len(ModuleSpans) \in Nat
           /\ \A k \in 1 .. Len(ModuleSpans) : GoodSpan(ModuleSpans[k])
           /\ \A n \in Lines \ Covered : \E k \in 1 .. Len(ModuleSpans) :
                  n \in ModuleSpans[k].from .. ModuleSpans[k].to
<1> DEFINE U == UncoveredRanges
           N == Cardinality(U)
           Earlier(r) == {s \in U : s[1] < r[1]}
           o == [k \in 1 .. N |-> CHOOSE r \in U : Cardinality(Earlier(r)) = k - 1]
           span(r) == [owner |-> 0, from |-> r[1], to |-> r[2], window |-> MaxChunkLines]
<1>1. Len(lines) \in Nat
  BY DEF Inv, Types
<1>2. /\ IsFiniteSet(U) /\ StrictOrder(RunsInOrder, U)
      /\ \A r \in U : r[1] \in 1 .. Len(lines) /\ r[2] \in r[1] .. Len(lines)
  BY <1>1, RunsAre
<1>3. \A r \in U : Earlier(r) = Ahead(RunsInOrder, U, r)
  BY DEF Ahead, RunsInOrder
<1>4. ModuleSpans = [k \in 1 .. N |-> span(o[k])]
  BY DEF ModuleSpans
<1>5. \A n \in Lines \ Covered : \E r \in U : n \in r[1] .. r[2]
  BY <1>1, RunAround
<1> HIDE DEF U, Earlier
<1>6. ASSUME NEW r \in U PROVE o[Cardinality(Ahead(RunsInOrder, U, r)) + 1] = r
  <2> DEFINE k == Cardinality(Earlier(r)) + 1
  <2>1. /\ N \in Nat /\ Cardinality(Earlier(r)) \in 0 .. N - 1
        /\ \A s \in U : Cardinality(Earlier(s)) = Cardinality(Earlier(r)) => s = r
    BY <1>2, <1>3, Numbered
  <2>2. k \in 1 .. N /\ k - 1 = Cardinality(Earlier(r))
    BY <2>1
  <2>3. o[k] = CHOOSE s \in U : Cardinality(Earlier(s)) = k - 1
    BY <2>2
  <2> HIDE DEF o
  <2>4. o[k] = r
    BY <2>1, <2>2, <2>3
  <2> QED
    BY <1>3, <2>4
<1>7. o \in [1 .. N -> {o[k] : k \in 1 .. N}]
  OBVIOUS
<1> HIDE DEF o
<1>8. OrderedList(o, U, RunsInOrder)
  BY <1>2, <1>6, <1>7, Listed
<1>9. /\ N \in Nat /\ Len(o) = N /\ \A k \in 1 .. N : o[k] \in U
      /\ \A r \in U : \E k \in 1 .. N : o[k] = r
  <2>1. /\ o \in Seq(U) /\ Len(o) = N /\ N \in Nat
        /\ \A r \in U : \E k \in 1 .. Len(o) : o[k] = r
    BY <1>8 DEF OrderedList
  <2> QED
    BY <2>1
<1>10. /\ \A k \in 1 .. N : ModuleSpans[k] = span(o[k])
       /\ DOMAIN ModuleSpans = 1 .. N
       /\ ModuleSpans = [k \in 1 .. N |-> ModuleSpans[k]]
  BY <1>4
<1> HIDE DEF N
<1>11. ASSUME NEW r \in U PROVE span(r) \in Span /\ GoodSpan(span(r))
  <2>1. MaxChunkLines \in 1 .. MaxWindow /\ MaxChunkLines \in Nat
    BY ChunkLimitsAssumption DEF MaxWindow, Greater
  <2>2. r[1] \in 1 .. Len(lines) /\ r[2] \in r[1] .. Len(lines)
    BY <1>2
  <2> QED
    BY <1>1, <2>1, <2>2 DEF GoodSpan, Span
<1>12. \A k \in 1 .. N : ModuleSpans[k] \in Span /\ GoodSpan(ModuleSpans[k])
  BY <1>9, <1>10, <1>11
<1>13. ModuleSpans \in Seq(Span)
  <2>1. ModuleSpans \in [1 .. N -> Span]
    BY <1>10, <1>12
  <2> QED
    BY <1>9, <2>1, SeqDef
<1>14. Len(ModuleSpans) = N
  BY <1>9, <1>10, <1>13, LengthIs
<1>15. ASSUME NEW n \in Lines \ Covered
       PROVE  \E k \in 1 .. N : n \in ModuleSpans[k].from .. ModuleSpans[k].to
  <2>1. PICK r \in U : n \in r[1] .. r[2]
    BY <1>5
  <2>2. PICK k \in 1 .. N : o[k] = r
    BY <1>9
  <2>3. ModuleSpans[k].from = r[1] /\ ModuleSpans[k].to = r[2]
    BY <1>10, <2>2
  <2> QED
    BY <2>1, <2>3
<1> QED
  BY <1>9, <1>12, <1>13, <1>14, <1>15

LEMMA ChunksForFileKeeps == ASSUME ChunkInv, ChunksForFile PROVE ChunkInv'
<1> DEFINE M == ModuleSpans
           N == Len(M)
           S == [i \in Ids |-> SymbolSpan(i)]
<1>1. /\ stage = "stored" /\ stage' = "cut" /\ spans' = M \o S
      /\ UNCHANGED <<code, lines, stack, symbols, imports, remaining, stored, drafts, chunks>>
  BY DEF ChunksForFile, sourceVars, storeVars
<1>2. Inv /\ SourceOrder /\ drafts = {}
  BY <1>1 DEF ChunkInv
<1>3. /\ M \in Seq(Span) /\ N \in Nat /\ \A k \in 1 .. N : GoodSpan(M[k])
      /\ \A n \in Lines \ Covered : \E k \in 1 .. N : n \in M[k].from .. M[k].to
  BY <1>2, ModuleSpansAre
<1>4. Len(symbols) \in Nat /\ Len(lines) \in Nat
  BY <1>2 DEF Inv, Types
<1>5. ASSUME NEW i \in Ids
      PROVE  /\ SymbolSpan(i) \in Span /\ GoodSpan(SymbolSpan(i))
             /\ SymbolSpan(i).owner = i /\ SymbolSpan(i).from = symbols[i].start
             /\ SymbolSpan(i).to = symbols[i].end
  <2>1. /\ i \in Nat /\ symbols[i].start \in 1 .. Len(lines)
        /\ symbols[i].end \in symbols[i].start .. Len(lines)
    BY <1>2, StartsAre, SymbolIs DEF Inv
  <2>2. symbols[i].start \in Nat /\ symbols[i].end \in Nat
    BY <1>4, <2>1
  <2> DEFINE l == symbols[i].end - symbols[i].start + 1
             w == IF l <= MaxSymbolChunkLines THEN l ELSE MaxChunkLines
  <2>3. l \in Nat \ {0}
    BY <1>4, <2>1
  <2>4. w \in 1 .. MaxWindow /\ w \in Nat
    <3> HIDE DEF l
    <3> QED
      BY <2>3, ChunkLimitsAssumption DEF MaxWindow, Greater
  <2>5. SymbolSpan(i) = [owner |-> i, from |-> symbols[i].start, to |-> symbols[i].end,
                         window |-> w]
    BY DEF SymbolSpan
  <2> HIDE DEF w
  <2> QED
    BY <1>4, <2>1, <2>2, <2>4, <2>5 DEF GoodSpan, Span
<1>6. S \in Seq(Span) /\ DOMAIN S = 1 .. Len(symbols)
  <2>1. S \in [1 .. Len(symbols) -> Span]
    BY <1>5 DEF Ids
  <2> QED
    BY <1>4, <2>1, SeqDef
<1>7. Len(S) = Len(symbols) /\ \A i \in Ids : S[i] = SymbolSpan(i)
  BY <1>4, <1>6, LengthIs
<1> HIDE DEF M, S
<1>8. /\ spans' \in Seq(Span) /\ Len(spans') = N + Len(symbols)
      /\ \A k \in 1 .. N : spans'[k] = M[k]
      /\ \A i \in 1 .. Len(symbols) : spans'[N + i] = S[i]
  <2>1. /\ M \o S \in Seq(Span) /\ Len(M \o S) = N + Len(S)
        /\ \A k \in 1 .. N + Len(S) : (M \o S)[k] = IF k <= N THEN M[k] ELSE S[k - N]
    BY <1>3, <1>6, ConcatProperties
  <2>2. \A k \in 1 .. N : k \in 1 .. N + Len(symbols) /\ k <= N
    BY <1>3, <1>4
  <2>3. \A i \in 1 .. Len(symbols) :
          N + i \in 1 .. N + Len(symbols) /\ ~(N + i <= N) /\ N + i - N = i
    BY <1>3, <1>4
  <2> QED
    BY <1>1, <1>7, <2>1, <2>2, <2>3
<1>9. /\ \A k \in 1 .. N : k \in 1 .. Len(spans')
      /\ \A i \in Ids : N + i \in 1 .. Len(spans') /\ spans'[N + i] = SymbolSpan(i)
      /\ \A k \in 1 .. Len(spans') : k \in 1 .. N \/ \E i \in Ids : k = N + i
  <2>1. \A k \in 1 .. N + Len(symbols) : k \in 1 .. N \/ k - N \in 1 .. Len(symbols)
    BY <1>3, <1>4
  <2>2. \A k \in 1 .. N + Len(symbols) : k = N + (k - N)
    BY <1>3, <1>4
  <2>3. \A k \in 1 .. N : k \in 1 .. Len(spans')
    BY <1>3, <1>4, <1>8
  <2>4. \A i \in Ids : N + i \in 1 .. Len(spans') /\ spans'[N + i] = SymbolSpan(i)
    <3>1. \A i \in 1 .. Len(symbols) : N + i \in 1 .. N + Len(symbols)
      BY <1>3, <1>4
    <3> QED
      BY <1>7, <1>8, <3>1 DEF Ids
  <2>5. \A k \in 1 .. Len(spans') : k \in 1 .. N \/ \E i \in Ids : k = N + i
    BY <1>8, <2>1, <2>2 DEF Ids
  <2> QED
    BY <2>3, <2>4, <2>5
<1>10. Inv' /\ SourceOrder'
  BY <1>1, <1>2 DEF Inv, Types, StackIsPath, ClosedBeforeOpen, Ranges, Nested, Rounds, NeverStuck,
                    SourceOrder, Ids, Open
<1>11. \A k \in 1 .. Len(spans') : GoodSpan(spans'[k])
  BY <1>3, <1>5, <1>8, <1>9
<1>12. \A n \in Lines : \E k \in 1 .. Len(spans') : n \in spans'[k].from .. spans'[k].to
  <2> SUFFICES ASSUME NEW n \in Lines
               PROVE  \E k \in 1 .. Len(spans') : n \in spans'[k].from .. spans'[k].to
    OBVIOUS
  <2>1. CASE n \in Covered
    <3>1. PICK i \in Ids : n \in symbols[i].start .. symbols[i].end
      BY <2>1 DEF Covered
    <3> QED
      BY <1>5, <1>9, <3>1
  <2>2. CASE n \notin Covered
    <3>1. PICK k \in 1 .. N : n \in M[k].from .. M[k].to
      BY <1>3, <2>2
    <3> QED
      BY <1>8, <1>9, <3>1
  <2> QED
    BY <2>1, <2>2
<1>13. \A i \in Ids : \E k \in 1 .. Len(spans') :
         spans'[k].owner = i /\ spans'[k].from = symbols[i].start
  BY <1>5, <1>9
<1>14. LineKept' /\ SymbolKept'
  BY <1>1, <1>12, <1>13 DEF LineKept, SymbolKept, Lines, Ids
<1>15. (\A k \in 1 .. Len(spans) : GoodSpan(spans[k]))'
  BY <1>1, <1>11 DEF GoodSpan, Ids
<1> QED
  BY <1>1, <1>2, <1>8, <1>10, <1>14, <1>15 DEF ChunkInv

-----------------------------------------------------------------------------
(* The windows. *)

\* The symbols stay a tree whatever the chunks do.
LEMMA TreeStays ==
    ASSUME Inv, SourceOrder, UNCHANGED <<sourceVars, storeVars>>,
           stage' \in {"cut", "chunked", "failed"}, code' # "CODE_INDEX_FAILED"
    PROVE  Inv' /\ SourceOrder'
BY DEF Inv, Types, StackIsPath, ClosedBeforeOpen, Ranges, Nested, Rounds, NeverStuck,
       SourceOrder, Ids, Open, sourceVars, storeVars

\* What is in the file stays in the file.
LEMMA GoodStays ==
    ASSUME UNCHANGED sourceVars
    PROVE  /\ Lines' = Lines /\ Ids' = Ids
           /\ (\A k \in 1 .. Len(spans') : GoodSpan(spans'[k]))
                <=> (\A k \in 1 .. Len(spans) : GoodSpan(spans[k]))'
           /\ (\A d \in drafts' : GoodDraft(d)) <=> (\A d \in drafts : GoodDraft(d))'
BY DEF GoodSpan, GoodDraft, Ids, Lines, Characters, sourceVars

\* One turn of _window_ranges: what it yields, and what it leaves to cut.
LEMMA OneTurn ==
    ASSUME ChunkInv, WindowRange, stage' = "cut"
    PROVE  \E last \in spans[1].from .. spans[1].to, next \in Nat :
              /\ Len(spans) >= 1
              /\ drafts' = IF Blank(spans[1].from, last) THEN drafts
                           ELSE drafts \cup {[owner |-> spans[1].owner,
                                              start |-> spans[1].from, end |-> last]}
              /\ GoodDraft([owner |-> spans[1].owner, start |-> spans[1].from, end |-> last])
              /\ spans' \in Seq(Span)
              /\ \/ /\ last = spans[1].to /\ Len(spans') = Len(spans) - 1
                    /\ \A k \in 1 .. Len(spans') : spans'[k] = spans[k + 1]
                 \/ /\ last < spans[1].to /\ Len(spans') = Len(spans)
                    /\ next \in spans[1].from + 1 .. last + 1
                    /\ \A k \in 1 .. Len(spans') :
                          spans'[k] = IF k = 1 THEN [spans[1] EXCEPT !.from = next]
                                      ELSE spans[k]
<1> DEFINE s == spans[1]
           to == Least(s.to, s.from + s.window - 1)
           last == Fitted(s.from, to)
           next == Greater(s.from + 1, last + 1 - OverlapLines)
           d == [owner |-> s.owner, start |-> s.from, end |-> last]
<1>1. /\ spans # <<>> /\ UNCHANGED <<sourceVars, storeVars, chunks>>
      /\ ~(Characters(s.from, last) > MaxCharacters)
      /\ drafts' = IF Blank(s.from, last) THEN drafts ELSE drafts \cup {d}
      /\ spans' = IF last >= s.to THEN Tail(spans) ELSE [spans EXCEPT ![1].from = next]
  BY DEF WindowRange, IndexFailed
<1>2. /\ Inv /\ spans \in Seq(Span) /\ Len(spans) \in Nat /\ Len(spans) >= 1
      /\ GoodSpan(s) /\ s \in Span
  <2>1. Inv /\ spans \in Seq(Span) /\ \A k \in 1 .. Len(spans) : GoodSpan(spans[k])
    BY DEF ChunkInv
  <2>2. Len(spans) \in Nat /\ Len(spans) >= 1
    BY <1>1, <2>1
  <2>3. 1 \in 1 .. Len(spans)
    BY <2>2
  <2> QED
    BY <2>1, <2>2, <2>3
<1>3. /\ Len(lines) \in Nat /\ s.owner \in Nat /\ s.from \in Nat /\ s.to \in Nat
      /\ s.from \in 1 .. s.to /\ s.to <= Len(lines) /\ s.window \in 1 .. MaxWindow
      /\ MaxWindow \in Nat /\ MaxCharacters \in Nat
      /\ OverlapLines \in Nat
  <2>1. Len(lines) \in Nat
    BY <1>2 DEF Inv, Types
  <2>2. /\ s.owner \in Nat /\ s.from \in Nat /\ s.to \in Nat
        /\ s.from \in 1 .. s.to /\ s.to <= Len(lines) /\ s.window \in 1 .. MaxWindow
    BY <1>2 DEF GoodSpan, Span
  <2>3. MaxWindow \in Nat /\ MaxCharacters \in Nat /\ OverlapLines \in Nat
    BY ChunkLimitsAssumption DEF MaxWindow, Greater
  <2> QED
    BY <2>1, <2>2, <2>3
<1> HIDE DEF s
<1>4. to \in s.from .. s.to /\ to - s.from + 1 <= MaxWindow
  BY <1>3 DEF Least
<1>5. last \in s.from .. to
  <2> HIDE DEF to
  <2>1. s.from \in 1 .. Len(lines) /\ to \in s.from .. Len(lines)
    BY <1>3, <1>4
  <2> QED
    BY <1>2, <2>1, FittedIs
<1> HIDE DEF to, last
<1>6. last \in s.from .. s.to /\ last \in Nat /\ last - s.from + 1 <= MaxWindow
  BY <1>3, <1>4, <1>5
<1>7. Characters(s.from, last) <= MaxCharacters
  <2>1. s.from \in 1 .. Len(lines) /\ last \in s.from .. Len(lines)
    BY <1>3, <1>6
  <2>2. Characters(s.from, last) \in Int
    BY <1>2, <2>1, CharactersAre
  <2> QED
    BY <1>1, <1>3, <2>2
<1>8. GoodDraft(d)
  <2>1. /\ d.owner = s.owner /\ d.start = s.from /\ d.end = last
        /\ d \in Draft
    BY <1>3, <1>6 DEF Draft
  <2>2. s.owner # 0 => /\ s.owner \in Ids /\ symbols[s.owner].start <= s.from
                       /\ s.to <= symbols[s.owner].end
    BY <1>2 DEF GoodSpan
  <2>3. s.owner # 0 => last <= symbols[s.owner].end
    <3>1. s.owner \in Ids => symbols[s.owner].end \in Nat
      BY <1>2, SymbolIs DEF Inv
    <3> QED
      BY <1>3, <1>6, <2>2, <3>1
  <2> HIDE DEF d
  <2> QED
    BY <1>3, <1>6, <1>7, <2>1, <2>2, <2>3 DEF GoodDraft
<1>9. next \in s.from + 1 .. last + 1 /\ next \in Nat
  BY <1>3, <1>6 DEF Greater
<1> HIDE DEF next
<1>10. CASE last >= s.to
  <2>1. last = s.to /\ spans' = Tail(spans)
    BY <1>1, <1>3, <1>6, <1>10
  <2>2. /\ Tail(spans) \in Seq(Span) /\ Len(Tail(spans)) = Len(spans) - 1
        /\ \A k \in 1 .. Len(Tail(spans)) : Tail(spans)[k] = spans[k + 1]
    BY <1>1, <1>2, HeadTailProperties
  <2>3. /\ spans' \in Seq(Span) /\ Len(spans') = Len(spans) - 1
        /\ \A k \in 1 .. Len(spans') : spans'[k] = spans[k + 1]
    BY <2>1, <2>2
  <2> QED
    BY <1>1, <1>2, <1>6, <1>8, <1>9, <2>1, <2>3 DEF s
<1>11. CASE ~(last >= s.to)
  <2> DEFINE t == [s EXCEPT !.from = next]
  <2>1. t \in Span /\ 1 \in 1 .. Len(spans)
    <3>1. s \in Span /\ next \in Nat
      BY <1>2, <1>9
    <3>2. t \in Span
      BY <3>1 DEF Span
    <3>3. 1 \in 1 .. Len(spans)
      BY <1>2
    <3> QED
      BY <3>2, <3>3
  <2>2. spans' = [spans EXCEPT ![1] = t]
    BY <1>1, <1>11 DEF s
  <2> HIDE DEF t
  <2>3. /\ spans' \in Seq(Span) /\ Len(spans') = Len(spans)
        /\ \A k \in 1 .. Len(spans) : spans'[k] = IF k = 1 THEN t ELSE spans[k]
    BY <1>2, <2>1, <2>2, ExceptSeq
  <2>4. \A k \in 1 .. Len(spans') :
          spans'[k] = IF k = 1 THEN [spans[1] EXCEPT !.from = next] ELSE spans[k]
    BY <2>3 DEF t, s
  <2>5. last < s.to
    BY <1>3, <1>6, <1>11
  <2> QED
    BY <1>1, <1>2, <1>6, <1>8, <1>9, <2>3, <2>4, <2>5 DEF s
<1> QED
  BY <1>10, <1>11

LEMMA WindowRangeKeeps == ASSUME ChunkInv, WindowRange PROVE ChunkInv'
<1>1. /\ stage = "cut" /\ UNCHANGED <<sourceVars, storeVars, chunks>>
      /\ \/ stage' = "cut" /\ code' = code
         \/ stage' = "failed" /\ code' = "RETRIEVAL_LIMIT_EXCEEDED"
               /\ UNCHANGED <<spans, drafts>>
  BY DEF WindowRange, IndexFailed
<1>2. /\ Inv /\ SourceOrder /\ spans \in Seq(Span) /\ LineKept /\ SymbolKept
      /\ \A k \in 1 .. Len(spans) : GoodSpan(spans[k])
      /\ \A d \in drafts : GoodDraft(d)
  BY <1>1 DEF ChunkInv
<1>3. Inv' /\ SourceOrder'
  <2>1. code' # "CODE_INDEX_FAILED" /\ stage' \in {"cut", "chunked", "failed"}
    BY <1>1, <1>2 DEF Inv, NeverStuck
  <2> QED
    BY <1>1, <1>2, <2>1, TreeStays
<1>4. CASE stage' = "failed"
  <2>1. (\A k \in 1 .. Len(spans) : GoodSpan(spans[k]))' /\ (\A d \in drafts : GoodDraft(d))'
    BY <1>1, <1>2, <1>4, GoodStays
  <2> QED
    BY <1>1, <1>2, <1>3, <1>4, <2>1 DEF ChunkInv
<1>5. CASE stage' = "cut"
  <2> DEFINE s == spans[1]
             D(end) == [owner |-> s.owner, start |-> s.from, end |-> end]
  <2>1. PICK last \in s.from .. s.to, next \in Nat :
          /\ Len(spans) >= 1
          /\ drafts' = IF Blank(s.from, last) THEN drafts ELSE drafts \cup {D(last)}
          /\ GoodDraft(D(last))
          /\ spans' \in Seq(Span)
          /\ \/ /\ last = s.to /\ Len(spans') = Len(spans) - 1
                /\ \A k \in 1 .. Len(spans') : spans'[k] = spans[k + 1]
             \/ /\ last < s.to /\ Len(spans') = Len(spans)
                /\ next \in s.from + 1 .. last + 1
                /\ \A k \in 1 .. Len(spans') :
                      spans'[k] = IF k = 1 THEN [s EXCEPT !.from = next] ELSE spans[k]
    BY <1>5, OneTurn
  <2>2. Len(spans) \in Nat /\ 1 \in 1 .. Len(spans) /\ Len(lines) \in Nat
    BY <1>2, <2>1 DEF Inv, Types
  <2>3. s \in Span /\ GoodSpan(s)
    BY <1>2, <2>2
  <2>4. s.from \in Nat /\ s.to \in Nat /\ s.from \in 1 .. s.to /\ s.to <= Len(lines)
    BY <2>3 DEF Span, GoodSpan
  <2>5. last \in Nat /\ last \in s.from .. s.to
    BY <2>4
  <2> DEFINE d == D(last)
  <2>6. d.owner = s.owner /\ d.start = s.from /\ d.end = last
    OBVIOUS
  <2>7. drafts' \in {drafts, drafts \cup {d}} /\ drafts \subseteq drafts'
    BY <2>1
  <2>8. ~Blank(s.from, last) => d \in drafts'
    BY <2>1
  <2>9. \A e \in drafts' : GoodDraft(e)
    BY <1>2, <2>1, <2>7
  <2> HIDE DEF D, d
  \* Where each span goes: the first is shortened or, cut to its end, leaves.
  <2>10. ASSUME NEW k \in 1 .. Len(spans), k # 1
         PROVE  \E l \in 1 .. Len(spans') : spans'[l] = spans[k]
    <3>1. CASE Len(spans') = Len(spans) - 1
      <4>1. k - 1 \in 1 .. Len(spans') /\ k - 1 + 1 = k
        BY <2>2, <2>10, <3>1
      <4> QED
        BY <2>1, <2>2, <3>1, <4>1
    <3>2. CASE Len(spans') = Len(spans)
      BY <2>1, <2>2, <2>10, <3>2
    <3> QED
      BY <2>1, <3>1, <3>2
  <2>11. last < s.to =>
           \E l \in 1 .. Len(spans') :
              spans'[l].from <= last + 1 /\ spans'[l].from \in Nat /\ spans'[l].to = s.to
    <3> SUFFICES ASSUME last < s.to
                 PROVE  \E l \in 1 .. Len(spans') : /\ spans'[l].from <= last + 1
                                                    /\ spans'[l].from \in Nat
                                                    /\ spans'[l].to = s.to
      OBVIOUS
    <3>1. /\ 1 \in 1 .. Len(spans') /\ spans'[1] = [s EXCEPT !.from = next]
          /\ next \in s.from + 1 .. last + 1
      <4>1. last # s.to
        BY <2>4, <2>5
      <4>2. /\ Len(spans') = Len(spans) /\ next \in s.from + 1 .. last + 1
            /\ \A k \in 1 .. Len(spans') :
                  spans'[k] = IF k = 1 THEN [s EXCEPT !.from = next] ELSE spans[k]
        BY <2>1, <4>1
      <4> QED
        BY <2>2, <4>2
    <3>2. spans'[1].from = next /\ spans'[1].to = s.to
      BY <2>3, <3>1 DEF Span
    <3>3. next <= last + 1
      BY <2>4, <2>5, <3>1
    <3> QED
      BY <3>1, <3>2, <3>3
  <2>12. \A k \in 1 .. Len(spans') : GoodSpan(spans'[k])
    <3> SUFFICES ASSUME NEW k \in 1 .. Len(spans') PROVE GoodSpan(spans'[k])
      OBVIOUS
    <3>1. CASE Len(spans') = Len(spans) - 1
      <4>1. k + 1 \in 1 .. Len(spans)
        BY <2>2, <3>1
      <4> QED
        BY <1>2, <2>1, <2>2, <3>1, <4>1
    <3>2. CASE Len(spans') = Len(spans) /\ k # 1
      BY <1>2, <2>1, <2>2, <3>2
    <3>3. CASE Len(spans') = Len(spans) /\ k = 1
      <4> DEFINE t == [s EXCEPT !.from = next]
      <4>1. spans'[1] = t /\ next \in s.from + 1 .. last + 1 /\ last < s.to
        BY <2>1, <2>2, <3>3
      <4>2. /\ t \in Span /\ t.from = next /\ t.to = s.to /\ t.owner = s.owner
            /\ t.window = s.window
        BY <2>3 DEF Span
      <4>3. next \in 1 .. s.to /\ s.from <= next
        BY <2>4, <2>5, <4>1
      <4>4. s.owner # 0 => symbols[s.owner].start <= next
        <5>1. s.owner # 0 => s.owner \in Ids /\ symbols[s.owner].start <= s.from
          BY <2>3 DEF GoodSpan
        <5>2. s.owner \in Ids => symbols[s.owner].start \in Nat
          BY <1>2, SymbolIs DEF Inv
        <5> QED
          BY <2>4, <4>3, <5>1, <5>2
      <4> HIDE DEF t
      <4> QED
        BY <2>3, <3>3, <4>1, <4>2, <4>3, <4>4 DEF GoodSpan
    <3> QED
      BY <2>1, <3>1, <3>2, <3>3
  <2>13. ASSUME NEW n \in Lines, lines[n] > 0
         PROVE  \/ \E e \in drafts' : n \in e.start .. e.end
                \/ \E k \in 1 .. Len(spans') : n \in spans'[k].from .. spans'[k].to
    <3>1. CASE \E e \in drafts : n \in e.start .. e.end
      BY <2>7, <3>1
    <3>2. CASE \E k \in 1 .. Len(spans) : n \in spans[k].from .. spans[k].to
      <4>1. PICK k \in 1 .. Len(spans) : n \in spans[k].from .. spans[k].to
        BY <3>2
      <4>2. CASE k # 1
        BY <2>10, <4>1, <4>2
      <4>3. CASE k = 1 /\ n <= last
        <5>1. n \in s.from .. last
          BY <2>4, <2>5, <4>1, <4>3
        <5>2. ~Blank(s.from, last)
          BY <2>13, <5>1 DEF Blank
        <5> QED
          BY <2>6, <2>8, <5>1, <5>2
      <4>4. CASE k = 1 /\ n > last
        <5>1. n \in last + 1 .. s.to /\ last < s.to
          BY <2>4, <2>5, <4>1, <4>4
        <5>2. PICK l \in 1 .. Len(spans') :
                spans'[l].from <= last + 1 /\ spans'[l].from \in Nat /\ spans'[l].to = s.to
          BY <2>11, <5>1
        <5>3. n \in spans'[l].from .. spans'[l].to
          BY <2>4, <2>5, <5>1, <5>2
        <5> QED
          BY <5>3
      <4>5. n \in Nat
        BY <2>2 DEF Lines
      <4> QED
        BY <2>5, <4>2, <4>3, <4>4, <4>5
    <3> QED
      BY <1>2, <2>13, <3>1, <3>2 DEF LineKept
  <2>14. ASSUME NEW i \in Ids
         PROVE  \/ \E e \in drafts' : e.owner = i /\ e.start = symbols[i].start
                \/ \E k \in 1 .. Len(spans') :
                      spans'[k].owner = i /\ spans'[k].from = symbols[i].start
    <3>1. CASE \E e \in drafts : e.owner = i /\ e.start = symbols[i].start
      BY <2>7, <3>1
    <3>2. CASE \E k \in 1 .. Len(spans) :
                  spans[k].owner = i /\ spans[k].from = symbols[i].start
      <4>1. PICK k \in 1 .. Len(spans) : spans[k].owner = i /\ spans[k].from = symbols[i].start
        BY <3>2
      <4>2. CASE k # 1
        BY <2>10, <4>1, <4>2
      <4>3. CASE k = 1
        <5>1. lines[s.from] > 0 /\ s.from \in s.from .. last
          BY <1>2, <2>4, <2>5, <4>1, <4>3 DEF SourceOrder
        <5>2. lines[s.from] # 0
          BY <5>1
        <5>3. d \in drafts'
          BY <2>8, <5>1, <5>2 DEF Blank
        <5> QED
          BY <2>6, <4>1, <4>3, <5>3
      <4> QED
        BY <4>2, <4>3
    <3> QED
      BY <1>2, <3>1, <3>2 DEF SymbolKept
  <2>15. LineKept' /\ SymbolKept'
    <3>1. Lines' = Lines /\ Ids' = Ids /\ lines' = lines /\ symbols' = symbols
      BY <1>1, GoodStays DEF sourceVars
    <3> QED
      BY <2>13, <2>14, <3>1 DEF LineKept, SymbolKept
  <2>16. (\A k \in 1 .. Len(spans) : GoodSpan(spans[k]))' /\ (\A e \in drafts : GoodDraft(e))'
    BY <1>1, <2>9, <2>12, GoodStays
  <2> QED
    BY <1>3, <1>5, <2>1, <2>15, <2>16 DEF ChunkInv
<1> QED
  BY <1>1, <1>4, <1>5

LEMMA DeduplicateKeeps == ASSUME ChunkInv, Deduplicate PROVE ChunkInv'
<1>1. /\ stage = "cut" /\ spans = <<>> /\ chunks' = {d \in drafts : Kept(d)}
      /\ UNCHANGED <<sourceVars, storeVars, spans, drafts>>
      /\ \/ stage' = "chunked" /\ code' = code
         \/ stage' = "failed" /\ code' = "RETRIEVAL_LIMIT_EXCEEDED"
  BY DEF Deduplicate, IndexFailed
<1>2. /\ Inv /\ SourceOrder /\ spans \in Seq(Span) /\ LineKept /\ SymbolKept
      /\ \A k \in 1 .. Len(spans) : GoodSpan(spans[k])
      /\ \A d \in drafts : GoodDraft(d)
  BY <1>1 DEF ChunkInv
<1>3. Inv' /\ SourceOrder'
  <2>1. code' # "CODE_INDEX_FAILED" /\ stage' \in {"cut", "chunked", "failed"}
    BY <1>1, <1>2 DEF Inv, NeverStuck
  <2> QED
    BY <1>1, <1>2, <2>1, TreeStays
<1>4. (\A k \in 1 .. Len(spans) : GoodSpan(spans[k]))' /\ (\A d \in drafts : GoodDraft(d))'
  BY <1>1, <1>2, GoodStays
<1>5. LineKept' /\ SymbolKept'
  BY <1>1, <1>2 DEF LineKept, SymbolKept, Lines, Ids, sourceVars
<1>6. (chunks = {d \in drafts : Kept(d)})'
  BY <1>1 DEF Kept, Specificity, sourceVars
<1> QED
  BY <1>1, <1>2, <1>3, <1>4, <1>5, <1>6 DEF ChunkInv

LEMMA IndexKeeps ==
    ASSUME ChunkInv, IndexNext \/ UNCHANGED indexVars, UNCHANGED chunkVars
    PROVE  ChunkInv'
<1>1. Inv' /\ SourceOrder'
  BY InvNext, SourceOrderNext DEF ChunkInv
<1>2. UNCHANGED <<spans, drafts, chunks>>
  BY DEF chunkVars
<1>3. CASE UNCHANGED indexVars
  <2>1. UNCHANGED <<stage, lines, symbols, sourceVars>>
    BY <1>3 DEF indexVars, sourceVars
  <2>2. (\A k \in 1 .. Len(spans) : GoodSpan(spans[k]))' /\ (\A d \in drafts : GoodDraft(d))'
    BY <1>2, <2>1, GoodStays DEF ChunkInv
  <2>3. LineKept' = LineKept /\ SymbolKept' = SymbolKept
    BY <1>2, <2>1 DEF LineKept, SymbolKept, Lines, Ids
  <2>4. (stage = "chunked" => spans = <<>> /\ chunks = {d \in drafts : Kept(d)})'
    BY <1>2, <2>1 DEF ChunkInv, Kept, Specificity
  <2> QED
    BY <1>1, <1>2, <2>1, <2>2, <2>3, <2>4 DEF ChunkInv
<1>4. CASE IndexNext
  <2>1. stage \in {"visit", "store"} /\ stage' \in {"visit", "store", "stored", "failed"}
    BY <1>4 DEF IndexNext, BlankLine, Statement, Import, VisitSymbol, LeaveSymbol, ParseFile,
                EndOfFile, StoreRound, Committed, IndexFailed
  <2>2. spans' = <<>> /\ drafts' = {}
    BY <1>2, <2>1 DEF ChunkInv
  <2>3. 1 .. Len(spans') = {} /\ spans' \in Seq(Span)
    BY <2>2
  <2> QED
    BY <1>1, <2>1, <2>2, <2>3 DEF ChunkInv
<1> QED
  BY <1>3, <1>4

LEMMA ChunkInvInit == ASSUME ChunkInit PROVE ChunkInv
<1>1. IndexInit /\ spans = <<>> /\ drafts = {} /\ stage = "visit"
  BY DEF ChunkInit, IndexInit
<1>2. Inv /\ SourceOrder
  BY <1>1, InvInit, SourceOrderInit
<1>3. 1 .. Len(spans) = {} /\ spans \in Seq(Span)
  BY <1>1
<1> QED
  BY <1>1, <1>2, <1>3 DEF ChunkInv

LEMMA ChunkInvNext == ASSUME ChunkInv, [ChunkNext]_chunkingVars PROVE ChunkInv'
<1>1. CASE IndexNext /\ UNCHANGED chunkVars
  BY <1>1, IndexKeeps
<1>2. CASE UNCHANGED chunkingVars
  BY <1>2, IndexKeeps DEF chunkingVars
<1>3. CASE ChunksForFile \/ WindowRange \/ Deduplicate
  BY <1>3, ChunksForFileKeeps, WindowRangeKeeps, DeduplicateKeeps
<1> QED
  BY <1>1, <1>2, <1>3 DEF ChunkNext

LEMMA ChunksOfInv == ASSUME ChunkInv PROVE ChunksDescribeFile
<1>1. Inv /\ SourceOrder
  BY DEF ChunkInv
<1>2. NeverStuck /\ TreeByRange /\ PreviewIsATree
  BY <1>1, PreviewOfATree
     DEF Inv, Ranges, RangesOf, Nested, NestedOf, Rounds, TreeByRange, Ids
<1> QED
  BY <1>2, KeptChunks DEF ChunksDescribeFile

===============================================================================
