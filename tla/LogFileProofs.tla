----------------------------- MODULE LogFileProofs -----------------------------
(***************************************************************************)
(* What logcli shows of local files is true of them, for any number of     *)
(* files, lines and chunks and any order of the writer's, the reader's and *)
(* the failures' steps; and with what LogProofs says of the other adapters,*)
(* so is all that logcli shows.                                            *)
(*                                                                         *)
(* First what the model's operators do, for cells and lines of any length: *)
(* cutting cells into lines may be interrupted anywhere and resumed with   *)
(* what was left over (ParseOn), and the cells of the lines  are the cells *)
(* in their order (Sorted speaks of those). Then the invariant, FileInv:   *)
(* where the adapter is, what it has read, and of every file that what was *)
(* shown is in order and lies before all that is still to be read (Sorted);*)
(* and of a file that was only appended to, that it is what its last lines *)
(* and the cells since then make (Exact). Last, a lemma for each step.     *)
(***************************************************************************)
EXTENDS LogProofs

-----------------------------------------------------------------------------
(* Induction over a sequence *)

\* What holds of <<>>, and with a sequence of one that is longer by one, holds
\* of every sequence; it is given as the set of those it holds of.
LEMMA SeqInduct ==
  ASSUME NEW S, NEW G, <<>> \in G,
         \A s \in Seq(S), e \in S : s \in G => Append(s, e) \in G
  PROVE  Seq(S) \subseteq G
<1> DEFINE Bad == {n \in Nat : \E s \in Seq(S) : Len(s) = n /\ s \notin G}
<1> SUFFICES ASSUME NEW t \in Seq(S), t \notin G PROVE FALSE
  OBVIOUS
<1>1. Len(t) \in Bad
  BY LenProperties
<1>2. PICK n \in Bad : \A m \in Bad : n <= m
  <2>1. Bad \subseteq Nat /\ Bad # {}
    BY <1>1
  <2> HIDE DEF Bad
  <2> QED BY <2>1, HasLeast
<1>3. PICK s \in Seq(S) : Len(s) = n /\ s \notin G
  OBVIOUS
<1>4. PICK u \in Seq(S), e \in S : s = Append(u, e)
  BY <1>3, SequenceEmptyOrAppend
<1>5. Len(u) \in Nat /\ n = Len(u) + 1 /\ u \notin G
  BY <1>3, <1>4, LenProperties, AppendProperties
<1>6. Len(u) \in Bad /\ ~(n <= Len(u))
  BY <1>5
<1> HIDE DEF Bad
<1> QED BY <1>2, <1>6

-----------------------------------------------------------------------------
(* Lines and what is left over *)

\* Parse step by step: what each cell adds to the lines and what is left over.
Nothing == [lines |-> <<>>, rest |-> <<>>]

Grown(sofar, cell) ==
    IF cell = NL THEN [lines |-> Append(sofar.lines, sofar.rest), rest |-> <<>>]
    ELSE [lines |-> sofar.lines, rest |-> Append(sofar.rest, cell)]

Parses(f, cells, n) == f = [i \in 0 .. n |-> IF i = 0 THEN Nothing ELSE Grown(f[i - 1], cells[i])]

\* There is a function that takes each value from the one before.
LEMMA CanParse ==
  ASSUME NEW q
  PROVE  \A n \in Nat : \E f : Parses(f, q, n)
<1> DEFINE Bad == {n \in Nat : ~\E f : Parses(f, q, n)}
<1> SUFFICES ASSUME Bad # {} PROVE FALSE
  OBVIOUS
<1>1. PICK n \in Bad : \A m \in Bad : n <= m
  BY HasLeast
<1>2. n \in Nat /\ ~\E f : Parses(f, q, n)
  OBVIOUS
<1>3. n # 0
  <2> DEFINE g == [i \in 0 .. 0 |-> Nothing]
  <2>1. g = [i \in 0 .. 0 |-> IF i = 0 THEN Nothing ELSE Grown(g[i - 1], q[i])]
    <3>1. ASSUME NEW i \in 0 .. 0 PROVE i = 0
      OBVIOUS
    <3> QED BY <3>1
  <2>2. n = 0 => Parses(g, q, n)
    BY <2>1 DEF Parses
  <2> QED BY <1>2, <2>2
<1>4. n - 1 \in Nat /\ n - 1 \notin Bad
  <2>1. n - 1 \in Nat /\ ~(n <= n - 1)
    BY <1>2, <1>3
  <2> HIDE DEF Bad
  <2> QED BY <1>1, <2>1
<1>5. PICK f : Parses(f, q, n - 1)
  BY <1>4
<1> DEFINE next(i) == IF i = 0 THEN Nothing ELSE Grown(f[i - 1], q[i])
           g == [i \in 0 .. n |-> next(i)]
<1>6. ASSUME NEW i \in 0 .. n PROVE g[i] = IF i = 0 THEN Nothing ELSE Grown(g[i - 1], q[i])
  <2>1. CASE i = 0
    BY <2>1
  <2>2. CASE i # 0
    <3>1. i - 1 \in 0 .. n - 1 /\ i - 1 \in 0 .. n
      BY <1>2, <2>2
    <3>2. f[i - 1] = next(i - 1)
      BY <1>5, <3>1 DEF Parses
    <3>3. g[i - 1] = next(i - 1)
      BY <3>1
    <3> QED BY <2>2, <3>2, <3>3
  <2> QED BY <2>1, <2>2
<1>7. Parses(g, q, n)
  <2>1. g = [i \in 0 .. n |-> g[i]]
    OBVIOUS
  <2> HIDE DEF g
  <2> QED BY <1>6, <2>1 DEF Parses
<1> QED BY <1>2, <1>7

\* Parse is what the steps make of all cells.
LEMMA ParseIs ==
  ASSUME NEW cells \in Seq(Int)
  PROVE  \E f : /\ Parse(cells) = f[Len(cells)] /\ f[0] = Nothing
                /\ \A i \in 1 .. Len(cells) : f[i] = Grown(f[i - 1], cells[i])
<1> DEFINE n == Len(cells)
           f == CHOOSE f : Parses(f, cells, n)
<1>1. n \in Nat
  BY LenProperties
<1>2. Parses(f, cells, n)
  BY <1>1, CanParse, Zenon
<1>3. Parse(cells) = f[n]
  BY DEF Parse, Parses, Grown, Nothing
<1> HIDE DEF f
<1>4. \A i \in 0 .. n : f[i] = IF i = 0 THEN Nothing ELSE Grown(f[i - 1], cells[i])
  BY <1>2, Zenon DEF Parses
<1> HIDE DEF n
<1>5. f[0] = Nothing
  <2>1. 0 \in 0 .. n
    BY <1>1
  <2> QED BY <1>4, <2>1
<1>6. ASSUME NEW i \in 1 .. n PROVE f[i] = Grown(f[i - 1], cells[i])
  <2>1. i \in 0 .. n /\ i # 0
    BY <1>1
  <2> QED BY <1>4, <2>1
<1> QED BY <1>3, <1>5, <1>6 DEF n

LEMMA ParseNone == Parse(<<>>) = Nothing
<1>1. <<>> \in Seq(Int) /\ Len(<<>>) = 0
  BY EmptySeq
<1>2. PICK f : Parse(<<>>) = f[Len(<<>>)] /\ f[0] = Nothing
  BY <1>1, ParseIs
<1> QED BY <1>1, <1>2

\* One cell more is one step more.
LEMMA ParseNext ==
  ASSUME NEW cells \in Seq(Int), NEW c \in Int
  PROVE  Parse(Append(cells, c)) = Grown(Parse(cells), c)
<1> DEFINE n    == Len(cells)
           more == Append(cells, c)
<1>1. /\ n \in Nat /\ more \in Seq(Int) /\ Len(more) = n + 1 /\ more[n + 1] = c
      /\ \A i \in 1 .. n : more[i] = cells[i]
  BY LenProperties, AppendProperties
<1>2. PICK f : /\ Parse(cells) = f[n] /\ f[0] = Nothing
               /\ \A i \in 1 .. n : f[i] = Grown(f[i - 1], cells[i])
  BY ParseIs
<1> HIDE DEF n, more
<1>3. PICK g : /\ Parse(more) = g[Len(more)] /\ g[0] = Nothing
               /\ \A i \in 1 .. Len(more) : g[i] = Grown(g[i - 1], more[i])
  BY <1>1, ParseIs
<1> DEFINE Bad == {i \in 0 .. n : f[i] # g[i]}
<1>4. Bad = {}
  <2> SUFFICES ASSUME Bad # {} PROVE FALSE
    OBVIOUS
  <2>1. Bad \subseteq Nat
    BY <1>1
  <2>2. PICK i \in Bad : \A j \in Bad : i <= j
    <3> HIDE DEF Bad
    <3> QED BY <2>1, HasLeast
  <2>3. i \in 0 .. n /\ f[i] # g[i]
    OBVIOUS
  <2>4. i # 0
    BY <1>2, <1>3, <2>3
  <2>5. i - 1 \in 0 .. n /\ ~(i <= i - 1) /\ i \in 1 .. n /\ i \in 1 .. n + 1
    BY <1>1, <2>3, <2>4
  <2>6. f[i - 1] = g[i - 1]
    BY <2>2, <2>5
  <2>7. f[i] = Grown(f[i - 1], cells[i])
    BY <1>2, <2>5
  <2>8. g[i] = Grown(g[i - 1], more[i])
    BY <1>1, <1>3, <2>5
  <2>9. more[i] = cells[i]
    BY <1>1, <2>5
  <2> QED BY <2>3, <2>6, <2>7, <2>8, <2>9
<1>5. f[n] = g[n]
  <2>1. n \in 0 .. n
    BY <1>1
  <2> QED BY <1>4, <2>1
<1>6. g[n + 1] = Grown(g[n + 1 - 1], c) /\ n + 1 - 1 = n
  <2>1. n + 1 \in 1 .. n + 1 /\ n + 1 - 1 = n
    BY <1>1
  <2>2. g[n + 1] = Grown(g[n + 1 - 1], more[n + 1])
    BY <1>1, <1>3, <2>1
  <2> QED BY <1>1, <2>1, <2>2
<1>7. Parse(more) = Grown(Parse(cells), c)
  BY <1>1, <1>2, <1>3, <1>5, <1>6
<1> QED BY <1>7 DEF more

\* The lines that are finished, and the beginning of the next one.
Finished(cells) == Parse(cells).lines
Left(cells)     == Parse(cells).rest

LEMMA ParseTyped ==
  ASSUME NEW cells \in Seq(Int)
  PROVE  Parse(cells) \in [lines : Seq(Seq(Int)), rest : Seq(Int)]
<1> DEFINE T == [lines : Seq(Seq(Int)), rest : Seq(Int)]
           G == {s \in Seq(Int) : Parse(s) \in T}
<1>1. <<>> \in G
  <2>1. Nothing \in T
    BY EmptySeq DEF Nothing
  <2> HIDE DEF T
  <2> QED BY <2>1, ParseNone, EmptySeq
<1>2. ASSUME NEW s \in Seq(Int), NEW c \in Int, s \in G PROVE Append(s, c) \in G
  <2>1. Parse(s) \in T
    BY <1>2
  <2>2. Append(s, c) \in Seq(Int) /\ Parse(Append(s, c)) = Grown(Parse(s), c)
    BY ParseNext, AppendProperties
  <2> DEFINE p == Parse(s)
  <2>3. p.lines \in Seq(Seq(Int)) /\ p.rest \in Seq(Int)
    BY <2>1
  <2> HIDE DEF p
  <2>4. /\ Append(p.lines, p.rest) \in Seq(Seq(Int)) /\ Append(p.rest, c) \in Seq(Int)
        /\ <<>> \in Seq(Int)
    BY <2>3, AppendProperties, EmptySeq
  <2>5. Grown(p, c) \in T
    BY <2>3, <2>4 DEF Grown
  <2> QED BY <2>2, <2>5 DEF p
<1> HIDE DEF G
<1>3. cells \in G
  BY <1>1, <1>2, SeqInduct
<1> QED BY <1>3 DEF G

\* What one cell more does.
LEMMA ParseStep ==
  ASSUME NEW cells \in Seq(Int), NEW c \in Int
  PROVE  /\ Append(cells, c) \in Seq(Int)
         /\ Finished(cells) \in Seq(Seq(Int)) /\ Left(cells) \in Seq(Int)
         /\ c = NL => /\ Finished(Append(cells, c)) = Append(Finished(cells), Left(cells))
                      /\ Left(Append(cells, c)) = <<>>
         /\ c # NL => /\ Finished(Append(cells, c)) = Finished(cells)
                      /\ Left(Append(cells, c)) = Append(Left(cells), c)
<1>1. Append(cells, c) \in Seq(Int)
  BY AppendProperties
<1>2. Finished(cells) \in Seq(Seq(Int)) /\ Left(cells) \in Seq(Int)
  BY ParseTyped DEF Finished, Left
<1>3. Parse(Append(cells, c)) = Grown(Parse(cells), c)
  BY ParseNext
<1> QED BY <1>1, <1>2, <1>3 DEF Grown, Finished, Left

LEMMA ParseEmpty == Finished(<<>>) = <<>> /\ Left(<<>>) = <<>>
  BY ParseNone DEF Nothing, Finished, Left

LEMMA FinishedTyped ==
  ASSUME NEW cells \in Seq(Int)
  PROVE  Finished(cells) \in Seq(Seq(Int)) /\ Left(cells) \in Seq(Int)
  BY ParseTyped DEF Finished, Left

LEMMA AppendConcat ==
  ASSUME NEW S, NEW s \in Seq(S), NEW t \in Seq(S), NEW e \in S
  PROVE  /\ s \o Append(t, e) = Append(s \o t, e)
         /\ s \o t \in Seq(S)
<1>1. t \o <<e>> = Append(t, e) /\ <<e>> \in Seq(S)
  BY AppendIsConcat
<1>2. (s \o t) \o <<e>> = s \o (t \o <<e>>)
  BY <1>1, ConcatAssociative
<1>3. s \o t \in Seq(S)
  BY ConcatProperties
<1>4. Append(s \o t, e) = (s \o t) \o <<e>>
  BY <1>3, AppendIsConcat
<1> QED BY <1>1, <1>2, <1>3, <1>4

\* The same for lines, where the prover need not find the set.
LEMMA LinesAppend ==
  ASSUME NEW s \in Seq(Seq(Int)), NEW t \in Seq(Seq(Int)), NEW e \in Seq(Int)
  PROVE  s \o Append(t, e) = Append(s \o t, e)
<1> DEFINE S == Seq(Int)
<1>1. s \in Seq(S) /\ t \in Seq(S) /\ e \in S
  OBVIOUS
<1> HIDE DEF S
<1> QED BY <1>1, AppendConcat

LEMMA UpToIsFinite == \A n \in Nat : IsFiniteSet(1 .. n)
  BY FS_Interval

\* A line that was left over is left over again.
LEMMA LeftStays ==
  ASSUME NEW cells \in Seq(Int)
  PROVE  Finished(Left(cells)) = <<>> /\ Left(Left(cells)) = Left(cells)
<1> DEFINE G == {s \in Seq(Int) : Finished(Left(s)) = <<>> /\ Left(Left(s)) = Left(s)}
<1>1. <<>> \in G
  BY ParseEmpty, EmptySeq
<1>2. ASSUME NEW s \in Seq(Int), NEW c \in Int, s \in G PROVE Append(s, c) \in G
  <2>0. Finished(Left(s)) = <<>> /\ Left(Left(s)) = Left(s)
    BY <1>2
  <2> HIDE DEF G
  <2>1. Append(s, c) \in Seq(Int) /\ Left(s) \in Seq(Int)
    BY ParseStep
  <2>2. CASE c = NL
    <3>1. Left(Append(s, c)) = <<>>
      BY <2>2, ParseStep
    <3> QED BY <2>1, <3>1, ParseEmpty DEF G
  <2>3. CASE c # NL
    <3>1. Left(Append(s, c)) = Append(Left(s), c)
      BY <2>3, ParseStep
    <3>2. Finished(Append(Left(s), c)) = <<>> /\ Left(Append(Left(s), c)) = Append(Left(s), c)
      BY <2>0, <2>1, <2>3, ParseStep
    <3> QED BY <2>1, <3>1, <3>2 DEF G
  <2> QED BY <2>2, <2>3
<1> HIDE DEF G
<1>3. cells \in G
  BY <1>1, <1>2, SeqInduct
<1> QED BY <1>3 DEF G

\* Cells are parsed on from what was left over of those before them.
LEMMA ParseOn ==
  ASSUME NEW cells \in Seq(Int), NEW more \in Seq(Int)
  PROVE  /\ Finished(cells \o more) = Finished(cells) \o Finished(Left(cells) \o more)
         /\ Left(cells \o more) = Left(Left(cells) \o more)
<1> DEFINE l == Left(cells)
           G == {s \in Seq(Int) :
                   /\ Finished(cells \o s) = Finished(cells) \o Finished(l \o s)
                   /\ Left(cells \o s) = Left(l \o s)}
<1>0. Finished(cells) \in Seq(Seq(Int)) /\ l \in Seq(Int)
  BY FinishedTyped
<1>a. Finished(l) = <<>> /\ Left(l) = l
  BY LeftStays
<1>1. <<>> \in G
  <2>1. cells \o <<>> = cells /\ l \o <<>> = l /\ Finished(cells) \o <<>> = Finished(cells)
    BY <1>0, ConcatEmptySeq
  <2> QED BY <1>a, <2>1, EmptySeq
<1> HIDE DEF l
<1>2. ASSUME NEW s \in Seq(Int), NEW c \in Int, s \in G PROVE Append(s, c) \in G
  <2>0. /\ Finished(cells \o s) = Finished(cells) \o Finished(l \o s)
        /\ Left(cells \o s) = Left(l \o s)
    BY <1>2
  <2> HIDE DEF G
  <2>1. /\ cells \o Append(s, c) = Append(cells \o s, c) /\ l \o Append(s, c) = Append(l \o s, c)
        /\ cells \o s \in Seq(Int) /\ l \o s \in Seq(Int) /\ Append(s, c) \in Seq(Int)
    <3>1. Append(s, c) \in Seq(Int)
      BY AppendProperties
    <3>2. cells \o Append(s, c) = Append(cells \o s, c) /\ cells \o s \in Seq(Int)
      BY AppendConcat
    <3>3. l \o Append(s, c) = Append(l \o s, c) /\ l \o s \in Seq(Int)
      BY <1>0, AppendConcat
    <3> QED BY <3>1, <3>2, <3>3
  <2> DEFINE x == cells \o s
             y == l \o s
  <2>2. Finished(y) \in Seq(Seq(Int)) /\ Left(y) \in Seq(Int)
    BY <2>1, FinishedTyped
  <2>3. /\ Finished(Append(x, c)) = Finished(cells) \o Finished(Append(y, c))
        /\ Left(Append(x, c)) = Left(Append(y, c))
    <3>1. /\ x \in Seq(Int) /\ y \in Seq(Int)
          /\ Finished(x) = Finished(cells) \o Finished(y) /\ Left(x) = Left(y)
      BY <2>0, <2>1
    <3> HIDE DEF x, y
    <3>2. CASE c = NL
      <4>1. /\ Finished(Append(x, c)) = Append(Finished(x), Left(x)) /\ Left(Append(x, c)) = <<>>
            /\ Finished(Append(y, c)) = Append(Finished(y), Left(y)) /\ Left(Append(y, c)) = <<>>
        BY <3>1, <3>2, ParseStep
      <4>2. Finished(cells) \o Append(Finished(y), Left(y)) = Append(Finished(cells) \o Finished(y), Left(y))
        BY <1>0, <2>2, LinesAppend, Zenon
      <4> QED BY <3>1, <4>1, <4>2
    <3>3. CASE c # NL
      <4>1. /\ Finished(Append(x, c)) = Finished(x) /\ Left(Append(x, c)) = Append(Left(x), c)
            /\ Finished(Append(y, c)) = Finished(y) /\ Left(Append(y, c)) = Append(Left(y), c)
        BY <3>1, <3>3, ParseStep
      <4> QED BY <3>1, <4>1
    <3> QED BY <3>2, <3>3
  <2> QED BY <2>1, <2>3 DEF G
<1> HIDE DEF G
<1>3. more \in G
  BY <1>1, <1>2, SeqInduct
<1> QED BY <1>3 DEF G, l

\* There are as many lines as newlines.
LEMMA NewlinesIs ==
  ASSUME NEW cells \in Seq(Int)
  PROVE  Newlines(cells) \in Nat /\ Len(Finished(cells)) = Newlines(cells)
<1> DEFINE G == {s \in Seq(Int) : Newlines(s) \in Nat /\ Len(Finished(s)) = Newlines(s)}
<1>1. <<>> \in G
  <2>1. {i \in DOMAIN <<>> : <<>>[i] = NL} = {}
    OBVIOUS
  <2>2. Newlines(<<>>) = 0
    BY <2>1, FS_EmptySet DEF Newlines
  <2> QED BY <2>2, ParseEmpty, EmptySeq
<1>2. ASSUME NEW s \in Seq(Int), NEW c \in Int, s \in G PROVE Append(s, c) \in G
  <2>0. Newlines(s) \in Nat /\ Len(Finished(s)) = Newlines(s)
    BY <1>2
  <2> HIDE DEF G
  <2> DEFINE n == Len(s)
             t == Append(s, c)
             A == {i \in DOMAIN s : s[i] = NL}
             B == {i \in DOMAIN t : t[i] = NL}
  <2>1. /\ n \in Nat /\ DOMAIN s = 1 .. n /\ t \in Seq(Int) /\ DOMAIN t = 1 .. n + 1
        /\ t[n + 1] = c /\ \A i \in 1 .. n : t[i] = s[i]
    BY LenProperties, AppendProperties
  <2>2. Finished(s) \in Seq(Seq(Int)) /\ Left(s) \in Seq(Int)
    BY FinishedTyped
  <2>3. IsFiniteSet(A) /\ n + 1 \notin A /\ Cardinality(A) = Newlines(s)
    <3>0. IsFiniteSet(1 .. n)
      BY <2>1, UpToIsFinite, Zenon
    <3>1. A \subseteq 1 .. n /\ IsFiniteSet(1 .. n)
      BY <2>1, <3>0
    <3>2. n + 1 \notin 1 .. n
      BY <2>1
    <3> QED BY <3>1, <3>2, FS_Subset DEF Newlines
  <2>4. Newlines(t) = Cardinality(B)
    BY DEF Newlines
  <2> HIDE DEF n, t
  <2>5. CASE c = NL
    <3>1. B = A \union {n + 1}
      <4>1. ASSUME NEW i PROVE i \in 1 .. n + 1 <=> i \in 1 .. n \/ i = n + 1
        BY <2>1
      <4> QED BY <2>1, <2>5, <4>1
    <3>2. Newlines(t) = Newlines(s) + 1
      BY <2>3, <2>4, <3>1, FS_AddElement
    <3>3. Len(Finished(t)) = Len(Finished(s)) + 1
      BY <2>2, <2>5, ParseStep, AppendProperties DEF t
    <3> QED BY <2>0, <2>1, <3>2, <3>3 DEF G, t
  <2>6. CASE c # NL
    <3>1. B = A
      <4>1. ASSUME NEW i PROVE i \in 1 .. n + 1 <=> i \in 1 .. n \/ i = n + 1
        BY <2>1
      <4> QED BY <2>1, <2>6, <4>1
    <3>2. Newlines(t) = Newlines(s)
      BY <2>3, <2>4, <3>1
    <3>3. Finished(t) = Finished(s)
      BY <2>6, ParseStep DEF t
    <3> QED BY <2>0, <2>1, <3>2, <3>3 DEF G, t
  <2> QED BY <2>5, <2>6
<1> HIDE DEF G
<1>3. cells \in G
  BY <1>1, <1>2, SeqInduct
<1> QED BY <1>3 DEF G

\* What was written before the last cells shows in the first line of them only.
LEMMA ParseAgrees ==
  ASSUME NEW before \in Seq(Int), NEW cells \in Seq(Int)
  PROVE  LET m == Len(Finished(before))
             A == Finished(before \o cells)
             B == Finished(cells)
         IN /\ Len(A) = m + Len(B)
            /\ \A i \in 2 .. Len(B) : A[m + i] = B[i]
            /\ Len(B) > 0 => Left(before \o cells) = Left(cells)
<1> DEFINE m == Len(Finished(before))
           Agree(A, B) == Len(A) = m + Len(B) /\ \A i \in 2 .. Len(B) : A[m + i] = B[i]
           G == {s \in Seq(Int) : /\ Agree(Finished(before \o s), Finished(s))
                                  /\ Len(Finished(s)) > 0 => Left(before \o s) = Left(s)}
<1>0. m \in Nat
  BY FinishedTyped, LenProperties
<1>1. <<>> \in G
  <2>1. before \o <<>> = before
    BY ConcatEmptySeq
  <2>2. Len(Finished(<<>>)) = 0 /\ 2 .. 0 = {}
    BY ParseEmpty
  <2> QED BY <1>0, <2>1, <2>2, EmptySeq
<1>2. ASSUME NEW s \in Seq(Int), NEW c \in Int, s \in G PROVE Append(s, c) \in G
  <2> DEFINE x == before \o s
  <2>0. /\ Agree(Finished(x), Finished(s))
        /\ Len(Finished(s)) > 0 => Left(x) = Left(s)
    BY <1>2
  <2>1. /\ before \o Append(s, c) = Append(x, c) /\ x \in Seq(Int) /\ Append(s, c) \in Seq(Int)
    BY AppendConcat, AppendProperties
  <2> HIDE DEF G, x, m
  <2>2. /\ Finished(x) \in Seq(Seq(Int)) /\ Left(x) \in Seq(Int)
        /\ Finished(s) \in Seq(Seq(Int)) /\ Left(s) \in Seq(Int)
    BY <2>1, FinishedTyped
  <2>3. CASE c = NL
    <3> DEFINE A == Append(Finished(x), Left(x))
               B == Append(Finished(s), Left(s))
               n == Len(Finished(s))
    <3>1. /\ Finished(Append(x, c)) = A /\ Left(Append(x, c)) = <<>>
          /\ Finished(Append(s, c)) = B /\ Left(Append(s, c)) = <<>>
      BY <2>1, <2>3, ParseStep
    <3>2. /\ n \in Nat /\ Len(A) = m + n + 1 /\ Len(B) = n + 1
          /\ A[m + n + 1] = Left(x) /\ B[n + 1] = Left(s)
      <4>1. n \in Nat
        BY <2>2, LenProperties
      <4>2. Len(Finished(x)) = m + n
        BY <2>0
      <4>3. Len(A) = Len(Finished(x)) + 1 /\ A[Len(Finished(x)) + 1] = Left(x)
        BY <2>2, AppendProperties
      <4>4. Len(B) = n + 1 /\ B[n + 1] = Left(s)
        BY <2>2, AppendProperties
      <4> QED BY <4>1, <4>2, <4>3, <4>4
    <3>c. n \in Nat
      BY <3>2
    <3>3. /\ \A i \in 1 .. m + n : A[i] = Finished(x)[i]
          /\ \A i \in 1 .. n : B[i] = Finished(s)[i]
      BY <2>0, <2>2, LenProperties, AppendProperties
    <3>a. \A i \in 2 .. n : Finished(x)[m + i] = Finished(s)[i]
      BY <2>0
    <3>b. n > 0 => Left(x) = Left(s)
      BY <2>0
    <3> HIDE DEF A, B, n
    <3>4. ASSUME NEW i \in 2 .. n + 1 PROVE A[m + i] = B[i]
      <4>1. CASE i = n + 1
        <5>1. n > 0 /\ m + i = m + n + 1
          BY <1>0, <3>c, <4>1
        <5> QED BY <3>2, <3>b, <4>1, <5>1
      <4>2. CASE i # n + 1
        <5>1. i \in 2 .. n /\ i \in 1 .. n /\ m + i \in 1 .. m + n
          BY <1>0, <3>2, <4>2
        <5> QED BY <3>3, <3>a, <5>1
      <4> QED BY <4>1, <4>2
    <3>5. Agree(A, B)
      BY <1>0, <3>2, <3>4
    <3> QED BY <2>1, <3>1, <3>5 DEF G
  <2>4. CASE c # NL
    <3>1. /\ Finished(Append(x, c)) = Finished(x) /\ Left(Append(x, c)) = Append(Left(x), c)
          /\ Finished(Append(s, c)) = Finished(s) /\ Left(Append(s, c)) = Append(Left(s), c)
      BY <2>1, <2>4, ParseStep
    <3> QED BY <2>0, <2>1, <3>1 DEF G
  <2> QED BY <2>3, <2>4
<1> HIDE DEF G
<1>3. cells \in G
  BY <1>1, <1>2, SeqInduct
<1> QED BY <1>3 DEF G

-----------------------------------------------------------------------------
(* Lines that are not empty *)

\* The same for lines that are put one behind the other, as NotEmpty does.
Flattens(f, q, n) == f = [i \in 1 .. n |-> IF i = 1 THEN q[i] ELSE f[i - 1] \o q[i]]

LEMMA CanFlatten == \A n \in Nat : \A q : \E f : Flattens(f, q, n)
<1> DEFINE Bad == {n \in Nat : \E q : ~\E f : Flattens(f, q, n)}
<1> SUFFICES ASSUME Bad # {} PROVE FALSE
  OBVIOUS
<1>1. PICK n \in Bad : \A m \in Bad : n <= m
  BY HasLeast
<1>2. PICK q : ~\E f : Flattens(f, q, n)
  OBVIOUS
<1>3. n \in Nat
  OBVIOUS
<1>4. n # 0
  <2>1. ASSUME n = 0 PROVE Flattens(<<>>, q, n)
    BY <2>1 DEF Flattens
  <2> QED BY <1>2, <2>1
<1>5. n - 1 \in Nat /\ n - 1 \notin Bad
  <2>1. n - 1 \in Nat /\ ~(n <= n - 1)
    BY <1>3, <1>4
  <2> HIDE DEF Bad
  <2> QED BY <1>1, <2>1
<1>6. PICK f : Flattens(f, q, n - 1)
  BY <1>5
<1> DEFINE piece(i) == IF i = 1 THEN q[i] ELSE f[i - 1] \o q[i]
           g == [i \in 1 .. n |-> piece(i)]
<1>7. ASSUME NEW i \in 1 .. n PROVE g[i] = IF i = 1 THEN q[i] ELSE g[i - 1] \o q[i]
  <2>1. CASE i = 1
    BY <2>1
  <2>2. CASE i # 1
    <3>1. i - 1 \in 1 .. n - 1 /\ i - 1 \in 1 .. n
      BY <1>3, <2>2
    <3>2. f[i - 1] = piece(i - 1)
      BY <1>6, <3>1 DEF Flattens
    <3>3. g[i - 1] = piece(i - 1)
      BY <3>1
    <3> QED BY <2>2, <3>2, <3>3
  <2> QED BY <2>1, <2>2
<1>8. Flattens(g, q, n)
  <2>1. g = [i \in 1 .. n |-> g[i]]
    OBVIOUS
  <2> HIDE DEF g
  <2> QED BY <1>7, <2>1 DEF Flattens
<1> QED BY <1>2, <1>8

LEMMA FlattenIs ==
  ASSUME NEW q, NEW n \in Nat \ {0}, Len(q) = n
  PROVE  \E f : /\ FlattenSeq(q) = f[n]
                /\ \A i \in 1 .. n : f[i] = IF i = 1 THEN q[i] ELSE f[i - 1] \o q[i]
<1> DEFINE f == CHOOSE f : Flattens(f, q, n)
<1>1. Flattens(f, q, n)
  BY CanFlatten, Zenon
<1>2. FlattenSeq(q) = f[n]
  BY DEF FlattenSeq, Flattens
<1> HIDE DEF f
<1>3. \A i \in 1 .. n : f[i] = IF i = 1 THEN q[i] ELSE f[i - 1] \o q[i]
  BY <1>1, Zenon DEF Flattens
<1> QED BY <1>2, <1>3

LEMMA FlattenNext ==
  ASSUME NEW L, NEW q \in Seq(Seq(L)), NEW e \in Seq(L)
  PROVE  FlattenSeq(Append(q, e)) = (IF q = <<>> THEN <<>> ELSE FlattenSeq(q)) \o e
<1> DEFINE n    == Len(q)
           more == Append(q, e)
<1>1. /\ n \in Nat /\ more \in Seq(Seq(L)) /\ Len(more) = n + 1 /\ more[n + 1] = e
      /\ \A i \in 1 .. n : more[i] = q[i]
      /\ n = 0 <=> q = <<>>
  BY LenProperties, AppendProperties, EmptySeq
<1> HIDE DEF more
<1>2. n + 1 \in Nat \ {0}
  BY <1>1
<1>b. n = Len(q)
  OBVIOUS
<1> HIDE DEF n
<1>3. PICK g : /\ FlattenSeq(more) = g[n + 1]
               /\ \A i \in 1 .. n + 1 : g[i] = IF i = 1 THEN more[i] ELSE g[i - 1] \o more[i]
  BY <1>1, <1>2, FlattenIs
<1>4. CASE n = 0
  <2>1. 1 \in 1 .. n + 1 /\ n + 1 = 1
    BY <1>4
  <2>2. g[1] = more[1]
    BY <1>3, <2>1
  <2>3. FlattenSeq(more) = e
    BY <1>1, <1>3, <2>1, <2>2
  <2>4. <<>> \o e = e
    BY ConcatEmptySeq
  <2> QED BY <1>1, <1>4, <2>3, <2>4 DEF more
<1>5. CASE n # 0
  <2>1. n \in Nat \ {0}
    BY <1>1, <1>5
  <2>2. PICK f : /\ FlattenSeq(q) = f[n]
                 /\ \A i \in 1 .. n : f[i] = IF i = 1 THEN q[i] ELSE f[i - 1] \o q[i]
    BY <1>b, <2>1, FlattenIs
  <2> DEFINE Bad == {i \in 1 .. n : f[i] # g[i]}
  <2>3. Bad = {}
    <3> SUFFICES ASSUME Bad # {} PROVE FALSE
      OBVIOUS
    <3>1. Bad \subseteq Nat
      BY <1>1
    <3>2. PICK i \in Bad : \A j \in Bad : i <= j
      <4> HIDE DEF Bad
      <4> QED BY <3>1, HasLeast
    <3>3. i \in 1 .. n /\ f[i] # g[i]
      OBVIOUS
    <3>4. i \in 1 .. n + 1 /\ more[i] = q[i]
      BY <1>1, <3>3
    <3>5. CASE i = 1
      BY <1>3, <2>2, <3>3, <3>4, <3>5
    <3>6. CASE i # 1
      <4>1. i - 1 \in 1 .. n /\ ~(i <= i - 1)
        BY <1>1, <3>3, <3>6
      <4>2. f[i - 1] = g[i - 1]
        BY <3>2, <4>1
      <4>3. f[i] = f[i - 1] \o q[i]
        BY <2>2, <3>3, <3>6
      <4>4. g[i] = g[i - 1] \o more[i]
        BY <1>3, <3>4, <3>6
      <4> QED BY <3>3, <3>4, <4>2, <4>3, <4>4
    <3> QED BY <3>5, <3>6
  <2>4. f[n] = g[n]
    <3>1. n \in 1 .. n
      BY <2>1
    <3> QED BY <2>3, <3>1
  <2>5. g[n + 1] = g[n] \o e
    <3> DEFINE m == n + 1
    <3>1. m \in 1 .. m /\ m # 1 /\ m - 1 = n
      BY <2>1
    <3>2. \A i \in 1 .. m : g[i] = IF i = 1 THEN more[i] ELSE g[i - 1] \o more[i]
      BY <1>3
    <3>3. more[m] = e
      BY <1>1
    <3> HIDE DEF m
    <3>4. g[m] = g[m - 1] \o more[m]
      BY <3>1, <3>2
    <3>5. g[m] = g[n] \o e
      BY <3>1, <3>3, <3>4
    <3> QED BY <3>5 DEF m
  <2>6. FlattenSeq(more) = FlattenSeq(q) \o e
    BY <1>3, <2>2, <2>4, <2>5
  <2> QED BY <1>1, <1>5, <2>6 DEF more
<1> QED BY <1>4, <1>5

\* What NotEmpty keeps of a line.
Kept(l) == IF l = <<>> THEN <<>> ELSE <<l>>

LEMMA KeptTyped ==
  ASSUME NEW l \in Seq(Int)
  PROVE  Kept(l) \in Seq(Seq(Int))
  BY DEF Kept

LEMMA NotEmptyNone == NotEmpty(<<>>) = <<>>
<1>1. [i \in DOMAIN <<>> |-> IF <<>>[i] = <<>> THEN <<>> ELSE <<<<>>[i]>>] = <<>>
  OBVIOUS
<1> QED BY <1>1 DEF NotEmpty, FlattenSeq

LEMMA NotEmptyNext ==
  ASSUME NEW s \in Seq(Seq(Int)), NEW l \in Seq(Int)
  PROVE  NotEmpty(Append(s, l)) = NotEmpty(s) \o Kept(l)
<1> DEFINE t    == Append(s, l)
           n    == Len(s)
           K(q) == [i \in DOMAIN q |-> Kept(q[i])]
<1>1. /\ n \in Nat /\ DOMAIN s = 1 .. n /\ t \in Seq(Seq(Int)) /\ DOMAIN t = 1 .. n + 1
      /\ t[n + 1] = l /\ \A i \in 1 .. n : t[i] = s[i]
  BY LenProperties, AppendProperties
<1>2. NotEmpty(t) = FlattenSeq(K(t)) /\ NotEmpty(s) = FlattenSeq(K(s))
  BY DEF NotEmpty, Kept
<1>3. \A i \in 1 .. n : Kept(s[i]) \in Seq(Seq(Int))
  <2>1. ASSUME NEW i \in 1 .. n PROVE s[i] \in Seq(Int)
    BY <2>1, ElementOfSeq
  <2> QED BY <2>1, KeptTyped
<1>4. Kept(l) \in Seq(Seq(Int))
  BY KeptTyped
<1> HIDE DEF t, n
<1>5. K(s) = [i \in 1 .. n |-> Kept(s[i])]
  BY <1>1
<1> DEFINE u == K(s)
<1>6. u \in Seq(Seq(Seq(Int))) /\ Len(u) = n /\ DOMAIN u = 1 .. n /\ \A i \in 1 .. n : u[i] = Kept(s[i])
  BY <1>1, <1>3, <1>5
<1>7. K(t) = [i \in 1 .. n + 1 |-> Kept(t[i])]
  BY <1>1
<1> HIDE DEF u
<1> DEFINE v == Append(u, Kept(l))
<1>8. /\ v \in Seq(Seq(Seq(Int))) /\ Len(v) = n + 1 /\ v[n + 1] = Kept(l)
      /\ \A i \in 1 .. n : v[i] = u[i]
  BY <1>4, <1>6, AppendProperties
<1> HIDE DEF v
<1>9. K(t) = v
  <2>1. \A i \in 1 .. n + 1 : v[i] = Kept(t[i])
    <3> SUFFICES ASSUME NEW i \in 1 .. n + 1 PROVE v[i] = Kept(t[i])
      OBVIOUS
    <3>1. CASE i = n + 1
      BY <1>1, <1>8, <3>1
    <3>2. CASE i # n + 1
      <4>1. i \in 1 .. n
        BY <1>1, <3>2
      <4> QED BY <1>1, <1>6, <1>8, <4>1
    <3> QED BY <3>1, <3>2
  <2>2. v = [i \in 1 .. n + 1 |-> v[i]]
    BY <1>8, LenProperties
  <2> QED BY <1>7, <2>1, <2>2
<1>10. FlattenSeq(v) = (IF u = <<>> THEN <<>> ELSE FlattenSeq(u)) \o Kept(l)
  BY <1>4, <1>6, FlattenNext DEF v
<1>11. u = <<>> => FlattenSeq(u) = <<>>
  BY DEF FlattenSeq
<1> QED BY <1>2, <1>9, <1>10, <1>11 DEF t, u

LEMMA NotEmptyTyped ==
  ASSUME NEW lines_ \in Seq(Seq(Int))
  PROVE  NotEmpty(lines_) \in Seq(Seq(Int))
<1> DEFINE G == {s \in Seq(Seq(Int)) : NotEmpty(s) \in Seq(Seq(Int))}
<1>1. <<>> \in G
  BY NotEmptyNone, EmptySeq
<1>2. ASSUME NEW s \in Seq(Seq(Int)), NEW l \in Seq(Int), s \in G PROVE Append(s, l) \in G
  BY <1>2, NotEmptyNext, KeptTyped, ConcatProperties, AppendProperties
<1> HIDE DEF G
<1>3. lines_ \in G
  BY <1>1, <1>2, SeqInduct
<1> QED BY <1>3 DEF G

LEMMA Regroup ==
  ASSUME NEW x \in Seq(Seq(Int)), NEW y \in Seq(Seq(Int)), NEW z \in Seq(Seq(Int))
  PROVE  (x \o y) \o z = x \o (y \o z)
<1> DEFINE S == Seq(Int)
<1>1. x \in Seq(S) /\ y \in Seq(S) /\ z \in Seq(S)
  OBVIOUS
<1> HIDE DEF S
<1> QED BY <1>1, ConcatAssociative

\* Lines that follow each other: NotEmpty of both is that of each in turn.
LEMMA NotEmptyConcat ==
  ASSUME NEW A \in Seq(Seq(Int)), NEW B \in Seq(Seq(Int))
  PROVE  NotEmpty(A \o B) = NotEmpty(A) \o NotEmpty(B)
<1> DEFINE G == {s \in Seq(Seq(Int)) : NotEmpty(A \o s) = NotEmpty(A) \o NotEmpty(s)}
<1>0. NotEmpty(A) \in Seq(Seq(Int))
  BY NotEmptyTyped
<1>1. <<>> \in G
  <2>1. A \o <<>> = A /\ NotEmpty(A) \o <<>> = NotEmpty(A)
    BY <1>0, ConcatEmptySeq
  <2> QED BY <2>1, NotEmptyNone, EmptySeq
<1>2. ASSUME NEW s \in Seq(Seq(Int)), NEW l \in Seq(Int), s \in G PROVE Append(s, l) \in G
  <2>1. NotEmpty(A \o s) = NotEmpty(A) \o NotEmpty(s)
    BY <1>2
  <2> HIDE DEF G
  <2>2. /\ A \o Append(s, l) = Append(A \o s, l) /\ A \o s \in Seq(Seq(Int))
        /\ Append(s, l) \in Seq(Seq(Int))
    BY AppendConcat, AppendProperties
  <2>3. NotEmpty(Append(A \o s, l)) = NotEmpty(A \o s) \o Kept(l)
    BY <2>2, NotEmptyNext
  <2>4. NotEmpty(Append(s, l)) = NotEmpty(s) \o Kept(l)
    BY NotEmptyNext
  <2>5. (NotEmpty(A) \o NotEmpty(s)) \o Kept(l) = NotEmpty(A) \o (NotEmpty(s) \o Kept(l))
    <3>1. NotEmpty(s) \in Seq(Seq(Int)) /\ Kept(l) \in Seq(Seq(Int))
      BY NotEmptyTyped, KeptTyped
    <3> QED BY <1>0, <3>1, Regroup, Zenon
  <2> QED BY <2>1, <2>2, <2>3, <2>4, <2>5 DEF G
<1> HIDE DEF G
<1>3. B \in G
  BY <1>1, <1>2, SeqInduct
<1> QED BY <1>3 DEF G

\* Lines of which NotEmpty keeps none.
Blank(lines_) == \A i \in DOMAIN lines_ : lines_[i] = <<>>

LEMMA BlankNext ==
  ASSUME NEW s \in Seq(Seq(Int)), NEW l \in Seq(Int)
  PROVE  Blank(Append(s, l)) <=> Blank(s) /\ l = <<>>
<1> DEFINE t == Append(s, l)
           n == Len(s)
<1>1. /\ n \in Nat /\ DOMAIN s = 1 .. n /\ DOMAIN t = 1 .. n + 1
      /\ t[n + 1] = l /\ \A i \in 1 .. n : t[i] = s[i]
  BY LenProperties, AppendProperties
<1> HIDE DEF t, n
<1>2. ASSUME NEW i PROVE i \in 1 .. n + 1 <=> i \in 1 .. n \/ i = n + 1
  BY <1>1
<1>3. Blank(t) <=> Blank(s) /\ l = <<>>
  BY <1>1, <1>2 DEF Blank
<1> QED BY <1>3 DEF t

LEMMA NotEmptyBlank ==
  ASSUME NEW lines_ \in Seq(Seq(Int)), Blank(lines_)
  PROVE  NotEmpty(lines_) = <<>>
<1> DEFINE G == {s \in Seq(Seq(Int)) : Blank(s) => NotEmpty(s) = <<>>}
<1>1. <<>> \in G
  BY NotEmptyNone, EmptySeq
<1>2. ASSUME NEW s \in Seq(Seq(Int)), NEW l \in Seq(Int), s \in G PROVE Append(s, l) \in G
  <2>1. Blank(s) => NotEmpty(s) = <<>>
    BY <1>2
  <2> HIDE DEF G
  <2>2. Append(s, l) \in Seq(Seq(Int))
    BY AppendProperties
  <2>3. ASSUME Blank(Append(s, l)) PROVE NotEmpty(Append(s, l)) = <<>>
    <3>1. Blank(s) /\ l = <<>>
      BY <2>3, BlankNext
    <3>2. NotEmpty(Append(s, l)) = NotEmpty(s) \o Kept(l)
      BY NotEmptyNext
    <3>3. NotEmpty(s) = <<>> /\ Kept(l) = <<>> /\ <<>> \o <<>> = <<>>
      BY <2>1, <3>1 DEF Kept
    <3> QED BY <3>2, <3>3
  <2> QED BY <2>2, <2>3 DEF G
<1> HIDE DEF G
<1>3. lines_ \in G
  BY <1>1, <1>2, SeqInduct
<1> QED BY <1>3 DEF G

LEMMA BlankConcat ==
  ASSUME NEW A \in Seq(Seq(Int)), NEW B \in Seq(Seq(Int)), Blank(A), Blank(B)
  PROVE  Blank(A \o B)
<1> DEFINE G == {s \in Seq(Seq(Int)) : Blank(s) => Blank(A \o s)}
<1>1. <<>> \in G
  BY ConcatEmptySeq, EmptySeq
<1>2. ASSUME NEW s \in Seq(Seq(Int)), NEW l \in Seq(Int), s \in G PROVE Append(s, l) \in G
  <2>1. Blank(s) => Blank(A \o s)
    BY <1>2
  <2> HIDE DEF G
  <2>2. /\ A \o Append(s, l) = Append(A \o s, l) /\ A \o s \in Seq(Seq(Int))
        /\ Append(s, l) \in Seq(Seq(Int))
    BY AppendConcat, AppendProperties
  <2>3. Blank(Append(s, l)) <=> Blank(s) /\ l = <<>>
    BY BlankNext
  <2>4. Blank(Append(A \o s, l)) <=> Blank(A \o s) /\ l = <<>>
    BY <2>2, BlankNext
  <2> QED BY <2>1, <2>2, <2>3, <2>4 DEF G
<1> HIDE DEF G
<1>3. B \in G
  BY <1>1, <1>2, SeqInduct
<1> QED BY <1>3 DEF G

-----------------------------------------------------------------------------
(* Lines whose cells ascend *)

\* x is a cell of one of the lines.
Holds(lines_, x) == \E i \in DOMAIN lines_ : \E a \in DOMAIN lines_[i] : lines_[i][a] = x

LEMMA NoneAscend == Ascending(<<>>) /\ \A x : ~Holds(<<>>, x)
  BY DEF Ascending, Holds

LEMMA HoldsInt ==
  ASSUME NEW A \in Seq(Seq(Int)), NEW x, Holds(A, x)
  PROVE  x \in Int
<1>1. PICK i \in DOMAIN A : \E a \in DOMAIN A[i] : A[i][a] = x
  BY DEF Holds
<1>2. A[i] \in Seq(Int)
  BY LenProperties, ElementOfSeq
<1> DEFINE l == A[i]
<1>3. l \in Seq(Int) /\ \E a \in DOMAIN l : l[a] = x
  BY <1>1, <1>2
<1> HIDE DEF l
<1> QED BY <1>3, LenProperties, ElementOfSeq

\* A cell above all those before keeps the lines ascending.
LEMMA AscendNext ==
  ASSUME NEW A \in Seq(Seq(Int)), NEW l \in Seq(Int)
  PROVE  /\ Append(A, l) \in Seq(Seq(Int))
         /\ Ascending(Append(A, l)) <=>
              /\ Ascending(A) /\ Increasing(l)
              /\ \A x : Holds(A, x) => \A a \in DOMAIN l : x < l[a]
         /\ \A x : Holds(Append(A, l), x) <=> Holds(A, x) \/ \E a \in DOMAIN l : l[a] = x
<1> DEFINE T == Append(A, l)
           n == Len(A)
<1>1. /\ n \in Nat /\ DOMAIN A = 1 .. n /\ T \in Seq(Seq(Int)) /\ DOMAIN T = 1 .. n + 1
      /\ T[n + 1] = l /\ \A i \in 1 .. n : T[i] = A[i]
  BY LenProperties, AppendProperties
<1> HIDE DEF T, n
<1>2. ASSUME NEW i PROVE i \in 1 .. n + 1 <=> i \in 1 .. n \/ i = n + 1
  BY <1>1
<1>3. ASSUME NEW x PROVE Holds(T, x) <=> Holds(A, x) \/ \E a \in DOMAIN l : l[a] = x
  BY <1>1, <1>2 DEF Holds
<1>4. ASSUME Ascending(T)
      PROVE  /\ Ascending(A) /\ Increasing(l)
             /\ \A x : Holds(A, x) => \A a \in DOMAIN l : x < l[a]
  <2>1. Ascending(A)
    <3> SUFFICES ASSUME NEW i \in 1 .. n, NEW j \in 1 .. n, NEW a \in DOMAIN A[i], NEW b \in DOMAIN A[j],
                        i < j \/ (i = j /\ a < b)
                 PROVE  A[i][a] < A[j][b]
      BY <1>1 DEF Ascending
    <3>1. i \in DOMAIN T /\ j \in DOMAIN T /\ T[i] = A[i] /\ T[j] = A[j]
      BY <1>1, <1>2
    <3> QED BY <1>4, <3>1 DEF Ascending
  <2>2. Increasing(l)
    <3>1. n + 1 \in DOMAIN T /\ T[n + 1] = l
      BY <1>1, <1>2
    <3> QED BY <1>4, <3>1 DEF Ascending, Increasing
  <2>3. ASSUME NEW i \in 1 .. n, NEW a \in DOMAIN A[i], NEW b \in DOMAIN l PROVE A[i][a] < l[b]
    <3>1. i \in DOMAIN T /\ n + 1 \in DOMAIN T /\ T[i] = A[i] /\ T[n + 1] = l /\ i < n + 1
      BY <1>1, <1>2
    <3> QED BY <1>4, <3>1 DEF Ascending
  <2> QED BY <1>1, <2>1, <2>2, <2>3 DEF Holds
<1>5. ASSUME Ascending(A), Increasing(l), \A x : Holds(A, x) => \A a \in DOMAIN l : x < l[a]
      PROVE  Ascending(T)
  <2> SUFFICES ASSUME NEW i \in 1 .. n + 1, NEW j \in 1 .. n + 1, NEW a \in DOMAIN T[i], NEW b \in DOMAIN T[j],
                      i < j \/ (i = j /\ a < b)
               PROVE  T[i][a] < T[j][b]
    BY <1>1 DEF Ascending
  <2>1. CASE i \in 1 .. n /\ j \in 1 .. n
    BY <1>1, <1>5, <2>1 DEF Ascending
  <2>2. CASE i \in 1 .. n /\ j = n + 1
    <3>1. Holds(A, T[i][a])
      BY <1>1, <2>2 DEF Holds
    <3> QED BY <1>1, <1>5, <2>2, <3>1
  <2>3. CASE i = n + 1 /\ j = n + 1
    <3>1. a < b
      BY <1>1, <2>3
    <3> QED BY <1>1, <1>5, <2>3, <3>1 DEF Increasing
  <2>4. ~(i = n + 1 /\ j \in 1 .. n)
    BY <1>1
  <2> QED BY <1>2, <2>1, <2>2, <2>3, <2>4
<1>6. /\ T \in Seq(Seq(Int))
      /\ Ascending(T) <=>
              /\ Ascending(A) /\ Increasing(l)
              /\ \A x : Holds(A, x) => \A a \in DOMAIN l : x < l[a]
      /\ \A x : Holds(T, x) <=> Holds(A, x) \/ \E a \in DOMAIN l : l[a] = x
  BY <1>1, <1>3, <1>4, <1>5
<1> QED BY <1>6 DEF T

\* So do lines whose cells are above those of the lines before.
LEMMA AscendConcat ==
  ASSUME NEW A \in Seq(Seq(Int)), NEW B \in Seq(Seq(Int))
  PROVE  /\ Ascending(A) /\ Ascending(B) /\ (\A x, y : Holds(A, x) /\ Holds(B, y) => x < y) =>
              Ascending(A \o B)
         /\ \A x : Holds(A \o B, x) <=> Holds(A, x) \/ Holds(B, x)
<1> DEFINE Below(s) == \A x, y : Holds(A, x) /\ Holds(s, y) => x < y
           G == {s \in Seq(Seq(Int)) :
                   /\ Ascending(A) /\ Ascending(s) /\ Below(s) => Ascending(A \o s)
                   /\ \A x : Holds(A \o s, x) <=> Holds(A, x) \/ Holds(s, x)}
<1>1. <<>> \in G
  BY ConcatEmptySeq, EmptySeq, NoneAscend
<1>2. ASSUME NEW s \in Seq(Seq(Int)), NEW l \in Seq(Int), s \in G PROVE Append(s, l) \in G
  <2>1. /\ Ascending(A) /\ Ascending(s) /\ Below(s) => Ascending(A \o s)
        /\ \A x : Holds(A \o s, x) <=> Holds(A, x) \/ Holds(s, x)
    BY <1>2
  <2> DEFINE u == A \o s
             t == Append(s, l)
  <2>2. /\ A \o t = Append(u, l) /\ u \in Seq(Seq(Int)) /\ t \in Seq(Seq(Int))
    BY AppendConcat, AppendProperties
  <2> HIDE DEF G, u
  <2>3. /\ Ascending(t) => Ascending(s) /\ Increasing(l) /\ \A x : Holds(s, x) => \A a \in DOMAIN l : x < l[a]
        /\ \A x : Holds(t, x) <=> Holds(s, x) \/ \E a \in DOMAIN l : l[a] = x
    BY AscendNext
  <2>4. /\ Ascending(u) /\ Increasing(l) /\ (\A x : Holds(u, x) => \A a \in DOMAIN l : x < l[a]) =>
              Ascending(Append(u, l))
        /\ \A x : Holds(Append(u, l), x) <=> Holds(u, x) \/ \E a \in DOMAIN l : l[a] = x
    BY <2>2, AscendNext
  <2> HIDE DEF t
  <2>5. \A x : Holds(A \o t, x) <=> Holds(A, x) \/ Holds(t, x)
    BY <2>1, <2>2, <2>3, <2>4 DEF u
  <2>6. ASSUME Ascending(A), Ascending(t), Below(t) PROVE Ascending(A \o t)
    <3>1. Below(s) /\ \A x : Holds(A, x) => \A a \in DOMAIN l : x < l[a]
      BY <2>3, <2>6
    <3>2. Ascending(u)
      BY <2>1, <2>3, <2>6, <3>1 DEF u
    <3>3. \A x : Holds(u, x) => \A a \in DOMAIN l : x < l[a]
      BY <2>1, <2>3, <2>6, <3>1 DEF u
    <3> QED BY <2>2, <2>3, <2>4, <2>6, <3>2, <3>3
  <2>7. t \in G
    BY <2>2, <2>5, <2>6 DEF G
  <2> QED BY <2>7 DEF t
<1> HIDE DEF G
<1>3. B \in G
  BY <1>1, <1>2, SeqInduct
<1> QED BY <1>3 DEF G

\* A part of them.
LEMMA AscendPart ==
  ASSUME NEW A, NEW B, NEW k \in Int, DOMAIN B \subseteq Int,
         \A i \in DOMAIN B : i + k \in DOMAIN A /\ B[i] = A[i + k]
  PROVE  /\ Ascending(A) => Ascending(B)
         /\ \A x : Holds(B, x) => Holds(A, x)
<1>1. ASSUME Ascending(A), NEW i \in DOMAIN B, NEW j \in DOMAIN B, NEW a \in DOMAIN B[i], NEW b \in DOMAIN B[j],
             i < j \/ (i = j /\ a < b)
      PROVE  B[i][a] < B[j][b]
  <2>1. /\ i + k \in DOMAIN A /\ B[i] = A[i + k] /\ j + k \in DOMAIN A /\ B[j] = A[j + k]
        /\ i < j => i + k < j + k
        /\ i = j => i + k = j + k
    OBVIOUS
  <2> QED BY <1>1, <2>1 DEF Ascending
<1>2. \A x : Holds(B, x) => Holds(A, x)
  BY DEF Holds
<1> QED BY <1>1, <1>2 DEF Ascending

LEMMA BlankAscend ==
  ASSUME NEW B, Blank(B)
  PROVE  Ascending(B) /\ \A x : ~Holds(B, x)
<1>1. \A i \in DOMAIN B : DOMAIN B[i] = {}
  BY DEF Blank
<1> QED BY <1>1 DEF Ascending, Holds

\* Cells that grow, but for the newlines, make lines that ascend.
Rising(cells) == \A i, j \in DOMAIN cells : i < j /\ cells[i] # NL /\ cells[j] # NL => cells[i] < cells[j]

\* Every line of some cells, the one that is not finished included.
Pieces(cells) == Append(Finished(cells), Left(cells))

\* Cells that rise make lines that ascend, of the same cells.
LEMMA ParseRises ==
  ASSUME NEW cells \in Seq(Int), Rising(cells)
  PROVE  /\ Pieces(cells) \in Seq(Seq(Int)) /\ Ascending(Pieces(cells))
         /\ \A x : Holds(Pieces(cells), x) => x # NL /\ \E i \in DOMAIN cells : cells[i] = x
<1> DEFINE Made(s) == /\ Ascending(Pieces(s))
                      /\ \A x : Holds(Pieces(s), x) => x # NL /\ \E i \in DOMAIN s : s[i] = x
           G == {s \in Seq(Int) : Rising(s) => Made(s)}
<1>1. <<>> \in G
  <2>1. Pieces(<<>>) = Append(<<>>, <<>>)
    BY ParseEmpty DEF Pieces
  <2>2. Blank(Append(<<>>, <<>>))
    <3>1. <<>> \in Seq(Seq(Int)) /\ <<>> \in Seq(Int) /\ Blank(<<>>)
      BY EmptySeq DEF Blank
    <3> QED BY <3>1, BlankNext
  <2>3. Made(<<>>)
    BY <2>1, <2>2, BlankAscend
  <2> QED BY <2>3, EmptySeq
<1>2. ASSUME NEW s \in Seq(Int), NEW c \in Int, s \in G PROVE Append(s, c) \in G
  <2> DEFINE t == Append(s, c)
             n == Len(s)
             F == Finished(s)
             R == Left(s)
  <2>0. Rising(s) => Made(s)
    BY <1>2
  <2>1. /\ n \in Nat /\ DOMAIN s = 1 .. n /\ t \in Seq(Int) /\ DOMAIN t = 1 .. n + 1
        /\ t[n + 1] = c /\ \A i \in 1 .. n : t[i] = s[i]
    BY LenProperties, AppendProperties
  <2>2. /\ F \in Seq(Seq(Int)) /\ R \in Seq(Int) /\ Pieces(s) = Append(F, R)
        /\ c = NL => Finished(t) = Append(F, R) /\ Left(t) = <<>>
        /\ c # NL => Finished(t) = F /\ Left(t) = Append(R, c)
    BY ParseStep DEF Pieces
  <2> HIDE DEF G, t, n, F, R, Made
  <2>3. ASSUME Rising(t) PROVE Made(t)
    <3>1. Rising(s)
      <4> SUFFICES ASSUME NEW i \in 1 .. n, NEW j \in 1 .. n, i < j, s[i] # NL, s[j] # NL PROVE s[i] < s[j]
        BY <2>1 DEF Rising
      <4>1. i \in 1 .. n + 1 /\ j \in 1 .. n + 1
        BY <2>1
      <4> QED BY <2>1, <2>3, <4>1 DEF Rising
    <3>2. /\ Ascending(Append(F, R))
          /\ \A x : Holds(Append(F, R), x) => x # NL /\ \E i \in DOMAIN s : s[i] = x
      BY <2>0, <2>2, <3>1 DEF Made
    <3>3. \A x : (\E i \in DOMAIN s : s[i] = x) => \E i \in DOMAIN t : t[i] = x
      <4>1. ASSUME NEW i \in 1 .. n PROVE i \in DOMAIN t /\ t[i] = s[i]
        BY <2>1
      <4> QED BY <2>1, <4>1
    <3>4. CASE c = NL
      <4> DEFINE W == Append(F, R)
      <4>1. W \in Seq(Seq(Int)) /\ Pieces(t) = Append(W, <<>>) /\ <<>> \in Seq(Int)
        BY <2>2, <3>4, AscendNext DEF Pieces
      <4>2. Ascending(W) /\ \A x : Holds(W, x) => x # NL /\ \E i \in DOMAIN s : s[i] = x
        BY <3>2
      <4> HIDE DEF W
      <4>3. Increasing(<<>>) /\ DOMAIN <<>> = {}
        BY DEF Increasing
      <4>4. /\ Ascending(Append(W, <<>>))
            /\ \A x : Holds(Append(W, <<>>), x) => Holds(W, x)
        BY <4>1, <4>2, <4>3, AscendNext
      <4> QED BY <3>3, <4>1, <4>2, <4>4 DEF Made
    <3>5. CASE c # NL
      <4> DEFINE K == Append(R, c)
                 m == Len(R)
      <4>1. Pieces(t) = Append(F, K)
        BY <2>2, <3>5 DEF Pieces
      <4>2. /\ K \in Seq(Int) /\ m \in Nat /\ DOMAIN R = 1 .. m /\ DOMAIN K = 1 .. m + 1
            /\ K[m + 1] = c /\ \A a \in 1 .. m : K[a] = R[a]
        BY <2>2, LenProperties, AppendProperties
      <4> HIDE DEF K, m
      <4>3. /\ Ascending(F) /\ Increasing(R)
            /\ \A x : Holds(F, x) => \A a \in DOMAIN R : x < R[a]
            /\ \A x : Holds(F, x) \/ (\E a \in DOMAIN R : R[a] = x) => x # NL /\ \E i \in DOMAIN s : s[i] = x
        BY <2>2, <3>2, AscendNext
      <4>4. ASSUME NEW i \in DOMAIN s, s[i] # NL PROVE s[i] < c
        <5>1. i \in 1 .. n + 1 /\ n + 1 \in 1 .. n + 1 /\ i < n + 1 /\ t[i] = s[i]
          BY <2>1
        <5> QED BY <2>1, <2>3, <3>5, <4>4, <5>1 DEF Rising
      <4>5. ASSUME NEW a PROVE a \in 1 .. m + 1 <=> a \in 1 .. m \/ a = m + 1
        BY <4>2
      <4>6. \A x : (\E a \in DOMAIN K : K[a] = x) <=> (\E a \in DOMAIN R : R[a] = x) \/ x = c
        BY <4>2, <4>5
      <4>7. \A a \in DOMAIN R : R[a] < c
        BY <4>3, <4>4
      <4>8. Increasing(K)
        <5> SUFFICES ASSUME NEW a \in 1 .. m + 1, NEW b \in 1 .. m + 1, a < b PROVE K[a] < K[b]
          BY <4>2 DEF Increasing
        <5>1. a \in 1 .. m
          BY <4>2
        <5>2. CASE b = m + 1
          BY <4>2, <4>7, <5>1, <5>2
        <5>3. CASE b \in 1 .. m
          BY <4>2, <4>3, <5>1, <5>3 DEF Increasing
        <5> QED BY <4>5, <5>2, <5>3
      <4>9. \A x : Holds(F, x) => \A a \in DOMAIN K : x < K[a]
        <5>1. ASSUME NEW x, Holds(F, x) PROVE x < c
          BY <4>3, <4>4, <5>1
        <5> QED BY <4>2, <4>3, <4>5, <5>1
      <4>10. /\ Ascending(Append(F, K))
             /\ \A x : Holds(Append(F, K), x) => Holds(F, x) \/ \E a \in DOMAIN K : K[a] = x
        <5>1. F \in Seq(Seq(Int)) /\ K \in Seq(Int) /\ Ascending(F) /\ Increasing(K)
          BY <2>2, <4>2, <4>3, <4>8
        <5> QED BY <4>9, <5>1, AscendNext
      <4>11. c # NL /\ \E i \in DOMAIN t : t[i] = c
        <5>1. n + 1 \in DOMAIN t /\ t[n + 1] = c
          BY <2>1
        <5> QED BY <3>5, <5>1
      <4> QED BY <3>3, <4>1, <4>3, <4>6, <4>10, <4>11 DEF Made
    <3> QED BY <3>4, <3>5
  <2>4. t \in G
    BY <2>1, <2>3 DEF G
  <2> QED BY <2>4 DEF t
<1> HIDE DEF G
<1>3. cells \in G
  BY <1>1, <1>2, SeqInduct
<1>4. Pieces(cells) \in Seq(Seq(Int))
  BY FinishedTyped, AscendNext DEF Pieces
<1> QED BY <1>3, <1>4 DEF G

-----------------------------------------------------------------------------
(* The last lines *)

LEMMA LastIs ==
  ASSUME NEW A \in Seq(Seq(Int)), NEW n \in Nat
  PROVE  LET L == LastLines(A, n)
             k == Len(A) - Len(L)
         IN /\ L \in Seq(Seq(Int)) /\ Len(A) \in Nat
            /\ Len(L) = IF n >= Len(A) THEN Len(A) ELSE n
            /\ k \in Int
            /\ \A i \in DOMAIN L : i + k \in DOMAIN A /\ L[i] = A[i + k]
<1> DEFINE m == Len(A)
           L == LastLines(A, n)
<1>1. m \in Nat /\ DOMAIN A = 1 .. m /\ \A i \in 1 .. m : A[i] \in Seq(Int)
  BY LenProperties, ElementOfSeq
<1>2. CASE n >= m
  <2>1. L = A
    BY <1>2 DEF LastLines
  <2> HIDE DEF L
  <2>2. \A i \in 1 .. m : i + 0 = i
    OBVIOUS
  <2>3. L \in Seq(Seq(Int)) /\ Len(L) = m /\ DOMAIN L = 1 .. m /\ m - m = 0
    BY <1>1, <2>1
  <2> QED BY <1>1, <1>2, <2>1, <2>2, <2>3 DEF L
<1>3. CASE ~(n >= m)
  <2> DEFINE a == m - n + 1
  <2>0. a \in 1 .. m + 1 /\ a \in Int /\ m \in Int /\ a <= m + 1 /\ m - a + 1 = n /\ (a <= m <=> n > 0)
    BY <1>1, <1>3
  <2>1. L = SubSeq(A, a, m)
    BY <1>3 DEF LastLines
  <2>2. \A i \in a .. m : A[i] \in Seq(Int)
    <3>1. ASSUME NEW i \in a .. m PROVE i \in 1 .. m
      BY <1>1, <1>3
    <3> QED BY <1>1, <3>1
  <2> HIDE DEF L
  <2>3. /\ L \in Seq(Seq(Int)) /\ Len(L) = (IF a <= m THEN m - a + 1 ELSE 0)
        /\ \A i \in 1 .. m - a + 1 : L[i] = A[a + i - 1]
    <3> HIDE DEF a, m
    <3>1. SubSeq(A, a, m) \in Seq(Seq(Int))
      BY <2>0, <2>2, SubSeqProperties
    <3>2. Len(SubSeq(A, a, m)) = (IF a <= m THEN m - a + 1 ELSE 0)
      BY <2>0, <2>2, SubSeqProperties
    <3>3. \A i \in 1 .. m - a + 1 : SubSeq(A, a, m)[i] = A[a + i - 1]
      BY <2>0, <2>2, SubSeqProperties
    <3> QED BY <2>1, <3>1, <3>2, <3>3
  <2>4. Len(L) = n
    BY <1>1, <1>3, <2>0, <2>3
  <2>5. ASSUME NEW i \in 1 .. n PROVE i + (m - n) \in 1 .. m /\ L[i] = A[i + (m - n)]
    <3>1. i + (m - n) \in 1 .. m /\ a + i - 1 = i + (m - n)
      BY <1>1, <1>3
    <3>2. i \in 1 .. m - a + 1
      BY <2>0
    <3> HIDE DEF a, m
    <3> QED BY <2>3, <3>1, <3>2
  <2>6. DOMAIN L = 1 .. n /\ m - n \in Int
    BY <1>1, <2>3, <2>4, LenProperties
  <2> HIDE DEF m
  <2>7. /\ L \in Seq(Seq(Int)) /\ m \in Nat /\ Len(L) = (IF n >= m THEN m ELSE n)
        /\ m - Len(L) \in Int
        /\ \A i \in DOMAIN L : i + (m - Len(L)) \in DOMAIN A /\ L[i] = A[i + (m - Len(L))]
    BY <1>1, <1>3, <2>3, <2>4, <2>5, <2>6
  <2> QED BY <2>7 DEF L, m
<1> QED BY <1>2, <1>3

\* The lines of some cells, an unfinished last one among them.
Whole(cells) == IF Left(cells) = <<>> THEN Finished(cells) ELSE Append(Finished(cells), Left(cells))

LEMMA WholeIs ==
  ASSUME NEW cells \in Seq(Int)
  PROVE  /\ Whole(cells) \in Seq(Seq(Int))
         /\ Len(Whole(cells)) = Len(Finished(cells)) + (IF Left(cells) = <<>> THEN 0 ELSE 1)
         /\ \A i \in DOMAIN Whole(cells) : i \in DOMAIN Pieces(cells) /\ Whole(cells)[i] = Pieces(cells)[i]
         /\ \A i \in 1 .. Len(Finished(cells)) : Whole(cells)[i] = Finished(cells)[i]
         /\ Left(cells) # <<>> => Whole(cells)[Len(Finished(cells)) + 1] = Left(cells)
<1> DEFINE F == Finished(cells)
           R == Left(cells)
           n == Len(F)
           T == Append(F, R)
<1>1. F \in Seq(Seq(Int)) /\ R \in Seq(Int)
  BY FinishedTyped
<1>2. Pieces(cells) = T /\ Whole(cells) = IF R = <<>> THEN F ELSE T
  BY DEF Pieces, Whole
<1> HIDE DEF F, R
<1>3. /\ n \in Nat /\ DOMAIN F = 1 .. n /\ T \in Seq(Seq(Int)) /\ Len(T) = n + 1 /\ DOMAIN T = 1 .. n + 1
      /\ T[n + 1] = R /\ \A i \in 1 .. n : T[i] = F[i]
  BY <1>1, LenProperties, AppendProperties
<1> HIDE DEF T
<1>4. \A i \in 1 .. n : i \in 1 .. n + 1
  BY <1>3
<1>5. CASE R = <<>>
  <2>1. Whole(cells) = F /\ n + 0 = n
    BY <1>2, <1>3, <1>5
  <2> QED BY <1>1, <1>2, <1>3, <1>4, <1>5, <2>1 DEF F, R
<1>6. CASE R # <<>>
  <2>1. Whole(cells) = T
    BY <1>2, <1>6
  <2> QED BY <1>1, <1>2, <1>3, <1>4, <1>6, <2>1 DEF F, R
<1> QED BY <1>5, <1>6

LEMMA SplitIs ==
  ASSUME NEW cells \in Seq(Int)
  PROVE  /\ Split(cells) = IF cells = <<NL>> THEN <<>> ELSE Whole(cells)
         /\ Split(cells) \in Seq(Seq(Int))
         /\ \A i \in DOMAIN Split(cells) : i \in DOMAIN Pieces(cells) /\ Split(cells)[i] = Pieces(cells)[i]
<1>1. Split(cells) = IF cells = <<NL>> THEN <<>> ELSE Whole(cells)
  BY DEF Split, Whole, Finished, Left
<1>2. /\ Whole(cells) \in Seq(Seq(Int))
      /\ \A i \in DOMAIN Whole(cells) : i \in DOMAIN Pieces(cells) /\ Whole(cells)[i] = Pieces(cells)[i]
  BY WholeIs
<1>3. <<>> \in Seq(Seq(Int)) /\ DOMAIN <<>> = {}
  BY EmptySeq
<1> QED BY <1>1, <1>2, <1>3

LEMMA LoneNewline == Finished(<<NL>>) = << <<>> >> /\ Left(<<NL>>) = <<>>
<1>1. <<>> \in Seq(Int) /\ NL \in Int /\ Append(<<>>, NL) = <<NL>> /\ Append(<<>>, <<>>) = << <<>> >>
  BY DEF NL
<1> HIDE DEF NL
<1>2. /\ Finished(Append(<<>>, NL)) = Append(Finished(<<>>), Left(<<>>))
      /\ Left(Append(<<>>, NL)) = <<>>
  BY <1>1, ParseStep
<1> QED BY <1>1, <1>2, ParseEmpty

\* lastLines stops when it has more newlines than it wants lines: what is before
\* shows in none of them.
LEMMA LastAgree ==
  ASSUME NEW before \in Seq(Int), NEW cells \in Seq(Int), NEW n \in Nat,
         before = <<>> \/ Newlines(cells) > n
  PROVE  NotEmpty(LastLines(Split(cells), n)) = NotEmpty(LastLines(Whole(before \o cells), n))
<1> DEFINE all == before \o cells
           P == Split(cells)
           Q == Whole(all)
<1>1. all \in Seq(Int) /\ P \in Seq(Seq(Int)) /\ Q \in Seq(Seq(Int))
  BY ConcatProperties, SplitIs, WholeIs
<1>2. CASE n = 0
  <2>1. ASSUME NEW A \in Seq(Seq(Int)) PROVE NotEmpty(LastLines(A, n)) = <<>>
    <3>1. /\ LastLines(A, n) \in Seq(Seq(Int)) /\ Len(A) \in Nat
          /\ Len(LastLines(A, n)) = IF n >= Len(A) THEN Len(A) ELSE n
      BY LastIs
    <3>2. LastLines(A, n) = <<>>
      BY <1>2, <3>1, EmptySeq
    <3> QED BY <3>2, NotEmptyNone
  <2> HIDE DEF P, Q
  <2> QED BY <1>1, <2>1 DEF P, Q
<1>3. CASE n > 0 /\ before = <<>>
  <2>1. all = cells
    BY <1>3, ConcatEmptySeq
  <2>2. CASE cells = <<NL>>
    <3>1. P = <<>> /\ Q = << <<>> >>
      BY <2>1, <2>2, LoneNewline, SplitIs DEF Whole
    <3>2. LastLines(<<>>, n) = <<>> /\ LastLines(<< <<>> >>, n) = << <<>> >>
      BY <1>3 DEF LastLines
    <3>3. << <<>> >> \in Seq(Seq(Int)) /\ Blank(<< <<>> >>)
      BY DEF Blank
    <3>4. NotEmpty(<< <<>> >>) = <<>>
      BY <3>3, NotEmptyBlank
    <3> QED BY <3>1, <3>2, <3>4, NotEmptyNone
  <2>3. CASE cells # <<NL>>
    BY <2>1, <2>3, SplitIs
  <2> QED BY <2>2, <2>3
<1>4. CASE n > 0 /\ Newlines(cells) > n
  <2> DEFINE f == Len(Finished(cells))
             m == Len(Finished(before))
             r == IF Left(cells) = <<>> THEN 0 ELSE 1
  <2>1. f \in Nat /\ f > n /\ m \in Nat /\ r \in {0, 1}
    <3>1. f = Newlines(cells) /\ f \in Nat
      BY NewlinesIs
    <3>2. m \in Nat
      BY FinishedTyped, LenProperties
    <3> QED BY <1>4, <3>1, <3>2
  <2>2. /\ Len(Finished(all)) = m + f
        /\ \A i \in 2 .. f : Finished(all)[m + i] = Finished(cells)[i]
        /\ Left(all) = Left(cells)
    BY <2>1, ParseAgrees
  <2>3. cells # <<NL>>
    <3> SUFFICES ASSUME cells = <<NL>> PROVE FALSE
      OBVIOUS
    <3>1. f = 1
      BY LoneNewline
    <3> HIDE DEF f
    <3> QED BY <1>4, <2>1, <3>1
  <2>4. P = Whole(cells)
    BY <2>3, SplitIs
  <2>5. /\ Len(P) = f + r
        /\ \A i \in 1 .. f : P[i] = Finished(cells)[i]
        /\ r = 1 => P[f + 1] = Left(cells)
    <3>1. /\ Len(Whole(cells)) = f + r
          /\ \A i \in 1 .. f : Whole(cells)[i] = Finished(cells)[i]
          /\ Left(cells) # <<>> => Whole(cells)[f + 1] = Left(cells)
      BY WholeIs, Zenon
    <3>2. r = 1 => Left(cells) # <<>>
      OBVIOUS
    <3> QED BY <2>4, <3>1, <3>2
  <2>6. /\ Len(Q) = m + f + r
        /\ \A i \in 1 .. m + f : Q[i] = Finished(all)[i]
        /\ r = 1 => Q[m + f + 1] = Left(cells)
    <3> DEFINE g == Len(Finished(all))
    <3>1. /\ Len(Q) = g + (IF Left(all) = <<>> THEN 0 ELSE 1)
          /\ \A i \in 1 .. g : Q[i] = Finished(all)[i]
          /\ Left(all) # <<>> => Q[g + 1] = Left(all)
      BY <1>1, WholeIs, Zenon
    <3>2. r = 1 => Left(cells) # <<>>
      OBVIOUS
    <3>3. g = m + f /\ Left(all) = Left(cells)
      BY <2>2
    <3>4. r = IF Left(all) = <<>> THEN 0 ELSE 1
      BY <3>3
    <3> HIDE DEF g, r, m, f, Q
    <3> QED BY <3>1, <3>2, <3>3, <3>4
  <2> DEFINE A == LastLines(P, n)
             B == LastLines(Q, n)
  <2> HIDE DEF P, Q, f, m, r
  <2>7. ASSUME NEW i \in 2 .. f + r PROVE P[i] = Q[m + i]
    <3>1. CASE i \in 2 .. f
      <4>1. i \in 1 .. f /\ m + i \in 1 .. m + f
        BY <2>1, <3>1
      <4> QED BY <2>2, <2>5, <2>6, <3>1, <4>1
    <3>2. CASE i = f + 1 /\ r = 1
      <4>1. m + i = m + f + 1
        BY <2>1, <3>2
      <4> QED BY <2>5, <2>6, <3>2, <4>1
    <3> QED BY <2>1, <3>1, <3>2
  <2>8. /\ A \in Seq(Seq(Int)) /\ Len(A) = n
        /\ \A i \in DOMAIN A : A[i] = P[i + (f + r - n)]
    <3>1. ~(n >= Len(P))
      BY <2>1, <2>5
    <3>2. /\ A \in Seq(Seq(Int)) /\ Len(A) = (IF n >= Len(P) THEN Len(P) ELSE n)
          /\ \A i \in DOMAIN A : A[i] = P[i + (Len(P) - Len(A))]
      BY <1>1, LastIs
    <3> HIDE DEF A
    <3>3. Len(A) = n
      BY <3>1, <3>2
    <3>4. Len(P) - Len(A) = f + r - n
      BY <2>1, <2>5, <3>3
    <3>5. \A i \in DOMAIN A : A[i] = P[i + (f + r - n)]
      BY <3>2, <3>4
    <3> QED BY <3>2, <3>3, <3>5
  <2>9. /\ B \in Seq(Seq(Int)) /\ Len(B) = n
        /\ \A i \in DOMAIN B : B[i] = Q[i + (m + f + r - n)]
    <3>1. ~(n >= Len(Q))
      BY <2>1, <2>6
    <3>2. /\ B \in Seq(Seq(Int)) /\ Len(B) = (IF n >= Len(Q) THEN Len(Q) ELSE n)
          /\ \A i \in DOMAIN B : B[i] = Q[i + (Len(Q) - Len(B))]
      BY <1>1, LastIs
    <3> HIDE DEF B
    <3>3. Len(B) = n
      BY <3>1, <3>2
    <3>4. Len(Q) - Len(B) = m + f + r - n
      BY <2>1, <2>6, <3>3
    <3>5. \A i \in DOMAIN B : B[i] = Q[i + (m + f + r - n)]
      BY <3>2, <3>4
    <3> QED BY <3>2, <3>3, <3>5
  <2> HIDE DEF A, B
  <2>10. DOMAIN A = 1 .. n /\ DOMAIN B = 1 .. n
    BY <2>8, <2>9, LenProperties
  <2>11. ASSUME NEW i \in 1 .. n PROVE A[i] = B[i]
    <3>1. i + (f + r - n) \in 2 .. f + r /\ m + (i + (f + r - n)) = i + (m + f + r - n)
      BY <2>1
    <3>2. P[i + (f + r - n)] = Q[m + (i + (f + r - n))]
      BY <2>7, <3>1
    <3> QED BY <2>8, <2>9, <2>10, <3>1, <3>2
  <2>12. A = B
    BY <2>8, <2>9, <2>11, SeqEqual
  <2> QED BY <2>12 DEF A, B, P, Q
<1> QED BY <1>2, <1>3, <1>4

-----------------------------------------------------------------------------
(* What was put of a file *)

\* A record as a stream shows it, and what of it is of one file.
ARecord == [path : Int, line : Seq(Int)]

LinesIn(out, p) == [i \in DOMAIN out |-> IF out[i].path = p THEN out[i].line ELSE <<>>]

LEMMA LinesInIs ==
  ASSUME NEW out \in Seq(ARecord), NEW p
  PROVE  /\ LinesIn(out, p) \in Seq(Seq(Int)) /\ Len(LinesIn(out, p)) = Len(out)
         /\ Len(out) \in Nat /\ DOMAIN out = 1 .. Len(out)
         /\ \A i \in 1 .. Len(out) : LinesIn(out, p)[i] = IF out[i].path = p THEN out[i].line ELSE <<>>
<1>1. Len(out) \in Nat /\ DOMAIN out = 1 .. Len(out) /\ \A i \in 1 .. Len(out) : out[i] \in ARecord
  BY LenProperties, ElementOfSeq
<1>2. <<>> \in Seq(Int)
  BY EmptySeq
<1>3. \A i \in 1 .. Len(out) : (IF out[i].path = p THEN out[i].line ELSE <<>>) \in Seq(Int)
  BY <1>1, <1>2 DEF ARecord
<1> DEFINE K == LinesIn(out, p)
<1>4. K = [i \in 1 .. Len(out) |-> IF out[i].path = p THEN out[i].line ELSE <<>>]
  BY <1>1 DEF LinesIn
<1> HIDE DEF K
<1>5. K \in Seq(Seq(Int)) /\ Len(K) = Len(out)
  BY <1>1, <1>3, <1>4
<1> QED BY <1>1, <1>4, <1>5 DEF K

LEMMA LinesInConcat ==
  ASSUME NEW a \in Seq(ARecord), NEW b \in Seq(ARecord), NEW p
  PROVE  LinesIn(a \o b, p) = LinesIn(a, p) \o LinesIn(b, p)
<1> DEFINE c == a \o b
           A == LinesIn(a, p)
           B == LinesIn(b, p)
           C == LinesIn(c, p)
           m == Len(a)
           n == Len(b)
<1>1. /\ m \in Nat /\ n \in Nat
      /\ A \in Seq(Seq(Int)) /\ Len(A) = m /\ B \in Seq(Seq(Int)) /\ Len(B) = n
      /\ \A i \in 1 .. m : A[i] = IF a[i].path = p THEN a[i].line ELSE <<>>
      /\ \A i \in 1 .. n : B[i] = IF b[i].path = p THEN b[i].line ELSE <<>>
  BY LinesInIs
<1>2. /\ c \in Seq(ARecord) /\ Len(c) = m + n
      /\ \A i \in 1 .. m + n : c[i] = IF i <= m THEN a[i] ELSE b[i - m]
  BY ConcatProperties
<1> HIDE DEF c
<1>3. /\ C \in Seq(Seq(Int)) /\ Len(C) = m + n
      /\ \A i \in 1 .. m + n : C[i] = IF c[i].path = p THEN c[i].line ELSE <<>>
  <2>1. /\ C \in Seq(Seq(Int)) /\ Len(C) = Len(c)
        /\ \A i \in 1 .. Len(c) : C[i] = IF c[i].path = p THEN c[i].line ELSE <<>>
    <3>1. c \in Seq(ARecord)
      BY <1>2
    <3> QED BY <3>1, LinesInIs
  <2> HIDE DEF C, m, n
  <2> QED BY <1>2, <2>1
<1> HIDE DEF A, B, C, m, n
<1>4. /\ A \o B \in Seq(Seq(Int)) /\ Len(A \o B) = m + n
      /\ \A i \in 1 .. m + n : (A \o B)[i] = IF i <= m THEN A[i] ELSE B[i - m]
  BY <1>1, ConcatProperties
<1>5. ASSUME NEW i \in 1 .. m + n PROVE C[i] = (A \o B)[i]
  <2>1. CASE i <= m
    <3>1. i \in 1 .. m
      BY <1>1, <2>1
    <3>2. c[i] = a[i] /\ (A \o B)[i] = A[i]
      BY <1>2, <1>4, <2>1
    <3>3. A[i] = IF a[i].path = p THEN a[i].line ELSE <<>>
      BY <1>1, <3>1, Zenon
    <3>4. C[i] = IF c[i].path = p THEN c[i].line ELSE <<>>
      BY <1>3, Zenon
    <3> QED BY <3>2, <3>3, <3>4
  <2>2. CASE ~(i <= m)
    <3>1. i - m \in 1 .. n
      BY <1>1, <2>2
    <3>2. c[i] = b[i - m] /\ (A \o B)[i] = B[i - m]
      BY <1>2, <1>4, <2>2
    <3>3. B[i - m] = IF b[i - m].path = p THEN b[i - m].line ELSE <<>>
      BY <1>1, <3>1, Zenon
    <3>4. C[i] = IF c[i].path = p THEN c[i].line ELSE <<>>
      BY <1>3, Zenon
    <3> QED BY <3>2, <3>3, <3>4
  <2> QED BY <2>1, <2>2
<1>6. C = A \o B
  BY <1>3, <1>4, <1>5, SeqEqual
<1> QED BY <1>6 DEF A, B, C, c

LEMMA RecordsIs ==
  ASSUME NEW q \in Int, NEW ls \in Seq(Seq(Int)), NEW p
  PROVE  /\ Records(q, ls) \in Seq(ARecord)
         /\ p = q => LinesIn(Records(q, ls), p) = ls
         /\ p # q => Blank(LinesIn(Records(q, ls), p))
<1> DEFINE n == Len(ls)
           R == Records(q, ls)
<1>1. n \in Nat /\ DOMAIN ls = 1 .. n /\ \A i \in 1 .. n : ls[i] \in Seq(Int)
  BY LenProperties, ElementOfSeq
<1>2. R = [i \in 1 .. n |-> [path |-> q, line |-> ls[i]]]
  BY <1>1 DEF Records
<1> HIDE DEF R, n
<1>3. \A i \in 1 .. n : [path |-> q, line |-> ls[i]] \in ARecord
  BY <1>1 DEF ARecord
<1>4. R \in Seq(ARecord) /\ DOMAIN R = 1 .. n /\ \A i \in 1 .. n : R[i] = [path |-> q, line |-> ls[i]]
  BY <1>1, <1>2, <1>3
<1>5. LinesIn(R, p) = [i \in 1 .. n |-> IF R[i].path = p THEN R[i].line ELSE <<>>]
  BY <1>4 DEF LinesIn
<1>6. ASSUME p = q PROVE LinesIn(R, p) = ls
  <2>1. \A i \in 1 .. n : (IF R[i].path = p THEN R[i].line ELSE <<>>) = ls[i]
    BY <1>4, <1>6
  <2>2. ls = [i \in 1 .. n |-> ls[i]]
    BY <1>1, LenProperties
  <2> QED BY <1>5, <2>1, <2>2
<1>7. ASSUME p # q PROVE Blank(LinesIn(R, p))
  BY <1>4, <1>5, <1>7 DEF Blank
<1> QED BY <1>4, <1>6, <1>7 DEF R

LEMMA HeaderIs ==
  ASSUME NEW q \in Int, NEW p
  PROVE  Header(q) \in Seq(ARecord) /\ Blank(LinesIn(Header(q), p))
<1>1. << <<>> >> \in Seq(Seq(Int)) /\ Blank(<< <<>> >>)
  BY DEF Blank
<1>2. <<>> \in Seq(ARecord) /\ Blank(LinesIn(<<>>, p))
  BY EmptySeq DEF Blank, LinesIn
<1>3. /\ Records(q, << <<>> >>) \in Seq(ARecord)
      /\ Blank(LinesIn(Records(q, << <<>> >>), p))
  BY <1>1, RecordsIs
<1> QED BY <1>2, <1>3 DEF Header

LEMMA PutOutput ==
  ASSUME NEW ls, Put(ls), mode' = mode, mode # "batch"
  PROVE  mode \in {"none", "stream"} => Output' = Output \o ls
  BY DEF Put, Output

-----------------------------------------------------------------------------
(* What has been shown of the files: the strengthening of FileTrue *)

\* Where the last lines are read, and where the files are followed.
Tailing   == {"tail", "tail read"}
Following == {"tick", "stat", "open", "read"}

FileKinds ==
    /\ Output \in Seq(ARecord)
    /\ part \in [Paths -> Seq(Int)] /\ base \in [Paths -> Int] /\ data \in Seq(Int)

\* The files are read in turn, and then followed.
Turns ==
    /\ pc \in {"start", "run"} => at = 1 /\ \A p \in Paths : base[p] = -1
    /\ pc \in Tailing => \A p \in Paths : base[p] = -1 <=> p >= at
    /\ pc \in Following => \A p \in Paths : base[p] # -1

\* Nothing is shown of a file before its last lines are.
Places ==
    /\ mixed \subseteq hurt /\ gone \subseteq hurt
    /\ \A p \in Paths : base[p] = -1 => off[p] = 0 /\ part[p] = <<>> /\ Blank(LinesOf(p))

\* lastLines has read the end of the file as it was opened.
TailData ==
    pc = "tail read" /\ at \notin mixed =>
        /\ at \notin gone
        /\ fd = Len(disk[at]) /\ pos <= size /\ size <= Len(Current(at))
        /\ \/ data = SubSeq(Current(at), pos + 1, size)
           \/ call.tail = 0 /\ pos = 0 /\ data = <<>>

\* A poll reads on from the offset, or from the beginning.
Polled ==
    pc \in {"open", "read"} =>
        /\ pos = 0 \/ pos = off[at]
        /\ at \notin hurt => pos = off[at] /\ pos <= size /\ size <= Len(Current(at))

\* The cells of a file are numbered as they are written, over all its inodes.
Later(k, i, l, j) == k < l \/ (k = l /\ i < j)

\* Cells that come later have higher numbers.
Grows(p) ==
    /\ \A k \in DOMAIN disk[p] : \A i \in DOMAIN disk[p][k] :
          disk[p][k][i] # NL => disk[p][k][i] \in 1 .. written
    /\ \A k, l \in DOMAIN disk[p] : \A i \in DOMAIN disk[p][k], j \in DOMAIN disk[p][l] :
          Later(k, i, l, j) /\ disk[p][k][i] # NL /\ disk[p][l][j] # NL => disk[p][k][i] < disk[p][l][j]

\* The lines shown of a file, and the beginning of the next.
Told(p) == Append(LinesOf(p), part[p])

\* A cell a poll of the file may still come upon.
ToRead(p, k, j) ==
    \/ k = Len(disk[p]) /\ (j > off[p] \/ off[p] > Len(Current(p)))
    \/ at = p /\ pc = "open" /\ k = Len(disk[p]) /\ j > pos
    \/ at = p /\ pc = "read" /\ Later(fd, pos, k, j)

\* The cells of a file that are still to be read.
Unread(p) ==
    {c \in Int : \E k \in DOMAIN disk[p] : \E j \in DOMAIN disk[p][k] :
        c = disk[p][k][j] /\ c # NL /\ ToRead(p, k, j)}

\* A file that was not truncated or rotated while its last lines were read: what
\* was shown of it, and what is left over, ascends and is older than all that is
\* still to be read.
Sorted(p) ==
    /\ Ascending(Told(p))
    /\ \A x : Holds(Told(p), x) => x \in 1 .. written /\ \A c \in Unread(p) : x < c

\* A file that was only appended to: what was shown, and what is left over, is
\* what the last lines and the cells since then make.
Exact(p) ==
    /\ Len(disk[p]) = 1 /\ off[p] <= Len(Current(p))
    /\ base[p] # -1 =>
        /\ base[p] \in 0 .. off[p] /\ Emitted(p) = Promised(p)
        /\ part[p] = Left(SubSeq(Current(p), base[p] + 1, off[p]))

\* The invariant of an invocation that reads files.
FileInv ==
    Chosen =>
        /\ FileKinds /\ Turns /\ Places /\ TailData /\ Polled
        /\ \A p \in Paths : Grows(p)
        /\ \A p \in Paths \ mixed : Sorted(p)
        /\ \A p \in Paths \ hurt : Exact(p)

\* FileInv is strong enough, holds at first, and is given as parts.
LEMMA FileShown == FileInv => FileTrue
<1> SUFFICES ASSUME FileInv, Chosen, NEW p \in Paths
             PROVE  /\ p \notin hurt /\ base[p] >= 0 => Emitted(p) = Promised(p)
                    /\ p \notin mixed => Ascending(LinesOf(p))
  BY DEF FileTrue
<1>1. /\ FileKinds
      /\ p \notin mixed => Sorted(p)
      /\ p \notin hurt => Exact(p)
  BY DEF FileInv
<1>2. ASSUME p \notin hurt, base[p] >= 0 PROVE Emitted(p) = Promised(p)
  <2>1. base[p] # -1
    BY <1>2
  <2> QED BY <1>1, <1>2, <2>1 DEF Exact
<1>3. ASSUME p \notin mixed PROVE Ascending(LinesOf(p))
  <2>1. LinesOf(p) \in Seq(Seq(Int)) /\ part[p] \in Seq(Int)
    BY <1>1, LinesInIs DEF FileKinds, LinesOf, LinesIn
  <2> QED BY <1>1, <1>3, <2>1, AscendNext DEF Sorted, Told
<1> QED BY <1>2, <1>3

LEMMA FileInit_Inv == Init => FileInv
<1> SUFFICES ASSUME Init PROVE FileInv
  OBVIOUS
<1>1. /\ disk = [p \in Paths |-> << <<>> >>] /\ gone = {} /\ written = 0 /\ at = 1 /\ data = <<>>
      /\ off = [p \in Paths |-> 0] /\ part = [p \in Paths |-> <<>>]
      /\ base = [p \in Paths |-> -1] /\ hurt = {} /\ mixed = {}
      /\ pc = "start" /\ mode = "none" /\ held = <<>>
  BY DEF Init, FileInit, RunInit
<1>2. Output = <<>> /\ <<>> \in Seq(ARecord) /\ <<>> \in Seq(Int) /\ -1 \in Int
  BY <1>1, EmptySeq DEF Output
<1>3. FileKinds
  BY <1>1, <1>2 DEF FileKinds
<1>4. \A p \in Paths : Blank(LinesOf(p))
  BY <1>2 DEF Blank, LinesOf
<1>5. Turns /\ Places /\ TailData /\ Polled
  BY <1>1, <1>4 DEF Turns, Places, TailData, Polled, Tailing, Following
<1>6. ASSUME NEW p \in Paths
      PROVE  /\ Len(disk[p]) = 1 /\ DOMAIN disk[p] = {1} /\ disk[p][1] = <<>> /\ Current(p) = <<>>
             /\ DOMAIN disk[p][1] = {}
  <2>1. disk[p] = << <<>> >>
    BY <1>1
  <2> QED BY <2>1 DEF Current
<1>7. ASSUME NEW p \in Paths PROVE Grows(p)
  BY <1>6 DEF Grows
<1>8. ASSUME NEW p \in Paths PROVE Sorted(p)
  <2>1. LinesOf(p) = <<>> /\ part[p] = <<>>
    BY <1>1, <1>2 DEF LinesOf
  <2>2. <<>> \in Seq(Seq(Int)) /\ <<>> \in Seq(Int) /\ Blank(<<>>)
    BY EmptySeq DEF Blank
  <2>3. Blank(Told(p))
    BY <2>1, <2>2, BlankNext DEF Told
  <2> QED BY <2>3, BlankAscend DEF Sorted
<1>9. ASSUME NEW p \in Paths PROVE Exact(p)
  BY <1>1, <1>6 DEF Exact
<1> QED BY <1>3, <1>5, <1>7, <1>8, <1>9 DEF FileInv

-----------------------------------------------------------------------------
(* The steps of the reader that show nothing *)

LEMMA LinesTyped ==
  ASSUME FileKinds, NEW p \in Paths
  PROVE  /\ LinesOf(p) \in Seq(Seq(Int)) /\ part[p] \in Seq(Int) /\ base[p] \in Int
         /\ LinesOf(p) = LinesIn(Output, p)
<1>1. LinesOf(p) = LinesIn(Output, p)
  BY DEF LinesOf, LinesIn
<1> QED BY <1>1, LinesInIs DEF FileKinds

\* What is sorted stays sorted when nothing is told that was not, and nothing is
\* to be read that was not but for what is written anew.
LEMMA SortedKeeps ==
  ASSUME NEW p, Sorted(p), written \in Nat, written' \in Nat, written <= written',
         Ascending(Told(p)'),
         \A x : Holds(Told(p)', x) => Holds(Told(p), x),
         \A c \in Unread(p)' : c \in Unread(p) \/ c > written
  PROVE  Sorted(p)'
<1>1. ASSUME NEW x, Holds(Told(p)', x) PROVE x \in 1 .. written' /\ \A c \in Unread(p)' : x < c
  <2>1. x \in 1 .. written /\ \A c \in Unread(p) : x < c
    BY <1>1 DEF Sorted
  <2>2. ASSUME NEW c \in Unread(p)' PROVE c \in Int
    BY DEF Unread
  <2>3. ASSUME NEW c \in Unread(p)' PROVE x < c
    BY <2>1, <2>2
  <2> QED BY <2>1, <2>3
<1> QED BY <1>1 DEF Sorted

LEMMA TellsBlank ==
  ASSUME NEW A \in Seq(Seq(Int)), NEW B \in Seq(Seq(Int)), NEW r \in Seq(Int), NEW s \in {r, <<>>},
         Blank(B), Ascending(Append(A, r))
  PROVE  /\ Ascending(Append(A \o B, s))
         /\ \A x : Holds(Append(A \o B, s), x) => Holds(Append(A, r), x)
<1> DEFINE C == A \o B
<1>1. /\ Ascending(A) /\ Increasing(r) /\ \A x : Holds(A, x) => \A a \in DOMAIN r : x < r[a]
      /\ \A x : Holds(Append(A, r), x) <=> Holds(A, x) \/ \E a \in DOMAIN r : r[a] = x
  BY AscendNext
<1>2. Ascending(B) /\ \A x : ~Holds(B, x)
  BY BlankAscend
<1>3. Ascending(C) /\ \A x : Holds(C, x) <=> Holds(A, x)
  BY <1>1, <1>2, AscendConcat
<1>4. C \in Seq(Seq(Int))
  BY ConcatProperties
<1> HIDE DEF C
<1>5. s \in Seq(Int) /\ Increasing(s) /\ (s = <<>> \/ s = r)
  <2>1. s = <<>> \/ s = r
    OBVIOUS
  <2>2. <<>> \in Seq(Int) /\ Increasing(<<>>)
    BY EmptySeq DEF Increasing
  <2> QED BY <1>1, <2>1, <2>2
<1>6. \A x : Holds(C, x) => \A a \in DOMAIN s : x < s[a]
  BY <1>1, <1>3, <1>5
<1>7. Ascending(Append(C, s)) /\ \A x : Holds(Append(C, s), x) => Holds(C, x) \/ \E a \in DOMAIN s : s[a] = x
  BY <1>3, <1>4, <1>5, <1>6, AscendNext
<1>8. \A x : Holds(Append(C, s), x) => Holds(Append(A, r), x)
  BY <1>1, <1>3, <1>5, <1>7
<1> QED BY <1>7, <1>8 DEF C

\* A step that puts lines: what it adds to those of each file.
LEMMA Puts ==
  ASSUME FileKinds, NEW ls \in Seq(ARecord), Output' = Output \o ls, NEW p \in Paths
  PROVE  /\ Output' \in Seq(ARecord)
         /\ LinesOf(p)' = LinesOf(p) \o LinesIn(ls, p) /\ LinesIn(ls, p) \in Seq(Seq(Int))
         /\ LinesOf(p)' \in Seq(Seq(Int))
         /\ Emitted(p)' = Emitted(p) \o NotEmpty(LinesIn(ls, p))
         /\ Emitted(p) \in Seq(Seq(Int))
<1>1. Output \in Seq(ARecord) /\ LinesOf(p) = LinesIn(Output, p) /\ LinesOf(p) \in Seq(Seq(Int))
  BY LinesTyped DEF FileKinds
<1>2. Output' \in Seq(ARecord)
  BY <1>1, ConcatProperties
<1>3. LinesOf(p)' = LinesIn(Output', p)
  BY DEF LinesOf, LinesIn
<1>4. LinesOf(p)' = LinesOf(p) \o LinesIn(ls, p)
  BY <1>1, <1>3, LinesInConcat, SMTT(30)
<1>5. LinesIn(ls, p) \in Seq(Seq(Int))
  BY LinesInIs
<1>6. LinesOf(p)' \in Seq(Seq(Int))
  BY <1>1, <1>4, <1>5, ConcatProperties
<1>7. Emitted(p)' = NotEmpty(LinesOf(p)') /\ Emitted(p) = NotEmpty(LinesOf(p))
  BY DEF Emitted
<1>8. Emitted(p)' = Emitted(p) \o NotEmpty(LinesIn(ls, p))
  BY <1>1, <1>4, <1>5, <1>7, NotEmptyConcat
<1> QED BY <1>1, <1>2, <1>4, <1>5, <1>6, <1>7, <1>8, NotEmptyTyped

\* A step that leaves the files and their offsets alone, and shows nothing of
\* them but headers.
LEMMA ReaderInv ==
  ASSUME FileInv, FileTyped, Chosen, call' = call, UNCHANGED <<writer, off, base, hurt, mixed>>,
         NEW ls \in Seq(ARecord), Output' = Output \o ls, \A p : Blank(LinesIn(ls, p)),
         data' \in Seq(Int),
         part' = part \/ (at \in hurt /\ part' = [part EXCEPT ![at] = <<>>]),
         \A p, k, j : j \in Nat /\ p \in Paths /\ k \in DOMAIN disk[p] /\ ToRead(p, k, j)' => ToRead(p, k, j),
         Turns', TailData', Polled'
  PROVE  FileInv'
<1>1. UNCHANGED <<files, disk, gone, written>>
  BY DEF writer
<1>2. Paths' = Paths /\ Chosen' /\ \A p : Current(p)' = Current(p)
  BY <1>1 DEF Paths, Chosen, Current
<1>3. /\ FileKinds /\ Places
      /\ \A p \in Paths : Grows(p)
      /\ \A p \in Paths \ mixed : Sorted(p)
      /\ \A p \in Paths \ hurt : Exact(p)
  BY DEF FileInv
<1>4. ASSUME NEW p \in Paths
      PROVE  part'[p] \in {part[p], <<>>} /\ part'[p] \in Seq(Int) /\ (p \notin hurt => part'[p] = part[p])
             /\ (part[p] = <<>> => part'[p] = <<>>)
  BY <1>3, EmptySeq DEF FileKinds
<1>5. FileKinds'
  <2>1. Output' \in Seq(ARecord)
    BY <1>3, ConcatProperties DEF FileKinds
  <2>2. part' \in [Paths -> Seq(Int)]
    BY <1>3, EmptySeq DEF FileKinds
  <2>3. base' \in [Paths -> Int]
    BY <1>3 DEF FileKinds
  <2> QED BY <1>2, <2>1, <2>2, <2>3 DEF FileKinds
<1>6. ASSUME NEW p \in Paths
      PROVE  /\ LinesOf(p) \in Seq(Seq(Int)) /\ part[p] \in Seq(Int)
             /\ LinesOf(p)' = LinesOf(p) \o LinesIn(ls, p) /\ LinesIn(ls, p) \in Seq(Seq(Int))
             /\ Emitted(p)' = Emitted(p)
  <2>1. LinesOf(p) \in Seq(Seq(Int)) /\ part[p] \in Seq(Int)
    BY <1>3, LinesTyped
  <2>2. /\ LinesOf(p)' = LinesOf(p) \o LinesIn(ls, p) /\ LinesIn(ls, p) \in Seq(Seq(Int))
        /\ Emitted(p)' = Emitted(p) \o NotEmpty(LinesIn(ls, p)) /\ Emitted(p) \in Seq(Seq(Int))
    BY <1>3, Puts
  <2>3. NotEmpty(LinesIn(ls, p)) = <<>>
    BY <2>2, NotEmptyBlank
  <2> QED BY <2>1, <2>2, <2>3, ConcatEmptySeq
<1>7. Places'
  <2>1. ASSUME NEW p \in Paths, base[p] = -1 PROVE off[p] = 0 /\ part'[p] = <<>> /\ Blank(LinesOf(p)')
    <3>1. off[p] = 0 /\ part[p] = <<>> /\ Blank(LinesOf(p))
      BY <1>3, <2>1 DEF Places
    <3> QED BY <1>4, <1>6, <3>1, BlankConcat
  <2> QED BY <1>1, <1>2, <1>3, <2>1 DEF Places
<1>8. ASSUME NEW p \in Paths PROVE Grows(p)'
  BY <1>1, <1>3 DEF Grows
<1>9. ASSUME NEW p \in Paths \ mixed PROVE Sorted(p)'
  <2>1. Sorted(p) /\ Ascending(Told(p))
    BY <1>3 DEF Sorted
  <2>2. Told(p) = Append(LinesOf(p), part[p]) /\ Told(p)' = Append(LinesOf(p)', part'[p])
    BY DEF Told
  <2>3. /\ Ascending(Told(p)')
        /\ \A x : Holds(Told(p)', x) => Holds(Told(p), x)
    <3> DEFINE A == LinesOf(p)
               B == LinesIn(ls, p)
               b == part[p]
               s == part'[p]
    <3>1. /\ A \in Seq(Seq(Int)) /\ B \in Seq(Seq(Int)) /\ b \in Seq(Int) /\ s \in {b, <<>>}
          /\ Blank(B) /\ Ascending(Append(A, b))
          /\ Told(p) = Append(A, b) /\ Told(p)' = Append(A \o B, s)
      BY <1>4, <1>6, <2>1, <2>2
    <3> HIDE DEF A, B, b, s
    <3>2. /\ Ascending(Append(A \o B, s))
          /\ \A x : Holds(Append(A \o B, s), x) => Holds(Append(A, b), x)
      BY <3>1, TellsBlank
    <3> QED BY <3>1, <3>2
  <2>4. ASSUME NEW c \in Unread(p)' PROVE c \in Unread(p)
    <3>1. disk[p] \in Seq(Seq(Int)) /\ DOMAIN disk[p] = 1 .. Len(disk[p])
      BY CurrentTyped, LenProperties
    <3>2. PICK k \in DOMAIN disk[p] : \E j \in DOMAIN disk[p][k] :
             c = disk[p][k][j] /\ c # NL /\ ToRead(p, k, j)'
      BY <1>1 DEF Unread
    <3>3. PICK j \in DOMAIN disk[p][k] : c = disk[p][k][j] /\ c # NL /\ ToRead(p, k, j)'
      BY <3>2
    <3>4. disk[p][k] \in Seq(Int)
      BY <3>1, ElementOfSeq
    <3>5. j \in Nat /\ c \in Int
      BY <3>3, <3>4, LenProperties, ElementOfSeq
    <3> QED BY <3>3, <3>5 DEF Unread
  <2>5. written \in Nat /\ written' = written
    <3>1. written \in 0 .. MaxWrites
      BY DEF FileTyped
    <3> QED BY <1>1, <3>1
  <2> QED BY <2>1, <2>3, <2>4, <2>5, SortedKeeps
<1>10. ASSUME NEW p \in Paths \ hurt PROVE Exact(p)'
  <2>1. Exact(p) /\ part'[p] = part[p]
    BY <1>3, <1>4
  <2>2. Promised(p)' = Promised(p)
    BY <1>2 DEF Promised
  <2> QED BY <1>1, <1>2, <1>6, <2>1, <2>2 DEF Exact
<1> QED BY <1>1, <1>2, <1>5, <1>7, <1>8, <1>9, <1>10 DEF FileInv

LEMMA PutsNothing ==
  ASSUME FileKinds
  PROVE  /\ <<>> \in Seq(ARecord) /\ Output = Output \o <<>>
         /\ \A p : Blank(LinesIn(<<>>, p))
<1>1. Output \in Seq(ARecord)
  BY DEF FileKinds
<1>2. Output \o <<>> = Output
  BY <1>1, ConcatEmptySeq
<1> QED BY <1>2, EmptySeq DEF Blank, LinesIn

LEMMA FileInvParts ==
  ASSUME FileInv, Chosen
  PROVE  FileKinds /\ Turns /\ Places /\ TailData /\ Polled
  BY DEF FileInv

\* The files are left alone, and the invocation goes on.
LEMMA FilesRest ==
  ASSUME FileInv, FileTyped, Chosen, call' = call, UNCHANGED filevars,
         NEW ls \in Seq(ARecord), Output' = Output \o ls, \A p : Blank(LinesIn(ls, p)),
         \/ pc' \in {pc, "return", "audit", "exited"}
         \/ pc = "start" /\ pc' = "run"
         \/ pc = "run" /\ pc' = "tail"
         \/ pc = "tail" /\ at \notin Paths /\ pc' = "tick"
  PROVE  FileInv'
<1>1. /\ UNCHANGED <<writer, files, disk, gone, at, fd, size, pos, data, off, part, base, hurt, mixed>>
  BY DEF filevars, writer, reader, watch
<1>2. Paths' = Paths /\ \A p : Current(p)' = Current(p)
  BY <1>1 DEF Paths, Current
<1>3. FileKinds /\ Turns /\ Places /\ TailData /\ Polled
  BY FileInvParts
<1>4. pc' = pc \/ pc' \in {"return", "audit", "exited", "run", "tail", "tick"}
  OBVIOUS
<1>5. ASSUME NEW p, NEW k, NEW j, ToRead(p, k, j)' PROVE ToRead(p, k, j)
  BY <1>1, <1>2, <1>4, <1>5 DEF ToRead
<1>6. TailData' /\ Polled'
  BY <1>1, <1>2, <1>3, <1>4 DEF TailData, Polled
<1>7. Turns'
  <2>1. CASE pc' \in {pc, "return", "audit", "exited"}
    BY <1>1, <1>2, <1>3, <2>1 DEF Turns, Tailing, Following
  <2>2. CASE pc = "start" /\ pc' = "run"
    BY <1>1, <1>2, <1>3, <2>2 DEF Turns, Tailing, Following
  <2>3. CASE pc = "run" /\ pc' = "tail"
    <3>1. \A p \in Paths : p >= 1
      BY DEF Paths
    <3> QED BY <1>1, <1>2, <1>3, <2>3, <3>1 DEF Turns, Tailing, Following
  <2>4. CASE pc = "tail" /\ at \notin Paths /\ pc' = "tick"
    <3>1. ASSUME NEW p \in Paths PROVE ~(p >= at)
      <4>1. at \in 1 .. files + 1 /\ files \in 1 .. MaxFiles /\ at \notin 1 .. files /\ p \in 1 .. files
        BY <2>4 DEF FileTyped, Paths
      <4> QED BY <4>1, FileBounds
    <3> QED BY <1>1, <1>2, <1>3, <2>4, <3>1 DEF Turns, Tailing, Following
  <2> QED BY <2>1, <2>2, <2>3, <2>4
<1>8. data' \in Seq(Int)
  BY <1>1, <1>3 DEF FileKinds
<1>9. UNCHANGED <<writer, off, base, hurt, mixed>> /\ part' = part
  BY <1>1
<1> QED BY <1>5, <1>6, <1>7, <1>8, <1>9, ReaderInv

\* The same, with nothing shown.
LEMMA FilesStill ==
  ASSUME FileInv, FileTyped, Chosen, call' = call, UNCHANGED filevars, Output' = Output,
         \/ pc' \in {pc, "return", "audit", "exited"}
         \/ pc = "start" /\ pc' = "run"
         \/ pc = "run" /\ pc' = "tail"
         \/ pc = "tail" /\ at \notin Paths /\ pc' = "tick"
  PROVE  FileInv'
<1>1. FileKinds
  BY FileInvParts
<1>2. <<>> \in Seq(ARecord) /\ Output' = Output \o <<>> /\ \A p : Blank(LinesIn(<<>>, p))
  BY <1>1, PutsNothing
<1> DEFINE none == <<>>
<1>3. none \in Seq(ARecord) /\ Output' = Output \o none /\ \A p : Blank(LinesIn(none, p))
  BY <1>2
<1> HIDE DEF none
<1> QED BY <1>3, FilesRest

\* The steps of the run loop show nothing of a file.
LEMMA RunInv ==
  ASSUME FileInv, FileTyped, Chosen,
         Step \/ BadRequest \/ Panics \/ Cancel, UNCHANGED filevars
  PROVE  FileInv'
<1>1. call' = call /\ UNCHANGED <<mode, held, shown>>
  BY DEF Step, EarlyErr, Targets, Dispatch, Finalize, Finish, BadRequest, Panics, Cancel, Refuse,
     Return, output, verdict
<1>2. Output' = Output
  BY <1>1 DEF Output
<1>3. \/ pc' \in {pc, "return", "audit", "exited"}
      \/ pc = "start" /\ pc' = "run"
  BY DEF Step, EarlyErr, Targets, Dispatch, Finalize, Finish, BadRequest, Panics, Cancel, Refuse, Return
<1> QED BY <1>1, <1>2, <1>3, FilesStill

\* To open a file, to fail on it, to go on to the next and to wait.
LEMMA TurnsInv ==
  ASSUME FileInv, FileTyped, VerdictInv, OutTyped, Chosen,
         Open \/ TailFails \/ TailDone \/ StopFollow \/ Tick
  PROVE  FileInv'
<1>0. FileKinds /\ Turns /\ Places /\ TailData /\ Polled
  BY FileInvParts
<1>1. CASE Open
  <2>1. /\ call' = call /\ pc = "run" /\ pc' = "tail" /\ UNCHANGED filevars
        /\ UNCHANGED <<held, shown>>
    BY <1>1 DEF Open, Asked
  <2>2. held = <<>> /\ shown = <<>>
    BY <2>1 DEF OutTyped
  <2>3. Output' = Output
    BY <2>1, <2>2 DEF Output
  <2> QED BY <2>1, <2>3, FilesStill
<1>2. CASE TailFails
  <2>1. call' = call /\ pc' = "return" /\ UNCHANGED <<filevars, mode>>
    BY <1>2 DEF TailFails, Return
  <2>2. CASE pc = "tail" /\ at \in Paths /\ Put(Header(at))
    <3>1. mode \in {"none", "stream"}
      BY <2>2 DEF VerdictInv, Busy
    <3>2. Output' = Output \o Header(at)
      BY <2>1, <2>2, <3>1, PutOutput
    <3>3. at \in Int
      BY <2>2 DEF Paths
    <3>4. Header(at) \in Seq(ARecord) /\ \A p : Blank(LinesIn(Header(at), p))
      BY <3>3, HeaderIs
    <3> QED BY <2>1, <3>2, <3>4, FilesRest
  <2>3. CASE UNCHANGED <<held, shown>>
    <3>1. Output' = Output
      BY <2>1, <2>3 DEF Output
    <3> QED BY <2>1, <3>1, FilesStill
  <2> QED BY <1>2, <2>2, <2>3 DEF TailFails
<1>3. CASE TailDone
  <2>1. call' = call /\ pc = "tail" /\ at \notin Paths /\ UNCHANGED <<filevars, held>>
    BY <1>3 DEF TailDone, Produced, Return
  <2>2. mode \in {"none", "stream"}
    BY <2>1 DEF VerdictInv, Busy
  <2>3. pc' \in {"tick", "return"}
    BY <1>3 DEF TailDone, Produced, Return
  <2>4. Output' = Output
    BY <1>3, <2>1, <2>2 DEF TailDone, Produced, Batch, output, Output
  <2> QED BY <2>1, <2>3, <2>4, FilesStill
<1>4. CASE StopFollow
  <2>1. call' = call /\ pc' = "return" /\ UNCHANGED <<filevars, mode, held, shown>>
    BY <1>4 DEF StopFollow, Refuse, Return, output
  <2>2. Output' = Output
    BY <2>1 DEF Output
  <2> QED BY <2>1, <2>2, FilesStill
<1>5. CASE Tick
  <2>1. /\ call' = call /\ pc = "tick" /\ pc' = "stat" /\ at' = 1 /\ UNCHANGED <<mode, held, shown>>
        /\ UNCHANGED <<writer, off, base, hurt, mixed>> /\ data' = data /\ part' = part
        /\ disk' = disk /\ files' = files /\ pos' = pos
    BY <1>5 DEF Tick, output, writer, watch
  <2>2. Paths' = Paths /\ \A p : Current(p)' = Current(p)
    BY <2>1 DEF Paths, Current
  <2>3. \A p, k, j : ToRead(p, k, j)' => ToRead(p, k, j)
    BY <2>1, <2>2 DEF ToRead
  <2>4. Turns' /\ TailData' /\ Polled'
    BY <1>0, <2>1, <2>2 DEF Turns, TailData, Polled, Tailing, Following
  <2>5. Output' = Output \o <<>> /\ <<>> \in Seq(ARecord) /\ \A p : Blank(LinesIn(<<>>, p))
    BY <1>0, <2>1, PutsNothing DEF Output
  <2>6. data' \in Seq(Int)
    BY <1>0, <2>1 DEF FileKinds
  <2> DEFINE none == <<>>
  <2>7. none \in Seq(ARecord) /\ Output' = Output \o none /\ \A p : Blank(LinesIn(none, p))
    BY <2>5
  <2> HIDE DEF none
  <2> QED BY <2>1, <2>3, <2>4, <2>6, <2>7, ReaderInv
<1> QED BY <1>1, <1>2, <1>3, <1>4, <1>5

\* To look at a file and to open it, from the offset or from the beginning.
LEMMA FollowsInv ==
  ASSUME FileInv, FileTyped, Chosen, Transient \/ Stat \/ PumpOpen
  PROVE  FileInv'
<1>0. FileKinds /\ Turns /\ Places /\ TailData /\ Polled
  BY FileInvParts
<1>1. /\ call' = call /\ pc \in {"stat", "open", "read"} /\ UNCHANGED <<mode, held, shown>>
      /\ UNCHANGED <<writer, off, base, hurt, mixed>> /\ data' = data
      /\ UNCHANGED <<files, disk, gone, written>>
  BY DEF Transient, Stat, PumpOpen, output, writer, watch
<1>2. Paths' = Paths /\ \A p : Current(p)' = Current(p)
  BY <1>1 DEF Paths, Current
<1>3. Output' = Output \o <<>> /\ <<>> \in Seq(ARecord) /\ \A p : Blank(LinesIn(<<>>, p))
  BY <1>0, <1>1, PutsNothing DEF Output
<1>4. data' \in Seq(Int)
  BY <1>0, <1>1 DEF FileKinds
<1> DEFINE none == <<>>
<1>5. none \in Seq(ARecord) /\ Output' = Output \o none /\ \A p : Blank(LinesIn(none, p))
  BY <1>3
<1> HIDE DEF none
<1>6. at \in Paths
  BY <1>1 DEF FileTyped
<1>7. ASSUME pc' \in Following PROVE Turns' /\ TailData'
  BY <1>0, <1>1, <1>2, <1>7 DEF Turns, TailData, Tailing, Following
<1>8. CASE Transient
  <2>1. pc' \in {"tick", "stat"} /\ part' = part
    BY <1>8 DEF Transient, Onward
  <2>2. \A p, k, j : ToRead(p, k, j)' => ToRead(p, k, j)
    BY <1>1, <1>2, <2>1 DEF ToRead
  <2>3. Turns' /\ TailData' /\ Polled'
    BY <1>7, <2>1 DEF Polled, Following
  <2> QED BY <1>1, <1>4, <1>5, <2>1, <2>2, <2>3, ReaderInv
<1>9. CASE Stat
  <2>1. /\ size' = Len(Current(at))
        /\ pos' = IF size' < off[at] THEN 0 ELSE off[at]
        /\ part' = IF size' < off[at] THEN [part EXCEPT ![at] = <<>>] ELSE part
        /\ pc' \in {"tick", "stat"} \/ (pc' = "open" /\ at' = at)
    BY <1>9 DEF Stat, Onward
  <2>2. size' \in Nat /\ off[at] \in Nat
    <3>1. off[at] \in 0 .. MaxWrites
      BY <1>6 DEF FileTyped
    <3> QED BY <1>6, <2>1, <3>1, CurrentTyped
  <2>3. at \notin hurt => off[at] <= size'
    BY <1>6, <2>1 DEF FileInv, Exact
  <2>4. part' = part \/ (at \in hurt /\ part' = [part EXCEPT ![at] = <<>>])
    BY <2>1, <2>2, <2>3
  <2>5. ASSUME NEW p, NEW k, NEW j \in Nat, ToRead(p, k, j)' PROVE ToRead(p, k, j)
    <3>1. CASE k = Len(disk[p]) /\ (j > off[p] \/ off[p] > Len(Current(p)))
      BY <3>1 DEF ToRead
    <3>2. CASE at = p /\ k = Len(disk[p]) /\ j > pos'
      <4>1. CASE size' < off[at]
        <5>1. off[p] > Len(Current(p))
          BY <2>1, <2>2, <3>2, <4>1
        <5> QED BY <3>2, <5>1 DEF ToRead
      <4>2. CASE ~(size' < off[at])
        BY <2>1, <3>2, <4>2 DEF ToRead
      <4> QED BY <4>1, <4>2
    <3> QED BY <1>1, <1>2, <2>1, <2>5, <3>1, <3>2 DEF ToRead
  <2>6. Polled'
    BY <1>1, <1>2, <2>1, <2>2, <2>3 DEF Polled
  <2>7. Turns' /\ TailData'
    BY <1>7, <2>1 DEF Following
  <2> QED BY <1>1, <1>4, <1>5, <2>4, <2>5, <2>6, <2>7, ReaderInv
<1>10. CASE PumpOpen
  <2>1. pc = "open" /\ pc' = "read" /\ fd' = Len(disk[at]) /\ at' = at /\ pos' = pos /\ size' = size /\ part' = part
    BY <1>10 DEF PumpOpen
  <2>2. ASSUME NEW p \in Paths, NEW k \in DOMAIN disk[p], NEW j, ToRead(p, k, j)' PROVE ToRead(p, k, j)
    <3>1. Len(disk[p]) \in Nat /\ DOMAIN disk[p] = 1 .. Len(disk[p])
      BY CurrentTyped, LenProperties
    <3>2. ~(Len(disk[p]) < k)
      BY <3>1
    <3>3. at = p /\ Later(fd', pos, k, j) => k = Len(disk[p]) /\ j > pos
      BY <2>1, <3>2 DEF Later
    <3> QED BY <1>1, <1>2, <2>1, <2>2, <3>3 DEF ToRead
  <2>3. Polled'
    BY <1>0, <1>1, <1>2, <2>1 DEF Polled
  <2>4. Turns' /\ TailData'
    BY <1>7, <2>1 DEF Following
  <2>5. \A p, k, j : j \in Nat /\ p \in Paths /\ k \in DOMAIN disk[p] /\ ToRead(p, k, j)' => ToRead(p, k, j)
    BY <2>2
  <2> QED BY <1>1, <1>4, <1>5, <2>1, <2>3, <2>4, <2>5, ReaderInv
<1> QED BY <1>8, <1>9, <1>10

\* To open a file for its last lines.
LEMMA TailOpenInv ==
  ASSUME FileInv, FileTyped, VerdictInv, Chosen, TailOpen
  PROVE  FileInv'
<1>0. FileKinds /\ Turns /\ Places /\ TailData /\ Polled
  BY FileInvParts
<1>1. /\ call' = call /\ pc = "tail" /\ pc' = "tail read" /\ at \in Paths \ gone /\ at' = at
      /\ Put(Header(at)) /\ mode' = mode
      /\ fd' = Len(disk[at]) /\ size' = Len(Current(at))
      /\ pos' = (IF call.tail = 0 THEN 0 ELSE size') /\ data' = <<>>
      /\ UNCHANGED <<writer, off, base, hurt, mixed>> /\ part' = part
      /\ UNCHANGED <<files, disk, gone, written>>
  BY DEF TailOpen, writer, watch
<1>2. Paths' = Paths /\ \A p : Current(p)' = Current(p)
  BY <1>1 DEF Paths, Current
<1>3. mode \in {"none", "stream"}
  BY <1>1 DEF VerdictInv, Busy
<1>4. Output' = Output \o Header(at)
  BY <1>1, <1>3, PutOutput
<1>5. Header(at) \in Seq(ARecord) /\ \A p : Blank(LinesIn(Header(at), p))
  <2>0. at \in Paths
    BY <1>1
  <2>1. at \in Int
    BY <2>0 DEF Paths
  <2> QED BY <2>1, HeaderIs
<1>6. \A p, k, j : ToRead(p, k, j)' => ToRead(p, k, j)
  BY <1>1, <1>2 DEF ToRead
<1>7. Turns' /\ Polled'
  BY <1>0, <1>1, <1>2 DEF Turns, Polled, Tailing, Following
<1>8. TailData'
  <2>1. size' \in Nat
    BY <1>1, CurrentTyped
  <2>2. pos' <= size' /\ size' <= Len(Current(at))
    <3>1. (pos' = 0 \/ pos' = size') /\ size' = Len(Current(at))
      BY <1>1
    <3> QED BY <2>1, <3>1
  <2>3. \/ data' = SubSeq(Current(at), pos' + 1, size')
        \/ call.tail = 0 /\ pos' = 0 /\ data' = <<>>
    <3>1. CASE call.tail = 0
      BY <1>1, <3>1
    <3>2. CASE call.tail # 0
      <4>1. pos' = size' /\ size' + 1 \in Int /\ size' \in Int /\ size' < size' + 1
        <5>1. pos' = size'
          BY <1>1, <3>2
        <5>2. size' + 1 \in Int /\ size' \in Int /\ size' < size' + 1
          <6>1. \A n \in Nat : n + 1 \in Int /\ n \in Int /\ n < n + 1
            OBVIOUS
          <6> QED BY <2>1, <6>1, Zenon
        <5> QED BY <5>1, <5>2, Zenon
      <4>2. SubSeq(Current(at), size' + 1, size') = <<>>
        BY <4>1, SubSeqEmpty
      <4> QED BY <1>1, <4>1, <4>2
    <3> QED BY <3>1, <3>2
  <2> QED BY <1>1, <1>2, <2>2, <2>3 DEF TailData
<1>9. data' \in Seq(Int)
  BY <1>1, EmptySeq
<1> QED BY <1>1, <1>4, <1>5, <1>6, <1>7, <1>8, <1>9, ReaderInv

\* A chunk, from behind, in front of those before.
LEMMA TailReadInv ==
  ASSUME FileInv, FileTyped, Chosen, TailRead
  PROVE  FileInv'
<1> DEFINE begin == IF pos > Chunk THEN pos - Chunk ELSE 0
           cells == disk[at][fd]
           chunk == [i \in 1 .. pos - begin |->
                       IF begin + i <= Len(cells) THEN cells[begin + i] ELSE NUL]
<1>0. FileKinds /\ Turns /\ Places /\ TailData /\ Polled
  BY FileInvParts
<1>1. /\ pc = "tail read" /\ Reading /\ pos' = begin /\ data' = chunk \o data
      /\ call' = call /\ pc' = pc /\ UNCHANGED <<mode, held, shown>>
      /\ UNCHANGED <<writer, off, base, hurt, mixed>> /\ part' = part
      /\ UNCHANGED <<files, disk, gone, written, at, fd, size>>
  BY DEF TailRead, run, output, writer, watch
<1>2. Paths' = Paths /\ \A p : Current(p)' = Current(p)
  BY <1>1 DEF Paths, Current
<1>3. pos \in Nat /\ pos > 0 /\ size \in Nat /\ at \in Paths /\ fd \in 1 .. Len(disk[at])
  <2>1. pos \in 0 .. MaxWrites /\ size \in 0 .. MaxWrites
    BY DEF FileTyped
  <2>2. pos > 0
    BY <1>1 DEF Reading
  <2>3. at \in Paths /\ fd \in 1 .. Len(disk[at])
    BY <1>1 DEF FileTyped
  <2> QED BY <2>1, <2>2, <2>3
<1>4. begin \in Nat /\ begin < pos /\ pos - begin \in Nat
  BY <1>3, FileBounds
<1>5. cells \in Seq(Int) /\ Len(cells) \in Nat
  <2>1. cells \in Seq(Int)
    BY <1>3, CurrentTyped, ElementOfSeq
  <2> HIDE DEF cells
  <2> QED BY <2>1, LenProperties
<1> HIDE DEF begin, cells
<1>6. /\ chunk \in Seq(Int) /\ Len(chunk) = pos - begin
      /\ \A i \in 1 .. pos - begin : chunk[i] = IF begin + i <= Len(cells) THEN cells[begin + i] ELSE NUL
  <2>1. ASSUME NEW i \in 1 .. pos - begin PROVE (IF begin + i <= Len(cells) THEN cells[begin + i] ELSE NUL) \in Int
    <3>1. CASE begin + i <= Len(cells)
      <4>1. begin + i \in 1 .. Len(cells)
        BY <1>4, <1>5, <3>1
      <4> QED BY <1>5, <3>1, <4>1, ElementOfSeq
    <3> QED BY <3>1 DEF NUL
  <2> DEFINE m == pos - begin
  <2>2. m \in Nat /\ chunk = [i \in 1 .. m |-> IF begin + i <= Len(cells) THEN cells[begin + i] ELSE NUL]
    BY <1>4
  <2>3. \A i \in 1 .. m : (IF begin + i <= Len(cells) THEN cells[begin + i] ELSE NUL) \in Int
    BY <2>1
  <2> HIDE DEF chunk, m
  <2>4. /\ chunk \in Seq(Int) /\ Len(chunk) = m
        /\ \A i \in 1 .. m : chunk[i] = IF begin + i <= Len(cells) THEN cells[begin + i] ELSE NUL
    BY <2>2, <2>3
  <2> QED BY <2>4 DEF m
<1> HIDE DEF chunk
<1>7. data' \in Seq(Int)
  BY <1>0, <1>1, <1>6, ConcatProperties DEF FileKinds
<1>8. Output' = Output \o <<>> /\ <<>> \in Seq(ARecord) /\ \A p : Blank(LinesIn(<<>>, p))
  BY <1>0, <1>1, PutsNothing DEF Output
<1> DEFINE none == <<>>
<1>9. none \in Seq(ARecord) /\ Output' = Output \o none /\ \A p : Blank(LinesIn(none, p))
  BY <1>8
<1> HIDE DEF none
<1>10. \A p, k, j : ToRead(p, k, j)' => ToRead(p, k, j)
  BY <1>1, <1>2 DEF ToRead
<1>11. Turns' /\ Polled'
  BY <1>0, <1>1, <1>2 DEF Turns, Polled, Tailing, Following
<1>12. TailData'
  <2> SUFFICES ASSUME at \notin mixed
               PROVE  /\ at \notin gone /\ fd = Len(disk[at]) /\ pos' <= size /\ size <= Len(Current(at))
                      /\ data' = SubSeq(Current(at), pos' + 1, size)
    BY <1>1, <1>2 DEF TailData
  <2>1. /\ at \notin gone /\ fd = Len(disk[at]) /\ pos <= size /\ size <= Len(Current(at))
        /\ data = SubSeq(Current(at), pos + 1, size)
    <3>1. pos # 0
      BY <1>3
    <3> QED BY <1>0, <1>1, <3>1, Zenon DEF TailData
  <2>2. cells = Current(at)
    BY <2>1 DEF cells, Current
  <2>3. begin <= size
    BY <1>3, <1>4, <2>1
  <2> DEFINE part1 == SubSeq(cells, begin + 1, pos)
  <2>4. \A i \in begin + 1 .. pos : cells[i] \in Int
    <3>1. ASSUME NEW i \in begin + 1 .. pos PROVE i \in 1 .. Len(cells)
      BY <1>3, <1>4, <1>5, <2>1, <2>2
    <3> QED BY <1>5, <3>1, ElementOfSeq
  <2>5. begin + 1 \in Int /\ pos \in Int /\ begin + 1 <= pos /\ pos - (begin + 1) + 1 = pos - begin
    BY <1>3, <1>4
  <2>6. /\ part1 \in Seq(Int) /\ Len(part1) = pos - begin
        /\ \A i \in 1 .. pos - begin : part1[i] = cells[begin + 1 + i - 1]
    <3>1. part1 \in Seq(Int)
      BY <2>4, <2>5, SubSeqProperties
    <3>2. Len(part1) = pos - begin
      BY <2>4, <2>5, SubSeqProperties
    <3>3. \A i \in 1 .. pos - (begin + 1) + 1 : part1[i] = cells[begin + 1 + i - 1]
      BY <2>4, <2>5, SubSeqProperties
    <3> QED BY <2>5, <3>1, <3>2, <3>3
  <2> HIDE DEF part1
  <2>7. \A i \in 1 .. pos - begin : chunk[i] = part1[i]
    <3> SUFFICES ASSUME NEW i \in 1 .. pos - begin PROVE chunk[i] = part1[i]
      OBVIOUS
    <3>1. begin + i <= Len(cells) /\ begin + 1 + i - 1 = begin + i
      BY <1>3, <1>4, <1>5, <2>1, <2>2
    <3> QED BY <1>6, <2>6, <3>1
  <2>8. chunk = part1
    BY <1>6, <2>6, <2>7, SeqEqual
  <2>9. begin + 1 \in 1 .. Len(cells) + 1 /\ pos \in begin + 1 - 1 .. Len(cells) /\ size \in pos .. Len(cells)
    BY <1>3, <1>4, <1>5, <2>1, <2>2
  <2>10. SubSeq(cells, begin + 1, pos) \o SubSeq(cells, pos + 1, size) = SubSeq(cells, begin + 1, size)
    <3> DEFINE m == begin + 1
    <3>1. m \in 1 .. Len(cells) + 1 /\ pos \in m - 1 .. Len(cells)
      BY <1>4, <2>9
    <3> HIDE DEF m
    <3>2. SubSeq(cells, m, pos) \o SubSeq(cells, pos + 1, size) = SubSeq(cells, m, size)
      BY <1>5, <2>9, <3>1, ConcatAdjacentSubSeq
    <3> QED BY <3>2 DEF m
  <2> QED BY <1>1, <2>1, <2>2, <2>3, <2>8, <2>10 DEF part1
<1> QED BY <1>1, <1>7, <1>9, <1>10, <1>11, <1>12, ReaderInv

-----------------------------------------------------------------------------
(* The steps of the writer *)

LEMMA WrittenIs ==
  ASSUME FileTyped
  PROVE  written \in Nat
<1>1. written \in 0 .. MaxWrites
  BY DEF FileTyped
<1> QED BY <1>1

\* What is to be shown of a step of the writer, of the file it is about.
LEMMA WriterKeeps ==
  ASSUME FileInv, FileTyped, Chosen, NEW p \in Paths, UNCHANGED <<run, files, reader, base>>,
         \A o \in Paths : o # p => disk'[o] = disk[o],
         written' \in Nat, written <= written',
         gone' \subseteq hurt', hurt \subseteq hurt', hurt' \subseteq hurt \union {p},
         mixed \subseteq mixed', mixed' \subseteq hurt', gone' \subseteq gone \union {p},
         Grows(p)', p \notin hurt' => Exact(p)',
         \A c \in Unread(p)' : c \in Unread(p) \/ c > written,
         at = p => TailData' /\ Polled'
  PROVE  FileInv'
<1>1. /\ UNCHANGED <<call, pc, mode, held, shown, at, fd, size, pos, data, off, part>>
      /\ base' = base /\ files' = files
  BY DEF run, output, reader
<1>2. Paths' = Paths /\ Chosen' /\ Output' = Output
  BY <1>1 DEF Paths, Chosen, Output
<1>3. /\ FileKinds /\ Turns /\ Places /\ TailData /\ Polled
      /\ \A o \in Paths : Grows(o)
      /\ \A o \in Paths \ mixed : Sorted(o)
      /\ \A o \in Paths \ hurt : Exact(o)
  BY DEF FileInv
<1>4. \A o : LinesOf(o)' = LinesOf(o) /\ Told(o)' = Told(o) /\ Emitted(o)' = Emitted(o)
  BY <1>1, <1>2 DEF LinesOf, Told, Emitted
<1>5. ASSUME NEW o \in Paths, o # p PROVE disk'[o] = disk[o] /\ Current(o)' = Current(o)
  BY <1>5 DEF Current
<1>6. FileKinds' /\ Turns' /\ Places'
  BY <1>1, <1>2, <1>3, <1>4 DEF FileKinds, Turns, Places
<1>7. TailData' /\ Polled'
  <2>1. CASE at = p
    BY <2>1
  <2>2. CASE at # p /\ at \in Paths
    <3>1. disk'[at'] = disk[at] /\ at' = at
      BY <1>1, <1>5, <2>2
    <3>2. (at \notin mixed' => at \notin mixed) /\ (at \notin hurt' => at \notin hurt)
          /\ (at \notin gone => at \notin gone')
      BY <2>2
    <3>3. TailData'
      BY <1>1, <1>3, <3>1, <3>2 DEF TailData, Current
    <3>4. Polled'
      BY <1>1, <1>3, <3>1, <3>2 DEF Polled, Current
    <3> QED BY <3>3, <3>4
  <2>3. CASE at \notin Paths
    <3>1. pc \notin {"tail read", "open", "read"}
      BY <2>3 DEF FileTyped
    <3> QED BY <1>1, <3>1 DEF TailData, Polled
  <2> QED BY <2>1, <2>2, <2>3
<1>8. ASSUME NEW o \in Paths PROVE Grows(o)'
  <2>1. CASE o = p
    BY <2>1
  <2>2. CASE o # p
    <3>1. Grows(o) /\ disk'[o] = disk[o]
      BY <1>3, <1>5, <2>2
    <3>2. \A x \in 1 .. written : x \in 1 .. written'
      BY WrittenIs
    <3> QED BY <3>1, <3>2 DEF Grows
  <2> QED BY <2>1, <2>2
<1>9. ASSUME NEW o \in Paths \ mixed' PROVE Sorted(o)'
  <2>1. Sorted(o) /\ Ascending(Told(o))
    BY <1>3 DEF Sorted
  <2>2. Told(o)' = Told(o)
    BY <1>4
  <2>3. \A c \in Unread(o)' : c \in Unread(o) \/ c > written
    <3>1. CASE o = p
      BY <3>1
    <3>2. CASE o # p
      <4>1. disk'[o] = disk[o] /\ Current(o)' = Current(o)
        BY <1>5, <3>2
      <4>2. \A k, j : ToRead(o, k, j)' <=> ToRead(o, k, j)
        BY <1>1, <4>1 DEF ToRead
      <4> QED BY <4>1, <4>2 DEF Unread
    <3> QED BY <3>1, <3>2
  <2>4. Ascending(Told(o)') /\ \A x : Holds(Told(o)', x) => Holds(Told(o), x)
    BY <2>1, <2>2
  <2>5. Ascending(Told(o))'
    BY <2>4
  <2> QED BY <2>1, <2>3, <2>4, <2>5, WrittenIs, SortedKeeps
<1>10. ASSUME NEW o \in Paths \ hurt' PROVE Exact(o)'
  <2>1. CASE o = p
    BY <1>10, <2>1
  <2>2. CASE o # p
    <3>1. Exact(o) /\ disk'[o] = disk[o] /\ Current(o)' = Current(o)
      BY <1>3, <1>5, <2>2
    <3>2. Promised(o)' = Promised(o)
      BY <1>1, <3>1 DEF Promised
    <3> QED BY <1>1, <1>4, <3>1, <3>2 DEF Exact
  <2> QED BY <2>1, <2>2
<1> QED BY <1>2, <1>6, <1>7, <1>8, <1>9, <1>10 DEF FileInv

LEMMA Rewritten ==
  ASSUME FileTyped, NEW p \in Paths, NEW D \in Seq(Int),
         disk' = [disk EXCEPT ![p][Len(disk[p])] = D]
  PROVE  LET n == Len(disk[p])
         IN /\ n \in Nat \ {0} /\ DOMAIN disk[p] = 1 .. n
            /\ Len(disk'[p]) = n /\ DOMAIN disk'[p] = 1 .. n
            /\ disk'[p][n] = D /\ Current(p)' = D
            /\ \A k \in 1 .. n : k # n => disk'[p][k] = disk[p][k]
            /\ \A o \in Paths : o # p => disk'[o] = disk[o]
<1> DEFINE q == disk[p]
           n == Len(q)
           r == [q EXCEPT ![n] = D]
<1>1. disk \in [Paths -> Seq(Seq(Int))]
  BY DEF FileTyped
<1>2. q \in Seq(Seq(Int)) /\ n \in Nat \ {0} /\ DOMAIN q = 1 .. n
  BY CurrentTyped, LenProperties
<1>3. disk' = [disk EXCEPT ![p] = r]
  BY <1>1
<1>4. disk'[p] = r /\ \A o \in Paths : o # p => disk'[o] = disk[o]
  BY <1>1, <1>3
<1>b. n = Len(q)
  OBVIOUS
<1> HIDE DEF q, n
<1>5. n \in 1 .. n
  BY <1>2
<1>6. /\ r \in Seq(Seq(Int)) /\ Len(r) = n
      /\ \A k \in 1 .. n : r[k] = IF k = n THEN D ELSE q[k]
  BY <1>2, <1>5, <1>b, ExceptSeq
<1> HIDE DEF r
<1>7. DOMAIN r = 1 .. n /\ r[n] = D /\ \A k \in 1 .. n : k # n => r[k] = q[k]
  BY <1>5, <1>6, LenProperties
<1>8. Current(p)' = D
  BY <1>4, <1>6, <1>7 DEF Current
<1> QED BY <1>2, <1>4, <1>6, <1>7, <1>8 DEF q, n

LEMMA SameCells ==
  ASSUME NEW C \in Seq(Int), NEW c \in Int, NEW a \in Nat, a >= 1, NEW b \in Nat, b <= Len(C)
  PROVE  SubSeq(Append(C, c), a, b) = SubSeq(C, a, b)
<1> DEFINE D == Append(C, c)
<1>1. Len(C) \in Nat /\ D \in Seq(Int) /\ Len(D) = Len(C) + 1 /\ \A i \in 1 .. Len(C) : D[i] = C[i]
  BY LenProperties, AppendProperties
<1> HIDE DEF D
<1>2. \A i \in a .. b : C[i] \in Int /\ D[i] \in Int /\ D[i] = C[i]
  <2>1. ASSUME NEW i \in a .. b PROVE i \in 1 .. Len(C)
    BY <1>1
  <2> QED BY <1>1, <2>1, ElementOfSeq
<1>3. a \in Int /\ b \in Int
  OBVIOUS
<1> DEFINE S == SubSeq(C, a, b)
           T == SubSeq(D, a, b)
<1>4. /\ S \in Seq(Int) /\ Len(S) = (IF a <= b THEN b - a + 1 ELSE 0)
      /\ \A i \in 1 .. b - a + 1 : S[i] = C[a + i - 1]
  BY <1>2, <1>3, SubSeqProperties
<1>5. /\ T \in Seq(Int) /\ Len(T) = (IF a <= b THEN b - a + 1 ELSE 0)
      /\ \A i \in 1 .. b - a + 1 : T[i] = D[a + i - 1]
  BY <1>2, <1>3, SubSeqProperties
<1> HIDE DEF S, T
<1>6. ASSUME NEW i \in 1 .. Len(S) PROVE S[i] = T[i]
  <2>1. i \in 1 .. b - a + 1 /\ a + i - 1 \in a .. b
    BY <1>3, <1>4
  <2> QED BY <1>2, <1>4, <1>5, <2>1
<1>7. S = T
  BY <1>4, <1>5, <1>6, SeqEqual
<1> QED BY <1>7 DEF S, T, D

\* A step of the writer that leaves cells where they are, takes them away, or
\* adds one at the end.
LEMMA CellsKept ==
  ASSUME FileTyped, NEW p \in Paths, Grows(p), written' \in Nat, written <= written',
         \A k \in DOMAIN disk'[p] : \A i \in DOMAIN disk'[p][k] :
            \/ /\ k \in DOMAIN disk[p] /\ i \in DOMAIN disk[p][k]
               /\ disk'[p][k][i] = disk[p][k][i]
               /\ ToRead(p, k, i)' => ToRead(p, k, i)
            \/ /\ disk'[p][k][i] \in {written', NL} /\ written' = written + 1
               /\ \A l \in DOMAIN disk'[p] : \A j \in DOMAIN disk'[p][l] : ~Later(k, i, l, j)
  PROVE  Grows(p)' /\ \A c \in Unread(p)' : c \in Unread(p) \/ c > written
<1>1. written \in Nat
  BY WrittenIs
<1> DEFINE Old(k, i) == /\ k \in DOMAIN disk[p] /\ i \in DOMAIN disk[p][k]
                        /\ disk'[p][k][i] = disk[p][k][i]
                        /\ ToRead(p, k, i)' => ToRead(p, k, i)
           New(k, i) == /\ disk'[p][k][i] \in {written', NL} /\ written' = written + 1
                        /\ \A l \in DOMAIN disk'[p] : \A j \in DOMAIN disk'[p][l] : ~Later(k, i, l, j)
<1>2. \A k \in DOMAIN disk'[p] : \A i \in DOMAIN disk'[p][k] : Old(k, i) \/ New(k, i)
  OBVIOUS
<1>3. ASSUME NEW k, NEW i, Old(k, i), disk'[p][k][i] # NL PROVE disk'[p][k][i] \in 1 .. written
  BY <1>3 DEF Grows
<1>4. ASSUME NEW k \in DOMAIN disk'[p], NEW i \in DOMAIN disk'[p][k], disk'[p][k][i] # NL
      PROVE  disk'[p][k][i] \in 1 .. written'
  <2>1. CASE Old(k, i)
    <3>1. disk'[p][k][i] \in 1 .. written
      BY <1>3, <1>4, <2>1
    <3> QED BY <1>1, <3>1
  <2>2. CASE New(k, i)
    <3>1. disk'[p][k][i] = written' /\ written' = written + 1
      BY <1>4, <2>2
    <3> QED BY <1>1, <3>1
  <2> QED BY <1>2, <2>1, <2>2
<1>5. ASSUME NEW k \in DOMAIN disk'[p], NEW l \in DOMAIN disk'[p],
             NEW i \in DOMAIN disk'[p][k], NEW j \in DOMAIN disk'[p][l],
             Later(k, i, l, j), disk'[p][k][i] # NL, disk'[p][l][j] # NL
      PROVE  disk'[p][k][i] < disk'[p][l][j]
  <2>1. Old(k, i)
    <3>1. ~New(k, i)
      BY <1>5
    <3> QED BY <1>2, <3>1
  <2>2. CASE Old(l, j)
    BY <1>5, <2>1, <2>2 DEF Grows
  <2>3. CASE New(l, j)
    <3>1. disk'[p][k][i] \in 1 .. written
      BY <1>3, <1>5, <2>1
    <3>2. disk'[p][l][j] = written' /\ written' = written + 1
      BY <1>5, <2>3
    <3> QED BY <1>1, <3>1, <3>2
  <2> QED BY <1>2, <2>2, <2>3
<1>6. Grows(p)'
  <2>1. Grows(p)' <=>
          /\ \A k \in DOMAIN disk'[p] : \A i \in DOMAIN disk'[p][k] :
                disk'[p][k][i] # NL => disk'[p][k][i] \in 1 .. written'
          /\ \A k, l \in DOMAIN disk'[p] : \A i \in DOMAIN disk'[p][k], j \in DOMAIN disk'[p][l] :
                Later(k, i, l, j) /\ disk'[p][k][i] # NL /\ disk'[p][l][j] # NL =>
                   disk'[p][k][i] < disk'[p][l][j]
    BY DEF Grows, Later
  <2> HIDE DEF Old, New
  <2> QED BY <1>4, <1>5, <2>1
<1>7. ASSUME NEW c \in Unread(p)' PROVE c \in Unread(p) \/ c > written
  <2>1. PICK k \in DOMAIN disk'[p] : \E j \in DOMAIN disk'[p][k] :
           c = disk'[p][k][j] /\ c # NL /\ ToRead(p, k, j)'
    BY DEF Unread
  <2>2. PICK j \in DOMAIN disk'[p][k] : c = disk'[p][k][j] /\ c # NL /\ ToRead(p, k, j)'
    BY <2>1
  <2>3. c \in Int
    BY DEF Unread
  <2>4. CASE Old(k, j)
    BY <2>2, <2>3, <2>4 DEF Unread
  <2>5. CASE New(k, j)
    <3>1. c = written + 1
      BY <2>2, <2>5
    <3> QED BY <1>1, <3>1
  <2> QED BY <1>2, <2>4, <2>5
<1> QED BY <1>6, <1>7

LEMMA OffsetsAre ==
  ASSUME FileTyped
  PROVE  size \in Nat /\ pos \in Nat /\ \A p \in Paths : off[p] \in Nat
<1>1. /\ size \in 0 .. MaxWrites /\ pos \in 0 .. MaxWrites
      /\ \A p \in Paths : off[p] \in 0 .. MaxWrites
  BY DEF FileTyped
<1>2. \A i \in 0 .. MaxWrites : i \in Nat
  BY FileBounds
<1> QED BY <1>1, <1>2

LEMMA NextNat == \A i \in Nat : i + 1 \in Nat /\ i + 1 >= 1
  OBVIOUS

LEMMA WriterOf ==
  ASSUME FileInv, FileTyped, Chosen, NEW p \in Paths, Log(p) \/ Truncate(p) \/ Rotate(p) \/ Create(p)
  PROVE  /\ UNCHANGED <<run, files, reader, base>>
         /\ UNCHANGED <<call, pc, at, fd, size, pos, data, off>>
         /\ written \in Nat /\ written' \in Nat /\ written <= written'
         /\ gone' \subseteq hurt' /\ hurt \subseteq hurt' /\ hurt' \subseteq hurt \union {p}
         /\ mixed \subseteq mixed' /\ mixed' \subseteq hurt' /\ gone' \subseteq gone \union {p}
<1>1. written \in Nat /\ Places
  BY WrittenIs, FileInvParts
<1>2. CASE Log(p)
  BY <1>1, <1>2 DEF Log, watch, run, reader, Places
<1>3. CASE Truncate(p) \/ Rotate(p)
  <2>1. /\ UNCHANGED <<run, files, reader, base>> /\ written' = written + 1
        /\ hurt' = hurt \union {p} /\ (mixed' = mixed \/ mixed' = mixed \union {p})
        /\ (gone' = gone \/ gone' = gone \union {p})
    BY <1>3 DEF Truncate, Rotate, Cut
  <2>2. mixed \subseteq hurt /\ gone \subseteq hurt
    BY <1>1 DEF Places
  <2>3. written' \in Nat /\ written <= written'
    BY <1>1, <2>1
  <2>4. UNCHANGED <<call, pc, at, fd, size, pos, data, off>>
    BY <2>1 DEF run, reader
  <2> QED BY <1>1, <2>1, <2>2, <2>3, <2>4
<1>4. CASE Create(p)
  BY <1>1, <1>4 DEF Create, watch, run, reader, Places
<1> QED BY <1>2, <1>3, <1>4

\* A line, or a part of one, is appended.
LEMMA LogKeeps ==
  ASSUME FileInv, FileTyped, Chosen, NEW p \in Paths, Log(p)
  PROVE  FileInv'
<1> DEFINE n == Len(disk[p])
           C == Current(p)
           m == Len(C)
<1>1. PICK cell \in {written + 1, NL} : disk' = [disk EXCEPT ![p][Len(disk[p])] = Append(@, cell)]
  BY DEF Log
<1>2. written' = written + 1 /\ UNCHANGED <<run, files, gone, reader, base, hurt, mixed>>
  BY DEF Log, watch
<1>w. /\ UNCHANGED <<call, pc, at, fd, size, pos, data, off>>
      /\ written \in Nat /\ written' \in Nat /\ written <= written'
      /\ gone' \subseteq hurt' /\ hurt \subseteq hurt' /\ hurt' \subseteq hurt \union {p}
      /\ mixed \subseteq mixed' /\ mixed' \subseteq hurt' /\ gone' \subseteq gone \union {p}
  BY WriterOf
<1>3. FileKinds /\ TailData /\ Polled /\ Grows(p) /\ (p \notin hurt => Exact(p))
  BY DEF FileInv
<1>4. C \in Seq(Int) /\ m \in Nat /\ DOMAIN C = 1 .. m /\ cell \in Int
  BY <1>w, CurrentTyped, LenProperties DEF NL
<1> DEFINE D == Append(C, cell)
<1>5. /\ D \in Seq(Int) /\ Len(D) = m + 1 /\ DOMAIN D = 1 .. m + 1
      /\ D[m + 1] = cell /\ \A i \in 1 .. m : D[i] = C[i]
  BY <1>4, AppendProperties, LenProperties
<1>6. /\ n \in Nat \ {0} /\ DOMAIN disk[p] = 1 .. n
      /\ Len(disk'[p]) = n /\ DOMAIN disk'[p] = 1 .. n
      /\ disk'[p][n] = D /\ Current(p)' = D /\ disk[p][n] = C
      /\ \A k \in 1 .. n : k # n => disk'[p][k] = disk[p][k]
      /\ \A o \in Paths : o # p => disk'[o] = disk[o]
  <2> DEFINE E == D
  <2>1. disk' = [disk EXCEPT ![p][Len(disk[p])] = E]
    BY <1>1 DEF Current
  <2>2. E \in Seq(Int)
    BY <1>5
  <2>3. disk[p][n] = C
    BY DEF Current
  <2> HIDE DEF E, D, C
  <2>4. /\ n \in Nat \ {0} /\ DOMAIN disk[p] = 1 .. n
        /\ Len(disk'[p]) = n /\ DOMAIN disk'[p] = 1 .. n
        /\ disk'[p][n] = E /\ Current(p)' = E
        /\ \A k \in 1 .. n : k # n => disk'[p][k] = disk[p][k]
        /\ \A o \in Paths : o # p => disk'[o] = disk[o]
    BY <2>1, <2>2, Rewritten
  <2> QED BY <2>3, <2>4 DEF E
<1> HIDE DEF n, m, C
<1>m. m = Len(C)
  BY DEF m
<1> HIDE DEF D
<1>7. Grows(p)' /\ \A c \in Unread(p)' : c \in Unread(p) \/ c > written
  <2>1. ASSUME NEW k \in DOMAIN disk'[p], NEW i \in DOMAIN disk'[p][k]
        PROVE  \/ /\ k \in DOMAIN disk[p] /\ i \in DOMAIN disk[p][k]
                  /\ disk'[p][k][i] = disk[p][k][i]
                  /\ ToRead(p, k, i)' => ToRead(p, k, i)
               \/ /\ disk'[p][k][i] \in {written', NL} /\ written' = written + 1
                  /\ \A l \in DOMAIN disk'[p] : \A j \in DOMAIN disk'[p][l] : ~Later(k, i, l, j)
    <3>1. ToRead(p, k, i)' => ToRead(p, k, i)
      <4>1. off[p] \in Nat
        BY OffsetsAre
      <4>2. off[p] > m + 1 => off[p] > m
        BY <1>4, <4>1
      <4>3. Len(Current(p)) = m /\ Len(Current(p)') = m + 1 /\ Len(disk[p]) = n /\ Len(disk'[p]) = n
        BY <1>5, <1>6 DEF m, C, n
      <4> QED BY <1>w, <4>2, <4>3 DEF ToRead
    <3>2. CASE k # n \/ (k = n /\ i \in 1 .. m)
      <4>1. k \in 1 .. n
        BY <1>6
      <4>2. CASE k # n
        BY <1>6, <3>1, <4>1, <4>2
      <4>3. CASE k = n /\ i \in 1 .. m
        BY <1>4, <1>5, <1>6, <3>1, <4>3
      <4> QED BY <3>2, <4>2, <4>3
    <3>3. CASE k = n /\ i \notin 1 .. m
      <4>1. i = m + 1
        BY <1>4, <1>5, <1>6, <3>3
      <4>2. disk'[p][k][i] = cell
        <5>1. disk'[p][k] = D
          BY <1>6, <3>3
        <5> QED BY <1>5, <4>1, <5>1
      <4>3. \A l \in DOMAIN disk'[p] : \A j \in DOMAIN disk'[p][l] : ~Later(k, i, l, j)
        <5> SUFFICES ASSUME NEW l \in DOMAIN disk'[p], NEW j \in DOMAIN disk'[p][l], Later(k, i, l, j)
                     PROVE  FALSE
          OBVIOUS
        <5>1. ~(n < l)
          BY <1>6
        <5>2. l = n /\ m + 1 < j
          BY <3>3, <4>1, <5>1 DEF Later
        <5>3. j \in 1 .. m + 1
          BY <1>5, <1>6, <5>2
        <5> QED BY <1>4, <5>2, <5>3
      <4> QED BY <1>2, <4>2, <4>3
    <3> QED BY <3>2, <3>3
  <2> QED BY <1>3, <1>w, <2>1, CellsKept
<1>8. ASSUME p \notin hurt' PROVE Exact(p)'
  <2>1. Exact(p) /\ n = 1
    BY <1>2, <1>3, <1>8 DEF Exact, n
  <2>2. off[p] \in Nat /\ off[p] <= m
    <3>1. off[p] \in Nat
      BY OffsetsAre
    <3> QED BY <2>1, <3>1 DEF Exact, m, C
  <2>3. Len(disk'[p]) = 1 /\ off'[p] <= Len(Current(p)')
    BY <1>4, <1>5, <1>6, <1>w, <2>1, <2>2
  <2>4. ASSUME base[p] # -1
        PROVE  /\ base'[p] \in 0 .. off'[p] /\ Emitted(p)' = Promised(p)'
               /\ part'[p] = Left(SubSeq(Current(p)', base'[p] + 1, off'[p]))
    <3>1. /\ base[p] \in 0 .. off[p] /\ Emitted(p) = Promised(p)
          /\ part[p] = Left(SubSeq(C, base[p] + 1, off[p]))
      BY <2>1, <2>4 DEF Exact, C
    <3>2. base[p] \in Nat /\ base[p] <= m /\ base[p] + 1 \in Nat /\ base[p] + 1 >= 1
      BY <1>4, <2>2, <3>1
    <3>3. SubSeq(D, 1, base[p]) = SubSeq(C, 1, base[p])
      BY <1>4, <3>2, <1>m, SameCells DEF D
    <3>4. SubSeq(D, base[p] + 1, off[p]) = SubSeq(C, base[p] + 1, off[p])
      <4> DEFINE a == base[p] + 1
      <4>1. a \in Nat /\ a >= 1
        BY <3>2
      <4> HIDE DEF a
      <4>2. SubSeq(D, a, off[p]) = SubSeq(C, a, off[p])
        BY <1>4, <2>2, <4>1, <1>m, SameCells DEF D
      <4> QED BY <4>2 DEF a
    <3>5. base' = base /\ off' = off /\ part' = part /\ call' = call /\ Output' = Output
      BY <1>2 DEF reader, run, output, Output
    <3>6. Promised(p)' = Promised(p)
      BY <1>6, <3>3, <3>4, <3>5 DEF Promised, C
    <3>7. Emitted(p)' = Emitted(p)
      BY <3>5 DEF Emitted, LinesOf
    <3> QED BY <1>6, <3>1, <3>4, <3>5, <3>6, <3>7
  <2>5. base' = base
    BY <1>2
  <2> QED BY <2>3, <2>4, <2>5 DEF Exact
<1>9. ASSUME at = p PROVE TailData' /\ Polled'
  <2>1. /\ disk'[at'][Len(disk'[at'])] = D /\ Len(disk'[at']) = n /\ at' = at
        /\ Current(at) = C /\ Len(disk[at]) = n
    BY <1>6, <1>9, <1>w DEF C, n
  <2>2. size \in Nat /\ pos \in Nat
    BY OffsetsAre
  <2>3. size <= m => size <= m + 1
    BY <1>4, <2>2
  <2>4. TailData'
    <3> SUFFICES ASSUME pc = "tail read", at \notin mixed
                 PROVE  /\ at \notin gone
                        /\ fd = n /\ pos <= size /\ size <= m + 1
                        /\ \/ data = SubSeq(D, pos + 1, size)
                           \/ call.tail = 0 /\ pos = 0 /\ data = <<>>
      BY <1>2, <1>5, <1>w, <2>1 DEF TailData, Current
    <3>1. /\ at \notin gone /\ fd = n /\ pos <= size /\ size <= m
          /\ \/ data = SubSeq(C, pos + 1, size)
             \/ call.tail = 0 /\ pos = 0 /\ data = <<>>
      BY <1>3, <2>1, <1>m DEF TailData
    <3>2. SubSeq(D, pos + 1, size) = SubSeq(C, pos + 1, size)
      <4> DEFINE a == pos + 1
      <4>1. a \in Nat /\ a >= 1
        BY <2>2, NextNat, Zenon
      <4> HIDE DEF a
      <4>2. SubSeq(D, a, size) = SubSeq(C, a, size)
        BY <1>4, <2>2, <3>1, <4>1, <1>m, SameCells DEF D
      <4> QED BY <4>2 DEF a
    <3> QED BY <2>3, <3>1, <3>2
  <2>5. Polled'
    BY <1>2, <1>3, <1>5, <1>w, <2>1, <2>3, <1>m DEF Polled, Current
  <2> QED BY <2>4, <2>5
<1> QED BY <1>2, <1>6, <1>7, <1>8, <1>9, <1>w, WriterKeeps

\* The size a file is cut to is no promise: it is hurt.
LEMMA CutKeeps ==
  ASSUME FileInv, FileTyped, Chosen, NEW p \in Paths, Truncate(p) \/ Rotate(p)
  PROVE  FileInv'
<1> DEFINE n == Len(disk[p])
<1>1. /\ hurt' = hurt \union {p} /\ mixed' = (IF pc = "tail read" /\ at = p THEN mixed \union {p} ELSE mixed)
  BY DEF Truncate, Rotate, Cut
<1>w. /\ UNCHANGED <<run, files, reader, base>>
      /\ UNCHANGED <<call, pc, at, fd, size, pos, data, off>>
      /\ written \in Nat /\ written' \in Nat /\ written <= written'
      /\ gone' \subseteq hurt' /\ hurt \subseteq hurt' /\ hurt' \subseteq hurt \union {p}
      /\ mixed \subseteq mixed' /\ mixed' \subseteq hurt' /\ gone' \subseteq gone \union {p}
  BY WriterOf
<1>2. Polled /\ Grows(p)
  BY DEF FileInv
<1>3. /\ n \in Nat \ {0} /\ DOMAIN disk[p] = 1 .. n
      /\ Len(disk'[p]) = n /\ DOMAIN disk'[p] = 1 .. n
      /\ disk'[p][n] = <<>> \/ disk'[p] = disk[p]
      /\ \A k \in 1 .. n : k # n => disk'[p][k] = disk[p][k]
      /\ \A o \in Paths : o # p => disk'[o] = disk[o]
  <2>1. CASE Truncate(p)
    <3> DEFINE none == <<>>
    <3>1. disk' = [disk EXCEPT ![p][Len(disk[p])] = none]
      BY <2>1 DEF Truncate
    <3>2. none \in Seq(Int)
      BY EmptySeq
    <3> HIDE DEF none
    <3>3. /\ n \in Nat \ {0} /\ DOMAIN disk[p] = 1 .. n
          /\ Len(disk'[p]) = n /\ DOMAIN disk'[p] = 1 .. n
          /\ disk'[p][n] = none
          /\ \A k \in 1 .. n : k # n => disk'[p][k] = disk[p][k]
          /\ \A o \in Paths : o # p => disk'[o] = disk[o]
      BY <3>1, <3>2, Rewritten
    <3> QED BY <3>3 DEF none
  <2>2. CASE Rotate(p)
    <3>1. disk' = disk
      BY <2>2 DEF Rotate
    <3>2. disk[p] \in Seq(Seq(Int)) /\ n \in Nat \ {0} /\ DOMAIN disk[p] = 1 .. n
      BY CurrentTyped, LenProperties
    <3> QED BY <3>1, <3>2
  <2> QED BY <2>1, <2>2
<1>b. n = Len(disk[p])
  OBVIOUS
<1> HIDE DEF n
<1>4. Grows(p)' /\ \A c \in Unread(p)' : c \in Unread(p) \/ c > written
  <2>1. ASSUME NEW k \in DOMAIN disk'[p], NEW i \in DOMAIN disk'[p][k]
        PROVE  /\ k \in DOMAIN disk[p] /\ i \in DOMAIN disk[p][k]
               /\ disk'[p][k][i] = disk[p][k][i]
               /\ ToRead(p, k, i)' => ToRead(p, k, i)
    <3>1. CASE disk'[p] = disk[p]
      BY <1>w, <3>1 DEF ToRead, Current
    <3>2. CASE disk'[p][n] = <<>>
      <4>1. k # n
        BY <3>2
      <4>2. k \in 1 .. n /\ disk'[p][k] = disk[p][k]
        BY <1>3, <4>1
      <4>3. ToRead(p, k, i)' => ToRead(p, k, i)
        BY <1>3, <1>w, <4>1 DEF ToRead
      <4> QED BY <1>3, <4>2, <4>3
    <3> QED BY <1>3, <3>1, <3>2
  <2> QED BY <1>2, <1>w, <2>1, CellsKept
<1>5. ASSUME at = p PROVE TailData' /\ Polled'
  <2>1. at \in hurt' /\ (pc = "tail read" => at \in mixed')
    BY <1>1, <1>5
  <2> QED BY <1>2, <1>w, <2>1 DEF TailData, Polled
<1>6. p \in hurt'
  BY <1>1
<1> QED BY <1>3, <1>4, <1>5, <1>6, <1>w, WriterKeeps

\* The file that was rotated away is there again, empty.
LEMMA CreateKeeps ==
  ASSUME FileInv, FileTyped, Chosen, NEW p \in Paths, Create(p)
  PROVE  FileInv'
<1> DEFINE q == disk[p]
           n == Len(q)
           r == Append(q, <<>>)
<1>1. p \in gone /\ hurt' = hurt /\ mixed' = mixed
  BY DEF Create, watch
<1>w. /\ UNCHANGED <<run, files, reader, base>>
      /\ UNCHANGED <<call, pc, at, fd, size, pos, data, off>>
      /\ written \in Nat /\ written' \in Nat /\ written <= written'
      /\ gone' \subseteq hurt' /\ hurt \subseteq hurt' /\ hurt' \subseteq hurt \union {p}
      /\ mixed \subseteq mixed' /\ mixed' \subseteq hurt' /\ gone' \subseteq gone \union {p}
  BY WriterOf
<1>2. TailData /\ Polled /\ Grows(p) /\ Places
  BY DEF FileInv
<1>3. disk'[p] = r /\ \A o \in Paths : o # p => disk'[o] = disk[o]
  BY DEF Create, FileTyped
<1>4. q \in Seq(Seq(Int)) /\ n \in Nat /\ <<>> \in Seq(Int) /\ DOMAIN q = 1 .. n
  BY CurrentTyped, LenProperties, EmptySeq
<1> DEFINE none == <<>>
<1>5. none \in Seq(Int) /\ r = Append(q, none)
  BY <1>4
<1>b. n = Len(q)
  OBVIOUS
<1> HIDE DEF q, n, r, none
<1>6. /\ r \in Seq(Seq(Int)) /\ Len(r) = n + 1 /\ r[n + 1] = none
      /\ \A k \in 1 .. n : r[k] = q[k]
  BY <1>4, <1>5, <1>b, AppendProperties
<1>7. DOMAIN r = 1 .. n + 1
  BY <1>6, LenProperties
<1>8. Grows(p)' /\ \A c \in Unread(p)' : c \in Unread(p) \/ c > written
  <2>1. ASSUME NEW k \in DOMAIN disk'[p], NEW i \in DOMAIN disk'[p][k]
        PROVE  /\ k \in DOMAIN disk[p] /\ i \in DOMAIN disk[p][k]
               /\ disk'[p][k][i] = disk[p][k][i]
               /\ ToRead(p, k, i)' => ToRead(p, k, i)
    <3>1. k # n + 1
      <4>1. none = <<>>
        BY DEF none
      <4> QED BY <1>3, <1>6, <4>1
    <3>2. k \in 1 .. n /\ disk'[p][k] = q[k]
      BY <1>3, <1>4, <1>6, <1>7, <3>1
    <3>3. ToRead(p, k, i)' => ToRead(p, k, i)
      BY <1>3, <1>6, <1>w, <3>1 DEF ToRead
    <3> QED BY <1>4, <3>2, <3>3 DEF q
  <2> QED BY <1>2, <1>w, <2>1, CellsKept
<1>9. p \in hurt
  BY <1>1, <1>2 DEF Places
<1>10. ASSUME at = p PROVE TailData' /\ Polled'
  <2>1. pc = "tail read" => at \in mixed
    BY <1>1, <1>2, <1>10 DEF TailData
  <2> QED BY <1>1, <1>2, <1>9, <1>10, <1>w, <2>1 DEF TailData, Polled
<1> QED BY <1>1, <1>3, <1>8, <1>9, <1>10, <1>w, WriterKeeps

\* Whatever the writer does.
LEMMA WriterInv ==
  ASSUME FileInv, FileTyped, Writer
  PROVE  FileInv'
<1>1. Chosen /\ \E p \in Paths : Log(p) \/ Truncate(p) \/ Rotate(p) \/ Create(p)
  BY DEF Writer
<1>2. PICK p \in Paths : Log(p) \/ Truncate(p) \/ Rotate(p) \/ Create(p)
  BY <1>1
<1> QED BY <1>1, <1>2, LogKeeps, CutKeeps, CreateKeeps

-----------------------------------------------------------------------------
(* The steps that show lines: the last lines *)

\* A step that shows lines of one file: the others are as they were.
LEMMA ShowsInv ==
  ASSUME FileInv, FileTyped, Chosen, call' = call, UNCHANGED <<writer, hurt, mixed, data>>,
         NEW p \in Paths, NEW ls \in Seq(Seq(Int)), Output' = Output \o Records(p, ls),
         part' \in [Paths -> Seq(Int)], base' \in [Paths -> Int],
         \A o \in Paths : o # p => off'[o] = off[o] /\ base'[o] = base[o] /\ part'[o] = part[o],
         base'[p] # -1, pc' \in {"tail", "tick", "stat"}, Turns',
         p \notin mixed => Sorted(p)',
         p \notin hurt => Exact(p)'
  PROVE  FileInv'
<1> DEFINE rs == Records(p, ls)
<1>1. UNCHANGED <<files, disk, gone, written>>
  BY DEF writer
<1>2. Paths' = Paths /\ Chosen' /\ \A o : Current(o)' = Current(o)
  BY <1>1 DEF Paths, Chosen, Current
<1>3. /\ FileKinds /\ Places
      /\ \A o \in Paths : Grows(o)
      /\ \A o \in Paths \ mixed : Sorted(o)
      /\ \A o \in Paths \ hurt : Exact(o)
  BY DEF FileInv
<1>4. rs \in Seq(ARecord) /\ \A o : o # p => Blank(LinesIn(rs, o))
  <2>1. p \in Int
    BY DEF Paths
  <2> QED BY <2>1, RecordsIs
<1>o. Output' = Output \o rs
  OBVIOUS
<1> HIDE DEF rs
<1>5. FileKinds'
  <2>1. Output' \in Seq(ARecord)
    BY <1>3, <1>4, <1>o, ConcatProperties DEF FileKinds
  <2>2. data' \in Seq(Int)
    BY <1>3 DEF FileKinds
  <2> QED BY <1>2, <2>1, <2>2 DEF FileKinds
<1>6. ASSUME NEW o \in Paths, o # p
      PROVE  /\ LinesOf(o) \in Seq(Seq(Int)) /\ part[o] \in Seq(Int)
             /\ LinesOf(o)' = LinesOf(o) \o LinesIn(rs, o) /\ LinesIn(rs, o) \in Seq(Seq(Int))
             /\ Blank(LinesIn(rs, o)) /\ Emitted(o)' = Emitted(o)
  <2>1. LinesOf(o) \in Seq(Seq(Int)) /\ part[o] \in Seq(Int)
    BY <1>3, LinesTyped
  <2>2. /\ LinesOf(o)' = LinesOf(o) \o LinesIn(rs, o) /\ LinesIn(rs, o) \in Seq(Seq(Int))
        /\ Emitted(o)' = Emitted(o) \o NotEmpty(LinesIn(rs, o)) /\ Emitted(o) \in Seq(Seq(Int))
    BY <1>3, <1>4, <1>o, Puts
  <2>3. NotEmpty(LinesIn(rs, o)) = <<>>
    BY <1>4, <1>6, <2>2, NotEmptyBlank
  <2> QED BY <1>4, <1>6, <2>1, <2>2, <2>3, ConcatEmptySeq
<1>7. Places'
  <2>1. ASSUME NEW o \in Paths, base'[o] = -1 PROVE off'[o] = 0 /\ part'[o] = <<>> /\ Blank(LinesOf(o)')
    <3>1. o # p
      BY <2>1
    <3>2. off[o] = 0 /\ part[o] = <<>> /\ Blank(LinesOf(o))
      BY <1>3, <2>1, <3>1 DEF Places
    <3> QED BY <1>6, <3>1, <3>2, BlankConcat
  <2>2. mixed' \subseteq hurt' /\ gone' \subseteq hurt'
    BY <1>1, <1>3 DEF Places
  <2>3. \A o \in Paths' : base'[o] = -1 => off'[o] = 0 /\ part'[o] = <<>> /\ Blank(LinesOf(o)')
    BY <1>2, <2>1
  <2> QED BY <2>2, <2>3 DEF Places, Blank
<1>8. ASSUME NEW o \in Paths PROVE Grows(o)'
  BY <1>1, <1>3 DEF Grows
<1>9. ASSUME NEW o \in Paths \ mixed PROVE Sorted(o)'
  <2>1. CASE o = p
    BY <1>9, <2>1
  <2>2. CASE o # p
    <3>1. Sorted(o) /\ Ascending(Told(o))
      BY <1>3, <1>9 DEF Sorted
    <3>2. Told(o) = Append(LinesOf(o), part[o]) /\ Told(o)' = Append(LinesOf(o)', part'[o])
      BY DEF Told
    <3>3. /\ Ascending(Told(o)')
          /\ \A x : Holds(Told(o)', x) => Holds(Told(o), x)
      <4> DEFINE A == LinesOf(o)
                 B == LinesIn(rs, o)
                 b == part[o]
      <4>1. /\ A \in Seq(Seq(Int)) /\ B \in Seq(Seq(Int)) /\ b \in Seq(Int) /\ b \in {b, <<>>}
            /\ Blank(B) /\ Ascending(Append(A, b))
            /\ Told(o) = Append(A, b) /\ Told(o)' = Append(A \o B, b)
        BY <1>6, <2>2, <3>1, <3>2
      <4> HIDE DEF A, B, b
      <4>2. /\ Ascending(Append(A \o B, b))
            /\ \A x : Holds(Append(A \o B, b), x) => Holds(Append(A, b), x)
        BY <4>1, TellsBlank
      <4> QED BY <4>1, <4>2
    <3>4. ASSUME NEW k, NEW j, ToRead(o, k, j)' PROVE ToRead(o, k, j)
      <4>1. pc' # "open" /\ pc' # "read" /\ off'[o] = off[o]
        BY <2>2
      <4>2. k = Len(disk'[o]) /\ (j > off'[o] \/ off'[o] > Len(Current(o)'))
        BY <3>4, <4>1 DEF ToRead
      <4> QED BY <1>1, <1>2, <4>1, <4>2 DEF ToRead
    <3>5. ASSUME NEW c \in Unread(o)' PROVE c \in Unread(o)
      BY <1>1, <3>4 DEF Unread
    <3>6. written \in Nat /\ written' = written
      BY <1>1, WrittenIs
    <3>7. Ascending(Told(o))' /\ \A x : Holds(Told(o), x)' => Holds(Told(o), x)
      BY <3>3 DEF Ascending, Holds
    <3>8. written <= written' /\ \A c \in Unread(o)' : c \in Unread(o) \/ c > written
      BY <3>5, <3>6
    <3> QED BY <3>1, <3>3, <3>6, <3>7, <3>8, SortedKeeps
  <2> QED BY <2>1, <2>2
<1>10. ASSUME NEW o \in Paths \ hurt PROVE Exact(o)'
  <2>1. CASE o = p
    BY <1>10, <2>1
  <2>2. CASE o # p
    <3>1. Exact(o) /\ off'[o] = off[o] /\ base'[o] = base[o] /\ part'[o] = part[o]
      BY <1>3, <1>10, <2>2
    <3>2. Promised(o)' = Promised(o)
      BY <1>2, <3>1 DEF Promised
    <3>3. Emitted(o)' = Emitted(o)
      BY <1>6, <2>2
    <3> QED BY <1>1, <1>2, <3>1, <3>2, <3>3 DEF Exact
  <2> QED BY <2>1, <2>2
<1>11. TailData' /\ Polled'
  BY DEF TailData, Polled
<1> QED BY <1>1, <1>2, <1>5, <1>7, <1>8, <1>9, <1>10, <1>11 DEF FileInv

\* Cells of a file as it was read rise.
LEMMA CellsOf ==
  ASSUME FileTyped, NEW p \in Paths, Grows(p), NEW k \in DOMAIN disk[p],
         NEW a \in Nat, NEW b \in Nat, b <= Len(disk[p][k])
  PROVE  LET cells == SubSeq(disk[p][k], a + 1, b)
         IN /\ cells \in Seq(Int) /\ Rising(cells)
            /\ Len(cells) = IF a < b THEN b - a ELSE 0
            /\ \A i \in DOMAIN cells : /\ a + i \in DOMAIN disk[p][k] /\ a + i <= b
                                       /\ cells[i] = disk[p][k][a + i]
<1> DEFINE C == disk[p][k]
           s == a + 1
           cells == SubSeq(C, s, b)
<1>1. C \in Seq(Int) /\ Len(C) \in Nat /\ DOMAIN C = 1 .. Len(C)
  <2>1. disk[p] \in Seq(Seq(Int)) /\ DOMAIN disk[p] = 1 .. Len(disk[p])
    BY CurrentTyped, LenProperties
  <2>2. C \in Seq(Int)
    BY <2>1, ElementOfSeq
  <2> HIDE DEF C
  <2> QED BY <2>2, LenProperties
<1>2. b <= Len(C)
  OBVIOUS
<1> HIDE DEF C
<1>3. \A i \in s .. b : i \in DOMAIN C /\ C[i] \in Int
  <2>1. ASSUME NEW i \in s .. b PROVE i \in 1 .. Len(C)
    BY <1>1, <1>2
  <2> QED BY <1>1, <2>1, ElementOfSeq
<1>4. s \in Int /\ b \in Int /\ (IF s <= b THEN b - s + 1 ELSE 0) = (IF a < b THEN b - a ELSE 0)
  OBVIOUS
<1>s. s = a + 1
  OBVIOUS
<1> HIDE DEF s
<1>5. /\ cells \in Seq(Int) /\ Len(cells) = (IF s <= b THEN b - s + 1 ELSE 0)
      /\ \A i \in 1 .. b - s + 1 : cells[i] = C[s + i - 1]
  <2>1. cells \in Seq(Int)
    BY <1>3, <1>4, SubSeqProperties
  <2>2. Len(cells) = (IF s <= b THEN b - s + 1 ELSE 0)
    BY <1>3, <1>4, SubSeqProperties
  <2>3. \A i \in 1 .. b - s + 1 : cells[i] = C[s + i - 1]
    BY <1>3, <1>4, SubSeqProperties
  <2> QED BY <2>1, <2>2, <2>3
<1> HIDE DEF cells
<1>6. DOMAIN cells = 1 .. Len(cells) /\ Len(cells) \in Nat
  BY <1>5, LenProperties
<1>7. ASSUME NEW i \in DOMAIN cells
      PROVE  i \in Nat /\ a + i \in DOMAIN C /\ a + i <= b /\ cells[i] = C[a + i]
  <2>1. i \in 1 .. b - s + 1 /\ s + i - 1 = a + i /\ s + i - 1 \in s .. b
    BY <1>4, <1>5, <1>6, <1>s
  <2> QED BY <1>3, <1>5, <2>1
<1>8. Rising(cells)
  <2> SUFFICES ASSUME NEW i \in DOMAIN cells, NEW j \in DOMAIN cells, i < j, cells[i] # NL, cells[j] # NL
               PROVE  cells[i] < cells[j]
    BY DEF Rising
  <2>1. a + i < a + j
    BY <1>7
  <2>2. Later(k, a + i, k, a + j)
    BY <2>1 DEF Later
  <2> QED BY <1>7, <2>2 DEF Grows, C
<1> QED BY <1>4, <1>5, <1>7, <1>8 DEF cells, C, s

LEMMA LastRises ==
  ASSUME NEW cells \in Seq(Int), Rising(cells), NEW n \in Nat
  PROVE  LET L == LastLines(Split(cells), n)
         IN /\ L \in Seq(Seq(Int)) /\ Ascending(L)
            /\ \A x : Holds(L, x) => x # NL /\ \E i \in DOMAIN cells : cells[i] = x
<1> DEFINE P == Pieces(cells)
           S == Split(cells)
           L == LastLines(S, n)
           m == Len(S) - Len(L)
<1>1. /\ P \in Seq(Seq(Int)) /\ Ascending(P)
      /\ \A x : Holds(P, x) => x # NL /\ \E i \in DOMAIN cells : cells[i] = x
  BY ParseRises
<1>2. S \in Seq(Seq(Int)) /\ \A i \in DOMAIN S : i \in DOMAIN P /\ S[i] = P[i]
  BY SplitIs
<1> HIDE DEF P, S
<1>3. /\ L \in Seq(Seq(Int)) /\ m \in Int
      /\ \A i \in DOMAIN L : i + m \in DOMAIN S /\ L[i] = S[i + m]
  BY <1>2, LastIs
<1> HIDE DEF L, m
<1>4. DOMAIN S \subseteq Int /\ DOMAIN L \subseteq Int
  <2>1. DOMAIN S = 1 .. Len(S) /\ DOMAIN L = 1 .. Len(L)
    BY <1>2, <1>3, LenProperties
  <2> QED BY <2>1
<1>5. Ascending(S) /\ \A x : Holds(S, x) => Holds(P, x)
  <2>1. \A i \in DOMAIN S : i + 0 \in DOMAIN P /\ S[i] = P[i + 0]
    <3>1. \A i \in Int : i + 0 = i
      OBVIOUS
    <3> QED BY <1>2, <1>4, <3>1
  <2>2. 0 \in Int
    OBVIOUS
  <2> QED BY <1>1, <1>4, <2>1, <2>2, AscendPart
<1>6. Ascending(L) /\ \A x : Holds(L, x) => Holds(S, x)
  BY <1>3, <1>4, <1>5, AscendPart
<1>7. \A x : Holds(L, x) => x # NL /\ \E i \in DOMAIN cells : cells[i] = x
  BY <1>1, <1>5, <1>6
<1> QED BY <1>3, <1>6, <1>7 DEF L, S

LEMMA NoLast ==
  ASSUME NEW A \in Seq(Seq(Int))
  PROVE  LastLines(A, 0) = <<>>
<1> DEFINE L == LastLines(A, 0)
<1>1. L \in Seq(Seq(Int)) /\ Len(A) \in Nat /\ Len(L) = IF 0 >= Len(A) THEN Len(A) ELSE 0
  BY LastIs
<1>2. Len(L) = 0
  BY <1>1
<1> HIDE DEF L
<1>3. L = <<>>
  BY <1>1, <1>2, EmptySeq
<1> QED BY <1>3 DEF L

LEMMA TailOf == call \in Calls => call.tail \in Nat
<1>1. call \in Calls => call.tail \in 0 .. MaxTail
  BY DEF Calls
<1> QED BY <1>1, RunAssumption

\* What lastLines has read, and what TailEmit shows of it.
WasRead ==
    /\ at \in Paths /\ call.tail \in Nat /\ pos <= size /\ size <= Len(Current(at))
    /\ \/ data = SubSeq(Current(at), pos + 1, size)
       \/ call.tail = 0 /\ pos = 0 /\ data = <<>>

LEMMA IsRead ==
  ASSUME FileInv, FileTyped, Chosen, call \in Calls, pc = "tail read", at \notin mixed
  PROVE  WasRead
<1>1. at \in Paths
  BY DEF FileTyped
<1>2. TailData
  BY FileInvParts
<1> QED BY <1>1, <1>2, TailOf, Zenon DEF TailData, WasRead

LEMMA TailShows ==
  ASSUME FileInv, FileTyped, Chosen, WasRead
  PROVE  LET ls == LastLines(Split(data), call.tail)
         IN /\ ls \in Seq(Seq(Int)) /\ Ascending(ls) /\ size \in Nat /\ size <= Len(Current(at))
            /\ \A x : Holds(ls, x) => x # NL /\ \E i \in DOMAIN Current(at) : i <= size /\ Current(at)[i] = x
<1> DEFINE C == Current(at)
           n == Len(disk[at])
<1>1. /\ pos <= size /\ size <= Len(C)
      /\ \/ data = SubSeq(C, pos + 1, size)
         \/ call.tail = 0 /\ pos = 0 /\ data = <<>>
  BY DEF WasRead
<1>2. at \in Paths /\ size \in Nat /\ pos \in Nat /\ call.tail \in Nat
  BY OffsetsAre DEF WasRead
<1>3. n \in DOMAIN disk[at] /\ C = disk[at][n]
  <2>1. n \in Nat \ {0} /\ DOMAIN disk[at] = 1 .. n
    BY <1>2, CurrentTyped, LenProperties
  <2>2. n \in DOMAIN disk[at]
    BY <2>1
  <2> QED BY <2>2 DEF Current
<1>4. Grows(at)
  BY <1>2 DEF FileInv
<1> HIDE DEF C, n
<1>5. /\ data \in Seq(Int) /\ Rising(data)
      /\ \A i \in DOMAIN data : \E j \in DOMAIN C : j <= size /\ C[j] = data[i]
  <2>1. CASE data = SubSeq(C, pos + 1, size)
    <3>1. LET cells == SubSeq(disk[at][n], pos + 1, size)
          IN /\ cells \in Seq(Int) /\ Rising(cells)
             /\ \A i \in DOMAIN cells : /\ pos + i \in DOMAIN disk[at][n] /\ pos + i <= size
                                        /\ cells[i] = disk[at][n][pos + i]
      BY <1>1, <1>2, <1>3, <1>4, CellsOf
    <3>2. ASSUME NEW i \in DOMAIN data PROVE \E j \in DOMAIN C : j <= size /\ C[j] = data[i]
      <4>1. pos + i \in DOMAIN C /\ pos + i <= size /\ data[i] = C[pos + i]
        BY <1>3, <2>1, <3>1
      <4> QED BY <4>1
    <3> QED BY <1>3, <2>1, <3>1, <3>2
  <2>2. CASE data = <<>>
    <3>1. DOMAIN data = {}
      BY <2>2
    <3>2. data \in Seq(Int)
      BY <2>2, EmptySeq
    <3> QED BY <3>1, <3>2 DEF Rising
  <2> QED BY <1>1, <2>1, <2>2
<1> DEFINE ls == LastLines(Split(data), call.tail)
<1>6. /\ ls \in Seq(Seq(Int)) /\ Ascending(ls)
      /\ \A x : Holds(ls, x) => x # NL /\ \E i \in DOMAIN data : data[i] = x
  BY <1>2, <1>5, LastRises
<1> HIDE DEF ls
<1>7. ASSUME NEW x, Holds(ls, x) PROVE x # NL /\ \E i \in DOMAIN C : i <= size /\ C[i] = x
  <2>1. x # NL
    BY <1>6, <1>7
  <2>2. PICK i \in DOMAIN data : data[i] = x
    BY <1>6, <1>7
  <2> QED BY <1>5, <2>1, <2>2
<1> QED BY <1>1, <1>2, <1>6, <1>7 DEF ls, C

\* What lines of a file that has none so far, and nothing before the offset left
\* to be read, keep sorted.
LEMMA SortedFirst ==
  ASSUME FileTyped, NEW p \in Paths, Grows(p), NEW ls \in Seq(Seq(Int)), Ascending(ls),
         UNCHANGED <<disk, written>>, off'[p] \in Nat, off'[p] <= Len(Current(p)),
         \A x : Holds(ls, x) => x # NL /\ \E i \in DOMAIN Current(p) : i <= off'[p] /\ Current(p)[i] = x,
         LinesOf(p) \in Seq(Seq(Int)), Blank(LinesOf(p)),
         LinesOf(p)' = LinesOf(p) \o ls, part'[p] = <<>>, pc' \notin {"open", "read"}
  PROVE  Sorted(p)'
<1> DEFINE A == LinesOf(p)
           n == Len(disk[p])
           T == Append(A \o ls, <<>>)
<1>1. /\ A \o ls \in Seq(Seq(Int)) /\ Ascending(A \o ls)
      /\ \A x : Holds(A \o ls, x) <=> Holds(ls, x)
  <2> HIDE DEF A
  <2>1. A \in Seq(Seq(Int)) /\ Ascending(A) /\ \A x : ~Holds(A, x)
    BY BlankAscend DEF A
  <2> QED BY <2>1, AscendConcat, ConcatProperties
<1>2. Ascending(T) /\ \A x : Holds(T, x) <=> Holds(ls, x)
  <2> DEFINE B == A \o ls
             none == <<>>
  <2>1. B \in Seq(Seq(Int)) /\ Ascending(B) /\ none \in Seq(Int) /\ Increasing(none) /\ DOMAIN none = {}
    BY <1>1, EmptySeq DEF Increasing
  <2> HIDE DEF B, none
  <2>2. Ascending(Append(B, none)) /\ \A x : Holds(Append(B, none), x) <=> Holds(B, x)
    BY <2>1, AscendNext
  <2>3. T = Append(B, none)
    BY DEF B, none
  <2> QED BY <1>1, <2>2, <2>3 DEF B
<1>3. Told(p)' = T
  BY DEF Told
<1>4. n \in Nat \ {0} /\ DOMAIN disk[p] = 1 .. n /\ Current(p) = disk[p][n]
  BY CurrentTyped, LenProperties DEF Current
<1> HIDE DEF T, n
<1>5. ASSUME NEW x, Holds(T, x) PROVE x \in 1 .. written' /\ \A c \in Unread(p)' : x < c
  <2>1. x # NL /\ \E i \in DOMAIN Current(p) : i <= off'[p] /\ Current(p)[i] = x
    BY <1>2, <1>5
  <2>2. PICK i \in DOMAIN disk[p][n] : i <= off'[p] /\ disk[p][n][i] = x
    BY <1>4, <2>1
  <2>3. n \in DOMAIN disk[p]
    BY <1>4
  <2>4. x \in 1 .. written'
    BY <2>1, <2>2, <2>3 DEF Grows
  <2>5. ASSUME NEW c \in Unread(p)' PROVE x < c
    <3>1. PICK k \in DOMAIN disk[p] : \E j \in DOMAIN disk[p][k] :
             c = disk[p][k][j] /\ c # NL /\ ToRead(p, k, j)'
      BY DEF Unread
    <3>2. PICK j \in DOMAIN disk[p][k] : c = disk[p][k][j] /\ c # NL /\ ToRead(p, k, j)'
      BY <3>1
    <3>3. Len(Current(p)) \in Nat /\ Current(p)' = Current(p)
      BY CurrentTyped DEF Current
    <3>4. k = n /\ j > off'[p]
      BY <3>2, <3>3 DEF ToRead, n
    <3>5. i \in Nat /\ j \in Nat
      <4>1. disk[p][n] \in Seq(Int)
        BY <1>4, CurrentTyped
      <4> QED BY <3>4, <4>1, LenProperties, SMTT(30)
    <3>6. i < j
      BY <2>2, <3>4, <3>5
    <3>7. Later(n, i, k, j)
      BY <3>4, <3>6 DEF Later
    <3> QED BY <2>1, <2>2, <2>3, <3>2, <3>7 DEF Grows
  <2> QED BY <2>4, <2>5
<1>6. Ascending(Told(p)') /\ \A x : Holds(Told(p)', x) => x \in 1 .. written' /\ \A c \in Unread(p)' : x < c
  BY <1>2, <1>3, <1>5
<1> QED BY <1>6 DEF Sorted, Ascending, Holds

\* The last lines of what was read are those of the whole file.
LEMMA TailIsPromised ==
  ASSUME FileInv, FileTyped, Chosen, WasRead, ~Reading
  PROVE  NotEmpty(LastLines(Split(data), call.tail)) =
           NotEmpty(LastLines(Whole(SubSeq(Current(at), 1, size)), call.tail))
<1> DEFINE C == Current(at)
           before == SubSeq(C, 1, pos)
           t == call.tail
           all == SubSeq(C, 1, size)
<1>1. /\ pos <= size /\ size <= Len(C)
      /\ \/ data = SubSeq(C, pos + 1, size)
         \/ t = 0 /\ pos = 0 /\ data = <<>>
  BY DEF WasRead
<1>2. at \in Paths /\ size \in Nat /\ pos \in Nat /\ t \in Nat /\ data \in Seq(Int)
  BY OffsetsAre, FileInvParts DEF WasRead, FileKinds
<1>3. C \in Seq(Int) /\ Len(C) \in Nat /\ \A i \in 1 .. Len(C) : C[i] \in Int
  <2>1. C \in Seq(Int)
    BY <1>2, CurrentTyped
  <2> HIDE DEF C
  <2> QED BY <2>1, LenProperties, ElementOfSeq
<1>4. pos = 0 \/ Newlines(data) > t
  <2>1. Newlines(data) \in Nat
    BY <1>2, NewlinesIs
  <2>2. pos = 0 \/ pos > 0
    BY <1>2
  <2>3. pos > 0 => ~(Newlines(data) <= t)
    BY DEF Reading
  <2>4. t \in Nat
    BY <1>2
  <2> HIDE DEF t
  <2> QED BY <2>1, <2>2, <2>3, <2>4
<1> HIDE DEF C, t
<1>p. /\ pos <= Len(C) /\ pos \in Nat /\ size \in Nat /\ Len(C) \in Nat /\ pos <= size
      /\ size <= Len(C)
  <2>1. pos <= size /\ size <= Len(C) /\ pos \in Nat /\ size \in Nat /\ Len(C) \in Nat
    BY <1>1, <1>2, <1>3, Zenon
  <2> QED BY <2>1
<1>5. before \in Seq(Int) /\ all \in Seq(Int)
  <2>1. \A i \in 1 .. pos : C[i] \in Int
    <3>1. \A i \in 1 .. pos : i \in 1 .. Len(C)
      BY <1>p
    <3> QED BY <1>3, <3>1
  <2>2. \A i \in 1 .. size : C[i] \in Int
    <3>1. \A i \in 1 .. size : i \in 1 .. Len(C)
      BY <1>p
    <3> QED BY <1>3, <3>1
  <2>3. 1 \in Int /\ pos \in Int /\ size \in Int
    BY <1>p
  <2>4. before \in Seq(Int)
    BY <2>1, <2>3, SubSeqProperties
  <2>5. all \in Seq(Int)
    BY <2>2, <2>3, SubSeqProperties
  <2> QED BY <2>4, <2>5
<1>6. pos = 0 => before = <<>>
  <2>1. 1 \in Int /\ 0 \in Int /\ 0 < 1
    OBVIOUS
  <2> QED BY <2>1, SubSeqEmpty
<1>7. CASE data = SubSeq(C, pos + 1, size)
  <2>1. before \o data = all
    <3>1. 1 \in 1 .. Len(C) + 1 /\ pos \in 1 - 1 .. Len(C) /\ size \in pos .. Len(C)
      BY <1>p
    <3> QED BY <1>3, <1>7, <3>1, ConcatAdjacentSubSeq
  <2> HIDE DEF before, all
  <2>2. NotEmpty(LastLines(Split(data), t)) = NotEmpty(LastLines(Whole(before \o data), t))
    BY <1>2, <1>4, <1>5, <1>6, LastAgree
  <2> QED BY <2>1, <2>2 DEF C, t, all
<1>8. CASE t = 0
  <2>1. Split(data) \in Seq(Seq(Int)) /\ Whole(all) \in Seq(Seq(Int))
    BY <1>2, <1>5, SplitIs, WholeIs
  <2>2. LastLines(Split(data), t) = <<>> /\ LastLines(Whole(all), t) = <<>>
    BY <1>8, <2>1, NoLast
  <2> QED BY <2>2 DEF C, t
<1> QED BY <1>1, <1>7, <1>8

LEMMA TailEmitExact ==
  ASSUME FileInv, FileTyped, Chosen, WasRead, ~Reading, call' = call,
         UNCHANGED <<disk, part>>, NEW p \in Paths, p = at, base[p] = -1, Exact(p),
         base'[p] = size, off'[p] = size,
         Emitted(p)' = NotEmpty(LastLines(Split(data), call.tail))
  PROVE  Exact(p)'
<1> DEFINE C == Current(p)
           none == SubSeq(C, size + 1, size)
           all == SubSeq(C, 1, size)
           ls == LastLines(Split(data), call.tail)
           old == LastLines(Whole(all), call.tail)
<1>1. at \in Paths /\ size \in Nat /\ size <= Len(C) /\ Len(C) \in Nat /\ C \in Seq(Int) /\ call.tail \in Nat
  BY OffsetsAre, CurrentTyped DEF WasRead
<1>2. NotEmpty(ls) = NotEmpty(old)
  BY TailIsPromised
<1>3. none = <<>>
  <2>1. \A i \in Nat : i + 1 \in Int /\ i \in Int /\ i < i + 1
    OBVIOUS
  <2> QED BY <1>1, <2>1, SubSeqEmpty
<1>4. Finished(none) = <<>> /\ Left(none) = <<>>
  BY <1>3, ParseEmpty
<1>5. all \in Seq(Int)
  <2>1. \A i \in 1 .. size : C[i] \in Int
    <3>1. ASSUME NEW i \in 1 .. size PROVE i \in 1 .. Len(C)
      BY <1>1
    <3> QED BY <1>1, <3>1, ElementOfSeq
  <2>2. 1 \in Int /\ size \in Int
    BY <1>1
  <2> QED BY <2>1, <2>2, SubSeqProperties
<1>6. Current(p)' = C /\ Len(disk'[p]) = Len(disk[p])
  BY DEF Current
<1>7. Promised(p)' = NotEmpty(old) \o NotEmpty(Finished(none))
  <2>1. Promised(p)' = NotEmpty(LastLines(Whole(SubSeq(Current(p)', 1, base'[p])), call'.tail))
                         \o NotEmpty(Finished(SubSeq(Current(p)', base'[p] + 1, off'[p])))
    BY DEF Promised, Whole, Finished, Left
  <2> QED BY <1>6, <2>1
<1> HIDE DEF none, ls, old, all
<1>8. NotEmpty(old) \in Seq(Seq(Int))
  <2>1. Whole(all) \in Seq(Seq(Int))
    BY <1>5, WholeIs
  <2>2. old \in Seq(Seq(Int))
    BY <1>1, <2>1, LastIs DEF old
  <2> QED BY <2>2, NotEmptyTyped
<1>9. Promised(p)' = NotEmpty(old)
  BY <1>4, <1>7, <1>8, NotEmptyNone, ConcatEmptySeq
<1>10. Emitted(p)' = NotEmpty(ls)
  BY DEF ls
<1>11. part'[p] = <<>>
  BY <1>1 DEF FileInv, Places
<1>12. part'[p] = Left(SubSeq(Current(p)', base'[p] + 1, off'[p]))
  BY <1>4, <1>6, <1>11 DEF none
<1>13. base'[p] \in 0 .. off'[p] /\ off'[p] <= Len(Current(p)')
  BY <1>1, <1>6
<1>14. Len(disk'[p]) = 1
  BY <1>6 DEF Exact
<1> QED BY <1>2, <1>9, <1>10, <1>12, <1>13, <1>14 DEF Exact

\* The last lines are shown.
LEMMA TailEmitInv ==
  ASSUME FileInv, FileTyped, VerdictInv, call \in Calls, Chosen, TailEmit
  PROVE  FileInv'
<1> DEFINE S == Split(data)
           ls == LastLines(S, call.tail)
<1>1. /\ call' = call /\ ~Reading /\ Put(Records(at, ls)) /\ mode' = mode
      /\ off' = [off EXCEPT ![at] = size] /\ base' = [base EXCEPT ![at] = size]
      /\ at' = at + 1 /\ pc' = "tail" /\ part' = part /\ data' = data
      /\ UNCHANGED <<writer, hurt, mixed>>
      /\ UNCHANGED <<files, disk, gone, written>>
  BY DEF TailEmit, writer
<1>2. PICK p \in Paths : p = at
  BY DEF TailEmit, FileTyped
<1>3. mode \in {"none", "stream"}
  BY DEF TailEmit, VerdictInv, Busy
<1>4. Output' = Output \o Records(p, ls)
  BY <1>1, <1>2, <1>3, PutOutput
<1>5. p \notin mixed => WasRead
  BY <1>2, IsRead DEF TailEmit
<1>6. FileKinds /\ Places /\ Grows(p) /\ (p \notin hurt => Exact(p)) /\ mixed \subseteq hurt
  BY <1>2 DEF FileInv, Places
<1>7. size \in Nat /\ files \in Nat /\ p \in Int
  <2>1. files \in Nat
    <3>1. files \in 1 .. MaxFiles
      BY DEF FileTyped
    <3> QED BY <3>1, FileBounds
  <2> QED BY <1>2, <2>1, OffsetsAre DEF Paths
<1>8. \A o \in Paths : base[o] = -1 <=> o >= p
  BY <1>2, FileInvParts DEF TailEmit, Turns, Tailing
<1>t. call.tail \in Nat
  BY TailOf
<1>9. ls \in Seq(Seq(Int))
  <2>1. S \in Seq(Seq(Int))
    BY <1>6, SplitIs DEF FileKinds
  <2> HIDE DEF S
  <2> QED BY <1>t, <2>1, LastIs
<1>10. base[p] = -1 /\ part[p] = <<>> /\ Blank(LinesOf(p))
  <2>1. base[p] = -1
    BY <1>2, <1>7, <1>8
  <2> QED BY <1>2, <1>6, <2>1 DEF Places
<1>s. p \notin mixed =>
        /\ Ascending(ls) /\ size <= Len(Current(p))
        /\ \A x : Holds(ls, x) => x # NL /\ \E i \in DOMAIN Current(p) : i <= size /\ Current(p)[i] = x
  BY <1>2, <1>5, TailShows
<1>l. ls = LastLines(Split(data), call.tail)
  OBVIOUS
<1> HIDE DEF ls, S
<1>11. /\ LinesOf(p) \in Seq(Seq(Int)) /\ LinesOf(p)' = LinesOf(p) \o ls
       /\ Emitted(p)' = NotEmpty(ls)
  <2> DEFINE rs == Records(p, ls)
  <2>1. rs \in Seq(ARecord) /\ LinesIn(rs, p) = ls
    BY <1>7, <1>9, RecordsIs
  <2>2. Output' = Output \o rs
    BY <1>4
  <2> HIDE DEF rs
  <2>3. /\ LinesOf(p)' = LinesOf(p) \o ls
        /\ Emitted(p)' = Emitted(p) \o NotEmpty(ls)
    BY <1>6, <2>1, <2>2, Puts
  <2>4. LinesOf(p) \in Seq(Seq(Int))
    BY <1>2, <1>6, LinesTyped
  <2>5. NotEmpty(LinesOf(p)) = <<>>
    BY <1>10, <2>4, NotEmptyBlank
  <2>6. Emitted(p) = <<>>
    BY <2>5 DEF Emitted
  <2>7. NotEmpty(ls) \in Seq(Seq(Int))
    BY <1>9, NotEmptyTyped
  <2>8. <<>> \o NotEmpty(ls) = NotEmpty(ls)
    BY <2>7, ConcatEmptySeq
  <2> QED BY <2>3, <2>4, <2>6, <2>8
<1>12. /\ off'[p] = size /\ base'[p] = size /\ part'[p] = <<>>
       /\ \A o \in Paths : o # p => off'[o] = off[o] /\ base'[o] = base[o] /\ part'[o] = part[o]
  <2>1. off \in [Paths -> 0 .. MaxWrites] /\ base \in [Paths -> Int]
    BY <1>6 DEF FileTyped, FileKinds
  <2> QED BY <1>1, <1>2, <1>10, <2>1
<1>13. part' \in [Paths -> Seq(Int)] /\ base' \in [Paths -> Int]
  <2>1. part \in [Paths -> Seq(Int)] /\ base \in [Paths -> Int] /\ size \in Int
    BY <1>6, <1>7 DEF FileKinds
  <2> QED BY <1>1, <2>1
<1>14. ASSUME p \notin mixed PROVE Sorted(p)'
  <2>1. off'[p] \in Nat /\ off'[p] <= Len(Current(p)) /\ pc' \notin {"open", "read"}
    BY <1>1, <1>7, <1>12, <1>14, <1>s
  <2>2. /\ Ascending(ls)
        /\ \A x : Holds(ls, x) => x # NL /\ \E i \in DOMAIN Current(p) : i <= off'[p] /\ Current(p)[i] = x
    BY <1>12, <1>14, <1>s
  <2>3. UNCHANGED <<disk, written>>
    BY <1>1
  <2> QED BY <1>6, <1>9, <1>10, <1>11, <1>12, <2>1, <2>2, <2>3, SortedFirst
<1>15. ASSUME p \notin hurt PROVE Exact(p)'
  <2>1. WasRead /\ Exact(p)
    BY <1>5, <1>6, <1>15
  <2>2. Emitted(p)' = NotEmpty(LastLines(Split(data), call.tail))
    BY <1>11, <1>l
  <2>3. UNCHANGED <<disk, part>>
    BY <1>1
  <2> QED BY <1>1, <1>2, <1>10, <1>12, <2>1, <2>2, <2>3, TailEmitExact
<1>16. Turns'
  <2>1. Paths' = Paths
    BY <1>1 DEF Paths
  <2>2. ASSUME NEW o \in Paths PROVE base'[o] = -1 <=> o >= p + 1
    <3>1. CASE o = p
      BY <1>7, <1>12, <3>1
    <3>2. CASE o # p
      <4>1. o \in Int
        BY DEF Paths
      <4> QED BY <1>7, <1>8, <1>12, <3>2, <4>1
    <3> QED BY <3>1, <3>2
  <2> QED BY <1>1, <1>2, <2>1, <2>2 DEF Turns, Tailing, Following
<1>17. UNCHANGED <<writer, hurt, mixed, data>> /\ base'[p] # -1 /\ pc' \in {"tail", "tick", "stat"}
  BY <1>1, <1>7, <1>12
<1>18. call' = call
  BY <1>1
<1> QED BY <1>4, <1>9, <1>12, <1>13, <1>14, <1>15, <1>16, <1>17, <1>18, ShowsInv

-----------------------------------------------------------------------------
(* The steps that show lines: what was appended *)

LEMMA RisingConcat ==
  ASSUME NEW r \in Seq(Int), NEW b \in Seq(Int), Increasing(r), Rising(b),
         \A i \in DOMAIN r, j \in DOMAIN b : b[j] # NL => r[i] < b[j]
  PROVE  /\ r \o b \in Seq(Int) /\ Rising(r \o b)
         /\ \A i \in DOMAIN (r \o b) : \/ \E j \in DOMAIN r : (r \o b)[i] = r[j]
                                       \/ \E j \in DOMAIN b : (r \o b)[i] = b[j]
<1> DEFINE w == r \o b
           m == Len(r)
           n == Len(b)
<1>1. m \in Nat /\ n \in Nat /\ DOMAIN r = 1 .. m /\ DOMAIN b = 1 .. n
  BY LenProperties
<1>2. /\ w \in Seq(Int) /\ Len(w) = m + n
      /\ \A i \in 1 .. m + n : w[i] = IF i <= m THEN r[i] ELSE b[i - m]
  BY ConcatProperties
<1> HIDE DEF w, m, n
<1>3. DOMAIN w = 1 .. m + n
  BY <1>2, LenProperties
<1>4. ASSUME NEW i \in DOMAIN w
      PROVE  \/ i <= m /\ i \in DOMAIN r /\ w[i] = r[i]
             \/ ~(i <= m) /\ i - m \in DOMAIN b /\ w[i] = b[i - m]
  <2>1. CASE i <= m
    BY <1>1, <1>2, <1>3, <2>1
  <2>2. CASE ~(i <= m)
    <3>1. i - m \in 1 .. n
      BY <1>1, <1>3, <2>2
    <3> QED BY <1>1, <1>2, <1>3, <2>2, <3>1
  <2> QED BY <2>1, <2>2
<1>5. ASSUME NEW i \in DOMAIN w, NEW j \in DOMAIN w, i < j, w[i] # NL, w[j] # NL PROVE w[i] < w[j]
  <2>0. i \in Int /\ j \in Int /\ m \in Int
    BY <1>1, <1>3
  <2>1. CASE i <= m /\ j <= m
    <3>1. i \in DOMAIN r /\ j \in DOMAIN r /\ w[i] = r[i] /\ w[j] = r[j]
      BY <1>4, <2>1
    <3> QED BY <1>5, <3>1 DEF Increasing
  <2>2. CASE i <= m /\ ~(j <= m)
    <3>1. i \in DOMAIN r /\ j - m \in DOMAIN b /\ w[i] = r[i] /\ w[j] = b[j - m]
      BY <1>4, <2>2
    <3> QED BY <1>5, <3>1
  <2>3. CASE ~(i <= m) /\ ~(j <= m)
    <3>1. i - m \in DOMAIN b /\ j - m \in DOMAIN b /\ w[i] = b[i - m] /\ w[j] = b[j - m]
      BY <1>4, <2>3
    <3>2. i - m < j - m
      BY <1>5, <2>0
    <3> QED BY <1>5, <3>1, <3>2 DEF Rising
  <2>4. ~(~(i <= m) /\ j <= m)
    BY <1>5, <2>0
  <2> QED BY <2>1, <2>2, <2>3, <2>4
<1>6. Rising(w)
  BY <1>5 DEF Rising
<1> QED BY <1>2, <1>4, <1>6 DEF w

\* What a poll reads.
BufferIs(p, b, e) ==
    /\ b \in Seq(Int) /\ Rising(b) /\ Len(b) = (IF pos < e THEN e - pos ELSE 0)
    /\ \A i \in DOMAIN b : /\ pos + i \in DOMAIN disk[p][fd] /\ pos + i <= e
                           /\ b[i] = disk[p][fd][pos + i]

LEMMA BufferOf ==
  ASSUME FileTyped, NEW p \in Paths, Grows(p), fd \in DOMAIN disk[p],
         NEW e \in Nat, e <= Len(disk[p][fd])
  PROVE  BufferIs(p, SubSeq(disk[p][fd], pos + 1, e), e)
<1>1. pos \in Nat
  BY OffsetsAre
<1> QED BY <1>1, CellsOf DEF BufferIs

\* What a poll has read of a file that was not disturbed before it was followed.
LEMMA PumpSorted ==
  ASSUME FileInv, FileTyped, Chosen, pc = "read", NEW p \in Paths, p = at, p \notin mixed,
         NEW e \in Nat, e <= Len(disk[p][fd]), NEW b, BufferIs(p, b, e),
         off'[p] = pos + Len(b), part'[p] = Left(part[p] \o b),
         LinesOf(p)' = LinesOf(p) \o Finished(part[p] \o b),
         UNCHANGED <<disk, written>>, pc' \notin {"open", "read"}
  PROVE  Sorted(p)'
<1> DEFINE A == LinesOf(p)
           r == part[p]
           w == r \o b
           F == Finished(w)
           l == Left(w)
           P == Pieces(w)
           n == Len(disk[p])
           C == Current(p)
<1>1. FileKinds /\ Polled /\ Grows(p) /\ Sorted(p)
  BY DEF FileInv
<1>2. /\ A \in Seq(Seq(Int)) /\ r \in Seq(Int)
  BY <1>1, LinesTyped
<1>3. /\ fd \in DOMAIN disk[p] /\ DOMAIN disk[p] = 1 .. n /\ n \in Nat \ {0} /\ fd \in 1 .. n
      /\ C = disk[p][n] /\ pos \in Nat /\ off[p] \in Nat
  <2>1. n \in Nat \ {0} /\ DOMAIN disk[p] = 1 .. n
    BY CurrentTyped, LenProperties
  <2>2. fd \in 1 .. n
    BY DEF FileTyped
  <2> QED BY <2>1, <2>2, OffsetsAre DEF Current
<1>4. /\ b \in Seq(Int) /\ Rising(b) /\ Len(b) = (IF pos < e THEN e - pos ELSE 0)
      /\ \A i \in DOMAIN b : /\ pos + i \in DOMAIN disk[p][fd] /\ pos + i <= e
                             /\ b[i] = disk[p][fd][pos + i]
  BY DEF BufferIs
<1>5. Ascending(Append(A, r)) /\ \A x : Holds(Append(A, r), x) => x \in 1 .. written /\ \A c \in Unread(p) : x < c
  BY <1>1 DEF Sorted, Told
<1> HIDE DEF A, r, n, C
<1>6. /\ Ascending(A) /\ Increasing(r) /\ \A x : Holds(A, x) => \A a \in DOMAIN r : x < r[a]
      /\ \A x : Holds(Append(A, r), x) <=> Holds(A, x) \/ \E a \in DOMAIN r : r[a] = x
  BY <1>2, <1>5, AscendNext
<1>7. DOMAIN b = 1 .. Len(b) /\ Len(b) \in Nat
  BY <1>4, LenProperties
<1>e. Len(b) = 0 => DOMAIN b = {}
  BY <1>7
<1>8. ASSUME NEW i \in DOMAIN b, b[i] # NL PROVE b[i] \in Unread(p) /\ b[i] \in 1 .. written
  <2>1. pos < pos + i
    BY <1>3, <1>7
  <2>2. Later(fd, pos, fd, pos + i)
    BY <2>1 DEF Later
  <2>3. ToRead(p, fd, pos + i)
    BY <2>2 DEF ToRead
  <2>4. b[i] \in 1 .. written
    BY <1>1, <1>3, <1>4, <1>8 DEF Grows
  <2>5. b[i] \in Int
    BY <1>4, <1>7, ElementOfSeq
  <2> QED BY <1>3, <1>4, <1>8, <2>3, <2>4, <2>5 DEF Unread
<1>9. \A i \in DOMAIN r, j \in DOMAIN b : b[j] # NL => r[i] < b[j]
  BY <1>5, <1>6, <1>8
<1>10. /\ w \in Seq(Int) /\ Rising(w)
       /\ \A i \in DOMAIN w : (\E j \in DOMAIN r : w[i] = r[j]) \/ (\E j \in DOMAIN b : w[i] = b[j])
  BY <1>2, <1>4, <1>6, <1>9, RisingConcat
<1> HIDE DEF w
<1>11. /\ P \in Seq(Seq(Int)) /\ Ascending(P)
       /\ \A x : Holds(P, x) => x # NL /\ \E i \in DOMAIN w : w[i] = x
  BY <1>10, ParseRises
<1>12. F \in Seq(Seq(Int)) /\ l \in Seq(Int) /\ P = Append(F, l)
  BY <1>10, FinishedTyped DEF Pieces
<1> HIDE DEF F, l, P
<1>13. ASSUME NEW x, Holds(P, x)
       PROVE  \/ \E a \in DOMAIN r : r[a] = x
              \/ \E i \in DOMAIN b : b[i] = x /\ b[i] # NL
  <2>1. x # NL
    BY <1>11, <1>13
  <2>2. PICK i \in DOMAIN w : w[i] = x
    BY <1>11, <1>13
  <2> QED BY <1>10, <2>1, <2>2
<1>14. ASSUME NEW x, NEW y, Holds(A, x), Holds(P, y) PROVE x < y
  <2>1. CASE \E a \in DOMAIN r : r[a] = y
    BY <1>6, <1>14, <2>1
  <2>2. CASE \E i \in DOMAIN b : b[i] = y /\ b[i] # NL
    BY <1>5, <1>6, <1>8, <1>14, <2>2
  <2> QED BY <1>13, <1>14, <2>1, <2>2
<1>15. /\ Ascending(A \o P)
       /\ \A x : Holds(A \o P, x) <=> Holds(A, x) \/ Holds(P, x)
  BY <1>2, <1>6, <1>11, <1>14, AscendConcat
<1>16. Told(p)' = A \o P
  <2>1. Told(p)' = Append(A \o F, l)
    BY DEF Told, A, F, l, w, r
  <2> DEFINE S == Seq(Int)
  <2>2. A \in Seq(S) /\ F \in Seq(S) /\ l \in S
    BY <1>2, <1>12
  <2> HIDE DEF S
  <2>3. A \o Append(F, l) = Append(A \o F, l)
    BY <2>2, AppendConcat
  <2> QED BY <1>12, <2>1, <2>3
<1>17. ASSUME NEW x, Holds(A \o P, x)
       PROVE  Holds(Append(A, r), x) \/ \E i \in DOMAIN b : b[i] = x /\ b[i] # NL
  BY <1>6, <1>13, <1>15, <1>17
<1>18. ASSUME NEW x, Holds(A \o P, x), NEW c \in Unread(p)' PROVE x < c
  <2>1. PICK k \in DOMAIN disk[p] : \E j \in DOMAIN disk[p][k] :
           c = disk[p][k][j] /\ c # NL /\ ToRead(p, k, j)'
    BY DEF Unread
  <2>2. PICK j \in DOMAIN disk[p][k] : c = disk[p][k][j] /\ c # NL /\ ToRead(p, k, j)'
    BY <2>1
  <2>3. Current(p)' = C
    BY DEF Current, C
  <2>4. k = n /\ (j > off'[p] \/ off'[p] > Len(C))
    BY <2>2, <2>3 DEF ToRead, n
  <2>5. /\ DOMAIN disk[p][n] = 1 .. Len(C) /\ Len(C) \in Nat /\ j \in 1 .. Len(C)
    <3>1. C \in Seq(Int)
      BY CurrentTyped DEF C
    <3>2. DOMAIN C = 1 .. Len(C) /\ Len(C) \in Nat
      BY <3>1, LenProperties
    <3> QED BY <1>3, <2>4, <3>2
  <2>6. fd < n \/ fd = n
    BY <1>3
  <2>7. fd = n => e <= Len(C)
    BY <1>3
  <2>8. off'[p] > Len(C) /\ fd = n => pos > Len(C) /\ Len(b) = 0
    BY <1>3, <1>4, <2>5, <2>7
  <2>9. CASE Holds(Append(A, r), x)
    <3>1. ToRead(p, k, j)
      <4>1. CASE fd < n
        BY <2>4, <4>1 DEF ToRead, Later
      <4>2. CASE fd = n /\ j > off'[p]
        <5>1. pos < j
          BY <1>3, <1>7, <2>5, <4>2
        <5> QED BY <2>4, <4>2, <5>1 DEF ToRead, Later
      <4>3. CASE fd = n /\ off'[p] > Len(C)
        <5>1. pos > Len(C)
          BY <2>8, <4>3
        <5>2. pos = off[p]
          BY <1>1, <1>3, <2>5, <5>1 DEF Polled
        <5> QED BY <2>4, <5>1, <5>2 DEF ToRead, C, n
      <4> QED BY <2>4, <2>6, <4>1, <4>2, <4>3
    <3>2. c \in Unread(p)
      <4>1. c \in Int
        BY DEF Unread
      <4> QED BY <2>2, <3>1, <4>1 DEF Unread
    <3> QED BY <1>5, <2>9, <3>2
  <2>10. CASE \E i \in DOMAIN b : b[i] = x /\ b[i] # NL
    <3>1. PICK i \in DOMAIN b : b[i] = x /\ b[i] # NL
      BY <2>10
    <3>2. Later(fd, pos + i, k, j)
      <4>1. CASE fd < n
        BY <2>4, <4>1 DEF Later
      <4>2. CASE fd = n
        <5>1. ~(off'[p] > Len(C))
          <6>1. Len(b) # 0
            BY <1>e, <3>1, Zenon
          <6> QED BY <2>8, <4>2, <6>1, Zenon
        <5>2. j > pos + Len(b)
          BY <2>4, <5>1
        <5>3. pos + i < j
          BY <1>3, <1>7, <2>5, <3>1, <5>2
        <5> QED BY <2>4, <4>2, <5>3 DEF Later
      <4> QED BY <2>6, <4>1, <4>2
    <3>3. pos + i \in DOMAIN disk[p][fd] /\ disk[p][fd][pos + i] = x /\ x # NL
      BY <1>4, <3>1
    <3>4. disk[p][fd][pos + i] < disk[p][k][j]
      BY <1>1, <1>3, <2>2, <3>2, <3>3 DEF Grows
    <3> QED BY <2>2, <3>3, <3>4
  <2> QED BY <1>17, <1>18, <2>9, <2>10
<1>19. ASSUME NEW x, Holds(A \o P, x) PROVE x \in 1 .. written
  <2>1. CASE Holds(Append(A, r), x)
    BY <1>5, <2>1
  <2>2. CASE \E i \in DOMAIN b : b[i] = x /\ b[i] # NL
    <3>1. PICK i \in DOMAIN b : b[i] = x /\ b[i] # NL
      BY <2>2
    <3> QED BY <1>8, <3>1
  <2> QED BY <1>17, <1>19, <2>1, <2>2
<1>20. /\ Ascending(Told(p)')
       /\ \A x : Holds(Told(p)', x) => x \in 1 .. written' /\ \A c \in Unread(p)' : x < c
  BY <1>15, <1>16, <1>18, <1>19
<1> QED BY <1>20 DEF Sorted, Ascending, Holds

LEMMA PartOf ==
  ASSUME NEW C \in Seq(Int), NEW a \in Nat, NEW b \in Nat, b <= Len(C)
  PROVE  SubSeq(C, a + 1, b) \in Seq(Int)
<1> DEFINE s == a + 1
<1>1. \A i \in s .. b : C[i] \in Int
  <2>1. ASSUME NEW i \in s .. b PROVE i \in 1 .. Len(C)
    BY LenProperties
  <2> QED BY <2>1, ElementOfSeq
<1>2. s \in Int /\ b \in Int
  OBVIOUS
<1> HIDE DEF s
<1>3. SubSeq(C, s, b) \in Seq(Int)
  BY <1>1, <1>2, SubSeqProperties
<1> QED BY <1>3 DEF s

\* A poll of a file that was only appended to goes on where the last one ended.
LEMMA ReadOn ==
  ASSUME NEW d \in Seq(Int), NEW b \in Seq(Int), NEW old \in Seq(Seq(Int))
  PROVE  /\ Left(Left(d) \o b) = Left(d \o b)
         /\ (NotEmpty(old) \o NotEmpty(Finished(d))) \o NotEmpty(Finished(Left(d) \o b)) =
               NotEmpty(old) \o NotEmpty(Finished(d \o b))
<1> DEFINE w == Left(d) \o b
           all == d \o b
<1>1. Finished(all) = Finished(d) \o Finished(w) /\ Left(all) = Left(w)
  BY ParseOn
<1>2. Finished(d) \in Seq(Seq(Int)) /\ Left(d) \in Seq(Int)
  BY FinishedTyped
<1>3. w \in Seq(Int)
  BY <1>2, ConcatProperties
<1> HIDE DEF w, all
<1>4. Finished(w) \in Seq(Seq(Int))
  BY <1>3, FinishedTyped
<1> DEFINE x == NotEmpty(old)
           y == NotEmpty(Finished(d))
           z == NotEmpty(Finished(w))
<1>5. x \in Seq(Seq(Int)) /\ y \in Seq(Seq(Int)) /\ z \in Seq(Seq(Int))
  BY <1>2, <1>4, NotEmptyTyped
<1>6. NotEmpty(Finished(all)) = y \o z
  BY <1>1, <1>2, <1>4, NotEmptyConcat
<1> HIDE DEF x, y, z
<1>7. (x \o y) \o z = x \o (y \o z)
  BY <1>5, Regroup
<1> QED BY <1>1, <1>6, <1>7 DEF x, y, z, w, all

LEMMA PartsJoin ==
  ASSUME NEW C \in Seq(Int), NEW a \in Nat, NEW m \in Nat, NEW n \in Nat, a <= m, m <= n, n <= Len(C)
  PROVE  /\ SubSeq(C, a + 1, m) \in Seq(Int) /\ SubSeq(C, m + 1, n) \in Seq(Int)
         /\ SubSeq(C, a + 1, m) \o SubSeq(C, m + 1, n) = SubSeq(C, a + 1, n)
<1>0. Len(C) \in Nat
  BY LenProperties
<1>1. SubSeq(C, a + 1, m) \in Seq(Int) /\ SubSeq(C, m + 1, n) \in Seq(Int)
  <2>1. m <= Len(C)
    BY <1>0
  <2> QED BY <2>1, PartOf
<1> DEFINE s == a + 1
<1>2. s \in 1 .. Len(C) + 1 /\ m \in s - 1 .. Len(C) /\ n \in m .. Len(C)
  BY <1>0
<1> HIDE DEF s
<1>3. SubSeq(C, s, m) \o SubSeq(C, m + 1, n) = SubSeq(C, s, n)
  BY <1>2, ConcatAdjacentSubSeq
<1> QED BY <1>1, <1>3 DEF s

News(p) == part[p] \o SubSeq(Current(p), off[p] + 1, size)

\* Of a file that was only appended to, a poll shows the lines that are finished
\* since the last, and keeps what is left over.
LEMMA PumpExact ==
  ASSUME FileInv, FileTyped, Chosen, call.tail \in Nat, call' = call, NEW p \in Paths, Exact(p),
         size <= Len(Current(p)), off[p] <= size, base[p] # -1,
         UNCHANGED <<disk, base>>, off'[p] = size,
         part'[p] = Left(News(p)), Emitted(p)' = Emitted(p) \o NotEmpty(Finished(News(p)))
  PROVE  Exact(p)'
<1> DEFINE C == Current(p)
           w == News(p)
           bas == base[p]
           o == off[p]
           begun_ == Whole(SubSeq(C, 1, bas))
           old == LastLines(begun_, call.tail)
<1>1. /\ Len(disk[p]) = 1 /\ o <= Len(C) /\ bas \in 0 .. o
      /\ Emitted(p) = Promised(p) /\ part[p] = Left(SubSeq(C, bas + 1, o))
  BY DEF Exact
<1>2. C \in Seq(Int) /\ Len(C) \in Nat /\ size \in Nat /\ o \in Nat
  BY OffsetsAre, CurrentTyped
<1>3. bas \in Nat /\ bas <= o /\ bas <= Len(C) /\ bas <= size
  BY <1>1, <1>2
<1>4. Promised(p) = NotEmpty(old) \o NotEmpty(Finished(SubSeq(C, bas + 1, o)))
  BY DEF Promised, Whole, Finished, Left
<1>5. Promised(p)' = NotEmpty(old) \o NotEmpty(Finished(SubSeq(C, bas + 1, size)))
  BY DEF Promised, Whole, Finished, Left, Current
<1>6. Current(p)' = C
  BY DEF Current
<1> HIDE DEF C
<1>7. old \in Seq(Seq(Int))
  <2>1. SubSeq(C, 0 + 1, bas) \in Seq(Int)
    BY <1>2, <1>3, PartOf
  <2>2. 0 + 1 = 1
    OBVIOUS
  <2>3. SubSeq(C, 1, bas) \in Seq(Int)
    BY <2>1, <2>2
  <2>4. begun_ \in Seq(Seq(Int))
    BY <2>3, WholeIs
  <2> HIDE DEF begun_
  <2> QED BY <2>4, LastIs
<1>8. part'[p] = Left(w) /\ Emitted(p)' = Emitted(p) \o NotEmpty(Finished(w))
  OBVIOUS
<1> HIDE DEF old
<1>9. /\ Left(w) = Left(SubSeq(C, bas + 1, size))
      /\ (NotEmpty(old) \o NotEmpty(Finished(SubSeq(C, bas + 1, o)))) \o NotEmpty(Finished(w)) =
           NotEmpty(old) \o NotEmpty(Finished(SubSeq(C, bas + 1, size)))
  <2> DEFINE d == SubSeq(C, bas + 1, o)
             b == SubSeq(C, o + 1, size)
             all == SubSeq(C, bas + 1, size)
  <2>1. w = Left(d) \o b
    BY <1>1 DEF News, C
  <2>2. d \in Seq(Int) /\ b \in Seq(Int) /\ d \o b = all
    <3>1. bas <= o /\ o <= size /\ size <= Len(C)
      BY <1>3 DEF C
    <3> HIDE DEF bas, o
    <3> QED BY <1>2, <1>3, <3>1, PartsJoin, SMTT(30)
  <2> HIDE DEF d, b, all, w
  <2>3. /\ Left(Left(d) \o b) = Left(d \o b)
        /\ (NotEmpty(old) \o NotEmpty(Finished(d))) \o NotEmpty(Finished(Left(d) \o b)) =
              NotEmpty(old) \o NotEmpty(Finished(d \o b))
    BY <1>7, <2>2, ReadOn
  <2>4. /\ Left(w) = Left(all)
        /\ (NotEmpty(old) \o NotEmpty(Finished(d))) \o NotEmpty(Finished(w)) =
              NotEmpty(old) \o NotEmpty(Finished(all))
    BY <2>1, <2>2, <2>3
  <2> QED BY <2>4 DEF d, all
<1>10. Emitted(p)' = Promised(p)'
  BY <1>1, <1>4, <1>5, <1>8, <1>9
<1>11. base'[p] = bas /\ bas \in 0 .. size /\ size <= Len(C)
  BY <1>2, <1>3 DEF C
<1>12. /\ Len(disk'[p]) = 1 /\ off'[p] <= Len(Current(p)') /\ base'[p] \in 0 .. off'[p]
       /\ part'[p] = Left(SubSeq(Current(p)', base'[p] + 1, off'[p]))
  BY <1>1, <1>6, <1>8, <1>9, <1>11
<1> QED BY <1>10, <1>12 DEF Exact

\* A poll shows what it read.
LEMMA PumpInv ==
  ASSUME FileInv, FileTyped, VerdictInv, call \in Calls, Chosen, Pump
  PROVE  FileInv'
<1> DEFINE D == disk[at][fd]
           e == IF size < Len(D) THEN size ELSE Len(D)
           b == SubSeq(D, pos + 1, e)
           w == part[at] \o b
           ls == Finished(w)
<1>1. /\ call' = call /\ pc = "read" /\ mode' = mode
      /\ off' = [off EXCEPT ![at] = pos + Len(b)] /\ Put(Records(at, ls))
      /\ part' = [part EXCEPT ![at] = Left(w)]
      /\ UNCHANGED <<writer, data, watch>>
      /\ UNCHANGED <<files, disk, gone, written, base, hurt, mixed>>
      /\ pc' \in {"tick", "stat"}
  BY DEF Pump, Finished, Left, Onward, writer, watch
<1>2. PICK p \in Paths : p = at
  BY <1>1 DEF FileTyped
<1>3. FileKinds /\ Polled /\ Turns /\ Grows(p) /\ (p \notin hurt => Exact(p)) /\ mixed \subseteq hurt
  BY DEF FileInv, Places
<1>4. fd \in DOMAIN disk[p] /\ D \in Seq(Int) /\ pos \in Nat /\ size \in Nat
  <2>1. disk[p] \in Seq(Seq(Int)) /\ DOMAIN disk[p] = 1 .. Len(disk[p])
    BY CurrentTyped, LenProperties
  <2>2. fd \in 1 .. Len(disk[p])
    BY <1>1, <1>2 DEF FileTyped
  <2>3. D \in Seq(Int)
    BY <1>2, <2>1, <2>2, ElementOfSeq
  <2> QED BY <2>1, <2>2, <2>3, OffsetsAre
<1>d. D = disk[p][fd]
  BY <1>2
<1>t. call.tail \in Nat
  BY TailOf
<1> HIDE DEF D
<1>5. e \in Nat /\ e <= Len(D) /\ Len(D) \in Nat /\ (size <= Len(D) => e = size)
  <2>1. Len(D) \in Nat
    BY <1>4, LenProperties
  <2> QED BY <1>4, <2>1
<1> HIDE DEF e
<1>6. BufferIs(p, b, e)
  <2>1. e <= Len(disk[p][fd])
    BY <1>5, <1>d
  <2>2. BufferIs(p, SubSeq(disk[p][fd], pos + 1, e), e)
    BY <1>3, <1>4, <1>5, <2>1, BufferOf
  <2> QED BY <1>d, <2>2
<1>b. b = SubSeq(D, pos + 1, e)
  OBVIOUS
<1> HIDE DEF b
<1>7. b \in Seq(Int) /\ part[p] \in Seq(Int) /\ w = part[p] \o b
  BY <1>2, <1>3, <1>6 DEF BufferIs, FileKinds
<1>8. w \in Seq(Int)
  BY <1>7, ConcatProperties
<1> HIDE DEF w
<1>9. ls \in Seq(Seq(Int)) /\ Left(w) \in Seq(Int) /\ ls = Finished(w)
  BY <1>8, FinishedTyped
<1> HIDE DEF ls
<1>10. mode \in {"none", "stream"}
  BY <1>1 DEF VerdictInv, Busy
<1>11. Output' = Output \o Records(p, ls)
  BY <1>1, <1>2, <1>10, PutOutput
<1>12. /\ off'[p] = pos + Len(b) /\ part'[p] = Left(w)
       /\ \A o \in Paths : o # p => off'[o] = off[o] /\ base'[o] = base[o] /\ part'[o] = part[o]
  <2>1. off \in [Paths -> 0 .. MaxWrites] /\ part \in [Paths -> Seq(Int)]
    BY <1>3 DEF FileTyped, FileKinds
  <2> QED BY <1>1, <1>2, <2>1
<1>13. part' \in [Paths -> Seq(Int)] /\ base' \in [Paths -> Int]
  BY <1>1, <1>3, <1>9 DEF FileKinds
<1>14. /\ LinesOf(p)' = LinesOf(p) \o ls
       /\ Emitted(p)' = Emitted(p) \o NotEmpty(ls)
  <2> DEFINE rs == Records(p, ls)
  <2>0. p \in Int
    BY DEF Paths
  <2>1. rs \in Seq(ARecord) /\ LinesIn(rs, p) = ls
    BY <1>9, <2>0, RecordsIs
  <2>2. Output' = Output \o rs
    BY <1>11
  <2> HIDE DEF rs
  <2> QED BY <1>3, <2>1, <2>2, Puts
<1>15. base[p] # -1
  BY <1>1, <1>3 DEF Turns, Following
<1>16. ASSUME p \notin mixed PROVE Sorted(p)'
  <2>1. e <= Len(disk[p][fd])
    BY <1>5, <1>d
  <2>2. LinesOf(p)' = LinesOf(p) \o Finished(part[p] \o b) /\ part'[p] = Left(part[p] \o b)
    BY <1>7, <1>9, <1>12, <1>14
  <2>3. UNCHANGED <<disk, written>> /\ pc' \notin {"open", "read"}
    BY <1>1
  <2> QED BY <1>1, <1>2, <1>5, <1>6, <1>12, <1>16, <2>1, <2>2, <2>3, PumpSorted
<1>17. ASSUME p \notin hurt PROVE Exact(p)'
  <2>1. Exact(p) /\ pos = off[p] /\ pos <= size /\ size <= Len(Current(p))
    BY <1>1, <1>2, <1>3, <1>17 DEF Polled
  <2>2. Len(disk[p]) = 1
    BY <2>1 DEF Exact
  <2>3. D = Current(p)
    <3>1. fd \in 1 .. Len(disk[p])
      BY <1>1, <1>2 DEF FileTyped
    <3>2. fd = 1
      BY <2>2, <3>1
    <3> QED BY <1>d, <2>2, <3>2 DEF Current
  <2>4. e = size
    BY <1>5, <2>1, <2>3
  <2>5. b = SubSeq(Current(p), off[p] + 1, size)
    BY <1>b, <2>1, <2>3, <2>4
  <2>6. pos + Len(b) = size
    <3>1. Len(b) = IF pos < size THEN size - pos ELSE 0
      BY <1>6, <2>4 DEF BufferIs
    <3> QED BY <1>4, <2>1, <3>1
  <2>7. off'[p] = size /\ off[p] <= size
    BY <1>12, <2>1, <2>6
  <2>8. part'[p] = Left(News(p)) /\ Emitted(p)' = Emitted(p) \o NotEmpty(Finished(News(p)))
    BY <1>7, <1>9, <1>12, <1>14, <2>5 DEF News
  <2>9. UNCHANGED <<disk, base>>
    BY <1>1
  <2> QED BY <1>1, <1>15, <1>t, <2>1, <2>7, <2>8, <2>9, PumpExact
<1>18. Turns'
  <2>1. Paths' = Paths
    BY <1>1 DEF Paths
  <2> QED BY <1>1, <1>3, <2>1 DEF Turns, Tailing, Following
<1>19. UNCHANGED <<writer, hurt, mixed, data>> /\ base'[p] # -1 /\ pc' \in {"tail", "tick", "stat"} /\ call' = call
  BY <1>1, <1>15
<1> QED BY <1>9, <1>11, <1>12, <1>13, <1>16, <1>17, <1>18, <1>19, ShowsInv

-----------------------------------------------------------------------------
(* The whole *)

\* An invocation that reads files is at no place of another adapter.
OwnPlace == Chosen => pc \notin {"launch", "scan", "wait", "loop", "fetch", "asked"}

\* What the steps of an invocation that reads files are.
LEMMA FilesOnly ==
  ASSUME OwnPlace, Chosen, [Next]_vars
  PROVE  \/ UNCHANGED <<run, filevars>>
         \/ (Step \/ BadRequest \/ Panics \/ Cancel) /\ UNCHANGED filevars
         \/ Writer
         \/ FileStep \/ StopFollow
<1>1. CASE UNCHANGED vars
  BY <1>1 DEF vars
<1>2. ~ChildStep /\ ~SlsStep
  BY ChildElse, SlsElse DEF OwnPlace, Chosen
<1>3. CASE (Program \/ KillChild \/ Arrive \/ Second) /\ UNCHANGED filevars
  BY <1>3 DEF Program, Write, Exit, HeirExits, KillChild, Arrive, Second
<1> QED BY <1>1, <1>2, <1>3 DEF Next

\* And stays so.
LEMMA OwnPlaceNext == OwnPlace /\ [Next]_vars => OwnPlace'
<1> SUFFICES ASSUME OwnPlace, [Next]_vars, Chosen' PROVE pc' \notin {"launch", "scan", "wait", "loop", "fetch", "asked"}
  BY DEF OwnPlace
<1>1. Chosen
  BY CallIs DEF Chosen
<1>2. CASE UNCHANGED <<run, filevars>>
  BY <1>1, <1>2 DEF run, OwnPlace
<1>3. CASE Step \/ BadRequest \/ Panics \/ Cancel
  BY <1>1, <1>3 DEF Step, EarlyErr, Targets, Dispatch, Finalize, Finish, BadRequest, Panics, Cancel,
     Refuse, Return, OwnPlace
<1>4. CASE Writer
  BY <1>1, <1>4 DEF Writer, Log, Cut, Truncate, Rotate, Create, run, OwnPlace
<1>5. CASE Open \/ TailOpen \/ TailFails \/ TailRead \/ TailEmit \/ TailDone
  BY <1>1, <1>5 DEF Open, TailOpen, TailFails, TailRead, TailEmit, TailDone, Produced, Return, run, OwnPlace
<1>6. CASE Tick \/ Transient \/ Stat \/ PumpOpen \/ Pump
  BY <1>1, <1>6 DEF Tick, Transient, Stat, PumpOpen, Pump, Onward
<1>7. CASE Listed \/ Checked \/ StopFollow
  BY <1>1, <1>7 DEF Listed, Checked, StopFollow, Produced, Diagnosed, Refuse, Return
<1> QED BY <1>1, <1>2, <1>3, <1>4, <1>5, <1>6, <1>7, FilesOnly DEF FileStep

\* FileInv is kept by every step.
LEMMA FileNext_Inv ==
  ASSUME FileInv, OwnPlace, FileTyped, VerdictInv, OutTyped, call \in Calls, [Next]_vars
  PROVE  FileInv'
<1> SUFFICES ASSUME Chosen PROVE FileInv'
  <2>1. CASE ~Chosen
    <3>1. ~Chosen'
      BY <2>1, CallIs DEF Chosen
    <3> QED BY <3>1 DEF FileInv
  <2> QED BY <2>1
<1>1. CASE UNCHANGED <<run, filevars>>
  <2>1. call' = call /\ pc' = pc /\ Output' = Output
    BY <1>1 DEF run, output, Output
  <2> QED BY <1>1, <2>1, FilesStill
<1>2. CASE (Step \/ BadRequest \/ Panics \/ Cancel) /\ UNCHANGED filevars
  BY <1>2, RunInv
<1>3. CASE Writer
  BY <1>3, WriterInv
<1>4. CASE Open \/ TailFails \/ TailDone \/ StopFollow \/ Tick
  BY <1>4, TurnsInv
<1>5. CASE TailOpen
  BY <1>5, TailOpenInv
<1>6. CASE TailRead
  BY <1>6, TailReadInv
<1>7. CASE TailEmit
  BY <1>7, TailEmitInv
<1>8. CASE Transient \/ Stat \/ PumpOpen
  BY <1>8, FollowsInv
<1>9. CASE Pump
  BY <1>9, PumpInv
<1>10. ~Listed /\ ~Checked
  BY DEF Listed, Checked, Asked, Chosen
<1> QED
  BY <1>1, <1>2, <1>3, <1>4, <1>5, <1>6, <1>7, <1>8, <1>9, <1>10, FilesOnly DEF FileStep

\* What logcli shows is true of its source, whatever the number of files, the
\* lines that are asked for, the size of a chunk, and how often the writer, the
\* polls and their failures interrupt each other: of a file that is only
\* appended to, its last lines and then each line once it is finished, nothing
\* lost and nothing twice; of a file that is truncated or rotated while it is
\* followed, no cell twice or out of order; of a program and of a logstore, what
\* ProgramIsPassedOn and SlsShowsTheRows say.
THEOREM LogIsTruthful == Spec => []Truthful
<1> DEFINE I == LogInv /\ FileInv /\ OwnPlace
<1>1. Init => I
  <2>1. Init => OwnPlace
    BY DEF Init, RunInit, OwnPlace
  <2> QED BY <2>1, LogInit_Inv, FileInit_Inv
<1>2. I /\ [Next]_vars => I'
  <2> SUFFICES ASSUME I, [Next]_vars PROVE I'
    OBVIOUS
  <2>1. LogInv'
    BY LogNext_Inv
  <2>2. OwnPlace'
    BY OwnPlaceNext
  <2>3. FileInv'
    BY FileNext_Inv DEF LogInv
  <2> QED BY <2>1, <2>2, <2>3
<1>3. I => Truthful
  BY FileShown, ChildShown, SlsShown DEF LogInv, Truthful
<1> QED BY <1>1, <1>2, <1>3, PTL DEF Spec
===============================================================================
