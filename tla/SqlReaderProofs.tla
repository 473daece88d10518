--------------------------- MODULE SqlReaderProofs ---------------------------
(***************************************************************************)
(* Theorems of SqlReader, for every text a client may send: the lexer      *)
(* covers it, the parser keeps all of its tokens, and both move on.        *)
(*                                                                         *)
(* The lexer: a call of next passes blanks, comments and quotes and then   *)
(* gives a token spelled as the text from there on (ReadFrom).             *)
(*                                                                         *)
(* The parser: a rule of the descent fails, or moves on and gives a tree   *)
(* that prints the tokens it moved over, in two steps of the printer for   *)
(* each at most (Goes).  It asks other rules only about later positions,   *)
(* so the descent is a function, and does so from every position.  Both    *)
(* are shown by the last position at which they would not hold.            *)
(*                                                                         *)
(* The invariant: what was lexed covers the text up to the lexer, and the  *)
(* statements so far print the tokens before the parser (Parsed).  The     *)
(* properties speak of a query that was read to its end, or of numbers of  *)
(* statements and tokens alone; neither is kept by a step by itself.       *)
(***************************************************************************)
EXTENDS SqlReader, NatSets, SequenceTheorems, FiniteSetTheorems

-----------------------------------------------------------------------------
(* Sequences of anything: nodes of a tree are of no set. *)

IsSeq(s) == s \in Seq({s[i] : i \in DOMAIN s})

LEMMA SeqIs ==
  ASSUME NEW S, NEW s \in Seq(S)
  PROVE  /\ IsSeq(s) /\ Len(s) \in Nat /\ DOMAIN s = 1..Len(s)
         /\ \A i \in 1..Len(s) : s[i] \in S
<1> DEFINE R == {s[i] : i \in DOMAIN s}
<1>1. Len(s) \in Nat /\ DOMAIN s = 1..Len(s) /\ s \in [1..Len(s) -> S]
  BY LenProperties
<1>2. \A i \in 1..Len(s) : s[i] \in R
  BY <1>1
<1>3. s \in [1..Len(s) -> R]
  BY <1>1, <1>2
<1>4. s \in Seq(R)
  BY <1>1, <1>3, SeqDef
<1>5. QED
  BY <1>1, <1>4 DEF IsSeq

LEMMA LenIs ==
  ASSUME NEW s, IsSeq(s)
  PROVE  Len(s) \in Nat /\ DOMAIN s = 1..Len(s)
  BY LenProperties DEF IsSeq

(* Any set that has the elements will do. *)
LEMMA SeqIn ==
  ASSUME NEW S, NEW s, IsSeq(s), \A i \in 1..Len(s) : s[i] \in S
  PROVE  s \in Seq(S)
<1>1. {s[i] : i \in DOMAIN s} \subseteq S
  BY LenIs
<1>2. QED
  BY <1>1, SeqMonotonic DEF IsSeq

LEMMA FunctionIsSeq ==
  ASSUME NEW n \in Nat, NEW s, s = [i \in 1..n |-> s[i]]
  PROVE  IsSeq(s) /\ Len(s) = n
<1> DEFINE R == {s[i] : i \in DOMAIN s}
<1>1. DOMAIN s = 1..n
  BY Zenon
<1>2. s \in [1..n -> R]
  BY <1>1
<1>3. s \in Seq(R)
  BY <1>2, SeqDef
<1>4. Len(s) = n
  BY <1>1, <1>3, LenProperties
<1>5. QED
  BY <1>3, <1>4 DEF IsSeq

LEMMA NothingIs == IsSeq(<<>>) /\ Len(<<>>) = 0
  BY EmptySeq, SeqIs

LEMMA OneIs ==
  ASSUME NEW x
  PROVE  IsSeq(<<x>>) /\ Len(<<x>>) = 1 /\ <<x>>[1] = x
<1>1. <<x>> \in Seq({x})
  OBVIOUS
<1>2. QED
  BY <1>1, SeqIs

LEMMA ConcatIs ==
  ASSUME NEW s, NEW t, IsSeq(s), IsSeq(t)
  PROVE  /\ IsSeq(s \o t)
         /\ Len(s \o t) = Len(s) + Len(t)
         /\ \A i \in 1..Len(s) : (s \o t)[i] = s[i]
         /\ \A i \in 1..Len(t) : (s \o t)[Len(s) + i] = t[i]
<1> DEFINE S == {s[i] : i \in DOMAIN s} \cup {t[i] : i \in DOMAIN t}
<1>1. s \in Seq(S) /\ t \in Seq(S)
  BY SeqIn, LenIs
<1>2. Len(s) \in Nat /\ Len(t) \in Nat
  BY LenIs
<1>3. /\ s \o t \in Seq(S) /\ Len(s \o t) = Len(s) + Len(t)
      /\ \A i \in 1..(Len(s) + Len(t)) : (s \o t)[i] = IF i <= Len(s) THEN s[i] ELSE t[i - Len(s)]
  BY <1>1, ConcatProperties
<1> HIDE DEF S
<1>4. \A i \in 1..Len(s) : (s \o t)[i] = s[i]
  BY <1>2, <1>3
<1>5. ASSUME NEW i \in 1..Len(t)
      PROVE  (s \o t)[Len(s) + i] = t[i]
  <2>1. Len(s) + i \in 1..(Len(s) + Len(t)) /\ ~(Len(s) + i <= Len(s)) /\ Len(s) + i - Len(s) = i
    BY <1>2
  <2>2. QED
    BY <1>3, <2>1
<1>6. IsSeq(s \o t)
  BY <1>3, SeqIs
<1>7. QED
  BY <1>3, <1>4, <1>5, <1>6

LEMMA ConcatThree ==
  ASSUME NEW s, NEW t, NEW u, IsSeq(s), IsSeq(t), IsSeq(u)
  PROVE  (s \o t) \o u = s \o (t \o u)
<1> DEFINE S == {s[i] : i \in DOMAIN s} \cup {t[i] : i \in DOMAIN t} \cup {u[i] : i \in DOMAIN u}
<1>1. s \in Seq(S) /\ t \in Seq(S) /\ u \in Seq(S)
  BY SeqIn, LenIs
<1>2. QED
  BY <1>1, ConcatAssociative

LEMMA ConcatWithin ==
  ASSUME NEW x, NEW s, NEW y, IsSeq(s)
  PROVE  <<x>> \o (s \o <<y>>) = (<<x>> \o s) \o <<y>>
  BY OneIs, ConcatThree

LEMMA ConcatNothing ==
  ASSUME NEW s, IsSeq(s)
  PROVE  s \o <<>> = s /\ <<>> \o s = s
  BY ConcatEmptySeq DEF IsSeq

LEMMA PushIs ==
  ASSUME NEW x, NEW s, IsSeq(s)
  PROVE  <<x>> \o s # <<>> /\ Head(<<x>> \o s) = x /\ Tail(<<x>> \o s) = s
<1> DEFINE t == <<x>> \o s
<1>1. /\ IsSeq(t) /\ Len(t) = 1 + Len(s) /\ t[1] = x
      /\ \A i \in 1..Len(s) : t[1 + i] = s[i]
  BY ConcatIs, OneIs
<1>2. Len(s) \in Nat
  BY LenIs
<1> HIDE DEF t
<1>3. t # <<>>
  BY <1>1, <1>2, NothingIs
<1>4. Head(t) = t[1]
  BY DEF Head
<1> DEFINE S == {s[i] : i \in DOMAIN s} \cup {t[i] : i \in DOMAIN t}
<1>5. t \in Seq(S) /\ s \in Seq(S)
  BY <1>1, SeqIn, LenIs
<1>6. /\ Tail(t) \in Seq(S) /\ Len(Tail(t)) = Len(s)
      /\ \A i \in 1..Len(Tail(t)) : Tail(t)[i] = t[i + 1]
  BY <1>1, <1>2, <1>3, <1>5, HeadTailProperties
<1> HIDE DEF S
<1>7. \A i \in 1..Len(s) : Tail(t)[i] = s[i]
  BY <1>1, <1>2, <1>6
<1>8. Tail(t) = s
  BY <1>5, <1>6, <1>7, SeqEqual
<1>9. QED
  BY <1>1, <1>3, <1>4, <1>8 DEF t

LEMMA AppendIs ==
  ASSUME NEW s, NEW x, IsSeq(s)
  PROVE  Append(s, x) = s \o <<x>>
<1> DEFINE S == {s[i] : i \in DOMAIN s} \cup {x}
<1>1. s \in Seq(S) /\ x \in S
  BY SeqIn, LenIs
<1>2. QED
  BY <1>1, AppendIsConcat

-----------------------------------------------------------------------------
(* The printer runs. *)

(* A run of the printer for n steps. *)
PrinterRun(page, n, g) ==
  /\ g = [i \in 0..n |-> g[i]]
  /\ g[0] = page
  /\ \A i \in Nat : i < n => g[i + 1] = PrintStep(g[i])

LEMMA PrinterRuns ==
  ASSUME NEW page, NEW n \in Nat
  PROVE  \E g : PrinterRun(page, n, g)
<1> DEFINE Bad == {m \in Nat : ~\E g : PrinterRun(page, m, g)}
<1>1. SUFFICES ASSUME Bad # {} PROVE FALSE
  OBVIOUS
<1>2. PICK m \in Bad : \A k \in Bad : m <= k
  BY <1>1, LeastElement
<1>3. CASE m = 0
  <2>1. PrinterRun(page, 0, [i \in 0..0 |-> page])
    BY DEF PrinterRun
  <2>2. QED
    BY <1>2, <1>3, <2>1
<1>4. CASE m # 0
  <2>1. m - 1 \in Nat /\ m - 1 \notin Bad
    BY <1>2, <1>4
  <2>2. PICK g : PrinterRun(page, m - 1, g)
    BY <2>1
  <2> DEFINE h == [i \in 0..m |-> IF i = m THEN PrintStep(g[m - 1]) ELSE g[i]]
  <2>3. h = [i \in 0..m |-> h[i]] /\ h[0] = page
    BY <1>4, <2>2 DEF PrinterRun
  <2>4. ASSUME NEW i \in Nat, i < m
        PROVE  h[i + 1] = PrintStep(h[i])
    <3>1. i \in 0..m /\ i + 1 \in 0..m /\ i # m
      BY <2>4
    <3>2. h[i] = g[i]
      BY <3>1
    <3>3. CASE i + 1 = m
      BY <3>1, <3>2, <3>3
    <3>4. CASE i + 1 # m
      <4>1. i < m - 1
        BY <2>4, <3>4
      <4>2. g[i + 1] = PrintStep(g[i])
        BY <2>2, <4>1 DEF PrinterRun
      <4>3. QED
        BY <3>1, <3>2, <3>4, <4>2
    <3>5. QED
      BY <3>3, <3>4
  <2>5. PrinterRun(page, m, h)
    BY <2>3, <2>4 DEF PrinterRun
  <2>6. QED
    BY <1>2, <2>5
<1>5. QED
  BY <1>3, <1>4

LEMMA PrinterRunsAgree ==
  ASSUME NEW page, NEW n \in Nat, NEW m \in Nat, NEW g, NEW h,
         PrinterRun(page, n, g), PrinterRun(page, m, h),
         NEW i \in Nat, i <= n, i <= m
  PROVE  g[i] = h[i]
<1> DEFINE Bad == {k \in Nat : k <= n /\ k <= m /\ g[k] # h[k]}
<1>1. SUFFICES ASSUME Bad # {} PROVE FALSE
  OBVIOUS
<1>2. PICK k \in Bad : \A j \in Bad : k <= j
  BY <1>1, LeastElement
<1>3. CASE k = 0
  BY <1>2, <1>3 DEF PrinterRun
<1>4. CASE k # 0
  <2>1. k - 1 \in Nat /\ k - 1 \notin Bad /\ k - 1 < n /\ k - 1 < m /\ (k - 1) + 1 = k
    BY <1>2, <1>4
  <2>2. g[k - 1] = h[k - 1]
    BY <2>1
  <2>3. g[k] = PrintStep(g[k - 1]) /\ h[k] = PrintStep(h[k - 1])
    BY <2>1 DEF PrinterRun
  <2>4. QED
    BY <1>2, <2>2, <2>3
<1>5. QED
  BY <1>3, <1>4

LEMMA PrintingIs ==
  ASSUME NEW page
  PROVE  /\ Printing(page)[0] = page
         /\ \A n \in Nat : Printing(page)[n + 1] = PrintStep(Printing(page)[n])
<1> DEFINE F(f) == [n \in Nat |-> IF n = 0 THEN page ELSE PrintStep(f[n - 1])]
           R(n) == CHOOSE g : PrinterRun(page, n, g)
           run == [n \in Nat |-> R(n)[n]]
<1>1. \A n \in Nat : PrinterRun(page, n, R(n))
  BY PrinterRuns
<1>2. run = F(run)
  <2>1. ASSUME NEW n \in Nat
        PROVE  run[n] = F(run)[n]
    <3>1. CASE n = 0
      BY <1>1, <3>1 DEF PrinterRun
    <3>2. CASE n # 0
      <4>1. n - 1 \in Nat /\ n - 1 < n /\ n - 1 <= n - 1 /\ n - 1 <= n /\ (n - 1) + 1 = n
        BY <3>2
      <4>2. R(n)[n] = PrintStep(R(n)[n - 1])
        BY <1>1, <4>1 DEF PrinterRun
      <4>3. R(n)[n - 1] = R(n - 1)[n - 1]
        <5> HIDE DEF R
        <5>1. QED
          BY <1>1, <4>1, PrinterRunsAgree
      <4> HIDE DEF R
      <4>4. QED
        BY <3>2, <4>1, <4>2, <4>3
    <3>3. QED
      BY <3>1, <3>2
  <2>2. QED
    BY <2>1
<1> HIDE DEF run
<1>3. Printing(page) = CHOOSE f : f = F(f)
  BY DEF Printing
<1>4. Printing(page) = F(Printing(page))
  BY <1>2, <1>3
<1>5. PICK f : f = Printing(page)
  OBVIOUS
<1>6. f = F(f)
  BY <1>4, <1>5
<1>7. f[0] = page
  BY <1>6
<1>8. ASSUME NEW n \in Nat
      PROVE  f[n + 1] = PrintStep(f[n])
  BY <1>6
<1>9. QED
  BY <1>5, <1>7, <1>8

(* Printing is printing for a while, and then for the rest. *)
LEMMA PrintingGoesOn ==
  ASSUME NEW page, NEW m \in Nat, NEW n \in Nat
  PROVE  Printing(page)[m + n] = Printing(Printing(page)[m])[n]
<1> DEFINE q == Printing(page)[m]
           Bad == {k \in Nat : Printing(page)[m + k] # Printing(q)[k]}
<1>1. SUFFICES ASSUME Bad # {} PROVE FALSE
  OBVIOUS
<1>2. PICK k \in Bad : \A j \in Bad : k <= j
  BY <1>1, LeastElement
<1> HIDE DEF q
<1>3. CASE k = 0
  <2>1. Printing(q)[0] = q
    BY PrintingIs
  <2>2. m + 0 = m
    OBVIOUS
  <2>3. QED
    BY <1>2, <1>3, <2>1, <2>2 DEF q
<1>4. CASE k # 0
  <2>1. k - 1 \in Nat /\ k - 1 \notin Bad /\ (k - 1) + 1 = k /\ m + (k - 1) \in Nat /\ (m + (k - 1)) + 1 = m + k
    BY <1>2, <1>4
  <2>2. Printing(page)[m + (k - 1)] = Printing(q)[k - 1]
    BY <2>1
  <2>3. Printing(page)[m + k] = PrintStep(Printing(page)[m + (k - 1)])
    BY <2>1, PrintingIs
  <2>4. Printing(q)[k] = PrintStep(Printing(q)[k - 1])
    BY <2>1, PrintingIs
  <2>5. QED
    BY <1>2, <2>2, <2>3, <2>4
<1>5. QED
  BY <1>3, <1>4

(* Where nothing is left to print the page stays. *)
LEMMA PrintingEnds ==
  ASSUME NEW page, page.work = <<>>, NEW n \in Nat
  PROVE  Printing(page)[n] = page
<1> DEFINE Bad == {k \in Nat : Printing(page)[k] # page}
<1>1. SUFFICES ASSUME Bad # {} PROVE FALSE
  OBVIOUS
<1>2. PICK k \in Bad : \A j \in Bad : k <= j
  BY <1>1, LeastElement
<1>3. CASE k = 0
  BY <1>2, <1>3, PrintingIs
<1>4. CASE k # 0
  <2>1. k - 1 \in Nat /\ k - 1 \notin Bad /\ (k - 1) + 1 = k
    BY <1>2, <1>4
  <2>2. Printing(page)[k - 1] = page
    BY <2>1
  <2>3. Printing(page)[k] = PrintStep(page)
    BY <2>1, <2>2, PrintingIs
  <2>4. QED
    BY <1>2, <2>3 DEF PrintStep
<1>5. QED
  BY <1>3, <1>4

(* The words of a query, token by token. *)
WordsUpto(list, m, g) ==
  /\ g = [n \in 0..Len(list) |-> g[n]]
  /\ g[0] = <<>>
  /\ \A n \in Nat : n # 0 /\ n <= m => g[n] = WithWord(g[n - 1], list[n])

LEMMA WordsOfIs ==
  ASSUME NEW list, Len(list) \in Nat
  PROVE  /\ WordsOf(list)[0] = <<>>
         /\ \A n \in 1..Len(list) : WordsOf(list)[n] = WithWord(WordsOf(list)[n - 1], list[n])
<1> DEFINE N == Len(list)
           F(f) == [n \in 0..N |-> IF n = 0 THEN <<>> ELSE WithWord(f[n - 1], list[n])]
           Bad == {m \in Nat : m <= N /\ ~\E g : WordsUpto(list, m, g)}
<1>1. Bad = {}
  <2>1. SUFFICES ASSUME Bad # {} PROVE FALSE
    OBVIOUS
  <2>2. PICK m \in Bad : \A k \in Bad : m <= k
    BY <2>1, LeastElement
  <2>3. CASE m = 0
    <3>1. WordsUpto(list, 0, [n \in 0..N |-> <<>>])
      BY DEF WordsUpto
    <3>2. QED
      BY <2>2, <2>3, <3>1
  <2>4. CASE m # 0
    <3>1. m - 1 \in Nat /\ m - 1 \notin Bad /\ m \in 1..N /\ m - 1 <= N
      BY <2>2, <2>4
    <3>2. PICK g : WordsUpto(list, m - 1, g)
      BY <3>1
    <3> DEFINE h == [n \in 0..N |-> IF n = m THEN WithWord(g[m - 1], list[m]) ELSE g[n]]
    <3>3. h = [n \in 0..N |-> h[n]] /\ h[0] = <<>>
      BY <2>4, <3>2 DEF WordsUpto
    <3>4. ASSUME NEW n \in Nat, n # 0, n <= m
          PROVE  h[n] = WithWord(h[n - 1], list[n])
      <4>1. n \in 0..N /\ n - 1 \in 0..N /\ n - 1 # m
        BY <3>1, <3>4
      <4>2. h[n - 1] = g[n - 1]
        BY <4>1
      <4>3. CASE n = m
        BY <4>1, <4>2, <4>3
      <4>4. CASE n # m
        <5>1. n <= m - 1 /\ h[n] = g[n]
          BY <3>1, <3>4, <4>1, <4>4
        <5>2. g[n] = WithWord(g[n - 1], list[n])
          BY <3>2, <3>4, <5>1 DEF WordsUpto
        <5>3. QED
          BY <4>2, <5>1, <5>2
      <4>5. QED
        BY <4>3, <4>4
    <3>5. WordsUpto(list, m, h)
      BY <3>3, <3>4 DEF WordsUpto
    <3>6. QED
      BY <2>2, <3>5
  <2>5. QED
    BY <2>3, <2>4
<1>2. PICK g : WordsUpto(list, N, g)
  BY <1>1
<1>3. g = F(g)
  <2>1. ASSUME NEW n \in 0..N
        PROVE  g[n] = F(g)[n]
    <3>1. CASE n = 0
      BY <1>2, <3>1 DEF WordsUpto
    <3>2. CASE n # 0
      <4>1. n \in Nat /\ n <= N
        OBVIOUS
      <4>2. g[n] = WithWord(g[n - 1], list[n])
        BY <1>2, <3>2, <4>1 DEF WordsUpto
      <4>3. QED
        BY <3>2, <4>2
    <3>3. QED
      BY <3>1, <3>2
  <2>2. QED
    BY <1>2, <2>1 DEF WordsUpto
<1>4. WordsOf(list) = CHOOSE f : f = F(f)
  BY DEF WordsOf
<1>5. WordsOf(list) = F(WordsOf(list))
  BY <1>3, <1>4
<1>6. PICK f : f = WordsOf(list)
  OBVIOUS
<1>7. f = F(f)
  BY <1>5, <1>6
<1>8. f[0] = <<>>
  BY <1>7
<1>9. ASSUME NEW n \in 1..N
      PROVE  f[n] = WithWord(f[n - 1], list[n])
  BY <1>7
<1>10. QED
  BY <1>6, <1>8, <1>9

(* Words are sequences of texts. *)
LEMMA WordsAreSeq ==
  ASSUME NEW list, Len(list) \in Nat, NEW n \in 0..Len(list)
  PROVE  IsSeq(WordsOf(list)[n])
<1> DEFINE Bad == {k \in Nat : k <= Len(list) /\ ~IsSeq(WordsOf(list)[k])}
<1>1. SUFFICES ASSUME Bad # {} PROVE FALSE
  OBVIOUS
<1>2. PICK k \in Bad : \A j \in Bad : k <= j
  BY <1>1, LeastElement
<1>3. CASE k = 0
  BY <1>2, <1>3, WordsOfIs, NothingIs
<1>4. CASE k # 0
  <2>1. k - 1 \in Nat /\ k - 1 \notin Bad /\ k \in 1..Len(list)
    BY <1>2, <1>4
  <2>2. IsSeq(WordsOf(list)[k - 1])
    BY <1>2, <2>1
  <2>3. Append(WordsOf(list)[k - 1], list[k].text) = WordsOf(list)[k - 1] \o <<list[k].text>>
    BY <2>2, AppendIs
  <2>4. IsSeq(WordsOf(list)[k - 1] \o <<list[k].text>>)
    BY <2>2, OneIs, ConcatIs
  <2>5. WordsOf(list)[k] = WithWord(WordsOf(list)[k - 1], list[k])
    BY <2>1, WordsOfIs
  <2>6. IsSeq(WordsOf(list)[k])
    BY <2>2, <2>3, <2>4, <2>5 DEF WithWord
  <2>7. QED
    BY <1>2, <2>6
<1>5. QED
  BY <1>3, <1>4

-----------------------------------------------------------------------------
(* What nodes print. *)

(* From any page that begins with them the nodes print the tokens from i   *)
(* to before j, within b steps.                                            *)
Prints(list, nodes, i, j, b) ==
  /\ IsSeq(nodes)
  /\ \A w : IsSeq(w) =>
       \E n \in 0..b :
         Printing(Page(nodes \o w, WordsOf(list)[i - 1]))[n] = Page(w, WordsOf(list)[j - 1])

LEMMA PrintsNothing ==
  ASSUME NEW list, NEW i \in Int, NEW j \in Int, WordsOf(list)[i - 1] = WordsOf(list)[j - 1]
  PROVE  Prints(list, <<>>, i, j, 0)
<1>1. ASSUME NEW w, IsSeq(w)
      PROVE  Printing(Page(<<>> \o w, WordsOf(list)[i - 1]))[0] = Page(w, WordsOf(list)[j - 1])
  <2>1. <<>> \o w = w
    BY <1>1, ConcatNothing
  <2>2. QED
    BY <2>1, PrintingIs
<1>2. 0 \in 0..0
  OBVIOUS
<1>3. QED
  BY <1>1, <1>2, NothingIs DEF Prints

(* A comma is not printed. *)
LEMMA PrintsComma ==
  ASSUME NEW list, Len(list) \in Nat, NEW i \in 1..Len(list), list[i].type = Comma
  PROVE  Prints(list, <<>>, i, i + 1, 0)
<1>1. WordsOf(list)[i] = WordsOf(list)[i - 1]
  BY WordsOfIs DEF WithWord
<1>2. (i + 1) - 1 = i /\ i \in Int /\ i + 1 \in Int
  OBVIOUS
<1>3. QED
  BY <1>1, <1>2, PrintsNothing

LEMMA PrintsLeaf ==
  ASSUME NEW list, Len(list) \in Nat, NEW i \in 1..Len(list), list[i].type # Comma,
         NEW x, x.kind \in Leaves, LeafText(x) = list[i].text
  PROVE  Prints(list, <<x>>, i, i + 1, 1)
<1> DEFINE K == WordsOf(list)[i - 1]
           L == WordsOf(list)[(i + 1) - 1]
<1>1. L = Append(K, list[i].text)
  <2>1. (i + 1) - 1 = i
    OBVIOUS
  <2>2. WordsOf(list)[i] = WithWord(WordsOf(list)[i - 1], list[i])
    BY WordsOfIs
  <2>3. QED
    BY <2>1, <2>2 DEF WithWord
<1> HIDE DEF K, L
<1>2. ASSUME NEW w, IsSeq(w)
      PROVE  Printing(Page(<<x>> \o w, K))[1] = Page(w, L)
  <2> DEFINE page == Page(<<x>> \o w, K)
  <2>1. page.work = <<x>> \o w /\ page.out = K
    BY DEF Page
  <2> HIDE DEF page
  <2>2. page.work # <<>> /\ Head(page.work) = x /\ Tail(page.work) = w
    BY <1>2, <2>1, PushIs
  <2>3. PrintStep(page) = Page(w, Append(K, LeafText(x)))
    BY <2>1, <2>2 DEF PrintStep
  <2>4. Printing(page)[0 + 1] = PrintStep(Printing(page)[0]) /\ Printing(page)[0] = page
    BY PrintingIs
  <2>5. 0 + 1 = 1
    OBVIOUS
  <2>6. Printing(page)[1] = Page(w, L)
    BY <1>1, <2>3, <2>4, <2>5
  <2>7. QED
    BY <2>6 DEF page
<1>3. 1 \in 0..1
  OBVIOUS
<1>4. QED
  BY <1>2, <1>3, OneIs DEF Prints, K, L

LEMMA PrintsBoth ==
  ASSUME NEW list, NEW i, NEW j, NEW k, NEW a, NEW c, NEW b \in Nat, NEW d \in Nat,
         Prints(list, a, i, j, b), Prints(list, c, j, k, d)
  PROVE  Prints(list, a \o c, i, k, b + d)
<1>1. IsSeq(a) /\ IsSeq(c) /\ IsSeq(a \o c)
  BY ConcatIs DEF Prints
<1>2. ASSUME NEW w, IsSeq(w)
      PROVE  \E n \in 0..(b + d) :
               Printing(Page((a \o c) \o w, WordsOf(list)[i - 1]))[n] = Page(w, WordsOf(list)[k - 1])
  <2>1. IsSeq(c \o w) /\ (a \o c) \o w = a \o (c \o w)
    BY <1>1, <1>2, ConcatIs, ConcatThree
  <2>2. PICK m \in 0..b :
          Printing(Page(a \o (c \o w), WordsOf(list)[i - 1]))[m] = Page(c \o w, WordsOf(list)[j - 1])
    BY <2>1 DEF Prints
  <2>3. PICK n \in 0..d :
          Printing(Page(c \o w, WordsOf(list)[j - 1]))[n] = Page(w, WordsOf(list)[k - 1])
    BY <1>2 DEF Prints
  <2>4. m \in Nat /\ n \in Nat /\ m + n \in 0..(b + d)
    OBVIOUS
  <2>5. Printing(Page(a \o (c \o w), WordsOf(list)[i - 1]))[m + n] = Page(w, WordsOf(list)[k - 1])
    <3> DEFINE p == Page(a \o (c \o w), WordsOf(list)[i - 1])
               q == Page(c \o w, WordsOf(list)[j - 1])
    <3>1. Printing(p)[m] = q
      BY <2>2
    <3>2. Printing(q)[n] = Page(w, WordsOf(list)[k - 1])
      BY <2>3
    <3> HIDE DEF p, q
    <3>3. Printing(p)[m + n] = Printing(Printing(p)[m])[n]
      BY <2>4, PrintingGoesOn
    <3>4. QED
      BY <3>1, <3>2, <3>3 DEF p
  <2>6. QED
    BY <2>1, <2>4, <2>5
<1>3. QED
  BY <1>1, <1>2 DEF Prints

(* A node prints what its parts print, a step later. *)
LEMMA PrintsInner ==
  ASSUME NEW list, NEW i, NEW j, NEW x, x.kind \notin Leaves, NEW b \in Nat,
         Prints(list, Parts(x), i, j, b)
  PROVE  Prints(list, <<x>>, i, j, b + 1)
<1> DEFINE K == WordsOf(list)[i - 1]
           L == WordsOf(list)[j - 1]
<1>1. ASSUME NEW w, IsSeq(w)
      PROVE  \E n \in 0..(b + 1) : Printing(Page(<<x>> \o w, K))[n] = Page(w, L)
  <2> DEFINE page == Page(<<x>> \o w, K)
             next == Page(Parts(x) \o w, K)
  <2>1. page.work = <<x>> \o w /\ page.out = K
    BY DEF Page
  <2>2. PICK n \in 0..b : Printing(next)[n] = Page(w, L)
    BY <1>1 DEF Prints
  <2> HIDE DEF page, K
  <2>3. page.work # <<>> /\ Head(page.work) = x /\ Tail(page.work) = w
    BY <1>1, <2>1, PushIs
  <2>4. PrintStep(page) = next
    BY <2>1, <2>3 DEF PrintStep
  <2> HIDE DEF next
  <2>5. Printing(page)[1] = next
    <3>1. Printing(page)[0 + 1] = PrintStep(Printing(page)[0]) /\ Printing(page)[0] = page
      BY PrintingIs
    <3>2. 0 + 1 = 1
      OBVIOUS
    <3>3. QED
      BY <2>4, <3>1, <3>2
  <2>6. n \in Nat /\ 1 \in Nat /\ 1 + n \in 0..(b + 1)
    OBVIOUS
  <2>7. Printing(page)[1 + n] = Page(w, L)
    BY <2>2, <2>5, <2>6, PrintingGoesOn
  <2>8. QED
    BY <2>6, <2>7 DEF page
<1>2. QED
  BY <1>1, OneIs DEF Prints

LEMMA PrintsWithin ==
  ASSUME NEW list, NEW i, NEW j, NEW a, NEW b \in Nat, NEW c \in Nat, b <= c, Prints(list, a, i, j, b)
  PROVE  Prints(list, a, i, j, c)
<1>1. 0..b \subseteq 0..c
  OBVIOUS
<1>2. QED
  BY <1>1 DEF Prints

-----------------------------------------------------------------------------
(* What the lexer finds. *)

LEMMA RunEndIs ==
  ASSUME NEW text, Len(text) \in Nat, NEW p \in 0..Len(text), NEW S
  PROVE  /\ RunEnd(text, p, S) \in p..Len(text)
         /\ \A i \in (p + 1)..RunEnd(text, p, S) : text[i] \in S
         /\ RunEnd(text, p, S) < Len(text) => text[RunEnd(text, p, S) + 1] \notin S
<1> DEFINE Stops == {q \in p..Len(text) : q < Len(text) => text[q + 1] \notin S}
<1>1. Len(text) \in Stops /\ Stops \in SUBSET Nat
  OBVIOUS
<1>2. PICK q \in Stops : \A r \in Stops : q <= r
  <2>1. Stops # {}
    BY <1>1
  <2>2. QED
    BY <1>1, <2>1, LeastElement
<1>3. ASSUME NEW i \in (p + 1)..q
      PROVE  text[i] \in S
  <2>1. i - 1 \in p..Len(text) /\ ~(q <= i - 1) /\ (i - 1) + 1 = i
    BY <1>2
  <2>2. i - 1 \notin Stops
    BY <1>2, <2>1
  <2>3. QED
    BY <2>1, <2>2
<1>4. QED
  BY <1>2, <1>3 DEF RunEnd

TokenTypes == Keywords \cup Symbols \cup {"ident", "integer", "string", "unterminated", "illegal"}
TokenSet == [type : TokenTypes, from : Nat, to : Nat]

(* A piece of the query that is in no token. *)
Passed(p) == source[p] \in Blanks \cup Quotes \/ Commented(p)

(* A keyword or a symbol stands for itself, and a name is not empty. *)
Spelled(token) ==
  /\ token.type \in Keywords \cup Symbols => Text(source, token) = <<token.type>>
  /\ token.type = "ident" => Text(source, token) # <<>>

(* What the lexer may find from a position on. *)
ReadFrom(at, found) ==
  /\ found.pos \in at..Len(source)
  /\ \/ found.token = NoToken /\ \A p \in (at + 1)..found.pos : Passed(p)
     \/ /\ found.token \in TokenSet
        /\ at < found.pos
        /\ found.token.from <= Len(source)
        /\ Spelled(found.token)
        /\ found.token.type # "illegal" =>
             /\ at <= found.token.from /\ found.token.from <= found.token.to /\ found.token.to <= found.pos
             /\ \A p \in (at + 1)..found.pos :
                  p <= found.token.from \/ found.token.to < p => Passed(p)

LEMMA TokenIs ==
  ASSUME NEW type \in TokenTypes, NEW from \in Nat, NEW to \in Nat
  PROVE  /\ Token(type, from, to) \in TokenSet
         /\ Token(type, from, to).type = type
         /\ Token(type, from, to).from = from
         /\ Token(type, from, to).to = to
  BY DEF Token, TokenSet

LEMMA FoundIs ==
  ASSUME NEW token, NEW p
  PROVE  Found(token, p).token = token /\ Found(token, p).pos = p
  BY DEF Found

LEMMA TypesApart ==
  /\ "none" \notin TokenTypes
  /\ {"ident", "integer", "string", "unterminated", "illegal"} \cap (Keywords \cup Symbols) = {}
  BY Zenon DEF TokenTypes, Keywords, Symbols, Comma, Semicolon

(* The text of a token within the source. *)
LEMMA TextIs ==
  ASSUME source \in Seq(STRING), NEW token \in TokenSet, token.from <= token.to, token.to <= Len(source)
  PROVE  /\ Len(Text(source, token)) = token.to - token.from
         /\ IsSeq(Text(source, token))
         /\ \A i \in 1..(token.to - token.from) : Text(source, token)[i] = source[token.from + i]
<1>1. token.from \in Nat /\ token.to \in Nat
  BY DEF TokenSet
<1>2. Text(source, token) = SubSeq(source, token.from + 1, token.to)
  BY DEF Text
<1>3. Len(source) \in Nat /\ \A i \in 1..Len(source) : source[i] \in STRING
  BY SeqIs
<1>4. \A i \in (token.from + 1)..token.to : source[i] \in STRING
  BY <1>1, <1>3
<1>5. /\ SubSeq(source, token.from + 1, token.to) \in Seq(STRING)
      /\ Len(SubSeq(source, token.from + 1, token.to)) =
           IF token.from + 1 <= token.to THEN token.to - (token.from + 1) + 1 ELSE 0
      /\ \A i \in 1..(token.to - (token.from + 1) + 1) :
           SubSeq(source, token.from + 1, token.to)[i] = source[(token.from + 1) + i - 1]
  BY <1>1, <1>4, SubSeqProperties
<1>6. Len(SubSeq(source, token.from + 1, token.to)) = token.to - token.from
  BY <1>1, <1>5
<1>7. ASSUME NEW i \in 1..(token.to - token.from)
      PROVE  SubSeq(source, token.from + 1, token.to)[i] = source[token.from + i]
  <2>1. i \in 1..(token.to - (token.from + 1) + 1) /\ (token.from + 1) + i - 1 = token.from + i
    BY <1>1
  <2>2. QED
    BY <1>5, <2>1
<1>8. IsSeq(SubSeq(source, token.from + 1, token.to))
  BY <1>5, SeqIs
<1>9. QED
  BY <1>2, <1>6, <1>7, <1>8

(* A text of one piece. *)
LEMMA OnePiece ==
  ASSUME NEW s, IsSeq(s), Len(s) = 1
  PROVE  s = <<s[1]>>
<1> DEFINE S == {s[i] : i \in DOMAIN s}
<1>1. s \in Seq(S) /\ <<s[1]>> \in Seq(S)
  BY LenIs DEF IsSeq
<1>2. QED
  BY <1>1, OneIs, SeqEqual

LEMMA ReadsIllegal ==
  ASSUME source \in Seq(STRING), NEW p \in 0..(Len(source) - 1), NEW from \in {p, p + 1}
  PROVE  ReadFrom(p, Found(Token("illegal", from, from + 1), p + 1))
<1>1. Len(source) \in Nat /\ from \in Nat /\ from + 1 \in Nat /\ p + 1 \in p..Len(source) /\ from <= Len(source)
  BY SeqIs
<1>2. "illegal" \in TokenTypes
  BY DEF TokenTypes
<1> DEFINE t == Token("illegal", from, from + 1)
<1>3. t \in TokenSet /\ t.type = "illegal" /\ t.from = from
  BY <1>1, <1>2, TokenIs
<1>4. Spelled(t)
  <2>1. "illegal" \notin Keywords \cup Symbols
    BY TypesApart
  <2>2. "illegal" # "ident"
    OBVIOUS
  <2>3. QED
    BY <1>3, <2>1, <2>2 DEF Spelled
<1> HIDE DEF t
<1>5. QED
  BY <1>1, <1>3, <1>4, FoundIs DEF ReadFrom, t

LEMMA ReadsSymbol ==
  ASSUME source \in Seq(STRING), NEW p \in 0..(Len(source) - 1), source[p + 1] \in Symbols
  PROVE  ReadFrom(p, Found(Token(source[p + 1], p, p + 1), p + 1))
<1>1. Len(source) \in Nat /\ p \in Nat /\ p + 1 \in Nat /\ p + 1 \in p..Len(source) /\ p <= Len(source)
  BY SeqIs
<1>2. source[p + 1] \in TokenTypes /\ source[p + 1] \notin {"illegal", "ident"}
  BY TypesApart DEF TokenTypes
<1> DEFINE t == Token(source[p + 1], p, p + 1)
<1>3. t \in TokenSet /\ t.type = source[p + 1] /\ t.from = p /\ t.to = p + 1
  BY <1>1, <1>2, TokenIs
<1> HIDE DEF t
<1>4. Spelled(t)
  <2>1. Len(Text(source, t)) = 1 /\ IsSeq(Text(source, t)) /\ Text(source, t)[1] = source[p + 1]
    <3>1. t.to - t.from = 1 /\ 1 \in 1..(t.to - t.from) /\ t.from + 1 = p + 1
      BY <1>1, <1>3
    <3>2. t.from <= t.to /\ t.to <= Len(source)
      BY <1>1, <1>3
    <3>3. QED
      BY <1>3, <3>1, <3>2, TextIs
  <2>2. Text(source, t) = <<source[p + 1]>>
    BY <2>1, OnePiece
  <2>3. QED
    BY <1>2, <1>3, <2>2 DEF Spelled
<1>5. \A i \in (p + 1)..(p + 1) : ~(i <= p \/ p + 1 < i)
  BY <1>1
<1>6. QED
  BY <1>1, <1>3, <1>4, <1>5, FoundIs DEF ReadFrom, t

LEMMA ReadsInteger ==
  ASSUME source \in Seq(STRING), NEW p \in 0..(Len(source) - 1), source[p + 1] \in Digits
  PROVE  ReadFrom(p, Found(Token("integer", p, RunEnd(source, p, Digits)), RunEnd(source, p, Digits)))
<1> DEFINE q == RunEnd(source, p, Digits)
           t == Token("integer", p, q)
<1>1. Len(source) \in Nat /\ p \in Nat /\ p \in 0..Len(source) /\ p < Len(source) /\ p + 1 <= Len(source)
  BY SeqIs
<1>2. q \in p..Len(source) /\ (q < Len(source) => source[q + 1] \notin Digits)
  BY <1>1, RunEndIs
<1> HIDE DEF q
<1>3. q # p /\ q \in Nat
  BY <1>1, <1>2
<1>4. "integer" \in TokenTypes /\ "integer" \notin Keywords \cup Symbols
  BY TypesApart DEF TokenTypes
<1>5. t \in TokenSet /\ t.type = "integer" /\ t.from = p /\ t.to = q
  BY <1>1, <1>3, <1>4, TokenIs
<1> HIDE DEF t
<1>6. Spelled(t)
  BY <1>4, <1>5 DEF Spelled
<1>7. p < q /\ \A i \in (p + 1)..q : ~(i <= p \/ q < i)
  BY <1>1, <1>2, <1>3
<1>8. QED
  BY <1>1, <1>2, <1>5, <1>6, <1>7, FoundIs DEF ReadFrom, q, t

LEMMA ReadsWord ==
  ASSUME source \in Seq(STRING), NEW p \in 0..(Len(source) - 1), source[p + 1] \in IdentPieces
  PROVE  ReadFrom(p, LexWord(source, p))
<1> DEFINE q == RunEnd(source, p, IdentPieces)
           text == SubSeq(source, p + 1, q)
           type == IF Len(text) = 1 /\ text[1] \in Keywords THEN text[1] ELSE "ident"
           t == Token(type, p, q)
<1>1. Len(source) \in Nat /\ p \in Nat /\ p \in 0..Len(source) /\ p < Len(source) /\ p + 1 <= Len(source)
  BY SeqIs
<1>2. q \in p..Len(source) /\ (q < Len(source) => source[q + 1] \notin IdentPieces)
  BY <1>1, RunEndIs
<1>3. LexWord(source, p) = Found(t, q)
  BY DEF LexWord
<1> HIDE DEF q
<1>4. q # p /\ q \in Nat /\ p < q /\ \A i \in (p + 1)..q : ~(i <= p \/ q < i)
  BY <1>1, <1>2
<1> HIDE DEF text
<1>5. type \in TokenTypes /\ type # "illegal"
  BY TypesApart DEF TokenTypes
<1>6. t \in TokenSet /\ t.type = type /\ t.from = p /\ t.to = q
  <2> HIDE DEF type
  <2>1. QED
    BY <1>1, <1>4, <1>5, TokenIs
<1>7. Text(source, t) = text
  <2>1. q <= Len(source)
    BY <1>1, <1>2
  <2> HIDE DEF t
  <2>2. QED
    BY <1>6, <2>1 DEF Text, text
<1> HIDE DEF t
<1>8. Len(text) = q - p /\ IsSeq(text)
  <2>1. t.from <= t.to /\ t.to <= Len(source)
    BY <1>1, <1>2, <1>4, <1>6
  <2>2. Len(Text(source, t)) = t.to - t.from /\ IsSeq(Text(source, t))
    BY <1>6, <2>1, TextIs
  <2>3. QED
    BY <1>6, <1>7, <2>2
<1>9. Spelled(t)
  <2>1. CASE Len(text) = 1 /\ text[1] \in Keywords
    <3>1. text = <<text[1]>> /\ type = text[1]
      BY <1>8, <2>1, OnePiece
    <3>2. text # <<>>
      <4>1. Len(text) # 0
        BY <2>1
      <4>2. QED
        BY <4>1, NothingIs
    <3> HIDE DEF type
    <3>3. QED
      BY <1>6, <1>7, <3>1, <3>2 DEF Spelled
  <2>2. CASE ~(Len(text) = 1 /\ text[1] \in Keywords)
    <3>1. type = "ident"
      BY <2>2
    <3>2. text # <<>>
      <4>1. Len(text) # 0
        BY <1>1, <1>4, <1>8
      <4>2. QED
        BY <4>1, NothingIs
    <3> HIDE DEF type
    <3>3. QED
      BY <1>6, <1>7, <3>1, <3>2, TypesApart DEF Spelled
  <2>3. QED
    BY <2>1, <2>2
<1> HIDE DEF type
<1>10. QED
  BY <1>1, <1>2, <1>3, <1>4, <1>5, <1>6, <1>9, FoundIs DEF ReadFrom

LEMMA ReadsString ==
  ASSUME source \in Seq(STRING), NEW p \in 0..(Len(source) - 1), source[p + 1] \in Quotes
  PROVE  ReadFrom(p, LexString(source, p))
<1> DEFINE Others == {source[i] : i \in 1..Len(source)} \ {source[p + 1]}
           q == RunEnd(source, p + 1, Others)
           type == IF q = Len(source) THEN "unterminated" ELSE "string"
           end == IF q = Len(source) THEN q ELSE q + 1
           t == Token(type, p + 1, q)
<1>1. Len(source) \in Nat /\ p \in Nat /\ p + 1 \in 0..Len(source) /\ p + 1 \in Nat
  BY SeqIs
<1>2. q \in (p + 1)..Len(source) /\ (q < Len(source) => source[q + 1] \notin Others)
  BY <1>1, RunEndIs
<1>3. LexString(source, p) = Found(t, end)
  BY DEF LexString
<1>4. q < Len(source) => source[q + 1] = source[p + 1]
  <2>1. ASSUME q < Len(source)
        PROVE  source[q + 1] = source[p + 1]
    <3>1. q + 1 \in 1..Len(source)
      BY <1>1, <1>2, <2>1
    <3>2. source[q + 1] \notin Others
      BY <1>2, <2>1
    <3> HIDE DEF q
    <3>3. QED
      BY <3>1, <3>2
  <2>2. QED
    BY <2>1
<1> HIDE DEF q, Others
<1>5. q \in Nat /\ p + 1 <= q /\ q <= Len(source)
  BY <1>1, <1>2
<1>6. end \in Nat /\ p < end /\ q <= end /\ end <= Len(source) /\ end <= q + 1 /\ (end = q + 1 => q < Len(source))
  BY <1>1, <1>5
<1>7. type \in TokenTypes /\ type \notin Keywords \cup Symbols \cup {"ident", "illegal"}
  <2>1. type \in {"unterminated", "string"}
    OBVIOUS
  <2>2. QED
    BY <2>1, TypesApart DEF TokenTypes
<1> HIDE DEF type
<1>8. t \in TokenSet /\ t.type = type /\ t.from = p + 1 /\ t.to = q
  BY <1>1, <1>5, <1>7, TokenIs
<1> HIDE DEF t, end
<1>9. Spelled(t)
  BY <1>7, <1>8 DEF Spelled
<1>10. ASSUME NEW i \in (p + 1)..end, i <= p + 1 \/ q < i
       PROVE  Passed(i)
  <2>1. i = p + 1 \/ (i = q + 1 /\ q < Len(source))
    BY <1>1, <1>5, <1>6, <1>10
  <2>2. source[i] = source[p + 1]
    BY <1>4, <2>1
  <2>3. QED
    BY <2>2 DEF Passed
<1>11. end \in p..Len(source)
  BY <1>1, <1>6
<1>12. p <= p + 1 /\ p + 1 <= Len(source)
  BY <1>1
<1>13. QED
  BY <1>3, <1>5, <1>6, <1>7, <1>8, <1>9, <1>10, <1>11, <1>12, FoundIs DEF ReadFrom

(* The first characters of the pieces tell their kinds apart. *)
LEMMA PiecesApart ==
  /\ {"-"} \cap (Symbols \cup Quotes \cup Digits \cup Keywords \cup Names) = {}
  /\ Symbols \cap (Quotes \cup Digits \cup Keywords \cup Names) = {}
  /\ Quotes \cap (Digits \cup Keywords \cup Names) = {}
  /\ Digits \cap (Keywords \cup Names) = {}
<1>1. {"-"} \cap (Symbols \cup Quotes \cup Digits \cup Keywords) = {}
  BY Zenon DEF Symbols, Quotes, Digits, Keywords, Comma, Semicolon, DoubleQuote
<1>2. Symbols \cap (Quotes \cup Digits \cup Keywords) = {}
  BY Zenon DEF Symbols, Quotes, Digits, Keywords, Comma, Semicolon, DoubleQuote
<1>3. Quotes \cap (Digits \cup Keywords) = {}
  BY Zenon DEF Quotes, Digits, Keywords, DoubleQuote
<1>4. Digits \cap Keywords = {}
  BY Zenon DEF Digits, Keywords
<1>5. QED
  BY <1>1, <1>2, <1>3, <1>4, NamesAssumption

LEMMA ReadsPiece ==
  ASSUME source \in Seq(STRING), NEW p \in 0..(Len(source) - 1)
  PROVE  ReadFrom(p, LexPiece(source, p))
<1> DEFINE piece == source[p + 1]
<1>1. p \in {p, p + 1} /\ p + 1 \in {p, p + 1}
  OBVIOUS
<1>2. CASE piece = "-"
  <2>1. LexPiece(source, p) = Found(Token("illegal", p, p + 1), p + 1)
    BY <1>2, PiecesApart DEF LexPiece
  <2>2. QED
    BY <1>1, <2>1, ReadsIllegal
<1>3. CASE piece # "-" /\ piece \in Symbols
  <2>1. LexPiece(source, p) = Found(Token(piece, p, p + 1), p + 1)
    BY <1>3, PiecesApart DEF LexPiece
  <2>2. QED
    BY <1>3, <2>1, ReadsSymbol
<1>4. CASE piece # "-" /\ piece \notin Symbols /\ piece \in Quotes
  <2>1. LexPiece(source, p) = LexString(source, p)
    BY <1>4, PiecesApart DEF LexPiece
  <2>2. QED
    BY <1>4, <2>1, ReadsString
<1>5. CASE piece # "-" /\ piece \notin Symbols /\ piece \notin Quotes /\ piece \in Digits
  <2>1. LexPiece(source, p) = Found(Token("integer", p, RunEnd(source, p, Digits)), RunEnd(source, p, Digits))
    BY <1>5, PiecesApart DEF LexPiece
  <2>2. QED
    BY <1>5, <2>1, ReadsInteger
<1>6. CASE piece # "-" /\ piece \notin Symbols /\ piece \notin Quotes /\ piece \notin Digits
           /\ piece \in Keywords \cup Names
  <2>1. LexPiece(source, p) = LexWord(source, p)
    BY <1>6, PiecesApart DEF LexPiece
  <2>2. piece \in IdentPieces
    BY <1>6 DEF IdentPieces
  <2>3. QED
    BY <2>1, <2>2, ReadsWord
<1>7. CASE piece # "-" /\ piece \notin Symbols /\ piece \notin Quotes /\ piece \notin Digits
           /\ piece \notin Keywords \cup Names
  <2>1. LexPiece(source, p) = Found(Token("illegal", p + 1, p + 2), p + 1)
    BY <1>7 DEF LexPiece, LexIllegal
  <2>2. p + 2 = (p + 1) + 1
    BY SeqIs
  <2>3. QED
    BY <1>1, <2>1, <2>2, ReadsIllegal
<1>8. QED
  BY <1>2, <1>3, <1>4, <1>5, <1>6, <1>7

LEMMA SourceTyped ==
  ASSUME source \in Seq(STRING)
  PROVE  Len(source) \in Nat /\ DOMAIN source = 1..Len(source)
  BY SeqIs

(* A comment reaches to the end of its line. *)
LEMMA CommentPasses ==
  ASSUME source \in Seq(STRING), NEW at \in 0..Len(source), NEW p \in at..Len(source),
         \A i \in (at + 1)..p : source[i] \in Blanks, CommentStarts(source, p)
  PROVE  /\ LineEnd(source, p + 1) \in (at + 1)..Len(source)
         /\ \A i \in (at + 1)..LineEnd(source, p + 1) : Passed(i)
<1> DEFINE Line == {source[i] : i \in 1..Len(source)} \ {"\n"}
           q == RunEnd(source, p + 1, Line)
<1>1. /\ Len(source) \in Nat /\ p \in Nat /\ at \in Nat /\ at <= p /\ p + 1 < Len(source) /\ p + 1 \in 0..Len(source)
      /\ source[p + 1] = "-" /\ source[(p + 1) + 1] = "-"
  <2>1. (p + 1) + 1 = p + 2 /\ Len(source) \in Nat /\ p \in Nat /\ at \in Nat /\ at <= p
    BY SourceTyped
  <2>2. QED
    BY <2>1 DEF CommentStarts
<1>2. LineEnd(source, p + 1) = q
  BY DEF LineEnd
<1>3. q \in (p + 1)..Len(source) /\ \A i \in ((p + 1) + 1)..q : source[i] \in Line
  BY <1>1, RunEndIs
<1>4. \A i \in ((p + 1) + 1)..q : source[i] # "\n"
  BY <1>3
<1> HIDE DEF q, Line
<1>5. \A i \in (p + 1)..q : source[i] # "\n"
  <2>1. "-" # "\n"
    OBVIOUS
  <2>2. ASSUME NEW i \in (p + 1)..q
        PROVE  i = p + 1 \/ i \in ((p + 1) + 1)..q
    BY <1>1, <1>3
  <2>3. QED
    BY <1>1, <1>4, <2>1, <2>2
<1>6. ASSUME NEW i \in (p + 1)..q
      PROVE  Commented(i)
  <2>1. p + 1 \in 1..i /\ (p + 1)..i \subseteq (p + 1)..q
    BY <1>1, <1>3
  <2>2. QED
    BY <1>1, <1>5, <2>1 DEF Commented
<1>7. ASSUME NEW i \in (at + 1)..q
      PROVE  Passed(i)
  <2>1. i \in (at + 1)..p \/ i \in (p + 1)..q
    BY <1>1, <1>3
  <2>2. QED
    BY <1>6, <2>1 DEF Passed
<1>8. q \in (at + 1)..Len(source)
  BY <1>1, <1>3
<1>9. QED
  BY <1>2, <1>7, <1>8

(* The lexer goes on behind what it passed. *)
LEMMA ReadsOn ==
  ASSUME source \in Seq(STRING), NEW at \in 0..Len(source), NEW q \in at..Len(source),
         \A i \in (at + 1)..q : Passed(i), NEW found, ReadFrom(q, found)
  PROVE  ReadFrom(at, found)
<1>1. Len(source) \in Nat /\ at \in Nat /\ q \in Nat /\ at <= q
  BY SourceTyped
<1>2. found.pos \in q..Len(source)
  BY DEF ReadFrom
<1>3. found.pos \in Nat /\ found.pos \in at..Len(source)
  BY <1>1, <1>2
<1>4. \A i \in (at + 1)..found.pos : i \in (at + 1)..q \/ i \in (q + 1)..found.pos
  BY <1>1, <1>3
<1>5. CASE found.token = NoToken /\ \A i \in (q + 1)..found.pos : Passed(i)
  BY <1>3, <1>4, <1>5 DEF ReadFrom
<1>6. CASE /\ found.token \in TokenSet
           /\ q < found.pos
           /\ found.token.from <= Len(source)
           /\ Spelled(found.token)
           /\ found.token.type # "illegal" =>
                /\ q <= found.token.from /\ found.token.from <= found.token.to /\ found.token.to <= found.pos
                /\ \A p \in (q + 1)..found.pos :
                     p <= found.token.from \/ found.token.to < p => Passed(p)
  <2>1. found.token.from \in Nat /\ found.token.to \in Nat /\ at < found.pos
    BY <1>1, <1>3, <1>6 DEF TokenSet
  <2>2. ASSUME found.token.type # "illegal"
        PROVE  /\ at <= found.token.from
               /\ \A p \in (at + 1)..found.pos :
                    p <= found.token.from \/ found.token.to < p => Passed(p)
    BY <1>1, <1>4, <1>6, <2>1, <2>2
  <2>3. QED
    BY <1>3, <1>6, <2>1, <2>2 DEF ReadFrom
<1>7. QED
  BY <1>5, <1>6 DEF ReadFrom

(* One call of next, with what the calls of itself behind a comment give.  *)
LexBody(rest, at) ==
  LET p == RunEnd(source, at, Blanks)
  IN IF p >= Len(source) THEN Found(NoToken, p)
     ELSE IF CommentStarts(source, p) THEN rest[LineEnd(source, p + 1)]
     ELSE LexPiece(source, p)

LEMMA LexBodyReads ==
  ASSUME source \in Seq(STRING), NEW at \in 0..Len(source), NEW rest,
         \A q \in (at + 1)..Len(source) : ReadFrom(q, rest[q])
  PROVE  ReadFrom(at, LexBody(rest, at))
<1> DEFINE p == RunEnd(source, at, Blanks)
<1>1. Len(source) \in Nat /\ at \in Nat
  BY SourceTyped
<1>2. p \in at..Len(source) /\ \A i \in (at + 1)..p : source[i] \in Blanks
  BY <1>1, RunEndIs
<1> HIDE DEF p
<1>3. \A i \in (at + 1)..p : Passed(i)
  BY <1>2 DEF Passed
<1>4. LexBody(rest, at) = IF p >= Len(source) THEN Found(NoToken, p)
                          ELSE IF CommentStarts(source, p) THEN rest[LineEnd(source, p + 1)]
                          ELSE LexPiece(source, p)
  BY DEF LexBody, p
<1>5. CASE p >= Len(source)
  <2>1. LexBody(rest, at) = Found(NoToken, p)
    BY <1>4, <1>5
  <2>2. QED
    BY <1>2, <1>3, <2>1, FoundIs DEF ReadFrom
<1>6. CASE p < Len(source) /\ CommentStarts(source, p)
  <2>1. /\ LineEnd(source, p + 1) \in (at + 1)..Len(source)
        /\ \A i \in (at + 1)..LineEnd(source, p + 1) : Passed(i)
    BY <1>2, <1>6, CommentPasses
  <2>2. LexBody(rest, at) = rest[LineEnd(source, p + 1)]
    BY <1>1, <1>2, <1>4, <1>6
  <2>3. LineEnd(source, p + 1) \in at..Len(source)
    BY <1>1, <2>1
  <2>4. QED
    BY <2>1, <2>2, <2>3, ReadsOn
<1>7. CASE p < Len(source) /\ ~CommentStarts(source, p)
  <2>1. p \in 0..(Len(source) - 1)
    BY <1>1, <1>2, <1>7
  <2>2. LexBody(rest, at) = LexPiece(source, p)
    BY <1>1, <1>2, <1>4, <1>7
  <2>3. QED
    BY <1>2, <1>3, <2>1, <2>2, ReadsPiece, ReadsOn
<1>8. QED
  BY <1>1, <1>2, <1>5, <1>6, <1>7

(* The calls of next behind comments come to an end: there is a function   *)
(* from the position to what is found.                                     *)
LexUpto(m, g) ==
  /\ g = [at \in 0..Len(source) |-> g[at]]
  /\ \A at \in 0..Len(source) : Len(source) < at + m => g[at] = LexBody(g, at)

LEMMA LexBodyReadsAhead ==
  ASSUME source \in Seq(STRING), NEW at \in 0..Len(source), NEW f, NEW g,
         \A q \in (at + 1)..Len(source) : f[q] = g[q]
  PROVE  LexBody(f, at) = LexBody(g, at)
<1> DEFINE p == RunEnd(source, at, Blanks)
<1>1. Len(source) \in Nat /\ at \in Nat
  BY SourceTyped
<1>2. p \in at..Len(source) /\ \A i \in (at + 1)..p : source[i] \in Blanks
  BY <1>1, RunEndIs
<1> HIDE DEF p
<1>3. CASE CommentStarts(source, p)
  <2>1. f[LineEnd(source, p + 1)] = g[LineEnd(source, p + 1)]
    BY <1>2, <1>3, CommentPasses
  <2>2. QED
    BY <2>1 DEF LexBody, p
<1>4. CASE ~CommentStarts(source, p)
  BY <1>4 DEF LexBody, p
<1>5. QED
  BY <1>3, <1>4

LEMMA LexUptoExists ==
  ASSUME source \in Seq(STRING), NEW n \in Nat
  PROVE  \E g : LexUpto(n, g)
<1> DEFINE Bad == {m \in Nat : ~\E g : LexUpto(m, g)}
           N == Len(source)
<1>0. N \in Nat
  BY SourceTyped
<1>1. SUFFICES ASSUME Bad # {} PROVE FALSE
  OBVIOUS
<1>2. PICK m \in Bad : \A k \in Bad : m <= k
  BY <1>1, LeastElement
<1>3. CASE m = 0
  <2>1. \A at \in 0..N : ~(N < at + 0)
    BY <1>0
  <2>2. LexUpto(0, [at \in 0..N |-> 0])
    BY <2>1 DEF LexUpto
  <2>3. QED
    BY <1>2, <1>3, <2>2
<1>4. CASE m # 0
  <2>1. m - 1 \in Nat /\ m - 1 \notin Bad
    BY <1>2, <1>4
  <2>2. PICK g : LexUpto(m - 1, g)
    BY <2>1
  <2> DEFINE h == [at \in 0..N |-> IF N < at + m THEN LexBody(g, at) ELSE g[at]]
  <2>3. ASSUME NEW at \in 0..N, N < at + m
        PROVE  h[at] = LexBody(h, at)
    <3>1. ASSUME NEW q \in (at + 1)..N
          PROVE  h[q] = g[q]
      <4>1. q \in 0..N /\ N < q + m /\ N < q + (m - 1)
        BY <1>0, <2>1, <2>3
      <4>2. h[q] = LexBody(g, q)
        BY <4>1
      <4>3. g[q] = LexBody(g, q)
        BY <2>2, <4>1 DEF LexUpto
      <4>4. QED
        BY <4>2, <4>3
    <3>2. h[at] = LexBody(g, at)
      BY <2>3
    <3> HIDE DEF h
    <3>3. LexBody(h, at) = LexBody(g, at)
      BY <3>1, LexBodyReadsAhead
    <3>4. QED
      BY <3>2, <3>3
  <2>4. h = [at \in 0..N |-> h[at]]
    OBVIOUS
  <2> HIDE DEF h
  <2>5. LexUpto(m, h)
    BY <2>3, <2>4 DEF LexUpto
  <2>6. QED
    BY <1>2, <2>5
<1>5. QED
  BY <1>3, <1>4

LEMMA LexNextReads ==
  ASSUME source \in Seq(STRING), NEW start \in 0..Len(source)
  PROVE  ReadFrom(start, LexNext(source, start))
<1> DEFINE N == Len(source)
           F(f) == [at \in 0..N |-> LexBody(f, at)]
<1>1. N \in Nat
  BY SourceTyped
<1>2. PICK g : LexUpto(N + 1, g)
  BY <1>1, LexUptoExists
<1>3. g = F(g)
  <2>1. \A at \in 0..N : N < at + (N + 1)
    BY <1>1
  <2>2. g = [at \in 0..N |-> g[at]] /\ \A at \in 0..N : g[at] = LexBody(g, at)
    BY <1>2, <2>1 DEF LexUpto
  <2>3. QED
    BY <2>2, Zenon
<1>4. LexNext(source, start) = (CHOOSE f : f = F(f))[start]
  BY DEF LexNext, LexBody
<1> DEFINE next == CHOOSE f : f = F(f)
<1>5. next = F(next)
  BY <1>3
<1> HIDE DEF next
<1>6. PICK f : f = next /\ f = F(f)
  BY <1>5
<1>7. \A at \in 0..N : f[at] = LexBody(f, at)
  BY <1>6
<1> DEFINE Bad == {m \in Nat : m <= N /\ ~ReadFrom(N - m, f[N - m])}
<1>8. Bad = {}
  <2>1. SUFFICES ASSUME Bad # {} PROVE FALSE
    OBVIOUS
  <2>2. PICK m \in Bad : \A k \in Bad : m <= k
    BY <2>1, LeastElement
  <2> DEFINE at == N - m
  <2>3. at \in 0..N
    BY <1>1, <2>2
  <2>4. ASSUME NEW q \in (at + 1)..N
        PROVE  ReadFrom(q, f[q])
    <3>1. N - q \in Nat /\ N - q < m /\ N - q <= N /\ N - (N - q) = q
      BY <1>1, <2>2
    <3>2. N - q \notin Bad
      BY <2>2, <3>1
    <3>3. QED
      BY <3>1, <3>2
  <2>5. ReadFrom(at, LexBody(f, at))
    <3> HIDE DEF at
    <3>1. QED
      BY <2>3, <2>4, LexBodyReads
  <2>6. QED
    BY <1>7, <2>2, <2>3, <2>5
<1>9. N - start \in Nat /\ N - start <= N /\ N - (N - start) = start
  BY <1>1
<1>10. ReadFrom(start, f[start])
  BY <1>8, <1>9
<1>11. QED
  BY <1>4, <1>6, <1>10 DEF next

-----------------------------------------------------------------------------
(* Lines and columns. *)

LEMMA LineBreaksCounted ==
  ASSUME source \in Seq(STRING), NEW s \in Int, NEW t \in LineBreaks, s < t
  PROVE  Cardinality({i \in LineBreaks : i <= s}) # Cardinality({i \in LineBreaks : i <= t})
<1> DEFINE S == {i \in LineBreaks : i <= s}
           U == {i \in LineBreaks : i <= t}
<1>1. Len(source) \in Nat /\ LineBreaks \subseteq 1..Len(source)
  BY SourceTyped DEF LineBreaks
<1>2. IsFiniteSet(U)
  <2>1. IsFiniteSet(1..Len(source))
    BY <1>1, FS_Interval
  <2>2. U \subseteq 1..Len(source)
    BY <1>1
  <2>3. QED
    BY <2>1, <2>2, FS_Subset
<1>3. S \subseteq U /\ t \in U /\ t \notin S
  <2>1. ASSUME NEW i \in LineBreaks, i <= s
        PROVE  i <= t
    <3>1. i \in Int /\ t \in Int
      BY <1>1
    <3>2. QED
      BY <2>1, <3>1
  <2>2. t <= t /\ ~(t <= s)
    BY <1>1
  <2>3. QED
    BY <2>1, <2>2
<1>4. S # U
  BY <1>3
<1> HIDE DEF S, U
<1>5. Cardinality(S) # Cardinality(U)
  BY <1>2, <1>3, <1>4, FS_Subset
<1>6. QED
  BY <1>5 DEF S, U

(* The line and the column of a token lead back to its place.              *)
LEMMA LocationsLeadBack ==
  ASSUME source \in Seq(STRING), NEW token, token.from \in 0..Len(source)
  PROVE  Places(LocateToken(source, token)) = {token.from}
<1> DEFINE from == token.from
           before == {i \in 1..from : i <= Len(source) /\ source[i] = "\n"}
           L == IF before = {} THEN 0 ELSE CHOOSE i \in before : \A j \in before : j <= i
           Count(s) == Cardinality({i \in LineBreaks : i <= s})
           line == Cardinality(before) + 1
           column == from - L + 1
<1>1. Len(source) \in Nat /\ from \in Nat /\ from <= Len(source) /\ LineBreaks \subseteq 1..Len(source)
  BY SourceTyped DEF LineBreaks
<1>2. before = {i \in LineBreaks : i <= from}
  BY <1>1, SourceTyped DEF LineBreaks
<1>3. /\ L \in {0} \cup before
      /\ \A j \in before : j <= L
  <2>1. CASE before = {}
    BY <2>1
  <2>2. CASE before # {}
    <3>1. before \in SUBSET (0..from)
      BY <1>1
    <3>2. \E m \in before : \A n \in before : n <= m
      BY <1>1, <2>2, <3>1, GreatestElement
    <3>3. QED
      BY <2>2, <3>2
  <2>3. QED
    BY <2>1, <2>2
<1>4. LocateToken(source, token) = [line |-> line, column |-> column]
  BY DEF LocateToken
<1> HIDE DEF before, L
<1>5. L \in Nat /\ L <= from /\ L \in {0} \cup LineBreaks
  BY <1>1, <1>2, <1>3
<1>6. {i \in LineBreaks : i <= L} = before
  <2>1. ASSUME NEW i \in LineBreaks
        PROVE  i <= L <=> i <= from
    <3>1. i \in Int
      BY <1>1
    <3>2. i <= from => i <= L
      BY <1>2, <1>3
    <3>3. i <= L => i <= from
      BY <1>1, <1>5, <3>1
    <3>4. QED
      BY <3>2, <3>3
  <2>2. QED
    BY <1>2, <2>1
<1>7. ASSUME NEW s \in {0} \cup LineBreaks, Count(s) = Count(L)
      PROVE  s = L
  <2>1. s \in Nat
    BY <1>1
  <2>2. ~(s < L)
    <3>1. ASSUME s < L
          PROVE  FALSE
      <4>1. L \in LineBreaks
        BY <1>5, <2>1, <3>1
      <4>2. QED
        BY <1>7, <2>1, <3>1, <4>1, LineBreaksCounted
    <3>2. QED
      BY <3>1
  <2>3. ~(L < s)
    <3>1. ASSUME L < s
          PROVE  FALSE
      <4>1. s \in LineBreaks
        BY <1>5, <2>1, <3>1
      <4>2. QED
        BY <1>5, <1>7, <3>1, <4>1, LineBreaksCounted
    <3>2. QED
      BY <3>1
  <2>4. QED
    BY <1>5, <2>1, <2>2, <2>3
<1>8. line - 1 = Count(L)
  <2>1. IsFiniteSet(1..from)
    BY <1>1, FS_Interval
  <2>2. before \subseteq 1..from
    BY DEF before
  <2>3. Cardinality(before) \in Nat
    BY <2>1, <2>2, FS_Subset, FS_CardinalityType
  <2>4. (Cardinality(before) + 1) - 1 = Cardinality(before)
    BY <2>3
  <2>5. QED
    BY <1>6, <2>4
<1> HIDE DEF Count, line
<1>9. L + column - 1 = from
  BY <1>1, <1>5
<1>10. {s \in {0} \cup LineBreaks : Count(s) = line - 1} = {L}
  BY <1>5, <1>7, <1>8
<1> HIDE DEF column
<1>11. Places([line |-> line, column |-> column]) = {from}
  <2>1. Places([line |-> line, column |-> column])
          = {s + column - 1 : s \in {s \in {0} \cup LineBreaks : Count(s) = line - 1}}
    BY DEF Places, Count
  <2>2. QED
    BY <1>9, <1>10, <2>1
<1>12. QED
  BY <1>4, <1>11

-----------------------------------------------------------------------------
(* Spans: nodes that print the tokens from i to before j in two steps for  *)
(* each, and tight ones, which leave a step over.                          *)

Span(list, nodes, i, j) ==
  i \in Int /\ j \in Int /\ i <= j /\ Prints(list, nodes, i, j, 2 * (j - i))
Tight(list, nodes, i, j) ==
  i \in Int /\ j \in Int /\ i < j /\ Prints(list, nodes, i, j, 2 * (j - i) - 1)

LEMMA TightIsSpan ==
  ASSUME NEW list, NEW nodes, NEW i, NEW j, Tight(list, nodes, i, j)
  PROVE  Span(list, nodes, i, j)
<1>1. i \in Int /\ j \in Int /\ i < j /\ i <= j
  BY DEF Tight
<1>2. 2 * (j - i) - 1 \in Nat /\ 2 * (j - i) \in Nat /\ 2 * (j - i) - 1 <= 2 * (j - i)
  BY <1>1
<1>3. QED
  BY <1>1, <1>2, PrintsWithin DEF Tight, Span

LEMMA SpanBoth ==
  ASSUME NEW list, NEW a, NEW c, NEW i, NEW j, NEW k, Span(list, a, i, j), Span(list, c, j, k)
  PROVE  Span(list, a \o c, i, k)
<1>1. i \in Int /\ j \in Int /\ k \in Int /\ i <= j /\ j <= k /\ i <= k
  BY DEF Span
<1>2. 2 * (j - i) \in Nat /\ 2 * (k - j) \in Nat /\ 2 * (j - i) + 2 * (k - j) = 2 * (k - i)
  BY <1>1
<1>3. Prints(list, a \o c, i, k, 2 * (j - i) + 2 * (k - j))
  BY <1>2, PrintsBoth DEF Span
<1>4. QED
  BY <1>1, <1>2, <1>3 DEF Span

LEMMA TightThen ==
  ASSUME NEW list, NEW a, NEW c, NEW i, NEW j, NEW k, Tight(list, a, i, j), Span(list, c, j, k)
  PROVE  Tight(list, a \o c, i, k)
<1>1. i \in Int /\ j \in Int /\ k \in Int /\ i < j /\ j <= k /\ i < k
  BY DEF Span, Tight
<1>2. 2 * (j - i) - 1 \in Nat /\ 2 * (k - j) \in Nat /\ (2 * (j - i) - 1) + 2 * (k - j) = 2 * (k - i) - 1
  BY <1>1
<1>3. Prints(list, a \o c, i, k, (2 * (j - i) - 1) + 2 * (k - j))
  BY <1>2, PrintsBoth DEF Span, Tight
<1>4. QED
  BY <1>1, <1>2, <1>3 DEF Tight

LEMMA ThenTight ==
  ASSUME NEW list, NEW a, NEW c, NEW i, NEW j, NEW k, Span(list, a, i, j), Tight(list, c, j, k)
  PROVE  Tight(list, a \o c, i, k)
<1>1. i \in Int /\ j \in Int /\ k \in Int /\ i <= j /\ j < k /\ i < k
  BY DEF Span, Tight
<1>2. 2 * (j - i) \in Nat /\ 2 * (k - j) - 1 \in Nat /\ 2 * (j - i) + (2 * (k - j) - 1) = 2 * (k - i) - 1
  BY <1>1
<1>3. Prints(list, a \o c, i, k, 2 * (j - i) + (2 * (k - j) - 1))
  BY <1>2, PrintsBoth DEF Span, Tight
<1>4. QED
  BY <1>1, <1>2, <1>3 DEF Tight

(* A node with a word or a bracket of its own. *)
LEMMA TightNode ==
  ASSUME NEW list, NEW x, NEW i, NEW j, x.kind \notin Leaves, Tight(list, Parts(x), i, j)
  PROVE  Span(list, <<x>>, i, j)
<1>1. i \in Int /\ j \in Int /\ i < j /\ i <= j
  BY DEF Tight
<1>2. 2 * (j - i) - 1 \in Nat /\ (2 * (j - i) - 1) + 1 = 2 * (j - i)
  BY <1>1
<1>3. Prints(list, <<x>>, i, j, (2 * (j - i) - 1) + 1)
  BY <1>2, PrintsInner DEF Tight
<1>4. QED
  BY <1>1, <1>2, <1>3 DEF Span

LEMMA SpanIsSeq ==
  ASSUME NEW list, NEW nodes, NEW i, NEW j, Span(list, nodes, i, j) \/ Tight(list, nodes, i, j)
  PROVE  IsSeq(nodes)
  BY DEF Span, Tight, Prints

LEMMA NothingSpan ==
  ASSUME NEW list, NEW i \in Int
  PROVE  Span(list, <<>>, i, i)
<1>1. 2 * (i - i) = 0
  OBVIOUS
<1>2. Prints(list, <<>>, i, i, 0)
  BY PrintsNothing
<1>3. QED
  BY <1>1, <1>2 DEF Span

LEMMA LeafTight ==
  ASSUME NEW list, Len(list) \in Nat, NEW i \in 1..Len(list), list[i].type # Comma,
         NEW x, x.kind \in Leaves, LeafText(x) = list[i].text
  PROVE  Tight(list, <<x>>, i, i + 1)
<1>1. i \in Int /\ i + 1 \in Int /\ i < i + 1 /\ 2 * ((i + 1) - i) - 1 = 1
  OBVIOUS
<1>2. Prints(list, <<x>>, i, i + 1, 1)
  BY PrintsLeaf
<1>3. QED
  BY <1>1, <1>2 DEF Tight

LEMMA CommaTight ==
  ASSUME NEW list, Len(list) \in Nat, NEW i \in 1..Len(list), list[i].type = Comma
  PROVE  Tight(list, <<>>, i, i + 1)
<1>1. i \in Int /\ i + 1 \in Int /\ i < i + 1 /\ 2 * ((i + 1) - i) - 1 = 1 /\ 0 \in Nat /\ 1 \in Nat /\ 0 <= 1
  OBVIOUS
<1>2. Prints(list, <<>>, i, i + 1, 0)
  BY PrintsComma
<1>3. Prints(list, <<>>, i, i + 1, 1)
  BY <1>1, <1>2, PrintsWithin
<1>4. QED
  BY <1>1, <1>3 DEF Tight

LEMMA PairIs ==
  ASSUME NEW x, NEW y
  PROVE  <<x, y>> = <<x>> \o <<y>>
<1> DEFINE s == <<x>> \o <<y>>
<1>1. IsSeq(s) /\ Len(s) = 2 /\ s[1] = x /\ s[2] = y
  <2>1. IsSeq(s) /\ Len(s) = 1 + 1 /\ s[1] = x /\ s[1 + 1] = y
    BY OneIs, ConcatIs
  <2>2. 1 + 1 = 2
    OBVIOUS
  <2>3. QED
    BY <2>1, <2>2
<1> HIDE DEF s
<1>2. s \in Seq({x, y})
  BY <1>1, SeqIn
<1>3. <<x, y>> \in Seq({x, y})
  OBVIOUS
<1>4. s = <<x, y>>
  BY <1>1, <1>2, <1>3, SeqEqual
<1>5. QED
  BY <1>4 DEF s

LEMMA TripleIs ==
  ASSUME NEW x, NEW y, NEW z
  PROVE  <<x, y, z>> = <<x>> \o <<y>> \o <<z>>
<1> DEFINE s == <<x, y>> \o <<z>>
<1>1. IsSeq(<<x, y>>) /\ Len(<<x, y>>) = 2 /\ <<x, y>>[1] = x /\ <<x, y>>[2] = y
  <2>1. <<x, y>> \in Seq({x, y})
    OBVIOUS
  <2>2. QED
    BY <2>1, SeqIs
<1>2. IsSeq(s) /\ Len(s) = 3 /\ s[1] = x /\ s[2] = y /\ s[3] = z
  <2>1. IsSeq(s) /\ Len(s) = 2 + 1 /\ s[1] = x /\ s[2] = y /\ s[2 + 1] = z
    BY <1>1, OneIs, ConcatIs
  <2>2. 2 + 1 = 3
    OBVIOUS
  <2>3. QED
    BY <2>1, <2>2
<1> HIDE DEF s
<1>3. s \in Seq({x, y, z})
  BY <1>2, SeqIn
<1>4. <<x, y, z>> \in Seq({x, y, z})
  OBVIOUS
<1>5. s = <<x, y, z>>
  BY <1>2, <1>3, <1>4, SeqEqual
<1>6. QED
  BY <1>5, PairIs DEF s

LEMMA FourIs ==
  ASSUME NEW x, NEW y, NEW z, NEW u
  PROVE  <<x, y, z, u>> = <<x>> \o <<y>> \o <<z>> \o <<u>>
<1> DEFINE s == <<x, y, z>> \o <<u>>
<1>1. /\ IsSeq(<<x, y, z>>) /\ Len(<<x, y, z>>) = 3
      /\ <<x, y, z>>[1] = x /\ <<x, y, z>>[2] = y /\ <<x, y, z>>[3] = z
  <2>1. <<x, y, z>> \in Seq({x, y, z})
    OBVIOUS
  <2>2. QED
    BY <2>1, SeqIs
<1>2. IsSeq(s) /\ Len(s) = 4 /\ s[1] = x /\ s[2] = y /\ s[3] = z /\ s[4] = u
  <2>1. IsSeq(s) /\ Len(s) = 3 + 1 /\ s[1] = x /\ s[2] = y /\ s[3] = z /\ s[3 + 1] = u
    BY <1>1, OneIs, ConcatIs
  <2>2. 3 + 1 = 4
    OBVIOUS
  <2>3. QED
    BY <2>1, <2>2
<1> HIDE DEF s
<1>3. s \in Seq({x, y, z, u})
  BY <1>2, SeqIn
<1>4. <<x, y, z, u>> \in Seq({x, y, z, u})
  OBVIOUS
<1>5. s = <<x, y, z, u>>
  BY <1>2, <1>3, <1>4, SeqEqual
<1>6. <<x, y, z>> = <<x>> \o <<y>> \o <<z>>
  BY TripleIs
<1>7. s = (<<x>> \o <<y>> \o <<z>>) \o <<u>>
  BY <1>6, Zenon DEF s
<1>8. QED
  BY <1>5, <1>7, Zenon

-----------------------------------------------------------------------------
(* The parser between two calls. *)

WellLexed(list) ==
  /\ Len(list) \in Nat
  /\ \A i \in 1..Len(list) :
       /\ list[i].type \in Keywords \cup Symbols => list[i].text = <<list[i].type>>
       /\ list[i].type = "ident" => list[i].text # <<>>

Going(list, p) ==
  /\ p = [tokens |-> list, pos |-> p.pos, val |-> p.val, fail |-> "no"]
  /\ p.pos \in 1..(Len(list) + 1)

LEMMA GoingIs ==
  ASSUME NEW list, NEW p, Going(list, p)
  PROVE  /\ ~Fails(p) /\ p.tokens = list /\ p.pos \in 1..(Len(list) + 1)
         /\ \A type : At(p, type) <=> p.pos \in 1..Len(list) /\ list[p.pos].type = type
         /\ IsEof(p) <=> p.pos \notin 1..Len(list)
<1>1. p.fail = "no" /\ p.tokens = list
  BY DEF Going
<1>2. ~Fails(p)
  BY <1>1 DEF Fails
<1>3. IsEof(p) <=> p.pos > Len(list)
  BY <1>1 DEF IsEof
<1>4. p.pos \in 1..(Len(list) + 1)
  BY DEF Going
<1>5. p.pos > Len(list) <=> p.pos \notin 1..Len(list)
  BY <1>4
<1>6. \A type : At(p, type) <=> p.pos \in 1..Len(list) /\ list[p.pos].type = type
  BY <1>1, <1>3, <1>5 DEF At
<1>7. QED
  BY <1>1, <1>2, <1>3, <1>4, <1>5, <1>6

LEMMA StartsGoing ==
  ASSUME NEW list, NEW i \in 1..(Len(list) + 1)
  PROVE  Going(list, Parser(list, i)) /\ Parser(list, i).pos = i
  BY DEF Going, Parser

LEMMA AdvanceGoes ==
  ASSUME NEW list, Len(list) \in Nat, NEW p, Going(list, p), p.pos \in 1..Len(list)
  PROVE  Going(list, Advance(p)) /\ Advance(p).pos = p.pos + 1 /\ Advance(p).val = p.val
<1>1. Advance(p) = [tokens |-> list, pos |-> p.pos + 1, val |-> p.val, fail |-> "no"]
  BY DEF Going, Advance
<1>2. p.pos + 1 \in 1..(Len(list) + 1)
  OBVIOUS
<1>3. QED
  BY <1>1, <1>2 DEF Going

LEMMA YieldGoes ==
  ASSUME NEW list, NEW p, Going(list, p), NEW node
  PROVE  Going(list, Yield(p, node)) /\ Yield(p, node).pos = p.pos /\ Yield(p, node).val = node
<1>1. ~Fails(p)
  BY GoingIs
<1>2. Yield(p, node) = [tokens |-> list, pos |-> p.pos, val |-> node, fail |-> "no"]
  BY <1>1 DEF Going, Yield
<1>3. QED
  BY <1>2 DEF Going

LEMMA YieldFails ==
  ASSUME NEW p, Fails(p), NEW node
  PROVE  Yield(p, node) = p /\ Fails(Yield(p, node))
  BY DEF Yield

LEMMA RefuseFails ==
  ASSUME NEW list, NEW p, Going(list, p)
  PROVE  Fails(Refuse(p))
<1>1. Refuse(p).fail = "error"
  BY DEF Refuse, Going
<1>2. QED
  BY <1>1 DEF Fails

(* expect takes the token it is asked for, or fails. *)
LEMMA ExpectGoes ==
  ASSUME NEW list, Len(list) \in Nat, NEW type, NEW p, Fails(p) \/ Going(list, p)
  PROVE  \/ Fails(Expect(p, type))
         \/ /\ ~Fails(p) /\ Going(list, p) /\ p.pos \in 1..Len(list) /\ list[p.pos].type = type
            /\ Going(list, Expect(p, type))
            /\ Expect(p, type).pos = p.pos + 1 /\ Expect(p, type).val = p.val
<1>1. CASE Fails(p)
  BY <1>1 DEF Expect
<1>2. CASE ~Fails(p) /\ ~At(p, type)
  BY <1>2, RefuseFails DEF Expect
<1>3. CASE ~Fails(p) /\ At(p, type)
  <2>1. Expect(p, type) = Advance(p) /\ Going(list, p)
    BY <1>3 DEF Expect
  <2>2. p.pos \in 1..Len(list) /\ list[p.pos].type = type
    BY <1>3, <2>1, GoingIs
  <2>3. QED
    BY <1>3, <2>1, <2>2, AdvanceGoes
<1>4. QED
  BY <1>1, <1>2, <1>3

LEMMA WordIs ==
  ASSUME NEW text
  PROVE  Word(text).kind \in Leaves /\ LeafText(Word(text)) = text
<1>1. Word(text).kind = "word" /\ Word(text).text = text
  BY DEF Word
<1>2. QED
  BY <1>1 DEF Leaves, LeafText

(* A keyword or a symbol is a word of its own. *)
LEMMA WordTight ==
  ASSUME NEW list, WellLexed(list), NEW i \in 1..Len(list), NEW type \in Keywords \cup Symbols,
         type # Comma, list[i].type = type
  PROVE  Tight(list, <<Word(<<type>>)>>, i, i + 1)
<1>1. list[i].text = <<type>> /\ Len(list) \in Nat
  BY DEF WellLexed
<1>2. QED
  BY <1>1, WordIs, LeafTight

(* expect(IDENT) gives a name. *)
LEMMA IdentGoes ==
  ASSUME NEW list, WellLexed(list), NEW p, Fails(p) \/ Going(list, p)
  PROVE  \/ Fails(Ident(p))
         \/ /\ ~Fails(p) /\ Going(list, p) /\ Going(list, Ident(p))
            /\ Ident(p).pos = p.pos + 1 /\ Ident(p).val # <<>>
            /\ Tight(list, <<Word(Ident(p).val)>>, p.pos, p.pos + 1)
<1> DEFINE q == Expect(p, "ident")
<1>1. Len(list) \in Nat
  BY DEF WellLexed
<1>2. CASE Fails(q)
  BY <1>2 DEF Ident, AndThen
<1>3. CASE ~Fails(q)
  <2>1. /\ ~Fails(p) /\ Going(list, p) /\ p.pos \in 1..Len(list) /\ list[p.pos].type = "ident"
        /\ Going(list, q) /\ q.pos = p.pos + 1
    BY <1>1, <1>3, ExpectGoes
  <2>2. p.tokens = list
    BY <2>1, GoingIs
  <2>3. Ident(p) = Yield(q, list[p.pos].text)
    BY <1>3, <2>2 DEF Ident, AndThen
  <2> HIDE DEF q
  <2>4. Going(list, Ident(p)) /\ Ident(p).pos = p.pos + 1 /\ Ident(p).val = list[p.pos].text
    BY <2>1, <2>3, YieldGoes
  <2>5. list[p.pos].text # <<>>
    BY <2>1 DEF WellLexed
  <2>6. "ident" # Comma
    BY Zenon DEF Comma
  <2>7. Tight(list, <<Word(Ident(p).val)>>, p.pos, p.pos + 1)
    BY <1>1, <2>1, <2>4, <2>6, WordIs, LeafTight
  <2>8. QED
    BY <2>1, <2>4, <2>5, <2>7
<1>4. QED
  BY <1>2, <1>3

-----------------------------------------------------------------------------
(* The rules of the descent.  What a rule makes of the tokens from a       *)
(* position on prints them again; and it asks the rules only about the     *)
(* positions behind its own, so that the descent comes to an end.          *)

(* The node of an item of a list, and the nodes of what a rule gives. *)
ItemNode(rule, v) ==
  IF rule = "idents" THEN Word(v)
  ELSE IF rule = "rows" THEN RowNode(v)
  ELSE IF rule = "clauses" THEN ClauseNode(v)
  ELSE IF rule = "columns" THEN ColumnNode(v)
  ELSE v
ItemNodes(rule, s) == [i \in DOMAIN s |-> ItemNode(rule, s[i])]

Does(list, rule, i, q) ==
  /\ Going(list, q)
  /\ i < q.pos
  /\ CASE rule = "expression" -> Span(list, <<q.val>>, i, q.pos)
       [] rule = "arguments" -> IsSeq(q.val) /\ Tight(list, q.val \o <<Word(<<")">>)>>, i, q.pos)
       [] OTHER -> IsSeq(q.val) /\ Span(list, ItemNodes(rule, q.val), i, q.pos)

Goes(list, rule, i, q) == Fails(q) \/ Does(list, rule, i, q)

(* Two parsers that give the same behind i, and what a rule does. *)
Beyond(list, i, f, g) ==
  \A rule \in Rules, j \in 1..(Len(list) + 1) : i < j =>
     f[<<rule, j>>] = g[<<rule, j>>] /\ Goes(list, rule, j, g[<<rule, j>>])

LEMMA RuleGoes ==
  ASSUME NEW list, Len(list) \in Nat, NEW i \in Nat, NEW f, NEW g, Beyond(list, i, f, g), NEW rule \in Rules,
         NEW q, Fails(q) \/ (Going(list, q) /\ i < q.pos)
  PROVE  /\ Rule(f, rule, q) = Rule(g, rule, q)
         /\ \/ Fails(Rule(g, rule, q))
            \/ ~Fails(q) /\ Going(list, q) /\ Does(list, rule, q.pos, Rule(g, rule, q))
<1>1. CASE Fails(q)
  BY <1>1 DEF Rule
<1>2. CASE ~Fails(q)
  <2>1. q.pos \in 1..(Len(list) + 1) /\ i < q.pos /\ Going(list, q)
    BY <1>2, GoingIs
  <2>2. Rule(f, rule, q) = f[<<rule, q.pos>>] /\ Rule(g, rule, q) = g[<<rule, q.pos>>]
    BY <1>2 DEF Rule
  <2>3. f[<<rule, q.pos>>] = g[<<rule, q.pos>>] /\ Goes(list, rule, q.pos, g[<<rule, q.pos>>])
    BY <2>1 DEF Beyond
  <2>4. QED
    BY <1>2, <2>1, <2>2, <2>3 DEF Goes
<1>3. QED
  BY <1>1, <1>2

LEMMA DoesExpression ==
  ASSUME NEW list, NEW i, NEW q
  PROVE  Does(list, "expression", i, q) <=> Going(list, q) /\ i < q.pos /\ Span(list, <<q.val>>, i, q.pos)
  BY DEF Does

LEMMA DoesArguments ==
  ASSUME NEW list, NEW i, NEW q
  PROVE  Does(list, "arguments", i, q) <=>
           /\ Going(list, q) /\ i < q.pos
           /\ IsSeq(q.val) /\ Tight(list, q.val \o <<Word(<<")">>)>>, i, q.pos)
  BY DEF Does

Lists == Rules \ {"expression", "arguments"}

LEMMA DoesList ==
  ASSUME NEW list, NEW i, NEW q, NEW rule \in Lists
  PROVE  Does(list, rule, i, q) <=>
           Going(list, q) /\ i < q.pos /\ IsSeq(q.val) /\ Span(list, ItemNodes(rule, q.val), i, q.pos)
  BY DEF Does, Lists

LEMMA ItemsAre ==
  ASSUME NEW rule, NEW s, IsSeq(s)
  PROVE  /\ IsSeq(ItemNodes(rule, s)) /\ Len(ItemNodes(rule, s)) = Len(s)
         /\ \A i \in 1..Len(s) : ItemNodes(rule, s)[i] = ItemNode(rule, s[i])
<1>1. Len(s) \in Nat /\ DOMAIN s = 1..Len(s)
  BY LenIs
<1> DEFINE t == ItemNodes(rule, s)
<1>2. t = [i \in 1..Len(s) |-> ItemNode(rule, s[i])]
  BY <1>1 DEF ItemNodes
<1> HIDE DEF t
<1>3. t = [i \in 1..Len(s) |-> t[i]] /\ \A i \in 1..Len(s) : t[i] = ItemNode(rule, s[i])
  BY <1>2
<1>4. IsSeq(t) /\ Len(t) = Len(s)
  BY <1>1, <1>3, FunctionIsSeq
<1>5. QED
  BY <1>3, <1>4 DEF t

LEMMA ItemsOfOne ==
  ASSUME NEW rule, NEW v
  PROVE  ItemNodes(rule, <<v>>) = <<ItemNode(rule, v)>>
<1> DEFINE t == ItemNodes(rule, <<v>>)
<1>1. IsSeq(<<v>>) /\ Len(<<v>>) = 1 /\ <<v>>[1] = v /\ 1 \in 1..1
  BY OneIs
<1>2. IsSeq(t) /\ Len(t) = 1 /\ t[1] = ItemNode(rule, v)
  BY <1>1, ItemsAre
<1> HIDE DEF t
<1>3. t = <<t[1]>>
  BY <1>2, OnePiece
<1>4. QED
  BY <1>2, <1>3 DEF t

LEMMA ItemsOfMore ==
  ASSUME NEW rule, NEW v, NEW s, IsSeq(s)
  PROVE  ItemNodes(rule, <<v>> \o s) = <<ItemNode(rule, v)>> \o ItemNodes(rule, s)
<1> DEFINE vs == <<v>> \o s
           t == ItemNodes(rule, vs)
           u == <<ItemNode(rule, v)>> \o ItemNodes(rule, s)
<1>1. /\ IsSeq(vs) /\ Len(vs) = 1 + Len(s) /\ vs[1] = v
      /\ \A i \in 1..Len(s) : vs[1 + i] = s[i]
  BY OneIs, ConcatIs
<1>2. Len(s) \in Nat
  BY LenIs
<1> HIDE DEF vs
<1>3. IsSeq(t) /\ Len(t) = 1 + Len(s) /\ \A i \in 1..(1 + Len(s)) : t[i] = ItemNode(rule, vs[i])
  BY <1>1, ItemsAre
<1>4. IsSeq(ItemNodes(rule, s)) /\ Len(ItemNodes(rule, s)) = Len(s)
      /\ \A i \in 1..Len(s) : ItemNodes(rule, s)[i] = ItemNode(rule, s[i])
  BY ItemsAre
<1>5. /\ IsSeq(u) /\ Len(u) = 1 + Len(s) /\ u[1] = ItemNode(rule, v)
      /\ \A i \in 1..Len(s) : u[1 + i] = ItemNode(rule, s[i])
  BY <1>4, OneIs, ConcatIs
<1> HIDE DEF t, u
<1>6. ASSUME NEW i \in 1..(1 + Len(s))
      PROVE  t[i] = u[i]
  <2>1. CASE i = 1
    BY <1>1, <1>3, <1>5, <2>1
  <2>2. CASE i # 1
    <3>1. i - 1 \in 1..Len(s) /\ 1 + (i - 1) = i
      BY <1>2, <2>2
    <3>2. t[i] = ItemNode(rule, vs[i]) /\ vs[1 + (i - 1)] = s[i - 1] /\ u[1 + (i - 1)] = ItemNode(rule, s[i - 1])
      BY <1>1, <1>3, <1>5, <3>1
    <3>3. QED
      BY <3>1, <3>2
  <2>3. QED
    BY <2>1, <2>2
<1> DEFINE S == {t[i] : i \in 1..(1 + Len(s))}
<1>7. t \in Seq(S)
  BY <1>3, SeqIn
<1>8. u \in Seq(S)
  BY <1>5, <1>6, SeqIn
<1>9. t = u
  BY <1>3, <1>5, <1>6, <1>7, <1>8, SeqEqual
<1>10. QED
  BY <1>9 DEF t, u, vs

(* The expressions of a list are its nodes. *)
LEMMA ItemsOfExpressions ==
  ASSUME NEW s, IsSeq(s)
  PROVE  ItemNodes("expressions", s) = s
<1>1. Len(s) \in Nat /\ DOMAIN s = 1..Len(s)
  BY LenIs
<1>2. s = [i \in 1..Len(s) |-> s[i]]
  BY <1>1 DEF IsSeq
<1>3. \A v : ItemNode("expressions", v) = v
  BY DEF ItemNode
<1>4. QED
  BY <1>1, <1>2, <1>3 DEF ItemNodes

LEMMA MoreGoes ==
  ASSUME NEW list, WellLexed(list), NEW i \in Nat, NEW f, NEW g, Beyond(list, i, f, g), NEW rule \in Lists, NEW item,
         \/ Fails(item)
         \/ Going(list, item) /\ i < item.pos /\ Span(list, <<ItemNode(rule, item.val)>>, i, item.pos)
  PROVE  /\ More(f, rule, item) = More(g, rule, item)
         /\ Goes(list, rule, i, More(g, rule, item))
<1>0. Len(list) \in Nat /\ rule \in Rules
  BY DEF WellLexed, Lists
<1>1. CASE Fails(item)
  <2>1. More(f, rule, item) = item /\ More(g, rule, item) = item
    BY <1>1 DEF More, AndThen
  <2>2. QED
    BY <1>1, <2>1 DEF Goes
<1>2. CASE ~Fails(item) /\ At(item, Comma)
  <2> DEFINE next == Advance(item)
             rest == Rule(g, rule, next)
  <2>1. Going(list, item) /\ i < item.pos /\ Span(list, <<ItemNode(rule, item.val)>>, i, item.pos)
    BY <1>2
  <2>2. item.pos \in 1..Len(list) /\ list[item.pos].type = Comma
    BY <1>2, <2>1, GoingIs
  <2>3. Going(list, next) /\ next.pos = item.pos + 1 /\ ~Fails(next)
    BY <1>0, <2>1, <2>2, AdvanceGoes, GoingIs
  <2>4. i < next.pos
    BY <2>1, <2>2, <2>3
  <2> HIDE DEF next
  <2>5. /\ Rule(f, rule, next) = rest
        /\ Fails(rest) \/ Does(list, rule, next.pos, rest)
    BY <1>0, <2>3, <2>4, RuleGoes
  <2> HIDE DEF rest
  <2>6. \A h : Rule(h, rule, next) = rest =>
            More(h, rule, item) = IF Fails(rest) THEN rest ELSE Yield(rest, <<item.val>> \o rest.val)
    BY <1>2, Zenon DEF More, AndThen, next
  <2>7. Rule(g, rule, next) = rest
    BY DEF rest
  <2>8. /\ More(f, rule, item) = More(g, rule, item)
        /\ More(g, rule, item) = IF Fails(rest) THEN rest ELSE Yield(rest, <<item.val>> \o rest.val)
    BY <2>5, <2>6, <2>7
  <2>9. CASE Fails(rest)
    BY <2>8, <2>9 DEF Goes
  <2>10. CASE ~Fails(rest)
    <3> DEFINE vals == <<item.val>> \o rest.val
               all == Yield(rest, vals)
    <3>1. Does(list, rule, next.pos, rest)
      BY <2>5, <2>10
    <3>2. /\ Going(list, rest) /\ next.pos < rest.pos /\ IsSeq(rest.val)
          /\ Span(list, ItemNodes(rule, rest.val), next.pos, rest.pos)
      BY <3>1, DoesList
    <3>4. IsSeq(vals)
      BY <3>2, OneIs, ConcatIs
    <3>5. ItemNodes(rule, vals) = <<ItemNode(rule, item.val)>> \o ItemNodes(rule, rest.val)
      BY <3>2, ItemsOfMore
    <3> HIDE DEF vals
    <3>3. Going(list, all) /\ all.pos = rest.pos /\ all.val = vals
      BY <3>2, YieldGoes
    <3> HIDE DEF all
    <3>6. Span(list, <<>>, item.pos, next.pos)
      BY <1>0, <2>2, <2>3, CommaTight, TightIsSpan
    <3>7. Span(list, <<ItemNode(rule, item.val)>> \o <<>>, i, next.pos)
      BY <2>1, <3>6, SpanBoth
    <3>8. <<ItemNode(rule, item.val)>> \o <<>> = <<ItemNode(rule, item.val)>>
      BY OneIs, ConcatNothing
    <3>9. Span(list, ItemNodes(rule, all.val), i, all.pos)
      BY <3>2, <3>3, <3>5, <3>7, <3>8, SpanBoth
    <3>10. i < all.pos
      <4>1. next.pos \in Int /\ rest.pos \in Int
        BY <2>3, <3>2, GoingIs
      <4>2. QED
        BY <2>4, <3>2, <3>3, <4>1
    <3>11. Does(list, rule, i, all)
      BY <3>3, <3>4, <3>9, <3>10, DoesList
    <3>12. QED
      BY <2>8, <2>10, <3>11 DEF Goes, all, vals
  <2>11. QED
    BY <2>8, <2>9, <2>10
<1>3. CASE ~Fails(item) /\ ~At(item, Comma)
  <2> DEFINE all == Yield(item, <<item.val>>)
  <2>1. Going(list, item) /\ i < item.pos /\ Span(list, <<ItemNode(rule, item.val)>>, i, item.pos)
    BY <1>3
  <2>2. More(f, rule, item) = all /\ More(g, rule, item) = all
    BY <1>3 DEF More, AndThen
  <2>3. Going(list, all) /\ all.pos = item.pos /\ all.val = <<item.val>>
    BY <2>1, YieldGoes
  <2> HIDE DEF all
  <2>4. IsSeq(all.val) /\ ItemNodes(rule, all.val) = <<ItemNode(rule, item.val)>>
    BY <2>3, OneIs, ItemsOfOne
  <2>5. Does(list, rule, i, all)
    BY <2>1, <2>3, <2>4, DoesList
  <2>6. QED
    BY <2>2, <2>5 DEF Goes
<1>4. QED
  BY <1>1, <1>2, <1>3

(* The parts of the nodes of expressions. *)
LEMMA BracketedIs ==
  ASSUME NEW nodes, IsSeq(nodes)
  PROVE  Bracketed(nodes) = <<Word(<<"(">>)>> \o (nodes \o <<Word(<<")">>)>>)
<1>1. Bracketed(nodes) = (<<Word(<<"(">>)>> \o nodes) \o <<Word(<<")">>)>>
  BY DEF Bracketed
<1>2. QED
  BY <1>1, OneIs, ConcatThree

LEMMA PartsOfBinary ==
  ASSUME NEW op, NEW lhs, NEW rhs
  PROVE  /\ BinaryOpExpr(op, lhs, rhs).kind \notin Leaves
         /\ Parts(BinaryOpExpr(op, lhs, rhs)) = <<lhs, Word(<<op>>), rhs>>
<1> DEFINE n == BinaryOpExpr(op, lhs, rhs)
<1>1. n.kind = "binary" /\ n.op = op /\ n.lhs = lhs /\ n.rhs = rhs
  BY DEF BinaryOpExpr
<1> HIDE DEF n
<1>2. n.kind \notin Leaves
  BY <1>1 DEF Leaves
<1>3. Parts(n) = <<n.lhs, Word(<<n.op>>), n.rhs>>
  BY <1>1 DEF Parts
<1>4. QED
  BY <1>1, <1>2, <1>3 DEF n

LEMMA PartsOfCall ==
  ASSUME NEW fn, NEW args, NEW at
  PROVE  /\ CallExpr(fn, args, at).kind \notin Leaves
         /\ Parts(CallExpr(fn, args, at)) = <<fn>> \o Bracketed(args)
<1> DEFINE n == CallExpr(fn, args, at)
<1>1. n.kind = "call" /\ n.fn = fn /\ n.args = args
  BY DEF CallExpr
<1> HIDE DEF n
<1>2. n.kind \notin Leaves
  BY <1>1 DEF Leaves
<1>3. Parts(n) = <<n.fn>> \o Bracketed(n.args)
  BY <1>1 DEF Parts
<1>4. QED
  BY <1>1, <1>2, <1>3 DEF n

LEMMA PartsOfSelect ==
  ASSUME NEW exprs, NEW table, NEW at
  PROVE  /\ SelectExpr(exprs, table, at).kind \notin Leaves
         /\ Parts(SelectExpr(exprs, table, at)) =
              <<Word(<<"SELECT">>)>> \o exprs \o <<Word(<<"FROM">>), table>> \o Ended
<1> DEFINE n == SelectExpr(exprs, table, at)
<1>1. n.kind = "select" /\ n.exprs = exprs /\ n.table = table
  BY DEF SelectExpr
<1> HIDE DEF n
<1>2. n.kind \notin Leaves
  BY <1>1 DEF Leaves
<1>3. Parts(n) = <<Word(<<"SELECT">>)>> \o n.exprs \o <<Word(<<"FROM">>), n.table>> \o Ended
  BY <1>1 DEF Parts
<1>4. QED
  BY <1>1, <1>2, <1>3 DEF n

LEMMA PartsOfRow ==
  ASSUME NEW exprs
  PROVE  /\ RowNode(exprs).kind \notin Leaves
         /\ Parts(RowNode(exprs)) = Bracketed(exprs)
<1> DEFINE n == RowNode(exprs)
<1>1. n.kind = "row" /\ n.exprs = exprs
  BY DEF RowNode
<1> HIDE DEF n
<1>2. n.kind \notin Leaves
  BY <1>1 DEF Leaves
<1>3. Parts(n) = Bracketed(n.exprs)
  BY <1>1 DEF Parts
<1>4. QED
  BY <1>1, <1>2, <1>3 DEF n

LEMMA PartsOfClause ==
  ASSUME NEW name, NEW value
  PROVE  /\ ClauseNode(SetClause(name, value)).kind \notin Leaves
         /\ Parts(ClauseNode(SetClause(name, value))) = <<Word(name), Word(<<"=">>), value>>
<1> DEFINE n == ClauseNode(SetClause(name, value))
<1>1. n.kind = "clause" /\ n.name = name /\ n.value = value
  BY DEF ClauseNode, SetClause
<1> HIDE DEF n
<1>2. n.kind \notin Leaves
  BY <1>1 DEF Leaves
<1>3. Parts(n) = <<Word(n.name), Word(<<"=">>), n.value>>
  BY <1>1 DEF Parts
<1>4. QED
  BY <1>1, <1>2, <1>3 DEF n

LEMMA PartsOfColumn ==
  ASSUME NEW name, NEW type
  PROVE  /\ ColumnNode([name |-> name, type |-> type]).kind \notin Leaves
         /\ Parts(ColumnNode([name |-> name, type |-> type])) = <<Word(name), Word(type)>>
<1> DEFINE n == ColumnNode([name |-> name, type |-> type])
<1>1. n.kind = "column" /\ n.name = name /\ n.type = type
  BY DEF ColumnNode
<1> HIDE DEF n
<1>2. n.kind \notin Leaves
  BY <1>1 DEF Leaves
<1>3. Parts(n) = <<Word(n.name), Word(n.type)>>
  BY <1>1 DEF Parts
<1>4. QED
  BY <1>1, <1>2, <1>3 DEF n

Reserved == (Keywords \cup Symbols) \ {Comma}

LEMMA ReservedAre ==
  {"SELECT", "FROM", "WHERE", "USE", "INSERT", "INTO", "VALUES", "UPDATE", "SET", "DELETE", "DROP", "TABLE",
   "DATABASE", "CREATE", "USER", "ALTER", "(", ")", "=", "<", ">", Semicolon} \subseteq Reserved
<1>1. {"SELECT", "FROM", "WHERE", "USE", "INSERT", "INTO", "VALUES", "UPDATE", "SET", "DELETE", "DROP", "TABLE",
       "DATABASE", "CREATE", "USER", "ALTER", "(", ")", "=", "<", ">", Semicolon} \subseteq Keywords \cup Symbols
  BY Zenon DEF Keywords, Symbols
<1>2. Comma \notin {"SELECT", "FROM", "WHERE", "USE", "INSERT", "INTO", "VALUES", "UPDATE", "SET", "DELETE", "DROP",
       "TABLE", "DATABASE", "CREATE", "USER", "ALTER", "(", ")", "=", "<", ">", Semicolon}
  BY Zenon DEF Comma, Semicolon
<1>3. QED
  BY <1>1, <1>2, Zenon DEF Reserved

LEMMA ExpectWord ==
  ASSUME NEW list, WellLexed(list), NEW type \in Reserved, NEW p, Fails(p) \/ Going(list, p)
  PROVE  \/ Fails(Expect(p, type))
         \/ /\ ~Fails(p) /\ Going(list, p) /\ Going(list, Expect(p, type))
            /\ Expect(p, type).pos = p.pos + 1 /\ Expect(p, type).val = p.val
            /\ Tight(list, <<Word(<<type>>)>>, p.pos, p.pos + 1)
<1>1. Len(list) \in Nat /\ type \in Keywords \cup Symbols /\ type # Comma
  BY DEF WellLexed, Reserved
<1>2. CASE Fails(Expect(p, type))
  BY <1>2
<1>3. CASE ~Fails(Expect(p, type))
  <2>1. /\ ~Fails(p) /\ Going(list, p) /\ p.pos \in 1..Len(list) /\ list[p.pos].type = type
        /\ Going(list, Expect(p, type))
        /\ Expect(p, type).pos = p.pos + 1 /\ Expect(p, type).val = p.val
    BY <1>1, <1>3, ExpectGoes
  <2>2. Tight(list, <<Word(<<type>>)>>, p.pos, p.pos + 1)
    BY <1>1, <2>1, WordTight
  <2>3. QED
    BY <2>1, <2>2
<1>4. QED
  BY <1>2, <1>3

LEMMA SelectGoes ==
  ASSUME NEW list, WellLexed(list), NEW p, Going(list, p), NEW f, NEW g, Beyond(list, p.pos, f, g)
  PROVE  /\ Select(f, p) = Select(g, p)
         /\ Goes(list, "expression", p.pos, Select(g, p))
<1> DEFINE i == p.pos
           x1 == Expect(p, "SELECT")
           x2 == Rule(g, "expressions", x1)
           x3 == Expect(x2, "FROM")
           x4 == Rule(g, "expression", x3)
           x5 == Expect(x4, Semicolon)
           node == SelectExpr(x2.val, x4.val, p.pos)
<1>0. /\ Len(list) \in Nat /\ i \in Nat /\ i \in Int
      /\ "expressions" \in Rules /\ "expression" \in Rules /\ "expressions" \in Lists
  BY GoingIs DEF WellLexed, Rules, Lists
<1>1. \/ Fails(x1)
      \/ /\ Going(list, x1) /\ x1.pos = i + 1 /\ i < x1.pos
         /\ Tight(list, <<Word(<<"SELECT">>)>>, i, x1.pos)
  BY <1>0, ExpectWord, ReservedAre
<1> HIDE DEF x1
<1>2. /\ Rule(f, "expressions", x1) = x2
      /\ Fails(x2) \/ (~Fails(x1) /\ Going(list, x1) /\ Does(list, "expressions", x1.pos, x2))
  BY <1>0, <1>1, RuleGoes
<1>3. CASE Fails(x2)
  <2>1. Select(f, p) = x2
    BY <1>2, <1>3 DEF Select, AndThen, x1
  <2>2. Select(g, p) = x2
    BY <1>3 DEF Select, AndThen, x1
  <2>3. QED
    BY <1>3, <2>1, <2>2 DEF Goes
<1>4. CASE ~Fails(x2)
  <2>0. /\ ~Fails(x1) /\ Does(list, "expressions", x1.pos, x2)
        /\ Going(list, x1) /\ x1.pos = i + 1 /\ i < x1.pos
        /\ Tight(list, <<Word(<<"SELECT">>)>>, i, x1.pos)
    BY <1>1, <1>2, <1>4
  <2>1. Select(f, p) = AndThen(Rule(f, "expression", x3), LAMBDA table :
                         Yield(Expect(table, Semicolon), SelectExpr(x2.val, table.val, p.pos)))
    BY <1>2, <1>4 DEF Select, AndThen, x1
  <2>2. Select(g, p) = AndThen(x4, LAMBDA table :
                         Yield(Expect(table, Semicolon), SelectExpr(x2.val, table.val, p.pos)))
    BY <1>4 DEF Select, AndThen, x1
  <2>3. /\ Going(list, x2) /\ x1.pos < x2.pos /\ IsSeq(x2.val)
        /\ Span(list, ItemNodes("expressions", x2.val), x1.pos, x2.pos)
    BY <1>0, <2>0, DoesList
  <2>4. Span(list, x2.val, x1.pos, x2.pos)
    BY <2>3, ItemsOfExpressions
  <2> HIDE DEF x2
  <2>5. \/ Fails(x3)
        \/ Going(list, x3) /\ x3.pos = x2.pos + 1 /\ Tight(list, <<Word(<<"FROM">>)>>, x2.pos, x3.pos)
    BY <1>0, <2>3, ExpectWord, ReservedAre
  <2> HIDE DEF x3
  <2>6. x2.pos \in Int /\ i < x2.pos
    <3>1. x1.pos \in Int /\ x2.pos \in Int
      BY <2>0, <2>3, GoingIs
    <3>2. QED
      BY <1>0, <2>0, <2>3, <3>1
  <2>7. Fails(x3) \/ (Going(list, x3) /\ i < x3.pos)
    BY <1>0, <2>5, <2>6
  <2>8. /\ Rule(f, "expression", x3) = x4
        /\ Fails(x4) \/ (~Fails(x3) /\ Going(list, x3) /\ Does(list, "expression", x3.pos, x4))
    BY <1>0, <2>7, RuleGoes
  <2>9. Select(f, p) = Select(g, p)
    BY <2>1, <2>2, <2>8
  <2> HIDE DEF x4
  <2>10. CASE Fails(x4)
    BY <2>2, <2>9, <2>10 DEF Goes, AndThen
  <2>11. CASE ~Fails(x4)
    <3>1. Select(g, p) = Yield(x5, node)
      BY <2>2, <2>11 DEF AndThen
    <3>2. /\ Going(list, x3) /\ x3.pos = x2.pos + 1 /\ Tight(list, <<Word(<<"FROM">>)>>, x2.pos, x3.pos)
          /\ Going(list, x4) /\ x3.pos < x4.pos /\ Span(list, <<x4.val>>, x3.pos, x4.pos)
      BY <2>5, <2>8, <2>11, DoesExpression
    <3>3. \/ Fails(x5)
          \/ Going(list, x5) /\ x5.pos = x4.pos + 1 /\ Tight(list, <<Word(<<Semicolon>>)>>, x4.pos, x5.pos)
      BY <1>0, <3>2, ExpectWord, ReservedAre
    <3> HIDE DEF x5
    <3>4. CASE Fails(x5)
      BY <2>9, <3>1, <3>4, YieldFails DEF Goes
    <3>5. CASE ~Fails(x5)
      <4>1. Going(list, x5) /\ x5.pos = x4.pos + 1 /\ Tight(list, <<Word(<<Semicolon>>)>>, x4.pos, x5.pos)
        BY <3>3, <3>5
      <4>2. Tight(list, <<Word(<<"SELECT">>)>> \o x2.val, i, x2.pos)
        BY <2>0, <2>4, TightThen
      <4>3. Tight(list, <<Word(<<"FROM">>), x4.val>>, x2.pos, x4.pos)
        BY <3>2, TightThen, PairIs
      <4>4. Tight(list, <<Word(<<"SELECT">>)>> \o x2.val \o <<Word(<<"FROM">>), x4.val>> \o Ended, i, x5.pos)
        BY <4>1, <4>2, <4>3, TightThen, TightIsSpan DEF Ended
      <4>5. Span(list, <<node>>, i, x5.pos)
        BY <4>4, PartsOfSelect, TightNode
      <4>6. i < x5.pos
        BY <4>4 DEF Tight
      <4> DEFINE y == Yield(x5, node)
      <4> HIDE DEF node
      <4>7. Going(list, y) /\ y.pos = x5.pos /\ y.val = node
        BY <4>1, YieldGoes
      <4> HIDE DEF y
      <4>8. Does(list, "expression", i, y)
        BY <4>5, <4>6, <4>7, DoesExpression
      <4>9. QED
        BY <2>9, <3>1, <4>8 DEF Goes, y
    <3>6. QED
      BY <3>4, <3>5
  <2>12. QED
    BY <2>10, <2>11
<1>5. QED
  BY <1>3, <1>4

(* A token that is an expression. *)
LEMMA LeafGoes ==
  ASSUME NEW list, WellLexed(list), NEW p, Going(list, p), p.pos \in 1..Len(list), list[p.pos].type # Comma,
         NEW x, x.kind \in Leaves, LeafText(x) = list[p.pos].text
  PROVE  Goes(list, "expression", p.pos, Yield(Advance(p), x))
<1> DEFINE q == Advance(p)
           y == Yield(q, x)
<1>1. Len(list) \in Nat
  BY DEF WellLexed
<1>2. Going(list, q) /\ q.pos = p.pos + 1
  BY <1>1, AdvanceGoes
<1> HIDE DEF q
<1>3. Going(list, y) /\ y.pos = p.pos + 1 /\ y.val = x
  BY <1>2, YieldGoes
<1> HIDE DEF y
<1>4. Span(list, <<y.val>>, p.pos, y.pos)
  BY <1>1, <1>3, LeafTight, TightIsSpan
<1>5. p.pos < y.pos
  BY <1>1, <1>3
<1>6. QED
  BY <1>3, <1>4, <1>5, DoesExpression DEF Goes, y, q

LEMMA PrimaryGoes ==
  ASSUME NEW list, WellLexed(list), NEW p, Going(list, p), NEW f, NEW g, Beyond(list, p.pos, f, g)
  PROVE  /\ Primary(f, p) = Primary(g, p)
         /\ Goes(list, "expression", p.pos, Primary(g, p))
<1> DEFINE token == list[p.pos]
<1>1. p.tokens = list /\ (IsEof(p) <=> p.pos \notin 1..Len(list))
  BY GoingIs
<1>2. Fails(Refuse(p))
  BY RefuseFails
<1>3. CASE IsEof(p)
  BY <1>2, <1>3 DEF Primary, Goes
<1>4. CASE ~IsEof(p)
  <2> DEFINE node == IdentifierExpr(token.text)
             literal == LiteralExpr(token.type, token.text)
  <2>1. p.pos \in 1..Len(list)
    BY <1>1, <1>4
  <2>2. /\ "ident" \notin Literals /\ "SELECT" \notin Literals /\ "ident" # "SELECT"
        /\ "ident" # Comma /\ Comma \notin Literals
    BY Zenon DEF Literals, Comma
  <2>3. ASSUME NEW h
        PROVE  Primary(h, p) = CASE token.type = "ident" -> Yield(Advance(p), node)
                                 [] token.type \in Literals -> Yield(Advance(p), literal)
                                 [] token.type = "SELECT" -> Select(h, p)
                                 [] OTHER -> Refuse(p)
    BY <1>1, <1>4, Zenon DEF Primary
  <2>4. CASE token.type = "ident"
    <3>1. node.kind \in Leaves /\ LeafText(node) = token.text
      BY DEF IdentifierExpr, Leaves, LeafText
    <3> HIDE DEF node, literal
    <3>2. \A h : Primary(h, p) = Yield(Advance(p), node)
      BY <2>2, <2>3, <2>4
    <3>3. Goes(list, "expression", p.pos, Yield(Advance(p), node))
      BY <2>1, <2>2, <2>4, <3>1, LeafGoes
    <3>4. QED
      BY <3>2, <3>3
  <2>5. CASE token.type \in Literals
    <3>1. literal.kind \in Leaves /\ LeafText(literal) = token.text
      BY <2>2, <2>5 DEF LiteralExpr, Leaves, LeafText, Literals
    <3> HIDE DEF node, literal
    <3>2. \A h : Primary(h, p) = Yield(Advance(p), literal)
      BY <2>2, <2>3, <2>5
    <3>3. Goes(list, "expression", p.pos, Yield(Advance(p), literal))
      BY <2>1, <2>2, <2>5, <3>1, LeafGoes
    <3>4. QED
      BY <3>2, <3>3
  <2>6. CASE token.type = "SELECT"
    <3> HIDE DEF node, literal
    <3>1. \A h : Primary(h, p) = Select(h, p)
      BY <2>2, <2>3, <2>6
    <3>2. QED
      BY <3>1, SelectGoes
  <2>7. CASE token.type # "ident" /\ token.type \notin Literals /\ token.type # "SELECT"
    <3> HIDE DEF node, literal
    <3>1. \A h : Primary(h, p) = Refuse(p)
      BY <2>3, <2>7
    <3>2. QED
      BY <1>2, <3>1 DEF Goes
  <2>8. QED
    BY <2>4, <2>5, <2>6, <2>7
<1>5. QED
  BY <1>3, <1>4

(* An operator and its right side, behind an expression. *)
LEMMA BinaryRestGoes ==
  ASSUME NEW list, WellLexed(list), NEW i \in Nat, NEW f, NEW g, Beyond(list, i, f, g),
         NEW lhs, Does(list, "expression", i, lhs), NEW op \in Operators, At(lhs, op)
  PROVE  /\ BinaryRest(f, lhs) = BinaryRest(g, lhs)
         /\ Goes(list, "expression", i, BinaryRest(g, lhs))
<1> DEFINE next == Advance(lhs)
           rhs == Rule(g, "expression", next)
           node == BinaryOpExpr(op, lhs.val, rhs.val)
           y == Yield(rhs, node)
<1>0. Len(list) \in Nat /\ "expression" \in Rules /\ op \in Reserved
  BY ReservedAre DEF WellLexed, Rules, Operators
<1>1. Going(list, lhs) /\ i < lhs.pos /\ Span(list, <<lhs.val>>, i, lhs.pos)
  BY DoesExpression
<1>2. lhs.tokens = list /\ lhs.pos \in 1..Len(list) /\ list[lhs.pos].type = op
  BY <1>1, GoingIs
<1>3. Going(list, next) /\ next.pos = lhs.pos + 1
  BY <1>0, <1>1, <1>2, AdvanceGoes
<1>4. i < next.pos
  BY <1>1, <1>2, <1>3
<1>5. Tight(list, <<Word(<<op>>)>>, lhs.pos, next.pos)
  BY <1>0, <1>2, <1>3, WordTight DEF Reserved
<1> HIDE DEF next
<1>6. /\ Rule(f, "expression", next) = rhs
      /\ Fails(rhs) \/ Does(list, "expression", next.pos, rhs)
  BY <1>0, <1>3, <1>4, RuleGoes
<1>7. /\ BinaryRest(f, lhs) = AndThen(Rule(f, "expression", next), LAMBDA q : Yield(q, BinaryOpExpr(op, lhs.val, q.val)))
      /\ BinaryRest(g, lhs) = AndThen(rhs, LAMBDA q : Yield(q, BinaryOpExpr(op, lhs.val, q.val)))
  BY <1>2 DEF BinaryRest, next
<1>8. BinaryRest(f, lhs) = BinaryRest(g, lhs)
  BY <1>6, <1>7
<1> HIDE DEF rhs
<1>9. CASE Fails(rhs)
  BY <1>7, <1>8, <1>9 DEF AndThen, Goes
<1>10. CASE ~Fails(rhs)
  <2>1. BinaryRest(g, lhs) = y
    BY <1>7, <1>10 DEF AndThen
  <2>2. Going(list, rhs) /\ next.pos < rhs.pos /\ Span(list, <<rhs.val>>, next.pos, rhs.pos)
    BY <1>6, <1>10, DoesExpression
  <2>3. Tight(list, <<Word(<<op>>)>> \o <<rhs.val>>, lhs.pos, rhs.pos)
    BY <1>5, <2>2, TightThen
  <2>4. Tight(list, <<lhs.val>> \o (<<Word(<<op>>)>> \o <<rhs.val>>), i, rhs.pos)
    BY <1>1, <2>3, ThenTight
  <2>5. <<lhs.val, Word(<<op>>), rhs.val>> = <<lhs.val>> \o (<<Word(<<op>>)>> \o <<rhs.val>>)
    BY TripleIs, ConcatThree, OneIs
  <2>6. Span(list, <<node>>, i, rhs.pos)
    BY <2>4, <2>5, PartsOfBinary, TightNode
  <2>7. i < rhs.pos
    BY <2>4 DEF Tight
  <2> HIDE DEF node
  <2>8. Going(list, y) /\ y.pos = rhs.pos /\ y.val = node
    BY <2>2, YieldGoes
  <2> HIDE DEF y
  <2>9. Does(list, "expression", i, y)
    BY <2>6, <2>7, <2>8, DoesExpression
  <2>10. QED
    BY <1>8, <2>1, <2>9 DEF Goes
<1>11. QED
  BY <1>9, <1>10

(* A call: the arguments behind an expression and a parenthesis. *)
LEMMA CallRestGoes ==
  ASSUME NEW list, WellLexed(list), NEW i \in Nat, NEW f, NEW g, Beyond(list, i, f, g),
         NEW fn, Does(list, "expression", i, fn), At(fn, "(")
  PROVE  /\ CallRest(f, fn) = CallRest(g, fn)
         /\ Goes(list, "expression", i, CallRest(g, fn))
<1> DEFINE next == Advance(fn)
           args == Rule(g, "arguments", next)
           node == CallExpr(fn.val, args.val, args.pos - 1)
           y == Yield(args, node)
<1>0. Len(list) \in Nat /\ "arguments" \in Rules /\ "(" \in Reserved
  BY ReservedAre DEF WellLexed, Rules
<1>1. Going(list, fn) /\ i < fn.pos /\ Span(list, <<fn.val>>, i, fn.pos)
  BY DoesExpression
<1>2. fn.pos \in 1..Len(list) /\ list[fn.pos].type = "("
  BY <1>1, GoingIs
<1>3. Going(list, next) /\ next.pos = fn.pos + 1
  BY <1>0, <1>1, <1>2, AdvanceGoes
<1>4. i < next.pos
  BY <1>1, <1>2, <1>3
<1>5. Tight(list, <<Word(<<"(">>)>>, fn.pos, next.pos)
  BY <1>0, <1>2, <1>3, WordTight DEF Reserved
<1> HIDE DEF next
<1>6. /\ Rule(f, "arguments", next) = args
      /\ Fails(args) \/ Does(list, "arguments", next.pos, args)
  BY <1>0, <1>3, <1>4, RuleGoes
<1>7. /\ CallRest(f, fn) = AndThen(Rule(f, "arguments", next), LAMBDA q : Yield(q, CallExpr(fn.val, q.val, q.pos - 1)))
      /\ CallRest(g, fn) = AndThen(args, LAMBDA q : Yield(q, CallExpr(fn.val, q.val, q.pos - 1)))
  BY DEF CallRest, next
<1>8. CallRest(f, fn) = CallRest(g, fn)
  BY <1>6, <1>7
<1> HIDE DEF args
<1>9. CASE Fails(args)
  BY <1>7, <1>8, <1>9 DEF AndThen, Goes
<1>10. CASE ~Fails(args)
  <2>1. CallRest(g, fn) = y
    BY <1>7, <1>10 DEF AndThen
  <2>2. /\ Going(list, args) /\ next.pos < args.pos /\ IsSeq(args.val)
        /\ Tight(list, args.val \o <<Word(<<")">>)>>, next.pos, args.pos)
    BY <1>6, <1>10, DoesArguments
  <2>3. Tight(list, Bracketed(args.val), fn.pos, args.pos)
    BY <1>5, <2>2, TightIsSpan, TightThen, BracketedIs
  <2>4. Tight(list, <<fn.val>> \o Bracketed(args.val), i, args.pos)
    BY <1>1, <2>3, ThenTight
  <2>5. Span(list, <<node>>, i, args.pos)
    BY <2>4, PartsOfCall, TightNode
  <2>6. i < args.pos
    BY <2>4 DEF Tight
  <2> HIDE DEF node
  <2>7. Going(list, y) /\ y.pos = args.pos /\ y.val = node
    BY <2>2, YieldGoes
  <2> HIDE DEF y
  <2>8. Does(list, "expression", i, y)
    BY <2>5, <2>6, <2>7, DoesExpression
  <2>9. QED
    BY <1>8, <2>1, <2>8 DEF Goes
<1>11. QED
  BY <1>9, <1>10

LEMMA ExpressionGoes ==
  ASSUME NEW list, WellLexed(list), NEW p, Going(list, p), NEW f, NEW g, Beyond(list, p.pos, f, g)
  PROVE  /\ Expression(f, p) = Expression(g, p)
         /\ Goes(list, "expression", p.pos, Expression(g, p))
<1> DEFINE lhs == Primary(g, p)
<1>1. Primary(f, p) = lhs /\ Goes(list, "expression", p.pos, lhs)
  BY PrimaryGoes
<1>2. p.pos \in Nat
  BY GoingIs
<1>3. ASSUME NEW h, NEW x, Primary(h, p) = x
      PROVE  Expression(h, p) = IF Fails(x) THEN x
                                ELSE CASE \E op \in Operators : At(x, op) -> BinaryRest(h, x)
                                       [] At(x, "(") -> CallRest(h, x)
                                       [] OTHER -> x
  BY <1>3 DEF Expression, AndThen
<1> HIDE DEF lhs
<1>4. \A h \in {f, g} : Primary(h, p) = lhs
  BY <1>1 DEF lhs
<1>5. CASE Fails(lhs)
  <2>1. \A h \in {f, g} : Expression(h, p) = lhs
    BY <1>3, <1>4, <1>5
  <2>2. QED
    BY <1>1, <2>1
<1>6. CASE ~Fails(lhs) /\ \E op \in Operators : At(lhs, op)
  <2>1. PICK op \in Operators : At(lhs, op)
    BY <1>6
  <2>2. Does(list, "expression", p.pos, lhs)
    BY <1>1, <1>6 DEF Goes
  <2>3. ~At(lhs, "(")
    <3>1. \A type : At(lhs, type) => lhs.tokens[lhs.pos].type = type
      BY DEF At
    <3>2. "(" \notin Operators
      BY DEF Operators
    <3>3. QED
      BY <2>1, <3>1, <3>2
  <2>4. \A h \in {f, g} : Expression(h, p) = BinaryRest(h, lhs)
    BY <1>3, <1>4, <1>6, <2>3
  <2>5. QED
    BY <1>2, <2>1, <2>2, <2>4, BinaryRestGoes
<1>7. CASE ~Fails(lhs) /\ ~(\E op \in Operators : At(lhs, op)) /\ At(lhs, "(")
  <2>1. Does(list, "expression", p.pos, lhs)
    BY <1>1, <1>7 DEF Goes
  <2>2. \A h \in {f, g} : Expression(h, p) = CallRest(h, lhs)
    BY <1>3, <1>4, <1>7
  <2>3. QED
    BY <1>2, <1>7, <2>1, <2>2, CallRestGoes
<1>8. CASE ~Fails(lhs) /\ ~(\E op \in Operators : At(lhs, op)) /\ ~At(lhs, "(")
  <2>1. \A h \in {f, g} : Expression(h, p) = lhs
    BY <1>3, <1>4, <1>8
  <2>2. QED
    BY <1>1, <2>1
<1>9. QED
  BY <1>5, <1>6, <1>7, <1>8

LEMMA ArgumentsGoes ==
  ASSUME NEW list, WellLexed(list), NEW p, Going(list, p), NEW f, NEW g, Beyond(list, p.pos, f, g)
  PROVE  /\ Arguments(f, p) = Arguments(g, p)
         /\ Goes(list, "arguments", p.pos, Arguments(g, p))
<1> DEFINE arg == Expression(g, p)
           next == IF At(arg, Comma) THEN Advance(arg) ELSE arg
           rest == Rule(g, "arguments", next)
<1>0. /\ Len(list) \in Nat /\ p.pos \in Nat /\ "arguments" \in Rules /\ ")" \in Reserved
      /\ p.pos \in 1..(Len(list) + 1)
  BY GoingIs, ReservedAre DEF WellLexed, Rules
<1>1. Expression(f, p) = arg /\ Goes(list, "expression", p.pos, arg)
  BY ExpressionGoes
<1>2. CASE IsEof(p)
  <2>1. \A h : Arguments(h, p) = Refuse(p)
    BY <1>2, Zenon DEF Arguments
  <2>2. QED
    BY <2>1, RefuseFails DEF Goes
<1>3. CASE ~IsEof(p) /\ At(p, ")")
  <2> DEFINE y == Yield(Advance(p), <<>>)
  <2>1. \A h : Arguments(h, p) = y
    BY <1>3, Zenon DEF Arguments
  <2>2. p.pos \in 1..Len(list) /\ list[p.pos].type = ")"
    BY <1>3, GoingIs
  <2>3. Going(list, Advance(p)) /\ Advance(p).pos = p.pos + 1
    BY <1>0, <2>2, AdvanceGoes
  <2>4. Going(list, y) /\ y.pos = p.pos + 1 /\ y.val = <<>>
    BY <2>3, YieldGoes
  <2> HIDE DEF y
  <2>5. Tight(list, <<Word(<<")">>)>>, p.pos, y.pos)
    BY <1>0, <2>2, <2>4, WordTight DEF Reserved
  <2>6. y.val \o <<Word(<<")">>)>> = <<Word(<<")">>)>> /\ IsSeq(y.val)
    BY <2>4, NothingIs, OneIs, ConcatNothing
  <2>7. Tight(list, y.val \o <<Word(<<")">>)>>, p.pos, y.pos)
    BY <2>5, <2>6
  <2>8. p.pos < y.pos
    BY <1>0, <2>4
  <2>9. Does(list, "arguments", p.pos, y)
    BY <2>4, <2>6, <2>7, <2>8, DoesArguments
  <2>10. QED
    BY <2>1, <2>9 DEF Goes
<1>4. CASE ~IsEof(p) /\ ~At(p, ")")
  <2>1. ASSUME NEW h, Expression(h, p) = arg
        PROVE  Arguments(h, p) = IF Fails(arg) THEN arg
                                 ELSE AndThen(Rule(h, "arguments", next), LAMBDA q : Yield(q, <<arg.val>> \o q.val))
    BY <1>4, <2>1, Zenon DEF Arguments, AndThen
  <2>2. \A h \in {f, g} : Expression(h, p) = arg
    BY <1>1
  <2> HIDE DEF arg
  <2>3. CASE Fails(arg)
    <3>1. \A h \in {f, g} : Arguments(h, p) = arg
      BY <2>1, <2>2, <2>3
    <3>2. QED
      BY <2>3, <3>1 DEF Goes
  <2>4. CASE ~Fails(arg)
    <3>1. Going(list, arg) /\ p.pos < arg.pos /\ Span(list, <<arg.val>>, p.pos, arg.pos)
      BY <1>1, <2>4, DoesExpression DEF Goes
    <3>2. /\ Going(list, next) /\ arg.pos <= next.pos
          /\ Span(list, <<>>, arg.pos, next.pos)
      <4>1. CASE At(arg, Comma)
        <5>1. arg.pos \in 1..Len(list) /\ list[arg.pos].type = Comma
          BY <3>1, <4>1, GoingIs
        <5>2. Going(list, Advance(arg)) /\ Advance(arg).pos = arg.pos + 1
          BY <1>0, <3>1, <5>1, AdvanceGoes
        <5>3. Span(list, <<>>, arg.pos, arg.pos + 1)
          BY <1>0, <5>1, CommaTight, TightIsSpan
        <5>4. QED
          BY <4>1, <5>1, <5>2, <5>3
      <4>2. CASE ~At(arg, Comma)
        <5>1. arg.pos \in Int
          BY <3>1, GoingIs
        <5>2. QED
          BY <3>1, <4>2, <5>1, NothingSpan
      <4>3. QED
        BY <4>1, <4>2
    <3> HIDE DEF next
    <3>3. Span(list, <<arg.val>>, p.pos, next.pos)
      <4>1. Span(list, <<arg.val>> \o <<>>, p.pos, next.pos)
        BY <3>1, <3>2, SpanBoth
      <4>2. QED
        BY <4>1, OneIs, ConcatNothing
    <3>4. p.pos < next.pos
      <4>1. arg.pos \in Int /\ next.pos \in Int
        BY <3>1, <3>2, GoingIs
      <4>2. QED
        BY <1>0, <3>1, <3>2, <4>1
    <3>5. /\ Rule(f, "arguments", next) = rest
          /\ Fails(rest) \/ Does(list, "arguments", next.pos, rest)
      BY <1>0, <3>2, <3>4, RuleGoes
    <3>6. \A h \in {f, g} : Rule(h, "arguments", next) = rest
      BY <3>5
    <3> HIDE DEF rest
    <3>7. \A h \in {f, g} : Arguments(h, p) = IF Fails(rest) THEN rest ELSE Yield(rest, <<arg.val>> \o rest.val)
      <4>1. TAKE h \in {f, g}
      <4>2. Arguments(h, p) = AndThen(Rule(h, "arguments", next), LAMBDA q : Yield(q, <<arg.val>> \o q.val))
        BY <2>1, <2>2, <2>4
      <4>3. Rule(h, "arguments", next) = rest
        BY <3>6
      <4>4. QED
        BY <4>2, <4>3, Zenon DEF AndThen
    <3>8. CASE Fails(rest)
      BY <3>7, <3>8 DEF Goes
    <3>9. CASE ~Fails(rest)
      <4> DEFINE vals == <<arg.val>> \o rest.val
                 y == Yield(rest, vals)
      <4>1. /\ Going(list, rest) /\ next.pos < rest.pos /\ IsSeq(rest.val)
            /\ Tight(list, rest.val \o <<Word(<<")">>)>>, next.pos, rest.pos)
        BY <3>5, <3>9, DoesArguments
      <4>2. IsSeq(vals)
        BY <4>1, OneIs, ConcatIs
      <4>3. Tight(list, <<arg.val>> \o (rest.val \o <<Word(<<")">>)>>), p.pos, rest.pos)
        BY <3>3, <4>1, ThenTight
      <4>4. <<arg.val>> \o (rest.val \o <<Word(<<")">>)>>) = vals \o <<Word(<<")">>)>>
        <5>1. PICK x, s, z : x = arg.val /\ s = rest.val /\ z = Word(<<")">>)
          OBVIOUS
        <5>2. IsSeq(s)
          BY <4>1, <5>1
        <5>3. <<x>> \o (s \o <<z>>) = (<<x>> \o s) \o <<z>>
          BY <5>2, ConcatWithin
        <5>4. QED
          BY <5>1, <5>3, Zenon
      <4>5. \A h \in {f, g} : Arguments(h, p) = y
        BY <3>7, <3>9
      <4> HIDE DEF vals
      <4>6. Going(list, y) /\ y.pos = rest.pos /\ y.val = vals
        BY <4>1, YieldGoes
      <4> HIDE DEF y
      <4>7. Tight(list, y.val \o <<Word(<<")">>)>>, p.pos, y.pos)
        BY <4>3, <4>4, <4>6
      <4>8. p.pos < y.pos
        BY <4>7 DEF Tight
      <4>9. Does(list, "arguments", p.pos, y)
        BY <4>2, <4>6, <4>7, <4>8, DoesArguments
      <4>10. QED
        BY <4>5, <4>9 DEF Goes
    <3>10. QED
      BY <3>8, <3>9
  <2>5. QED
    BY <2>3, <2>4
<1>5. QED
  BY <1>2, <1>3, <1>4

(* The items of the other lists. *)
Item(list, rule, i, q) ==
  Fails(q) \/ (Going(list, q) /\ i < q.pos /\ Span(list, <<ItemNode(rule, q.val)>>, i, q.pos))

LEMMA RowGoes ==
  ASSUME NEW list, WellLexed(list), NEW p, Going(list, p), NEW f, NEW g, Beyond(list, p.pos, f, g)
  PROVE  Row(f, p) = Row(g, p) /\ Item(list, "rows", p.pos, Row(g, p))
<1> DEFINE open == Expect(p, "(")
           exprs == Rule(g, "expressions", open)
           close == Expect(exprs, ")")
<1>0. /\ Len(list) \in Nat /\ p.pos \in Nat /\ "expressions" \in Rules /\ "expressions" \in Lists
      /\ "(" \in Reserved /\ ")" \in Reserved
  BY GoingIs, ReservedAre DEF WellLexed, Rules, Lists
<1>1. \/ Fails(open)
      \/ Going(list, open) /\ open.pos = p.pos + 1 /\ Tight(list, <<Word(<<"(">>)>>, p.pos, open.pos)
  BY <1>0, ExpectWord
<1>2. Fails(open) \/ (Going(list, open) /\ p.pos < open.pos)
  BY <1>0, <1>1
<1> HIDE DEF open
<1>3. /\ Rule(f, "expressions", open) = exprs
      /\ Fails(exprs) \/ (~Fails(open) /\ Does(list, "expressions", open.pos, exprs))
  BY <1>0, <1>2, RuleGoes
<1>4. Row(f, p) = close /\ Row(g, p) = close
  BY <1>3 DEF Row, open
<1> HIDE DEF exprs
<1>5. \/ Fails(exprs)
      \/ Going(list, exprs) /\ IsSeq(exprs.val) /\ Span(list, ItemNodes("expressions", exprs.val), open.pos, exprs.pos)
  BY <1>0, <1>3, DoesList
<1>6. \/ Fails(close)
      \/ /\ ~Fails(exprs) /\ Going(list, close) /\ close.pos = exprs.pos + 1 /\ close.val = exprs.val
         /\ Tight(list, <<Word(<<")">>)>>, exprs.pos, close.pos)
  BY <1>0, <1>5, ExpectWord
<1> HIDE DEF close
<1>7. CASE Fails(close)
  BY <1>4, <1>7 DEF Item
<1>8. CASE ~Fails(close)
  <2>1. Span(list, close.val, open.pos, exprs.pos) /\ IsSeq(close.val)
    BY <1>5, <1>6, <1>8, ItemsOfExpressions
  <2>2. Tight(list, close.val \o <<Word(<<")">>)>>, open.pos, close.pos)
    BY <1>6, <1>8, <2>1, ThenTight
  <2>3. Tight(list, <<Word(<<"(">>)>>, p.pos, open.pos)
    BY <1>1, <1>3, <1>6, <1>8
  <2>4. Tight(list, Bracketed(close.val), p.pos, close.pos)
    BY <2>1, <2>2, <2>3, TightIsSpan, TightThen, BracketedIs
  <2>5. Span(list, <<RowNode(close.val)>>, p.pos, close.pos)
    BY <2>4, PartsOfRow, TightNode
  <2>6. p.pos < close.pos
    BY <2>4 DEF Tight
  <2>7. ItemNode("rows", close.val) = RowNode(close.val)
    BY DEF ItemNode
  <2>8. QED
    BY <1>4, <1>6, <1>8, <2>5, <2>6, <2>7 DEF Item
<1>9. QED
  BY <1>7, <1>8

LEMMA ClauseGoes ==
  ASSUME NEW list, WellLexed(list), NEW p, Going(list, p), NEW f, NEW g, Beyond(list, p.pos, f, g)
  PROVE  Clause(f, p) = Clause(g, p) /\ Item(list, "clauses", p.pos, Clause(g, p))
<1> DEFINE name == Ident(p)
           eq == Expect(name, "=")
           value == Rule(g, "expression", eq)
           pair == SetClause(name.val, value.val)
           y == Yield(value, pair)
<1>0. Len(list) \in Nat /\ p.pos \in Nat /\ "expression" \in Rules /\ "=" \in Reserved
  BY GoingIs, ReservedAre DEF WellLexed, Rules
<1>1. \/ Fails(name)
      \/ Going(list, name) /\ name.pos = p.pos + 1 /\ Tight(list, <<Word(name.val)>>, p.pos, name.pos)
  BY IdentGoes
<1> HIDE DEF name
<1>2. \/ Fails(eq)
      \/ /\ ~Fails(name) /\ Going(list, eq) /\ eq.pos = name.pos + 1
         /\ Tight(list, <<Word(<<"=">>)>>, name.pos, eq.pos)
  BY <1>0, <1>1, ExpectWord
<1>3. Fails(eq) \/ (Going(list, eq) /\ p.pos < eq.pos)
  BY <1>0, <1>1, <1>2
<1>4. CASE Fails(name)
  <2>1. Clause(f, p) = name /\ Clause(g, p) = name
    BY <1>4 DEF Clause, AndThen, name
  <2>2. QED
    BY <1>4, <2>1 DEF Item
<1>5. CASE ~Fails(name)
  <2>1. /\ Clause(f, p) = AndThen(Rule(f, "expression", eq), LAMBDA q : Yield(q, SetClause(name.val, q.val)))
        /\ Clause(g, p) = AndThen(value, LAMBDA q : Yield(q, SetClause(name.val, q.val)))
    BY <1>5 DEF Clause, AndThen, name
  <2> HIDE DEF eq
  <2>2. /\ Rule(f, "expression", eq) = value
        /\ Fails(value) \/ (~Fails(eq) /\ Does(list, "expression", eq.pos, value))
    BY <1>0, <1>3, RuleGoes
  <2>3. Clause(f, p) = Clause(g, p)
    BY <2>1, <2>2
  <2> HIDE DEF value
  <2>4. CASE Fails(value)
    BY <2>1, <2>3, <2>4 DEF AndThen, Item
  <2>5. CASE ~Fails(value)
    <3>1. Clause(g, p) = y
      BY <2>1, <2>5 DEF AndThen
    <3>2. Going(list, value) /\ Span(list, <<value.val>>, eq.pos, value.pos)
      BY <2>2, <2>5, DoesExpression
    <3>3. Tight(list, <<Word(name.val)>> \o <<Word(<<"=">>)>>, p.pos, eq.pos)
      BY <1>1, <1>2, <1>5, <2>2, <2>5, TightIsSpan, TightThen
    <3>4. Tight(list, <<Word(name.val), Word(<<"=">>), value.val>>, p.pos, value.pos)
      <4>1. Tight(list, (<<Word(name.val)>> \o <<Word(<<"=">>)>>) \o <<value.val>>, p.pos, value.pos)
        BY <3>2, <3>3, TightThen
      <4>2. <<Word(name.val), Word(<<"=">>), value.val>> = (<<Word(name.val)>> \o <<Word(<<"=">>)>>) \o <<value.val>>
        BY TripleIs
      <4>3. QED
        BY <4>1, <4>2
    <3>5. Span(list, <<ClauseNode(pair)>>, p.pos, value.pos)
      BY <3>4, PartsOfClause, TightNode
    <3>6. p.pos < value.pos
      BY <3>4 DEF Tight
    <3> HIDE DEF pair
    <3>7. Going(list, y) /\ y.pos = value.pos /\ y.val = pair
      BY <3>2, YieldGoes
    <3>8. ItemNode("clauses", pair) = ClauseNode(pair)
      BY DEF ItemNode
    <3> HIDE DEF y
    <3>9. QED
      BY <2>3, <3>1, <3>5, <3>6, <3>7, <3>8 DEF Item
  <2>6. QED
    BY <2>4, <2>5
<1>6. QED
  BY <1>4, <1>5

LEMMA ColumnDefGoes ==
  ASSUME NEW list, WellLexed(list), NEW p, Going(list, p)
  PROVE  Item(list, "columns", p.pos, ColumnDef(p))
<1> DEFINE name == Ident(p)
           type == Ident(name)
           pair == [name |-> name.val, type |-> type.val]
           y == Yield(type, pair)
<1>1. \/ Fails(name)
      \/ Going(list, name) /\ name.pos = p.pos + 1 /\ Tight(list, <<Word(name.val)>>, p.pos, name.pos)
  BY IdentGoes
<1>2. CASE Fails(name)
  BY <1>2 DEF ColumnDef, AndThen, Item
<1>3. CASE ~Fails(name) /\ Fails(type)
  BY <1>3 DEF ColumnDef, AndThen, Item
<1>4. CASE ~Fails(name) /\ ~Fails(type)
  <2>1. ColumnDef(p) = y
    BY <1>4 DEF ColumnDef, AndThen
  <2> HIDE DEF name
  <2>2. Going(list, type) /\ type.pos = name.pos + 1 /\ Tight(list, <<Word(type.val)>>, name.pos, type.pos)
    BY <1>1, <1>4, IdentGoes
  <2> HIDE DEF type
  <2>3. Tight(list, <<Word(name.val), Word(type.val)>>, p.pos, type.pos)
    BY <1>1, <1>4, <2>2, TightIsSpan, TightThen, PairIs
  <2>4. Span(list, <<ColumnNode(pair)>>, p.pos, type.pos)
    BY <2>3, PartsOfColumn, TightNode
  <2>5. p.pos < type.pos
    BY <2>3 DEF Tight
  <2> HIDE DEF pair
  <2>6. Going(list, y) /\ y.pos = type.pos /\ y.val = pair
    BY <2>2, YieldGoes
  <2>7. ItemNode("columns", pair) = ColumnNode(pair)
    BY DEF ItemNode
  <2> HIDE DEF y
  <2>8. QED
    BY <2>1, <2>4, <2>5, <2>6, <2>7 DEF Item
<1>5. QED
  BY <1>2, <1>3, <1>4

(* Every rule does what its name says, and asks the rules only about what  *)
(* is behind it.                                                           *)
LEMMA AppliedGoes ==
  ASSUME NEW list, WellLexed(list), NEW p, Going(list, p), NEW f, NEW g, Beyond(list, p.pos, f, g), NEW rule \in Rules
  PROVE  /\ Applied(f, rule, p) = Applied(g, rule, p)
         /\ Goes(list, rule, p.pos, Applied(g, rule, p))
<1>0. p.pos \in Nat
  BY GoingIs
<1>1. CASE rule = "expression"
  <2>1. \A h : Applied(h, rule, p) = Expression(h, p)
    BY <1>1 DEF Applied
  <2>2. QED
    BY <1>1, <2>1, ExpressionGoes
<1>2. CASE rule = "arguments"
  <2>1. \A h : Applied(h, rule, p) = Arguments(h, p)
    BY <1>2 DEF Applied
  <2>2. QED
    BY <1>2, <2>1, ArgumentsGoes
<1>3. ASSUME rule \in Lists, NEW item, Item(list, rule, p.pos, item),
             Applied(f, rule, p) = More(f, rule, item), Applied(g, rule, p) = More(g, rule, item)
      PROVE  /\ Applied(f, rule, p) = Applied(g, rule, p)
             /\ Goes(list, rule, p.pos, Applied(g, rule, p))
  BY <1>0, <1>3, MoreGoes DEF Item
<1>4. CASE rule = "expressions"
  <2> DEFINE item == Expression(g, p)
  <2>1. rule \in Lists
    BY <1>4 DEF Lists, Rules
  <2>2. Expression(f, p) = item /\ Goes(list, "expression", p.pos, item)
    BY ExpressionGoes
  <2>3. Applied(f, rule, p) = More(f, rule, item) /\ Applied(g, rule, p) = More(g, rule, item)
    BY <1>4, <2>2 DEF Applied
  <2> HIDE DEF item
  <2>4. ItemNode(rule, item.val) = item.val
    BY <1>4 DEF ItemNode
  <2>5. Item(list, rule, p.pos, item)
    BY <2>2, <2>4, DoesExpression DEF Goes, Item
  <2>6. QED
    BY <1>3, <2>1, <2>3, <2>5
<1>5. CASE rule = "idents"
  <2> DEFINE item == Ident(p)
  <2>1. rule \in Lists
    BY <1>5 DEF Lists, Rules
  <2>2. Applied(f, rule, p) = More(f, rule, item) /\ Applied(g, rule, p) = More(g, rule, item)
    BY <1>5 DEF Applied
  <2>3. Fails(item) \/ (Going(list, item) /\ Tight(list, <<Word(item.val)>>, p.pos, item.pos))
    BY IdentGoes
  <2> HIDE DEF item
  <2>4. ItemNode(rule, item.val) = Word(item.val)
    BY <1>5 DEF ItemNode
  <2>5. Item(list, rule, p.pos, item)
    BY <2>3, <2>4, TightIsSpan DEF Item, Tight
  <2>6. QED
    BY <1>3, <2>1, <2>2, <2>5
<1>6. CASE rule = "rows"
  <2> DEFINE item == Row(g, p)
  <2>1. rule \in Lists
    BY <1>6 DEF Lists, Rules
  <2>2. Row(f, p) = item /\ Item(list, rule, p.pos, item)
    BY <1>6, RowGoes
  <2>3. Applied(f, rule, p) = More(f, rule, item) /\ Applied(g, rule, p) = More(g, rule, item)
    BY <1>6, <2>2 DEF Applied
  <2> HIDE DEF item
  <2>4. QED
    BY <1>3, <2>1, <2>2, <2>3
<1>7. CASE rule = "clauses"
  <2> DEFINE item == Clause(g, p)
  <2>1. rule \in Lists
    BY <1>7 DEF Lists, Rules
  <2>2. Clause(f, p) = item /\ Item(list, rule, p.pos, item)
    BY <1>7, ClauseGoes
  <2>3. Applied(f, rule, p) = More(f, rule, item) /\ Applied(g, rule, p) = More(g, rule, item)
    BY <1>7, <2>2 DEF Applied
  <2> HIDE DEF item
  <2>4. QED
    BY <1>3, <2>1, <2>2, <2>3
<1>8. CASE rule = "columns"
  <2> DEFINE item == ColumnDef(p)
  <2>1. rule \in Lists
    BY <1>8 DEF Lists, Rules
  <2>2. Item(list, rule, p.pos, item)
    BY <1>8, ColumnDefGoes
  <2>3. Applied(f, rule, p) = More(f, rule, item) /\ Applied(g, rule, p) = More(g, rule, item)
    BY <1>8 DEF Applied
  <2> HIDE DEF item
  <2>4. QED
    BY <1>3, <2>1, <2>2, <2>3
<1>9. QED
  BY <1>1, <1>2, <1>4, <1>5, <1>6, <1>7, <1>8 DEF Rules

-----------------------------------------------------------------------------
(* The descent comes to an end: there is a function from the rule and the  *)
(* position to the parser behind it.                                       *)

DescentUpto(list, m, g) ==
  /\ g = [at \in Rules \X (1..(Len(list) + 1)) |-> g[at]]
  /\ \A rule \in Rules, j \in 1..(Len(list) + 1) :
       Len(list) + 1 < j + m => g[<<rule, j>>] = Applied(g, rule, Parser(list, j))

LEMMA DescentUptoGoes ==
  ASSUME NEW list, WellLexed(list), NEW m \in Nat, NEW g, DescentUpto(list, m, g)
  PROVE  Beyond(list, Len(list) + 1 - m, g, g)
<1> DEFINE N == Len(list) + 1
           Bad == {k \in Nat : k < N /\ k < m /\ \E rule \in Rules : ~Goes(list, rule, N - k, g[<<rule, N - k>>])}
<1>0. Len(list) \in Nat /\ N \in Nat
  BY DEF WellLexed
<1>1. Bad = {}
  <2>1. SUFFICES ASSUME Bad # {} PROVE FALSE
    OBVIOUS
  <2>2. PICK k \in Bad : \A l \in Bad : k <= l
    BY <2>1, LeastElement
  <2>3. PICK rule \in Rules : ~Goes(list, rule, N - k, g[<<rule, N - k>>])
    BY <2>2
  <2> DEFINE i == N - k
  <2>4. i \in 1..N /\ N < i + m
    BY <1>0, <2>2
  <2>5. ASSUME NEW other \in Rules, NEW j \in 1..N, i < j
        PROVE  Goes(list, other, j, g[<<other, j>>])
    <3>1. N - j \in Nat /\ N - j < k /\ N - j < N /\ N - j < m /\ N - (N - j) = j
      BY <1>0, <2>2, <2>5
    <3>2. N - j \notin Bad
      BY <2>2, <3>1
    <3>3. QED
      BY <3>1, <3>2
  <2> DEFINE p == Parser(list, i)
  <2>6. Going(list, p) /\ p.pos = i
    BY <2>4, StartsGoing
  <2>7. g[<<rule, i>>] = Applied(g, rule, p)
    BY <2>4 DEF DescentUpto
  <2> HIDE DEF i, p
  <2>8. Beyond(list, p.pos, g, g)
    BY <2>5, <2>6 DEF Beyond
  <2>9. Goes(list, rule, i, g[<<rule, i>>])
    BY <2>6, <2>7, <2>8, AppliedGoes
  <2>10. QED
    BY <2>3, <2>9 DEF i
<1>2. ASSUME NEW rule \in Rules, NEW j \in 1..N, N - m < j
      PROVE  Goes(list, rule, j, g[<<rule, j>>])
  <2>1. N - j \in Nat /\ N - j < N /\ N - j < m /\ N - (N - j) = j
    BY <1>0, <1>2
  <2>2. N - j \notin Bad
    BY <1>1
  <2>3. QED
    BY <2>1, <2>2
<1>3. QED
  BY <1>2 DEF Beyond

LEMMA DescentUptoExists ==
  ASSUME NEW list, WellLexed(list), NEW n \in Nat
  PROVE  \E g : DescentUpto(list, n, g)
<1> DEFINE N == Len(list) + 1
           D == Rules \X (1..N)
           Bad == {m \in Nat : ~\E g : DescentUpto(list, m, g)}
<1>0. Len(list) \in Nat /\ N \in Nat
  BY DEF WellLexed
<1>1. SUFFICES ASSUME Bad # {} PROVE FALSE
  OBVIOUS
<1>2. PICK m \in Bad : \A k \in Bad : m <= k
  BY <1>1, LeastElement
<1>3. CASE m = 0
  <2>1. \A j \in 1..N : ~(N < j + 0)
    BY <1>0
  <2>2. DescentUpto(list, 0, [at \in D |-> 0])
    BY <2>1 DEF DescentUpto
  <2>3. QED
    BY <1>2, <1>3, <2>2
<1>4. CASE m # 0
  <2>1. m - 1 \in Nat /\ m - 1 \notin Bad
    BY <1>2, <1>4
  <2>2. PICK g : DescentUpto(list, m - 1, g)
    BY <2>1
  <2>3. Beyond(list, N - (m - 1), g, g)
    BY <2>1, <2>2, DescentUptoGoes
  <2> DEFINE h == [at \in D |-> IF N < at[2] + m THEN Applied(g, at[1], Parser(list, at[2])) ELSE g[at]]
  <2>4. ASSUME NEW rule \in Rules, NEW j \in 1..N
        PROVE  h[<<rule, j>>] = IF N < j + m THEN Applied(g, rule, Parser(list, j)) ELSE g[<<rule, j>>]
    <3>1. <<rule, j>> \in D /\ <<rule, j>>[1] = rule /\ <<rule, j>>[2] = j
      OBVIOUS
    <3>2. QED
      BY <3>1
  <2>5. h = [at \in D |-> h[at]]
    OBVIOUS
  <2> HIDE DEF h
  <2>6. ASSUME NEW rule \in Rules, NEW j \in 1..N, N < j + m
        PROVE  h[<<rule, j>>] = Applied(h, rule, Parser(list, j))
    <3> DEFINE p == Parser(list, j)
    <3>1. Going(list, p) /\ p.pos = j
      BY StartsGoing
    <3>2. ASSUME NEW other \in Rules, NEW q \in 1..N, j < q
          PROVE  h[<<other, q>>] = g[<<other, q>>] /\ Goes(list, other, q, g[<<other, q>>])
      <4>1. N < q + m /\ N < q + (m - 1) /\ N - (m - 1) < q
        BY <1>0, <2>1, <2>6, <3>2
      <4>2. h[<<other, q>>] = Applied(g, other, Parser(list, q))
        BY <2>4, <4>1
      <4>3. g[<<other, q>>] = Applied(g, other, Parser(list, q))
        BY <2>2, <4>1 DEF DescentUpto
      <4>4. Goes(list, other, q, g[<<other, q>>])
        BY <2>3, <4>1 DEF Beyond
      <4>5. QED
        BY <4>2, <4>3, <4>4
    <3>3. h[<<rule, j>>] = Applied(g, rule, p)
      BY <2>4, <2>6
    <3> HIDE DEF p
    <3>4. Beyond(list, p.pos, h, g)
      BY <3>1, <3>2 DEF Beyond
    <3>5. Applied(h, rule, p) = Applied(g, rule, p)
      BY <3>1, <3>4, AppliedGoes
    <3>6. QED
      BY <3>3, <3>5 DEF p
  <2>7. DescentUpto(list, m, h)
    BY <2>5, <2>6 DEF DescentUpto
  <2>8. QED
    BY <1>2, <2>7
<1>5. QED
  BY <1>3, <1>4

(* The descent does what its rules say, from every position. *)
LEMMA DescentGoes ==
  ASSUME NEW list, WellLexed(list)
  PROVE  Beyond(list, 0, Descent(list), Descent(list))
<1> DEFINE N == Len(list) + 1
           D == Rules \X (1..N)
           F(f) == [at \in D |-> Applied(f, at[1], Parser(list, at[2]))]
           parse == CHOOSE f : f = F(f)
<1>0. Len(list) \in Nat /\ N \in Nat
  BY DEF WellLexed
<1>1. PICK g : DescentUpto(list, N, g)
  BY <1>0, DescentUptoExists
<1>2. g = F(g)
  <2>1. ASSUME NEW at \in D
        PROVE  g[at] = Applied(g, at[1], Parser(list, at[2]))
    <3>1. at[1] \in Rules /\ at[2] \in 1..N /\ at = <<at[1], at[2]>>
      OBVIOUS
    <3>2. N < at[2] + N
      BY <1>0, <3>1
    <3>3. g[<<at[1], at[2]>>] = Applied(g, at[1], Parser(list, at[2]))
      BY <1>1, <3>1, <3>2 DEF DescentUpto
    <3>4. QED
      BY <3>1, <3>3
  <2>2. g = [at \in D |-> g[at]]
    BY <1>1 DEF DescentUpto
  <2>3. QED
    BY <2>1, <2>2, Zenon
<1>3. Descent(list) = parse
  BY DEF Descent
<1>4. parse = F(parse)
  BY <1>2
<1> HIDE DEF parse
<1>5. parse = [at \in D |-> parse[at]]
  BY <1>4
<1>6. ASSUME NEW rule \in Rules, NEW j \in 1..N
      PROVE  parse[<<rule, j>>] = Applied(parse, rule, Parser(list, j))
  <2>1. <<rule, j>> \in D /\ <<rule, j>>[1] = rule /\ <<rule, j>>[2] = j
    OBVIOUS
  <2>2. PICK f : f = parse /\ f = F(f)
    BY <1>4
  <2>3. f[<<rule, j>>] = Applied(f, rule, Parser(list, j))
    BY <2>1, <2>2
  <2>4. QED
    BY <2>2, <2>3
<1>7. DescentUpto(list, N, parse)
  BY <1>5, <1>6 DEF DescentUpto
<1>8. Beyond(list, N - N, parse, parse)
  BY <1>0, <1>7, DescentUptoGoes
<1>9. QED
  BY <1>0, <1>3, <1>8

-----------------------------------------------------------------------------
(* Statements. *)

(* A statement prints its tokens in three steps for each: an expression    *)
(* that is a statement has no word of its own.                             *)
Read(list, i, q) ==
  Fails(q) \/ (Going(list, q) /\ i < q.pos /\ Prints(list, <<q.val>>, i, q.pos, 3 * (q.pos - i)))

(* What a parser gives that keeps its rules. *)
Parses(list, parse) == Beyond(list, 0, parse, parse)

LEMMA ExpressionRead ==
  ASSUME NEW list, WellLexed(list), NEW parse, Parses(list, parse), NEW q, Fails(q) \/ Going(list, q)
  PROVE  \/ Fails(Rule(parse, "expression", q))
         \/ /\ ~Fails(q) /\ Going(list, Rule(parse, "expression", q))
            /\ Span(list, <<Rule(parse, "expression", q).val>>, q.pos, Rule(parse, "expression", q).pos)
<1>1. Len(list) \in Nat /\ 0 \in Nat /\ "expression" \in Rules
  BY DEF WellLexed, Rules
<1>2. Fails(q) \/ (Going(list, q) /\ 0 < q.pos)
  BY GoingIs
<1>3. \/ Fails(Rule(parse, "expression", q))
      \/ ~Fails(q) /\ Does(list, "expression", q.pos, Rule(parse, "expression", q))
  BY <1>1, <1>2, RuleGoes DEF Parses
<1>4. QED
  BY <1>3, DoesExpression

LEMMA ListRead ==
  ASSUME NEW list, WellLexed(list), NEW parse, Parses(list, parse), NEW rule \in Lists, NEW q, Fails(q) \/ Going(list, q)
  PROVE  \/ Fails(Rule(parse, rule, q))
         \/ /\ ~Fails(q) /\ Going(list, Rule(parse, rule, q)) /\ IsSeq(Rule(parse, rule, q).val)
            /\ Span(list, ItemNodes(rule, Rule(parse, rule, q).val), q.pos, Rule(parse, rule, q).pos)
<1>1. Len(list) \in Nat /\ 0 \in Nat /\ rule \in Rules
  BY DEF WellLexed, Lists
<1>2. Fails(q) \/ (Going(list, q) /\ 0 < q.pos)
  BY GoingIs
<1>3. \/ Fails(Rule(parse, rule, q))
      \/ ~Fails(q) /\ Does(list, rule, q.pos, Rule(parse, rule, q))
  BY <1>1, <1>2, RuleGoes DEF Parses
<1>4. QED
  BY <1>3, DoesList

LEMMA WordTaken ==
  ASSUME NEW list, WellLexed(list), NEW p, Going(list, p), NEW type \in Reserved, At(p, type)
  PROVE  /\ Going(list, Advance(p)) /\ Advance(p).pos = p.pos + 1
         /\ Tight(list, <<Word(<<type>>)>>, p.pos, Advance(p).pos)
<1>1. Len(list) \in Nat /\ p.pos \in 1..Len(list) /\ list[p.pos].type = type
  BY GoingIs DEF WellLexed
<1>2. Going(list, Advance(p)) /\ Advance(p).pos = p.pos + 1
  BY <1>1, AdvanceGoes
<1>3. QED
  BY <1>1, <1>2, WordTight DEF Reserved

(* A statement ends with a semicolon. *)
LEMMA StatementEnds ==
  ASSUME NEW list, WellLexed(list), NEW i, NEW q, NEW body, NEW node,
         Fails(q) \/ (Going(list, q) /\ Tight(list, body, i, q.pos)),
         node.kind \notin Leaves, Parts(node) = body \o Ended
  PROVE  Read(list, i, Yield(Expect(q, Semicolon), node))
<1> DEFINE end == Expect(q, Semicolon)
           y == Yield(end, node)
<1>0. Semicolon \in Reserved
  BY ReservedAre
<1>1. \/ Fails(end)
      \/ /\ ~Fails(q) /\ Going(list, end)
         /\ Tight(list, Ended, q.pos, end.pos)
  BY <1>0, ExpectWord DEF Ended
<1> HIDE DEF end
<1>2. CASE Fails(end)
  BY <1>2, YieldFails DEF Read, end
<1>3. CASE ~Fails(end)
  <2>1. Tight(list, Parts(node), i, end.pos)
    BY <1>1, <1>3, TightIsSpan, TightThen
  <2>2. Span(list, <<node>>, i, end.pos) /\ i \in Int /\ end.pos \in Int /\ i < end.pos
    BY <2>1, TightNode DEF Tight
  <2>3. 2 * (end.pos - i) \in Nat /\ 3 * (end.pos - i) \in Nat /\ 2 * (end.pos - i) <= 3 * (end.pos - i)
    BY <2>2
  <2>4. Prints(list, <<node>>, i, end.pos, 3 * (end.pos - i))
    BY <2>2, <2>3, PrintsWithin DEF Span
  <2>5. Going(list, y) /\ y.pos = end.pos /\ y.val = node
    BY <1>1, <1>3, YieldGoes
  <2> HIDE DEF y
  <2>6. QED
    BY <2>2, <2>4, <2>5 DEF Read, y, end
<1>4. QED
  BY <1>2, <1>3

LEMMA EachIs ==
  ASSUME NEW s
  PROVE  /\ Each(Word, s) = ItemNodes("idents", s)
         /\ Each(RowNode, s) = ItemNodes("rows", s)
         /\ Each(ClauseNode, s) = ItemNodes("clauses", s)
         /\ Each(ColumnNode, s) = ItemNodes("columns", s)
<1>1. \A v : /\ ItemNode("idents", v) = Word(v) /\ ItemNode("rows", v) = RowNode(v)
             /\ ItemNode("clauses", v) = ClauseNode(v) /\ ItemNode("columns", v) = ColumnNode(v)
  BY DEF ItemNode
<1>2. QED
  BY <1>1 DEF Each, ItemNodes

(* The statement that is an expression. *)
LEMMA ExprStmtIs ==
  ASSUME NEW e
  PROVE  ExprStmt(e).kind \notin Leaves /\ Parts(ExprStmt(e)) = <<e>>
<1> DEFINE n == ExprStmt(e)
<1>1. n.kind = "expr" /\ n.expr = e
  BY DEF ExprStmt
<1> HIDE DEF n
<1>2. n.kind \notin Leaves
  BY <1>1 DEF Leaves
<1>3. Parts(n) = <<n.expr>>
  BY <1>1 DEF Parts
<1>4. QED
  BY <1>1, <1>2, <1>3 DEF n

LEMMA ExprRead ==
  ASSUME NEW list, WellLexed(list), NEW parse, Parses(list, parse), NEW p, Going(list, p)
  PROVE  Read(list, p.pos, AndThen(Expression(parse, p), LAMBDA e : Yield(e, ExprStmt(e.val))))
<1> DEFINE e == Expression(parse, p)
           node == ExprStmt(e.val)
           y == Yield(e, node)
           i == p.pos
<1>1. Beyond(list, p.pos, parse, parse)
  <2>1. p.pos \in 1..(Len(list) + 1) /\ Len(list) \in Nat
    BY GoingIs DEF WellLexed
  <2>2. ASSUME NEW j \in 1..(Len(list) + 1), p.pos < j PROVE 0 < j
    BY <2>1
  <2>3. QED
    BY <2>2 DEF Parses, Beyond
<1>2. Goes(list, "expression", p.pos, e)
  BY <1>1, ExpressionGoes
<1> HIDE DEF e
<1>3. CASE Fails(e)
  BY <1>3 DEF AndThen, Read, e
<1>4. CASE ~Fails(e)
  <2>1. Going(list, e) /\ i < e.pos /\ Span(list, <<e.val>>, i, e.pos)
    BY <1>2, <1>4, DoesExpression DEF Goes
  <2>2. i \in Int /\ e.pos \in Int
    BY <2>1 DEF Span
  <2>3. /\ 2 * (e.pos - i) \in Nat /\ 3 * (e.pos - i) \in Nat /\ 2 * (e.pos - i) + 1 \in Nat
        /\ 2 * (e.pos - i) + 1 <= 3 * (e.pos - i)
    BY <2>1, <2>2
  <2>4. Prints(list, <<node>>, i, e.pos, 2 * (e.pos - i) + 1)
    BY <2>1, <2>3, ExprStmtIs, PrintsInner DEF Span
  <2>5. Prints(list, <<node>>, i, e.pos, 3 * (e.pos - i))
    BY <2>3, <2>4, PrintsWithin
  <2> HIDE DEF node
  <2>6. Going(list, y) /\ y.pos = e.pos /\ y.val = node
    BY <2>1, YieldGoes
  <2>7. AndThen(e, LAMBDA q : Yield(q, ExprStmt(q.val))) = y
    BY <1>4 DEF AndThen, node
  <2> HIDE DEF y, i
  <2>8. Read(list, i, y)
    BY <2>1, <2>5, <2>6 DEF Read
  <2>9. QED
    BY <2>7, <2>8 DEF e, i
<1>5. QED
  BY <1>3, <1>4

(* The parts of statements. *)
LEMMA TripleSeq ==
  ASSUME NEW x, NEW y, NEW z
  PROVE  IsSeq(<<x, y, z>>)
<1>1. <<x, y, z>> \in Seq({x, y, z})
  OBVIOUS
<1>2. QED
  BY <1>1, SeqIs

LEMMA PartsOfUse ==
  ASSUME NEW name
  PROVE  /\ UseStmt(name).kind \notin Leaves
         /\ Parts(UseStmt(name)) = <<Word(<<"USE">>), Word(name)>> \o Ended
<1> DEFINE n == UseStmt(name)
<1>1. n.kind = "use" /\ n.name = name
  BY DEF UseStmt
<1> HIDE DEF n
<1>2. n.kind \notin Leaves
  BY <1>1 DEF Leaves
<1>3. Parts(n) = <<Word(<<"USE">>), Word(n.name)>> \o Ended
  BY <1>1 DEF Parts
<1>4. QED
  BY <1>1, <1>2, <1>3 DEF n

LEMMA PartsOfDrop ==
  ASSUME NEW target, NEW name
  PROVE  /\ DropStmt(target, name).kind \notin Leaves
         /\ Parts(DropStmt(target, name)) = <<Word(<<"DROP">>), Word(<<target>>), Word(name)>> \o Ended
<1> DEFINE n == DropStmt(target, name)
<1>1. n.kind = "drop" /\ n.target = target /\ n.name = name
  BY DEF DropStmt
<1> HIDE DEF n
<1>2. n.kind \notin Leaves
  BY <1>1 DEF Leaves
<1>3. Parts(n) = <<Word(<<"DROP">>), Word(<<n.target>>), Word(n.name)>> \o Ended
  BY <1>1 DEF Parts
<1>4. QED
  BY <1>1, <1>2, <1>3 DEF n

LEMMA PartsOfDelete ==
  ASSUME NEW table, NEW filter
  PROVE  /\ DeleteStmt(table, filter).kind \notin Leaves
         /\ Parts(DeleteStmt(table, filter)) = <<Word(<<"DELETE">>), Word(<<"FROM">>), table>> \o Where(filter) \o Ended
<1> DEFINE n == DeleteStmt(table, filter)
<1>1. n.kind = "delete" /\ n.table = table /\ n.filter = filter
  BY DEF DeleteStmt
<1> HIDE DEF n
<1>2. n.kind \notin Leaves
  BY <1>1 DEF Leaves
<1>3. Parts(n) = <<Word(<<"DELETE">>), Word(<<"FROM">>), n.table>> \o Where(n.filter) \o Ended
  BY <1>1 DEF Parts
<1>4. QED
  BY <1>1, <1>2, <1>3 DEF n

LEMMA PartsOfUpdate ==
  ASSUME NEW table, NEW clauses, NEW filter
  PROVE  /\ UpdateStmt(table, clauses, filter).kind \notin Leaves
         /\ Parts(UpdateStmt(table, clauses, filter)) = <<Word(<<"UPDATE">>), table, Word(<<"SET">>)>> \o Each(ClauseNode, clauses)
                 \o Where(filter) \o Ended
<1> DEFINE n == UpdateStmt(table, clauses, filter)
<1>1. n.kind = "update" /\ n.table = table /\ n.clauses = clauses /\ n.filter = filter
  BY DEF UpdateStmt
<1> HIDE DEF n
<1>2. n.kind \notin Leaves
  BY <1>1 DEF Leaves
<1>3. Parts(n) = <<Word(<<"UPDATE">>), n.table, Word(<<"SET">>)>> \o Each(ClauseNode, n.clauses)
                 \o Where(n.filter) \o Ended
  BY <1>1 DEF Parts
<1>4. QED
  BY <1>1, <1>2, <1>3 DEF n

LEMMA PartsOfInsert ==
  ASSUME NEW name, NEW columns, NEW rows
  PROVE  /\ InsertStmt(name, columns, rows).kind \notin Leaves
         /\ Parts(InsertStmt(name, columns, rows)) = <<Word(<<"INSERT">>), Word(<<"INTO">>)>> \o Named(name) \o Bracketed(Each(Word, columns))
                 \o <<Word(<<"VALUES">>)>> \o Each(RowNode, rows) \o Ended
<1> DEFINE n == InsertStmt(name, columns, rows)
<1>1. n.kind = "insert" /\ n.name = name /\ n.columns = columns /\ n.rows = rows
  BY DEF InsertStmt
<1> HIDE DEF n
<1>2. n.kind \notin Leaves
  BY <1>1 DEF Leaves
<1>3. Parts(n) = <<Word(<<"INSERT">>), Word(<<"INTO">>)>> \o Named(n.name) \o Bracketed(Each(Word, n.columns))
                 \o <<Word(<<"VALUES">>)>> \o Each(RowNode, n.rows) \o Ended
  BY <1>1 DEF Parts
<1>4. QED
  BY <1>1, <1>2, <1>3 DEF n

LEMMA PartsOfAlterUser ==
  ASSUME NEW name, NEW clauses
  PROVE  /\ AlterUserStmt(name, clauses).kind \notin Leaves
         /\ Parts(AlterUserStmt(name, clauses)) = <<Word(<<"ALTER">>), Word(<<"USER">>), Word(name), Word(<<"SET">>)>> \o Each(ClauseNode, clauses)
                 \o Ended
<1> DEFINE n == AlterUserStmt(name, clauses)
<1>1. n.kind = "alter" /\ n.name = name /\ n.clauses = clauses
  BY DEF AlterUserStmt
<1> HIDE DEF n
<1>2. n.kind \notin Leaves
  BY <1>1 DEF Leaves
<1>3. Parts(n) = <<Word(<<"ALTER">>), Word(<<"USER">>), Word(n.name), Word(<<"SET">>)>> \o Each(ClauseNode, n.clauses)
                 \o Ended
  BY <1>1 DEF Parts
<1>4. QED
  BY <1>1, <1>2, <1>3 DEF n

LEMMA PartsOfCreateDatabase ==
  ASSUME NEW name
  PROVE  /\ CreateDatabaseStmt(name).kind \notin Leaves
         /\ Parts(CreateDatabaseStmt(name)) = <<Word(<<"CREATE">>), Word(<<"DATABASE">>), Word(name)>> \o Ended
<1> DEFINE n == CreateDatabaseStmt(name)
<1>1. n.kind = "create" /\ n.target = "DATABASE" /\ n.name = name
  BY DEF CreateDatabaseStmt, CreateStmt
<1> HIDE DEF n
<1>2. n.kind \notin Leaves
  BY <1>1 DEF Leaves
<1>3. Parts(n) = <<Word(<<"CREATE">>), Word(<<n.target>>), Word(n.name)>> \o <<>> \o Ended
  BY <1>1 DEF Parts
<1>4. <<Word(<<"CREATE">>), Word(<<n.target>>), Word(n.name)>> \o <<>>
        = <<Word(<<"CREATE">>), Word(<<n.target>>), Word(n.name)>>
  BY TripleSeq, ConcatNothing
<1>5. QED
  BY <1>1, <1>2, <1>3, <1>4 DEF n

LEMMA PartsOfCreateUser ==
  ASSUME NEW name
  PROVE  /\ CreateUserStmt(name).kind \notin Leaves
         /\ Parts(CreateUserStmt(name)) = <<Word(<<"CREATE">>), Word(<<"USER">>), Word(name)>> \o Ended
<1> DEFINE n == CreateUserStmt(name)
<1>1. n.kind = "create" /\ n.target = "USER" /\ n.name = name
  BY DEF CreateUserStmt, CreateStmt
<1> HIDE DEF n
<1>2. n.kind \notin Leaves
  BY <1>1 DEF Leaves
<1>3. Parts(n) = <<Word(<<"CREATE">>), Word(<<n.target>>), Word(n.name)>> \o <<>> \o Ended
  BY <1>1 DEF Parts
<1>4. <<Word(<<"CREATE">>), Word(<<n.target>>), Word(n.name)>> \o <<>>
        = <<Word(<<"CREATE">>), Word(<<n.target>>), Word(n.name)>>
  BY TripleSeq, ConcatNothing
<1>5. QED
  BY <1>1, <1>2, <1>3, <1>4 DEF n

LEMMA PartsOfCreateTable ==
  ASSUME NEW name, NEW columns
  PROVE  /\ CreateTableStmt(name, columns).kind \notin Leaves
         /\ Parts(CreateTableStmt(name, columns)) =
              <<Word(<<"CREATE">>), Word(<<"TABLE">>), Word(name)>> \o Bracketed(Each(ColumnNode, columns)) \o Ended
<1> DEFINE n == CreateTableStmt(name, columns)
<1>1. n.kind = "create" /\ n.target = "TABLE" /\ n.name = name /\ n.columns = columns
  BY DEF CreateTableStmt, CreateStmt
<1> HIDE DEF n
<1>2. n.kind \notin Leaves
  BY <1>1 DEF Leaves
<1>3. Parts(n) = <<Word(<<"CREATE">>), Word(<<n.target>>), Word(n.name)>> \o Bracketed(Each(ColumnNode, n.columns)) \o Ended
  BY <1>1 DEF Parts
<1>4. QED
  BY <1>1, <1>2, <1>3 DEF n

(* What the kinds of statements are read as. *)
LEMMA BracketsTight ==
  ASSUME NEW list, NEW nodes, NEW i, NEW j, NEW k, NEW l,
         Tight(list, <<Word(<<"(">>)>>, i, j), Span(list, nodes, j, k), Tight(list, <<Word(<<")">>)>>, k, l)
  PROVE  Tight(list, Bracketed(nodes), i, l)
<1>1. Tight(list, <<Word(<<"(">>)>> \o nodes, i, k)
  BY TightThen
<1>2. Tight(list, (<<Word(<<"(">>)>> \o nodes) \o <<Word(<<")">>)>>, i, l)
  BY <1>1, TightIsSpan, TightThen
<1>3. QED
  BY <1>2 DEF Bracketed

LEMMA FourTight ==
  ASSUME NEW list, NEW x, NEW y, NEW z, NEW u, NEW i, NEW j, NEW k, NEW l, NEW m,
         Tight(list, <<x>>, i, j), Tight(list, <<y>>, j, k), Tight(list, <<z>>, k, l), Tight(list, <<u>>, l, m)
  PROVE  Tight(list, <<x, y, z, u>>, i, m)
<1>1. Tight(list, <<x>> \o <<y>>, i, k)
  BY TightIsSpan, TightThen
<1>2. Tight(list, <<x>> \o <<y>> \o <<z>>, i, l)
  BY <1>1, TightIsSpan, TightThen
<1>3. Tight(list, <<x>> \o <<y>> \o <<z>> \o <<u>>, i, m)
  BY <1>2, TightIsSpan, TightThen
<1>4. <<x, y, z, u>> = <<x>> \o <<y>> \o <<z>> \o <<u>>
  BY FourIs
<1>5. QED
  BY <1>3, <1>4

LEMMA UseRead ==
  ASSUME NEW list, WellLexed(list), NEW p, Going(list, p)
  PROVE  Read(list, p.pos, Use(p))
<1> DEFINE use == Expect(p, "USE")
           name == Ident(use)
           node == UseStmt(name.val)
           body == <<Word(<<"USE">>), Word(name.val)>>
<1>1. "USE" \in Reserved
  BY ReservedAre
<1>2. \/ Fails(use)
      \/ Going(list, use) /\ Tight(list, <<Word(<<"USE">>)>>, p.pos, use.pos)
  BY <1>1, ExpectWord
<1> HIDE DEF use
<1>3. \/ Fails(name)
      \/ ~Fails(use) /\ Going(list, name) /\ Tight(list, <<Word(name.val)>>, use.pos, name.pos)
  BY <1>2, IdentGoes
<1>4. CASE Fails(name)
  BY <1>4 DEF Use, AndThen, Read, use
<1>5. CASE ~Fails(name)
  <2>1. Use(p) = Yield(Expect(name, Semicolon), node)
    BY <1>5 DEF Use, AndThen, use
  <2> HIDE DEF name
  <2>2. Tight(list, body, p.pos, name.pos)
    BY <1>2, <1>3, <1>5, TightIsSpan, TightThen, PairIs
  <2>3. node.kind \notin Leaves /\ Parts(node) = body \o Ended
    BY PartsOfUse
  <2> HIDE DEF body, node
  <2>4. QED
    BY <1>3, <1>5, <2>1, <2>2, <2>3, StatementEnds
<1>6. QED
  BY <1>4, <1>5

LEMMA DropRead ==
  ASSUME NEW list, WellLexed(list), NEW p, Going(list, p), At(p, "DROP")
  PROVE  Read(list, p.pos, Drop(p))
<1> DEFINE drop == Advance(p)
           target == IF At(drop, "TABLE") THEN "TABLE" ELSE "DATABASE"
           what == Expect(drop, target)
           name == Ident(what)
           node == DropStmt(target, name.val)
           body == <<Word(<<"DROP">>), Word(<<target>>), Word(name.val)>>
<1>1. {"DROP", "TABLE", "DATABASE"} \subseteq Reserved
  BY ReservedAre
<1>2. Going(list, drop) /\ Tight(list, <<Word(<<"DROP">>)>>, p.pos, drop.pos)
  BY <1>1, WordTaken
<1>3. target \in Reserved
  BY <1>1
<1>4. CASE Fails(name)
  BY <1>4 DEF Drop, AndThen, Read
<1>5. CASE ~Fails(name)
  <2>1. Drop(p) = Yield(Expect(name, Semicolon), node)
    BY <1>5 DEF Drop, AndThen
  <2> HIDE DEF drop, target
  <2>2. \/ Fails(what)
        \/ Going(list, what) /\ Tight(list, <<Word(<<target>>)>>, drop.pos, what.pos)
    BY <1>2, <1>3, ExpectWord
  <2> HIDE DEF what
  <2>3. ~Fails(what) /\ Going(list, name) /\ Tight(list, <<Word(name.val)>>, what.pos, name.pos)
    BY <1>5, <2>2, IdentGoes
  <2> HIDE DEF name
  <2>4. Tight(list, <<Word(<<"DROP">>)>> \o <<Word(<<target>>)>>, p.pos, what.pos)
    BY <1>2, <2>2, <2>3, TightIsSpan, TightThen
  <2>5. Tight(list, <<Word(<<"DROP">>)>> \o <<Word(<<target>>)>> \o <<Word(name.val)>>, p.pos, name.pos)
    BY <2>3, <2>4, TightIsSpan, TightThen
  <2>6. body = <<Word(<<"DROP">>)>> \o <<Word(<<target>>)>> \o <<Word(name.val)>>
    BY TripleIs
  <2>7. node.kind \notin Leaves /\ Parts(node) = body \o Ended
    BY PartsOfDrop
  <2> HIDE DEF body, node
  <2>8. QED
    BY <2>1, <2>3, <2>5, <2>6, <2>7, StatementEnds
<1>6. QED
  BY <1>4, <1>5

(* WHERE, or nothing. *)
LEMMA FilterRead ==
  ASSUME NEW list, WellLexed(list), NEW parse, Parses(list, parse), NEW p, Going(list, p)
  PROVE  \/ Fails(Filter(parse, p))
         \/ Going(list, Filter(parse, p)) /\ Span(list, Where(Filter(parse, p).val), p.pos, Filter(parse, p).pos)
<1>1. CASE ~At(p, "WHERE")
  <2> DEFINE y == Yield(p, <<>>)
  <2>1. Filter(parse, p) = y
    BY <1>1 DEF Filter
  <2>2. Going(list, y) /\ y.pos = p.pos /\ y.val = <<>> /\ p.pos \in Int
    BY YieldGoes, GoingIs
  <2> HIDE DEF y
  <2>3. Where(y.val) = <<>>
    BY <2>2 DEF Where
  <2>4. QED
    BY <2>1, <2>2, <2>3, NothingSpan
<1>2. CASE At(p, "WHERE")
  <2> DEFINE next == Advance(p)
             e == Rule(parse, "expression", next)
             val == <<e.val>>
             y == Yield(e, val)
  <2>1. Going(list, next) /\ Tight(list, <<Word(<<"WHERE">>)>>, p.pos, next.pos)
    BY <1>2, ReservedAre, WordTaken
  <2>2. Filter(parse, p) = IF Fails(e) THEN e ELSE y
    BY <1>2 DEF Filter, AndThen
  <2> HIDE DEF next
  <2>3. Fails(e) \/ (Going(list, e) /\ Span(list, <<e.val>>, next.pos, e.pos))
    BY <2>1, ExpressionRead
  <2>4. CASE Fails(e)
    BY <2>2, <2>4
  <2>5. CASE ~Fails(e)
    <3> HIDE DEF e
    <3>1. Tight(list, <<Word(<<"WHERE">>)>> \o val, p.pos, e.pos)
      BY <2>1, <2>3, <2>5, TightThen
    <3>2. val # <<>>
      BY OneIs, NothingIs
    <3> HIDE DEF val
    <3>3. Going(list, y) /\ y.pos = e.pos /\ y.val = val
      BY <2>3, <2>5, YieldGoes
    <3>4. Where(val) = <<Word(<<"WHERE">>)>> \o val
      BY <3>2 DEF Where
    <3> HIDE DEF y
    <3>5. QED
      BY <2>2, <2>5, <3>1, <3>3, <3>4, TightIsSpan
  <2>6. QED
    BY <2>4, <2>5
<1>3. QED
  BY <1>1, <1>2

LEMMA DeleteRead ==
  ASSUME NEW list, WellLexed(list), NEW parse, Parses(list, parse), NEW p, Going(list, p)
  PROVE  Read(list, p.pos, Delete(parse, p))
<1> DEFINE delete == Expect(p, "DELETE")
           from == Expect(delete, "FROM")
           table == Rule(parse, "expression", from)
           filter == Filter(parse, table)
           node == DeleteStmt(table.val, filter.val)
           body == <<Word(<<"DELETE">>), Word(<<"FROM">>), table.val>> \o Where(filter.val)
<1>1. {"DELETE", "FROM"} \subseteq Reserved
  BY ReservedAre
<1>2. \/ Fails(delete)
      \/ Going(list, delete) /\ Tight(list, <<Word(<<"DELETE">>)>>, p.pos, delete.pos)
  BY <1>1, ExpectWord
<1>3. CASE Fails(table)
  BY <1>3 DEF Delete, AndThen, Read
<1>4. CASE ~Fails(table)
  <2>1. Delete(parse, p) = IF Fails(filter) THEN filter ELSE Yield(Expect(filter, Semicolon), node)
    BY <1>4 DEF Delete, AndThen
  <2> HIDE DEF delete
  <2>2. \/ Fails(from)
        \/ ~Fails(delete) /\ Going(list, from) /\ Tight(list, <<Word(<<"FROM">>)>>, delete.pos, from.pos)
    BY <1>1, <1>2, ExpectWord
  <2> HIDE DEF from
  <2>3. ~Fails(from) /\ Going(list, table) /\ Span(list, <<table.val>>, from.pos, table.pos)
    BY <1>4, <2>2, ExpressionRead
  <2> HIDE DEF table
  <2>4. CASE Fails(filter)
    BY <2>1, <2>4 DEF Read
  <2>5. CASE ~Fails(filter)
    <3>1. Going(list, filter) /\ Span(list, Where(filter.val), table.pos, filter.pos)
      BY <2>3, <2>5, FilterRead
    <3> HIDE DEF filter
    <3>2. Tight(list, <<Word(<<"DELETE">>)>> \o <<Word(<<"FROM">>)>>, p.pos, from.pos)
      BY <1>2, <2>2, <2>3, TightIsSpan, TightThen
    <3>3. Tight(list, <<Word(<<"DELETE">>)>> \o <<Word(<<"FROM">>)>> \o <<table.val>>, p.pos, table.pos)
      BY <2>3, <3>2, TightThen
    <3>4. <<Word(<<"DELETE">>), Word(<<"FROM">>), table.val>> = <<Word(<<"DELETE">>)>> \o <<Word(<<"FROM">>)>> \o <<table.val>>
      BY TripleIs
    <3>5. Tight(list, body, p.pos, filter.pos)
      <4>1. Tight(list, <<Word(<<"DELETE">>), Word(<<"FROM">>), table.val>>, p.pos, table.pos)
        BY <3>3, <3>4
      <4>2. QED
        BY <3>1, <4>1, TightThen
    <3>6. node.kind \notin Leaves /\ Parts(node) = body \o Ended
      BY PartsOfDelete
    <3> HIDE DEF body, node
    <3>7. QED
      BY <2>1, <2>5, <3>1, <3>5, <3>6, StatementEnds
  <2>6. QED
    BY <2>4, <2>5
<1>5. QED
  BY <1>3, <1>4

LEMMA UpdateRead ==
  ASSUME NEW list, WellLexed(list), NEW parse, Parses(list, parse), NEW p, Going(list, p)
  PROVE  Read(list, p.pos, Update(parse, p))
<1> DEFINE update == Expect(p, "UPDATE")
           table == Rule(parse, "expression", update)
           set == Expect(table, "SET")
           clauses == Rule(parse, "clauses", set)
           filter == Filter(parse, clauses)
           node == UpdateStmt(table.val, clauses.val, filter.val)
           body == <<Word(<<"UPDATE">>), table.val, Word(<<"SET">>)>> \o Each(ClauseNode, clauses.val) \o Where(filter.val)
<1>1. {"UPDATE", "SET"} \subseteq Reserved /\ "clauses" \in Lists
  BY ReservedAre DEF Lists, Rules
<1>2. \/ Fails(update)
      \/ Going(list, update) /\ Tight(list, <<Word(<<"UPDATE">>)>>, p.pos, update.pos)
  BY <1>1, ExpectWord
<1>3. CASE Fails(table)
  BY <1>3 DEF Update, AndThen, Read
<1>4. CASE ~Fails(table) /\ Fails(clauses)
  BY <1>4 DEF Update, AndThen, Read
<1>5. CASE ~Fails(table) /\ ~Fails(clauses)
  <2>1. Update(parse, p) = IF Fails(filter) THEN filter ELSE Yield(Expect(filter, Semicolon), node)
    BY <1>5 DEF Update, AndThen
  <2> HIDE DEF update
  <2>2. ~Fails(update) /\ Going(list, table) /\ Span(list, <<table.val>>, update.pos, table.pos)
    BY <1>2, <1>5, ExpressionRead
  <2> HIDE DEF table
  <2>3. \/ Fails(set)
        \/ Going(list, set) /\ Tight(list, <<Word(<<"SET">>)>>, table.pos, set.pos)
    BY <1>1, <2>2, ExpectWord
  <2> HIDE DEF set
  <2>4. /\ ~Fails(set) /\ Going(list, clauses)
        /\ Span(list, ItemNodes("clauses", clauses.val), set.pos, clauses.pos)
    BY <1>1, <1>5, <2>3, ListRead
  <2> HIDE DEF clauses
  <2>5. CASE Fails(filter)
    BY <2>1, <2>5 DEF Read
  <2>6. CASE ~Fails(filter)
    <3>1. Going(list, filter) /\ Span(list, Where(filter.val), clauses.pos, filter.pos)
      BY <2>4, <2>6, FilterRead
    <3> HIDE DEF filter
    <3>2. Tight(list, <<Word(<<"UPDATE">>)>> \o <<table.val>>, p.pos, table.pos)
      BY <1>2, <2>2, TightThen
    <3>3. Tight(list, <<Word(<<"UPDATE">>)>> \o <<table.val>> \o <<Word(<<"SET">>)>>, p.pos, set.pos)
      BY <2>3, <2>4, <3>2, TightIsSpan, TightThen
    <3>4. <<Word(<<"UPDATE">>), table.val, Word(<<"SET">>)>> = <<Word(<<"UPDATE">>)>> \o <<table.val>> \o <<Word(<<"SET">>)>>
      BY TripleIs
    <3>5. Tight(list, <<Word(<<"UPDATE">>), table.val, Word(<<"SET">>)>>, p.pos, set.pos)
      BY <3>3, <3>4
    <3>6. Tight(list, <<Word(<<"UPDATE">>), table.val, Word(<<"SET">>)>> \o Each(ClauseNode, clauses.val), p.pos, clauses.pos)
      BY <2>4, <3>5, EachIs, TightThen
    <3>7. Tight(list, body, p.pos, filter.pos)
      BY <3>1, <3>6, TightThen
    <3>8. node.kind \notin Leaves /\ Parts(node) = body \o Ended
      BY PartsOfUpdate
    <3> HIDE DEF body, node
    <3>9. QED
      BY <2>1, <2>6, <3>1, <3>7, <3>8, StatementEnds
  <2>7. QED
    BY <2>5, <2>6
<1>6. QED
  BY <1>3, <1>4, <1>5

LEMMA AlterRead ==
  ASSUME NEW list, WellLexed(list), NEW parse, Parses(list, parse), NEW p, Going(list, p), At(p, "ALTER")
  PROVE  Read(list, p.pos, Alter(parse, p))
<1> DEFINE alter == Advance(p)
           user == Expect(alter, "USER")
           name == Ident(user)
           set == Expect(name, "SET")
           clauses == Rule(parse, "clauses", set)
           node == AlterUserStmt(name.val, clauses.val)
           four == <<Word(<<"ALTER">>), Word(<<"USER">>), Word(name.val), Word(<<"SET">>)>>
           body == four \o Each(ClauseNode, clauses.val)
<1>1. {"ALTER", "USER", "SET"} \subseteq Reserved /\ "clauses" \in Lists
  BY ReservedAre DEF Lists, Rules
<1>2. Going(list, alter) /\ Tight(list, <<Word(<<"ALTER">>)>>, p.pos, alter.pos)
  BY <1>1, WordTaken
<1>3. CASE ~IsEof(alter) /\ ~At(alter, "USER")
  <2>1. Alter(parse, p) = [alter EXCEPT !.fail = "trap"]
    BY <1>3 DEF Alter
  <2>2. alter = [tokens |-> list, pos |-> alter.pos, val |-> alter.val, fail |-> "no"]
    BY <1>2 DEF Going
  <2> HIDE DEF alter
  <2>3. [alter EXCEPT !.fail = "trap"].fail = "trap"
    BY <2>2
  <2>4. QED
    BY <2>1, <2>3 DEF Read, Fails
<1>4. CASE IsEof(alter) \/ At(alter, "USER")
  <2>1. Alter(parse, p) = AndThen(name, LAMBDA q :
                            AndThen(Rule(parse, "clauses", Expect(q, "SET")), LAMBDA c :
                              Yield(Expect(c, Semicolon), AlterUserStmt(q.val, c.val))))
    BY <1>4 DEF Alter
  <2> HIDE DEF alter
  <2>2. \/ Fails(user)
        \/ Going(list, user) /\ Tight(list, <<Word(<<"USER">>)>>, alter.pos, user.pos)
    BY <1>1, <1>2, ExpectWord
  <2> HIDE DEF user
  <2>3. CASE Fails(name)
    BY <2>1, <2>3 DEF AndThen, Read
  <2>4. CASE ~Fails(name) /\ Fails(clauses)
    BY <2>1, <2>4 DEF AndThen, Read
  <2>5. CASE ~Fails(name) /\ ~Fails(clauses)
    <3>1. Alter(parse, p) = Yield(Expect(clauses, Semicolon), node)
      BY <2>1, <2>5 DEF AndThen
    <3>2. ~Fails(user) /\ Going(list, name) /\ Tight(list, <<Word(name.val)>>, user.pos, name.pos)
      BY <2>2, <2>5, IdentGoes
    <3> HIDE DEF name
    <3>3. \/ Fails(set)
          \/ Going(list, set) /\ Tight(list, <<Word(<<"SET">>)>>, name.pos, set.pos)
      BY <1>1, <3>2, ExpectWord
    <3> HIDE DEF set
    <3>4. /\ ~Fails(set) /\ Going(list, clauses)
          /\ Span(list, ItemNodes("clauses", clauses.val), set.pos, clauses.pos)
      BY <1>1, <2>5, <3>3, ListRead
    <3> HIDE DEF clauses
    <3>5. Tight(list, four, p.pos, set.pos)
      BY <1>2, <2>2, <3>2, <3>3, <3>4, FourTight
    <3> HIDE DEF four
    <3>9. Tight(list, body, p.pos, clauses.pos)
      BY <3>4, <3>5, EachIs, TightThen
    <3>10. node.kind \notin Leaves /\ Parts(node) = body \o Ended
      BY PartsOfAlterUser DEF four
    <3> HIDE DEF body, node
    <3>11. QED
      BY <3>1, <3>4, <3>9, <3>10, StatementEnds
  <2>6. QED
    BY <2>3, <2>4, <2>5
<1>5. QED
  BY <1>3, <1>4

(* CREATE and what is created, at the second word. *)
LEMMA CreateWords ==
  ASSUME NEW list, WellLexed(list), NEW p, Going(list, p), At(p, "CREATE"),
         NEW type \in {"TABLE", "DATABASE", "USER"}, At(Advance(p), type)
  PROVE  \/ Fails(Ident(Advance(Advance(p))))
         \/ /\ Going(list, Ident(Advance(Advance(p))))
            /\ Tight(list, <<Word(<<"CREATE">>), Word(<<type>>), Word(Ident(Advance(Advance(p))).val)>>, p.pos,
                     Ident(Advance(Advance(p))).pos)
<1> DEFINE create == Advance(p)
           what == Advance(create)
           name == Ident(what)
<1>1. "CREATE" \in Reserved /\ type \in Reserved
  BY ReservedAre
<1>2. Going(list, create) /\ Tight(list, <<Word(<<"CREATE">>)>>, p.pos, create.pos)
  BY <1>1, WordTaken
<1>3. Going(list, what) /\ Tight(list, <<Word(<<type>>)>>, create.pos, what.pos)
  BY <1>1, <1>2, WordTaken
<1> HIDE DEF what, create
<1>4. CASE Fails(name)
  BY <1>4 DEF what, create
<1>5. CASE ~Fails(name)
  <2>1. Going(list, name) /\ Tight(list, <<Word(name.val)>>, what.pos, name.pos)
    BY <1>3, <1>5, IdentGoes
  <2> HIDE DEF name
  <2>2. Tight(list, <<Word(<<"CREATE">>)>> \o <<Word(<<type>>)>>, p.pos, what.pos)
    BY <1>2, <1>3, TightIsSpan, TightThen
  <2>3. Tight(list, <<Word(<<"CREATE">>)>> \o <<Word(<<type>>)>> \o <<Word(name.val)>>, p.pos, name.pos)
    BY <2>1, <2>2, TightIsSpan, TightThen
  <2>4. <<Word(<<"CREATE">>), Word(<<type>>), Word(name.val)>> = <<Word(<<"CREATE">>)>> \o <<Word(<<type>>)>> \o <<Word(name.val)>>
    BY TripleIs
  <2>5. Tight(list, <<Word(<<"CREATE">>), Word(<<type>>), Word(name.val)>>, p.pos, name.pos)
    BY <2>3, <2>4
  <2>6. QED
    BY <2>1, <2>5 DEF name, what, create
<1>6. QED
  BY <1>4, <1>5

LEMMA CreateTableRead ==
  ASSUME NEW list, WellLexed(list), NEW parse, Parses(list, parse), NEW p, Going(list, p), At(p, "CREATE"),
         At(Advance(p), "TABLE")
  PROVE  Read(list, p.pos, CreateTable(parse, Advance(Advance(p))))
<1> DEFINE what == Advance(Advance(p))
           name == Ident(what)
           open == Expect(name, "(")
           columns == Rule(parse, "columns", open)
           close == Expect(columns, ")")
           node == CreateTableStmt(name.val, columns.val)
           three == <<Word(<<"CREATE">>), Word(<<"TABLE">>), Word(name.val)>>
           list2 == Bracketed(Each(ColumnNode, columns.val))
           body == three \o list2
<1>1. {"(", ")"} \subseteq Reserved /\ "columns" \in Lists
  BY ReservedAre DEF Lists, Rules
<1>2. Fails(name) \/ (Going(list, name) /\ Tight(list, three, p.pos, name.pos))
  BY CreateWords
<1>3. CreateTable(parse, what) = AndThen(name, LAMBDA q :
                                   AndThen(Rule(parse, "columns", Expect(q, "(")), LAMBDA c :
                                     Yield(Expect(Expect(c, ")"), Semicolon), CreateTableStmt(q.val, c.val))))
  BY DEF CreateTable
<1> HIDE DEF what
<1>4. CASE Fails(name)
  BY <1>3, <1>4 DEF AndThen, Read, what
<1>5. CASE ~Fails(name) /\ Fails(columns)
  BY <1>3, <1>5 DEF AndThen, Read, what
<1>6. CASE ~Fails(name) /\ ~Fails(columns)
  <2>1. CreateTable(parse, what) = Yield(Expect(close, Semicolon), node)
    BY <1>3, <1>6 DEF AndThen
  <2> HIDE DEF name
  <2>2. \/ Fails(open)
        \/ Going(list, open) /\ Tight(list, <<Word(<<"(">>)>>, name.pos, open.pos)
    BY <1>1, <1>2, <1>6, ExpectWord
  <2> HIDE DEF open
  <2>3. /\ ~Fails(open) /\ Going(list, columns)
        /\ Span(list, ItemNodes("columns", columns.val), open.pos, columns.pos)
    BY <1>1, <1>6, <2>2, ListRead
  <2> HIDE DEF columns
  <2>4. \/ Fails(close)
        \/ Going(list, close) /\ Tight(list, <<Word(<<")">>)>>, columns.pos, close.pos)
    BY <1>1, <2>3, ExpectWord
  <2> HIDE DEF close
  <2>5. ASSUME ~Fails(close)
        PROVE  Tight(list, body, p.pos, close.pos)
    <3>1. Tight(list, list2, name.pos, close.pos)
      BY <2>2, <2>3, <2>4, <2>5, EachIs, BracketsTight
    <3> HIDE DEF three, list2
    <3>2. QED
      BY <1>2, <1>6, <3>1, TightIsSpan, TightThen
  <2>6. node.kind \notin Leaves /\ Parts(node) = body \o Ended
    BY PartsOfCreateTable
  <2> HIDE DEF body, node
  <2>7. Read(list, p.pos, Yield(Expect(close, Semicolon), node))
    BY <2>4, <2>5, <2>6, StatementEnds
  <2>8. QED
    BY <2>1, <2>7 DEF what
<1>7. QED
  BY <1>4, <1>5, <1>6

LEMMA CreateRead ==
  ASSUME NEW list, WellLexed(list), NEW parse, Parses(list, parse), NEW p, Going(list, p), At(p, "CREATE")
  PROVE  Read(list, p.pos, Create(parse, p))
<1> DEFINE create == Advance(p)
           name == Ident(Advance(create))
<1>1. Going(list, create)
  BY ReservedAre, WordTaken
<1>2. \A type, other : At(create, type) /\ At(create, other) => type = other
  BY DEF At
<1>3. ASSUME NEW node, NEW type \in {"DATABASE", "USER"}, At(create, type), ~Fails(name),
             node.kind \notin Leaves,
             Parts(node) = <<Word(<<"CREATE">>), Word(<<type>>), Word(name.val)>> \o Ended
      PROVE  Read(list, p.pos, Yield(Expect(name, Semicolon), node))
  <2> DEFINE body == <<Word(<<"CREATE">>), Word(<<type>>), Word(name.val)>>
  <2>1. Going(list, name) /\ Tight(list, body, p.pos, name.pos)
    BY <1>3, CreateWords
  <2>2. Parts(node) = body \o Ended
    BY <1>3
  <2> HIDE DEF body, name
  <2>3. QED
    BY <1>3, <2>1, <2>2, StatementEnds
<1>4. CASE At(create, "TABLE")
  <2>1. Create(parse, p) = CreateTable(parse, Advance(create))
    BY <1>2, <1>4 DEF Create
  <2>2. QED
    BY <1>4, <2>1, CreateTableRead
<1>5. CASE At(create, "DATABASE")
  <2>1. Create(parse, p) = IF Fails(name) THEN name ELSE Yield(Expect(name, Semicolon), CreateDatabaseStmt(name.val))
    BY <1>2, <1>5 DEF Create, AndThen
  <2> HIDE DEF name
  <2>2. CASE Fails(name)
    BY <2>1, <2>2 DEF Read
  <2>3. CASE ~Fails(name)
    BY <1>3, <1>5, <2>1, <2>3, PartsOfCreateDatabase
  <2>4. QED
    BY <2>2, <2>3
<1>6. CASE At(create, "USER")
  <2>1. Create(parse, p) = IF Fails(name) THEN name ELSE Yield(Expect(name, Semicolon), CreateUserStmt(name.val))
    BY <1>2, <1>6 DEF Create, AndThen
  <2> HIDE DEF name
  <2>2. CASE Fails(name)
    BY <2>1, <2>2 DEF Read
  <2>3. CASE ~Fails(name)
    BY <1>3, <1>6, <2>1, <2>3, PartsOfCreateUser
  <2>4. QED
    BY <2>2, <2>3
<1>7. CASE ~At(create, "TABLE") /\ ~At(create, "DATABASE") /\ ~At(create, "USER")
  <2>1. Create(parse, p) = Refuse(create)
    BY <1>7 DEF Create
  <2>2. QED
    BY <1>1, <2>1, RefuseFails DEF Read
<1>8. QED
  BY <1>4, <1>5, <1>6, <1>7

LEMMA InsertNameRead ==
  ASSUME NEW list, WellLexed(list), NEW p, Fails(p) \/ Going(list, p)
  PROVE  \/ Fails(InsertName(p))
         \/ /\ ~Fails(p) /\ Going(list, InsertName(p))
            /\ Span(list, Named(InsertName(p).val), p.pos, InsertName(p).pos)
<1>1. CASE Fails(p)
  BY <1>1 DEF InsertName
<1>2. CASE ~Fails(p) /\ At(p, "ident")
  <2> DEFINE q == Ident(p)
  <2>1. InsertName(p) = q
    BY <1>2 DEF InsertName
  <2>2. Fails(q) \/ (Going(list, q) /\ q.val # <<>> /\ Tight(list, <<Word(q.val)>>, p.pos, q.pos))
    BY <1>2, IdentGoes
  <2> HIDE DEF q
  <2>3. q.val # <<>> => Named(q.val) = <<Word(q.val)>>
    BY DEF Named
  <2>4. QED
    BY <1>2, <2>1, <2>2, <2>3, TightIsSpan
<1>3. CASE ~Fails(p) /\ ~At(p, "ident")
  <2> DEFINE y == Yield(p, <<>>)
  <2>1. InsertName(p) = y
    BY <1>3 DEF InsertName
  <2>2. Going(list, y) /\ y.pos = p.pos /\ y.val = <<>> /\ p.pos \in Int
    BY <1>3, YieldGoes, GoingIs
  <2> HIDE DEF y
  <2>3. Named(y.val) = <<>>
    BY <2>2 DEF Named
  <2>4. QED
    BY <1>3, <2>1, <2>2, <2>3, NothingSpan
<1>4. QED
  BY <1>1, <1>2, <1>3

LEMMA InsertRead ==
  ASSUME NEW list, WellLexed(list), NEW parse, Parses(list, parse), NEW p, Going(list, p)
  PROVE  Read(list, p.pos, Insert(parse, p))
<1> DEFINE insert == Expect(p, "INSERT")
           into == Expect(insert, "INTO")
           name == InsertName(into)
           open == Expect(name, "(")
           columns == Rule(parse, "idents", open)
           close == Expect(columns, ")")
           values == Expect(close, "VALUES")
           rows == Rule(parse, "rows", values)
           node == InsertStmt(name.val, columns.val, rows.val)
           two == <<Word(<<"INSERT">>), Word(<<"INTO">>)>>
           named == Named(name.val)
           names == Bracketed(Each(Word, columns.val))
           word == <<Word(<<"VALUES">>)>>
           each == Each(RowNode, rows.val)
           body == two \o named \o names \o word \o each
<1>1. {"INSERT", "INTO", "VALUES", "(", ")"} \subseteq Reserved /\ "idents" \in Lists /\ "rows" \in Lists
  BY ReservedAre DEF Lists, Rules
<1>2. \/ Fails(insert)
      \/ Going(list, insert) /\ Tight(list, <<Word(<<"INSERT">>)>>, p.pos, insert.pos)
  BY <1>1, ExpectWord
<1>3. Insert(parse, p) = AndThen(name, LAMBDA q :
                           AndThen(Rule(parse, "idents", Expect(q, "(")), LAMBDA c :
                             AndThen(Rule(parse, "rows", Expect(Expect(c, ")"), "VALUES")), LAMBDA r :
                               Yield(Expect(r, Semicolon), InsertStmt(q.val, c.val, r.val)))))
  BY DEF Insert
<1> HIDE DEF insert
<1>4. \/ Fails(into)
      \/ /\ ~Fails(insert) /\ Going(list, into)
         /\ Tight(list, <<Word(<<"INTO">>)>>, insert.pos, into.pos)
  BY <1>1, <1>2, ExpectWord
<1> HIDE DEF into
<1>5. Fails(name) \/ (~Fails(into) /\ Going(list, name) /\ Span(list, named, into.pos, name.pos))
  BY <1>4, InsertNameRead
<1> HIDE DEF name
<1>6. CASE Fails(name)
  BY <1>3, <1>6 DEF AndThen, Read
<1>7. CASE ~Fails(name) /\ Fails(columns)
  BY <1>3, <1>7 DEF AndThen, Read
<1>8. CASE ~Fails(name) /\ ~Fails(columns) /\ Fails(rows)
  BY <1>3, <1>8 DEF AndThen, Read
<1>9. CASE ~Fails(name) /\ ~Fails(columns) /\ ~Fails(rows)
  <2>1. Insert(parse, p) = Yield(Expect(rows, Semicolon), node)
    BY <1>3, <1>9 DEF AndThen
  <2>2. \/ Fails(open)
        \/ Going(list, open) /\ Tight(list, <<Word(<<"(">>)>>, name.pos, open.pos)
    BY <1>1, <1>5, <1>9, ExpectWord
  <2> HIDE DEF open
  <2>3. /\ ~Fails(open) /\ Going(list, columns)
        /\ Span(list, ItemNodes("idents", columns.val), open.pos, columns.pos)
    BY <1>1, <1>9, <2>2, ListRead
  <2> HIDE DEF columns
  <2>4. \/ Fails(close)
        \/ Going(list, close) /\ Tight(list, <<Word(<<")">>)>>, columns.pos, close.pos)
    BY <1>1, <2>3, ExpectWord
  <2> HIDE DEF close
  <2>5. \/ Fails(values)
        \/ ~Fails(close) /\ Going(list, values) /\ Tight(list, word, close.pos, values.pos)
    BY <1>1, <2>4, ExpectWord
  <2> HIDE DEF values
  <2>6. /\ ~Fails(values) /\ Going(list, rows)
        /\ Span(list, ItemNodes("rows", rows.val), values.pos, rows.pos)
    BY <1>1, <1>9, <2>5, ListRead
  <2> HIDE DEF rows
  <2>7. Tight(list, two, p.pos, into.pos)
    BY <1>2, <1>4, <1>5, <1>9, TightIsSpan, TightThen, PairIs
  <2>8. Tight(list, names, name.pos, close.pos)
    BY <2>2, <2>3, <2>4, <2>5, <2>6, EachIs, BracketsTight
  <2>9. Span(list, each, values.pos, rows.pos)
    BY <2>6, EachIs
  <2>10. node.kind \notin Leaves /\ Parts(node) = body \o Ended
    BY PartsOfInsert
  <2> HIDE DEF two, named, names, word, each, node
  <2>11. Tight(list, two \o named, p.pos, name.pos)
    BY <1>5, <1>9, <2>7, TightThen
  <2>12. Tight(list, two \o named \o names, p.pos, close.pos)
    BY <2>8, <2>11, TightIsSpan, TightThen
  <2>13. Tight(list, two \o named \o names \o word, p.pos, values.pos)
    BY <2>5, <2>6, <2>12, TightIsSpan, TightThen
  <2>14. Tight(list, body, p.pos, rows.pos)
    BY <2>9, <2>13, TightThen
  <2> HIDE DEF body
  <2>15. QED
    BY <2>1, <2>6, <2>10, <2>14, StatementEnds
<1>10. QED
  BY <1>6, <1>7, <1>8, <1>9

(* A statement is read as what it prints. *)
LEMMA StatementRead ==
  ASSUME NEW list, WellLexed(list), NEW p, Going(list, p), ~IsEof(p)
  PROVE  Read(list, p.pos, Statement(p))
<1> DEFINE parse == Descent(list)
           type == list[p.pos].type
<1>1. Parses(list, parse)
  BY DescentGoes DEF Parses
<1>2. /\ p.tokens = list
      /\ \A other : At(p, other) <=> type = other
  BY GoingIs
<1>3. Statement(p) = CASE At(p, "DELETE") -> Delete(parse, p)
                       [] At(p, "INSERT") -> Insert(parse, p)
                       [] At(p, "UPDATE") -> Update(parse, p)
                       [] At(p, "DROP") -> Drop(p)
                       [] At(p, "CREATE") -> Create(parse, p)
                       [] At(p, "USE") -> Use(p)
                       [] At(p, "ALTER") -> Alter(parse, p)
                       [] OTHER -> AndThen(Expression(parse, p), LAMBDA e : Yield(e, ExprStmt(e.val)))
  BY <1>2, Zenon DEF Statement
<1> DEFINE other == AndThen(Expression(parse, p), LAMBDA e : Yield(e, ExprStmt(e.val)))
<1>4. Read(list, p.pos, other)
  BY <1>1, ExprRead
<1> HIDE DEF parse, type, other
<1>5. CASE type = "DELETE"
  <2>1. Statement(p) = Delete(parse, p)
    BY <1>2, <1>3, <1>5
  <2>2. QED
    BY <1>1, <2>1, DeleteRead
<1>6. CASE type = "INSERT"
  <2>1. Statement(p) = Insert(parse, p)
    BY <1>2, <1>3, <1>6
  <2>2. QED
    BY <1>1, <2>1, InsertRead
<1>7. CASE type = "UPDATE"
  <2>1. Statement(p) = Update(parse, p)
    BY <1>2, <1>3, <1>7
  <2>2. QED
    BY <1>1, <2>1, UpdateRead
<1>8. CASE type = "DROP"
  <2>1. Statement(p) = Drop(p) /\ At(p, "DROP")
    BY <1>2, <1>3, <1>8
  <2>2. QED
    BY <2>1, DropRead
<1>9. CASE type = "CREATE"
  <2>1. Statement(p) = Create(parse, p) /\ At(p, "CREATE")
    BY <1>2, <1>3, <1>9
  <2>2. QED
    BY <1>1, <2>1, CreateRead
<1>10. CASE type = "USE"
  <2>1. Statement(p) = Use(p)
    BY <1>2, <1>3, <1>10
  <2>2. QED
    BY <2>1, UseRead
<1>11. CASE type = "ALTER"
  <2>1. Statement(p) = Alter(parse, p) /\ At(p, "ALTER")
    BY <1>2, <1>3, <1>11
  <2>2. QED
    BY <1>1, <2>1, AlterRead
<1>12. CASE type \notin {"DELETE", "INSERT", "UPDATE", "DROP", "CREATE", "USE", "ALTER"}
  <2>1. Statement(p) = other
    BY <1>2, <1>3, <1>12 DEF other
  <2>2. QED
    BY <1>4, <2>1
<1>13. QED
  BY <1>5, <1>6, <1>7, <1>8, <1>9, <1>10, <1>11, <1>12

-----------------------------------------------------------------------------
(* The inductive invariant. *)

LexTyped ==
  /\ source \in Seq(STRING)
  /\ pos \in 0..Len(source)
  /\ tokens \in Seq(TokenSet)
  /\ Len(tokens) <= pos

InSource(ts) == \A i \in DOMAIN ts : ts[i].from <= Len(source) /\ Spelled(ts[i])
Illegal(ts) == \E i \in DOMAIN ts : ts[i].type = "illegal"

(* The tokens follow each other, and they and what is passed cover the     *)
(* query up to the lexer.                                                  *)
Covered(ts, at) ==
  /\ \A i \in DOMAIN ts, j \in DOMAIN ts : i < j => ts[i].to <= ts[j].from
  /\ \A i \in DOMAIN ts : ts[i].to <= at
  /\ \A p \in 1..at : (\E i \in DOMAIN ts : ts[i].from < p /\ p <= ts[i].to) \/ Passed(p)

LexInv ==
  /\ LexTyped
  /\ InSource(tokens)
  /\ Illegal(tokens) \/ Covered(tokens, pos)

(* The statements read so far print the tokens before the parser.          *)
Parsed(list, p, done) ==
  /\ Going(list, p)
  /\ Len(done) < p.pos
  /\ Prints(list, done, 1, p.pos, 3 * (p.pos - 1))

Parsing == {"parsing"} \cup Later \cup Answered

ReadInv ==
  /\ phase \in Phases
  /\ phase = "idle" => source = <<>> /\ pos = 0 /\ tokens = <<>>
  /\ phase \in {"idle", "lexing"} => parser = NoParser /\ stmts = <<>>
  /\ phase \in Parsing => Parsed(Lexed, parser, stmts)
  /\ phase \in Later \cup {"accepted"} => IsEof(parser)

IInv == LexInv /\ ReadInv

LEMMA NothingLexed ==
  ASSUME NEW ts, ts = <<>>
  PROVE  ts \in Seq(TokenSet) /\ Len(ts) = 0 /\ InSource(ts) /\ Covered(ts, 0)
<1>1. DOMAIN ts = {} /\ Len(ts) = 0 /\ ts \in Seq(TokenSet)
  OBVIOUS
<1>2. 1..0 = {}
  OBVIOUS
<1> HIDE DEF TokenSet
<1>3. QED
  BY <1>1, <1>2 DEF InSource, Covered

(* One call of next keeps what the lexer promises. *)
LEMMA TokenKeeps ==
  ASSUME LexInv, NEW found, ReadFrom(pos, found), NEW ts,
         \/ found.token = NoToken /\ ts = tokens
         \/ found.token # NoToken /\ ts = Append(tokens, found.token)
  PROVE  /\ found.pos \in 0..Len(source) /\ ts \in Seq(TokenSet) /\ Len(ts) <= found.pos
         /\ InSource(ts)
         /\ Illegal(ts) \/ Covered(ts, found.pos)
<1>1. /\ Len(source) \in Nat /\ pos \in Nat /\ found.pos \in pos..Len(source)
      /\ tokens \in Seq(TokenSet) /\ Len(tokens) <= pos
  BY SourceTyped DEF LexInv, LexTyped, ReadFrom
<1>2. /\ Len(tokens) \in Nat /\ DOMAIN tokens = 1..Len(tokens)
      /\ \A i \in 1..Len(tokens) : tokens[i] \in TokenSet
  BY <1>1, SeqIs
<1>3. found.pos \in 0..Len(source) /\ pos <= found.pos /\ found.pos \in Nat
  BY <1>1
<1>4. CASE found.token = NoToken
  <2>1. \A p \in (pos + 1)..found.pos : Passed(p)
    <3>1. found.token \notin TokenSet
      <4>1. found.token.type = "none"
        BY <1>4 DEF NoToken, Token
      <4>2. QED
        BY <4>1, TypesApart DEF TokenSet
    <3>2. QED
      BY <3>1 DEF ReadFrom
  <2>2. ts = tokens
    BY <1>4
  <2>3. Len(ts) <= found.pos
    <3>1. Len(tokens) <= found.pos
      BY <1>1, <1>2, <1>3
    <3>2. QED
      BY <2>2, <3>1
  <2>4. CASE Illegal(tokens)
    BY <1>1, <1>3, <2>2, <2>3, <2>4 DEF LexInv
  <2>5. CASE Covered(tokens, pos)
    <3>1. \A i \in DOMAIN ts : ts[i].to <= found.pos
      <4>1. TAKE i \in DOMAIN ts
      <4>2. ts[i].to \in Nat /\ ts[i].to <= pos
        BY <1>2, <2>2, <2>5 DEF Covered, TokenSet
      <4>3. QED
        BY <1>1, <1>3, <4>2
    <3>2. \A p \in 1..found.pos : (\E i \in DOMAIN ts : ts[i].from < p /\ p <= ts[i].to) \/ Passed(p)
      <4>1. TAKE p \in 1..found.pos
      <4>2. p \in 1..pos \/ p \in (pos + 1)..found.pos
        BY <1>1, <1>3
      <4>3. QED
        BY <2>1, <2>2, <2>5, <4>2 DEF Covered
    <3>3. Covered(ts, found.pos)
      BY <2>2, <2>5, <3>1, <3>2 DEF Covered
    <3>4. QED
      BY <1>1, <1>3, <2>2, <2>3, <3>3 DEF LexInv
  <2>6. QED
    BY <2>4, <2>5 DEF LexInv
<1>5. CASE found.token # NoToken
  <2> DEFINE t == found.token
             n == Len(tokens) + 1
  <2>1. /\ t \in TokenSet /\ pos < found.pos /\ t.from <= Len(source) /\ Spelled(t)
        /\ t.type # "illegal" =>
             /\ pos <= t.from /\ t.from <= t.to /\ t.to <= found.pos
             /\ \A p \in (pos + 1)..found.pos : p <= t.from \/ t.to < p => Passed(p)
    BY <1>5 DEF ReadFrom
  <2>2. t.from \in Nat /\ t.to \in Nat
    BY <2>1 DEF TokenSet
  <2>3. /\ ts \in Seq(TokenSet) /\ Len(ts) = n /\ ts[n] = t
        /\ \A i \in 1..Len(tokens) : ts[i] = tokens[i]
    BY <1>1, <1>5, <2>1, AppendProperties
  <2>4. DOMAIN ts = 1..n /\ n \in 1..n
    BY <1>2, <2>3, SeqIs
  <2>5. \A i \in 1..n : i = n \/ i \in 1..Len(tokens)
    BY <1>2
  <2> HIDE DEF t
  <2>6. InSource(ts)
    BY <1>2, <2>1, <2>3, <2>4, <2>5 DEF LexInv, InSource
  <2>7. Len(ts) <= found.pos
    <3>1. pos < found.pos
      BY <2>1
    <3>2. n <= pos + 1
      BY <1>1, <1>2
    <3>3. n <= found.pos
      BY <1>1, <1>2, <1>3, <3>1, <3>2
    <3> HIDE DEF n
    <3>4. QED
      BY <2>3, <3>3
  <2>8. \A i \in 1..Len(tokens) : i \in DOMAIN ts
    BY <1>2, <2>4
  <2>9. CASE t.type = "illegal"
    <3>1. Illegal(ts)
      BY <2>3, <2>4, <2>9 DEF Illegal
    <3>2. QED
      BY <1>3, <2>3, <2>6, <2>7, <3>1
  <2>10. CASE Illegal(tokens)
    <3>1. Illegal(ts)
      BY <1>2, <2>3, <2>8, <2>10 DEF Illegal
    <3>2. QED
      BY <1>3, <2>3, <2>6, <2>7, <3>1
  <2>11. CASE t.type # "illegal" /\ Covered(tokens, pos)
    <3>1. \A i \in 1..Len(tokens) : tokens[i].to \in Nat /\ tokens[i].to <= pos
      BY <1>2, <2>11 DEF Covered, TokenSet
    <3>2. pos <= t.from /\ t.from <= t.to /\ t.to <= found.pos
      BY <2>1, <2>11
    <3>3. \A i \in DOMAIN ts, j \in DOMAIN ts : i < j => ts[i].to <= ts[j].from
      <4>1. TAKE i \in DOMAIN ts, j \in DOMAIN ts
      <4>2. HAVE i < j
      <4>3. i \in 1..Len(tokens) /\ (j = n \/ j \in 1..Len(tokens))
        BY <1>2, <2>4, <4>2
      <4>4. CASE j = n
        BY <1>1, <2>2, <2>3, <3>1, <3>2, <4>3, <4>4
      <4>5. CASE j \in 1..Len(tokens)
        BY <1>2, <2>3, <2>11, <4>2, <4>3, <4>5 DEF Covered
      <4>6. QED
        BY <4>3, <4>4, <4>5
    <3>4. \A i \in DOMAIN ts : ts[i].to <= found.pos
      <4>1. TAKE i \in DOMAIN ts
      <4>2. CASE i = n
        BY <2>3, <3>2, <4>2
      <4>3. CASE i \in 1..Len(tokens)
        BY <1>1, <1>3, <2>3, <3>1, <4>3
      <4>4. QED
        BY <2>4, <2>5, <4>2, <4>3
    <3>5. \A p \in 1..found.pos : (\E i \in DOMAIN ts : ts[i].from < p /\ p <= ts[i].to) \/ Passed(p)
      <4>1. TAKE p \in 1..found.pos
      <4>2. CASE p <= pos
        <5>1. p \in 1..pos
          BY <1>1, <4>2
        <5>2. (\E i \in 1..Len(tokens) : tokens[i].from < p /\ p <= tokens[i].to) \/ Passed(p)
          BY <1>2, <2>11, <5>1 DEF Covered
        <5>3. QED
          BY <2>3, <2>8, <5>2
      <4>3. CASE ~(p <= pos)
        <5>1. p \in (pos + 1)..found.pos
          BY <1>1, <1>3, <4>3
        <5>2. (p <= t.from \/ t.to < p) => Passed(p)
          BY <2>1, <2>11, <5>1
        <5>3. p <= t.from \/ t.to < p \/ (t.from < p /\ p <= t.to)
          BY <2>2
        <5>4. QED
          BY <2>3, <2>4, <5>2, <5>3
      <4>4. QED
        BY <4>2, <4>3
    <3>6. Covered(ts, found.pos)
      BY <3>3, <3>4, <3>5 DEF Covered
    <3>7. QED
      BY <1>3, <2>3, <2>6, <2>7, <3>6
  <2>12. QED
    BY <2>9, <2>10, <2>11 DEF LexInv
<1>6. QED
  BY <1>4, <1>5

(* The tokens the parser gets. *)
LEMMA LexedIs ==
  ASSUME LexInv
  PROVE  WellLexed(Lexed) /\ Len(Lexed) = Len(tokens) /\ Len(tokens) \in Nat
<1> DEFINE list == Lexed
<1>1. Len(tokens) \in Nat /\ DOMAIN tokens = 1..Len(tokens)
  BY SeqIs DEF LexInv, LexTyped
<1>2. list = [i \in 1..Len(tokens) |-> [type |-> tokens[i].type, text |-> Text(source, tokens[i])]]
  BY <1>1 DEF Lexed
<1>3. \A i \in 1..Len(tokens) : Spelled(tokens[i])
  BY <1>1 DEF LexInv, InSource
<1> HIDE DEF list
<1>4. \A i \in 1..Len(tokens) : list[i].type = tokens[i].type /\ list[i].text = Text(source, tokens[i])
  BY <1>2
<1>5. list = [i \in 1..Len(tokens) |-> list[i]]
  BY <1>2
<1>6. IsSeq(list) /\ Len(list) = Len(tokens)
  BY <1>1, <1>5, FunctionIsSeq
<1>7. WellLexed(list)
  BY <1>1, <1>3, <1>4, <1>6 DEF WellLexed, Spelled
<1>8. QED
  BY <1>1, <1>6, <1>7 DEF list

LEMMA InitHolds == ReaderInit => IInv
<1>1. SUFFICES ASSUME ReaderInit PROVE IInv
  OBVIOUS
<1>2. source = <<>> /\ pos = 0 /\ tokens = <<>> /\ phase = "idle" /\ parser = NoParser /\ stmts = <<>>
  BY <1>1 DEF ReaderInit
<1>3. source \in Seq(STRING) /\ Len(source) = 0
  BY <1>2
<1>4. LexInv
  BY <1>2, <1>3, NothingLexed DEF LexInv, LexTyped
<1>5. ReadInv
  <2>1. "idle" \in Phases /\ "idle" \notin Parsing /\ "idle" \notin Later \cup {"accepted"}
    BY DEF Phases, Parsing, Later, Answered
  <2>2. QED
    BY <1>2, <2>1 DEF ReadInv
<1>6. QED
  BY <1>4, <1>5 DEF IInv

(* What depends on the source and the tokens stays while they do. *)
LEMMA LexInvStays ==
  ASSUME LexInv, UNCHANGED <<source, pos, tokens>>
  PROVE  LexInv' /\ Lexed' = Lexed
<1>1. source' = source /\ pos' = pos /\ tokens' = tokens
  OBVIOUS
<1>2. Lexed' = Lexed
  BY <1>1 DEF Lexed
<1>3. LexTyped'
  BY <1>1 DEF LexInv, LexTyped
<1>4. InSource(tokens)'
  BY <1>1 DEF LexInv, InSource, Spelled
<1>5. (Illegal(tokens) \/ Covered(tokens, pos))'
  BY <1>1 DEF LexInv, Illegal, Covered, Passed, Commented
<1>6. QED
  BY <1>2, <1>3, <1>4, <1>5 DEF LexInv

(* A text without tokens yet. *)
LEMMA TextTaken ==
  ASSUME source' \in Seq(STRING), pos' = 0, tokens' = <<>>
  PROVE  LexInv'
<1>1. Len(source') \in Nat
  BY LenProperties
<1>2. tokens' \in Seq(TokenSet) /\ Len(tokens') = 0 /\ DOMAIN (tokens') = {} /\ 1..0 = {}
  <2>1. tokens' \in Seq(TokenSet)
    BY NothingLexed
  <2>2. QED
    BY <2>1
<1>3. LexTyped'
  BY <1>1, <1>2 DEF LexTyped
<1>4. InSource(tokens)'
  BY <1>2 DEF InSource
<1>5. Covered(tokens, pos)'
  BY <1>2 DEF Covered
<1>6. QED
  BY <1>3, <1>4, <1>5 DEF LexInv

LEMMA PhasesApart ==
  /\ "idle" \notin Parsing /\ "lexing" \notin Parsing
  /\ {"parsing", "compiling"} \subseteq Parsing /\ Later \subseteq Parsing /\ Answered \subseteq Parsing
  /\ Phases = {"idle", "lexing"} \cup Parsing
  /\ Parsing \cap {"idle", "lexing"} = {}
  /\ {"idle", "lexing", "parsing", "rejected", "trapped"} \cap (Later \cup {"accepted"}) = {}
  /\ "compiling" \in Later /\ "rejected" \in Answered /\ "trapped" \in Answered
  BY DEF Phases, Parsing, Later, Answered

LEMMA TakeTextKeeps ==
  ASSUME IInv, NEW r \in Requests, TakeText(r.text)
  PROVE  IInv'
<1>1. /\ phase = "idle" /\ phase' = "lexing" /\ source' = r.text
      /\ pos' = pos /\ tokens' = tokens /\ parser' = parser /\ stmts' = stmts
  BY DEF TakeText
<1>2. pos = 0 /\ tokens = <<>> /\ parser = NoParser /\ stmts = <<>>
  BY <1>1 DEF IInv, ReadInv
<1>3. LexInv'
  BY <1>1, <1>2, TextTaken, RequestsAssumption
<1>4. ReadInv'
  BY <1>1, <1>2, PhasesApart DEF ReadInv
<1>5. QED
  BY <1>3, <1>4 DEF IInv

LEMMA LexTokenKeeps ==
  ASSUME IInv, LexToken
  PROVE  IInv'
<1> DEFINE found == LexNext(source, pos)
<1>1. /\ phase = "lexing" /\ source' = source /\ stmts' = stmts /\ pos' = found.pos
      /\ IF found.token = NoToken
         THEN phase' = "parsing" /\ parser' = Parser(Lexed, 1) /\ tokens' = tokens
         ELSE tokens' = Append(tokens, found.token) /\ phase' = phase /\ parser' = parser
  BY DEF LexToken
<1>2. LexInv /\ parser = NoParser /\ stmts = <<>>
  BY <1>1 DEF IInv, ReadInv
<1>3. ReadFrom(pos, found)
  BY <1>2, LexNextReads DEF LexInv, LexTyped
<1> HIDE DEF found
<1>4. /\ pos' \in 0..Len(source) /\ tokens' \in Seq(TokenSet) /\ Len(tokens') <= pos'
      /\ InSource(tokens')
      /\ Illegal(tokens') \/ Covered(tokens', pos')
  BY <1>1, <1>2, <1>3, TokenKeeps
<1>5. LexInv'
  <2>1. LexTyped'
    BY <1>1, <1>2, <1>4 DEF LexInv, LexTyped
  <2>2. InSource(tokens)'
    BY <1>1, <1>4 DEF InSource, Spelled
  <2>3. (Illegal(tokens) \/ Covered(tokens, pos))'
    BY <1>1, <1>4 DEF Illegal, Covered, Passed, Commented
  <2>4. QED
    BY <2>1, <2>2, <2>3 DEF LexInv
<1>6. CASE found.token = NoToken
  <2>1. phase' = "parsing" /\ parser' = Parser(Lexed, 1) /\ tokens' = tokens /\ stmts' = <<>>
    BY <1>1, <1>2, <1>6
  <2>2. Lexed' = Lexed
    BY <1>1, <2>1 DEF Lexed
  <2> DEFINE list == Lexed
             p == Parser(list, 1)
  <2>3. Len(list) \in Nat
    BY <1>2, LexedIs
  <2> HIDE DEF list
  <2>4. Parsed(list, p, <<>>)
    <3>1. 1 \in 1..(Len(list) + 1)
      BY <2>3
    <3>2. Going(list, p) /\ p.pos = 1
      BY <3>1, StartsGoing
    <3> HIDE DEF p
    <3>3. Prints(list, <<>>, 1, 1, 0) /\ 3 * (1 - 1) = 0
      BY PrintsNothing
    <3>4. QED
      BY <3>2, <3>3, NothingIs DEF Parsed
  <2>5. Parsed(Lexed', parser', stmts')
    BY <2>1, <2>2, <2>4 DEF list
  <2>6. ReadInv'
    BY <2>1, <2>5, PhasesApart DEF ReadInv
  <2>7. QED
    BY <1>5, <2>6 DEF IInv
<1>7. CASE found.token # NoToken
  <2>1. phase' = "lexing" /\ parser' = NoParser /\ stmts' = <<>>
    BY <1>1, <1>2, <1>7
  <2>2. ReadInv'
    BY <2>1, PhasesApart DEF ReadInv
  <2>3. QED
    BY <1>5, <2>2 DEF IInv
<1>8. QED
  BY <1>6, <1>7

(* A statement is added to those read. *)
LEMMA StatementKeeps ==
  ASSUME NEW list, WellLexed(list), NEW p, NEW done, Parsed(list, p, done), ~IsEof(p),
         NEW next, next = Statement(p), ~Fails(next)
  PROVE  Parsed(list, next, Append(done, next.val))
<1>1. Going(list, p) /\ Len(done) < p.pos /\ Prints(list, done, 1, p.pos, 3 * (p.pos - 1))
  BY DEF Parsed
<1>2. Read(list, p.pos, next)
  BY <1>1, StatementRead
<1>3. Going(list, next) /\ p.pos < next.pos /\ Prints(list, <<next.val>>, p.pos, next.pos, 3 * (next.pos - p.pos))
  BY <1>2 DEF Read
<1>4. p.pos \in Nat /\ next.pos \in Nat /\ 1 <= p.pos
  BY <1>1, <1>3, GoingIs
<1>5. IsSeq(done) /\ Len(done) \in Nat
  BY <1>1, LenIs DEF Prints
<1>6. Append(done, next.val) = done \o <<next.val>>
  BY <1>5, AppendIs
<1>7. /\ 3 * (p.pos - 1) \in Nat /\ 3 * (next.pos - p.pos) \in Nat
      /\ 3 * (p.pos - 1) + 3 * (next.pos - p.pos) = 3 * (next.pos - 1)
  BY <1>3, <1>4
<1>8. Prints(list, done \o <<next.val>>, 1, next.pos, 3 * (next.pos - 1))
  BY <1>1, <1>3, <1>4, <1>7, PrintsBoth
<1>9. Len(done \o <<next.val>>) = Len(done) + 1
  BY <1>5, OneIs, ConcatIs
<1>10. Len(done) + 1 < next.pos
  BY <1>1, <1>3, <1>4, <1>5
<1>11. QED
  BY <1>3, <1>6, <1>8, <1>9, <1>10 DEF Parsed

LEMMA ParseStatementKeeps ==
  ASSUME IInv, ParseStatement
  PROVE  IInv'
<1> DEFINE next == Statement(parser)
<1>1. phase = "parsing" /\ ~IsEof(parser) /\ source' = source /\ pos' = pos /\ tokens' = tokens
  BY DEF ParseStatement
<1>2. \/ ~Fails(next) /\ parser' = next /\ stmts' = Append(stmts, next.val) /\ phase' = phase
      \/ phase' \in {"rejected", "trapped"} /\ parser' = parser /\ stmts' = stmts
  BY DEF ParseStatement
<1>3. LexInv' /\ Lexed' = Lexed
  BY <1>1, LexInvStays DEF IInv
<1>4. Parsed(Lexed, parser, stmts) /\ WellLexed(Lexed)
  BY <1>1, LexedIs, PhasesApart DEF IInv, ReadInv
<1>5. CASE ~Fails(next) /\ parser' = next /\ stmts' = Append(stmts, next.val) /\ phase' = phase
  <2>1. Parsed(Lexed, next, Append(stmts, next.val))
    BY <1>1, <1>4, <1>5, StatementKeeps
  <2> HIDE DEF next
  <2>2. Parsed(Lexed', parser', stmts')
    BY <1>3, <1>5, <2>1
  <2>3. phase' = "parsing"
    BY <1>1, <1>5
  <2>4. ReadInv'
    BY <2>2, <2>3, PhasesApart DEF ReadInv
  <2>5. QED
    BY <1>3, <2>4 DEF IInv
<1>6. CASE phase' \in {"rejected", "trapped"} /\ parser' = parser /\ stmts' = stmts
  <2>1. Parsed(Lexed', parser', stmts')
    BY <1>3, <1>4, <1>6
  <2>2. ReadInv'
    BY <1>6, <2>1, PhasesApart DEF ReadInv
  <2>3. QED
    BY <1>3, <2>2 DEF IInv
<1>7. QED
  BY <1>2, <1>5, <1>6

LEMMA LaterKeeps ==
  ASSUME IInv, EndOfParse \/ LaterStage
  PROVE  IInv'
<1>1. /\ UNCHANGED <<source, pos, tokens, parser, stmts>>
      /\ phase \in Parsing /\ IsEof(parser) /\ phase' \in Later \cup Answered
  BY PhasesApart DEF EndOfParse, LaterStage, IInv, ReadInv
<1>2. LexInv' /\ Lexed' = Lexed
  BY <1>1, LexInvStays DEF IInv
<1>3. Parsed(Lexed', parser', stmts')
  BY <1>1, <1>2 DEF IInv, ReadInv
<1>4. IsEof(parser')
  BY <1>1
<1>5. ReadInv'
  <2>1. phase' \in Parsing /\ phase' \in Phases /\ phase' \notin {"idle", "lexing"}
    BY <1>1, PhasesApart
  <2>2. QED
    BY <1>3, <1>4, <2>1 DEF ReadInv
<1>6. QED
  BY <1>2, <1>5 DEF IInv

LEMMA ForgetKeeps ==
  ASSUME IInv, Forget
  PROVE  IInv'
<1>1. /\ phase' = "idle" /\ source' = <<>> /\ pos' = 0 /\ tokens' = <<>>
      /\ parser' = NoParser /\ stmts' = <<>>
  BY DEF Forget
<1>2. LexInv'
  BY <1>1, TextTaken
<1>3. ReadInv'
  BY <1>1, PhasesApart DEF ReadInv
<1>4. QED
  BY <1>2, <1>3 DEF IInv

LEMMA StepKeeps == IInv /\ [ReaderNext]_readerVars => IInv'
<1>1. SUFFICES ASSUME IInv, [ReaderNext]_readerVars PROVE IInv'
  OBVIOUS
<1>2. CASE \E r \in Requests : TakeText(r.text)
  BY <1>1, <1>2, TakeTextKeeps
<1>3. CASE LexToken
  BY <1>1, <1>3, LexTokenKeeps
<1>4. CASE ParseStatement
  BY <1>1, <1>4, ParseStatementKeeps
<1>5. CASE EndOfParse \/ LaterStage
  BY <1>1, <1>5, LaterKeeps
<1>6. CASE Forget
  BY <1>1, <1>6, ForgetKeeps
<1>7. CASE UNCHANGED readerVars
  <2>1. phase' = phase /\ UNCHANGED <<source, pos, tokens>> /\ parser' = parser /\ stmts' = stmts
    BY <1>7 DEF readerVars
  <2>2. LexInv' /\ Lexed' = Lexed
    BY <1>1, <2>1, LexInvStays DEF IInv
  <2>3. ReadInv'
    BY <1>1, <2>1, <2>2 DEF IInv, ReadInv
  <2>4. QED
    BY <2>2, <2>3 DEF IInv
<1>8. QED
  BY <1>1, <1>2, <1>3, <1>4, <1>5, <1>6, <1>7 DEF ReaderNext

LEMMA InvariantHolds == ReaderSpec => []IInv
  BY InitHolds, StepKeeps, PTL DEF ReaderSpec

-----------------------------------------------------------------------------
(* The theorems. *)

(* Every call of Lexer.next and of Parser.stmt takes something of the      *)
(* query and stays within it: no more tokens than characters read, fewer   *)
(* statements than the parser has moved on, and neither the lexer nor the  *)
(* parser past the end, however the loops of Parser's constructor and of   *)
(* query() go.                                                             *)
THEOREM SpecReadingAdvances == ReaderSpec => []ReadingAdvances
<1>1. ASSUME IInv PROVE ReadingAdvances
  <2>1. phase \in Phases /\ pos \in 0..Len(source) /\ Len(tokens) <= pos
    BY <1>1 DEF IInv, LexInv, LexTyped, ReadInv
  <2>2. Len(stmts) < parser.pos /\ parser.pos <= Len(parser.tokens) + 1
    <3>1. CASE phase \in {"idle", "lexing"}
      <4>1. parser = NoParser /\ stmts = <<>>
        BY <1>1, <3>1 DEF IInv, ReadInv
      <4>2. parser.pos = 1 /\ parser.tokens = <<>>
        BY <4>1 DEF NoParser, Parser
      <4>3. QED
        BY <4>1, <4>2, NothingIs
    <3>2. CASE phase \in Parsing
      <4>1. Parsed(Lexed, parser, stmts)
        BY <1>1, <3>2 DEF IInv, ReadInv
      <4>2. Going(Lexed, parser) /\ Len(stmts) < parser.pos
        BY <4>1 DEF Parsed
      <4>3. parser.tokens = Lexed /\ parser.pos \in 1..(Len(Lexed) + 1)
        BY <4>2, GoingIs
      <4>4. QED
        BY <4>2, <4>3
    <3>3. QED
      BY <2>1, <3>1, <3>2, PhasesApart
  <2>3. QED
    BY <2>1, <2>2 DEF ReadingAdvances
<1>2. QED
  BY InvariantHolds, <1>1, PTL

(* The lexer reads every character of a query once, whatever the query:    *)
(* its tokens follow each other, and between them there are only blanks,   *)
(* comments and quotes, unless one of them is illegal; and locate_token    *)
(* finds the line and the column a token starts at.                        *)
THEOREM SpecLexerLosesNothing == ReaderSpec => []LexerLosesNothing
<1>1. ASSUME IInv PROVE LexerLosesNothing
  <2>1. LexInv
    BY <1>1 DEF IInv
  <2>2. \/ \E i \in DOMAIN tokens : tokens[i].type = "illegal"
        \/ /\ \A i \in DOMAIN tokens, j \in DOMAIN tokens : i < j => tokens[i].to <= tokens[j].from
           /\ \A p \in 1..pos : \/ \E i \in DOMAIN tokens : tokens[i].from < p /\ p <= tokens[i].to
                                \/ source[p] \in Blanks \cup Quotes
                                \/ Commented(p)
    BY <2>1 DEF LexInv, Illegal, Covered, Passed
  <2>3. ASSUME NEW i \in DOMAIN tokens
        PROVE  Places(LocateToken(source, tokens[i])) = {tokens[i].from}
    <3>1. tokens[i] \in TokenSet /\ tokens[i].from <= Len(source) /\ source \in Seq(STRING)
      BY <2>1, <2>3, SeqIs DEF LexInv, LexTyped, InSource
    <3>2. tokens[i].from \in 0..Len(source)
      <4>1. tokens[i].from \in Nat
        BY <3>1 DEF TokenSet
      <4>2. QED
        BY <3>1, <4>1, SourceTyped
    <3>3. QED
      BY <3>1, <3>2, LocationsLeadBack
  <2>4. QED
    BY <2>2, <2>3 DEF LexerLosesNothing
<1>2. QED
  BY InvariantHolds, <1>1, PTL

(* The parser puts every token of a query that parses into its syntax      *)
(* tree, at its place and once, whatever the query and however deep its    *)
(* expressions: printing the statements gives the words of the query.      *)
THEOREM SpecParserLosesNothing == ReaderSpec => []ParserLosesNothing
<1>1. ASSUME IInv PROVE ParserLosesNothing
  <2>1. SUFFICES ASSUME phase \in Later \cup {"accepted"}
                 PROVE  Printing(Page(stmts, <<>>))[3 * Len(tokens)] = Page(<<>>, WordsOf(Lexed)[Len(tokens)])
    BY DEF ParserLosesNothing
  <2> DEFINE list == Lexed
             n == Len(tokens)
             page == Page(stmts, <<>>)
             end == Page(<<>>, WordsOf(list)[n])
  <2>2. Parsed(list, parser, stmts) /\ IsEof(parser)
    <3>1. phase \in Parsing
      BY <2>1, PhasesApart DEF Answered
    <3>2. QED
      BY <1>1, <2>1, <3>1 DEF IInv, ReadInv
  <2>3. Len(list) = n /\ n \in Nat
    BY <1>1, LexedIs DEF IInv
  <2> HIDE DEF list, n
  <2>4. Going(list, parser) /\ Prints(list, stmts, 1, parser.pos, 3 * (parser.pos - 1))
    BY <2>2 DEF Parsed
  <2>5. parser.pos = n + 1
    <3>1. parser.pos \in 1..(n + 1) /\ parser.pos \notin 1..n
      BY <2>2, <2>3, <2>4, GoingIs
    <3>2. QED
      BY <2>3, <3>1
  <2>6. Prints(list, stmts, 1, n + 1, 3 * n)
    <3>1. 3 * ((n + 1) - 1) = 3 * n
      BY <2>3
    <3>2. QED
      BY <2>4, <2>5, <3>1
  <2>7. IsSeq(stmts) /\ stmts \o <<>> = stmts
    BY <2>6, ConcatNothing DEF Prints
  <2>8. PICK m \in 0..(3 * n) : Printing(page)[m] = end
    <3>1. PICK m \in 0..(3 * n) :
            Printing(Page(stmts \o <<>>, WordsOf(list)[1 - 1]))[m] = Page(<<>>, WordsOf(list)[(n + 1) - 1])
      BY <2>6, NothingIs DEF Prints
    <3>2. 1 - 1 = 0 /\ (n + 1) - 1 = n /\ WordsOf(list)[0] = <<>>
      BY <2>3, WordsOfIs
    <3>3. QED
      BY <2>7, <3>1, <3>2
  <2>9. end.work = <<>>
    BY DEF Page
  <2> HIDE DEF page, end
  <2>10. m \in Nat /\ 3 * n - m \in Nat /\ m + (3 * n - m) = 3 * n
    BY <2>3
  <2>11. Printing(page)[m + (3 * n - m)] = Printing(end)[3 * n - m]
    BY <2>8, <2>10, PrintingGoesOn
  <2>12. Printing(page)[3 * n] = end
    BY <2>9, <2>10, <2>11, PrintingEnds
  <2>13. QED
    BY <2>12 DEF page, end, list, n
<1>2. QED
  BY InvariantHolds, <1>1, PTL
=============================================================================
