------------------------- MODULE WriterApp_proofs ---------------------------
(* What is proved of WriterApp for any letters, formats, files, page setups *)
(* and numbers of operations.                                               *)
EXTENDS WriterApp, FiniteSetTheorems, SequenceTheorems, WellFoundedInduction, TLAPS

(* What a document holds.                                                   *)
Texts   == Seq([c : Glyphs, f : CharFormats])
Places1 == {m \in SUBSET Nat : IsFiniteSet(m)}
Paras   == [id : Nat, rev : Nat, text : Texts, format : ParaFormats, images : Places1]
Lines   == Seq(Glyphs \cup {Line})
Runs    == [at : Int, f : CharFormats]
Kinds   == {"insert", "remove", "format", "paraformat"}
StepRecords ==
    [kind : Kinds, at : Nat, len : Nat, text : Lines, runs : SUBSET Runs, images : Places1,
     format : ParaFormats, join : BOOLEAN, was : Lines]
Steps   == {s \in StepRecords : s.kind = "paraformat" => s.at # 0}
StyleList == Seq([name : StyleNames, f : CharFormats, format : ParaFormats])
Documents ==
    [paras : Seq(Paras), next : Nat, undo : Seq(Steps), redo : Seq(Steps), modified : BOOLEAN,
     styles : StyleList, header : {"none", "title"}, quiet : BOOLEAN, stray : BOOLEAN]

Whole(d) ==
    /\ d \in Documents /\ d.paras # <<>>
    /\ \A p \in DOMAIN d.paras : d.paras[p].id < d.next
    /\ \A p, q \in DOMAIN d.paras : d.paras[p].id = d.paras[q].id => p = q
(* A paragraph is the one it was, or has another revision, or is new.       *)
Evolves(d, e) ==
    /\ d.next <= e.next
    /\ \A q \in DOMAIN e.paras :
         \/ d.next <= e.paras[q].id
         \/ \E p \in DOMAIN d.paras :
              /\ d.paras[p].id = e.paras[q].id
              /\ d.paras[p] = e.paras[q] \/ d.paras[p].rev < e.paras[q].rev

(* A step of the history between two texts, and stacks of them: each step  *)
(* notes the text on the other side of it.                                 *)
Splice(t, o, n, g) == SubSeq(t, 1, o) \o g \o SubSeq(t, o + n + 1, Len(t))
Turns(s, before, after) ==
    /\ s.kind = "insert" =>
         s.at <= Len(before) /\ s.len = Len(s.text) /\ after = Splice(before, s.at, 0, s.text)
    /\ s.kind = "remove" =>
         /\ s.at + s.len <= Len(before) /\ s.text = SubSeq(before, s.at + 1, s.at + s.len)
         /\ after = Splice(before, s.at, s.len, <<>>)
    /\ s.kind \in {"format", "paraformat"} => after = before
Above(stack, k, t) == IF k = Len(stack) THEN t ELSE stack[k + 1].was
UndoesTo(stack, t) == \A k \in DOMAIN stack : Turns(stack[k], stack[k].was, Above(stack, k, t))
RedoesTo(stack, t) == \A k \in DOMAIN stack : Turns(stack[k], Above(stack, k, t), stack[k].was)
Exact(d) == ~d.stray /\ ~d.quiet => UndoesTo(d.undo, Text(d)) /\ RedoesTo(d.redo, Text(d))

(* What an operation does before it notes a step, and with it.             *)
Changes(d, e) ==
    /\ Whole(e) /\ Evolves(d, e)
    /\ e.undo = d.undo /\ e.redo = d.redo /\ e.modified = d.modified
    /\ e.quiet = d.quiet /\ e.stray = d.stray
Edits(d, e) ==
    /\ Whole(e) /\ Evolves(d, e) /\ e.quiet = d.quiet /\ (d.stray => e.stray)
    /\ e = d \/ e.modified
    /\ Exact(d) => Exact(e)
-----------------------------------------------------------------------------
(* The least of a set of numbers, and walks.                               *)

LEMMA LeastIs ==
  ASSUME NEW S \in SUBSET Nat, S # {}
  PROVE  \E n \in S : \A m \in S : n <= m
<1>1. OpToRel(<, Nat) = {p \in Nat \X Nat : p[1] < p[2]}
  BY Zenon DEF OpToRel
<1>2. PICK n \in S : \A m \in S : ~(<<m, n>> \in OpToRel(<, Nat))
  BY NatLessThanWellFounded, WFMin, Zenon
<1>3. ASSUME NEW m \in S, m < n PROVE FALSE
  <2>1. <<m, n>> \in {p \in Nat \X Nat : p[1] < p[2]}
    BY <1>3
  <2> QED
    BY <1>1, <1>2, <2>1
<1> QED
  BY <1>3

LEMMA MinIs ==
  ASSUME NEW S \in SUBSET Nat, S # {}
  PROVE  Min(S) \in S /\ \A s \in S : Min(S) <= s
<1>1. \E n \in S : \A m \in S : n <= m
  BY LeastIs
<1> QED
  BY <1>1 DEF Min

\* The greatest of a set of numbers that has a bound.
LEMMA MaxIs ==
  ASSUME NEW S \in SUBSET Int, S # {}, NEW n \in Int, \A s \in S : s <= n
  PROVE  Max(S) \in S /\ \A s \in S : s <= Max(S)
<1> DEFINE Below == {n - s : s \in S}
<1>1. Below \in SUBSET Nat /\ Below # {}
  <2>1. \A s \in S : n - s \in Nat
    BY \A s \in S : s <= n /\ s \in Int
  <2> QED
    BY <2>1
<1>2. PICK m \in Below : \A k \in Below : m <= k
  BY <1>1, LeastIs
<1>3. PICK s \in S : m = n - s
  BY <1>2
<1>4. \A t \in S : t <= s
  <2> SUFFICES ASSUME NEW t \in S PROVE t <= s
    OBVIOUS
  <2>1. n - t \in Below
    OBVIOUS
  <2>2. n - s <= n - t /\ s \in Int /\ t \in Int
    BY <1>2, <1>3, <2>1
  <2> QED
    BY <2>2
<1> QED
  BY <1>4 DEF Max

\* What holds at first and of each next step holds of all of them.
LEMMA WalkStays ==
  ASSUME NEW n \in Nat, NEW w, NEW D, w[0] \in D[0],
         \A k \in 1 .. n : w[k - 1] \in D[k - 1] => w[k] \in D[k]
  PROVE  \A k \in 0 .. n : w[k] \in D[k]
<1> DEFINE Bad == {m \in 0 .. n : w[m] \notin D[m]}
<1> SUFFICES ASSUME Bad # {} PROVE FALSE
  OBVIOUS
<1>1. PICK m \in Bad : \A k \in Bad : m <= k
  <2>1. Bad \in SUBSET Nat
    OBVIOUS
  <2> QED
    BY <2>1, LeastIs
<1>2. m \in 1 .. n /\ m - 1 \in 0 .. n /\ ~(m <= m - 1) /\ w[m] \notin D[m]
  <2>1. m \in 0 .. n /\ m # 0
    BY <1>1
  <2> HIDE DEF Bad
  <2>2. m \in 1 .. n /\ m - 1 \in 0 .. n /\ ~(m <= m - 1)
    BY <2>1
  <2> QED
    BY <1>1, <2>2 DEF Bad
<1>3. m - 1 \notin Bad
  BY <1>1, <1>2
<1> QED
  BY <1>2, <1>3

Walks(f, n, d, g) == f = [k \in 0 .. n |-> IF k = 0 THEN d ELSE g[k][f[k - 1]]]

\* A walk of n steps from d exists when each step finds where to go.
LEMMA WalkIs ==
  ASSUME NEW n \in Nat, NEW X, NEW D \in [0 .. n -> SUBSET X], NEW d \in D[0],
         NEW g, \A k \in 1 .. n : \A e \in D[k - 1] : g[k][e] \in D[k]
  PROVE  \E f : Walks(f, n, d, g) /\ \A k \in 0 .. n : f[k] \in D[k]
<1> DEFINE Walk(f, m) ==
             /\ f \in [0 .. m -> X] /\ f[0] = d
             /\ \A k \in 1 .. m : f[k - 1] \in D[k - 1] /\ f[k] = g[k][f[k - 1]]
             /\ f[m] \in D[m]
           Bad == {m \in 0 .. n : ~\E f : Walk(f, m)}
<1>1. Bad = {}
  <2> SUFFICES ASSUME Bad # {} PROVE FALSE
    OBVIOUS
  <2>1. PICK m \in Bad : \A k \in Bad : m <= k
    <3>1. Bad \in SUBSET Nat
      OBVIOUS
    <3> QED
      BY <3>1, LeastIs
  <2>2. CASE m = 0
    <3> DEFINE f == [k \in 0 .. 0 |-> d]
    <3>1. f \in [0 .. 0 -> X] /\ f[0] = d
      OBVIOUS
    <3> HIDE DEF f
    <3>2. Walk(f, 0)
      BY <3>1
    <3> QED
      BY <2>1, <2>2, <3>2
  <2>3. CASE m # 0
    <3>1. m \in 1 .. n /\ m - 1 \in 0 .. n /\ m - 1 \notin Bad
      <4>1. m \in 0 .. n
        BY <2>1
      <4> HIDE DEF Bad
      <4>2. m \in 1 .. n /\ m - 1 \in 0 .. n
        BY <2>3, <4>1
      <4>3. ~(m <= m - 1)
        BY <4>1
      <4> QED
        BY <2>1, <4>2, <4>3
    <3>2. PICK f : Walk(f, m - 1)
      BY <3>1
    <3>3. g[m][f[m - 1]] \in D[m] /\ D[m] \subseteq X
      BY <3>1, <3>2
    <3> DEFINE more == [k \in 0 .. m |-> IF k = m THEN g[m][f[m - 1]] ELSE f[k]]
    <3>4. /\ more \in [0 .. m -> X] /\ more[m] = g[m][f[m - 1]] /\ \A k \in 0 .. m - 1 : more[k] = f[k]
      BY <3>1, <3>2, <3>3
    <3> HIDE DEF more
    <3>5. \A k \in 1 .. m : more[k - 1] \in D[k - 1] /\ more[k] = g[k][more[k - 1]]
      <4> SUFFICES ASSUME NEW k \in 1 .. m
                   PROVE  more[k - 1] \in D[k - 1] /\ more[k] = g[k][more[k - 1]]
        OBVIOUS
      <4>1. CASE k = m
        <5>1. m - 1 \in 0 .. m - 1
          BY <3>1
        <5> QED
          BY <3>1, <3>2, <3>4, <4>1, <5>1
      <4>2. CASE k # m
        <5>1. k \in 1 .. m - 1 /\ k - 1 \in 0 .. m - 1 /\ k \in 0 .. m - 1
          BY <3>1, <4>2
        <5> QED
          BY <3>2, <3>4, <5>1
      <4> QED
        BY <4>1, <4>2
    <3>6. more[0] = d
      BY <3>1, <3>2, <3>4
    <3>7. Walk(more, m)
      BY <3>3, <3>4, <3>5, <3>6
    <3> QED
      BY <2>1, <3>7
  <2> QED
    BY <2>2, <2>3
<1>2. PICK f : Walk(f, n)
  BY SMTT(60), <1>1
<1>3. \A k \in 0 .. n : f[k] \in D[k]
  <2> SUFFICES ASSUME NEW k \in 0 .. n PROVE f[k] \in D[k]
    OBVIOUS
  <2>1. CASE k = n
    BY <1>2, <2>1
  <2>2. CASE k # n
    <3>1. k + 1 \in 1 .. n /\ (k + 1) - 1 = k
      BY <2>2
    <3> QED
      BY <1>2, <3>1
  <2> QED
    BY <2>1, <2>2
<1>4. f = [k \in 0 .. n |-> IF k = 0 THEN d ELSE g[k][f[k - 1]]]
  <2>1. f = [k \in 0 .. n |-> f[k]]
    BY <1>2
  <2>2. \A k \in 0 .. n : f[k] = IF k = 0 THEN d ELSE g[k][f[k - 1]]
    <3> SUFFICES ASSUME NEW k \in 0 .. n, k # 0 PROVE f[k] = g[k][f[k - 1]]
      BY <1>2
    <3>1. k \in 1 .. n
      OBVIOUS
    <3> QED
      BY <1>2, <3>1
  <2> QED
    BY <2>1, <2>2
<1> QED
  BY <1>3, <1>4 DEF Walks
\* Likewise when the steps stay in one set.
LEMMA WalkInside ==
  ASSUME NEW n \in Nat, NEW D, NEW d \in D, NEW g, \A k \in 1 .. n : \A e \in D : g[k][e] \in D
  PROVE  \E f : Walks(f, n, d, g) /\ \A k \in 0 .. n : f[k] \in D
<1> DEFINE S == [k \in 0 .. n |-> D]
<1>1. S \in [0 .. n -> SUBSET D] /\ \A k \in 0 .. n : S[k] = D
  OBVIOUS
<1>2. 0 \in 0 .. n /\ \A k \in 1 .. n : k \in 0 .. n /\ k - 1 \in 0 .. n
  OBVIOUS
<1> HIDE DEF S
<1>3. d \in S[0] /\ \A k \in 1 .. n : \A e \in S[k - 1] : g[k][e] \in S[k]
  BY <1>1, <1>2
<1>4. \E f : Walks(f, n, d, g) /\ \A k \in 0 .. n : f[k] \in S[k]
  BY <1>1, <1>3, WalkIs
<1> QED
  BY <1>1, <1>4

LEMMA WalkStaysInside ==
  ASSUME NEW n \in Nat, NEW w, NEW D, w[0] \in D, \A k \in 1 .. n : w[k - 1] \in D => w[k] \in D
  PROVE  \A k \in 0 .. n : w[k] \in D
<1> DEFINE S == [k \in 0 .. n |-> D]
<1>1. \A k \in 0 .. n : S[k] = D
  OBVIOUS
<1>2. 0 \in 0 .. n /\ \A k \in 1 .. n : k \in 0 .. n /\ k - 1 \in 0 .. n
  OBVIOUS
<1> HIDE DEF S
<1>3. w[0] \in S[0] /\ \A k \in 1 .. n : w[k - 1] \in S[k - 1] => w[k] \in S[k]
  BY <1>1, <1>2
<1>4. \A k \in 0 .. n : w[k] \in S[k]
  BY <1>3, WalkStays
<1> QED
  BY <1>1, <1>4
-----------------------------------------------------------------------------
(* Where paragraphs begin, and where an offset is.                         *)

Size(d, p) == Len(d.paras[p].text)

LEMMA ParasAre ==
  ASSUME NEW d, d.paras \in Seq(Paras)
  PROVE  /\ Len(d.paras) \in Nat /\ DOMAIN d.paras = 1 .. Len(d.paras)
         /\ \A p \in 1 .. Len(d.paras) :
              /\ d.paras[p] \in Paras /\ d.paras[p].text \in Texts
              /\ Size(d, p) \in Nat /\ DOMAIN d.paras[p].text = 1 .. Size(d, p)
<1>1. Len(d.paras) \in Nat /\ DOMAIN d.paras = 1 .. Len(d.paras)
  OBVIOUS
<1>2. ASSUME NEW p \in 1 .. Len(d.paras)
      PROVE  /\ d.paras[p] \in Paras /\ d.paras[p].text \in Texts
             /\ Size(d, p) \in Nat /\ DOMAIN d.paras[p].text = 1 .. Size(d, p)
  <2>1. d.paras[p] \in Paras
    BY ElementOfSeq
  <2>2. d.paras[p].text \in Texts
    BY <2>1 DEF Paras
  <2> QED
    BY <2>1, <2>2 DEF Texts, Size
<1> QED
  BY <1>1, <1>2

LEMMA StartsAre ==
  ASSUME NEW d, d.paras \in Seq(Paras)
  PROVE  /\ ParaStart(d, 1) = 0
         /\ \A p \in 1 .. Len(d.paras) + 1 : ParaStart(d, p) \in Nat
         /\ \A p \in 1 .. Len(d.paras) :
              /\ ParaStart(d, p + 1) = ParaStart(d, p) + Size(d, p) + 1
              /\ ParaEnd(d, p) = ParaStart(d, p) + Size(d, p) /\ ParaEnd(d, p) \in Nat
<1> DEFINE n == Len(d.paras)
           Adds(f) == f = [k \in 0 .. n |-> IF k = 0 THEN 0 ELSE f[k - 1] + Len(d.paras[k].text) + 1]
           s == CHOOSE f : Adds(f)
           g == [k \in 1 .. n |-> [e \in Nat |-> e + Size(d, k) + 1]]
<1>1. n \in Nat /\ \A k \in 1 .. n : Size(d, k) \in Nat
  BY ParasAre
<1>2. \E f : Adds(f) /\ \A k \in 0 .. n : f[k] \in Nat
  <2>1. \A k \in 1 .. n : \A e \in Nat : g[k][e] \in Nat /\ g[k][e] = e + Size(d, k) + 1
    <3> SUFFICES ASSUME NEW k \in 1 .. n, NEW e \in Nat
                 PROVE  g[k][e] \in Nat /\ g[k][e] = e + Size(d, k) + 1
      OBVIOUS
    <3>1. g[k][e] = e + Size(d, k) + 1
      OBVIOUS
    <3> HIDE DEF g
    <3> QED
      BY <1>1, <3>1
  <2> HIDE DEF g, n
  <2>2. PICK f : Walks(f, n, 0, g) /\ \A k \in 0 .. n : f[k] \in Nat
    <3> DEFINE z == 0
    <3>1. z \in Nat
      OBVIOUS
    <3> HIDE DEF z
    <3>2. \E f : Walks(f, n, z, g) /\ \A k \in 0 .. n : f[k] \in Nat
      BY <1>1, <2>1, <3>1, WalkInside
    <3> QED
      BY <3>2 DEF z
  <2>6. \A k \in 0 .. n : k # 0 => g[k][f[k - 1]] = f[k - 1] + Size(d, k) + 1
    <3> SUFFICES ASSUME NEW k \in 0 .. n, k # 0
                 PROVE  g[k][f[k - 1]] = f[k - 1] + Size(d, k) + 1
      OBVIOUS
    <3>1. k \in 1 .. n /\ k - 1 \in 0 .. n
      BY <1>1
    <3> QED
      BY <2>1, <2>2, <3>1
  <2>7. Adds(f)
    BY <2>2, <2>6 DEF Size, Walks
  <2> QED
    BY <2>2, <2>7
<1>3. Adds(s)
  BY <1>2
<1>4. \A p : ParaStart(d, p) = s[p - 1]
  BY Zenon DEF ParaStart
<1> HIDE DEF s
<1>5. s[0] = 0 /\ \A k \in 1 .. n : s[k] = s[k - 1] + Size(d, k) + 1
  <2> HIDE DEF n
  <2>1. 0 \in 0 .. n /\ \A k \in 1 .. n : k \in 0 .. n /\ k # 0
    BY <1>1
  <2> QED
    BY <1>3, <2>1, Zenon DEF Size
<1>6. \A k \in 0 .. n : s[k] \in Nat
  <2> HIDE DEF n
  <2>1. s[0] \in Nat /\ \A k \in 1 .. n : s[k - 1] \in Nat => s[k] \in Nat
    BY <1>1, <1>5
  <2> QED
    BY <1>1, <2>1, WalkStaysInside
<1>7. ParaStart(d, 1) = 0
  BY <1>4, <1>5
<1>8. \A p \in 1 .. n + 1 : ParaStart(d, p) \in Nat
  BY <1>1, <1>4, <1>6
<1>9. ASSUME NEW p \in 1 .. n
      PROVE  /\ ParaStart(d, p + 1) = ParaStart(d, p) + Size(d, p) + 1
             /\ ParaEnd(d, p) = ParaStart(d, p) + Size(d, p) /\ ParaEnd(d, p) \in Nat
  <2>1. (p + 1) - 1 = p /\ p \in 1 .. n + 1
    BY <1>1
  <2>2. ParaStart(d, p + 1) = s[p]
    BY <1>4, <2>1
  <2>3. ParaEnd(d, p) = ParaStart(d, p) + Size(d, p)
    BY DEF ParaEnd, Size
  <2> QED
    BY SMTT(60), <1>1, <1>4, <1>5, <1>8, <2>1, <2>2, <2>3
<1> QED
  BY <1>7, <1>8, <1>9

\* Later paragraphs begin behind the end of earlier ones.
LEMMA StartsGrow ==
  ASSUME NEW d, d.paras \in Seq(Paras), NEW p \in 1 .. Len(d.paras), NEW q \in 1 .. Len(d.paras) + 1,
         p < q
  PROVE  ParaEnd(d, p) + 1 <= ParaStart(d, q)
<1> DEFINE n == Len(d.paras)
           Bad == {k \in p + 1 .. n + 1 : ~(ParaEnd(d, p) + 1 <= ParaStart(d, k))}
<1>1. n \in Nat /\ \A k \in 1 .. n : Size(d, k) \in Nat
  BY ParasAre
<1>2. \A k \in 1 .. n + 1 : ParaStart(d, k) \in Nat
  BY StartsAre
<1>3. \A k \in 1 .. n : /\ ParaStart(d, k + 1) = ParaEnd(d, k) + 1 /\ ParaEnd(d, k) \in Nat
                        /\ ParaEnd(d, k) = ParaStart(d, k) + Size(d, k)
  BY StartsAre
<1>4. p \in 1 .. n /\ q \in p + 1 .. n + 1 /\ ParaEnd(d, p) \in Nat
  BY <1>1, <1>3
<1> HIDE DEF n
<1>5. Bad = {}
  <2> SUFFICES ASSUME Bad # {} PROVE FALSE
    OBVIOUS
  <2>1. Bad \in SUBSET Nat
    BY <1>1, <1>4
  <2>2. PICK k \in Bad : \A j \in Bad : k <= j
    BY <2>1, LeastIs
  <2>3. k \in p + 1 .. n + 1 /\ ~(ParaEnd(d, p) + 1 <= ParaStart(d, k))
    BY <2>2
  <2>4. k # p + 1
    BY <1>3, <1>4, <2>3
  <2>5. /\ k - 1 \in p + 1 .. n + 1 /\ k - 1 \in 1 .. n /\ (k - 1) + 1 = k /\ k - 1 \in 1 .. n + 1
        /\ k \in 1 .. n + 1
    BY <1>1, <1>4, <2>3, <2>4
  <2>6. ParaEnd(d, p) + 1 <= ParaStart(d, k - 1)
    <3>1. ~(k <= k - 1)
      BY <2>5
    <3>2. k - 1 \notin Bad
      BY <2>2, <3>1
    <3> QED
      BY <2>5, <3>2
  <2>7. /\ ParaStart(d, k) = ParaEnd(d, k - 1) + 1
        /\ ParaEnd(d, k - 1) = ParaStart(d, k - 1) + Size(d, k - 1)
    BY <1>3, <2>5
  <2>8. /\ ParaStart(d, k) \in Nat /\ ParaStart(d, k - 1) \in Nat /\ Size(d, k - 1) \in Nat
        /\ ParaEnd(d, k - 1) \in Nat
    BY <1>1, <1>2, <1>3, <2>5
  <2> QED
    BY SMTT(60), <1>4, <2>3, <2>6, <2>7, <2>8
<1> QED
  BY <1>4, <1>5

LEMMA LengthIs ==
  ASSUME NEW d, d.paras \in Seq(Paras), d.paras # <<>>
  PROVE  /\ Length(d) \in Nat /\ Length(d) = ParaEnd(d, Len(d.paras))
         /\ \A p \in 1 .. Len(d.paras) : ParaStart(d, p) <= ParaEnd(d, p) /\ ParaEnd(d, p) <= Length(d)
<1> DEFINE n == Len(d.paras)
<1>1. n \in Nat /\ n \in 1 .. n
  OBVIOUS
<1>2. /\ \A p \in 1 .. n : /\ ParaStart(d, p) \in Nat /\ Size(d, p) \in Nat
                           /\ ParaEnd(d, p) = ParaStart(d, p) + Size(d, p) /\ ParaEnd(d, p) \in Nat
      /\ ParaStart(d, n + 1) = ParaEnd(d, n) + 1
  <2>1. \A p \in 1 .. n : p \in 1 .. n + 1
    BY <1>1
  <2> QED
    BY <1>1, <2>1, ParasAre, StartsAre
<1>3. Length(d) = ParaEnd(d, n) /\ Length(d) \in Nat
  BY SMTT(60), <1>1, <1>2 DEF Length
<1>4. ASSUME NEW p \in 1 .. n PROVE ParaStart(d, p) <= ParaEnd(d, p) /\ ParaEnd(d, p) <= Length(d)
  <2>1. ParaEnd(d, p) <= ParaEnd(d, n)
    <3>1. CASE p = n
      BY <1>2, <3>1
    <3>2. CASE p # n
      <4>1. ParaEnd(d, p) + 1 <= ParaStart(d, n)
        <5>1. p < n /\ n \in 1 .. n + 1
          BY <1>1, <3>2
        <5> QED
          BY <5>1, StartsGrow
      <4>2. /\ ParaEnd(d, n) = ParaStart(d, n) + Size(d, n) /\ Size(d, n) \in Nat
            /\ ParaStart(d, n) \in Nat /\ ParaEnd(d, p) \in Nat
        BY <1>1, <1>2
      <4> QED
        BY <4>1, <4>2
    <3> QED
      BY <3>1, <3>2
  <2> QED
    BY <1>2, <1>3, <2>1
<1> QED
  BY <1>3, <1>4

\* Locate() gives a place that is there; inside of the text, the one at the
\* offset.
IsPlace(d, i) == i.para \in 1 .. Len(d.paras) /\ i.at \in 0 .. Size(d, i.para)

LEMMA LocateIs ==
  ASSUME NEW d, d.paras \in Seq(Paras), d.paras # <<>>, NEW o \in Nat
  PROVE  LET i == Locate(d, o)
         IN  /\ IsPlace(d, i) /\ i = [para |-> i.para, at |-> i.at]
             /\ o <= Length(d) => o = ParaStart(d, i.para) + i.at
             /\ o > Length(d) => i.para = Len(d.paras) /\ i.at = Size(d, i.para)
<1> DEFINE n == Len(d.paras)
           holds == {p \in 1 .. n : o <= ParaEnd(d, p)}
<1>1. n \in Nat /\ DOMAIN d.paras = 1 .. n /\ n \in 1 .. n /\ \A p \in 1 .. n : p \in 1 .. n + 1
  OBVIOUS
<1>2. \A p \in 1 .. n : /\ ParaStart(d, p) \in Nat /\ Size(d, p) \in Nat
                        /\ ParaEnd(d, p) = ParaStart(d, p) + Size(d, p) /\ ParaEnd(d, p) \in Nat
                        /\ ParaEnd(d, p) <= Length(d)
  BY <1>1, ParasAre, StartsAre, LengthIs
<1>3. Length(d) = ParaEnd(d, n) /\ Length(d) \in Nat
  BY LengthIs
<1>4. Locate(d, o) = IF holds = {} THEN [para |-> n, at |-> Size(d, n)]
                     ELSE [para |-> Min(holds), at |-> o - ParaStart(d, Min(holds))]
  BY <1>1 DEF Locate, ParaEnd, Size
<1> HIDE DEF n
<1>5. CASE holds = {}
  <2>1. ~(o <= ParaEnd(d, n)) /\ ParaEnd(d, n) \in Nat
    BY <1>1, <1>2, <1>5
  <2>2. o > Length(d) /\ ~(o <= Length(d))
    BY <1>3, <2>1
  <2>3. Size(d, n) \in 0 .. Size(d, n)
    BY <1>1, <1>2
  <2> QED
    BY <1>1, <1>4, <1>5, <2>2, <2>3 DEF IsPlace, n
<1>6. CASE holds # {}
  <2> DEFINE m == Min(holds)
  <2>1. holds \in SUBSET Nat
    BY <1>1
  <2>2. m \in holds /\ \A k \in holds : m <= k
    BY <1>6, <2>1, MinIs
  <2>3. Locate(d, o) = [para |-> m, at |-> o - ParaStart(d, m)]
    BY <1>4, <1>6
  <2> HIDE DEF m
  <2>4. m \in 1 .. n /\ o <= ParaEnd(d, m)
    BY <2>2
  <2>5. o >= ParaStart(d, m)
    <3>1. CASE m = 1
      <4>1. ParaStart(d, m) = 0
        BY <3>1, StartsAre
      <4> QED
        BY <4>1
    <3>2. CASE m # 1
      <4>1. m - 1 \in 1 .. n /\ (m - 1) + 1 = m
        BY <1>1, <2>4, <3>2
      <4>2. m - 1 \notin holds
        <5>1. ~(m <= m - 1)
          BY <2>4
        <5> QED
          BY <2>2, <5>1
      <4>3. ~(o <= ParaEnd(d, m - 1))
        BY <4>1, <4>2
      <4>4. ParaStart(d, m) = ParaEnd(d, m - 1) + 1
        BY <4>1, <1>1, <1>2, StartsAre DEF n
      <4>5. ParaEnd(d, m - 1) \in Nat
        BY <1>2, <4>1
      <4> QED
        BY <4>3, <4>4, <4>5
    <3> QED
      BY <3>1, <3>2
  <2>6. o <= Length(d)
    BY <1>2, <1>3, <2>4
  <2>7. o - ParaStart(d, m) \in 0 .. Size(d, m) /\ o = ParaStart(d, m) + (o - ParaStart(d, m))
    BY <1>2, <2>4, <2>5
  <2> QED
    BY <1>3, <2>3, <2>4, <2>6, <2>7 DEF IsPlace, n
<1> QED
  BY <1>5, <1>6

\* A place in a paragraph is found at its offset.
LEMMA LocateAt ==
  ASSUME NEW d, d.paras \in Seq(Paras), NEW p \in 1 .. Len(d.paras), NEW a \in 0 .. Size(d, p)
  PROVE  /\ Locate(d, ParaStart(d, p) + a) = [para |-> p, at |-> a]
         /\ ParaStart(d, p) + a \in Nat /\ ParaStart(d, p) + a <= Length(d)
<1> DEFINE n == Len(d.paras)
           o == ParaStart(d, p) + a
           holds == {q \in 1 .. n : o <= ParaEnd(d, q)}
<1>1. n \in Nat /\ DOMAIN d.paras = 1 .. n /\ d.paras # <<>> /\ p \in 1 .. n + 1
  OBVIOUS
<1>2. \A q \in 1 .. n : ParaEnd(d, q) \in Nat
  BY StartsAre
<1>3. /\ ParaStart(d, p) \in Nat /\ Size(d, p) \in Nat /\ ParaEnd(d, p) = ParaStart(d, p) + Size(d, p)
      /\ ParaEnd(d, p) \in Nat /\ ParaEnd(d, p) <= Length(d) /\ Length(d) \in Nat
  BY <1>1, ParasAre, StartsAre, LengthIs
<1>4. o \in Nat /\ o <= ParaEnd(d, p) /\ o <= Length(d)
  BY <1>3
<1>5. Locate(d, o) = IF holds = {} THEN [para |-> n, at |-> Size(d, n)]
                     ELSE [para |-> Min(holds), at |-> o - ParaStart(d, Min(holds))]
  BY <1>1 DEF Locate, ParaEnd, Size
<1>6. Min(holds) = p
  <2>1. holds \in SUBSET Nat /\ p \in holds
    BY <1>1, <1>4
  <2>2. Min(holds) \in holds /\ \A q \in holds : Min(holds) <= q
    BY <2>1, MinIs
  <2> DEFINE m == Min(holds)
  <2>3. m \in 1 .. n /\ o <= ParaEnd(d, m) /\ m <= p
    BY <2>1, <2>2
  <2> HIDE DEF m
  <2>4. ASSUME m # p PROVE FALSE
    <3>1. m < p
      BY <1>1, <2>3, <2>4
    <3>2. ParaEnd(d, m) + 1 <= ParaStart(d, p)
      BY <1>1, <2>3, <3>1, StartsGrow
    <3> QED
      BY <1>2, <1>3, <2>3, <3>2
  <2> QED
    BY <2>4 DEF m
<1>7. p \in holds
  BY <1>1, <1>4
<1> HIDE DEF holds
<1>8. Locate(d, o) = [para |-> p, at |-> o - ParaStart(d, p)]
  BY <1>5, <1>6, <1>7
<1>9. o - ParaStart(d, p) = a
  BY <1>3
<1> QED
  BY <1>4, <1>8, <1>9

\* What stands at a place.
LEMMA GlyphIs ==
  ASSUME NEW d, d.paras \in Seq(Paras), NEW i, IsPlace(d, i)
  PROVE  /\ GlyphAt(d, i) \in Glyphs \cup {Line}
         /\ i.at < Size(d, i.para) => GlyphAt(d, i) = d.paras[i.para].text[i.at + 1].c
         /\ i.at = Size(d, i.para) => GlyphAt(d, i) = Line
<1>1. /\ Size(d, i.para) \in Nat /\ i.at \in 0 .. Size(d, i.para)
      /\ d.paras[i.para].text \in Texts
  BY ParasAre DEF IsPlace
<1>2. GlyphAt(d, i) = IF i.at < Size(d, i.para) THEN d.paras[i.para].text[i.at + 1].c ELSE Line
  BY DEF GlyphAt, Size
<1>3. ASSUME i.at < Size(d, i.para) PROVE d.paras[i.para].text[i.at + 1].c \in Glyphs
  <2>1. i.at + 1 \in 1 .. Len(d.paras[i.para].text)
    BY SMTT(60), <1>1, <1>3 DEF Size
  <2>2. d.paras[i.para].text[i.at + 1] \in [c : Glyphs, f : CharFormats]
    BY <1>1, <2>1, ElementOfSeq DEF Texts
  <2> QED
    BY <2>2
<1> QED
  BY <1>1, <1>2, <1>3

LEMMA TextIs ==
  ASSUME NEW d, d.paras \in Seq(Paras), d.paras # <<>>
  PROVE  /\ Text(d) \in Lines /\ Len(Text(d)) = Length(d)
         /\ \A k \in 1 .. Length(d) : Text(d)[k] = GlyphAt(d, Locate(d, k - 1))
<1>1. Length(d) \in Nat
  BY LengthIs
<1>2. ASSUME NEW k \in 1 .. Length(d) PROVE GlyphAt(d, Locate(d, k - 1)) \in Glyphs \cup {Line}
  <2>1. k - 1 \in Nat
    BY <1>1
  <2>2. IsPlace(d, Locate(d, k - 1))
    BY <2>1, LocateIs
  <2> QED
    BY <2>2, GlyphIs
<1>3. Text(d) \in [1 .. Length(d) -> Glyphs \cup {Line}]
  BY <1>2 DEF Text
<1>4. Text(d) \in Lines /\ Len(Text(d)) = Length(d)
  BY <1>1, <1>3 DEF Lines
<1>5. \A k \in 1 .. Length(d) : Text(d)[k] = GlyphAt(d, Locate(d, k - 1))
  BY DEF Text
<1> QED
  BY <1>4, <1>5

\* The text is what the paragraphs hold, at their offsets.
LEMMA TextAt ==
  ASSUME NEW d, d.paras \in Seq(Paras), NEW p \in 1 .. Len(d.paras), NEW a \in 0 .. Size(d, p),
         p = Len(d.paras) => a # Size(d, p)
  PROVE  /\ ParaStart(d, p) + a + 1 \in 1 .. Length(d)
         /\ Text(d)[ParaStart(d, p) + a + 1] = GlyphAt(d, [para |-> p, at |-> a])
<1> DEFINE o == ParaStart(d, p) + a
<1>1. d.paras # <<>> /\ Len(d.paras) \in Nat /\ p \in 1 .. Len(d.paras) + 1
  OBVIOUS
<1>2. /\ Length(d) \in Nat /\ Length(d) = ParaEnd(d, Len(d.paras)) /\ ParaEnd(d, p) <= Length(d)
      /\ ParaStart(d, p) \in Nat /\ Size(d, p) \in Nat /\ ParaEnd(d, p) = ParaStart(d, p) + Size(d, p)
  BY <1>1, LengthIs, ParasAre, StartsAre
<1>3. Locate(d, o) = [para |-> p, at |-> a] /\ o \in Nat /\ o <= Length(d)
  BY LocateAt
<1>4. o < Length(d)
  <2>1. CASE p = Len(d.paras)
    BY <1>2, <2>1
  <2>2. CASE p # Len(d.paras)
    <3>1. ParaEnd(d, p) + 1 <= ParaStart(d, Len(d.paras))
      <4>1. Len(d.paras) \in 1 .. Len(d.paras) + 1 /\ p < Len(d.paras)
        BY <1>1, <2>2
      <4> QED
        BY <4>1, StartsGrow
    <3>2. /\ ParaStart(d, Len(d.paras)) <= Length(d) /\ ParaStart(d, Len(d.paras)) \in Nat
      <4>1. Len(d.paras) \in 1 .. Len(d.paras) /\ Len(d.paras) \in 1 .. Len(d.paras) + 1
        BY <1>1
      <4> QED
        BY <1>1, <1>2, <4>1, LengthIs, StartsAre
    <3> QED
      BY <1>2, <3>1, <3>2
  <2> QED
    BY <2>1, <2>2
<1> HIDE DEF o
<1>5. o + 1 \in 1 .. Length(d) /\ (o + 1) - 1 = o
  BY <1>2, <1>3, <1>4
<1>6. Text(d)[o + 1] = GlyphAt(d, [para |-> p, at |-> a])
  BY <1>1, <1>3, <1>5, TextIs
<1> QED
  BY <1>5, <1>6 DEF o

\* And every place in it is one of a paragraph.
LEMMA TextFrom ==
  ASSUME NEW d, d.paras \in Seq(Paras), d.paras # <<>>, NEW k \in 1 .. Length(d)
  PROVE  \E p \in 1 .. Len(d.paras) : \E a \in 0 .. Size(d, p) :
           /\ k = ParaStart(d, p) + a + 1 /\ (p = Len(d.paras) => a # Size(d, p))
           /\ Text(d)[k] = GlyphAt(d, [para |-> p, at |-> a])
<1> DEFINE i == Locate(d, k - 1)
<1>1. k - 1 \in Nat /\ k - 1 < Length(d) /\ Length(d) \in Nat /\ Length(d) = ParaEnd(d, Len(d.paras))
  BY LengthIs
<1>2. IsPlace(d, i) /\ i = [para |-> i.para, at |-> i.at] /\ k - 1 = ParaStart(d, i.para) + i.at
  BY <1>1, LocateIs
<1> HIDE DEF i
<1>3. i.para \in 1 .. Len(d.paras) /\ i.at \in 0 .. Size(d, i.para)
  BY <1>2 DEF IsPlace
<1>4. /\ ParaStart(d, i.para) \in Nat /\ Size(d, i.para) \in Nat
      /\ ParaEnd(d, i.para) = ParaStart(d, i.para) + Size(d, i.para)
  <2>1. i.para \in 1 .. Len(d.paras) + 1
    BY <1>3
  <2> QED
    BY <1>3, <2>1, StartsAre, ParasAre
<1>5. k = ParaStart(d, i.para) + i.at + 1
  BY <1>2, <1>3, <1>4
<1>6. i.para = Len(d.paras) => i.at # Size(d, i.para)
  BY <1>1, <1>2, <1>3, <1>4
<1>7. Text(d)[k] = GlyphAt(d, [para |-> i.para, at |-> i.at])
  BY <1>2, TextIs DEF i
<1> QED
  BY <1>3, <1>5, <1>6, <1>7

\* What GetText() gives: that much of the text.
LEMMA GetTextIs ==
  ASSUME NEW d, d.paras \in Seq(Paras), d.paras # <<>>, NEW o \in Nat, NEW n \in Nat
  PROVE  /\ GetText(d, o, n) \in Lines
         /\ o + n <= Length(d) => GetText(d, o, n) = SubSeq(Text(d), o + 1, o + n)
<1> DEFINE S == {o + n, Length(d)}
<1>1. /\ Length(d) \in Nat /\ Text(d) \in Seq(Glyphs \cup {Line}) /\ Len(Text(d)) = Length(d)
  BY LengthIs, TextIs DEF Lines
<1>2. Min(S) \in S /\ \A s \in S : Min(S) <= s
  <2>1. S \in SUBSET Nat
    BY <1>1
  <2> QED
    BY <2>1, MinIs
<1>3. Min(S) \in Nat /\ Min(S) <= Length(d) /\ (o + n <= Length(d) => Min(S) = o + n)
  BY <1>1, <1>2
<1>4. GetText(d, o, n) = SubSeq(Text(d), o + 1, Min(S))
  BY DEF GetText
<1> HIDE DEF S
<1>5. SubSeq(Text(d), o + 1, Min(S)) \in Seq(Glyphs \cup {Line})
  <2>1. \A i \in o + 1 .. Min(S) : i \in 1 .. Len(Text(d))
    BY <1>1, <1>3
  <2>2. \A i \in o + 1 .. Min(S) : Text(d)[i] \in Glyphs \cup {Line}
    BY <1>1, <2>1, ElementOfSeq
  <2> QED
    BY <1>3, <2>2, SubSeqProperties
<1> QED
  BY <1>3, <1>4, <1>5 DEF Lines

\* The text is that of the paragraphs.
LEMMA TextOfParas ==
  ASSUME NEW d, NEW e, d.paras = e.paras
  PROVE  /\ Text(d) = Text(e) /\ Length(d) = Length(e)
         /\ \A p : ParaStart(d, p) = ParaStart(e, p) /\ ParaEnd(d, p) = ParaEnd(e, p)
         /\ \A o : Locate(d, o) = Locate(e, o)
         /\ \A o, n : GetText(d, o, n) = GetText(e, o, n)
<1> DEFINE Start(ps) == CHOOSE f : f = [k \in 0 .. Len(ps) |-> IF k = 0 THEN 0 ELSE f[k - 1] + Len(ps[k].text) + 1]
<1>1. \A p : ParaStart(d, p) = Start(d.paras)[p - 1] /\ ParaStart(e, p) = Start(e.paras)[p - 1]
  BY Zenon DEF ParaStart
<1> HIDE DEF Start
<1>2. \A p : ParaStart(d, p) = ParaStart(e, p)
  BY <1>1
<1>3. Length(d) = Length(e)
  BY <1>2 DEF Length
<1>4. \A p : ParaEnd(d, p) = ParaEnd(e, p)
  BY <1>2 DEF ParaEnd
<1>5. ASSUME NEW o PROVE Locate(d, o) = Locate(e, o)
  <2> DEFINE HD == {p \in DOMAIN d.paras : o <= ParaStart(d, p) + Len(d.paras[p].text)}
             HE == {p \in DOMAIN e.paras : o <= ParaStart(e, p) + Len(e.paras[p].text)}
  <2>1. HD = HE
    BY <1>2
  <2>2. /\ Locate(d, o) = IF HD = {} THEN [para |-> Len(d.paras), at |-> Len(d.paras[Len(d.paras)].text)]
                          ELSE [para |-> Min(HD), at |-> o - ParaStart(d, Min(HD))]
        /\ Locate(e, o) = IF HE = {} THEN [para |-> Len(e.paras), at |-> Len(e.paras[Len(e.paras)].text)]
                          ELSE [para |-> Min(HE), at |-> o - ParaStart(e, Min(HE))]
    BY Zenon DEF Locate
  <2> HIDE DEF HD, HE
  <2> QED
    BY <1>2, <2>1, <2>2
<1>6. Text(d) = Text(e)
  <2>1. \A i : GlyphAt(d, i) = GlyphAt(e, i)
    BY DEF GlyphAt
  <2>2. \A k \in 1 .. Length(d) : GlyphAt(d, Locate(d, k - 1)) = GlyphAt(e, Locate(e, k - 1))
    BY <1>5, <2>1
  <2> QED
    BY <1>3, <2>2 DEF Text
<1>7. \A o, n : GetText(d, o, n) = GetText(e, o, n)
  BY <1>3, <1>6 DEF GetText
<1> QED
  BY <1>2, <1>3, <1>4, <1>5, <1>6, <1>7
-----------------------------------------------------------------------------
(* Relations between documents.                                            *)

LEMMA DocumentsAre ==
  ASSUME NEW d \in Documents
  PROVE  /\ d.paras \in Seq(Paras) /\ d.next \in Nat /\ d.undo \in Seq(Steps) /\ d.redo \in Seq(Steps)
         /\ d.modified \in BOOLEAN /\ d.styles \in StyleList /\ d.header \in {"none", "title"}
         /\ d.quiet \in BOOLEAN /\ d.stray \in BOOLEAN
  BY DEF Documents

LEMMA EvolvesSame ==
  ASSUME NEW d, Whole(d)
  PROVE  Evolves(d, d)
<1>1. d.next <= d.next
  BY DocumentsAre DEF Whole
<1> QED
  BY <1>1 DEF Evolves

LEMMA EvolvesOn ==
  ASSUME NEW d, NEW e, NEW f, Whole(d), Whole(e), Whole(f), Evolves(d, e), Evolves(e, f)
  PROVE  Evolves(d, f)
<1>1. d.next \in Nat /\ e.next \in Nat /\ f.next \in Nat /\ d.next <= e.next /\ e.next <= f.next
  BY DocumentsAre DEF Whole, Evolves
<1>2. \A p \in DOMAIN d.paras : d.paras[p].id \in Nat /\ d.paras[p].rev \in Nat
  BY DocumentsAre, ParasAre DEF Whole, Paras
<1>3. \A p \in DOMAIN e.paras : e.paras[p].id \in Nat /\ e.paras[p].rev \in Nat
  BY DocumentsAre, ParasAre DEF Whole, Paras
<1>4. \A p \in DOMAIN f.paras : f.paras[p].id \in Nat /\ f.paras[p].rev \in Nat
  BY DocumentsAre, ParasAre DEF Whole, Paras
<1>5. ASSUME NEW q \in DOMAIN f.paras, ~(d.next <= f.paras[q].id)
      PROVE  \E p \in DOMAIN d.paras :
              /\ d.paras[p].id = f.paras[q].id
              /\ d.paras[p] = f.paras[q] \/ d.paras[p].rev < f.paras[q].rev
  <2>1. ~(e.next <= f.paras[q].id)
    BY <1>1, <1>4, <1>5
  <2>2. PICK r \in DOMAIN e.paras :
          /\ e.paras[r].id = f.paras[q].id
          /\ e.paras[r] = f.paras[q] \/ e.paras[r].rev < f.paras[q].rev
    BY <2>1 DEF Evolves
  <2>3. PICK p \in DOMAIN d.paras :
          /\ d.paras[p].id = e.paras[r].id
          /\ d.paras[p] = e.paras[r] \/ d.paras[p].rev < e.paras[r].rev
    BY <1>5, <2>2 DEF Evolves
  <2>4. /\ d.paras[p].rev \in Nat /\ e.paras[r].rev \in Nat /\ f.paras[q].rev \in Nat
        /\ d.paras[p].id = f.paras[q].id
    BY <1>2, <1>3, <1>4, <2>2, <2>3
  <2>5. d.paras[p] = f.paras[q] \/ d.paras[p].rev < f.paras[q].rev
    BY <2>2, <2>3, <2>4
  <2> QED
    BY <2>4, <2>5
<1>6. d.next <= f.next
  BY <1>1
<1> QED
  BY <1>5, <1>6 DEF Evolves

LEMMA EditsSame ==
  ASSUME NEW d, Whole(d)
  PROVE  Edits(d, d)
  BY EvolvesSame DEF Edits

LEMMA EditsOn ==
  ASSUME NEW d, NEW e, NEW f, Whole(d), Edits(d, e), Edits(e, f)
  PROVE  Edits(d, f)
<1>1. Evolves(d, f)
  BY EvolvesOn DEF Edits
<1> QED
  BY <1>1 DEF Edits

\* Paragraphs changed where they are.
LEMMA InPlaceIs ==
  ASSUME NEW d, Whole(d), NEW ps \in Seq(Paras), Len(ps) = Len(d.paras),
         \A p \in 1 .. Len(d.paras) :
           ps[p].id = d.paras[p].id /\ (d.paras[p] = ps[p] \/ d.paras[p].rev < ps[p].rev)
  PROVE  Changes(d, [d EXCEPT !.paras = ps]) /\ [d EXCEPT !.paras = ps].paras = ps
<1> DEFINE e == [d EXCEPT !.paras = ps]
<1>1. /\ e \in Documents /\ e.paras = ps /\ e.next = d.next /\ e.undo = d.undo /\ e.redo = d.redo
      /\ e.modified = d.modified /\ e.quiet = d.quiet /\ e.stray = d.stray
  BY DEF Whole, Documents
<1> HIDE DEF e
<1>2. DOMAIN ps = 1 .. Len(d.paras) /\ DOMAIN d.paras = 1 .. Len(d.paras) /\ d.paras # <<>> /\ ps # <<>>
  <2>1. d.paras \in Seq(Paras)
    BY DocumentsAre DEF Whole
  <2> QED
    BY <2>1 DEF Whole
<1>3. Whole(e)
  BY <1>1, <1>2 DEF Whole
<1>4. Evolves(d, e)
  <2>1. d.next <= e.next
    BY <1>1, DocumentsAre DEF Whole
  <2> QED
    BY <1>1, <1>2, <2>1 DEF Evolves
<1> QED
  BY <1>1, <1>3, <1>4 DEF Changes, e

\* Stacks of steps.
LEMMA TailUndoes ==
  ASSUME NEW stack \in Seq(Steps), stack # <<>>, NEW t, UndoesTo(stack, t)
  PROVE  UndoesTo(Tail(stack), t)
<1>1. /\ Tail(stack) \in Seq(Steps) /\ Len(Tail(stack)) = Len(stack) - 1 /\ Len(stack) \in Nat
      /\ \A i \in 1 .. Len(Tail(stack)) : Tail(stack)[i] = stack[i + 1]
  BY HeadTailProperties
<1>2. DOMAIN Tail(stack) = 1 .. Len(Tail(stack)) /\ DOMAIN stack = 1 .. Len(stack)
  BY <1>1
<1>3. ASSUME NEW k \in 1 .. Len(Tail(stack))
      PROVE  Turns(Tail(stack)[k], Tail(stack)[k].was, Above(Tail(stack), k, t))
  <2>1. k + 1 \in 1 .. Len(stack) /\ Tail(stack)[k] = stack[k + 1]
    BY <1>1
  <2>2. Turns(stack[k + 1], stack[k + 1].was, Above(stack, k + 1, t))
    BY <1>2, <2>1 DEF UndoesTo
  <2>3. Above(Tail(stack), k, t) = Above(stack, k + 1, t)
    <3>1. CASE k = Len(Tail(stack))
      <4>1. k + 1 = Len(stack)
        BY <1>1, <3>1
      <4> QED
        BY <3>1, <4>1 DEF Above
    <3>2. CASE k # Len(Tail(stack))
      <4>1. k + 1 # Len(stack) /\ k + 1 \in 1 .. Len(Tail(stack))
        <5> DEFINE m == Len(Tail(stack))
                   n == Len(stack)
        <5>1. m = n - 1 /\ n \in Nat /\ k \in 1 .. m /\ k # m
          BY Zenon, <1>1, <3>2
        <5> HIDE DEF m, n
        <5>2. k + 1 # n /\ k + 1 \in 1 .. m
          BY <5>1
        <5> QED
          BY <5>2 DEF m, n
      <4>2. Tail(stack)[k + 1] = stack[(k + 1) + 1]
        BY Zenon, <1>1, <4>1
      <4> QED
        BY <3>2, <4>1, <4>2 DEF Above
    <3> QED
      BY <3>1, <3>2
  <2> QED
    BY <2>1, <2>2, <2>3
<1> QED
  BY <1>2, <1>3 DEF UndoesTo

LEMMA AppendUndoes ==
  ASSUME NEW stack \in Seq(Steps), NEW s \in Steps, NEW t, UndoesTo(stack, s.was), Turns(s, s.was, t)
  PROVE  UndoesTo(Append(stack, s), t)
<1> DEFINE more == Append(stack, s)
           n == Len(stack)
<1>1. /\ n \in Nat /\ Len(more) = n + 1 /\ DOMAIN more = 1 .. n + 1 /\ DOMAIN stack = 1 .. n
      /\ \A i \in 1 .. n : more[i] = stack[i]
      /\ more[n + 1] = s
  BY AppendProperties
<1> HIDE DEF more, n
<1>2. ASSUME NEW k \in 1 .. n + 1 PROVE Turns(more[k], more[k].was, Above(more, k, t))
  <2>1. CASE k = n + 1
    BY <1>1, <2>1 DEF Above
  <2>2. CASE k # n + 1
    <3>1. k \in 1 .. n
      BY <1>1, <2>2
    <3>2. Turns(stack[k], stack[k].was, Above(stack, k, s.was))
      BY <1>1, <3>1 DEF UndoesTo
    <3>3. Above(more, k, t) = Above(stack, k, s.was)
      <4>1. CASE k = n
        BY Zenon, <1>1, <2>2, <4>1 DEF Above, n
      <4>2. CASE k # n
        <5>1. k + 1 \in 1 .. n
          BY <1>1, <3>1, <4>2
        <5> QED
          BY Zenon, <1>1, <2>2, <4>2, <5>1 DEF Above, n
      <4> QED
        BY <4>1, <4>2
    <3> QED
      BY <1>1, <3>1, <3>2, <3>3
  <2> QED
    BY <2>1, <2>2
<1> QED
  BY <1>1, <1>2 DEF UndoesTo, more

LEMMA AppendRedoes ==
  ASSUME NEW stack \in Seq(Steps), NEW s \in Steps, NEW t, RedoesTo(stack, s.was), Turns(s, t, s.was)
  PROVE  RedoesTo(Append(stack, s), t)
<1> DEFINE more == Append(stack, s)
           n == Len(stack)
<1>1. /\ n \in Nat /\ Len(more) = n + 1 /\ DOMAIN more = 1 .. n + 1 /\ DOMAIN stack = 1 .. n
      /\ \A i \in 1 .. n : more[i] = stack[i]
      /\ more[n + 1] = s
  BY AppendProperties
<1> HIDE DEF more, n
<1>2. ASSUME NEW k \in 1 .. n + 1 PROVE Turns(more[k], Above(more, k, t), more[k].was)
  <2>1. CASE k = n + 1
    BY <1>1, <2>1 DEF Above
  <2>2. CASE k # n + 1
    <3>1. k \in 1 .. n
      BY <1>1, <2>2
    <3>2. Turns(stack[k], Above(stack, k, s.was), stack[k].was)
      BY <1>1, <3>1 DEF RedoesTo
    <3>3. Above(more, k, t) = Above(stack, k, s.was)
      <4>1. CASE k = n
        BY Zenon, <1>1, <2>2, <4>1 DEF Above, n
      <4>2. CASE k # n
        <5>1. k + 1 \in 1 .. n
          BY <1>1, <3>1, <4>2
        <5> QED
          BY Zenon, <1>1, <2>2, <4>2, <5>1 DEF Above, n
      <4> QED
        BY <4>1, <4>2
    <3> QED
      BY <1>1, <3>1, <3>2, <3>3
  <2> QED
    BY <2>1, <2>2
<1> QED
  BY <1>1, <1>2 DEF RedoesTo, more

\* The step on top taken off.
LEMMA FrontIs ==
  ASSUME NEW stack \in Seq(Steps), stack # <<>>
  PROVE  /\ Front(stack) \in Seq(Steps) /\ Last(stack) \in Steps /\ Last(stack) = stack[Len(stack)]
         /\ Len(Front(stack)) = Len(stack) - 1
         /\ \A i \in 1 .. Len(stack) - 1 : Front(stack)[i] = stack[i]
<1>1. Len(stack) \in Nat \ {0} /\ Len(stack) \in 1 .. Len(stack)
  BY EmptySeq
<1>2. Last(stack) = stack[Len(stack)]
  BY DEF Last
<1>3. Front(stack) = SubSeq(stack, 1, Len(stack) - 1)
  BY DEF Front
<1>4. \A i \in 1 .. Len(stack) - 1 : stack[i] \in Steps
  BY <1>1, ElementOfSeq
<1>5. /\ SubSeq(stack, 1, Len(stack) - 1) \in Seq(Steps)
      /\ Len(SubSeq(stack, 1, Len(stack) - 1)) = IF 1 <= Len(stack) - 1 THEN Len(stack) - 1 - 1 + 1 ELSE 0
      /\ \A i \in 1 .. Len(stack) - 1 - 1 + 1 : SubSeq(stack, 1, Len(stack) - 1)[i] = stack[1 + i - 1]
  BY <1>1, <1>4, SubSeqProperties
<1>6. Len(Front(stack)) = Len(stack) - 1
  <2> DEFINE n == Len(stack)
  <2>1. Len(Front(stack)) = IF 1 <= n - 1 THEN n - 1 - 1 + 1 ELSE 0
    BY <1>3, <1>5
  <2>2. n \in Nat \ {0}
    BY <1>1
  <2> HIDE DEF n
  <2>3. Len(Front(stack)) = n - 1
    BY <2>1, <2>2
  <2> QED
    BY <2>3 DEF n
<1>7. ASSUME NEW i \in 1 .. Len(stack) - 1 PROVE Front(stack)[i] = stack[i]
  <2>1. i \in 1 .. Len(stack) - 1 - 1 + 1 /\ 1 + i - 1 = i
    BY <1>1
  <2> QED
    BY <1>3, <1>5, <2>1
<1> QED
  BY <1>1, <1>2, <1>3, <1>5, <1>6, <1>7, ElementOfSeq

LEMMA FrontUndoes ==
  ASSUME NEW stack \in Seq(Steps), stack # <<>>, NEW t, UndoesTo(stack, t)
  PROVE  UndoesTo(Front(stack), Last(stack).was) /\ Turns(Last(stack), Last(stack).was, t)
<1> DEFINE n == Len(stack)
           less == Front(stack)
<1>1. /\ less \in Seq(Steps) /\ Last(stack) = stack[n] /\ Len(less) = n - 1 /\ n \in Nat /\ n # 0
      /\ \A i \in 1 .. n - 1 : less[i] = stack[i]
  BY FrontIs, EmptySeq
<1>2. DOMAIN less = 1 .. n - 1 /\ DOMAIN stack = 1 .. n /\ n \in 1 .. n
  BY <1>1
<1> HIDE DEF n, less
<1>3. ASSUME NEW k \in 1 .. n - 1 PROVE Turns(less[k], less[k].was, Above(less, k, stack[n].was))
  <2>1. k \in 1 .. n /\ k # n
    BY <1>1
  <2>2. Turns(stack[k], stack[k].was, Above(stack, k, t))
    BY <1>2, <2>1 DEF UndoesTo
  <2>3. Above(less, k, stack[n].was) = Above(stack, k, t)
    <3>1. CASE k = n - 1
      BY <1>1, <2>1, <3>1 DEF Above, n
    <3>2. CASE k # n - 1
      <4>1. k + 1 \in 1 .. n - 1
        BY <1>1, <3>2
      <4> QED
        BY <1>1, <2>1, <3>2, <4>1 DEF Above, n
    <3> QED
      BY <3>1, <3>2
  <2> QED
    BY <1>1, <2>2, <2>3
<1>4. Turns(stack[n], stack[n].was, t)
  BY <1>2 DEF UndoesTo, Above, n
<1> QED
  BY <1>1, <1>2, <1>3, <1>4 DEF UndoesTo, less

LEMMA FrontRedoes ==
  ASSUME NEW stack \in Seq(Steps), stack # <<>>, NEW t, RedoesTo(stack, t)
  PROVE  RedoesTo(Front(stack), Last(stack).was) /\ Turns(Last(stack), t, Last(stack).was)
<1> DEFINE n == Len(stack)
           less == Front(stack)
<1>1. /\ less \in Seq(Steps) /\ Last(stack) = stack[n] /\ Len(less) = n - 1 /\ n \in Nat /\ n # 0
      /\ \A i \in 1 .. n - 1 : less[i] = stack[i]
  BY FrontIs, EmptySeq
<1>2. DOMAIN less = 1 .. n - 1 /\ DOMAIN stack = 1 .. n /\ n \in 1 .. n
  BY <1>1
<1> HIDE DEF n, less
<1>3. ASSUME NEW k \in 1 .. n - 1 PROVE Turns(less[k], Above(less, k, stack[n].was), less[k].was)
  <2>1. k \in 1 .. n /\ k # n
    BY <1>1
  <2>2. Turns(stack[k], Above(stack, k, t), stack[k].was)
    BY <1>2, <2>1 DEF RedoesTo
  <2>3. Above(less, k, stack[n].was) = Above(stack, k, t)
    <3>1. CASE k = n - 1
      BY <1>1, <2>1, <3>1 DEF Above, n
    <3>2. CASE k # n - 1
      <4>1. k + 1 \in 1 .. n - 1
        BY <1>1, <3>2
      <4> QED
        BY <1>1, <2>1, <3>2, <4>1 DEF Above, n
    <3> QED
      BY <3>1, <3>2
  <2> QED
    BY <1>1, <2>2, <2>3
<1>4. Turns(stack[n], t, stack[n].was)
  BY <1>2 DEF RedoesTo, Above, n
<1> QED
  BY <1>1, <1>2, <1>3, <1>4 DEF RedoesTo, less

\* A change that is noted.
LEMMA PushIs ==
  ASSUME NEW d, Whole(d), NEW c, Changes(d, c), NEW b \in BOOLEAN, NEW s \in Steps, s.was = Text(d),
         b \/ d.quiet \/ Turns(s, Text(d), Text(c))
  PROVE  LET e == PushUndo(Strayed(c, b), s)
         IN  Edits(d, e) /\ e.paras = c.paras /\ e.modified
<1> DEFINE f == Strayed(c, b)
           e == PushUndo(f, s)
           stack == Append(f.undo, s)
<1>1. c \in Documents
  BY DEF Changes, Whole
<1>2. /\ f \in Documents /\ f.paras = c.paras /\ f.next = c.next /\ f.undo = c.undo /\ f.redo = c.redo
      /\ f.modified = c.modified /\ f.quiet = c.quiet /\ f.stray = (c.stray \/ b)
  BY <1>1 DEF Strayed, Documents
<1> HIDE DEF f
<1>3. stack \in Seq(Steps) /\ stack # <<>> /\ Len(stack) \in Nat
  BY <1>2, AppendProperties, DocumentsAre
<1>4. Tail(stack) \in Seq(Steps)
  BY <1>3, HeadTailProperties
<1>5. CASE f.quiet
  <2>1. e = [f EXCEPT !.modified = TRUE]
    BY <1>5 DEF PushUndo
  <2>2. /\ e \in Documents /\ e.paras = c.paras /\ e.next = c.next /\ e.modified /\ e.quiet = d.quiet
        /\ e.stray = (d.stray \/ b) /\ e.quiet
    BY <1>2, <1>5, <2>1 DEF Documents, Changes
  <2> HIDE DEF e
  <2>3. Whole(e) /\ Evolves(d, e)
    BY <2>2 DEF Changes, Whole, Evolves
  <2>4. Exact(e)
    BY <2>2 DEF Exact
  <2>5. Edits(d, e)
    BY <2>2, <2>3, <2>4 DEF Edits
  <2> QED
    BY <2>2, <2>5 DEF e, f
<1>6. CASE ~f.quiet
  <2> DEFINE top == IF Len(stack) > UndoCap THEN Tail(stack) ELSE stack
  <2>1. e = [f EXCEPT !.modified = TRUE, !.redo = <<>>, !.undo = top]
    BY <1>6 DEF PushUndo
  <2>2. top \in Seq(Steps) /\ <<>> \in Seq(Steps)
    BY <1>3, <1>4
  <2> HIDE DEF top
  <2>3. /\ e \in Documents /\ e.paras = c.paras /\ e.next = c.next /\ e.modified /\ e.quiet = d.quiet
        /\ e.stray = (d.stray \/ b) /\ e.redo = <<>> /\ e.undo = top /\ ~d.quiet
    BY <1>2, <1>6, <2>1, <2>2 DEF Documents, Changes
  <2> HIDE DEF e
  <2>4. Whole(e) /\ Evolves(d, e)
    BY <2>3 DEF Changes, Whole, Evolves
  <2>5. Text(e) = Text(c)
    BY <2>3, TextOfParas
  <2>6. ASSUME Exact(d), ~e.stray PROVE UndoesTo(e.undo, Text(e)) /\ RedoesTo(e.redo, Text(e))
    <3>1. ~d.stray /\ ~b
      BY <2>3, <2>6
    <3>2. UndoesTo(d.undo, Text(d))
      BY <2>3, <2>6, <3>1 DEF Exact
    <3>3. Turns(s, s.was, Text(e)) /\ f.undo = d.undo
      BY <1>2, <2>3, <2>5, <3>1 DEF Changes
    <3>4. UndoesTo(stack, Text(e))
      <4>1. d.undo \in Seq(Steps)
        BY DocumentsAre DEF Whole
      <4> QED
        BY <3>2, <3>3, <4>1, AppendUndoes
    <3>5. UndoesTo(top, Text(e))
      BY <1>3, <3>4, TailUndoes DEF top
    <3>6. RedoesTo(e.redo, Text(e))
      <4>1. DOMAIN <<>> = {}
        OBVIOUS
      <4> QED
        BY <2>3, <4>1 DEF RedoesTo
    <3> QED
      BY <2>3, <3>5, <3>6
  <2>7. Exact(d) => Exact(e)
    BY <2>3, <2>6 DEF Exact
  <2>8. Edits(d, e)
    BY <2>3, <2>4, <2>7 DEF Edits
  <2> QED
    BY <2>3, <2>8 DEF e, f
<1> QED
  BY <1>5, <1>6

LEMMA NotStrayed ==
  ASSUME NEW c \in Documents
  PROVE  Strayed(c, FALSE) = c
  BY DEF Strayed, Documents
-----------------------------------------------------------------------------
(* Texts of two documents that agree before a place, or behind one.        *)
GlyphOf(d, p, a) == GlyphAt(d, [para |-> p, at |-> a])
Before(d, p, a)  == SubSeq(Text(d), 1, ParaStart(d, p) + a)
After(d, p, a)   == SubSeq(Text(d), ParaStart(d, p) + a + 1, Length(d))

Alike(d, p, e, q) ==
    Size(d, p) = Size(e, q) /\ \A x \in 0 .. Size(d, p) : GlyphOf(d, p, x) = GlyphOf(e, q, x)
SameBefore(d, e, p, a) ==
    /\ \A i \in 1 .. p - 1 : Alike(d, i, e, i)
    /\ \A x \in 0 .. a - 1 : GlyphOf(d, p, x) = GlyphOf(e, p, x)
SameBehind(d, p, a, e, q, b, r, m) ==
    /\ \A x \in 0 .. r : GlyphOf(d, p, a + x) = GlyphOf(e, q, b + x)
    /\ \A i \in 1 .. m : Alike(d, p + i, e, q + i)

LEMMA PlaceIs ==
  ASSUME NEW d, d.paras \in Seq(Paras), NEW p \in 1 .. Len(d.paras)
  PROVE  /\ Len(d.paras) \in Nat /\ d.paras # <<>> /\ Length(d) \in Nat
         /\ ParaStart(d, p) \in Nat /\ Size(d, p) \in Nat /\ ParaEnd(d, p) \in Nat
         /\ ParaEnd(d, p) = ParaStart(d, p) + Size(d, p) /\ ParaEnd(d, p) <= Length(d)
         /\ ParaStart(d, p + 1) = ParaEnd(d, p) + 1
         /\ p = Len(d.paras) => ParaEnd(d, p) = Length(d)
<1>1. Len(d.paras) \in Nat /\ d.paras # <<>> /\ p \in 1 .. Len(d.paras) + 1
  OBVIOUS
<1> QED
  BY <1>1, ParasAre, StartsAre, LengthIs

Shifted(d, p, e, q, m) ==
    /\ d.paras \in Seq(Paras) /\ e.paras \in Seq(Paras)
    /\ p \in Nat \ {0} /\ q \in Nat \ {0} /\ m \in Nat
    /\ p + m <= Len(d.paras) + 1 /\ q + m <= Len(e.paras) + 1
    /\ \A i \in 0 .. m - 1 : Size(d, p + i) = Size(e, q + i)

LEMMA StartsShift ==
  ASSUME NEW d, NEW e, NEW p, NEW q, NEW m, Shifted(d, p, e, q, m)
  PROVE  \A i \in 0 .. m : ParaStart(e, q + i) + ParaStart(d, p) = ParaStart(d, p + i) + ParaStart(e, q)
<1> USE DEF Shifted
<1> DEFINE Bad == {i \in 0 .. m : ParaStart(e, q + i) + ParaStart(d, p) # ParaStart(d, p + i) + ParaStart(e, q)}
<1> SUFFICES ASSUME Bad # {} PROVE FALSE
  OBVIOUS
<1>1. PICK i \in Bad : \A j \in Bad : i <= j
  <2>1. Bad \in SUBSET Nat
    OBVIOUS
  <2> QED
    BY <2>1, LeastIs
<1>2. i \in 0 .. m /\ ParaStart(e, q + i) + ParaStart(d, p) # ParaStart(d, p + i) + ParaStart(e, q)
  BY <1>1
<1>3. Len(d.paras) \in Nat /\ Len(e.paras) \in Nat
  BY SMTT(60)
<1>4. /\ \A k \in 1 .. Len(d.paras) + 1 : ParaStart(d, k) \in Nat
      /\ \A k \in 1 .. Len(e.paras) + 1 : ParaStart(e, k) \in Nat
  BY StartsAre
<1>5. i # 0
  <2>1. ASSUME i = 0 PROVE FALSE
    <3>1. q + i = q /\ p + i = p
      BY <2>1
    <3>2. p \in 1 .. Len(d.paras) + 1 /\ q \in 1 .. Len(e.paras) + 1
      BY SMTT(60), <1>3
    <3>3. ParaStart(e, q) \in Nat /\ ParaStart(d, p) \in Nat
      BY <1>4, <3>2
    <3> QED
      BY <1>2, <3>1, <3>3
  <2> QED
    BY <2>1
<1> DEFINE j == i - 1
<1>6. j \in 0 .. m /\ j \in 0 .. m - 1 /\ ~(i <= j) /\ p + i = (p + j) + 1 /\ q + i = (q + j) + 1
  BY <1>2, <1>5
<1>7. ParaStart(e, q + j) + ParaStart(d, p) = ParaStart(d, p + j) + ParaStart(e, q)
  <2>1. j \notin Bad
    BY <1>1, <1>6
  <2> QED
    BY <1>6, <2>1
<1> HIDE DEF j, Bad
<1>8. /\ p + j \in 1 .. Len(d.paras) /\ q + j \in 1 .. Len(e.paras)
      /\ p + j \in 1 .. Len(d.paras) + 1 /\ q + j \in 1 .. Len(e.paras) + 1
      /\ p \in 1 .. Len(d.paras) + 1 /\ q \in 1 .. Len(e.paras) + 1
  BY SMTT(60), <1>3, <1>6
<1>9. /\ ParaStart(d, p + i) = ParaStart(d, p + j) + Size(d, p + j) + 1
      /\ ParaStart(e, q + i) = ParaStart(e, q + j) + Size(e, q + j) + 1
  BY <1>6, <1>8, StartsAre
<1>10. Size(d, p + j) = Size(e, q + j) /\ Size(d, p + j) \in Nat
  BY <1>6, <1>8, ParasAre
<1>11. /\ ParaStart(d, p + j) \in Nat /\ ParaStart(e, q + j) \in Nat
       /\ ParaStart(d, p) \in Nat /\ ParaStart(e, q) \in Nat
  BY <1>4, <1>8
<1> DEFINE sd == ParaStart(d, p)
           se == ParaStart(e, q)
           td == ParaStart(d, p + j)
           te == ParaStart(e, q + j)
           n  == Size(d, p + j)
<1>12. /\ te + sd = td + se /\ sd \in Nat /\ se \in Nat /\ td \in Nat /\ te \in Nat /\ n \in Nat
       /\ ParaStart(d, p + i) = td + n + 1 /\ ParaStart(e, q + i) = te + n + 1
       /\ ParaStart(e, q + i) + sd # ParaStart(d, p + i) + se
  BY <1>2, <1>7, <1>9, <1>10, <1>11
<1> HIDE DEF sd, se, td, te, n
<1>13. (te + n + 1) + sd # (td + n + 1) + se
  BY <1>12
<1> QED
  BY <1>12, <1>13

LEMMA StartsMatch ==
  ASSUME NEW d, d.paras \in Seq(Paras), NEW e, e.paras \in Seq(Paras),
         NEW p \in Nat \ {0}, p <= Len(d.paras) + 1, p <= Len(e.paras) + 1,
         \A i \in 1 .. p - 1 : Size(d, i) = Size(e, i)
  PROVE  \A i \in 1 .. p : ParaStart(d, i) = ParaStart(e, i)
<1> DEFINE Bad == {i \in 1 .. p : ParaStart(d, i) # ParaStart(e, i)}
<1> SUFFICES ASSUME Bad # {} PROVE FALSE
  OBVIOUS
<1>1. PICK i \in Bad : \A j \in Bad : i <= j
  <2>1. Bad \in SUBSET Nat
    OBVIOUS
  <2> QED
    BY <2>1, LeastIs
<1>2. i \in 1 .. p /\ ParaStart(d, i) # ParaStart(e, i)
  BY <1>1
<1>3. Len(d.paras) \in Nat /\ Len(e.paras) \in Nat
  OBVIOUS
<1>4. i # 1
  BY <1>2, StartsAre
<1> DEFINE j == i - 1
<1>5. j \in 1 .. p /\ j \in 1 .. p - 1 /\ ~(i <= j) /\ i = j + 1
  BY <1>2, <1>4
<1>6. ParaStart(d, j) = ParaStart(e, j)
  <2>1. j \notin Bad
    BY <1>1, <1>5
  <2> QED
    BY <1>5, <2>1
<1> HIDE DEF j, Bad
<1>7. j \in 1 .. Len(d.paras) /\ j \in 1 .. Len(e.paras)
  BY <1>3, <1>5
<1>8. ParaStart(d, j + 1) = ParaStart(d, j) + Size(d, j) + 1 /\ ParaStart(e, j + 1) = ParaStart(e, j) + Size(e, j) + 1
  BY <1>7, StartsAre
<1>9. Size(d, j) = Size(e, j)
  BY <1>5
<1> QED
  BY <1>2, <1>5, <1>6, <1>8, <1>9

LEMMA BeforeSame ==
  ASSUME NEW d, d.paras \in Seq(Paras), NEW e, e.paras \in Seq(Paras),
         NEW p \in 1 .. Len(d.paras), p <= Len(e.paras),
         NEW a \in 0 .. Size(d, p), a <= Size(e, p), SameBefore(d, e, p, a)
  PROVE  /\ Before(d, p, a) = Before(e, p, a) /\ ParaStart(d, p) = ParaStart(e, p)
         /\ Before(d, p, a) \in Lines /\ Len(Before(d, p, a)) = ParaStart(d, p) + a
<1>1. /\ p \in 1 .. Len(e.paras) /\ Len(d.paras) \in Nat /\ Len(e.paras) \in Nat
      /\ d.paras # <<>> /\ e.paras # <<>>
  OBVIOUS
<1>2. \A i \in 1 .. p : ParaStart(d, i) = ParaStart(e, i)
  <2>1. \A i \in 1 .. p - 1 : Size(d, i) = Size(e, i)
    BY DEF SameBefore, Alike
  <2>2. p \in Nat \ {0} /\ p <= Len(d.paras) + 1 /\ p <= Len(e.paras) + 1
    BY <1>1
  <2> QED
    BY <2>1, <2>2, StartsMatch
<1> DEFINE n == ParaStart(d, p) + a
<1>3. n \in Nat /\ n <= Length(d) /\ n <= Length(e) /\ n = ParaStart(e, p) + a
      /\ Length(d) \in Nat /\ Length(e) \in Nat
  <2>1. ParaStart(d, p) = ParaStart(e, p)
    BY <1>2
  <2>2. /\ ParaStart(d, p) \in Nat /\ Size(d, p) \in Nat /\ ParaEnd(d, p) = ParaStart(d, p) + Size(d, p)
        /\ ParaEnd(d, p) <= Length(d) /\ Length(d) \in Nat
    BY PlaceIs
  <2>3. /\ ParaStart(e, p) \in Nat /\ Size(e, p) \in Nat /\ ParaEnd(e, p) = ParaStart(e, p) + Size(e, p)
        /\ ParaEnd(e, p) <= Length(e) /\ Length(e) \in Nat
    BY <1>1, PlaceIs
  <2> QED
    BY <2>1, <2>2, <2>3
<1>4. /\ Text(d) \in Lines /\ Len(Text(d)) = Length(d) /\ Text(e) \in Lines /\ Len(Text(e)) = Length(e)
  BY <1>1, TextIs
<1>5. ASSUME NEW k \in 1 .. n PROVE Text(d)[k] = Text(e)[k]
  <2>1. k \in 1 .. Length(d)
    BY <1>3
  <2>2. PICK i \in 1 .. Len(d.paras) : \E x \in 0 .. Size(d, i) :
           k = ParaStart(d, i) + x + 1 /\ Text(d)[k] = GlyphOf(d, i, x)
    BY <1>1, <2>1, TextFrom DEF GlyphOf
  <2>3. PICK x \in 0 .. Size(d, i) : k = ParaStart(d, i) + x + 1 /\ Text(d)[k] = GlyphOf(d, i, x)
    BY <2>2
  <2>4. ParaStart(d, i) \in Nat /\ ParaStart(d, p) \in Nat /\ Size(d, p) \in Nat /\ Size(d, i) \in Nat
    BY PlaceIs
  <2>5. CASE i < p
    <3>1. i \in 1 .. p /\ i \in 1 .. p - 1 /\ i \in 1 .. Len(e.paras) /\ i # Len(e.paras)
      BY <1>1, <2>5
    <3>2. x \in 0 .. Size(e, i) /\ GlyphOf(d, i, x) = GlyphOf(e, i, x) /\ ParaStart(d, i) = ParaStart(e, i)
      BY <1>2, <3>1 DEF SameBefore, Alike
    <3>3. Text(e)[ParaStart(e, i) + x + 1] = GlyphOf(e, i, x)
      BY <3>1, <3>2, TextAt DEF GlyphOf
    <3> QED
      BY <2>3, <3>2, <3>3
  <2>6. CASE i = p
    <3>1. x < a /\ x \in 0 .. a - 1
      BY <2>3, <2>4, <2>6
    <3>2. x \in 0 .. Size(e, p) /\ x # Size(e, p) /\ GlyphOf(d, p, x) = GlyphOf(e, p, x)
      <4>1. Size(e, p) \in Nat
        BY <1>1, PlaceIs
      <4>2. GlyphOf(d, p, x) = GlyphOf(e, p, x)
        BY <3>1 DEF SameBefore
      <4> QED
        BY <3>1, <4>1, <4>2
    <3>3. Text(e)[ParaStart(e, p) + x + 1] = GlyphOf(e, p, x)
      BY <1>1, <3>2, TextAt DEF GlyphOf
    <3>4. ParaStart(d, p) = ParaStart(e, p)
      BY <1>2
    <3> QED
      BY <2>3, <2>6, <3>2, <3>3, <3>4
  <2>7. CASE i > p
    <3>1. ParaEnd(d, p) + 1 <= ParaStart(d, i)
      <4>1. i \in 1 .. Len(d.paras) + 1 /\ p < i
        BY <1>1, <2>7
      <4> QED
        BY <4>1, StartsGrow
    <3>2. ParaEnd(d, p) = ParaStart(d, p) + Size(d, p)
      BY PlaceIs
    <3> QED
      BY SMTT(60), <2>3, <2>4, <3>1, <3>2
  <2> QED
    BY <1>1, <2>5, <2>6, <2>7
<1> HIDE DEF n
<1>6. /\ SubSeq(Text(d), 1, n) \in Seq(Glyphs \cup {Line}) /\ Len(SubSeq(Text(d), 1, n)) = n
      /\ \A i \in 1 .. n : SubSeq(Text(d), 1, n)[i] = Text(d)[i]
  <2>1. \A i \in 1 .. n : Text(d)[i] \in Glyphs \cup {Line}
    <3>1. \A i \in 1 .. n : i \in 1 .. Len(Text(d))
      BY <1>3, <1>4
    <3> QED
      BY <1>4, <3>1, ElementOfSeq DEF Lines
  <2>2. /\ SubSeq(Text(d), 1, n) \in Seq(Glyphs \cup {Line})
        /\ Len(SubSeq(Text(d), 1, n)) = IF 1 <= n THEN n - 1 + 1 ELSE 0
        /\ \A i \in 1 .. n - 1 + 1 : SubSeq(Text(d), 1, n)[i] = Text(d)[1 + i - 1]
    BY <1>3, <2>1, SubSeqProperties
  <2>3. n - 1 + 1 = n /\ \A i \in 1 .. n : 1 + i - 1 = i
    BY <1>3
  <2> QED
    BY <1>3, <2>2, <2>3
<1>7. /\ SubSeq(Text(e), 1, n) \in Seq(Glyphs \cup {Line}) /\ Len(SubSeq(Text(e), 1, n)) = n
      /\ \A i \in 1 .. n : SubSeq(Text(e), 1, n)[i] = Text(e)[i]
  <2>1. \A i \in 1 .. n : Text(e)[i] \in Glyphs \cup {Line}
    <3>1. \A i \in 1 .. n : i \in 1 .. Len(Text(e))
      BY <1>3, <1>4
    <3> QED
      BY <1>4, <3>1, ElementOfSeq DEF Lines
  <2>2. /\ SubSeq(Text(e), 1, n) \in Seq(Glyphs \cup {Line})
        /\ Len(SubSeq(Text(e), 1, n)) = IF 1 <= n THEN n - 1 + 1 ELSE 0
        /\ \A i \in 1 .. n - 1 + 1 : SubSeq(Text(e), 1, n)[i] = Text(e)[1 + i - 1]
    BY <1>3, <2>1, SubSeqProperties
  <2>3. n - 1 + 1 = n /\ \A i \in 1 .. n : 1 + i - 1 = i
    BY <1>3
  <2> QED
    BY <1>3, <2>2, <2>3
<1>8. SubSeq(Text(d), 1, n) = SubSeq(Text(e), 1, n)
  BY <1>5, <1>6, <1>7, SeqEqual
<1>9. Before(d, p, a) = SubSeq(Text(d), 1, n) /\ Before(e, p, a) = SubSeq(Text(e), 1, n)
  BY <1>3 DEF Before, n
<1>10. ParaStart(d, p) = ParaStart(e, p)
  BY <1>2
<1> QED
  BY <1>6, <1>8, <1>9, <1>10 DEF Lines, n

LEMMA SubTextIs ==
  ASSUME NEW t \in Lines, NEW m \in Nat, NEW n \in Nat, m <= n, n <= Len(t)
  PROVE  /\ SubSeq(t, m + 1, n) \in Lines /\ Len(SubSeq(t, m + 1, n)) = n - m
         /\ \A i \in 1 .. n - m : SubSeq(t, m + 1, n)[i] = t[m + i]
<1>1. t \in Seq(Glyphs \cup {Line}) /\ Len(t) \in Nat
  BY DEF Lines
<1>2. \A i \in m + 1 .. n : t[i] \in Glyphs \cup {Line}
  <2>1. \A i \in m + 1 .. n : i \in 1 .. Len(t)
    BY <1>1
  <2> QED
    BY <1>1, <2>1, ElementOfSeq
<1> DEFINE low == m + 1
<1>3. low \in Int /\ n \in Int
  OBVIOUS
<1>4. /\ SubSeq(t, low, n) \in Seq(Glyphs \cup {Line})
      /\ Len(SubSeq(t, low, n)) = IF low <= n THEN n - low + 1 ELSE 0
      /\ \A i \in 1 .. n - low + 1 : SubSeq(t, low, n)[i] = t[low + i - 1]
  <2>1. \A i \in low .. n : t[i] \in Glyphs \cup {Line}
    BY <1>2
  <2> HIDE DEF low
  <2> QED
    BY SMTT(60), <1>3, <2>1, SubSeqProperties
<1>5. n - low + 1 = n - m /\ (IF low <= n THEN n - low + 1 ELSE 0) = n - m
  OBVIOUS
<1>6. \A i \in 1 .. n - m : low + i - 1 = m + i
  OBVIOUS
<1> HIDE DEF low
<1>7. /\ SubSeq(t, low, n) \in Seq(Glyphs \cup {Line}) /\ Len(SubSeq(t, low, n)) = n - m
      /\ \A i \in 1 .. n - m : SubSeq(t, low, n)[i] = t[m + i]
  BY <1>4, <1>5, <1>6
<1> QED
  BY <1>7 DEF Lines, low


\* A place in a document, with r characters of its paragraph and m
\* paragraphs behind it.
Here(d, p, a) == ParaStart(d, p) + a
Rest(d, p, a, r, m) ==
    /\ d.paras \in Seq(Paras) /\ p \in 1 .. Len(d.paras) /\ a \in Nat /\ r \in Nat /\ m \in Nat
    /\ Len(d.paras) = p + m /\ Size(d, p) = a + r

LEMMA RestIs ==
  ASSUME NEW d, NEW p, NEW a, NEW r, NEW m, Rest(d, p, a, r, m)
  PROVE  /\ p \in Nat \ {0} /\ a \in Nat /\ r \in Nat /\ m \in Nat
         /\ d.paras \in Seq(Paras) /\ d.paras # <<>> /\ Len(d.paras) = p + m /\ p \in 1 .. Len(d.paras)
         /\ Length(d) \in Nat /\ Here(d, p, a) \in Nat /\ Here(d, p, a) + r <= Length(d)
         /\ ParaStart(d, p) \in Nat /\ Size(d, p) = a + r
         /\ Here(d, p, a) = ParaStart(d, p) + a
         /\ ParaStart(d, p + 1) = Here(d, p, a) + r + 1
         /\ \A i \in 1 .. m + 1 : ParaStart(d, p + i) \in Nat
         /\ ParaStart(d, p + (m + 1)) = Length(d) + 1
<1>1. /\ d.paras \in Seq(Paras) /\ p \in 1 .. Len(d.paras) /\ a \in Nat /\ r \in Nat /\ m \in Nat
      /\ Len(d.paras) = p + m /\ Size(d, p) = a + r
  BY DEF Rest
<1>2. /\ Len(d.paras) \in Nat /\ d.paras # <<>> /\ Length(d) \in Nat
      /\ ParaStart(d, p) \in Nat /\ ParaEnd(d, p) \in Nat
      /\ ParaEnd(d, p) = ParaStart(d, p) + Size(d, p) /\ ParaEnd(d, p) <= Length(d)
      /\ ParaStart(d, p + 1) = ParaEnd(d, p) + 1
  BY <1>1, PlaceIs
<1>3. p \in Nat \ {0}
  BY <1>1
<1> DEFINE s == ParaStart(d, p)
           h == ParaEnd(d, p)
<1>4. Here(d, p, a) = s + a
  BY DEF Here
<1>5. h = s + (a + r) /\ s \in Nat /\ h <= Length(d) /\ ParaStart(d, p + 1) = h + 1
  BY <1>1, <1>2
<1> HIDE DEF s, h
<1>6. s + a \in Nat /\ s + a + r <= Length(d) /\ ParaStart(d, p + 1) = s + a + r + 1
  BY <1>1, <1>2, <1>5
<1>7. \A i \in 1 .. m + 1 : ParaStart(d, p + i) \in Nat
  <2>1. \A i \in 1 .. m + 1 : p + i \in 1 .. Len(d.paras) + 1
    BY <1>1, <1>3
  <2>2. \A k \in 1 .. Len(d.paras) + 1 : ParaStart(d, k) \in Nat
    BY <1>1, StartsAre
  <2> QED
    BY <2>1, <2>2
<1>8. ParaStart(d, p + (m + 1)) = Length(d) + 1
  <2>1. p + (m + 1) = Len(d.paras) + 1 /\ m + 1 \in 1 .. m + 1
    BY <1>1, <1>3
  <2> DEFINE t == ParaStart(d, Len(d.paras) + 1)
  <2>2. Length(d) = t - 1
    BY DEF Length
  <2>3. t \in Nat
    BY <1>7, <2>1
  <2>4. ParaStart(d, p + (m + 1)) = t
    BY <2>1
  <2> HIDE DEF t
  <2> QED
    BY <2>2, <2>3, <2>4
<1>9. s = ParaStart(d, p)
  BY DEF s
<1>10. Here(d, p, a) \in Nat /\ Here(d, p, a) + r <= Length(d) /\ ParaStart(d, p + 1) = Here(d, p, a) + r + 1
  BY <1>4, <1>6
<1> QED
  BY <1>1, <1>2, <1>3, <1>4, <1>7, <1>8, <1>9, <1>10

LEMMA AfterStarts ==
  ASSUME NEW d, NEW e, NEW p, NEW q, NEW a, NEW b, NEW r, NEW m,
         Rest(d, p, a, r, m), Rest(e, q, b, r, m), SameBehind(d, p, a, e, q, b, r, m)
  PROVE  /\ \A i \in 1 .. m + 1 : ParaStart(e, q + i) + Here(d, p, a) = ParaStart(d, p + i) + Here(e, q, b)
         /\ Length(e) + Here(d, p, a) = Length(d) + Here(e, q, b)
<1>1. p \in Nat \ {0} /\ q \in Nat \ {0} /\ r \in Nat /\ m \in Nat
  BY RestIs
<1>2. d.paras \in Seq(Paras) /\ Len(d.paras) = p + m
  BY DEF Rest
<1>3. e.paras \in Seq(Paras) /\ Len(e.paras) = q + m
  BY DEF Rest
<1>4. Length(d) \in Nat /\ Length(e) \in Nat /\ Here(d, p, a) \in Nat /\ Here(e, q, b) \in Nat
  BY RestIs
<1>5. \A i \in 1 .. m + 1 : ParaStart(d, p + i) \in Nat
  <2>1. \A i \in 1 .. m + 1 : p + i \in 1 .. Len(d.paras) + 1
    BY <1>1, <1>2
  <2> QED
    BY <1>2, <2>1, StartsAre
<1>6. \A i \in 1 .. m + 1 : ParaStart(e, q + i) \in Nat
  <2>1. \A i \in 1 .. m + 1 : q + i \in 1 .. Len(e.paras) + 1
    BY <1>1, <1>3
  <2> QED
    BY <1>3, <2>1, StartsAre
<1>7. ParaStart(d, p + 1) = Here(d, p, a) + r + 1 /\ ParaStart(d, p + (m + 1)) = Length(d) + 1
  BY RestIs
<1>8. ParaStart(e, q + 1) = Here(e, q, b) + r + 1 /\ ParaStart(e, q + (m + 1)) = Length(e) + 1
  BY RestIs
<1> DEFINE sd == Here(d, p, a)
           se == Here(e, q, b)
           p1 == p + 1
           q1 == q + 1
<1>9. p1 \in Nat \ {0} /\ q1 \in Nat \ {0} /\ p1 + m <= Len(d.paras) + 1 /\ q1 + m <= Len(e.paras) + 1
  BY <1>1, <1>2, <1>3
<1>10. \A i \in 0 .. m - 1 : Size(d, p1 + i) = Size(e, q1 + i)
  <2> SUFFICES ASSUME NEW i \in 0 .. m - 1 PROVE Size(d, p1 + i) = Size(e, q1 + i)
    OBVIOUS
  <2> DEFINE j == i + 1
  <2>1. j \in 1 .. m /\ p1 + i = p + j /\ q1 + i = q + j
    BY <1>1
  <2> HIDE DEF j
  <2>2. Size(d, p + j) = Size(e, q + j)
    BY <2>1 DEF SameBehind, Alike
  <2> QED
    BY <2>1, <2>2
<1>11. ParaStart(d, p1) = sd + r + 1 /\ ParaStart(e, q1) = se + r + 1
  BY <1>7, <1>8
<1>12. \A i \in 1 .. m + 1 : i - 1 \in 0 .. m /\ p1 + (i - 1) = p + i /\ q1 + (i - 1) = q + i
  BY <1>1
<1>13. sd \in Nat /\ se \in Nat
  BY <1>4
<1> HIDE DEF sd, se, p1, q1
<1>14. \A i \in 0 .. m : ParaStart(e, q1 + i) + ParaStart(d, p1) = ParaStart(d, p1 + i) + ParaStart(e, q1)
  <2>1. d.paras \in Seq(Paras) /\ e.paras \in Seq(Paras) /\ p1 \in Nat \ {0} /\ q1 \in Nat \ {0} /\ m \in Nat
    BY <1>1, <1>2, <1>3, <1>9
  <2>2. p1 + m <= Len(d.paras) + 1 /\ q1 + m <= Len(e.paras) + 1
    BY <1>9
  <2>3. Shifted(d, p1, e, q1, m)
    BY <2>1, <2>2, <1>10 DEF Shifted
  <2> QED
    BY <2>3, StartsShift
<1>15. ASSUME NEW i \in 1 .. m + 1
      PROVE  ParaStart(e, q + i) + sd = ParaStart(d, p + i) + se
  <2> DEFINE j == i - 1
  <2>1. j \in 0 .. m /\ p1 + j = p + i /\ q1 + j = q + i
    BY <1>12
  <2> HIDE DEF j
  <2>2. ParaStart(e, q1 + j) + ParaStart(d, p1) = ParaStart(d, p1 + j) + ParaStart(e, q1)
    BY <1>14, <2>1, Zenon
  <2>3. ParaStart(e, q + i) \in Nat /\ ParaStart(d, p + i) \in Nat
    BY <1>5, <1>6, Zenon
  <2> DEFINE te == ParaStart(e, q + i)
             td == ParaStart(d, p + i)
  <2>4. te + (sd + r + 1) = td + (se + r + 1) /\ te \in Nat /\ td \in Nat
    BY <1>11, <2>1, <2>2, <2>3, Zenon
  <2> HIDE DEF te, td
  <2>5. te + sd = td + se
    BY <1>1, <1>13, <2>4
  <2> QED
    BY <2>5 DEF te, td
<1>16. Length(e) + sd = Length(d) + se
  <2> DEFINE i == m + 1
  <2>1. i \in 1 .. m + 1 /\ ParaStart(d, p + i) = Length(d) + 1 /\ ParaStart(e, q + i) = Length(e) + 1
    BY <1>1, <1>7, <1>8
  <2> HIDE DEF i
  <2>2. (Length(e) + 1) + sd = (Length(d) + 1) + se
    BY <1>15, <2>1, Zenon
  <2> QED
    BY <2>2, <1>4, <1>13
<1> QED
  BY <1>15, <1>16 DEF sd, se

LEMMA AfterIs ==
  ASSUME NEW d, NEW p, NEW a, NEW r, NEW m, Rest(d, p, a, r, m)
  PROVE  /\ After(d, p, a) \in Lines /\ Len(After(d, p, a)) = Length(d) - Here(d, p, a)
         /\ \A k \in 1 .. Length(d) - Here(d, p, a) :
              After(d, p, a)[k] = Text(d)[Here(d, p, a) + k]
<1>1. d.paras \in Seq(Paras) /\ d.paras # <<>>
  BY RestIs
<1>2. Length(d) \in Nat /\ Here(d, p, a) \in Nat /\ r \in Nat /\ Here(d, p, a) + r <= Length(d)
  BY RestIs
<1>3. Text(d) \in Lines /\ Len(Text(d)) = Length(d)
  BY <1>1, TextIs
<1>4. Here(d, p, a) <= Length(d)
  BY <1>2
<1>5. After(d, p, a) = SubSeq(Text(d), Here(d, p, a) + 1, Length(d))
  BY DEF After, Here
<1> QED
  BY SMTT(60), <1>2, <1>3, <1>4, <1>5, SubTextIs

\* Where a character behind a place is found.
LEMMA BehindIs ==
  ASSUME NEW d, NEW p, NEW a, NEW r, NEW m, Rest(d, p, a, r, m),
         NEW k \in 1 .. Length(d) - Here(d, p, a)
  PROVE  \/ /\ k - 1 \in 0 .. r /\ (m = 0 => k - 1 # r)
            /\ Text(d)[Here(d, p, a) + k] = GlyphOf(d, p, a + (k - 1))
         \/ \E j \in 1 .. m : \E x \in 0 .. Size(d, p + j) :
              /\ Here(d, p, a) + k = ParaStart(d, p + j) + x + 1
              /\ (j = m => x # Size(d, p + j))
              /\ Text(d)[Here(d, p, a) + k] = GlyphOf(d, p + j, x)
<1>1. d.paras \in Seq(Paras) /\ d.paras # <<>> /\ Len(d.paras) = p + m /\ p \in 1 .. Len(d.paras)
  BY RestIs DEF Rest
<1>2. Length(d) \in Nat /\ Here(d, p, a) \in Nat
  BY RestIs
<1>3. p \in Nat \ {0} /\ a \in Nat /\ r \in Nat /\ m \in Nat
  BY RestIs
<1>4. Here(d, p, a) = ParaStart(d, p) + a /\ ParaStart(d, p) \in Nat /\ Size(d, p) = a + r
  BY RestIs
<1> DEFINE h == Here(d, p, a) + k
<1>5. h \in 1 .. Length(d) /\ h \in Nat /\ h >= Here(d, p, a) + 1
  BY <1>2
<1>6. k = h - Here(d, p, a)
  BY <1>2
<1> HIDE DEF h
<1>7. PICK i \in 1 .. Len(d.paras) : \E x \in 0 .. Size(d, i) :
         /\ h = ParaStart(d, i) + x + 1 /\ (i = Len(d.paras) => x # Size(d, i))
         /\ Text(d)[h] = GlyphOf(d, i, x)
  BY <1>1, <1>5, TextFrom DEF GlyphOf
<1>8. PICK x \in 0 .. Size(d, i) :
         /\ h = ParaStart(d, i) + x + 1 /\ (i = Len(d.paras) => x # Size(d, i))
         /\ Text(d)[h] = GlyphOf(d, i, x)
  BY <1>7
<1>9. ParaStart(d, i) \in Nat /\ Size(d, i) \in Nat /\ ParaEnd(d, i) = ParaStart(d, i) + Size(d, i)
  BY <1>1, PlaceIs
<1>10. x \in Nat /\ x <= Size(d, i)
  BY <1>9
<1>11. i >= p
  <2> SUFFICES ASSUME i < p PROVE FALSE
    BY <1>1
  <2>1. ParaEnd(d, i) + 1 <= ParaStart(d, p)
    <3>1. p \in 1 .. Len(d.paras) + 1
      BY <1>1, <1>3
    <3> QED
      BY <1>1, <3>1, StartsGrow
  <2> DEFINE pd == ParaStart(d, i)
             qd == ParaStart(d, p)
             z  == Size(d, i)
             hh == Here(d, p, a)
  <2>2. pd + z + 1 <= qd /\ h = pd + x + 1 /\ x <= z /\ h >= hh + 1 /\ hh = qd + a
    BY <1>4, <1>5, <1>8, <1>9, <1>10, <2>1
  <2>3. pd \in Nat /\ qd \in Nat /\ z \in Nat /\ hh \in Nat
    BY <1>2, <1>4, <1>9
  <2> HIDE DEF pd, qd, z, hh
  <2> QED
    BY <1>3, <1>10, <2>2, <2>3
<1>12. CASE i = p
  <2> DEFINE qd == ParaStart(d, p)
             hh == Here(d, p, a)
  <2>1. hh = qd + a /\ h = qd + x + 1 /\ h >= hh + 1 /\ x <= a + r /\ hh \in Nat /\ qd \in Nat /\ k = h - hh
    BY <1>2, <1>4, <1>5, <1>6, <1>8, <1>10, <1>12
  <2> HIDE DEF qd, hh
  <2>2. k - 1 \in 0 .. r /\ x = a + (k - 1)
    BY <1>3, <1>10, <2>1
  <2>3. m = 0 => k - 1 # r
    <3> SUFFICES ASSUME m = 0, k - 1 = r PROVE FALSE
      OBVIOUS
    <3>1. x = a + r
      BY <2>2
    <3>2. i = Len(d.paras)
      BY <1>1, <1>3, <1>12
    <3> QED
      BY <1>4, <1>8, <1>12, <3>1, <3>2
  <2>4. Text(d)[h] = GlyphOf(d, p, a + (k - 1))
    BY <1>8, <1>12, <2>2
  <2> QED
    BY <2>2, <2>3, <2>4 DEF h
<1>13. CASE i # p
  <2> DEFINE j == i - p
  <2>1. j \in 1 .. m /\ i = p + j
    BY <1>1, <1>3, <1>11, <1>13
  <2> HIDE DEF j
  <2>2. j = m => x # Size(d, p + j)
    BY <1>1, <1>8, <2>1
  <2>3. x \in 0 .. Size(d, p + j) /\ h = ParaStart(d, p + j) + x + 1 /\ Text(d)[h] = GlyphOf(d, p + j, x)
    BY <1>8, <2>1
  <2> QED
    BY <2>1, <2>2, <2>3 DEF h
<1> QED
  BY <1>12, <1>13

\* The same, the other way around.
LEMMA BehindAt ==
  ASSUME NEW d, NEW p, NEW a, NEW r, NEW m, Rest(d, p, a, r, m)
  PROVE  /\ \A y \in 0 .. r : (m = 0 => y # r) => Text(d)[Here(d, p, a) + (y + 1)] = GlyphOf(d, p, a + y)
         /\ \A j \in 1 .. m : \A x \in 0 .. Size(d, p + j) :
              (j = m => x # Size(d, p + j)) => Text(d)[ParaStart(d, p + j) + x + 1] = GlyphOf(d, p + j, x)
<1>1. d.paras \in Seq(Paras) /\ Len(d.paras) = p + m /\ p \in 1 .. Len(d.paras)
  BY DEF Rest
<1>2. p \in Nat \ {0} /\ a \in Nat /\ r \in Nat /\ m \in Nat
  BY RestIs
<1>3. Here(d, p, a) = ParaStart(d, p) + a /\ ParaStart(d, p) \in Nat /\ Size(d, p) = a + r
  BY RestIs
<1>4. ASSUME NEW y \in 0 .. r, m = 0 => y # r
      PROVE  Text(d)[Here(d, p, a) + (y + 1)] = GlyphOf(d, p, a + y)
  <2> DEFINE x == a + y
  <2>1. x \in 0 .. Size(d, p) /\ (x = Size(d, p) => y = r) /\ (p = Len(d.paras) => m = 0)
    BY <1>1, <1>2, <1>3
  <2>2. Here(d, p, a) + (y + 1) = ParaStart(d, p) + x + 1
    BY <1>2, <1>3
  <2> HIDE DEF x
  <2>3. p = Len(d.paras) => x # Size(d, p)
    BY <1>4, <2>1
  <2>4. Text(d)[ParaStart(d, p) + x + 1] = GlyphOf(d, p, x)
    BY <1>1, <2>1, <2>3, TextAt DEF GlyphOf
  <2> QED
    BY <2>2, <2>4 DEF x
<1>5. ASSUME NEW j \in 1 .. m, NEW x \in 0 .. Size(d, p + j), j = m => x # Size(d, p + j)
      PROVE  Text(d)[ParaStart(d, p + j) + x + 1] = GlyphOf(d, p + j, x)
  <2> DEFINE i == p + j
  <2>1. i \in 1 .. Len(d.paras) /\ (i = Len(d.paras) => j = m)
    BY <1>1, <1>2
  <2>2. x \in 0 .. Size(d, i) /\ (i = Len(d.paras) => x # Size(d, i))
    BY <1>5, <2>1
  <2> HIDE DEF i
  <2>3. Text(d)[ParaStart(d, i) + x + 1] = GlyphOf(d, i, x)
    BY <1>1, <2>1, <2>2, TextAt DEF GlyphOf
  <2> QED
    BY <2>3 DEF i
<1> QED
  BY <1>4, <1>5

LEMMA AfterSame ==
  ASSUME NEW d, NEW e, NEW p, NEW q, NEW a, NEW b, NEW r, NEW m,
         Rest(d, p, a, r, m), Rest(e, q, b, r, m), SameBehind(d, p, a, e, q, b, r, m)
  PROVE  After(d, p, a) = After(e, q, b)
<1> DEFINE sd == Here(d, p, a)
           se == Here(e, q, b)
           n == Length(d) - sd
<1>1. r \in Nat /\ m \in Nat
  BY RestIs
<1>2. Length(d) \in Nat /\ sd \in Nat /\ sd + r <= Length(d)
  BY RestIs
<1>3. Length(e) \in Nat /\ se \in Nat
  BY RestIs
<1>4. \A i \in 1 .. m + 1 : ParaStart(e, q + i) + sd = ParaStart(d, p + i) + se
  BY AfterStarts
<1>5. Length(e) + sd = Length(d) + se
  BY AfterStarts
<1>6. /\ After(d, p, a) \in Lines /\ Len(After(d, p, a)) = Length(d) - sd
      /\ \A k \in 1 .. Length(d) - sd : After(d, p, a)[k] = Text(d)[sd + k]
  BY AfterIs
<1>7. /\ After(e, q, b) \in Lines /\ Len(After(e, q, b)) = Length(e) - se
      /\ \A k \in 1 .. Length(e) - se : After(e, q, b)[k] = Text(e)[se + k]
  BY AfterIs
<1>8. ASSUME NEW k \in 1 .. n
      PROVE  \/ /\ k - 1 \in 0 .. r /\ (m = 0 => k - 1 # r)
                /\ Text(d)[sd + k] = GlyphOf(d, p, a + (k - 1))
             \/ \E j \in 1 .. m : \E x \in 0 .. Size(d, p + j) :
                  /\ sd + k = ParaStart(d, p + j) + x + 1
                  /\ (j = m => x # Size(d, p + j))
                  /\ Text(d)[sd + k] = GlyphOf(d, p + j, x)
  BY BehindIs
<1>9. \A y \in 0 .. r : (m = 0 => y # r) => Text(e)[se + (y + 1)] = GlyphOf(e, q, b + y)
  BY BehindAt
<1>10. \A j \in 1 .. m : \A x \in 0 .. Size(e, q + j) :
         (j = m => x # Size(e, q + j)) => Text(e)[ParaStart(e, q + j) + x + 1] = GlyphOf(e, q + j, x)
  BY BehindAt
<1>11. \A j \in 1 .. m : ParaStart(d, p + j) \in Nat /\ Size(d, p + j) \in Nat /\ ParaStart(e, q + j) \in Nat
  <2> SUFFICES ASSUME NEW j \in 1 .. m
               PROVE  ParaStart(d, p + j) \in Nat /\ Size(d, p + j) \in Nat /\ ParaStart(e, q + j) \in Nat
    OBVIOUS
  <2>1. d.paras \in Seq(Paras) /\ p + j \in 1 .. Len(d.paras)
    BY DEF Rest
  <2>2. e.paras \in Seq(Paras) /\ q + j \in 1 .. Len(e.paras)
    BY DEF Rest
  <2> QED
    BY <2>1, <2>2, PlaceIs
<1>12. n \in Nat /\ n = Length(d) - sd /\ n = Length(e) - se
  BY <1>1, <1>2, <1>3, <1>5
<1> HIDE DEF sd, se, n
<1>13. ASSUME NEW k \in 1 .. n PROVE Text(d)[sd + k] = Text(e)[se + k]
  <2>1. CASE /\ k - 1 \in 0 .. r /\ (m = 0 => k - 1 # r)
             /\ Text(d)[sd + k] = GlyphOf(d, p, a + (k - 1))
    <3> DEFINE y == k - 1
    <3>1. y \in 0 .. r /\ (m = 0 => y # r) /\ y + 1 = k /\ Text(d)[sd + k] = GlyphOf(d, p, a + y)
      BY <2>1
    <3> HIDE DEF y
    <3>2. GlyphOf(d, p, a + y) = GlyphOf(e, q, b + y)
      BY <3>1 DEF SameBehind
    <3>3. Text(e)[se + (y + 1)] = GlyphOf(e, q, b + y)
      BY <1>9, <3>1
    <3> QED
      BY <3>1, <3>2, <3>3
  <2>2. ASSUME NEW j \in 1 .. m, NEW x \in 0 .. Size(d, p + j),
               sd + k = ParaStart(d, p + j) + x + 1, j = m => x # Size(d, p + j),
               Text(d)[sd + k] = GlyphOf(d, p + j, x)
        PROVE  Text(d)[sd + k] = Text(e)[se + k]
    <3>1. Alike(d, p + j, e, q + j)
      BY DEF SameBehind
    <3>2. Size(d, p + j) = Size(e, q + j) /\ GlyphOf(d, p + j, x) = GlyphOf(e, q + j, x)
      BY <3>1 DEF Alike
    <3>3. Text(e)[ParaStart(e, q + j) + x + 1] = GlyphOf(e, q + j, x)
      BY <1>10, <2>2, <3>2
    <3>4. ParaStart(e, q + j) + x + 1 = se + k
      <4> DEFINE te == ParaStart(e, q + j)
                 td == ParaStart(d, p + j)
      <4>1. j \in 1 .. m + 1
        BY <1>1
      <4>2. te + sd = td + se
        BY <1>4, <4>1
      <4>3. te \in Nat /\ td \in Nat /\ x \in Nat /\ sd + k = td + x + 1
        BY <1>11, <2>2
      <4> HIDE DEF te, td
      <4>4. te + x + 1 = se + k
        BY <1>2, <1>3, <1>12, <4>2, <4>3
      <4> QED
        BY <4>4 DEF te
    <3> QED
      BY <2>2, <3>2, <3>3, <3>4
  <2> QED
    BY <1>8, <2>1, <2>2
<1>14. After(d, p, a) \in Seq(Glyphs \cup {Line}) /\ After(e, q, b) \in Seq(Glyphs \cup {Line})
  BY <1>6, <1>7 DEF Lines
<1>15. Len(After(d, p, a)) = n /\ Len(After(e, q, b)) = n /\ \A k \in 1 .. n : After(d, p, a)[k] = After(e, q, b)[k]
  BY <1>6, <1>7, <1>12, <1>13
<1> QED
  BY <1>14, <1>15, SeqEqual

\* A text is what stands before a place, and behind it.

LEMMA TextParts ==
  ASSUME NEW d, d.paras \in Seq(Paras), NEW p \in 1 .. Len(d.paras), NEW a \in 0 .. Size(d, p)
  PROVE  /\ Text(d) = Before(d, p, a) \o After(d, p, a)
         /\ Before(d, p, a) \in Lines /\ Len(Before(d, p, a)) = ParaStart(d, p) + a
         /\ After(d, p, a) \in Lines
<1> DEFINE n == ParaStart(d, p) + a
<1>1. /\ d.paras # <<>> /\ n \in Nat /\ n <= Length(d) /\ Length(d) \in Nat
  BY SMTT(60), PlaceIs
<1>2. Text(d) \in Seq(Glyphs \cup {Line}) /\ Len(Text(d)) = Length(d)
  BY <1>1, TextIs DEF Lines
<1>3. Before(d, p, a) = SubSeq(Text(d), 1, n) /\ After(d, p, a) = SubSeq(Text(d), n + 1, Length(d))
  BY DEF Before, After
<1> HIDE DEF n
<1>4. SubSeq(Text(d), 1, n) \o SubSeq(Text(d), n + 1, Len(Text(d))) = SubSeq(Text(d), 1, Len(Text(d)))
  <2> DEFINE one == 1
             top == Len(Text(d))
  <2>1. one \in 1 .. Len(Text(d)) + 1 /\ n \in one - 1 .. Len(Text(d)) /\ top \in n .. Len(Text(d))
    BY <1>1, <1>2
  <2> HIDE DEF one, top
  <2>2. SubSeq(Text(d), one, n) \o SubSeq(Text(d), n + 1, top) = SubSeq(Text(d), one, top)
    BY <1>2, <2>1, ConcatAdjacentSubSeq
  <2> QED
    BY <2>2 DEF one, top
<1>5. SubSeq(Text(d), 1, Len(Text(d))) = Text(d)
  BY <1>2, SubSeqFull
<1>6. Before(d, p, a) \in Lines /\ Len(Before(d, p, a)) = n
  <2> DEFINE z == 0
  <2>1. z \in Nat /\ z <= n /\ n <= Len(Text(d)) /\ Text(d) \in Lines /\ z + 1 = 1 /\ n - z = n
    BY <1>1, <1>2 DEF Lines
  <2> HIDE DEF z
  <2>2. SubSeq(Text(d), z + 1, n) \in Lines /\ Len(SubSeq(Text(d), z + 1, n)) = n - z
    BY <1>1, <2>1, SubTextIs
  <2> QED
    BY <1>3, <2>1, <2>2
<1>7. After(d, p, a) \in Lines
  BY <1>1, <1>2, <1>3, SubTextIs DEF Lines
<1> QED
  BY <1>2, <1>3, <1>4, <1>5, <1>6, <1>7 DEF n

LEMMA SpliceIs ==
  ASSUME NEW t \in Lines, NEW u \in Lines, NEW g \in Lines, NEW o \in Nat, NEW n \in Nat,
         o + n <= Len(t), SubSeq(u, 1, o) = SubSeq(t, 1, o),
         o + Len(g) <= Len(u), \A k \in 1 .. Len(g) : u[o + k] = g[k],
         SubSeq(u, o + Len(g) + 1, Len(u)) = SubSeq(t, o + n + 1, Len(t))
  PROVE  u = Splice(t, o, n, g)
<1> DEFINE C == Glyphs \cup {Line}
           m == o + Len(g)
           one == 1
<1>1. u \in Seq(C) /\ g \in Seq(C) /\ Len(u) \in Nat /\ Len(g) \in Nat
  BY DEF Lines
<1>2. one \in 1 .. Len(u) + 1 /\ o \in one - 1 .. Len(u) /\ m \in o .. Len(u) /\ m \in one - 1 .. Len(u)
      /\ Len(u) \in m .. Len(u) /\ o + 1 \in 1 .. Len(u) + 1 /\ m \in o + 1 - 1 .. Len(u) /\ m \in Nat
  BY <1>1
<1>3. SubSeq(u, 1, Len(u)) = u
  BY <1>1, SubSeqFull
<1>4. SubSeq(u, o + 1, m) = g
  <2>1. o <= m /\ m <= Len(u) /\ m - o = Len(g)
    BY <1>1
  <2>2. \A k \in 1 .. Len(g) : u[o + k] = g[k]
    OBVIOUS
  <2> HIDE DEF m
  <2>3. /\ SubSeq(u, o + 1, m) \in Lines /\ Len(SubSeq(u, o + 1, m)) = m - o
        /\ \A i \in 1 .. m - o : SubSeq(u, o + 1, m)[i] = u[o + i]
    BY <1>2, <2>1, SubTextIs
  <2>4. SubSeq(u, o + 1, m) \in Seq(C)
    BY <2>3 DEF Lines
  <2>5. /\ Len(SubSeq(u, o + 1, m)) = Len(g)
        /\ \A i \in 1 .. Len(SubSeq(u, o + 1, m)) : SubSeq(u, o + 1, m)[i] = g[i]
    BY <2>1, <2>2, <2>3
  <2> HIDE DEF C
  <2> QED
    BY <1>1, <2>4, <2>5, SeqEqual
<1>5. SubSeq(u, o + Len(g) + 1, Len(u)) = SubSeq(u, m + 1, Len(u))
  OBVIOUS
<1> HIDE DEF C, m, one
<1>6. SubSeq(u, one, o) \o SubSeq(u, o + 1, m) = SubSeq(u, one, m)
  BY <1>1, <1>2, ConcatAdjacentSubSeq
<1>7. SubSeq(u, one, m) \o SubSeq(u, m + 1, Len(u)) = SubSeq(u, one, Len(u))
  BY <1>1, <1>2, ConcatAdjacentSubSeq
<1>8. u = (SubSeq(u, one, o) \o g) \o SubSeq(u, m + 1, Len(u))
  BY <1>3, <1>4, <1>6, <1>7 DEF one
<1>9. u = SubSeq(t, 1, o) \o g \o SubSeq(t, o + n + 1, Len(t))
  BY <1>5, <1>8 DEF one
<1> QED
  BY <1>9 DEF Splice

Spot(d, p, a) == d.paras \in Seq(Paras) /\ p \in 1 .. Len(d.paras) /\ a \in 0 .. Size(d, p)

LEMMA SpotIs ==
  ASSUME NEW d, NEW p, NEW a, Spot(d, p, a)
  PROVE  /\ d.paras \in Seq(Paras) /\ d.paras # <<>> /\ p \in 1 .. Len(d.paras) /\ a \in 0 .. Size(d, p)
         /\ a \in Nat /\ Size(d, p) \in Nat
         /\ Here(d, p, a) \in Nat /\ Here(d, p, a) <= Length(d) /\ Length(d) \in Nat
         /\ Text(d) \in Lines /\ Len(Text(d)) = Length(d)
         /\ Before(d, p, a) = SubSeq(Text(d), 1, Here(d, p, a))
         /\ After(d, p, a) = SubSeq(Text(d), Here(d, p, a) + 1, Length(d))
         /\ Locate(d, Here(d, p, a)) = [para |-> p, at |-> a]
<1>1. d.paras \in Seq(Paras) /\ p \in 1 .. Len(d.paras) /\ a \in 0 .. Size(d, p)
  BY DEF Spot
<1>2. /\ d.paras # <<>> /\ Length(d) \in Nat /\ ParaStart(d, p) \in Nat /\ Size(d, p) \in Nat
  BY <1>1, PlaceIs
<1>3. Locate(d, Here(d, p, a)) = [para |-> p, at |-> a] /\ Here(d, p, a) \in Nat /\ Here(d, p, a) <= Length(d)
  BY <1>1, LocateAt DEF Here
<1>4. Text(d) \in Lines /\ Len(Text(d)) = Length(d)
  BY <1>1, <1>2, TextIs
<1>5. Before(d, p, a) = SubSeq(Text(d), 1, Here(d, p, a)) /\ After(d, p, a) = SubSeq(Text(d), Here(d, p, a) + 1, Length(d))
  BY DEF Before, After, Here
<1>6. a \in Nat
  BY <1>1, <1>2
<1> QED
  BY <1>1, <1>2, <1>3, <1>4, <1>5, <1>6

Parted(d, e, p, a, q, b, q2, b2, g) ==
    /\ g \in Lines /\ Spot(d, p, a) /\ Spot(e, p, a) /\ Spot(d, q, b) /\ Spot(e, q2, b2)
    /\ Before(e, p, a) = Before(d, p, a) /\ Here(e, p, a) = Here(d, p, a)
    /\ After(e, q2, b2) = After(d, q, b)
    /\ Here(d, p, a) <= Here(d, q, b) /\ Here(e, q2, b2) = Here(e, p, a) + Len(g)
    /\ \A k \in 1 .. Len(g) : Text(e)[Here(e, p, a) + k] = g[k]

LEMMA SpliceText ==
  ASSUME NEW d, NEW e, NEW p, NEW a, NEW q, NEW b, NEW q2, NEW b2, NEW g,
         Parted(d, e, p, a, q, b, q2, b2, g)
  PROVE  Text(e) = Splice(Text(d), Here(d, p, a), Here(d, q, b) - Here(d, p, a), g)
<1> DEFINE o == Here(d, p, a)
           n == Here(d, q, b) - Here(d, p, a)
<1> USE DEF Parted
<1>1. /\ o \in Nat /\ Text(d) \in Lines /\ Text(e) \in Lines
      /\ Len(Text(d)) = Length(d) /\ Len(Text(e)) = Length(e)
  BY SpotIs
<1>2. Here(d, q, b) \in Nat /\ Here(d, q, b) <= Length(d)
  BY SpotIs
<1>3. n \in Nat /\ o + n = Here(d, q, b)
  BY <1>1, <1>2
<1>4. SubSeq(Text(e), 1, o) = SubSeq(Text(d), 1, o)
  <2>1. Before(d, p, a) = SubSeq(Text(d), 1, Here(d, p, a))
    BY SpotIs
  <2>2. Before(e, p, a) = SubSeq(Text(e), 1, Here(e, p, a))
    BY SpotIs
  <2> QED
    BY <2>1, <2>2
<1>5. Here(e, q2, b2) = o + Len(g) /\ Here(e, q2, b2) <= Length(e)
  <2>1. Here(e, q2, b2) <= Length(e)
    BY SpotIs
  <2> QED
    BY <2>1
<1>6. After(d, q, b) = SubSeq(Text(d), Here(d, q, b) + 1, Length(d))
  BY SpotIs
<1>7. After(e, q2, b2) = SubSeq(Text(e), Here(e, q2, b2) + 1, Length(e))
  BY SpotIs
<1>8. SubSeq(Text(e), o + Len(g) + 1, Len(Text(e))) = SubSeq(Text(d), o + n + 1, Len(Text(d)))
  BY <1>1, <1>3, <1>5, <1>6, <1>7
<1>9. \A k \in 1 .. Len(g) : Text(e)[o + k] = g[k]
  OBVIOUS
<1>10. o + n <= Len(Text(d)) /\ o + Len(g) <= Len(Text(e))
  BY <1>1, <1>2, <1>3, <1>5
<1> HIDE DEF o, n, Parted
<1>12. g \in Lines
  BY DEF Parted
<1>11. Text(e) = Splice(Text(d), o, n, g)
  BY <1>1, <1>3, <1>4, <1>8, <1>9, <1>10, <1>12, SpliceIs
<1> QED
  BY <1>11 DEF o, n

LEMMA ImageFinite ==
  ASSUME NEW S, IsFiniteSet(S), NEW f
  PROVE  IsFiniteSet({f[x] : x \in S})
<1> DEFINE T == {f[x] : x \in S}
           g == [x \in S |-> f[x]]
<1>1. g \in Surjection(S, T)
  BY DEF Surjection
<1> HIDE DEF g, T
<1>2. IsFiniteSet(T)
  BY <1>1, FS_Surjection
<1> QED
  BY <1>2 DEF T

\* A text from the start of one, some characters and the end of another.
GlyphIn(t, x) == IF x < Len(t) THEN t[x + 1].c ELSE Line
Pieces(t, a, g, v, b) == SubSeq(t, 1, a) \o g \o SubSeq(v, b + 1, Len(v))

LEMMA PartIs ==
  ASSUME NEW t \in Texts, NEW m \in Nat, NEW n \in Nat, m <= n, n <= Len(t)
  PROVE  /\ SubSeq(t, m + 1, n) \in Texts /\ Len(SubSeq(t, m + 1, n)) = n - m
         /\ \A i \in 1 .. n - m : SubSeq(t, m + 1, n)[i] = t[m + i]
<1> DEFINE C == [c : Glyphs, f : CharFormats]
           low == m + 1
<1>1. t \in Seq(C) /\ Len(t) \in Nat
  BY DEF Texts
<1> HIDE DEF C
<1>2. \A i \in low .. n : t[i] \in C
  <2>1. \A i \in low .. n : i \in 1 .. Len(t)
    BY <1>1
  <2> QED
    BY <1>1, <2>1, ElementOfSeq
<1>3. low \in Int /\ n \in Int
  OBVIOUS
<1>4. n - low + 1 = n - m /\ (IF low <= n THEN n - low + 1 ELSE 0) = n - m
  OBVIOUS
<1>5. \A i \in 1 .. n - m : low + i - 1 = m + i
  OBVIOUS
<1> HIDE DEF low
<1>6. /\ SubSeq(t, low, n) \in Seq(C)
      /\ Len(SubSeq(t, low, n)) = IF low <= n THEN n - low + 1 ELSE 0
      /\ \A i \in 1 .. n - low + 1 : SubSeq(t, low, n)[i] = t[low + i - 1]
  BY <1>2, <1>3, SubSeqProperties
<1>7. /\ SubSeq(t, low, n) \in Seq(C) /\ Len(SubSeq(t, low, n)) = n - m
      /\ \A i \in 1 .. n - m : SubSeq(t, low, n)[i] = t[m + i]
  BY <1>4, <1>5, <1>6
<1> QED
  BY <1>7 DEF Texts, low, C

Pieced(u, t, a, g, v, b) ==
    /\ u \in Texts /\ Len(u) = a + Len(g) + (Len(v) - b)
    /\ Len(t) \in Nat /\ Len(v) \in Nat /\ Len(g) \in Nat
    /\ \A x \in 0 .. a - 1 : GlyphIn(u, x) = GlyphIn(t, x)
    /\ \A x \in 1 .. Len(g) : GlyphIn(u, a + x - 1) = g[x].c
    /\ \A x \in 0 .. Len(v) - b : GlyphIn(u, a + Len(g) + x) = GlyphIn(v, b + x)

LEMMA PiecesAre ==
  ASSUME NEW t \in Texts, NEW a \in Nat, a <= Len(t), NEW g \in Texts,
         NEW v \in Texts, NEW b \in Nat, b <= Len(v)
  PROVE  Pieced(Pieces(t, a, g, v, b), t, a, g, v, b)
<1> DEFINE C == [c : Glyphs, f : CharFormats]
           h == SubSeq(t, 1, a)
           w == SubSeq(v, b + 1, Len(v))
           hg == h \o g
           u == hg \o w
           n == Len(g)
           l == Len(v) - b
<1>1. /\ t \in Seq(C) /\ v \in Seq(C) /\ g \in Seq(C) /\ Len(t) \in Nat /\ Len(v) \in Nat /\ n \in Nat
  BY DEF Texts
<1>2. h \in Texts /\ Len(h) = a /\ \A i \in 1 .. a : h[i] = t[i]
  <2> DEFINE z == 0
  <2>1. z \in Nat /\ z <= a /\ z + 1 = 1 /\ a - z = a /\ \A i \in 1 .. a : z + i = i
    OBVIOUS
  <2> HIDE DEF z
  <2>2. /\ SubSeq(t, z + 1, a) \in Texts /\ Len(SubSeq(t, z + 1, a)) = a - z
        /\ \A i \in 1 .. a - z : SubSeq(t, z + 1, a)[i] = t[z + i]
    BY <2>1, PartIs
  <2> QED
    BY <2>1, <2>2
<1>3. w \in Texts /\ Len(w) = l /\ \A i \in 1 .. l : w[i] = v[b + i]
  BY <1>1, PartIs
<1>4. l \in Nat
  BY <1>1
<1>5. Pieces(t, a, g, v, b) = u
  BY DEF Pieces
<1>6. h \in Seq(C) /\ w \in Seq(C)
  BY <1>2, <1>3 DEF Texts
<1>7. Len(v) = b + l
  BY <1>1
<1> HIDE DEF C, h, w, n, l
<1>8. /\ hg \in Seq(C) /\ Len(hg) = a + n
      /\ \A i \in 1 .. a + n : hg[i] = IF i <= a THEN h[i] ELSE g[i - a]
  <2>1. /\ hg \in Seq(C) /\ Len(hg) = Len(h) + Len(g)
        /\ \A i \in 1 .. Len(h) + Len(g) : hg[i] = IF i <= Len(h) THEN h[i] ELSE g[i - Len(h)]
    BY <1>1, <1>6, ConcatProperties
  <2> HIDE DEF hg
  <2> QED
    BY <1>2, <2>1 DEF n
<1> HIDE DEF hg
<1>9. /\ u \in Seq(C) /\ Len(u) = a + n + l
      /\ \A i \in 1 .. a + n + l : u[i] = IF i <= a + n THEN hg[i] ELSE w[i - (a + n)]
  <2>1. /\ u \in Seq(C) /\ Len(u) = Len(hg) + Len(w)
        /\ \A i \in 1 .. Len(hg) + Len(w) : u[i] = IF i <= Len(hg) THEN hg[i] ELSE w[i - Len(hg)]
    BY <1>6, <1>8, ConcatProperties
  <2> HIDE DEF u
  <2> QED
    BY <1>3, <1>8, <2>1
<1> HIDE DEF u
<1>10. ASSUME NEW x \in 0 .. a - 1 PROVE GlyphIn(u, x) = GlyphIn(t, x)
  <2>1. x < Len(u) /\ x < Len(t) /\ x + 1 \in 1 .. a /\ x + 1 \in 1 .. a + n /\ x + 1 \in 1 .. a + n + l
        /\ x + 1 <= a + n /\ x + 1 <= a
    BY <1>1, <1>4, <1>9
  <2>2. u[x + 1] = t[x + 1]
    BY <1>2, <1>8, <1>9, <2>1
  <2> QED
    BY <2>1, <2>2 DEF GlyphIn
<1>11. ASSUME NEW x \in 1 .. n PROVE GlyphIn(u, a + x - 1) = g[x].c
  <2> DEFINE k == a + x
  <2>1. /\ a + x - 1 < Len(u) /\ a + x - 1 + 1 = k /\ k \in 1 .. a + n /\ k \in 1 .. a + n + l
        /\ k <= a + n /\ ~(k <= a) /\ k - a = x
    BY <1>1, <1>4, <1>9
  <2> HIDE DEF k
  <2>2. u[k] = g[x]
    BY <1>8, <1>9, <2>1
  <2> QED
    BY <2>1, <2>2 DEF GlyphIn
<1>12. ASSUME NEW x \in 0 .. l PROVE GlyphIn(u, a + n + x) = GlyphIn(v, b + x)
  <2>1. CASE x = l
    <3>1. ~(a + n + x < Len(u)) /\ ~(b + x < Len(v))
      BY <1>1, <1>4, <1>7, <1>9, <2>1
    <3> QED
      BY <3>1 DEF GlyphIn
  <2>2. CASE x # l
    <3> DEFINE k == a + n + x + 1
    <3>1. /\ a + n + x < Len(u) /\ b + x < Len(v) /\ k \in 1 .. a + n + l
          /\ ~(k <= a + n) /\ k - (a + n) = x + 1 /\ x + 1 \in 1 .. l /\ b + (x + 1) = b + x + 1
      BY <1>1, <1>4, <1>7, <1>9, <2>2
    <3>2. k = a + n + x + 1
      OBVIOUS
    <3> HIDE DEF k
    <3>3. u[k] = w[x + 1]
      BY <1>9, <3>1
    <3>4. w[x + 1] = v[b + (x + 1)]
      BY <1>3, <3>1
    <3> QED
      BY <3>1, <3>2, <3>3, <3>4 DEF GlyphIn
  <2> QED
    BY <2>1, <2>2
<1>13. u \in Texts
  BY <1>9 DEF Texts, C
<1> QED
  BY <1>1, <1>5, <1>9, <1>10, <1>11, <1>12, <1>13 DEF n, l, Pieced

LEMMA WholeIs ==
  ASSUME NEW d, Whole(d)
  PROVE  /\ d \in Documents /\ d.paras \in Seq(Paras) /\ d.paras # <<>> /\ Len(d.paras) \in Nat \ {0}
         /\ d.next \in Nat /\ Length(d) \in Nat /\ Text(d) \in Lines /\ Len(Text(d)) = Length(d)
         /\ d = [d EXCEPT !.paras = d.paras]
<1>1. d \in Documents /\ d.paras # <<>>
  BY DEF Whole
<1>2. d.paras \in Seq(Paras) /\ d.next \in Nat /\ d = [d EXCEPT !.paras = d.paras]
  BY <1>1 DEF Documents
<1>3. Len(d.paras) \in Nat \ {0}
  BY <1>1, <1>2
<1>4. Length(d) \in Nat
  BY <1>1, <1>2, LengthIs
<1>5. Text(d) \in Lines /\ Len(Text(d)) = Length(d)
  BY <1>1, <1>2, TextIs
<1> QED
  BY <1>1, <1>2, <1>3, <1>4, <1>5

LEMMA ChangeOne ==
  ASSUME NEW d, Whole(d), NEW p \in 1 .. Len(d.paras), NEW x \in Paras,
         x.id = d.paras[p].id, d.paras[p].rev < x.rev
  PROVE  LET c == [d EXCEPT !.paras[p] = x]
         IN  /\ Changes(d, c) /\ c.paras \in Seq(Paras) /\ Len(c.paras) = Len(d.paras) /\ c.paras[p] = x
             /\ \A i \in 1 .. Len(d.paras) : i # p => c.paras[i] = d.paras[i]
<1> DEFINE ps == [d.paras EXCEPT ![p] = x]
           c == [d EXCEPT !.paras[p] = x]
<1>1. d.paras \in Seq(Paras) /\ Len(d.paras) \in Nat
  BY WholeIs
<1>2. ps \in Seq(Paras) /\ Len(ps) = Len(d.paras) /\ ps[p] = x
      /\ \A i \in 1 .. Len(d.paras) : i # p => ps[i] = d.paras[i]
  BY <1>1
<1>3. c = [d EXCEPT !.paras = ps]
  <2>1. d \in Documents
    BY WholeIs
  <2> QED
    BY <2>1 DEF Documents
<1> HIDE DEF ps, c
<1>4. \A i \in 1 .. Len(d.paras) : ps[i].id = d.paras[i].id /\ (d.paras[i] = ps[i] \/ d.paras[i].rev < ps[i].rev)
  BY <1>2
<1>5. Changes(d, [d EXCEPT !.paras = ps]) /\ [d EXCEPT !.paras = ps].paras = ps
  BY <1>2, <1>4, InPlaceIs
<1>6. Changes(d, c) /\ c.paras = ps
  BY <1>3, <1>5
<1> QED
  BY <1>2, <1>6 DEF c

LEMMA GlyphsOf ==
  ASSUME NEW d, NEW p, NEW x
  PROVE  GlyphOf(d, p, x) = GlyphIn(d.paras[p].text, x)
  BY DEF GlyphOf, GlyphAt, GlyphIn

LEMMA SameText ==
  ASSUME NEW d, NEW p, NEW e, NEW q, d.paras[p].text = e.paras[q].text
  PROVE  Alike(d, p, e, q)
<1>1. Size(d, p) = Size(e, q)
  BY DEF Size
<1>2. \A x : GlyphOf(d, p, x) = GlyphOf(e, q, x)
  BY GlyphsOf
<1> QED
  BY <1>1, <1>2 DEF Alike

LEMMA CharsAre ==
  ASSUME NEW g \in Seq(Glyphs), NEW f \in CharFormats
  PROVE  /\ Chars(g, f) \in Texts /\ Len(Chars(g, f)) = Len(g) /\ Len(g) \in Nat
         /\ \A x \in 1 .. Len(g) : Chars(g, f)[x].c = g[x]
<1>1. Len(g) \in Nat /\ DOMAIN g = 1 .. Len(g) /\ \A x \in 1 .. Len(g) : g[x] \in Glyphs
  OBVIOUS
<1>2. Chars(g, f) = [k \in 1 .. Len(g) |-> [c |-> g[k], f |-> f]]
  BY <1>1 DEF Chars
<1>3. Chars(g, f) \in Seq([c : Glyphs, f : CharFormats]) /\ Len(Chars(g, f)) = Len(g)
  BY <1>1, <1>2
<1> QED
  BY <1>1, <1>2, <1>3 DEF Texts

LEMMA TouchedIs ==
  ASSUME NEW x \in Paras
  PROVE  LET y == Touched(x)
         IN  /\ y \in Paras /\ y.id = x.id /\ y.rev = x.rev + 1 /\ x.rev < y.rev
             /\ y.text = x.text /\ y.format = x.format /\ y.images = x.images
<1>1. x.rev \in Nat
  BY DEF Paras
<1>2. LET y == Touched(x)
      IN  /\ y \in Paras /\ y.id = x.id /\ y.rev = x.rev + 1
          /\ y.text = x.text /\ y.format = x.format /\ y.images = x.images
  BY DEF Paras, Touched
<1> QED
  BY <1>1, <1>2

\* What Insertion() does to a paragraph.
LEMMA InsertionIs ==
  ASSUME NEW x \in Paras, NEW a \in Nat, NEW chars \in Texts,
         Pieces(x.text, a, chars, x.text, a) \in Texts
  PROVE  LET y == Insertion(x, a, chars)
         IN  /\ y.text = Pieces(x.text, a, chars, x.text, a) /\ y.id = x.id /\ x.rev < y.rev
             /\ y \in Paras
<1> DEFINE n == Len(chars)
           move == [k \in x.images |-> IF k >= a THEN k + n ELSE k]
           m == {IF k >= a THEN k + n ELSE k : k \in x.images}
           u == Pieces(x.text, a, chars, x.text, a)
           y == [x EXCEPT !.text = u, !.images = m]
<1>1. n \in Nat
  BY DEF Texts
<1>2. Insertion(x, a, chars) = Touched(y)
  BY DEF Insertion, Pieces
<1>3. m \in Places1
  <2>1. m = {move[k] : k \in x.images}
    OBVIOUS
  <2>2. IsFiniteSet(x.images) /\ x.images \subseteq Nat
    BY DEF Places1, Paras
  <2>3. m \subseteq Nat
    BY <1>1, <2>2
  <2> HIDE DEF move, m
  <2>4. IsFiniteSet(m)
    BY <2>1, <2>2, ImageFinite
  <2> QED
    BY <2>3, <2>4 DEF Places1
<1>4. u \in Texts
  OBVIOUS
<1> HIDE DEF u, m
<1>5. y \in Paras /\ y.id = x.id /\ y.rev = x.rev /\ y.text = u
  BY <1>3, <1>4 DEF Paras
<1> HIDE DEF y
<1>6. LET z == Touched(y) IN z \in Paras /\ z.id = y.id /\ y.rev < z.rev /\ z.text = y.text
  BY <1>5, TouchedIs
<1> QED
  BY <1>2, <1>5, <1>6 DEF u

LEMMA LocateSpot ==
  ASSUME NEW d, Whole(d), NEW o \in Nat
  PROVE  LET i == Locate(d, o)
         IN  /\ Spot(d, i.para, i.at) /\ i = [para |-> i.para, at |-> i.at]
             /\ o <= Length(d) => o = Here(d, i.para, i.at)
             /\ o > Length(d) => Here(d, i.para, i.at) = Length(d)
<1>1. d.paras \in Seq(Paras) /\ d.paras # <<>>
  BY WholeIs
<1> DEFINE i == Locate(d, o)
<1>2. /\ IsPlace(d, i) /\ i = [para |-> i.para, at |-> i.at]
      /\ o <= Length(d) => o = ParaStart(d, i.para) + i.at
      /\ o > Length(d) => i.para = Len(d.paras) /\ i.at = Size(d, i.para)
  BY <1>1, LocateIs
<1> HIDE DEF i
<1>3. Spot(d, i.para, i.at)
  BY <1>1, <1>2 DEF Spot, IsPlace
<1>4. ASSUME o > Length(d) PROVE Here(d, i.para, i.at) = Length(d)
  <2>1. i.para \in 1 .. Len(d.paras)
    BY <1>3 DEF Spot
  <2>2. /\ ParaEnd(d, i.para) = ParaStart(d, i.para) + Size(d, i.para)
        /\ ParaEnd(d, i.para) = Length(d)
    BY <1>1, <1>2, <1>4, <2>1, PlaceIs
  <2> QED
    BY <1>2, <1>4, <2>2 DEF Here
<1> QED
  BY <1>2, <1>3, <1>4 DEF Here, i

LEMMA FormatsAre ==
  ASSUME NEW x \in Paras, NEW a \in 0 .. Len(x.text)
  PROVE  FormatForInsert(x, a) \in CharFormats
<1>1. x.text \in Texts
  BY DEF Paras
<1>2. Plain \in CharFormats
  BY WriterAssumption
<1>3. ASSUME x.text # <<>>
      PROVE  x.text[IF a > 0 THEN a ELSE 1].f \in CharFormats
  <2>1. Len(x.text) \in Nat /\ Len(x.text) # 0 /\ x.text \in Seq([c : Glyphs, f : CharFormats])
    BY <1>1, <1>3 DEF Texts
  <2> DEFINE k == IF a > 0 THEN a ELSE 1
  <2>2. k \in 1 .. Len(x.text)
    BY <2>1
  <2> HIDE DEF k
  <2>3. x.text[k] \in [c : Glyphs, f : CharFormats]
    BY <2>1, <2>2, ElementOfSeq
  <2>4. x.text[k].f \in CharFormats
    BY <2>3
  <2> QED
    BY <2>4 DEF k
<1> QED
  BY <1>2, <1>3 DEF FormatForInsert

LEMMA SpotHere ==
  ASSUME NEW d, NEW e, NEW p, NEW a, Spot(d, p, a), Spot(e, p, a), SameBefore(d, e, p, a)
  PROVE  Before(e, p, a) = Before(d, p, a) /\ Here(e, p, a) = Here(d, p, a)
<1>1. /\ d.paras \in Seq(Paras) /\ e.paras \in Seq(Paras)
      /\ p \in 1 .. Len(d.paras) /\ p \in 1 .. Len(e.paras) /\ a \in 0 .. Size(d, p) /\ a \in 0 .. Size(e, p)
  BY DEF Spot
<1>2. p <= Len(e.paras)
  BY <1>1
<1>3. a <= Size(e, p)
  <2>1. Size(e, p) \in Nat
    BY <1>1, PlaceIs
  <2> QED
    BY <1>1, <2>1
<1>4. Before(d, p, a) = Before(e, p, a) /\ ParaStart(d, p) = ParaStart(e, p)
  BY <1>1, <1>2, <1>3, BeforeSame
<1> QED
  BY <1>4 DEF Here

LEMMA RestAt ==
  ASSUME NEW d, NEW p, NEW a, Spot(d, p, a)
  PROVE  Rest(d, p, a, Size(d, p) - a, Len(d.paras) - p)
<1>1. d.paras \in Seq(Paras) /\ p \in 1 .. Len(d.paras) /\ a \in Nat /\ Size(d, p) \in Nat /\ a \in 0 .. Size(d, p)
  BY SpotIs
<1>2. Len(d.paras) \in Nat /\ p \in Nat
  BY <1>1
<1> QED
  BY <1>1, <1>2 DEF Rest

LEMMA PlacedAtIs ==
  ASSUME NEW d, Whole(d), NEW p, NEW a, Spot(d, p, a), NEW g \in Seq(Glyphs), NEW f \in SUBSET CharFormats
  PROVE  LET c == PlacedAt(d, [para |-> p, at |-> a], g, f)
         IN  /\ Changes(d, c) /\ Len(c.paras) = Len(d.paras)
             /\ Text(c) = Splice(Text(d), Here(d, p, a), 0, g)
<1> DEFINE x == d.paras[p]
           offered == IF f = {} THEN {FormatForInsert(x, a)} ELSE f
           h == CHOOSE y \in offered : TRUE
           chars == Chars(g, h)
           y == Insertion(x, a, chars)
           c == [d EXCEPT !.paras[p] = y]
           n == Len(g)
           s == Len(x.text)
           u == Pieces(x.text, a, chars, x.text, a)
<1>1. /\ d.paras \in Seq(Paras) /\ p \in 1 .. Len(d.paras) /\ a \in Nat /\ a \in 0 .. s /\ s \in Nat
  BY SpotIs DEF Size
<1>2. x \in Paras /\ x.text \in Texts
  BY <1>1, ParasAre
<1>3. PlacedAt(d, [para |-> p, at |-> a], g, f) = c
  BY DEF PlacedAt
<1>4. h \in CharFormats
  <2> HIDE DEF x
  <2>1. FormatForInsert(x, a) \in CharFormats
    BY <1>1, <1>2, FormatsAre DEF x
  <2>2. offered \subseteq CharFormats /\ offered # {}
    BY <2>1
  <2> HIDE DEF offered
  <2> QED
    BY <2>2
<1> HIDE DEF x, h
<1>5. /\ chars \in Texts /\ Len(chars) = n /\ n \in Nat
      /\ \A k \in 1 .. n : chars[k].c = g[k]
  BY <1>4, CharsAre
<1> HIDE DEF chars
<1>6. /\ u \in Texts /\ Len(u) = a + n + (s - a)
      /\ \A k \in 0 .. a - 1 : GlyphIn(u, k) = GlyphIn(x.text, k)
      /\ \A k \in 1 .. n : GlyphIn(u, a + k - 1) = chars[k].c
      /\ \A k \in 0 .. s - a : GlyphIn(u, a + n + k) = GlyphIn(x.text, a + k)
  <2>1. a <= Len(x.text)
    BY <1>1
  <2> DEFINE t == x.text
  <2>2. t \in Texts /\ a \in Nat /\ a <= Len(t) /\ chars \in Texts
    BY <1>1, <1>2, <1>5, <2>1
  <2>3. u = Pieces(t, a, chars, t, a) /\ s = Len(t)
    OBVIOUS
  <2> HIDE DEF t, u, s
  <2> DEFINE w == Pieces(t, a, chars, t, a)
  <2>4. Pieced(w, t, a, chars, t, a)
    BY <2>2, PiecesAre
  <2> QED
    BY <1>5, <2>3, <2>4 DEF t, Pieced
<1>7. y.text = u /\ y.id = x.id /\ x.rev < y.rev /\ y \in Paras
  BY <1>1, <1>2, <1>5, <1>6, InsertionIs
<1> HIDE DEF y, u
<1>8. /\ Changes(d, c) /\ c.paras \in Seq(Paras) /\ Len(c.paras) = Len(d.paras) /\ c.paras[p] = y
      /\ \A i \in 1 .. Len(d.paras) : i # p => c.paras[i] = d.paras[i]
  BY ZenonT(60), <1>1, <1>7, ChangeOne DEF x
<1> HIDE DEF c
<1>9. Size(c, p) = s + n /\ Size(d, p) = s /\ Size(c, p) \in Nat
  <2>1. Size(c, p) = Len(u) /\ Size(d, p) = s
    BY <1>7, <1>8 DEF Size, x
  <2> HIDE DEF s
  <2>2. Len(u) = s + n
    BY <1>1, <1>5, <1>6
  <2> QED
    BY <1>1, <1>5, <2>1, <2>2
<1>10. Spot(c, p, a) /\ Spot(c, p, a + n)
  BY <1>1, <1>5, <1>8, <1>9 DEF Spot
<1>11. /\ \A k \in 0 .. a - 1 : GlyphOf(c, p, k) = GlyphOf(d, p, k)
       /\ \A k \in 1 .. n : GlyphOf(c, p, a + k - 1) = g[k]
       /\ \A k \in 0 .. s - a : GlyphOf(c, p, a + n + k) = GlyphOf(d, p, a + k)
  BY <1>5, <1>6, <1>7, <1>8, GlyphsOf DEF x
<1>12. \A i \in 1 .. Len(d.paras) : i # p => Alike(d, i, c, i)
  BY <1>8, SameText
<1>13. SameBefore(d, c, p, a)
  BY <1>1, <1>11, <1>12 DEF SameBefore
<1>14. Before(c, p, a) = Before(d, p, a) /\ Here(c, p, a) = Here(d, p, a)
  BY <1>10, <1>13, SpotHere
<1> DEFINE r == s - a
           m == Len(d.paras) - p
           b == a + n
<1>15. r \in Nat /\ m \in Nat /\ b \in Nat /\ b = a + n /\ Size(c, p) - b = r
  <2>1. a \in Nat /\ s \in Nat /\ n \in Nat /\ a <= s /\ Size(c, p) = s + n
    BY <1>1, <1>5, <1>9
  <2>2. m \in Nat
    BY <1>1
  <2> HIDE DEF s, n, m
  <2> QED
    BY <2>1, <2>2
<1>16. Rest(d, p, a, r, m)
  BY <1>9, RestAt
<1>17. Rest(c, p, b, r, m)
  <2>1. Rest(c, p, b, Size(c, p) - b, Len(c.paras) - p)
    BY <1>10, RestAt
  <2> QED
    BY <1>8, <1>15, <2>1
<1>18. SameBehind(d, p, a, c, p, b, r, m)
  <2>1. \A k \in 0 .. r : GlyphOf(d, p, a + k) = GlyphOf(c, p, b + k)
    BY <1>11
  <2>2. \A i \in 1 .. m : Alike(d, p + i, c, p + i)
    <3>1. \A i \in 1 .. m : p + i \in 1 .. Len(d.paras) /\ p + i # p
      BY <1>1
    <3> QED
      BY <1>12, <3>1
  <2> QED
    BY <2>1, <2>2 DEF SameBehind
<1> HIDE DEF r, m, b
<1>19. After(d, p, a) = After(c, p, b)
  BY <1>16, <1>17, <1>18, AfterSame
<1>20. Here(c, p, b) = Here(c, p, a) + n
  <2>1. ParaStart(c, p) \in Nat
    BY <1>1, <1>8, PlaceIs
  <2> QED
    BY <1>1, <1>5, <1>15, <2>1 DEF Here
<1>21. \A k \in 1 .. n : Text(c)[Here(c, p, a) + k] = g[k]
  <2> SUFFICES ASSUME NEW k \in 1 .. n PROVE Text(c)[Here(c, p, a) + k] = g[k]
    OBVIOUS
  <2> DEFINE l == a + k - 1
  <2>1. l \in 0 .. Size(c, p) /\ l # Size(c, p) /\ l + 1 = a + k /\ l \in Nat
    <3>1. a \in Nat /\ s \in Nat /\ n \in Nat /\ a <= s /\ Size(c, p) = s + n
      BY <1>1, <1>5, <1>9
    <3> HIDE DEF s, n
    <3> QED
      BY <3>1
  <2>2. GlyphOf(c, p, l) = g[k]
    BY <1>11
  <2> HIDE DEF l
  <2>3. Text(c)[ParaStart(c, p) + l + 1] = GlyphOf(c, p, l)
    BY <1>1, <1>8, <2>1, TextAt DEF GlyphOf
  <2>4. ParaStart(c, p) + l + 1 = Here(c, p, a) + k
    <3>1. ParaStart(c, p) \in Nat
      BY <1>1, <1>8, PlaceIs
    <3> DEFINE z == ParaStart(c, p)
    <3>2. Here(c, p, a) = z + a /\ z \in Nat /\ a \in Nat
      BY <1>1, <3>1 DEF Here
    <3> HIDE DEF z
    <3>3. z + l + 1 = Here(c, p, a) + k
      BY <2>1, <3>2
    <3> QED
      BY <3>3 DEF z
  <2> QED
    BY <2>2, <2>3, <2>4
<1>22. g \in Lines /\ Len(g) = n
  BY DEF Lines, n
<1>23. Here(d, p, a) \in Nat
  BY SpotIs
<1> HIDE DEF n
<1>24. Text(c) = Splice(Text(d), Here(d, p, a), Here(d, p, a) - Here(d, p, a), g)
  <2>1. Spot(c, p, b) /\ Here(d, p, a) <= Here(d, p, a) /\ Here(c, p, b) = Here(c, p, a) + Len(g)
    BY <1>10, <1>15, <1>20, <1>22, <1>23
  <2>2. \A k \in 1 .. Len(g) : Text(c)[Here(c, p, a) + k] = g[k]
    BY <1>21, <1>22
  <2>9. Parted(d, c, p, a, p, a, p, b, g)
    BY <1>10, <1>14, <1>19, <1>22, <2>1, <2>2 DEF Parted
  <2> QED
    BY <2>9, SpliceText
<1>25. Here(d, p, a) - Here(d, p, a) = 0
  BY <1>23
<1> QED
  BY <1>3, <1>8, <1>24, <1>25

\* The start of a sequence, another one, and the end of a third.
Pasted(u, C, t, a, g, v, b) ==
    /\ u \in Seq(C) /\ Len(u) = a + Len(g) + (Len(v) - b) /\ Len(u) \in Nat
    /\ \A x \in 1 .. a : u[x] = t[x]
    /\ \A x \in 1 .. Len(g) : u[a + x] = g[x]
    /\ \A x \in 1 .. Len(v) - b : u[a + Len(g) + x] = v[b + x]

LEMMA PartOf ==
  ASSUME NEW C, NEW t \in Seq(C), NEW m \in Nat, NEW n \in Nat, m <= n, n <= Len(t)
  PROVE  /\ SubSeq(t, m + 1, n) \in Seq(C) /\ Len(SubSeq(t, m + 1, n)) = n - m
         /\ \A i \in 1 .. n - m : SubSeq(t, m + 1, n)[i] = t[m + i]
<1> DEFINE low == m + 1
<1>1. Len(t) \in Nat
  OBVIOUS
<1>2. \A i \in low .. n : t[i] \in C
  <2>1. \A i \in low .. n : i \in 1 .. Len(t)
    BY <1>1
  <2> QED
    BY <1>1, <2>1, ElementOfSeq
<1>3. low \in Int /\ n \in Int
  OBVIOUS
<1>4. n - low + 1 = n - m /\ (IF low <= n THEN n - low + 1 ELSE 0) = n - m
  OBVIOUS
<1>5. \A i \in 1 .. n - m : low + i - 1 = m + i
  OBVIOUS
<1> HIDE DEF low
<1>6. /\ SubSeq(t, low, n) \in Seq(C)
      /\ Len(SubSeq(t, low, n)) = IF low <= n THEN n - low + 1 ELSE 0
      /\ \A i \in 1 .. n - low + 1 : SubSeq(t, low, n)[i] = t[low + i - 1]
  BY SMTT(60), <1>2, <1>3, SubSeqProperties
<1>7. /\ SubSeq(t, low, n) \in Seq(C) /\ Len(SubSeq(t, low, n)) = n - m
      /\ \A i \in 1 .. n - m : SubSeq(t, low, n)[i] = t[m + i]
  BY <1>4, <1>5, <1>6
<1> QED
  BY <1>7 DEF low

LEMMA PastedIs ==
  ASSUME NEW C, NEW t \in Seq(C), NEW a \in Nat, a <= Len(t), NEW g \in Seq(C),
         NEW v \in Seq(C), NEW b \in Nat, b <= Len(v)
  PROVE  Pasted(Pieces(t, a, g, v, b), C, t, a, g, v, b)
<1> DEFINE h == SubSeq(t, 1, a)
           w == SubSeq(v, b + 1, Len(v))
           hg == h \o g
           u == hg \o w
           n == Len(g)
           l == Len(v) - b
<1>1. Len(t) \in Nat /\ Len(v) \in Nat /\ n \in Nat
  OBVIOUS
<1>2. h \in Seq(C) /\ Len(h) = a /\ \A i \in 1 .. a : h[i] = t[i]
  <2> DEFINE z == 0
  <2>1. z \in Nat /\ z <= a /\ z + 1 = 1 /\ a - z = a /\ \A i \in 1 .. a : z + i = i
    OBVIOUS
  <2> HIDE DEF z
  <2>2. /\ SubSeq(t, z + 1, a) \in Seq(C) /\ Len(SubSeq(t, z + 1, a)) = a - z
        /\ \A i \in 1 .. a - z : SubSeq(t, z + 1, a)[i] = t[z + i]
    BY <2>1, PartOf
  <2> QED
    BY <2>1, <2>2
<1>3. w \in Seq(C) /\ Len(w) = l /\ \A i \in 1 .. l : w[i] = v[b + i]
  BY <1>1, PartOf
<1>4. l \in Nat
  BY <1>1
<1>5. Pieces(t, a, g, v, b) = u
  BY DEF Pieces
<1> HIDE DEF h, w, n, l
<1>6. /\ hg \in Seq(C) /\ Len(hg) = a + n
      /\ \A i \in 1 .. a + n : hg[i] = IF i <= a THEN h[i] ELSE g[i - a]
  <2>1. /\ hg \in Seq(C) /\ Len(hg) = Len(h) + Len(g)
        /\ \A i \in 1 .. Len(h) + Len(g) : hg[i] = IF i <= Len(h) THEN h[i] ELSE g[i - Len(h)]
    BY <1>2, ConcatProperties
  <2> HIDE DEF hg
  <2> QED
    BY <1>2, <2>1 DEF n
<1> HIDE DEF hg
<1>7. /\ u \in Seq(C) /\ Len(u) = a + n + l
      /\ \A i \in 1 .. a + n + l : u[i] = IF i <= a + n THEN hg[i] ELSE w[i - (a + n)]
  <2>1. /\ u \in Seq(C) /\ Len(u) = Len(hg) + Len(w)
        /\ \A i \in 1 .. Len(hg) + Len(w) : u[i] = IF i <= Len(hg) THEN hg[i] ELSE w[i - Len(hg)]
    BY <1>3, <1>6, ConcatProperties
  <2> HIDE DEF u
  <2> QED
    BY <1>3, <1>6, <2>1
<1> HIDE DEF u
<1>8. ASSUME NEW x \in 1 .. a PROVE u[x] = t[x]
  <2>1. x \in 1 .. a + n /\ x \in 1 .. a + n + l /\ x <= a + n /\ x <= a
    BY <1>1, <1>4
  <2> QED
    BY <1>2, <1>6, <1>7, <2>1
<1>9. ASSUME NEW x \in 1 .. n PROVE u[a + x] = g[x]
  <2> DEFINE k == a + x
  <2>1. k \in 1 .. a + n /\ k \in 1 .. a + n + l /\ k <= a + n /\ ~(k <= a) /\ k - a = x
    BY <1>1, <1>4
  <2> HIDE DEF k
  <2>2. u[k] = g[x]
    BY <1>6, <1>7, <2>1
  <2> QED
    BY <2>2 DEF k
<1>10. ASSUME NEW x \in 1 .. l PROVE u[a + n + x] = v[b + x]
  <2> DEFINE k == a + n + x
  <2>1. k \in 1 .. a + n + l /\ ~(k <= a + n) /\ k - (a + n) = x
    BY <1>1, <1>4
  <2> HIDE DEF k
  <2>2. u[k] = w[x]
    BY <1>7, <2>1
  <2>3. w[x] = v[b + x]
    BY <1>3
  <2> QED
    BY <2>2, <2>3 DEF k
<1>11. a + n + l \in Nat
  BY <1>1, <1>4
<1> QED
  BY <1>5, <1>7, <1>8, <1>9, <1>10, <1>11 DEF n, l, Pasted

\* Paragraphs that come from those of a document, with or without a change,
\* or are new.
Rebuilt(d, qs, from, nx) ==
    /\ qs \in Seq(Paras) /\ qs # <<>> /\ nx \in Nat /\ d.next <= nx
    /\ \A i \in 1 .. Len(qs) : from[i] \in 0 .. Len(d.paras)
    /\ \A i \in 1 .. Len(qs) : from[i] = 0 => d.next <= qs[i].id /\ qs[i].id < nx
    /\ \A i \in 1 .. Len(qs) : from[i] # 0 =>
         /\ qs[i].id = d.paras[from[i]].id
         /\ d.paras[from[i]] = qs[i] \/ d.paras[from[i]].rev < qs[i].rev
    /\ \A i, j \in 1 .. Len(qs) : from[i] = from[j] => i = j

LEMMA RebuiltIs ==
  ASSUME NEW d, Whole(d), NEW qs, NEW from, NEW nx, Rebuilt(d, qs, from, nx),
         NEW c \in Documents, c.paras = qs, c.next = nx,
         c.undo = d.undo /\ c.redo = d.redo /\ c.modified = d.modified,
         c.quiet = d.quiet /\ c.stray = d.stray
  PROVE  Changes(d, c)
<1>1. d.paras \in Seq(Paras) /\ d.next \in Nat
  BY WholeIs
<1>2. qs \in Seq(Paras) /\ DOMAIN qs = 1 .. Len(qs) /\ DOMAIN d.paras = 1 .. Len(d.paras)
      /\ Len(qs) \in Nat /\ Len(d.paras) \in Nat
  BY <1>1 DEF Rebuilt
<1>3. \A p \in 1 .. Len(d.paras) : d.paras[p].id \in Nat /\ d.paras[p].id < d.next
  <2>1. \A p \in 1 .. Len(d.paras) : d.paras[p] \in Paras
    BY <1>1, ParasAre
  <2> QED
    BY <1>2, <2>1 DEF Whole, Paras
<1>4. nx \in Nat /\ d.next <= nx
  BY DEF Rebuilt
<1>5. \A i \in 1 .. Len(qs) : qs[i].id \in Nat
  <2>1. \A i \in 1 .. Len(qs) : qs[i] \in Paras
    BY <1>2, ElementOfSeq
  <2> QED
    BY <2>1 DEF Paras
<1>6. ASSUME NEW i \in 1 .. Len(qs), from[i] # 0
      PROVE  /\ from[i] \in 1 .. Len(d.paras) /\ qs[i].id = d.paras[from[i]].id
             /\ qs[i].id < d.next
             /\ d.paras[from[i]] = qs[i] \/ d.paras[from[i]].rev < qs[i].rev
  <2>1. from[i] \in 1 .. Len(d.paras)
    BY <1>2, <1>6 DEF Rebuilt
  <2>2. qs[i].id = d.paras[from[i]].id /\ (d.paras[from[i]] = qs[i] \/ d.paras[from[i]].rev < qs[i].rev)
    BY <1>6 DEF Rebuilt
  <2> QED
    BY <1>3, <2>1, <2>2
<1>7. \A i \in 1 .. Len(qs) : qs[i].id < nx
  <2> SUFFICES ASSUME NEW i \in 1 .. Len(qs) PROVE qs[i].id < nx
    OBVIOUS
  <2>1. CASE from[i] = 0
    BY <2>1 DEF Rebuilt
  <2>2. CASE from[i] # 0
    <3>1. qs[i].id < d.next
      BY <1>6, <2>2
    <3> QED
      BY <1>1, <1>4, <1>5, <3>1
  <2> QED
    BY <2>1, <2>2
<1>8. ASSUME NEW i \in 1 .. Len(qs), NEW j \in 1 .. Len(qs), qs[i].id = qs[j].id
      PROVE  i = j
  <2>1. CASE from[i] = 0 /\ from[j] = 0
    BY SMTT(60), <2>1 DEF Rebuilt
  <2>2. CASE from[i] # 0 /\ from[j] # 0
    <3>1. from[i] \in 1 .. Len(d.paras) /\ from[j] \in 1 .. Len(d.paras)
          /\ d.paras[from[i]].id = d.paras[from[j]].id
      BY <1>6, <1>8, <2>2
    <3>2. from[i] = from[j]
      BY <1>2, <3>1 DEF Whole
    <3> QED
      BY <3>2 DEF Rebuilt
  <2>3. CASE from[i] = 0 /\ from[j] # 0
    <3>1. d.next <= qs[i].id /\ qs[j].id < d.next
      BY <1>6, <2>3 DEF Rebuilt
    <3> QED
      BY <1>1, <1>5, <1>8, <3>1
  <2>4. CASE from[i] # 0 /\ from[j] = 0
    <3>1. d.next <= qs[j].id /\ qs[i].id < d.next
      BY <1>6, <2>4 DEF Rebuilt
    <3> QED
      BY <1>1, <1>5, <1>8, <3>1
  <2> QED
    BY <2>1, <2>2, <2>3, <2>4
<1>9. Whole(c)
  <2>1. c.paras # <<>> /\ DOMAIN c.paras = 1 .. Len(qs)
    BY <1>2 DEF Rebuilt
  <2> QED
    BY <1>7, <1>8, <2>1 DEF Whole
<1>10. Evolves(d, c)
  <2> SUFFICES ASSUME NEW i \in 1 .. Len(qs), ~(d.next <= qs[i].id)
               PROVE  \E p \in 1 .. Len(d.paras) :
                        /\ d.paras[p].id = qs[i].id
                        /\ d.paras[p] = qs[i] \/ d.paras[p].rev < qs[i].rev
    BY <1>2, <1>4 DEF Evolves
  <2>1. from[i] # 0
    BY DEF Rebuilt
  <2> QED
    BY <1>6, <2>1
<1> QED
  BY <1>9, <1>10 DEF Changes

LEMMA HalvesAre ==
  ASSUME NEW d, Whole(d), NEW x \in Paras, NEW a \in 0 .. Len(x.text)
  PROVE  /\ FirstHalf(x, a) \in Paras /\ FirstHalf(x, a).id = x.id /\ x.rev < FirstHalf(x, a).rev
         /\ FirstHalf(x, a).text = SubSeq(x.text, 1, a)
         /\ SecondHalf(d, x, a) \in Paras /\ SecondHalf(d, x, a).id = d.next
         /\ SecondHalf(d, x, a).text = SubSeq(x.text, a + 1, Len(x.text))
<1>1. x.text \in Texts /\ x.images \in Places1 /\ x.format \in ParaFormats /\ x.id \in Nat
  BY DEF Paras
<1>2. Len(x.text) \in Nat /\ a \in Nat /\ a <= Len(x.text)
  BY <1>1 DEF Texts
<1> DEFINE t1 == SubSeq(x.text, 1, a)
           t2 == SubSeq(x.text, a + 1, Len(x.text))
           m1 == {k \in x.images : k < a}
           late == {i \in x.images : i >= a}
           back == [k \in late |-> k - a]
           m2 == {k - a : k \in late}
           y == [x EXCEPT !.text = t1, !.images = m1]
<1>3. t1 \in Texts
  <2> DEFINE z == 0
             t == x.text
  <2>1. z \in Nat /\ z <= a /\ z + 1 = 1 /\ a - z = a /\ t \in Texts /\ a <= Len(t)
    BY <1>1, <1>2
  <2> HIDE DEF z, t
  <2>2. SubSeq(t, z + 1, a) \in Texts
    BY <1>2, <2>1, PartIs
  <2> QED
    BY <2>1, <2>2 DEF t
<1>4. t2 \in Texts
  <2> DEFINE t == x.text
             n == Len(t)
  <2>1. t \in Texts /\ n \in Nat /\ a <= n /\ n <= Len(t)
    BY <1>1, <1>2
  <2> HIDE DEF t, n
  <2>2. SubSeq(t, a + 1, n) \in Texts
    BY <1>2, <2>1, PartIs
  <2> QED
    BY <2>2 DEF t, n
<1>5. m1 \in Places1
  <2>1. IsFiniteSet(x.images) /\ x.images \subseteq Nat
    BY <1>1 DEF Places1
  <2>2. m1 \subseteq x.images
    OBVIOUS
  <2> HIDE DEF m1
  <2>3. IsFiniteSet(m1)
    BY <2>1, <2>2, FS_Subset
  <2> QED
    BY <2>1, <2>2, <2>3 DEF Places1
<1>6. m2 \in Places1
  <2>1. IsFiniteSet(x.images) /\ x.images \subseteq Nat
    BY <1>1 DEF Places1
  <2>2. late \subseteq x.images /\ m2 = {back[k] : k \in late}
    OBVIOUS
  <2>3. m2 \subseteq Nat
    BY <1>2, <2>1
  <2> HIDE DEF late, back, m2
  <2>4. IsFiniteSet(late)
    BY <2>1, <2>2, FS_Subset
  <2>5. IsFiniteSet(m2)
    BY <2>2, <2>4, ImageFinite
  <2> QED
    BY <2>3, <2>5 DEF Places1
<1>7. FirstHalf(x, a) = Touched(y)
  BY DEF FirstHalf
<1>8. SecondHalf(d, x, a) = [[[Paragraph(d.next) EXCEPT !.text = t2] EXCEPT !.format = x.format] EXCEPT !.images = m2]
  BY DEF SecondHalf
<1> HIDE DEF t1, t2, m1, m2
<1>9. y \in Paras /\ y.id = x.id /\ y.rev = x.rev /\ y.text = t1
  BY <1>3, <1>5 DEF Paras
<1> HIDE DEF y
<1>10. LET z == Touched(y) IN z \in Paras /\ z.id = y.id /\ y.rev < z.rev /\ z.text = y.text
  BY <1>9, TouchedIs
<1>11. d.next \in Nat
  BY WholeIs
<1> DEFINE q == Paragraph(d.next)
<1>12. q \in Paras /\ q.id = d.next
  <2>1. Left \in ParaFormats /\ {} \in Places1 /\ <<>> \in Texts
    BY WriterAssumption, FS_EmptySet DEF Places1, Texts
  <2> QED
    BY <1>11, <2>1 DEF Paragraph, Paras
<1> HIDE DEF q
<1> DEFINE q1 == [q EXCEPT !.text = t2]
           q2 == [q1 EXCEPT !.format = x.format]
           q3 == [q2 EXCEPT !.images = m2]
<1>13. q1 \in Paras /\ q1.id = d.next /\ q1.text = t2
  BY <1>4, <1>12 DEF Paras
<1> HIDE DEF q1
<1>14. q2 \in Paras /\ q2.id = d.next /\ q2.text = t2
  BY <1>1, <1>13 DEF Paras
<1> HIDE DEF q2
<1>15. q3 \in Paras /\ q3.id = d.next /\ q3.text = t2
  BY <1>6, <1>14 DEF Paras
<1>16. SecondHalf(d, x, a) = q3
  BY <1>8 DEF q1, q2, q
<1> HIDE DEF q3
<1> QED
  BY <1>7, <1>9, <1>10, <1>15, <1>16 DEF t1, t2

SplitParas(d, p, a) ==
    Pieces(d.paras, p - 1, <<FirstHalf(d.paras[p], a), SecondHalf(d, d.paras[p], a)>>, d.paras, p)

LEMMA SplitIs ==
  ASSUME NEW d, Whole(d), NEW p, NEW a, Spot(d, p, a)
  PROVE  LET c == SplitAt(d, [para |-> p, at |-> a])
         IN  /\ c \in Documents /\ c.paras = SplitParas(d, p, a) /\ c.next = d.next + 1
             /\ c.undo = d.undo /\ c.redo = d.redo /\ c.modified = d.modified
             /\ c.quiet = d.quiet /\ c.stray = d.stray
             /\ Pasted(c.paras, Paras, d.paras, p - 1,
                       <<FirstHalf(d.paras[p], a), SecondHalf(d, d.paras[p], a)>>, d.paras, p)
<1> DEFINE ps == SplitParas(d, p, a)
           x == d.paras[p]
           g == <<FirstHalf(x, a), SecondHalf(d, x, a)>>
           at == [para |-> p, at |-> a]
           c == SplitAt(d, at)
           e == [d EXCEPT !.paras = ps, !.next = d.next + 1]
<1>1. d \in Documents /\ d.paras \in Seq(Paras) /\ d.next \in Nat
  BY WholeIs
<1>2. p \in 1 .. Len(d.paras) /\ a \in 0 .. Size(d, p)
  BY DEF Spot
<1>3. x \in Paras /\ a \in 0 .. Len(x.text)
  BY <1>1, <1>2, ParasAre DEF Size
<1>4. g \in Seq(Paras)
  <2> HIDE DEF x
  <2>1. FirstHalf(x, a) \in Paras /\ SecondHalf(d, x, a) \in Paras
    BY <1>3, HalvesAre
  <2> QED
    BY <2>1
<1>5. Pasted(ps, Paras, d.paras, p - 1, g, d.paras, p)
  <2> DEFINE h == p - 1
             t == d.paras
  <2>1. h \in Nat /\ h <= Len(t) /\ p \in Nat /\ p <= Len(t) /\ t \in Seq(Paras)
    BY <1>1, <1>2
  <2>2. ps = Pieces(t, h, g, t, p)
    BY DEF SplitParas
  <2> HIDE DEF h, t, g, ps
  <2>3. Pasted(Pieces(t, h, g, t, p), Paras, t, h, g, t, p)
    BY <1>4, <2>1, PastedIs
  <2> QED
    BY <2>2, <2>3 DEF h, t
<1>6. ps \in Seq(Paras)
  BY <1>5 DEF Pasted
<1>7. c = e
  <2> HIDE DEF at
  <2>2. SplitAt(d, at) = [d EXCEPT !.paras = SplitParas(d, at.para, at.at), !.next = d.next + 1]
    BY DEF SplitAt, SplitParas, Pieces
  <2>3. at.para = p /\ at.at = a
    BY DEF at
  <2> QED
    BY <2>2, <2>3
<1> HIDE DEF c, ps
<1>8. /\ e \in Documents /\ e.paras = ps /\ e.next = d.next + 1
      /\ e.undo = d.undo /\ e.redo = d.redo /\ e.modified = d.modified
      /\ e.quiet = d.quiet /\ e.stray = d.stray
  <2> DEFINE e1 == [d EXCEPT !.paras = ps]
             e2 == [e1 EXCEPT !.next = d.next + 1]
  <2>1. /\ e1 \in Documents /\ e1.paras = ps /\ e1.undo = d.undo /\ e1.redo = d.redo
        /\ e1.modified = d.modified /\ e1.quiet = d.quiet /\ e1.stray = d.stray
    BY <1>1, <1>6 DEF Documents
  <2>2. e = e2
    OBVIOUS
  <2>3. d.next + 1 \in Nat
    BY <1>1
  <2> HIDE DEF e1, e
  <2> QED
    BY <2>1, <2>2, <2>3 DEF Documents
<1> HIDE DEF e
<1> QED
  BY <1>5, <1>7, <1>8 DEF c, ps

LEMMA SplitParasAre ==
  ASSUME NEW d, Whole(d), NEW p, NEW a, Spot(d, p, a)
  PROVE  LET c == SplitAt(d, [para |-> p, at |-> a])
         IN  /\ c.paras \in Seq(Paras) /\ Len(c.paras) = Len(d.paras) + 1
             /\ c.paras[p] = FirstHalf(d.paras[p], a) /\ c.paras[p + 1] = SecondHalf(d, d.paras[p], a)
             /\ \A i \in 1 .. Len(d.paras) : i < p => c.paras[i] = d.paras[i]
             /\ \A i \in 1 .. Len(d.paras) : i > p => c.paras[i + 1] = d.paras[i]
<1> DEFINE c == SplitAt(d, [para |-> p, at |-> a])
           x1 == FirstHalf(d.paras[p], a)
           x2 == SecondHalf(d, d.paras[p], a)
           g == <<x1, x2>>
           qs == c.paras
           ps == d.paras
           n == Len(ps)
<1>1. p \in 1 .. n /\ n \in Nat
  BY WholeIs DEF Spot
<1>2. Pasted(qs, Paras, ps, p - 1, g, ps, p)
  BY SplitIs
<1>3. Len(g) = 2 /\ g[1] = x1 /\ g[2] = x2
  OBVIOUS
<1> HIDE DEF c, x1, x2, g, qs, ps, n
<1>4. /\ qs \in Seq(Paras) /\ Len(qs) = p - 1 + 2 + (n - p)
      /\ \A x \in 1 .. p - 1 : qs[x] = ps[x]
      /\ \A x \in 1 .. 2 : qs[p - 1 + x] = g[x]
      /\ \A x \in 1 .. n - p : qs[p - 1 + 2 + x] = ps[p + x]
  BY <1>2, <1>3 DEF Pasted, n
<1>5. Len(qs) = n + 1
  BY <1>1, <1>4
<1>6. qs[p] = x1 /\ qs[p + 1] = x2
  <2>1. p - 1 + 1 = p /\ p - 1 + 2 = p + 1 /\ 1 \in 1 .. 2 /\ 2 \in 1 .. 2
    BY <1>1
  <2>2. qs[p - 1 + 1] = x1 /\ qs[p - 1 + 2] = x2
    BY <1>3, <1>4, <2>1
  <2> QED
    BY <2>1, <2>2
<1>7. \A i \in 1 .. n : i < p => qs[i] = ps[i]
  <2>1. \A i \in 1 .. n : i < p => i \in 1 .. p - 1
    BY <1>1
  <2> QED
    BY <1>4, <2>1
<1>8. ASSUME NEW i \in 1 .. n, i > p PROVE qs[i + 1] = ps[i]
  <2> DEFINE x == i - p
  <2>1. x \in 1 .. n - p /\ p - 1 + 2 + x = i + 1 /\ p + x = i
    BY <1>1, <1>8
  <2> HIDE DEF x
  <2>2. qs[p - 1 + 2 + x] = ps[p + x]
    BY <1>4, <2>1
  <2> QED
    BY <2>1, <2>2
<1> QED
  BY <1>4, <1>5, <1>6, <1>7, <1>8 DEF c, qs, ps, n, x1, x2

LEMMA SplitChanges ==
  ASSUME NEW d, Whole(d), NEW p, NEW a, Spot(d, p, a)
  PROVE  Changes(d, SplitAt(d, [para |-> p, at |-> a]))
<1> DEFINE c == SplitAt(d, [para |-> p, at |-> a])
           qs == c.paras
           ps == d.paras
           n == Len(ps)
           x == ps[p]
           from == [i \in 1 .. n + 1 |-> IF i <= p THEN i ELSE IF i = p + 1 THEN 0 ELSE i - 1]
           nx == d.next + 1
<1>1. p \in 1 .. n /\ n \in Nat /\ ps \in Seq(Paras) /\ d.next \in Nat /\ a \in 0 .. Len(x.text)
  BY WholeIs DEF Spot, Size
<1>2. /\ c \in Documents /\ c.next = nx
      /\ c.undo = d.undo /\ c.redo = d.redo /\ c.modified = d.modified
      /\ c.quiet = d.quiet /\ c.stray = d.stray
  BY ZenonT(60), SplitIs
<1>3. /\ qs \in Seq(Paras) /\ Len(qs) = n + 1
      /\ qs[p] = FirstHalf(x, a) /\ qs[p + 1] = SecondHalf(d, x, a)
      /\ \A i \in 1 .. n : i < p => qs[i] = ps[i]
      /\ \A i \in 1 .. n : i > p => qs[i + 1] = ps[i]
  BY SplitParasAre
<1>4. x \in Paras
  BY <1>1, ParasAre
<1> HIDE DEF x
<1>5. /\ FirstHalf(x, a).id = x.id /\ x.rev < FirstHalf(x, a).rev
      /\ SecondHalf(d, x, a).id = d.next
  BY <1>1, <1>4, HalvesAre
<1> HIDE DEF c, qs, ps, n
<1>6. \A i \in 1 .. n + 1 :
        /\ from[i] \in 0 .. n
        /\ from[i] = 0 => i = p + 1
        /\ from[i] # 0 =>
             \/ i < p /\ from[i] = i /\ i \in 1 .. n
             \/ i = p /\ from[i] = p
             \/ i > p + 1 /\ i - 1 \in 1 .. n /\ i - 1 > p /\ from[i] = i - 1 /\ i - 1 + 1 = i
  BY <1>1
<1>7. \A i, j \in 1 .. n + 1 : from[i] = from[j] => i = j
  BY <1>1
<1> HIDE DEF from
<1>8. ASSUME NEW i \in 1 .. n + 1, from[i] # 0
      PROVE  qs[i].id = ps[from[i]].id /\ (ps[from[i]] = qs[i] \/ ps[from[i]].rev < qs[i].rev)
  <2>1. CASE i < p /\ from[i] = i /\ i \in 1 .. n
    BY <1>3, <2>1
  <2>2. CASE i = p /\ from[i] = p
    BY <1>3, <1>5, <2>2 DEF x
  <2>3. CASE i > p + 1 /\ i - 1 \in 1 .. n /\ i - 1 > p /\ from[i] = i - 1 /\ i - 1 + 1 = i
    <3>1. qs[i - 1 + 1] = ps[i - 1]
      BY <1>3, <2>3
    <3> QED
      BY <2>3, <3>1
  <2> QED
    BY <1>6, <1>8, <2>1, <2>2, <2>3
<1>9. \A i \in 1 .. n + 1 : from[i] = 0 => d.next <= qs[i].id /\ qs[i].id < nx
  <2>1. \A i \in 1 .. n + 1 : from[i] = 0 => qs[i].id = d.next
    BY <1>3, <1>5, <1>6
  <2>2. d.next <= d.next /\ d.next < nx
    BY <1>1
  <2> HIDE DEF nx
  <2> QED
    BY <2>1, <2>2
<1>10. nx \in Nat /\ d.next <= nx /\ qs # <<>>
  BY <1>1, <1>3
<1> HIDE DEF nx
<1>11. Rebuilt(d, qs, from, nx)
  BY <1>3, <1>6, <1>7, <1>8, <1>9, <1>10 DEF Rebuilt, ps, n
<1>12. Changes(d, c)
  BY <1>2, <1>11, RebuiltIs DEF qs
<1> QED
  BY <1>12 DEF c

Halved(t, t1, t2, a) ==
    /\ Len(t1) = a /\ Len(t2) = Len(t) - a
    /\ \A k \in 0 .. a - 1 : GlyphIn(t1, k) = GlyphIn(t, k)
    /\ GlyphIn(t1, a) = Line
    /\ \A k \in 0 .. Len(t) - a : GlyphIn(t2, k) = GlyphIn(t, a + k)

LEMMA HalvedIs ==
  ASSUME NEW t \in Texts, NEW a \in 0 .. Len(t)
  PROVE  Halved(t, SubSeq(t, 1, a), SubSeq(t, a + 1, Len(t)), a)
<1> DEFINE t1 == SubSeq(t, 1, a)
           t2 == SubSeq(t, a + 1, Len(t))
           n == Len(t)
           z == 0
<1>1. n \in Nat /\ a \in Nat /\ a <= n /\ n <= Len(t) /\ z \in Nat /\ z <= a /\ z + 1 = 1 /\ a - z = a /\ z = 0
      /\ a <= Len(t) /\ n = Len(t)
  BY DEF Texts
<1>2. \A i \in 1 .. a : z + i = i
  OBVIOUS
<1> HIDE DEF n, z
<1>3. /\ Len(SubSeq(t, z + 1, a)) = a - z
      /\ \A i \in 1 .. a - z : SubSeq(t, z + 1, a)[i] = t[z + i]
  BY <1>1, PartIs
<1>4. Len(t1) = a /\ \A i \in 1 .. a : t1[i] = t[i]
  BY <1>1, <1>2, <1>3
<1>5. Len(SubSeq(t, a + 1, n)) = n - a /\ \A i \in 1 .. n - a : SubSeq(t, a + 1, n)[i] = t[a + i]
  BY <1>1, PartIs
<1>6. Len(t2) = n - a /\ \A i \in 1 .. n - a : t2[i] = t[a + i]
  BY <1>5 DEF n
<1> HIDE DEF t1, t2
<1>7. ASSUME NEW k \in 0 .. a - 1 PROVE GlyphIn(t1, k) = GlyphIn(t, k)
  <2>1. k < a /\ k < n /\ k + 1 \in 1 .. a
    BY <1>1
  <2> QED
    BY <1>1, <1>4, <2>1 DEF GlyphIn
<1>8. GlyphIn(t1, a) = Line
  <2>1. ~(a < Len(t1))
    BY <1>1, <1>4
  <2> QED
    BY <2>1 DEF GlyphIn
<1>9. ASSUME NEW k \in 0 .. n - a PROVE GlyphIn(t2, k) = GlyphIn(t, a + k)
  <2>1. CASE k = n - a
    <3>1. ~(k < Len(t2)) /\ ~(a + k < Len(t))
      BY <1>1, <1>6, <2>1
    <3> QED
      BY <3>1 DEF GlyphIn
  <2>2. CASE k # n - a
    <3>1. k < Len(t2) /\ a + k < Len(t) /\ k + 1 \in 1 .. n - a /\ a + (k + 1) = a + k + 1
      BY <1>1, <1>6, <2>2
    <3>2. t2[k + 1] = t[a + (k + 1)]
      BY <1>6, <3>1
    <3> QED
      BY <3>1, <3>2 DEF GlyphIn
  <2> QED
    BY <2>1, <2>2
<1> QED
  BY <1>1, <1>4, <1>6, <1>7, <1>8, <1>9 DEF Halved, t1, t2

LEMMA SplitText ==
  ASSUME NEW d, Whole(d), NEW p, NEW a, Spot(d, p, a)
  PROVE  Text(SplitAt(d, [para |-> p, at |-> a])) = Splice(Text(d), Here(d, p, a), 0, <<Line>>)
<1> DEFINE c == SplitAt(d, [para |-> p, at |-> a])
           n == Len(d.paras)
           x == d.paras[p]
           s == Size(d, p)
           q == p + 1
<1>1. p \in 1 .. n /\ n \in Nat /\ d.paras \in Seq(Paras) /\ a \in 0 .. s /\ s \in Nat /\ a \in Nat /\ p \in Nat \ {0}
  BY WholeIs, SpotIs
<1>2. x \in Paras /\ x.text \in Texts /\ s = Len(x.text)
  BY <1>1, ParasAre DEF Size
<1>3. /\ c.paras \in Seq(Paras) /\ Len(c.paras) = n + 1
      /\ c.paras[p] = FirstHalf(x, a) /\ c.paras[p + 1] = SecondHalf(d, x, a)
      /\ \A i \in 1 .. n : i < p => c.paras[i] = d.paras[i]
      /\ \A i \in 1 .. n : i > p => c.paras[i + 1] = d.paras[i]
  BY SplitParasAre
<1> HIDE DEF c, x, s, n
<1>4. c.paras[p].text = SubSeq(x.text, 1, a) /\ c.paras[q].text = SubSeq(x.text, a + 1, Len(x.text))
  <2>1. x \in Paras /\ a \in 0 .. Len(x.text)
    BY <1>1, <1>2
  <2>2. FirstHalf(x, a).text = SubSeq(x.text, 1, a)
    BY <2>1, HalvesAre
  <2>3. SecondHalf(d, x, a).text = SubSeq(x.text, a + 1, Len(x.text))
    BY <2>1, HalvesAre
  <2> QED
    BY <1>3, <2>2, <2>3
<1>5. Halved(x.text, c.paras[p].text, c.paras[q].text, a)
  BY <1>1, <1>2, <1>4, HalvedIs
<1>6. /\ Size(c, p) = a /\ Size(c, q) = s - a
      /\ \A k \in 0 .. a - 1 : GlyphOf(c, p, k) = GlyphOf(d, p, k)
      /\ GlyphOf(c, p, a) = Line
      /\ \A k \in 0 .. s - a : GlyphOf(c, q, k) = GlyphOf(d, p, a + k)
  BY <1>2, <1>5, GlyphsOf DEF Halved, Size, x
<1>7. q \in 1 .. Len(c.paras) /\ p \in 1 .. Len(c.paras) /\ p # Len(c.paras)
  BY <1>1, <1>3
<1>8. Spot(c, p, a) /\ Spot(c, q, 0)
  <2>1. a \in 0 .. Size(c, p) /\ 0 \in 0 .. Size(c, q)
    BY <1>1, <1>6
  <2> QED
    BY <1>3, <1>7, <2>1 DEF Spot
<1>9. SameBefore(d, c, p, a)
  <2>1. \A i \in 1 .. p - 1 : Alike(d, i, c, i)
    <3>1. \A i \in 1 .. p - 1 : i \in 1 .. n /\ i < p
      BY <1>1
    <3> QED
      BY <1>3, <3>1, SameText
  <2> QED
    BY <1>6, <2>1 DEF SameBefore
<1>10. Before(c, p, a) = Before(d, p, a) /\ Here(c, p, a) = Here(d, p, a)
  BY <1>8, <1>9, SpotHere
<1> DEFINE r == s - a
           m == n - p
           b == 0
<1>11. Rest(d, p, a, r, m)
  BY RestAt DEF n, s
<1>12. Rest(c, q, b, r, m)
  <2>1. Rest(c, q, b, Size(c, q) - b, Len(c.paras) - q)
    BY <1>8, RestAt
  <2>2. Size(c, q) - b = r /\ Len(c.paras) - q = m
    BY <1>1, <1>3, <1>6
  <2> QED
    BY <2>1, <2>2
<1>13. SameBehind(d, p, a, c, q, b, r, m)
  <2>1. \A k \in 0 .. r : GlyphOf(d, p, a + k) = GlyphOf(c, q, b + k)
    <3>1. \A k \in 0 .. r : b + k = k
      OBVIOUS
    <3> HIDE DEF b, q
    <3> QED
      BY <1>6, <3>1
  <2>2. \A i \in 1 .. m : Alike(d, p + i, c, q + i)
    <3>1. \A i \in 1 .. m : p + i \in 1 .. n /\ p + i > p /\ q + i = p + i + 1
      BY <1>1
    <3> HIDE DEF m, q
    <3> QED
      BY <1>3, <3>1, SameText
  <2> QED
    BY <2>1, <2>2 DEF SameBehind
<1> HIDE DEF r, m
<1>14. After(d, p, a) = After(c, q, b)
  BY <1>11, <1>12, <1>13, AfterSame
<1>15. Here(c, q, b) = Here(c, p, a) + 1 /\ Here(c, p, a) \in Nat
  <2> DEFINE z == ParaStart(c, p)
  <2>1. /\ z \in Nat /\ ParaEnd(c, p) = z + Size(c, p) /\ ParaStart(c, p + 1) = ParaEnd(c, p) + 1
    BY <1>3, <1>7, PlaceIs
  <2>2. Here(c, p, a) = z + a /\ Here(c, q, b) = ParaStart(c, p + 1) + b
    BY DEF Here
  <2> HIDE DEF z, q
  <2>3. ParaStart(c, p + 1) = z + a + 1
    BY <1>1, <1>6, <2>1
  <2> QED
    BY <1>1, <2>1, <2>2, <2>3
<1>16. Text(c)[Here(c, p, a) + 1] = Line
  <2>1. a \in 0 .. Size(c, p) /\ (p = Len(c.paras) => a # Size(c, p))
    BY <1>1, <1>6, <1>7
  <2>2. Text(c)[ParaStart(c, p) + a + 1] = GlyphOf(c, p, a)
    BY <1>3, <1>7, <2>1, TextAt DEF GlyphOf
  <2> QED
    BY <1>6, <2>2 DEF Here
<1> DEFINE g == <<Line>>
<1>17. g \in Lines /\ Len(g) = 1 /\ \A k \in 1 .. Len(g) : k = 1 /\ g[k] = Line
  BY DEF Lines
<1> HIDE DEF g, q
<1>18. Here(d, p, a) \in Nat
  BY SpotIs
<1>19. Text(c) = Splice(Text(d), Here(d, p, a), Here(d, p, a) - Here(d, p, a), g)
  <2>1. Here(d, p, a) <= Here(d, p, a) /\ Here(c, q, b) = Here(c, p, a) + Len(g)
    BY <1>15, <1>17, <1>18
  <2>2. \A k \in 1 .. Len(g) : Text(c)[Here(c, p, a) + k] = g[k]
    BY <1>16, <1>17
  <2>3. Spot(c, q, b)
    BY <1>8
  <2> HIDE DEF b
  <2>9. Parted(d, c, p, a, p, a, q, b, g)
    BY <1>8, <1>10, <1>14, <1>17, <2>1, <2>2, <2>3 DEF Parted
  <2> QED
    BY <2>9, SpliceText
<1>20. Here(d, p, a) - Here(d, p, a) = 0
  BY <1>18
<1> QED
  BY <1>19, <1>20 DEF c, g

LEMMA MergedIs ==
  ASSUME NEW x \in Paras, NEW a \in 0 .. Len(x.text), NEW y \in Paras, NEW b \in 0 .. Len(y.text)
  PROVE  LET z == Merged(x, a, y, b)
         IN  /\ z \in Paras /\ z.id = x.id /\ x.rev < z.rev
             /\ Pieced(z.text, x.text, a, <<>>, y.text, b)
<1> DEFINE t == x.text
           v == y.text
           u == SubSeq(t, 1, a) \o SubSeq(v, b + 1, Len(v))
           e == <<>>
<1>1. t \in Texts /\ v \in Texts /\ e \in Texts /\ x.images \in Places1 /\ y.images \in Places1
  BY DEF Paras, Texts
<1>2. a \in Nat /\ a <= Len(t) /\ b \in Nat /\ b <= Len(v)
  BY <1>1 DEF Texts
<1> HIDE DEF t, v, e
<1>3. Pieced(Pieces(t, a, e, v, b), t, a, e, v, b)
  BY <1>1, <1>2, PiecesAre
<1>4. Pieces(t, a, e, v, b) = u
  <2> DEFINE C == [c : Glyphs, f : CharFormats]
             z == 0
             s == SubSeq(t, z + 1, a)
  <2>1. z \in Nat /\ z <= a /\ z + 1 = 1
    BY <1>2
  <2> HIDE DEF z
  <2>2. s \in Texts
    BY <1>1, <1>2, <2>1, PartIs
  <2>3. s \in Seq(C)
    BY <2>2 DEF Texts
  <2>4. s = SubSeq(t, 1, a)
    BY <2>1
  <2> HIDE DEF s, C
  <2>5. s \o <<>> = s
    BY <2>3, ConcatEmptySeq
  <2> QED
    BY <2>4, <2>5 DEF Pieces, e
<1>5. u \in Texts
  BY <1>3, <1>4 DEF Pieced
<1> DEFINE m1 == {k \in x.images : k < a}
           late == {k \in y.images : k >= b}
           moved == [k \in late |-> k - b + a]
           m2 == {k - b + a : k \in late}
           w == [x EXCEPT !.text = u, !.images = m1 \cup m2]
<1>6. Merged(x, a, y, b) = Touched(w)
  BY DEF Merged, t, v
<1>7. m1 \cup m2 \in Places1
  <2>1. IsFiniteSet(x.images) /\ x.images \subseteq Nat /\ IsFiniteSet(y.images) /\ y.images \subseteq Nat
    BY <1>1 DEF Places1
  <2>2. m1 \subseteq x.images /\ late \subseteq y.images /\ m2 = {moved[k] : k \in late}
    OBVIOUS
  <2>3. m2 \subseteq Nat /\ m1 \subseteq Nat
    BY <1>2, <2>1
  <2> HIDE DEF m1, late, moved, m2
  <2>4. IsFiniteSet(m1) /\ IsFiniteSet(late)
    BY <2>1, <2>2, FS_Subset
  <2>5. IsFiniteSet(m2)
    BY <2>2, <2>4, ImageFinite
  <2>6. IsFiniteSet(m1 \cup m2)
    BY <2>4, <2>5, FS_Union
  <2> QED
    BY <2>3, <2>6 DEF Places1
<1> DEFINE m == m1 \cup m2
<1>8. w = [x EXCEPT !.text = u, !.images = m]
  OBVIOUS
<1>9. m \in Places1
  BY <1>7
<1> HIDE DEF u, m, w
<1>10. w \in Paras /\ w.id = x.id /\ w.rev = x.rev /\ w.text = u
  BY <1>5, <1>8, <1>9 DEF Paras
<1>11. LET z == Touched(w) IN z \in Paras /\ z.id = w.id /\ w.rev < z.rev /\ z.text = w.text
  BY <1>10, TouchedIs
<1> QED
  BY <1>3, <1>4, <1>6, <1>10, <1>11 DEF t, v, e

Erased(d, p, a, q, b) ==
    [d EXCEPT !.paras = ErasedParas(d, [para |-> p, at |-> a], [para |-> q, at |-> b])]

LEMMA SpotsGrow ==
  ASSUME NEW d, NEW p, NEW a, Spot(d, p, a), NEW q, NEW b, Spot(d, q, b), Here(d, p, a) <= Here(d, q, b)
  PROVE  p <= q
<1>1. d.paras \in Seq(Paras) /\ p \in 1 .. Len(d.paras) /\ q \in 1 .. Len(d.paras) /\ a \in Nat /\ Len(d.paras) \in Nat
  BY SpotIs DEF Spot
<1>2. b \in 0 .. Size(d, q) /\ Size(d, q) \in Nat
  BY SpotIs
<1> SUFFICES ASSUME q < p PROVE FALSE
  BY <1>1
<1>3. p \in 1 .. Len(d.paras) + 1
  BY <1>1
<1>4. ParaEnd(d, q) + 1 <= ParaStart(d, p)
  BY <1>1, <1>3, StartsGrow
<1>5. ParaStart(d, q) \in Nat /\ ParaEnd(d, q) = ParaStart(d, q) + Size(d, q) /\ ParaStart(d, p) \in Nat
  BY <1>1, PlaceIs
<1> DEFINE x == ParaStart(d, q)
           y == ParaStart(d, p)
           s == Size(d, q)
<1>6. x + s + 1 <= y /\ y + a <= x + b /\ x \in Nat /\ y \in Nat /\ b <= s /\ b \in Nat /\ s \in Nat
  BY <1>2, <1>4, <1>5 DEF Here
<1> HIDE DEF x, y, s
<1> QED
  BY <1>1, <1>6

LEMMA ErasedParasAre ==
  ASSUME NEW d, Whole(d), NEW p, NEW a, Spot(d, p, a), NEW q, NEW b, Spot(d, q, b), p <= q
  PROVE  LET c == Erased(d, p, a, q, b)
         IN  /\ c \in Documents /\ c.next = d.next
             /\ c.undo = d.undo /\ c.redo = d.redo /\ c.modified = d.modified
             /\ c.quiet = d.quiet /\ c.stray = d.stray
             /\ c.paras \in Seq(Paras) /\ Len(c.paras) = p + (Len(d.paras) - q)
             /\ c.paras[p] = Merged(d.paras[p], a, d.paras[q], b)
             /\ \A i \in 1 .. p - 1 : c.paras[i] = d.paras[i]
             /\ \A i \in 1 .. Len(d.paras) - q : c.paras[p + i] = d.paras[q + i]
<1> DEFINE c == Erased(d, p, a, q, b)
           x == Merged(d.paras[p], a, d.paras[q], b)
           g == <<x>>
           ps == d.paras
           n == Len(ps)
           h == p - 1
           qs == Pieces(ps, h, g, ps, q)
<1>1. p \in 1 .. n /\ q \in 1 .. n /\ n \in Nat /\ ps \in Seq(Paras) /\ h \in Nat /\ h <= n /\ q \in Nat /\ q <= n
  BY WholeIs DEF Spot
<1>2. x \in Paras
  <2> DEFINE y == ps[p]
             z == ps[q]
  <2>1. y \in Paras /\ z \in Paras /\ a \in 0 .. Len(y.text) /\ b \in 0 .. Len(z.text)
    BY <1>1, ParasAre DEF Spot, Size
  <2> HIDE DEF y, z
  <2>2. Merged(y, a, z, b) \in Paras
    BY <2>1, MergedIs
  <2> QED
    BY <2>2 DEF y, z
<1>3. c = [d EXCEPT !.paras = qs]
  BY DEF Erased, ErasedParas, Pieces
<1> HIDE DEF x
<1>4. g \in Seq(Paras) /\ Len(g) = 1 /\ g[1] = x
  BY <1>2
<1> HIDE DEF g
<1>5. Pasted(qs, Paras, ps, h, g, ps, q)
  <2> HIDE DEF ps, h
  <2> QED
    BY <1>1, <1>4, PastedIs DEF n
<1> HIDE DEF qs, ps, n, c
<1>6. /\ qs \in Seq(Paras) /\ Len(qs) = h + 1 + (n - q)
      /\ \A i \in 1 .. h : qs[i] = ps[i]
      /\ \A i \in 1 .. 1 : qs[h + i] = g[i]
      /\ \A i \in 1 .. n - q : qs[h + 1 + i] = ps[q + i]
  BY <1>4, <1>5 DEF Pasted, n
<1>7. h + 1 = p
  BY <1>1
<1>8. Len(qs) = p + (n - q) /\ \A i \in 1 .. n - q : qs[p + i] = ps[q + i]
  BY <1>6, <1>7
<1>9. qs[p] = x
  <2>1. 1 \in 1 .. 1
    OBVIOUS
  <2>2. qs[h + 1] = g[1]
    BY <1>6, <2>1
  <2> QED
    BY <1>4, <1>7, <2>2
<1>10. d \in Documents
  BY WholeIs
<1>11. /\ c \in Documents /\ c.next = d.next /\ c.paras = qs
       /\ c.undo = d.undo /\ c.redo = d.redo /\ c.modified = d.modified
       /\ c.quiet = d.quiet /\ c.stray = d.stray
  BY <1>3, <1>6, <1>10 DEF Documents
<1> QED
  BY <1>6, <1>8, <1>9, <1>11 DEF c, x, ps, n, h

LEMMA ErasedChanges ==
  ASSUME NEW d, Whole(d), NEW p, NEW a, Spot(d, p, a), NEW q, NEW b, Spot(d, q, b), p <= q
  PROVE  Changes(d, Erased(d, p, a, q, b))
<1> DEFINE c == Erased(d, p, a, q, b)
           qs == c.paras
           ps == d.paras
           n == Len(ps)
           l == p + (n - q)
           x == ps[p]
           y == ps[q]
           from == [i \in 1 .. l |-> IF i <= p THEN i ELSE i - p + q]
           nx == d.next
<1>1. p \in 1 .. n /\ q \in 1 .. n /\ n \in Nat /\ ps \in Seq(Paras) /\ nx \in Nat
  BY WholeIs DEF Spot
<1>2. a \in 0 .. Len(x.text) /\ b \in 0 .. Len(y.text)
  BY DEF Spot, Size
<1>3. /\ c \in Documents /\ c.next = nx
      /\ c.undo = d.undo /\ c.redo = d.redo /\ c.modified = d.modified
      /\ c.quiet = d.quiet /\ c.stray = d.stray
  BY ErasedParasAre
<1>4. /\ qs \in Seq(Paras) /\ Len(qs) = l
      /\ qs[p] = Merged(x, a, y, b)
      /\ \A i \in 1 .. p - 1 : qs[i] = ps[i]
      /\ \A i \in 1 .. n - q : qs[p + i] = ps[q + i]
  BY ErasedParasAre
<1>5. x \in Paras /\ y \in Paras
  BY <1>1, ParasAre
<1> HIDE DEF x, y
<1>6. Merged(x, a, y, b).id = x.id /\ x.rev < Merged(x, a, y, b).rev
  BY <1>2, <1>5, MergedIs
<1> HIDE DEF c, qs, ps, n
<1>7. l \in Nat /\ p <= l
  BY <1>1
<1>8. \A i \in 1 .. l :
        /\ from[i] \in 1 .. n
        /\ \/ i \in 1 .. p - 1 /\ from[i] = i
           \/ i = p /\ from[i] = p
           \/ i - p \in 1 .. n - q /\ p + (i - p) = i /\ from[i] = q + (i - p)
  BY <1>1
<1>9. \A i, j \in 1 .. l : from[i] = from[j] => i = j
  BY <1>1
<1> HIDE DEF from, l
<1>10. ASSUME NEW i \in 1 .. l
       PROVE  qs[i].id = ps[from[i]].id /\ (ps[from[i]] = qs[i] \/ ps[from[i]].rev < qs[i].rev)
  <2>1. CASE i \in 1 .. p - 1 /\ from[i] = i
    BY <1>4, <2>1
  <2>2. CASE i = p /\ from[i] = p
    BY <1>4, <1>6, <2>2 DEF x
  <2>3. CASE i - p \in 1 .. n - q /\ p + (i - p) = i /\ from[i] = q + (i - p)
    <3> DEFINE j == i - p
    <3>1. j \in 1 .. n - q /\ p + j = i /\ from[i] = q + j
      BY <2>3
    <3> HIDE DEF j
    <3>2. qs[p + j] = ps[q + j]
      BY <1>4, <3>1
    <3> QED
      BY <3>1, <3>2
  <2> QED
    BY <1>8, <2>1, <2>2, <2>3
<1>11. \A i \in 1 .. l : from[i] \in 0 .. n /\ from[i] # 0
  BY <1>1, <1>8
<1>12. qs # <<>>
  BY <1>1, <1>4, <1>7
<1>13. nx <= nx
  BY <1>1
<1>14. Rebuilt(d, qs, from, nx)
  BY <1>1, <1>4, <1>9, <1>10, <1>11, <1>12, <1>13 DEF Rebuilt, ps, n
<1>15. Changes(d, c)
  <2> HIDE DEF nx
  <2> QED
    BY <1>3, <1>14, RebuiltIs DEF qs
<1> QED
  BY <1>15 DEF c

LEMMA ErasedText ==
  ASSUME NEW d, Whole(d), NEW p, NEW a, Spot(d, p, a), NEW q, NEW b, Spot(d, q, b),
         p <= q, Here(d, p, a) <= Here(d, q, b)
  PROVE  Text(Erased(d, p, a, q, b)) = Splice(Text(d), Here(d, p, a), Here(d, q, b) - Here(d, p, a), <<>>)
<1> DEFINE c == Erased(d, p, a, q, b)
           n == Len(d.paras)
           x == d.paras[p]
           y == d.paras[q]
           z == Merged(x, a, y, b)
           r == Size(d, q) - b
           m == n - q
<1>1. p \in 1 .. n /\ q \in 1 .. n /\ n \in Nat /\ d.paras \in Seq(Paras) /\ p \in Nat /\ q \in Nat
  BY WholeIs DEF Spot
<1>2. a \in 0 .. Len(x.text) /\ b \in 0 .. Len(y.text) /\ a \in Nat /\ b \in Nat
  BY SpotIs DEF Size
<1>3. /\ c.paras \in Seq(Paras) /\ Len(c.paras) = p + m
      /\ c.paras[p] = z
      /\ \A i \in 1 .. p - 1 : c.paras[i] = d.paras[i]
      /\ \A i \in 1 .. m : c.paras[p + i] = d.paras[q + i]
  BY ErasedParasAre
<1>4. x \in Paras /\ y \in Paras
  BY <1>1, ParasAre
<1>5. Size(d, q) = Len(y.text) /\ Size(d, q) \in Nat /\ r \in Nat /\ Size(d, p) = Len(x.text)
  <2>1. Size(d, q) = Len(y.text) /\ Size(d, p) = Len(x.text)
    BY DEF Size
  <2>2. Size(d, q) \in Nat /\ b \in 0 .. Size(d, q)
    BY SpotIs
  <2> QED
    BY <2>1, <2>2
<1> HIDE DEF c, x, y
<1>6. Pieced(z.text, x.text, a, <<>>, y.text, b)
  BY <1>2, <1>4, MergedIs
<1> HIDE DEF z
<1> DEFINE e == <<>>
<1>7. Len(e) = 0
  OBVIOUS
<1> HIDE DEF e
<1>8. Pieced(z.text, x.text, a, e, y.text, b)
  BY <1>6 DEF e
<1>9. a + Len(e) = a
  BY <1>2, <1>7
<1>10. /\ Len(z.text) = a + r
       /\ \A k \in 0 .. a - 1 : GlyphIn(z.text, k) = GlyphIn(x.text, k)
       /\ \A k \in 0 .. r : GlyphIn(z.text, a + k) = GlyphIn(y.text, b + k)
  <2> HIDE DEF n, m
  <2> QED
    BY <1>5, <1>8, <1>9 DEF Pieced
<1>11. /\ Size(c, p) = a + r
       /\ \A k \in 0 .. a - 1 : GlyphOf(c, p, k) = GlyphOf(d, p, k)
       /\ \A k \in 0 .. r : GlyphOf(c, p, a + k) = GlyphOf(d, q, b + k)
  BY <1>3, <1>10, GlyphsOf DEF Size, x, y
<1> HIDE DEF r, n
<1>12. m \in Nat /\ p \in 1 .. Len(c.paras) /\ Len(c.paras) - p = m /\ Size(c, p) - a = r
  BY <1>1, <1>2, <1>3, <1>5, <1>11
<1>13. Spot(c, p, a)
  BY <1>2, <1>3, <1>5, <1>11, <1>12 DEF Spot
<1>14. SameBefore(d, c, p, a)
  <2>1. \A i \in 1 .. p - 1 : Alike(d, i, c, i)
    BY <1>3, SameText
  <2> QED
    BY <1>11, <2>1 DEF SameBefore
<1>15. Before(c, p, a) = Before(d, p, a) /\ Here(c, p, a) = Here(d, p, a)
  BY <1>13, <1>14, SpotHere
<1>16. Rest(d, q, b, r, m)
  BY RestAt DEF n, r
<1>17. Rest(c, p, a, r, m)
  <2>1. Rest(c, p, a, Size(c, p) - a, Len(c.paras) - p)
    BY <1>13, RestAt
  <2> HIDE DEF m
  <2> QED
    BY <1>12, <2>1
<1>18. SameBehind(d, q, b, c, p, a, r, m)
  <2>1. \A i \in 1 .. m : Alike(d, q + i, c, p + i)
    BY <1>3, SameText
  <2> QED
    BY <1>11, <2>1 DEF SameBehind
<1> HIDE DEF m
<1>19. After(d, q, b) = After(c, p, a)
  BY <1>16, <1>17, <1>18, AfterSame
<1>20. e \in Lines /\ \A k \in 1 .. Len(e) : FALSE
  BY <1>7 DEF Lines, e
<1>21. Here(c, p, a) = Here(c, p, a) + Len(e)
  <2>1. Here(c, p, a) \in Nat
    BY <1>13, SpotIs
  <2> QED
    BY <1>7, <2>1
<1>22. Parted(d, c, p, a, q, b, p, a, e)
  BY <1>13, <1>15, <1>19, <1>20, <1>21 DEF Parted
<1>23. Text(c) = Splice(Text(d), Here(d, p, a), Here(d, q, b) - Here(d, p, a), e)
  BY <1>22, SpliceText
<1> QED
  BY <1>23 DEF c, e

-----------------------------------------------------------------------------
(* A paragraph with the same letters.                                      *)
Recolours(x, y) ==
    /\ y \in Paras /\ y.id = x.id /\ (x = y \/ x.rev < y.rev)
    /\ Len(y.text) = Len(x.text) /\ \A k \in 0 .. Len(x.text) : GlyphIn(y.text, k) = GlyphIn(x.text, k)

LEMMA ReshadedIs ==
  ASSUME NEW t \in Texts, NEW u, u = [k \in DOMAIN t |-> u[k]],
         \A k \in DOMAIN t : u[k] = t[k] \/ \E f \in CharFormats : u[k] = [t[k] EXCEPT !.f = f]
  PROVE  u \in Texts /\ Len(u) = Len(t) /\ \A k \in 0 .. Len(t) : GlyphIn(u, k) = GlyphIn(t, k)
<1> DEFINE C == [c : Glyphs, f : CharFormats]
<1>1. t \in Seq(C) /\ DOMAIN t = 1 .. Len(t) /\ Len(t) \in Nat
  BY DEF Texts
<1>2. ASSUME NEW k \in 1 .. Len(t) PROVE u[k] \in C /\ u[k].c = t[k].c
  <2>1. t[k] \in C
    BY <1>1, ElementOfSeq
  <2>2. CASE u[k] = t[k]
    BY <2>1, <2>2
  <2>3. CASE \E f \in CharFormats : u[k] = [t[k] EXCEPT !.f = f]
    BY <2>1, <2>3
  <2> QED
    BY <1>1, <2>2, <2>3
<1> HIDE DEF C
<1>3. u = [k \in 1 .. Len(t) |-> u[k]]
  BY <1>1
<1>4. u \in Seq(C) /\ Len(u) = Len(t)
  BY <1>1, <1>2, <1>3
<1>5. ASSUME NEW k \in 0 .. Len(t) PROVE GlyphIn(u, k) = GlyphIn(t, k)
  <2>1. CASE k < Len(t)
    <3>1. k + 1 \in 1 .. Len(t)
      BY <1>1, <2>1
    <3> QED
      BY <1>2, <1>4, <2>1, <3>1 DEF GlyphIn
  <2>2. CASE ~(k < Len(t))
    BY <1>4, <2>2 DEF GlyphIn
  <2> QED
    BY <2>1, <2>2
<1> QED
  BY <1>4, <1>5 DEF Texts, C

LEMMA RecoloursText ==
  ASSUME NEW x \in Paras, NEW u \in Texts, Len(u) = Len(x.text),
         \A k \in 0 .. Len(x.text) : GlyphIn(u, k) = GlyphIn(x.text, k)
  PROVE  Recolours(x, Touched([x EXCEPT !.text = u]))
<1> DEFINE y == [x EXCEPT !.text = u]
<1>1. y \in Paras /\ y.text = u /\ y.id = x.id /\ y.rev = x.rev
  BY DEF Paras
<1> HIDE DEF y
<1>2. Touched(y) \in Paras /\ Touched(y).id = y.id /\ Touched(y).text = y.text /\ y.rev < Touched(y).rev
  BY <1>1, TouchedIs
<1> QED
  BY <1>1, <1>2 DEF Recolours, y

LEMMA RecoloursSame ==
  ASSUME NEW x \in Paras
  PROVE  Recolours(x, x)
BY DEF Recolours

LEMMA RecolouredIs ==
  ASSUME NEW d, Whole(d), NEW ps \in Seq(Paras), Len(ps) = Len(d.paras),
         \A p \in 1 .. Len(d.paras) : Recolours(d.paras[p], ps[p])
  PROVE  LET c == [d EXCEPT !.paras = ps]
         IN  Changes(d, c) /\ c.paras = ps /\ Text(c) = Text(d)
<1> DEFINE c == [d EXCEPT !.paras = ps]
           n == Len(d.paras)
           a == Size(d, n)
<1>1. Changes(d, c) /\ c.paras = ps
  BY InPlaceIs DEF Recolours
<1> HIDE DEF c
<1>2. d.paras \in Seq(Paras) /\ d.paras # <<>> /\ n \in Nat \ {0} /\ n \in 1 .. n
  BY WholeIs
<1>3. a \in Nat /\ a \in 0 .. a
  BY <1>2, ParasAre
<1>4. \A i \in 1 .. n : Alike(d, i, c, i)
  BY <1>1, GlyphsOf DEF Recolours, Alike, Size
<1>5. Size(c, n) = a
  BY <1>2, <1>4 DEF Alike
<1>6. SameBefore(d, c, n, a)
  BY <1>2, <1>3, <1>4 DEF SameBefore, Alike
<1>7. Spot(d, n, a) /\ Spot(c, n, a)
  BY <1>1, <1>2, <1>3, <1>5 DEF Spot
<1>8. Before(c, n, a) = Before(d, n, a) /\ Here(c, n, a) = Here(d, n, a)
  BY <1>6, <1>7, SpotHere
<1>9. ASSUME NEW e, Whole(e), Len(e.paras) = n, Size(e, n) = a PROVE Before(e, n, a) = Text(e)
  <2>1. e.paras \in Seq(Paras) /\ e.paras # <<>>
    BY <1>9, WholeIs
  <2>2. Length(e) = Here(e, n, a)
    BY <1>2, <1>9, <2>1, LengthIs, StartsAre DEF Here
  <2>3. Text(e) \in Lines /\ Len(Text(e)) = Length(e)
    BY <2>1, TextIs
  <2>4. SubSeq(Text(e), 1, Len(Text(e))) = Text(e)
    BY <2>3 DEF Lines
  <2> QED
    BY <2>2, <2>3, <2>4 DEF Before, Here
<1>10. Text(c) = Text(d)
  <2>1. Before(d, n, a) = Text(d)
    BY <1>9
  <2>2. Before(c, n, a) = Text(c)
    BY <1>1, <1>5, <1>9 DEF Changes
  <2> QED
    BY <1>8, <2>1, <2>2
<1> QED
  BY <1>1, <1>10 DEF c

-----------------------------------------------------------------------------
(* What keeps every letter.                                                *)
Keeps(d, c) ==
    Changes(d, c) /\ Len(c.paras) = Len(d.paras) /\ Text(c) = Text(d)

LEMMA KeepsAll ==
  ASSUME NEW d, Whole(d), NEW ps, DOMAIN ps = DOMAIN d.paras, ps = [p \in DOMAIN d.paras |-> ps[p]],
         \A p \in 1 .. Len(d.paras) : Recolours(d.paras[p], ps[p])
  PROVE  Keeps(d, [d EXCEPT !.paras = ps])
<1>1. d.paras \in Seq(Paras) /\ Len(d.paras) \in Nat /\ DOMAIN d.paras = 1 .. Len(d.paras)
  BY WholeIs
<1>2. \A p \in 1 .. Len(d.paras) : ps[p] \in Paras
  BY DEF Recolours
<1>3. ps \in Seq(Paras) /\ Len(ps) = Len(d.paras)
  <2> DEFINE n == Len(d.paras)
  <2>1. ps = [p \in 1 .. n |-> ps[p]] /\ n \in Nat /\ \A p \in 1 .. n : ps[p] \in Paras
    BY <1>1, <1>2
  <2> HIDE DEF n
  <2>2. ps \in Seq(Paras) /\ Len(ps) = n
    BY <2>1
  <2> QED
    BY <2>2 DEF n
<1> QED
  BY <1>3, RecolouredIs DEF Keeps

LEMMA KeepsOne ==
  ASSUME NEW d, Whole(d), NEW p \in 1 .. Len(d.paras), NEW x, Recolours(d.paras[p], x)
  PROVE  Keeps(d, [d EXCEPT !.paras[p] = x])
<1> DEFINE ps == [d.paras EXCEPT ![p] = x]
<1>1. d.paras \in Seq(Paras) /\ Len(d.paras) \in Nat /\ DOMAIN d.paras = 1 .. Len(d.paras)
  BY WholeIs
<1>2. DOMAIN ps = DOMAIN d.paras /\ ps = [q \in DOMAIN d.paras |-> ps[q]]
  OBVIOUS
<1>3. \A q \in 1 .. Len(d.paras) : Recolours(d.paras[q], ps[q])
  <2> SUFFICES ASSUME NEW q \in 1 .. Len(d.paras) PROVE Recolours(d.paras[q], ps[q])
    OBVIOUS
  <2>1. CASE q = p
    <3>1. ps[q] = x
      BY <1>1, <2>1
    <3> QED
      BY <2>1, <3>1
  <2>2. CASE q # p
    <3>1. ps[q] = d.paras[q] /\ d.paras[q] \in Paras
      BY <1>1, <2>2, ParasAre
    <3> QED
      BY <3>1, RecoloursSame
  <2> QED
    BY <2>1, <2>2
<1> HIDE DEF ps
<1>4. Keeps(d, [d EXCEPT !.paras = ps])
  BY <1>2, <1>3, KeepsAll
<1>5. [d EXCEPT !.paras[p] = x] = [d EXCEPT !.paras = ps]
  BY DEF ps
<1> QED
  BY <1>4, <1>5

LEMMA PaintedIs ==
  ASSUME NEW d, Whole(d), NEW o, NEW n, NEW f \in CharFormats
  PROVE  Keeps(d, Painted(d, o, n, f))
<1> DEFINE new(p) == PaintedPara(d.paras[p], o - ParaStart(d, p), n, f)
           ps == [p \in DOMAIN d.paras |-> new(p)]
<1>1. DOMAIN d.paras = 1 .. Len(d.paras) /\ d.paras \in Seq(Paras)
  BY WholeIs
<1>2. ASSUME NEW x \in Paras, NEW from PROVE Recolours(x, PaintedPara(x, from, n, f))
  <2> DEFINE t == x.text
             h == {k \in DOMAIN t : k > from /\ k <= from + n}
             v == [k \in DOMAIN t |-> IF k \in h THEN [t[k] EXCEPT !.f = f] ELSE t[k]]
  <2>1. t \in Texts
    BY DEF Paras
  <2>2. PaintedPara(x, from, n, f) = IF h = {} THEN x ELSE Touched([x EXCEPT !.text = v])
    BY DEF PaintedPara
  <2>3. v \in Texts /\ Len(v) = Len(t) /\ \A k \in 0 .. Len(t) : GlyphIn(v, k) = GlyphIn(t, k)
    <3> HIDE DEF h, t
    <3>1. v = [k \in DOMAIN t |-> v[k]]
      OBVIOUS
    <3>2. \A k \in DOMAIN t : v[k] = t[k] \/ \E g \in CharFormats : v[k] = [t[k] EXCEPT !.f = g]
      OBVIOUS
    <3> HIDE DEF v
    <3> QED
      BY <2>1, <3>1, <3>2, ReshadedIs
  <2> HIDE DEF v, h
  <2>4. Recolours(x, Touched([x EXCEPT !.text = v]))
    BY <2>1, <2>3, RecoloursText
  <2>5. Recolours(x, x)
    BY RecoloursSame
  <2> QED
    BY <2>2, <2>4, <2>5
<1>3. Painted(d, o, n, f) = [d EXCEPT !.paras = ps]
  BY Zenon DEF Painted
<1>4. \A p \in DOMAIN d.paras : ps[p] = new(p)
  OBVIOUS
<1>5. DOMAIN ps = DOMAIN d.paras /\ ps = [p \in DOMAIN d.paras |-> ps[p]]
  OBVIOUS
<1> HIDE DEF ps
<1>6. \A p \in 1 .. Len(d.paras) : Recolours(d.paras[p], ps[p])
  <2>1. \A p \in 1 .. Len(d.paras) : d.paras[p] \in Paras
    BY <1>1, ParasAre
  <2> QED
    BY <1>1, <1>2, <1>4, <2>1
<1>7. Keeps(d, [d EXCEPT !.paras = ps])
  BY <1>5, <1>6, KeepsAll
<1> QED
  BY <1>3, <1>7

LEMMA RepaintedIs ==
  ASSUME NEW d, Whole(d), NEW o, NEW runs \in SUBSET Runs
  PROVE  Keeps(d, Repainted(d, o, runs))
<1> DEFINE new(p) == RepaintedPara(d.paras[p], ParaStart(d, p) - o, runs)
           ps == [p \in DOMAIN d.paras |-> new(p)]
<1>1. DOMAIN d.paras = 1 .. Len(d.paras) /\ d.paras \in Seq(Paras)
  BY WholeIs
<1>2. ASSUME NEW x \in Paras, NEW first PROVE Recolours(x, RepaintedPara(x, first, runs))
  <2> DEFINE Back(k) == {r \in runs : r.at = first + k - 1}
             t == x.text
             v == [k \in DOMAIN t |-> IF Back(k) = {} THEN t[k]
                                      ELSE [t[k] EXCEPT !.f = (CHOOSE r \in Back(k) : TRUE).f]]
  <2>1. t \in Texts
    BY DEF Paras
  <2>2. RepaintedPara(x, first, runs) =
          IF \A k \in DOMAIN t : Back(k) = {} THEN x ELSE Touched([x EXCEPT !.text = v])
    BY DEF RepaintedPara
  <2>3. \A k : Back(k) # {} => (CHOOSE r \in Back(k) : TRUE).f \in CharFormats
    <3> SUFFICES ASSUME NEW k, Back(k) # {} PROVE (CHOOSE r \in Back(k) : TRUE).f \in CharFormats
      OBVIOUS
    <3>1. Back(k) \subseteq Runs
      OBVIOUS
    <3> HIDE DEF Back
    <3>2. (CHOOSE r \in Back(k) : TRUE) \in Runs
      BY <3>1
    <3> QED
      BY <3>2 DEF Runs
  <2>4. v \in Texts /\ Len(v) = Len(t) /\ \A k \in 0 .. Len(t) : GlyphIn(v, k) = GlyphIn(t, k)
    <3> HIDE DEF Back, t
    <3>1. v = [k \in DOMAIN t |-> v[k]]
      OBVIOUS
    <3>2. \A k \in DOMAIN t : v[k] = t[k] \/ \E g \in CharFormats : v[k] = [t[k] EXCEPT !.f = g]
      BY <2>3
    <3> HIDE DEF v
    <3> QED
      BY <2>1, <3>1, <3>2, ReshadedIs
  <2> HIDE DEF v, Back
  <2>5. Recolours(x, Touched([x EXCEPT !.text = v]))
    BY <2>1, <2>4, RecoloursText
  <2>6. Recolours(x, x)
    BY RecoloursSame
  <2> QED
    BY <2>2, <2>5, <2>6
<1>3. Repainted(d, o, runs) = [d EXCEPT !.paras = ps]
  BY Zenon DEF Repainted
<1>4. \A p \in DOMAIN d.paras : ps[p] = new(p)
  OBVIOUS
<1>5. DOMAIN ps = DOMAIN d.paras /\ ps = [p \in DOMAIN d.paras |-> ps[p]]
  OBVIOUS
<1> HIDE DEF ps
<1>6. \A p \in 1 .. Len(d.paras) : Recolours(d.paras[p], ps[p])
  <2>1. \A p \in 1 .. Len(d.paras) : d.paras[p] \in Paras
    BY <1>1, ParasAre
  <2> QED
    BY <1>1, <1>2, <1>4, <2>1
<1>7. Keeps(d, [d EXCEPT !.paras = ps])
  BY <1>5, <1>6, KeepsAll
<1> QED
  BY <1>3, <1>7

LEMMA FormattedIs ==
  ASSUME NEW d, Whole(d), NEW p \in 1 .. Len(d.paras), NEW format \in ParaFormats
  PROVE  Keeps(d, [d EXCEPT !.paras[p] = Touched([@ EXCEPT !.format = format])])
<1> DEFINE x == d.paras[p]
           y == [x EXCEPT !.format = format]
           z == Touched(y)
<1>1. x \in Paras
  BY WholeIs, ParasAre
<1> HIDE DEF x
<1>2. y \in Paras /\ y.text = x.text /\ y.id = x.id /\ y.rev = x.rev
  BY <1>1 DEF Paras
<1> HIDE DEF y
<1>3. z \in Paras /\ z.id = y.id /\ z.text = y.text /\ y.rev < z.rev
  BY <1>2, TouchedIs
<1> HIDE DEF z
<1>4. Recolours(x, z)
  BY <1>2, <1>3 DEF Recolours
<1>5. Keeps(d, [d EXCEPT !.paras[p] = z])
  BY <1>4, KeepsOne DEF x
<1>6. [d EXCEPT !.paras[p] = Touched([@ EXCEPT !.format = format])] = [d EXCEPT !.paras[p] = z]
  BY DEF z, y, x
<1> QED
  BY <1>5, <1>6

LEMMA KeepsSame ==
  ASSUME NEW d, Whole(d)
  PROVE  Keeps(d, d)
BY EvolvesSame DEF Keeps, Changes

LEMMA ReformattedIs ==
  ASSUME NEW d, Whole(d), NEW p \in Nat, NEW format \in ParaFormats
  PROVE  Keeps(d, Reformatted(d, p, format))
<1>1. Len(d.paras) \in Nat
  BY WholeIs
<1>2. CASE p > Len(d.paras)
  BY <1>2, KeepsSame DEF Reformatted
<1>3. CASE p = 0
  <2> DEFINE x == Touched([d.paras[p] EXCEPT !.format = format])
             ps == [d.paras EXCEPT ![p] = x]
  <2>1. d.paras \in Seq(Paras) /\ ~(p > Len(d.paras)) /\ p \notin DOMAIN d.paras
    BY <1>1, <1>3, WholeIs
  <2>2. Reformatted(d, p, format) = [d EXCEPT !.paras = ps]
    BY <2>1 DEF Reformatted
  <2> HIDE DEF x
  <2>3. ps = d.paras
    <3>1. d.paras = [q \in DOMAIN d.paras |-> d.paras[q]]
      BY <2>1
    <3>2. ps = [q \in DOMAIN d.paras |-> d.paras[q]]
      BY <2>1
    <3> QED
      BY <3>1, <3>2
  <2>4. d = [d EXCEPT !.paras = d.paras]
    BY WholeIs
  <2> QED
    BY <2>2, <2>3, <2>4, KeepsSame
<1>4. CASE p <= Len(d.paras) /\ p # 0
  <2>1. p \in 1 .. Len(d.paras) /\ ~(p > Len(d.paras))
    BY <1>1, <1>4
  <2> QED
    BY <2>1, FormattedIs DEF Reformatted
<1> QED
  BY <1>1, <1>2, <1>3, <1>4

LEMMA PlacesUnion ==
  ASSUME NEW A \in Places1, NEW B \in Places1
  PROVE  A \cup B \in Places1
<1>1. A \subseteq Nat /\ B \subseteq Nat /\ IsFiniteSet(A) /\ IsFiniteSet(B)
  BY DEF Places1
<1>2. IsFiniteSet(A \cup B)
  BY <1>1, FS_Union
<1> QED
  BY <1>1, <1>2 DEF Places1

LEMMA HungIs ==
  ASSUME NEW d, Whole(d), NEW p \in 1 .. Len(d.paras), NEW a \in Nat
  PROVE  Keeps(d, Hung(d, [para |-> p, at |-> a]))
<1> DEFINE x == d.paras[p]
           y == [x EXCEPT !.images = @ \cup {a}]
           z == Touched(y)
<1>1. p \in 1 .. Len(d.paras) /\ a \in Nat
  OBVIOUS
<1>2. x \in Paras
  BY <1>1, WholeIs, ParasAre
<1> HIDE DEF x
<1>3. x.images \cup {a} \in Places1
  <2>1. {a} \in Places1
    BY <1>1, FS_Singleton DEF Places1
  <2>2. x.images \in Places1
    BY <1>2 DEF Paras
  <2> QED
    BY <2>1, <2>2, PlacesUnion
<1>4. y \in Paras /\ y.text = x.text /\ y.id = x.id /\ y.rev = x.rev
  BY <1>2, <1>3 DEF Paras
<1> HIDE DEF y
<1>5. z \in Paras /\ z.id = y.id /\ z.text = y.text /\ y.rev < z.rev
  BY <1>4, TouchedIs
<1> HIDE DEF z
<1>6. Recolours(x, z)
  BY <1>4, <1>5 DEF Recolours
<1>7. Keeps(d, [d EXCEPT !.paras[p] = z])
  BY <1>1, <1>6, KeepsOne DEF x
<1>8. Hung(d, [para |-> p, at |-> a]) = [d EXCEPT !.paras[p] = z]
  <2> DEFINE i == [para |-> p, at |-> a]
  <2>1. i.para = p /\ i.at = a
    OBVIOUS
  <2> HIDE DEF i
  <2>3. Hung(d, i) = [d EXCEPT !.paras[p] = z]
    BY <2>1 DEF Hung, z, y, x
  <2> QED
    BY <2>3 DEF i
<1> QED
  BY <1>7, <1>8

LEMMA RehungIs ==
  ASSUME NEW d, Whole(d), NEW images \in Places1
  PROVE  Keeps(d, Rehung(d, images))
<1> DEFINE at(p) == {Locate(d, k).at : k \in HungIn(d, images, p)}
           n(p) == Cardinality(HungIn(d, images, p))
           ps == [p \in DOMAIN d.paras |-> RehungPara(d, images, p)]
<1>1. DOMAIN d.paras = 1 .. Len(d.paras) /\ d.paras \in Seq(Paras) /\ d.paras # <<>>
  BY WholeIs
<1>2. ASSUME NEW p \in 1 .. Len(d.paras)
      PROVE  at(p) \in Places1 /\ n(p) \in Nat /\ (n(p) = 0 => at(p) = {})
  <2> DEFINE S == HungIn(d, images, p)
             f == [k \in S |-> Locate(d, k).at]
  <2>1. S \subseteq images /\ images \subseteq Nat /\ IsFiniteSet(images)
    BY DEF HungIn, Places1
  <2>2. IsFiniteSet(S)
    BY <2>1, FS_Subset
  <2>3. Cardinality(S) \in Nat /\ (Cardinality(S) = 0 => S = {})
    BY <2>2, FS_CardinalityType, FS_EmptySet
  <2>4. \A k \in S : Locate(d, k).at \in Nat
    <3> SUFFICES ASSUME NEW k \in S PROVE Locate(d, k).at \in Nat
      OBVIOUS
    <3>1. k \in Nat
      BY <2>1
    <3>2. Spot(d, Locate(d, k).para, Locate(d, k).at)
      BY <3>1, LocateSpot
    <3> QED
      BY <3>2, SpotIs
  <2> HIDE DEF S
  <2>5. IsFiniteSet({f[k] : k \in S})
    <3> HIDE DEF f
    <3> QED
      BY <2>2, ImageFinite
  <2>6. {f[k] : k \in S} = {Locate(d, k).at : k \in S}
    OBVIOUS
  <2> HIDE DEF f
  <2> DEFINE T == {Locate(d, k).at : k \in S}
  <2>7. T \in Places1 /\ (S = {} => T = {})
    BY <2>4, <2>5, <2>6 DEF Places1
  <2> QED
    BY <2>3, <2>7 DEF S
<1>3. ASSUME NEW x \in Paras, NEW A \in Places1, NEW m \in Nat, m = 0 => A = {}
      PROVE  Recolours(x, [x EXCEPT !.images = @ \cup A, !.rev = @ + m])
  <2>1. x.images \cup A \in Places1 /\ x.rev + m \in Nat /\ x.rev \in Nat
    <3>1. x.images \in Places1 /\ x.rev \in Nat
      BY DEF Paras
    <3> QED
      BY <3>1, PlacesUnion
  <2> DEFINE y == [x EXCEPT !.images = @ \cup A, !.rev = @ + m]
  <2>2. y \in Paras /\ y.id = x.id /\ y.text = x.text /\ y.rev = x.rev + m
    BY <2>1 DEF Paras
  <2>3. x = y \/ x.rev < y.rev
    <3>1. CASE m = 0
      <4>1. x.images \cup A = x.images /\ x.rev + m = x.rev
        BY <1>3, <2>1, <3>1
      <4>2. y = [x EXCEPT !.images = x.images, !.rev = x.rev]
        BY <4>1
      <4>3. [x EXCEPT !.images = x.images, !.rev = x.rev] = x
        BY DEF Paras
      <4> QED
        BY <4>2, <4>3
    <3>2. CASE m # 0
      <4> HIDE DEF y
      <4> QED
        BY <2>1, <2>2, <3>2
    <3> QED
      BY <3>1, <3>2
  <2> HIDE DEF y
  <2>4. Recolours(x, y)
    BY <2>2, <2>3 DEF Recolours
  <2> QED
    BY <2>4 DEF y
<1>4. Rehung(d, images) = [d EXCEPT !.paras = ps]
  BY Zenon DEF Rehung
<1>5. DOMAIN ps = DOMAIN d.paras /\ ps = [p \in DOMAIN d.paras |-> ps[p]]
  OBVIOUS
<1>6. \A p \in 1 .. Len(d.paras) : Recolours(d.paras[p], ps[p])
  <2> SUFFICES ASSUME NEW p \in 1 .. Len(d.paras) PROVE Recolours(d.paras[p], ps[p])
    OBVIOUS
  <2>1. d.paras[p] \in Paras
    BY <1>1, ParasAre
  <2>2. ps[p] = [d.paras[p] EXCEPT !.images = @ \cup at(p), !.rev = @ + n(p)]
    BY <1>1 DEF RehungPara
  <2>3. at(p) \in Places1 /\ n(p) \in Nat /\ (n(p) = 0 => at(p) = {})
    BY <1>2
  <2> HIDE DEF ps, at, n
  <2>4. Recolours(d.paras[p], [d.paras[p] EXCEPT !.images = @ \cup at(p), !.rev = @ + n(p)])
    BY Zenon, <1>3, <2>1, <2>3
  <2> QED
    BY <2>2, <2>4
<1> HIDE DEF ps
<1>7. Keeps(d, [d EXCEPT !.paras = ps])
  BY <1>5, <1>6, KeepsAll
<1> QED
  BY <1>4, <1>7

-----------------------------------------------------------------------------
(* What splices are made of.                                               *)
Symbols == Glyphs \cup {Line}

Spliced(u, t, o, n, g) ==
    /\ u \in Lines /\ Len(u) = Len(t) - n + Len(g)
    /\ \A k \in 1 .. o : u[k] = t[k]
    /\ \A k \in 1 .. Len(g) : u[o + k] = g[k]
    /\ \A k \in 1 .. Len(t) - (o + n) : u[o + Len(g) + k] = t[o + n + k]

LEMMA SpliceAre ==
  ASSUME NEW t \in Lines, NEW o \in Nat, NEW n \in Nat, o + n <= Len(t), NEW g \in Lines
  PROVE  Spliced(Splice(t, o, n, g), t, o, n, g)
<1> DEFINE u == Splice(t, o, n, g)
           b == o + n
<1>1. /\ t \in Seq(Symbols) /\ g \in Seq(Symbols) /\ b \in Nat /\ b <= Len(t)
      /\ o <= Len(t) /\ Len(t) \in Nat /\ Len(g) \in Nat
  BY DEF Lines, Symbols
<1>2. u = Pieces(t, o, g, t, b)
  BY DEF Splice, Pieces
<1> HIDE DEF u
<1>3. Pasted(u, Symbols, t, o, g, t, b)
  <2> HIDE DEF b
  <2> QED
    BY <1>1, <1>2, PastedIs
<1>4. /\ u \in Seq(Symbols) /\ Len(u) = o + Len(g) + (Len(t) - b)
      /\ \A k \in 1 .. o : u[k] = t[k]
      /\ \A k \in 1 .. Len(g) : u[o + k] = g[k]
      /\ \A k \in 1 .. Len(t) - b : u[o + Len(g) + k] = t[b + k]
  BY <1>3 DEF Pasted
<1>5. Len(u) = Len(t) - n + Len(g)
  BY <1>1, <1>4
<1> QED
  BY <1>4, <1>5 DEF u, Lines, Symbols, Spliced

LEMMA SameLines ==
  ASSUME NEW t \in Lines, NEW u \in Lines, Len(t) = Len(u), \A k \in 1 .. Len(t) : t[k] = u[k]
  PROVE  t = u
BY SeqEqual DEF Lines

\* A splice over a splice.
LEMMA SpliceTwice ==
  ASSUME NEW t \in Lines, NEW o \in Nat, NEW n \in Nat, o + n <= Len(t), NEW g \in Lines, NEW h \in Lines
  PROVE  Splice(Splice(t, o, n, g), o, Len(g), h) = Splice(t, o, n, h)
<1> DEFINE u == Splice(t, o, n, g)
           v == Splice(t, o, n, h)
           w == Splice(u, o, Len(g), h)
           l == Len(t)
           x == Len(g)
           y == Len(h)
           r == l - (o + n)
<1>1. l \in Nat /\ x \in Nat /\ y \in Nat
  BY DEF Lines
<1>2. /\ u \in Lines /\ Len(u) = l - n + x
      /\ \A k \in 1 .. o : u[k] = t[k]
      /\ \A k \in 1 .. r : u[o + x + k] = t[o + n + k]
  <2>1. Spliced(u, t, o, n, g)
    BY SpliceAre
  <2> QED
    BY <2>1 DEF Spliced
<1>3. /\ v \in Lines /\ Len(v) = l - n + y
      /\ \A k \in 1 .. o : v[k] = t[k]
      /\ \A k \in 1 .. y : v[o + k] = h[k]
      /\ \A k \in 1 .. r : v[o + y + k] = t[o + n + k]
  <2>1. Spliced(v, t, o, n, h)
    BY SpliceAre
  <2> QED
    BY <2>1 DEF Spliced
<1> HIDE DEF u, v
<1>4. o + x <= Len(u) /\ Len(u) - (o + x) = r /\ Len(u) - x + y = l - n + y /\ r \in Nat
  <2>1. o + n <= l
    OBVIOUS
  <2> HIDE DEF l, x, y
  <2> QED
    BY <1>1, <1>2, <2>1
<1>5. /\ w \in Lines /\ Len(w) = Len(u) - x + y
      /\ \A k \in 1 .. o : w[k] = u[k]
      /\ \A k \in 1 .. y : w[o + k] = h[k]
      /\ \A k \in 1 .. Len(u) - (o + x) : w[o + y + k] = u[o + x + k]
  <2>1. Spliced(w, u, o, x, h)
    <3> HIDE DEF x, w
    <3>1. w = Splice(u, o, x, h)
      BY DEF w, x
    <3> QED
      BY <1>1, <1>2, <1>4, <3>1, SpliceAre
  <2> HIDE DEF w
  <2> QED
    BY <2>1 DEF Spliced
<1> HIDE DEF w
<1>6. Len(w) = Len(v) /\ Len(v) = o + y + r
  <2>1. o + n <= l
    OBVIOUS
  <2>2. r = l - (o + n)
    OBVIOUS
  <2> HIDE DEF l, r, x, y
  <2> QED
    BY <1>1, <1>3, <1>4, <1>5, <2>1, <2>2
<1>7. ASSUME NEW k \in 1 .. Len(w) PROVE w[k] = v[k]
  <2> HIDE DEF l, r, x, y
  <2>1. CASE k <= o
    <3>1. k \in 1 .. o
      BY <2>1
    <3> QED
      BY <1>2, <1>3, <1>5, <3>1
  <2>2. CASE o < k /\ k <= o + y
    <3>1. k - o \in 1 .. y /\ o + (k - o) = k
      BY <1>1, <2>2
    <3>2. w[o + (k - o)] = h[k - o] /\ v[o + (k - o)] = h[k - o]
      BY Zenon, <1>3, <1>5, <3>1
    <3> QED
      BY <3>1, <3>2
  <2>3. CASE o + y < k
    <3>1. k - (o + y) \in 1 .. r /\ o + y + (k - (o + y)) = k
      BY <1>1, <1>4, <1>6, <2>3
    <3> DEFINE i == k - (o + y)
    <3>2. /\ u[o + x + i] = t[o + n + i] /\ v[o + y + i] = t[o + n + i]
          /\ w[o + y + i] = u[o + x + i]
      <4>1. i \in 1 .. r /\ i \in 1 .. Len(u) - (o + x)
        BY <1>4, <3>1
      <4> HIDE DEF i
      <4> QED
        BY Zenon, <1>2, <1>3, <1>5, <4>1
    <3> QED
      BY <3>1, <3>2
  <2> QED
    BY <1>1, <2>1, <2>2, <2>3
<1> QED
  BY <1>3, <1>5, <1>6, <1>7, SameLines DEF w, v, u

\* A splice of what stands there.
LEMMA SpliceNone ==
  ASSUME NEW t \in Lines, NEW o \in Nat, NEW n \in Nat, o + n <= Len(t)
  PROVE  Splice(t, o, n, SubSeq(t, o + 1, o + n)) = t
<1> DEFINE g == SubSeq(t, o + 1, o + n)
           v == Splice(t, o, n, g)
           m == o + n
           l == Len(t)
<1>1. l \in Nat /\ m \in Nat /\ o <= m /\ m <= l
  BY DEF Lines
<1>2. g \in Lines /\ Len(g) = n /\ \A i \in 1 .. n : g[i] = t[o + i]
  <2>1. SubSeq(t, o + 1, m) \in Lines /\ Len(SubSeq(t, o + 1, m)) = m - o
        /\ \A i \in 1 .. m - o : SubSeq(t, o + 1, m)[i] = t[o + i]
    <3> HIDE DEF m
    <3> QED
      BY <1>1, SubTextIs
  <2>2. m - o = n
    OBVIOUS
  <2> QED
    BY <2>1, <2>2
<1> HIDE DEF g
<1>3. /\ v \in Lines /\ Len(v) = l - n + n
      /\ \A k \in 1 .. o : v[k] = t[k]
      /\ \A k \in 1 .. n : v[o + k] = g[k]
      /\ \A k \in 1 .. l - m : v[m + k] = t[m + k]
  <2>1. Spliced(v, t, o, n, g)
    BY <1>2, SpliceAre
  <2> QED
    BY <1>2, <2>1 DEF Spliced
<1> HIDE DEF v
<1>4. Len(v) = l
  BY <1>1, <1>3
<1>5. ASSUME NEW k \in 1 .. Len(v) PROVE v[k] = t[k]
  <2>0. m = o + n
    OBVIOUS
  <2> HIDE DEF l, m
  <2>1. CASE k <= o
    <3>1. k \in 1 .. o
      BY <2>1
    <3> QED
      BY <1>3, <3>1
  <2>2. CASE o < k /\ k <= m
    <3>1. k - o \in 1 .. n /\ o + (k - o) = k
      BY <2>0, <2>2
    <3> QED
      BY ZenonT(60), <1>2, <1>3, <3>1
  <2>3. CASE m < k
    <3>1. k - m \in 1 .. l - m /\ m + (k - m) = k
      BY <1>1, <1>4, <2>3
    <3> QED
      BY <1>3, <3>1
  <2> QED
    BY <1>1, <2>1, <2>2, <2>3
<1> QED
  BY <1>3, <1>4, <1>5, SameLines DEF v, g

\* A splice behind a splice.
LEMMA SpliceJoin ==
  ASSUME NEW t \in Lines, NEW o \in Nat, o <= Len(t), NEW g \in Lines, NEW h \in Lines
  PROVE  Splice(Splice(t, o, 0, g), o + Len(g), 0, h) = Splice(t, o, 0, g \o h)
<1> DEFINE u == Splice(t, o, 0, g)
           gh == g \o h
           v == Splice(t, o, 0, gh)
           l == Len(t)
           x == Len(g)
           y == Len(h)
           p == o + x
           w == Splice(u, p, 0, h)
           r == l - o
           z == 0
<1>1. l \in Nat /\ x \in Nat /\ y \in Nat /\ p \in Nat /\ p = o + x /\ r \in Nat
  BY DEF Lines
<1>2. gh \in Lines /\ Len(gh) = x + y /\ (\A k \in 1 .. x : gh[k] = g[k]) /\ \A k \in 1 .. y : gh[x + k] = h[k]
  <2> DEFINE C == Glyphs \cup {Line}
  <2>1. g \in Seq(C) /\ h \in Seq(C)
    BY DEF Lines
  <2> HIDE DEF C
  <2>2. gh \in Seq(C) /\ Len(gh) = x + y /\ (\A k \in 1 .. x : gh[k] = g[k]) /\ \A k \in 1 .. y : gh[x + k] = h[k]
    BY <2>1
  <2> QED
    BY <2>2 DEF C, Lines
<1> HIDE DEF gh
<1>3. z \in Nat /\ o + z <= Len(t) /\ o + z = o /\ z = 0
  OBVIOUS
<1>4. /\ u \in Lines /\ Len(u) = l - z + x
      /\ \A k \in 1 .. o : u[k] = t[k]
      /\ \A k \in 1 .. x : u[o + k] = g[k]
      /\ \A k \in 1 .. l - (o + z) : u[o + x + k] = t[o + z + k]
  <2>1. Spliced(u, t, o, z, g)
    <3>1. u = Splice(t, o, z, g)
      OBVIOUS
    <3> HIDE DEF z, u
    <3> QED
      BY <1>3, <3>1, SpliceAre
  <2> HIDE DEF z, u
  <2> QED
    BY <2>1 DEF Spliced
<1>5. /\ v \in Lines /\ Len(v) = l - z + Len(gh)
      /\ \A k \in 1 .. o : v[k] = t[k]
      /\ \A k \in 1 .. Len(gh) : v[o + k] = gh[k]
      /\ \A k \in 1 .. l - (o + z) : v[o + Len(gh) + k] = t[o + z + k]
  <2>1. Spliced(v, t, o, z, gh)
    <3>1. v = Splice(t, o, z, gh)
      OBVIOUS
    <3> HIDE DEF z, v
    <3> QED
      BY <1>2, <1>3, <3>1, SpliceAre
  <2> HIDE DEF z, v
  <2> QED
    BY <2>1 DEF Spliced
<1> HIDE DEF u, v
<1>6. /\ Len(u) = l + x /\ p + z <= Len(u) /\ Len(u) - (p + z) = r /\ p + z = p
      /\ \A k \in 1 .. r : u[p + k] = t[o + k]
  <2>1. o <= l /\ r = l - o
    OBVIOUS
  <2>2. \A k \in 1 .. r : u[p + k] = t[o + k]
    BY <1>3, <1>4
  <2> HIDE DEF l, x, p, z, r
  <2> QED
    BY <1>1, <1>3, <1>4, <2>1, <2>2
<1>7. /\ Len(v) = o + x + y + r
      /\ \A k \in 1 .. x : v[o + k] = g[k]
      /\ \A k \in 1 .. y : v[p + k] = h[k]
      /\ \A k \in 1 .. r : v[p + y + k] = t[o + k]
  <2>1. o <= l /\ r = l - o
    OBVIOUS
  <2>2. l - (o + z) = r
    BY <1>3
  <2> HIDE DEF l, x, y, p, z, r
  <2>3. \A k \in 1 .. y : x + k \in 1 .. x + y /\ o + (x + k) = p + k
    BY <1>1
  <2>4. \A k \in 1 .. x : k \in 1 .. x + y
    BY <1>1
  <2>5. \A k \in 1 .. r : o + (x + y) + k = p + y + k /\ o + z + k = o + k
    BY <1>1, <1>3
  <2>6. Len(v) = o + x + y + r
    BY <1>1, <1>2, <1>3, <1>5, <2>1
  <2>7. \A k \in 1 .. x : v[o + k] = g[k]
    BY <1>2, <1>5, <2>4
  <2>8. \A k \in 1 .. y : v[p + k] = h[k]
    <3> SUFFICES ASSUME NEW k \in 1 .. y PROVE v[p + k] = h[k]
      OBVIOUS
    <3>1. v[o + (x + k)] = gh[x + k]
      BY <1>2, <1>5, <2>3
    <3> QED
      BY <1>2, <2>3, <3>1
  <2>9. \A k \in 1 .. r : v[p + y + k] = t[o + k]
    BY <1>2, <1>5, <2>2, <2>5
  <2> QED
    BY <2>6, <2>7, <2>8, <2>9
<1>8. /\ w \in Lines /\ Len(w) = Len(u) - z + y
      /\ \A k \in 1 .. p : w[k] = u[k]
      /\ \A k \in 1 .. y : w[p + k] = h[k]
      /\ \A k \in 1 .. Len(u) - (p + z) : w[p + y + k] = u[p + z + k]
  <2>1. w = Splice(u, p, z, h)
    BY <1>3
  <2> HIDE DEF z, p, w
  <2>2. Spliced(w, u, p, z, h)
    BY <1>1, <1>3, <1>4, <1>6, <2>1, SpliceAre
  <2> QED
    BY <2>2 DEF Spliced
<1> HIDE DEF w
<1>9. Len(w) = Len(v)
  <2>1. o <= l /\ r = l - o
    OBVIOUS
  <2> HIDE DEF l, x, y, p, z, r
  <2> QED
    BY <1>1, <1>3, <1>6, <1>7, <1>8, <2>1
<1>10. ASSUME NEW k \in 1 .. Len(w) PROVE w[k] = v[k]
  <2> HIDE DEF l, r, x, y, p, z
  <2>1. CASE k <= o
    <3>1. k \in 1 .. o /\ k \in 1 .. p
      BY <1>1, <2>1
    <3> QED
      BY <1>4, <1>5, <1>8, <3>1
  <2>2. CASE o < k /\ k <= p
    <3>1. k - o \in 1 .. x /\ o + (k - o) = k /\ k \in 1 .. p
      BY <1>1, <2>2
    <3> QED
      BY <1>4, <1>7, <1>8, <3>1
  <2>3. CASE p < k /\ k <= p + y
    <3>1. k - p \in 1 .. y /\ p + (k - p) = k
      BY <1>1, <2>3
    <3> QED
      BY <1>7, <1>8, <3>1
  <2>4. CASE p + y < k
    <3>1. k - (p + y) \in 1 .. r /\ p + y + (k - (p + y)) = k
      BY <1>1, <1>7, <1>9, <2>4
    <3> QED
      BY <1>6, <1>7, <1>8, <3>1
  <2> QED
    BY <1>1, <2>1, <2>2, <2>3, <2>4
<1> QED
  BY <1>5, <1>8, <1>9, <1>10, SameLines DEF w, v, u, gh

-----------------------------------------------------------------------------
(* The steps that are noted.                                               *)
LEMMA StepIs == Step \in Steps
<1>1. {} \in Places1 /\ {} \in SUBSET Runs
  BY FS_EmptySet DEF Places1
<1>2. Left \in ParaFormats
  BY WriterAssumption
<1>3. <<>> \in Lines
  BY DEF Lines
<1> QED
  BY <1>1, <1>2, <1>3 DEF Step, Steps, StepRecords, Kinds

Noted(s, kind, at, len, g, was) ==
    s \in Steps /\ s.kind = kind /\ s.at = at /\ s.len = len /\ s.text = g /\ s.was = was

LEMMA InsertStep ==
  ASSUME NEW at \in Nat, NEW len \in Nat, NEW g \in Lines, NEW join \in BOOLEAN, NEW was \in Lines
  PROVE  Noted([Step EXCEPT !.at = at, !.len = len, !.text = g, !.join = join, !.was = was],
               "insert", at, len, g, was)
<1>1. Step \in Steps /\ Step.kind = "insert"
  BY StepIs DEF Step
<1> QED
  BY <1>1 DEF Steps, StepRecords, Noted

LEMMA SplitStep ==
  ASSUME NEW at \in Nat, NEW was \in Lines
  PROVE  Noted([Step EXCEPT !.at = at, !.len = 1, !.text = <<Line>>, !.was = was],
               "insert", at, 1, <<Line>>, was)
<1>1. Step \in Steps /\ Step.kind = "insert"
  BY StepIs DEF Step
<1>2. <<Line>> \in Lines
  BY DEF Lines
<1> QED
  BY <1>1, <1>2 DEF Steps, StepRecords, Noted

LEMMA RemoveStep ==
  ASSUME NEW at \in Nat, NEW len \in Nat, NEW g \in Lines, NEW runs \in SUBSET Runs,
         NEW images \in Places1, NEW was \in Lines
  PROVE  Noted([Step EXCEPT !.kind = "remove", !.at = at, !.len = len, !.text = g, !.runs = runs,
                            !.was = was, !.images = images], "remove", at, len, g, was)
<1>1. Step \in Steps
  BY StepIs
<1> QED
  BY <1>1 DEF Steps, StepRecords, Kinds, Noted

Restyling(s, kind, was) == s \in Steps /\ s.kind = kind /\ s.was = was

LEMMA FormatStep ==
  ASSUME NEW at \in Nat, NEW len \in Nat, NEW runs \in SUBSET Runs, NEW was \in Lines
  PROVE  Restyling([Step EXCEPT !.kind = "format", !.at = at, !.len = len, !.runs = runs, !.was = was],
                   "format", was)
<1>1. Step \in Steps
  BY StepIs
<1> QED
  BY <1>1 DEF Steps, StepRecords, Kinds, Restyling

LEMMA ParaFormatStep ==
  ASSUME NEW p \in Nat \ {0}, NEW format \in ParaFormats, NEW was \in Lines
  PROVE  Restyling([Step EXCEPT !.kind = "paraformat", !.at = p, !.format = format, !.was = was],
                   "paraformat", was)
<1>1. Step \in Steps
  BY StepIs
<1> QED
  BY <1>1 DEF Steps, StepRecords, Kinds, Restyling

LEMMA GlyphsAreLines ==
  ASSUME NEW g \in Seq(Glyphs)
  PROVE  g \in Lines /\ Len(g) \in Nat
BY DEF Lines

LEMMA PlacedIs ==
  ASSUME NEW d, Whole(d), NEW o \in Nat, NEW g \in Seq(Glyphs), NEW f \in SUBSET CharFormats
  PROVE  LET c == Placed(d, o, g, f)
         IN  /\ Changes(d, c) /\ Len(c.paras) = Len(d.paras)
             /\ o <= Length(d) => Text(c) = Splice(Text(d), o, 0, g)
<1> DEFINE i == Locate(d, o)
           p == i.para
           a == i.at
           c == PlacedAt(d, [para |-> p, at |-> a], g, f)
<1>1. Spot(d, p, a) /\ i = [para |-> p, at |-> a] /\ (o <= Length(d) => o = Here(d, p, a))
  BY LocateSpot
<1> HIDE DEF i
<1> DEFINE q == p
           b == a
<1>2. Spot(d, q, b)
  BY <1>1
<1> HIDE DEF q, b
<1> DEFINE e == PlacedAt(d, [para |-> q, at |-> b], g, f)
<1>3. Changes(d, e) /\ Len(e.paras) = Len(d.paras) /\ Text(e) = Splice(Text(d), Here(d, q, b), 0, g)
  BY <1>2, PlacedAtIs
<1>4. e = c
  BY DEF q, b
<1> HIDE DEF e, c
<1>5. Placed(d, o, g, f) = c
  BY <1>1 DEF Placed, i, c
<1>6. Text(c) = Splice(Text(d), Here(d, p, a), 0, g)
  BY <1>3, <1>4 DEF q, b
<1> QED
  BY <1>1, <1>3, <1>4, <1>5, <1>6

\* A letter that joins the step on top.
LEMMA JoinedTurns ==
  ASSUME NEW s \in Steps, s.kind = "insert", NEW t \in Lines, Turns(s, s.was, t), NEW g \in Seq(Glyphs),
         Len(g) = 1
  PROVE  LET r == Longer(s, g)
         IN  /\ r \in Steps /\ r.was = s.was /\ Turns(r, r.was, Splice(t, s.at + s.len, 0, g))
<1> DEFINE r == Longer(s, g)
           u == Splice(t, s.at + s.len, 0, g)
           gs == s.text \o g
<1>1. s.text \in Lines /\ s.at \in Nat /\ s.len \in Nat /\ s.was \in Lines /\ g \in Lines
  BY GlyphsAreLines DEF Steps, StepRecords
<1>2. gs \in Lines /\ Len(gs) = Len(s.text) + 1
  <2> DEFINE C == Glyphs \cup {Line}
             w == s.text
  <2>1. w \in Seq(C) /\ g \in Seq(C)
    BY <1>1 DEF Lines
  <2> HIDE DEF C, w
  <2>2. w \o g \in Seq(C) /\ Len(w \o g) = Len(w) + Len(g)
    BY <2>1, ConcatProperties
  <2> QED
    BY <2>2 DEF C, w, Lines
<1>3. s.at <= Len(s.was) /\ s.len = Len(s.text) /\ t = Splice(s.was, s.at, 0, s.text)
  BY DEF Turns
<1>4. r \in Steps /\ r.kind = "insert" /\ r.was = s.was /\ r.at = s.at /\ r.len = s.len + 1 /\ r.text = gs
  <2> HIDE DEF gs
  <2> DEFINE m == s.len + 1
             x == [s EXCEPT !.len = m, !.text = gs]
  <2>0. m \in Nat
    BY <1>1
  <2>2. r = x
    BY DEF gs, Longer
  <2> HIDE DEF m
  <2>1. x \in Steps /\ x.kind = "insert" /\ x.was = s.was /\ x.at = s.at /\ x.len = m /\ x.text = gs
    BY <1>2, <2>0 DEF Steps, StepRecords
  <2> QED
    BY <2>1, <2>2 DEF m
<1> HIDE DEF r
<1>5. u = Splice(s.was, s.at, 0, gs)
  <2> DEFINE w == s.was
             a == s.at
             h == s.text
  <2>1. w \in Lines /\ a \in Nat /\ a <= Len(w) /\ h \in Lines
    BY <1>1, <1>3
  <2>2. u = Splice(Splice(w, a, 0, h), a + Len(h), 0, g)
    BY <1>3
  <2>3. gs = h \o g
    OBVIOUS
  <2> HIDE DEF w, a, h, u, gs
  <2>4. Splice(Splice(w, a, 0, h), a + Len(h), 0, g) = Splice(w, a, 0, h \o g)
    BY <1>1, <2>1, SpliceJoin
  <2> QED
    BY <2>2, <2>3, <2>4 DEF w, a
<1> HIDE DEF u, gs
<1>6. Turns(r, r.was, u)
  BY <1>2, <1>3, <1>4, <1>5 DEF Turns
<1> QED
  BY <1>4, <1>6 DEF r, u

LEMMA LastUndoes ==
  ASSUME NEW stack \in Seq(Steps), stack # <<>>, NEW t, UndoesTo(stack, t), NEW s \in Steps,
         s.was = Last(stack).was, NEW u, Turns(s, s.was, u)
  PROVE  /\ [stack EXCEPT ![Len(stack)] = s] \in Seq(Steps)
         /\ UndoesTo([stack EXCEPT ![Len(stack)] = s], u)
<1> DEFINE n == Len(stack)
           new == [stack EXCEPT ![n] = s]
<1>1. n \in Nat \ {0} /\ DOMAIN stack = 1 .. n /\ n \in 1 .. n
  BY EmptySeq
<1>2. Last(stack) = stack[n]
  BY FrontIs
<1>3. new \in Seq(Steps) /\ DOMAIN new = 1 .. n /\ Len(new) = n
  <2> HIDE DEF n
  <2>1. stack \in [1 .. n -> Steps]
    BY DEF n
  <2>2. new \in [1 .. n -> Steps]
    BY <2>1
  <2> HIDE DEF new
  <2> QED
    BY <1>1, <2>2
<1>4. new[n] = s /\ \A k \in 1 .. n : k # n => new[k] = stack[k]
  BY Zenon, <1>1
<1> HIDE DEF new
<1>5. ASSUME NEW k \in 1 .. n PROVE Turns(new[k], new[k].was, Above(new, k, u))
  <2>1. CASE k = n
    BY Zenon, <1>3, <1>4, <2>1 DEF Above
  <2>2. CASE k # n
    <3>1. k + 1 \in 1 .. n
      <4> HIDE DEF n
      <4> QED
        BY <1>1, <2>2
    <3>2. new[k + 1].was = stack[k + 1].was
      BY <1>2, <1>4, <3>1
    <3>3. Above(new, k, u) = Above(stack, k, t)
      BY Zenon, <1>3, <2>2, <3>2 DEF Above
    <3>4. Turns(stack[k], stack[k].was, Above(stack, k, t))
      BY <1>1 DEF UndoesTo
    <3> QED
      BY <1>4, <2>2, <3>3, <3>4
  <2> QED
    BY <2>1, <2>2
<1>6. UndoesTo(new, u)
  BY <1>3, <1>5 DEF UndoesTo
<1> QED
  BY <1>3, <1>6 DEF new, n

LEMMA JoinedIs ==
  ASSUME NEW d, Whole(d), NEW c, Changes(d, c), NEW o, NEW g \in Seq(Glyphs), Joins(d, o, g),
         NEW b \in BOOLEAN, b \/ Text(c) = Splice(Text(d), o, 0, g)
  PROVE  LET e == Joined(Strayed(Strayed(c, b), d.redo # <<>>), g)
         IN  Edits(d, e) /\ e.paras = c.paras /\ e.modified
<1> DEFINE f == Strayed(Strayed(c, b), d.redo # <<>>)
           e == Joined(f, g)
           n == Len(d.undo)
           s == Last(d.undo)
           r == Longer(s, g)
           new == [d.undo EXCEPT ![n] = r]
           h == (d.redo # <<>>)
<1>1. c \in Documents /\ c.undo = d.undo /\ c.redo = d.redo /\ c.quiet = d.quiet /\ c.stray = d.stray
  BY DEF Changes, Whole
<1>2. /\ f \in Documents /\ f.paras = c.paras /\ f.next = c.next /\ f.undo = d.undo /\ f.redo = d.redo
      /\ f.quiet = d.quiet /\ f.stray = (d.stray \/ b \/ h)
  <2>1. h \in BOOLEAN
    OBVIOUS
  <2> DEFINE f1 == Strayed(c, b)
  <2>2. /\ f1 \in Documents /\ f1.paras = c.paras /\ f1.next = c.next /\ f1.undo = d.undo /\ f1.redo = d.redo
        /\ f1.quiet = d.quiet /\ f1.stray = (d.stray \/ b)
    BY <1>1 DEF Strayed, Documents
  <2> HIDE DEF f1, h
  <2> DEFINE f2 == Strayed(f1, h)
  <2>3. /\ f2 \in Documents /\ f2.paras = c.paras /\ f2.next = c.next /\ f2.undo = d.undo /\ f2.redo = d.redo
        /\ f2.quiet = d.quiet /\ f2.stray = (d.stray \/ b \/ h)
    BY <2>1, <2>2 DEF Strayed, Documents
  <2> QED
    BY <2>3 DEF f1, h
<1> HIDE DEF f
<1>3. /\ ~d.quiet /\ d.undo # <<>> /\ Len(g) = 1 /\ s.kind = "insert" /\ s.at + s.len = o
      /\ d.undo \in Seq(Steps)
  BY DocumentsAre DEF Joins, Whole
<1>4. s \in Steps /\ s = d.undo[n] /\ n \in Nat
  BY <1>3, FrontIs
<1> HIDE DEF s, n
<1>5. r \in Steps /\ r.was = s.was
  <2>1. s.text \in Lines /\ s.len \in Nat /\ g \in Lines
    BY <1>4, GlyphsAreLines DEF Steps, StepRecords
  <2> DEFINE gs == s.text \o g
             m == s.len + 1
  <2>2. gs \in Lines /\ m \in Nat
    <3> DEFINE C == Glyphs \cup {Line}
               w == s.text
    <3>1. w \in Seq(C) /\ g \in Seq(C)
      BY <2>1 DEF Lines
    <3> HIDE DEF C, w
    <3>2. w \o g \in Seq(C)
      BY <3>1, ConcatProperties
    <3> QED
      BY <2>1, <3>2 DEF C, w, Lines
  <2>3. r = [s EXCEPT !.len = m, !.text = gs]
    BY DEF Longer
  <2> HIDE DEF m, gs, r
  <2> QED
    BY <1>4, <2>2, <2>3 DEF Steps, StepRecords
<1>6. new \in Seq(Steps)
  <2> HIDE DEF r
  <2>1. d.undo \in [1 .. n -> Steps] /\ n \in Nat
    BY <1>3, <1>4 DEF n
  <2>2. new \in [1 .. n -> Steps]
    BY <1>5, <2>1
  <2> HIDE DEF new
  <2> QED
    BY <2>1, <2>2
<1>7. e = [f EXCEPT !.undo = new, !.modified = TRUE]
  <2>1. e = [f EXCEPT !.undo[n] = Longer(@, g), !.modified = TRUE]
    BY <1>2 DEF Joined, n
  <2>2. f.undo[n] = s
    BY <1>2, <1>4
  <2> QED
    BY <1>2, <2>1, <2>2
<1> HIDE DEF e, new, r
<1>8. /\ e \in Documents /\ e.paras = c.paras /\ e.next = c.next /\ e.modified /\ e.quiet = d.quiet
      /\ e.stray = (d.stray \/ b \/ h) /\ e.redo = d.redo /\ e.undo = new
  BY <1>2, <1>6, <1>7 DEF Documents
<1>9. Whole(e) /\ Evolves(d, e)
  BY <1>8 DEF Changes, Whole, Evolves
<1>10. Text(e) = Text(c)
  BY <1>8, TextOfParas
<1>11. ASSUME Exact(d), ~e.stray PROVE UndoesTo(e.undo, Text(e)) /\ RedoesTo(e.redo, Text(e))
  <2>1. ~d.stray /\ ~b /\ d.redo = <<>>
    BY <1>8, <1>11
  <2>2. UndoesTo(d.undo, Text(d))
    BY <1>3, <1>11, <2>1 DEF Exact
  <2>3. Turns(s, s.was, Text(d))
    BY <1>3, <2>2, FrontUndoes DEF s
  <2>4. Text(d) \in Lines
    BY WholeIs
  <2>5. Turns(r, r.was, Splice(Text(d), s.at + s.len, 0, g))
    BY <1>3, <1>4, <2>3, <2>4, JoinedTurns DEF r
  <2>6. Turns(r, r.was, Text(e))
    BY <1>3, <1>10, <2>1, <2>5
  <2>7. UndoesTo(new, Text(e))
    BY <1>3, <1>5, <2>2, <2>6, LastUndoes DEF new, n, s
  <2>8. RedoesTo(e.redo, Text(e))
    <3>1. DOMAIN <<>> = {}
      OBVIOUS
    <3> QED
      BY <1>8, <2>1, <3>1 DEF RedoesTo
  <2> QED
    BY <1>8, <2>7, <2>8
<1>12. Exact(d) => Exact(e)
  BY <1>11 DEF Exact
<1>13. d.stray => e.stray
  BY <1>8
<1>14. Edits(d, e)
  BY <1>8, <1>9, <1>12, <1>13 DEF Edits
<1> QED
  BY <1>8, <1>14 DEF e, f

LEMMA InsertPieceIs ==
  ASSUME NEW d, Whole(d), NEW o \in Nat, NEW g \in Seq(Glyphs), NEW f \in SUBSET CharFormats
  PROVE  LET e == InsertPiece(d, o, g, f)
         IN  /\ Edits(d, e) /\ Len(e.paras) = Len(d.paras) /\ e.modified
             /\ o <= Length(d) => Text(e) = Splice(Text(d), o, 0, g)
<1> DEFINE c == Placed(d, o, g, f)
           b == (o > Length(d))
           e == InsertPiece(d, o, g, f)
           s == [Step EXCEPT !.at = o, !.len = Len(g), !.text = g, !.join = ~d.quiet, !.was = Text(d)]
<1>1. Changes(d, c) /\ Len(c.paras) = Len(d.paras) /\ (o <= Length(d) => Text(c) = Splice(Text(d), o, 0, g))
  BY PlacedIs
<1>2. Length(d) \in Nat /\ Text(d) \in Lines /\ Len(Text(d)) = Length(d)
  BY WholeIs
<1>3. b \in BOOLEAN /\ (b \/ Text(c) = Splice(Text(d), o, 0, g))
  BY <1>1, <1>2
<1> HIDE DEF c
<1>4. CASE Joins(d, o, g)
  <2>1. e = Joined(Strayed(Strayed(c, b), d.redo # <<>>), g)
    BY <1>4 DEF InsertPiece, c
  <2> HIDE DEF b, e
  <2>2. Edits(d, e) /\ e.paras = c.paras /\ e.modified
    BY <1>1, <1>3, <1>4, <2>1, JoinedIs
  <2>3. Text(e) = Text(c)
    BY <2>2, TextOfParas
  <2> QED
    BY <1>1, <2>2, <2>3 DEF e
<1>5. CASE ~Joins(d, o, g)
  <2>1. e = PushUndo(Strayed(c, b), s)
    BY <1>5 DEF InsertPiece, c
  <2>2. s \in Steps /\ s.kind = "insert" /\ s.at = o /\ s.len = Len(g) /\ s.text = g /\ s.was = Text(d)
    <3> DEFINE len == Len(g)
               join == ~d.quiet
               was == Text(d)
    <3>1. len \in Nat /\ g \in Lines /\ join \in BOOLEAN /\ was \in Lines
      BY <1>2, GlyphsAreLines
    <3> HIDE DEF len, join, was
    <3> DEFINE z == [Step EXCEPT !.at = o, !.len = len, !.text = g, !.join = join, !.was = was]
    <3>2. Noted(z, "insert", o, len, g, was)
      BY <3>1, InsertStep, Zenon
    <3> QED
      BY <3>2 DEF len, was, join, Noted
  <2> HIDE DEF s, e
  <2>3. b \/ Turns(s, Text(d), Text(c))
    <3>1. CASE o <= Length(d)
      BY <1>1, <1>2, <2>2, <3>1 DEF Turns
    <3>2. CASE ~(o <= Length(d))
      BY <1>2, <3>2
    <3> QED
      BY <3>1, <3>2
  <2> HIDE DEF b
  <2>4. Edits(d, e) /\ e.paras = c.paras /\ e.modified
    BY <1>1, <1>3, <2>1, <2>2, <2>3, PushIs
  <2>5. Text(e) = Text(c)
    BY <2>4, TextOfParas
  <2> QED
    BY <1>1, <2>4, <2>5 DEF e
<1> QED
  BY <1>4, <1>5

LEMMA SplitParaIs ==
  ASSUME NEW d, Whole(d), NEW o \in Nat
  PROVE  LET e == SplitPara(d, o)
         IN  /\ Edits(d, e) /\ Len(e.paras) = Len(d.paras) + 1 /\ e.modified
             /\ o <= Length(d) => Text(e) = Splice(Text(d), o, 0, <<Line>>)
<1> DEFINE i == Locate(d, o)
           p == i.para
           a == i.at
           c == SplitAt(d, [para |-> p, at |-> a])
           e == SplitPara(d, o)
           b == (o > Length(d))
           s == [Step EXCEPT !.at = o, !.len = 1, !.text = <<Line>>, !.was = Text(d)]
<1>1. Spot(d, p, a) /\ i = [para |-> p, at |-> a] /\ (o <= Length(d) => o = Here(d, p, a))
  BY LocateSpot
<1>2. Length(d) \in Nat /\ Text(d) \in Lines /\ Len(Text(d)) = Length(d)
  BY WholeIs
<1>3. e = PushUndo(Strayed(c, b), s)
  BY <1>1 DEF SplitPara
<1> HIDE DEF i
<1>4. Changes(d, c) /\ Len(c.paras) = Len(d.paras) + 1 /\ Text(c) = Splice(Text(d), Here(d, p, a), 0, <<Line>>)
  <2> DEFINE q == p
             h == a
  <2>1. Spot(d, q, h)
    BY <1>1
  <2> HIDE DEF q, h
  <2> DEFINE x == SplitAt(d, [para |-> q, at |-> h])
  <2>2. Changes(d, x)
    BY <2>1, SplitChanges
  <2>3. Len(x.paras) = Len(d.paras) + 1
    BY <2>1, SplitParasAre
  <2>4. Text(x) = Splice(Text(d), Here(d, q, h), 0, <<Line>>)
    BY <2>1, SplitText
  <2>5. x = c
    BY DEF q, h
  <2> HIDE DEF x, c
  <2> QED
    BY <2>2, <2>3, <2>4, <2>5 DEF q, h
<1> HIDE DEF c
<1>5. Noted(s, "insert", o, 1, <<Line>>, Text(d))
  <2> DEFINE was == Text(d)
  <2>1. was \in Lines
    BY <1>2
  <2> HIDE DEF was
  <2>2. Noted([Step EXCEPT !.at = o, !.len = 1, !.text = <<Line>>, !.was = was], "insert", o, 1, <<Line>>, was)
    BY <2>1, SplitStep, Zenon
  <2> QED
    BY <2>2 DEF was
<1> HIDE DEF s
<1>6. b \in BOOLEAN /\ (b \/ Turns(s, Text(d), Text(c)))
  <2>1. CASE o <= Length(d)
    <3>1. Len(<<Line>>) = 1
      OBVIOUS
    <3> QED
      BY <1>1, <1>2, <1>4, <1>5, <2>1, <3>1 DEF Turns, Noted
  <2>2. CASE ~(o <= Length(d))
    BY <1>2, <2>2
  <2> QED
    BY <2>1, <2>2
<1> HIDE DEF b, e
<1>7. Edits(d, e) /\ e.paras = c.paras /\ e.modified
  BY <1>3, <1>4, <1>5, <1>6, PushIs DEF Noted
<1>8. Text(e) = Text(c)
  BY <1>7, TextOfParas
<1> QED
  BY <1>1, <1>4, <1>7, <1>8 DEF e

LEMMA CapturedIs ==
  ASSUME NEW d, Whole(d), NEW o \in Int, NEW n
  PROVE  CaptureRuns(d, o, n) \in SUBSET Runs
<1> SUFFICES ASSUME NEW p \in DOMAIN d.paras, NEW r \in ParaFormatsFrom(d.paras[p].text, ParaStart(d, p) - o, n)
             PROVE  r \in Runs
  BY DEF CaptureRuns
<1> DEFINE t == d.paras[p].text
           first == ParaStart(d, p) - o
<1>1. p \in 1 .. Len(d.paras) /\ d.paras \in Seq(Paras) /\ Len(d.paras) \in Nat
  BY WholeIs
<1>2. first \in Int
  <2>1. ParaStart(d, p) \in Nat
    BY <1>1, PlaceIs
  <2> QED
    BY <2>1
<1>3. t \in Texts
  BY <1>1, ParasAre
<1>4. PICK k \in 0 .. Len(t) - 1 : r = [at |-> first + k, f |-> t[k + 1].f]
  BY DEF ParaFormatsFrom
<1> HIDE DEF t, first
<1>5. t[k + 1] \in [c : Glyphs, f : CharFormats]
  <2> DEFINE C == [c : Glyphs, f : CharFormats]
  <2>1. t \in Seq(C)
    BY <1>3 DEF Texts
  <2> HIDE DEF C
  <2>2. k + 1 \in 1 .. Len(t)
    BY <2>1
  <2>3. t[k + 1] \in C
    BY <2>1, <2>2, ElementOfSeq
  <2> QED
    BY <2>3 DEF C
<1> QED
  BY <1>2, <1>4, <1>5 DEF Runs

LEMMA ErasedImagesAre ==
  ASSUME NEW d, Whole(d), NEW p, NEW a, Spot(d, p, a), NEW q, NEW b, Spot(d, q, b)
  PROVE  ErasedImages(d, [para |-> p, at |-> a], [para |-> q, at |-> b]) \in Places1
<1> DEFINE Lost(k) == {x \in d.paras[k].images : (k > p \/ x >= a) /\ (k < q \/ x < b)}
           Base(k) == IF k = p THEN 0 ELSE a
           s == ParaStart(d, p)
           Moved(k) == {s + Base(k) + x : x \in Lost(k)}
           All == {Moved(k) : k \in p .. q}
<1>1. /\ p \in 1 .. Len(d.paras) /\ q \in 1 .. Len(d.paras) /\ a \in Nat /\ d.paras \in Seq(Paras)
      /\ Len(d.paras) \in Nat
  BY SpotIs, WholeIs
<1>2. s \in Nat
  BY <1>1, PlaceIs
<1>3. ErasedImages(d, [para |-> p, at |-> a], [para |-> q, at |-> b]) = UNION All
  BY DEF ErasedImages
<1> HIDE DEF s
<1>4. ASSUME NEW k \in p .. q PROVE Moved(k) \in Places1
  <2>1. k \in 1 .. Len(d.paras)
    BY <1>1
  <2>2. d.paras[k].images \in Places1
    BY <1>1, <2>1, ParasAre DEF Paras
  <2>3. Lost(k) \subseteq d.paras[k].images
    OBVIOUS
  <2>4. IsFiniteSet(Lost(k)) /\ Lost(k) \subseteq Nat
    BY <2>2, <2>3, FS_Subset DEF Places1
  <2>5. Base(k) \in Nat
    BY <1>1
  <2> DEFINE S == Lost(k)
             m == s + Base(k)
             f == [x \in S |-> m + x]
  <2>6. m \in Nat
    BY <1>2, <2>5
  <2> HIDE DEF Lost, Base
  <2> HIDE DEF S, m
  <2>7. IsFiniteSet({f[x] : x \in S})
    <3> HIDE DEF f
    <3> QED
      BY <2>4, ImageFinite DEF S
  <2>8. {f[x] : x \in S} = {m + x : x \in S}
    OBVIOUS
  <2>9. {m + x : x \in S} \in Places1
    BY <2>4, <2>6, <2>7, <2>8 DEF Places1, S
  <2> QED
    BY <2>9 DEF S, m
<1> HIDE DEF Moved
<1>5. IsFiniteSet(All)
  <2> DEFINE S == p .. q
             f == [k \in S |-> Moved(k)]
  <2>1. IsFiniteSet(S)
    BY <1>1, FS_Interval
  <2> HIDE DEF S
  <2>2. IsFiniteSet({f[k] : k \in S})
    <3> HIDE DEF f
    <3> QED
      BY <2>1, ImageFinite
  <2>3. {f[k] : k \in S} = {Moved(k) : k \in S}
    OBVIOUS
  <2> QED
    BY <2>2, <2>3 DEF S
<1>6. \A T \in All : T \subseteq Nat /\ IsFiniteSet(T)
  BY <1>4 DEF Places1
<1> HIDE DEF All
<1>7. IsFiniteSet(UNION All)
  BY <1>5, <1>6, FS_UNION
<1> QED
  BY <1>3, <1>6, <1>7 DEF Places1

LEMMA RemovedIs ==
  ASSUME NEW d, Whole(d), NEW o \in Nat, NEW n \in Nat, o + n <= Length(d)
  PROVE  LET e == Removed(d, o, n)
         IN  /\ Edits(d, e) /\ e.modified
             /\ Text(e) = Splice(Text(d), o, n, <<>>)
             /\ Locate(d, o).para = Locate(d, o + n).para => Len(e.paras) = Len(d.paras)
<1> DEFINE i == Locate(d, o)
           m == o + n
           j == Locate(d, m)
           p == i.para
           a == i.at
           q == j.para
           b == j.at
           c == Erased(d, p, a, q, b)
           e == Removed(d, o, n)
           s == [Step EXCEPT !.kind = "remove", !.at = o, !.len = n, !.text = GetText(d, o, n),
                             !.runs = CaptureRuns(d, o, n), !.was = Text(d),
                             !.images = ErasedImages(d, i, j)]
           none == FALSE
<1>1. Length(d) \in Nat /\ Text(d) \in Lines /\ Len(Text(d)) = Length(d) /\ d.paras \in Seq(Paras) /\ d.paras # <<>>
  BY WholeIs
<1>2. m \in Nat /\ o <= Length(d) /\ m <= Length(d) /\ o <= m /\ m = o + n
  BY <1>1
<1> HIDE DEF m
<1>3. Spot(d, p, a) /\ i = [para |-> p, at |-> a] /\ o = Here(d, p, a)
  BY <1>2, LocateSpot
<1>4. Spot(d, q, b) /\ j = [para |-> q, at |-> b] /\ m = Here(d, q, b)
  BY <1>2, LocateSpot
<1> HIDE DEF i, j
<1> HIDE DEF p, a, q, b
<1>5. p <= q /\ Here(d, p, a) <= Here(d, q, b)
  <2>1. Here(d, p, a) <= Here(d, q, b)
    BY <1>2, <1>3, <1>4
  <2> QED
    BY <1>3, <1>4, <2>1, SpotsGrow
<1>6. e = PushUndo(c, s)
  BY <1>3, <1>4 DEF Removed, Erased, m, i, j
<1>7. Changes(d, c)
  BY <1>3, <1>4, <1>5, ErasedChanges
<1>8. Text(c) = Splice(Text(d), Here(d, p, a), Here(d, q, b) - Here(d, p, a), <<>>)
  BY <1>3, <1>4, <1>5, ErasedText
<1>9. p = q => Len(c.paras) = Len(d.paras)
  <2>1. Len(c.paras) = p + (Len(d.paras) - q)
    BY <1>3, <1>4, <1>5, ErasedParasAre
  <2>2. p \in Nat /\ q \in Nat /\ Len(d.paras) \in Nat
    BY <1>1, <1>3, <1>4 DEF Spot
  <2> QED
    BY <2>1, <2>2
<1> HIDE DEF c
<1>10. Text(c) = Splice(Text(d), o, n, <<>>)
  <2>1. Here(d, q, b) - Here(d, p, a) = n
    BY <1>2, <1>3, <1>4
  <2> QED
    BY <1>3, <1>8, <2>1
<1>11. GetText(d, o, n) \in Lines /\ GetText(d, o, n) = SubSeq(Text(d), o + 1, o + n)
  <2>1. o + n <= Length(d)
    OBVIOUS
  <2> QED
    BY <1>1, <2>1, GetTextIs
<1>12. Noted(s, "remove", o, n, GetText(d, o, n), Text(d))
  <2> DEFINE g == GetText(d, o, n)
             runs == CaptureRuns(d, o, n)
             was == Text(d)
             images == ErasedImages(d, i, j)
  <2>1. g \in Lines /\ runs \in SUBSET Runs /\ was \in Lines
    BY <1>1, <1>11, CapturedIs
  <2>2. images \in Places1
    BY <1>3, <1>4, ErasedImagesAre
  <2> HIDE DEF g, runs, was, images
  <2>3. Noted([Step EXCEPT !.kind = "remove", !.at = o, !.len = n, !.text = g, !.runs = runs,
                           !.was = was, !.images = images], "remove", o, n, g, was)
    BY <2>1, <2>2, RemoveStep, Zenon
  <2> QED
    BY <2>3 DEF g, runs, was, images
<1> HIDE DEF s
<1>13. Turns(s, Text(d), Text(c))
  BY <1>1, <1>10, <1>11, <1>12 DEF Turns, Noted
<1>14. Strayed(c, none) = c /\ none \in BOOLEAN
  BY <1>7, NotStrayed DEF Changes, Whole
<1> HIDE DEF none, e
<1>15. Edits(d, e) /\ e.paras = c.paras /\ e.modified
  BY <1>6, <1>7, <1>12, <1>13, <1>14, PushIs DEF Noted
<1>16. Text(e) = Text(c)
  BY <1>15, TextOfParas
<1>17. Locate(d, o).para = Locate(d, o + n).para => p = q
  BY DEF i, j, m, p, q
<1> QED
  BY <1>9, <1>10, <1>15, <1>16, <1>17 DEF e

LEMMA RemoveTextIs ==
  ASSUME NEW d, Whole(d), NEW o \in Nat, NEW l \in Int
  PROVE  LET e == RemoveText(d, o, l)
         IN  /\ Edits(d, e)
             /\ l \in Nat /\ o + l <= Length(d) => Text(e) = Splice(Text(d), o, l, <<>>)
             /\ l \in Nat /\ o + l <= Length(d) /\ Locate(d, o).para = Locate(d, o + l).para =>
                  Len(e.paras) = Len(d.paras)
<1> DEFINE e == RemoveText(d, o, l)
           n == Min({l, Length(d) - o})
<1>1. Length(d) \in Nat /\ Text(d) \in Lines /\ Len(Text(d)) = Length(d)
  BY WholeIs
<1>2. CASE l <= 0 \/ o >= Length(d)
  <2>1. e = d
    BY <1>2 DEF RemoveText
  <2>2. l \in Nat /\ o + l <= Length(d) => l = 0
    BY <1>1, <1>2
  <2>3. ASSUME l = 0, o + l <= Length(d) PROVE Text(d) = Splice(Text(d), o, l, <<>>)
    <3> DEFINE t == Text(d)
    <3>1. t \in Lines /\ o + l <= Len(t) /\ l \in Nat
      BY <1>1, <2>3
    <3> HIDE DEF t
    <3>2. SubSeq(t, o + 1, o + l) = <<>>
      BY <2>3, <3>1 DEF Lines
    <3>3. Splice(t, o, l, SubSeq(t, o + 1, o + l)) = t
      BY <3>1, SpliceNone
    <3> QED
      BY <3>2, <3>3 DEF t
  <2>4. Edits(d, d)
    BY EditsSame
  <2> QED
    BY <2>1, <2>2, <2>3, <2>4
<1>3. CASE ~(l <= 0 \/ o >= Length(d))
  <2>1. e = Removed(d, o, n)
    BY <1>3 DEF RemoveText
  <2>2. n \in Nat /\ o + n <= Length(d) /\ (o + l <= Length(d) => n = l)
    <3> DEFINE S == {l, Length(d) - o}
    <3>1. S \in SUBSET Nat /\ S # {}
      BY <1>1, <1>3
    <3>2. n \in S /\ \A k \in S : n <= k
      <4> HIDE DEF S
      <4>1. Min(S) \in S /\ \A k \in S : Min(S) <= k
        BY <3>1, MinIs
      <4> QED
        BY <4>1 DEF S
    <3> HIDE DEF n
    <3>3. n \in Nat /\ n <= l /\ n <= Length(d) - o /\ (n = l \/ n = Length(d) - o)
      BY <3>1, <3>2
    <3> QED
      BY <1>1, <3>3
  <2> HIDE DEF n, e
  <2>3. Edits(d, e) /\ Text(e) = Splice(Text(d), o, n, <<>>)
    BY <2>1, <2>2, RemovedIs
  <2>4. Locate(d, o).para = Locate(d, o + n).para => Len(e.paras) = Len(d.paras)
    BY <2>1, <2>2, RemovedIs
  <2> QED
    BY <2>2, <2>3, <2>4 DEF e
<1> QED
  BY <1>2, <1>3

LEMMA PushKept ==
  ASSUME NEW d, Whole(d), NEW c, Keeps(d, c), NEW s \in Steps, s.kind \in {"format", "paraformat"},
         s.was = Text(d)
  PROVE  LET e == PushUndo(c, s)
         IN  Edits(d, e) /\ Text(e) = Text(d) /\ Len(e.paras) = Len(d.paras) /\ e.modified
<1> DEFINE e == PushUndo(c, s)
           none == FALSE
<1>1. Changes(d, c) /\ Len(c.paras) = Len(d.paras) /\ Text(c) = Text(d)
  BY DEF Keeps
<1>2. Turns(s, Text(d), Text(c))
  BY <1>1 DEF Turns
<1>3. Strayed(c, none) = c /\ none \in BOOLEAN
  BY <1>1, NotStrayed DEF Changes, Whole
<1> HIDE DEF none, e
<1>4. Edits(d, e) /\ e.paras = c.paras /\ e.modified
  <2> DEFINE x == PushUndo(Strayed(c, none), s)
  <2>1. Edits(d, x) /\ x.paras = c.paras /\ x.modified
    BY <1>1, <1>2, <1>3, PushIs
  <2> QED
    BY <1>3, <2>1 DEF e
<1>5. Text(e) = Text(c)
  BY <1>4, TextOfParas
<1> QED
  BY <1>1, <1>4, <1>5 DEF e

LEMMA ApplyFormatIs ==
  ASSUME NEW d, Whole(d), NEW o \in Nat, NEW n \in Int, NEW f \in CharFormats
  PROVE  LET e == ApplyFormat(d, o, n, f)
         IN  Edits(d, e) /\ Text(e) = Text(d) /\ Len(e.paras) = Len(d.paras)
<1> DEFINE e == ApplyFormat(d, o, n, f)
           c == Painted(d, o, n, f)
           s == [Step EXCEPT !.kind = "format", !.at = o, !.len = n, !.runs = CaptureRuns(d, o, n),
                             !.was = Text(d)]
<1>1. CASE n <= 0
  <2>1. e = d
    BY <1>1 DEF ApplyFormat
  <2> QED
    BY <2>1, EditsSame
<1>2. CASE ~(n <= 0)
  <2>1. e = PushUndo(c, s)
    BY <1>2 DEF ApplyFormat
  <2>2. Keeps(d, c)
    BY PaintedIs
  <2>3. s \in Steps /\ s.kind = "format" /\ s.was = Text(d)
    <3> DEFINE runs == CaptureRuns(d, o, n)
               was == Text(d)
    <3>1. runs \in SUBSET Runs /\ was \in Lines /\ n \in Nat
      BY <1>2, CapturedIs, WholeIs
    <3> HIDE DEF runs, was
    <3> DEFINE z == [Step EXCEPT !.kind = "format", !.at = o, !.len = n, !.runs = runs, !.was = was]
    <3>2. Restyling(z, "format", was)
      BY <3>1, FormatStep, Zenon
    <3> QED
      BY <3>2 DEF runs, was, Restyling
  <2> HIDE DEF s, c, e
  <2>4. Edits(d, e) /\ Text(e) = Text(d) /\ Len(e.paras) = Len(d.paras)
    BY <2>1, <2>2, <2>3, PushKept
  <2> QED
    BY <2>4 DEF e
<1> QED
  BY <1>1, <1>2

LEMMA SetParaFormatIs ==
  ASSUME NEW d, Whole(d), NEW p \in 1 .. Len(d.paras), NEW format \in ParaFormats
  PROVE  LET e == SetParaFormat(d, p, format)
         IN  Edits(d, e) /\ Text(e) = Text(d) /\ Len(e.paras) = Len(d.paras)
<1> DEFINE e == SetParaFormat(d, p, format)
           c == [d EXCEPT !.paras[p] = Touched([@ EXCEPT !.format = format])]
           s == [Step EXCEPT !.kind = "paraformat", !.at = p, !.format = d.paras[p].format, !.was = Text(d)]
<1>1. e = PushUndo(c, s)
  BY DEF SetParaFormat
<1>2. Keeps(d, c)
  BY FormattedIs
<1>3. s \in Steps /\ s.kind = "paraformat" /\ s.was = Text(d)
  <2> DEFINE was == Text(d)
             old == d.paras[p].format
  <2>1. was \in Lines /\ old \in ParaFormats /\ p \in Nat \ {0}
    <3>1. d.paras[p] \in Paras /\ Len(d.paras) \in Nat
      BY WholeIs, ParasAre
    <3> QED
      BY <3>1, WholeIs DEF Paras
  <2> HIDE DEF was, old
  <2> DEFINE z == [Step EXCEPT !.kind = "paraformat", !.at = p, !.format = old, !.was = was]
  <2>2. Restyling(z, "paraformat", was)
    BY <2>1, ParaFormatStep, Zenon
  <2> QED
    BY <2>2 DEF was, old, Restyling
<1> HIDE DEF s, c, e
<1>4. Edits(d, e) /\ Text(e) = Text(d) /\ Len(e.paras) = Len(d.paras)
  BY <1>1, <1>2, <1>3, PushKept
<1> QED
  BY <1>4 DEF e

-----------------------------------------------------------------------------
(* Insert(): lines and the ends between them.                              *)
LEMMA PieceIs ==
  ASSUME NEW g \in Lines, NEW k \in 1 .. Len(g) + 1
  PROVE  /\ PieceStart(g, k) \in 1 .. k
         /\ \A i \in 1 .. Len(g) : PieceStart(g, k) <= i /\ i < k => g[i] # Line
         /\ k <= Len(g) /\ g[k] = Line => PieceStart(g, k + 1) = k + 1
         /\ k <= Len(g) /\ g[k] # Line => PieceStart(g, k + 1) = PieceStart(g, k)
<1> DEFINE Ends(m) == {0} \cup {i \in DOMAIN g : i < m /\ g[i] = Line}
           n == Len(g)
<1>1. n \in Nat /\ DOMAIN g = 1 .. n
  BY DEF Lines
<1>2. ASSUME NEW m \in 1 .. n + 2
      PROVE  /\ Max(Ends(m)) \in Ends(m) /\ \A i \in Ends(m) : i <= Max(Ends(m))
             /\ Max(Ends(m)) \in 0 .. m - 1
  <2> DEFINE S == Ends(m)
  <2>1. S \in SUBSET Int /\ S # {} /\ m - 1 \in Int /\ \A i \in S : i <= m - 1 /\ i >= 0
    BY <1>1
  <2> HIDE DEF S, n
  <2>2. Max(S) \in S /\ \A i \in S : i <= Max(S)
    BY <2>1, MaxIs
  <2>3. Max(S) \in 0 .. m - 1
    <3> DEFINE x == Max(S)
    <3>1. x \in Int /\ x <= m - 1 /\ x >= 0
      BY <2>1, <2>2
    <3> HIDE DEF x
    <3>2. x \in 0 .. m - 1
      BY <2>1, <3>1
    <3> QED
      BY <3>2 DEF x
  <2> QED
    BY <2>2, <2>3 DEF S
<1>3. \A m : PieceStart(g, m) = Max(Ends(m)) + 1
  BY DEF PieceStart
<1>4. k \in 1 .. n + 2 /\ k + 1 \in 1 .. n + 2 /\ k \in Nat /\ (k <= n => k \in 1 .. n)
  BY <1>1
<1> HIDE DEF n
<1> DEFINE m == Max(Ends(k))
           l == Max(Ends(k + 1))
<1>5. m \in Ends(k) /\ (\A i \in Ends(k) : i <= m) /\ m \in 0 .. k - 1
  BY <1>2, <1>4
<1>6. l \in Ends(k + 1) /\ (\A i \in Ends(k + 1) : i <= l) /\ l \in 0 .. (k + 1) - 1
  BY <1>2, <1>4
<1>7. PieceStart(g, k) = m + 1 /\ PieceStart(g, k + 1) = l + 1
  BY <1>3
<1> HIDE DEF m, l
<1>8. PieceStart(g, k) \in 1 .. k
  BY <1>4, <1>5, <1>7
<1>9. ASSUME NEW i \in 1 .. n, m + 1 <= i, i < k PROVE g[i] # Line
  <2>1. ~(i <= m)
    BY <1>5, <1>9
  <2>2. i \notin Ends(k)
    BY <1>5, <2>1
  <2> QED
    BY <1>1, <1>9, <2>2
<1>10. ASSUME k <= n, g[k] = Line PROVE l = k
  <2>1. k \in Ends(k + 1)
    BY <1>1, <1>4, <1>10
  <2>2. k <= l
    BY <1>6, <2>1
  <2> QED
    BY <1>4, <1>6, <2>2
<1>11. ASSUME k <= n, g[k] # Line PROVE l = m
  <2>1. m \in Ends(k + 1)
    BY <1>4, <1>5
  <2>2. l # k \/ l = 0
    BY <1>6, <1>11
  <2>3. l \in Ends(k)
    BY <1>4, <1>6, <2>2
  <2>4. m <= l /\ l <= m
    BY <1>5, <1>6, <2>1, <2>3
  <2> QED
    BY <1>5, <1>6, <2>4
<1> QED
  BY <1>7, <1>8, <1>9, <1>10, <1>11 DEF n

\* A line that is put where the lines before it end.
LEMMA InsertLineIs ==
  ASSUME NEW d, Whole(d), NEW o \in Nat, NEW g \in Lines, NEW k \in 1 .. Len(g) + 1,
         NEW f \in SUBSET CharFormats
  PROVE  LET first == PieceStart(g, k)
             e     == InsertLine(d, o, g, k, f)
         IN  /\ Edits(d, e) /\ Len(e.paras) = Len(d.paras) /\ ((e = d /\ first = k) \/ e.modified)
             /\ o + first - 1 <= Length(d) =>
                  Text(e) = Splice(Text(d), o + first - 1, 0, SubSeq(g, first, k - 1))
<1> DEFINE first == PieceStart(g, k)
           e == InsertLine(d, o, g, k, f)
           at == o + first - 1
           piece == SubSeq(g, first, k - 1)
<1>1. first \in 1 .. k /\ \A i \in 1 .. Len(g) : first <= i /\ i < k => g[i] # Line
  BY PieceIs
<1>2. Len(g) \in Nat /\ k \in Nat
  BY DEF Lines
<1>3. Length(d) \in Nat /\ Text(d) \in Lines /\ Len(Text(d)) = Length(d)
  BY WholeIs
<1> HIDE DEF first
<1>4. at \in Nat
  BY <1>1, <1>2
<1>5. CASE first = k
  <2>1. e = d
    BY <1>5 DEF InsertLine, first
  <2>2. piece = <<>>
    <3> DEFINE C == Glyphs \cup {Line}
    <3>1. g \in Seq(C)
      BY DEF Lines
    <3> HIDE DEF C
    <3> QED
      BY <1>2, <1>5, <3>1
  <2>3. at <= Length(d) => Text(d) = Splice(Text(d), at, 0, <<>>)
    <3> SUFFICES ASSUME at <= Length(d) PROVE Text(d) = Splice(Text(d), at, 0, <<>>)
      OBVIOUS
    <3> DEFINE t == Text(d)
               z == 0
    <3>1. z \in Nat /\ at + z <= Len(t) /\ t \in Lines
      BY <1>3, <1>4
    <3> HIDE DEF t, z, at
    <3>2. Splice(t, at, z, SubSeq(t, at + 1, at + z)) = t
      BY <1>4, <3>1, SpliceNone
    <3>3. SubSeq(t, at + 1, at + z) = <<>>
      BY <1>4, <3>1 DEF Lines, z
    <3> QED
      BY <3>2, <3>3 DEF t, z
  <2>4. Edits(d, d)
    BY EditsSame
  <2> HIDE DEF e, piece
  <2> QED
    BY <1>5, <2>1, <2>2, <2>3, <2>4 DEF e, piece, first
<1>6. CASE first # k
  <2>1. e = InsertPiece(d, at, piece, f)
    BY <1>6 DEF InsertLine, first
  <2>2. piece \in Seq(Glyphs)
    <3> DEFINE C == Glyphs \cup {Line}
               m == first - 1
               n == k - 1
    <3>1. g \in Seq(C)
      BY DEF Lines
    <3>2. m \in Nat /\ n \in Nat /\ m <= n /\ n <= Len(g) /\ first = m + 1
      BY <1>1, <1>2, <1>6
    <3> HIDE DEF C
    <3>3. piece = SubSeq(g, m + 1, n)
      BY <3>2
    <3> HIDE DEF piece
    <3>4. piece \in Seq(C) /\ Len(piece) = n - m /\ \A i \in 1 .. n - m : piece[i] = g[m + i]
      <4> HIDE DEF m, n
      <4> QED
        BY <3>1, <3>2, <3>3, PartOf
    <3>5. \A i \in 1 .. Len(piece) : piece[i] \in Glyphs
      <4> SUFFICES ASSUME NEW i \in 1 .. Len(piece) PROVE piece[i] \in Glyphs
        OBVIOUS
      <4>1. piece[i] = g[m + i] /\ piece[i] \in C
        BY <3>4, ElementOfSeq
      <4>2. m + i \in 1 .. Len(g) /\ first <= m + i /\ m + i < k
        <5>1. m + 1 = first /\ n = k - 1 /\ i \in 1 .. n - m
          BY <3>2, <3>4
        <5> HIDE DEF m, n
        <5> QED
          BY <1>2, <3>2, <5>1
      <4>3. g[m + i] # Line
        BY <1>1, <4>2
      <4> QED
        BY <4>1, <4>3 DEF C
    <3> QED
      BY <3>4, <3>5
  <2> HIDE DEF e, piece, at
  <2>3. Edits(d, e) /\ Len(e.paras) = Len(d.paras) /\ e.modified
    BY <1>4, <2>1, <2>2, InsertPieceIs
  <2>4. at <= Length(d) => Text(e) = Splice(Text(d), at, 0, piece)
    BY <1>4, <2>1, <2>2, InsertPieceIs
  <2> QED
    BY <2>3, <2>4 DEF e, at, piece, first
<1> QED
  BY <1>5, <1>6

\* What is before a line's end, and then the line's end.
LEMMA FrontOf ==
  ASSUME NEW g \in Lines, NEW m \in Nat, NEW n \in Nat, m <= n, n <= Len(g)
  PROVE  /\ SubSeq(g, 1, m) \o SubSeq(g, m + 1, n) = SubSeq(g, 1, n)
         /\ SubSeq(g, 1, m) \in Lines /\ Len(SubSeq(g, 1, m)) = m
<1> DEFINE C == Glyphs \cup {Line}
           one == 1
<1>1. g \in Seq(C) /\ Len(g) \in Nat
  BY DEF Lines
<1>2. one \in 1 .. Len(g) + 1 /\ m \in one - 1 .. n /\ n \in one - 1 .. Len(g) /\ m - one + 1 = m
      /\ (one <= m \/ m = 0) /\ m \in Int /\ one \in Int
  BY <1>1
<1> HIDE DEF C
<1>3. SubSeq(g, one, m) \o SubSeq(g, m + 1, n) = SubSeq(g, one, n)
  <2> HIDE DEF one
  <2> QED
    BY <1>1, <1>2, ConcatAdjacentSubSeq
<1>4. SubSeq(g, one, m) \in Seq(C) /\ Len(SubSeq(g, one, m)) = m
  BY <1>1
<1> QED
  BY <1>3, <1>4 DEF C, Lines

\* What an insertion has done when it has come to the start of a piece.
Halfway(d, o, g, e, k) ==
    /\ e \in Documents /\ Edits(d, e) /\ Len(e.paras) >= Len(d.paras)
    /\ PieceStart(g, k + 1) # 1 => e.modified
    /\ o <= Length(d) => Text(e) = Splice(Text(d), o, 0, SubSeq(g, 1, PieceStart(g, k + 1) - 1))

\* A splice's length.
LEMMA SpliceLength ==
  ASSUME NEW t \in Lines, NEW o \in Nat, o <= Len(t), NEW g \in Lines
  PROVE  Splice(t, o, 0, g) \in Lines /\ Len(Splice(t, o, 0, g)) = Len(t) + Len(g)
<1> DEFINE z == 0
<1>1. z \in Nat /\ o + z <= Len(t) /\ Len(t) - z = Len(t)
  BY DEF Lines
<1> HIDE DEF z
<1>2. Spliced(Splice(t, o, z, g), t, o, z, g)
  BY <1>1, SpliceAre
<1> QED
  BY <1>1, <1>2 DEF Spliced, z

LEMMA LineGoesOn ==
  ASSUME NEW d, Whole(d), NEW o \in Nat, NEW g \in Lines, NEW k \in 1 .. Len(g) + 1,
         NEW f \in SUBSET CharFormats, NEW e, Halfway(d, o, g, e, k - 1)
  PROVE  LET l == InsertLine(e, o, g, k, f)
         IN  /\ l \in Documents /\ Edits(d, l) /\ Len(l.paras) >= Len(d.paras) /\ (k # 1 => l.modified)
             /\ o <= Length(d) => Text(l) = Splice(Text(d), o, 0, SubSeq(g, 1, k - 1))
<1> DEFINE l == InsertLine(e, o, g, k, f)
           first == PieceStart(g, k)
           at == o + first - 1
           m == first - 1
           n == k - 1
           t == Text(d)
<1>1. Whole(e) /\ Edits(d, e)
  BY DEF Halfway, Edits
<1>2. /\ Edits(e, l) /\ Len(l.paras) = Len(e.paras) /\ ((l = e /\ first = k) \/ l.modified)
      /\ at <= Length(e) => Text(l) = Splice(Text(e), at, 0, SubSeq(g, first, n))
  BY <1>1, InsertLineIs
<1>3. first \in 1 .. k
  BY PieceIs
<1>4. k - 1 + 1 = k /\ m \in Nat /\ n \in Nat /\ m <= n /\ n <= Len(g) /\ first = m + 1 /\ at = o + m
      /\ Len(g) \in Nat
  BY <1>3 DEF Lines
<1>5. o <= Length(d) => Text(e) = Splice(t, o, 0, SubSeq(g, 1, m))
  BY <1>4 DEF Halfway
<1>9. first # 1 => e.modified
  BY <1>4 DEF Halfway
<1> HIDE DEF l, first, m, n
<1>10. k # 1 => l.modified
  BY <1>2, <1>9
<1>6. Edits(d, l) /\ l \in Documents
  BY <1>1, <1>2, EditsOn DEF Edits, Whole
<1>7. ASSUME o <= Length(d) PROVE Text(l) = Splice(t, o, 0, SubSeq(g, 1, n))
  <2>1. t \in Lines /\ Len(t) = Length(d) /\ Len(Text(e)) = Length(e) /\ Length(d) \in Nat
    BY <1>1, WholeIs
  <2> DEFINE u == SubSeq(g, 1, m)
             v == SubSeq(g, m + 1, n)
  <2>2. u \in Lines /\ Len(u) = m /\ u \o v = SubSeq(g, 1, n)
    BY <1>4, FrontOf
  <2>3. v \in Lines
    BY <1>4, SubTextIs
  <2>0. o <= Len(t)
    BY <1>7, <2>1
  <2> HIDE DEF t, u, v, at
  <2>4. Text(e) = Splice(t, o, 0, u) /\ Len(Text(e)) = Len(t) + Len(u)
    <3>1. Len(Splice(t, o, 0, u)) = Len(t) + Len(u)
      BY <2>0, <2>1, <2>2, SpliceLength
    <3> QED
      BY <1>5, <1>7, <3>1 DEF u
  <2>5. o + m <= Length(e)
    BY <1>4, <1>7, <2>1, <2>2, <2>4
  <2>6. at <= Length(e)
    BY <1>4, <2>5
  <2>7. Text(l) = Splice(Splice(t, o, 0, u), o + Len(u), 0, v)
    BY <1>2, <1>4, <2>2, <2>4, <2>6 DEF v
  <2>8. Splice(Splice(t, o, 0, u), o + Len(u), 0, v) = Splice(t, o, 0, u \o v)
    <3>1. t \in Lines /\ u \in Lines /\ v \in Lines /\ o <= Len(t)
      BY <2>0, <2>1, <2>2, <2>3
    <3> QED
      BY ZenonT(60), <3>1, SpliceJoin
  <2> QED
    BY <2>2, <2>7, <2>8
<1>8. Len(l.paras) >= Len(d.paras)
  BY <1>2 DEF Halfway
<1> QED
  BY <1>6, <1>7, <1>8, <1>10 DEF l, n

LEMMA LengthOf ==
  ASSUME NEW d, Whole(d)
  PROVE  Text(d) \in Lines /\ Len(Text(d)) = Length(d) /\ Length(d) \in Nat
BY WholeIs

LEMMA InsertIs ==
  ASSUME NEW d, Whole(d), NEW o \in Nat, NEW g \in Lines, NEW f \in SUBSET CharFormats
  PROVE  LET e == Insert(d, o, g, f)
         IN  /\ Edits(d, e) /\ Len(e.paras) >= Len(d.paras) /\ (g # <<>> => e.modified)
             /\ o <= Length(d) => Text(e) = Splice(Text(d), o, 0, g)
<1> DEFINE n == Len(g)
           Goes(w) == w = [k \in 0 .. n |->
                             IF k = 0 THEN d
                             ELSE IF g[k] # Line THEN w[k - 1]
                             ELSE SplitPara(InsertLine(w[k - 1], o, g, k, f), o + k - 1)]
           after == CHOOSE w : Goes(w)
           D == [k \in 0 .. n |-> {e \in Documents : Halfway(d, o, g, e, k)}]
           next == [k \in 1 .. n |-> [e \in Documents |->
                      IF g[k] # Line THEN e ELSE SplitPara(InsertLine(e, o, g, k, f), o + k - 1)]]
<1>1. n \in Nat /\ d \in Documents /\ Edits(d, d) /\ Len(d.paras) \in Nat
  BY EditsSame, WholeIs DEF Lines
<1>2. \A k \in 0 .. n : D[k] = {e \in Documents : Halfway(d, o, g, e, k)}
  OBVIOUS
<1>3. \A k \in 1 .. n : \A e \in Documents :
        next[k][e] = IF g[k] # Line THEN e ELSE SplitPara(InsertLine(e, o, g, k, f), o + k - 1)
  OBVIOUS
<1>4. D \in [0 .. n -> SUBSET Documents]
  OBVIOUS
<1> HIDE DEF D, next, n
<1>5. d \in D[0]
  <2>1. Halfway(d, o, g, d, 0)
    <3> DEFINE one == 0 + 1
    <3>1. one \in 1 .. Len(g) + 1 /\ 1 .. one = {1}
      BY <1>1 DEF n
    <3> HIDE DEF one
    <3>2. PieceStart(g, one) = 1
      BY <3>1, PieceIs
    <3>3. SubSeq(g, 1, 1 - 1) = <<>>
      BY DEF Lines
    <3>4. ASSUME o <= Length(d) PROVE Text(d) = Splice(Text(d), o, 0, <<>>)
      <4> DEFINE t == Text(d)
                 z == 0
      <4>1. z \in Nat /\ o + z <= Len(t) /\ t \in Lines
        BY <3>4, WholeIs
      <4> HIDE DEF t, z
      <4>2. Splice(t, o, z, SubSeq(t, o + 1, o + z)) = t
        BY <4>1, SpliceNone
      <4>3. SubSeq(t, o + 1, o + z) = <<>>
        BY <4>1 DEF Lines, z
      <4> QED
        BY <4>2, <4>3 DEF t, z
    <3>5. PieceStart(g, 0 + 1) = 1
      BY <3>2 DEF one
    <3> DEFINE before == SubSeq(g, 1, PieceStart(g, 0 + 1) - 1)
    <3>6. before = <<>>
      BY <3>3, <3>5
    <3> HIDE DEF before
    <3>7. o <= Length(d) => Text(d) = Splice(Text(d), o, 0, before)
      BY <3>4, <3>6
    <3> QED
      BY <1>1, <3>5, <3>7 DEF Halfway, before
  <2>2. 0 \in 0 .. n
    BY <1>1
  <2> QED
    BY <1>1, <1>2, <2>1, <2>2
<1>6. ASSUME NEW k \in 1 .. n, NEW e \in D[k - 1] PROVE next[k][e] \in D[k]
  <2>1. k - 1 \in 0 .. n /\ k \in 0 .. n /\ k \in 1 .. Len(g) + 1 /\ k <= Len(g) /\ k - 1 + 1 = k /\ k \in Nat
    BY <1>1 DEF n
  <2>2. Halfway(d, o, g, e, k - 1) /\ e \in Documents
    BY <1>2, <2>1
  <2>3. CASE g[k] # Line
    <3>1. next[k][e] = e
      BY <1>3, <2>2, <2>3
    <3>2. PieceStart(g, k + 1) = PieceStart(g, k)
      BY <2>1, <2>3, PieceIs
    <3>3. Halfway(d, o, g, e, k)
      BY <2>1, <2>2, <3>2 DEF Halfway
    <3> QED
      BY <1>2, <2>1, <2>2, <3>1, <3>3
  <2>4. CASE g[k] = Line
    <3> DEFINE l == InsertLine(e, o, g, k, f)
               at == o + k - 1
               m == k - 1
               s == SplitPara(l, at)
               t == Text(d)
               u == SubSeq(g, 1, m)
    <3>1. next[k][e] = s
      BY <1>3, <2>2, <2>4
    <3>2. /\ l \in Documents /\ Edits(d, l) /\ Len(l.paras) >= Len(d.paras)
          /\ o <= Length(d) => Text(l) = Splice(t, o, 0, u)
      BY <2>1, <2>2, LineGoesOn
    <3>3. at \in Nat /\ m \in Nat /\ at = o + m /\ k = m + 1 /\ m <= Len(g)
      BY <2>1
    <3>4. Whole(l)
      BY <3>2 DEF Edits
    <3>5. PieceStart(g, k + 1) = k + 1 /\ k + 1 - 1 = k
      BY <2>1, <2>4, PieceIs
    <3> HIDE DEF l, m, at, t
    <3>6. Edits(l, s) /\ Len(s.paras) = Len(l.paras) + 1 /\ s.modified
      BY <3>3, <3>4, SplitParaIs
    <3>7. at <= Length(l) => Text(s) = Splice(Text(l), at, 0, <<Line>>)
      BY <3>3, <3>4, SplitParaIs
    <3> HIDE DEF s
    <3>8. Edits(d, s) /\ s \in Documents
      <4>1. Edits(d, s)
        BY <3>2, <3>6, EditsOn
      <4> QED
        BY <4>1 DEF Edits, Whole
    <3>9. ASSUME o <= Length(d) PROVE Text(s) = Splice(t, o, 0, SubSeq(g, 1, k))
      <4>1. t \in Lines /\ Len(t) = Length(d) /\ o <= Len(t)
        BY <3>9, WholeIs DEF t
      <4>2. u \in Lines /\ Len(u) = m
        BY <3>3, FrontOf
      <4>3. Text(l) = Splice(t, o, 0, u) /\ Len(Text(l)) = Length(l)
        BY <3>2, <3>4, <3>9, WholeIs
      <4>4. Len(Splice(t, o, 0, u)) = Len(t) + Len(u)
        BY <4>1, <4>2, SpliceLength
      <4>5. at <= Length(l)
        <5>1. Length(l) = Length(d) + m /\ Length(d) \in Nat
          BY <4>1, <4>2, <4>3, <4>4, WholeIs
        <5> QED
          BY <3>3, <3>9, <5>1
      <4> DEFINE x == <<Line>>
      <4>6. x \in Lines
        BY DEF Lines
      <4> HIDE DEF x, u
      <4>7. Text(s) = Splice(Splice(t, o, 0, u), o + Len(u), 0, x)
        BY <3>3, <3>7, <4>2, <4>3, <4>5 DEF x
      <4>8. Splice(Splice(t, o, 0, u), o + Len(u), 0, x) = Splice(t, o, 0, u \o x)
        BY ZenonT(60), <4>1, <4>2, <4>6, SpliceJoin
      <4>9. u \o x = SubSeq(g, 1, k)
        <5> DEFINE C == Glyphs \cup {Line}
        <5>1. g \in Seq(C) /\ k \in 1 .. Len(g) /\ 1 \in 1 .. Len(g) /\ k \in 1 .. Len(g)
          BY <2>1 DEF Lines
        <5> HIDE DEF C
        <5>2. SubSeq(g, 1, k) = SubSeq(g, 1, k - 1) \o <<g[k]>>
          BY <5>1, SubSeqRecursiveSecond
        <5> QED
          BY <2>4, <5>2 DEF u, x, m
      <4> QED
        BY <4>7, <4>8, <4>9
    <3>10. Len(s.paras) >= Len(d.paras)
      <4>1. Len(l.paras) \in Nat /\ Len(d.paras) \in Nat
        BY <3>4, WholeIs
      <4> QED
        BY <3>2, <3>6, <4>1
    <3>11. Halfway(d, o, g, s, k)
      BY <3>5, <3>6, <3>8, <3>9, <3>10 DEF Halfway, t
    <3> QED
      BY <1>2, <2>1, <3>1, <3>8, <3>11
  <2> QED
    BY <2>3, <2>4
<1>7. PICK w : Walks(w, n, d, next) /\ \A k \in 0 .. n : w[k] \in D[k]
  BY <1>1, <1>4, <1>5, <1>6, WalkIs
<1>8. Goes(w)
  <2>1. \A k \in 0 .. n : w[k] \in Documents
    BY <1>4, <1>7
  <2>2. ASSUME NEW k \in 0 .. n, k # 0
        PROVE  next[k][w[k - 1]] = IF g[k] # Line THEN w[k - 1]
                                   ELSE SplitPara(InsertLine(w[k - 1], o, g, k, f), o + k - 1)
    <3>1. k \in 1 .. n /\ k - 1 \in 0 .. n
      BY <1>1, <2>2
    <3> QED
      BY <1>3, <2>1, <3>1
  <2> QED
    BY <1>7, <2>2 DEF Walks
<1>9. Goes(after)
  BY <1>8
<1>10. Insert(d, o, g, f) = InsertLine(after[n], o, g, n + 1, f)
  BY Zenon DEF Insert, n
<1> HIDE DEF after
<1>11. after[0] = d /\ \A k \in 1 .. n : after[k] =
          IF g[k] # Line THEN after[k - 1]
          ELSE SplitPara(InsertLine(after[k - 1], o, g, k, f), o + k - 1)
  <2>1. 0 \in 0 .. n /\ \A k \in 1 .. n : k \in 0 .. n /\ k # 0
    BY <1>1
  <2> QED
    BY <1>9, <2>1, Zenon
<1>12. \A k \in 0 .. n : after[k] \in D[k]
  <2>1. after[0] \in D[0]
    BY <1>5, <1>11
  <2>2. \A k \in 1 .. n : after[k - 1] \in D[k - 1] => after[k] \in D[k]
    <3> SUFFICES ASSUME NEW k \in 1 .. n, after[k - 1] \in D[k - 1] PROVE after[k] \in D[k]
      OBVIOUS
    <3>1. k - 1 \in 0 .. n
      BY <1>1
    <3>2. after[k - 1] \in Documents
      BY <1>4, <3>1
    <3>3. next[k][after[k - 1]] = after[k]
      BY <1>3, <1>11, <3>2
    <3>4. next[k][after[k - 1]] \in D[k]
      BY <1>6
    <3> QED
      BY <3>3, <3>4
  <2> QED
    BY <1>1, <2>1, <2>2, WalkStays
<1>13. n \in 0 .. n /\ n + 1 \in 1 .. Len(g) + 1 /\ (n + 1) - 1 = n
  BY <1>1 DEF n
<1>14. Halfway(d, o, g, after[n], (n + 1) - 1)
  BY <1>2, <1>12, <1>13
<1> DEFINE x == after[n]
           m == n + 1
           e == InsertLine(x, o, g, m, f)
<1>15. /\ Edits(d, e) /\ Len(e.paras) >= Len(d.paras) /\ (m # 1 => e.modified)
       /\ o <= Length(d) => Text(e) = Splice(Text(d), o, 0, SubSeq(g, 1, m - 1))
  <2>1. m \in 1 .. Len(g) + 1 /\ Halfway(d, o, g, x, m - 1)
    BY <1>13, <1>14
  <2> HIDE DEF m, x
  <2> QED
    BY <2>1, LineGoesOn
<1>16. SubSeq(g, 1, m - 1) = g
  <2>1. SubSeq(g, 1, Len(g)) = g
    <3> DEFINE C == Glyphs \cup {Line}
    <3>1. g \in Seq(C)
      BY DEF Lines
    <3> HIDE DEF C
    <3> QED
      BY <3>1, SubSeqFull
  <2> QED
    BY <1>13, <2>1 DEF n
<1>17. g # <<>> => m # 1
  BY <1>1 DEF n, Lines
<1> QED
  BY <1>10, <1>15, <1>16, <1>17

-----------------------------------------------------------------------------
(* Undo() and Redo().                                                      *)
Turned(d, x) == Whole(x) /\ Evolves(d, x) /\ (d.stray => x.stray)

LEMMA KeepsTurned ==
  ASSUME NEW d, NEW c, Keeps(d, c)
  PROVE  Turned(d, c) /\ Text(c) = Text(d)
BY DEF Keeps, Changes, Turned

LEMMA EditsTurned ==
  ASSUME NEW d, NEW c, Edits(d, c)
  PROVE  Turned(d, c)
BY DEF Edits, Turned

LEMMA TurnedOn ==
  ASSUME NEW d, Whole(d), NEW e, NEW f, Turned(d, e), Turned(e, f)
  PROVE  Turned(d, f)
BY EvolvesOn DEF Turned

LEMMA TakenOut ==
  ASSUME NEW d, Whole(d), NEW s \in Steps
  PROVE  LET x == RemoveText(d, s.at, s.len)
         IN  /\ Turned(d, x)
             /\ \A t \in Lines : s.kind = "insert" /\ Turns(s, t, Text(d)) => Text(x) = t
             /\ \A t \in Lines : s.kind = "remove" /\ Turns(s, Text(d), t) => Text(x) = t
<1> DEFINE o == s.at
           l == s.len
           x == RemoveText(d, o, l)
           g == s.text
           u == Text(d)
<1>1. o \in Nat /\ l \in Nat /\ g \in Lines /\ l \in Int
  BY DEF Steps, StepRecords
<1>2. u \in Lines /\ Len(u) = Length(d) /\ Length(d) \in Nat
  BY WholeIs
<1> HIDE DEF o, l, u, g
<1>3. Edits(d, x)
  BY <1>1, RemoveTextIs
<1>4. o + l <= Length(d) => Text(x) = Splice(u, o, l, <<>>)
  BY <1>1, RemoveTextIs DEF u
<1> HIDE DEF x
<1> DEFINE e == <<>>
<1>5. e \in Lines
  BY DEF Lines
<1> HIDE DEF e
<1>6. ASSUME NEW t \in Lines, s.kind = "insert", Turns(s, t, u) PROVE Text(x) = t
  <2>1. o <= Len(t) /\ l = Len(g) /\ u = Splice(t, o, 0, g)
    BY <1>6 DEF Turns, o, l, g
  <2> DEFINE z == 0
  <2>2. z \in Nat /\ o + z <= Len(t) /\ u = Splice(t, o, z, g)
    BY <1>1, <2>1
  <2>3. Len(u) = Len(t) + Len(g) /\ Len(t) \in Nat
    BY <1>1, <2>1, SpliceLength DEF Lines
  <2>4. o + l <= Length(d)
    BY <1>1, <1>2, <2>1, <2>3
  <2>5. SubSeq(t, o + 1, o + z) = e
    BY <1>1 DEF Lines, e
  <2> HIDE DEF z
  <2>6. Splice(Splice(t, o, z, g), o, Len(g), e) = Splice(t, o, z, e)
    BY <1>1, <1>5, <2>2, SpliceTwice
  <2>7. Splice(t, o, z, SubSeq(t, o + 1, o + z)) = t
    BY <1>1, <2>2, SpliceNone
  <2> QED
    BY <1>4, <2>1, <2>2, <2>4, <2>5, <2>6, <2>7 DEF e
<1>7. ASSUME NEW t \in Lines, s.kind = "remove", Turns(s, u, t) PROVE Text(x) = t
  <2>1. o + l <= Len(u) /\ t = Splice(u, o, l, <<>>)
    BY <1>7 DEF Turns, o, l
  <2> QED
    BY <1>2, <1>4, <2>1
<1> QED
  BY <1>3, <1>6, <1>7, EditsTurned DEF x, o, l, u

LEMMA PutBack ==
  ASSUME NEW d, Whole(d), NEW s \in Steps
  PROVE  LET x == Insert(d, s.at, s.text, {})
         IN  /\ Turned(d, x)
             /\ \A t \in Lines : s.kind = "remove" /\ Turns(s, t, Text(d)) => Text(x) = t
             /\ \A t \in Lines : s.kind = "insert" /\ Turns(s, Text(d), t) => Text(x) = t
<1> DEFINE o == s.at
           l == s.len
           g == s.text
           f == {}
           x == Insert(d, o, g, f)
           u == Text(d)
<1>1. o \in Nat /\ l \in Nat /\ g \in Lines /\ f \in SUBSET CharFormats
  BY DEF Steps, StepRecords
<1>2. u \in Lines /\ Len(u) = Length(d) /\ Length(d) \in Nat
  BY WholeIs
<1> HIDE DEF o, l, u, g, f
<1>3. Edits(d, x)
  BY <1>1, InsertIs
<1>4. o <= Length(d) => Text(x) = Splice(u, o, 0, g)
  BY <1>1, InsertIs DEF u
<1> HIDE DEF x
<1> DEFINE e == <<>>
<1>5. e \in Lines /\ Len(e) = 0
  BY DEF Lines
<1> HIDE DEF e
<1>6. ASSUME NEW t \in Lines, s.kind = "remove", Turns(s, t, u) PROVE Text(x) = t
  <2>1. o + l <= Len(t) /\ g = SubSeq(t, o + 1, o + l) /\ u = Splice(t, o, l, e)
    BY <1>6 DEF Turns, o, l, g, e
  <2>2. Len(u) = Len(t) - l + Len(e) /\ Len(t) \in Nat
    <3>1. Spliced(Splice(t, o, l, e), t, o, l, e)
      BY <1>1, <1>5, <2>1, SpliceAre
    <3> QED
      BY <2>1, <3>1 DEF Spliced, Lines
  <2>3. o <= Length(d)
    BY <1>1, <1>2, <1>5, <2>1, <2>2
  <2>4. Splice(Splice(t, o, l, e), o, Len(e), g) = Splice(t, o, l, g)
    BY <1>1, <1>5, <2>1, SpliceTwice
  <2>5. Splice(t, o, l, SubSeq(t, o + 1, o + l)) = t
    BY <1>1, <2>1, SpliceNone
  <2> QED
    BY <1>4, <1>5, <2>1, <2>3, <2>4, <2>5
<1>7. ASSUME NEW t \in Lines, s.kind = "insert", Turns(s, u, t) PROVE Text(x) = t
  <2>1. o <= Len(u) /\ t = Splice(u, o, 0, g)
    BY <1>7 DEF Turns, o, g
  <2> QED
    BY <1>2, <1>4, <2>1
<1> QED
  BY <1>3, <1>6, <1>7, EditsTurned DEF x, o, g, u, f

LEMMA UndoneIs ==
  ASSUME NEW d, Whole(d), NEW s \in Steps
  PROVE  /\ Turned(d, Undone(d, s))
         /\ \A t \in Lines : Turns(s, t, Text(d)) => Text(Undone(d, s)) = t
<1> DEFINE x == Undone(d, s)
<1>1. /\ s.at \in Nat /\ s.format \in ParaFormats /\ s.runs \in SUBSET Runs /\ s.images \in Places1
      /\ s.kind \in Kinds
  BY DEF Steps, StepRecords
<1>2. CASE s.kind = "insert"
  <2>1. x = RemoveText(d, s.at, s.len)
    BY <1>2 DEF Undone
  <2> HIDE DEF x
  <2> QED
    BY <1>2, <2>1, TakenOut DEF x
<1>3. CASE s.kind = "remove"
  <2> DEFINE y == Insert(d, s.at, s.text, {})
             z == Repainted(y, s.at, s.runs)
  <2>1. x = Rehung(z, s.images)
    BY <1>3 DEF Undone
  <2>2. Turned(d, y) /\ \A t \in Lines : Turns(s, t, Text(d)) => Text(y) = t
    BY <1>3, PutBack
  <2>3. Whole(y)
    BY <2>2 DEF Turned
  <2> HIDE DEF x, y
  <2>4. Turned(y, z) /\ Text(z) = Text(y)
    BY <1>1, <2>3, RepaintedIs, KeepsTurned
  <2>5. Whole(z)
    BY <2>4 DEF Turned
  <2> HIDE DEF z
  <2>6. Turned(z, x) /\ Text(x) = Text(z)
    BY <1>1, <2>1, <2>5, RehungIs, KeepsTurned
  <2>7. Turned(d, x)
    <3>1. Turned(d, z)
      BY <2>2, <2>4, TurnedOn
    <3> QED
      BY <2>6, <3>1, TurnedOn
  <2> QED
    BY <2>2, <2>4, <2>6, <2>7 DEF x
<1>4. CASE s.kind = "format"
  <2>1. x = Repainted(d, s.at, s.runs)
    BY <1>4 DEF Undone
  <2> HIDE DEF x
  <2>2. Turned(d, x) /\ Text(x) = Text(d)
    BY <1>1, <2>1, RepaintedIs, KeepsTurned
  <2> QED
    BY <1>4, <2>2 DEF x, Turns
<1>5. CASE s.kind = "paraformat"
  <2>1. x = Reformatted(d, s.at, s.format)
    BY <1>5 DEF Undone
  <2> HIDE DEF x
  <2>2. Turned(d, x) /\ Text(x) = Text(d)
    BY <1>1, <2>1, ReformattedIs, KeepsTurned
  <2> QED
    BY <1>5, <2>2 DEF x, Turns
<1> QED
  BY <1>1, <1>2, <1>3, <1>4, <1>5 DEF Kinds

LEMMA RedoneIs ==
  ASSUME NEW d, Whole(d), NEW s \in Steps
  PROVE  /\ Turned(d, Redone(d, s))
         /\ \A t \in Lines : Turns(s, Text(d), t) => Text(Redone(d, s)) = t
<1> DEFINE x == Redone(d, s)
<1>1. s.at \in Nat /\ s.format \in ParaFormats /\ s.runs \in SUBSET Runs /\ s.kind \in Kinds
  BY DEF Steps, StepRecords
<1>2. CASE s.kind = "insert"
  <2>1. x = Insert(d, s.at, s.text, {})
    BY <1>2 DEF Redone
  <2> HIDE DEF x
  <2> QED
    BY <1>2, <2>1, PutBack DEF x
<1>3. CASE s.kind = "remove"
  <2>1. x = RemoveText(d, s.at, s.len)
    BY <1>3 DEF Redone
  <2> HIDE DEF x
  <2> QED
    BY <1>3, <2>1, TakenOut DEF x
<1>4. CASE s.kind = "format"
  <2>1. x = Repainted(d, s.at, s.runs)
    BY <1>4 DEF Redone
  <2> HIDE DEF x
  <2>2. Turned(d, x) /\ Text(x) = Text(d)
    BY <1>1, <2>1, RepaintedIs, KeepsTurned
  <2> QED
    BY <1>4, <2>2 DEF x, Turns
<1>5. CASE s.kind = "paraformat"
  <2>1. x = Reformatted(d, s.at, s.format)
    BY <1>5 DEF Redone
  <2> HIDE DEF x
  <2>2. Turned(d, x) /\ Text(x) = Text(d)
    BY <1>1, <2>1, ReformattedIs, KeepsTurned
  <2> QED
    BY <1>5, <2>2 DEF x, Turns
<1> QED
  BY <1>1, <1>2, <1>3, <1>4, <1>5 DEF Kinds

LEMMA QuietIs ==
  ASSUME NEW d, Whole(d)
  PROVE  LET q == [d EXCEPT !.quiet = TRUE]
         IN  /\ Whole(q) /\ Text(q) = Text(d) /\ q.stray = d.stray
             /\ \A x : Evolves(q, x) => Evolves(d, x)
<1> DEFINE q == [d EXCEPT !.quiet = TRUE]
<1>1. d \in Documents
  BY DEF Whole
<1>2. q \in Documents /\ q.paras = d.paras /\ q.next = d.next /\ q.stray = d.stray
  BY <1>1 DEF Documents
<1> HIDE DEF q
<1>3. Text(q) = Text(d)
  BY <1>2, TextOfParas
<1>4. Whole(q) /\ \A x : Evolves(q, x) => Evolves(d, x)
  BY <1>2 DEF Whole, Evolves
<1> QED
  BY <1>2, <1>3, <1>4 DEF q

\* A step as the other stack keeps it.
Kept2(r, s, was) ==
    /\ r \in Steps /\ r.kind = s.kind /\ r.at = s.at /\ r.len = s.len /\ r.text = s.text /\ r.was = was

LEMMA WithRunsIs ==
  ASSUME NEW d, Whole(d), NEW s \in Steps
  PROVE  Kept2(WithRuns(d, s), s, s.was)
<1> DEFINE runs == CaptureRuns(d, s.at, s.len)
<1>1. runs \in SUBSET Runs
  BY CapturedIs DEF Steps, StepRecords
<1> HIDE DEF runs
<1>2. Kept2([s EXCEPT !.runs = runs], s, s.was)
  BY <1>1 DEF Kept2, Steps, StepRecords
<1>3. Kept2(s, s, s.was)
  BY DEF Kept2
<1> QED
  BY <1>2, <1>3 DEF WithRuns, runs

LEMMA ForUndoIs ==
  ASSUME NEW d, Whole(d), NEW s \in Steps
  PROVE  Kept2(ForUndo(d, s), s, s.was)
<1>1. CASE s.kind # "paraformat" \/ s.at > Len(d.paras)
  BY <1>1, WithRunsIs DEF ForUndo
<1>2. CASE ~(s.kind # "paraformat" \/ s.at > Len(d.paras))
  <2> DEFINE format == d.paras[s.at].format
  <2>1. s.at \in 1 .. Len(d.paras)
    BY <1>2, WholeIs DEF Steps, StepRecords
  <2>2. d.paras[s.at] \in Paras
    BY <2>1, WholeIs, ParasAre
  <2>3. format \in ParaFormats
    BY <2>2 DEF Paras
  <2>4. ForUndo(d, s) = [s EXCEPT !.format = format]
    BY <1>2 DEF ForUndo
  <2> HIDE DEF format
  <2>5. Kept2([s EXCEPT !.format = format], s, s.was)
    BY <2>3 DEF Kept2, Steps, StepRecords
  <2> QED
    BY <2>4, <2>5
<1> QED
  BY <1>1, <1>2

LEMMA NotedBack ==
  ASSUME NEW r, NEW s, Kept2(r, s, s.was), NEW was \in Lines
  PROVE  /\ [r EXCEPT !.was = was] \in Steps /\ [r EXCEPT !.was = was].was = was
         /\ \A t, u : Turns(s, t, u) => Turns([r EXCEPT !.was = was], t, u)
<1> DEFINE x == [r EXCEPT !.was = was]
<1>1. x \in Steps /\ x.kind = s.kind /\ x.at = s.at /\ x.len = s.len /\ x.text = s.text /\ x.was = was
  BY DEF Kept2, Steps, StepRecords
<1> HIDE DEF x
<1>2. \A t, u : Turns(s, t, u) => Turns(x, t, u)
  BY <1>1 DEF Turns
<1> QED
  BY <1>1, <1>2 DEF x

LEMMA UndoIs ==
  ASSUME NEW d, Whole(d), ~d.quiet, d.undo # <<>>
  PROVE  LET e == Undo(d, Last(d.undo))
         IN  /\ Edits(d, e)
             /\ Exact(d) /\ ~d.stray => Text(e) = Last(d.undo).was
<1> DEFINE s == Last(d.undo)
           q == [d EXCEPT !.quiet = TRUE]
           x == Undone(q, s)
           r == [WithRuns(d, s) EXCEPT !.was = Text(d)]
           e == [x EXCEPT !.quiet = FALSE, !.modified = TRUE, !.undo = Front(d.undo),
                          !.redo = Append(d.redo, r)]
<1>1. d.undo \in Seq(Steps) /\ d.redo \in Seq(Steps) /\ Text(d) \in Lines /\ d.quiet = FALSE
  BY WholeIs, DocumentsAre
<1>2. s \in Steps /\ Front(d.undo) \in Seq(Steps)
  BY <1>1, FrontIs
<1> HIDE DEF s
<1>3. s.was \in Lines
  BY <1>2 DEF Steps, StepRecords
<1>4. Undo(d, s) = e
  BY DEF Undo
<1>5. Whole(q) /\ Text(q) = Text(d) /\ q.stray = d.stray /\ \A y : Evolves(q, y) => Evolves(d, y)
  BY QuietIs
<1> HIDE DEF q
<1>6. Turned(q, x) /\ (Turns(s, s.was, Text(d)) => Text(x) = s.was)
  BY <1>2, <1>3, <1>5, UndoneIs
<1> HIDE DEF x
<1>7. Whole(x) /\ Evolves(d, x) /\ (d.stray => x.stray)
  BY <1>5, <1>6 DEF Turned
<1>8. Kept2(WithRuns(d, s), s, s.was)
  BY <1>2, WithRunsIs
<1>9. r \in Steps /\ r.was = Text(d) /\ \A t, u : Turns(s, t, u) => Turns(r, t, u)
  BY <1>1, <1>8, NotedBack
<1> HIDE DEF r
<1>10. Append(d.redo, r) \in Seq(Steps)
  BY <1>1, <1>9, AppendProperties
<1> DEFINE front == Front(d.undo)
           more == Append(d.redo, r)
<1>11. front \in Seq(Steps) /\ more \in Seq(Steps) /\ x \in Documents
  BY <1>2, <1>7, <1>10 DEF Whole
<1> HIDE DEF front, more
<1>12. /\ e \in Documents /\ e.paras = x.paras /\ e.next = x.next /\ e.quiet = FALSE /\ e.modified
       /\ e.undo = front /\ e.redo = more /\ e.stray = x.stray
  <2> DEFINE y == [x EXCEPT !.quiet = FALSE, !.modified = TRUE, !.undo = front, !.redo = more]
  <2>1. /\ y \in Documents /\ y.paras = x.paras /\ y.next = x.next /\ y.quiet = FALSE /\ y.modified
        /\ y.undo = front /\ y.redo = more /\ y.stray = x.stray
    BY <1>11 DEF Documents
  <2>2. y = e
    BY DEF front, more
  <2> HIDE DEF y, e
  <2> QED
    BY <2>1, <2>2
<1> HIDE DEF e
<1>13. Text(e) = Text(x)
  BY <1>12, TextOfParas
<1>14. Whole(e) /\ Evolves(d, e)
  BY <1>7, <1>12 DEF Whole, Evolves
<1>15. ASSUME Exact(d), ~d.stray
       PROVE  /\ UndoesTo(front, s.was) /\ Turns(s, s.was, Text(d)) /\ RedoesTo(d.redo, Text(d))
              /\ Text(e) = s.was
  <2>1. UndoesTo(d.undo, Text(d)) /\ RedoesTo(d.redo, Text(d))
    BY <1>15 DEF Exact
  <2>2. UndoesTo(front, s.was) /\ Turns(s, s.was, Text(d))
    BY <1>1, <2>1, FrontUndoes DEF front, s
  <2> QED
    BY <1>6, <1>13, <2>1, <2>2
<1>16. ASSUME Exact(d), ~e.stray PROVE UndoesTo(e.undo, Text(e)) /\ RedoesTo(e.redo, Text(e))
  <2>1. ~d.stray
    BY <1>7, <1>12, <1>16
  <2>2. RedoesTo(d.redo, r.was) /\ Turns(r, s.was, r.was)
    BY <1>9, <1>15, <1>16, <2>1
  <2>3. RedoesTo(more, s.was)
    BY <1>1, <1>9, <2>2, AppendRedoes DEF more
  <2> QED
    BY <1>12, <1>15, <1>16, <2>1, <2>3
<1>17. Edits(d, e)
  <2>1. Exact(d) => Exact(e)
    BY <1>16 DEF Exact
  <2>2. d.stray => e.stray
    BY <1>7, <1>12
  <2> QED
    BY <1>1, <1>12, <1>14, <2>1, <2>2 DEF Edits
<1> QED
  BY <1>4, <1>15, <1>17 DEF s

LEMMA RedoIs ==
  ASSUME NEW d, Whole(d), ~d.quiet, d.redo # <<>>
  PROVE  LET e == Redo(d, Last(d.redo))
         IN  /\ Edits(d, e)
             /\ Exact(d) /\ ~d.stray => Text(e) = Last(d.redo).was
<1> DEFINE s == Last(d.redo)
           q == [d EXCEPT !.quiet = TRUE]
           x == Redone(q, s)
           r == [ForUndo(d, s) EXCEPT !.was = Text(d)]
           e == [x EXCEPT !.quiet = FALSE, !.modified = TRUE, !.redo = Front(d.redo),
                          !.undo = Append(d.undo, r)]
<1>1. d.undo \in Seq(Steps) /\ d.redo \in Seq(Steps) /\ Text(d) \in Lines /\ d.quiet = FALSE
  BY WholeIs, DocumentsAre
<1>2. s \in Steps /\ Front(d.redo) \in Seq(Steps)
  BY <1>1, FrontIs
<1> HIDE DEF s
<1>3. s.was \in Lines
  BY <1>2 DEF Steps, StepRecords
<1>4. Redo(d, s) = e
  BY DEF Redo
<1>5. Whole(q) /\ Text(q) = Text(d) /\ q.stray = d.stray /\ \A y : Evolves(q, y) => Evolves(d, y)
  BY QuietIs
<1> HIDE DEF q
<1>6. Turned(q, x) /\ (Turns(s, Text(d), s.was) => Text(x) = s.was)
  BY <1>2, <1>3, <1>5, RedoneIs
<1> HIDE DEF x
<1>7. Whole(x) /\ Evolves(d, x) /\ (d.stray => x.stray)
  BY <1>5, <1>6 DEF Turned
<1>8. Kept2(ForUndo(d, s), s, s.was)
  BY <1>2, ForUndoIs
<1>9. r \in Steps /\ r.was = Text(d) /\ \A t, u : Turns(s, t, u) => Turns(r, t, u)
  BY <1>1, <1>8, NotedBack
<1> HIDE DEF r
<1>10. Append(d.undo, r) \in Seq(Steps)
  BY <1>1, <1>9, AppendProperties
<1> DEFINE front == Front(d.redo)
           more == Append(d.undo, r)
<1>11. front \in Seq(Steps) /\ more \in Seq(Steps) /\ x \in Documents
  BY <1>2, <1>7, <1>10 DEF Whole
<1> HIDE DEF front, more
<1>12. /\ e \in Documents /\ e.paras = x.paras /\ e.next = x.next /\ e.quiet = FALSE /\ e.modified
       /\ e.redo = front /\ e.undo = more /\ e.stray = x.stray
  <2> DEFINE y == [x EXCEPT !.quiet = FALSE, !.modified = TRUE, !.redo = front, !.undo = more]
  <2>1. /\ y \in Documents /\ y.paras = x.paras /\ y.next = x.next /\ y.quiet = FALSE /\ y.modified
        /\ y.redo = front /\ y.undo = more /\ y.stray = x.stray
    BY <1>11 DEF Documents
  <2>2. y = e
    BY DEF front, more
  <2> HIDE DEF y, e
  <2> QED
    BY <2>1, <2>2
<1> HIDE DEF e
<1>13. Text(e) = Text(x)
  BY <1>12, TextOfParas
<1>14. Whole(e) /\ Evolves(d, e)
  BY <1>7, <1>12 DEF Whole, Evolves
<1>15. ASSUME Exact(d), ~d.stray
       PROVE  /\ RedoesTo(front, s.was) /\ Turns(s, Text(d), s.was) /\ UndoesTo(d.undo, Text(d))
              /\ Text(e) = s.was
  <2>1. UndoesTo(d.undo, Text(d)) /\ RedoesTo(d.redo, Text(d))
    BY <1>15 DEF Exact
  <2>2. RedoesTo(front, s.was) /\ Turns(s, Text(d), s.was)
    BY <1>1, <2>1, FrontRedoes DEF front, s
  <2> QED
    BY <1>6, <1>13, <2>1, <2>2
<1>16. ASSUME Exact(d), ~e.stray PROVE UndoesTo(e.undo, Text(e)) /\ RedoesTo(e.redo, Text(e))
  <2>1. ~d.stray
    BY <1>7, <1>12, <1>16
  <2>2. UndoesTo(d.undo, r.was) /\ Turns(r, r.was, s.was)
    BY <1>9, <1>15, <1>16, <2>1
  <2>3. UndoesTo(more, s.was)
    BY <1>1, <1>9, <2>2, AppendUndoes DEF more
  <2> QED
    BY <1>12, <1>15, <1>16, <2>1, <2>3
<1>17. Edits(d, e)
  <2>1. Exact(d) => Exact(e)
    BY <1>16 DEF Exact
  <2>2. d.stray => e.stray
    BY <1>7, <1>12
  <2> QED
    BY <1>1, <1>12, <1>14, <2>1, <2>2 DEF Edits
<1> QED
  BY <1>4, <1>15, <1>17 DEF s

\* What changes no letter of a document with changes is an edit.
LEMMA KeepsEdits ==
  ASSUME NEW d, d.modified, NEW c, Keeps(d, c)
  PROVE  Edits(d, c)
<1>1. /\ Whole(c) /\ Evolves(d, c) /\ c.undo = d.undo /\ c.redo = d.redo /\ c.modified
      /\ c.quiet = d.quiet /\ c.stray = d.stray /\ Text(c) = Text(d)
  BY DEF Keeps, Changes
<1>2. Exact(d) => Exact(c)
  BY <1>1 DEF Exact
<1> QED
  BY <1>1, <1>2 DEF Edits

(* An edit that takes no paragraph away, and one that adds none either.    *)
Grows(d, e) == Edits(d, e) /\ Len(e.paras) >= Len(d.paras)
Stays(d, e) == Edits(d, e) /\ Len(e.paras) = Len(d.paras)

LEMMA GrowsOn ==
  ASSUME NEW d, Whole(d), NEW e, Grows(d, e), NEW f, Grows(e, f)
  PROVE  Grows(d, f)
<1>1. Whole(e) /\ Whole(f)
  BY DEF Grows, Edits
<1>2. Len(d.paras) \in Nat /\ Len(e.paras) \in Nat /\ Len(f.paras) \in Nat
  BY <1>1, WholeIs
<1>3. Edits(d, f)
  BY EditsOn DEF Grows
<1> QED
  BY <1>2, <1>3 DEF Grows

LEMMA StaysOn ==
  ASSUME NEW d, Whole(d), NEW e, Stays(d, e), NEW f, Stays(e, f)
  PROVE  Stays(d, f)
BY EditsOn DEF Stays

LEMMA GrowsSame ==
  ASSUME NEW d, Whole(d)
  PROVE  Grows(d, d) /\ Stays(d, d)
<1>1. Len(d.paras) \in Nat
  BY WholeIs
<1> QED
  BY <1>1, EditsSame DEF Grows, Stays

LEMMA GrowsWhole ==
  ASSUME NEW d, NEW e, Grows(d, e) \/ Stays(d, e) \/ Edits(d, e)
  PROVE  Whole(e) /\ Edits(d, e) /\ e \in Documents
BY DEF Grows, Stays, Edits, Whole

LEMMA InsertGrows ==
  ASSUME NEW d, Whole(d), NEW o \in Nat, NEW g \in Lines, NEW f \in SUBSET CharFormats
  PROVE  Grows(d, Insert(d, o, g, f))
BY InsertIs DEF Grows

LEMMA SplitGrows ==
  ASSUME NEW d, Whole(d), NEW o \in Nat
  PROVE  Grows(d, SplitPara(d, o))
<1>1. Edits(d, SplitPara(d, o)) /\ Len(SplitPara(d, o).paras) = Len(d.paras) + 1 /\ Len(d.paras) \in Nat
  BY SplitParaIs, WholeIs
<1> QED
  BY <1>1 DEF Grows

\* An image on its mark.
LEMMA InsertImageIs ==
  ASSUME NEW d, Whole(d), NEW o \in Nat
  PROVE  Edits(d, InsertImage(d, o))
<1> DEFINE g == <<Mark>>
           f == {}
           e == Insert(d, o, g, f)
           i == Locate(d, o)
           p == i.para
           a == i.at
           h == Hung(e, [para |-> p, at |-> a])
<1>1. g \in Lines /\ g # <<>> /\ f \in SUBSET CharFormats
  BY DEF Lines, Glyphs
<1>2. i = [para |-> p, at |-> a] /\ Spot(d, p, a)
  BY LocateSpot
<1>3. p \in 1 .. Len(d.paras) /\ a \in Nat
  <2>1. p \in 1 .. Len(d.paras) /\ a \in 0 .. Size(d, p)
    BY <1>2 DEF Spot
  <2>2. Size(d, p) \in Nat
    BY <2>1, WholeIs, ParasAre
  <2> QED
    BY <2>1, <2>2
<1>4. InsertImage(d, o) = h
  BY <1>2 DEF InsertImage
<1> HIDE DEF g, f, i, p, a
<1>5. Edits(d, e) /\ Len(e.paras) >= Len(d.paras) /\ e.modified
  BY <1>1, InsertIs
<1>6. Whole(e)
  BY <1>5 DEF Edits
<1>7. p \in 1 .. Len(e.paras)
  BY <1>3, <1>5, <1>6, WholeIs
<1> HIDE DEF e
<1>8. Keeps(e, h)
  BY <1>3, <1>6, <1>7, HungIs
<1>9. Edits(e, h)
  BY <1>5, <1>8, KeepsEdits
<1> QED
  BY <1>4, <1>5, <1>9, EditsOn

LEMMA CellsAre ==
  ASSUME NEW n \in Int
  PROVE  Cells(n) \in Lines
<1>1. CASE n \in Nat
  BY <1>1 DEF Cells, Lines, Glyphs
<1>2. CASE n \notin Nat
  <2>1. 1 .. n = {} /\ 1 .. 0 = {}
    BY <1>2
  <2>2. Cells(n) = [k \in 1 .. 0 |-> Cell]
    BY <2>1 DEF Cells
  <2> QED
    BY <2>2 DEF Lines, Glyphs
<1> QED
  BY <1>1, <1>2

\* The cells of a row.
LEMMA CellEndsAre ==
  ASSUME NEW d, Whole(d), NEW p \in 1 .. Len(d.paras)
  PROVE  LET ends == CellEnds(d.paras[p].text)
         IN  /\ ends \subseteq 1 .. Size(d, p) /\ IsFiniteSet(ends) /\ Cardinality(ends) \in Nat
             /\ \A k \in Int : Cardinality({i \in ends : i <= k}) \in Nat
<1> DEFINE ends == CellEnds(d.paras[p].text)
<1>1. DOMAIN d.paras[p].text = 1 .. Size(d, p) /\ Size(d, p) \in Nat
  BY WholeIs, ParasAre
<1>2. ends \subseteq 1 .. Size(d, p)
  BY <1>1 DEF CellEnds
<1> HIDE DEF ends
<1>3. IsFiniteSet(1 .. Size(d, p))
  BY <1>1, FS_Interval
<1>4. IsFiniteSet(ends)
  BY <1>2, <1>3, FS_Subset
<1>5. ASSUME NEW k \in Int PROVE Cardinality({i \in ends : i <= k}) \in Nat
  <2>1. {i \in ends : i <= k} \in SUBSET ends
    OBVIOUS
  <2>2. IsFiniteSet({i \in ends : i <= k})
    BY <1>4, <2>1, FS_Subset
  <2> QED
    BY <2>2, FS_CardinalityType
<1> QED
  BY <1>2, <1>4, <1>5, FS_CardinalityType DEF ends

LEMMA ColumnOfIs ==
  ASSUME NEW d, Whole(d), NEW o \in Nat
  PROVE  /\ Locate(d, o).para \in 1 .. Len(d.paras) /\ ColumnOf(d, Locate(d, o)) \in Nat
<1> DEFINE i == Locate(d, o)
           p == i.para
           a == i.at
<1>1. p \in 1 .. Len(d.paras) /\ a \in 0 .. Size(d, p)
  BY LocateSpot DEF Spot
<1>2. Size(d, p) \in Nat
  BY <1>1, WholeIs, ParasAre
<1>3. a \in Int
  BY <1>1, <1>2
<1>4. ColumnOf(d, i) = Cardinality({k \in CellEnds(d.paras[p].text) : k <= a})
  BY DEF ColumnOf
<1> HIDE DEF p, a, i
<1> QED
  BY <1>1, <1>3, <1>4, CellEndsAre DEF p, i

LEMMA CellStartIs ==
  ASSUME NEW d, Whole(d), NEW p \in 1 .. Len(d.paras), NEW col
  PROVE  CellStart(d, p, col) \subseteq ParaStart(d, p) .. ParaEnd(d, p)
<1>1. CellEnds(d.paras[p].text) \subseteq 1 .. Size(d, p)
  BY CellEndsAre
<1>2. ParaStart(d, p) \in Nat /\ Size(d, p) \in Nat /\ ParaEnd(d, p) = ParaStart(d, p) + Size(d, p)
  BY WholeIs, PlaceIs
<1>3. ASSUME NEW x \in CellStart(d, p, col) PROVE x \in ParaStart(d, p) .. ParaEnd(d, p)
  <2>1. PICK k \in {0} \cup CellEnds(d.paras[p].text) : x = ParaStart(d, p) + k
    BY <1>3 DEF CellStart
  <2>2. k \in 0 .. Size(d, p)
    BY <1>1, <1>2, <2>1
  <2> QED
    BY <1>2, <2>1, <2>2
<1> QED
  BY <1>3

LEMMA NewRowIs ==
  ASSUME NEW d, Whole(d), NEW p \in 1 .. Len(d.paras), NEW n \in Int
  PROVE  Grows(d, Insert(SplitPara(d, ParaEnd(d, p)), ParaEnd(d, p) + 1, Cells(n), {}))
<1> DEFINE o == ParaEnd(d, p)
           m == o + 1
           x == SplitPara(d, o)
           f == {}
<1>1. o \in Nat /\ m \in Nat /\ f \in SUBSET CharFormats /\ Cells(n) \in Lines
  BY WholeIs, PlaceIs, CellsAre
<1> HIDE DEF o, m, f
<1>2. Grows(d, x)
  BY <1>1, SplitGrows
<1> HIDE DEF x
<1>3. Whole(x)
  BY <1>2, GrowsWhole
<1>4. Grows(x, Insert(x, m, Cells(n), f))
  BY <1>1, <1>3, InsertGrows
<1> QED
  BY <1>2, <1>4, GrowsOn DEF o, m, x, f

LEMMA InsertTableRowAfterIs ==
  ASSUME NEW d, Whole(d), NEW o \in Nat
  PROVE  Grows(d, InsertTableRowAfter(d, o))
<1> DEFINE p == Locate(d, o).para
           n == Cardinality(CellEnds(d.paras[p].text))
<1>1. p \in 1 .. Len(d.paras)
  BY LocateSpot DEF Spot
<1>2. InsertTableRowAfter(d, o) = Insert(SplitPara(d, ParaEnd(d, p)), ParaEnd(d, p) + 1, Cells(n), {})
  BY DEF InsertTableRowAfter
<1> HIDE DEF p
<1>3. n \in Int
  BY <1>1, CellEndsAre
<1> HIDE DEF n
<1> QED
  BY <1>1, <1>2, <1>3, NewRowIs

LEMMA RowsEnd ==
  ASSUME NEW d, Whole(d), NEW p \in 1 .. Len(d.paras)
  PROVE  LastRow(d, p) \in p .. Len(d.paras)
<1> DEFINE S == {k \in p .. Len(d.paras) : ~IsRow(d, k + 1)}
           n == Len(d.paras)
<1>1. n \in Nat /\ DOMAIN d.paras = 1 .. n
  BY WholeIs, ParasAre
<1>2. n \in S /\ S \subseteq Nat
  BY <1>1 DEF IsRow
<1> HIDE DEF S
<1>3. Min(S) \in S
  BY <1>2, MinIs
<1> QED
  BY <1>3 DEF LastRow, S

LEMMA RowsBegin ==
  ASSUME NEW d, Whole(d), NEW p \in 1 .. Len(d.paras), IsRow(d, p)
  PROVE  FirstRow(d, p) \in 1 .. p
<1> DEFINE S == {k \in 1 .. p : \A i \in k .. p : IsRow(d, i)}
<1>1. Len(d.paras) \in Nat
  BY WholeIs
<1>2. p \in S /\ S \subseteq Nat
  <2>1. p .. p = {p} /\ p \in 1 .. p
    BY <1>1
  <2> QED
    BY <2>1
<1> HIDE DEF S
<1>3. Min(S) \in S
  BY <1>2, MinIs
<1> QED
  BY <1>3 DEF FirstRow, S

LEMMA InsertCellIs ==
  ASSUME NEW d, Whole(d), NEW p \in 1 .. Len(d.paras), NEW col
  PROVE  Grows(d, InsertCell(d, p, col))
<1> DEFINE S == CellStart(d, p, col) \cup {ParaEnd(d, p)}
           f == {}
           g == <<Cell>>
<1>1. ParaStart(d, p) \in Nat /\ ParaEnd(d, p) \in Nat
  BY WholeIs, PlaceIs
<1>2. S \subseteq Nat /\ S # {}
  BY <1>1, CellStartIs
<1>3. f \in SUBSET CharFormats /\ g \in Lines
  BY DEF Lines, Glyphs
<1> HIDE DEF S, f, g
<1>4. Min(S) \in Nat
  BY <1>2, MinIs
<1>5. Grows(d, Insert(d, Min(S), g, f))
  BY <1>3, <1>4, InsertGrows
<1> QED
  BY <1>5 DEF InsertCell, S, f, g

LEMMA InsertTableColumnAtIs ==
  ASSUME NEW d, Whole(d), NEW o \in Nat
  PROVE  Grows(d, InsertTableColumnAt(d, o))
<1> DEFINE i == Locate(d, o)
           p == i.para
           c == ColumnOf(d, i)
           last == LastRow(d, p)
           n == last - p + 1
           Goes(w) == w = [k \in 0 .. n |-> IF k = 0 THEN d ELSE InsertCell(w[k - 1], last + 1 - k, c)]
           after == CHOOSE w : Goes(w)
           D == {e \in Documents : Grows(d, e)}
           next == [k \in 1 .. n |-> [e \in D |-> InsertCell(e, last + 1 - k, c)]]
<1>1. p \in 1 .. Len(d.paras) /\ Len(d.paras) \in Nat
  BY ColumnOfIs, WholeIs
<1>2. InsertTableColumnAt(d, o) = after[n]
  BY Zenon DEF InsertTableColumnAt
<1> HIDE DEF p, c, i
<1>3. last \in p .. Len(d.paras)
  BY <1>1, RowsEnd
<1>4. n \in Nat /\ \A k \in 1 .. n : last + 1 - k \in 1 .. Len(d.paras)
  BY <1>1, <1>3
<1>5. d \in D
  BY GrowsSame DEF Whole
<1>6. \A k \in 1 .. n : \A e \in D : next[k][e] = InsertCell(e, last + 1 - k, c)
  OBVIOUS
<1> HIDE DEF last, n
<1>7. ASSUME NEW k \in 1 .. n, NEW e \in D PROVE InsertCell(e, last + 1 - k, c) \in D
  <2>1. Grows(d, e) /\ Whole(e) /\ Len(e.paras) >= Len(d.paras)
    BY GrowsWhole DEF Grows
  <2>2. last + 1 - k \in 1 .. Len(e.paras)
    BY <1>1, <1>4, <2>1, WholeIs
  <2>3. Grows(e, InsertCell(e, last + 1 - k, c))
    BY <2>1, <2>2, InsertCellIs
  <2>4. Grows(d, InsertCell(e, last + 1 - k, c))
    BY <2>1, <2>3, GrowsOn
  <2> QED
    BY <2>4, GrowsWhole
<1> HIDE DEF next, D
<1>8. \A k \in 1 .. n : \A e \in D : next[k][e] \in D
  BY <1>6, <1>7
<1>9. PICK w : Walks(w, n, d, next) /\ \A k \in 0 .. n : w[k] \in D
  BY <1>4, <1>5, <1>8, WalkInside
<1>10. Goes(w)
  <2>1. ASSUME NEW k \in 0 .. n, k # 0
        PROVE  next[k][w[k - 1]] = InsertCell(w[k - 1], last + 1 - k, c)
    <3>1. k \in 1 .. n /\ k - 1 \in 0 .. n
      BY <1>4, <2>1
    <3> QED
      BY <1>6, <1>9, <3>1
  <2> QED
    BY <1>9, <2>1 DEF Walks
<1>11. Goes(after)
  BY <1>10
<1> HIDE DEF after
<1>12. after[0] = d /\ \A k \in 1 .. n : after[k] = InsertCell(after[k - 1], last + 1 - k, c)
  <2>1. 0 \in 0 .. n /\ \A k \in 1 .. n : k \in 0 .. n /\ k # 0
    BY <1>4
  <2> QED
    BY <1>11, <2>1, Zenon
<1>13. \A k \in 1 .. n : after[k - 1] \in D => after[k] \in D
  BY <1>7, <1>12
<1>14. \A k \in 0 .. n : after[k] \in D
  BY <1>4, <1>5, <1>12, <1>13, WalkStaysInside
<1>15. after[n] \in D
  BY <1>4, <1>14
<1> QED
  BY <1>2, <1>15 DEF D

LEMMA InsertTableIs ==
  ASSUME NEW d, Whole(d), NEW o \in Nat, NEW rows \in Nat \ {0}, NEW cols \in Nat \ {0},
         NEW f \in SUBSET CharFormats
  PROVE  Edits(d, InsertTable(d, o, rows, cols, f))
<1> DEFINE x == Insert(d, o, Cells(cols - 1), f)
           none == {}
           Row(e, k) == Insert(SplitPara(e, o + k * cols - 1), o + k * cols, Cells(cols - 1), none)
           n == rows - 1
           Goes(w) == w = [k \in 0 .. n |-> IF k = 0 THEN x ELSE Row(w[k - 1], k)]
           after == CHOOSE w : Goes(w)
           D == {e \in Documents : Edits(d, e)}
           next == [k \in 1 .. n |-> [e \in D |-> Row(e, k)]]
<1>1. /\ n \in Nat /\ none \in SUBSET CharFormats /\ cols - 1 \in Int
      /\ \A k \in 1 .. n : o + k * cols - 1 \in Nat /\ o + k * cols \in Nat
  <2>1. ASSUME NEW k \in 1 .. n PROVE o + k * cols - 1 \in Nat /\ o + k * cols \in Nat
    <3>1. k \in Nat /\ k >= 1
      OBVIOUS
    <3>2. k * cols >= cols /\ k * cols \in Nat
      BY <3>1
    <3> QED
      BY <3>2
  <2> QED
    BY <2>1
<1>2. InsertTable(d, o, rows, cols, f) = after[n]
  BY Zenon DEF InsertTable
<1>3. Cells(cols - 1) \in Lines
  BY <1>1, CellsAre
<1> HIDE DEF n, none, x
<1>4. x \in D
  BY <1>3, InsertIs, GrowsWhole DEF x
<1>5. \A k \in 1 .. n : \A e \in D : next[k][e] = Row(e, k)
  OBVIOUS
<1>6. ASSUME NEW k \in 1 .. n, NEW e \in D PROVE Row(e, k) \in D
  <2> DEFINE y == SplitPara(e, o + k * cols - 1)
             z == Row(e, k)
  <2>1. Edits(d, e) /\ Whole(e)
    BY GrowsWhole
  <2>2. Grows(e, y)
    BY <1>1, <2>1, SplitGrows
  <2>3. Whole(y)
    BY <2>2, GrowsWhole
  <2> HIDE DEF y
  <2>4. Grows(y, Insert(y, o + k * cols, Cells(cols - 1), none))
    BY <1>1, <1>3, <2>3, InsertGrows
  <2>5. Grows(e, z)
    BY <2>1, <2>2, <2>4, GrowsOn DEF y
  <2> HIDE DEF z
  <2>6. Edits(d, z)
    BY <2>1, <2>5, EditsOn DEF Grows
  <2> QED
    BY <2>6, GrowsWhole DEF z
<1> HIDE DEF next, D
<1>7. \A k \in 1 .. n : \A e \in D : next[k][e] \in D
  BY <1>5, <1>6
<1>8. PICK w : Walks(w, n, x, next) /\ \A k \in 0 .. n : w[k] \in D
  BY <1>1, <1>4, <1>7, WalkInside
<1> HIDE DEF Row
<1>9. Goes(w)
  <2>1. ASSUME NEW k \in 0 .. n, k # 0 PROVE next[k][w[k - 1]] = Row(w[k - 1], k)
    <3>1. k \in 1 .. n /\ k - 1 \in 0 .. n
      BY <1>1, <2>1
    <3> QED
      BY <1>5, <1>8, <3>1
  <2> QED
    BY <1>8, <2>1 DEF Walks
<1>10. Goes(after)
  BY <1>9
<1> HIDE DEF after
<1>11. after[0] = x /\ \A k \in 1 .. n : after[k] = Row(after[k - 1], k)
  <2>1. 0 \in 0 .. n /\ \A k \in 1 .. n : k \in 0 .. n /\ k # 0
    BY <1>1
  <2> QED
    BY <1>10, <2>1, Zenon
<1>12. \A k \in 1 .. n : after[k - 1] \in D => after[k] \in D
  BY <1>6, <1>11
<1>13. \A k \in 0 .. n : after[k] \in D
  BY <1>1, <1>4, <1>11, <1>12, WalkStaysInside
<1>14. after[n] \in D
  BY <1>1, <1>13
<1> QED
  BY <1>2, <1>14 DEF D, n, x, none

LEMMA RemoveEdits ==
  ASSUME NEW d, Whole(d), NEW o \in Nat, NEW l \in Int
  PROVE  Edits(d, RemoveText(d, o, l))
BY RemoveTextIs

LEMMA DeleteTableRowIs ==
  ASSUME NEW d, Whole(d), NEW o \in Nat
  PROVE  Edits(d, DeleteTableRow(d, o))
<1> DEFINE p == Locate(d, o).para
           at == ParaStart(d, p)
           n == Len(d.paras[p].text)
           one == 1
           x == RemoveText(d, at, n)
           from == IF IsRow(d, p - 1) THEN at - 1 ELSE at
<1>1. p \in 1 .. Len(d.paras)
  BY LocateSpot DEF Spot
<1>2. at \in Nat /\ n \in Int /\ one \in Int /\ n + 1 \in Int
  BY <1>1, WholeIs, PlaceIs DEF Size
<1>3. from \in Nat
  <2>1. ASSUME IsRow(d, p - 1) PROVE at - 1 \in Nat
    <3> DEFINE q == p - 1
    <3>1. q \in 1 .. Len(d.paras) /\ q + 1 = p
      BY SMTT(60), <1>1, <2>1, WholeIs, ParasAre DEF IsRow
    <3> HIDE DEF p, q
    <3>2. ParaStart(d, p) = ParaEnd(d, q) + 1 /\ ParaEnd(d, q) \in Nat
      BY <3>1, WholeIs, PlaceIs
    <3> QED
      BY <3>2
  <2> QED
    BY <1>2, <2>1
<1>4. DeleteTableRow(d, o) = IF ~IsRow(d, p - 1) /\ ~IsRow(d, p + 1) THEN RemoveText(x, at, one)
                             ELSE RemoveText(d, from, n + 1)
  BY DEF DeleteTableRow
<1> HIDE DEF p, at, n, one, from
<1>5. Edits(d, x)
  BY <1>2, RemoveEdits
<1> HIDE DEF x
<1>6. Whole(x)
  BY <1>5, GrowsWhole
<1>7. Edits(x, RemoveText(x, at, one)) /\ Edits(d, RemoveText(d, from, n + 1))
  BY <1>2, <1>3, <1>6, RemoveEdits
<1>8. Edits(d, RemoveText(x, at, one))
  BY <1>5, <1>7, EditsOn
<1> QED
  BY <1>4, <1>7, <1>8

LEMMA DeleteCellIs ==
  ASSUME NEW d, Whole(d), NEW p \in 1 .. Len(d.paras), NEW col
  PROVE  Stays(d, DeleteCell(d, p, col))
<1> DEFINE S == CellStart(d, p, col)
           T == CellStart(d, p, col + 1) \cup {ParaEnd(d, p)}
           a == Min(S)
           b == Min(T)
           l == b - a
<1>1. CASE S = {}
  BY <1>1, GrowsSame DEF DeleteCell
<1>2. CASE S # {}
  <2>1. /\ ParaStart(d, p) \in Nat /\ ParaEnd(d, p) \in Nat /\ ParaEnd(d, p) <= Length(d)
        /\ Size(d, p) \in Nat /\ ParaEnd(d, p) = ParaStart(d, p) + Size(d, p) /\ Length(d) \in Nat
    BY WholeIs, PlaceIs
  <2>2. S \subseteq ParaStart(d, p) .. ParaEnd(d, p) /\ T \subseteq ParaStart(d, p) .. ParaEnd(d, p) /\ T # {}
    BY <2>1, CellStartIs
  <2>3. DeleteCell(d, p, col) = RemoveText(d, a, l)
    BY <1>2 DEF DeleteCell
  <2> HIDE DEF S, T
  <2>4. S \in SUBSET Nat /\ T \in SUBSET Nat
    BY <2>1, <2>2
  <2>5. a \in S /\ b \in T
    BY <1>2, <2>2, <2>4, MinIs
  <2>6. a \in ParaStart(d, p) .. ParaEnd(d, p) /\ b \in ParaStart(d, p) .. ParaEnd(d, p)
    BY <2>2, <2>5
  <2>7. a \in Nat /\ l \in Int /\ a + l = b /\ b <= Length(d)
    BY <2>1, <2>6
  <2>8. Locate(d, a).para = p /\ Locate(d, b).para = p
    <3> DEFINE i == a - ParaStart(d, p)
               j == b - ParaStart(d, p)
    <3>1. /\ i \in 0 .. Size(d, p) /\ j \in 0 .. Size(d, p)
          /\ ParaStart(d, p) + i = a /\ ParaStart(d, p) + j = b
      BY <2>1, <2>6
    <3> HIDE DEF i, j, a, b
    <3>2. /\ Locate(d, ParaStart(d, p) + i) = [para |-> p, at |-> i]
          /\ Locate(d, ParaStart(d, p) + j) = [para |-> p, at |-> j]
      BY <3>1, WholeIs, LocateAt
    <3> QED
      BY <3>1, <3>2
  <2> HIDE DEF a, b, l
  <2>9. Edits(d, RemoveText(d, a, l)) /\ (l \in Nat => Len(RemoveText(d, a, l).paras) = Len(d.paras))
    BY <2>7, <2>8, RemoveTextIs
  <2>10. l \notin Nat => RemoveText(d, a, l) = d
    BY <2>7 DEF RemoveText
  <2> QED
    BY <2>3, <2>9, <2>10 DEF Stays
<1> QED
  BY <1>1, <1>2

LEMMA DeleteTableColumnAtIs ==
  ASSUME NEW d, Whole(d), NEW o \in Nat, IsRow(d, Locate(d, o).para)
  PROVE  Edits(d, DeleteTableColumnAt(d, o))
<1> DEFINE i == Locate(d, o)
           p == i.para
           c == ColumnOf(d, i)
           first == FirstRow(d, p)
           last == LastRow(d, p)
           n == last - first + 1
           Goes(w) == w = [k \in 0 .. n |-> IF k = 0 THEN d ELSE DeleteCell(w[k - 1], last + 1 - k, c)]
           after == CHOOSE w : Goes(w)
           D == {e \in Documents : Stays(d, e)}
           next == [k \in 1 .. n |-> [e \in D |-> DeleteCell(e, last + 1 - k, c)]]
<1>1. p \in 1 .. Len(d.paras) /\ Len(d.paras) \in Nat /\ IsRow(d, p)
  BY ColumnOfIs, WholeIs
<1>2. DeleteTableColumnAt(d, o) = after[n]
  BY Zenon DEF DeleteTableColumnAt
<1> HIDE DEF p, c, i
<1>3. last \in p .. Len(d.paras) /\ first \in 1 .. p
  BY <1>1, RowsEnd, RowsBegin
<1>4. n \in Nat /\ \A k \in 1 .. n : last + 1 - k \in 1 .. Len(d.paras)
  BY SMTT(60), <1>1, <1>3
<1>5. d \in D
  BY GrowsSame DEF Whole
<1>6. \A k \in 1 .. n : \A e \in D : next[k][e] = DeleteCell(e, last + 1 - k, c)
  OBVIOUS
<1> HIDE DEF last, first, n
<1>7. ASSUME NEW k \in 1 .. n, NEW e \in D PROVE DeleteCell(e, last + 1 - k, c) \in D
  <2>1. Stays(d, e) /\ Whole(e) /\ Len(e.paras) = Len(d.paras)
    BY GrowsWhole DEF Stays
  <2>2. last + 1 - k \in 1 .. Len(e.paras)
    BY <1>1, <1>4, <2>1, WholeIs
  <2>3. Stays(e, DeleteCell(e, last + 1 - k, c))
    BY <2>1, <2>2, DeleteCellIs
  <2>4. Stays(d, DeleteCell(e, last + 1 - k, c))
    BY <2>1, <2>3, StaysOn
  <2> QED
    BY <2>4, GrowsWhole
<1> HIDE DEF next, D
<1>8. \A k \in 1 .. n : \A e \in D : next[k][e] \in D
  BY <1>6, <1>7
<1>9. PICK w : Walks(w, n, d, next) /\ \A k \in 0 .. n : w[k] \in D
  BY <1>4, <1>5, <1>8, WalkInside
<1>10. Goes(w)
  <2>1. ASSUME NEW k \in 0 .. n, k # 0
        PROVE  next[k][w[k - 1]] = DeleteCell(w[k - 1], last + 1 - k, c)
    <3>1. k \in 1 .. n /\ k - 1 \in 0 .. n
      BY <1>4, <2>1
    <3> QED
      BY <1>6, <1>9, <3>1
  <2> QED
    BY <1>9, <2>1 DEF Walks
<1>11. Goes(after)
  BY <1>10
<1> HIDE DEF after
<1>12. after[0] = d /\ \A k \in 1 .. n : after[k] = DeleteCell(after[k - 1], last + 1 - k, c)
  <2>1. 0 \in 0 .. n /\ \A k \in 1 .. n : k \in 0 .. n /\ k # 0
    BY <1>4
  <2> QED
    BY <1>11, <2>1, Zenon
<1>13. \A k \in 1 .. n : after[k - 1] \in D => after[k] \in D
  BY <1>7, <1>12
<1>14. \A k \in 0 .. n : after[k] \in D
  BY <1>4, <1>5, <1>12, <1>13, WalkStaysInside
<1>15. after[n] \in D
  BY <1>4, <1>14
<1> QED
  BY <1>2, <1>15, GrowsWhole DEF D

LEMMA LocateGrows ==
  ASSUME NEW d, Whole(d), NEW a \in Nat, NEW b \in Nat, a <= b
  PROVE  /\ Locate(d, a).para \in 1 .. Len(d.paras) /\ Locate(d, b).para \in 1 .. Len(d.paras)
         /\ Locate(d, a).para <= Locate(d, b).para
<1> DEFINE i == Locate(d, a)
           j == Locate(d, b)
<1>1. /\ Spot(d, i.para, i.at) /\ Spot(d, j.para, j.at)
      /\ a <= Length(d) => a = Here(d, i.para, i.at)
      /\ a > Length(d) => Here(d, i.para, i.at) = Length(d)
      /\ b <= Length(d) => b = Here(d, j.para, j.at)
      /\ b > Length(d) => Here(d, j.para, j.at) = Length(d)
  BY LocateSpot
<1>2. Length(d) \in Nat
  BY WholeIs
<1> HIDE DEF i, j
<1>3. Here(d, i.para, i.at) <= Here(d, j.para, j.at)
  BY <1>1, <1>2
<1>4. i.para <= j.para
  BY <1>1, <1>3, SpotsGrow
<1>5. i.para \in 1 .. Len(d.paras) /\ j.para \in 1 .. Len(d.paras)
  BY <1>1 DEF Spot
<1> QED
  BY <1>4, <1>5 DEF i, j

LEMMA SetParaFormatsIs ==
  ASSUME NEW d, Whole(d), NEW from \in Nat, NEW to \in Nat, from <= to, NEW format \in ParaFormats
  PROVE  Stays(d, SetParaFormats(d, from, to, format))
<1> DEFINE first == Locate(d, from).para
           last == Locate(d, to).para
           n == last - first + 1
           Goes(w) == w = [k \in 0 .. n |->
                             IF k = 0 THEN d ELSE SetParaFormat(w[k - 1], first + k - 1, format)]
           after == CHOOSE w : Goes(w)
           D == {e \in Documents : Stays(d, e)}
           next == [k \in 1 .. n |-> [e \in D |-> SetParaFormat(e, first + k - 1, format)]]
<1>1. Len(d.paras) \in Nat /\ first \in 1 .. Len(d.paras) /\ last \in 1 .. Len(d.paras) /\ first <= last
  BY LocateGrows, WholeIs
<1>2. SetParaFormats(d, from, to, format) = after[n]
  BY Zenon DEF SetParaFormats
<1>3. n \in Nat /\ \A k \in 1 .. n : first + k - 1 \in 1 .. Len(d.paras)
  BY SMTT(60), <1>1
<1>4. d \in D
  BY GrowsSame DEF Whole
<1>5. \A k \in 1 .. n : \A e \in D : next[k][e] = SetParaFormat(e, first + k - 1, format)
  OBVIOUS
<1> HIDE DEF last, first, n
<1>6. ASSUME NEW k \in 1 .. n, NEW e \in D PROVE SetParaFormat(e, first + k - 1, format) \in D
  <2> DEFINE p == first + k - 1
  <2>1. Stays(d, e) /\ Whole(e) /\ Len(e.paras) = Len(d.paras)
    BY GrowsWhole DEF Stays
  <2>2. p \in 1 .. Len(e.paras)
    BY <1>3, <2>1
  <2> HIDE DEF p
  <2>3. Stays(e, SetParaFormat(e, p, format))
    BY <2>1, <2>2, SetParaFormatIs DEF Stays
  <2>4. Stays(d, SetParaFormat(e, p, format))
    BY <2>1, <2>3, StaysOn
  <2>5. SetParaFormat(e, p, format) \in D
    BY <2>4, GrowsWhole
  <2> QED
    BY <2>5 DEF p
<1> HIDE DEF next, D
<1>7. \A k \in 1 .. n : \A e \in D : next[k][e] \in D
  BY <1>5, <1>6
<1>8. PICK w : Walks(w, n, d, next) /\ \A k \in 0 .. n : w[k] \in D
  BY <1>3, <1>4, <1>7, WalkInside
<1>9. Goes(w)
  <2>1. ASSUME NEW k \in 0 .. n, k # 0
        PROVE  next[k][w[k - 1]] = SetParaFormat(w[k - 1], first + k - 1, format)
    <3>1. k \in 1 .. n /\ k - 1 \in 0 .. n
      BY <1>3, <2>1
    <3> QED
      BY <1>5, <1>8, <3>1
  <2> QED
    BY <1>8, <2>1 DEF Walks
<1>10. Goes(after)
  BY <1>9
<1> HIDE DEF after
<1>11. after[0] = d /\ \A k \in 1 .. n : after[k] = SetParaFormat(after[k - 1], first + k - 1, format)
  <2>1. 0 \in 0 .. n /\ \A k \in 1 .. n : k \in 0 .. n /\ k # 0
    BY <1>3
  <2> QED
    BY <1>10, <2>1, Zenon
<1>12. \A k \in 1 .. n : after[k - 1] \in D => after[k] \in D
  BY <1>6, <1>11
<1>13. \A k \in 0 .. n : after[k] \in D
  BY <1>3, <1>4, <1>11, <1>12, WalkStaysInside
<1>14. after[n] \in D
  BY <1>3, <1>13
<1> QED
  BY <1>2, <1>14 DEF D

LEMMA StylesAre ==
  ASSUME NEW d, Whole(d), NEW k \in DOMAIN d.styles
  PROVE  d.styles[k].f \in CharFormats /\ d.styles[k].format \in ParaFormats
<1> DEFINE T == [name : StyleNames, f : CharFormats, format : ParaFormats]
           s == d.styles
<1>1. s \in Seq(T)
  BY WholeIs, DocumentsAre DEF StyleList
<1> HIDE DEF T, s
<1>2. k \in 1 .. Len(s)
  BY <1>1 DEF s
<1>3. s[k] \in T
  BY <1>1, <1>2, ElementOfSeq
<1> QED
  BY <1>3 DEF T, s

LEMMA ApplyStyleIs ==
  ASSUME NEW d, Whole(d), NEW o \in Nat, NEW n \in Int, NEW k
  PROVE  Edits(d, ApplyStyle(d, o, n, k))
<1>1. CASE k \notin DOMAIN d.styles
  BY <1>1, EditsSame DEF ApplyStyle
<1>2. CASE k \in DOMAIN d.styles
  <2> DEFINE f == d.styles[k].f
             g == d.styles[k].format
             e == ApplyFormat(d, o, n, f)
             to == o + Max({n, 1})
  <2>1. f \in CharFormats /\ g \in ParaFormats
    BY <1>2, StylesAre
  <2>2. to \in Nat /\ o <= to
    <3> DEFINE S == {n, 1}
               top == IF n >= 1 THEN n ELSE 1
    <3>1. S \in SUBSET Int /\ S # {} /\ top \in Int /\ \A s \in S : s <= top
      OBVIOUS
    <3>2. 1 \in S
      OBVIOUS
    <3> HIDE DEF S, top
    <3>3. Max(S) \in S /\ \A s \in S : s <= Max(S)
      BY <3>1, MaxIs
    <3>4. Max(S) \in Int /\ 1 <= Max(S)
      BY <3>1, <3>2, <3>3
    <3> QED
      BY <3>4 DEF S
  <2>3. ApplyStyle(d, o, n, k) = SetParaFormats(e, o, to, g)
    BY <1>2 DEF ApplyStyle
  <2> HIDE DEF f, g, to
  <2>4. Edits(d, e)
    BY <2>1, ApplyFormatIs
  <2> HIDE DEF e
  <2>5. Whole(e)
    BY <2>4, GrowsWhole
  <2>6. Stays(e, SetParaFormats(e, o, to, g))
    BY <2>1, <2>2, <2>5, SetParaFormatsIs
  <2> QED
    BY <2>3, <2>4, <2>6, EditsOn DEF Stays
<1> QED
  BY <1>1, <1>2

\* Styles and the header, which no step of the history is about.
Marked(d, styles, header) ==
    [d EXCEPT !.modified = TRUE, !.styles = styles, !.header = header]

LEMMA MarkedIs ==
  ASSUME NEW d, Whole(d), NEW styles \in StyleList, NEW header \in {"none", "title"}
  PROVE  Edits(d, Marked(d, styles, header))
<1> DEFINE e == Marked(d, styles, header)
<1>1. d \in Documents
  BY WholeIs
<1>2. /\ e \in Documents /\ e.paras = d.paras /\ e.next = d.next /\ e.undo = d.undo /\ e.redo = d.redo
      /\ e.quiet = d.quiet /\ e.stray = d.stray /\ e.modified = TRUE
  BY <1>1 DEF Documents, Marked
<1> HIDE DEF e
<1>3. Text(e) = Text(d)
  BY <1>2, TextOfParas
<1>4. Whole(e)
  BY <1>2 DEF Whole
<1>5. Evolves(d, e)
  BY <1>2, EvolvesSame DEF Evolves
<1>6. Exact(d) => Exact(e)
  BY <1>2, <1>3 DEF Exact
<1> QED
  BY <1>2, <1>4, <1>5, <1>6 DEF Edits, e

LEMMA AddStyleIs ==
  ASSUME NEW d, Whole(d), NEW name \in StyleNames, NEW f \in CharFormats, NEW format \in ParaFormats
  PROVE  Edits(d, AddStyle(d, name, f, format))
<1> DEFINE T == [name : StyleNames, f : CharFormats, format : ParaFormats]
           old == d.styles
           has == {k \in DOMAIN old : old[k].name = name}
           s == [name |-> name, f |-> f, format |-> format]
           new == IF has = {} THEN Append(old, s) ELSE [old EXCEPT ![Min(has)] = s]
           h == d.header
<1>1. d \in Documents /\ old \in Seq(T) /\ h \in {"none", "title"} /\ s \in T
  BY WholeIs, DocumentsAre DEF StyleList
<1>2. AddStyle(d, name, f, format) = Marked(d, new, h)
  BY <1>1 DEF AddStyle, Marked, Documents
<1> HIDE DEF T, s
<1>3. new \in Seq(T)
  <2>1. CASE has = {}
    BY <1>1, <2>1
  <2>2. CASE has # {}
    <3>1. has \subseteq 1 .. Len(old)
      BY <1>1
    <3> HIDE DEF has
    <3>2. has \in SUBSET Nat
      BY <3>1
    <3>3. Min(has) \in 1 .. Len(old)
      BY <2>2, <3>1, <3>2, MinIs
    <3> DEFINE m == Min(has)
    <3> HIDE DEF m, old
    <3>4. [old EXCEPT ![m] = s] \in Seq(T)
      <4>1. old \in [1 .. Len(old) -> T] /\ Len(old) \in Nat
        BY <1>1
      <4>2. [old EXCEPT ![m] = s] \in [1 .. Len(old) -> T]
        BY <1>1, <4>1
      <4> QED
        BY <4>1, <4>2
    <3> QED
      BY <2>2, <3>4 DEF m
  <2> QED
    BY <2>1, <2>2
<1>4. new \in StyleList
  BY <1>3 DEF T, StyleList
<1> HIDE DEF new, h
<1> QED
  BY <1>1, <1>2, <1>4, MarkedIs

LEMMA RemoveStyleIs ==
  ASSUME NEW d, Whole(d), NEW k \in DOMAIN d.styles
  PROVE  Edits(d, RemoveStyle(d, k))
<1> DEFINE T == [name : StyleNames, f : CharFormats, format : ParaFormats]
           old == d.styles
           n == Len(old)
           a == SubSeq(old, 1, k - 1)
           b == SubSeq(old, k + 1, n)
           new == a \o b
           h == d.header
<1>1. d \in Documents /\ old \in Seq(T) /\ h \in {"none", "title"}
  BY WholeIs, DocumentsAre DEF StyleList
<1>2. RemoveStyle(d, k) = Marked(d, new, h)
  BY <1>1 DEF RemoveStyle, RemoveAt, Marked, Documents
<1>3. n \in Nat /\ k \in 1 .. n
  BY <1>1
<1> HIDE DEF T, old
<1>4. a \in Seq(T) /\ b \in Seq(T)
  BY <1>1, <1>3 DEF n
<1> HIDE DEF a, b
<1>5. new \in Seq(T)
  BY <1>4
<1>6. new \in StyleList
  BY <1>5 DEF T, StyleList
<1> HIDE DEF new, h
<1> QED
  BY <1>1, <1>2, <1>6, MarkedIs

LEMMA SetHeaderIs ==
  ASSUME NEW d, Whole(d), NEW text \in {"none", "title"}
  PROVE  Edits(d, SetHeaderText(d, text))
<1> DEFINE s == d.styles
<1>1. d \in Documents /\ s \in StyleList
  BY WholeIs, DocumentsAre
<1>2. SetHeaderText(d, text) = Marked(d, s, text)
  BY <1>1 DEF SetHeaderText, Marked, Documents
<1> HIDE DEF s
<1> QED
  BY <1>1, <1>2, MarkedIs

LEMMA FoundIs ==
  ASSUME NEW d, Whole(d), NEW needle \in Lines, NEW from \in Nat, NEW wrap
  PROVE  /\ FindNext(d, needle, from, wrap) \subseteq Nat
         /\ FindNext(d, needle, from, wrap) # {} => Min(FindNext(d, needle, from, wrap)) \in Nat
<1> DEFINE t == Text(d)
           Hits(lo) == {at \in lo .. Len(t) - Len(needle) : SubSeq(t, at + 1, at + Len(needle)) = needle}
<1>1. Len(t) \in Nat /\ Len(needle) \in Nat
  BY WholeIs DEF Lines
<1>2. ASSUME NEW lo \in Nat PROVE Hits(lo) \in SUBSET Nat
  BY <1>1
<1>3. FindNext(d, needle, from, wrap) =
        IF Hits(from) # {} THEN {Min(Hits(from))}
        ELSE IF wrap /\ Hits(0) # {} THEN {Min(Hits(0))} ELSE {}
  BY DEF FindNext
<1> HIDE DEF Hits
<1>4. FindNext(d, needle, from, wrap) \in SUBSET Nat
  <2>1. Hits(from) # {} => Min(Hits(from)) \in Nat
    BY <1>2, MinIs
  <2>2. Hits(0) # {} => Min(Hits(0)) \in Nat
    BY <1>2, MinIs
  <2> QED
    BY <1>3, <2>1, <2>2
<1>5. FindNext(d, needle, from, wrap) # {} =>
        Min(FindNext(d, needle, from, wrap)) \in FindNext(d, needle, from, wrap)
  BY <1>4, MinIs
<1> QED
  BY <1>4, <1>5

\* What is found gives way to its replacement.
LEMMA PutInPlaceIs ==
  ASSUME NEW d, Whole(d), NEW o \in Nat, NEW l \in Int, NEW g \in Lines, NEW f \in SUBSET CharFormats
  PROVE  Edits(d, Insert(RemoveText(d, o, l), o, g, f))
<1> DEFINE e == RemoveText(d, o, l)
<1>1. Edits(d, e)
  BY RemoveEdits
<1> HIDE DEF e
<1>2. Whole(e)
  BY <1>1, GrowsWhole
<1>3. Edits(e, Insert(e, o, g, f))
  BY <1>2, InsertIs
<1> QED
  BY <1>1, <1>3, EditsOn DEF e

LEMMA ReplaceNextIs ==
  ASSUME NEW d \in Documents, Whole(d), NEW at \in Nat, NEW find \in Lines, NEW replace \in Lines
  PROVE  LET r == ReplaceNext([d |-> d, at |-> at], find, replace)
         IN  /\ r \in [d : Documents, at : Nat] /\ Edits(d, r.d)
<1> DEFINE start == [d |-> d, at |-> at]
           found == FindNext(d, find, at, FALSE)
           hit == Min(found)
           l == Len(find)
           none == {}
           e == Insert(RemoveText(d, hit, l), hit, replace, none)
           to == hit + Len(replace)
           r == ReplaceNext(start, find, replace)
<1>1. r = IF found = {} THEN start ELSE [d |-> e, at |-> to]
  BY DEF ReplaceNext
<1>2. start \in [d : Documents, at : Nat] /\ start.d = d
  OBVIOUS
<1>3. Edits(d, d)
  BY EditsSame
<1>4. ASSUME found # {} PROVE Edits(d, e) /\ to \in Nat
  <2>1. hit \in Nat
    BY <1>4, FoundIs
  <2>2. l \in Int /\ Len(replace) \in Nat /\ none \in SUBSET CharFormats
    BY DEF Lines
  <2> HIDE DEF hit, l, none
  <2>3. Edits(d, e)
    BY <2>1, <2>2, PutInPlaceIs
  <2> QED
    BY <2>1, <2>2, <2>3
<1> HIDE DEF found, e, to
<1>5. r.d \in Documents /\ r.at \in Nat /\ r = [d |-> r.d, at |-> r.at] /\ Edits(d, r.d)
  BY <1>1, <1>3, <1>4, GrowsWhole
<1> QED
  BY <1>5

LEMMA ReplaceAllIs ==
  ASSUME NEW d, Whole(d), NEW find \in Lines, NEW replace \in Lines
  PROVE  Edits(d, ReplaceAllText(d, find, replace))
<1> DEFINE n == Length(d)
           x == [d |-> d, at |-> 0]
           Goes(w) == w = [k \in 0 .. n |-> IF k = 0 THEN x ELSE ReplaceNext(w[k - 1], find, replace)]
           after == CHOOSE w : Goes(w)
           D == {r \in [d : Documents, at : Nat] : Edits(d, r.d)}
           next == [k \in 1 .. n |-> [r \in D |-> ReplaceNext(r, find, replace)]]
<1>1. n \in Nat /\ d \in Documents
  BY WholeIs
<1>2. ReplaceAllText(d, find, replace) = IF find = <<>> \/ find = replace THEN d ELSE after[n].d
  BY Zenon DEF ReplaceAllText
<1>3. x \in D
  BY <1>1, EditsSame
<1>4. \A k \in 1 .. n : \A r \in D : next[k][r] = ReplaceNext(r, find, replace)
  OBVIOUS
<1>5. ASSUME NEW r \in D PROVE ReplaceNext(r, find, replace) \in D
  <2> DEFINE e == r.d
             a == r.at
             s == ReplaceNext([d |-> e, at |-> a], find, replace)
  <2>1. e \in Documents /\ a \in Nat /\ Edits(d, e) /\ r = [d |-> e, at |-> a]
    OBVIOUS
  <2>2. Whole(e)
    BY <2>1, GrowsWhole
  <2> HIDE DEF e, a
  <2>3. s \in [d : Documents, at : Nat] /\ Edits(e, s.d)
    BY <2>1, <2>2, ReplaceNextIs
  <2>4. s = ReplaceNext(r, find, replace)
    BY <2>1
  <2> HIDE DEF s
  <2>5. Edits(d, s.d)
    BY <2>1, <2>3, EditsOn
  <2> QED
    BY <2>3, <2>4, <2>5
<1> HIDE DEF next, D, x, n
<1>6. \A k \in 1 .. n : \A r \in D : next[k][r] \in D
  BY <1>4, <1>5
<1>7. PICK w : Walks(w, n, x, next) /\ \A k \in 0 .. n : w[k] \in D
  BY <1>1, <1>3, <1>6, WalkInside
<1>8. Goes(w)
  <2>1. ASSUME NEW k \in 0 .. n, k # 0
        PROVE  next[k][w[k - 1]] = ReplaceNext(w[k - 1], find, replace)
    <3>1. k \in 1 .. n /\ k - 1 \in 0 .. n
      BY <1>1, <2>1
    <3> QED
      BY <1>4, <1>7, <3>1
  <2> QED
    BY <1>7, <2>1 DEF Walks
<1>9. Goes(after)
  BY <1>8
<1> HIDE DEF after
<1>10. after[0] = x /\ \A k \in 1 .. n : after[k] = ReplaceNext(after[k - 1], find, replace)
  <2>1. 0 \in 0 .. n /\ \A k \in 1 .. n : k \in 0 .. n /\ k # 0
    BY <1>1
  <2> QED
    BY <1>9, <2>1, Zenon
<1>11. \A k \in 1 .. n : after[k - 1] \in D => after[k] \in D
  BY <1>5, <1>10
<1>12. \A k \in 0 .. n : after[k] \in D
  BY <1>1, <1>3, <1>10, <1>11, WalkStaysInside
<1>13. after[n] \in D
  BY <1>1, <1>12
<1>14. Edits(d, after[n].d)
  BY <1>13 DEF D
<1> QED
  BY <1>2, <1>14, EditsSame

(* What the clipboard holds.                                               *)
CopyRuns == [at : Int, f : CharFormats, len : Int]
Clips == [text : Lines, runs : SUBSET CopyRuns]

LEMMA RestyledByIs ==
  ASSUME NEW d, Whole(d), NEW at \in Nat, NEW runs \in SUBSET CopyRuns, NEW m \in Nat,
         \A r \in runs : r.at = m
  PROVE  Edits(d, RestyledBy(d, at, runs))
<1> DEFINE r == CHOOSE x \in runs : TRUE
           o == at + r.at
           l == r.len
           f == r.f
           e == ApplyFormat(d, o, l, f)
<1>1. RestyledBy(d, at, runs) = IF runs = {} \/ at + r.at + r.len > Length(d) THEN d ELSE e
  BY DEF RestyledBy
<1>2. CASE runs = {}
  BY <1>1, <1>2, EditsSame
<1>3. CASE runs # {}
  <2>1. r \in runs
    BY <1>3
  <2>2. r \in CopyRuns /\ r.at = m
    BY <2>1
  <2> HIDE DEF r
  <2>3. o \in Nat /\ l \in Int /\ f \in CharFormats
    BY <2>2 DEF CopyRuns
  <2> HIDE DEF o, l, f
  <2>4. Edits(d, e)
    BY <2>3, ApplyFormatIs
  <2> QED
    BY <1>1, <2>4, EditsSame
<1> QED
  BY <1>2, <1>3

LEMMA RestyledIs ==
  ASSUME NEW d, Whole(d), NEW at \in Nat, NEW c \in Clips
  PROVE  Edits(d, Restyled(d, at, c))
<1> DEFINE n == Len(c.text)
           Own(k) == {r \in c.runs : r.at = k - 1}
           Goes(w) == w = [k \in 0 .. n |-> IF k = 0 THEN d ELSE RestyledBy(w[k - 1], at, Own(k))]
           after == CHOOSE w : Goes(w)
           D == {e \in Documents : Edits(d, e)}
           next == [k \in 1 .. n |-> [e \in D |-> RestyledBy(e, at, Own(k))]]
<1>1. n \in Nat /\ c.runs \in SUBSET CopyRuns
  BY DEF Clips, Lines
<1>2. Restyled(d, at, c) = after[n]
  BY Zenon DEF Restyled
<1>3. d \in D
  BY EditsSame DEF Whole
<1>4. \A k \in 1 .. n : \A e \in D : next[k][e] = RestyledBy(e, at, Own(k))
  OBVIOUS
<1>5. ASSUME NEW k \in 1 .. n, NEW e \in D PROVE RestyledBy(e, at, Own(k)) \in D
  <2> DEFINE m == k - 1
             own == Own(k)
  <2>1. m \in Nat /\ own \in SUBSET CopyRuns /\ \A r \in own : r.at = m
    BY <1>1
  <2>2. Edits(d, e) /\ Whole(e)
    BY GrowsWhole
  <2> HIDE DEF m, own
  <2>3. Edits(e, RestyledBy(e, at, own))
    BY <2>1, <2>2, RestyledByIs
  <2>4. Edits(d, RestyledBy(e, at, own))
    BY <2>2, <2>3, EditsOn
  <2> QED
    BY <2>4, GrowsWhole DEF own
<1> HIDE DEF next, D, n, Own
<1>6. \A k \in 1 .. n : \A e \in D : next[k][e] \in D
  BY <1>4, <1>5
<1>7. PICK w : Walks(w, n, d, next) /\ \A k \in 0 .. n : w[k] \in D
  BY <1>1, <1>3, <1>6, WalkInside
<1>8. Goes(w)
  <2>1. ASSUME NEW k \in 0 .. n, k # 0
        PROVE  next[k][w[k - 1]] = RestyledBy(w[k - 1], at, Own(k))
    <3>1. k \in 1 .. n /\ k - 1 \in 0 .. n
      BY <1>1, <2>1
    <3> QED
      BY <1>4, <1>7, <3>1
  <2> QED
    BY <1>7, <2>1 DEF Walks
<1>9. Goes(after)
  BY <1>8
<1> HIDE DEF after
<1>10. after[0] = d /\ \A k \in 1 .. n : after[k] = RestyledBy(after[k - 1], at, Own(k))
  <2>1. 0 \in 0 .. n /\ \A k \in 1 .. n : k \in 0 .. n /\ k # 0
    BY <1>1
  <2> QED
    BY <1>9, <2>1, Zenon
<1>11. \A k \in 1 .. n : after[k - 1] \in D => after[k] \in D
  BY <1>5, <1>10
<1>12. \A k \in 0 .. n : after[k] \in D
  BY <1>1, <1>3, <1>10, <1>11, WalkStaysInside
<1>13. after[n] \in D
  BY <1>1, <1>12
<1> QED
  BY <1>2, <1>13 DEF D

LEMMA CapturedFinite ==
  ASSUME NEW d, Whole(d), NEW o \in Int, NEW n
  PROVE  IsFiniteSet(CaptureRuns(d, o, n))
<1> DEFINE P == DOMAIN d.paras
           from(p) == ParaFormatsFrom(d.paras[p].text, ParaStart(d, p) - o, n)
           f == [p \in P |-> from(p)]
           All == {f[p] : p \in P}
<1>1. P = 1 .. Len(d.paras) /\ Len(d.paras) \in Nat
  BY WholeIs, ParasAre
<1>2. IsFiniteSet(P)
  BY <1>1, FS_Interval
<1>3. ASSUME NEW p \in P PROVE IsFiniteSet(from(p))
  <2> DEFINE t == d.paras[p].text
             first == ParaStart(d, p) - o
             S == {i \in 0 .. Len(t) - 1 : first + i \in 0 .. n - 1}
             g == [k \in S |-> [at |-> first + k, f |-> t[k + 1].f]]
  <2>1. Len(t) \in Nat
    BY <1>1, WholeIs, ParasAre DEF Size
  <2>2. IsFiniteSet(0 .. Len(t) - 1)
    BY <2>1, FS_Interval
  <2>3. IsFiniteSet(S)
    BY <2>2, FS_Subset
  <2>4. from(p) = {g[k] : k \in S}
    BY DEF ParaFormatsFrom
  <2> HIDE DEF S, g
  <2> QED
    BY <2>3, <2>4, ImageFinite
<1> HIDE DEF P, from
<1>4. IsFiniteSet(All)
  BY <1>2, ImageFinite
<1>5. \A S \in All : IsFiniteSet(S)
  BY <1>3
<1>6. CaptureRuns(d, o, n) = UNION All
  BY DEF CaptureRuns, P, from
<1> HIDE DEF All
<1> QED
  BY <1>4, <1>5, <1>6, FS_UNION

\* A run of the text that is copied has an end.
LEMMA RunEnds ==
  ASSUME NEW chars \in SUBSET Runs, IsFiniteSet(chars), NEW r \in chars
  PROVE  Min({n \in 1 .. Cardinality(chars) : ~\E s \in chars : s.at = r.at + n /\ s.f = r.f}) \in Nat
<1> DEFINE N == Cardinality(chars)
           S == {n \in 1 .. N : ~\E s \in chars : s.at = r.at + n /\ s.f = r.f}
           g == [n \in 0 .. N |-> CHOOSE s \in chars : s.at = r.at + n]
<1>1. N \in Nat
  BY FS_CardinalityType
<1>2. r.at \in Int /\ \A s \in chars : s.at \in Int
  BY DEF Runs
<1>3. S # {}
  <2> SUFFICES ASSUME S = {} PROVE FALSE
    OBVIOUS
  <2>1. \A n \in 0 .. N : \E s \in chars : s.at = r.at + n
    <3> SUFFICES ASSUME NEW n \in 0 .. N PROVE \E s \in chars : s.at = r.at + n
      OBVIOUS
    <3>1. CASE n = 0
      BY <1>2, <3>1
    <3>2. CASE n # 0
      <4>1. n \in 1 .. N /\ n \notin S
        BY <1>1, <3>2
      <4> HIDE DEF N
      <4> QED
        BY <4>1
    <3> QED
      BY <3>1, <3>2
  <2>2. g \in [0 .. N -> chars] /\ \A n \in 0 .. N : g[n].at = r.at + n
    BY <2>1
  <2>3. IsFiniteSet(0 .. N) /\ Cardinality(0 .. N) = N + 1
    <3>1. 0 \in Int /\ N \in Int
      BY <1>1
    <3> HIDE DEF N
    <3>2. IsFiniteSet(0 .. N) /\ Cardinality(0 .. N) = IF 0 > N THEN 0 ELSE N - 0 + 1
      BY <3>1, FS_Interval
    <3> QED
      BY <1>1, <3>2
  <2> HIDE DEF g
  <2>4. Cardinality(chars) < Cardinality(0 .. N)
    <3> HIDE DEF N
    <3>1. N < N + 1
      BY <1>1
    <3> QED
      BY <2>3, <3>1 DEF N
  <2> DEFINE Z == 0 .. N
  <2>5. IsFiniteSet(Z) /\ Cardinality(chars) < Cardinality(Z) /\ g \in [Z -> chars]
    BY <2>2, <2>3, <2>4
  <2> HIDE DEF Z
  <2>6. PICK x \in Z, y \in Z : x # y /\ g[x] = g[y]
    BY <2>5, FS_PigeonHole
  <2>7. x \in 0 .. N /\ y \in 0 .. N
    BY <2>6 DEF Z
  <2>8. r.at + x = r.at + y
    BY <2>2, <2>6, <2>7
  <2> QED
    BY <1>1, <1>2, <2>6, <2>7, <2>8
<1>4. S \in SUBSET Nat
  BY <1>1
<1> HIDE DEF S
<1>5. Min(S) \in Nat
  BY <1>3, <1>4, MinIs
<1> QED
  BY <1>5 DEF S

LEMMA CopiedRunsAre ==
  ASSUME NEW chars \in SUBSET Runs, IsFiniteSet(chars)
  PROVE  CopiedRuns(chars) \in SUBSET CopyRuns
<1> SUFFICES ASSUME NEW x \in CopiedRuns(chars) PROVE x \in CopyRuns
  OBVIOUS
<1>1. PICK r \in {y \in chars : ~Joint(chars, y)} :
        x = [at |-> r.at, f |-> r.f,
             len |-> Min({n \in 1 .. Cardinality(chars) :
                            ~\E s \in chars : s.at = r.at + n /\ s.f = r.f})]
  BY DEF CopiedRuns
<1>2. r \in chars /\ r.at \in Int /\ r.f \in CharFormats
  BY DEF Runs
<1> DEFINE m == Min({n \in 1 .. Cardinality(chars) : ~\E s \in chars : s.at = r.at + n /\ s.f = r.f})
<1>3. m \in Nat
  BY <1>2, RunEnds
<1> HIDE DEF m
<1>4. x = [at |-> r.at, f |-> r.f, len |-> m]
  BY <1>1 DEF m
<1> QED
  BY <1>2, <1>3, <1>4 DEF CopyRuns

Fields == [text : Texts, format : ParaFormats, images : Places1]
Shown(p) == [text |-> p.text, format |-> p.format, images |-> p.images]

\* Readable() in the terms of what a document holds.
LEMMA ReadableIs ==
  ASSUME NEW file
  PROVE  Readable(file) <=>
           /\ file = [styles |-> file.styles, header |-> file.header, paras |-> file.paras]
           /\ file.styles \in StyleList /\ file.header \in {"none", "title"} /\ file.paras # <<>>
           /\ file.paras \in Seq(Fields)
BY Zenon DEF Readable, StyleList, Fields, Texts, Places1

LEMMA SavedIs ==
  ASSUME NEW d, Whole(d)
  PROVE  Readable(Saved(d))
<1> DEFINE s == Saved(d)
           ps == [p \in DOMAIN d.paras |-> Shown(d.paras[p])]
           n == Len(d.paras)
<1>1. s = [styles |-> d.styles, header |-> d.header, paras |-> ps]
  BY DEF Saved, Shown
<1>2. n \in Nat \ {0} /\ DOMAIN d.paras = 1 .. n /\ \A p \in 1 .. n : d.paras[p] \in Paras
  BY WholeIs, ParasAre
<1>3. \A p \in 1 .. n : Shown(d.paras[p]) \in Fields
  BY <1>2 DEF Shown, Fields, Paras
<1>4. ps = [p \in 1 .. n |-> Shown(d.paras[p])]
  BY <1>2
<1> HIDE DEF n, ps
<1>5. ps \in Seq(Fields) /\ Len(ps) = n
  BY <1>2, <1>3, <1>4
<1>6. ps # <<>>
  BY <1>2, <1>5
<1>7. d.styles \in StyleList /\ d.header \in {"none", "title"}
  BY WholeIs, DocumentsAre
<1> HIDE DEF s
<1>8. s.styles = d.styles /\ s.header = d.header /\ s.paras = ps
  BY <1>1
<1> QED
  BY <1>1, <1>5, <1>6, <1>7, <1>8, ReadableIs DEF s

LEMMA SavedAlike ==
  ASSUME NEW d, NEW e, d.paras = e.paras, d.styles = e.styles, d.header = e.header
  PROVE  Saved(d) = Saved(e)
BY DEF Saved

(* A document fresh from a file, or from none.                             *)
Fresh(d, e) ==
    /\ Whole(e) /\ Evolves(d, e) /\ ~e.quiet /\ ~e.stray /\ ~e.modified
    /\ e.undo = <<>> /\ e.redo = <<>>

LEMMA FreshIs ==
  ASSUME NEW d, NEW e, Fresh(d, e)
  PROVE  Whole(e) /\ Evolves(d, e) /\ ~e.quiet /\ Exact(e) /\ ~e.modified
BY DEF Fresh, Exact, UndoesTo, RedoesTo

LEMMA LoadIs ==
  ASSUME NEW d, Whole(d), NEW file, Readable(file)
  PROVE  Fresh(d, Load(d, file)) /\ Saved(Load(d, file)) = file
<1> DEFINE n == Len(file.paras)
           new(p) == [id |-> d.next + p - 1, rev |-> 0, text |-> file.paras[p].text,
                      format |-> file.paras[p].format, images |-> file.paras[p].images]
           ps == [p \in 1 .. n |-> new(p)]
           next == d.next + Max({n, 1})
           e == Load(d, file)
<1>1. /\ file = [styles |-> file.styles, header |-> file.header, paras |-> file.paras]
      /\ file.styles \in StyleList /\ file.header \in {"none", "title"} /\ file.paras # <<>>
      /\ file.paras \in Seq(Fields)
  BY ReadableIs
<1>2. n \in Nat /\ n # 0 /\ DOMAIN file.paras = 1 .. n /\ \A p \in 1 .. n : file.paras[p] \in Fields
  BY <1>1
<1>3. d.next \in Nat
  BY WholeIs
<1>4. Max({n, 1}) = n
  <2> DEFINE S == {n, 1}
  <2>1. S \in SUBSET Int /\ S # {} /\ n \in Int /\ \A s \in S : s <= n
    BY <1>2
  <2>2. n \in S
    OBVIOUS
  <2> HIDE DEF S, n
  <2>3. Max(S) \in S /\ \A s \in S : s <= Max(S)
    BY <2>1, MaxIs
  <2>4. Max(S) \in Int /\ Max(S) <= n /\ n <= Max(S)
    BY <2>1, <2>2, <2>3
  <2>5. Max(S) = n
    BY <2>1, <2>4
  <2> QED
    BY <2>5 DEF S
<1>5. \A p \in 1 .. n : new(p) \in Paras
  BY <1>2, <1>3 DEF Paras, Fields
<1>6. /\ e.paras = ps /\ e.next = next /\ e.styles = file.styles /\ e.header = file.header
      /\ e.undo = <<>> /\ e.redo = <<>> /\ e.modified = FALSE /\ e.quiet = FALSE /\ e.stray = FALSE
      /\ e = [paras |-> e.paras, next |-> e.next, undo |-> e.undo, redo |-> e.redo,
              modified |-> e.modified, styles |-> e.styles, header |-> e.header,
              quiet |-> e.quiet, stray |-> e.stray]
  <2>1. e = [paras |-> ps, next |-> next, undo |-> <<>>, redo |-> <<>>, modified |-> FALSE,
             styles |-> file.styles, header |-> file.header, quiet |-> FALSE, stray |-> FALSE]
    <3> DEFINE qs == IF n = 0 THEN <<Paragraph(d.next)>> ELSE ps
               h == file.header
               st == file.styles
    <3>1. e = [NewDocument EXCEPT !.paras = qs, !.next = next, !.styles = st, !.header = h]
      BY Zenon DEF Load
    <3>2. qs = ps
      BY <1>2
    <3> HIDE DEF qs, ps, next, h, st, e
    <3>3. e = [paras |-> qs, next |-> next, undo |-> <<>>, redo |-> <<>>, modified |-> FALSE,
               styles |-> st, header |-> h, quiet |-> FALSE, stray |-> FALSE]
      BY <3>1 DEF NewDocument
    <3> QED
      BY <3>2, <3>3 DEF h, st
  <2> HIDE DEF e, ps, next
  <2> QED
    BY <2>1
<1>7. next \in Nat /\ next = d.next + n
  BY <1>2, <1>3, <1>4
<1>8. \A p \in 1 .. n : ps[p] = new(p) /\ ps[p].id = d.next + p - 1
  OBVIOUS
<1>9. Shown(new(0)) = Shown(new(0)) /\ \A p \in 1 .. n : Shown(new(p)) = file.paras[p]
  BY <1>2 DEF Shown, Fields
<1>10. DOMAIN ps = 1 .. n
  OBVIOUS
<1>11. ps \in Seq(Paras) /\ Len(ps) = n
  BY <1>2, <1>5
<1> HIDE DEF ps, new, next, n, e
<1>12. e \in Documents
  <2>1. <<>> \in Seq(Steps)
    BY EmptySeq
  <2> QED
    BY <1>1, <1>6, <1>7, <1>11, <2>1 DEF Documents
<1>13. Whole(e)
  <2>1. \A p \in 1 .. n : e.paras[p].id = d.next + p - 1
    BY <1>6, <1>8
  <2>2. \A p \in 1 .. n : e.paras[p].id < e.next
    BY <1>2, <1>3, <1>6, <1>7, <2>1
  <2>3. \A p, q \in 1 .. n : e.paras[p].id = e.paras[q].id => p = q
    BY <1>2, <1>3, <2>1
  <2>4. e.paras # <<>>
    BY <1>2, <1>6, <1>11
  <2> QED
    BY <1>6, <1>10, <1>12, <2>2, <2>3, <2>4 DEF Whole
<1>14. Evolves(d, e)
  <2>1. \A q \in DOMAIN e.paras : d.next <= e.paras[q].id
    BY <1>2, <1>3, <1>6, <1>8, <1>10
  <2>2. d.next <= e.next
    BY <1>2, <1>3, <1>6, <1>7
  <2> QED
    BY <2>1, <2>2 DEF Evolves
<1>15. Saved(e) = file
  <2> DEFINE shown == [p \in DOMAIN e.paras |-> Shown(e.paras[p])]
  <2>1. Saved(e) = [styles |-> e.styles, header |-> e.header, paras |-> shown]
    BY DEF Saved, Shown
  <2>2. shown = file.paras
    <3>1. DOMAIN e.paras = 1 .. n /\ \A p \in 1 .. n : Shown(e.paras[p]) = file.paras[p]
      BY <1>6, <1>8, <1>9, <1>10
    <3>2. file.paras = [p \in 1 .. n |-> file.paras[p]]
      BY <1>1, <1>2
    <3> QED
      BY <3>1, <3>2
  <2> HIDE DEF shown
  <2> QED
    BY <1>1, <1>6, <2>1, <2>2
<1> QED
  BY <1>6, <1>13, <1>14, <1>15 DEF Fresh, e

LEMMA NewIs == Whole(NewDocument) /\ Fresh(NewDocument, NewDocument)
<1> DEFINE d == NewDocument
<1>1. Paragraph(1) \in Paras /\ Paragraph(1).id = 1
  <2>1. {} \in Places1
    BY FS_EmptySet DEF Places1
  <2>2. Left \in ParaFormats
    BY WriterAssumption
  <2> QED
    BY <2>1, <2>2 DEF Paragraph, Paras, Texts
<1>2. d = [paras |-> <<Paragraph(1)>>, next |-> 2, undo |-> <<>>, redo |-> <<>>,
           modified |-> FALSE, styles |-> <<>>, header |-> "none", quiet |-> FALSE, stray |-> FALSE]
  BY DEF NewDocument
<1>3. d \in Documents
  BY <1>1, <1>2 DEF Documents, StyleList
<1>4. Whole(d)
  BY <1>1, <1>2, <1>3 DEF Whole
<1> QED
  BY <1>2, <1>4, EvolvesSame DEF Fresh

-----------------------------------------------------------------------------
(* The layout of a document: each paragraph's lines are those of its text  *)
(* and format, whichever relayout measured them.                           *)
OfTable(x) == \E k \in DOMAIN x.text : x.text[k].c = Cell
RowsOf(x, width) ==
    IF OfTable(x) THEN <<[at |-> 0, len |-> Len(x.text)]>>
    ELSE Wrapped(x.text, Column(x.format, width))
Ones(rows) == [k \in DOMAIN rows |-> 1]
Laid(m, x, width) ==
    /\ m.id = x.id /\ m.rev = x.rev /\ m.width = width /\ m.text = x.text /\ m.format = x.format
    /\ m.images = x.images /\ m.rows = RowsOf(x, width)
    /\ ~OfTable(x) => m.tall = Ones(RowsOf(x, width))
    /\ m = [id |-> m.id, rev |-> m.rev, width |-> m.width, text |-> m.text, format |-> m.format,
            images |-> m.images, rows |-> m.rows, number |-> m.number, columns |-> m.columns,
            tall |-> m.tall]
Fits(lay, d) ==
    /\ lay.paras = [p \in DOMAIN d.paras |-> lay.paras[p]]
    /\ \A p \in DOMAIN d.paras : Laid(lay.paras[p], d.paras[p], lay.width)
    /\ lay.starts = Starts(d, lay.paras) /\ lay.pages = Pages(lay.paras)
    /\ lay = [paras |-> lay.paras, width |-> lay.width, starts |-> lay.starts, pages |-> lay.pages]

LEMMA MeasuredIs ==
  ASSUME NEW d, NEW p \in DOMAIN d.paras, NEW w
  PROVE  Laid(Measured(d, p, w), d.paras[p], w)
<1> DEFINE m == Measured(d, p, w)
           number == ListNumber(d, p)
           columns == IF IsRow(d, p) THEN ColumnWidths(d, p, w) ELSE <<>>
           rows == Rows(d, p, w)
           height == RowHeight(CellTexts(d.paras[p].text), columns)
           tall == [k \in DOMAIN rows |-> IF IsRow(d, p) THEN height ELSE 1]
           x == d.paras[p]
<1>1. rows = RowsOf(x, w)
  BY DEF Rows, RowsOf, OfTable, IsRow
<1>2. m = [id |-> x.id, rev |-> x.rev, width |-> w, text |-> x.text, format |-> x.format,
           images |-> x.images, rows |-> rows, number |-> number, columns |-> columns, tall |-> tall]
  BY Zenon DEF Measured
<1>3. OfTable(x) <=> IsRow(d, p)
  BY DEF OfTable, IsRow
<1> HIDE DEF height
<1>4. ~OfTable(x) => tall = Ones(rows)
  BY <1>3 DEF Ones
<1> HIDE DEF m, number, columns, rows, tall, x
<1> QED
  BY <1>1, <1>2, <1>4 DEF Laid, m, x

\* What is kept is what would be measured.
LEMMA KeptIs ==
  ASSUME NEW d, Whole(d), NEW e, Whole(e), Evolves(d, e), NEW lay, Fits(lay, d),
         NEW p \in DOMAIN e.paras, Kept(lay.paras, e, p) # {}
  PROVE  Laid(lay.paras[Max(Kept(lay.paras, e, p))], e.paras[p], lay.width)
<1> DEFINE S == Kept(lay.paras, e, p)
           k == Max(S)
           n == Len(d.paras)
<1>1. DOMAIN d.paras = 1 .. n /\ n \in Nat
  BY WholeIs, ParasAre
<1>2. DOMAIN lay.paras = 1 .. n
  BY <1>1 DEF Fits
<1>3. S \in SUBSET Int /\ \A s \in S : s <= n
  BY <1>1, <1>2 DEF Kept
<1>4. k \in S
  <2>1. S # {}
    OBVIOUS
  <2> HIDE DEF S, n
  <2>2. Max(S) \in S
    <3>1. n \in Int /\ S \in SUBSET Int /\ \A s \in S : s <= n
      BY <1>1, <1>3
    <3> QED
      BY <2>1, <3>1, MaxIs
  <2> QED
    BY <2>2
<1> HIDE DEF S, n
<1> HIDE DEF k
<1>5. k \in DOMAIN d.paras /\ lay.paras[k].id = e.paras[p].id /\ lay.paras[k].rev = e.paras[p].rev
  BY <1>1, <1>2, <1>4 DEF S, Kept
<1>6. Laid(lay.paras[k], d.paras[k], lay.width)
  BY <1>5 DEF Fits
<1>7. d.paras[k].id = e.paras[p].id /\ d.paras[k].rev = e.paras[p].rev
  BY <1>5, <1>6 DEF Laid
<1>8. d.paras[k].id < d.next /\ d.paras[k].id \in Nat /\ d.next \in Nat /\ d.paras[k].rev \in Nat
  <2>1. d.paras[k] \in Paras
    BY <1>1, <1>5, WholeIs, ParasAre DEF n
  <2> QED
    BY <1>5, <2>1, WholeIs DEF Whole, Paras
<1>9. ~(d.next <= e.paras[p].id)
  BY <1>7, <1>8
<1>10. PICK q \in DOMAIN d.paras : /\ d.paras[q].id = e.paras[p].id
                                   /\ d.paras[q] = e.paras[p] \/ d.paras[q].rev < e.paras[p].rev
  BY <1>9 DEF Evolves
<1>11. q = k
  BY <1>5, <1>7, <1>10 DEF Whole
<1>12. d.paras[k] = e.paras[p]
  BY <1>7, <1>8, <1>10, <1>11
<1> QED
  BY <1>6, <1>12 DEF k, S

LEMMA LayoutFits ==
  ASSUME NEW d, NEW old, NEW w, NEW ps, ps = [p \in DOMAIN d.paras |-> ps[p]],
         LayoutParas(old, d, w) = ps, \A p \in DOMAIN d.paras : Laid(ps[p], d.paras[p], w)
  PROVE  Fits(Layout(old, d, w), d) /\ Layout(old, d, w).width = w
<1> DEFINE lay == Layout(old, d, w)
           starts == Starts(d, ps)
           pages == Pages(ps)
<1>1. lay = [paras |-> ps, width |-> w, starts |-> starts, pages |-> pages]
  BY Zenon DEF Layout
<1> HIDE DEF lay, starts, pages
<1>2. lay.paras = ps /\ lay.width = w /\ lay.starts = starts /\ lay.pages = pages
  BY <1>1
<1> QED
  BY <1>1, <1>2 DEF Fits, starts, pages, lay

LEMMA LayoutCold ==
  ASSUME NEW d, NEW old, NEW w, old.width # w
  PROVE  Fits(Layout(old, d, w), d) /\ Layout(old, d, w).width = w
<1> DEFINE ps == [p \in DOMAIN d.paras |-> Measured(d, p, w)]
<1>1. LayoutParas(old, d, w) = ps
  BY Zenon DEF LayoutParas
<1>2. \A p \in DOMAIN d.paras : Laid(ps[p], d.paras[p], w)
  BY MeasuredIs
<1>3. ps = [p \in DOMAIN d.paras |-> ps[p]]
  OBVIOUS
<1> HIDE DEF ps
<1> QED
  BY <1>1, <1>2, <1>3, LayoutFits

LEMMA LayoutIs ==
  ASSUME NEW d, Whole(d), NEW e, Whole(e), Evolves(d, e), NEW lay, Fits(lay, d)
  PROVE  Fits(Layout(lay, e, lay.width), e) /\ Layout(lay, e, lay.width).width = lay.width
<1> DEFINE w == lay.width
           new(p) == IF Kept(lay.paras, e, p) = {} THEN Measured(e, p, w)
                     ELSE lay.paras[Max(Kept(lay.paras, e, p))]
           ps == [p \in DOMAIN e.paras |-> new(p)]
<1>1. LayoutParas(lay, e, w) = ps
  BY Zenon DEF LayoutParas
<1>2. \A p \in DOMAIN e.paras : Laid(new(p), e.paras[p], w)
  BY MeasuredIs, KeptIs
<1> HIDE DEF new, w
<1>3. \A p \in DOMAIN e.paras : Laid(ps[p], e.paras[p], w)
  BY <1>2
<1>4. ps = [p \in DOMAIN e.paras |-> ps[p]]
  OBVIOUS
<1> HIDE DEF ps
<1> QED
  BY <1>1, <1>3, <1>4, LayoutFits DEF w

\* A layout is one of the paragraphs only.
LEMMA FitsParas ==
  ASSUME NEW d, NEW e, d.paras = e.paras, NEW lay, Fits(lay, d)
  PROVE  Fits(lay, e)
<1>1. \A p : ParaStart(d, p) = ParaStart(e, p)
  BY TextOfParas
<1> DEFINE ps == lay.paras
           row(f, p) == [k \in DOMAIN ps[p].rows |-> ParaStart(f, p) + ps[p].rows[k].at]
           rows(f) == [p \in DOMAIN ps |-> row(f, p)]
<1>2. \A p : row(d, p) = row(e, p)
  BY <1>1
<1> HIDE DEF row
<1>3. rows(d) = rows(e)
  BY <1>2
<1>4. Starts(d, ps) = FlattenSeq(rows(d)) /\ Starts(e, ps) = FlattenSeq(rows(e))
  BY DEF Starts, row
<1>5. Starts(d, ps) = Starts(e, ps)
  BY <1>3, <1>4
<1> QED
  BY <1>5 DEF Fits

Bared(row, m) == [m EXCEPT !.number = 0, !.columns = <<>>, !.tall = IF row THEN <<>> ELSE @]

LEMMA OwnSame ==
  ASSUME NEW a, NEW b, NEW id, NEW rev, NEW w, NEW text, NEW format, NEW images, NEW rows,
         NEW m, NEW n, NEW c, NEW e, NEW s, NEW t, NEW row \in BOOLEAN, ~row => s = t,
         a = [id |-> id, rev |-> rev, width |-> w, text |-> text, format |-> format,
              images |-> images, rows |-> rows, number |-> m, columns |-> c, tall |-> s],
         b = [id |-> id, rev |-> rev, width |-> w, text |-> text, format |-> format,
              images |-> images, rows |-> rows, number |-> n, columns |-> e, tall |-> t]
  PROVE  Bared(row, a) = Bared(row, b)
<1> DEFINE Bare(i, j, k) == [id |-> id, rev |-> rev, width |-> w, text |-> text, format |-> format,
                             images |-> images, rows |-> rows, number |-> i, columns |-> j, tall |-> k]
           shown(k) == IF row THEN <<>> ELSE k
<1>1. /\ Bared(row, Bare(m, c, s)) = Bare(0, <<>>, shown(s))
      /\ Bared(row, Bare(n, e, t)) = Bare(0, <<>>, shown(t))
  <2>1. ASSUME NEW i, NEW j, NEW k, NEW x, x = Bared(row, Bare(i, j, k))
        PROVE  x = Bare(0, <<>>, shown(k))
    BY <2>1 DEF Bared
  <2> HIDE DEF Bare, shown
  <2> QED
    BY <2>1
<1>2. a = Bare(m, c, s) /\ b = Bare(n, e, t)
  OBVIOUS
<1>3. shown(s) = shown(t)
  OBVIOUS
<1> HIDE DEF Bare, shown
<1>4. Bared(row, a) = Bared(row, Bare(m, c, s)) /\ Bared(row, b) = Bared(row, Bare(n, e, t))
  BY <1>2
<1> QED
  BY <1>1, <1>3, <1>4

Current(lay, d) ==
    LET cold == LayoutFull(d, lay.width)
    IN  /\ Len(lay.paras) = Len(cold)
        /\ \A p \in DOMAIN cold : Bared(IsRow(d, p), lay.paras[p]) = Bared(IsRow(d, p), cold[p])
        /\ lay.starts = Starts(d, cold)
        /\ (\A p \in DOMAIN cold : ~IsRow(d, p)) => lay.pages = Pages(cold)

LEMMA FitsCurrent ==
  ASSUME NEW d, Whole(d), NEW lay, Fits(lay, d)
  PROVE  Current(lay, d)
<1> DEFINE n == Len(d.paras)
           w == lay.width
           ps == lay.paras
           cold == LayoutFull(d, w)
<1>1. n \in Nat /\ DOMAIN d.paras = 1 .. n
  BY WholeIs, ParasAre
<1>2. cold = [p \in 1 .. n |-> Measured(d, p, w)]
  BY <1>1 DEF LayoutFull
<1>3. ps = [p \in 1 .. n |-> ps[p]] /\ \A p \in 1 .. n : Laid(ps[p], d.paras[p], w)
  BY <1>1 DEF Fits
<1>4. \A p \in 1 .. n : Laid(cold[p], d.paras[p], w)
  BY <1>1, <1>2, MeasuredIs
<1>5. DOMAIN cold = 1 .. n /\ DOMAIN ps = 1 .. n /\ cold = [p \in 1 .. n |-> cold[p]]
  BY <1>2, <1>3
<1>6. lay.starts = Starts(d, ps) /\ lay.pages = Pages(ps)
  BY DEF Fits
<1> HIDE DEF n, w, ps, cold
<1>7. Len(ps) = n /\ Len(cold) = n
  <2> DEFINE A == {ps[p] : p \in 1 .. n}
             B == {cold[p] : p \in 1 .. n}
  <2>1. ps \in [1 .. n -> A] /\ cold \in [1 .. n -> B]
    BY <1>3, <1>5
  <2> HIDE DEF A, B
  <2>2. ps \in Seq(A) /\ cold \in Seq(B)
    BY <1>1, <2>1
  <2> QED
    BY <1>1, <1>5, <2>2
<1>8. \A p \in 1 .. n : /\ Bared(IsRow(d, p), ps[p]) = Bared(IsRow(d, p), cold[p])
                        /\ ps[p].rows = cold[p].rows
                        /\ ~IsRow(d, p) => ps[p].tall = cold[p].tall
  <2> SUFFICES ASSUME NEW p \in 1 .. n
               PROVE  /\ Bared(IsRow(d, p), ps[p]) = Bared(IsRow(d, p), cold[p])
                      /\ ps[p].rows = cold[p].rows
                      /\ ~IsRow(d, p) => ps[p].tall = cold[p].tall
    OBVIOUS
  <2> DEFINE a == ps[p]
             b == cold[p]
             x == d.paras[p]
             rows == RowsOf(x, w)
             row == IsRow(d, p)
  <2>1. Laid(a, x, w) /\ Laid(b, x, w)
    BY <1>3, <1>4
  <2>2. /\ a = [id |-> x.id, rev |-> x.rev, width |-> w, text |-> x.text, format |-> x.format,
                images |-> x.images, rows |-> rows, number |-> a.number, columns |-> a.columns,
                tall |-> a.tall]
        /\ b = [id |-> x.id, rev |-> x.rev, width |-> w, text |-> x.text, format |-> x.format,
                images |-> x.images, rows |-> rows, number |-> b.number, columns |-> b.columns,
                tall |-> b.tall]
        /\ a.rows = rows /\ b.rows = rows
    BY <2>1 DEF Laid
  <2>3. row \in BOOLEAN /\ (row <=> OfTable(x))
    BY <1>1, Zenon DEF IsRow, OfTable
  <2>4. ~row => a.tall = b.tall
    BY <2>1, <2>3 DEF Laid
  <2> HIDE DEF a, b, x, rows, row
  <2>5. Bared(row, a) = Bared(row, b)
    BY <2>2, <2>3, <2>4, OwnSame
  <2> QED
    BY <2>2, <2>4, <2>5 DEF a, b, row
<1>9. Starts(d, ps) = Starts(d, cold)
  <2> DEFINE row(f, p) == [k \in DOMAIN f[p].rows |-> ParaStart(d, p) + f[p].rows[k].at]
             rows(f) == [p \in 1 .. n |-> row(f, p)]
  <2>1. \A p \in 1 .. n : row(ps, p) = row(cold, p)
    BY <1>8
  <2>2. Starts(d, ps) = FlattenSeq(rows(ps)) /\ Starts(d, cold) = FlattenSeq(rows(cold))
    BY <1>5 DEF Starts
  <2> HIDE DEF row
  <2>3. rows(ps) = rows(cold)
    BY <2>1
  <2> QED
    BY <2>2, <2>3
<1>10. ASSUME \A p \in 1 .. n : ~IsRow(d, p) PROVE Pages(ps) = Pages(cold)
  <2>1. [p \in 1 .. n |-> ps[p].tall] = [p \in 1 .. n |-> cold[p].tall]
    BY <1>8, <1>10
  <2> QED
    BY <1>5, <2>1 DEF Pages
<1>11. \A p \in DOMAIN cold : Bared(IsRow(d, p), ps[p]) = Bared(IsRow(d, p), cold[p])
  BY <1>5, <1>8
<1>12. (\A p \in DOMAIN cold : ~IsRow(d, p)) => lay.pages = Pages(cold)
  BY <1>5, <1>6, <1>10
<1> QED
  BY <1>6, <1>7, <1>9, <1>11, <1>12, Zenon DEF Current, cold, ps, w

LEMMA FiniteBound ==
  ASSUME NEW S \in SUBSET Nat, IsFiniteSet(S)
  PROVE  \E b \in Nat : \A s \in S : s <= b
<1>1. PICK N \in Nat : ExistsBijection(1 .. N, S)
  BY FS_NatBijection
<1>2. PICK f : f \in Bijection(1 .. N, S)
  BY <1>1, Zenon DEF ExistsBijection
<1>3. f \in [1 .. N -> S] /\ \A s \in S : \E i \in 1 .. N : f[i] = s
  BY <1>2 DEF Bijection, Injection, Surjection
<1> DEFINE Has(m) == \E b \in Nat : \A i \in 1 .. m : f[i] <= b
           Bad == {m \in 0 .. N : ~Has(m)}
<1>4. Bad = {}
  <2> SUFFICES ASSUME Bad # {} PROVE FALSE
    OBVIOUS
  <2>1. PICK m \in Bad : \A k \in Bad : m <= k
    <3>1. Bad \in SUBSET Nat
      OBVIOUS
    <3> HIDE DEF Bad
    <3> QED
      BY <3>1, LeastIs
  <2>2. m \in 0 .. N /\ ~Has(m)
    BY <2>1
  <2>3. m # 0
    <3>1. 1 .. 0 = {} /\ 0 \in Nat
      OBVIOUS
    <3>2. Has(0)
      BY <3>1
    <3> HIDE DEF Has
    <3> QED
      BY <2>2, <3>2
  <2> HIDE DEF Has
  <2>4. m - 1 \in 0 .. N /\ m \in 1 .. N /\ ~(m <= m - 1)
    <3> HIDE DEF Bad
    <3> QED
      BY <2>2, <2>3
  <2>5. Has(m - 1)
    BY <2>1, <2>4
  <2>6. PICK b \in Nat : \A i \in 1 .. m - 1 : f[i] <= b
    BY <2>5 DEF Has
  <2> DEFINE c == IF f[m] <= b THEN b ELSE f[m]
  <2>7. f[m] \in Nat /\ c \in Nat /\ b <= c /\ f[m] <= c
    <3> HIDE DEF Bad
    <3>1. f[m] \in S
      BY <1>3, <2>4
    <3>2. f[m] \in Nat
      BY <3>1
    <3> QED
      BY <2>6, <3>2
  <2> HIDE DEF c, Bad
  <2>8. ASSUME NEW i \in 1 .. m PROVE f[i] <= c
    <3>1. i \in 1 .. N
      BY <2>4
    <3>2. f[i] \in Nat
      BY <1>3, <3>1
    <3>3. i = m \/ i \in 1 .. m - 1
      BY <2>4
    <3> QED
      BY <2>6, <2>7, <3>2, <3>3
  <2> QED
    BY <2>2, <2>7, <2>8 DEF Has
<1>5. N \in 0 .. N
  BY <1>1
<1>6. Has(N)
  BY <1>4, <1>5
<1> QED
  BY <1>3, <1>6

(* The caret and the selection.                                            *)
Views == [caret : Nat, anchor : Nat \cup {None}, fmt : CharFormats, over : BOOLEAN]

LEMMA FormatAtIs ==
  ASSUME NEW d, Whole(d), NEW o \in Nat
  PROVE  FormatAt(d, o) \in CharFormats
<1> DEFINE i == Locate(d, o)
           p == i.para
           a == i.at
           t == d.paras[p].text
           C == [c : Glyphs, f : CharFormats]
<1>1. p \in 1 .. Len(d.paras) /\ a \in 0 .. Size(d, p)
  BY LocateSpot DEF Spot
<1>2. t \in Seq(C) /\ Size(d, p) = Len(t)
  BY <1>1, WholeIs, ParasAre DEF Texts, Size
<1>3. FormatAt(d, o) = IF t = <<>> THEN Plain ELSE IF a < Len(t) THEN t[a + 1].f ELSE t[Len(t)].f
  BY DEF FormatAt, FormatAtPlace, FormatIn, Last
<1>4. Plain \in CharFormats
  BY WriterAssumption
<1> HIDE DEF t, C, a, p, i
<1>5. ASSUME t # <<>> PROVE Len(t) \in 1 .. Len(t) /\ (a < Len(t) => a + 1 \in 1 .. Len(t))
  BY <1>1, <1>2, <1>5
<1>6. \A k \in 1 .. Len(t) : t[k] \in C
  BY <1>2, ElementOfSeq
<1>7. \A k \in 1 .. Len(t) : t[k].f \in CharFormats
  BY <1>6 DEF C
<1> QED
  BY <1>3, <1>4, <1>5, <1>7

LEMMA WithinIs ==
  ASSUME NEW d, Whole(d), NEW o
  PROVE  Within(d, o) \in Nat
<1>1. Length(d) \in Nat
  BY WholeIs
<1> QED
  BY <1>1 DEF Within

LEMMA SetCaretIs ==
  ASSUME NEW d, Whole(d), NEW v \in Views, NEW o, NEW extend
  PROVE  SetCaret(d, v, o, extend) \in Views
<1> DEFINE to == Within(d, o)
           f == FormatAt(d, to)
           fmt == IF v.over THEN v.fmt ELSE f
           anchor == IF ~extend THEN None ELSE IF v.anchor = None THEN to ELSE v.anchor
<1>1. to \in Nat
  BY WithinIs
<1>2. f \in CharFormats
  BY <1>1, FormatAtIs
<1>3. SetCaret(d, v, o, extend) = [v EXCEPT !.caret = to, !.fmt = fmt, !.anchor = anchor]
  BY DEF SetCaret, Views
<1> HIDE DEF to, f
<1>4. fmt \in CharFormats /\ anchor \in Nat \cup {None}
  BY <1>1, <1>2 DEF Views
<1> HIDE DEF fmt, anchor
<1> QED
  BY <1>1, <1>3, <1>4 DEF Views

LEMMA SelectIs ==
  ASSUME NEW d, Whole(d), NEW v \in Views, NEW a, NEW b
  PROVE  Select(d, v, a, b) \in Views
<1> DEFINE x == Within(d, Min({a, b}))
           y == Within(d, Max({a, b}))
<1>1. x \in Nat /\ y \in Nat
  BY WithinIs
<1>2. Select(d, v, a, b) = [v EXCEPT !.anchor = x, !.caret = y]
  BY DEF Select
<1> HIDE DEF x, y
<1> QED
  BY <1>1, <1>2 DEF Views

LEMMA FoundView ==
  ASSUME NEW d, Whole(d), NEW v \in Views
  PROVE  Found(d, v) \in Views
<1> DEFINE has == v.anchor # None /\ v.anchor # v.caret
           from == IF has /\ v.caret < v.anchor THEN v.anchor ELSE v.caret
           hit == FindNext(d, Needle, from, TRUE)
           w == Select(d, v, Min(hit), Min(hit) + Len(Needle))
<1>1. w \in Views
  BY SelectIs
<1>2. Found(d, v) = IF hit = {} THEN v ELSE w
  BY Zenon DEF Found
<1> HIDE DEF hit, w
<1> QED
  BY <1>1, <1>2

LEMMA SelectionIs ==
  ASSUME view \in Views
  PROVE  /\ view.caret \in Nat /\ view.fmt \in CharFormats
         /\ From \in Nat /\ To \in Nat /\ From <= To /\ To - From \in Nat
<1> DEFINE S == {view.anchor, view.caret}
<1>1. view.caret \in Nat /\ view.anchor \in Nat \cup {None} /\ view.fmt \in CharFormats
  BY DEF Views
<1>2. CASE HasSelection
  <2>1. S \in SUBSET Nat /\ S # {} /\ S \in SUBSET Int
    BY <1>1, <1>2 DEF HasSelection
  <2>2. From = Min(S) /\ To = Max(S)
    BY <1>2 DEF From, To
  <2>3. PICK b \in Nat : \A s \in S : s <= b
    <3>1. view.anchor \in Nat
      BY <1>1, <1>2 DEF HasSelection
    <3> DEFINE b == IF view.anchor <= view.caret THEN view.caret ELSE view.anchor
    <3>2. b \in Nat /\ \A s \in S : s <= b
      BY <1>1, <3>1
    <3> QED
      BY <3>2
  <2> HIDE DEF S
  <2>4. Min(S) \in S /\ \A s \in S : Min(S) <= s
    BY <2>1, MinIs
  <2>5. b \in Int
    OBVIOUS
  <2>6. Max(S) \in S
    BY <2>1, <2>3, <2>5, MaxIs
  <2>7. From \in Nat /\ To \in Nat /\ From <= To
    BY <2>1, <2>2, <2>4, <2>6
  <2> QED
    BY <1>1, <2>7
<1>3. CASE ~HasSelection
  BY <1>1, <1>3 DEF From, To
<1> QED
  BY <1>2, <1>3

LEMMA ClearedIs ==
  ASSUME view \in Views, Whole(doc)
  PROVE  Edits(doc, Cleared) /\ ClearedCaret \in Views /\ ClearedCaret.caret = From
         /\ ClearedCaret.fmt = view.fmt
<1> DEFINE l == To - From
           anchor == IF HasSelection THEN None ELSE view.anchor
<1>1. From \in Nat /\ l \in Int
  BY SelectionIs
<1>2. ClearedCaret = [view EXCEPT !.caret = From, !.anchor = anchor]
  BY DEF ClearedCaret, Views
<1>3. anchor \in Nat \cup {None}
  BY DEF Views
<1> HIDE DEF l, anchor
<1>4. Edits(doc, RemoveText(doc, From, l))
  BY <1>1, RemoveEdits
<1> QED
  BY <1>1, <1>2, <1>3, <1>4 DEF Cleared, l, Views

-----------------------------------------------------------------------------
(* The invariant: a whole document whose history is exact, a layout that   *)
(* fits it, and files that hold what was saved.                            *)
Page  == Whole(doc) /\ ~doc.quiet /\ Exact(doc) /\ Fits(layout, doc)
Scene == /\ view \in Views /\ clip \subseteq Clips /\ mode \in {"open", "closed", "stuck"}
         /\ ops \in 0 .. MaxOps /\ turns \in 0 .. MaxTurns
FilesAre ==
    /\ DOMAIN disk = Paths /\ given \in BOOLEAN
    /\ \A p \in Paths : \A file \in disk[p] : Readable(file) /\ disk[p] = {file}
    /\ path = {} \/ \E p \in Paths : path = {p}
IInv  == Page /\ Scene /\ FilesAre /\ CleanMeansSaved

LEMMA PageOn ==
  ASSUME Page, Whole(doc'), Evolves(doc, doc'), ~doc'.quiet, Exact(doc'),
         layout' = Layout(layout, doc', layout.width)
  PROVE  Page'
<1>1. Fits(layout', doc')
  BY LayoutIs DEF Page
<1> QED
  BY <1>1 DEF Page

LEMMA EditStep ==
  ASSUME IInv, Edits(doc, doc'), layout' = Layout(layout, doc', layout.width), Scene', UNCHANGED files
  PROVE  IInv'
<1>1. Page'
  BY PageOn DEF IInv, Page, Edits
<1>2. FilesAre'
  BY DEF IInv, FilesAre, files
<1>3. CleanMeansSaved'
  <2>1. CASE doc' = doc
    BY <2>1 DEF IInv, CleanMeansSaved, files
  <2>2. CASE doc'.modified
    BY <2>2 DEF CleanMeansSaved
  <2> QED
    BY <2>1, <2>2 DEF Edits
<1> QED
  BY <1>1, <1>2, <1>3 DEF IInv

LEMMA StillStep ==
  ASSUME IInv, UNCHANGED <<doc, layout, files>>, Scene'
  PROVE  IInv'
<1>1. Page'
  BY DEF IInv, Page
<1>2. FilesAre' /\ CleanMeansSaved'
  BY DEF IInv, FilesAre, CleanMeansSaved, files
<1> QED
  BY <1>1, <1>2 DEF IInv

LEMMA ShowsStep ==
  ASSUME IInv, NEW d, NEW v, Shows(d, v), Edits(doc, d), v \in Views
  PROVE  IInv'
<1>1. doc' = d /\ view' = v /\ layout' = Layout(layout, doc', layout.width) /\ UNCHANGED files
  BY DEF Shows
<1>2. Scene'
  <2>1. ops \in 0 .. MaxOps /\ ops < MaxOps /\ MaxOps \in Nat /\ ops' = ops + 1
    BY ViewAssumption DEF IInv, Scene, Shows
  <2>2. ops' \in 0 .. MaxOps
    BY <2>1
  <2> QED
    BY <1>1, <2>2 DEF IInv, Scene, Shows
<1> QED
  BY <1>1, <1>2, EditStep

LEMMA MovesStep ==
  ASSUME IInv, NEW v, Moves(v), v \in Views
  PROVE  IInv'
<1>1. UNCHANGED <<doc, layout, files>> /\ Scene'
  BY DEF Moves, IInv, Scene
<1> QED
  BY <1>1, StillStep

LEMMA StuckStep ==
  ASSUME IInv, Stuck
  PROVE  IInv'
<1>1. UNCHANGED <<doc, layout, files>> /\ Scene'
  BY DEF Stuck, IInv, Scene
<1> QED
  BY <1>1, StillStep

LEMMA TurnIs ==
  ASSUME IInv, Turn
  PROVE  turns' \in 0 .. MaxTurns
<1>1. turns \in 0 .. MaxTurns /\ turns < MaxTurns /\ MaxTurns \in Nat /\ turns' = turns + 1
  BY ViewAssumption DEF IInv, Scene, Turn
<1> QED
  BY <1>1

LEMMA TurnsStep ==
  ASSUME IInv, NEW d, NEW v, TurnsTo(d, v), UNCHANGED files, Edits(doc, d), v \in Views
  PROVE  IInv'
<1>1. /\ doc' = d /\ view' = v /\ layout' = Layout(layout, doc', layout.width)
      /\ turns' \in 0 .. MaxTurns
  BY TurnIs DEF TurnsTo
<1>2. Scene'
  BY <1>1 DEF IInv, Scene, TurnsTo
<1> QED
  BY <1>1, <1>2, EditStep

LEMMA IInvIs ==
  ASSUME IInv
  PROVE  /\ Whole(doc) /\ ~doc.quiet /\ Exact(doc) /\ view \in Views /\ view.caret \in Nat
         /\ view.fmt \in CharFormats /\ From \in Nat /\ To \in Nat /\ From <= To /\ To - From \in Nat
         /\ Edits(doc, Cleared) /\ Whole(Cleared) /\ ClearedCaret \in Views
         /\ ClearedCaret.caret = From /\ ClearedCaret.fmt = view.fmt
<1>1. Whole(doc) /\ ~doc.quiet /\ Exact(doc) /\ view \in Views
  BY DEF IInv, Page, Scene
<1>2. Edits(doc, Cleared)
  BY <1>1, ClearedIs
<1>3. Whole(Cleared)
  BY <1>2, GrowsWhole
<1> QED
  BY <1>1, <1>2, <1>3, ClearedIs, SelectionIs

\* The caret after what was typed or pasted.
Past(v, c, over) == [v EXCEPT !.caret = c, !.anchor = None, !.over = over]

Behind(v, c) == [v EXCEPT !.caret = c, !.anchor = None]

LEMMA PastIs ==
  ASSUME NEW v \in Views, NEW c \in Nat, NEW over \in BOOLEAN
  PROVE  Past(v, c, over) \in Views /\ Behind(v, c) \in Views
<1> DEFINE none == None
<1>1. none \in Nat \cup {None}
  OBVIOUS
<1>2. Past(v, c, over) = [v EXCEPT !.caret = c, !.anchor = none, !.over = over]
  BY DEF Past
<1>3. Behind(v, c) = [v EXCEPT !.caret = c, !.anchor = none]
  BY DEF Behind
<1> HIDE DEF none
<1>4. Past(v, c, over) \in Views
  BY <1>1, <1>2 DEF Views
<1>5. Behind(v, c) \in Views
  BY <1>1, <1>3 DEF Views
<1> QED
  BY <1>4, <1>5

-----------------------------------------------------------------------------
(* The keys.                                                               *)
LEMMA InsertTextStep ==
  ASSUME IInv, NEW g \in Glyphs, InsertText(Cleared, ClearedCaret, g)
  PROVE  IInv'
<1> DEFINE v == ClearedCaret
           d == Cleared
           t == <<g>>
           f == {v.fmt}
           e == Insert(d, v.caret, t, f)
           w == [v EXCEPT !.caret = @ + 1, !.anchor = None, !.over = FALSE]
<1>1. Whole(doc) /\ Edits(doc, d) /\ Whole(d) /\ v \in Views /\ v.caret \in Nat
  BY IInvIs
<1>2. t \in Lines /\ f \in SUBSET CharFormats
  BY <1>1, GlyphsAreLines DEF Lines, Views
<1>3. Shows(e, w)
  BY DEF InsertText
<1>4. w \in Views
  <2> DEFINE c == v.caret + 1
             no == FALSE
  <2>1. c \in Nat /\ no \in BOOLEAN /\ w = Past(v, c, no)
    BY <1>1 DEF Past
  <2> HIDE DEF c, no, w, v
  <2> QED
    BY <1>1, <2>1, PastIs
<1> HIDE DEF v, d, t, f
<1>5. Edits(d, e)
  BY <1>1, <1>2, InsertIs
<1>6. Edits(doc, e)
  BY <1>1, <1>5, EditsOn
<1> HIDE DEF e, w
<1> QED
  BY <1>3, <1>4, <1>6, ShowsStep

LEMMA TypeLetterStep ==
  ASSUME IInv, TypeLetter
  PROVE  IInv'
<1>1. PICK g \in Letters \cup {"space"} : InsertText(Cleared, ClearedCaret, g)
  BY DEF TypeLetter
<1>2. g \in Glyphs
  BY DEF Glyphs
<1> QED
  BY <1>1, <1>2, InsertTextStep

LEMMA BackspaceStep ==
  ASSUME IInv, Backspace
  PROVE  IInv'
<1>1. CASE HasSelection
  <2>1. Shows(Cleared, ClearedCaret)
    BY <1>1 DEF Backspace
  <2> QED
    BY <2>1, IInvIs, ShowsStep
<1>2. CASE ~HasSelection
  <2> DEFINE o == view.caret - 1
             one == 1
             d == RemoveText(doc, o, one)
             v == [view EXCEPT !.caret = @ - 1]
  <2>1. view.caret > 0 /\ Shows(d, v)
    BY <1>2 DEF Backspace
  <2>2. Whole(doc) /\ view \in Views /\ view.caret \in Nat
    BY IInvIs
  <2>3. o \in Nat /\ one \in Int /\ v \in Views
    BY <2>1, <2>2 DEF Views
  <2> HIDE DEF o, one, v
  <2>4. Edits(doc, d)
    BY <2>2, <2>3, RemoveEdits
  <2> HIDE DEF d
  <2> QED
    BY <2>1, <2>3, <2>4, ShowsStep
<1> QED
  BY <1>1, <1>2

LEMMA DeleteKeyStep ==
  ASSUME IInv, DeleteKey
  PROVE  IInv'
<1>1. CASE HasSelection
  <2>1. Shows(Cleared, ClearedCaret)
    BY <1>1 DEF DeleteKey
  <2> QED
    BY <2>1, IInvIs, ShowsStep
<1>2. CASE ~HasSelection
  <2> DEFINE one == 1
             d == RemoveText(doc, view.caret, one)
  <2>1. Shows(d, view)
    BY <1>2 DEF DeleteKey
  <2>2. Whole(doc) /\ view \in Views /\ view.caret \in Nat /\ one \in Int
    BY IInvIs
  <2> HIDE DEF one
  <2>3. Edits(doc, d)
    BY <2>2, RemoveEdits
  <2> HIDE DEF d
  <2> QED
    BY <2>1, <2>2, <2>3, ShowsStep
<1> QED
  BY <1>1, <1>2

LEMMA EnterStep ==
  ASSUME IInv, Enter
  PROVE  IInv'
<1> DEFINE o == ClearedCaret.caret
           d == Cleared
           e == SplitPara(d, o)
           v == [ClearedCaret EXCEPT !.caret = @ + 1, !.anchor = None]
<1>1. Shows(e, v)
  BY DEF Enter
<1>2. Whole(doc) /\ Edits(doc, d) /\ Whole(d) /\ o \in Nat /\ ClearedCaret \in Views
  BY IInvIs
<1>3. v \in Views
  <2> DEFINE w == ClearedCaret
             c == w.caret + 1
  <2>1. w \in Views /\ c \in Nat /\ TRUE \in BOOLEAN /\ v = Behind(w, c)
    BY <1>2 DEF Behind
  <2> HIDE DEF w, c, v
  <2> QED
    BY <2>1, PastIs
<1> HIDE DEF o, d, v
<1>4. Edits(d, e)
  BY <1>2, SplitParaIs
<1>5. Edits(doc, e)
  BY <1>2, <1>4, EditsOn
<1> HIDE DEF e
<1> QED
  BY <1>1, <1>3, <1>5, ShowsStep

\* An edit that puts the caret somewhere.
LEMMA PutsStep ==
  ASSUME IInv, NEW d, Edits(doc, d), NEW v \in Views, NEW o, NEW extend, Shows(d, SetCaret(d, v, o, extend))
  PROVE  IInv'
<1>1. Whole(d)
  BY GrowsWhole
<1>2. SetCaret(d, v, o, extend) \in Views
  BY <1>1, SetCaretIs
<1> QED
  BY <1>2, ShowsStep

LEMMA TabStep ==
  ASSUME IInv, Tab
  PROVE  IInv'
<1> DEFINE d == Cleared
           v == ClearedCaret
           at == Locate(d, v.caret)
           p == at.para
           next == {k \in CellEnds(d.paras[p].text) : k > at.at}
           o1 == ParaStart(d, p) + Min(next)
           o2 == ParaStart(d, p + 1)
           o3 == ParaEnd(d, p) + 1
           no == FALSE
           e == NewRow(d, p)
<1>1. Whole(doc) /\ Edits(doc, d) /\ Whole(d) /\ v \in Views /\ v.caret \in Nat
  BY IInvIs
<1>2. \/ InsertText(d, v, "space") \/ Shows(d, SetCaret(d, v, o1, no))
      \/ Shows(d, SetCaret(d, v, o2, no)) \/ Shows(e, SetCaret(e, v, o3, no))
  BY DEF Tab
<1>3. p \in 1 .. Len(d.paras)
  BY <1>1, LocateSpot DEF Spot
<1>4. Edits(doc, e)
  <2> DEFINE n == Cardinality(CellEnds(d.paras[p].text)) - 1
  <2> HIDE DEF p, d
  <2>1. n \in Int
    <3>1. Cardinality(CellEnds(d.paras[p].text)) \in Nat
      BY <1>1, <1>3, CellEndsAre
    <3> QED
      BY <3>1
  <2>2. e = Insert(SplitPara(d, ParaEnd(d, p)), ParaEnd(d, p) + 1, Cells(n), {})
    BY DEF NewRow
  <2> HIDE DEF n, e
  <2>3. Grows(d, e)
    BY <1>1, <1>3, <2>1, <2>2, NewRowIs
  <2> QED
    BY <1>1, <2>3, EditsOn DEF Grows
<1> HIDE DEF o1, o2, o3, e, no, p, at, next
<1>5. ASSUME InsertText(d, v, "space") PROVE IInv'
  <2>1. "space" \in Glyphs
    BY DEF Glyphs
  <2> QED
    BY <1>5, <2>1, InsertTextStep
<1> HIDE DEF d, v
<1>6. ASSUME NEW o, Shows(d, SetCaret(d, v, o, no)) PROVE IInv'
  BY <1>1, <1>6, PutsStep
<1>7. ASSUME NEW o, Shows(e, SetCaret(e, v, o, no)) PROVE IInv'
  BY <1>1, <1>4, <1>7, PutsStep
<1> QED
  BY <1>2, <1>5, <1>6, <1>7

LEMMA KeysStep ==
  ASSUME IInv, Keys
  PROVE  IInv'
<1>1. ASSUME Navigate PROVE IInv'
  <2>1. PICK o \in KeyTargets, extend \in BOOLEAN : Moves(SetCaret(doc, view, o, extend))
    BY <1>1 DEF Navigate
  <2>2. SetCaret(doc, view, o, extend) \in Views
    BY IInvIs, SetCaretIs
  <2> QED
    BY <2>1, <2>2, MovesStep
<1> QED
  BY <1>1, TypeLetterStep, BackspaceStep, DeleteKeyStep, EnterStep, TabStep DEF Keys

LEMMA SelectStep ==
  ASSUME IInv, NEW a, NEW b, Moves(Select(doc, view, a, b))
  PROVE  IInv'
<1>1. Select(doc, view, a, b) \in Views
  BY IInvIs, SelectIs
<1> QED
  BY <1>1, MovesStep

LEMMA MouseStep ==
  ASSUME IInv, Mouse
  PROVE  IInv'
<1>1. ASSUME Click PROVE IInv'
  <2>1. PICK o \in Places(layout, doc), extend \in BOOLEAN : Moves(SetCaret(doc, view, o, extend))
    BY <1>1 DEF Click
  <2>2. SetCaret(doc, view, o, extend) \in Views
    BY IInvIs, SetCaretIs
  <2> QED
    BY <2>1, <2>2, MovesStep
<1>2. ASSUME DoubleClick PROVE IInv'
  <2> DEFINE a(o) == Max({k \in 0 .. o : ~InWord(Text(doc), k)})
             b(o) == Min({k \in o .. Len(Text(doc)) : ~InWord(Text(doc), k + 1)})
  <2>1. PICK o : Moves(Select(doc, view, a(o), b(o)))
    BY <1>2 DEF DoubleClick
  <2> HIDE DEF a, b
  <2> QED
    BY <2>1, SelectStep
<1>3. ASSUME TripleClick PROVE IInv'
  <2> DEFINE a(o) == ParaStart(doc, Locate(doc, o).para)
             b(o) == ParaEnd(doc, Locate(doc, o).para)
  <2>1. PICK o : Moves(Select(doc, view, a(o), b(o)))
    BY <1>3 DEF TripleClick
  <2> HIDE DEF a, b
  <2> QED
    BY <2>1, SelectStep
<1>4. ASSUME SelectAll PROVE IInv'
  BY <1>4, SelectStep DEF SelectAll
<1> QED
  BY <1>1, <1>2, <1>3, <1>4 DEF Mouse

LEMMA ApplyCharFormatStep ==
  ASSUME IInv, ApplyCharFormat
  PROVE  IInv'
<1>1. PICK f \in CharFormats \ {view.fmt} :
        LET v == [view EXCEPT !.fmt = f, !.over = TRUE]
        IN  IF ~HasSelection THEN TurnsTo(doc, v) /\ UNCHANGED files
            ELSE IF NeverEnds(doc, From, To - From) THEN Stuck
            ELSE Shows(ApplyFormat(doc, From, To - From, f), v)
  BY Zenon DEF ApplyCharFormat
<1> DEFINE v == [view EXCEPT !.fmt = f, !.over = TRUE]
           l == To - From
           d == ApplyFormat(doc, From, l, f)
<1>2. (TurnsTo(doc, v) /\ UNCHANGED files) \/ Stuck \/ Shows(d, v)
  BY <1>1
<1>3. Whole(doc) /\ view \in Views /\ From \in Nat /\ l \in Int
  BY IInvIs
<1>4. v \in Views
  BY <1>3 DEF Views
<1> HIDE DEF v, l
<1>5. Edits(doc, d) /\ Edits(doc, doc)
  BY <1>3, ApplyFormatIs, EditsSame
<1> HIDE DEF d
<1>6. ASSUME TurnsTo(doc, v), UNCHANGED files PROVE IInv'
  BY <1>4, <1>5, <1>6, TurnsStep
<1>7. ASSUME Shows(d, v) PROVE IInv'
  BY <1>4, <1>5, <1>7, ShowsStep
<1> QED
  BY <1>2, <1>6, <1>7, StuckStep

LEMMA CopiedIs ==
  ASSUME IInv
  PROVE  Copied \in Clips
<1> DEFINE l == To - From
           t == GetText(doc, From, l)
           chars == CaptureRuns(doc, From, l)
<1>1. Whole(doc) /\ From \in Nat /\ l \in Nat
  BY IInvIs
<1>2. doc.paras \in Seq(Paras) /\ doc.paras # <<>> /\ From \in Int
  BY <1>1, WholeIs
<1>3. Copied = [text |-> t, runs |-> CopiedRuns(chars)]
  BY DEF Copied
<1> HIDE DEF l
<1>4. t \in Lines
  BY <1>1, <1>2, GetTextIs
<1>5. chars \in SUBSET Runs /\ IsFiniteSet(chars)
  BY <1>1, <1>2, CapturedIs, CapturedFinite
<1> HIDE DEF t, chars
<1>6. CopiedRuns(chars) \in SUBSET CopyRuns
  BY <1>5, CopiedRunsAre
<1> QED
  BY <1>3, <1>4, <1>6 DEF Clips

LEMMA ClipboardStep ==
  ASSUME IInv, Clipboard
  PROVE  IInv'
<1>1. ASSUME Copy PROVE IInv'
  <2>1. UNCHANGED <<doc, layout, files>> /\ Turn /\ clip' = {Copied} /\ UNCHANGED <<view, mode, ops>>
    BY <1>1 DEF Copy
  <2>2. Scene'
    BY <2>1, TurnIs, CopiedIs DEF IInv, Scene
  <2> QED
    BY <2>1, <2>2, StillStep
<1>2. ASSUME Cut PROVE IInv'
  <2>1. /\ doc' = Cleared /\ layout' = Layout(layout, doc', layout.width) /\ UNCHANGED files
        /\ clip' = {Copied} /\ view' = ClearedCaret /\ UNCHANGED <<mode, turns>>
    BY <1>2 DEF Cut
  <2>2. ops' \in 0 .. MaxOps
    <3>1. ops \in 0 .. MaxOps /\ ops < MaxOps /\ MaxOps \in Nat /\ ops' = ops + 1
      BY <1>2, ViewAssumption DEF IInv, Scene, Cut
    <3> QED
      BY <3>1
  <2>3. Edits(doc, doc') /\ view' \in Views
    BY <2>1, IInvIs
  <2>4. Scene'
    BY <2>1, <2>2, <2>3, CopiedIs DEF IInv, Scene
  <2> QED
    BY <2>1, <2>3, <2>4, EditStep
<1>3. ASSUME Paste PROVE IInv'
  <2>1. PICK c \in clip :
          LET at == ClearedCaret.caret
              e  == IF c.text = <<>> THEN Cleared ELSE Insert(Cleared, at, c.text, {view.fmt})
          IN  Shows(Restyled(e, at, c),
                    [view EXCEPT !.caret = at + Len(c.text), !.anchor = None])
    BY <1>3 DEF Paste
  <2> DEFINE at == ClearedCaret.caret
             d == Cleared
             t == c.text
             f == {view.fmt}
             x == Insert(d, at, t, f)
             e == IF t = <<>> THEN d ELSE x
             g == Restyled(e, at, c)
             to == at + Len(t)
  <2>2. Shows(g, Behind(view, to))
    BY <2>1 DEF Behind
  <2>3. Whole(doc) /\ Edits(doc, d) /\ Whole(d) /\ at \in Nat /\ view \in Views /\ f \in SUBSET CharFormats
    BY IInvIs
  <2>4. c \in Clips /\ t \in Lines
    BY DEF IInv, Scene, Clips
  <2>5. to \in Nat /\ TRUE \in BOOLEAN
    BY <2>3, <2>4 DEF Lines
  <2> HIDE DEF at, d, t, f, to
  <2>6. Edits(d, x)
    BY <2>3, <2>4, InsertIs
  <2>7. Edits(doc, x)
    BY <2>3, <2>6, EditsOn
  <2> HIDE DEF x
  <2>8. Edits(doc, e)
    BY <2>3, <2>7
  <2> HIDE DEF e
  <2>9. Whole(e)
    BY <2>8, GrowsWhole
  <2>10. Edits(e, g)
    BY <2>3, <2>4, <2>9, RestyledIs
  <2>11. Edits(doc, g)
    BY <2>3, <2>8, <2>10, EditsOn
  <2>12. Behind(view, to) \in Views
    BY <2>3, <2>5, PastIs
  <2> HIDE DEF g
  <2> QED
    BY <2>2, <2>11, <2>12, ShowsStep
<1> QED
  BY <1>1, <1>2, <1>3 DEF Clipboard

-----------------------------------------------------------------------------
(* The menus.                                                              *)
LEMMA ReplacesStep ==
  ASSUME IInv, NEW d, Edits(doc, d), NEW o, Replaces(d, o)
  PROVE  IInv'
<1> DEFINE no == FALSE
<1>1. Shows(d, SetCaret(d, view, o, no))
  BY DEF Replaces
<1>2. view \in Views
  BY IInvIs
<1> HIDE DEF no
<1> QED
  BY <1>1, <1>2, PutsStep

LEMMA FromCleared ==
  ASSUME IInv, NEW e, Edits(Cleared, e)
  PROVE  Edits(doc, e)
BY IInvIs, EditsOn

LEMMA StringsAre == Needle \in Lines /\ Replacement \in Lines /\ ScriptText \in Lines
BY AppAssumption DEF Lines

LEMMA UndoRedoStep ==
  ASSUME IInv, MenuUndo \/ MenuRedo
  PROVE  IInv'
<1>1. Whole(doc) /\ ~doc.quiet /\ view \in Views
  BY IInvIs
<1>2. ASSUME MenuUndo PROVE IInv'
  <2> DEFINE d == Undo(doc, Last(doc.undo))
  <2>1. doc.undo # <<>> /\ (Stuck \/ (TurnsTo(d, view) /\ UNCHANGED files))
    BY <1>2 DEF MenuUndo
  <2>2. Edits(doc, d)
    BY <1>1, <2>1, UndoIs
  <2> HIDE DEF d
  <2> QED
    BY <1>1, <2>1, <2>2, StuckStep, TurnsStep
<1>3. ASSUME MenuRedo PROVE IInv'
  <2> DEFINE d == Redo(doc, Last(doc.redo))
  <2>1. /\ doc.redo # <<>>
        /\ \/ Stuck
           \/ /\ doc' = d /\ layout' = Layout(layout, doc', layout.width)
              /\ UNCHANGED <<view, clip, mode, ops, turns, files>>
    BY <1>3 DEF MenuRedo
  <2>2. Edits(doc, d)
    BY <1>1, <2>1, RedoIs
  <2> HIDE DEF d
  <2>3. ASSUME ~Stuck PROVE IInv'
    <3>1. Scene'
      BY <2>1, <2>3 DEF IInv, Scene
    <3> QED
      BY <2>1, <2>2, <2>3, <3>1, EditStep
  <2> QED
    BY <2>3, StuckStep
<1> QED
  BY <1>2, <1>3

LEMMA FindStep ==
  ASSUME IInv, FindAgain \/ ReplaceAndFind \/ ReplaceAllFound
  PROVE  IInv'
<1>1. Whole(doc) /\ view \in Views /\ From \in Nat
  BY IInvIs
<1>2. ASSUME FindAgain PROVE IInv'
  <2>1. Found(doc, view) \in Views
    BY <1>1, FoundView
  <2> QED
    BY <1>2, <2>1, MovesStep DEF FindAgain
<1>3. ASSUME ReplaceAndFind PROVE IInv'
  <2> DEFINE l == Len(Needle)
             none == {}
             d == Insert(RemoveText(doc, From, l), From, Replacement, none)
             o == From + Len(Replacement)
             no == FALSE
             c == SetCaret(d, view, o, no)
             v == Found(d, c)
  <2>1. FindAgain \/ Shows(d, v)
    BY <1>3 DEF ReplaceAndFind
  <2>2. l \in Int /\ Replacement \in Lines /\ none \in SUBSET CharFormats
    BY StringsAre DEF Lines
  <2> HIDE DEF l, none
  <2>3. Edits(doc, d)
    BY <1>1, <2>2, PutInPlaceIs
  <2> HIDE DEF d
  <2>4. Whole(d)
    BY <2>3, GrowsWhole
  <2>5. c \in Views
    BY <1>1, <2>4, SetCaretIs
  <2> HIDE DEF c
  <2>6. v \in Views
    BY <2>4, <2>5, FoundView
  <2> HIDE DEF v
  <2> QED
    BY <1>2, <2>1, <2>3, <2>6, ShowsStep
<1>4. ASSUME ReplaceAllFound PROVE IInv'
  <2> DEFINE d == ReplaceAllText(doc, Needle, Replacement)
  <2>1. Shows(d, view)
    BY <1>4 DEF ReplaceAllFound
  <2>2. Edits(doc, d)
    BY <1>1, StringsAre, ReplaceAllIs
  <2> HIDE DEF d
  <2> QED
    BY <1>1, <2>1, <2>2, ShowsStep
<1> QED
  BY <1>2, <1>3, <1>4

LEMMA StyleStep ==
  ASSUME IInv, ApplyAlignment \/ NewStyle \/ UseStyle \/ DeleteStyle \/ SetHeader
  PROVE  IInv'
<1>1. /\ Whole(doc) /\ view \in Views /\ view.fmt \in CharFormats
      /\ From \in Nat /\ To \in Nat /\ From <= To /\ To - From \in Int
  BY IInvIs
<1>2. ASSUME NEW d, Shows(d, view), Edits(doc, d) PROVE IInv'
  BY <1>1, <1>2, ShowsStep
<1>3. ASSUME ApplyAlignment PROVE IInv'
  <2> DEFINE to == IF From = To THEN From + 1 ELSE To
  <2>1. PICK format \in Alignments : Shows(SetParaFormats(doc, From, to, format), view)
    BY <1>3 DEF ApplyAlignment
  <2>2. to \in Nat /\ From <= to /\ format \in ParaFormats
    BY <1>1, AppAssumption
  <2> HIDE DEF to
  <2>3. Edits(doc, SetParaFormats(doc, From, to, format))
    BY <1>1, <2>2, SetParaFormatsIs DEF Stays
  <2> QED
    BY <1>2, <2>1, <2>3
<1>4. ASSUME NewStyle PROVE IInv'
  <2> DEFINE f == IF HasSelection THEN FormatAt(doc, From) ELSE view.fmt
             p == Locate(doc, From).para
             format == doc.paras[p].format
  <2>1. PICK name \in StyleNames : Shows(AddStyle(doc, name, f, format), view)
    BY <1>4 DEF NewStyle
  <2>2. f \in CharFormats
    BY <1>1, FormatAtIs
  <2>3. format \in ParaFormats
    <3>1. p \in 1 .. Len(doc.paras)
      BY <1>1, LocateSpot DEF Spot
    <3> HIDE DEF p
    <3>2. doc.paras[p] \in Paras
      BY <1>1, <3>1, WholeIs, ParasAre
    <3> QED
      BY <3>2 DEF Paras
  <2> HIDE DEF f, format
  <2>4. Edits(doc, AddStyle(doc, name, f, format))
    BY <1>1, <2>2, <2>3, AddStyleIs
  <2> QED
    BY <1>2, <2>1, <2>4
<1>5. ASSUME UseStyle PROVE IInv'
  <2>1. PICK k : Stuck \/ Shows(ApplyStyle(doc, From, To - From, k), view)
    BY <1>5 DEF UseStyle
  <2>2. Edits(doc, ApplyStyle(doc, From, To - From, k))
    BY <1>1, ApplyStyleIs
  <2> QED
    BY <1>2, <2>1, <2>2, StuckStep
<1>6. ASSUME DeleteStyle PROVE IInv'
  <2>1. PICK k \in DOMAIN doc.styles : Shows(RemoveStyle(doc, k), view)
    BY <1>6 DEF DeleteStyle
  <2>2. Edits(doc, RemoveStyle(doc, k))
    BY <1>1, RemoveStyleIs
  <2> QED
    BY <1>2, <2>1, <2>2
<1>7. ASSUME SetHeader PROVE IInv'
  <2> DEFINE t == "title"
  <2>1. Shows(SetHeaderText(doc, t), view) /\ t \in {"none", "title"}
    BY <1>7 DEF SetHeader
  <2> HIDE DEF t
  <2>2. Edits(doc, SetHeaderText(doc, t))
    BY <1>1, <2>1, SetHeaderIs
  <2> QED
    BY <1>2, <2>1, <2>2
<1> QED
  BY <1>3, <1>4, <1>5, <1>6, <1>7

LEMMA SetPageSetupStep ==
  ASSUME IInv, SetPageSetup
  PROVE  IInv'
<1>1. PICK w \in Widths \ {layout.width} :
        Turn /\ layout' = Layout(layout, doc, w) /\ UNCHANGED <<doc, view, clip, mode, ops, files>>
  BY DEF SetPageSetup
<1>2. Fits(layout', doc')
  BY <1>1, LayoutCold
<1>3. Page'
  BY <1>1, <1>2 DEF IInv, Page
<1>4. Scene'
  BY <1>1, TurnIs DEF IInv, Scene
<1>5. FilesAre' /\ CleanMeansSaved'
  BY <1>1 DEF IInv, FilesAre, CleanMeansSaved, files
<1> QED
  BY <1>3, <1>4, <1>5 DEF IInv

LEMMA PlaceStep ==
  ASSUME IInv, PlaceImage \/ DropImage \/ PlaceTable
  PROVE  IInv'
<1>1. Whole(doc) /\ Whole(Cleared) /\ view.caret \in Nat /\ From \in Nat
  BY IInvIs
<1>2. ASSUME PlaceImage PROVE IInv'
  <2>1. Edits(doc, InsertImage(Cleared, From))
    BY <1>1, InsertImageIs, FromCleared
  <2> QED
    BY <1>2, <2>1, ReplacesStep DEF PlaceImage
<1>3. ASSUME DropImage PROVE IInv'
  <2>1. Edits(doc, InsertImage(doc, view.caret))
    BY <1>1, InsertImageIs
  <2> QED
    BY <1>3, <2>1, ReplacesStep DEF DropImage
<1>4. ASSUME PlaceTable PROVE IInv'
  <2> DEFINE two == 2
             o == From + 4
  <2>1. PICK f \in {{}} \cup {{g} : g \in CharFormats \ {Plain}} :
          Replaces(InsertTable(Cleared, From, two, two, f), o)
    BY <1>4 DEF PlaceTable
  <2>2. two \in Nat \ {0} /\ f \in SUBSET CharFormats
    BY <2>1
  <2> HIDE DEF two, o
  <2>3. Edits(Cleared, InsertTable(Cleared, From, two, two, f))
    BY <1>1, <2>2, InsertTableIs
  <2>4. Edits(doc, InsertTable(Cleared, From, two, two, f))
    BY <2>3, FromCleared
  <2> QED
    BY <2>1, <2>4, ReplacesStep
<1> QED
  BY <1>2, <1>3, <1>4

LEMMA TableStep ==
  ASSUME IInv, AddRow \/ DropRow \/ AddColumn \/ DropColumn
  PROVE  IInv'
<1> DEFINE c == view.caret
<1>1. Whole(doc) /\ c \in Nat /\ view \in Views
  BY IInvIs
<1>2. ASSUME NEW d, Edits(doc, d), ChangesColumn(d) PROVE IInv'
  <2> DEFINE o == ColumnCaret(doc, d, view.caret)
             no == FALSE
  <2>1. Shows(d, SetCaret(d, view, o, no))
    BY <1>2 DEF ChangesColumn
  <2> HIDE DEF o, no
  <2> QED
    BY <1>1, <1>2, <2>1, PutsStep
<1>3. ASSUME AddRow PROVE IInv'
  <2>1. Edits(doc, InsertTableRowAfter(doc, c))
    BY <1>1, InsertTableRowAfterIs DEF Grows
  <2> QED
    BY <1>3, <2>1, ReplacesStep DEF AddRow
<1>4. ASSUME DropRow PROVE IInv'
  <2>1. Edits(doc, DeleteTableRow(doc, c))
    BY <1>1, DeleteTableRowIs
  <2> QED
    BY <1>4, <2>1, ReplacesStep DEF DropRow
<1>5. ASSUME AddColumn PROVE IInv'
  <2>1. Edits(doc, InsertTableColumnAt(doc, c))
    BY <1>1, InsertTableColumnAtIs DEF Grows
  <2> QED
    BY <1>2, <1>5, <2>1 DEF AddColumn
<1>6. ASSUME DropColumn PROVE IInv'
  <2>1. IsRow(doc, Locate(doc, c).para) /\ ChangesColumn(DeleteTableColumnAt(doc, c))
    BY <1>6 DEF DropColumn, InRow
  <2>2. Edits(doc, DeleteTableColumnAt(doc, c))
    BY <1>1, <2>1, DeleteTableColumnAtIs
  <2> QED
    BY <1>2, <2>1, <2>2
<1> QED
  BY <1>3, <1>4, <1>5, <1>6

LEMMA MenusStep ==
  ASSUME IInv, Menus
  PROVE  IInv'
BY UndoRedoStep, FindStep, StyleStep, SetPageSetupStep, PlaceStep, TableStep DEF Menus

-----------------------------------------------------------------------------
(* The scripting interface and the files.                                  *)
LEMMA ScriptedSelectionStep ==
  ASSUME IInv, ScriptedSelection
  PROVE  IInv'
BY SelectStep DEF ScriptedSelection

\* A file takes the place of the document: what is left to see is that the
\* files are as they should be.
LEMMA AdoptStep ==
  ASSUME IInv, NEW file, Readable(file), Adopt(file)
  PROVE  Page' /\ Scene' /\ Saved(doc') = file
<1> DEFINE d == Load(doc, file)
           v == SetCaret(d, view, 0, FALSE)
<1>1. Whole(doc) /\ view \in Views
  BY IInvIs
<1>2. Fresh(doc, d) /\ Saved(d) = file
  BY <1>1, LoadIs
<1>3. TurnsTo(d, v)
  BY DEF Adopt
<1> HIDE DEF d
<1>4. Whole(d) /\ Evolves(doc, d) /\ ~d.quiet /\ Exact(d)
  BY <1>2, FreshIs
<1>5. v \in Views
  <2> DEFINE no == FALSE
             o == 0
  <2> HIDE DEF no, o
  <2>1. SetCaret(d, view, o, no) \in Views
    BY <1>1, <1>4, SetCaretIs
  <2> QED
    BY <2>1 DEF no, o
<1> HIDE DEF v
<1>6. /\ doc' = d /\ view' = v /\ layout' = Layout(layout, doc', layout.width)
      /\ turns' \in 0 .. MaxTurns /\ UNCHANGED <<clip, mode, ops>>
  BY <1>3, TurnIs DEF TurnsTo
<1>7. Page'
  BY <1>4, <1>6, PageOn DEF IInv
<1>8. Scene'
  BY <1>5, <1>6 DEF IInv, Scene
<1> QED
  BY <1>2, <1>6, <1>7, <1>8

LEMMA ScriptedTextStep ==
  ASSUME IInv, ScriptedText
  PROVE  IInv'
<1> DEFINE o == 0
           none == {}
           e == Insert(NewDocument, o, ScriptText, none)
           file == Saved(e)
<1>1. Adopt(file) /\ given' = TRUE /\ disk' = disk /\ path' = path
  BY DEF ScriptedText
<1>2. Whole(NewDocument) /\ o \in Nat /\ ScriptText \in Lines /\ none \in SUBSET CharFormats
  BY NewIs, StringsAre
<1> HIDE DEF o, none
<1>3. Edits(NewDocument, e)
  BY <1>2, InsertIs
<1>4. Readable(file)
  BY <1>3, SavedIs DEF Edits
<1> HIDE DEF file
<1>5. Page' /\ Scene'
  BY <1>1, <1>4, AdoptStep
<1>6. FilesAre'
  BY <1>1 DEF IInv, FilesAre
<1>7. CleanMeansSaved'
  BY <1>1 DEF CleanMeansSaved
<1> QED
  BY <1>5, <1>6, <1>7 DEF IInv

LEMMA OpenFileStep ==
  ASSUME IInv, OpenFile
  PROVE  IInv'
<1>1. PICK p \in Paths, keep \in {{}, path} :
        /\ disk' = [q \in Paths |-> IF q \in keep THEN {Saved(doc)} ELSE disk[q]]
        /\ \E file \in disk'[p] : Adopt(file)
        /\ path' = {p} /\ given' = FALSE
  BY DEF OpenFile
<1>2. PICK file \in disk'[p] : Adopt(file)
  BY <1>1
<1>3. Readable(Saved(doc))
  BY IInvIs, SavedIs
<1>4. FilesAre /\ DOMAIN disk = Paths
  BY DEF IInv, FilesAre
<1>5. \A q \in Paths : disk'[q] = IF q \in keep THEN {Saved(doc)} ELSE disk[q]
  BY <1>1
<1>6. \A q \in Paths : \A f \in disk'[q] : Readable(f) /\ disk'[q] = {f}
  BY <1>3, <1>4, <1>5 DEF FilesAre
<1>7. FilesAre'
  <2>1. DOMAIN disk' = Paths
    BY <1>1
  <2> QED
    BY <1>1, <1>6, <2>1 DEF FilesAre
<1>8. Readable(file) /\ disk'[p] = {file}
  BY <1>2, <1>6
<1>9. Page' /\ Scene' /\ Saved(doc') = file
  BY <1>2, <1>8, AdoptStep
<1>10. CleanMeansSaved'
  BY <1>1, <1>8, <1>9 DEF CleanMeansSaved
<1> QED
  BY <1>7, <1>9, <1>10 DEF IInv

\* A document that is no longer marked as changed.
LEMMA UnmarkedIs ==
  ASSUME NEW d, Whole(d), NEW e, e = [d EXCEPT !.modified = FALSE]
  PROVE  /\ Whole(e) /\ e.paras = d.paras /\ e.quiet = d.quiet /\ (Exact(d) => Exact(e))
         /\ Saved(e) = Saved(d)
<1>1. d \in Documents
  BY WholeIs
<1>2. /\ e \in Documents /\ e.paras = d.paras /\ e.next = d.next /\ e.quiet = d.quiet
      /\ e.stray = d.stray /\ e.undo = d.undo /\ e.redo = d.redo
      /\ e.styles = d.styles /\ e.header = d.header
  BY <1>1 DEF Documents
<1>3. Whole(e)
  BY <1>2 DEF Whole
<1>4. Text(e) = Text(d)
  BY <1>2, TextOfParas
<1>5. Exact(d) => Exact(e)
  BY <1>2, <1>4 DEF Exact
<1>6. Saved(e) = Saved(d)
  BY <1>2, SavedAlike
<1> QED
  BY <1>2, <1>3, <1>5, <1>6

LEMMA StoreStep ==
  ASSUME IInv, NEW p \in Paths, Store(p), layout' = layout, Scene'
  PROVE  IInv'
<1>1. /\ disk' = [disk EXCEPT ![p] = {Saved(doc)}] /\ path' = {p} /\ given' = FALSE
      /\ doc' = [doc EXCEPT !.modified = FALSE]
  BY DEF Store
<1>2. Whole(doc) /\ ~doc.quiet /\ Exact(doc) /\ Fits(layout, doc)
  BY DEF IInv, Page
<1>3. /\ Whole(doc') /\ doc'.paras = doc.paras /\ doc'.quiet = doc.quiet /\ Exact(doc')
      /\ Saved(doc') = Saved(doc)
  BY <1>1, <1>2, UnmarkedIs
<1>4. Fits(layout', doc')
  BY <1>2, <1>3, FitsParas
<1>5. Page'
  BY <1>2, <1>3, <1>4 DEF Page
<1>6. Readable(Saved(doc))
  BY <1>2, SavedIs
<1>7. DOMAIN disk' = Paths /\ disk'[p] = {Saved(doc)} /\ \A q \in Paths \ {p} : disk'[q] = disk[q]
  BY <1>1 DEF IInv, FilesAre
<1>8. \A q \in Paths : \A file \in disk'[q] : Readable(file) /\ disk'[q] = {file}
  BY <1>6, <1>7 DEF IInv, FilesAre
<1>9. FilesAre'
  BY <1>1, <1>7, <1>8 DEF FilesAre
<1>10. CleanMeansSaved'
  BY <1>1, <1>3, <1>7 DEF CleanMeansSaved
<1> QED
  BY <1>5, <1>9, <1>10 DEF IInv

LEMMA SaveStep ==
  ASSUME IInv, Save
  PROVE  IInv'
<1>1. Scene'
  BY TurnIs DEF Save, IInv, Scene
<1>2. PICK p \in Paths : DoSave(p)
  BY DEF Save
<1>3. CASE Store(p)
  BY <1>1, <1>3, StoreStep DEF Save
<1>4. CASE UNCHANGED <<doc, disk, path, given>>
  BY <1>1, <1>4, StillStep DEF Save, files
<1> QED
  BY <1>2, <1>3, <1>4 DEF DoSave

LEMMA QuitStep ==
  ASSUME IInv, Quit
  PROVE  IInv'
<1>1. Scene'
  BY DEF Quit, IInv, Scene
<1>2. layout' = layout
  BY DEF Quit
<1>3. CASE UNCHANGED <<doc, disk, path, given>>
  BY <1>1, <1>2, <1>3, StillStep DEF files
<1>4. ASSUME NEW p \in path, Store(p) PROVE IInv'
  <2>1. p \in Paths
    BY DEF IInv, FilesAre
  <2> QED
    BY <1>1, <1>2, <1>4, <2>1, StoreStep
<1> QED
  BY <1>3, <1>4 DEF Quit

-----------------------------------------------------------------------------
(* The window starts with a new document that was never saved.             *)
LEMMA InitIInv == Init => IInv
<1> SUFFICES ASSUME Init PROVE IInv
  OBVIOUS
<1>1. Fresh(NewDocument, NewDocument) /\ doc = NewDocument
  BY NewIs DEF Init
<1>2. Whole(doc) /\ ~doc.quiet /\ Exact(doc)
  BY <1>1, FreshIs
<1>3. Fits(layout, doc)
  <2> DEFINE w == Max(Widths)
             old == [paras |-> <<>>, width |-> 0]
  <2>1. Widths \in SUBSET Nat /\ Widths # {} /\ IsFiniteSet(Widths) /\ 0 \notin Widths
    BY LayoutAssumption, AppAssumption
  <2>2. PICK b \in Nat : \A s \in Widths : s <= b
    BY <2>1, FiniteBound
  <2>3. w \in Widths
    BY <2>1, <2>2, MaxIs
  <2>4. layout = Layout(old, doc, w)
    BY DEF Init
  <2> HIDE DEF w
  <2>5. old.width # w
    BY <2>1, <2>3
  <2> HIDE DEF old
  <2> QED
    BY <2>4, <2>5, LayoutCold
<1>4. Scene
  <2>1. view = [caret |-> 0, anchor |-> None, fmt |-> Plain, over |-> FALSE]
    BY DEF Init
  <2>2. view \in Views
    BY <2>1, WriterAssumption DEF Views
  <2>3. ops \in 0 .. MaxOps /\ turns \in 0 .. MaxTurns
    BY ViewAssumption DEF Init
  <2> QED
    BY <2>2, <2>3 DEF Scene, Init
<1>5. FilesAre
  BY AppAssumption DEF FilesAre, Init
<1>6. CleanMeansSaved
  BY DEF CleanMeansSaved, Init
<1> QED
  BY <1>2, <1>3, <1>4, <1>5, <1>6 DEF IInv, Page

LEMMA NextIInv == IInv /\ [Next]_vars => IInv'
<1> SUFFICES ASSUME IInv, [Next]_vars PROVE IInv'
  OBVIOUS
<1>1. CASE Keys
  BY <1>1, KeysStep
<1>2. CASE Mouse
  BY <1>2, MouseStep
<1>3. CASE Clipboard
  BY <1>3, ClipboardStep
<1>4. CASE ApplyCharFormat
  BY <1>4, ApplyCharFormatStep
<1>5. CASE Menus
  BY <1>5, MenusStep
<1>6. CASE ScriptedSelection
  BY <1>6, ScriptedSelectionStep
<1>7. CASE ScriptedText
  BY <1>7, ScriptedTextStep
<1>8. CASE Save
  BY <1>8, SaveStep
<1>9. CASE OpenFile
  BY <1>9, OpenFileStep
<1>10. CASE Quit
  BY <1>10, QuitStep
<1>11. CASE UNCHANGED vars
  <2>1. UNCHANGED <<doc, view, layout, clip, mode, ops, turns, files>>
    BY <1>11 DEF vars, files
  <2>2. Scene'
    BY <2>1 DEF IInv, Scene
  <2> QED
    BY <2>1, <2>2, StillStep
<1> QED
  BY <1>1, <1>2, <1>3, <1>4, <1>5, <1>6, <1>7, <1>8, <1>9, <1>10, <1>11 DEF Next

(* Whatever the window is told to do, its document stays whole, the layout *)
(* has each paragraph's own lines and breaks its pages by the heights it   *)
(* keeps, the history is exact and the files hold what was saved.  It says *)
(* nothing of the numbers of lists, the columns of tables and the heights  *)
(* of their rows, which the layout keeps though other paragraphs change.   *)
THEOREM Invariance == Spec => []IInv
BY InitIInv, NextIInv, PTL DEF Spec

LEMMA IInvTypes == IInv => TypeOK
<1> SUFFICES ASSUME IInv PROVE TypeOK
  OBVIOUS
<1>1. Whole(doc) /\ ~doc.quiet /\ view \in Views
  BY IInvIs
<1>2. /\ doc.paras \in Seq(Paras) /\ doc.paras # <<>> /\ doc.modified \in BOOLEAN
      /\ DOMAIN doc.paras = 1 .. Len(doc.paras)
  BY <1>1, WholeIs, DocumentsAre, ParasAre
<1>3. ASSUME NEW p \in DOMAIN doc.paras
      PROVE  /\ \A k \in DOMAIN doc.paras[p].text : doc.paras[p].text[k] \in [c : Glyphs, f : CharFormats]
             /\ doc.paras[p].format \in ParaFormats
  <2>1. doc.paras[p] \in Paras
    BY <1>2, ParasAre
  <2> DEFINE t == doc.paras[p].text
             C == [c : Glyphs, f : CharFormats]
  <2>2. t \in Seq(C) /\ doc.paras[p].format \in ParaFormats
    BY <2>1 DEF Paras, Texts
  <2> HIDE DEF t, C
  <2>3. \A k \in DOMAIN t : t[k] \in C
    BY <2>2
  <2> QED
    BY <2>2, <2>3 DEF t, C
<1>4. \A p, q \in DOMAIN doc.paras : doc.paras[p].id = doc.paras[q].id => p = q
  BY <1>1 DEF Whole
<1>5. path \subseteq Paths /\ Cardinality(path) <= 1
  <2>1. CASE path = {}
    BY <2>1, FS_EmptySet
  <2>2. ASSUME NEW p \in Paths, path = {p} PROVE path \subseteq Paths /\ Cardinality(path) <= 1
    BY <2>2, FS_Singleton
  <2> QED
    BY <2>1, <2>2 DEF IInv, FilesAre
<1>6. view.caret \in Nat /\ view.anchor \in Nat \cup {None} /\ view.fmt \in CharFormats
  BY <1>1 DEF Views
<1>7. /\ mode \in {"open", "closed", "stuck"} /\ ops \in 0 .. MaxOps /\ turns \in 0 .. MaxTurns
      /\ given \in BOOLEAN
  BY DEF IInv, Scene, FilesAre
<1> QED
  BY <1>1, <1>2, <1>3, <1>4, <1>5, <1>6, <1>7 DEF TypeOK

(* TypeOK of the whole specification: no order of keys, menus, scripts and *)
(* files gives two paragraphs one identity, leaves the document without a  *)
(* paragraph or leaves it in the quiet of an undo (PWDocument.cpp).        *)
THEOREM TypeCorrect == Spec => []TypeOK
BY Invariance, IInvTypes, PTL

(* LinesAreCurrent: after any operation and at any page width, what the    *)
(* layout keeps from the layouts before (PWLayout.cpp, by a paragraph's    *)
(* identity and revision) is what would be measured now, but for the       *)
(* numbers of lists, the columns of tables and the heights of their rows;  *)
(* and in a document without a table the pages break where they should.    *)
THEOREM LinesStayCurrent == Spec => []LinesAreCurrent
<1>1. IInv => LinesAreCurrent
  <2> SUFFICES ASSUME IInv PROVE LinesAreCurrent
    OBVIOUS
  <2>1. Whole(doc) /\ Fits(layout, doc)
    BY DEF IInv, Page
  <2>2. Current(layout, doc)
    BY <2>1, FitsCurrent
  <2> QED
    BY <2>2, Zenon DEF LinesAreCurrent, Current, OwnLines, Bared
<1> QED
  BY <1>1, Invariance, PTL

(* CleanMeansSaved: a window with nothing marked as changed holds what its *)
(* file holds, or a document that was never changed, so that OpenFile()    *)
(* and QuitRequested() lose no edit without asking, but for a text that a  *)
(* script gave (AdoptDoc).                                                 *)
THEOREM CleanIsSaved == Spec => []CleanMeansSaved
<1>1. IInv => CleanMeansSaved
  BY DEF IInv
<1> QED
  BY <1>1, Invariance, PTL

(* UndoIsExact: Undo() gives back the text before the step on top of its   *)
(* stack, and Redo() the text before the undo, whatever was done, undone   *)
(* and redone before.                                                      *)
THEOREM UndoAndRedoAreExact == Spec => []UndoIsExact
<1>1. IInv => UndoIsExact
  <2> SUFFICES ASSUME IInv, ~doc.stray PROVE UndoIsExact
    BY DEF UndoIsExact
  <2>1. Whole(doc) /\ ~doc.quiet /\ Exact(doc)
    BY IInvIs
  <2>2. doc.undo \in Seq(Steps) /\ doc.redo \in Seq(Steps)
    BY <2>1, WholeIs, DocumentsAre
  <2>3. ASSUME Len(doc.undo) # 0 PROVE Text(Undo(doc, doc.undo[Len(doc.undo)])) = doc.undo[Len(doc.undo)].was
    <3>1. doc.undo # <<>> /\ Last(doc.undo) = doc.undo[Len(doc.undo)]
      BY <2>2, <2>3 DEF Last
    <3> QED
      BY <2>1, <3>1, UndoIs
  <2>4. ASSUME Len(doc.redo) # 0 PROVE Text(Redo(doc, doc.redo[Len(doc.redo)])) = doc.redo[Len(doc.redo)].was
    <3>1. doc.redo # <<>> /\ Last(doc.redo) = doc.redo[Len(doc.redo)]
      BY <2>2, <2>4 DEF Last
    <3> QED
      BY <2>1, <3>1, RedoIs
  <2> QED
    BY <2>3, <2>4, Zenon DEF UndoIsExact
<1> QED
  BY <1>1, Invariance, PTL
=============================================================================
