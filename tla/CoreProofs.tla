----------------------------- MODULE CoreProofs -----------------------------
(***************************************************************************)
(* What is proved of the page parser, the quality score and the compiler   *)
(* of a site, for any texts and lengths, any blocks in any order, any      *)
(* files and any edits while the compiler reads them.                      *)
(***************************************************************************)
EXTENDS CoreFile, DataTheorems, SequenceTheorems

-----------------------------------------------------------------------------
(* The lists and numbers of a page.                                        *)

\* A total is counted from the first number on.
LEMMA TotalSteps ==
    ASSUME NEW N \in Nat, NEW ns \in [1..N -> Nat]
    PROVE  \E t \in [0..N -> Nat] :
              /\ t[0] = 0
              /\ \A m \in 1..N : t[m] = t[m - 1] + ns[m]
              /\ Total(ns) = t[N]
<1> DEFINE step == [p \in (1..N) \X Nat |-> p[2] + ns[p[1]]]
           Body(g) == [s \in SUBSET (1..N) |->
                          IF s = {} THEN 0 ELSE g[s \ {Max(s)}] + ns[Max(s)]]
           iter == CHOOSE g : g = Body(g)
<1>1. step \in [(1..N) \X Nat -> Nat]
  OBVIOUS
<1>2. PICK g \in [SUBSET (1..N) -> Nat] : Folds(g, N, 0, step)
  <2>1. N \in Nat /\ 0 \in Nat
    OBVIOUS
  <2> HIDE DEF step
  <2>2. QED
    BY ONLY <1>1, <2>1, FoldExists
<1>3. ASSUME NEW s \in SUBSET (1..N)
      PROVE  g[s] = IF s = {} THEN 0 ELSE g[s \ {Max(s)}] + ns[Max(s)]
  <2>1. CASE s # {}
    <3>1. Max(s) \in 1..N
      BY <2>1, Largest
    <3>2. g[s \ {Max(s)}] \in Nat
      BY <1>2
    <3>3. <<Max(s), g[s \ {Max(s)}]>> \in (1..N) \X Nat
      BY <3>1, <3>2
    <3>4. step[<<Max(s), g[s \ {Max(s)}]>>] = g[s \ {Max(s)}] + ns[Max(s)]
      BY <3>3
    <3> HIDE DEF step
    <3>5. QED
      BY <1>2, <2>1, <3>4 DEF Folds
  <2>2. QED
    BY <1>2, <2>1 DEF Folds
<1>4. g = Body(g)
  <2> HIDE DEF step
  <2> QED
    BY <1>2, <1>3
<1>5. iter = Body(iter)
  <2> HIDE DEF Body
  <2> QED
    BY <1>4
<1>6. Total(ns) = iter[1..N]
  BY DEF Total, FoldLeft, MapThenFoldSet
<1>7. iter[{}] = 0
  <2>1. {} \in SUBSET (1..N)
    OBVIOUS
  <2> HIDE DEF iter
  <2> QED
    BY <1>5, <2>1
<1>8. ASSUME NEW m \in 1..N
      PROVE  iter[1..m] = iter[1..(m - 1)] + ns[m]
  <2>1. 1..m \in SUBSET (1..N) /\ m \in Nat \ {0}
    OBVIOUS
  <2>2. Max(1..m) = m /\ (1..m) \ {m} = 1..(m - 1) /\ 1..m # {}
    BY <2>1, LargestOfPrefix
  <2> HIDE DEF iter
  <2>3. QED
    BY <1>5, <2>1, <2>2
<1> HIDE DEF iter
<1> DEFINE t == [m \in 0..N |-> iter[1..m]]
<1>9. t[0] = 0
  <2>1. 1..0 = {} /\ 0 \in 0..N
    OBVIOUS
  <2> QED
    BY <1>7, <2>1
<1>10. \A m \in 1..N : t[m] = t[m - 1] + ns[m]
  <2>1. ASSUME NEW m \in 1..N PROVE t[m] = t[m - 1] + ns[m]
    <3>1. m \in 0..N /\ m - 1 \in 0..N
      OBVIOUS
    <3>2. QED
      BY <1>8, <3>1
  <2>2. QED
    BY <2>1
<1>11. \A m \in 0..N : t[m] \in Nat
  <2> DEFINE T == {m \in 0..N : t[m] \in Nat}
  <2> HIDE DEF t
  <2>1. 0 \in T
    BY <1>9
  <2>2. ASSUME NEW m \in 0..(N - 1), m \in T PROVE m + 1 \in T
    <3>1. m + 1 \in 1..N /\ (m + 1) - 1 = m /\ m + 1 \in 0..N
      OBVIOUS
    <3>2. t[m + 1] = t[m] + ns[m + 1]
      BY <1>10, <3>1
    <3>3. QED
      BY <2>2, <3>1, <3>2
  <2> HIDE DEF T
  <2>3. \A m \in 0..N : m \in T
    BY <2>1, <2>2, Upwards
  <2>4. QED
    BY <2>3 DEF T
<1>12. Total(ns) = t[N]
  BY <1>6
<1>13. t \in [0..N -> Nat]
  BY <1>11
<1> HIDE DEF t
<1>14. QED
  BY <1>9, <1>10, <1>12, <1>13

Block == [kind: HtmlKinds \cup MarkdownKinds, text: Text, times: Nat]

\* What is kept of the runs up to each of them.
Keeps(t, N, runs, blocks) ==
    /\ t[0] = <<>>
    /\ \A m \in 1..N :
          t[m] = IF runs[m] \in blocks THEN Append(t[m - 1], runs[m]) ELSE t[m - 1]
    /\ Those(runs, blocks) = t[N]

\* The blocks of some kinds are kept from the first block on (the loops of parse_html
\* and parse_markdown over the lines or elements).
LEMMA ThoseSteps ==
    ASSUME NEW N \in Nat, NEW runs \in [1..N -> Block], NEW blocks
    PROVE  \E t \in [0..N -> Seq(Block)] : Keeps(t, N, runs, blocks)
<1> DEFINE B == Seq(Block)
           one(m, kept) == IF runs[m] \in blocks THEN Append(kept, runs[m]) ELSE kept
           step == [p \in (1..N) \X B |-> one(p[1], p[2])]
           Body(g) == [s \in SUBSET (1..N) |->
                          IF s = {} THEN <<>> ELSE one(Max(s), g[s \ {Max(s)}])]
           iter == CHOOSE g : g = Body(g)
<1>a. ASSUME NEW m \in 1..N, NEW kept \in B PROVE one(m, kept) \in B
  BY AppendProperties
<1>1. step \in [(1..N) \X B -> B]
  <2> HIDE DEF one, B
  <2> QED BY <1>a
<1>2. PICK g \in [SUBSET (1..N) -> B] : Folds(g, N, <<>>, step)
  <2>1. N \in Nat /\ <<>> \in B
    OBVIOUS
  <2> HIDE DEF step, B
  <2>2. QED
    BY ONLY <1>1, <2>1, FoldExists
<1> HIDE DEF B, one
<1>3. ASSUME NEW s \in SUBSET (1..N)
      PROVE  g[s] = IF s = {} THEN <<>> ELSE one(Max(s), g[s \ {Max(s)}])
  <2>1. CASE s # {}
    <3>1. Max(s) \in 1..N
      BY <2>1, Largest
    <3>2. g[s \ {Max(s)}] \in B
      BY <1>2
    <3>3. <<Max(s), g[s \ {Max(s)}]>> \in (1..N) \X B
      BY <3>1, <3>2
    <3>4. step[<<Max(s), g[s \ {Max(s)}]>>] = one(Max(s), g[s \ {Max(s)}])
      BY <3>3
    <3> HIDE DEF step
    <3>5. QED
      BY <1>2, <2>1, <3>4 DEF Folds
  <2>2. QED
    BY <1>2, <2>1 DEF Folds
<1>4. g = Body(g)
  <2> HIDE DEF step
  <2> QED
    BY <1>2, <1>3
<1>5. iter = Body(iter)
  <2> HIDE DEF Body
  <2> QED
    BY <1>4
<1>6. Those(runs, blocks) = iter[1..N]
  BY DEF Those, FoldLeft, MapThenFoldSet, one
<1>7. iter[{}] = <<>>
  <2>1. {} \in SUBSET (1..N)
    OBVIOUS
  <2> HIDE DEF iter
  <2> QED
    BY <1>5, <2>1
<1>8. ASSUME NEW m \in 1..N
      PROVE  iter[1..m] = one(m, iter[1..(m - 1)])
  <2>1. 1..m \in SUBSET (1..N) /\ m \in Nat \ {0}
    OBVIOUS
  <2>2. Max(1..m) = m /\ (1..m) \ {m} = 1..(m - 1) /\ 1..m # {}
    BY <2>1, LargestOfPrefix
  <2> HIDE DEF iter
  <2>3. QED
    BY <1>5, <2>1, <2>2
<1> HIDE DEF iter
<1> DEFINE t == [m \in 0..N |-> iter[1..m]]
<1>9. t[0] = <<>>
  <2>1. 1..0 = {} /\ 0 \in 0..N
    OBVIOUS
  <2> QED
    BY <1>7, <2>1
<1>10. \A m \in 1..N : t[m] = one(m, t[m - 1])
  <2>1. ASSUME NEW m \in 1..N PROVE t[m] = one(m, t[m - 1])
    <3>1. m \in 0..N /\ m - 1 \in 0..N
      OBVIOUS
    <3>2. QED
      BY <1>8, <3>1
  <2>2. QED
    BY <2>1
<1>11. \A m \in 0..N : t[m] \in B
  <2> DEFINE T == {m \in 0..N : t[m] \in B}
  <2> HIDE DEF t
  <2>1. 0 \in T
    <3>1. <<>> \in B /\ 0 \in 0..N
      BY DEF B
    <3>2. QED
      BY <1>9, <3>1
  <2>2. ASSUME NEW m \in 0..(N - 1), m \in T PROVE m + 1 \in T
    <3>1. m + 1 \in 1..N /\ (m + 1) - 1 = m /\ m + 1 \in 0..N
      OBVIOUS
    <3>2. t[m + 1] = one(m + 1, t[m])
      BY <1>10, <3>1
    <3>3. QED
      BY <1>a, <2>2, <3>1, <3>2
  <2> HIDE DEF T
  <2>3. \A m \in 0..N : m \in T
    BY <2>1, <2>2, Upwards
  <2>4. QED
    BY <2>3 DEF T
<1>12. Those(runs, blocks) = t[N]
  BY <1>6
<1>13. t \in [0..N -> B]
  BY <1>11
<1> HIDE DEF t
<1>14. QED
  BY <1>9, <1>10, <1>12, <1>13 DEF one, B, Keeps

\* The lines of a file up to each of them, joined where a match runs over a break.
LinesTo(t, N, runs) ==
    /\ t[0] = <<>>
    /\ \A m \in 1..N : t[m] = JoinLine(t[m - 1], runs[m])
    /\ Lines(runs) = t[N]

\* A line that is joined to the last of some lines, or added to them, leaves lines.
LEMMA JoinLineType ==
    ASSUME NEW lines \in Seq(Block), NEW r \in Block
    PROVE  JoinLine(lines, r) \in Seq(Block)
<1>1. CASE lines # <<>> /\ RunsOver(Last(lines), r)
  <2> DEFINE l == Last(lines)
             joined == [kind |-> JoinedKind(l, r), text |-> Joined[<<l.text, r.text>>], times |-> l.times]
  <2>1. Len(lines) \in DOMAIN lines /\ l = lines[Len(lines)] /\ l \in Block
    BY <1>1, EmptySeq DEF Last
  <2>2. joined \in Block
    <3>1. Joined[<<l.text, r.text>>] \in Text
      BY <1>1, DocumentAssumption DEF RunsOver
    <3>2. JoinedKind(l, r) \in HtmlKinds \cup MarkdownKinds
      BY <2>1 DEF JoinedKind, Block, MarkdownKinds
    <3>3. l.times \in Nat
      BY <2>1 DEF Block
    <3> HIDE DEF l
    <3>4. QED
      BY <3>1, <3>2, <3>3 DEF Block
  <2>3. JoinLine(lines, r) = [lines EXCEPT ![Len(lines)] = joined]
    BY <1>1, <2>1 DEF JoinLine
  <2> HIDE DEF joined
  <2>4. QED
    BY <2>1, <2>2, <2>3
<1>2. CASE ~(lines # <<>> /\ RunsOver(Last(lines), r))
  BY <1>2, AppendProperties DEF JoinLine
<1>3. QED
  BY <1>1, <1>2

\* The lines of a file are read from the first on (parse_markdown).
LEMMA LinesSteps ==
    ASSUME NEW N \in Nat, NEW runs \in [1..N -> Block]
    PROVE  \E t \in [0..N -> Seq(Block)] : LinesTo(t, N, runs)
<1> DEFINE B == Seq(Block)
           one(m, kept) == JoinLine(kept, runs[m])
           step == [p \in (1..N) \X B |-> one(p[1], p[2])]
           Body(g) == [s \in SUBSET (1..N) |->
                          IF s = {} THEN <<>> ELSE one(Max(s), g[s \ {Max(s)}])]
           iter == CHOOSE g : g = Body(g)
<1>a. ASSUME NEW m \in 1..N, NEW kept \in B PROVE one(m, kept) \in B
  BY <1>a, JoinLineType
<1>1. step \in [(1..N) \X B -> B]
  <2> HIDE DEF one, B
  <2> QED BY <1>a
<1>2. PICK g \in [SUBSET (1..N) -> B] : Folds(g, N, <<>>, step)
  <2>1. N \in Nat /\ <<>> \in B
    OBVIOUS
  <2> HIDE DEF step, B
  <2>2. QED
    BY ONLY <1>1, <2>1, FoldExists
<1> HIDE DEF B, one
<1>3. ASSUME NEW s \in SUBSET (1..N)
      PROVE  g[s] = IF s = {} THEN <<>> ELSE one(Max(s), g[s \ {Max(s)}])
  <2>1. CASE s # {}
    <3>1. Max(s) \in 1..N
      BY <2>1, Largest
    <3>2. g[s \ {Max(s)}] \in B
      BY <1>2
    <3>3. <<Max(s), g[s \ {Max(s)}]>> \in (1..N) \X B
      BY <3>1, <3>2
    <3>4. step[<<Max(s), g[s \ {Max(s)}]>>] = one(Max(s), g[s \ {Max(s)}])
      BY <3>3
    <3> HIDE DEF step
    <3>5. QED
      BY <1>2, <2>1, <3>4 DEF Folds
  <2>2. QED
    BY <1>2, <2>1 DEF Folds
<1>4. g = Body(g)
  <2> HIDE DEF step
  <2> QED
    BY <1>2, <1>3
<1>5. iter = Body(iter)
  <2> HIDE DEF Body
  <2> QED
    BY <1>4
<1>6. Lines(runs) = iter[1..N]
  BY DEF Lines, FoldLeft, MapThenFoldSet, one
<1>7. iter[{}] = <<>>
  <2>1. {} \in SUBSET (1..N)
    OBVIOUS
  <2> HIDE DEF iter
  <2> QED
    BY <1>5, <2>1
<1>8. ASSUME NEW m \in 1..N
      PROVE  iter[1..m] = one(m, iter[1..(m - 1)])
  <2>1. 1..m \in SUBSET (1..N) /\ m \in Nat \ {0}
    OBVIOUS
  <2>2. Max(1..m) = m /\ (1..m) \ {m} = 1..(m - 1) /\ 1..m # {}
    BY <2>1, LargestOfPrefix
  <2> HIDE DEF iter
  <2>3. QED
    BY <1>5, <2>1, <2>2
<1> HIDE DEF iter
<1> DEFINE t == [m \in 0..N |-> iter[1..m]]
<1>9. t[0] = <<>>
  <2>1. 1..0 = {} /\ 0 \in 0..N
    OBVIOUS
  <2> QED
    BY <1>7, <2>1
<1>10. \A m \in 1..N : t[m] = one(m, t[m - 1])
  <2>1. ASSUME NEW m \in 1..N PROVE t[m] = one(m, t[m - 1])
    <3>1. m \in 0..N /\ m - 1 \in 0..N
      OBVIOUS
    <3>2. QED
      BY <1>8, <3>1
  <2>2. QED
    BY <2>1
<1>11. \A m \in 0..N : t[m] \in B
  <2> DEFINE T == {m \in 0..N : t[m] \in B}
  <2> HIDE DEF t
  <2>1. 0 \in T
    <3>1. <<>> \in B /\ 0 \in 0..N
      BY DEF B
    <3>2. QED
      BY <1>9, <3>1
  <2>2. ASSUME NEW m \in 0..(N - 1), m \in T PROVE m + 1 \in T
    <3>1. m + 1 \in 1..N /\ (m + 1) - 1 = m /\ m + 1 \in 0..N
      OBVIOUS
    <3>2. t[m + 1] = one(m + 1, t[m])
      BY <1>10, <3>1
    <3>3. QED
      BY <1>a, <2>2, <3>1, <3>2
  <2> HIDE DEF T
  <2>3. \A m \in 0..N : m \in T
    BY <2>1, <2>2, Upwards
  <2>4. QED
    BY <2>3 DEF T
<1>12. Lines(runs) = t[N]
  BY <1>6
<1>13. t \in [0..N -> B]
  BY <1>11
<1> HIDE DEF t
<1>14. QED
  BY <1>9, <1>10, <1>12, <1>13 DEF one, B, LinesTo

\* The texts of the runs up to each of them.
Lists(t, N, runs) ==
    /\ t[0] = <<>>
    /\ \A m \in 1..N : t[m] = t[m - 1] \o [j \in 1..runs[m].times |-> runs[m].text]
    /\ Each(runs) = t[N]

\* A run of equal blocks is written out block by block, from the first run on.
LEMMA EachSteps ==
    ASSUME NEW N \in Nat, NEW runs \in [1..N -> Block]
    PROVE  \E t \in [0..N -> Seq(Text)] : Lists(t, N, runs)
<1> DEFINE B == Seq(Text)
           seqs == [m \in 1..N |-> [j \in 1..runs[m].times |-> runs[m].text]]
           step == [p \in (1..N) \X B |-> p[2] \o seqs[p[1]]]
           Body(f) == [m \in 1..N |-> IF m = 1 THEN seqs[m] ELSE f[m - 1] \o seqs[m]]
           flatten == CHOOSE f : f = Body(f)
<1>1. \A m \in 1..N : seqs[m] \in B
  <2>1. ASSUME NEW m \in 1..N PROVE seqs[m] \in B
    <3>1. runs[m].times \in Nat /\ runs[m].text \in Text
      BY DEF Block
    <3>2. [j \in 1..runs[m].times |-> runs[m].text] \in [1..runs[m].times -> Text]
      BY <3>1
    <3>3. seqs[m] \in [1..runs[m].times -> Text]
      BY <3>2
    <3>4. [1..runs[m].times -> Text] \subseteq Seq(Text)
      BY ONLY <3>1, SeqDef
    <3>5. QED
      BY <3>3, <3>4
  <2>2. QED
    BY <2>1
<1>2. seqs \in [1..N -> B]
  BY <1>1
<1>3. <<>> \in B
  OBVIOUS
<1>4. \A x, y \in B : x \o y \in B
  BY ConcatProperties
<1>5. \A x \in B : <<>> \o x = x
  BY ConcatEmptySeq
<1> HIDE DEF B, seqs
<1>6. step \in [(1..N) \X B -> B]
  BY <1>2, <1>4
<1>7. PICK t \in [0..N -> B] : Recurs(t, N, <<>>, step)
  <2> HIDE DEF step
  <2>1. N \in Nat
    OBVIOUS
  <2>2. QED
    BY ONLY <1>3, <1>6, <2>1, Recursion
<1>8. ASSUME NEW m \in 1..N PROVE t[m] = t[m - 1] \o seqs[m]
  <2>1. m - 1 \in 0..N
    OBVIOUS
  <2>2. t[m - 1] \in B
    BY <1>7, <2>1
  <2>3. <<m, t[m - 1]>> \in (1..N) \X B
    BY <2>2
  <2>4. step[<<m, t[m - 1]>>] = t[m - 1] \o seqs[m]
    BY <2>3
  <2> HIDE DEF step
  <2>5. QED
    BY <1>7, <2>4 DEF Recurs
<1>9. CASE N = 0
  <2>1. seqs = <<>> /\ Each(runs) = seqs
    <3>1. seqs = <<>>
      BY <1>9 DEF seqs
    <3>2. Each(runs) = FlattenSeq(seqs)
      BY DEF Each, seqs
    <3>3. QED
      BY <3>1, <3>2 DEF FlattenSeq
  <2>2. \A m \in 1..N : FALSE
    BY <1>9
  <2>3. QED
    BY <1>7, <1>9, <2>1, <2>2 DEF B, Recurs, Lists
<1>10. CASE N # 0
  <2> DEFINE f == [m \in 1..N |-> t[m]]
  <2>1. f = Body(f)
    <3>1. ASSUME NEW m \in 1..N
          PROVE  f[m] = IF m = 1 THEN seqs[m] ELSE f[m - 1] \o seqs[m]
      <4>1. CASE m = 1
        <5>1. t[m] = t[0] \o seqs[m]
          <6>1. t[m] = t[m - 1] \o seqs[m]
            BY <1>8
          <6>2. QED
            BY <4>1, <6>1
        <5>2. t[0] = <<>> /\ seqs[m] \in B
          BY <1>2, <1>7 DEF Recurs
        <5>3. QED
          BY <1>5, <4>1, <5>1, <5>2
      <4>2. CASE m # 1
        <5>1. m - 1 \in 1..N
          BY <4>2
        <5>2. QED
          BY <1>8, <4>2, <5>1
      <4>3. QED
        BY <4>1, <4>2
    <3>2. f = [m \in 1..N |-> f[m]]
      OBVIOUS
    <3> HIDE DEF f
    <3>3. QED
      BY <3>1, <3>2
  <2>2. flatten = Body(flatten)
    <3> HIDE DEF Body, f
    <3> QED
      BY <2>1
  <2> HIDE DEF f, flatten
  <2>3. \A m \in 1..N : flatten[m] = t[m]
    <3> DEFINE T == {m \in 0..N : m > 0 => flatten[m] = t[m]}
    <3>1. 0 \in T
      OBVIOUS
    <3>2. ASSUME NEW m \in 0..(N - 1), m \in T PROVE m + 1 \in T
      <4>1. m + 1 \in 1..N /\ (m + 1) - 1 = m /\ m + 1 \in 0..N
        OBVIOUS
      <4>2. flatten[m + 1] = IF m + 1 = 1 THEN seqs[m + 1] ELSE flatten[m] \o seqs[m + 1]
        BY <2>2, <4>1
      <4>3. t[m + 1] = t[m] \o seqs[m + 1]
        BY <1>8, <4>1
      <4>4. CASE m = 0
        <5>1. t[0] = <<>> /\ seqs[m + 1] \in B
          BY <1>2, <1>7, <4>1 DEF Recurs
        <5>2. t[m + 1] = seqs[m + 1]
          BY <1>5, <4>3, <4>4, <5>1
        <5>3. flatten[m + 1] = seqs[m + 1]
          BY <4>2, <4>4
        <5>4. QED
          BY <4>1, <5>2, <5>3
      <4>5. CASE m # 0
        <5>1. flatten[m] = t[m] /\ m + 1 # 1
          BY <3>2, <4>5
        <5>2. flatten[m + 1] = t[m + 1]
          BY <4>2, <4>3, <5>1
        <5>3. QED
          BY <4>1, <5>2
      <4>6. QED
        BY <4>4, <4>5
    <3> HIDE DEF T
    <3>3. \A m \in 0..N : m \in T
      BY <3>1, <3>2, Upwards
    <3>4. QED
      BY <3>3 DEF T
  <2>4. Len(seqs) = N
    BY <1>2 DEF seqs
  <2>5. Each(runs) = flatten[N]
    <3>1. Each(runs) = FlattenSeq(seqs)
      BY DEF Each, seqs
    <3>2. FlattenSeq(seqs) = flatten[N]
      BY <1>10, <2>4 DEF FlattenSeq, flatten
    <3>3. QED
      BY <3>1, <3>2
  <2>6. Each(runs) = t[N]
    BY <1>10, <2>3, <2>5
  <2>7. QED
    BY <1>7, <1>8, <2>6 DEF seqs, B, Recurs, Lists
<1>11. QED
  BY <1>9, <1>10

\* The smaller of two numbers.
LEMMA LeastType ==
    ASSUME NEW a \in Nat, NEW b \in Nat
    PROVE  Least(a, b) \in Nat /\ Least(a, b) <= a /\ Least(a, b) <= b
BY DEF Least

\* A total is a number.
LEMMA TotalType ==
    ASSUME NEW N \in Nat, NEW ns \in [1..N -> Nat]
    PROVE  Total(ns) \in Nat
<1>1. N \in 0..N
  OBVIOUS
<1>2. QED
  BY <1>1, TotalSteps

\* A sequence is a function of its positions ...
LEMMA SeqIsFunction ==
    ASSUME NEW S, NEW s \in Seq(S)
    PROVE  Len(s) \in Nat /\ DOMAIN s = 1..Len(s) /\ s \in [1..Len(s) -> S]
OBVIOUS

\* ... and the other way round.
LEMMA FunctionIsSeq ==
    ASSUME NEW S, NEW n \in Nat, NEW s \in [1..n -> S]
    PROVE  s \in Seq(S) /\ Len(s) = n
<1>1. s \in Seq(S)
  BY SeqDef
<1>2. QED
  BY <1>1

\* What is kept of a list of blocks is one.
LEMMA ThoseType ==
    ASSUME NEW runs \in Seq(Block), NEW blocks
    PROVE  Those(runs, blocks) \in Seq(Block)
<1> DEFINE N == Len(runs)
<1>1. N \in Nat /\ runs \in [1..N -> Block] /\ N \in 0..N
  BY SeqIsFunction
<1> HIDE DEF N
<1>2. QED
  BY <1>1, ThoseSteps DEF Keeps

\* ... by its kind or its text ...
LEMMA KeptType ==
    ASSUME NEW runs \in Seq(Block), NEW kinds
    PROVE  Kept(runs, kinds) \in Seq(Block) /\ Shown(runs) \in Seq(Block)
BY ThoseType DEF Kept, Shown

\* ... and so are the lines of a file.
LEMMA LinesType ==
    ASSUME NEW runs \in Seq(Block)
    PROVE  Lines(runs) \in Seq(Block)
<1> DEFINE N == Len(runs)
<1>1. N \in Nat /\ runs \in [1..N -> Block] /\ N \in 0..N
  BY SeqIsFunction
<1> HIDE DEF N
<1>2. QED
  BY <1>1, LinesSteps DEF LinesTo

\* sanitize changes the text of a block, and neither its place nor how often it occurs.
LEMMA SanitizedType ==
    ASSUME NEW runs \in Seq(Block)
    PROVE  /\ Sanitized(runs) \in Seq(Block)
           /\ Len(Sanitized(runs)) = Len(runs)
           /\ \A i \in 1..Len(runs) : /\ Sanitized(runs)[i].text = Clean[runs[i].text]
                                      /\ Sanitized(runs)[i].times = runs[i].times
<1>1. Len(runs) \in Nat /\ DOMAIN runs = 1..Len(runs) /\ \A i \in 1..Len(runs) : runs[i] \in Block
  BY SeqIsFunction
<1>2. ASSUME NEW b \in Block
      PROVE  /\ [b EXCEPT !.text = Clean[@]] \in Block
             /\ [b EXCEPT !.text = Clean[@]].text = Clean[b.text]
             /\ [b EXCEPT !.text = Clean[@]].times = b.times
  BY DocumentAssumption DEF Block
<1>3. Sanitized(runs) = [i \in 1..Len(runs) |-> [runs[i] EXCEPT !.text = Clean[@]]]
  BY <1>1 DEF Sanitized
<1>4. Sanitized(runs) \in [1..Len(runs) -> Block]
  BY <1>1, <1>2, <1>3
<1>5. QED
  BY <1>1, <1>2, <1>3, <1>4, FunctionIsSeq

\* Written out, a list of blocks is a list of texts.
LEMMA EachType ==
    ASSUME NEW runs \in Seq(Block)
    PROVE  Each(runs) \in Seq(Text)
<1> DEFINE N == Len(runs)
<1>1. N \in Nat /\ runs \in [1..N -> Block] /\ N \in 0..N
  BY SeqIsFunction
<1> HIDE DEF N
<1>2. QED
  BY <1>1, EachSteps DEF Lists

\* A list of blocks holds so many.
LEMMA CountType ==
    ASSUME NEW runs \in Seq(Block)
    PROVE  Count(runs) \in Nat
<1>1. Len(runs) \in Nat /\ DOMAIN runs = 1..Len(runs) /\ \A i \in 1..Len(runs) : runs[i] \in Block
  BY SeqIsFunction
<1>2. [i \in DOMAIN runs |-> runs[i].times] \in [1..Len(runs) -> Nat]
  BY <1>1 DEF Block
<1>3. QED
  BY <1>1, <1>2, TotalType DEF Count

\* A list of blocks has so many bytes, with those that its markup adds.
LEMMA BytesType ==
    ASSUME NEW runs \in Seq(Block), NEW extra \in Nat
    PROVE  Bytes(runs, extra) \in Nat
<1>1. Len(runs) \in Nat /\ DOMAIN runs = 1..Len(runs) /\ \A i \in 1..Len(runs) : runs[i] \in Block
  BY SeqIsFunction
<1>2. ASSUME NEW i \in 1..Len(runs)
      PROVE  runs[i].times * (TextLen[runs[i].text] + extra) \in Nat
  <2>1. runs[i].times \in Nat /\ TextLen[runs[i].text] \in Nat
    BY <1>1, DocumentAssumption DEF Block
  <2>2. \A a, b \in Nat : a * (b + extra) \in Nat
    OBVIOUS
  <2>3. QED
    BY ONLY <2>1, <2>2
<1>3. [i \in DOMAIN runs |-> runs[i].times * (TextLen[runs[i].text] + extra)] \in [1..Len(runs) -> Nat]
  BY <1>1, <1>2
<1>4. QED
  BY <1>1, <1>3, TotalType DEF Bytes

Parsed == [title: Text \cup {NoText}, headings: Seq(Block), paragraphs: Seq(Block),
           code: Seq(Block), tables: Seq(Block)]

\* A page parses to a parsed page (parse_html, parse_markdown).
LEMMA ParseType ==
    ASSUME NEW p, p.runs \in Seq(Block)
    PROVE  Parse(p) \in Parsed
<1> DEFINE runs == p.runs
<1>1. ASSUME NEW rows \in Seq(Block), NEW kinds
      PROVE  /\ Kept(rows, kinds) \in Seq(Block) /\ Sanitized(Kept(rows, kinds)) \in Seq(Block)
             /\ Shown(Kept(rows, kinds)) \in Seq(Block) /\ Shown(Sanitized(Kept(rows, kinds))) \in Seq(Block)
  BY KeptType, SanitizedType
<1>2. ASSUME NEW s \in Seq(Block), s # <<>> PROVE s[1].text \in Text /\ Last(s).text \in Text
  <2>1. Len(s) \in 1..Len(s) /\ 1 \in 1..Len(s)
    BY <1>2, EmptySeq
  <2>2. s[1] \in Block /\ s[Len(s)] \in Block
    BY <2>1
  <2>3. QED
    BY <2>2 DEF Last, Block
<1>3. ParseHtml(runs).code \in Seq(Block)
  <2> DEFINE c == Shown(Kept(runs, {"pre", "pre_code"}))
             d == [i \in DOMAIN c |-> [c[i] EXCEPT !.times = IF c[i].kind = "pre" THEN @ ELSE 2 * @]]
  <2>1. c \in Seq(Block)
    BY <1>1
  <2>2. ASSUME NEW b \in Block PROVE [b EXCEPT !.times = IF b.kind = "pre" THEN @ ELSE 2 * @] \in Block
    <3>1. b.times \in Nat /\ 2 * b.times \in Nat
      BY DEF Block
    <3>2. (IF b.kind = "pre" THEN b.times ELSE 2 * b.times) \in Nat
      BY <3>1
    <3>3. QED
      BY <3>2 DEF Block
  <2>3. Len(c) \in Nat /\ DOMAIN c = 1..Len(c) /\ \A i \in 1..Len(c) : c[i] \in Block
    BY <2>1, SeqIsFunction
  <2>4. d \in [1..Len(c) -> Block]
    BY <2>2, <2>3
  <2>5. d \in Seq(Block)
    BY <2>3, <2>4, FunctionIsSeq
  <2>6. ParseHtml(runs).code = d
    BY DEF ParseHtml
  <2>7. QED
    BY <2>5, <2>6
<1>4. ParseHtml(runs) \in Parsed
  <2>1. ParseHtml(runs).headings \in Seq(Block)
    BY <1>1, ConcatProperties DEF ParseHtml
  <2>2. ParseHtml(runs).paragraphs \in Seq(Block) /\ ParseHtml(runs).tables \in Seq(Block)
    BY <1>1 DEF ParseHtml
  <2>3. ParseHtml(runs).title \in Text \cup {NoText}
    BY <1>1, <1>2 DEF ParseHtml
  <2>4. QED
    BY <1>3, <2>1, <2>2, <2>3 DEF Parsed, ParseHtml
<1>5. ParseMarkdown(runs) \in Parsed
  <2>1. <<>> \in Seq(Block)
    OBVIOUS
  <2>a. Lines(runs) \in Seq(Block)
    BY LinesType
  <2>2. (LET t == Sanitized(Kept(Lines(runs), {"#"})) IN
         IF t = <<>> THEN NoText ELSE Last(t).text) \in Text \cup {NoText}
    BY <1>1, <1>2, <2>a
  <2>3. QED
    BY <1>1, <2>1, <2>a, <2>2 DEF Parsed, ParseMarkdown
<1>6. QED
  BY <1>4, <1>5 DEF Parse

\* The summary has a length (generate_summary).
LEMMA SummaryType ==
    ASSUME NEW parsed \in Parsed
    PROVE  SummaryLen(parsed) \in Nat
<1> DEFINE all == Each(parsed.paragraphs)
           said == Summary(parsed)
<1>1. all \in Seq(Text)
  BY EachType DEF Parsed
<1>2. Len(all) \in Nat /\ Least(3, Len(all)) \in 0..Len(all)
  <2>1. Len(all) \in Nat
    BY <1>1
  <2>2. QED
    BY ONLY <2>1 DEF Least
<1>3. said \in Seq(Text)
  <2>1. said = SubSeq(all, 1, Least(3, Len(all)))
    BY DEF Summary
  <2> HIDE DEF all, said
  <2>2. QED
    BY <1>1, <1>2, <2>1
<1> HIDE DEF said
<1>4. Len(said) \in Nat /\ DOMAIN said = 1..Len(said) /\ \A i \in 1..Len(said) : said[i] \in Text
  BY <1>3, SeqIsFunction
<1>5. ASSUME NEW i \in 1..Len(said)
      PROVE  TextLen[said[i]] + (IF i > 1 THEN 1 ELSE 0) \in Nat
  BY <1>4, DocumentAssumption
<1>6. [i \in DOMAIN said |-> TextLen[said[i]] + (IF i > 1 THEN 1 ELSE 0)] \in [1..Len(said) -> Nat]
  BY <1>4, <1>5
<1>7. QED
  BY <1>4, <1>6, TotalType DEF SummaryLen, said

\* The pairs are a list of questions, with an answer or none (generate_qa_pairs).
LEMMA PairsType ==
    ASSUME NEW parsed \in Parsed
    PROVE  /\ Len(QaPairs(parsed)) \in Nat /\ DOMAIN QaPairs(parsed) = 1..Len(QaPairs(parsed))
           /\ \A k \in DOMAIN QaPairs(parsed) :
                 QaPairs(parsed)[k] \in [question: Text, answer: Text \cup {NoText}]
<1> DEFINE asked == Each(parsed.headings)
           said == Each(parsed.paragraphs)
           n == Least(20, Len(asked))
<1>1. asked \in Seq(Text) /\ said \in Seq(Text)
  BY EachType DEF Parsed
<1>2. n \in Nat /\ n <= Len(asked) /\ Len(asked) \in Nat /\ Len(said) \in Nat
  <2>1. Len(asked) \in Nat /\ Len(said) \in Nat
    BY <1>1
  <2>2. QED
    BY ONLY <2>1 DEF Least
<1>3. QaPairs(parsed) = [k \in 1..n |-> [question |-> asked[k], answer |-> IF k <= Len(said) THEN said[k] ELSE NoText]]
  BY DEF QaPairs
<1> HIDE DEF asked, said, n
<1>4. ASSUME NEW k \in 1..n
      PROVE  [question |-> asked[k], answer |-> IF k <= Len(said) THEN said[k] ELSE NoText]
                \in [question: Text, answer: Text \cup {NoText}]
  <2>1. asked[k] \in Text
    BY <1>1, <1>2
  <2>2. (IF k <= Len(said) THEN said[k] ELSE NoText) \in Text \cup {NoText}
    BY <1>1, <1>2
  <2>3. QED
    BY <2>1, <2>2
<1>5. QaPairs(parsed) \in [1..n -> [question: Text, answer: Text \cup {NoText}]]
  BY <1>3, <1>4
<1>6. QED
  BY <1>2, <1>5, FunctionIsSeq

\* The estimate of tokens is a number (estimate_tokens).
LEMMA TokensType ==
    ASSUME NEW parsed \in Parsed
    PROVE  Tokens(parsed) \in Nat
<1> DEFINE pairs == QaPairs(parsed)
           answerLen(k) == IF pairs[k].answer = NoText THEN 34 ELSE TextLen[pairs[k].answer]
           each == [k \in DOMAIN pairs |->
                       (TextLen[pairs[k].question] + 9) \div 4 + answerLen(k) \div 4]
<1>1. /\ Len(pairs) \in Nat /\ DOMAIN pairs = 1..Len(pairs)
      /\ \A k \in DOMAIN pairs : pairs[k] \in [question: Text, answer: Text \cup {NoText}]
  BY PairsType
<1>2. Tokens(parsed) = SummaryLen(parsed) \div 4 + Total(each)
  BY DEF Tokens
<1> HIDE DEF pairs
<1>3. ASSUME NEW k \in DOMAIN pairs
      PROVE  (TextLen[pairs[k].question] + 9) \div 4 + answerLen(k) \div 4 \in Nat
  <2>1. TextLen[pairs[k].question] \in Nat /\ answerLen(k) \in Nat
    BY <1>1, DocumentAssumption
  <2> HIDE DEF answerLen
  <2>2. \A a, b \in Nat : (a + 9) \div 4 + b \div 4 \in Nat
    OBVIOUS
  <2>3. QED
    BY ONLY <2>1, <2>2
<1>4. each \in [1..Len(pairs) -> Nat]
  BY <1>1, <1>3
<1> HIDE DEF each
<1>5. Total(each) \in Nat
  BY <1>1, <1>4, TotalType
<1>6. SummaryLen(parsed) \in Nat
  BY SummaryType
<1>7. QED
  BY <1>2, <1>5, <1>6

\* The markdown of a page has a length (generate_markdown) ...
LEMMA MarkdownLenType ==
    ASSUME NEW parsed \in Parsed
    PROVE  MarkdownLen(parsed) \in Nat
<1>1. parsed.title \in Text \cup {NoText} /\ parsed.headings \in Seq(Block)
      /\ parsed.paragraphs \in Seq(Block) /\ parsed.code \in Seq(Block)
  BY DEF Parsed
<1>2. Bytes(parsed.headings, 5) \in Nat /\ Bytes(parsed.paragraphs, 2) \in Nat /\ Bytes(parsed.code, 10) \in Nat
  BY <1>1, BytesType
<1>3. (IF parsed.title = NoText THEN 0 ELSE TextLen[parsed.title] + 4) \in Nat
  BY <1>1, DocumentAssumption
<1>4. QED
  BY <1>2, <1>3 DEF MarkdownLen

\* ... and so many hash marks in front of headings (calculate_quality_score counts them).
LEMMA HashMarksType ==
    ASSUME NEW p, p.runs \in Seq(Block), NEW parsed \in Parsed
    PROVE  HashMarks(p, parsed) \in Nat
<1>1. parsed.headings \in Seq(Block)
  BY DEF Parsed
<1>2. Count(parsed.headings) \in Nat /\ Count(Kept(Lines(p.runs), {"####"})) \in Nat
  BY <1>1, CountType, LinesType, KeptType
<1>3. QED
  BY <1>2 DEF HashMarks

\* A page scores 50 at least, the premium of its signature.
LEMMA ScoreType ==
    ASSUME NEW p, p.runs \in Seq(Block)
    PROVE  QualityScore(p) \in Nat /\ QualityScore(p) >= 50
<1> DEFINE parsed == Parse(p)
           base == Least(MarkdownLen(parsed), 5000) \div 10 + 5 * HashMarks(p, parsed)
                   + 15 * Count(parsed.tables) + 10 * Count(parsed.code)
           summary == IF SummaryLen(parsed) > 50 THEN Least(SummaryLen(parsed), 500) \div 5 ELSE 0
           times == Relevance(Len(QaPairs(parsed)))
<1>1. QualityScore(p) = ((base + 50 + summary) * times) \div 10
  BY DEF QualityScore, ScoreOfParsed
<1>2. parsed \in Parsed
  BY ParseType
<1> HIDE DEF parsed
<1>3. base \in Nat
  <2>1. MarkdownLen(parsed) \in Nat /\ HashMarks(p, parsed) \in Nat
    BY <1>2, MarkdownLenType, HashMarksType
  <2>2. Count(parsed.tables) \in Nat /\ Count(parsed.code) \in Nat
    BY <1>2, CountType DEF Parsed
  <2>3. Least(MarkdownLen(parsed), 5000) \in Nat
    BY ONLY <2>1 DEF Least
  <2>4. Least(MarkdownLen(parsed), 5000) \div 10 \in Nat
    BY ONLY <2>3
  <2>5. QED
    BY <2>1, <2>2, <2>4
<1>4. summary \in Nat
  <2>1. SummaryLen(parsed) \in Nat
    BY <1>2, SummaryType
  <2>2. Least(SummaryLen(parsed), 500) \in Nat
    BY ONLY <2>1 DEF Least
  <2>3. Least(SummaryLen(parsed), 500) \div 5 \in Nat
    BY ONLY <2>2
  <2>4. QED
    BY <2>3
<1>5. times \in {10, 12, 15, 20, 30}
  BY DEF Relevance
<1> HIDE DEF base, summary, times
<1>6. \A n \in Nat : \A r \in {10, 12, 15, 20, 30} : ((n + 50) * r) \div 10 \in Nat /\ ((n + 50) * r) \div 10 >= 50
  OBVIOUS
<1>7. base + 50 + summary = (base + summary) + 50 /\ base + summary \in Nat
  BY <1>3, <1>4
<1>8. QED
  BY <1>1, <1>5, <1>6, <1>7

\* Sorting puts every page in one place, by path.
LEMMA SortedIs ==
    ASSUME NEW n \in Nat, NEW s, DOMAIN s = 1..n, \A i \in 1..n : s[i].path \in Nat
    PROVE  \E q \in Bijection(1..n, 1..n) :
              /\ Sorted(s) = [k \in 1..n |-> s[q[k]]]
              /\ \A k, l \in 1..n : k < l => s[q[k]].path <= s[q[l]].path
<1> DEFINE before == [i \in 1..n |-> Before(s, i)]
           rank == [i \in 1..n |-> Cardinality(before[i])]
           q == [k \in 1..n |-> CHOOSE i \in 1..n : rank[i] = k - 1]
<1>1. OrdersTotally(before, 1..n)
  <2>1. before \in [1..n -> SUBSET (1..n)]
    BY DEF Before
  <2>2. ASSUME NEW i \in 1..n, NEW j \in before[i] PROVE before[j] \subseteq before[i]
    BY <2>2 DEF Before
  <2>3. \A i \in 1..n : i \notin before[i]
    BY DEF Before
  <2>4. ASSUME NEW i \in 1..n, NEW j \in 1..n, i # j PROVE i \in before[j] \/ j \in before[i]
    BY <2>4 DEF Before
  <2> HIDE DEF before
  <2>5. QED
    BY <2>1, <2>2, <2>3, <2>4 DEF OrdersTotally
<1>2. IsFiniteSet(1..n) /\ Cardinality(1..n) = n
  <2>1. 1 \in Int /\ n \in Int
    OBVIOUS
  <2>2. QED
    BY <2>1, FS_Interval
<1> HIDE DEF before
<1>3. rank \in Bijection(1..n, 0..(n - 1))
  BY <1>1, <1>2, Ranked
<1>4. ASSUME NEW k \in 1..n PROVE \E i \in 1..n : rank[i] = k - 1
  <2>1. k - 1 \in 0..(n - 1)
    OBVIOUS
  <2> HIDE DEF rank
  <2>2. QED
    BY <1>3, <2>1 DEF Bijection, Surjection
<1>5. ASSUME NEW i \in 1..n, NEW j \in 1..n, rank[i] = rank[j] PROVE i = j
  <2> HIDE DEF rank
  <2> QED
    BY <1>3, <1>5 DEF Bijection, Injection, IsInjective
<1>6. Sorted(s) = [k \in 1..n |-> s[q[k]]]
  <2>1. ASSUME NEW k \in 1..n
        PROVE  (CHOOSE i \in 1..n : Cardinality(Before(s, i)) = k - 1) = q[k]
    BY DEF before
  <2>2. Sorted(s) = [k \in 1..n |-> s[CHOOSE i \in 1..n : Cardinality(Before(s, i)) = k - 1]]
    BY DEF Sorted
  <2> HIDE DEF q
  <2>3. QED
    BY <2>1, <2>2
<1>7. \A i \in 1..n : rank[i] \in 0..(n - 1)
  BY <1>3 DEF Bijection, Injection
<1> HIDE DEF rank
<1>8. ASSUME NEW k \in 1..n PROVE q[k] \in 1..n /\ rank[q[k]] = k - 1
  BY <1>4
<1> HIDE DEF q
<1>9. q \in Bijection(1..n, 1..n)
  <2>1. q \in [1..n -> 1..n]
    BY <1>8 DEF q
  <2>2. \A k, l \in 1..n : q[k] = q[l] => k = l
    <3>1. ASSUME NEW k \in 1..n, NEW l \in 1..n, q[k] = q[l] PROVE k = l
      <4>1. k - 1 = l - 1
        BY <1>8, <3>1
      <4>2. QED
        BY <4>1
    <3>2. QED
      BY <3>1
  <2>3. \A i \in 1..n : \E k \in 1..n : q[k] = i
    <3>1. ASSUME NEW i \in 1..n PROVE \E k \in 1..n : q[k] = i
      <4>1. rank[i] + 1 \in 1..n /\ (rank[i] + 1) - 1 = rank[i]
        BY <1>7
      <4>2. q[rank[i] + 1] = i
        BY <1>5, <1>8, <4>1
      <4>3. QED
        BY <4>1, <4>2
    <3>2. QED
      BY <3>1
  <2>4. QED
    BY <2>1, <2>2, <2>3 DEF Bijection, Injection, IsInjective, Surjection
<1>10. ASSUME NEW k \in 1..n, NEW l \in 1..n, k < l
       PROVE  s[q[k]].path <= s[q[l]].path
  <2>1. rank[q[k]] < rank[q[l]] /\ q[k] \in 1..n /\ q[l] \in 1..n
    BY <1>8, <1>10
  <2>2. q[k] # q[l] /\ q[l] \notin before[q[k]]
    <3>1. ASSUME q[l] \in before[q[k]] PROVE FALSE
      <4>1. Cardinality(before[q[l]]) < Cardinality(before[q[k]])
        BY <1>1, <1>2, <2>1, <3>1, RankGrows
      <4>2. rank[q[l]] < rank[q[k]]
        BY <2>1, <4>1 DEF rank
      <4>3. QED
        BY <1>7, <2>1, <4>2
    <3>2. rank[q[k]] \in Int /\ rank[q[k]] # rank[q[l]]
      BY <1>7, <2>1
    <3>3. QED
      BY <3>1, <3>2
  <2>3. q[k] \in before[q[l]]
    BY <1>1, <2>1, <2>2 DEF OrdersTotally
  <2>4. QED
    BY <2>1, <2>3 DEF before, Before
<1>11. QED
  BY <1>6, <1>9, <1>10

\* The best page is as good as any, and the last of its like; the worst the first.
LEMMA BestIs ==
    ASSUME NEW n \in Nat \ {0}, NEW s, DOMAIN s = 1..n, \A i \in 1..n : s[i].quality_score \in Nat
    PROVE  /\ \E b \in 1..n : /\ BestOf(s) = s[b]
                              /\ \A j \in 1..n : \/ s[j].quality_score < s[b].quality_score
                                                 \/ s[j].quality_score = s[b].quality_score /\ j <= b
           /\ \E w \in 1..n : /\ WorstOf(s) = s[w]
                              /\ \A j \in 1..n : \/ s[j].quality_score > s[w].quality_score
                                                 \/ s[j].quality_score = s[w].quality_score /\ j >= w
<1>1. IsFiniteSet(1..n) /\ 1..n # {}
  <2>1. 1 \in Int /\ n \in Int /\ 1 \in 1..n
    OBVIOUS
  <2>2. QED
    BY <2>1, FS_Interval
<1>2. \E b \in 1..n : \A j \in 1..n : j # b => j \in Worse(s, b)
  <2> DEFINE before == [i \in 1..n |-> Worse(s, i)]
  <2>1. before \in [1..n -> SUBSET (1..n)] /\ \A i \in 1..n : i \notin before[i]
    BY DEF Worse
  <2>2. ASSUME NEW i \in 1..n, NEW j \in before[i] PROVE before[j] \subseteq before[i]
    BY <2>2 DEF Worse
  <2>3. ASSUME NEW i \in 1..n, NEW j \in 1..n, i # j PROVE i \in before[j] \/ j \in before[i]
    BY <2>3 DEF Worse
  <2>4. \A i \in 1..n : before[i] = Worse(s, i)
    OBVIOUS
  <2> HIDE DEF before
  <2>5. OrdersTotally(before, 1..n)
    BY <2>1, <2>2, <2>3 DEF OrdersTotally
  <2>6. \E e \in 1..n : \A d \in 1..n : d # e => d \in before[e]
    BY ONLY <1>1, <2>5, HasLast
  <2>7. QED
    BY <2>4, <2>6
<1>3. \E w \in 1..n : \A j \in 1..n : j # w => j \in Better(s, w)
  <2> DEFINE before == [i \in 1..n |-> Better(s, i)]
  <2>1. before \in [1..n -> SUBSET (1..n)] /\ \A i \in 1..n : i \notin before[i]
    BY DEF Better
  <2>2. ASSUME NEW i \in 1..n, NEW j \in before[i] PROVE before[j] \subseteq before[i]
    BY <2>2 DEF Better
  <2>3. ASSUME NEW i \in 1..n, NEW j \in 1..n, i # j PROVE i \in before[j] \/ j \in before[i]
    BY <2>3 DEF Better
  <2>4. \A i \in 1..n : before[i] = Better(s, i)
    OBVIOUS
  <2> HIDE DEF before
  <2>5. OrdersTotally(before, 1..n)
    BY <2>1, <2>2, <2>3 DEF OrdersTotally
  <2>6. \E e \in 1..n : \A d \in 1..n : d # e => d \in before[e]
    BY ONLY <1>1, <2>5, HasLast
  <2>7. QED
    BY <2>4, <2>6
<1>4. \E b \in 1..n : BestOf(s) = s[b] /\ \A j \in 1..n : j # b => j \in Worse(s, b)
  <2> DEFINE b == CHOOSE i \in DOMAIN s : DOMAIN s \subseteq Worse(s, i) \cup {i}
  <2>1. \E i \in DOMAIN s : DOMAIN s \subseteq Worse(s, i) \cup {i}
    BY <1>2
  <2>2. b \in 1..n /\ 1..n \subseteq Worse(s, b) \cup {b}
    BY <2>1
  <2>3. BestOf(s) = s[b]
    BY DEF BestOf
  <2> HIDE DEF b
  <2>4. QED
    BY <2>2, <2>3
<1>5. \E w \in 1..n : WorstOf(s) = s[w] /\ \A j \in 1..n : j # w => j \in Better(s, w)
  <2> DEFINE w == CHOOSE i \in DOMAIN s : DOMAIN s \subseteq Better(s, i) \cup {i}
  <2>1. \E i \in DOMAIN s : DOMAIN s \subseteq Better(s, i) \cup {i}
    BY <1>3
  <2>2. w \in 1..n /\ 1..n \subseteq Better(s, w) \cup {w}
    BY <2>1
  <2>3. WorstOf(s) = s[w]
    BY DEF WorstOf
  <2> HIDE DEF w
  <2>4. QED
    BY <2>2, <2>3
<1>6. QED
  BY <1>4, <1>5 DEF Worse, Better

-----------------------------------------------------------------------------
(* The compiler of a site.                                                 *)

PageFile == [path: Path, content: Contents]
Signed == {CorePage(p, h) : p \in PageFile, h \in Nat}

WalkTypes ==
    /\ files \in [Path -> Contents \cup {Unreadable, Absent, Unlisted}]
    /\ phase \in {"idle", "walk", "pages", "done", "failed", "panicked"}
    /\ listed \subseteq Path
    /\ pages \in Seq(PageFile) /\ corePages \in Seq(Signed)
    /\ begun \in Nat /\ hour \in Nat /\ begun <= hour
    /\ phase = "idle" => edited = {}

\* A file is read once.
EachOnce ==
    /\ \A i \in 1..Len(pages) : pages[i].path \notin listed
    /\ \A i, j \in 1..Len(pages) : pages[i].path = pages[j].path => i = j

\* A file left alone was read as it stands; if it can be listed, it was read or is still
\* to be.
ReadTrue ==
    /\ \A i \in 1..Len(pages) :
          pages[i].path \notin edited => files[pages[i].path] = pages[i].content
    /\ phase = "idle" => pages = <<>>
    /\ phase # "idle" => \A f \in Path \ edited :
          files[f] \notin {Absent, Unlisted} <=> f \in listed \/ \E i \in 1..Len(pages) : pages[i].path = f
    /\ phase \in {"pages", "done", "panicked"} => listed = {}

\* Every page was compiled in an hour since the site id was made.
Compiled ==
    /\ phase \in {"idle", "walk"} => corePages = <<>>
    /\ Len(corePages) <= Len(pages)
    /\ \A i \in 1..Len(corePages) :
          \E h \in begun..hour : corePages[i] = CorePage(pages[i], h)

Finished ==
    core # NoCore => /\ phase = "done" /\ Len(corePages) = Len(pages)
                     /\ core = CoreOf(corePages)

Excused ==
    /\ phase = "failed" => \/ edited # {} \/ ~DomainIsValid(domain)
                           \/ \E f \in Path : files[f] = Unreadable
    /\ phase = "panicked" => CutInText(FirstParagraphs(corePages)) /\ core = NoCore

CoreInv == WalkTypes /\ EachOnce /\ ReadTrue /\ Compiled /\ Finished /\ Excused

\* The invariant holds before a site is compiled ...
LEMMA CoreInitial ==
    ASSUME CoreInit
    PROVE  CoreInv
<1>1. Len(<<>>) = 0 /\ <<>> \in Seq(PageFile) /\ <<>> \in Seq(Signed)
  OBVIOUS
<1>2. pages = <<>> /\ corePages = <<>> /\ core = NoCore /\ phase = "idle" /\ listed = {}
      /\ begun = 0 /\ hour = 0 /\ edited = {} /\ files \in [Path -> Contents \cup {Unreadable, Absent, Unlisted}]
  BY DEF CoreInit
<1>3. WalkTypes
  BY ONLY <1>1, <1>2 DEF WalkTypes
<1>4. EachOnce /\ ReadTrue /\ Compiled
  BY ONLY <1>1, <1>2 DEF EachOnce, ReadTrue, Compiled
<1>5. Finished /\ Excused
  BY ONLY <1>2 DEF Finished, Excused
<1>6. QED
  BY <1>3, <1>4, <1>5 DEF CoreInv

\* A page that was read is appended.
LEMMA PageAppended ==
    ASSUME NEW S, NEW s \in Seq(S), NEW e \in S
    PROVE  /\ Append(s, e) \in Seq(S) /\ Len(Append(s, e)) = Len(s) + 1
           /\ Len(s) \in Nat
           /\ \A i \in 1..Len(s) : Append(s, e)[i] = s[i]
           /\ Append(s, e)[Len(s) + 1] = e
BY AppendProperties

\* ... as a file of the walk is read (compile_directory) ...
LEMMA ReadFileKeeps ==
    ASSUME CoreInv, NEW f \in Path, ReadFile(f)
    PROVE  CoreInv'
<1> DEFINE new == [path |-> f, content |-> files[f]]
           n == Len(pages)
<1>1. /\ phase = "walk" /\ f \in listed /\ files[f] \in Contents
      /\ listed' = listed \ {f} /\ pages' = Append(pages, new)
      /\ UNCHANGED <<files, edited, domain, phase, corePages, begun, hour, core>>
  BY DEF ReadFile
<1>2. new \in PageFile /\ new.path = f /\ new.content = files[f]
  BY <1>1 DEF PageFile
<1>3. WalkTypes /\ EachOnce /\ ReadTrue /\ Compiled /\ Finished /\ Excused
  BY DEF CoreInv
<1>4. pages \in Seq(PageFile)
  BY <1>3 DEF WalkTypes
<1> HIDE DEF new, n
<1>5. /\ pages' \in Seq(PageFile) /\ Len(pages') = n + 1 /\ n \in Nat
      /\ \A i \in 1..n : pages'[i] = pages[i]
      /\ pages'[n + 1] = new
  BY <1>1, <1>2, <1>4, PageAppended DEF n
<1>6. \A i \in 1..(n + 1) : i \in 1..n \/ i = n + 1
  BY <1>5
<1>7. WalkTypes'
  BY <1>1, <1>3, <1>5 DEF WalkTypes
<1>8. EachOnce'
  <2>1. \A i \in 1..n : pages[i].path # f
    BY <1>1, <1>3 DEF EachOnce, n
  <2>2. ASSUME NEW i \in 1..(n + 1) PROVE pages'[i].path \notin listed'
    <3>1. CASE i \in 1..n
      BY <1>1, <1>3, <1>5, <3>1 DEF EachOnce, n
    <3>2. CASE i = n + 1
      BY <1>1, <1>2, <1>5, <3>2
    <3>3. QED
      BY <1>6, <3>1, <3>2
  <2>3. ASSUME NEW i \in 1..(n + 1), NEW j \in 1..(n + 1), pages'[i].path = pages'[j].path PROVE i = j
    <3>1. CASE i \in 1..n /\ j \in 1..n
      BY <1>3, <1>5, <2>3, <3>1 DEF EachOnce, n
    <3>2. CASE i = n + 1 /\ j \in 1..n
      BY <1>2, <1>5, <2>1, <2>3, <3>2
    <3>3. CASE j = n + 1 /\ i \in 1..n
      BY <1>2, <1>5, <2>1, <2>3, <3>3
    <3>4. QED
      BY <1>6, <3>1, <3>2, <3>3
  <2>4. QED
    BY <1>5, <2>2, <2>3 DEF EachOnce
<1>9. ReadTrue'
  <2>1. ASSUME NEW i \in 1..(n + 1), pages'[i].path \notin edited'
        PROVE  files'[pages'[i].path] = pages'[i].content
    <3>1. CASE i \in 1..n
      BY <1>1, <1>3, <1>5, <2>1, <3>1 DEF ReadTrue, n
    <3>2. CASE i = n + 1
      BY <1>1, <1>2, <1>5, <3>2
    <3>3. QED
      BY <1>6, <3>1, <3>2
  <2>2. ASSUME NEW g \in Path \ edited'
        PROVE  files'[g] \notin {Absent, Unlisted} <=> g \in listed' \/ \E i \in 1..(n + 1) : pages'[i].path = g
    <3>1. files[g] \notin {Absent, Unlisted} <=> g \in listed \/ \E i \in 1..n : pages[i].path = g
      BY <1>1, <1>3, <2>2 DEF ReadTrue, n
    <3>2. (\E i \in 1..(n + 1) : pages'[i].path = g) <=> g = f \/ \E i \in 1..n : pages[i].path = g
      BY <1>2, <1>5, <1>6
    <3>3. QED
      BY <1>1, <3>1, <3>2
  <2>3. QED
    BY <1>1, <1>5, <2>1, <2>2 DEF ReadTrue
<1>10. Compiled'
  <2>1. corePages = <<>> /\ corePages' = <<>> /\ Len(<<>>) = 0
    BY <1>1, <1>3 DEF Compiled
  <2>2. QED
    BY <1>5, <2>1 DEF Compiled
<1>11. Finished'
  BY <1>1, <1>3 DEF Finished
<1>12. Excused'
  BY <1>1, <1>3 DEF Excused
<1>13. QED
  BY <1>7, <1>8, <1>9, <1>10, <1>11, <1>12 DEF CoreInv

\* ... as its author edits, adds or deletes one ...
LEMMA EditKeeps ==
    ASSUME CoreInv, NEW f \in Path, NEW c \in Contents \cup {Absent}, Edit(f, c)
    PROVE  CoreInv'
<1>1. /\ phase = "walk" /\ edited' = edited \cup {f} /\ files' = [files EXCEPT ![f] = c]
      /\ UNCHANGED <<domain, phase, listed, pages, corePages, begun, hour, core>>
  BY DEF Edit
<1>2. WalkTypes /\ EachOnce /\ ReadTrue /\ Compiled /\ Finished /\ Excused
  BY DEF CoreInv
<1>3. \A g \in Path : g \notin edited' => g \notin edited /\ files'[g] = files[g]
  BY <1>1, <1>2 DEF WalkTypes
<1>4. \A i \in 1..Len(pages) : pages[i].path \in Path
  <2>1. pages \in Seq(PageFile)
    BY <1>2 DEF WalkTypes
  <2>2. \A i \in 1..Len(pages) : pages[i] \in PageFile
    BY <2>1
  <2>3. QED
    BY <2>2 DEF PageFile
<1>5. WalkTypes'
  BY <1>1, <1>2 DEF WalkTypes
<1>6. EachOnce'
  BY <1>1, <1>2 DEF EachOnce
<1>7. ReadTrue'
  BY <1>1, <1>2, <1>3, <1>4 DEF ReadTrue
<1>8. Compiled'
  BY <1>1, <1>2 DEF Compiled
<1>9. Finished'
  BY <1>1, <1>2 DEF Finished
<1>10. Excused'
  BY <1>1 DEF Excused
<1>11. QED
  BY <1>5, <1>6, <1>7, <1>8, <1>9, <1>10 DEF CoreInv

\* ... as a page is compiled (compile_core) ...
LEMMA CompilePageKeeps ==
    ASSUME CoreInv, CompilePage
    PROVE  CoreInv'
<1> DEFINE n == Len(corePages)
           new == CorePage(pages[n + 1], hour)
<1>1. /\ phase = "pages" /\ n < Len(pages) /\ corePages' = Append(corePages, new)
      /\ UNCHANGED <<files, edited, domain, phase, listed, pages, begun, hour, core>>
  BY DEF CompilePage
<1>2. WalkTypes /\ EachOnce /\ ReadTrue /\ Compiled /\ Finished /\ Excused
  BY DEF CoreInv
<1>3. pages \in Seq(PageFile) /\ corePages \in Seq(Signed) /\ hour \in Nat /\ begun \in Nat /\ begun <= hour
  BY <1>2 DEF WalkTypes
<1>4. n \in Nat /\ Len(pages) \in Nat /\ n + 1 \in 1..Len(pages)
  BY <1>1, <1>3
<1>5. new \in Signed
  <2>1. pages[n + 1] \in PageFile
    BY <1>3, <1>4
  <2>2. QED
    BY <1>3, <2>1 DEF Signed
<1> HIDE DEF n, new
<1>6. /\ corePages' \in Seq(Signed) /\ Len(corePages') = n + 1
      /\ \A i \in 1..n : corePages'[i] = corePages[i]
      /\ corePages'[n + 1] = new
  BY <1>1, <1>3, <1>5, PageAppended DEF n
<1>7. WalkTypes'
  BY <1>1, <1>2, <1>6 DEF WalkTypes
<1>8. EachOnce' /\ ReadTrue'
  <2>1. EachOnce'
    BY <1>1, <1>2 DEF EachOnce
  <2>2. ReadTrue'
    BY <1>1, <1>2 DEF ReadTrue
  <2>3. QED
    BY <2>1, <2>2
<1>9. Compiled'
  <2>1. ASSUME NEW i \in 1..(n + 1)
        PROVE  \E h \in begun'..hour' : corePages'[i] = CorePage(pages'[i], h)
    <3>1. CASE i \in 1..n
      <4>1. \E h \in begun..hour : corePages[i] = CorePage(pages[i], h)
        BY <1>2, <3>1 DEF Compiled, n
      <4>2. QED
        BY <1>1, <1>6, <3>1, <4>1
    <3>2. CASE i = n + 1
      <4>1. hour \in begun..hour
        BY <1>3
      <4>2. QED
        BY <1>1, <1>6, <3>2, <4>1 DEF new
    <3>3. QED
      BY <1>4, <3>1, <3>2
  <2>2. Len(corePages') <= Len(pages')
    BY <1>1, <1>4, <1>6
  <2>3. QED
    BY <1>1, <1>6, <2>1, <2>2 DEF Compiled
<1>10. Finished'
  BY <1>1, <1>2 DEF Finished
<1>11. Excused'
  BY <1>1, <1>2 DEF Excused
<1>12. QED
  BY <1>7, <1>8, <1>9, <1>10, <1>11 DEF CoreInv

\* ... and so in every step.
LEMMA CoreStep ==
    ASSUME CoreInv, [CoreNext]_coreVars
    PROVE  CoreInv'
<1>1. WalkTypes /\ EachOnce /\ ReadTrue /\ Compiled /\ Finished /\ Excused
  BY DEF CoreInv
<1>2. CASE StartWalk
  <2>1. /\ phase = "idle" /\ phase' = "walk" /\ listed' = {f \in Path : files[f] \notin {Absent, Unlisted}}
        /\ UNCHANGED <<files, edited, domain, pages, corePages, begun, hour, core>>
    BY <1>2 DEF StartWalk
  <2>2. pages = <<>> /\ Len(<<>>) = 0
    BY <1>1, <2>1 DEF ReadTrue
  <2>3. WalkTypes'
    BY <1>1, <2>1 DEF WalkTypes
  <2>4. EachOnce' /\ ReadTrue'
    BY ONLY <2>1, <2>2 DEF EachOnce, ReadTrue
  <2>5. Compiled'
    BY <1>1, <2>1 DEF Compiled
  <2>6. Finished' /\ Excused'
    BY <1>1, <2>1 DEF Finished, Excused
  <2>7. QED
    BY <2>3, <2>4, <2>5, <2>6 DEF CoreInv
<1>3. CASE BeginPages
  <2>1. /\ phase = "walk" /\ listed = {} /\ begun' = hour
        /\ phase' = IF DomainIsValid(domain) THEN "pages" ELSE "failed"
        /\ UNCHANGED <<files, edited, domain, listed, pages, corePages, hour, core>>
    BY <1>3 DEF BeginPages
  <2>2. phase' \in {"pages", "failed"}
    BY <2>1
  <2>3. WalkTypes'
    BY <1>1, <2>1, <2>2 DEF WalkTypes
  <2>4. EachOnce'
    BY <1>1, <2>1 DEF EachOnce
  <2>5. ReadTrue'
    BY <1>1, <2>1, <2>2 DEF ReadTrue
  <2>6. Compiled'
    <3>1. corePages = <<>> /\ Len(<<>>) = 0 /\ Len(pages) \in Nat
      BY <1>1, <2>1 DEF Compiled, WalkTypes
    <3>2. QED
      BY ONLY <2>1, <2>2, <3>1 DEF Compiled
  <2>7. Finished'
    BY <1>1, <2>1 DEF Finished
  <2>8. Excused'
    BY <2>1 DEF Excused
  <2>9. QED
    BY <2>3, <2>4, <2>5, <2>6, <2>7, <2>8 DEF CoreInv
<1>4. CASE CompilePage
  BY <1>4, CompilePageKeeps
<1>5. CASE Finish
  <2>1. /\ phase = "pages" /\ Len(corePages) = Len(pages) /\ phase' = "done"
        /\ core' = CoreOf(corePages)
        /\ UNCHANGED <<files, edited, domain, listed, pages, corePages, begun, hour>>
    BY <1>5 DEF Finish
  <2>2. WalkTypes'
    BY <1>1, <2>1 DEF WalkTypes
  <2>3. EachOnce'
    BY <1>1, <2>1 DEF EachOnce
  <2>4. ReadTrue'
    BY <1>1, <2>1 DEF ReadTrue
  <2>5. Compiled'
    BY <1>1, <2>1 DEF Compiled
  <2>6. CoreOf(corePages)' = CoreOf(corePages)
    BY <2>1 DEF CoreOf, SiteId
  <2>7. Finished'
    BY <2>1, <2>6 DEF Finished
  <2>8. Excused'
    BY <2>1 DEF Excused
  <2>9. QED
    BY <2>2, <2>3, <2>4, <2>5, <2>7, <2>8 DEF CoreInv
<1>6. CASE TickHour
  <2>1. /\ phase = "pages" /\ hour' = hour + 1
        /\ UNCHANGED <<files, edited, domain, phase, listed, pages, corePages, begun, core>>
    BY <1>6 DEF TickHour
  <2>2. WalkTypes'
    BY <1>1, <2>1 DEF WalkTypes
  <2>3. EachOnce'
    BY <1>1, <2>1 DEF EachOnce
  <2>4. ReadTrue'
    BY <1>1, <2>1 DEF ReadTrue
  <2>5. Compiled'
    <3>1. \A h \in begun..hour : h \in begun'..hour'
      BY <1>1, <2>1 DEF WalkTypes
    <3>2. QED
      BY <1>1, <2>1, <3>1 DEF Compiled
  <2>6. Finished' /\ Excused'
    BY <1>1, <2>1 DEF Finished, Excused
  <2>7. QED
    BY <2>2, <2>3, <2>4, <2>5, <2>6 DEF CoreInv
<1>7. ASSUME NEW f \in Path, ReadFile(f) PROVE CoreInv'
  BY <1>7, ReadFileKeeps
<1>8. ASSUME NEW f \in Path, ReadFails(f) PROVE CoreInv'
  <2>1. /\ phase = "walk" /\ f \in listed /\ files[f] \notin Contents /\ phase' = "failed"
        /\ UNCHANGED <<files, edited, domain, listed, pages, corePages, begun, hour, core>>
    BY <1>8 DEF ReadFails
  <2>2. WalkTypes'
    BY <1>1, <2>1 DEF WalkTypes
  <2>3. EachOnce'
    BY <1>1, <2>1 DEF EachOnce
  <2>4. ReadTrue'
    BY <1>1, <2>1 DEF ReadTrue
  <2>5. Compiled'
    BY <1>1, <2>1 DEF Compiled
  <2>6. Finished'
    BY <1>1, <2>1 DEF Finished
  <2>7. Excused'
    <3>1. CASE f \in edited
      BY <2>1, <3>1 DEF Excused
    <3>2. CASE f \notin edited
      <4>1. files[f] \notin {Absent, Unlisted}
        BY <1>1, <2>1, <3>2 DEF ReadTrue
      <4>2. files[f] = Unreadable
        BY <1>1, <2>1, <4>1 DEF WalkTypes
      <4>3. QED
        BY <2>1, <4>2 DEF Excused
    <3>3. QED
      BY <3>1, <3>2
  <2>8. QED
    BY <2>2, <2>3, <2>4, <2>5, <2>6, <2>7 DEF CoreInv
<1>9. ASSUME NEW f \in Path, NEW c \in Contents \cup {Absent}, Edit(f, c) PROVE CoreInv'
  BY <1>9, EditKeeps
<1>10. CASE UNCHANGED coreVars
  <2>1. UNCHANGED <<files, edited, domain, phase, listed, pages, corePages, begun, hour, core>>
    BY <1>10 DEF coreVars
  <2>2. WalkTypes'
    BY <1>1, <2>1 DEF WalkTypes
  <2>3. EachOnce'
    BY <1>1, <2>1 DEF EachOnce
  <2>4. ReadTrue'
    BY <1>1, <2>1 DEF ReadTrue
  <2>5. Compiled'
    BY <1>1, <2>1 DEF Compiled
  <2>6. CoreOf(corePages)' = CoreOf(corePages)
    BY <2>1 DEF CoreOf, SiteId
  <2>7. Finished'
    BY <1>1, <2>1, <2>6 DEF Finished
  <2>8. Excused'
    <3>1. CutInText(FirstParagraphs(corePages))' <=> CutInText(FirstParagraphs(corePages))
      BY <2>1
    <3>2. QED
      BY <1>1, <2>1, <3>1 DEF Excused
  <2>9. QED
    BY <2>2, <2>3, <2>4, <2>5, <2>7, <2>8 DEF CoreInv
<1>11. CASE FinishPanics
  <2>1. /\ phase = "pages" /\ phase' = "panicked" /\ CutInText(FirstParagraphs(corePages))
        /\ UNCHANGED <<files, edited, domain, listed, pages, corePages, begun, hour, core>>
    BY <1>11 DEF FinishPanics
  <2>2. WalkTypes'
    BY <1>1, <2>1 DEF WalkTypes
  <2>3. EachOnce'
    BY <1>1, <2>1 DEF EachOnce
  <2>4. ReadTrue'
    BY <1>1, <2>1 DEF ReadTrue
  <2>5. Compiled'
    BY <1>1, <2>1 DEF Compiled
  <2>6. core = NoCore
    BY <1>1, <2>1 DEF Finished
  <2>7. Finished'
    BY <2>1, <2>6 DEF Finished
  <2>8. Excused'
    <3>1. CutInText(FirstParagraphs(corePages))' <=> CutInText(FirstParagraphs(corePages))
      BY <2>1
    <3>2. QED
      BY <2>1, <2>6, <3>1 DEF Excused
  <2>9. QED
    BY <2>2, <2>3, <2>4, <2>5, <2>7, <2>8 DEF CoreInv
<1>12. QED
  BY <1>2, <1>3, <1>4, <1>5, <1>6, <1>7, <1>8, <1>9, <1>10, <1>11 DEF CoreNext

\* Whatever the author does meanwhile, the compiler reads each file once, holds what a
\* file that is left alone says, signs every page in an hour since it began, and has no
\* result only for an edit, a domain, a file that cannot be read or a summary that may be
\* cut inside a character (compile_from_directory, compile_from_pages).
THEOREM CoreInvariant == CoreSpec => []CoreInv
<1>1. CoreInit => CoreInv
  BY CoreInitial
<1>2. CoreInv /\ [CoreNext]_coreVars => CoreInv'
  BY CoreStep
<1>3. QED
  BY <1>1, <1>2, PTL DEF CoreSpec

\* The content of a file is a page of blocks.
LEMMA PageOfType ==
    ASSUME NEW c \in Contents
    PROVE  PageOf(c).runs \in Seq(Block)
<1>1. Run \subseteq Block
  BY DocumentAssumption DEF Run, Block
<1>2. c.runs \in Seq(Run) /\ c.runs \in Seq(Block)
  <2>1. c.runs \in Seq(Run)
    BY CoreAssumption
  <2>2. QED
    BY <1>1, <2>1, SeqMonotonic
<1>3. <<>> \in Seq(Block)
  OBVIOUS
<1>4. QED
  BY <1>2, <1>3 DEF PageOf

\* What the rows of the compiled pages say.
LEMMA RowsAre ==
    ASSUME CoreInv, NEW i \in 1..Len(corePages)
    PROVE  /\ pages[i] \in PageFile /\ pages[i] \in Read
           /\ \E h \in begun..hour : corePages[i] = CorePage(pages[i], h)
           /\ corePages[i].path = pages[i].path /\ corePages[i].path \in Nat
           /\ corePages[i].quality_score = ScoreOf(pages[i]) /\ ScoreOf(pages[i]) \in Nat
           /\ ScoreOf(pages[i]) >= 50
           /\ corePages[i].title = Parse(PageOf(pages[i].content)).title
<1>1. /\ pages \in Seq(PageFile) /\ corePages \in Seq(Signed) /\ Len(corePages) <= Len(pages)
      /\ \A k \in 1..Len(corePages) : \E h \in begun..hour : corePages[k] = CorePage(pages[k], h)
  BY DEF CoreInv, WalkTypes, Compiled
<1>2. i \in 1..Len(pages) /\ DOMAIN pages = 1..Len(pages)
  BY <1>1
<1>3. pages[i] \in PageFile /\ pages[i] \in Read
  <2>1. pages[i] \in PageFile
    BY <1>1, <1>2
  <2>2. QED
    BY <1>2, <2>1 DEF Read
<1>4. PICK h \in begun..hour : corePages[i] = CorePage(pages[i], h)
  BY <1>1
<1>5. pages[i].path \in Nat /\ pages[i].content \in Contents
  BY <1>3, CoreAssumption DEF PageFile
<1>6. /\ CorePage(pages[i], h).path = pages[i].path
      /\ CorePage(pages[i], h).quality_score = QualityScore(PageOf(pages[i].content))
      /\ CorePage(pages[i], h).title = Parse(PageOf(pages[i].content)).title
  BY DEF CorePage
<1>7. QualityScore(PageOf(pages[i].content)) \in Nat /\ QualityScore(PageOf(pages[i].content)) >= 50
  BY <1>5, PageOfType, ScoreType
<1>8. QED
  BY <1>3, <1>4, <1>5, <1>6, <1>7 DEF ScoreOf

\* The rows of a finished site are those of its pages, sorted.
LEMMA CoreIs ==
    ASSUME CoreInv, core # NoCore
    PROVE  /\ Len(pages) \in Nat /\ DOMAIN pages = 1..Len(pages)
           /\ Len(corePages) = Len(pages) /\ DOMAIN corePages = 1..Len(pages)
           /\ phase = "done" /\ core = CoreOf(corePages)
           /\ \E q \in Bijection(1..Len(pages), 1..Len(pages)) :
                 /\ core.pages = [k \in 1..Len(pages) |-> corePages[q[k]]]
                 /\ Sorted(corePages) = core.pages
                 /\ \A k, l \in 1..Len(pages) :
                       k < l => corePages[q[k]].path <= corePages[q[l]].path
<1>1. phase = "done" /\ Len(corePages) = Len(pages) /\ core = CoreOf(corePages)
  BY DEF CoreInv, Finished
<1>2. pages \in Seq(PageFile) /\ corePages \in Seq(Signed)
  BY DEF CoreInv, WalkTypes
<1>3. Len(pages) \in Nat /\ DOMAIN pages = 1..Len(pages) /\ DOMAIN corePages = 1..Len(pages)
  BY <1>1, <1>2
<1>4. \A i \in 1..Len(pages) : corePages[i].path \in Nat
  BY <1>1, RowsAre
<1>5. core.pages = Sorted(corePages)
  BY <1>1 DEF CoreOf
<1> DEFINE n == Len(pages)
<1> HIDE DEF n
<1>6. \E q \in Bijection(1..n, 1..n) :
         /\ Sorted(corePages) = [k \in 1..n |-> corePages[q[k]]]
         /\ \A k, l \in 1..n : k < l => corePages[q[k]].path <= corePages[q[l]].path
  <2>1. n \in Nat /\ DOMAIN corePages = 1..n /\ \A i \in 1..n : corePages[i].path \in Nat
    BY <1>3, <1>4 DEF n
  <2>2. QED
    BY ONLY <2>1, SortedIs
<1>7. QED
  BY <1>1, <1>3, <1>5, <1>6 DEF n

\* A .core file whose site ids agree is of one hour (generate_site_id).
THEOREM OneHour == CoreSpec => []SignedInOneHour
<1>1. CoreInv => SignedInOneHour
  <2>1. SUFFICES ASSUME CoreInv, core # NoCore, core.site_id = core.site_id_signature,
                        NEW i \in DOMAIN core.pages
                 PROVE  core.pages[i].signed = core.site_id
    BY DEF SignedInOneHour
  <2> DEFINE n == Len(pages)
  <2>2. /\ n \in Nat /\ Len(corePages) = n
        /\ \E q \in Bijection(1..n, 1..n) : core.pages = [k \in 1..n |-> corePages[q[k]]]
    BY <2>1, CoreIs
  <2>3. core.site_id = begun /\ core.site_id_signature = hour
    BY <2>1, CoreIs DEF CoreOf, SiteId
  <2>4. begun \in Nat /\ hour \in Nat
    BY <2>1 DEF CoreInv, WalkTypes
  <2> HIDE DEF n
  <2>5. PICK q \in Bijection(1..n, 1..n) : core.pages = [k \in 1..n |-> corePages[q[k]]]
    BY <2>2
  <2>6. i \in 1..n /\ q[i] \in 1..n /\ core.pages[i] = corePages[q[i]]
    BY <2>1, <2>5 DEF Bijection, Injection
  <2>7. \E h \in begun..hour : corePages[q[i]] = CorePage(pages[q[i]], h)
    BY <2>1, <2>2, <2>6, RowsAre
  <2>8. corePages[q[i]] = CorePage(pages[q[i]], begun)
    <3>1. PICK h \in begun..hour : corePages[q[i]] = CorePage(pages[q[i]], h)
      BY <2>7
    <3>2. begun = hour
      BY <2>1, <2>3
    <3>3. h = begun
      BY <2>4, <3>2
    <3>4. QED
      BY <3>1, <3>3
  <2>9. CorePage(pages[q[i]], begun).signed = begun
    BY DEF CorePage
  <2>10. QED
    BY <2>3, <2>6, <2>8, <2>9
<1>2. QED
  BY <1>1, CoreInvariant, PTL

\* A .core file has every file that was listed and left alone, once and as it stands,
\* and none that could not be listed; a compile without a result has a file that cannot be
\* read, an edit, a domain without TLD, or a text over a thousand bytes that may be cut
\* inside a character (compile_from_directory, compile_from_pages).
THEOREM WholeSite == CoreSpec => []AllOrNothing
<1>1. CoreInv => AllOrNothing
  <2>1. SUFFICES ASSUME CoreInv PROVE AllOrNothing
    OBVIOUS
  <2>2. phase = "failed" => \/ edited # {} \/ ~DomainIsValid(domain)
                            \/ \E f \in Path : files[f] = Unreadable
    BY <2>1 DEF CoreInv, Excused
  <2>3. phase = "panicked" => CutInText(FirstParagraphs(corePages)) /\ core = NoCore
    BY <2>1 DEF CoreInv, Excused
  <2>4. ASSUME core # NoCore, NEW f \in Path \ edited
        PROVE  /\ files[f] # Unreadable
               /\ {i \in DOMAIN core.pages : core.pages[i].path = f}
                     = {i \in DOMAIN core.pages : files[f] \in Contents /\ core.pages[i].path = f
                             /\ core.pages[i].quality_score = QualityScore(PageOf(files[f]))}
               /\ Cardinality({i \in DOMAIN core.pages : core.pages[i].path = f})
                     = IF files[f] \in Contents THEN 1 ELSE 0
    <3> DEFINE n == Len(pages)
               mine == {i \in DOMAIN core.pages : core.pages[i].path = f}
    <3>1. /\ n \in Nat /\ Len(corePages) = n /\ phase = "done"
          /\ \E q \in Bijection(1..n, 1..n) : core.pages = [k \in 1..n |-> corePages[q[k]]]
      BY <2>1, <2>4, CoreIs
    <3>2. files[f] \in Contents \cup {Unreadable, Absent, Unlisted}
      BY <2>1, <2>4 DEF CoreInv, WalkTypes
    <3>3. files[f] \notin {Absent, Unlisted} <=> \E i \in 1..n : pages[i].path = f
      BY <2>1, <2>4, <3>1 DEF CoreInv, ReadTrue
    <3>4. \A i \in 1..n : /\ corePages[i].path = pages[i].path
                          /\ corePages[i].quality_score = QualityScore(PageOf(pages[i].content))
                          /\ pages[i].content \in Contents
      <4>1. ASSUME NEW i \in 1..n
            PROVE  /\ corePages[i].path = pages[i].path
                   /\ corePages[i].quality_score = ScoreOf(pages[i]) /\ pages[i] \in PageFile
        <5>1. i \in 1..Len(corePages)
          BY <3>1
        <5>2. QED
          BY ONLY <2>1, <5>1, RowsAre
      <4>2. QED
        BY <4>1 DEF ScoreOf, PageFile
    <3>5. \A i \in 1..n : pages[i].path = f => files[f] = pages[i].content
      BY <2>1, <2>4 DEF CoreInv, ReadTrue
    <3>6. \A i, j \in 1..n : pages[i].path = f /\ pages[j].path = f => i = j
      BY <2>1 DEF CoreInv, EachOnce
    <3> HIDE DEF n
    <3>7. PICK q \in Bijection(1..n, 1..n) : core.pages = [k \in 1..n |-> corePages[q[k]]]
      BY <3>1
    <3>8. /\ \A k \in 1..n : q[k] \in 1..n
          /\ \A k, l \in 1..n : q[k] = q[l] => k = l
          /\ \A i \in 1..n : \E k \in 1..n : q[k] = i
      BY <3>7 DEF Bijection, Injection, IsInjective, Surjection
    <3>9. DOMAIN core.pages = 1..n /\ \A k \in 1..n : core.pages[k] = corePages[q[k]]
      BY <3>7
    <3>10. \A k \in mine : k \in 1..n /\ pages[q[k]].path = f
      BY <3>4, <3>8, <3>9
    <3>11. files[f] \notin {Absent, Unlisted} => files[f] \in Contents
      BY <3>3, <3>4, <3>5
    <3>12. files[f] # Unreadable
      BY <3>2, <3>11, CoreAssumption
    <3>13. mine = {i \in DOMAIN core.pages : files[f] \in Contents /\ core.pages[i].path = f
                        /\ core.pages[i].quality_score = QualityScore(PageOf(files[f]))}
      <4>1. ASSUME NEW k \in mine
            PROVE  /\ files[f] \in Contents
                   /\ core.pages[k].quality_score = QualityScore(PageOf(files[f]))
        <5>1. k \in 1..n /\ pages[q[k]].path = f
          BY <3>10
        <5>2. q[k] \in 1..n /\ core.pages[k] = corePages[q[k]]
          BY <3>8, <3>9, <5>1
        <5>3. files[f] = pages[q[k]].content
          BY <3>5, <5>1, <5>2
        <5>4. QED
          BY <3>4, <5>2, <5>3
      <4>2. QED
        BY <4>1
    <3>14. Cardinality(mine) = IF files[f] \in Contents THEN 1 ELSE 0
      <4>1. CASE files[f] \in Contents
        <5>1. files[f] \notin {Absent, Unlisted}
          BY <4>1, CoreAssumption
        <5>2. PICK i \in 1..n : pages[i].path = f
          BY <3>3, <5>1
        <5>3. PICK k \in 1..n : q[k] = i
          BY <3>8
        <5>4. k \in mine
          BY <3>4, <3>9, <5>2, <5>3
        <5>5. \A l \in mine : l = k
          <6>1. ASSUME NEW l \in mine PROVE l = k
            <7>1. /\ l \in 1..n /\ pages[q[l]].path = f
                  /\ k \in 1..n /\ pages[q[k]].path = f
              BY <3>10, <5>4
            <7>2. q[l] \in 1..n /\ q[k] \in 1..n
              BY <3>8, <7>1
            <7>3. q[l] = q[k]
              BY <3>6, <7>1, <7>2
            <7>4. QED
              BY <3>8, <7>1, <7>3
          <6>2. QED
            BY <6>1
        <5>6. mine = {k}
          BY <5>4, <5>5
        <5>7. QED
          BY <4>1, <5>6, FS_Singleton
      <4>2. CASE files[f] \notin Contents
        <5>1. files[f] \in {Absent, Unlisted}
          BY <3>11, <4>2
        <5>2. mine = {}
          BY <3>3, <3>8, <3>10, <5>1
        <5>3. QED
          BY <4>2, <5>2, FS_EmptySet
      <4>3. QED
        BY <4>1, <4>2
    <3>15. QED
      BY <3>12, <3>13, <3>14
  <2>5. QED
    BY <2>2, <2>4, <2>3 DEF AllOrNothing
<1>2. QED
  BY <1>1, CoreInvariant, PTL

\* The first, the best and the worst page of a site are told by its files alone
\* (compile_from_pages).
THEOREM JudgedByFiles == CoreSpec => []WalkOrderIrrelevant
<1>1. CoreInv => WalkOrderIrrelevant
  <2> DEFINE best == {f \in Read : \A g \in Read : ScoreOf(g) <= ScoreOf(f)}
             worst == {f \in Read : \A g \in Read : ScoreOf(g) >= ScoreOf(f)}
             n == Len(pages)
  <2>1. SUFFICES ASSUME CoreInv, core # NoCore, Read # {}
                 PROVE  /\ \E f \in Read : /\ \A g \in Read : f.path <= g.path
                                           /\ core.title = Parse(PageOf(f.content)).title
                        /\ \E f \in best : core.best_page = f.path /\ \A g \in best : g.path <= f.path
                        /\ \E f \in worst : core.worst_page = f.path /\ \A g \in worst : f.path <= g.path
    BY DEF WalkOrderIrrelevant
  <2>2. /\ n \in Nat /\ Len(corePages) = n /\ DOMAIN pages = 1..n /\ DOMAIN corePages = 1..n
        /\ core = CoreOf(corePages) /\ core.pages = Sorted(corePages)
        /\ \E q \in Bijection(1..n, 1..n) :
              /\ core.pages = [k \in 1..n |-> corePages[q[k]]]
              /\ \A k, l \in 1..n : k < l => corePages[q[k]].path <= corePages[q[l]].path
    BY <2>1, CoreIs
  <2>3. ASSUME NEW i \in 1..n
        PROVE  /\ pages[i] \in Read /\ ScoreOf(pages[i]) \in Nat
               /\ corePages[i].path = pages[i].path /\ corePages[i].path \in Nat
               /\ corePages[i].quality_score = ScoreOf(pages[i])
               /\ corePages[i].title = Parse(PageOf(pages[i].content)).title
    <3>1. i \in 1..Len(corePages)
      BY <2>2
    <3>2. QED
      BY ONLY <2>1, <3>1, RowsAre
  <2>4. Read = {pages[i] : i \in 1..n}
    BY <2>2 DEF Read
  <2>5. n \in Nat \ {0} /\ corePages # <<>>
    BY <2>1, <2>2, <2>4
  <2> HIDE DEF n
  <2>6. PICK q \in Bijection(1..n, 1..n) :
           /\ core.pages = [k \in 1..n |-> corePages[q[k]]]
           /\ \A k, l \in 1..n : k < l => corePages[q[k]].path <= corePages[q[l]].path
    BY <2>2
  <2>7. /\ \A k \in 1..n : q[k] \in 1..n
        /\ \A i \in 1..n : \E k \in 1..n : q[k] = i
    BY <2>6 DEF Bijection, Injection, Surjection
  <2> DEFINE sorted == Sorted(corePages)
             file(k) == pages[q[k]]
  <2>8. /\ sorted = [k \in 1..n |-> corePages[q[k]]] /\ DOMAIN sorted = 1..n
        /\ core.title = sorted[1].title
        /\ core.best_page = BestOf(sorted).path /\ core.worst_page = WorstOf(sorted).path
    BY <2>2, <2>5, <2>6 DEF CoreOf
  <2> HIDE DEF sorted
  <2>9. ASSUME NEW k \in 1..n
        PROVE  /\ file(k) \in Read /\ ScoreOf(file(k)) \in Nat /\ file(k).path \in Nat
               /\ sorted[k].path = file(k).path
               /\ sorted[k].quality_score = ScoreOf(file(k))
               /\ sorted[k].title = Parse(PageOf(file(k).content)).title
    <3>1. q[k] \in 1..n /\ sorted[k] = corePages[q[k]]
      BY <2>7, <2>8
    <3>2. QED
      BY <2>3, <3>1
  <2>10. \A g \in Read : \E k \in 1..n : g = file(k)
    BY <2>4, <2>7
  <2>11. ASSUME NEW k \in 1..n, NEW l \in 1..n, k <= l
         PROVE  file(k).path <= file(l).path
    <3>1. CASE k = l
      BY <2>9, <3>1
    <3>2. CASE k < l
      <4>1. corePages[q[k]].path <= corePages[q[l]].path
        BY <2>6, <3>2
      <4>2. QED
        BY <2>8, <2>9, <4>1
    <3>3. QED
      BY <2>11, <3>1, <3>2
  <2> HIDE DEF file
  <2>12. \E f \in Read : /\ \A g \in Read : f.path <= g.path
                         /\ core.title = Parse(PageOf(f.content)).title
    <3>1. 1 \in 1..n /\ \A k \in 1..n : 1 <= k
      BY <2>5
    <3>2. \A g \in Read : file(1).path <= g.path
      BY <2>10, <2>11, <3>1
    <3>3. QED
      BY <2>8, <2>9, <3>1, <3>2
  <2>13. \A k \in 1..n : sorted[k].quality_score \in Nat
    BY <2>9
  <2>14. PICK b \in 1..n : /\ BestOf(sorted) = sorted[b]
                           /\ \A j \in 1..n : \/ sorted[j].quality_score < sorted[b].quality_score
                                              \/ sorted[j].quality_score = sorted[b].quality_score /\ j <= b
    BY <2>5, <2>8, <2>13, BestIs
  <2>15. PICK w \in 1..n : /\ WorstOf(sorted) = sorted[w]
                           /\ \A j \in 1..n : \/ sorted[j].quality_score > sorted[w].quality_score
                                              \/ sorted[j].quality_score = sorted[w].quality_score /\ j >= w
    BY <2>5, <2>8, <2>13, BestIs
  <2>16. file(b) \in best
    <3>1. ASSUME NEW k \in 1..n PROVE ScoreOf(file(k)) <= ScoreOf(file(b))
      BY <2>9, <2>14
    <3>2. QED
      BY <2>9, <2>10, <3>1
  <2>17. ASSUME NEW g \in best PROVE g.path <= file(b).path
    <3>1. PICK k \in 1..n : g = file(k)
      BY <2>10
    <3>2. ScoreOf(file(b)) <= ScoreOf(file(k))
      BY <2>9, <3>1
    <3>3. k <= b
      BY <2>9, <2>14, <3>2
    <3>4. QED
      BY <2>11, <3>1, <3>3
  <2>18. file(w) \in worst
    <3>1. ASSUME NEW k \in 1..n PROVE ScoreOf(file(k)) >= ScoreOf(file(w))
      BY <2>9, <2>15
    <3>2. QED
      BY <2>9, <2>10, <3>1
  <2>19. ASSUME NEW g \in worst PROVE file(w).path <= g.path
    <3>1. PICK k \in 1..n : g = file(k)
      BY <2>10
    <3>2. ScoreOf(file(w)) >= ScoreOf(file(k))
      BY <2>9, <3>1
    <3>3. k >= w
      BY <2>9, <2>15, <3>2
    <3>4. QED
      BY <2>11, <3>1, <3>3
  <2>20. core.best_page = file(b).path /\ core.worst_page = file(w).path
    BY <2>8, <2>9, <2>14, <2>15
  <2> HIDE DEF best, worst
  <2>21. QED
    BY <2>12, <2>16, <2>17, <2>18, <2>19, <2>20
<1>2. QED
  BY <1>1, CoreInvariant, PTL

-----------------------------------------------------------------------------
(* Totals.                                                                 *)

\* Counting one by one: as many cells as the numbers add up to.
Cells(ns, m) == {c \in (1..m) \X Nat : c[2] \in 1..ns[c[1]]}

\* A total counts the cells of a table with one row per number: a number of cells, which
\* no longer depends on an order.
LEMMA TotalCounts ==
    ASSUME NEW N \in Nat, NEW ns \in [1..N -> Nat]
    PROVE  IsFiniteSet(Cells(ns, N)) /\ Cardinality(Cells(ns, N)) = Total(ns)
<1>1. PICK t \in [0..N -> Nat] : /\ t[0] = 0
                                 /\ \A m \in 1..N : t[m] = t[m - 1] + ns[m]
                                 /\ Total(ns) = t[N]
  BY TotalSteps
<1> DEFINE T == {m \in 0..N : IsFiniteSet(Cells(ns, m)) /\ Cardinality(Cells(ns, m)) = t[m]}
<1>2. 0 \in T
  <2>1. Cells(ns, 0) = {}
    BY DEF Cells
  <2>2. 0 \in 0..N /\ IsFiniteSet({}) /\ Cardinality({}) = 0
    BY FS_EmptySet
  <2>3. QED
    BY <1>1, <2>1, <2>2
<1>3. ASSUME NEW m \in 0..(N - 1), m \in T PROVE m + 1 \in T
  <2> DEFINE new == {m + 1} \X (1..ns[m + 1])
             old == Cells(ns, m)
  <2>1. m + 1 \in 1..N /\ (m + 1) - 1 = m /\ m + 1 \in 0..N /\ m \in Nat
    OBVIOUS
  <2>2. ns[m + 1] \in Nat /\ t[m + 1] = t[m] + ns[m + 1] /\ t[m] \in Nat
    BY <1>1, <2>1
  <2>3. Cells(ns, m + 1) = old \cup new
    <3>1. \A i \in Int : i \in 1..(m + 1) <=> i \in 1..m \/ i = m + 1
      BY <2>1
    <3>2. \A c \in new : c \in Cells(ns, m + 1)
      BY <2>1, <2>2, <3>1 DEF Cells
    <3>3. \A c \in old : c \in Cells(ns, m + 1)
      BY <3>1 DEF Cells
    <3>4. \A c \in Cells(ns, m + 1) : c \in old \/ c \in new
      <4>1. ASSUME NEW c \in Cells(ns, m + 1) PROVE c \in old \/ c \in new
        <5>1. /\ c = <<c[1], c[2]>> /\ c[1] \in 1..(m + 1) /\ c[2] \in Nat
              /\ c[2] \in 1..ns[c[1]]
          BY DEF Cells
        <5>2. CASE c[1] \in 1..m
          <6>1. <<c[1], c[2]>> \in (1..m) \X Nat
            BY <5>1, <5>2
          <6>2. QED
            BY <5>1, <6>1 DEF Cells
        <5>3. CASE c[1] = m + 1
          <6>1. <<c[1], c[2]>> \in {m + 1} \X (1..ns[m + 1])
            BY <5>1, <5>3
          <6>2. QED
            BY <5>1, <6>1
        <5>4. QED
          BY <3>1, <5>1, <5>2, <5>3
      <4>2. QED
        BY <4>1
    <3> HIDE DEF old, new
    <3>5. QED
      BY <3>2, <3>3, <3>4
  <2>4. old \cap new = {}
    BY <2>1 DEF Cells
  <2>5. IsFiniteSet(new) /\ Cardinality(new) = ns[m + 1]
    <3>1. IsFiniteSet({m + 1}) /\ Cardinality({m + 1}) = 1
      BY FS_Singleton
    <3>2. IsFiniteSet(1..ns[m + 1]) /\ Cardinality(1..ns[m + 1]) = ns[m + 1]
      <4>1. 1 \in Int /\ ns[m + 1] \in Int
        BY <2>2
      <4>2. IsFiniteSet(1..ns[m + 1])
            /\ Cardinality(1..ns[m + 1]) = IF 1 > ns[m + 1] THEN 0 ELSE ns[m + 1] - 1 + 1
        BY ONLY <4>1, FS_Interval
      <4>3. QED
        BY <2>2, <4>2
    <3>3. IsFiniteSet(new) /\ Cardinality(new) = 1 * ns[m + 1]
      <4>1. IsFiniteSet({m + 1} \X (1..ns[m + 1]))
            /\ Cardinality({m + 1} \X (1..ns[m + 1])) = Cardinality({m + 1}) * Cardinality(1..ns[m + 1])
        BY ONLY <3>1, <3>2, FS_Product
      <4>2. QED
        BY <3>1, <3>2, <4>1
    <3>4. QED
      BY <2>2, <3>3
  <2>6. IsFiniteSet(old) /\ Cardinality(old) = t[m]
    BY <1>3
  <2> HIDE DEF old, new
  <2>7. /\ IsFiniteSet(old \cup new)
        /\ Cardinality(old \cup new) = Cardinality(old) + Cardinality(new) - Cardinality(old \cap new)
    BY <2>5, <2>6, FS_Union
  <2>8. Cardinality(old \cap new) = 0
    BY <2>4, FS_EmptySet
  <2>9. Cardinality(old \cup new) = t[m + 1]
    BY <2>2, <2>5, <2>6, <2>7, <2>8
  <2>10. QED
    BY <2>1, <2>3, <2>7, <2>9
<1> HIDE DEF T
<1>4. \A m \in 0..N : m \in T
  BY <1>2, <1>3, Upwards
<1>5. N \in T
  BY <1>4
<1>6. QED
  BY <1>1, <1>5 DEF T

\* What numbers add up to does not depend on their order.
LEMMA TotalOrder ==
    ASSUME NEW N \in Nat, NEW ns \in [1..N -> Nat], NEW q \in Bijection(1..N, 1..N)
    PROVE  Total([k \in 1..N |-> ns[q[k]]]) = Total(ns)
<1> DEFINE ms == [k \in 1..N |-> ns[q[k]]]
           to == [c \in Cells(ms, N) |-> <<q[c[1]], c[2]>>]
<1>1. /\ \A k \in 1..N : q[k] \in 1..N
      /\ \A k, l \in 1..N : q[k] = q[l] => k = l
      /\ \A i \in 1..N : \E k \in 1..N : q[k] = i
  BY DEF Bijection, Injection, IsInjective, Surjection
<1>2. ms \in [1..N -> Nat] /\ \A k \in 1..N : ms[k] = ns[q[k]]
  BY <1>1
<1> HIDE DEF ms
<1>3. \A c \in Cells(ms, N) : to[c] \in Cells(ns, N)
  BY <1>1, <1>2 DEF Cells
<1>4. ASSUME NEW c \in Cells(ms, N), NEW d \in Cells(ms, N), to[c] = to[d] PROVE c = d
  <2>1. q[c[1]] = q[d[1]] /\ c[2] = d[2] /\ c[1] \in 1..N /\ d[1] \in 1..N
    BY <1>4 DEF Cells
  <2>2. c[1] = d[1]
    <3> DEFINE a == c[1]
               b == d[1]
    <3>1. a \in 1..N /\ b \in 1..N /\ q[a] = q[b]
      BY <2>1
    <3> HIDE DEF a, b
    <3>2. a = b
      BY <1>1, <3>1
    <3>3. QED
      BY <3>2 DEF a, b
  <2>3. c = <<c[1], c[2]>> /\ d = <<d[1], d[2]>>
    BY DEF Cells
  <2>4. QED
    BY <2>1, <2>2, <2>3
<1>5. ASSUME NEW e \in Cells(ns, N) PROVE \E c \in Cells(ms, N) : to[c] = e
  <2>1. e[1] \in 1..N /\ e[2] \in Nat /\ e[2] \in 1..ns[e[1]] /\ e = <<e[1], e[2]>>
    BY DEF Cells
  <2>2. PICK k \in 1..N : q[k] = e[1]
    BY <1>1, <2>1
  <2>3. <<k, e[2]>> \in Cells(ms, N)
    BY <1>2, <2>1, <2>2 DEF Cells
  <2>4. to[<<k, e[2]>>] = e
    BY <2>1, <2>2, <2>3
  <2> HIDE DEF to
  <2>5. QED
    BY <2>3, <2>4
<1>6. to \in Bijection(Cells(ms, N), Cells(ns, N))
  <2>1. to \in [Cells(ms, N) -> Cells(ns, N)]
    BY <1>3
  <2> HIDE DEF to
  <2>2. QED
    BY <1>4, <1>5, <2>1 DEF Bijection, Injection, IsInjective, Surjection
<1>7. /\ IsFiniteSet(Cells(ns, N)) /\ Cardinality(Cells(ns, N)) = Total(ns)
      /\ IsFiniteSet(Cells(ms, N)) /\ Cardinality(Cells(ms, N)) = Total(ms)
  BY <1>2, TotalCounts
<1> HIDE DEF to
<1>8. Cardinality(Cells(ms, N)) = Cardinality(Cells(ns, N))
  <2>1. ExistsBijection(Cells(ms, N), Cells(ns, N))
    BY <1>6 DEF ExistsBijection
  <2>2. QED
    BY <1>7, <2>1, FS_Bijection
<1>9. QED
  BY <1>7, <1>8 DEF ms

\* Numbers that are at least so large have at least that mean.
LEMMA TotalAtLeast ==
    ASSUME NEW N \in Nat \ {0}, NEW ns \in [1..N -> Nat], NEW low \in Nat,
           \A i \in 1..N : ns[i] >= low
    PROVE  Total(ns) \div N >= low
<1>1. PICK t \in [0..N -> Nat] : /\ t[0] = 0
                                 /\ \A m \in 1..N : t[m] = t[m - 1] + ns[m]
                                 /\ Total(ns) = t[N]
  BY TotalSteps
<1> DEFINE T == {m \in 0..N : t[m] >= m * low}
<1>2. 0 \in T
  BY <1>1
<1>3. ASSUME NEW m \in 0..(N - 1), m \in T PROVE m + 1 \in T
  <2>1. m + 1 \in 1..N /\ (m + 1) - 1 = m /\ m + 1 \in 0..N /\ m \in Nat
    OBVIOUS
  <2>2. t[m + 1] = t[m] + ns[m + 1] /\ ns[m + 1] >= low /\ t[m] \in Nat /\ ns[m + 1] \in Nat
    BY <1>1, <2>1
  <2>3. t[m] >= m * low
    BY <1>3
  <2>4. (m + 1) * low = m * low + low /\ m * low \in Nat
    BY <2>1
  <2>5. t[m + 1] >= (m + 1) * low
    BY <2>2, <2>3, <2>4
  <2>6. QED
    BY <2>1, <2>5
<1> HIDE DEF T
<1>4. \A m \in 0..N : m \in T
  BY <1>2, <1>3, Upwards
<1>5. N \in T /\ N \in 0..N
  BY <1>4
<1>6. Total(ns) >= N * low /\ Total(ns) \in Nat
  BY <1>1, <1>5 DEF T
<1>7. Total(ns) \in Int /\ N \in Int /\ N > 0 /\ low \in Int
  BY <1>6
<1>8. QED
  BY ONLY <1>6, <1>7, Quotient

\* What a compiled page adds to the sums of the site is numbers.
LEMMA RowNumbers ==
    ASSUME CoreInv, NEW i \in 1..Len(corePages)
    PROVE  corePages[i].token_count \in Nat /\ corePages[i].qa_pair_count \in Nat
<1>1. pages[i] \in PageFile /\ \E h \in begun..hour : corePages[i] = CorePage(pages[i], h)
  BY RowsAre
<1>2. PICK h \in begun..hour : corePages[i] = CorePage(pages[i], h)
  BY <1>1
<1>3. Parse(PageOf(pages[i].content)) \in Parsed
  BY <1>1, PageOfType, ParseType DEF PageFile
<1>4. /\ corePages[i].token_count = Tokens(Parse(PageOf(pages[i].content)))
      /\ corePages[i].qa_pair_count = Len(QaPairs(Parse(PageOf(pages[i].content))))
  BY <1>2 DEF CorePage
<1>5. QED
  BY <1>3, <1>4, TokensType, PairsType

\* What the totals, the best and the worst of two sites of the same rows are.
LEMMA SameRows ==
    ASSUME NEW n \in Nat \ {0}, NEW q \in Bijection(1..n, 1..n),
           NEW s, DOMAIN s = 1..n, NEW r, DOMAIN r = 1..n,
           \A i \in 1..n : s[i].quality_score \in Nat,
           \A k \in 1..n : r[k].quality_score = s[q[k]].quality_score
    PROVE  /\ Scores(r) = Scores(s) /\ Scores(s) \in Nat
           /\ BestOf(r).quality_score = BestOf(s).quality_score
           /\ WorstOf(s).quality_score <= Scores(s) \div n
<1> DEFINE ns == [i \in 1..n |-> s[i].quality_score]
           ms == [k \in 1..n |-> ns[q[k]]]
<1>1. /\ \A k \in 1..n : q[k] \in 1..n
      /\ \A i \in 1..n : \E k \in 1..n : q[k] = i
  BY DEF Bijection, Injection, Surjection
<1>2. ns \in [1..n -> Nat]
  OBVIOUS
<1>3. Scores(s) = Total(ns)
  BY DEF Scores
<1>4. Scores(r) = Total(ms)
  <2>1. [i \in DOMAIN r |-> r[i].quality_score] = ms
    BY <1>1
  <2>2. QED
    BY <2>1 DEF Scores
<1>5. Total(ms) = Total(ns) /\ Total(ns) \in Nat
  <2> HIDE DEF ns
  <2>1. n \in Nat
    OBVIOUS
  <2>2. Total(ns) \in Nat
    BY ONLY <1>2, <2>1, TotalType
  <2>3. q \in Bijection(1..n, 1..n)
    OBVIOUS
  <2>4. Total(ms) = Total(ns)
    BY ONLY <1>2, <2>1, <2>3, TotalOrder
  <2>5. QED
    BY <2>2, <2>4
<1>6. \A k \in 1..n : r[k].quality_score \in Nat
  BY <1>1
<1>7. BestOf(r).quality_score = BestOf(s).quality_score
  <2>1. PICK b \in 1..n : /\ BestOf(s) = s[b]
                          /\ \A j \in 1..n : \/ s[j].quality_score < s[b].quality_score
                                             \/ s[j].quality_score = s[b].quality_score /\ j <= b
    BY BestIs
  <2>2. PICK c \in 1..n : /\ BestOf(r) = r[c]
                          /\ \A j \in 1..n : \/ r[j].quality_score < r[c].quality_score
                                             \/ r[j].quality_score = r[c].quality_score /\ j <= c
    BY <1>6, BestIs
  <2>3. PICK k \in 1..n : q[k] = b
    BY <1>1
  <2>4. r[k].quality_score <= r[c].quality_score /\ r[k].quality_score = s[b].quality_score
    BY <1>6, <2>2, <2>3
  <2>5. s[q[c]].quality_score <= s[b].quality_score /\ r[c].quality_score = s[q[c]].quality_score
    <3>1. q[c] \in 1..n
      BY <1>1
    <3>2. s[q[c]].quality_score \in Nat /\ s[b].quality_score \in Nat
      BY <3>1
    <3>3. \/ s[q[c]].quality_score < s[b].quality_score
          \/ s[q[c]].quality_score = s[b].quality_score
      BY <2>1, <3>1
    <3>4. r[c].quality_score = s[q[c]].quality_score
      OBVIOUS
    <3>5. QED
      BY <3>2, <3>3, <3>4
  <2>6. r[c].quality_score = s[b].quality_score
    <3> DEFINE x == r[c].quality_score
               y == s[b].quality_score
    <3>1. x \in Nat /\ y \in Nat
      BY <1>6
    <3>2. y <= x /\ x <= y
      BY <2>4, <2>5
    <3> HIDE DEF x, y
    <3>3. x = y
      BY <3>1, <3>2
    <3>4. QED
      BY <3>3 DEF x, y
  <2>7. QED
    BY <2>1, <2>2, <2>6
<1>8. WorstOf(s).quality_score <= Scores(s) \div n
  <2>1. PICK w \in 1..n : /\ WorstOf(s) = s[w]
                          /\ \A j \in 1..n : \/ s[j].quality_score > s[w].quality_score
                                             \/ s[j].quality_score = s[w].quality_score /\ j >= w
    BY BestIs
  <2> DEFINE low == s[w].quality_score
  <2>2. low \in Nat /\ \A i \in 1..n : ns[i] >= low
    BY <2>1
  <2> HIDE DEF ns, low
  <2>3. n \in Nat \ {0}
    OBVIOUS
  <2>4. Total(ns) \div n >= low
    BY ONLY <1>2, <2>2, <2>3, TotalAtLeast
  <2>5. QED
    BY <1>3, <1>5, <2>1, <2>2, <2>4 DEF low
<1> HIDE DEF ns, ms
<1>9. QED
  BY <1>3, <1>4, <1>5, <1>7, <1>8

\* The two compilers of sites agree on HTML pages that fit into a batch
\* (compile_from_pages; compile_site with calculate_stats).
THEOREM CompilersAgree == CoreSpec => []PipelineAgrees
<1>1. CoreInv => PipelineAgrees
  <2> DEFINE n == Len(pages)
             site == CompileSite(pages)
             stats == SiteStats(site)
  <2>1. SUFFICES ASSUME CoreInv, core # NoCore, n \in 1..MaxBatch,
                        \A i \in DOMAIN pages : pages[i].content.format = "html"
                 PROVE  /\ stats.total_pages = Len(core.pages)
                        /\ stats.total_tokens = core.total_tokens
                        /\ stats.total_qa_pairs = core.total_qa_pairs
                        /\ stats.min_quality_score <= core.overall
                        /\ core.overall - stats.avg_quality_score \in {0, 5}
                        /\ stats.max_quality_score = BestOf(core.pages).quality_score
    BY DEF PipelineAgrees
  <2>2. /\ n \in Nat /\ Len(corePages) = n /\ DOMAIN pages = 1..n /\ DOMAIN corePages = 1..n
        /\ core = CoreOf(corePages) /\ core.pages = Sorted(corePages)
        /\ \E q \in Bijection(1..n, 1..n) : core.pages = [k \in 1..n |-> corePages[q[k]]]
    BY <2>1, CoreIs
  <2>3. n \in Nat \ {0} /\ n <= MaxBatch /\ MaxBatch \in Nat
    BY <2>1, CoreAssumption
  <2>4. pages \in Seq(PageFile)
    BY <2>1 DEF CoreInv, WalkTypes
  <2>5. Batch(pages) = pages
    <3>1. Least(MaxBatch, n) = n
      <4>1. \A a, b \in Nat : b <= a => Least(a, b) = b
        BY DEF Least
      <4> HIDE DEF n
      <4>2. QED
        BY ONLY <2>3, <4>1
    <3>2. SubSeq(pages, 1, n) = pages
      BY <2>4
    <3>3. QED
      BY <3>1, <3>2 DEF Batch
  <2>6. DOMAIN site = 1..n /\ Len(site) = n /\ \A i \in 1..n : site[i] = CorePage(pages[i], hour)
    <3>1. site = [i \in 1..n |-> PipelinePage(pages[i])]
      BY <2>2, <2>5 DEF CompileSite
    <3>2. \A i \in 1..n : PipelinePage(pages[i]) = CorePage(pages[i], hour)
      BY <2>1, <2>2 DEF PipelinePage
    <3> HIDE DEF site
    <3>3. QED
      BY <2>2, <3>1, <3>2
  <2> HIDE DEF site
  <2>7. ASSUME NEW i \in 1..n
        PROVE  /\ corePages[i].quality_score \in Nat
               /\ site[i].quality_score = corePages[i].quality_score
               /\ site[i].token_count = corePages[i].token_count
               /\ site[i].qa_pair_count = corePages[i].qa_pair_count
               /\ corePages[i].qa_pair_count \in Nat
    <3>1. i \in 1..Len(corePages)
      BY <2>2
    <3>2. /\ \E h \in begun..hour : corePages[i] = CorePage(pages[i], h)
          /\ corePages[i].quality_score = ScoreOf(pages[i]) /\ ScoreOf(pages[i]) \in Nat
          /\ corePages[i].qa_pair_count \in Nat
      BY ONLY <2>1, <3>1, RowsAre, RowNumbers
    <3>3. QED
      BY <2>6, <3>2 DEF CorePage
  <2> HIDE DEF n
  <2>8. PICK q \in Bijection(1..n, 1..n) : core.pages = [k \in 1..n |-> corePages[q[k]]]
    BY <2>2
  <2> DEFINE sorted == core.pages
  <2>9. \A k \in 1..n : q[k] \in 1..n
    BY <2>8 DEF Bijection, Injection
  <2>10. /\ DOMAIN sorted = 1..n /\ Len(sorted) = n
         /\ \A k \in 1..n : sorted[k] = corePages[q[k]]
    BY <2>3, <2>8
  <2>11. TotalTokens(site) = TotalTokens(corePages)
    <3>1. [i \in DOMAIN site |-> site[i].token_count]
             = [i \in DOMAIN corePages |-> corePages[i].token_count]
      BY <2>2, <2>6, <2>7
    <3>2. QED
      BY <3>1 DEF TotalTokens
  <2>12. TotalQas(site) = TotalQas(corePages)
    <3>1. [i \in DOMAIN site |-> site[i].qa_pair_count]
             = [i \in DOMAIN corePages |-> corePages[i].qa_pair_count]
      BY <2>2, <2>6, <2>7
    <3>2. QED
      BY <3>1 DEF TotalQas
  <2> HIDE DEF sorted
  <2>13. \A k \in 1..n : sorted[k].quality_score = site[q[k]].quality_score
    BY <2>7, <2>9, <2>10
  <2>14. \A i \in 1..n : site[i].quality_score \in Nat
    BY <2>7
  <2>15. /\ Scores(sorted) = Scores(site) /\ Scores(site) \in Nat
         /\ BestOf(sorted).quality_score = BestOf(site).quality_score
         /\ WorstOf(site).quality_score <= Scores(site) \div n
    <3>1. DOMAIN site = 1..n /\ DOMAIN sorted = 1..n /\ q \in Bijection(1..n, 1..n) /\ n \in Nat \ {0}
      BY <2>3, <2>6, <2>10
    <3>2. QED
      BY ONLY <2>13, <2>14, <3>1, SameRows
  <2>16. site # <<>> /\ sorted # <<>>
    BY <2>3, <2>6, <2>10
  <2>17. /\ stats.total_pages = n
         /\ stats.avg_quality_score = Scores(site) \div n
         /\ stats.min_quality_score = WorstOf(site).quality_score
         /\ stats.max_quality_score = BestOf(site).quality_score
         /\ stats.total_tokens = TotalTokens(site) /\ stats.total_qa_pairs = TotalQas(site)
    BY <2>6, <2>16 DEF SiteStats
  <2>18. /\ core.total_tokens = TotalTokens(corePages) /\ core.total_qa_pairs = TotalQas(corePages)
         /\ core.overall = Overall(sorted)
    BY <2>2 DEF CoreOf, sorted
  <2> HIDE DEF stats
  <2>19. Overall(sorted) \in {Scores(sorted) \div n, Scores(sorted) \div n + 5}
    <3> DEFINE d == Scores(sorted) \div n
    <3>1. Overall(sorted) = d + (IF TotalQas(sorted) > 0 /\ AeoReadiness(TotalQas(sorted)) > 50 THEN 5 ELSE 0)
      BY <2>10, <2>16 DEF Overall
    <3>2. d \in Int
      BY <2>3, <2>15
    <3> HIDE DEF d
    <3>3. Overall(sorted) \in {d, d + 5}
      BY <3>1, <3>2
    <3>4. QED
      BY <3>3 DEF d
  <2> DEFINE mean == Scores(site) \div n
  <2>20. mean \in Int /\ WorstOf(site).quality_score <= mean /\ WorstOf(site).quality_score \in Int
    <3>1. WorstOf(site).quality_score \in Nat
      <4>1. \E w \in 1..n : WorstOf(site) = site[w]
        BY <2>3, <2>6, <2>14, BestIs
      <4>2. QED
        BY <2>14, <4>1
    <3>2. QED
      BY <2>3, <2>15, <3>1
  <2>21. core.overall \in {mean, mean + 5} /\ stats.avg_quality_score = mean
    BY <2>15, <2>17, <2>18, <2>19
  <2> HIDE DEF mean
  <2>22. /\ WorstOf(site).quality_score <= core.overall
         /\ core.overall - stats.avg_quality_score \in {0, 5}
    BY <2>20, <2>21
  <2>23. Len(core.pages) = n /\ BestOf(core.pages).quality_score = BestOf(sorted).quality_score
    BY <2>10 DEF sorted
  <2>24. QED
    BY <2>11, <2>12, <2>15, <2>17, <2>18, <2>22, <2>23
<1>2. QED
  BY <1>1, CoreInvariant, PTL

\* The files edited are files, and the clock keeps to its bound.
CoreBounds == edited \subseteq Path /\ hour <= MaxHour

\* The bounds hold in every step (compile_from_directory).
LEMMA CoreBounded == CoreSpec => []CoreBounds
<1>1. CoreInit => CoreBounds
  BY CoreAssumption DEF CoreInit, CoreBounds
<1>2. CoreInv /\ CoreBounds /\ [CoreNext]_coreVars => CoreBounds'
  <2>1. SUFFICES ASSUME CoreInv, CoreBounds, [CoreNext]_coreVars PROVE CoreBounds'
    OBVIOUS
  <2>2. hour \in Nat /\ MaxHour \in Nat
    BY <2>1, CoreAssumption DEF CoreInv, WalkTypes
  <2>3. CASE TickHour
    BY <2>1, <2>2, <2>3 DEF TickHour, CoreBounds
  <2>4. ASSUME NEW f \in Path, NEW c \in Contents \cup {Absent}, Edit(f, c) PROVE CoreBounds'
    BY <2>1, <2>4 DEF Edit, CoreBounds
  <2>5. CASE UNCHANGED <<edited, hour>>
    BY <2>1, <2>5 DEF CoreBounds
  <2>6. StartWalk \/ BeginPages \/ CompilePage \/ Finish \/ FinishPanics \/ UNCHANGED coreVars
        => UNCHANGED <<edited, hour>>
    BY DEF StartWalk, BeginPages, CompilePage, Finish, FinishPanics, coreVars
  <2>7. ASSUME NEW f \in Path PROVE ReadFile(f) \/ ReadFails(f) => UNCHANGED <<edited, hour>>
    BY DEF ReadFile, ReadFails
  <2>8. QED
    BY <2>1, <2>3, <2>4, <2>5, <2>6, <2>7 DEF CoreNext
<1>3. QED
  BY <1>1, <1>2, CoreInvariant, PTL DEF CoreSpec

\* A compile of pages has its parts, in step with its phase, and no site of pages
\* scores less than 50 (compile_from_directory, compile_from_pages).
THEOREM CoreTypeCorrect == CoreSpec => []CoreTypeOK
<1>1. CoreInv /\ CoreBounds => CoreTypeOK
  <2> DEFINE n == Len(pages)
  <2>1. SUFFICES ASSUME CoreInv, CoreBounds PROVE CoreTypeOK
    OBVIOUS
  <2>2. /\ phase \in {"idle", "walk", "pages", "done", "failed", "panicked"}
        /\ listed \subseteq Path /\ edited \subseteq Path
        /\ Len(corePages) <= Len(pages)
        /\ begun \in 0..hour /\ hour <= MaxHour
    BY <2>1 DEF CoreInv, WalkTypes, Compiled, CoreBounds
  <2>3. ASSUME core # NoCore
        PROVE  /\ phase = "done" /\ Len(core.pages) = Len(pages)
               /\ core.title \in Text \cup {NoText}
               /\ core.site_id \in 0..core.site_id_signature
               /\ core.pages # <<>> => core.overall >= 50
    <3>1. /\ n \in Nat /\ Len(corePages) = n /\ DOMAIN corePages = 1..n /\ phase = "done"
          /\ core = CoreOf(corePages) /\ core.pages = Sorted(corePages)
          /\ \E q \in Bijection(1..n, 1..n) : core.pages = [k \in 1..n |-> corePages[q[k]]]
      BY <2>1, <2>3, CoreIs
    <3>2. ASSUME NEW i \in 1..n
          PROVE  /\ corePages[i].quality_score \in Nat /\ corePages[i].quality_score >= 50
                 /\ corePages[i].title \in Text \cup {NoText}
      <4>1. i \in 1..Len(corePages)
        BY <3>1
      <4>2. /\ pages[i] \in PageFile
            /\ corePages[i].quality_score = ScoreOf(pages[i])
            /\ ScoreOf(pages[i]) \in Nat /\ ScoreOf(pages[i]) >= 50
            /\ corePages[i].title = Parse(PageOf(pages[i].content)).title
        BY ONLY <2>1, <4>1, RowsAre
      <4>3. Parse(PageOf(pages[i].content)) \in Parsed
        BY <4>2, PageOfType, ParseType DEF PageFile
      <4>4. QED
        BY <4>2, <4>3 DEF Parsed
    <3> HIDE DEF n
    <3>3. PICK q \in Bijection(1..n, 1..n) : core.pages = [k \in 1..n |-> corePages[q[k]]]
      BY <3>1
    <3>4. \A k \in 1..n : q[k] \in 1..n
      BY <3>3 DEF Bijection, Injection
    <3> DEFINE sorted == core.pages
    <3>5. DOMAIN sorted = 1..n /\ Len(sorted) = n /\ \A k \in 1..n : sorted[k] = corePages[q[k]]
      BY <3>1, <3>3
    <3> HIDE DEF sorted
    <3>6. core.title \in Text \cup {NoText}
      <4>1. core.title = IF corePages = <<>> THEN NoText ELSE sorted[1].title
        BY <3>1 DEF CoreOf, sorted
      <4>2. ASSUME corePages # <<>> PROVE 1 \in 1..n
        BY <3>1, <4>2
      <4>3. QED
        BY <3>2, <3>4, <3>5, <4>1, <4>2
    <3>7. core.site_id = begun /\ core.site_id_signature = hour
      BY <3>1 DEF CoreOf, SiteId
    <3>8. ASSUME sorted # <<>> PROVE core.overall >= 50
      <4>1. n \in Nat \ {0}
        BY <3>1, <3>5, <3>8
      <4> DEFINE ns == [k \in 1..n |-> sorted[k].quality_score]
                 d == Total(ns) \div n
      <4>2. ns \in [1..n -> Nat] /\ \A k \in 1..n : ns[k] >= 50
        BY <3>2, <3>4, <3>5
      <4>3. Scores(sorted) = Total(ns)
        BY <3>5 DEF Scores
      <4> HIDE DEF ns
      <4>4. d >= 50 /\ d \in Int
        <5>1. d >= 50
          BY <4>1, <4>2, TotalAtLeast
        <5>2. Total(ns) \in Nat
          BY <4>1, <4>2, TotalType
        <5>3. QED
          BY <4>1, <5>1, <5>2
      <4>5. core.overall = Overall(sorted)
        BY <3>1 DEF CoreOf, sorted
      <4>6. Overall(sorted) = d + (IF TotalQas(sorted) > 0 /\ AeoReadiness(TotalQas(sorted)) > 50 THEN 5 ELSE 0)
        BY <3>5, <3>8, <4>3 DEF Overall
      <4> HIDE DEF d
      <4>7. QED
        BY <4>4, <4>5, <4>6
    <3>9. Len(core.pages) = Len(pages)
      BY <3>5 DEF sorted, n
    <3>10. QED
      BY <2>2, <3>1, <3>6, <3>7, <3>8, <3>9 DEF sorted
  <2>4. QED
    BY <2>2, <2>3 DEF CoreTypeOK
<1>2. QED
  BY <1>1, CoreInvariant, CoreBounded, PTL

-----------------------------------------------------------------------------
(* One page.                                                               *)

\* A list with one more element at the end.
LEMMA Appended ==
    ASSUME NEW S, NEW l \in Nat, NEW f \in [1..l -> S], NEW g \in [1..(l + 1) -> S],
           \A k \in 1..l : g[k] = f[k]
    PROVE  Append(f, g[l + 1]) = g
<1>1. f \in Seq(S) /\ Len(f) = l /\ g \in Seq(S) /\ Len(g) = l + 1
  BY FunctionIsSeq
<1>2. g[l + 1] \in S
  OBVIOUS
<1> DEFINE h == Append(f, g[l + 1])
<1>3. /\ h \in Seq(S) /\ Len(h) = l + 1
      /\ \A k \in 1..l : h[k] = f[k]
      /\ h[l + 1] = g[l + 1]
  BY <1>1, <1>2, AppendProperties
<1> HIDE DEF h
<1>4. \A k \in 1..(l + 1) : h[k] = g[k]
  BY <1>3
<1>5. h \in [1..(l + 1) -> S]
  BY <1>3
<1>6. h = g
  BY <1>4, <1>5
<1>7. QED
  BY <1>6 DEF h

\* Of a list without a block of some kinds nothing is kept.
LEMMA KeptNone ==
    ASSUME NEW N \in Nat, NEW runs \in [1..N -> Block], NEW kinds,
           \A i \in 1..N : runs[i].kind \notin kinds
    PROVE  Kept(runs, kinds) = <<>>
<1>a. PICK t \in [0..N -> Seq(Block)] : Keeps(t, N, runs, Blocks(kinds, Text))
  BY ThoseSteps
<1>b. \A m \in 1..N : runs[m] \in Blocks(kinds, Text) <=> runs[m].kind \in kinds
  BY DEF Block, Blocks
<1>1. /\ t[0] = <<>>
      /\ \A m \in 1..N :
            t[m] = IF runs[m].kind \in kinds THEN Append(t[m - 1], runs[m]) ELSE t[m - 1]
      /\ Kept(runs, kinds) = t[N]
  BY <1>a, <1>b DEF Keeps, Kept
<1> DEFINE T == {m \in 0..N : t[m] = <<>>}
<1>2. 0 \in T
  BY <1>1
<1>3. ASSUME NEW m \in 0..(N - 1), m \in T PROVE m + 1 \in T
  <2>1. m + 1 \in 1..N /\ (m + 1) - 1 = m /\ m + 1 \in 0..N
    OBVIOUS
  <2>2. t[m + 1] = t[m]
    BY <1>1, <2>1
  <2>3. QED
    BY <1>3, <2>1, <2>2
<1> HIDE DEF T
<1>4. \A m \in 0..N : m \in T
  BY <1>2, <1>3, Upwards
<1>5. N \in T
  BY <1>4
<1>6. QED
  BY <1>1, <1>5 DEF T

\* Of runs that alternate between two lists of kinds, every list keeps every second.
LEMMA KeptOdd ==
    ASSUME NEW N \in Nat, NEW runs \in [1..N -> Block], NEW kinds,
           \A i \in 1..N : runs[i].kind \in kinds <=> i % 2 = 1
    PROVE  Kept(runs, kinds) = [k \in 1..((N + 1) \div 2) |-> runs[2 * k - 1]]
<1>a. PICK t \in [0..N -> Seq(Block)] : Keeps(t, N, runs, Blocks(kinds, Text))
  BY ThoseSteps
<1>b. \A m \in 1..N : runs[m] \in Blocks(kinds, Text) <=> runs[m].kind \in kinds
  BY DEF Block, Blocks
<1>1. /\ t[0] = <<>>
      /\ \A m \in 1..N :
            t[m] = IF runs[m].kind \in kinds THEN Append(t[m - 1], runs[m]) ELSE t[m - 1]
      /\ Kept(runs, kinds) = t[N]
  BY <1>a, <1>b DEF Keeps, Kept
<1> DEFINE half(m) == (m + 1) \div 2
           odd(m) == [k \in 1..half(m) |-> runs[2 * k - 1]]
           T == {m \in 0..N : t[m] = odd(m)}
<1>2. 0 \in T
  <2>1. half(0) = 0 /\ 0 \in 0..N
    OBVIOUS
  <2>2. odd(0) = <<>>
    BY <2>1
  <2>3. QED
    BY <1>1, <2>1, <2>2
<1>3. ASSUME NEW m \in 0..(N - 1), m \in T PROVE m + 1 \in T
  <2>1. m + 1 \in 1..N /\ (m + 1) - 1 = m /\ m + 1 \in 0..N /\ m \in Nat
    OBVIOUS
  <2>2. t[m] = odd(m)
    BY <1>3
  <2>3. CASE (m + 1) % 2 = 1
    <3>1. half(m + 1) = half(m) + 1 /\ half(m) \in Nat /\ 2 * half(m + 1) - 1 = m + 1
      BY <2>1, <2>3
    <3>2. t[m + 1] = Append(odd(m), runs[m + 1])
      BY <1>1, <2>1, <2>2, <2>3
    <3>3. \A k \in 1..half(m + 1) : 2 * k - 1 \in 1..N
      BY <2>1, <3>1
    <3>4. odd(m + 1) \in [1..(half(m) + 1) -> Block]
      BY <3>1, <3>3
    <3>5. \A k \in 1..half(m) : k \in 1..half(m + 1)
      BY <3>1
    <3>6. odd(m) \in [1..half(m) -> Block] /\ \A k \in 1..half(m) : odd(m + 1)[k] = odd(m)[k]
      BY <3>3, <3>5
    <3>7. odd(m + 1)[half(m) + 1] = runs[m + 1]
      <4> DEFINE l == half(m) + 1
      <4>1. l \in 1..half(m + 1) /\ 2 * l - 1 = m + 1
        BY <3>1
      <4> HIDE DEF l, half
      <4>2. odd(m + 1)[l] = runs[m + 1]
        BY <4>1
      <4>3. QED
        BY <4>2 DEF l
    <3> HIDE DEF half, odd
    <3>8. Append(odd(m), odd(m + 1)[half(m) + 1]) = odd(m + 1)
      BY ONLY <3>1, <3>4, <3>6, Appended
    <3>9. t[m + 1] = odd(m + 1)
      BY <3>2, <3>7, <3>8
    <3>10. QED
      BY <2>1, <3>9
  <2>4. CASE (m + 1) % 2 # 1
    <3>1. half(m + 1) = half(m)
      BY <2>1, <2>4
    <3>2. t[m + 1] = t[m]
      BY <1>1, <2>1, <2>4
    <3>3. odd(m + 1) = odd(m)
      BY <3>1
    <3>4. QED
      BY <2>1, <2>2, <3>2, <3>3
  <2>5. QED
    BY <2>3, <2>4
<1> HIDE DEF T
<1>4. \A m \in 0..N : m \in T
  BY <1>2, <1>3, Upwards
<1>5. N \in T
  BY <1>4
<1>6. QED
  BY <1>1, <1>5 DEF T

\* Of a list that alternates every second block is kept.
LEMMA KeptEven ==
    ASSUME NEW N \in Nat, NEW runs \in [1..N -> Block], NEW kinds,
           \A i \in 1..N : runs[i].kind \in kinds <=> i % 2 = 0
    PROVE  Kept(runs, kinds) = [k \in 1..(N \div 2) |-> runs[2 * k]]
<1>a. PICK t \in [0..N -> Seq(Block)] : Keeps(t, N, runs, Blocks(kinds, Text))
  BY ThoseSteps
<1>b. \A m \in 1..N : runs[m] \in Blocks(kinds, Text) <=> runs[m].kind \in kinds
  BY DEF Block, Blocks
<1>1. /\ t[0] = <<>>
      /\ \A m \in 1..N :
            t[m] = IF runs[m].kind \in kinds THEN Append(t[m - 1], runs[m]) ELSE t[m - 1]
      /\ Kept(runs, kinds) = t[N]
  BY <1>a, <1>b DEF Keeps, Kept
<1> DEFINE half(m) == m \div 2
           even(m) == [k \in 1..half(m) |-> runs[2 * k]]
           T == {m \in 0..N : t[m] = even(m)}
<1>2. 0 \in T
  <2>1. half(0) = 0 /\ 0 \in 0..N
    OBVIOUS
  <2>2. even(0) = <<>>
    BY <2>1
  <2>3. QED
    BY <1>1, <2>1, <2>2
<1>3. ASSUME NEW m \in 0..(N - 1), m \in T PROVE m + 1 \in T
  <2>1. m + 1 \in 1..N /\ (m + 1) - 1 = m /\ m + 1 \in 0..N /\ m \in Nat
    OBVIOUS
  <2>2. t[m] = even(m)
    BY <1>3
  <2>3. CASE (m + 1) % 2 = 0
    <3>1. half(m + 1) = half(m) + 1 /\ half(m) \in Nat /\ 2 * half(m + 1) = m + 1
      BY <2>1, <2>3
    <3>2. t[m + 1] = Append(even(m), runs[m + 1])
      BY <1>1, <2>1, <2>2, <2>3
    <3>3. \A k \in 1..half(m + 1) : 2 * k \in 1..N
      BY <2>1, <3>1
    <3>4. even(m + 1) \in [1..(half(m) + 1) -> Block]
      BY <3>1, <3>3
    <3>5. \A k \in 1..half(m) : k \in 1..half(m + 1)
      BY <3>1
    <3>6. even(m) \in [1..half(m) -> Block] /\ \A k \in 1..half(m) : even(m + 1)[k] = even(m)[k]
      BY <3>3, <3>5
    <3>7. even(m + 1)[half(m) + 1] = runs[m + 1]
      <4> DEFINE l == half(m) + 1
      <4>1. l \in 1..half(m + 1) /\ 2 * l = m + 1
        BY <3>1
      <4> HIDE DEF l, half
      <4>2. even(m + 1)[l] = runs[m + 1]
        BY <4>1
      <4>3. QED
        BY <4>2 DEF l
    <3> HIDE DEF half, even
    <3>8. Append(even(m), even(m + 1)[half(m) + 1]) = even(m + 1)
      BY ONLY <3>1, <3>4, <3>6, Appended
    <3>9. t[m + 1] = even(m + 1)
      BY <3>2, <3>7, <3>8
    <3>10. QED
      BY <2>1, <3>9
  <2>4. CASE (m + 1) % 2 # 0
    <3>1. half(m + 1) = half(m)
      BY <2>1, <2>4
    <3>2. t[m + 1] = t[m]
      BY <1>1, <2>1, <2>4
    <3>3. even(m + 1) = even(m)
      BY <3>1
    <3>4. QED
      BY <2>1, <2>2, <3>2, <3>3
  <2>5. QED
    BY <2>3, <2>4
<1> HIDE DEF T
<1>4. \A m \in 0..N : m \in T
  BY <1>2, <1>3, Upwards
<1>5. N \in T
  BY <1>4
<1>6. QED
  BY <1>1, <1>5 DEF T

\* Of a list of which every block is kept, all are.
LEMMA ThoseAll ==
    ASSUME NEW N \in Nat, NEW runs \in [1..N -> Block], NEW blocks,
           \A i \in 1..N : runs[i] \in blocks
    PROVE  Those(runs, blocks) = runs
<1>a. PICK t \in [0..N -> Seq(Block)] : Keeps(t, N, runs, blocks)
  BY ThoseSteps
<1>1. /\ t[0] = <<>>
      /\ \A m \in 1..N : t[m] = Append(t[m - 1], runs[m])
      /\ Those(runs, blocks) = t[N]
  BY <1>a DEF Keeps
<1> DEFINE upto(m) == [i \in 1..m |-> runs[i]]
           T == {m \in 0..N : t[m] = upto(m)}
<1>2. 0 \in T
  <2>1. upto(0) = <<>> /\ 0 \in 0..N
    OBVIOUS
  <2>2. QED
    BY <1>1, <2>1
<1>3. ASSUME NEW m \in 0..(N - 1), m \in T PROVE m + 1 \in T
  <2>1. m + 1 \in 1..N /\ (m + 1) - 1 = m /\ m + 1 \in 0..N /\ m \in Nat
    OBVIOUS
  <2>2. t[m + 1] = Append(upto(m), runs[m + 1])
    BY <1>1, <1>3, <2>1
  <2>3. upto(m) \in [1..m -> Block] /\ upto(m + 1) \in [1..(m + 1) -> Block]
    BY <2>1
  <2>4. (\A k \in 1..m : upto(m + 1)[k] = upto(m)[k]) /\ upto(m + 1)[m + 1] = runs[m + 1]
    BY <2>1
  <2> HIDE DEF upto
  <2>5. Append(upto(m), upto(m + 1)[m + 1]) = upto(m + 1)
    BY ONLY <2>1, <2>3, <2>4, Appended
  <2>6. t[m + 1] = upto(m + 1)
    BY <2>2, <2>4, <2>5
  <2>7. QED
    BY <2>1, <2>6
<1> HIDE DEF T
<1>4. \A m \in 0..N : m \in T
  BY <1>2, <1>3, Upwards
<1>5. N \in T
  BY <1>4
<1>6. t[N] = upto(N)
  BY <1>5 DEF T
<1>7. QED
  BY <1>1, <1>6

\* The lines of a Markdown file have its kinds, also where two were made one.
LEMMA LineKinds ==
    ASSUME NEW N \in Nat, NEW runs \in [1..N -> Block],
           \A i \in 1..N : runs[i].kind \in MarkdownKinds
    PROVE  \A i \in 1..Len(Lines(runs)) : Lines(runs)[i].kind \in MarkdownKinds
<1> DEFINE InMarkdown(s) == \A i \in 1..Len(s) : s[i].kind \in MarkdownKinds
<1>a. PICK t \in [0..N -> Seq(Block)] : LinesTo(t, N, runs)
  BY LinesSteps
<1>1. t[0] = <<>> /\ (\A m \in 1..N : t[m] = JoinLine(t[m - 1], runs[m])) /\ Lines(runs) = t[N]
  BY <1>a DEF LinesTo
<1>2. ASSUME NEW lines \in Seq(Block), NEW r \in Block, InMarkdown(lines), r.kind \in MarkdownKinds
      PROVE  InMarkdown(JoinLine(lines, r))
  <2>1. CASE lines # <<>> /\ RunsOver(Last(lines), r)
    <3> DEFINE l == Last(lines)
               joined == [kind |-> JoinedKind(l, r), text |-> Joined[<<l.text, r.text>>], times |-> l.times]
    <3>1. Len(lines) \in 1..Len(lines) /\ l = lines[Len(lines)] /\ DOMAIN lines = 1..Len(lines)
          /\ Len(lines) \in Nat
      BY <2>1, EmptySeq DEF Last
    <3>2. joined.kind \in MarkdownKinds
      BY <1>2, <3>1 DEF JoinedKind, MarkdownKinds
    <3>3. JoinLine(lines, r) = [lines EXCEPT ![Len(lines)] = joined]
      BY <2>1, <3>1 DEF JoinLine
    <3> HIDE DEF joined, l
    <3>4. Len([lines EXCEPT ![Len(lines)] = joined]) = Len(lines)
      BY <3>1
    <3>5. \A i \in 1..Len(lines) : [lines EXCEPT ![Len(lines)] = joined][i].kind \in MarkdownKinds
      BY <1>2, <3>1, <3>2
    <3>6. QED
      BY <3>3, <3>4, <3>5
  <2>2. CASE ~(lines # <<>> /\ RunsOver(Last(lines), r))
    <3>1. JoinLine(lines, r) = Append(lines, r)
      BY <2>2 DEF JoinLine
    <3>2. /\ Len(Append(lines, r)) = Len(lines) + 1 /\ Len(lines) \in Nat
          /\ \A i \in 1..Len(lines) : Append(lines, r)[i] = lines[i]
          /\ Append(lines, r)[Len(lines) + 1] = r
      BY PageAppended
    <3>3. \A i \in 1..(Len(lines) + 1) : i \in 1..Len(lines) \/ i = Len(lines) + 1
      BY <3>2
    <3>4. QED
      BY <1>2, <3>1, <3>2, <3>3
  <2>3. QED
    BY <2>1, <2>2
<1> DEFINE T == {m \in 0..N : InMarkdown(t[m])}
<1>3. 0 \in T
  BY <1>1
<1> HIDE DEF InMarkdown
<1>4. ASSUME NEW m \in 0..(N - 1), m \in T PROVE m + 1 \in T
  <2>1. m + 1 \in 1..N /\ (m + 1) - 1 = m /\ m + 1 \in 0..N /\ m \in 0..N
    OBVIOUS
  <2>2. t[m] \in Seq(Block) /\ runs[m + 1] \in Block /\ runs[m + 1].kind \in MarkdownKinds
    BY <2>1
  <2>3. InMarkdown(JoinLine(t[m], runs[m + 1]))
    BY <1>2, <1>4, <2>2
  <2>4. QED
    BY <1>1, <2>1, <2>3
<1> HIDE DEF T
<1>5. \A m \in 0..N : m \in T
  BY <1>3, <1>4, Upwards
<1>6. N \in T
  BY <1>5
<1>7. InMarkdown(t[N])
  BY <1>6 DEF T
<1>8. QED
  BY <1>1, <1>7 DEF InMarkdown

\* Blocks of one text each.
LEMMA EachOne ==
    ASSUME NEW N \in Nat, NEW runs \in [1..N -> Block], \A i \in 1..N : runs[i].times = 1
    PROVE  Each(runs) = [i \in 1..N |-> runs[i].text]
<1>a. PICK t \in [0..N -> Seq(Text)] : Lists(t, N, runs)
  BY EachSteps
<1>1. /\ t[0] = <<>>
      /\ \A m \in 1..N : t[m] = t[m - 1] \o [j \in 1..runs[m].times |-> runs[m].text]
      /\ Each(runs) = t[N]
  BY <1>a DEF Lists
<1> DEFINE texts(m) == [i \in 1..m |-> runs[i].text]
           T == {m \in 0..N : t[m] = texts(m)}
<1>2. 0 \in T
  <2>1. texts(0) = <<>> /\ 0 \in 0..N
    OBVIOUS
  <2>2. QED
    BY <1>1, <2>1
<1>3. ASSUME NEW m \in 0..(N - 1), m \in T PROVE m + 1 \in T
  <2>1. m + 1 \in 1..N /\ (m + 1) - 1 = m /\ m + 1 \in 0..N /\ m \in Nat
    OBVIOUS
  <2>2. \A i \in 1..N : runs[i].text \in Text
    BY DEF Block
  <2>3. [j \in 1..runs[m + 1].times |-> runs[m + 1].text] = <<runs[m + 1].text>>
    BY <2>1
  <2>4. t[m + 1] = texts(m) \o <<runs[m + 1].text>>
    BY <1>1, <1>3, <2>1, <2>3
  <2>5. texts(m) \in [1..m -> Text] /\ texts(m + 1) \in [1..(m + 1) -> Text]
    BY <2>1, <2>2
  <2>6. \A k \in 1..m : texts(m + 1)[k] = texts(m)[k]
    BY <2>1
  <2>7. texts(m + 1)[m + 1] = runs[m + 1].text /\ runs[m + 1].text \in Text
    BY <2>1, <2>2
  <2> HIDE DEF texts
  <2>8. Append(texts(m), texts(m + 1)[m + 1]) = texts(m + 1)
    BY ONLY <2>1, <2>5, <2>6, Appended
  <2>9. texts(m) \in Seq(Text)
    BY <2>1, <2>5, FunctionIsSeq
  <2>10. Append(texts(m), runs[m + 1].text) = texts(m) \o <<runs[m + 1].text>>
    BY <2>7, <2>9, AppendIsConcat
  <2>11. t[m + 1] = texts(m + 1)
    BY <2>4, <2>7, <2>8, <2>10
  <2>12. QED
    BY <2>1, <2>11
<1> HIDE DEF T
<1>4. \A m \in 0..N : m \in T
  BY <1>2, <1>3, Upwards
<1>5. N \in T
  BY <1>4
<1>6. QED
  BY <1>1, <1>5 DEF T

PageTyped ==
    /\ page \in [format: {"html", "md"}, runs: Seq(Run)]
    /\ Len(page.runs) <= MaxRuns
    /\ \A i \in 1..Len(page.runs) :
          page.runs[i].kind \in IF page.format = "html" THEN HtmlKinds ELSE MarkdownKinds

\* A page that is continued is one of its format all along.
THEOREM PageInvariant == PageSpec => []PageTyped
<1>1. PageInit => PageTyped
  <2>1. SUFFICES ASSUME NEW f \in {"html", "md"}, page = [format |-> f, runs |-> <<>>]
                 PROVE  PageTyped
    BY DEF PageInit
  <2>2. <<>> \in Seq(Run) /\ Len(<<>>) = 0 /\ 0 <= MaxRuns
    BY DocumentAssumption
  <2>3. page \in [format: {"html", "md"}, runs: Seq(Run)] /\ page.runs = <<>>
    BY <2>1, <2>2
  <2>4. QED
    BY ONLY <2>2, <2>3 DEF PageTyped
<1>2. PageTyped /\ [PageNext]_page => PageTyped'
  <2>1. SUFFICES ASSUME PageTyped, [PageNext]_page PROVE PageTyped'
    OBVIOUS
  <2>2. ASSUME NEW r \in Run, AppendRun(r) PROVE PageTyped'
    <3> DEFINE runs == page.runs
               n == Len(runs)
    <3>1. /\ n < MaxRuns /\ r.kind \in IF page.format = "html" THEN HtmlKinds ELSE MarkdownKinds
          /\ page' = [page EXCEPT !.runs = Append(runs, r)]
      <4>1. page.format \in {"html", "md"}
        BY <2>1 DEF PageTyped
      <4>2. QED
        BY <2>2, <4>1 DEF AppendRun, MayStand
    <3>2. page \in [format: {"html", "md"}, runs: Seq(Run)] /\ runs \in Seq(Run)
      BY <2>1 DEF PageTyped
    <3>3. \A i \in 1..n : runs[i].kind \in IF page.format = "html" THEN HtmlKinds ELSE MarkdownKinds
      BY <2>1 DEF PageTyped
    <3> HIDE DEF runs
    <3>4. /\ Append(runs, r) \in Seq(Run) /\ Len(Append(runs, r)) = n + 1 /\ n \in Nat
          /\ \A i \in 1..n : Append(runs, r)[i] = runs[i]
          /\ Append(runs, r)[n + 1] = r
      BY <3>2, PageAppended
    <3>5. /\ page' \in [format: {"html", "md"}, runs: Seq(Run)]
          /\ page'.format = page.format /\ page'.runs = Append(runs, r)
      BY <3>1, <3>2, <3>4
    <3>6. MaxRuns \in Nat
      BY DocumentAssumption
    <3> DEFINE kinds == IF page.format = "html" THEN HtmlKinds ELSE MarkdownKinds
               new == Append(runs, r)
    <3>7. ASSUME NEW i \in 1..(n + 1) PROVE new[i].kind \in kinds
      <4>1. CASE i \in 1..n
        BY <3>3, <3>4, <4>1
      <4>2. CASE i = n + 1
        BY <3>1, <3>4, <4>2
      <4>3. QED
        BY <3>4, <4>1, <4>2
    <3>8. n + 1 <= MaxRuns
      BY <3>1, <3>4, <3>6
    <3>9. QED
      BY <3>4, <3>5, <3>7, <3>8 DEF PageTyped
  <2>3. CASE UNCHANGED page
    BY <2>1, <2>3 DEF PageTyped
  <2>4. QED
    BY <2>1, <2>2, <2>3 DEF PageNext
<1>3. QED
  BY <1>1, <1>2, PTL DEF PageSpec

\* A page holds only what its format has, and no more than its author may write
\* (parse_html, parse_markdown).
THEOREM PageTypes == PageSpec => []PageTypeOK
<1>1. PageTyped => PageTypeOK
  <2>1. SUFFICES ASSUME PageTyped PROVE PageTypeOK
    OBVIOUS
  <2>2. page.runs \in Seq(Run) /\ page.format \in {"html", "md"}
    BY <2>1 DEF PageTyped
  <2>3. DOMAIN page.runs = 1..Len(page.runs) /\ \A i \in 1..Len(page.runs) : page.runs[i] \in Run
    BY <2>2
  <2>4. QED
    BY <2>1, <2>2, <2>3 DEF PageTyped, PageTypeOK
<1>2. QED
  BY <1>1, PageInvariant, PTL

\* The pairs of a page whose lists are those of every second run.
LEMMA PairsAlternate ==
    ASSUME NEW n \in Nat, NEW runs \in [1..n -> Block], \A i \in 1..n : runs[i].times = 1,
           NEW parsed,
           parsed.headings = Sanitized([k \in 1..((n + 1) \div 2) |-> runs[2 * k - 1]]),
           parsed.paragraphs = Sanitized([k \in 1..(n \div 2) |-> runs[2 * k]])
    PROVE  \A k \in DOMAIN QaPairs(parsed) :
              /\ QaPairs(parsed)[k].question = Clean[runs[2 * k - 1].text]
              /\ QaPairs(parsed)[k].answer = IF 2 * k <= n THEN Clean[runs[2 * k].text] ELSE NoText
<1> DEFINE a == (n + 1) \div 2
           b == n \div 2
           odd == [k \in 1..a |-> runs[2 * k - 1]]
           even == [k \in 1..b |-> runs[2 * k]]
           asked == Each(Sanitized(odd))
           said == Each(Sanitized(even))
<1>1. a \in Nat /\ b \in Nat /\ \A k \in Nat : 2 * k <= n <=> k <= b
  OBVIOUS
<1>2. \A k \in 1..a : 2 * k - 1 \in 1..n
  OBVIOUS
<1>3. \A k \in 1..b : 2 * k \in 1..n
  OBVIOUS
<1>4. odd \in [1..a -> Block] /\ \A k \in 1..a : odd[k] = runs[2 * k - 1] /\ odd[k].times = 1
  BY <1>2
<1>5. even \in [1..b -> Block] /\ \A k \in 1..b : even[k] = runs[2 * k] /\ even[k].times = 1
  BY <1>3
<1> HIDE DEF odd, even, a, b
<1>6. asked = [k \in 1..a |-> Clean[odd[k].text]] /\ asked \in [1..a -> Text]
  <2>1. odd \in Seq(Block) /\ Len(odd) = a
    BY <1>1, <1>4, FunctionIsSeq
  <2> DEFINE clean == Sanitized(odd)
  <2>2. /\ clean \in Seq(Block) /\ Len(clean) = a
        /\ \A i \in 1..a : clean[i].text = Clean[odd[i].text] /\ clean[i].times = odd[i].times
    BY <2>1, SanitizedType
  <2> HIDE DEF clean
  <2>3. clean \in [1..a -> Block] /\ \A i \in 1..a : clean[i].times = 1
    <3>1. clean \in [1..a -> Block]
      BY <2>2, SeqIsFunction
    <3>2. \A i \in 1..a : odd[i].times = 1
      BY <1>4
    <3>3. QED
      BY <2>2, <3>1, <3>2
  <2>4. Each(clean) = [k \in 1..a |-> clean[k].text]
    BY ONLY <1>1, <2>3, EachOne
  <2>5. \A k \in 1..a : clean[k].text \in Text
    BY <2>3 DEF Block
  <2>6. QED
    BY <2>2, <2>4, <2>5 DEF clean
<1>7. said = [k \in 1..b |-> Clean[even[k].text]] /\ said \in [1..b -> Text]
  <2>1. even \in Seq(Block) /\ Len(even) = b
    BY <1>1, <1>5, FunctionIsSeq
  <2> DEFINE clean == Sanitized(even)
  <2>2. /\ clean \in Seq(Block) /\ Len(clean) = b
        /\ \A i \in 1..b : clean[i].text = Clean[even[i].text] /\ clean[i].times = even[i].times
    BY <2>1, SanitizedType
  <2> HIDE DEF clean
  <2>3. clean \in [1..b -> Block] /\ \A i \in 1..b : clean[i].times = 1
    <3>1. clean \in [1..b -> Block]
      BY <2>2, SeqIsFunction
    <3>2. \A i \in 1..b : even[i].times = 1
      BY <1>5
    <3>3. QED
      BY <2>2, <3>1, <3>2
  <2>4. Each(clean) = [k \in 1..b |-> clean[k].text]
    BY ONLY <1>1, <2>3, EachOne
  <2>5. \A k \in 1..b : clean[k].text \in Text
    BY <2>3 DEF Block
  <2>6. QED
    BY <2>2, <2>4, <2>5 DEF clean
<1>8. parsed.headings = Sanitized(odd) /\ parsed.paragraphs = Sanitized(even)
  BY DEF odd, even, a, b
<1>9. QaPairs(parsed) = [k \in 1..Least(20, Len(asked)) |->
            [question |-> asked[k], answer |-> IF k <= Len(said) THEN said[k] ELSE NoText]]
  BY <1>8 DEF QaPairs
<1> HIDE DEF asked, said
<1>10. Len(asked) = a /\ Len(said) = b
  BY <1>1, <1>6, <1>7, FunctionIsSeq
<1>11. Least(20, a) \in Nat /\ Least(20, a) <= a
  BY <1>1 DEF Least
<1>12. ASSUME NEW k \in DOMAIN QaPairs(parsed)
       PROVE  /\ QaPairs(parsed)[k].question = Clean[runs[2 * k - 1].text]
              /\ QaPairs(parsed)[k].answer = IF 2 * k <= n THEN Clean[runs[2 * k].text] ELSE NoText
  <2>1. k \in 1..Least(20, a) /\ k \in 1..a /\ k \in Nat
    BY <1>1, <1>9, <1>10, <1>11
  <2>2. /\ QaPairs(parsed)[k].question = asked[k]
        /\ QaPairs(parsed)[k].answer = IF k <= b THEN said[k] ELSE NoText
    BY <1>9, <1>10, <2>1
  <2>3. asked[k] = Clean[runs[2 * k - 1].text]
    BY <1>4, <1>6, <2>1
  <2>4. k <= b => said[k] = Clean[runs[2 * k].text]
    BY <1>1, <1>5, <1>7, <2>1
  <2>5. QED
    BY <1>1, <2>1, <2>2, <2>3, <2>4
<1>13. QED
  BY <1>12

\* No element of a list is passed over when each has a text once it is sanitised.
LEMMA AllShown ==
    ASSUME NEW s \in Seq(Block),
           \A k \in 1..Len(s) : Clean[s[k].text] \in Visible /\ s[k].kind \in HtmlKinds
    PROVE  Shown(Sanitized(s)) = Sanitized(s)
<1> DEFINE N == Len(s)
           clean == Sanitized(s)
<1>1. N \in Nat /\ DOMAIN s = 1..N /\ \A k \in 1..N : s[k] \in Block
  BY SeqIsFunction
<1>2. clean = [k \in 1..N |-> [s[k] EXCEPT !.text = Clean[@]]]
  BY <1>1 DEF Sanitized
<1>3. ASSUME NEW b \in Block, Clean[b.text] \in Visible, b.kind \in HtmlKinds
      PROVE  [b EXCEPT !.text = Clean[@]] \in Blocks(HtmlKinds, Visible)
  BY <1>3 DEF Block, Blocks
<1>4. \A k \in 1..N : clean[k] \in Blocks(HtmlKinds, Visible)
  BY <1>1, <1>2, <1>3
<1>5. clean \in Seq(Block) /\ Len(clean) = N
  BY SanitizedType
<1> HIDE DEF N, clean
<1>6. clean \in [1..N -> Block]
  BY <1>1, <1>5, SeqIsFunction
<1>7. Those(clean, Blocks(HtmlKinds, Visible)) = clean
  BY ONLY <1>1, <1>4, <1>6, ThoseAll
<1>8. QED
  BY <1>7 DEF Shown, clean

\* On a page that is read as headings of one level with a paragraph each, none of them
\* empty, every question gets the paragraph after it: what is passed over or made one is
\* so for both lists (parse_html, parse_markdown, generate_qa_pairs).
THEOREM AnswersFollow == PageSpec => []AnswersFollowQuestions
<1>1. PageTyped => AnswersFollowQuestions
  <2> DEFINE runs == AsRead(page)
             n == Len(runs)
             parsed == Parse(page)
             odd == [k \in 1..((n + 1) \div 2) |-> runs[2 * k - 1]]
             even == [k \in 1..(n \div 2) |-> runs[2 * k]]
  <2>1. SUFFICES ASSUME PageTyped, Alternates(runs)
                 PROVE  \A k \in DOMAIN QaPairs(parsed) :
                           /\ QaPairs(parsed)[k].question = Clean[runs[2 * k - 1].text]
                           /\ QaPairs(parsed)[k].answer = IF 2 * k <= n THEN Clean[runs[2 * k].text]
                                                          ELSE NoText
    BY DEF AnswersFollowQuestions
  <2>2. /\ page.runs \in Seq(Block) /\ page.format \in {"html", "md"}
        /\ \A i \in 1..Len(page.runs) :
              page.runs[i].kind \in IF page.format = "html" THEN HtmlKinds ELSE MarkdownKinds
    <3>1. Run \subseteq Block
      BY DocumentAssumption DEF Run, Block
    <3>2. page.runs \in Seq(Run)
      BY <2>1 DEF PageTyped
    <3>3. QED
      BY <2>1, <3>1, <3>2, SeqMonotonic DEF PageTyped
  <2>3. \A i \in 1..n : runs[i].kind \in IF page.format = "html" THEN HtmlKinds ELSE MarkdownKinds
    <3>1. CASE page.format = "html"
      BY <2>2, <3>1 DEF AsRead
    <3>2. CASE page.format = "md"
      <4>1. /\ Len(page.runs) \in Nat /\ page.runs \in [1..Len(page.runs) -> Block]
            /\ \A i \in 1..Len(page.runs) : page.runs[i].kind \in MarkdownKinds
        BY <2>2, <3>2, SeqIsFunction
      <4>2. \A i \in 1..Len(Lines(page.runs)) : Lines(page.runs)[i].kind \in MarkdownKinds
        BY ONLY <4>1, LineKinds
      <4>3. QED
        BY <3>2, <4>2 DEF AsRead
    <3>3. QED
      BY <2>2, <3>1, <3>2
  <2>4. n \in Nat /\ DOMAIN runs = 1..n /\ runs \in [1..n -> Block]
    <3>1. runs \in Seq(Block)
      BY <2>2, LinesType DEF AsRead
    <3> HIDE DEF runs
    <3>2. QED
      BY <3>1, SeqIsFunction
  <2>5. /\ \A i \in 1..n : runs[i].times = 1 /\ Clean[runs[i].text] \in Visible
        /\ \/ \A i \in 1..n : runs[i].kind = IF i % 2 = 1 THEN "h2" ELSE "p"
           \/ \A i \in 1..n : IF i % 2 = 1 THEN runs[i].kind = "##"
                                           ELSE runs[i].kind \in {"text", "-"}
    BY <2>1, <2>4 DEF Alternates
  <2>6. \A i \in 1..n : i % 2 \in {0, 1}
    BY <2>4
  <2> HIDE DEF runs, n
  <2>7. parsed.headings = Sanitized(odd) /\ parsed.paragraphs = Sanitized(even)
    <3>1. CASE page.format = "html"
      <4>1. \A i \in 1..n : runs[i].kind = IF i % 2 = 1 THEN "h2" ELSE "p"
        BY <2>3, <2>5, <3>1 DEF HtmlKinds
      <4>2. Kept(runs, {"h1"}) = <<>>
        <5>1. \A i \in 1..n : runs[i].kind \notin {"h1"}
          BY <4>1
        <5>2. QED
          BY ONLY <2>4, <5>1, KeptNone
      <4>3. Kept(runs, {"h2"}) = odd
        <5>1. \A i \in 1..n : runs[i].kind \in {"h2"} <=> i % 2 = 1
          BY <4>1
        <5>2. QED
          BY ONLY <2>4, <5>1, KeptOdd
      <4>4. Kept(runs, {"p"}) = even
        <5>1. \A i \in 1..n : runs[i].kind \in {"p"} <=> i % 2 = 0
          BY <2>6, <4>1
        <5>2. QED
          BY ONLY <2>4, <5>1, KeptEven
      <4>5. Shown(Sanitized(<<>>)) = <<>>
        <5>1. Sanitized(<<>>) = <<>>
          BY DEF Sanitized
        <5>2. /\ 0 \in Nat /\ <<>> \in [1..0 -> Block]
              /\ \A i \in 1..0 : <<>>[i] \in Blocks(HtmlKinds, Visible)
          OBVIOUS
        <5>3. Those(<<>>, Blocks(HtmlKinds, Visible)) = <<>>
          BY ONLY <5>2, ThoseAll
        <5>4. QED
          BY <5>1, <5>3 DEF Shown
      <4>a. odd \in Seq(Block) /\ even \in Seq(Block)
        <5>1. runs \in Seq(Block)
          BY <2>4, FunctionIsSeq
        <5>2. QED
          BY <4>3, <4>4, <5>1, KeptType
      <4>b. /\ \A k \in 1..Len(odd) : Clean[odd[k].text] \in Visible /\ odd[k].kind \in HtmlKinds
            /\ \A k \in 1..Len(even) : Clean[even[k].text] \in Visible /\ even[k].kind \in HtmlKinds
        <5> DEFINE a == (n + 1) \div 2
                   b == n \div 2
        <5>1. a \in Nat /\ b \in Nat
          BY <2>4
        <5>2. /\ \A k \in 1..a : 2 * k - 1 \in 1..n
              /\ \A k \in 1..b : 2 * k \in 1..n
          BY <2>4
        <5>3. Len(odd) = a /\ Len(even) = b
          BY <5>1
        <5> HIDE DEF a, b
        <5>4. /\ \A k \in 1..a : odd[k] = runs[2 * k - 1]
              /\ \A k \in 1..b : even[k] = runs[2 * k]
          BY DEF a, b
        <5>5. \A i \in 1..n : runs[i].kind \in HtmlKinds
          BY <2>3, <3>1
        <5> HIDE DEF odd, even
        <5>6. QED
          BY <2>5, <5>2, <5>3, <5>4, <5>5
      <4> HIDE DEF odd, even
      <4>c. ASSUME NEW s \in Seq(Block),
                   \A k \in 1..Len(s) : Clean[s[k].text] \in Visible /\ s[k].kind \in HtmlKinds
            PROVE  Shown(Sanitized(s)) = Sanitized(s)
        BY <4>c, AllShown
      <4>6. Sanitized(odd) \in Seq(Block) /\ Shown(Sanitized(odd)) = Sanitized(odd)
            /\ Shown(Sanitized(even)) = Sanitized(even)
        BY <4>a, <4>b, <4>c, SanitizedType
      <4>7. <<>> \o Sanitized(odd) = Sanitized(odd)
        BY <4>6, ConcatEmptySeq
      <4>8. /\ parsed.headings = Shown(Sanitized(<<>>)) \o Shown(Sanitized(odd))
            /\ parsed.paragraphs = Shown(Sanitized(even))
        BY <3>1, <4>2, <4>3, <4>4 DEF Parse, ParseHtml, runs, AsRead
      <4>9. QED
        BY <4>5, <4>6, <4>7, <4>8
    <3>2. CASE page.format = "md"
      <4>1. \A i \in 1..n : IF i % 2 = 1 THEN runs[i].kind = "##" ELSE runs[i].kind \in {"text", "-"}
        BY <2>3, <2>5, <3>2 DEF MarkdownKinds
      <4>2. Kept(runs, {"##"}) = odd
        <5>1. \A i \in 1..n : runs[i].kind \in {"##"} <=> i % 2 = 1
          BY <4>1
        <5>2. QED
          BY ONLY <2>4, <5>1, KeptOdd
      <4>3. Kept(runs, {"####", "text", "-"}) = even
        <5>1. \A i \in 1..n : runs[i].kind \in {"####", "text", "-"} <=> i % 2 = 0
          BY <2>6, <4>1
        <5>2. QED
          BY ONLY <2>4, <5>1, KeptEven
      <4> HIDE DEF odd, even
      <4>4. QED
        BY <3>2, <4>2, <4>3 DEF Parse, ParseMarkdown, runs, AsRead
    <3>3. QED
      BY <2>2, <3>1, <3>2
  <2> HIDE DEF parsed
  <2>8. QED
    BY ONLY <2>4, <2>5, <2>7, PairsAlternate
<1>2. QED
  BY <1>1, PageInvariant, PTL

-----------------------------------------------------------------------------
(* A page that grows.                                                      *)

\* ms is ns and then ls.
Joins(ms, M, ns, N, ls, L) ==
    /\ N \in Nat /\ L \in Nat /\ M = N + L
    /\ ns \in [1..N -> Nat] /\ ls \in [1..L -> Nat] /\ ms \in [1..M -> Nat]
    /\ \A i \in 1..N : ms[i] = ns[i]
    /\ \A i \in 1..L : ms[N + i] = ls[i]

\* The total of two lists joined is the sum of their totals.
LEMMA TotalConcat ==
    ASSUME NEW ms, NEW M, NEW ns, NEW N, NEW ls, NEW L, Joins(ms, M, ns, N, ls, L)
    PROVE  Total(ms) = Total(ns) + Total(ls)
<1>0. /\ N \in Nat /\ L \in Nat /\ M = N + L /\ M \in Nat
      /\ ns \in [1..N -> Nat] /\ ls \in [1..L -> Nat] /\ ms \in [1..M -> Nat]
      /\ \A i \in 1..N : ms[i] = ns[i]
      /\ \A i \in 1..L : ms[N + i] = ls[i]
  BY DEF Joins
<1>1. PICK t \in [0..N -> Nat] : /\ t[0] = 0 /\ \A m \in 1..N : t[m] = t[m - 1] + ns[m]
                                 /\ Total(ns) = t[N]
  BY <1>0, TotalSteps
<1>2. PICK u \in [0..L -> Nat] : /\ u[0] = 0 /\ \A m \in 1..L : u[m] = u[m - 1] + ls[m]
                                 /\ Total(ls) = u[L]
  BY <1>0, TotalSteps
<1>3. PICK v \in [0..M -> Nat] : /\ v[0] = 0 /\ \A m \in 1..M : v[m] = v[m - 1] + ms[m]
                                 /\ Total(ms) = v[M]
  BY <1>0, TotalSteps
<1>4. \A m \in 0..N : v[m] = t[m]
  <2> DEFINE T == {m \in 0..N : v[m] = t[m]}
  <2>1. 0 \in T
    BY <1>0, <1>1, <1>3
  <2>2. ASSUME NEW m \in 0..(N - 1), m \in T PROVE m + 1 \in T
    <3>1. m + 1 \in 1..N /\ (m + 1) - 1 = m /\ m + 1 \in 0..N /\ m + 1 \in 1..M
      BY <1>0
    <3>2. v[m + 1] = v[m] + ns[m + 1] /\ t[m + 1] = t[m] + ns[m + 1]
      BY <1>0, <1>1, <1>3, <3>1
    <3>3. QED
      BY <2>2, <3>1, <3>2
  <2> HIDE DEF T
  <2>3. \A m \in 0..N : m \in T
    BY <1>0, <2>1, <2>2, Upwards
  <2>4. QED
    BY <2>3 DEF T
<1>5. \A m \in 0..L : v[N + m] = t[N] + u[m]
  <2> DEFINE T == {m \in 0..L : v[N + m] = t[N] + u[m]}
  <2>1. 0 \in T
    <3>1. N \in 0..N /\ N + 0 = N /\ 0 \in 0..L
      BY <1>0
    <3>2. v[N] = t[N] /\ t[N] \in Nat
      BY <1>0, <1>4, <3>1
    <3>3. QED
      BY <1>0, <1>2, <3>1, <3>2
  <2>2. ASSUME NEW m \in 0..(L - 1), m \in T PROVE m + 1 \in T
    <3>1. /\ m + 1 \in 1..L /\ (m + 1) - 1 = m /\ m + 1 \in 0..L
          /\ N + (m + 1) \in 1..M /\ (N + (m + 1)) - 1 = N + m
      BY <1>0
    <3>2. v[N + (m + 1)] = v[N + m] + ls[m + 1] /\ u[m + 1] = u[m] + ls[m + 1]
      BY <1>0, <1>2, <1>3, <3>1
    <3>3. t[N] \in Nat /\ u[m] \in Nat /\ ls[m + 1] \in Nat /\ v[N + m] = t[N] + u[m]
      BY <1>0, <2>2, <3>1
    <3>4. v[N + (m + 1)] = t[N] + u[m + 1]
      <4> DEFINE a == v[N + m]
                 b == t[N]
                 c == u[m]
                 d == ls[m + 1]
      <4>1. v[N + (m + 1)] = a + d /\ u[m + 1] = c + d /\ b \in Nat /\ c \in Nat /\ d \in Nat /\ a = b + c
        BY <3>2, <3>3
      <4> HIDE DEF a, b, c, d
      <4>2. v[N + (m + 1)] = b + (c + d)
        BY ONLY <4>1
      <4>3. QED
        BY <4>1, <4>2 DEF b
    <3>5. QED
      BY <3>1, <3>4
  <2> HIDE DEF T
  <2>3. \A m \in 0..L : m \in T
    BY <1>0, <2>1, <2>2, Upwards
  <2>4. QED
    BY <2>3 DEF T
<1>6. L \in 0..L
  BY <1>0
<1>7. QED
  BY <1>0, <1>1, <1>2, <1>3, <1>5, <1>6

\* A longer list has no smaller total.
LEMMA TotalPrefix ==
    ASSUME NEW N \in Nat, NEW ns \in [1..N -> Nat], NEW M \in Nat, N <= M,
           NEW ms \in [1..M -> Nat], \A i \in 1..N : ms[i] = ns[i]
    PROVE  Total(ns) <= Total(ms)
<1> DEFINE L == M - N
           ls == [i \in 1..L |-> ms[N + i]]
<1>1. L \in Nat /\ M = N + L
  OBVIOUS
<1>2. \A i \in 1..L : N + i \in 1..M
  OBVIOUS
<1>3. ls \in [1..L -> Nat] /\ \A i \in 1..L : ms[N + i] = ls[i]
  BY <1>2
<1> HIDE DEF ls, L
<1>5. Total(ms) = Total(ns) + Total(ls)
  <2>1. Joins(ms, M, ns, N, ls, L)
    BY <1>1, <1>3 DEF Joins
  <2>2. QED
    BY <2>1, TotalConcat
<1>6. Total(ns) \in Nat /\ Total(ls) \in Nat
  BY <1>1, <1>3, TotalType
<1>7. QED
  BY <1>5, <1>6

\* Two lists of blocks joined hold as many as both ...
LEMMA CountConcat ==
    ASSUME NEW a \in Seq(Block), NEW b \in Seq(Block)
    PROVE  Count(a \o b) = Count(a) + Count(b)
<1> DEFINE c == a \o b
           N == Len(a)
           L == Len(b)
           of(s) == [i \in 1..Len(s) |-> s[i].times]
<1>1. /\ N \in Nat /\ L \in Nat /\ c \in Seq(Block) /\ Len(c) = N + L /\ Len(c) \in Nat
      /\ \A i \in 1..N : c[i] = a[i]
      /\ \A i \in 1..L : c[N + i] = b[i]
  <2>1. N \in Nat /\ L \in Nat
    OBVIOUS
  <2>2. /\ c \in Seq(Block) /\ Len(c) = N + L
        /\ \A i \in 1..(N + L) : c[i] = IF i <= N THEN a[i] ELSE b[i - N]
    BY ConcatProperties
  <2> HIDE DEF c, N, L
  <2>3. \A i \in 1..N : i \in 1..(N + L) /\ i <= N
    BY <2>1
  <2>4. \A i \in 1..L : N + i \in 1..(N + L) /\ ~(N + i <= N) /\ (N + i) - N = i
    BY <2>1
  <2>5. QED
    BY <2>1, <2>2, <2>3, <2>4
<1>2. ASSUME NEW s \in Seq(Block)
      PROVE  Count(s) = Total(of(s)) /\ of(s) \in [1..Len(s) -> Nat]
  <2>1. DOMAIN s = 1..Len(s) /\ \A i \in 1..Len(s) : s[i] \in Block
    OBVIOUS
  <2>2. \A i \in 1..Len(s) : s[i].times \in Nat
    BY <2>1 DEF Block
  <2>3. QED
    BY <2>1, <2>2 DEF Count
<1> HIDE DEF c, N, L
<1>3. /\ \A i \in 1..N : of(c)[i] = of(a)[i]
      /\ \A i \in 1..L : of(c)[N + i] = of(b)[i]
  <2>1. \A i \in 1..N : i \in 1..Len(c) /\ i \in 1..Len(a)
    BY <1>1 DEF N
  <2>2. \A i \in 1..L : N + i \in 1..Len(c) /\ i \in 1..Len(b)
    BY <1>1 DEF L
  <2>3. QED
    BY <1>1, <2>1, <2>2
<1>4. of(a) \in [1..N -> Nat] /\ of(b) \in [1..L -> Nat] /\ of(c) \in [1..Len(c) -> Nat]
  BY <1>1, <1>2 DEF N, L
<1>5. Count(a) = Total(of(a)) /\ Count(b) = Total(of(b)) /\ Count(c) = Total(of(c))
  BY <1>1, <1>2
<1> HIDE DEF of
<1>6. Total(of(c)) = Total(of(a)) + Total(of(b))
  <2>1. Joins(of(c), Len(c), of(a), N, of(b), L)
    BY <1>1, <1>3, <1>4 DEF Joins
  <2>2. QED
    BY <2>1, TotalConcat
<1>7. QED
  BY <1>5, <1>6 DEF c

\* ... and have the bytes of both.
LEMMA BytesConcat ==
    ASSUME NEW a \in Seq(Block), NEW b \in Seq(Block), NEW extra \in Nat
    PROVE  Bytes(a \o b, extra) = Bytes(a, extra) + Bytes(b, extra)
<1> DEFINE c == a \o b
           N == Len(a)
           L == Len(b)
           size(d) == d.times * (TextLen[d.text] + extra)
           of(s) == [i \in 1..Len(s) |-> size(s[i])]
<1>1. /\ N \in Nat /\ L \in Nat /\ c \in Seq(Block) /\ Len(c) = N + L /\ Len(c) \in Nat
      /\ \A i \in 1..N : c[i] = a[i]
      /\ \A i \in 1..L : c[N + i] = b[i]
  <2>1. N \in Nat /\ L \in Nat
    OBVIOUS
  <2>2. /\ c \in Seq(Block) /\ Len(c) = N + L
        /\ \A i \in 1..(N + L) : c[i] = IF i <= N THEN a[i] ELSE b[i - N]
    BY ConcatProperties
  <2> HIDE DEF c, N, L
  <2>3. \A i \in 1..N : i \in 1..(N + L) /\ i <= N
    BY <2>1
  <2>4. \A i \in 1..L : N + i \in 1..(N + L) /\ ~(N + i <= N) /\ (N + i) - N = i
    BY <2>1
  <2>5. QED
    BY <2>1, <2>2, <2>3, <2>4
<1>2. ASSUME NEW s \in Seq(Block)
      PROVE  Bytes(s, extra) = Total(of(s)) /\ of(s) \in [1..Len(s) -> Nat]
  <2>1. DOMAIN s = 1..Len(s) /\ \A i \in 1..Len(s) : s[i] \in Block
    OBVIOUS
  <2>2. Bytes(s, extra) = Total(of(s))
    BY <2>1 DEF Bytes
  <2>3. \A x, y \in Nat : x * (y + extra) \in Nat
    OBVIOUS
  <2>4. \A d \in Block : d.times \in Nat /\ TextLen[d.text] \in Nat
    BY DocumentAssumption DEF Block
  <2>5. \A d \in Block : size(d) \in Nat
    BY ONLY <2>3, <2>4
  <2> HIDE DEF size
  <2>6. QED
    BY <2>1, <2>2, <2>5
<1> HIDE DEF c, N, L, size
<1>3. /\ \A i \in 1..N : of(c)[i] = of(a)[i]
      /\ \A i \in 1..L : of(c)[N + i] = of(b)[i]
  <2>1. \A i \in 1..N : i \in 1..Len(c) /\ i \in 1..Len(a)
    BY <1>1 DEF N
  <2>2. \A i \in 1..L : N + i \in 1..Len(c) /\ i \in 1..Len(b)
    BY <1>1 DEF L
  <2>3. QED
    BY <1>1, <2>1, <2>2
<1>4. of(a) \in [1..N -> Nat] /\ of(b) \in [1..L -> Nat] /\ of(c) \in [1..Len(c) -> Nat]
  BY <1>1, <1>2 DEF N, L
<1>5. /\ Bytes(a, extra) = Total(of(a)) /\ Bytes(b, extra) = Total(of(b))
      /\ Bytes(c, extra) = Total(of(c))
  BY <1>1, <1>2
<1> HIDE DEF of
<1>6. Total(of(c)) = Total(of(a)) + Total(of(b))
  <2>1. Joins(of(c), Len(c), of(a), N, of(b), L)
    BY <1>1, <1>3, <1>4 DEF Joins
  <2>2. QED
    BY <2>1, TotalConcat
<1>7. QED
  BY <1>5, <1>6 DEF c

\* One list is as long as another at least, however it is measured.
Outgrows(u, s) ==
    /\ s \in Seq(Block) /\ u \in Seq(Block)
    /\ Count(s) <= Count(u)
    /\ \A extra \in Nat : Bytes(s, extra) <= Bytes(u, extra)

\* A list outgrows itself,
LEMMA OutgrowsItself ==
    ASSUME NEW s \in Seq(Block)
    PROVE  Outgrows(s, s)
<1>1. Count(s) \in Nat /\ \A extra \in Nat : Bytes(s, extra) \in Nat
  BY CountType, BytesType
<1>2. QED
  BY <1>1 DEF Outgrows

\* and so does it with one block more,
LEMMA OutgrowsByOne ==
    ASSUME NEW s \in Seq(Block), NEW b \in Block
    PROVE  Outgrows(Append(s, b), s)
<1>1. Append(s, b) = s \o <<b>> /\ <<b>> \in Seq(Block) /\ Append(s, b) \in Seq(Block)
  BY AppendIsConcat, AppendProperties
<1>2. Count(Append(s, b)) = Count(s) + Count(<<b>>) /\ Count(s) \in Nat /\ Count(<<b>>) \in Nat
  BY <1>1, CountConcat, CountType
<1>3. ASSUME NEW extra \in Nat PROVE Bytes(s, extra) <= Bytes(Append(s, b), extra)
  <2>1. Bytes(Append(s, b), extra) = Bytes(s, extra) + Bytes(<<b>>, extra)
    BY <1>1, BytesConcat
  <2>2. Bytes(s, extra) \in Nat /\ Bytes(<<b>>, extra) \in Nat
    BY <1>1, BytesType
  <2>3. QED
    BY <2>1, <2>2
<1>4. QED
  BY <1>1, <1>2, <1>3 DEF Outgrows

\* and two lists joined if each of them does.
LEMMA OutgrowsTogether ==
    ASSUME NEW s, NEW u, NEW v, NEW w, Outgrows(u, s), Outgrows(w, v)
    PROVE  Outgrows(u \o w, s \o v)
<1>1. s \in Seq(Block) /\ u \in Seq(Block) /\ v \in Seq(Block) /\ w \in Seq(Block)
  BY DEF Outgrows
<1>2. s \o v \in Seq(Block) /\ u \o w \in Seq(Block)
  BY <1>1, ConcatProperties
<1>3. Count(s \o v) <= Count(u \o w)
  <2>1. Count(s \o v) = Count(s) + Count(v) /\ Count(u \o w) = Count(u) + Count(w)
    BY <1>1, CountConcat
  <2>2. Count(s) \in Nat /\ Count(v) \in Nat /\ Count(u) \in Nat /\ Count(w) \in Nat
    BY <1>1, CountType
  <2>3. Count(s) <= Count(u) /\ Count(v) <= Count(w)
    BY DEF Outgrows
  <2>4. QED
    BY <2>1, <2>2, <2>3
<1>4. ASSUME NEW extra \in Nat PROVE Bytes(s \o v, extra) <= Bytes(u \o w, extra)
  <2>1. /\ Bytes(s \o v, extra) = Bytes(s, extra) + Bytes(v, extra)
        /\ Bytes(u \o w, extra) = Bytes(u, extra) + Bytes(w, extra)
    BY <1>1, BytesConcat
  <2>2. /\ Bytes(s, extra) \in Nat /\ Bytes(v, extra) \in Nat
        /\ Bytes(u, extra) \in Nat /\ Bytes(w, extra) \in Nat
    BY <1>1, BytesType
  <2>3. Bytes(s, extra) <= Bytes(u, extra) /\ Bytes(v, extra) <= Bytes(w, extra)
    BY DEF Outgrows
  <2>4. QED
    BY <2>1, <2>2, <2>3
<1>5. QED
  BY <1>2, <1>3, <1>4 DEF Outgrows

\* A run at the end is kept at the end.
LEMMA ThoseAppend ==
    ASSUME NEW runs \in Seq(Block), NEW r \in Block, NEW blocks
    PROVE  Those(Append(runs, r), blocks)
              = IF r \in blocks THEN Append(Those(runs, blocks), r) ELSE Those(runs, blocks)
<1> DEFINE N == Len(runs)
           more == Append(runs, r)
<1>1. N \in Nat /\ runs \in [1..N -> Block]
  BY SeqIsFunction
<1>2. /\ more \in Seq(Block) /\ Len(more) = N + 1
      /\ \A i \in 1..N : more[i] = runs[i]
      /\ more[N + 1] = r
  BY PageAppended
<1> HIDE DEF N, more
<1>3. N + 1 \in Nat /\ more \in [1..(N + 1) -> Block]
  BY <1>1, <1>2, SeqIsFunction
<1>4. PICK t \in [0..N -> Seq(Block)] : Keeps(t, N, runs, blocks)
  BY <1>1, ThoseSteps
<1>5. PICK u \in [0..(N + 1) -> Seq(Block)] : Keeps(u, N + 1, more, blocks)
  BY <1>3, ThoseSteps
<1> DEFINE T == {m \in 0..N : u[m] = t[m]}
<1>6. 0 \in T
  BY <1>1, <1>4, <1>5 DEF Keeps
<1>7. ASSUME NEW m \in 0..(N - 1), m \in T PROVE m + 1 \in T
  <2>1. m + 1 \in 1..N /\ (m + 1) - 1 = m /\ m + 1 \in 0..N /\ m + 1 \in 1..(N + 1)
    BY <1>1
  <2>2. t[m + 1] = IF runs[m + 1] \in blocks THEN Append(t[m], runs[m + 1]) ELSE t[m]
    BY <1>4, <2>1 DEF Keeps
  <2>3. u[m + 1] = IF more[m + 1] \in blocks THEN Append(u[m], more[m + 1]) ELSE u[m]
    BY <1>5, <2>1 DEF Keeps
  <2>4. u[m] = t[m] /\ more[m + 1] = runs[m + 1]
    BY <1>2, <1>7, <2>1
  <2>5. QED
    BY <2>1, <2>2, <2>3, <2>4
<1> HIDE DEF T
<1>8. \A m \in 0..N : m \in T
  BY <1>1, <1>6, <1>7, Upwards
<1>9. N \in T
  BY <1>1, <1>8
<1>10. u[N] = t[N]
  BY <1>9 DEF T
<1>11. u[N + 1] = IF r \in blocks THEN Append(u[N], r) ELSE u[N]
  <2>1. N + 1 \in 1..(N + 1) /\ (N + 1) - 1 = N
    BY <1>1
  <2>2. QED
    BY <1>2, <1>5, <2>1 DEF Keeps
<1>12. Those(runs, blocks) = t[N] /\ Those(more, blocks) = u[N + 1]
  BY <1>4, <1>5 DEF Keeps
<1>13. QED
  BY <1>10, <1>11, <1>12 DEF more

\* ... if it is of the kinds that are kept ...
LEMMA KeptAppend ==
    ASSUME NEW runs \in Seq(Block), NEW r \in Block, NEW kinds
    PROVE  Kept(Append(runs, r), kinds)
              = IF r.kind \in kinds THEN Append(Kept(runs, kinds), r) ELSE Kept(runs, kinds)
<1>1. r \in Blocks(kinds, Text) <=> r.kind \in kinds
  BY DEF Block, Blocks
<1>2. QED
  BY <1>1, ThoseAppend DEF Kept

\* ... or has a text that is shown.
LEMMA ShownAppend ==
    ASSUME NEW runs \in Seq(Block), NEW r \in Block
    PROVE  Shown(Append(runs, r)) \in {Shown(runs), Append(Shown(runs), r)}
BY ThoseAppend DEF Shown

\* A line at the end is read after the others.
LEMMA LinesAppend ==
    ASSUME NEW runs \in Seq(Block), NEW r \in Block
    PROVE  Lines(Append(runs, r)) = JoinLine(Lines(runs), r)
<1> DEFINE N == Len(runs)
           more == Append(runs, r)
<1>1. N \in Nat /\ runs \in [1..N -> Block]
  BY SeqIsFunction
<1>2. /\ more \in Seq(Block) /\ Len(more) = N + 1
      /\ \A i \in 1..N : more[i] = runs[i]
      /\ more[N + 1] = r
  BY PageAppended
<1> HIDE DEF N, more
<1>3. N + 1 \in Nat /\ more \in [1..(N + 1) -> Block]
  BY <1>1, <1>2, SeqIsFunction
<1>4. PICK t \in [0..N -> Seq(Block)] : LinesTo(t, N, runs)
  BY <1>1, LinesSteps
<1>5. PICK u \in [0..(N + 1) -> Seq(Block)] : LinesTo(u, N + 1, more)
  BY <1>3, LinesSteps
<1> DEFINE T == {m \in 0..N : u[m] = t[m]}
<1>6. 0 \in T
  BY <1>1, <1>4, <1>5 DEF LinesTo
<1>7. ASSUME NEW m \in 0..(N - 1), m \in T PROVE m + 1 \in T
  <2>1. m + 1 \in 1..N /\ (m + 1) - 1 = m /\ m + 1 \in 0..N /\ m + 1 \in 1..(N + 1)
    BY <1>1
  <2>2. t[m + 1] = JoinLine(t[m], runs[m + 1])
    BY <1>4, <2>1 DEF LinesTo
  <2>3. u[m + 1] = JoinLine(u[m], more[m + 1])
    BY <1>5, <2>1 DEF LinesTo
  <2>4. u[m] = t[m] /\ more[m + 1] = runs[m + 1]
    BY <1>2, <1>7, <2>1
  <2>5. QED
    BY <2>1, <2>2, <2>3, <2>4
<1> HIDE DEF T
<1>8. \A m \in 0..N : m \in T
  BY <1>1, <1>6, <1>7, Upwards
<1>9. N \in T
  BY <1>1, <1>8
<1>10. u[N] = t[N]
  BY <1>9 DEF T
<1>11. u[N + 1] = JoinLine(u[N], r)
  <2>1. N + 1 \in 1..(N + 1) /\ (N + 1) - 1 = N
    BY <1>1
  <2>2. QED
    BY <1>2, <1>5, <2>1 DEF LinesTo
<1>12. Lines(runs) = t[N] /\ Lines(more) = u[N + 1]
  BY <1>4, <1>5 DEF LinesTo
<1>13. QED
  BY <1>10, <1>11, <1>12 DEF more

CleanRun(b) == [b EXCEPT !.text = Clean[@]]
CodeRun(b) == [b EXCEPT !.times = IF b.kind = "pre" THEN @ ELSE 2 * @]
CodeOf(c) == [i \in DOMAIN c |-> CodeRun(c[i])]

\* Cleaning a block, or making code of it, leaves a block.
LEMMA RunTypes ==
    ASSUME NEW b \in Block
    PROVE  CleanRun(b) \in Block /\ CodeRun(b) \in Block
<1>1. CleanRun(b) \in Block
  BY DocumentAssumption DEF CleanRun, Block
<1>2. b.times \in Nat /\ 2 * b.times \in Nat
  BY DEF Block
<1>3. (IF b.kind = "pre" THEN b.times ELSE 2 * b.times) \in Nat
  BY <1>2
<1>4. CodeRun(b) \in Block
  BY <1>3 DEF CodeRun, Block
<1>5. QED
  BY <1>1, <1>4

\* sanitize goes block by block ...
LEMMA SanitizedAppend ==
    ASSUME NEW s \in Seq(Block), NEW b \in Block
    PROVE  Sanitized(Append(s, b)) = Append(Sanitized(s), CleanRun(b))
<1> DEFINE n == Len(s)
           f == Sanitized(s)
           more == Append(s, b)
           g == Sanitized(more)
<1>1. n \in Nat /\ DOMAIN s = 1..n /\ \A i \in 1..n : s[i] \in Block
  BY SeqIsFunction
<1>2. /\ more \in Seq(Block) /\ Len(more) = n + 1
      /\ \A i \in 1..n : more[i] = s[i]
      /\ more[n + 1] = b
  BY PageAppended
<1> HIDE DEF n, more
<1>3. DOMAIN more = 1..(n + 1) /\ \A i \in 1..(n + 1) : more[i] \in Block
  BY <1>2, SeqIsFunction
<1>4. f = [i \in 1..n |-> CleanRun(s[i])] /\ g = [i \in 1..(n + 1) |-> CleanRun(more[i])]
  BY <1>1, <1>3 DEF Sanitized, CleanRun
<1>5. f \in [1..n -> Block] /\ g \in [1..(n + 1) -> Block]
  BY <1>1, <1>3, <1>4, RunTypes
<1>6. \A i \in 1..n : i \in 1..(n + 1) /\ g[i] = f[i]
  BY <1>1, <1>2, <1>4
<1>7. g[n + 1] = CleanRun(b)
  BY <1>1, <1>2, <1>4
<1> HIDE DEF f, g
<1>8. Append(f, g[n + 1]) = g
  BY <1>1, <1>5, <1>6, Appended
<1>9. QED
  BY <1>7, <1>8 DEF f, g, more

\* ... and so does collecting the code.
LEMMA CodeAppend ==
    ASSUME NEW s \in Seq(Block), NEW b \in Block
    PROVE  CodeOf(Append(s, b)) = Append(CodeOf(s), CodeRun(b)) /\ CodeOf(s) \in Seq(Block)
<1> DEFINE n == Len(s)
           f == CodeOf(s)
           more == Append(s, b)
           g == CodeOf(more)
<1>1. n \in Nat /\ DOMAIN s = 1..n /\ \A i \in 1..n : s[i] \in Block
  BY SeqIsFunction
<1>2. /\ more \in Seq(Block) /\ Len(more) = n + 1
      /\ \A i \in 1..n : more[i] = s[i]
      /\ more[n + 1] = b
  BY PageAppended
<1> HIDE DEF n, more
<1>3. DOMAIN more = 1..(n + 1) /\ \A i \in 1..(n + 1) : more[i] \in Block
  BY <1>2, SeqIsFunction
<1>4. f = [i \in 1..n |-> CodeRun(s[i])] /\ g = [i \in 1..(n + 1) |-> CodeRun(more[i])]
  BY <1>1, <1>3 DEF CodeOf
<1>5. f \in [1..n -> Block] /\ g \in [1..(n + 1) -> Block]
  BY <1>1, <1>3, <1>4, RunTypes
<1>6. \A i \in 1..n : i \in 1..(n + 1) /\ g[i] = f[i]
  BY <1>1, <1>2, <1>4
<1>7. g[n + 1] = CodeRun(b)
  BY <1>1, <1>2, <1>4
<1> HIDE DEF f, g
<1>8. Append(f, g[n + 1]) = g
  BY <1>1, <1>5, <1>6, Appended
<1>9. QED
  BY <1>1, <1>5, <1>7, <1>8, FunctionIsSeq DEF f, g, more

\* The text of a run, as often as it stands there.
Said(b) == [j \in 1..b.times |-> b.text]

\* A block says its text as often as it occurs.
LEMMA SaidType ==
    ASSUME NEW b \in Block
    PROVE  Said(b) \in Seq(Text) /\ Len(Said(b)) = b.times
<1>1. b.times \in Nat /\ b.text \in Text
  BY DEF Block
<1>2. Said(b) \in [1..b.times -> Text]
  BY <1>1 DEF Said
<1>3. QED
  BY <1>1, <1>2, FunctionIsSeq

\* One block more is written out after the others.
LEMMA EachAppend ==
    ASSUME NEW s \in Seq(Block), NEW b \in Block
    PROVE  Each(Append(s, b)) = Each(s) \o Said(b)
<1> DEFINE N == Len(s)
           more == Append(s, b)
<1>1. N \in Nat /\ s \in [1..N -> Block]
  BY SeqIsFunction
<1>2. /\ more \in Seq(Block) /\ Len(more) = N + 1
      /\ \A i \in 1..N : more[i] = s[i]
      /\ more[N + 1] = b
  BY PageAppended
<1> HIDE DEF N, more
<1>3. N + 1 \in Nat /\ more \in [1..(N + 1) -> Block]
  BY <1>1, <1>2, SeqIsFunction
<1>4. PICK t \in [0..N -> Seq(Text)] : Lists(t, N, s)
  BY <1>1, EachSteps
<1>5. PICK u \in [0..(N + 1) -> Seq(Text)] : Lists(u, N + 1, more)
  BY <1>3, EachSteps
<1> DEFINE T == {m \in 0..N : u[m] = t[m]}
<1>6. 0 \in T
  BY <1>1, <1>4, <1>5 DEF Lists
<1>7. ASSUME NEW m \in 0..(N - 1), m \in T PROVE m + 1 \in T
  <2>1. m + 1 \in 1..N /\ (m + 1) - 1 = m /\ m + 1 \in 0..N /\ m + 1 \in 1..(N + 1)
    BY <1>1
  <2>2. t[m + 1] = t[m] \o Said(s[m + 1])
    BY <1>4, <2>1 DEF Lists, Said
  <2>3. u[m + 1] = u[m] \o Said(more[m + 1])
    BY <1>5, <2>1 DEF Lists, Said
  <2>4. u[m] = t[m] /\ more[m + 1] = s[m + 1]
    BY <1>2, <1>7, <2>1
  <2>5. QED
    BY <2>1, <2>2, <2>3, <2>4
<1> HIDE DEF T
<1>8. \A m \in 0..N : m \in T
  BY <1>1, <1>6, <1>7, Upwards
<1>9. u[N] = t[N]
  <2>1. N \in T
    BY <1>1, <1>8
  <2>2. QED
    BY <2>1 DEF T
<1>10. u[N + 1] = u[N] \o Said(b)
  <2>1. N + 1 \in 1..(N + 1) /\ (N + 1) - 1 = N
    BY <1>1
  <2>2. QED
    BY <1>2, <1>5, <2>1 DEF Lists, Said
<1>11. Each(s) = t[N] /\ Each(more) = u[N + 1]
  BY <1>4, <1>5 DEF Lists
<1>12. QED
  BY <1>9, <1>10, <1>11 DEF more

\* A list has as many texts as it counts.
LEMMA EachLen ==
    ASSUME NEW s \in Seq(Block)
    PROVE  Len(Each(s)) = Count(s)
<1> DEFINE N == Len(s)
           ns == [i \in 1..N |-> s[i].times]
<1>1. N \in Nat /\ s \in [1..N -> Block] /\ DOMAIN s = 1..N
  BY SeqIsFunction
<1> HIDE DEF N
<1>2. ns \in [1..N -> Nat]
  BY <1>1 DEF Block
<1>3. Count(s) = Total(ns)
  BY <1>1 DEF Count
<1> HIDE DEF ns
<1>4. PICK t \in [0..N -> Seq(Text)] : Lists(t, N, s)
  BY <1>1, EachSteps
<1>5. PICK u \in [0..N -> Nat] : /\ u[0] = 0 /\ \A m \in 1..N : u[m] = u[m - 1] + ns[m]
                                 /\ Total(ns) = u[N]
  BY <1>1, <1>2, TotalSteps
<1> DEFINE T == {m \in 0..N : Len(t[m]) = u[m]}
<1>6. 0 \in T
  BY <1>1, <1>4, <1>5 DEF Lists
<1>7. ASSUME NEW m \in 0..(N - 1), m \in T PROVE m + 1 \in T
  <2>1. m + 1 \in 1..N /\ (m + 1) - 1 = m /\ m + 1 \in 0..N
    BY <1>1
  <2>2. t[m + 1] = t[m] \o Said(s[m + 1])
    BY <1>4, <2>1 DEF Lists, Said
  <2>3. Said(s[m + 1]) \in Seq(Text) /\ Len(Said(s[m + 1])) = ns[m + 1]
    BY <1>1, <2>1, SaidType DEF ns
  <2>4. t[m] \in Seq(Text) /\ Len(t[m]) = u[m]
    BY <1>7, <2>1
  <2>5. Len(t[m + 1]) = u[m] + ns[m + 1]
    <3> DEFINE x == t[m]
               y == Said(s[m + 1])
    <3>1. x \in Seq(Text) /\ y \in Seq(Text)
      BY <2>3, <2>4
    <3> HIDE DEF x, y
    <3>2. Len(x \o y) = Len(x) + Len(y)
      BY <3>1, ConcatProperties
    <3>3. QED
      BY <2>2, <2>3, <2>4, <3>2 DEF x, y
  <2>6. u[m + 1] = u[m] + ns[m + 1]
    BY <1>5, <2>1
  <2>7. QED
    BY <2>1, <2>5, <2>6
<1> HIDE DEF T
<1>8. \A m \in 0..N : m \in T
  BY <1>1, <1>6, <1>7, Upwards
<1>9. N \in T
  BY <1>1, <1>8
<1>10. QED
  BY <1>3, <1>4, <1>5, <1>9 DEF T, Lists

\* A summary of more paragraphs is no shorter.
LEMMA SummaryGrows ==
    ASSUME NEW parsed \in Parsed, NEW grown \in Parsed, NEW more \in Seq(Text),
           Each(grown.paragraphs) = Each(parsed.paragraphs) \o more
    PROVE  SummaryLen(parsed) <= SummaryLen(grown)
<1> DEFINE all == Each(parsed.paragraphs)
           all2 == Each(grown.paragraphs)
           n == Least(3, Len(all))
           n2 == Least(3, Len(all2))
           said == Summary(parsed)
           said2 == Summary(grown)
           size(s, i) == TextLen[s[i]] + (IF i > 1 THEN 1 ELSE 0)
           ns == [i \in 1..n |-> size(said, i)]
           ms == [i \in 1..n2 |-> size(said2, i)]
<1>1. all \in Seq(Text)
  BY EachType DEF Parsed
<1>2. all2 \in Seq(Text) /\ all2 = all \o more
  BY EachType DEF Parsed
<1>a. said = SubSeq(all, 1, n) /\ said2 = SubSeq(all2, 1, n2)
  BY DEF Summary
<1>b. SummaryLen(parsed) = Total([i \in DOMAIN said |-> size(said, i)])
      /\ SummaryLen(grown) = Total([i \in DOMAIN said2 |-> size(said2, i)])
  BY DEF SummaryLen
<1> HIDE DEF all, all2, said, said2
<1>3. /\ Len(all) \in Nat /\ Len(more) \in Nat /\ Len(all2) = Len(all) + Len(more)
      /\ \A i \in 1..Len(all) : all2[i] = all[i]
  <2>1. Len(all) \in Nat /\ Len(more) \in Nat
    BY <1>1
  <2>2. /\ Len(all \o more) = Len(all) + Len(more)
        /\ \A i \in 1..(Len(all) + Len(more)) : (all \o more)[i] = IF i <= Len(all) THEN all[i] ELSE more[i - Len(all)]
    BY <1>1, ConcatProperties
  <2>3. \A i \in 1..Len(all) : i \in 1..(Len(all) + Len(more)) /\ i <= Len(all)
    BY <2>1
  <2>4. QED
    BY <1>2, <2>1, <2>2, <2>3
<1>4. n \in Nat /\ n2 \in Nat /\ n <= n2 /\ n <= Len(all) /\ n2 <= Len(all2)
  BY <1>3 DEF Least
<1> HIDE DEF n, n2
<1>5. /\ DOMAIN said = 1..n /\ \A i \in 1..n : said[i] = all[i] /\ said[i] \in Text
      /\ DOMAIN said2 = 1..n2 /\ \A i \in 1..n2 : said2[i] = all2[i] /\ said2[i] \in Text
  <2>1. DOMAIN said = 1..n /\ \A i \in 1..n : said[i] = all[i] /\ said[i] \in Text
    BY <1>1, <1>3, <1>4, <1>a
  <2>2. Len(all2) \in Nat
    BY <1>3
  <2>3. DOMAIN said2 = 1..n2 /\ \A i \in 1..n2 : said2[i] = all2[i] /\ said2[i] \in Text
    BY <1>2, <1>4, <1>a, <2>2
  <2>4. QED
    BY <2>1, <2>3
<1>6. SummaryLen(parsed) = Total(ns) /\ SummaryLen(grown) = Total(ms)
  BY <1>5, <1>b
<1>7. /\ \A i \in 1..n : size(said, i) \in Nat
      /\ \A i \in 1..n2 : size(said2, i) \in Nat
  BY <1>5, DocumentAssumption
<1>8. \A i \in 1..n : i \in 1..n2 /\ i \in 1..Len(all)
  BY <1>3, <1>4
<1>9. \A i \in 1..n : said2[i] = said[i]
  BY <1>3, <1>5, <1>8
<1>10. ns \in [1..n -> Nat] /\ ms \in [1..n2 -> Nat]
  BY <1>7
<1>11. \A i \in 1..n : ms[i] = ns[i]
  BY <1>8, <1>9
<1> HIDE DEF ns, ms, size
<1>12. Total(ns) <= Total(ms)
  BY <1>4, <1>10, <1>11, TotalPrefix
<1>13. QED
  BY <1>6, <1>12

\* What the parsers find in a page of one run more.
Grown(grown, parsed) ==
    /\ parsed \in Parsed /\ grown \in Parsed
    /\ Outgrows(grown.headings, parsed.headings)
    /\ Outgrows(grown.paragraphs, parsed.paragraphs)
    /\ Outgrows(grown.code, parsed.code)
    /\ Outgrows(grown.tables, parsed.tables)
    /\ \E more \in Seq(Text) : Each(grown.paragraphs) = Each(parsed.paragraphs) \o more
    /\ parsed.title # NoText => grown.title # NoText

\* Each list of a parsed page grows at its end if at all.
LEMMA ListGrows ==
    ASSUME NEW s \in Seq(Block), NEW u, NEW b \in Block, u = s \/ u = Append(s, b)
    PROVE  Outgrows(u, s) /\ \E more \in Seq(Text) : Each(u) = Each(s) \o more
<1>1. CASE u = s
  <2>1. Each(s) \in Seq(Text) /\ <<>> \in Seq(Text)
    BY EachType
  <2>2. Each(s) \o <<>> = Each(s)
    BY <2>1, ConcatEmptySeq
  <2>3. QED
    BY <1>1, <2>1, <2>2, OutgrowsItself
<1>2. CASE u = Append(s, b)
  <2>1. Each(u) = Each(s) \o Said(b) /\ Said(b) \in Seq(Text)
    BY <1>2, EachAppend, SaidType
  <2>2. Outgrows(u, s)
    BY <1>2, OutgrowsByOne
  <2>3. QED
    BY <2>1, <2>2
<1>3. QED
  BY <1>1, <1>2

\* A page of which the parsers come to see the same blocks, or one more at the end.
Continues(q, p, r) ==
    /\ p.runs \in Seq(Block) /\ q.runs \in Seq(Block)
    /\ p.format \in {"html", "md"} /\ q.format = p.format
    /\ AsRead(q) = AsRead(p) \/ AsRead(q) = Append(AsRead(p), r)

\* One more block makes the parsed page grow (parse_html, parse_markdown).
LEMMA ParsedGrows ==
    ASSUME NEW p, NEW q, NEW r \in Block, Continues(q, p, r)
    PROVE  Grown(Parse(q), Parse(p))
<1> DEFINE runs == AsRead(p)
           more == AsRead(q)
           clean == CleanRun(r)
           kept(kinds) == Kept(runs, kinds)
           kept2(kinds) == Kept(more, kinds)
<1>1. /\ p.runs \in Seq(Block) /\ q.runs \in Seq(Block) /\ runs \in Seq(Block) /\ more \in Seq(Block)
      /\ p.format \in {"html", "md"} /\ q.format = p.format
      /\ more = runs \/ more = Append(runs, r)
  BY LinesType DEF Continues, AsRead
<1>2. clean \in Block /\ CodeRun(r) \in Block
  BY RunTypes
<1> HIDE DEF runs, more
<1>3. ASSUME NEW kinds
      PROVE  /\ kept(kinds) \in Seq(Block) /\ kept2(kinds) \in Seq(Block)
             /\ kept2(kinds) = kept(kinds) \/ kept2(kinds) = Append(kept(kinds), r)
  <2>1. kept(kinds) \in Seq(Block) /\ kept2(kinds) \in Seq(Block)
    BY <1>1, KeptType
  <2>2. Kept(Append(runs, r), kinds) = IF r.kind \in kinds THEN Append(Kept(runs, kinds), r) ELSE Kept(runs, kinds)
    BY <1>1, KeptAppend
  <2>3. QED
    BY <1>1, <2>1, <2>2
<1> HIDE DEF kept, kept2, clean
<1>4. ASSUME NEW kinds
      PROVE  /\ Sanitized(kept(kinds)) \in Seq(Block) /\ Sanitized(kept2(kinds)) \in Seq(Block)
             /\ \/ Sanitized(kept2(kinds)) = Sanitized(kept(kinds))
                \/ Sanitized(kept2(kinds)) = Append(Sanitized(kept(kinds)), clean)
  <2>1. kept(kinds) \in Seq(Block) /\ kept2(kinds) \in Seq(Block)
        /\ (kept2(kinds) = kept(kinds) \/ kept2(kinds) = Append(kept(kinds), r))
    BY <1>3
  <2>2. Sanitized(kept(kinds)) \in Seq(Block) /\ Sanitized(kept2(kinds)) \in Seq(Block)
    BY <2>1, SanitizedType
  <2>3. Sanitized(Append(kept(kinds), r)) = Append(Sanitized(kept(kinds)), clean)
    BY <2>1, SanitizedAppend DEF clean
  <2>4. QED
    BY <2>1, <2>2, <2>3
<1>5. Parse(p) \in Parsed /\ Parse(q) \in Parsed
  BY <1>1, ParseType
<1>6. ASSUME NEW s \in Seq(Block), s # <<>>
      PROVE  s[1].text \in Text /\ Last(s).text \in Text
  <2>1. Len(s) \in 1..Len(s) /\ 1 \in 1..Len(s)
    BY <1>6, EmptySeq
  <2>2. s[1] \in Block /\ s[Len(s)] \in Block
    BY <2>1
  <2>3. QED
    BY <2>2 DEF Last, Block
<1>8. CASE p.format = "html"
  <2> DEFINE said(kinds) == Shown(Sanitized(kept(kinds)))
             said2(kinds) == Shown(Sanitized(kept2(kinds)))
             raw(kinds) == Shown(kept(kinds))
             raw2(kinds) == Shown(kept2(kinds))
  <2>1. /\ Parse(p).headings = said({"h1"}) \o said({"h2"}) /\ Parse(q).headings = said2({"h1"}) \o said2({"h2"})
        /\ Parse(p).paragraphs = said({"p"}) /\ Parse(q).paragraphs = said2({"p"})
        /\ Parse(p).tables = raw({"table"}) /\ Parse(q).tables = raw2({"table"})
    BY <1>1, <1>8 DEF Parse, ParseHtml, kept, kept2, AsRead, runs, more
  <2>2. /\ Parse(p).code = CodeOf(raw({"pre", "pre_code"}))
        /\ Parse(q).code = CodeOf(raw2({"pre", "pre_code"}))
    BY <1>1, <1>8 DEF Parse, ParseHtml, kept, kept2, CodeOf, CodeRun, AsRead, runs, more
  <2>3. ASSUME NEW kinds
        PROVE  /\ said(kinds) \in Seq(Block) /\ raw(kinds) \in Seq(Block)
               /\ said2(kinds) = said(kinds) \/ said2(kinds) = Append(said(kinds), clean)
               /\ raw2(kinds) = raw(kinds) \/ raw2(kinds) = Append(raw(kinds), r)
    <3>1. said(kinds) \in Seq(Block) /\ raw(kinds) \in Seq(Block)
      BY <1>3, <1>4, KeptType
    <3>2. Shown(Append(Sanitized(kept(kinds)), clean)) \in {said(kinds), Append(said(kinds), clean)}
      BY <1>2, <1>4, ShownAppend
    <3>3. Shown(Append(kept(kinds), r)) \in {raw(kinds), Append(raw(kinds), r)}
      BY <1>3, ShownAppend
    <3>4. said2(kinds) = said(kinds) \/ said2(kinds) = Append(said(kinds), clean)
      BY <1>4, <3>2
    <3>5. raw2(kinds) = raw(kinds) \/ raw2(kinds) = Append(raw(kinds), r)
      BY <1>3, <3>3
    <3>6. QED
      BY <3>1, <3>4, <3>5
  <2> HIDE DEF said, said2, raw, raw2
  <2>4. ASSUME NEW kinds
        PROVE  /\ Outgrows(said2(kinds), said(kinds)) /\ Outgrows(raw2(kinds), raw(kinds))
               /\ \E texts \in Seq(Text) : Each(said2(kinds)) = Each(said(kinds)) \o texts
    <3>1. Outgrows(said2(kinds), said(kinds)) /\ \E texts \in Seq(Text) : Each(said2(kinds)) = Each(said(kinds)) \o texts
      BY <1>2, <2>3, ListGrows
    <3>2. Outgrows(raw2(kinds), raw(kinds))
      BY <2>3, ListGrows
    <3>3. QED
      BY <3>1, <3>2
  <2>5. Outgrows(Parse(q).headings, Parse(p).headings)
    <3>1. Outgrows(said2({"h1"}), said({"h1"})) /\ Outgrows(said2({"h2"}), said({"h2"}))
      BY <2>4
    <3>2. QED
      BY <2>1, <3>1, OutgrowsTogether
  <2>6. Outgrows(Parse(q).code, Parse(p).code)
    <3> DEFINE c == raw({"pre", "pre_code"})
               c2 == raw2({"pre", "pre_code"})
    <3>1. c \in Seq(Block) /\ (c2 = c \/ c2 = Append(c, r))
      BY <2>3
    <3> HIDE DEF c, c2
    <3>2. CodeOf(c) \in Seq(Block) /\ CodeOf(Append(c, r)) = Append(CodeOf(c), CodeRun(r))
      BY <3>1, CodeAppend
    <3>3. CodeOf(c2) = CodeOf(c) \/ CodeOf(c2) = Append(CodeOf(c), CodeRun(r))
      BY <3>1, <3>2
    <3>4. Outgrows(CodeOf(c2), CodeOf(c))
      BY <1>2, <3>2, <3>3, ListGrows
    <3>5. QED
      BY <2>2, <3>4 DEF c, c2
  <2>7. Parse(p).title # NoText => Parse(q).title # NoText
    <3> DEFINE t == Sanitized(kept({"title"}))
               t2 == Sanitized(kept2({"title"}))
    <3>1. /\ Parse(p).title = IF t = <<>> \/ t[1].text \notin Visible THEN NoText ELSE t[1].text
          /\ Parse(q).title = IF t2 = <<>> \/ t2[1].text \notin Visible THEN NoText ELSE t2[1].text
      BY <1>1, <1>8 DEF Parse, ParseHtml, kept, kept2, AsRead, runs, more
    <3>2. t \in Seq(Block) /\ (t2 = t \/ t2 = Append(t, clean))
      BY <1>4
    <3> HIDE DEF t, t2
    <3>3. ASSUME t # <<>> PROVE t2 # <<>> /\ t2[1] = t[1]
      <4>1. Len(t) \in Nat /\ Len(t) # 0 /\ 1 \in 1..Len(t)
        BY <3>2, <3>3, EmptySeq
      <4>2. Len(Append(t, clean)) = Len(t) + 1 /\ Append(t, clean)[1] = t[1]
        BY <1>2, <3>2, <4>1, PageAppended
      <4>3. Append(t, clean) # <<>>
        BY <4>1, <4>2
      <4>4. QED
        BY <3>2, <3>3, <4>2, <4>3
    <3>4. t # <<>> => t[1].text # NoText
      BY <1>6, <3>2, DocumentAssumption
    <3>5. QED
      BY <3>1, <3>3, <3>4
  <2>8. /\ Outgrows(Parse(q).paragraphs, Parse(p).paragraphs) /\ Outgrows(Parse(q).tables, Parse(p).tables)
        /\ \E texts \in Seq(Text) : Each(Parse(q).paragraphs) = Each(Parse(p).paragraphs) \o texts
    BY <2>1, <2>4
  <2>9. QED
    BY <1>5, <2>5, <2>6, <2>7, <2>8 DEF Grown
<1>9. CASE p.format = "md"
  <2> DEFINE said(kinds) == Sanitized(kept(kinds))
             said2(kinds) == Sanitized(kept2(kinds))
  <2>1. /\ Parse(p).headings = said({"##"}) /\ Parse(q).headings = said2({"##"})
        /\ Parse(p).paragraphs = said({"####", "text", "-"}) /\ Parse(q).paragraphs = said2({"####", "text", "-"})
        /\ Parse(p).tables = said({"|"}) /\ Parse(q).tables = said2({"|"})
        /\ Parse(p).code = <<>> /\ Parse(q).code = <<>>
    BY <1>1, <1>9 DEF Parse, ParseMarkdown, kept, kept2, AsRead, runs, more
  <2>2. Parse(p).title # NoText => Parse(q).title # NoText
    <3> DEFINE t == said({"#"})
               t2 == said2({"#"})
    <3>1. /\ Parse(p).title = IF t = <<>> THEN NoText ELSE Last(t).text
          /\ Parse(q).title = IF t2 = <<>> THEN NoText ELSE Last(t2).text
      BY <1>1, <1>9 DEF Parse, ParseMarkdown, kept, kept2, AsRead, runs, more
    <3>2. t \in Seq(Block) /\ t2 \in Seq(Block) /\ (t2 = t \/ t2 = Append(t, clean))
      BY <1>4
    <3> HIDE DEF t, t2
    <3>3. t # <<>> => t2 # <<>>
      BY <1>2, <3>2, AppendProperties
    <3>4. t2 # <<>> => Last(t2).text # NoText
      BY <1>6, <3>2, DocumentAssumption
    <3>5. QED
      BY <3>1, <3>3, <3>4
  <2>3. Outgrows(Parse(q).code, Parse(p).code)
    <3>1. <<>> \in Seq(Block)
      OBVIOUS
    <3>2. QED
      BY <2>1, <3>1, OutgrowsItself
  <2>4. ASSUME NEW kinds
        PROVE  /\ Outgrows(said2(kinds), said(kinds))
               /\ \E texts \in Seq(Text) : Each(said2(kinds)) = Each(said(kinds)) \o texts
    <3>1. said(kinds) \in Seq(Block) /\ (said2(kinds) = said(kinds) \/ said2(kinds) = Append(said(kinds), clean))
      BY <1>4
    <3> HIDE DEF said, said2
    <3>2. QED
      BY <1>2, <3>1, ListGrows
  <2> HIDE DEF said, said2
  <2>5. /\ Outgrows(Parse(q).headings, Parse(p).headings)
        /\ Outgrows(Parse(q).paragraphs, Parse(p).paragraphs) /\ Outgrows(Parse(q).tables, Parse(p).tables)
        /\ \E texts \in Seq(Text) : Each(Parse(q).paragraphs) = Each(Parse(p).paragraphs) \o texts
    BY <2>1, <2>4
  <2>6. QED
    BY <1>5, <2>2, <2>3, <2>5 DEF Grown
<1>10. QED
  BY <1>1, <1>8, <1>9

\* The numbers of a parsed page.
LEMMA Quantities ==
    ASSUME NEW parsed \in Parsed
    PROVE  /\ parsed.headings \in Seq(Block) /\ parsed.paragraphs \in Seq(Block)
           /\ parsed.code \in Seq(Block) /\ parsed.tables \in Seq(Block)
           /\ parsed.title \in Text \cup {NoText}
           /\ Count(parsed.headings) \in Nat /\ Count(parsed.code) \in Nat /\ Count(parsed.tables) \in Nat
           /\ Len(QaPairs(parsed)) = Least(20, Count(parsed.headings))
<1>1. /\ parsed.headings \in Seq(Block) /\ parsed.paragraphs \in Seq(Block)
      /\ parsed.code \in Seq(Block) /\ parsed.tables \in Seq(Block)
      /\ parsed.title \in Text \cup {NoText}
  BY DEF Parsed
<1>2. Count(parsed.headings) \in Nat /\ Count(parsed.code) \in Nat /\ Count(parsed.tables) \in Nat
  BY <1>1, CountType
<1> DEFINE asked == Each(parsed.headings)
           n == Least(20, Len(asked))
<1>3. Len(asked) = Count(parsed.headings)
  BY <1>1, EachLen
<1>4. n \in Nat
  BY <1>2, <1>3 DEF Least
<1>5. DOMAIN QaPairs(parsed) = 1..n
  BY DEF QaPairs
<1>6. Len(QaPairs(parsed)) \in Nat /\ DOMAIN QaPairs(parsed) = 1..Len(QaPairs(parsed))
  BY PairsType
<1> DEFINE l == Len(QaPairs(parsed))
<1> HIDE DEF n, asked, l
<1>7. l = n
  <2>1. l \in Nat /\ 1..l = 1..n
    BY <1>5, <1>6 DEF l
  <2>2. (l \in 1..l \/ l = 0) /\ (n \in 1..n \/ n = 0)
    BY <1>4, <2>1
  <2>3. QED
    BY <1>4, <2>1, <2>2
<1>8. QED
  BY <1>1, <1>2, <1>3, <1>7 DEF l, n

\* A list that goes on from one of its own length is that one.
LEMMA PrefixIsAll ==
    ASSUME NEW s \in Seq(Block), NEW u \in Seq(Block), Len(u) = Len(s), IsPrefix(s, u)
    PROVE  u = s
<1>1. /\ Len(s) \in Nat /\ s \in [1..Len(s) -> Block] /\ u \in [1..Len(s) -> Block]
  BY SeqIsFunction
<1>2. \A i \in 1..Len(s) : s[i] = u[i]
  BY <1>1 DEF IsPrefix
<1>3. QED
  BY <1>1, <1>2

\* More pairs, no smaller multiplier (calculate_quality_score).
LEMMA RelevanceGrows ==
    ASSUME NEW a \in Nat, NEW b \in Nat, a <= b
    PROVE  /\ Relevance(a) \in {10, 12, 15, 20, 30} /\ Relevance(b) \in {10, 12, 15, 20, 30}
           /\ Relevance(a) <= Relevance(b)
BY DEF Relevance

\* Multiplied and cut off, the order stays.
LEMMA ProductGrows ==
    ASSUME NEW a \in Nat, NEW b \in Nat, a <= b,
           NEW r \in {10, 12, 15, 20, 30}, NEW s \in {10, 12, 15, 20, 30}, r <= s
    PROVE  (a * r) \div 10 <= (b * s) \div 10
<1>1. a * r <= b * r
  OBVIOUS
<1>2. b * r <= b * s
  OBVIOUS
<1>3. a * r \in Nat /\ b * s \in Nat /\ b * r \in Nat
  OBVIOUS
<1>4. \A x, y \in Nat : x <= y => x \div 10 <= y \div 10
  OBVIOUS
<1>5. a * r <= b * s
  BY <1>1, <1>2, <1>3
<1>6. QED
  BY ONLY <1>3, <1>4, <1>5

\* One more block lowers no score, unless it replaces a longer title.
LEMMA ScoreGrows ==
    ASSUME NEW p, NEW q, NEW r \in Block, Continues(q, p, r), TitleLen(p) <= TitleLen(q)
    PROVE  QualityScore(p) <= QualityScore(q)
<1> DEFINE parsed == Parse(p)
           grown == Parse(q)
           base(g, x) == Least(MarkdownLen(x), 5000) \div 10 + 5 * HashMarks(g, x)
                         + 15 * Count(x.tables) + 10 * Count(x.code)
           summary(x) == IF SummaryLen(x) > 50 THEN Least(SummaryLen(x), 500) \div 5 ELSE 0
           times(x) == Relevance(Len(QaPairs(x)))
<1>1. /\ QualityScore(p) = ((base(p, parsed) + 50 + summary(parsed)) * times(parsed)) \div 10
      /\ QualityScore(q) = ((base(q, grown) + 50 + summary(grown)) * times(grown)) \div 10
  BY DEF QualityScore, ScoreOfParsed
<1>2. Grown(grown, parsed)
  BY ParsedGrows
<1>3. TitleLen(p) = (IF parsed.title = NoText THEN 0 ELSE TextLen[parsed.title])
      /\ TitleLen(q) = (IF grown.title = NoText THEN 0 ELSE TextLen[grown.title])
  BY DEF TitleLen
<1> HIDE DEF parsed, grown
<1>4. /\ parsed \in Parsed /\ grown \in Parsed
      /\ Outgrows(grown.headings, parsed.headings) /\ Outgrows(grown.paragraphs, parsed.paragraphs)
      /\ Outgrows(grown.code, parsed.code) /\ Outgrows(grown.tables, parsed.tables)
      /\ parsed.title # NoText => grown.title # NoText
  BY <1>2 DEF Grown
<1>5. MarkdownLen(parsed) <= MarkdownLen(grown)
  <2> DEFINE title(x) == IF x.title = NoText THEN 0 ELSE TextLen[x.title] + 4
             h(x) == Bytes(x.headings, 5)
             s(x) == Bytes(x.paragraphs, 2)
             c(x) == Bytes(x.code, 10)
  <2>1. title(parsed) \in Nat /\ title(grown) \in Nat /\ title(parsed) <= title(grown)
    <3>1. parsed.title \in Text \cup {NoText} /\ grown.title \in Text \cup {NoText}
      BY <1>4, Quantities
    <3>2. \A x \in Text : TextLen[x] \in Nat
      BY DocumentAssumption
    <3>3. QED
      BY <1>3, <1>4, <3>1, <3>2
  <2>2. h(parsed) <= h(grown) /\ s(parsed) <= s(grown) /\ c(parsed) <= c(grown)
    BY <1>4 DEF Outgrows
  <2>3. /\ h(parsed) \in Nat /\ h(grown) \in Nat /\ s(parsed) \in Nat /\ s(grown) \in Nat
        /\ c(parsed) \in Nat /\ c(grown) \in Nat
    BY <1>4, Quantities, BytesType
  <2>4. /\ MarkdownLen(parsed) = title(parsed) + h(parsed) + s(parsed) + c(parsed)
        /\ MarkdownLen(grown) = title(grown) + h(grown) + s(grown) + c(grown)
    BY DEF MarkdownLen
  <2> HIDE DEF title, h, s, c
  <2>5. QED
    BY <2>1, <2>2, <2>3, <2>4
<1>6. HashMarks(p, parsed) <= HashMarks(q, grown)
  <2> DEFINE marks(g) == IF g.format = "md" THEN Count(Kept(Lines(g.runs), {"####"})) ELSE 0
             title(x) == IF x.title = NoText THEN 0 ELSE 1
  <2>1. /\ HashMarks(p, parsed) = Count(parsed.headings) + title(parsed) + marks(p)
        /\ HashMarks(q, grown) = Count(grown.headings) + title(grown) + marks(q)
    BY DEF HashMarks
  <2>2. marks(p) \in Nat /\ marks(q) \in Nat /\ marks(p) <= marks(q)
    <3>1. CASE p.format = "html"
      BY <3>1 DEF Continues
    <3>2. CASE p.format = "md"
      <4> DEFINE lines == Lines(p.runs)
                 lines2 == Lines(q.runs)
                 k == Kept(lines, {"####"})
                 k2 == Kept(lines2, {"####"})
      <4>1. /\ lines \in Seq(Block) /\ q.format = "md"
            /\ lines2 = lines \/ lines2 = Append(lines, r)
        BY <3>2, LinesType DEF Continues, AsRead
      <4> HIDE DEF lines, lines2
      <4>2. k \in Seq(Block) /\ (k2 = k \/ k2 = Append(k, r))
        <5>1. k \in Seq(Block)
          BY <4>1, KeptType
        <5>2. Kept(Append(lines, r), {"####"}) = IF r.kind \in {"####"} THEN Append(k, r) ELSE k
          BY <4>1, KeptAppend
        <5>3. QED
          BY <4>1, <5>1, <5>2
      <4> HIDE DEF k, k2
      <4>3. Outgrows(k2, k)
        BY <4>2, ListGrows
      <4>4. k2 \in Seq(Block)
        BY <4>2, AppendProperties
      <4>5. Count(k) <= Count(k2) /\ Count(k) \in Nat /\ Count(k2) \in Nat
        BY <4>2, <4>3, <4>4, CountType DEF Outgrows
      <4>6. marks(p) = Count(k) /\ marks(q) = Count(k2)
        BY <3>2, <4>1 DEF k, k2, lines, lines2
      <4>7. QED
        BY <4>5, <4>6
    <3>3. QED
      BY <3>1, <3>2 DEF Continues
  <2>3. title(parsed) <= title(grown) /\ title(parsed) \in Nat /\ title(grown) \in Nat
    BY <1>4
  <2>4. Count(parsed.headings) <= Count(grown.headings)
        /\ Count(parsed.headings) \in Nat /\ Count(grown.headings) \in Nat
    BY <1>4, Quantities DEF Outgrows
  <2> HIDE DEF marks, title
  <2>5. QED
    BY <2>1, <2>2, <2>3, <2>4
<1>7. base(p, parsed) \in Nat /\ base(q, grown) \in Nat /\ base(p, parsed) <= base(q, grown)
  <2>1. p.runs \in Seq(Block) /\ q.runs \in Seq(Block)
    BY DEF Continues
  <2>2. /\ MarkdownLen(parsed) \in Nat /\ MarkdownLen(grown) \in Nat
        /\ HashMarks(p, parsed) \in Nat /\ HashMarks(q, grown) \in Nat
    BY <1>4, <2>1, MarkdownLenType, HashMarksType
  <2>3. /\ Count(parsed.tables) \in Nat /\ Count(grown.tables) \in Nat
        /\ Count(parsed.code) \in Nat /\ Count(grown.code) \in Nat
        /\ Count(parsed.tables) <= Count(grown.tables) /\ Count(parsed.code) <= Count(grown.code)
    BY <1>4, Quantities DEF Outgrows
  <2>4. \A x, y \in Nat : x <= y => /\ Least(x, 5000) \div 10 <= Least(y, 5000) \div 10
                                    /\ Least(x, 5000) \div 10 \in Nat /\ Least(y, 5000) \div 10 \in Nat
    BY DEF Least
  <2>5. /\ Least(MarkdownLen(parsed), 5000) \div 10 <= Least(MarkdownLen(grown), 5000) \div 10
        /\ Least(MarkdownLen(parsed), 5000) \div 10 \in Nat /\ Least(MarkdownLen(grown), 5000) \div 10 \in Nat
    BY ONLY <1>5, <2>2, <2>4
  <2> DEFINE kept(x) == Least(MarkdownLen(x), 5000) \div 10
             marks(g, x) == HashMarks(g, x)
             tables(x) == Count(x.tables)
             code(x) == Count(x.code)
  <2>6. /\ base(p, parsed) = kept(parsed) + 5 * marks(p, parsed) + 15 * tables(parsed) + 10 * code(parsed)
        /\ base(q, grown) = kept(grown) + 5 * marks(q, grown) + 15 * tables(grown) + 10 * code(grown)
    OBVIOUS
  <2>7. /\ kept(parsed) \in Nat /\ kept(grown) \in Nat /\ kept(parsed) <= kept(grown)
        /\ marks(p, parsed) \in Nat /\ marks(q, grown) \in Nat
        /\ marks(p, parsed) <= marks(q, grown)
        /\ tables(parsed) \in Nat /\ tables(grown) \in Nat /\ tables(parsed) <= tables(grown)
        /\ code(parsed) \in Nat /\ code(grown) \in Nat /\ code(parsed) <= code(grown)
    BY <1>6, <2>2, <2>3, <2>5
  <2> HIDE DEF base, kept, marks, tables, code
  <2>8. QED
    BY ONLY <2>6, <2>7
<1>8. summary(parsed) \in Nat /\ summary(grown) \in Nat /\ summary(parsed) <= summary(grown)
  <2>1. SummaryLen(parsed) \in Nat /\ SummaryLen(grown) \in Nat
    BY <1>4, SummaryType
  <2>2. SummaryLen(parsed) <= SummaryLen(grown)
    BY <1>2, <1>4, SummaryGrows DEF Grown
  <2>3. \A x, y \in Nat : x <= y =>
           /\ (IF x > 50 THEN Least(x, 500) \div 5 ELSE 0) <= (IF y > 50 THEN Least(y, 500) \div 5 ELSE 0)
           /\ (IF x > 50 THEN Least(x, 500) \div 5 ELSE 0) \in Nat
           /\ (IF y > 50 THEN Least(y, 500) \div 5 ELSE 0) \in Nat
    BY DEF Least
  <2>4. QED
    BY ONLY <2>1, <2>2, <2>3
<1>9. times(parsed) \in {10, 12, 15, 20, 30} /\ times(grown) \in {10, 12, 15, 20, 30}
      /\ times(parsed) <= times(grown)
  <2>1. /\ Len(QaPairs(parsed)) = Least(20, Count(parsed.headings))
        /\ Len(QaPairs(grown)) = Least(20, Count(grown.headings))
        /\ Count(parsed.headings) <= Count(grown.headings)
        /\ Count(parsed.headings) \in Nat /\ Count(grown.headings) \in Nat
    BY <1>4, Quantities DEF Outgrows
  <2>2. Len(QaPairs(parsed)) \in Nat /\ Len(QaPairs(grown)) \in Nat
        /\ Len(QaPairs(parsed)) <= Len(QaPairs(grown))
    BY ONLY <2>1 DEF Least
  <2>3. QED
    BY <2>2, RelevanceGrows
<1> HIDE DEF base, summary, times
<1>10. /\ base(p, parsed) + 50 + summary(parsed) \in Nat
       /\ base(q, grown) + 50 + summary(grown) \in Nat
       /\ base(p, parsed) + 50 + summary(parsed) <= base(q, grown) + 50 + summary(grown)
  BY <1>7, <1>8
<1>11. QED
  BY ONLY <1>1, <1>9, <1>10, ProductGrows

\* A page that is continued never loses score, unless its title gets shorter or its last
\* line is made one with the new one (compile_mdoc, compile_doc, calculate_quality_score,
\* parse_markdown).
THEOREM GrowthKeepsScore == PageSpec => GrowthNeverLowersScore
<1>1. PageTyped /\ [PageNext]_page
        => [TitleLen(page') >= TitleLen(page) /\ IsPrefix(AsRead(page), AsRead(page'))
               => QualityScore(page') >= QualityScore(page)]_page
  <2>1. SUFFICES ASSUME PageTyped, NEW r \in Run, AppendRun(r), TitleLen(page') >= TitleLen(page),
                        IsPrefix(AsRead(page), AsRead(page'))
                 PROVE  QualityScore(page') >= QualityScore(page)
    BY DEF PageNext
  <2>2. page \in [format: {"html", "md"}, runs: Seq(Run)]
    BY <2>1 DEF PageTyped
  <2>3. Run \subseteq Block
    BY DocumentAssumption DEF Run, Block
  <2>4. page.runs \in Seq(Block) /\ page.format \in {"html", "md"} /\ r \in Block
    BY <2>2, <2>3, SeqMonotonic
  <2>5. page'.format = page.format /\ page'.runs = Append(page.runs, r)
    BY <2>1, <2>2 DEF AppendRun
  <2>6. page'.runs \in Seq(Block)
    BY <2>4, <2>5, AppendProperties
  <2>7. TitleLen(page) <= TitleLen(page')
    <3>1. TitleLen(page) \in Nat /\ TitleLen(page') \in Nat
      <4>1. Parse(page) \in Parsed /\ Parse(page') \in Parsed
        BY <2>4, <2>6, ParseType
      <4>2. QED
        BY <4>1, Quantities, DocumentAssumption DEF TitleLen
    <3>2. QED
      BY <2>1, <3>1
  <2>8. Continues(page', page, r)
    <3>1. CASE page.format = "html"
      BY <2>4, <2>5, <2>6, <3>1 DEF Continues, AsRead
    <3>2. CASE page.format = "md"
      <4> DEFINE lines == Lines(page.runs)
                 lines2 == JoinLine(lines, r)
      <4>1. lines \in Seq(Block) /\ lines2 \in Seq(Block)
        BY <2>4, LinesType, JoinLineType
      <4>2. AsRead(page) = lines /\ AsRead(page') = lines2
        BY <2>4, <2>5, <3>2, LinesAppend DEF AsRead
      <4>3. lines2 = lines \/ lines2 = Append(lines, r)
        <5>1. CASE lines # <<>> /\ RunsOver(Last(lines), r)
          <6>1. Len(lines2) = Len(lines)
            BY <4>1, <5>1 DEF JoinLine
          <6>2. IsPrefix(lines, lines2)
            BY <2>1, <4>2
          <6> HIDE DEF lines, lines2
          <6>3. QED
            BY <4>1, <6>1, <6>2, PrefixIsAll
        <5>2. CASE ~(lines # <<>> /\ RunsOver(Last(lines), r))
          BY <5>2 DEF JoinLine
        <5>3. QED
          BY <5>1, <5>2
      <4> HIDE DEF lines, lines2
      <4>4. QED
        BY <2>4, <2>5, <2>6, <4>2, <4>3 DEF Continues
    <3>3. QED
      BY <2>4, <3>1, <3>2
  <2>9. QualityScore(page) <= QualityScore(page')
    BY <2>4, <2>7, <2>8, ScoreGrows
  <2>10. QualityScore(page) \in Nat /\ QualityScore(page') \in Nat
    BY <2>4, <2>6, ScoreType
  <2>11. QED
    BY <2>9, <2>10
<1>2. QED
  BY <1>1, PageInvariant, PTL DEF PageSpec, GrowthNeverLowersScore
=============================================================================
