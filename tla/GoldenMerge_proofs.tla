------------------------- MODULE GoldenMerge_proofs -------------------------
(***************************************************************************)
(* What merge_golden_sets computes for any number of golden sets of any    *)
(* length.  The merge is a fold, so each fact about it is an invariant of  *)
(* the loop, and needs induction over the cases.  A set of naturals takes  *)
(* the place of the induction predicate: the library's induction theorems  *)
(* take an operator, which the provers here cannot instantiate.            *)
(***************************************************************************)
EXTENDS GoldenMerge, WellFoundedInduction, TLAPS

(***************************************************************************)
(* Naturals and sequences.                                                 *)
(***************************************************************************)
\* A non-empty set of naturals has a least element.
LEMMA LeastNatural ==
  ASSUME NEW S \in SUBSET Nat, S # {}
  PROVE  \E x \in S : \A y \in S : x <= y
<1> DEFINE R == OpToRel(<, Nat)
<1>1. IsWellFoundedOn(R, Nat)
  BY NatLessThanWellFounded
<1>2. ASSUME NEW x \in Nat, NEW y \in Nat, y < x
      PROVE  <<y, x>> \in R
  BY <1>2 DEF OpToRel
<1> HIDE DEF R
<1>3. PICK x \in S : \A y \in S : <<y, x>> \notin R
  BY <1>1, WFMin
<1>4. ASSUME NEW y \in S
      PROVE  x <= y
  <2>1. x \in Nat /\ y \in Nat /\ ~(y < x)
    BY <1>2, <1>3
  <2>2. QED
    BY <2>1
<1>5. QED
  BY <1>4

\* Induction: a set with 0 that is closed under successor has every natural.
LEMMA NaturalsIn ==
  ASSUME NEW S, 0 \in S, \A n \in Nat : n \in S => n + 1 \in S
  PROVE  \A n \in Nat : n \in S
<1>1. SUFFICES ASSUME Nat \ S # {} PROVE FALSE
  OBVIOUS
<1>2. PICK x \in Nat \ S : \A y \in Nat \ S : x <= y
  BY <1>1, LeastNatural
<1>3. x - 1 \in Nat /\ x - 1 \notin Nat \ S
  BY <1>2
<1>4. QED
  BY <1>2, <1>3

\* A non-empty set of naturals has its Min.
LEMMA MinIsLeast ==
  ASSUME NEW S \in SUBSET Nat, S # {}
  PROVE  Min(S) \in S /\ \A y \in S : Min(S) <= y
BY LeastNatural DEF Min

\* An upper bound that is in the set is its Max.
LEMMA MaxIsGreatest ==
  ASSUME NEW S \in SUBSET Nat, NEW m \in S, \A y \in S : y <= m
  PROVE  Max(S) = m
<1>1. \A x \in S : (\A y \in S : x >= y) <=> x = m
  OBVIOUS
<1>2. QED
  BY <1>1 DEF Max

\* SelectInSeq, with a set in place of the test.
LEMMA FirstIndex ==
  ASSUME NEW n \in Nat, NEW I \in SUBSET (1..n), NEW at,
         at = IF I # {} THEN Min(I) ELSE 0
  PROVE  /\ at \in 0..n
         /\ at = 0 => I = {}
         /\ at # 0 => at \in I /\ \A i \in I : at <= i
<1>1. CASE I = {}
  BY <1>1
<1>2. CASE I # {}
  <2>1. Min(I) \in I /\ \A y \in I : Min(I) <= y
    BY <1>2, MinIsLeast
  <2>2. at = Min(I) /\ at \in 1..n
    BY <1>2, <2>1
  <2>3. QED
    BY <1>2, <2>1, <2>2
<1>3. QED
  BY <1>1, <1>2
-----------------------------------------------------------------------------
(***************************************************************************)
(* The loop.  FoldLeft recurses over sets of indices; the lemma unrolls it *)
(* to the values after 0, 1, ... cases.                                    *)
(***************************************************************************)
\* f is the recursive function inside FoldLeft, on the first k indices.
Folds(f, base, seq, k) ==
  f = [s \in SUBSET (1..k) |-> IF s = {} THEN base
                               ELSE Meet(f[s \ {Max(s)}], seq[Max(s)])]

Folded(base, seq) == FoldLeft(Meet, base, seq)

\* A fold over some elements goes on to the next one.
LEMMA FoldsFurther ==
  ASSUME NEW base, NEW seq, NEW k \in Nat, NEW f, Folds(f, base, seq, k)
  PROVE  \E g : Folds(g, base, seq, k + 1)
<1> DEFINE g == [s \in SUBSET (1..k + 1) |->
                   IF k + 1 \in s THEN Meet(f[s \ {k + 1}], seq[k + 1]) ELSE f[s]]
           step(s) == IF s = {} THEN base ELSE Meet(g[s \ {Max(s)}], seq[Max(s)])
<1>1. ASSUME NEW s \in SUBSET (1..k + 1)
      PROVE  g[s] = step(s)
  <2>1. CASE k + 1 \in s
    <3>1. Max(s) = k + 1
      BY <2>1, MaxIsGreatest
    <3>2. s \ {k + 1} \in SUBSET (1..k + 1) /\ k + 1 \notin s \ {k + 1}
      OBVIOUS
    <3>3. g[s \ {k + 1}] = f[s \ {k + 1}]
      BY <3>2
    <3>4. QED
      BY <2>1, <3>1, <3>3
  <2>2. CASE k + 1 \notin s
    <3>1. s \in SUBSET (1..k)
      BY <2>2
    <3>2. g[s] = f[s] /\ g[s \ {Max(s)}] = f[s \ {Max(s)}]
      <4>1. s \ {Max(s)} \in SUBSET (1..k + 1) /\ k + 1 \notin s \ {Max(s)}
        BY <2>2
      <4>2. QED
        BY <2>2, <4>1
    <3>3. QED
      BY <3>1, <3>2 DEF Folds
  <2>3. QED
    BY <2>1, <2>2
<1>2. g = [s \in SUBSET (1..k + 1) |-> step(s)]
  <2> HIDE DEF step
  <2> QED BY <1>1
<1>3. QED
  BY <1>2 DEF Folds

\* There is a fold over any number of elements.
LEMMA FoldsEverywhere ==
  ASSUME NEW base, NEW seq
  PROVE  \A k \in Nat : \E f : Folds(f, base, seq, k)
<1> DEFINE S == {k \in Nat : \E f : Folds(f, base, seq, k)}
<1>1. 0 \in S
  <2> DEFINE f == [s \in SUBSET (1..0) |-> base]
  <2>1. \A s \in SUBSET (1..0) : s = {}
    OBVIOUS
  <2>2. Folds(f, base, seq, 0)
    BY <2>1 DEF Folds
  <2>3. QED
    BY <2>2
<1>2. \A k \in Nat : k \in S => k + 1 \in S
  BY FoldsFurther
<1> HIDE DEF S
<1>3. \A k \in Nat : k \in S
  BY <1>1, <1>2, NaturalsIn
<1>4. QED
  BY <1>3 DEF S

\* A fold goes through one state per turn, from its base to its value.
LEMMA Unrolled ==
  ASSUME NEW base, NEW seq, NEW n \in Nat, DOMAIN seq = 1..n
  PROVE  \E h : /\ h[0] = base
                /\ \A k \in 1..n : h[k] = Meet(h[k - 1], seq[k])
                /\ Folded(base, seq) = h[n]
<1> DEFINE f == CHOOSE g : Folds(g, base, seq, n)
           h == [k \in 0..n |-> f[1..k]]
<1>1. Folds(f, base, seq, n)
  BY FoldsEverywhere
<1>2. Folded(base, seq) = f[1..n]
  BY DEF Folded, FoldLeft, MapThenFoldSet, Folds
<1>3. h[0] = base
  <2>1. 1..0 = {} /\ 0 \in 0..n
    OBVIOUS
  <2>2. QED
    BY <1>1, <2>1 DEF Folds
<1>4. ASSUME NEW k \in 1..n
      PROVE  h[k] = Meet(h[k - 1], seq[k])
  <2>1. Max(1..k) = k
    BY MaxIsGreatest
  <2>2. (1..k) \ {k} = 1..k - 1 /\ 1..k # {} /\ 1..k \in SUBSET (1..n)
    OBVIOUS
  <2>3. f[1..k] = Meet(f[1..k - 1], seq[k])
    BY <1>1, <2>1, <2>2 DEF Folds
  <2>4. QED
    BY <2>3
<1>5. Folded(base, seq) = h[n]
  BY <1>2
<1>6. QED
  <2> HIDE DEF h
  <2> QED BY <1>3, <1>4, <1>5
-----------------------------------------------------------------------------
(***************************************************************************)
(* The cases of all sets, one set after the other.                         *)
(***************************************************************************)
\* f is the recursive function inside FlattenSeq, on the first k sets.
Flattens(f, seqs, k) ==
  f = [i \in 1..k |-> IF i = 1 THEN seqs[i] ELSE f[i - 1] \o seqs[i]]

\* Sequences joined so far go on to the next one.
LEMMA FlattensFurther ==
  ASSUME NEW seqs, NEW k \in Nat, NEW f, Flattens(f, seqs, k)
  PROVE  \E g : Flattens(g, seqs, k + 1)
<1> DEFINE g == [i \in 1..k + 1 |->
                   IF i = 1 THEN seqs[i] ELSE f[i - 1] \o seqs[i]]
           step(i) == IF i = 1 THEN seqs[i] ELSE g[i - 1] \o seqs[i]
<1>1. ASSUME NEW i \in 1..k + 1
      PROVE  g[i] = step(i)
  <2>1. CASE i = 1
    BY <2>1
  <2>2. CASE i # 1
    <3>1. i - 1 \in 1..k /\ i - 1 \in 1..k + 1
      BY <2>2
    <3>2. g[i - 1] = f[i - 1]
      BY <3>1 DEF Flattens
    <3>3. QED
      BY <2>2, <3>2
  <2>3. QED
    BY <2>1, <2>2
<1>2. g = [i \in 1..k + 1 |-> step(i)]
  <2> HIDE DEF step
  <2> QED BY <1>1
<1>3. QED
  BY <1>2 DEF Flattens

\* Any number of sequences can be joined.
LEMMA FlattensEverywhere ==
  ASSUME NEW seqs
  PROVE  \A k \in Nat : \E f : Flattens(f, seqs, k)
<1> DEFINE S == {k \in Nat : \E f : Flattens(f, seqs, k)}
<1>1. 0 \in S
  <2> DEFINE f == [i \in 1..0 |-> seqs[1]]
  <2>1. Flattens(f, seqs, 0)
    BY DEF Flattens
  <2>2. QED
    BY <2>1
<1>2. \A k \in Nat : k \in S => k + 1 \in S
  BY FlattensFurther
<1> HIDE DEF S
<1>3. \A k \in Nat : k \in S
  BY <1>1, <1>2, NaturalsIn
<1>4. QED
  BY <1>3 DEF S

\* FlattenSeq is where joining them one by one ends.
LEMMA Flattened ==
  ASSUME NEW seqs, Len(seqs) \in Nat \ {0}
  PROVE  \E f : Flattens(f, seqs, Len(seqs)) /\ FlattenSeq(seqs) = f[Len(seqs)]
<1> DEFINE f == CHOOSE g : Flattens(g, seqs, Len(seqs))
<1>1. Flattens(f, seqs, Len(seqs))
  BY FlattensEverywhere
<1>2. FlattenSeq(seqs) = f[Len(seqs)]
  BY DEF FlattenSeq, Flattens
<1>3. QED
  BY <1>1, <1>2

\* Sequences of cases are joined into a sequence of cases.
LEMMA FlatIsSequence ==
  ASSUME NEW E, NEW seqs \in Seq(Seq(E))
  PROVE  FlattenSeq(seqs) \in Seq(E)
<1>1. CASE Len(seqs) = 0
  BY <1>1 DEF FlattenSeq
<1>2. CASE Len(seqs) # 0
  <2>1. PICK f : Flattens(f, seqs, Len(seqs)) /\ FlattenSeq(seqs) = f[Len(seqs)]
    BY <1>2, Flattened
  <2> DEFINE S == {k \in Nat : k \in 1..Len(seqs) => f[k] \in Seq(E)}
  <2>2. 0 \in S
    OBVIOUS
  <2>3. ASSUME NEW k \in Nat, k \in S
        PROVE  k + 1 \in S
    <3>1. SUFFICES ASSUME k + 1 \in 1..Len(seqs) PROVE f[k + 1] \in Seq(E)
      OBVIOUS
    <3>2. seqs[k + 1] \in Seq(E)
      BY <3>1
    <3>3. CASE k = 0
      BY <2>1, <3>1, <3>2, <3>3 DEF Flattens
    <3>4. CASE k # 0
      <4>1. f[k] \in Seq(E)
        BY <2>3, <3>1, <3>4
      <4>2. f[k + 1] = f[k] \o seqs[k + 1]
        <5>1. f[k + 1] = IF k + 1 = 1 THEN seqs[k + 1] ELSE f[(k + 1) - 1] \o seqs[k + 1]
          BY <2>1, <3>1, Zenon DEF Flattens
        <5>2. (k + 1) - 1 = k /\ k + 1 # 1
          BY <3>4
        <5>3. QED
          BY <5>1, <5>2, Zenon
      <4>3. QED
        BY <3>2, <4>1, <4>2
    <3>5. QED
      BY <3>3, <3>4
  <2> HIDE DEF S
  <2>4. \A k \in Nat : k \in S
    BY <2>2, <2>3, NaturalsIn
  <2>5. QED
    BY <1>2, <2>1, <2>4 DEF S
<1>3. QED
  BY <1>1, <1>2

\* Two sequences are joined by concatenation.
LEMMA FlatPair ==
  ASSUME NEW s, NEW t
  PROVE  FlattenSeq(<<s, t>>) = s \o t
<1> DEFINE seqs == <<s, t>>
<1>0. Len(seqs) = 2
  OBVIOUS
<1>1. PICK f : Flattens(f, seqs, 2) /\ FlattenSeq(seqs) = f[2]
  <2> HIDE DEF seqs
  <2>1. Len(seqs) \in Nat \ {0}
    BY <1>0
  <2>2. \E f : Flattens(f, seqs, Len(seqs)) /\ FlattenSeq(seqs) = f[Len(seqs)]
    BY <2>1, Flattened, Zenon
  <2>3. QED
    BY <1>0, <2>2
<1>2. f[1] = s /\ f[2] = f[1] \o t
  BY <1>1 DEF Flattens
<1>3. QED
  BY <1>1, <1>2
-----------------------------------------------------------------------------
(***************************************************************************)
(* One turn of the loop.                                                   *)
(***************************************************************************)
Loops(E) == [kept : Seq(E), conflicts : Seq({<<p[1].id, p[2].id>> : p \in E \X E})]

\* Held is an index of the key in what is kept, or 0 where it is not.
LEMMA HeldIs ==
  ASSUME NEW E, NEW kept \in Seq(E), NEW c
  PROVE  /\ Held(kept, c) \in 0..Len(kept)
         /\ Held(kept, c) = 0 => \A i \in DOMAIN kept : ~SameQuestion(c, kept[i])
         /\ Held(kept, c) # 0 => SameQuestion(c, kept[Held(kept, c)])
<1> DEFINE I == {i \in 1..Len(kept) : SameQuestion(c, kept[i])}
<1>1. Held(kept, c) = IF I # {} THEN Min(I) ELSE 0
  BY DEF Held, SelectInSeq
<1>2. /\ Held(kept, c) \in 0..Len(kept)
      /\ Held(kept, c) = 0 => I = {}
      /\ Held(kept, c) # 0 => Held(kept, c) \in I
  <2> HIDE DEF I
  <2>1. I \in SUBSET (1..Len(kept))
    BY DEF I
  <2>2. QED
    BY <1>1, <2>1, FirstIndex
<1>3. QED
  BY <1>2

\* Nobody beats back whom it beats.
LEMMA BeatsOneWay ==
  ASSUME NEW c, NEW d, Beats(c, d)
  PROVE  ~Beats(d, c) /\ c.source = "human" /\ d.source # "human"
BY DEF Beats

\* What a turn of the loop does, in each of its four branches.
LEMMA MeetIs ==
  ASSUME NEW E, NEW acc \in Loops(E), NEW c \in E
  PROVE  LET at == Held(acc.kept, c)
             new == Meet(acc, c)
         IN  /\ new \in Loops(E)
             /\ \/ /\ at = 0
                   /\ new.kept = Append(acc.kept, c)
                   /\ new.conflicts = acc.conflicts
                \/ /\ at # 0 /\ Beats(c, acc.kept[at])
                   /\ new.kept = [acc.kept EXCEPT ![at] = c]
                   /\ new.conflicts = acc.conflicts
                \/ /\ at # 0 /\ Beats(acc.kept[at], c)
                   /\ new = acc
                \/ /\ at # 0 /\ ~Beats(c, acc.kept[at]) /\ ~Beats(acc.kept[at], c)
                   /\ new.kept = acc.kept
                   /\ new.conflicts # <<>>
<1> DEFINE at == Held(acc.kept, c)
           new == Meet(acc, c)
           P == {<<p[1].id, p[2].id>> : p \in E \X E}
<1>1. /\ acc.kept \in Seq(E) /\ acc.conflicts \in Seq(P)
      /\ acc = [kept |-> acc.kept, conflicts |-> acc.conflicts]
  BY DEF Loops
<1>2. /\ at \in 0..Len(acc.kept)
      /\ at # 0 => at \in DOMAIN acc.kept /\ acc.kept[at] \in E
  BY <1>1, HeldIs
<1>3. CASE at = 0
  <2>1. new = [kept |-> Append(acc.kept, c), conflicts |-> acc.conflicts]
    BY <1>1, <1>3 DEF Meet
  <2>2. Append(acc.kept, c) \in Seq(E)
    BY <1>1
  <2>3. QED
    BY <1>1, <1>3, <2>1, <2>2 DEF Loops
<1>4. CASE at # 0 /\ Beats(c, acc.kept[at])
  <2>1. new = [kept |-> [acc.kept EXCEPT ![at] = c], conflicts |-> acc.conflicts]
    <3>1. new = [acc EXCEPT !.kept[at] = c]
      BY <1>4, BeatsOneWay DEF Meet
    <3>2. QED
      BY <1>1, <3>1
  <2>2. [acc.kept EXCEPT ![at] = c] \in Seq(E)
    BY <1>1, <1>2, <1>4
  <2>3. QED
    BY <1>1, <1>4, <2>1, <2>2 DEF Loops
<1>5. CASE at # 0 /\ Beats(acc.kept[at], c)
  <2>1. new = acc
    BY <1>5, BeatsOneWay DEF Meet
  <2>2. QED
    BY <1>5, <2>1
<1>6. CASE at # 0 /\ ~Beats(c, acc.kept[at]) /\ ~Beats(acc.kept[at], c)
  <2> DEFINE pair == <<acc.kept[at].id, c.id>>
  <2>1. new = [kept |-> acc.kept, conflicts |-> Append(acc.conflicts, pair)]
    BY <1>1, <1>6 DEF Meet
  <2>2. pair \in P
    <3>1. <<acc.kept[at], c>> \in E \X E
      BY <1>2, <1>6
    <3>2. QED
      BY <3>1
  <2>3. Append(acc.conflicts, pair) \in Seq(P) /\ Append(acc.conflicts, pair) # <<>>
    <3> HIDE DEF P, pair
    <3> QED BY <1>1, <2>2
  <2>4. QED
    BY <1>1, <1>6, <2>1, <2>3 DEF Loops
<1>7. QED
  BY <1>3, <1>4, <1>5, <1>6
-----------------------------------------------------------------------------
(***************************************************************************)
(* The invariant of the loop, after the first k cases.                     *)
(***************************************************************************)
Drawn(all, k, kept) == \A m \in DOMAIN kept : \E i \in 1..k : kept[m] = all[i]

Covering(all, k, kept) == \A i \in 1..k : \E m \in DOMAIN kept : SameQuestion(kept[m], all[i])

\* Some case of the earlier question comes before every case of the later one.
InOrder(all, k, kept) ==
  \A m, l \in DOMAIN kept : m < l =>
    \E i \in 1..k : /\ SameQuestion(all[i], kept[m])
                    /\ \A j \in DOMAIN all : SameQuestion(all[j], kept[l]) => i < j

HumanWins(all, k, kept) ==
  \A m \in DOMAIN kept : \A i \in 1..k :
    SameQuestion(kept[m], all[i]) /\ all[i].source = "human" => kept[m] = all[i]

Faithful(all, k, acc) ==
  /\ Drawn(all, k, acc.kept) /\ Covering(all, k, acc.kept) /\ InOrder(all, k, acc.kept)
  /\ acc.conflicts = <<>> => HumanWins(all, k, acc.kept)

\* A case whose question was not asked before goes to the end.
LEMMA FaithfulNew ==
  ASSUME NEW E, NEW all \in Seq(E), NEW k \in 1..Len(all), NEW acc \in Loops(E),
         Faithful(all, k - 1, acc), NEW new \in Loops(E),
         \A m \in DOMAIN acc.kept : ~SameQuestion(all[k], acc.kept[m]),
         new.kept = Append(acc.kept, all[k]), new.conflicts = acc.conflicts
  PROVE  Faithful(all, k, new)
<1> DEFINE kept == acc.kept
           n == Len(kept)
<1>1. /\ kept \in Seq(E) /\ n \in Nat /\ DOMAIN kept = 1..n
      /\ DOMAIN new.kept = 1..n + 1 /\ new.kept[n + 1] = all[k]
      /\ \A m \in 1..n : new.kept[m] = kept[m]
  BY DEF Loops
<1>2. 1..k - 1 \subseteq 1..k /\ k \in 1..k /\ \A i \in 1..k : i = k \/ i \in 1..k - 1
  OBVIOUS
<1>3. \A m \in 1..n + 1 : m = n + 1 \/ m \in 1..n
  BY <1>1
<1>4. \A i \in 1..k - 1 : ~SameQuestion(all[i], all[k])
  <2>1. ASSUME NEW i \in 1..k - 1, SameQuestion(all[i], all[k])
        PROVE  FALSE
    <3>1. PICK m \in DOMAIN kept : SameQuestion(kept[m], all[i])
      BY DEF Faithful, Covering
    <3>2. SameQuestion(all[k], kept[m])
      BY <2>1, <3>1 DEF SameQuestion
    <3>3. QED
      BY <3>2
  <2>2. QED
    BY <2>1
<1> HIDE DEF kept, n
<1>5. Drawn(all, k, new.kept)
  <2>1. Drawn(all, k - 1, kept)
    BY DEF Faithful, kept
  <2>2. QED
    BY <1>1, <1>2, <1>3, <2>1 DEF Drawn
<1>6. Covering(all, k, new.kept)
  <2>1. Covering(all, k - 1, kept)
    BY DEF Faithful, kept
  <2>2. n + 1 \in 1..n + 1 /\ 1..n \subseteq 1..n + 1 /\ SameQuestion(all[k], all[k])
    BY <1>1 DEF SameQuestion
  <2>3. ASSUME NEW i \in 1..k
        PROVE  \E m \in 1..n + 1 : SameQuestion(new.kept[m], all[i])
    <3>1. CASE i = k
      BY <1>1, <2>2, <3>1
    <3>2. CASE i \in 1..k - 1
      BY <1>1, <2>1, <2>2, <3>2 DEF Covering
    <3>3. QED
      BY <1>2, <3>1, <3>2
  <2>4. QED
    BY <1>1, <2>3 DEF Covering
<1>7. InOrder(all, k, new.kept)
  <2>1. InOrder(all, k - 1, kept) /\ Drawn(all, k - 1, kept)
    BY DEF Faithful, kept
  <2>2. ASSUME NEW m \in 1..n + 1, NEW l \in 1..n + 1, m < l
        PROVE  \E i \in 1..k : /\ SameQuestion(all[i], new.kept[m])
                               /\ \A j \in DOMAIN all :
                                    SameQuestion(all[j], new.kept[l]) => i < j
    <3>1. m \in 1..n
      BY <1>1, <2>2
    <3>2. CASE l \in 1..n
      BY <1>1, <1>2, <2>1, <2>2, <3>1, <3>2 DEF InOrder
    <3>3. CASE l = n + 1
      <4>1. PICK i \in 1..k - 1 : kept[m] = all[i]
        BY <1>1, <2>1, <3>1 DEF Drawn
      <4>2. ASSUME NEW j \in DOMAIN all, SameQuestion(all[j], all[k])
            PROVE  i < j
        <5>1. j \in Nat /\ j \notin 1..k - 1 /\ j >= 1
          BY <1>4, <4>2
        <5>2. QED
          BY <5>1
      <4>3. SameQuestion(all[i], new.kept[m]) /\ new.kept[l] = all[k]
        BY <1>1, <3>1, <3>3, <4>1 DEF SameQuestion
      <4>4. QED
        BY <1>2, <4>2, <4>3
    <3>4. QED
      BY <1>3, <3>2, <3>3
  <2>3. QED
    BY <1>1, <2>2 DEF InOrder
<1>8. ASSUME new.conflicts = <<>>
      PROVE  HumanWins(all, k, new.kept)
  <2>1. HumanWins(all, k - 1, kept) /\ Drawn(all, k - 1, kept)
    BY <1>8 DEF Faithful, kept
  <2>2. ASSUME NEW m \in 1..n + 1, NEW i \in 1..k,
               SameQuestion(new.kept[m], all[i]), all[i].source = "human"
        PROVE  new.kept[m] = all[i]
    <3>1. CASE m \in 1..n /\ i \in 1..k - 1
      BY <1>1, <2>1, <2>2, <3>1 DEF HumanWins
    <3>2. CASE m \in 1..n /\ i = k
      <4>1. SameQuestion(all[k], kept[m])
        BY <1>1, <2>2, <3>2 DEF SameQuestion
      <4>2. QED
        BY <1>1, <3>2, <4>1 DEF kept
    <3>3. CASE m = n + 1 /\ i \in 1..k - 1
      <4>1. SameQuestion(all[i], all[k])
        BY <1>1, <2>2, <3>3 DEF SameQuestion
      <4>2. QED
        BY <1>4, <3>3, <4>1
    <3>4. CASE m = n + 1 /\ i = k
      BY <1>1, <3>4
    <3>5. QED
      BY <1>2, <1>3, <3>1, <3>2, <3>3, <3>4
  <2>3. QED
    BY <1>1, <2>2 DEF HumanWins
<1>9. QED
  BY <1>5, <1>6, <1>7, <1>8 DEF Faithful

\* A question that was asked before keeps its place; d is the case that has it now.
LEMMA FaithfulAgain ==
  ASSUME NEW E, NEW all \in Seq(E), NEW k \in 1..Len(all), NEW acc \in Loops(E),
         Faithful(all, k - 1, acc), NEW new \in Loops(E),
         NEW at \in DOMAIN acc.kept, SameQuestion(all[k], acc.kept[at]),
         NEW d, d = all[k] \/ d = acc.kept[at],
         new.kept = [acc.kept EXCEPT ![at] = d],
         new.conflicts = <<>> => /\ acc.conflicts = <<>>
                                 /\ \/ d = all[k] /\ acc.kept[at].source # "human"
                                    \/ d = acc.kept[at] /\ all[k].source # "human"
  PROVE  Faithful(all, k, new)
<1> DEFINE kept == acc.kept
<1>1. /\ kept \in Seq(E) /\ at \in DOMAIN kept /\ DOMAIN new.kept = DOMAIN kept
      /\ new.kept[at] = d
      /\ \A m \in DOMAIN kept : m # at => new.kept[m] = kept[m]
  BY DEF Loops
<1>2. 1..k - 1 \subseteq 1..k /\ k \in 1..k /\ \A i \in 1..k : i = k \/ i \in 1..k - 1
  OBVIOUS
<1>3. \A m \in DOMAIN kept : SameQuestion(new.kept[m], kept[m])
  BY <1>1 DEF SameQuestion
<1>4. d = all[k] \/ d = kept[at]
  OBVIOUS
<1>5. SameQuestion(all[k], kept[at])
  OBVIOUS
<1> HIDE DEF kept
<1>6. Drawn(all, k, new.kept)
  <2>1. Drawn(all, k - 1, kept)
    BY DEF Faithful, kept
  <2>2. QED
    BY <1>1, <1>2, <1>4, <2>1 DEF Drawn
<1>7. Covering(all, k, new.kept)
  <2>1. Covering(all, k - 1, kept)
    BY DEF Faithful, kept
  <2>2. ASSUME NEW i \in 1..k
        PROVE  \E m \in DOMAIN kept : SameQuestion(kept[m], all[i])
    BY <1>1, <1>2, <1>5, <2>1 DEF Covering, SameQuestion
  <2>3. QED
    BY <1>1, <1>3, <2>2 DEF Covering, SameQuestion
<1>8. InOrder(all, k, new.kept)
  <2>1. InOrder(all, k - 1, kept)
    BY DEF Faithful, kept
  <2>2. QED
    BY <1>1, <1>2, <1>3, <2>1 DEF InOrder, SameQuestion
<1>9. ASSUME new.conflicts = <<>>
      PROVE  HumanWins(all, k, new.kept)
  <2>1. HumanWins(all, k - 1, kept) /\ Drawn(all, k - 1, kept) /\ InOrder(all, k - 1, kept)
    BY <1>9 DEF Faithful, kept
  <2>2. \/ d = all[k] /\ kept[at].source # "human"
        \/ d = kept[at] /\ all[k].source # "human"
    BY <1>9 DEF kept
  <2>3. ASSUME NEW m \in DOMAIN kept, SameQuestion(kept[m], kept[at])
        PROVE  m = at
    <3>1. m \in Nat /\ at \in Nat
      BY <1>1
    <3>2. ASSUME NEW x \in DOMAIN kept, NEW y \in DOMAIN kept, x < y
          PROVE  ~SameQuestion(kept[x], kept[y])
      <4>1. PICK i \in 1..k - 1 :
                   /\ SameQuestion(all[i], kept[x])
                   /\ \A j \in DOMAIN all : SameQuestion(all[j], kept[y]) => i < j
        BY <2>1, <3>2 DEF InOrder
      <4>2. i \in DOMAIN all /\ ~(i < i)
        OBVIOUS
      <4>3. QED
        BY <4>1, <4>2 DEF SameQuestion
    <3>3. ~(m < at) /\ ~(at < m)
      BY <1>1, <2>3, <3>2 DEF SameQuestion
    <3>4. QED
      BY <3>1, <3>3
  <2>4. ASSUME NEW m \in DOMAIN kept, NEW i \in 1..k,
               SameQuestion(new.kept[m], all[i]), all[i].source = "human"
        PROVE  new.kept[m] = all[i]
    <3>1. SameQuestion(kept[m], all[i])
      BY <1>3, <2>4 DEF SameQuestion
    <3>2. CASE m # at
      <4>1. i \in 1..k - 1
        BY <1>2, <1>5, <2>3, <3>1, <3>2 DEF SameQuestion
      <4>2. QED
        BY <1>1, <2>1, <2>4, <3>1, <3>2, <4>1 DEF HumanWins
    <3>3. CASE m = at /\ i \in 1..k - 1
      <4>1. kept[at] = all[i]
        BY <2>1, <2>4, <3>1, <3>3 DEF HumanWins
      <4>2. QED
        BY <1>1, <2>2, <2>4, <3>3, <4>1
    <3>4. CASE m = at /\ i = k
      BY <1>1, <2>2, <2>4, <3>4
    <3>5. QED
      BY <1>2, <3>2, <3>3, <3>4
  <2>5. QED
    BY <1>1, <2>4 DEF HumanWins
<1>10. QED
  BY <1>6, <1>7, <1>8, <1>9 DEF Faithful

\* Every turn of the loop.
LEMMA FaithfulStep ==
  ASSUME NEW E, NEW all \in Seq(E), NEW k \in 1..Len(all), NEW acc \in Loops(E),
         Faithful(all, k - 1, acc)
  PROVE  Meet(acc, all[k]) \in Loops(E) /\ Faithful(all, k, Meet(acc, all[k]))
<1> DEFINE c == all[k]
           at == Held(acc.kept, c)
           new == Meet(acc, c)
<1>1. c \in E /\ acc.kept \in Seq(E)
  BY DEF Loops
<1>2. /\ new \in Loops(E)
      /\ \/ /\ at = 0
            /\ new.kept = Append(acc.kept, c)
            /\ new.conflicts = acc.conflicts
         \/ /\ at # 0 /\ Beats(c, acc.kept[at])
            /\ new.kept = [acc.kept EXCEPT ![at] = c]
            /\ new.conflicts = acc.conflicts
         \/ /\ at # 0 /\ Beats(acc.kept[at], c)
            /\ new = acc
         \/ /\ at # 0 /\ ~Beats(c, acc.kept[at]) /\ ~Beats(acc.kept[at], c)
            /\ new.kept = acc.kept
            /\ new.conflicts # <<>>
  BY <1>1, MeetIs
<1>3. /\ at \in 0..Len(acc.kept)
      /\ at = 0 => \A i \in DOMAIN acc.kept : ~SameQuestion(c, acc.kept[i])
      /\ at # 0 => SameQuestion(c, acc.kept[at])
  BY <1>1, HeldIs
<1> HIDE DEF at, new, c
<1>4. at # 0 => /\ at \in DOMAIN acc.kept
                /\ [acc.kept EXCEPT ![at] = acc.kept[at]] = acc.kept
  BY <1>1, <1>3
<1>5. CASE at = 0
  <2>1. new.kept = Append(acc.kept, c) /\ new.conflicts = acc.conflicts
    BY <1>2, <1>5
  <2>2. Faithful(all, k, new)
    BY <1>2, <1>3, <1>5, <2>1, FaithfulNew DEF c
  <2>3. QED
    BY <1>2, <2>2 DEF new, c
<1>6. CASE at # 0 /\ Beats(c, acc.kept[at])
  <2>1. new.kept = [acc.kept EXCEPT ![at] = c] /\ new.conflicts = acc.conflicts
    BY <1>2, <1>6, BeatsOneWay
  <2>2. acc.kept[at].source # "human"
    BY <1>6, BeatsOneWay
  <2>3. /\ new \in Loops(E) /\ at \in DOMAIN acc.kept /\ SameQuestion(c, acc.kept[at])
        /\ new.conflicts = <<>> => acc.conflicts = <<>> /\ acc.kept[at].source # "human"
    BY <1>2, <1>3, <1>4, <1>6, <2>1, <2>2
  <2>4. Faithful(all, k, new)
    BY <2>1, <2>3, FaithfulAgain DEF c
  <2>5. QED
    BY <1>2, <2>4 DEF new, c
<1>7. CASE at # 0 /\ Beats(acc.kept[at], c)
  <2>1. new = acc
    BY <1>2, <1>7, BeatsOneWay
  <2>2. c.source # "human"
    BY <1>7, BeatsOneWay
  <2>3. Faithful(all, k, new)
    BY <1>2, <1>3, <1>4, <1>7, <2>1, <2>2, FaithfulAgain DEF c
  <2>4. QED
    BY <1>2, <2>3 DEF new, c
<1>8. CASE at # 0 /\ ~Beats(c, acc.kept[at]) /\ ~Beats(acc.kept[at], c)
  <2>1. new.kept = acc.kept /\ new.conflicts # <<>>
    BY <1>2, <1>8
  <2>2. /\ new \in Loops(E) /\ at \in DOMAIN acc.kept /\ SameQuestion(c, acc.kept[at])
        /\ new.kept = [acc.kept EXCEPT ![at] = acc.kept[at]]
    BY <1>2, <1>3, <1>4, <1>8, <2>1
  <2>3. Faithful(all, k, new)
    BY <2>1, <2>2, FaithfulAgain DEF c
  <2>4. QED
    BY <1>2, <2>3 DEF new, c
<1>9. QED
  BY <1>5, <1>6, <1>7, <1>8

\* Before the loop.
LEMMA FaithfulStart ==
  ASSUME NEW E, NEW all \in Seq(E)
  PROVE  LET start == [kept |-> <<>>, conflicts |-> <<>>]
         IN  start \in Loops(E) /\ Faithful(all, 0, start)
BY DEF Loops, Faithful, Drawn, Covering, InOrder, HumanWins

-----------------------------------------------------------------------------
(***************************************************************************)
(* When a merge is rejected.                                               *)
(***************************************************************************)
\* The rule picks neither of two cases of one question.
Clash(c, d) == SameQuestion(c, d) /\ ~Beats(c, d) /\ ~Beats(d, c)

Clashing(all, k) == \E i, j \in 1..k : i < j /\ Clash(all[i], all[j])

NoThreeAlike(all) ==
  \A i, j, l \in DOMAIN all :
    SameQuestion(all[i], all[l]) /\ SameQuestion(all[j], all[l]) => i = j \/ i = l \/ j = l

\* A turn notes a conflict just if its case clashes with an earlier one.
LEMMA ClashingStep ==
  ASSUME NEW E, NEW all \in Seq(E), NoThreeAlike(all), NEW k \in 1..Len(all),
         NEW acc \in Loops(E), Faithful(all, k - 1, acc),
         acc.conflicts # <<>> <=> Clashing(all, k - 1)
  PROVE  Meet(acc, all[k]).conflicts # <<>> <=> Clashing(all, k)
<1> DEFINE c == all[k]
           at == Held(acc.kept, c)
           new == Meet(acc, c)
<1>1. c \in E /\ acc.kept \in Seq(E)
  BY DEF Loops
<1>2. \/ /\ at = 0
         /\ new.conflicts = acc.conflicts
      \/ /\ at # 0 /\ Beats(c, acc.kept[at])
         /\ new.conflicts = acc.conflicts
      \/ /\ at # 0 /\ Beats(acc.kept[at], c)
         /\ new.conflicts = acc.conflicts
      \/ /\ at # 0 /\ ~Beats(c, acc.kept[at]) /\ ~Beats(acc.kept[at], c)
         /\ new.conflicts # <<>>
  BY <1>1, MeetIs
<1>3. /\ at \in 0..Len(acc.kept)
      /\ at = 0 => \A i \in DOMAIN acc.kept : ~SameQuestion(c, acc.kept[i])
      /\ at # 0 => SameQuestion(c, acc.kept[at])
  BY <1>1, HeldIs
<1> HIDE DEF at, new
<1>4. Clashing(all, k) <=> Clashing(all, k - 1) \/ \E i \in 1..k - 1 : Clash(all[i], c)
  <2>1. ASSUME Clashing(all, k)
        PROVE  Clashing(all, k - 1) \/ \E i \in 1..k - 1 : Clash(all[i], c)
    <3>1. PICK i \in 1..k, j \in 1..k : i < j /\ Clash(all[i], all[j])
      BY <2>1 DEF Clashing
    <3>2. i \in 1..k - 1 /\ (j = k \/ j \in 1..k - 1)
      BY <3>1
    <3>3. QED
      BY <3>1, <3>2 DEF Clashing
  <2>2. Clashing(all, k - 1) => Clashing(all, k)
    <3>1. 1..k - 1 \subseteq 1..k
      OBVIOUS
    <3>2. QED
      BY <3>1 DEF Clashing
  <2>3. ASSUME NEW i \in 1..k - 1, Clash(all[i], c)
        PROVE  Clashing(all, k)
    <3>1. i \in 1..k /\ k \in 1..k /\ i < k
      OBVIOUS
    <3>2. QED
      BY <2>3, <3>1 DEF Clashing
  <2>4. QED
    BY <2>1, <2>2, <2>3
<1>5. CASE at = 0
  <2>1. ASSUME NEW i \in 1..k - 1, Clash(all[i], c)
        PROVE  FALSE
    <3>1. PICK m \in DOMAIN acc.kept : SameQuestion(acc.kept[m], all[i])
      BY DEF Faithful, Covering
    <3>2. SameQuestion(c, acc.kept[m])
      BY <2>1, <3>1 DEF Clash, SameQuestion
    <3>3. QED
      BY <1>3, <1>5, <3>2
  <2>2. QED
    BY <1>2, <1>4, <1>5, <2>1 DEF new
<1>6. CASE at # 0
  <2>1. at \in DOMAIN acc.kept
    BY <1>1, <1>3, <1>6
  <2>2. PICK m \in 1..k - 1 : acc.kept[at] = all[m]
    BY <2>1 DEF Faithful, Drawn
  <2>3. SameQuestion(all[m], c)
    BY <1>3, <1>6, <2>2 DEF SameQuestion
  <2>4. ASSUME NEW i \in 1..k - 1, SameQuestion(all[i], c)
        PROVE  i = m
    <3>1. i \in DOMAIN all /\ m \in DOMAIN all /\ k \in DOMAIN all /\ i # k /\ m # k
      OBVIOUS
    <3>2. QED
      BY <2>3, <2>4, <3>1 DEF NoThreeAlike
  <2>5. (\E i \in 1..k - 1 : Clash(all[i], c)) <=> ~Beats(c, all[m]) /\ ~Beats(all[m], c)
    BY <2>3, <2>4 DEF Clash
  <2>6. QED
    BY <1>2, <1>4, <1>6, <2>2, <2>5, BeatsOneWay DEF new
<1>7. QED
  BY <1>5, <1>6

(***************************************************************************)
(* After the loop: the merge asks every question once, in order, with a    *)
(* case of its sources; where there is no conflict a human's case wins,    *)
(* and where no question is asked three times there is a conflict just if  *)
(* the rule picks neither of two cases (merge_golden_sets).                *)
(***************************************************************************)
THEOREM WhatMergingGives ==
  ASSUME NEW E, NEW sets, FlattenSeq(sets) \in Seq(E)
  PROVE  /\ Merging(sets) \in Loops(E)
         /\ Faithful(FlattenSeq(sets), Len(FlattenSeq(sets)), Merging(sets))
         /\ NoThreeAlike(FlattenSeq(sets)) =>
              (Merging(sets).conflicts # <<>> <=>
                 Clashing(FlattenSeq(sets), Len(FlattenSeq(sets))))
<1> DEFINE all == FlattenSeq(sets)
           n == Len(all)
           start == [kept |-> <<>>, conflicts |-> <<>>]
<1>1. n \in Nat /\ DOMAIN all = 1..n
  OBVIOUS
<1>2. PICK h : /\ h[0] = start
               /\ \A k \in 1..n : h[k] = Meet(h[k - 1], all[k])
               /\ Merging(sets) = h[n]
  <2> HIDE DEF all, n, start
  <2>1. \E h : /\ h[0] = start
               /\ \A k \in 1..n : h[k] = Meet(h[k - 1], all[k])
               /\ Folded(start, all) = h[n]
    BY <1>1, Unrolled
  <2>2. Merging(sets) = Folded(start, all)
    BY DEF Merging, Folded, all, start
  <2>3. QED
    BY <2>1, <2>2
<1> DEFINE Right(k) ==
             /\ h[k] \in Loops(E)
             /\ Faithful(all, k, h[k])
             /\ NoThreeAlike(all) => (h[k].conflicts # <<>> <=> Clashing(all, k))
           S == {k \in Nat : k <= n => Right(k)}
<1> HIDE DEF all, n
<1>3. all \in Seq(E) /\ n = Len(all)
  BY DEF all, n
<1>4. 0 \in S
  <2>1. h[0].conflicts = <<>> /\ ~Clashing(all, 0)
    BY <1>2 DEF Clashing
  <2>2. QED
    BY <1>2, <1>3, <2>1, FaithfulStart
<1>5. ASSUME NEW k \in Nat, k \in S
      PROVE  k + 1 \in S
  <2>1. SUFFICES ASSUME k + 1 <= n
                 PROVE  Right(k + 1)
    OBVIOUS
  <2>2. Right(k)
    BY <1>1, <1>5, <2>1
  <2>3. k + 1 \in 1..Len(all) /\ (k + 1) - 1 = k
    BY <1>1, <1>3, <2>1
  <2>4. h[k + 1] = Meet(h[k], all[k + 1])
    BY <1>2, <1>3, <2>3
  <2>5. QED
    BY <1>3, <2>2, <2>3, <2>4, FaithfulStep, ClashingStep
<1> HIDE DEF S
<1>6. \A k \in Nat : k \in S
  BY <1>4, <1>5, NaturalsIn
<1>7. Right(n)
  BY <1>1, <1>6 DEF S
<1>8. QED
  BY <1>2, <1>7 DEF all, n
-----------------------------------------------------------------------------
(***************************************************************************)
(* Two sets.                                                               *)
(***************************************************************************)
AsksOnce(cases) == \A i, j \in DOMAIN cases : SameQuestion(cases[i], cases[j]) => i = j

\* Where the elements of two sets are in their concatenation.
LEMMA Joined ==
  ASSUME NEW E, NEW s \in Seq(E), NEW t \in Seq(E)
  PROVE  LET all == s \o t
         IN  /\ all \in Seq(E) /\ Len(all) = Len(s) + Len(t) /\ DOMAIN all = 1..Len(s) + Len(t)
             /\ \A i \in DOMAIN s : all[i] = s[i] /\ i \in DOMAIN all
             /\ \A j \in DOMAIN t : all[Len(s) + j] = t[j] /\ Len(s) + j \in DOMAIN all
             /\ \A i \in DOMAIN all : i \in DOMAIN s \/ i - Len(s) \in DOMAIN t
OBVIOUS

\* c is an element of the sequence s.
Among(c, s) == \E i \in DOMAIN s : s[i] = c

\* The elements of two sequences in a row are those of the one and of the other.
LEMMA JoinedElements ==
  ASSUME NEW E, NEW s \in Seq(E), NEW t \in Seq(E)
  PROVE  \A c : Among(c, s \o t) <=> Among(c, s) \/ Among(c, t)
<1> DEFINE all == s \o t
<1>1. /\ Len(s) \in Nat /\ DOMAIN all = 1..Len(s) + Len(t)
      /\ \A i \in DOMAIN s : all[i] = s[i] /\ i \in DOMAIN all
      /\ \A j \in DOMAIN t : all[Len(s) + j] = t[j] /\ Len(s) + j \in DOMAIN all
      /\ \A i \in DOMAIN all : i \in DOMAIN s \/ i - Len(s) \in DOMAIN t
  BY Joined
<1> HIDE DEF all
<1>2. ASSUME NEW j \in DOMAIN all, j - Len(s) \in DOMAIN t
      PROVE  Among(all[j], t)
  <2>1. Len(s) + (j - Len(s)) = j
    BY <1>1
  <2>2. all[j] = t[j - Len(s)]
    BY <1>1, <1>2, <2>1
  <2>3. QED
    BY <1>2, <2>2 DEF Among
<1>3. \A j \in DOMAIN all : Among(all[j], s) \/ Among(all[j], t)
  BY <1>1, <1>2 DEF Among
<1>4. \A c : Among(c, all) <=> Among(c, s) \/ Among(c, t)
  BY <1>1, <1>3 DEF Among
<1>5. QED
  BY <1>4 DEF all

\* Sets that ask every question once ask none three times between them.
LEMMA PairIsNotThree ==
  ASSUME NEW E, NEW s \in Seq(E), NEW t \in Seq(E), AsksOnce(s), AsksOnce(t)
  PROVE  NoThreeAlike(s \o t)
<1> DEFINE all == s \o t
<1>1. /\ DOMAIN all = 1..Len(s) + Len(t)
      /\ \A i \in DOMAIN s : all[i] = s[i]
      /\ \A j \in DOMAIN t : all[Len(s) + j] = t[j]
      /\ \A i \in DOMAIN all : i \in DOMAIN s \/ i - Len(s) \in DOMAIN t
  BY Joined
<1> HIDE DEF all
<1>2. ASSUME NEW i \in DOMAIN s, NEW j \in DOMAIN s, SameQuestion(all[i], all[j])
      PROVE  i = j
  BY <1>1, <1>2 DEF AsksOnce
<1>3. ASSUME NEW i \in DOMAIN all, NEW j \in DOMAIN all, i - Len(s) \in DOMAIN t,
             j - Len(s) \in DOMAIN t, SameQuestion(all[i], all[j])
      PROVE  i = j
  <2>1. Len(s) + (i - Len(s)) = i /\ Len(s) + (j - Len(s)) = j
    BY <1>1
  <2>2. all[i] = t[i - Len(s)] /\ all[j] = t[j - Len(s)]
    BY <1>1, <1>3, <2>1
  <2>3. i - Len(s) = j - Len(s)
    BY <1>3, <2>2 DEF AsksOnce
  <2>4. QED
    BY <2>1, <2>3
<1>4. ASSUME NEW i \in DOMAIN all, NEW j \in DOMAIN all, NEW l \in DOMAIN all,
             SameQuestion(all[i], all[l]), SameQuestion(all[j], all[l])
      PROVE  i = j \/ i = l \/ j = l
  <2>1. SameQuestion(all[i], all[j])
    BY <1>4 DEF SameQuestion
  <2>2. QED
    BY <1>1, <1>2, <1>3, <1>4, <2>1
<1>5. NoThreeAlike(all)
  BY <1>4 DEF NoThreeAlike
<1>6. QED
  BY <1>5 DEF all

\* A merge of two such sets is rejected just if two of their cases clash.
LEMMA PairConflicts ==
  ASSUME NEW E, NEW s \in Seq(E), NEW t \in Seq(E), AsksOnce(s), AsksOnce(t)
  PROVE  Merging(<<s, t>>).conflicts # <<>>
           <=> \E i \in DOMAIN s, j \in DOMAIN t : Clash(s[i], t[j])
<1> DEFINE all == s \o t
<1>1. /\ all \in Seq(E) /\ Len(all) = Len(s) + Len(t) /\ DOMAIN all = 1..Len(s) + Len(t)
      /\ \A i \in DOMAIN s : all[i] = s[i] /\ i \in DOMAIN all
      /\ \A j \in DOMAIN t : all[Len(s) + j] = t[j] /\ Len(s) + j \in DOMAIN all
      /\ \A i \in DOMAIN all : i \in DOMAIN s \/ i - Len(s) \in DOMAIN t
  BY Joined
<1>2. Merging(<<s, t>>).conflicts # <<>> <=> Clashing(all, Len(all))
  <2>1. FlattenSeq(<<s, t>>) = all
    BY FlatPair, Zenon
  <2>2. NoThreeAlike(all)
    BY PairIsNotThree
  <2> DEFINE sets == <<s, t>>
  <2> HIDE DEF all, sets
  <2>3. FlattenSeq(sets) \in Seq(E) /\ NoThreeAlike(FlattenSeq(sets))
    BY <1>1, <2>1, <2>2 DEF sets
  <2>4. Merging(sets).conflicts # <<>>
          <=> Clashing(FlattenSeq(sets), Len(FlattenSeq(sets)))
    BY <2>3, WhatMergingGives, Zenon
  <2>5. QED
    BY <2>1, <2>4, Zenon DEF sets
<1> HIDE DEF all
<1>3. ASSUME NEW i \in 1..Len(all), NEW j \in 1..Len(all), i < j, Clash(all[i], all[j])
      PROVE  \E x \in DOMAIN s, y \in DOMAIN t : Clash(s[x], t[y])
  <2>1. CASE i \in DOMAIN s /\ j \in DOMAIN s
    <3>1. s[i] = all[i] /\ s[j] = all[j]
      BY <1>1, <2>1
    <3>2. i = j
      BY <1>3, <2>1, <3>1 DEF Clash, AsksOnce
    <3>3. QED
      BY <1>3, <3>2
  <2>2. CASE i \in DOMAIN s /\ j - Len(s) \in DOMAIN t
    <3>1. Len(s) + (j - Len(s)) = j
      OBVIOUS
    <3>2. s[i] = all[i] /\ t[j - Len(s)] = all[j]
      BY <1>1, <2>2, <3>1
    <3>3. QED
      BY <1>3, <2>2, <3>2
  <2>3. CASE i - Len(s) \in DOMAIN t /\ j - Len(s) \in DOMAIN t
    <3>1. Len(s) + (i - Len(s)) = i /\ Len(s) + (j - Len(s)) = j
      OBVIOUS
    <3>2. t[i - Len(s)] = all[i] /\ t[j - Len(s)] = all[j]
      BY <1>1, <2>3, <3>1
    <3>3. i - Len(s) = j - Len(s)
      BY <1>3, <2>3, <3>2 DEF Clash, AsksOnce
    <3>4. QED
      BY <1>3, <3>1, <3>3
  <2>4. ~(j \in DOMAIN s /\ i - Len(s) \in DOMAIN t)
    BY <1>1, <1>3
  <2>5. QED
    BY <1>1, <2>1, <2>2, <2>3, <2>4
<1>4. ASSUME NEW x \in DOMAIN s, NEW y \in DOMAIN t, Clash(s[x], t[y])
      PROVE  Clashing(all, Len(all))
  <2>1. /\ x \in 1..Len(all) /\ Len(s) + y \in 1..Len(all) /\ x < Len(s) + y
        /\ all[x] = s[x] /\ all[Len(s) + y] = t[y]
    BY <1>1
  <2>2. QED
    BY <1>4, <2>1 DEF Clashing
<1>5. QED
  BY <1>2, <1>3, <1>4 DEF Clashing

\* What is kept of two sets: cases of theirs, an answer to every question, and a
\* human's case where there is one.
LEMMA PairGives ==
  ASSUME NEW E, NEW s \in Seq(E), NEW t \in Seq(E),
         NEW kept, kept = MergedCases(<<s, t>>), Merging(<<s, t>>).conflicts = <<>>
  PROVE  /\ \A m \in DOMAIN kept : Among(kept[m], s) \/ Among(kept[m], t)
         /\ \A c : Among(c, s) \/ Among(c, t) =>
              \E m \in DOMAIN kept : SameQuestion(kept[m], c)
         /\ \A c : Among(c, s) \/ Among(c, t) =>
              \A m \in DOMAIN kept :
                SameQuestion(kept[m], c) /\ c.source = "human" => kept[m] = c
<1>1. PICK all : all = s \o t
  OBVIOUS
<1>2. all \in Seq(E) /\ DOMAIN all = 1..Len(all)
  BY <1>1
<1>3. \A c : Among(c, all) <=> Among(c, s) \/ Among(c, t)
  BY <1>1, JoinedElements, Zenon
<1>4. PICK sets : sets = <<s, t>>
  OBVIOUS
<1>5. FlattenSeq(sets) = all
  BY <1>1, <1>4, FlatPair, Zenon
<1>6. Faithful(FlattenSeq(sets), Len(FlattenSeq(sets)), Merging(sets))
  BY <1>2, <1>5, WhatMergingGives
<1>7. Faithful(all, Len(all), Merging(sets)) /\ Merging(sets).conflicts = <<>>
  BY <1>4, <1>5, <1>6
<1>8. kept = Merging(sets).kept
  BY <1>4 DEF MergedCases
<1>9. /\ Drawn(all, Len(all), kept) /\ Covering(all, Len(all), kept)
      /\ HumanWins(all, Len(all), kept)
  BY <1>7, <1>8 DEF Faithful
<1>10. \A m \in DOMAIN kept : Among(kept[m], all)
  BY <1>2, <1>9 DEF Among, Drawn
<1>11. \A c : Among(c, all) => \E m \in DOMAIN kept : SameQuestion(kept[m], c)
  BY <1>2, <1>9 DEF Among, Covering
<1>12. \A c : Among(c, all) =>
         \A m \in DOMAIN kept : SameQuestion(kept[m], c) /\ c.source = "human" => kept[m] = c
  BY <1>2, <1>9 DEF Among, HumanWins
<1>13. QED
  BY <1>3, <1>10, <1>11, <1>12

\* What is kept of two sets, one way round, is kept the other way round.
LEMMA PairKeeps ==
  ASSUME NEW E, NEW s \in Seq(E), NEW t \in Seq(E), AsksOnce(s), AsksOnce(t),
         Merging(<<s, t>>).conflicts = <<>>, Merging(<<t, s>>).conflicts = <<>>
  PROVE  ToSet(MergedCases(<<s, t>>)) \subseteq ToSet(MergedCases(<<t, s>>))
<1>1. PICK one, two : one = MergedCases(<<s, t>>) /\ two = MergedCases(<<t, s>>)
  OBVIOUS
<1>2. /\ \A m \in DOMAIN one : Among(one[m], s) \/ Among(one[m], t)
      /\ \A c : Among(c, s) \/ Among(c, t) =>
           \A m \in DOMAIN one :
             SameQuestion(one[m], c) /\ c.source = "human" => one[m] = c
  BY <1>1, PairGives
<1>3. /\ \A m \in DOMAIN two : Among(two[m], s) \/ Among(two[m], t)
      /\ \A c : Among(c, s) \/ Among(c, t) =>
           \E m \in DOMAIN two : SameQuestion(two[m], c)
      /\ \A c : Among(c, s) \/ Among(c, t) =>
           \A m \in DOMAIN two :
             SameQuestion(two[m], c) /\ c.source = "human" => two[m] = c
  <2>1. /\ \A m \in DOMAIN two : Among(two[m], t) \/ Among(two[m], s)
        /\ \A c : Among(c, t) \/ Among(c, s) =>
             \E m \in DOMAIN two : SameQuestion(two[m], c)
        /\ \A c : Among(c, t) \/ Among(c, s) =>
             \A m \in DOMAIN two :
               SameQuestion(two[m], c) /\ c.source = "human" => two[m] = c
    BY <1>1, PairGives
  <2>2. QED
    BY <2>1
<1>4. \A c, d : Among(c, s) /\ Among(d, t) => ~Clash(c, d)
  BY PairConflicts DEF Among
<1>5. \A c, d : \/ Among(c, s) /\ Among(d, s)
                \/ Among(c, t) /\ Among(d, t)
                => ~SameQuestion(c, d) \/ c = d
  BY DEF Among, AsksOnce
<1>6. ASSUME NEW m \in DOMAIN one
      PROVE  \E l \in DOMAIN two : two[l] = one[m]
  <2>1. Among(one[m], s) \/ Among(one[m], t)
    BY <1>2
  <2>2. PICK l \in DOMAIN two : SameQuestion(two[l], one[m])
    BY <1>3, <2>1
  <2>3. Among(two[l], s) \/ Among(two[l], t)
    BY <1>3
  <2>4. SameQuestion(one[m], two[l])
    BY <2>2 DEF SameQuestion
  <2>5. CASE one[m].source = "human"
    BY <1>3, <2>1, <2>2, <2>5
  <2>6. CASE two[l].source = "human"
    <3>1. one[m] = two[l]
      BY <1>2, <2>3, <2>4, <2>6
    <3>2. QED
      BY <3>1
  <2>7. CASE one[m].source # "human" /\ two[l].source # "human"
    <3>1. ~Beats(one[m], two[l]) /\ ~Beats(two[l], one[m])
      BY <2>7 DEF Beats
    <3>2. Clash(one[m], two[l]) /\ Clash(two[l], one[m])
      BY <2>2, <2>4, <3>1 DEF Clash
    <3>3. one[m] = two[l]
      BY <1>4, <1>5, <2>1, <2>3, <2>4, <3>2
    <3>4. QED
      BY <3>3
  <2>8. QED
    BY <2>5, <2>6, <2>7
<1>7. ToSet(one) \subseteq ToSet(two)
  BY <1>6 DEF ToSet
<1>8. QED
  BY <1>1, <1>7, Zenon
=============================================================================
